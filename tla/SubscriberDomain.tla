---- MODULE SubscriberDomain ----
(***************************************************************************)
(* The vocabulary of internal/subscriber: statuses and the transition      *)
(* table, the rows the store keeps, the keys that name them, and the HTTP  *)
(* codes the handlers give to the domain's errors.                         *)
(*                                                                         *)
(* An identifier is the number in it: "sub_7" is 7 in table "subscribers". *)
(* The payload of a row (name, price, MSISDN, quantity...) is abstracted   *)
(* to `by`, the serial number of the request that supplied it.             *)
(***************************************************************************)
EXTENDS Naturals

StatusActive     == "active"
StatusSuspended  == "suspended"
StatusTerminated == "terminated"

Status == {StatusActive, StatusSuspended, StatusTerminated}

\* allowedTransitions, the map of maps, as the set of its pairs.
allowedTransitions ==
    { <<StatusActive,     StatusSuspended>>,
      <<StatusActive,     StatusTerminated>>,
      <<StatusSuspended,  StatusActive>>,
      <<StatusSuspended,  StatusTerminated>>,
      <<StatusTerminated, StatusActive>> }

Allowed(from, to) == <<from, to>> \in allowedTransitions

----
Table == {"plans", "subscribers", "usage"}

PlanRow       == [id : Nat, by : Nat]
SubscriberRow == [id : Nat, by : Nat, plan : Nat, status : Status]
UsageRow      == [id : Nat, by : Nat, sub : Nat]

\* The primary keys in use in a table.
Ids(rows) == {r.id : r \in rows}

\* INSERT ... or m[key] = row: the row with this key becomes r.
Put(rows, r) == {x \in rows : x.id # r.id} \cup {r}

Key(t, n) == [table |-> t, id |-> n]

----
\* httpStatusForError, on the sentinel errors the store and the service return.
httpStatusForError(err) ==
    CASE err = "nil"                        -> 200
      [] err = "ErrNotFound"                -> 404
      [] err = "ErrValidation"              -> 400
      [] err = "ErrInvalidStatusTransition" -> 409
      [] OTHER                              -> 500

====
