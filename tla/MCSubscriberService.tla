---- MODULE MCSubscriberService ----
(***************************************************************************)
(* Instances of SubscriberService small enough for TLC.  In a fresh process*)
(* the first plan is 1, a subscriber created next is 2, its usage is 3; a   *)
(* race on the counter makes a subscriber 1 as well.                        *)
(***************************************************************************)
EXTENDS SubscriberService, TLC

Req(op, ref, to, body) == [op |-> op, ref |-> ref, to |-> to, body |-> body]

CreateAPlan       == Req("createPlan", 0, "unknown", "ok")
CreateAnInvalidPlan == Req("createPlan", 0, "unknown", "rejected")
Subscribe         == Req("createSubscriber", 1, "unknown", "ok")
SubscribeInvalid  == Req("createSubscriber", 1, "unknown", "rejected")
Move(n, to)       == Req("changeStatus", n, to, "ok")
Use(n)            == Req("addUsage", n, "unknown", "ok")
ResetAll          == Req("reset", 0, "unknown", "ok")

\* Everything a client can ask of plan 1 and subscriber 2.
AllRequests ==
    {CreateAPlan, CreateAnInvalidPlan, Subscribe, SubscribeInvalid,
     Move(2, StatusSuspended), Move(2, StatusTerminated), Move(2, StatusActive),
     Move(2, "unknown"), Use(2), ResetAll}

\* The goroutines are alike.
Interchangeable == Permutations(Workers)

====
