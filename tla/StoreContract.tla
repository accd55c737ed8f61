---- MODULE StoreContract ----
(***************************************************************************)
(* What a subscriber.Store promises the service, with no handler, worker   *)
(* or counter in sight: rows appear one at a time under keys that were     *)
(* free, an update replaces one existing subscriber under its own key, and *)
(* the only way out is the wipe of a whole table.  SubscriberService with  *)
(* the SQLite backend implements it.                                       *)
(***************************************************************************)
EXTENDS SubscriberDomain, TLAPS

VARIABLES plans, subscribers, usage

tables == <<plans, subscribers, usage>>

\* new is old and one more row, whose key was free.
OneMore(old, new) ==
    \E r \in new : /\ r.id \notin Ids(old)
                   /\ new = old \cup {r}

Init ==
    /\ plans = {}
    /\ subscribers = {}
    /\ usage = {}

InsertPlan ==
    /\ OneMore(plans, plans')
    /\ UNCHANGED <<subscribers, usage>>

\* A new subscriber is an active one.
InsertSubscriber ==
    /\ OneMore(subscribers, subscribers')
    /\ \A s \in subscribers' \ subscribers : s.status = StatusActive
    /\ UNCHANGED <<plans, usage>>

InsertUsage ==
    /\ OneMore(usage, usage')
    /\ UNCHANGED <<plans, subscribers>>

\* UPDATE ... WHERE id = ?
ReplaceSubscriber ==
    /\ \E s \in subscribers, r \in subscribers' :
           /\ r.id = s.id
           /\ subscribers' = (subscribers \ {s}) \cup {r}
    /\ UNCHANGED <<plans, usage>>

\* DELETE FROM table.
WipePlans ==
    /\ plans' = {}
    /\ UNCHANGED <<subscribers, usage>>

WipeSubscribers ==
    /\ subscribers' = {}
    /\ UNCHANGED <<plans, usage>>

WipeUsage ==
    /\ usage' = {}
    /\ UNCHANGED <<plans, subscribers>>

Next ==
    \/ InsertPlan
    \/ InsertSubscriber
    \/ InsertUsage
    \/ ReplaceSubscriber
    \/ WipePlans
    \/ WipeSubscribers
    \/ WipeUsage

Spec == Init /\ [][Next]_tables

----
\* At most one row of a table has a given key (PRIMARY KEY in the schema).
OnePerKey(rows) == \A r, s \in rows : r.id = s.id => r = s

\* The contract keeps every key unique: GetPlan and GetSubscriber, which
\* read "the" row of an id, are functions.
KeysUnique ==
    /\ OnePerKey(plans)
    /\ OnePerKey(subscribers)
    /\ OnePerKey(usage)

\* An insert under a free key keeps the keys of a table apart.
LEMMA OneMoreKeeps ==
    ASSUME NEW old, NEW new, OnePerKey(old), OneMore(old, new)
    PROVE  OnePerKey(new)
BY DEF OnePerKey, OneMore, Ids

\* Every step of the contract keeps every key unique.
LEMMA NextKeysUnique ==
    ASSUME KeysUnique, [Next]_tables
    PROVE  KeysUnique'
<1> USE DEF KeysUnique
<1>1. CASE InsertPlan
  BY <1>1, OneMoreKeeps DEF InsertPlan
<1>2. CASE InsertSubscriber
  BY <1>2, OneMoreKeeps DEF InsertSubscriber
<1>3. CASE InsertUsage
  BY <1>3, OneMoreKeeps DEF InsertUsage
<1>4. CASE ReplaceSubscriber
  BY <1>4 DEF ReplaceSubscriber, OnePerKey
<1>5. CASE WipePlans \/ WipeSubscribers \/ WipeUsage
  BY <1>5 DEF WipePlans, WipeSubscribers, WipeUsage, OnePerKey
<1>6. CASE UNCHANGED tables
  BY <1>6 DEF tables
<1>7. QED
  BY <1>1, <1>2, <1>3, <1>4, <1>5, <1>6 DEF Next

\* A store that keeps the contract has at most one row per key, so a lookup
\* by id is a function, as GetPlan and GetSubscriber take it to be.
THEOREM ContractKeepsKeys == Spec => []KeysUnique
<1>1. Init => KeysUnique
  BY DEF Init, KeysUnique, OnePerKey
<1>2. QED
  BY <1>1, NextKeysUnique, PTL DEF Spec

====
