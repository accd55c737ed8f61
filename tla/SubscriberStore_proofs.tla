---- MODULE SubscriberStore_proofs ----
(***************************************************************************)
(* With the SQLite backend the tables keep what was stored, as the store   *)
(* contract promises, and the counters of GET /metrics never run ahead of  *)
(* them; for any number of goroutines, requests, failures and restarts.    *)
(***************************************************************************)
EXTENDS SubscriberService_proofs, FiniteSetTheorems

\* A stored create is found, and no two have one key.  Each half needs the
\* other: a key is refused because its row is still there.
Durable == CreatedDurable /\ CreatedUnique

\* With SQLite no goroutine is at a step of the memory store.
LEMMA SqliteSteps ==
    ASSUME Backend = "sqlite", FlowOK, NEW w \in Workers
    PROVE  pc[w] \notin {"assign", "append", "detached"}
BY DEF FlowOK

\* An INSERT that the primary key does not refuse only adds.
LEMMA PutFresh ==
    ASSUME NEW rows, NEW r, r.id \notin Ids(rows)
    PROVE  Put(rows, r) = rows \cup {r}
BY DEF Put, Ids

\* Writing back the row that was read, under the id it was read by, leaves
\* the set of ids as it is.
LEMMA WriteBackIds ==
    ASSUME NEW w \in Workers, WriteBack(w), ~RowGone(w),
           NEW s, s.id = call[w].ref, copy[w] = {s}
    PROVE  Ids(subscribers') = Ids(subscribers)
BY DEF WriteBack, RowGone, Ids

\* What a create promises is what it stored, under a key nobody was promised.
LEMMA PromiseFresh ==
    ASSUME Durable, NEW t \in Table, NEW w \in Workers,
           Promise(w, t),
           \A e \in promised : e.table = t => e.id # num[w]
    PROVE  CreatedUnique'
BY DEF Durable, CreatedUnique, Promise

\* While tables grow, what is stored stays stored; so a create that stores
\* what it promises keeps everything stored.
LEMMA StoredGrows ==
    ASSUME plans \subseteq plans', usage \subseteq usage',
           Ids(subscribers) \subseteq Ids(subscribers'),
           NEW e, Stored(e)
    PROVE  Stored(e)'
BY DEF Stored

\* A create promises a row that is there, and takes nothing from earlier promises.
LEMMA PromiseStored ==
    ASSUME plans \subseteq plans', usage \subseteq usage',
           Ids(subscribers) \subseteq Ids(subscribers'),
           CreatedDurable,
           NEW new, promised' = promised \cup {new}, Stored(new)'
    PROVE  CreatedDurable'
<1> SUFFICES ASSUME NEW e \in promised'
             PROVE  Stored(e)'
  BY DEF CreatedDurable
<1>1. CASE e \in promised
  BY <1>1, StoredGrows DEF CreatedDurable
<1>2. CASE e = new
  BY <1>2
<1>3. QED
  BY <1>1, <1>2

\* Nothing moves: nothing is lost.
LEMMA StoredUntouched == CreatedDurable /\ UNCHANGED <<tables, promised>> => CreatedDurable'
BY DEF CreatedDurable, Stored, tables

\* What the tables promise depends on the tables alone.
LEMMA DurableUntouched == Durable /\ UNCHANGED <<tables, promised>> => Durable'
BY StoredUntouched DEF Durable, CreatedUnique

\* Every step keeps the promises and the keys.
LEMMA NextDurable ==
    ASSUME Backend = "sqlite", TypeInv, Durable, [Next]_vars
    PROVE  Durable'
<1> USE DEF history
<1>0. LocalsOK /\ SharedOK /\ FlowOK /\ CopyOK
  BY DEF TypeInv
<1>1. ASSUME NEW w \in Workers, CreatePlan(w)
      PROVE  Durable'
  <2>1. /\ plans' = plans \cup {NewPlan(w)}
        /\ NewPlan(w).id \notin Ids(plans)
    BY <1>1, PutFresh DEF CreatePlan, Conflict, NewPlan
  <2>2. \A e \in promised : e.table = "plans" => e.id # num[w]
    <3> SUFFICES ASSUME NEW e \in promised, e.table = "plans"
                 PROVE  e.id # num[w]
      OBVIOUS
    <3>1. [id |-> e.id, by |-> e.by] \in plans
      BY DEF Durable, CreatedDurable, Stored
    <3>2. e.id \in Ids(plans)
      BY <3>1, [id |-> e.id, by |-> e.by].id = e.id DEF Ids
    <3>3. QED
      BY <2>1, <3>2 DEF NewPlan
  <2>3. CreatedUnique'
    BY <1>1, <2>2, PromiseFresh DEF CreatePlan, Table
  <2>4. CreatedDurable'
    <3>0. PICK new : new = [table |-> "plans", id |-> num[w], by |-> call[w].by]
      OBVIOUS
    <3>1. promised' = promised \cup {new}
      BY <1>1, <3>0 DEF CreatePlan, Promise
    <3>2. new.table = "plans" /\ [id |-> new.id, by |-> new.by] \in plans'
      BY <2>1, <3>0 DEF NewPlan
    <3>3. Stored(new)'
      BY <3>2 DEF Stored
    <3>4. QED
      BY <1>1, <2>1, <3>1, <3>3, PromiseStored DEF CreatePlan, Durable
  <2>5. QED
    BY <2>3, <2>4 DEF Durable
<1>2. ASSUME NEW w \in Workers, CreateSubscriber(w)
      PROVE  Durable'
  <2>1. /\ subscribers' = subscribers \cup {NewSubscriber(w)}
        /\ NewSubscriber(w).id = num[w]
        /\ num[w] \notin Ids(subscribers)
    BY <1>2, PutFresh DEF CreateSubscriber, Conflict, NewSubscriber
  <2>2. \A e \in promised : e.table = "subscribers" => e.id # num[w]
    BY <2>1 DEF Durable, CreatedDurable, Stored
  <2>3. CreatedUnique'
    BY <1>2, <2>2, PromiseFresh DEF CreateSubscriber, Table
  <2>4. Ids(subscribers') = Ids(subscribers) \cup {num[w]}
    BY <2>1 DEF Ids
  <2>5. CreatedDurable'
    <3>0. PICK new : new = [table |-> "subscribers", id |-> num[w], by |-> call[w].by]
      OBVIOUS
    <3>1. promised' = promised \cup {new}
      BY <1>2, <3>0 DEF CreateSubscriber, Promise
    <3>2. Stored(new)'
      BY <2>4, <3>0 DEF Stored
    <3>3. QED
      BY <1>2, <2>4, <3>1, <3>2, PromiseStored DEF CreateSubscriber, Durable
  <2>6. QED
    BY <2>3, <2>5 DEF Durable
<1>3. ASSUME NEW w \in Workers, AddUsage(w)
      PROVE  Durable'
  <2>1. /\ usage' = usage \cup {NewUsage(w)}
        /\ NewUsage(w).id = num[w]
        /\ NewUsage(w).by = call[w].by
        /\ num[w] \notin Ids(usage)
    BY <1>3, PutFresh DEF AddUsage, Conflict, NewUsage
  <2>2. \A e \in promised : e.table = "usage" => e.id # num[w]
    BY <2>1 DEF Durable, CreatedDurable, Stored, Ids
  <2>3. CreatedUnique'
    BY <1>3, <2>2, PromiseFresh DEF AddUsage, Table
  <2>4. CreatedDurable'
    <3>0. PICK new : new = [table |-> "usage", id |-> num[w], by |-> call[w].by]
      OBVIOUS
    <3>1. promised' = promised \cup {new}
      BY <1>3, <3>0 DEF AddUsage, Promise
    <3>2. Stored(new)'
      BY <2>1, <3>0 DEF Stored
    <3>3. QED
      BY <1>3, <2>1, <3>1, <3>2, PromiseStored DEF AddUsage, Durable
  <2>5. QED
    BY <2>3, <2>4 DEF Durable
<1>4. ASSUME NEW w \in Workers, UpdateSubscriber(w)
      PROVE  Durable'
  <2>1. PICK s \in SubscriberRow : s.id = call[w].ref /\ copy[w] = {s}
    BY <1>0, <1>4 DEF UpdateSubscriber, CopyOK
  <2>2. Ids(subscribers') = Ids(subscribers)
    BY <1>4, <2>1, WriteBackIds DEF UpdateSubscriber
  <2>3. QED
    BY <1>4, <2>2 DEF UpdateSubscriber, Durable, CreatedDurable, CreatedUnique, Stored
<1>5. ASSUME NEW w \in Workers, Wipe(w)
      PROVE  Durable'
  <2>1. PICK t :
            /\ plans' = Wiped(t, "plans", plans)
            /\ subscribers' = Wiped(t, "subscribers", subscribers)
            /\ usage' = Wiped(t, "usage", usage)
            /\ promised' = {e \in promised : e.table # t}
    BY <1>5 DEF Wipe
  <2>2. QED
    BY <2>1 DEF Wiped, Durable, CreatedDurable, CreatedUnique, Stored
<1>6. ASSUME Restart
      PROVE  Durable'
  BY <1>6, DurableUntouched DEF Restart, Kept, tables
<1>7. ASSUME NEW w \in Workers,
             \/ Refuse(w) \/ Arrive(w) \/ CheckPlan(w) \/ CheckSubscriber(w)
             \/ ReadStatus(w) \/ NextIDLoad(w) \/ NextIDStore(w) \/ NextIDRead(w)
             \/ RefuseDuplicate(w) \/ LoadUsage(w) \/ AppendDetached(w) \/ Reply(w)
             \/ UpdateMissing(w) \/ UpdateChecked(w) \/ FailStatement(w)
      PROVE  Durable'
  BY <1>7, DurableUntouched
     DEF Refuse, Arrive, CheckPlan, CheckSubscriber, ReadStatus, NextIDLoad, NextIDStore,
         NextIDRead, RefuseDuplicate, LoadUsage, AppendDetached, Reply, UpdateMissing,
         UpdateChecked, FailStatement
<1>8. ASSUME NEW w \in Workers, AppendUsage(w) \/ UpdateAssign(w)
      PROVE  FALSE
  BY <1>0, <1>8, SqliteSteps DEF AppendUsage, UpdateAssign
<1>9. ASSUME UNCHANGED vars
      PROVE  Durable'
  BY <1>9, DurableUntouched DEF vars
<1>10. QED
  BY <1>1, <1>2, <1>3, <1>4, <1>5, <1>6, <1>7, <1>8, <1>9 DEF Next, Serve, Quiet

\* So they always hold.
LEMMA DurableInvariant ==
    ASSUME Backend = "sqlite"
    PROVE  Spec => []Durable
<1>1. Init => Durable
  BY DEF Init, Durable, CreatedDurable, CreatedUnique
<1>2. TypeInv /\ Durable /\ [Next]_vars => Durable'
  BY NextDurable
<1>3. QED
  BY <1>1, <1>2, TypeInvInvariant, PTL DEF Spec

\* With SQLite, what a create stored is there until its table is wiped,
\* whatever races, fails or restarts.
THEOREM CreatesAreDurable ==
    ASSUME Backend = "sqlite"
    PROVE  Spec => []CreatedDurable
<1>1. Durable => CreatedDurable
  BY DEF Durable
<1>2. QED
  BY <1>1, DurableInvariant, PTL

\* With SQLite, two creates never share a key between two wipes, although
\* nextID may hand out one number twice.
THEOREM CreatesAreUnique ==
    ASSUME Backend = "sqlite"
    PROVE  Spec => []CreatedUnique
<1>1. Durable => CreatedUnique
  BY DEF Durable
<1>2. QED
  BY <1>1, DurableInvariant, PTL

----------------------------------------------------------------------------
\* The tables evolve as StoreContract allows, whatever the goroutines do.

\* INSERT under a free key is the contract's insert.
LEMMA PutOneMore ==
    ASSUME NEW rows, NEW r, r.id \notin Ids(rows)
    PROVE  Contract!OneMore(rows, Put(rows, r))
<1>1. Put(rows, r) = rows \cup {r}
  BY DEF Put, Ids
<1>2. QED
  BY <1>1 DEF Contract!OneMore, Contract!Ids, Ids

\* Every step of the service is a step of the contract, or leaves the tables
\* alone.  The type invariant says what a PATCH writes back: one row, under
\* the id it was read by; that it replaces one row needs unique keys.
LEMMA NextImplements ==
    ASSUME Backend = "sqlite", TypeInv, Contract!KeysUnique, [Next]_vars
    PROVE  [Contract!Next]_(Contract!tables)
<1> USE DEF Contract!tables
<1>0. LocalsOK /\ SharedOK /\ FlowOK /\ CopyOK
  BY DEF TypeInv
<1>1. ASSUME NEW w \in Workers, CreatePlan(w)
      PROVE  Contract!InsertPlan
  <2>1. NewPlan(w).id \notin Ids(plans)
    BY <1>1 DEF CreatePlan, Conflict, NewPlan
  <2>2. QED
    BY <1>1, <2>1, PutOneMore DEF CreatePlan, Contract!InsertPlan
<1>2. ASSUME NEW w \in Workers, CreateSubscriber(w)
      PROVE  Contract!InsertSubscriber
  <2>1. /\ NewSubscriber(w).id \notin Ids(subscribers)
        /\ NewSubscriber(w).status = StatusActive
    BY <1>2 DEF CreateSubscriber, Conflict, NewSubscriber
  <2>2. \A s \in subscribers' \ subscribers : s.status = StatusActive
    BY <1>2, <2>1 DEF CreateSubscriber, Put
  <2>3. QED
    BY <1>2, <2>1, <2>2, PutOneMore
     DEF CreateSubscriber, Contract!InsertSubscriber, Contract!StatusActive, StatusActive
<1>3. ASSUME NEW w \in Workers, AddUsage(w)
      PROVE  Contract!InsertUsage
  <2>1. NewUsage(w).id \notin Ids(usage)
    BY <1>3 DEF AddUsage, Conflict, NewUsage
  <2>2. QED
    BY <1>3, <2>1, PutOneMore DEF AddUsage, Contract!InsertUsage
<1>4. ASSUME NEW w \in Workers, UpdateSubscriber(w)
      PROVE  Contract!ReplaceSubscriber
  <2>1. PICK r \in SubscriberRow : r.id = call[w].ref /\ copy[w] = {r}
    BY <1>0, <1>4 DEF UpdateSubscriber, CopyOK
  <2>2. PICK s \in subscribers : s.id = call[w].ref
    BY <1>4 DEF UpdateSubscriber, RowGone, Ids
  <2>3. {x \in subscribers : x.id # call[w].ref} = subscribers \ {s}
    BY <2>2 DEF Contract!KeysUnique, Contract!OnePerKey
  <2>4. subscribers' = (subscribers \ {s}) \cup {r}
    BY <1>4, <2>1, <2>3 DEF UpdateSubscriber, WriteBack
  <2>5. QED
    BY <1>4, <2>1, <2>2, <2>4 DEF UpdateSubscriber, Contract!ReplaceSubscriber
<1>5. ASSUME NEW w \in Workers, Wipe(w)
      PROVE  \/ Contract!WipePlans \/ Contract!WipeSubscribers \/ Contract!WipeUsage
             \/ UNCHANGED Contract!tables
  BY <1>5 DEF Wipe, Wiped, Contract!WipePlans, Contract!WipeSubscribers, Contract!WipeUsage
<1>6. ASSUME Restart
      PROVE  UNCHANGED Contract!tables
  BY <1>6 DEF Restart, Kept
<1>7. ASSUME NEW w \in Workers,
             \/ Refuse(w) \/ Arrive(w) \/ CheckPlan(w) \/ CheckSubscriber(w)
             \/ ReadStatus(w) \/ NextIDLoad(w) \/ NextIDStore(w) \/ NextIDRead(w)
             \/ RefuseDuplicate(w) \/ LoadUsage(w) \/ AppendDetached(w) \/ Reply(w)
             \/ UpdateMissing(w) \/ UpdateChecked(w) \/ FailStatement(w)
      PROVE  UNCHANGED Contract!tables
  BY <1>7
     DEF Refuse, Arrive, CheckPlan, CheckSubscriber, ReadStatus, NextIDLoad, NextIDStore,
         NextIDRead, RefuseDuplicate, LoadUsage, AppendDetached, Reply, UpdateMissing,
         UpdateChecked, FailStatement, tables
<1>8. ASSUME NEW w \in Workers, AppendUsage(w) \/ UpdateAssign(w)
      PROVE  FALSE
  BY <1>0, <1>8 DEF FlowOK, AppendUsage, UpdateAssign
<1>9. ASSUME UNCHANGED vars
      PROVE  UNCHANGED Contract!tables
  BY <1>9 DEF vars, tables
<1>10. QED
  BY <1>1, <1>2, <1>3, <1>4, <1>5, <1>6, <1>7, <1>8, <1>9
     DEF Next, Serve, Quiet, Contract!Next

\* The SQLite service implements the contract, for any number of goroutines,
\* races on the counter, failed statements and restarts.
THEOREM ServiceImplementsContract ==
    ASSUME Backend = "sqlite"
    PROVE  Spec => ImplementsContract
<1>1. Init => Contract!Init /\ Contract!KeysUnique
  BY DEF Init, Contract!Init, Contract!KeysUnique, Contract!OnePerKey
<1>2. TypeInv /\ Contract!KeysUnique /\ [Next]_vars => [Contract!Next]_(Contract!tables)
  BY NextImplements
<1>3. Contract!KeysUnique /\ [Contract!Next]_(Contract!tables) => Contract!KeysUnique'
  BY Contract!NextKeysUnique
<1>4. QED
  BY <1>1, <1>2, <1>3, TypeInvInvariant, PTL DEF Spec, ImplementsContract, Contract!Spec

----------------------------------------------------------------------------
\* What GET /metrics has counted is in the tables, until a reset.

\* The tables whose creates GET /metrics counts, and their counters.
CountedTable == {"subscribers", "usage"}

CountOf(t) == IF t = "subscribers" THEN metrics.subscribersCreated ELSE metrics.usageIngested

\* Goroutines that stored a row of t and have not counted it yet.
Replying(t) == {w \in Workers : pc[w] = "reply" /\ TableOf(call[w].op) = t}

AddedIds(t) == {n \in Ids(Rows(t)) : Key(t, n) \notin carried}

\* Every count, past or about to come, has a row of its own.
CountBacked(t) ==
    /\ IsFiniteSet(Replying(t))
    /\ CountOf(t) + Cardinality(Replying(t)) <= Cardinality(AddedIds(t))

CarriedKept == \A t \in Table : \A n : Key(t, n) \in carried => n \in Ids(Rows(t))

MetricsInv ==
    /\ \A t \in CountedTable : IsFiniteSet(Rows(t))
    /\ "reset" \notin events => CarriedKept /\ \A t \in CountedTable : CountBacked(t)

\* A finite table has no more ids than rows.
LEMMA IdsOfRows ==
    ASSUME NEW rows, IsFiniteSet(rows)
    PROVE  IsFiniteSet(Ids(rows)) /\ Cardinality(Ids(rows)) <= Cardinality(rows)
<1> DEFINE f == [r \in rows |-> r.id]
<1>1. f \in Surjection(rows, Ids(rows))
  BY DEF Surjection, Ids
<1>2. QED
  BY <1>1, FS_Surjection

\* The rows a process added can be counted, and their ids are no more than they.
LEMMA AddedFinite ==
    ASSUME NEW t, IsFiniteSet(Rows(t))
    PROVE  /\ IsFiniteSet(AddedIds(t)) /\ Cardinality(AddedIds(t)) \in Nat
           /\ IsFiniteSet(Added(t)) /\ Cardinality(Added(t)) \in Nat
           /\ Cardinality(AddedIds(t)) <= Cardinality(Added(t))
<1>1. AddedIds(t) = Ids(Added(t))
  BY DEF AddedIds, Added, Ids
<1>2. IsFiniteSet(Added(t))
  BY FS_Subset DEF Added
<1>3. QED
  BY <1>1, <1>2, IdsOfRows, FS_CardinalityType

\* Nothing counted, nothing added: the claim only gets weaker.
LEMMA CountQuiet ==
    ASSUME NEW t \in CountedTable, CountBacked(t), CountOf(t) \in Nat,
           CountOf(t)' = CountOf(t), Replying(t)' \subseteq Replying(t),
           AddedIds(t)' = AddedIds(t), IsFiniteSet(Rows(t))
    PROVE  CountBacked(t)'
<1>1. /\ IsFiniteSet(Replying(t)')
      /\ Cardinality(Replying(t)') <= Cardinality(Replying(t))
      /\ Cardinality(Replying(t)') \in Nat /\ Cardinality(Replying(t)) \in Nat
  BY FS_Subset, FS_CardinalityType DEF CountBacked
<1>2. Cardinality(AddedIds(t)) \in Nat
  BY AddedFinite
<1>3. QED
  BY <1>1, <1>2 DEF CountBacked

\* A row is added and its count is due.
LEMMA CountDue ==
    ASSUME NEW t \in CountedTable, CountBacked(t), CountOf(t) \in Nat,
           NEW w, NEW n, IsFiniteSet(Rows(t)),
           CountOf(t)' = CountOf(t), Replying(t)' = Replying(t) \cup {w},
           AddedIds(t)' = AddedIds(t) \cup {n}, n \notin AddedIds(t)
    PROVE  CountBacked(t)'
<1>0. IsFiniteSet(Replying(t)) /\ Cardinality(Replying(t)) \in Nat
  BY FS_CardinalityType DEF CountBacked
<1>1. /\ IsFiniteSet(Replying(t)')
      /\ Cardinality(Replying(t)') <= Cardinality(Replying(t)) + 1
      /\ Cardinality(Replying(t)') \in Nat
  <2>1. /\ IsFiniteSet(Replying(t) \cup {w})
        /\ Cardinality(Replying(t) \cup {w}) =
              IF w \in Replying(t) THEN Cardinality(Replying(t))
                                   ELSE Cardinality(Replying(t)) + 1
    BY <1>0, FS_AddElement
  <2>2. QED
    BY <1>0, <2>1
<1>2. /\ Cardinality(AddedIds(t)) \in Nat
      /\ Cardinality(AddedIds(t)') = Cardinality(AddedIds(t)) + 1
  BY AddedFinite, FS_AddElement
<1>3. QED
  BY <1>0, <1>1, <1>2 DEF CountBacked

\* It is counted, by the goroutine that owed the count.
LEMMA CountPaid ==
    ASSUME NEW t \in CountedTable, CountBacked(t), CountOf(t) \in Nat,
           NEW w \in Replying(t), IsFiniteSet(Rows(t)),
           CountOf(t)' = CountOf(t) + 1, Replying(t)' = Replying(t) \ {w},
           AddedIds(t)' = AddedIds(t)
    PROVE  CountBacked(t)'
<1>1. /\ IsFiniteSet(Replying(t)')
      /\ Cardinality(Replying(t)') = Cardinality(Replying(t)) - 1
      /\ Cardinality(Replying(t)') \in Nat /\ Cardinality(Replying(t)) \in Nat
  BY FS_RemoveElement, FS_CardinalityType DEF CountBacked
<1>2. Cardinality(AddedIds(t)) \in Nat
  BY AddedFinite
<1>3. QED
  BY <1>1, <1>2 DEF CountBacked


\* A step that touches no table and no counter, and after which no more
\* goroutines are at their reply, keeps everything.
Uncounted ==
    /\ UNCHANGED <<tables, metrics, carried>>
    /\ "reset" \notin events' => "reset" \notin events
    /\ \A t \in CountedTable : Replying(t)' \subseteq Replying(t)

\* A counter of creations is a number.
LEMMA CountNat ==
    ASSUME SharedOK, NEW t
    PROVE  CountOf(t) \in Nat
BY DEF SharedOK, CountOf

\* A step that adds no row and counts none leaves the account as it was.
LEMMA UncountedMetrics ==
    ASSUME SharedOK, MetricsInv, Uncounted
    PROVE  MetricsInv'
<1>1. \A t : Rows(t)' = Rows(t) /\ CountOf(t)' = CountOf(t) /\ AddedIds(t)' = AddedIds(t)
  BY DEF Uncounted, Rows, tables, CountOf, AddedIds
<1>2. CarriedKept => CarriedKept'
  BY <1>1 DEF CarriedKept, Uncounted
<1>3. ASSUME NEW t \in CountedTable, CountBacked(t)
      PROVE  CountBacked(t)'
  BY <1>1, <1>3, CountQuiet, CountNat DEF Uncounted, MetricsInv
<1>4. QED
  BY <1>1, <1>2, <1>3 DEF MetricsInv, Uncounted

\* A goroutine that goes to any step but the reply owes no count.
LEMMA MovedUncounted ==
    ASSUME LocalsOK, NEW w \in Workers, pc'[w] # "reply",
           \A v \in Workers \ {w} :
               call'[v] = call[v] /\ (pc'[v] = pc[v] \/ pc'[v] = "detached")
    PROVE  \A t \in CountedTable : Replying(t)' \subseteq Replying(t)
BY DEF Replying

\* A row stored in t by w, which then owes its count.
LEMMA StoredCounted ==
    ASSUME LocalsOK, SharedOK, FlowOK, MetricsInv, NEW w \in Workers, NEW t \in Table,
           pc[w] = "write", TableOf(call[w].op) = t, Proceed(w, "reply"),
           NEW r, r.id \notin Ids(Rows(t)), Rows(t)' = Rows(t) \cup {r},
           \A x \in Table \ {t} : Rows(x)' = Rows(x),
           UNCHANGED <<metrics, carried, events>>
    PROVE  MetricsInv'
<1>1. /\ pc'[w] = "reply" /\ call' = call
      /\ \A v \in Workers \ {w} : pc'[v] = pc[v]
  BY DEF LocalsOK, Proceed, Goto
<1>2. CountedTable \subseteq Table
  BY DEF CountedTable, Table
<1>3. \A x \in CountedTable : IsFiniteSet(Rows(x)')
  BY <1>2, FS_AddElement DEF MetricsInv
<1>4. \A x \in CountedTable : CountOf(x)' = CountOf(x) /\ CountOf(x) \in Nat
  BY CountNat DEF CountOf
<1>5. SUFFICES ASSUME "reset" \notin events
               PROVE  CarriedKept' /\ \A x \in CountedTable : CountBacked(x)'
  BY <1>3 DEF MetricsInv
<1>6. CarriedKept /\ \A x \in CountedTable : CountBacked(x)
  BY <1>5 DEF MetricsInv
<1>7. Ids(Rows(t)') = Ids(Rows(t)) \cup {r.id}
  BY DEF Ids
<1>8. CarriedKept'
  BY <1>6, <1>7 DEF CarriedKept
<1>9. ASSUME NEW x \in CountedTable
      PROVE  CountBacked(x)'
  <2>1. CASE x # t
    <3>1. AddedIds(x)' = AddedIds(x)
      BY <1>2, <2>1 DEF AddedIds
    <3>2. Replying(x)' \subseteq Replying(x)
      BY <1>1, <2>1 DEF Replying
    <3>3. QED
      BY <1>4, <1>6, <3>1, <3>2, CountQuiet DEF MetricsInv
  <2>2. CASE x = t
    <3>1. Key(t, r.id) \notin carried
      BY <1>6 DEF CarriedKept
    <3>2. AddedIds(t)' = AddedIds(t) \cup {r.id} /\ r.id \notin AddedIds(t)
      BY <1>7, <3>1 DEF AddedIds
    <3>3. Replying(t)' = Replying(t) \cup {w}
      BY <1>1 DEF Replying
    <3>4. QED
      BY <1>4, <1>6, <2>2, <3>2, <3>3, CountDue DEF MetricsInv
  <2>3. QED
    BY <2>1, <2>2
<1>10. QED
  BY <1>8, <1>9


\* One step of the service with the SQLite store.
LEMMA NextMetrics ==
    ASSUME Backend = "sqlite", TypeInv, MetricsInv, [Next]_vars
    PROVE  MetricsInv'
<1> USE DEF history
<1>0. LocalsOK /\ SharedOK /\ FlowOK /\ CopyOK
  BY DEF TypeInv
<1>1. ASSUME NEW w \in Workers, NEW code, Answer(w, code),
             UNCHANGED <<tables, metrics, carried, events>>
      PROVE  MetricsInv'
  <2>1. pc'[w] = "idle" /\ \A v \in Workers \ {w} : pc'[v] = pc[v] /\ call'[v] = call[v]
    BY <1>0, <1>1 DEF LocalsOK, Answer, Goto
  <2>2. Uncounted
    BY <1>0, <1>1, <2>1, MovedUncounted DEF Uncounted
  <2>3. QED
    BY <1>0, <2>2, UncountedMetrics
<1>2. ASSUME NEW w \in Workers, NEW step, step # "reply", Proceed(w, step),
             UNCHANGED <<tables, metrics, carried, events>>
      PROVE  MetricsInv'
  <2>1. pc'[w] = step /\ \A v \in Workers \ {w} : pc'[v] = pc[v] /\ call'[v] = call[v]
    BY <1>0, <1>2 DEF LocalsOK, Proceed, Goto
  <2>2. Uncounted
    BY <1>0, <1>2, <2>1, MovedUncounted DEF Uncounted
  <2>3. QED
    BY <1>0, <2>2, UncountedMetrics
<1>3. ASSUME NEW w \in Workers, Arrive(w)
      PROVE  MetricsInv'
  <2>1. PICK r \in Requests :
            /\ Goto(w, Entry(r.op))
            /\ call' = [call EXCEPT ![w] =
                   [op |-> r.op, ref |-> r.ref, to |-> r.to, body |-> r.body,
                    by |-> arrivals + 1]]
    BY <1>3 DEF Arrive
  <2>2. pc'[w] # "reply" /\ \A v \in Workers \ {w} : pc'[v] = pc[v] /\ call'[v] = call[v]
    BY <1>0, <2>1 DEF LocalsOK, Goto, Entry
  <2>3. /\ UNCHANGED <<tables, metrics, carried>>
        /\ "reset" \notin events' => "reset" \notin events
    BY <1>3 DEF Arrive
  <2>4. Uncounted
    BY <1>0, <2>2, <2>3, MovedUncounted DEF Uncounted
  <2>5. QED
    BY <1>0, <2>4, UncountedMetrics
<1>4. ASSUME NEW w \in Workers, CheckPlan(w) \/ CheckSubscriber(w)
      PROVE  MetricsInv'
  BY <1>1, <1>2, <1>4 DEF CheckPlan, CheckSubscriber, Fail
<1>5. ASSUME NEW w \in Workers,
             ReadStatus(w) \/ NextIDLoad(w) \/ NextIDStore(w) \/ NextIDRead(w)
      PROVE  MetricsInv'
  <2>1. CASE \E err : Fail(w, err) /\ UNCHANGED <<tables, metrics, carried, events>>
    BY <1>1, <2>1 DEF Fail
  <2>2. CASE ~ \E err : Fail(w, err) /\ UNCHANGED <<tables, metrics, carried, events>>
    <3>1. PICK step \in {"write", "store", "read"} :
              Goto(w, step) /\ UNCHANGED <<call, tables, metrics, carried>>
      BY <1>5, <2>2 DEF ReadStatus, NextIDLoad, NextIDStore, NextIDRead, Proceed
    <3>2. pc'[w] # "reply" /\ \A v \in Workers \ {w} : pc'[v] = pc[v] /\ call'[v] = call[v]
      BY <1>0, <3>1 DEF LocalsOK, Goto
    <3>3. "reset" \notin events' => "reset" \notin events
      BY <1>5 DEF ReadStatus, NextIDLoad, NextIDStore, NextIDRead
    <3>4. Uncounted
      BY <1>0, <3>1, <3>2, <3>3, MovedUncounted DEF Uncounted
    <3>5. QED
      BY <1>0, <3>4, UncountedMetrics
  <2>3. QED
    BY <2>1, <2>2
<1>6. ASSUME NEW w \in Workers, CreatePlan(w)
      PROVE  MetricsInv'
  <2>1. /\ NewPlan(w).id \notin Ids(Rows("plans"))
        /\ Rows("plans")' = Rows("plans") \cup {NewPlan(w)}
    BY <1>6 DEF CreatePlan, Conflict, NewPlan, Put, Rows, Ids
  <2>2. TableOf(call[w].op) = "plans"
    BY <1>6 DEF CreatePlan, At, TableOf
  <2>3. \A x \in Table \ {"plans"} : Rows(x)' = Rows(x)
    BY <1>6 DEF CreatePlan, Rows, Table
  <2>4. /\ pc[w] = "write" /\ Proceed(w, "reply") /\ "plans" \in Table
        /\ UNCHANGED <<metrics, carried, events>>
    BY <1>6 DEF CreatePlan, At, Table
  <2>5. QED
    BY <1>0, <2>1, <2>2, <2>3, <2>4, StoredCounted
<1>7. ASSUME NEW w \in Workers, CreateSubscriber(w)
      PROVE  MetricsInv'
  <2>1. /\ NewSubscriber(w).id \notin Ids(Rows("subscribers"))
        /\ Rows("subscribers")' = Rows("subscribers") \cup {NewSubscriber(w)}
    BY <1>7 DEF CreateSubscriber, Conflict, NewSubscriber, Put, Rows, Ids
  <2>2. TableOf(call[w].op) = "subscribers"
    BY <1>7 DEF CreateSubscriber, At, TableOf
  <2>3. \A x \in Table \ {"subscribers"} : Rows(x)' = Rows(x)
    BY <1>7 DEF CreateSubscriber, Rows, Table
  <2>4. /\ pc[w] = "write" /\ Proceed(w, "reply") /\ "subscribers" \in Table
        /\ UNCHANGED <<metrics, carried, events>>
    BY <1>7 DEF CreateSubscriber, At, Table
  <2>5. QED
    BY <1>0, <2>1, <2>2, <2>3, <2>4, StoredCounted
<1>8. ASSUME NEW w \in Workers, AddUsage(w)
      PROVE  MetricsInv'
  <2>1. /\ NewUsage(w).id \notin Ids(Rows("usage"))
        /\ Rows("usage")' = Rows("usage") \cup {NewUsage(w)}
    BY <1>8 DEF AddUsage, Conflict, NewUsage, Put, Rows, Ids
  <2>2. TableOf(call[w].op) = "usage"
    BY <1>8 DEF AddUsage, At, TableOf
  <2>3. \A x \in Table \ {"usage"} : Rows(x)' = Rows(x)
    BY <1>8 DEF AddUsage, Rows, Table
  <2>4. /\ pc[w] = "write" /\ Proceed(w, "reply") /\ "usage" \in Table
        /\ UNCHANGED <<metrics, carried, events>>
    BY <1>8 DEF AddUsage, At, Table
  <2>5. QED
    BY <1>0, <2>1, <2>2, <2>3, <2>4, StoredCounted
<1>9. ASSUME NEW w \in Workers, UpdateSubscriber(w)
      PROVE  MetricsInv'
  <2>1. PICK s \in SubscriberRow : s.id = call[w].ref /\ copy[w] = {s}
    BY <1>0, <1>9 DEF UpdateSubscriber, CopyOK
  <2>2. Ids(subscribers') = Ids(subscribers)
    BY <1>9, <2>1, WriteBackIds DEF UpdateSubscriber
  <2>3. \A x : Ids(Rows(x)') = Ids(Rows(x))
    BY <1>9, <2>2 DEF UpdateSubscriber, Rows
  <2>4. /\ pc'[w] = "idle" /\ \A v \in Workers \ {w} : pc'[v] = pc[v] /\ call'[v] = call[v]
        /\ UNCHANGED <<metrics, carried, events>>
    BY <1>0, <1>9 DEF UpdateSubscriber, LocalsOK, Fail, Answer, Goto
  <2>5. \A x \in CountedTable : Replying(x)' \subseteq Replying(x)
    BY <1>0, <2>4, MovedUncounted
  <2>6. /\ IsFiniteSet(subscribers')
        /\ \A x \in CountedTable : IsFiniteSet(Rows(x)')
    <3>1. IsFiniteSet(subscribers)
      BY DEF MetricsInv, CountedTable, Rows
    <3>2. {x \in subscribers : x.id # call[w].ref} \in SUBSET subscribers
      OBVIOUS
    <3>3. IsFiniteSet({x \in subscribers : x.id # call[w].ref})
      BY <3>1, <3>2, FS_Subset
    <3>4. IsFiniteSet({x \in subscribers : x.id # call[w].ref} \cup {s})
      BY <3>3, FS_AddElement
    <3>5. IsFiniteSet(subscribers')
      BY <1>9, <2>1, <3>4 DEF UpdateSubscriber, WriteBack
    <3>6. QED
      BY <1>9, <3>5 DEF UpdateSubscriber, MetricsInv, CountedTable, Rows
  <2>7. \A x : AddedIds(x)' = AddedIds(x) /\ CountOf(x)' = CountOf(x)
    BY <2>3, <2>4 DEF AddedIds, CountOf
  <2>8. CarriedKept => CarriedKept'
    BY <2>3, <2>4 DEF CarriedKept
  <2>9. ASSUME NEW x \in CountedTable, CountBacked(x)
        PROVE  CountBacked(x)'
    BY <1>0, <2>5, <2>7, <2>9, CountQuiet, CountNat DEF MetricsInv
  <2>10. QED
    BY <2>4, <2>6, <2>8, <2>9 DEF MetricsInv
<1>10. ASSUME NEW w \in Workers, Reply(w)
       PROVE  MetricsInv'
  <2>1. /\ pc[w] = "reply" /\ pc'[w] = "idle"
        /\ \A v \in Workers \ {w} : pc'[v] = pc[v] /\ call'[v] = call[v]
        /\ UNCHANGED <<tables, carried, events>> /\ metrics' = Counted(w)
    BY <1>0, <1>10 DEF Reply, LocalsOK, Answer, Goto
  <2>2. \A x : Rows(x)' = Rows(x) /\ AddedIds(x)' = AddedIds(x)
    BY <2>1 DEF Rows, tables, AddedIds
  <2>3. CarriedKept => CarriedKept'
    BY <2>1, <2>2 DEF CarriedKept
  <2>4. call[w].op \in Creates
    BY <1>0, <2>1 DEF FlowOK
  <2>5. ASSUME NEW x \in CountedTable, CountBacked(x)
        PROVE  CountBacked(x)'
    <3>1. CountOf(x) \in Nat /\ IsFiniteSet(Rows(x))
      BY <1>0, CountNat DEF MetricsInv
    <3>2. Replying(x)' = Replying(x) \ {w}
      BY <2>1 DEF Replying
    <3>3. CASE TableOf(call[w].op) = x
      <4>1. w \in Replying(x)
        BY <2>1, <3>3 DEF Replying
      <4>2. CountOf(x)' = CountOf(x) + 1
        BY <1>0, <2>1, <2>4, <3>3 DEF CountOf, Counted, SharedOK, TableOf, Creates, CountedTable
      <4>3. QED
        BY <2>2, <2>5, <3>1, <3>2, <4>1, <4>2, CountPaid
    <3>4. CASE TableOf(call[w].op) # x
      <4>1. CountOf(x)' = CountOf(x)
        BY <1>0, <2>1, <2>4, <3>4 DEF CountOf, Counted, SharedOK, TableOf, Creates, CountedTable
      <4>2. QED
        BY <2>2, <2>5, <3>1, <3>2, <4>1, CountQuiet
    <3>5. QED
      BY <3>3, <3>4
  <2>6. QED
    BY <2>1, <2>2, <2>3, <2>5 DEF MetricsInv
<1>11. ASSUME NEW w \in Workers, Wipe(w)
       PROVE  MetricsInv'
  <2>1. \A x : Rows(x)' \subseteq Rows(x)
    BY <1>11 DEF Wipe, Wiped, Rows
  <2>2. \A x \in CountedTable : IsFiniteSet(Rows(x)')
    BY <2>1, FS_Subset DEF MetricsInv
  <2>3. "reset" \in events'
    BY <1>11 DEF Wipe
  <2>4. QED
    BY <2>2, <2>3 DEF MetricsInv
<1>12. ASSUME Restart
       PROVE  MetricsInv'
  <2>1. /\ \A x : Rows(x)' = Rows(x)
        /\ \A w \in Workers : pc'[w] = "idle"
        /\ metrics' = NoMetrics
    BY <1>12 DEF Restart, Kept, Rows
  <2>2. \A x \in CountedTable : IsFiniteSet(Rows(x))
    BY DEF MetricsInv
  <2>3. CarriedKept'
    BY <1>12 DEF Restart, KeysOf, Key, CarriedKept, Rows, Table
  <2>4. ASSUME NEW x \in CountedTable
        PROVE  CountBacked(x)'
    <3>1. Replying(x)' = {}
      BY <2>1 DEF Replying
    <3>2. CountOf(x)' = 0
      BY <2>1 DEF CountOf, NoMetrics
    <3>3. AddedIds(x)' \subseteq Ids(Rows(x))
      BY <2>1 DEF AddedIds
    <3>4. Cardinality(AddedIds(x)') \in Nat
      BY <2>2, <3>3, IdsOfRows, FS_Subset, FS_CardinalityType
    <3>5. QED
      BY <3>1, <3>2, <3>4, FS_EmptySet DEF CountBacked
  <2>5. QED
    BY <2>1, <2>2, <2>3, <2>4 DEF MetricsInv
<1>13. ASSUME NEW w \in Workers,
              \/ Refuse(w) \/ RefuseDuplicate(w) \/ UpdateMissing(w) \/ FailStatement(w)
       PROVE  MetricsInv'
  BY <1>1, <1>13 DEF Refuse, RefuseDuplicate, UpdateMissing, FailStatement, Fail
<1>14. ASSUME NEW w \in Workers,
              \/ LoadUsage(w) \/ AppendUsage(w) \/ AppendDetached(w)
              \/ UpdateChecked(w) \/ UpdateAssign(w)
       PROVE  FALSE
  BY <1>0, <1>14, SqliteSteps
     DEF LoadUsage, AppendUsage, AppendDetached, UpdateChecked, UpdateAssign
<1>15. ASSUME UNCHANGED vars
       PROVE  MetricsInv'
  <2>1. Uncounted
    BY <1>15 DEF vars, locals, Uncounted, Replying
  <2>2. QED
    BY <1>0, <2>1, UncountedMetrics
<1>16. QED
  BY <1>3, <1>4, <1>5, <1>6, <1>7, <1>8, <1>9, <1>10, <1>11, <1>12, <1>13, <1>14, <1>15
     DEF Next, Serve, Quiet

\* With SQLite, and until a reset, the creation counters of GET /metrics never
\* claim more rows than this process added, whatever races, fails or restarts.
THEOREM MetricsAreBacked ==
    ASSUME Backend = "sqlite"
    PROVE  Spec => []MetricsBackedByRows
<1>1. Init => MetricsInv
  <2>1. SUFFICES ASSUME Init
                 PROVE  MetricsInv
    OBVIOUS
  <2>2. \A t : Rows(t) = {} /\ Replying(t) = {} /\ AddedIds(t) = {} /\ CountOf(t) = 0
    BY <2>1 DEF Init, Rows, Replying, AddedIds, Ids, CountOf, NoMetrics
  <2>3. QED
    BY <2>1, <2>2, FS_EmptySet DEF Init, MetricsInv, CarriedKept, CountBacked
<1>2. TypeInv /\ MetricsInv /\ [Next]_vars => MetricsInv'
  BY NextMetrics
<1>3. TypeInv /\ MetricsInv => MetricsBackedByRows
  <2> SUFFICES ASSUME TypeInv, MetricsInv, "reset" \notin events
               PROVE  /\ metrics.subscribersCreated <= Cardinality(Added("subscribers"))
                      /\ metrics.usageIngested <= Cardinality(Added("usage"))
    BY DEF MetricsBackedByRows
  <2>1. ASSUME NEW t \in CountedTable
        PROVE  CountOf(t) <= Cardinality(Added(t))
    <3>1. CountBacked(t) /\ IsFiniteSet(Rows(t))
      BY DEF MetricsInv
    <3>2. CountOf(t) \in Nat /\ Cardinality(Replying(t)) \in Nat
      BY <3>1, CountNat, FS_CardinalityType DEF TypeInv, CountBacked
    <3>3. QED
      BY <3>1, <3>2, AddedFinite DEF CountBacked
  <2>2. QED
    BY <2>1 DEF CountedTable, CountOf
<1>4. QED
  BY <1>1, <1>2, <1>3, TypeInvInvariant, PTL DEF Spec

====
