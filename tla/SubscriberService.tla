---- MODULE SubscriberService ----
(***************************************************************************)
(* The core of the service: the handlers that change state                 *)
(* (internal/httpapi), the use cases behind them (internal/subscriber) and *)
(* the store under those (internal/store), run by concurrent goroutines.   *)
(*                                                                         *)
(* A worker is a goroutine of net/http with one request in hand.  One      *)
(* action is the code between two accesses to shared memory: a statement   *)
(* of the SQLite store is one access; the memory store has no mutex, so    *)
(* there a check and the write after it are two.  The number of a fresh    *)
(* identifier comes from a package variable that is incremented without    *)
(* synchronisation: its load, its store and the read that formats it are   *)
(* three steps.                                                            *)
(***************************************************************************)
EXTENDS SubscriberDomain, FiniteSets

CONSTANTS
    Workers,        \* goroutines that serve requests
    Backend,        \* the STORE setting: "sqlite" or "memory"
    Requests,       \* the requests clients send
    MaxRequests,    \* bound: requests that ever arrive
    MaxRestarts     \* bound: times the process dies and comes back

Op == {"createPlan", "createSubscriber", "changeStatus", "addUsage", "reset"}

\* ref: the plan a new subscriber names, or the subscriber in the path.
\* to: the status of a PATCH ("unknown": none of the three, or no PATCH).
\* body: "malformed" is refused by the handler before any use case runs,
\* "rejected" by the validation at the top of the use case.
Request == [op : Op, ref : Nat, to : Status \cup {"unknown"},
            body : {"ok", "malformed", "rejected"}]

ASSUME BackendAssumption  == Backend \in {"sqlite", "memory"}
ASSUME RequestsAssumption == Requests \subseteq Request
ASSUME BoundsAssumption   == MaxRequests \in Nat /\ MaxRestarts \in Nat

VARIABLES
    pc,             \* where each goroutine is
    call,           \* the request it serves, and the serial of its arrival
    num,            \* its copy of the counter, then its new identifier
    copy,           \* the rows it has read and will write back
    resp,           \* the last status code it answered
    idCounter,      \* subscriber.idCounter
    plans, subscribers, usage,
    metrics,        \* the two counters the write handlers increment
    arrivals, restarts,
    promised,       \* history: rows a create stored, until their table is wiped
    carried,        \* history: keys the store held when the process started
    stale,          \* history: PATCHes whose row was rewritten since they read it
    events          \* history: "overlap", "race", "reset" once they happened

locals  == <<pc, call, num, copy, resp>>
tables  == <<plans, subscribers, usage>>
history == <<promised, carried, stale, events>>
counts  == <<arrivals, restarts>>
vars    == <<locals, idCounter, tables, metrics, counts, history>>

WipeStep == {"wipe1", "wipe2", "wipe3"}

Step == {"idle", "check", "load", "store", "read", "write",
         "assign", "append", "detached", "reply"} \cup WipeStep

NoCall == [op |-> "reset", ref |-> 0, to |-> "unknown", body |-> "ok", by |-> 0]

NoMetrics == [subscribersCreated |-> 0, usageIngested |-> 0]

Init ==
    /\ pc = [w \in Workers |-> "idle"]
    /\ call = [w \in Workers |-> NoCall]
    /\ num = [w \in Workers |-> 0]
    /\ copy = [w \in Workers |-> {}]
    /\ resp = [w \in Workers |-> 0]
    /\ idCounter = 0
    /\ plans = {} /\ subscribers = {} /\ usage = {}
    /\ metrics = NoMetrics
    /\ arrivals = 0 /\ restarts = 0
    /\ promised = {} /\ carried = {} /\ stale = {} /\ events = {}

----
At(w, step, ops) == pc[w] = step /\ call[w].op \in ops

Goto(w, step) == pc' = [pc EXCEPT ![w] = step]

Proceed(w, step) == Goto(w, step) /\ UNCHANGED <<call, num, copy, resp>>

\* The handler writes its response and returns: its locals are gone.
Answer(w, code) ==
    /\ Goto(w, "idle")
    /\ resp' = [resp EXCEPT ![w] = code]
    /\ call' = [call EXCEPT ![w] = NoCall]
    /\ num' = [num EXCEPT ![w] = 0]
    /\ copy' = [copy EXCEPT ![w] = {}]

Fail(w, err) == Answer(w, httpStatusForError(err))

\* Where a request enters the use case that serves it: creating a plan and
\* the two others that create draw an identifier, after a lookup if they
\* name another row; a reset goes to the tables at once.
Entry(op) ==
    CASE op = "createPlan" -> "load"
      [] op = "reset"      -> "wipe1"
      [] OTHER             -> "check"

\* Answered 400 before anything shared is touched.
Refused(r) ==
    \/ r.body = "malformed"
    \/ r.body = "rejected" /\ r.op = "createPlan"

Refuse(w) ==
    /\ pc[w] = "idle"
    /\ arrivals < MaxRequests
    /\ \E r \in Requests : Refused(r)
    /\ Fail(w, "ErrValidation")
    /\ arrivals' = arrivals + 1
    /\ UNCHANGED <<idCounter, tables, metrics, restarts, history>>

\* The body of the request has been read and decoded.  That may take for ever,
\* no ReadTimeout is set, but until then the handler has touched nothing shared.
Arrive(w) ==
    /\ pc[w] = "idle"
    /\ arrivals < MaxRequests
    /\ \E r \in Requests :
           /\ ~Refused(r)
           /\ Goto(w, Entry(r.op))
           /\ call' = [call EXCEPT ![w] =
                  [op |-> r.op, ref |-> r.ref, to |-> r.to, body |-> r.body,
                   by |-> arrivals + 1]]
    /\ arrivals' = arrivals + 1
    /\ events' = IF \E v \in Workers \ {w} : pc[v] # "idle"
                 THEN events \cup {"overlap"} ELSE events
    /\ resp' = [resp EXCEPT ![w] = 0]
    /\ UNCHANGED <<num, copy, idCounter, tables, metrics, restarts,
                   promised, carried, stale>>

----
\* Mutant: the handler forgets the plan lookup.
CheckPlanSkipped(w) ==
    /\ At(w, "check", {"createSubscriber"})
    /\ Proceed(w, "load")
    /\ UNCHANGED <<idCounter, tables, metrics, counts, history>>

\* handleCreateSubscriber looks the plan up, then the use case validates.
CheckPlan(w) ==
    /\ At(w, "check", {"createSubscriber"})
    /\ \/ /\ call[w].ref \notin Ids(plans)
          /\ Fail(w, "ErrNotFound")
       \/ /\ call[w].ref \in Ids(plans)
          /\ call[w].body = "rejected"
          /\ Fail(w, "ErrValidation")
       \/ /\ call[w].ref \in Ids(plans)
          /\ call[w].body # "rejected"
          /\ Proceed(w, "load")
    /\ UNCHANGED <<idCounter, tables, metrics, counts, history>>

\* Service.AddUsage looks the subscriber up; the kind was checked before it.
CheckSubscriber(w) ==
    /\ At(w, "check", {"addUsage"})
    /\ \/ /\ call[w].ref \notin Ids(subscribers)
          /\ Fail(w, "ErrNotFound")
       \/ /\ call[w].ref \in Ids(subscribers)
          /\ Proceed(w, "load")
    /\ UNCHANGED <<idCounter, tables, metrics, counts, history>>

\* Mutant: the use case validates the status and not the transition.
ReadStatusUnjudged(w) ==
    /\ At(w, "check", {"changeStatus"})
    /\ \/ /\ call[w].ref \notin Ids(subscribers)
          /\ Fail(w, "ErrNotFound")
       \/ \E s \in subscribers :
             /\ s.id = call[w].ref
             /\ \/ /\ call[w].to \notin Status
                   /\ Fail(w, "ErrValidation")
                \/ /\ call[w].to \in Status
                   /\ copy' = [copy EXCEPT ![w] = {[s EXCEPT !.status = call[w].to]}]
                   /\ Goto(w, "write")
                   /\ UNCHANGED <<call, num, resp>>
    /\ UNCHANGED <<idCounter, tables, metrics, counts, history>>

\* Service.ChangeStatus reads the whole row, judges the transition on it,
\* and keeps the copy it will write back.
ReadStatus(w) ==
    /\ At(w, "check", {"changeStatus"})
    /\ \/ /\ call[w].ref \notin Ids(subscribers)
          /\ Fail(w, "ErrNotFound")
       \/ \E s \in subscribers :
             /\ s.id = call[w].ref
             /\ \/ /\ call[w].to \notin Status
                   /\ Fail(w, "ErrValidation")
                \/ /\ call[w].to \in Status
                   /\ ~Allowed(s.status, call[w].to)
                   /\ Fail(w, "ErrInvalidStatusTransition")
                \/ /\ call[w].to \in Status
                   /\ Allowed(s.status, call[w].to)
                   /\ copy' = [copy EXCEPT ![w] = {[s EXCEPT !.status = call[w].to]}]
                   /\ Goto(w, "write")
                   /\ UNCHANGED <<call, num, resp>>
    /\ UNCHANGED <<idCounter, tables, metrics, counts, history>>

----
\* nextID: `idCounter++` is a load and a store ...
NextIDLoad(w) ==
    /\ pc[w] = "load"
    /\ num' = [num EXCEPT ![w] = idCounter]
    /\ Goto(w, "store")
    /\ events' = IF \E v \in Workers \ {w} : pc[v] \in {"store", "read"}
                 THEN events \cup {"race"} ELSE events
    /\ UNCHANGED <<call, copy, resp, idCounter, tables, metrics, counts,
                   promised, carried, stale>>

\* Mutant: the counter is stored back without the increment.
NextIDStoreLost(w) ==
    /\ pc[w] = "store"
    /\ idCounter' = num[w]
    /\ Proceed(w, "read")
    /\ UNCHANGED <<tables, metrics, counts, history>>

NextIDStore(w) ==
    /\ pc[w] = "store"
    /\ idCounter' = num[w] + 1
    /\ Proceed(w, "read")
    /\ UNCHANGED <<tables, metrics, counts, history>>

\* ... and Sprintf gets the value just stored or the variable read again.
NextIDRead(w) ==
    /\ pc[w] = "read"
    /\ \E n \in {num[w] + 1, idCounter} : num' = [num EXCEPT ![w] = n]
    /\ Goto(w, "write")
    /\ UNCHANGED <<call, copy, resp, idCounter, tables, metrics, counts, history>>

----
\* Mutant: INSERT OR REPLACE.
NeverConflict(rows, n) == FALSE

\* The SQLite store refuses an INSERT whose primary key is taken.
Conflict(rows, n) == Backend = "sqlite" /\ n \in Ids(rows)

Promise(w, t) == promised' =
    promised \cup {[table |-> t, id |-> num[w], by |-> call[w].by]}

\* Mutant: the status of a new subscriber comes from the request.
NewSubscriberAsAsked(w) ==
    [id |-> num[w], by |-> call[w].by, plan |-> call[w].ref, status |-> call[w].to]

NewPlan(w) == [id |-> num[w], by |-> call[w].by]

NewSubscriber(w) ==
    [id |-> num[w], by |-> call[w].by, plan |-> call[w].ref, status |-> StatusActive]

NewUsage(w) == [id |-> num[w], by |-> call[w].by, sub |-> call[w].ref]

RefuseDuplicate(w) ==
    /\ pc[w] = "write"
    /\ \/ call[w].op = "createPlan"       /\ Conflict(plans, num[w])
       \/ call[w].op = "createSubscriber" /\ Conflict(subscribers, num[w])
       \/ call[w].op = "addUsage"         /\ Conflict(usage, num[w])
    /\ Fail(w, "constraint")
    /\ UNCHANGED <<idCounter, tables, metrics, counts, history>>

CreatePlan(w) ==
    /\ At(w, "write", {"createPlan"})
    /\ ~Conflict(plans, num[w])
    /\ plans' = Put(plans, NewPlan(w))
    /\ Promise(w, "plans")
    /\ Proceed(w, "reply")
    /\ UNCHANGED <<idCounter, subscribers, usage, metrics, counts, carried, stale, events>>

CreateSubscriber(w) ==
    /\ At(w, "write", {"createSubscriber"})
    /\ ~Conflict(subscribers, num[w])
    /\ subscribers' = Put(subscribers, NewSubscriber(w))
    /\ Promise(w, "subscribers")
    /\ Proceed(w, "reply")
    /\ UNCHANGED <<idCounter, plans, usage, metrics, counts, carried, stale, events>>

AddUsage(w) ==
    /\ Backend = "sqlite"
    /\ At(w, "write", {"addUsage"})
    /\ ~Conflict(usage, num[w])
    /\ usage' = Put(usage, NewUsage(w))
    /\ Promise(w, "usage")
    /\ Proceed(w, "reply")
    /\ UNCHANGED <<idCounter, plans, subscribers, metrics, counts, carried, stale, events>>

\* MemoryStore.AddUsage: the slice of the subscriber is read ...
UsageOf(n) == {u \in usage : u.sub = n}

LoadUsage(w) ==
    /\ Backend = "memory"
    /\ At(w, "write", {"addUsage"})
    /\ copy' = [copy EXCEPT ![w] = UsageOf(call[w].ref)]
    /\ Goto(w, "append")
    /\ UNCHANGED <<call, num, resp, idCounter, tables, metrics, counts, history>>

\* Mutant: the slice is started afresh.
AppendUsageAlone(w) ==
    /\ pc[w] = "append"
    /\ usage' = (usage \ UsageOf(call[w].ref)) \cup {NewUsage(w)}
    /\ Promise(w, "usage")
    /\ Proceed(w, "reply")
    /\ UNCHANGED <<idCounter, plans, subscribers, metrics, counts, carried, stale, events>>

\* ... and the slice with the record appended is put back,
AppendUsage(w) ==
    /\ pc[w] = "append"
    /\ usage' = (usage \ UsageOf(call[w].ref)) \cup copy[w] \cup {NewUsage(w)}
    /\ Promise(w, "usage")
    /\ Proceed(w, "reply")
    /\ UNCHANGED <<idCounter, plans, subscribers, metrics, counts, carried, stale, events>>

\* into the map it was read from: after a Reset, no longer the store's map.
AppendDetached(w) ==
    /\ pc[w] = "detached"
    /\ Proceed(w, "reply")
    /\ UNCHANGED <<idCounter, tables, metrics, counts, history>>

\* Back in the handler: count the creation, answer 201.
Counted(w) ==
    [metrics EXCEPT
        !.subscribersCreated = @ + (IF call[w].op = "createSubscriber" THEN 1 ELSE 0),
        !.usageIngested      = @ + (IF call[w].op = "addUsage" THEN 1 ELSE 0)]

Reply(w) ==
    /\ pc[w] = "reply"
    /\ metrics' = Counted(w)
    /\ Answer(w, 201)
    /\ UNCHANGED <<idCounter, tables, counts, history>>

----
\* Mutant: UPDATE turned into an upsert.
NeverGone(w) == FALSE

\* UpdateSubscriber writes the whole row that was read, under its id.
RowGone(w) == call[w].ref \notin Ids(subscribers)

WriteBack(w) == subscribers' =
    {s \in subscribers : s.id # call[w].ref} \cup copy[w]

Patching(w) == pc[w] = "assign" \/ At(w, "write", {"changeStatus"})

\* w is done with its copy; those still to write back an older one are stale.
Overtake(w, others) == stale' = (stale \ {w}) \cup others

Rivals(w) == {v \in Workers \ {w} : Patching(v) /\ call[v].ref = call[w].ref}

UpdateMissing(w) ==
    /\ At(w, "write", {"changeStatus"})
    /\ RowGone(w)
    /\ Fail(w, "ErrNotFound")
    /\ Overtake(w, {})
    /\ UNCHANGED <<idCounter, tables, metrics, counts, promised, carried, events>>

UpdateSubscriber(w) ==
    /\ Backend = "sqlite"
    /\ At(w, "write", {"changeStatus"})
    /\ ~RowGone(w)
    /\ WriteBack(w)
    /\ \E err \in {"nil", "statement"} : Fail(w, err)
    /\ Overtake(w, Rivals(w))
    /\ UNCHANGED <<idCounter, plans, usage, metrics, counts, promised, carried, events>>

\* The memory store checks, and then assigns whatever happened in between.
UpdateChecked(w) ==
    /\ Backend = "memory"
    /\ At(w, "write", {"changeStatus"})
    /\ ~RowGone(w)
    /\ Proceed(w, "assign")
    /\ UNCHANGED <<idCounter, tables, metrics, counts, history>>

UpdateAssign(w) ==
    /\ pc[w] = "assign"
    /\ WriteBack(w)
    /\ Fail(w, "nil")
    /\ Overtake(w, Rivals(w))
    /\ UNCHANGED <<idCounter, plans, usage, metrics, counts, promised, carried, events>>

----
\* Mutants: parents first in SQLite; the memory reset forgets subscribers.
WipeParentsFirst == [wipe1 |-> "plans", wipe2 |-> "subscribers", wipe3 |-> "usage"]
WipeForgetful    == [wipe1 |-> "plans", wipe2 |-> "plans", wipe3 |-> "usage"]

\* Reset empties one table per step, children first in SQLite, parents
\* first in memory.
WipeOrder ==
    IF Backend = "sqlite"
    THEN [wipe1 |-> "usage", wipe2 |-> "subscribers", wipe3 |-> "plans"]
    ELSE [wipe1 |-> "plans", wipe2 |-> "subscribers", wipe3 |-> "usage"]

AfterWipe(step) == IF step = "wipe1" THEN "wipe2" ELSE "wipe3"

Wiped(t, name, rows) == IF t = name THEN {} ELSE rows

\* In memory the table is a new map: an append under way keeps the old one.
Detached(t) ==
    [v \in Workers |->
        IF t = "usage" /\ pc[v] = "append" THEN "detached" ELSE pc[v]]

\* Reset returns after the last table, or when a DELETE fails, even one that
\* took effect; FailStatement is the other.
WipeReturns(w, err) ==
    \/ err = "nil" /\ pc[w] = "wipe3"
    \/ err = "statement" /\ Backend = "sqlite"

Wipe(w) ==
    /\ pc[w] \in WipeStep
    /\ LET t == WipeOrder[pc[w]] IN
          /\ plans' = Wiped(t, "plans", plans)
          /\ subscribers' = Wiped(t, "subscribers", subscribers)
          /\ usage' = Wiped(t, "usage", usage)
          /\ promised' = {e \in promised : e.table # t}
          /\ \/ \E err \in {"nil", "statement"} :
                /\ WipeReturns(w, err)
                /\ pc' = [Detached(t) EXCEPT ![w] = "idle"]
                /\ resp' = [resp EXCEPT ![w] = httpStatusForError(err)]
                /\ call' = [call EXCEPT ![w] = NoCall]
             \/ /\ pc[w] # "wipe3"
                /\ pc' = [Detached(t) EXCEPT ![w] = AfterWipe(pc[w])]
                /\ UNCHANGED <<call, resp>>
    /\ events' = events \cup {"reset"}
    /\ UNCHANGED <<num, copy, idCounter, metrics, counts, carried, stale>>

----
\* A statement of the SQLite store fails (busy, I/O error, the client gone)
\* and the handler answers 500.  It had no effect, unless the error came after
\* the row was inserted: the goroutine is then where the reply would follow.
FailStatement(w) ==
    /\ Backend = "sqlite"
    /\ pc[w] \in {"check", "write", "reply"} \cup WipeStep
    /\ Fail(w, "statement")
    /\ Overtake(w, {})
    /\ UNCHANGED <<idCounter, tables, metrics, counts, promised, carried, events>>

\* The process dies (a deploy, a fatal runtime error) and is started again:
\* what was in memory is gone, the SQLite file is not.
Kept(rows) == IF Backend = "sqlite" THEN rows ELSE {}

KeysOf(t, rows) == {Key(t, n) : n \in Ids(rows)}

Restart ==
    /\ restarts < MaxRestarts
    /\ restarts' = restarts + 1
    /\ pc' = [w \in Workers |-> "idle"]
    /\ call' = [w \in Workers |-> NoCall]
    /\ num' = [w \in Workers |-> 0]
    /\ copy' = [w \in Workers |-> {}]
    /\ resp' = [w \in Workers |-> 0]
    /\ idCounter' = 0
    /\ plans' = Kept(plans)
    /\ subscribers' = Kept(subscribers)
    /\ usage' = Kept(usage)
    /\ metrics' = NoMetrics
    /\ promised' = Kept(promised)
    /\ carried' = KeysOf("plans", plans') \cup KeysOf("subscribers", subscribers')
                      \cup KeysOf("usage", usage')
    /\ stale' = {}
    /\ events' = events \ {"race"}
    /\ UNCHANGED arrivals

----
\* The steps of a goroutine that has a request in hand.
Serve(w) ==
    \/ CheckPlan(w)
    \/ CheckSubscriber(w)
    \/ ReadStatus(w)
    \/ NextIDLoad(w)
    \/ NextIDStore(w)
    \/ NextIDRead(w)
    \/ RefuseDuplicate(w)
    \/ CreatePlan(w)
    \/ CreateSubscriber(w)
    \/ AddUsage(w)
    \/ LoadUsage(w)
    \/ AppendUsage(w)
    \/ AppendDetached(w)
    \/ Reply(w)
    \/ UpdateMissing(w)
    \/ UpdateSubscriber(w)
    \/ UpdateChecked(w)
    \/ UpdateAssign(w)
    \/ Wipe(w)

\* The bound on arrivals is spent and every request is answered.
Quiet ==
    /\ arrivals = MaxRequests
    /\ \A w \in Workers : pc[w] = "idle"
    /\ UNCHANGED vars

Next ==
    \/ \E w \in Workers :
          \/ Refuse(w)
          \/ Arrive(w)
          \/ Serve(w)
          \/ FailStatement(w)
    \/ Restart
    \/ Quiet

Spec == Init /\ [][Next]_vars

----
\* Every variable keeps its type: the rows are rows, the counter and the
\* identifiers drawn from it are numbers, a status is one of the three.
Call == [op : Op, ref : Nat, to : Status \cup {"unknown"},
         body : {"ok", "malformed", "rejected"}, by : Nat]

Entries == [table : Table, id : Nat, by : Nat]

TypeOK ==
    /\ pc \in [Workers -> Step]
    /\ call \in [Workers -> Call]
    /\ num \in [Workers -> Nat]
    /\ copy \in [Workers -> (SUBSET SubscriberRow) \cup (SUBSET UsageRow)]
    /\ resp \in [Workers -> Nat]
    /\ idCounter \in Nat
    /\ plans \subseteq PlanRow
    /\ subscribers \subseteq SubscriberRow
    /\ usage \subseteq UsageRow
    /\ metrics \in [subscribersCreated : Nat, usageIngested : Nat]
    /\ arrivals \in Nat
    /\ restarts \in Nat
    /\ promised \subseteq Entries
    /\ carried \subseteq [table : Table, id : Nat]
    /\ stale \subseteq Workers
    /\ events \subseteq {"overlap", "race", "reset"}

\* A create that was stored stays stored until its table is wiped: whatever
\* other goroutines write, whether statements fail or the process restarts,
\* GetPlan, GetSubscriber and ListUsage still find it, and a plan or a usage
\* record still with the payload it was created with.
Stored(e) ==
    \/ e.table = "plans"       /\ [id |-> e.id, by |-> e.by] \in plans
    \/ e.table = "subscribers" /\ e.id \in Ids(subscribers)
    \/ e.table = "usage"       /\ \E u \in usage : u.id = e.id /\ u.by = e.by

CreatedDurable == \A e \in promised : Stored(e)

\* No two creates are given the same key between two wipes of its table,
\* although two goroutines may draw the same number from idCounter.
CreatedUnique ==
    \A e, f \in promised :
        e.table = f.table /\ e.id = f.id => e = f

\* The key a create is about to store under is free, unless goroutines raced
\* on idCounter in this process or the row was there when it started: nothing
\* else in the service makes nextID repeat itself.
TableOf(op) ==
    CASE op = "createPlan"       -> "plans"
      [] op = "createSubscriber" -> "subscribers"
      [] OTHER                   -> "usage"

Rows(t) ==
    CASE t = "plans" -> plans [] t = "subscribers" -> subscribers [] OTHER -> usage

Creates == {"createPlan", "createSubscriber", "addUsage"}

CollisionExplained ==
    \A w \in Workers :
        At(w, "write", Creates) =>
            LET t == TableOf(call[w].op) IN
                \/ num[w] \notin Ids(Rows(t))
                \/ "race" \in events
                \/ Key(t, num[w]) \in carried

\* Subscribers name plans that exist, usage names subscribers that exist.
References ==
    /\ \A s \in subscribers : s.plan \in Ids(plans)
    /\ \A u \in usage : u.sub \in Ids(subscribers)

\* Without a reset, no interleaving of requests leaves a dangling reference:
\* nothing else deletes, so the check before the insert cannot go stale.
NoDanglingWithoutReset == "reset" \notin events => References

\* Requests served one at a time leave no dangling reference at any moment
\* (in memory: while no reset is under way), not even when a reset fails
\* half way or the process dies in the middle of one.
SerialReferences ==
    "overlap" \notin events /\ (Backend = "memory" => \A w \in Workers : pc[w] = "idle")
        => References

\* A step moves no subscriber against allowedTransitions.
MovesAllowed ==
    \A s \in subscribers, t \in subscribers' :
        s.id = t.id /\ s.by = t.by =>
            s.status = t.status \/ Allowed(s.status, t.status)

\* Only a PATCH that writes back a row another PATCH has rewritten since it was
\* read makes such a move: not an id drawn twice, a row created or brought back
\* under the same key, a failed statement, a reset or a restart in between.
MovesExplained ==
    [][ MovesAllowed \/ \E w \in stale : Patching(w) /\ pc'[w] = "idle" ]_vars

\* Requests served one at a time are durable with any backend, the memory
\* store included.
SerialCreates == "overlap" \notin events => CreatedDurable

\* The creation counters of GET /metrics never claim more rows than this
\* process added (unless a reset removed them).
Added(t) == {r \in Rows(t) : Key(t, r.id) \notin carried}

MetricsBackedByRows ==
    "reset" \notin events =>
        /\ metrics.subscribersCreated <= Cardinality(Added("subscribers"))
        /\ metrics.usageIngested <= Cardinality(Added("usage"))

\* With the SQLite backend the tables evolve as the Store contract allows.
Contract == INSTANCE StoreContract WITH
    plans <- plans, subscribers <- subscribers, usage <- usage

ImplementsContract == Contract!Spec

----
\* Five statements of the comments and the docs that the code does not keep.

\* service.go:145: ChangeStatus "moves a subscriber to a new status if the
\* transition is allowed", whoever else is changing the subscriber.
EveryMoveAllowed == [][MovesAllowed]_vars

\* SCENARIOS.md:60: "a terminated subscriber should not reactivate", not even
\* by requests served one at a time.
TerminatedStays ==
    [][ \A s \in subscribers, t \in subscribers' :
            s.id = t.id /\ s.by = t.by /\ s.status = StatusTerminated
                => t.status = StatusTerminated ]_vars

\* service.go:10: idCounter is "a process-wide monotonic source".
CounterMonotonic == [][idCounter' >= idCounter]_vars

\* service.go:170: AddUsage "records a metered usage event": a record whose
\* create was stored is found until usage is wiped.
UsageRecorded == \A e \in promised : e.table = "usage" => Stored(e)

\* service.go:69: CreatePlan "validates and persists a new plan, generating
\* its ID": the key generated for a validated plan is one it can persist under.
GeneratedKeyFree ==
    \A w \in Workers : At(w, "write", {"createPlan"}) => ~Conflict(plans, num[w])

====
