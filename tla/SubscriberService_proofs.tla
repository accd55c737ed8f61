---- MODULE SubscriberService_proofs ----
(***************************************************************************)
(* Theorems about SubscriberService, for any set of workers, any set of    *)
(* requests, any bounds and either backend: what is typed, and what follows*)
(* from nextID handing out numbers nobody else has.                        *)
(***************************************************************************)
EXTENDS SubscriberService, TLAPS

\* TypeOK in two halves: what the goroutines hold, and what they share.
LocalsOK ==
    /\ pc \in [Workers -> Step]
    /\ call \in [Workers -> Call]
    /\ num \in [Workers -> Nat]
    /\ copy \in [Workers -> (SUBSET SubscriberRow) \cup (SUBSET UsageRow)]
    /\ resp \in [Workers -> Nat]

SharedOK ==
    /\ idCounter \in Nat
    /\ plans \subseteq PlanRow
    /\ subscribers \subseteq SubscriberRow
    /\ usage \subseteq UsageRow
    /\ metrics \in [subscribersCreated : Nat, usageIngested : Nat]
    /\ arrivals \in Nat
    /\ restarts \in Nat
    /\ promised \subseteq Entries
    /\ carried \subseteq [table : Table, id : Nat]
    /\ stale \subseteq Workers
    /\ events \subseteq {"overlap", "race", "reset"}

\* The halves make the whole.
LEMMA TypeHalves == TypeOK <=> LocalsOK /\ SharedOK
BY DEF TypeOK, LocalsOK, SharedOK

\* Every error has a status code.
LEMMA CodeIsNat == \A err : httpStatusForError(err) \in Nat
BY DEF httpStatusForError

\* Returning from a handler leaves every goroutine well typed.
LEMMA AnswerType ==
    ASSUME LocalsOK, NEW w \in Workers, NEW code \in Nat, Answer(w, code)
    PROVE  LocalsOK'
<1>1. NoCall \in Call
  BY DEF NoCall, Call, Op
<1>2. QED
  BY <1>1 DEF LocalsOK, Answer, Goto, Step

\* A failure keeps the types of the locals.
LEMMA FailType ==
    ASSUME LocalsOK, NEW w \in Workers, NEW err, Fail(w, err)
    PROVE  LocalsOK'
BY AnswerType, CodeIsNat DEF Fail

\* So does moving on to another step.
LEMMA ProceedType ==
    ASSUME LocalsOK, NEW w \in Workers, NEW step \in Step, Proceed(w, step)
    PROVE  LocalsOK'
BY DEF LocalsOK, Proceed, Goto

\* The rows a create stores have the types of their tables.
LEMMA NewRows ==
    ASSUME LocalsOK, NEW w \in Workers
    PROVE  /\ NewPlan(w) \in PlanRow
           /\ NewSubscriber(w) \in SubscriberRow
           /\ NewUsage(w) \in UsageRow
           /\ \A t \in Table : [table |-> t, id |-> num[w], by |-> call[w].by] \in Entries
BY DEF LocalsOK, Call, NewPlan, NewSubscriber, NewUsage, PlanRow, SubscriberRow,
       UsageRow, Entries, Status, StatusActive, StatusSuspended, StatusTerminated

\* Steps that only touch the goroutine's locals keep what is shared.
Untouched == UNCHANGED <<idCounter, tables, metrics, counts, history>>

\* And so do the shared variables where nothing touches them.
LEMMA UntouchedType == SharedOK /\ Untouched => SharedOK'
BY DEF SharedOK, Untouched, tables, counts, history

\* Which use case can be at which step.
FlowOK ==
    \A w \in Workers :
        /\ pc[w] = "check" => call[w].op \in {"createSubscriber", "changeStatus", "addUsage"}
        /\ pc[w] \in {"load", "store", "read", "reply"} => call[w].op \in Creates
        /\ pc[w] = "write" => call[w].op # "reset"
        /\ pc[w] = "assign" => call[w].op = "changeStatus" /\ Backend = "memory"
        /\ pc[w] \in {"append", "detached"} => call[w].op = "addUsage" /\ Backend = "memory"

\* What a goroutine about to write back has read: one row, the one its path
\* names, or usage records.
CopyOK ==
    \A w \in Workers :
        /\ pc[w] = "append" => copy[w] \subseteq UsageRow
        /\ pc[w] = "assign" \/ At(w, "write", {"changeStatus"}) =>
               \E s \in SubscriberRow : s.id = call[w].ref /\ copy[w] = {s}

TypeInv == LocalsOK /\ SharedOK /\ FlowOK /\ CopyOK

\* The types hold at the start.
LEMMA InitType == Init => TypeInv
BY DEF Init, TypeInv, LocalsOK, SharedOK, FlowOK, CopyOK, At, Step, Call, NoCall, NoMetrics, Op

\* Every step keeps every variable in its type.
LEMMA NextType == TypeInv /\ [Next]_vars => LocalsOK' /\ SharedOK'
<1> SUFFICES ASSUME LocalsOK, SharedOK, CopyOK, [Next]_vars
             PROVE  LocalsOK' /\ SharedOK'
  BY DEF TypeInv
<1> USE RequestsAssumption DEF tables, counts, history
<1>1. ASSUME NEW w \in Workers, Refuse(w)
      PROVE  LocalsOK' /\ SharedOK'
  <2>1. LocalsOK'
    BY <1>1, FailType DEF Refuse
  <2>2. SharedOK'
    BY <1>1 DEF Refuse, SharedOK
  <2>3. QED
    BY <2>1, <2>2
<1>2. ASSUME NEW w \in Workers, Arrive(w)
      PROVE  LocalsOK' /\ SharedOK'
  <2>1. PICK r \in Requests :
            /\ Goto(w, Entry(r.op))
            /\ call' = [call EXCEPT ![w] =
                   [op |-> r.op, ref |-> r.ref, to |-> r.to, body |-> r.body,
                    by |-> arrivals + 1]]
    BY <1>2 DEF Arrive
  <2>2. r \in Request
    BY <2>1
  <2>3. [op |-> r.op, ref |-> r.ref, to |-> r.to, body |-> r.body,
         by |-> arrivals + 1] \in Call
    BY <2>2 DEF Request, Call, SharedOK
  <2>4. Entry(r.op) \in Step
    BY DEF Entry, Step, WipeStep
  <2>5. LocalsOK'
    BY <1>2, <2>1, <2>3, <2>4 DEF Arrive, LocalsOK, Goto
  <2>6. SharedOK'
    BY <1>2 DEF Arrive, SharedOK
  <2>7. QED
    BY <2>5, <2>6
<1>3. ASSUME NEW w \in Workers, CheckPlan(w)
      PROVE  LocalsOK' /\ SharedOK'
  BY <1>3, FailType, ProceedType, UntouchedType DEF CheckPlan, Untouched, Step
<1>4. ASSUME NEW w \in Workers, CheckSubscriber(w)
      PROVE  LocalsOK' /\ SharedOK'
  BY <1>4, FailType, ProceedType, UntouchedType DEF CheckSubscriber, Untouched, Step
<1>5. ASSUME NEW w \in Workers, ReadStatus(w)
      PROVE  LocalsOK' /\ SharedOK'
  <2>1. SharedOK'
    BY <1>5, UntouchedType DEF ReadStatus, Untouched
  <2>2. CASE \E err : Fail(w, err)
    BY <2>1, <2>2, FailType
  <2>3. CASE ~ \E err : Fail(w, err)
    <3>1. PICK s \in subscribers :
              /\ call[w].to \in Status
              /\ copy' = [copy EXCEPT ![w] = {[s EXCEPT !.status = call[w].to]}]
              /\ Goto(w, "write")
              /\ UNCHANGED <<call, num, resp>>
      BY <1>5, <2>3 DEF ReadStatus
    <3>2. [s EXCEPT !.status = call[w].to] \in SubscriberRow
      BY <3>1 DEF SharedOK, SubscriberRow
    <3>3. copy' \in [Workers -> (SUBSET SubscriberRow) \cup (SUBSET UsageRow)]
      BY <3>1, <3>2 DEF LocalsOK
    <3>4. LocalsOK'
      BY <3>1, <3>3 DEF LocalsOK, Goto, Step
    <3>5. QED
      BY <2>1, <3>4
  <2>4. QED
    BY <2>2, <2>3
<1>6. ASSUME NEW w \in Workers, NextIDLoad(w)
      PROVE  LocalsOK' /\ SharedOK'
  BY <1>6 DEF NextIDLoad, LocalsOK, SharedOK, Goto, Step
<1>7. ASSUME NEW w \in Workers, NextIDStore(w)
      PROVE  LocalsOK' /\ SharedOK'
  <2>1. LocalsOK'
    BY <1>7, ProceedType DEF NextIDStore, Step
  <2>2. SharedOK'
    BY <1>7 DEF NextIDStore, LocalsOK, SharedOK
  <2>3. QED
    BY <2>1, <2>2
<1>8. ASSUME NEW w \in Workers, NextIDRead(w)
      PROVE  LocalsOK' /\ SharedOK'
  <2>1. SharedOK'
    BY <1>8, UntouchedType DEF NextIDRead, Untouched
  <2>2. PICK n \in {num[w] + 1, idCounter} : num' = [num EXCEPT ![w] = n]
    BY <1>8 DEF NextIDRead
  <2>3. n \in Nat
    BY <2>2 DEF LocalsOK, SharedOK
  <2>4. LocalsOK'
    BY <1>8, <2>2, <2>3 DEF NextIDRead, LocalsOK, Goto, Step
  <2>5. QED
    BY <2>1, <2>4
<1>9. ASSUME NEW w \in Workers, RefuseDuplicate(w)
      PROVE  LocalsOK' /\ SharedOK'
  BY <1>9, FailType, UntouchedType DEF RefuseDuplicate, Untouched
<1>10. ASSUME NEW w \in Workers, CreatePlan(w)
       PROVE  LocalsOK' /\ SharedOK'
  <2>1. LocalsOK'
    BY <1>10, ProceedType DEF CreatePlan, Step
  <2>2. SharedOK'
    BY <1>10, NewRows DEF CreatePlan, Promise, Put, SharedOK, Table
  <2>3. QED
    BY <2>1, <2>2
<1>11. ASSUME NEW w \in Workers, CreateSubscriber(w)
       PROVE  LocalsOK' /\ SharedOK'
  <2>1. LocalsOK'
    BY <1>11, ProceedType DEF CreateSubscriber, Step
  <2>2. SharedOK'
    BY <1>11, NewRows DEF CreateSubscriber, Promise, Put, SharedOK, Table
  <2>3. QED
    BY <2>1, <2>2
<1>12. ASSUME NEW w \in Workers, AddUsage(w)
       PROVE  LocalsOK' /\ SharedOK'
  <2>1. LocalsOK'
    BY <1>12, ProceedType DEF AddUsage, Step
  <2>2. SharedOK'
    BY <1>12, NewRows DEF AddUsage, Promise, Put, SharedOK, Table
  <2>3. QED
    BY <2>1, <2>2
<1>13. ASSUME NEW w \in Workers, LoadUsage(w)
       PROVE  LocalsOK' /\ SharedOK'
  <2>1. SharedOK'
    BY <1>13, UntouchedType DEF LoadUsage, Untouched
  <2>2. UsageOf(call[w].ref) \in SUBSET UsageRow
    BY DEF UsageOf, SharedOK
  <2>3. copy' \in [Workers -> (SUBSET SubscriberRow) \cup (SUBSET UsageRow)]
    <3> DEFINE Copies == (SUBSET SubscriberRow) \cup (SUBSET UsageRow)
               read   == UsageOf(call[w].ref)
    <3>1. read \in Copies
      BY <2>2
    <3>2. copy \in [Workers -> Copies] /\ copy' = [copy EXCEPT ![w] = read]
      BY <1>13 DEF LoadUsage, LocalsOK
    <3> HIDE DEF Copies, read
    <3>3. copy' \in [Workers -> Copies]
      BY <3>1, <3>2
    <3>4. QED
      BY <3>3 DEF Copies
  <2>4. LocalsOK'
    BY <1>13, <2>3 DEF LoadUsage, LocalsOK, Goto, Step
  <2>5. QED
    BY <2>1, <2>4
<1>14. ASSUME NEW w \in Workers, AppendUsage(w)
       PROVE  LocalsOK' /\ SharedOK'
  <2>1. LocalsOK'
    BY <1>14, ProceedType DEF AppendUsage, Step
  <2>2. copy[w] \subseteq UsageRow
    BY <1>14 DEF AppendUsage, CopyOK
  <2>3. SharedOK'
    BY <1>14, <2>2, NewRows DEF AppendUsage, Promise, UsageOf, SharedOK, Table
  <2>4. QED
    BY <2>1, <2>3
<1>15. ASSUME NEW w \in Workers, AppendDetached(w)
       PROVE  LocalsOK' /\ SharedOK'
  BY <1>15, ProceedType, UntouchedType DEF AppendDetached, Untouched, Step
<1>16. ASSUME NEW w \in Workers, Reply(w)
       PROVE  LocalsOK' /\ SharedOK'
  <2>1. LocalsOK'
    BY <1>16, AnswerType DEF Reply
  <2>2. Counted(w) \in [subscribersCreated : Nat, usageIngested : Nat]
    <3>1. /\ metrics.subscribersCreated \in Nat
          /\ metrics.usageIngested \in Nat
      BY DEF SharedOK
    <3> DEFINE s == metrics.subscribersCreated
                        + (IF call[w].op = "createSubscriber" THEN 1 ELSE 0)
               u == metrics.usageIngested
                        + (IF call[w].op = "addUsage" THEN 1 ELSE 0)
    <3>2. s \in Nat /\ u \in Nat
      BY <3>1
    <3>3. Counted(w) = [metrics EXCEPT !.subscribersCreated = s, !.usageIngested = u]
      BY DEF Counted
    <3> HIDE DEF s, u
    <3>4. QED
      BY <3>2, <3>3 DEF SharedOK
  <2>3. SharedOK'
    BY <1>16, <2>2 DEF Reply, SharedOK
  <2>4. QED
    BY <2>1, <2>3
<1>17. ASSUME NEW w \in Workers, UpdateMissing(w)
       PROVE  LocalsOK' /\ SharedOK'
  BY <1>17, FailType DEF UpdateMissing, Overtake, SharedOK
<1>18. ASSUME NEW w \in Workers, UpdateSubscriber(w) \/ UpdateAssign(w)
       PROVE  LocalsOK' /\ SharedOK'
  <2>1. LocalsOK'
    BY <1>18, FailType DEF UpdateSubscriber, UpdateAssign
  <2>2. copy[w] \subseteq SubscriberRow
    BY <1>18 DEF UpdateSubscriber, UpdateAssign, CopyOK
  <2>3. stale' \subseteq Workers
    BY <1>18 DEF UpdateSubscriber, UpdateAssign, Overtake, Rivals, SharedOK
  <2>4. SharedOK'
    BY <1>18, <2>2, <2>3 DEF UpdateSubscriber, UpdateAssign, WriteBack, SharedOK
  <2>5. QED
    BY <2>1, <2>4
<1>19. ASSUME NEW w \in Workers, UpdateChecked(w)
       PROVE  LocalsOK' /\ SharedOK'
  BY <1>19, ProceedType, UntouchedType DEF UpdateChecked, Untouched, Step
<1>20. ASSUME NEW w \in Workers, Wipe(w)
       PROVE  LocalsOK' /\ SharedOK'
  <2>1. SharedOK'
    BY <1>20 DEF Wipe, Wiped, SharedOK
  <2>2. NoCall \in Call
    BY DEF NoCall, Call, Op
  <2>3. \A t : Detached(t) \in [Workers -> Step]
    BY DEF Detached, LocalsOK, Step
  <2>4. AfterWipe(pc[w]) \in Step
    BY DEF AfterWipe, Step, WipeStep
  <2>5. PICK t :
            \/ \E err :
               /\ pc' = [Detached(t) EXCEPT ![w] = "idle"]
               /\ resp' = [resp EXCEPT ![w] = httpStatusForError(err)]
               /\ call' = [call EXCEPT ![w] = NoCall]
            \/ /\ pc' = [Detached(t) EXCEPT ![w] = AfterWipe(pc[w])]
               /\ UNCHANGED <<call, resp>>
    BY <1>20 DEF Wipe
  <2>6. pc' \in [Workers -> Step]
    BY <2>3, <2>4, <2>5 DEF Step
  <2>7. call' \in [Workers -> Call] /\ resp' \in [Workers -> Nat]
    BY <2>2, <2>5, CodeIsNat DEF LocalsOK
  <2>8. LocalsOK'
    BY <1>20, <2>6, <2>7 DEF Wipe, LocalsOK
  <2>9. QED
    BY <2>1, <2>8
<1>21. ASSUME NEW w \in Workers, FailStatement(w)
       PROVE  LocalsOK' /\ SharedOK'
  BY <1>21, FailType DEF FailStatement, Overtake, SharedOK
<1>22. ASSUME Restart
       PROVE  LocalsOK' /\ SharedOK'
  <2>1. LocalsOK'
    BY <1>22 DEF Restart, LocalsOK, Step, NoCall, Call, Op
  <2>2. /\ plans' \subseteq PlanRow
        /\ subscribers' \subseteq SubscriberRow
        /\ usage' \subseteq UsageRow
        /\ promised' \subseteq Entries
    BY <1>22 DEF Restart, Kept, SharedOK
  <2>3. carried' \subseteq [table : Table, id : Nat]
    BY <1>22, <2>2 DEF Restart, KeysOf, Key, Ids, Table, PlanRow, SubscriberRow, UsageRow
  <2>4. SharedOK'
    BY <1>22, <2>2, <2>3 DEF Restart, NoMetrics, SharedOK
  <2>5. QED
    BY <2>1, <2>4
<1>23. ASSUME UNCHANGED vars
       PROVE  LocalsOK' /\ SharedOK'
  BY <1>23 DEF vars, locals, LocalsOK, SharedOK
<1>24. QED
  BY <1>1, <1>2, <1>3, <1>4, <1>5, <1>6, <1>7, <1>8, <1>9, <1>10, <1>11, <1>12,
     <1>13, <1>14, <1>15, <1>16, <1>17, <1>18, <1>19, <1>20, <1>21, <1>22, <1>23
     DEF Next, Serve, Quiet

\* Whoever returns is idle; nothing is known of an idle goroutine.
LEMMA AnswerFlow ==
    ASSUME LocalsOK, FlowOK, NEW w \in Workers, NEW code, Answer(w, code)
    PROVE  FlowOK'
BY DEF LocalsOK, FlowOK, Answer, Goto

\* An answer leaves the copies of the others as they are.
LEMMA AnswerCopy ==
    ASSUME LocalsOK, CopyOK, NEW w \in Workers, NEW code, Answer(w, code)
    PROVE  CopyOK'
BY DEF LocalsOK, CopyOK, Answer, Goto, At

\* Every step keeps use cases to their steps, and copies to what was read.
LEMMA NextFlow == TypeInv /\ [Next]_vars => FlowOK' /\ CopyOK'
<1> SUFFICES ASSUME LocalsOK, SharedOK, FlowOK, CopyOK, [Next]_vars
             PROVE  FlowOK' /\ CopyOK'
  BY DEF TypeInv
<1> USE RequestsAssumption
<1>1. ASSUME NEW w \in Workers, NEW err, Fail(w, err)
      PROVE  FlowOK' /\ CopyOK'
  BY <1>1, AnswerFlow, AnswerCopy DEF Fail
<1>2. ASSUME NEW w \in Workers, Arrive(w)
      PROVE  FlowOK' /\ CopyOK'
  <2>1. PICK r \in Requests :
            /\ Goto(w, Entry(r.op))
            /\ call' = [call EXCEPT ![w] =
                   [op |-> r.op, ref |-> r.ref, to |-> r.to, body |-> r.body,
                    by |-> arrivals + 1]]
    BY <1>2 DEF Arrive
  <2>2. r.op \in Op
    BY <2>1 DEF Request
  <2>3. /\ r.op = "createPlan" => Entry(r.op) = "load"
        /\ r.op = "reset" => Entry(r.op) = "wipe1"
        /\ r.op \notin {"createPlan", "reset"} => Entry(r.op) = "check"
    BY <2>2 DEF Entry, Op
  <2>4. FlowOK'
    BY <2>1, <2>2, <2>3 DEF LocalsOK, FlowOK, Goto, Op, Creates
  <2>5. CopyOK'
    BY <1>2, <2>1, <2>2, <2>3 DEF Arrive, LocalsOK, CopyOK, Goto, At, Op
  <2>6. QED
    BY <2>4, <2>5
<1>3. ASSUME NEW w \in Workers, CheckPlan(w) \/ CheckSubscriber(w)
      PROVE  FlowOK' /\ CopyOK'
  <2>1. CASE \E err : Fail(w, err)
    BY <1>1, <2>1
  <2>2. CASE At(w, "check", {"createSubscriber", "addUsage"}) /\ Proceed(w, "load")
    <3>1. FlowOK'
      BY <2>2 DEF LocalsOK, FlowOK, Proceed, Goto, At, Creates
    <3>2. CopyOK'
      BY <2>2 DEF LocalsOK, CopyOK, Proceed, Goto, At
    <3>3. QED
      BY <3>1, <3>2
  <2>3. QED
    BY <1>3, <2>1, <2>2 DEF CheckPlan, CheckSubscriber, At
<1>4. ASSUME NEW w \in Workers, ReadStatus(w)
      PROVE  FlowOK' /\ CopyOK'
  <2>1. CASE \E err : Fail(w, err)
    BY <1>1, <2>1
  <2>2. CASE ~ \E err : Fail(w, err)
    <3>1. PICK s \in subscribers :
              /\ s.id = call[w].ref
              /\ call[w].to \in Status
              /\ copy' = [copy EXCEPT ![w] = {[s EXCEPT !.status = call[w].to]}]
              /\ Goto(w, "write")
              /\ UNCHANGED <<call, num, resp>>
      BY <1>4, <2>2 DEF ReadStatus
    <3>2. /\ [s EXCEPT !.status = call[w].to] \in SubscriberRow
          /\ [s EXCEPT !.status = call[w].to].id = call[w].ref
      BY <3>1 DEF SharedOK, SubscriberRow
    <3>3. FlowOK'
      BY <1>4, <3>1 DEF ReadStatus, LocalsOK, FlowOK, Goto, At
    <3>4. CopyOK'
      BY <3>1, <3>2 DEF LocalsOK, CopyOK, Goto, At
    <3>5. QED
      BY <3>3, <3>4
  <2>3. QED
    BY <2>1, <2>2
<1>5. ASSUME NEW w \in Workers, NextIDLoad(w) \/ NextIDStore(w) \/ NextIDRead(w)
      PROVE  FlowOK' /\ CopyOK'
  <2>1. FlowOK'
    BY <1>5 DEF NextIDLoad, NextIDStore, NextIDRead, Proceed, LocalsOK, FlowOK, Goto, Creates
  <2>2. CopyOK'
    BY <1>5 DEF NextIDLoad, NextIDStore, NextIDRead, Proceed, LocalsOK, FlowOK, CopyOK,
                Goto, At, Creates
  <2>3. QED
    BY <2>1, <2>2
<1>6. ASSUME NEW w \in Workers,
             CreatePlan(w) \/ CreateSubscriber(w) \/ AddUsage(w)
                 \/ AppendUsage(w) \/ AppendDetached(w)
      PROVE  FlowOK' /\ CopyOK'
  <2>1. call[w].op \in Creates /\ Proceed(w, "reply")
    BY <1>6 DEF CreatePlan, CreateSubscriber, AddUsage, AppendUsage, AppendDetached,
                At, Creates, FlowOK
  <2>2. FlowOK'
    BY <2>1 DEF Proceed, LocalsOK, FlowOK, Goto
  <2>3. CopyOK'
    BY <2>1 DEF Proceed, LocalsOK, CopyOK, Goto, At
  <2>4. QED
    BY <2>2, <2>3
<1>7. ASSUME NEW w \in Workers, LoadUsage(w)
      PROVE  FlowOK' /\ CopyOK'
  <2>1. FlowOK'
    BY <1>7 DEF LoadUsage, LocalsOK, FlowOK, Goto, At
  <2>2. UsageOf(call[w].ref) \subseteq UsageRow
    BY DEF UsageOf, SharedOK
  <2>3. CopyOK'
    BY <1>7, <2>2 DEF LoadUsage, LocalsOK, CopyOK, Goto, At
  <2>4. QED
    BY <2>1, <2>3
<1>8. ASSUME NEW w \in Workers, UpdateChecked(w)
      PROVE  FlowOK' /\ CopyOK'
  <2>1. FlowOK'
    BY <1>8 DEF UpdateChecked, Proceed, LocalsOK, FlowOK, Goto, At
  <2>2. CopyOK'
    BY <1>8 DEF UpdateChecked, Proceed, LocalsOK, CopyOK, Goto, At
  <2>3. QED
    BY <2>1, <2>2
<1>9. ASSUME NEW w \in Workers, Wipe(w)
      PROVE  FlowOK' /\ CopyOK'
  <2>1. \A v \in Workers \ {w} : /\ call'[v] = call[v]
                                 /\ \/ pc'[v] = pc[v]
                                    \/ pc[v] = "append" /\ pc'[v] = "detached"
    BY <1>9 DEF Wipe, Detached, LocalsOK
  <2>2. pc'[w] \in {"idle", "wipe2", "wipe3"}
    BY <1>9 DEF Wipe, Detached, LocalsOK, AfterWipe
  <2>3. FlowOK'
    BY <2>1, <2>2 DEF FlowOK
  <2>4. CopyOK'
    BY <1>9, <2>1, <2>2 DEF Wipe, CopyOK, At
  <2>5. QED
    BY <2>3, <2>4
<1>10. ASSUME Restart
       PROVE  FlowOK' /\ CopyOK'
  BY <1>10 DEF Restart, FlowOK, CopyOK, At
<1>11. ASSUME UNCHANGED vars
       PROVE  FlowOK' /\ CopyOK'
  BY <1>11 DEF vars, locals, FlowOK, CopyOK, At
<1>12. ASSUME NEW w \in Workers, Reply(w)
       PROVE  FlowOK' /\ CopyOK'
  BY <1>12, AnswerFlow, AnswerCopy DEF Reply
<1>13. QED
  BY <1>1, <1>2, <1>3, <1>4, <1>5, <1>6, <1>7, <1>8, <1>9, <1>10, <1>11, <1>12
     DEF Next, Serve, Quiet, Refuse, RefuseDuplicate, UpdateMissing, UpdateSubscriber,
         UpdateAssign, FailStatement

\* Every step keeps the types, and so do all steps.
LEMMA TypeInvInvariant == Spec => []TypeInv
<1>1. TypeInv /\ [Next]_vars => TypeInv'
  BY NextType, NextFlow DEF TypeInv
<1>2. QED
  BY <1>1, InitType, PTL DEF Spec

\* Type correctness: in every reachable state of every instance, every row is
\* a row of its table with one of the three statuses, and every goroutine's
\* locals are what its step expects.
THEOREM TypeCorrect == Spec => []TypeOK
<1>1. TypeInv => TypeOK
  BY TypeHalves DEF TypeInv
<1>2. QED
  BY <1>1, TypeInvInvariant, PTL

----------------------------------------------------------------------------
\* nextID (service.go:185-191) hands a number out once as long as no two
\* goroutines are inside it together.

\* A number drawn, and not yet in a row or refused.
Drawn(w) == pc[w] \in {"write", "append"} /\ call[w].op \in Creates

\* A number in use in a table, or in a copy that will be put back into it.
Taken(t, n) ==
    \/ n \in Ids(Rows(t))
    \/ \E v \in Workers :
          /\ n \in Ids(copy[v])
          /\ \/ t = "usage" /\ pc[v] = "append"
             \/ t = "subscribers" /\ call[v].op = "changeStatus"
                    /\ pc[v] \in {"write", "assign"}

\* No number that is still to be drawn: not above the counter, nor what a
\* goroutine between its store and its read is about to get.
Below(n) == n <= idCounter /\ \A v \in Workers : pc[v] = "read" => n <= num[v]

\* As long as no two goroutines were inside nextID at once: the one inside
\* knows the counter, what is in use was drawn earlier or was there when the
\* process started, and no number is held by two.
OneInside ==
    \A v, w \in Workers :
        pc[v] \in {"store", "read"} /\ pc[w] \in {"store", "read"} => v = w

CounterKnown ==
    \A w \in Workers :
        /\ pc[w] = "store" => idCounter = num[w]
        /\ pc[w] = "read"  => idCounter = num[w] + 1

TakenBelow ==
    \A t \in Table, n \in Nat : Taken(t, n) => Key(t, n) \in carried \/ Below(n)

DrawnFresh ==
    \A w \in Workers :
        Drawn(w) =>
            /\ Below(num[w])
            /\ Taken(TableOf(call[w].op), num[w])
                   => Key(TableOf(call[w].op), num[w]) \in carried

DrawnOnce ==
    \A v, w \in Workers : Drawn(v) /\ Drawn(w) /\ num[v] = num[w] => v = w

NumbersOK == OneInside /\ CounterKnown /\ TakenBelow /\ DrawnFresh /\ DrawnOnce

NumbersInv == "race" \notin events => NumbersOK

\* A step that leaves the counter alone draws no number; what it takes into use
\* is a number that goroutine w had drawn and no longer holds.
Settling(w) ==
    /\ UNCHANGED <<idCounter, carried>>
    /\ \A v \in Workers :
          /\ pc'[v] \in {"store", "read"} => pc'[v] = pc[v] /\ num'[v] = num[v]
          /\ Drawn(v)' => Drawn(v) /\ num'[v] = num[v] /\ call'[v] = call[v]
    /\ \A t \in Table, n \in Nat :
          Taken(t, n)' => Taken(t, n) \/ (Drawn(w) /\ ~Drawn(w)' /\ n = num[w])

\* A step that settles draws no number and claims at most the one its goroutine drew.
LEMMA SettlingNumbers ==
    ASSUME LocalsOK, SharedOK, NumbersOK, NEW w \in Workers, Settling(w)
    PROVE  NumbersOK'
<1>1. OneInside' /\ CounterKnown'
  BY DEF NumbersOK, OneInside, CounterKnown, Settling
<1>2. \A n : Below(n) => Below(n)'
  BY DEF Settling, Below
<1>3. \A v \in Workers : num[v] \in Nat /\ TableOf(call[v].op) \in Table
  BY DEF LocalsOK, TableOf, Table
<1>4. TakenBelow'
  BY <1>2, <1>3 DEF NumbersOK, TakenBelow, DrawnFresh, Settling
<1>5. DrawnOnce'
  BY DEF NumbersOK, DrawnOnce, Settling
<1>6. DrawnFresh'
  <2> SUFFICES ASSUME NEW v \in Workers, Drawn(v)'
               PROVE  /\ Below(num[v])'
                      /\ Taken(TableOf(call[v].op), num[v])'
                             => Key(TableOf(call[v].op), num[v])' \in carried'
    BY DEF DrawnFresh
  <2>1. Drawn(v) /\ num'[v] = num[v] /\ call'[v] = call[v] /\ carried' = carried
    BY DEF Settling
  <2>2. Below(num[v])
    BY <2>1 DEF NumbersOK, DrawnFresh
  <2>3. ASSUME Taken(TableOf(call[v].op), num[v])'
        PROVE  Key(TableOf(call[v].op), num[v]) \in carried
    <3>1. Taken(TableOf(call[v].op), num[v])
      BY <1>3, <2>1, <2>3 DEF Settling, NumbersOK, DrawnOnce
    <3>2. QED
      BY <2>1, <3>1 DEF NumbersOK, DrawnFresh
  <2>4. QED
    BY <1>2, <2>1, <2>2, <2>3
<1>7. QED
  BY <1>1, <1>4, <1>5, <1>6 DEF NumbersOK


\* A handler that answers lets go of its number and of its copy.
LEMMA FailSettles ==
    ASSUME LocalsOK, NEW w \in Workers, NEW code, Answer(w, code),
           UNCHANGED <<idCounter, tables, carried>>
    PROVE  Settling(w)
<1>1. \A v \in Workers \ {w} :
          pc'[v] = pc[v] /\ num'[v] = num[v] /\ call'[v] = call[v] /\ copy'[v] = copy[v]
  BY DEF LocalsOK, Answer, Goto
<1>2. pc'[w] = "idle"
  BY DEF LocalsOK, Answer, Goto
<1>3. \A t, n : Taken(t, n)' => Taken(t, n)
  BY <1>1, <1>2 DEF Taken, Rows, tables
<1>4. QED
  BY <1>1, <1>2, <1>3 DEF Settling, Drawn

\* One that moves on within its use case, without touching a table, keeps both.
LEMMA ProceedSettles ==
    ASSUME LocalsOK, NEW w \in Workers, NEW step, Proceed(w, step),
           UNCHANGED <<idCounter, tables, carried>>,
           \/ step \in {"load", "reply"}
           \/ step = "assign" /\ At(w, "write", {"changeStatus"})
    PROVE  Settling(w)
<1>1. \A v \in Workers : num'[v] = num[v] /\ call'[v] = call[v] /\ copy'[v] = copy[v]
  BY DEF Proceed
<1>2. (\A v \in Workers \ {w} : pc'[v] = pc[v]) /\ pc'[w] = step
  BY DEF LocalsOK, Proceed, Goto
<1>3. \A t, n : Taken(t, n)' => Taken(t, n)
  BY <1>1, <1>2 DEF Taken, Rows, tables, At
<1>4. QED
  BY <1>1, <1>2, <1>3 DEF Settling, Drawn

\* A create that moves on to its reply puts its number into use.
LEMMA StoreSettles ==
    ASSUME LocalsOK, NEW w \in Workers, Drawn(w), Proceed(w, "reply"),
           UNCHANGED <<idCounter, carried>>,
           \A t \in Table : \A n \in Ids(Rows(t))' : Taken(t, n) \/ n = num[w]
    PROVE  Settling(w)
<1>1. \A v \in Workers : num'[v] = num[v] /\ call'[v] = call[v] /\ copy'[v] = copy[v]
  BY DEF Proceed
<1>2. (\A v \in Workers \ {w} : pc'[v] = pc[v]) /\ pc'[w] = "reply"
  BY DEF LocalsOK, Proceed, Goto
<1>3. ~Drawn(w)'
  BY <1>2 DEF Drawn
<1>4. \A t \in Table, n \in Nat : Taken(t, n)' => Taken(t, n) \/ n = num[w]
  BY <1>1, <1>2 DEF Taken
<1>5. \A v \in Workers :
          /\ pc'[v] \in {"store", "read"} => pc'[v] = pc[v] /\ num'[v] = num[v]
          /\ Drawn(v)' => Drawn(v) /\ num'[v] = num[v] /\ call'[v] = call[v]
  BY <1>1, <1>2 DEF Drawn
<1>6. QED
  BY <1>3, <1>4, <1>5 DEF Settling

\* Every step but the three of nextID and a restart settles.
LEMMA NextSettles ==
    ASSUME TypeInv, NEW w \in Workers, Refuse(w) \/ Arrive(w) \/ Serve(w) \/ FailStatement(w),
           ~(NextIDLoad(w) \/ NextIDStore(w) \/ NextIDRead(w))
    PROVE  Settling(w)
<1> USE DEF history
<1>0. LocalsOK /\ SharedOK /\ FlowOK /\ CopyOK
  BY DEF TypeInv
<1>1. ASSUME NEW code, Answer(w, code), UNCHANGED <<idCounter, tables, carried>>
      PROVE  Settling(w)
  BY <1>0, <1>1, FailSettles
<1>2. ASSUME Arrive(w)
      PROVE  Settling(w)
  <2>1. PICK r \in Requests :
            /\ Goto(w, Entry(r.op))
            /\ call' = [call EXCEPT ![w] =
                   [op |-> r.op, ref |-> r.ref, to |-> r.to, body |-> r.body,
                    by |-> arrivals + 1]]
    BY <1>2 DEF Arrive
  <2>2. pc'[w] \in {"load", "check", "wipe1"}
    BY <1>0, <2>1 DEF LocalsOK, Goto, Entry
  <2>3. \A v \in Workers \ {w} : pc'[v] = pc[v] /\ call'[v] = call[v]
    BY <1>0, <2>1 DEF LocalsOK, Goto
  <2>4. UNCHANGED <<num, copy, idCounter, tables, carried>>
    BY <1>2 DEF Arrive
  <2>5. \A t, n : Taken(t, n)' => Taken(t, n)
    BY <2>2, <2>3, <2>4 DEF Taken, Rows, tables
  <2>6. QED
    BY <2>2, <2>3, <2>4, <2>5 DEF Settling, Drawn
<1>3. ASSUME CheckPlan(w) \/ CheckSubscriber(w)
      PROVE  Settling(w)
  BY <1>0, <1>1, <1>3, ProceedSettles DEF CheckPlan, CheckSubscriber, Fail
<1>4. ASSUME ReadStatus(w)
      PROVE  Settling(w)
  <2>1. CASE \E err : Fail(w, err)
    BY <1>1, <1>4, <2>1 DEF ReadStatus, Fail
  <2>2. CASE ~ \E err : Fail(w, err)
    <3>1. PICK s \in subscribers :
              /\ s.id = call[w].ref
              /\ copy' = [copy EXCEPT ![w] = {[s EXCEPT !.status = call[w].to]}]
              /\ Goto(w, "write")
              /\ UNCHANGED <<call, num, resp>>
      BY <1>4, <2>2 DEF ReadStatus
    <3>2. [s EXCEPT !.status = call[w].to].id = s.id
      BY <1>0 DEF SharedOK, SubscriberRow
    <3>3. copy'[w] = {[s EXCEPT !.status = call[w].to]}
      BY <1>0, <3>1 DEF LocalsOK
    <3>4. pc'[w] = "write" /\ call[w].op = "changeStatus"
      BY <1>0, <1>4, <3>1 DEF LocalsOK, Goto, ReadStatus, At
    <3>5. \A n \in Ids(copy'[w]) : n \in Ids(subscribers)
      BY <3>2, <3>3 DEF Ids
    <3>6. \A v \in Workers \ {w} : pc'[v] = pc[v] /\ copy'[v] = copy[v]
      BY <1>0, <3>1 DEF LocalsOK, Goto
    <3>7. UNCHANGED <<call, num, idCounter, tables, carried>>
      BY <1>4, <3>1 DEF ReadStatus
    <3>8. \A t, n : Taken(t, n)' => Taken(t, n)
      BY <3>4, <3>5, <3>6, <3>7 DEF Taken, Rows, tables
    <3>9. QED
      BY <3>4, <3>6, <3>7, <3>8 DEF Settling, Drawn, Creates
  <2>3. QED
    BY <2>1, <2>2
<1>5. ASSUME CreatePlan(w)
      PROVE  Settling(w)
  <2>1. \A t \in Table : \A n \in Ids(Rows(t))' : Taken(t, n) \/ n = num[w]
    BY <1>5 DEF CreatePlan, Put, NewPlan, Taken, Rows, Ids, Table
  <2>2. QED
    BY <1>0, <1>5, <2>1, StoreSettles DEF CreatePlan, Drawn, At, Creates
<1>6. ASSUME CreateSubscriber(w)
      PROVE  Settling(w)
  <2>1. \A t \in Table : \A n \in Ids(Rows(t))' : Taken(t, n) \/ n = num[w]
    BY <1>6 DEF CreateSubscriber, Put, NewSubscriber, Taken, Rows, Ids, Table
  <2>2. QED
    BY <1>0, <1>6, <2>1, StoreSettles DEF CreateSubscriber, Drawn, At, Creates
<1>7. ASSUME AddUsage(w)
      PROVE  Settling(w)
  <2>1. \A t \in Table : \A n \in Ids(Rows(t))' : Taken(t, n) \/ n = num[w]
    BY <1>7 DEF AddUsage, Put, NewUsage, Taken, Rows, Ids, Table
  <2>2. QED
    BY <1>0, <1>7, <2>1, StoreSettles DEF AddUsage, Drawn, At, Creates
<1>8. ASSUME LoadUsage(w)
      PROVE  Settling(w)
  <2>1. /\ pc[w] = "write" /\ call[w].op = "addUsage"
        /\ pc'[w] = "append" /\ copy'[w] = UsageOf(call[w].ref)
        /\ UNCHANGED <<call, num, idCounter, tables, carried>>
        /\ \A v \in Workers \ {w} : pc'[v] = pc[v] /\ copy'[v] = copy[v]
    BY <1>0, <1>8 DEF LoadUsage, LocalsOK, Goto, At
  <2>2. \A n \in Ids(copy'[w]) : n \in Ids(usage)
    BY <2>1 DEF UsageOf, Ids
  <2>3. \A t, n : Taken(t, n)' => Taken(t, n)
    BY <2>1, <2>2 DEF Taken, Rows, tables
  <2>4. QED
    BY <2>1, <2>3 DEF Settling, Drawn, Creates
<1>9. ASSUME AppendUsage(w)
      PROVE  Settling(w)
  <2>1. call[w].op = "addUsage"
    BY <1>0, <1>9 DEF FlowOK, AppendUsage
  <2>2. \A n \in Ids(usage') : n \in Ids(usage) \/ n \in Ids(copy[w]) \/ n = num[w]
    BY <1>9 DEF AppendUsage, NewUsage, Ids
  <2>3. \A t \in Table : \A n \in Ids(Rows(t))' : Taken(t, n) \/ n = num[w]
    BY <1>9, <2>2 DEF AppendUsage, Taken, Rows, Table
  <2>4. QED
    BY <1>0, <1>9, <2>1, <2>3, StoreSettles DEF AppendUsage, Drawn, Creates
<1>10. ASSUME AppendDetached(w) \/ UpdateChecked(w)
       PROVE  Settling(w)
  BY <1>0, <1>10, ProceedSettles DEF AppendDetached, UpdateChecked
<1>11. ASSUME UpdateSubscriber(w) \/ UpdateAssign(w)
       PROVE  Settling(w)
  <2>1. PICK err : Fail(w, err)
    BY <1>11 DEF UpdateSubscriber, UpdateAssign
  <2>2. /\ \A v \in Workers \ {w} : pc'[v] = pc[v] /\ num'[v] = num[v]
                                        /\ call'[v] = call[v] /\ copy'[v] = copy[v]
        /\ pc'[w] = "idle"
    BY <1>0, <2>1 DEF LocalsOK, Fail, Answer, Goto
  <2>3. UNCHANGED <<plans, usage, idCounter, carried>>
    BY <1>11 DEF UpdateSubscriber, UpdateAssign
  <2>4. call[w].op = "changeStatus" /\ pc[w] \in {"write", "assign"}
    BY <1>0, <1>11 DEF UpdateSubscriber, UpdateAssign, At, FlowOK
  <2>5. \A n \in Ids(subscribers') : n \in Ids(subscribers) \/ n \in Ids(copy[w])
    BY <1>11 DEF UpdateSubscriber, UpdateAssign, WriteBack, Ids
  <2>6. \A t, n : Taken(t, n)' => Taken(t, n)
    BY <2>2, <2>3, <2>4, <2>5 DEF Taken, Rows
  <2>7. QED
    BY <2>2, <2>3, <2>6 DEF Settling, Drawn
<1>12. ASSUME Wipe(w)
       PROVE  Settling(w)
  <2>1. \A v \in Workers \ {w} : /\ call'[v] = call[v]
                                 /\ \/ pc'[v] = pc[v]
                                    \/ pc[v] = "append" /\ pc'[v] = "detached"
    BY <1>0, <1>12 DEF Wipe, Detached, LocalsOK
  <2>2. pc'[w] \in {"idle", "wipe2", "wipe3"}
    BY <1>0, <1>12 DEF Wipe, Detached, LocalsOK, AfterWipe
  <2>3. UNCHANGED <<num, copy, idCounter, carried>>
    BY <1>12 DEF Wipe
  <2>4. plans' \subseteq plans /\ subscribers' \subseteq subscribers /\ usage' \subseteq usage
    BY <1>12 DEF Wipe, Wiped
  <2>5. \A t, n : Taken(t, n)' => Taken(t, n)
    <3>1. \A t, n : n \in Ids(Rows(t))' => n \in Ids(Rows(t))
      BY <2>4 DEF Ids, Rows
    <3>2. QED
      BY <2>1, <2>2, <2>3, <3>1 DEF Taken
  <2>6. QED
    BY <2>1, <2>2, <2>3, <2>5 DEF Settling, Drawn
<1>13. ASSUME \/ Refuse(w) \/ RefuseDuplicate(w) \/ UpdateMissing(w) \/ FailStatement(w)
              \/ Reply(w)
       PROVE  Settling(w)
  BY <1>1, <1>13 DEF Refuse, RefuseDuplicate, UpdateMissing, FailStatement, Reply, Fail
<1>14. QED
  BY <1>2, <1>3, <1>4, <1>5, <1>6, <1>7, <1>8, <1>9, <1>10, <1>11, <1>12, <1>13 DEF Serve


\* Inside nextID nothing is taken into use, and nobody else moves.
LEMMA InsideTakes ==
    ASSUME LocalsOK, NEW w \in Workers, pc[w] \in {"load", "store", "read"},
           NEW step \in {"store", "read", "write"}, Goto(w, step), call[w].op \in Creates,
           UNCHANGED <<call, copy, tables, carried>>
    PROVE  /\ pc'[w] = step /\ \A v \in Workers \ {w} : pc'[v] = pc[v]
           /\ \A t, n : Taken(t, n)' => Taken(t, n)
<1>1. pc'[w] = step /\ \A v \in Workers \ {w} : pc'[v] = pc[v]
  BY DEF LocalsOK, Goto
<1>2. \A t, n : Taken(t, n)' => Taken(t, n)
  BY <1>1 DEF Taken, Rows, tables, Creates
<1>3. QED
  BY <1>1, <1>2

\* The first step of nextID, without a race.
LEMMA LoadNumbers ==
    ASSUME TypeInv, NumbersOK, NEW w \in Workers, NextIDLoad(w), "race" \notin events'
    PROVE  NumbersOK'
<1>0. LocalsOK /\ SharedOK /\ FlowOK
  BY DEF TypeInv
<1>1. /\ pc[w] = "load" /\ pc'[w] = "store" /\ num'[w] = idCounter
      /\ \A v \in Workers \ {w} : pc'[v] = pc[v] /\ num'[v] = num[v]
      /\ UNCHANGED <<call, idCounter, carried>>
      /\ \A t, n : Taken(t, n)' => Taken(t, n)
  <2>1. call[w].op \in Creates
    BY <1>0 DEF NextIDLoad, FlowOK
  <2>2. UNCHANGED <<call, copy, tables, carried, idCounter>> /\ Goto(w, "store")
    BY DEF NextIDLoad
  <2>3. \A t, n : Taken(t, n)' => Taken(t, n)
    BY <1>0, <2>1, <2>2, InsideTakes DEF NextIDLoad
  <2>4. QED
    BY <1>0, <2>2, <2>3 DEF NextIDLoad, LocalsOK, Goto
<1>2. \A v \in Workers \ {w} : pc[v] \notin {"store", "read"}
  BY DEF NextIDLoad
<1>3. OneInside'
  BY <1>1, <1>2 DEF OneInside
<1>4. CounterKnown'
  BY <1>1, <1>2 DEF CounterKnown
<1>5. \A v \in Workers : Drawn(v)' => Drawn(v) /\ num'[v] = num[v]
  BY <1>1 DEF Drawn
<1>6. \A n : Below(n) => Below(n)'
  BY <1>1 DEF Below
<1>7. TakenBelow' /\ DrawnOnce'
  BY <1>1, <1>5, <1>6 DEF NumbersOK, TakenBelow, DrawnOnce
<1>8. DrawnFresh'
  BY <1>1, <1>5, <1>6 DEF NumbersOK, DrawnFresh
<1>9. QED
  BY <1>3, <1>4, <1>7, <1>8 DEF NumbersOK

\* The second: the counter moves on, and the number it had stays to be drawn.
LEMMA StoreNumbers ==
    ASSUME TypeInv, NumbersOK, NEW w \in Workers, NextIDStore(w)
    PROVE  NumbersOK'
<1>0. LocalsOK /\ SharedOK /\ FlowOK
  BY DEF TypeInv
<1>1. /\ pc[w] = "store" /\ pc'[w] = "read"
      /\ \A v \in Workers \ {w} : pc'[v] = pc[v]
      /\ UNCHANGED <<call, num, carried>>
      /\ \A t, n : Taken(t, n)' => Taken(t, n)
  <2>1. call[w].op \in Creates
    BY <1>0 DEF NextIDStore, FlowOK
  <2>2. UNCHANGED <<call, copy, tables, carried, num>> /\ Goto(w, "read")
    BY DEF NextIDStore, Proceed, history
  <2>3. \A t, n : Taken(t, n)' => Taken(t, n)
    BY <1>0, <2>1, <2>2, InsideTakes DEF NextIDStore
  <2>4. QED
    BY <1>0, <2>2, <2>3 DEF NextIDStore, LocalsOK, Goto
<1>2. /\ idCounter = num[w] /\ idCounter' = num[w] + 1
      /\ \A v \in Workers \ {w} : pc[v] \notin {"store", "read"}
      /\ idCounter \in Nat
  BY <1>0, <1>1 DEF NextIDStore, NumbersOK, CounterKnown, OneInside, SharedOK
<1>3. OneInside'
  BY <1>1, <1>2 DEF OneInside
<1>4. CounterKnown'
  BY <1>1, <1>2 DEF CounterKnown
<1>5. \A v \in Workers : Drawn(v)' => Drawn(v)
  BY <1>1 DEF Drawn
<1>6. \A n \in Nat : Below(n) => Below(n)'
  BY <1>1, <1>2 DEF Below
<1>7. TakenBelow' /\ DrawnOnce'
  BY <1>1, <1>5, <1>6 DEF NumbersOK, TakenBelow, DrawnOnce
<1>8. DrawnFresh'
  BY <1>0, <1>1, <1>5, <1>6 DEF NumbersOK, DrawnFresh, LocalsOK
<1>9. QED
  BY <1>3, <1>4, <1>7, <1>8 DEF NumbersOK

\* The third: the number drawn is above every one in use or in hand.
LEMMA ReadNumbers ==
    ASSUME TypeInv, NumbersOK, NEW w \in Workers, NextIDRead(w)
    PROVE  NumbersOK'
<1>0. LocalsOK /\ SharedOK /\ FlowOK
  BY DEF TypeInv
<1>1. /\ pc[w] = "read" /\ pc'[w] = "write" /\ call[w].op \in Creates
      /\ \A v \in Workers \ {w} : pc'[v] = pc[v] /\ num'[v] = num[v]
      /\ UNCHANGED <<call, idCounter, carried>>
      /\ \A t, n : Taken(t, n)' => Taken(t, n)
  <2>1. call[w].op \in Creates
    BY <1>0 DEF NextIDRead, FlowOK
  <2>2. UNCHANGED <<call, copy, tables, carried, idCounter>> /\ Goto(w, "write")
    BY DEF NextIDRead, history
  <2>3. \A t, n : Taken(t, n)' => Taken(t, n)
    BY <1>0, <2>1, <2>2, InsideTakes DEF NextIDRead
  <2>4. QED
    BY <1>0, <2>1, <2>2, <2>3 DEF NextIDRead, LocalsOK, Goto
<1>2. /\ idCounter = num[w] + 1 /\ idCounter \in Nat /\ num[w] \in Nat
      /\ \A v \in Workers \ {w} : pc[v] \notin {"store", "read"}
  BY <1>0, <1>1 DEF NumbersOK, CounterKnown, OneInside, SharedOK, LocalsOK
<1>3. num'[w] = idCounter
  BY <1>0, <1>2 DEF NextIDRead, LocalsOK
<1>4. OneInside' /\ CounterKnown'
  BY <1>1, <1>2 DEF OneInside, CounterKnown
<1>5. \A v \in Workers \ {w} : Drawn(v)' => Drawn(v) /\ num'[v] = num[v]
  BY <1>1 DEF Drawn
<1>6. \A n \in Nat : /\ Below(n) => Below(n)'
                     /\ Below(n) => n < idCounter
  BY <1>1, <1>2 DEF Below
<1>7. TakenBelow'
  BY <1>1, <1>6 DEF NumbersOK, TakenBelow
<1>8. \A v \in Workers \ {w} : Drawn(v) => num[v] < idCounter
  BY <1>0, <1>6 DEF NumbersOK, DrawnFresh, LocalsOK
<1>9. DrawnOnce'
  BY <1>1, <1>2, <1>3, <1>5, <1>8 DEF NumbersOK, DrawnOnce, LocalsOK
<1>10. DrawnFresh'
  <2>1. Below(idCounter)'
    BY <1>1, <1>2 DEF Below
  <2>2. TableOf(call[w].op) \in Table
    BY DEF TableOf, Table
  <2>3. Taken(TableOf(call[w].op), idCounter) => Key(TableOf(call[w].op), idCounter) \in carried
    BY <1>2, <1>6, <2>2 DEF NumbersOK, TakenBelow
  <2>4. \A v \in Workers \ {w} : num[v] \in Nat
    BY <1>0 DEF LocalsOK
  <2>5. QED
    BY <1>1, <1>3, <1>5, <1>6, <2>1, <2>3, <2>4 DEF NumbersOK, DrawnFresh
<1>11. QED
  BY <1>4, <1>7, <1>9, <1>10 DEF NumbersOK

\* A fresh process: nothing is drawn, and what is in use was carried over.
LEMMA RestartNumbers ==
    ASSUME TypeInv, Restart
    PROVE  NumbersOK'
<1>1. \A w \in Workers : pc'[w] = "idle"
  BY DEF Restart
<1>2. \A t \in Table : \A n : Taken(t, n)' => n \in Ids(Rows(t))'
  BY <1>1 DEF Taken
<1>3. \A t \in Table : \A n : n \in Ids(Rows(t))' => Key(t, n) \in carried'
  BY DEF Restart, KeysOf, Rows, Table
<1>4. TakenBelow'
  BY <1>2, <1>3 DEF TakenBelow, Key
<1>5. QED
  BY <1>1, <1>4 DEF NumbersOK, OneInside, CounterKnown, DrawnFresh, DrawnOnce, Drawn

\* A race, once it happened, stays in the history of the process.
LEMMA RaceStays ==
    ASSUME [Next]_vars, ~Restart, "race" \in events
    PROVE  "race" \in events'
BY DEF Next, Serve, vars, history, Untouched, Refuse, Arrive, CheckPlan, CheckSubscriber,
       ReadStatus, NextIDLoad, NextIDStore, NextIDRead, RefuseDuplicate, CreatePlan,
       CreateSubscriber, AddUsage, LoadUsage, AppendUsage, AppendDetached, Reply,
       UpdateMissing, UpdateSubscriber, UpdateChecked, UpdateAssign, Wipe, FailStatement,
       Quiet

\* Every step keeps the account of the numbers drawn.
LEMMA NextNumbers ==
    ASSUME TypeInv, NumbersInv, [Next]_vars
    PROVE  NumbersInv'
<1> SUFFICES ASSUME "race" \notin events'
             PROVE  NumbersOK'
  BY DEF NumbersInv
<1>0. LocalsOK /\ SharedOK
  BY DEF TypeInv
<1>1. CASE Restart
  BY <1>1, RestartNumbers
<1>2. CASE ~Restart
  <2>1. NumbersOK
    BY <1>2, RaceStays DEF NumbersInv
  <2>2. ASSUME NEW w \in Workers, NextIDLoad(w) \/ NextIDStore(w) \/ NextIDRead(w)
        PROVE  NumbersOK'
    BY <2>1, <2>2, LoadNumbers, StoreNumbers, ReadNumbers
  <2>3. ASSUME NEW w \in Workers,
               Refuse(w) \/ Arrive(w) \/ Serve(w) \/ FailStatement(w),
               ~(NextIDLoad(w) \/ NextIDStore(w) \/ NextIDRead(w))
        PROVE  NumbersOK'
    BY <1>0, <2>1, <2>3, NextSettles, SettlingNumbers
  <2>4. CASE UNCHANGED vars
    BY <2>1, <2>4 DEF vars, locals, tables, history, NumbersOK, OneInside, CounterKnown,
                      TakenBelow, DrawnFresh, DrawnOnce, Drawn, Taken, Below, Rows
  <2>5. QED
    BY <1>2, <2>2, <2>3, <2>4 DEF Next, Quiet
<1>3. QED
  BY <1>1, <1>2

\* So it always holds.
LEMMA NumbersInvariant == Spec => []NumbersInv
<1>1. Init => NumbersInv
  BY DEF Init, NumbersInv, NumbersOK, OneInside, CounterKnown, TakenBelow, DrawnFresh,
         DrawnOnce, Drawn, Taken, Rows, Ids
<1>2. QED
  BY <1>1, NextNumbers, TypeInvInvariant, PTL DEF Spec

\* With either backend, a create finds the key it was given taken only if two
\* goroutines raced inside nextID in this process, or the row was there when
\* the process started.
THEOREM CollisionsAreExplained == Spec => []CollisionExplained
<1>1. TypeInv /\ NumbersInv => CollisionExplained
  BY DEF TypeInv, NumbersInv, NumbersOK, DrawnFresh, Drawn, Taken, CollisionExplained, At
<1>2. QED
  BY <1>1, NumbersInvariant, TypeInvInvariant, PTL

====
