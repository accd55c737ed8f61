---- MODULE SubscriberSerial_proofs ----
(***************************************************************************)
(* What holds with either backend: until a reset no reference dangles, and *)
(* requests served one at a time keep references and creates in order      *)
(* whatever fails or restarts in between; and, however requests overlap, a *)
(* status moves along allowedTransitions, or by a PATCH whose row was      *)
(* rewritten after it was read, and in no other way.                       *)
(***************************************************************************)
EXTENDS SubscriberStore_proofs

\* What goroutine w relies on, from its check to its write: the row it will
\* refer to exists; the usage it will put back is its subscriber's; the
\* subscriber it will write back names a plan that exists.
Creating == {"load", "store", "read", "write", "append"}

Holds(w) ==
    /\ pc[w] \in Creating /\ call[w].op = "createSubscriber" => call[w].ref \in Ids(plans)
    /\ pc[w] \in Creating /\ call[w].op = "addUsage" => call[w].ref \in Ids(subscribers)
    /\ pc[w] = "append" => \A u \in copy[w] : u.sub = call[w].ref
    /\ pc[w] = "assign" \/ At(w, "write", {"changeStatus"}) =>
           \A s \in copy[w] : s.plan \in Ids(plans)

RefsHold == References /\ \A w \in Workers : Holds(w)

RefInv == "reset" \notin events => RefsHold

\* Keys only come, as long as nothing is reset.
Growing ==
    /\ Ids(plans) \subseteq Ids(plans')
    /\ Ids(subscribers) \subseteq Ids(subscribers')

\* A step of w leaves the locals of every other goroutine alone.
Others(w) ==
    \A v \in Workers \ {w} : pc'[v] = pc[v] /\ call'[v] = call[v] /\ copy'[v] = copy[v]

\* So only the goroutine that moves has to be looked at.
LEMMA OnlyTheMover ==
    ASSUME RefsHold, NEW w \in Workers, Others(w), Growing, References', Holds(w)'
    PROVE  RefsHold'
<1> SUFFICES ASSUME NEW v \in Workers, v # w
             PROVE  Holds(v)'
  BY DEF RefsHold
<1>1. pc'[v] = pc[v] /\ call'[v] = call[v] /\ copy'[v] = copy[v]
  BY DEF Others
<1>2. Holds(v)
  BY DEF RefsHold
<1>3. QED
  BY <1>1, <1>2 DEF Holds, Growing, At

\* A goroutine that answered relies on nothing.
LEMMA AnsweredHolds ==
    ASSUME LocalsOK, NEW w \in Workers, NEW err, Fail(w, err)
    PROVE  Others(w) /\ Holds(w)'
BY DEF LocalsOK, Fail, Answer, Goto, Others, Holds, At, Creating

\* A goroutine that moves on leaves the locals of the others alone.
LEMMA ProceedOthers ==
    ASSUME LocalsOK, NEW w \in Workers, NEW step, Proceed(w, step)
    PROVE  Others(w) /\ pc'[w] = step /\ call'[w] = call[w] /\ copy'[w] = copy[w]
BY DEF LocalsOK, Proceed, Goto, Others

\* With the tables untouched, nothing else can change.
LEMMA TablesUntouched ==
    ASSUME RefsHold, UNCHANGED tables
    PROVE  Growing /\ References'
BY DEF RefsHold, Growing, References, tables, Ids

\* The row with a key is replaced or added: the key is there, and the others stay.
LEMMA PutIds ==
    ASSUME NEW rows, NEW r
    PROVE  Ids(Put(rows, r)) = Ids(rows) \cup {r.id}
BY DEF Put, Ids

\* One step that is not a step of a reset.
LEMMA NextHolds ==
    ASSUME TypeInv, RefsHold, [Next]_vars, \A w \in Workers : ~Wipe(w)
    PROVE  RefsHold'
<1> USE DEF history, tables
<1>0. LocalsOK /\ SharedOK /\ FlowOK /\ CopyOK
  BY DEF TypeInv
<1>1. ASSUME NEW w \in Workers, NEW err, Fail(w, err), UNCHANGED tables
      PROVE  RefsHold'
  BY <1>0, <1>1, AnsweredHolds, TablesUntouched, OnlyTheMover
<1>2. ASSUME NEW w \in Workers, Arrive(w)
      PROVE  RefsHold'
  <2>1. PICK r \in Requests :
            /\ Goto(w, Entry(r.op))
            /\ call' = [call EXCEPT ![w] =
                   [op |-> r.op, ref |-> r.ref, to |-> r.to, body |-> r.body,
                    by |-> arrivals + 1]]
    BY <1>2 DEF Arrive
  <2>2. pc'[w] = Entry(r.op) /\ call'[w].op = r.op
    BY <1>0, <2>1 DEF LocalsOK, Goto
  <2>3. r.op \notin {"createPlan", "reset"} => Entry(r.op) = "check"
    BY DEF Entry
  <2>4. r.op = "reset" => Entry(r.op) = "wipe1"
    BY DEF Entry
  <2>5. pc'[w] # "assign" /\ pc'[w] # "append" /\ pc'[w] # "write"
    BY <2>2 DEF Entry
  <2>6. Holds(w)'
    BY <2>2, <2>3, <2>4, <2>5 DEF Holds, At, Creating
  <2>7. Others(w)
    BY <1>0, <1>2, <2>1 DEF Arrive, LocalsOK, Goto, Others
  <2>8. QED
    BY <1>2, <2>6, <2>7, TablesUntouched, OnlyTheMover DEF Arrive
<1>3. ASSUME NEW w \in Workers, CheckPlan(w)
      PROVE  RefsHold'
  <2>1. CASE Proceed(w, "load")
    <3>1. Holds(w)'
      BY <1>0, <1>3, <2>1, ProceedOthers, CodeIsNat
         DEF CheckPlan, Holds, At, Fail, Answer, Goto, LocalsOK
    <3>2. QED
      BY <1>0, <1>3, <2>1, <3>1, ProceedOthers, TablesUntouched, OnlyTheMover DEF CheckPlan
  <2>2. QED
    BY <1>1, <1>3, <2>1 DEF CheckPlan
<1>4. ASSUME NEW w \in Workers, CheckSubscriber(w)
      PROVE  RefsHold'
  <2>1. CASE Proceed(w, "load")
    <3>1. Holds(w)'
      BY <1>0, <1>4, <2>1, ProceedOthers
         DEF CheckSubscriber, Holds, At, Fail, Answer, Goto, LocalsOK
    <3>2. QED
      BY <1>0, <1>4, <2>1, <3>1, ProceedOthers, TablesUntouched, OnlyTheMover
         DEF CheckSubscriber
  <2>2. QED
    BY <1>1, <1>4, <2>1 DEF CheckSubscriber
<1>5. ASSUME NEW w \in Workers, ReadStatus(w)
      PROVE  RefsHold'
  <2>1. CASE \E err : Fail(w, err)
    BY <1>1, <1>5, <2>1 DEF ReadStatus
  <2>2. CASE ~ \E err : Fail(w, err)
    <3>1. PICK s \in subscribers :
              /\ copy' = [copy EXCEPT ![w] = {[s EXCEPT !.status = call[w].to]}]
              /\ Goto(w, "write")
              /\ UNCHANGED <<call, num, resp>>
      BY <1>5, <2>2 DEF ReadStatus
    <3>2. [s EXCEPT !.status = call[w].to].plan = s.plan
      BY <1>0 DEF SharedOK, SubscriberRow
    <3>3. s.plan \in Ids(plans)
      BY DEF RefsHold, References
    <3>4. copy'[w] = {[s EXCEPT !.status = call[w].to]} /\ call'[w] = call[w]
      BY <1>0, <3>1 DEF LocalsOK
    <3>5. pc'[w] = "write" /\ call'[w].op = "changeStatus"
      BY <1>0, <1>5, <3>1, <3>4 DEF LocalsOK, Goto, ReadStatus, At
    <3>6. plans' = plans
      BY <1>5 DEF ReadStatus
    <3>7. Holds(w)'
      BY <3>2, <3>3, <3>4, <3>5, <3>6 DEF Holds, At
    <3>8. Others(w)
      BY <1>0, <3>1 DEF LocalsOK, Goto, Others
    <3>9. QED
      BY <1>5, <3>7, <3>8, TablesUntouched, OnlyTheMover DEF ReadStatus
  <2>3. QED
    BY <2>1, <2>2
<1>6. ASSUME NEW w \in Workers, NextIDLoad(w) \/ NextIDStore(w) \/ NextIDRead(w)
      PROVE  RefsHold'
  <2>1. /\ Others(w)
        /\ pc[w] \in Creating /\ pc'[w] \in {"store", "read", "write"}
        /\ pc[w] \in {"load", "store", "read"}
        /\ call'[w] = call[w] /\ UNCHANGED tables
    BY <1>0, <1>6 DEF NextIDLoad, NextIDStore, NextIDRead, LocalsOK, Proceed, Goto,
                      Others, Creating
  <2>2. call[w].op \in Creates
    BY <1>0, <2>1 DEF FlowOK
  <2>3. Holds(w)'
    BY <2>1, <2>2 DEF RefsHold, Holds, At, Creating, Creates
  <2>4. QED
    BY <2>1, <2>3, TablesUntouched, OnlyTheMover
<1>7. ASSUME NEW w \in Workers, CreatePlan(w)
      PROVE  RefsHold'
  <2>1. Growing /\ References'
    BY <1>7, PutIds DEF CreatePlan, Growing, RefsHold, References
  <2>2. Others(w) /\ Holds(w)'
    BY <1>0, <1>7, ProceedOthers DEF CreatePlan, Holds, At, Creating
  <2>3. QED
    BY <2>1, <2>2, OnlyTheMover
<1>8. ASSUME NEW w \in Workers, CreateSubscriber(w)
      PROVE  RefsHold'
  <2>1. call[w].ref \in Ids(plans)
    BY <1>8 DEF CreateSubscriber, RefsHold, Holds, At, Creating
  <2>2. Growing
    BY <1>8, PutIds DEF CreateSubscriber, Growing
  <2>3. \A s \in subscribers' : s.plan \in Ids(plans)
    BY <1>8, <2>1 DEF CreateSubscriber, Put, NewSubscriber, RefsHold, References
  <2>4. References'
    BY <1>8, <2>2, <2>3 DEF CreateSubscriber, RefsHold, References, Growing
  <2>5. Others(w) /\ Holds(w)'
    BY <1>0, <1>8, ProceedOthers DEF CreateSubscriber, Holds, At, Creating
  <2>6. QED
    BY <2>2, <2>4, <2>5, OnlyTheMover
<1>9. ASSUME NEW w \in Workers, AddUsage(w)
      PROVE  RefsHold'
  <2>1. call[w].ref \in Ids(subscribers)
    BY <1>9 DEF AddUsage, RefsHold, Holds, At, Creating
  <2>2. Growing /\ References'
    BY <1>9, <2>1 DEF AddUsage, Growing, Put, NewUsage, RefsHold, References
  <2>3. Others(w) /\ Holds(w)'
    BY <1>0, <1>9, ProceedOthers DEF AddUsage, Holds, At, Creating
  <2>4. QED
    BY <2>2, <2>3, OnlyTheMover
<1>10. ASSUME NEW w \in Workers, LoadUsage(w)
       PROVE  RefsHold'
  <2>1. /\ Others(w)
        /\ pc[w] = "write" /\ call[w].op = "addUsage"
        /\ pc'[w] = "append" /\ call'[w] = call[w] /\ copy'[w] = UsageOf(call[w].ref)
        /\ UNCHANGED tables
    BY <1>0, <1>10 DEF LoadUsage, LocalsOK, Goto, Others, At
  <2>2. \A u \in UsageOf(call[w].ref) : u.sub = call[w].ref
    BY DEF UsageOf
  <2>3. Holds(w)'
    BY <2>1, <2>2 DEF RefsHold, Holds, At, Creating
  <2>4. QED
    BY <2>1, <2>3, TablesUntouched, OnlyTheMover
<1>11. ASSUME NEW w \in Workers, AppendUsage(w)
       PROVE  RefsHold'
  <2>1. call[w].op = "addUsage"
    BY <1>0, <1>11 DEF FlowOK, AppendUsage
  <2>2. call[w].ref \in Ids(subscribers) /\ \A u \in copy[w] : u.sub = call[w].ref
    BY <1>11, <2>1 DEF AppendUsage, RefsHold, Holds, Creating
  <2>3. \A u \in usage' : u.sub \in Ids(subscribers)
    BY <1>11, <2>2 DEF AppendUsage, NewUsage, RefsHold, References
  <2>4. Growing /\ References'
    BY <1>11, <2>3 DEF AppendUsage, Growing, RefsHold, References
  <2>5. Others(w) /\ Holds(w)'
    BY <1>0, <1>11, ProceedOthers DEF AppendUsage, Holds, At, Creating
  <2>6. QED
    BY <2>4, <2>5, OnlyTheMover
<1>12. ASSUME NEW w \in Workers, AppendDetached(w) \/ UpdateChecked(w) \/ Reply(w)
       PROVE  RefsHold'
  <2>1. CASE AppendDetached(w)
    <3>1. Others(w) /\ Holds(w)'
      BY <1>0, <2>1, ProceedOthers DEF AppendDetached, Holds, At, Creating
    <3>2. QED
      BY <2>1, <3>1, TablesUntouched, OnlyTheMover DEF AppendDetached
  <2>2. CASE UpdateChecked(w)
    <3>1. Others(w) /\ pc'[w] = "assign" /\ copy'[w] = copy[w] /\ plans' = plans
      BY <1>0, <2>2, ProceedOthers DEF UpdateChecked
    <3>2. Holds(w)'
      BY <2>2, <3>1 DEF UpdateChecked, RefsHold, Holds, At, Creating
    <3>3. QED
      BY <2>2, <3>1, <3>2, TablesUntouched, OnlyTheMover DEF UpdateChecked
  <2>3. CASE Reply(w)
    <3>1. Others(w) /\ Holds(w)'
      BY <1>0, <2>3 DEF Reply, LocalsOK, Answer, Goto, Others, Holds, At, Creating
    <3>2. QED
      BY <2>3, <3>1, TablesUntouched, OnlyTheMover DEF Reply
  <2>4. QED
    BY <1>12, <2>1, <2>2, <2>3
<1>13. ASSUME NEW w \in Workers, UpdateSubscriber(w) \/ UpdateAssign(w)
       PROVE  RefsHold'
  <2>1. PICK err : Fail(w, err)
    BY <1>13 DEF UpdateSubscriber, UpdateAssign
  <2>2. PICK s \in SubscriberRow : s.id = call[w].ref /\ copy[w] = {s}
    BY <1>0, <1>13 DEF UpdateSubscriber, UpdateAssign, CopyOK
  <2>3. s.plan \in Ids(plans)
    BY <1>13, <2>2 DEF UpdateSubscriber, UpdateAssign, RefsHold, Holds
  <2>4. /\ subscribers' = {x \in subscribers : x.id # call[w].ref} \cup {s}
        /\ plans' = plans /\ usage' = usage
    BY <1>13, <2>2 DEF UpdateSubscriber, UpdateAssign, WriteBack
  <2>5. Growing
    BY <2>2, <2>4 DEF Growing, Ids
  <2>6. References'
    BY <2>3, <2>4, <2>5 DEF RefsHold, References, Growing
  <2>7. QED
    BY <1>0, <2>1, <2>5, <2>6, AnsweredHolds, OnlyTheMover
<1>14. ASSUME Restart
       PROVE  RefsHold'
  <2>1. \A w \in Workers : Holds(w)'
    BY <1>14 DEF Restart, Holds, At, Creating
  <2>2. References'
    BY <1>14 DEF Restart, Kept, RefsHold, References
  <2>3. QED
    BY <2>1, <2>2 DEF RefsHold
<1>15. ASSUME NEW w \in Workers,
              \/ Refuse(w) \/ RefuseDuplicate(w) \/ UpdateMissing(w) \/ FailStatement(w)
       PROVE  RefsHold'
  BY <1>1, <1>15 DEF Refuse, RefuseDuplicate, UpdateMissing, FailStatement
<1>16. ASSUME NEW w \in Workers, Wipe(w)
       PROVE  FALSE
  BY <1>16
<1>17. ASSUME UNCHANGED vars
       PROVE  RefsHold'
  BY <1>17 DEF vars, locals, RefsHold, References, Holds, At
<1>18. QED
  BY <1>2, <1>3, <1>4, <1>5, <1>6, <1>7, <1>8, <1>9, <1>10, <1>11, <1>12, <1>13, <1>14,
     <1>15, <1>16, <1>17 DEF Next, Serve, Quiet

\* A reset, once it happened, stays in the history.
LEMMA ResetStays ==
    ASSUME [Next]_vars, "reset" \in events
    PROVE  "reset" \in events'
BY DEF Next, Serve, vars, history, Untouched, Refuse, Arrive, CheckPlan, CheckSubscriber,
       ReadStatus, NextIDLoad, NextIDStore, NextIDRead, RefuseDuplicate, CreatePlan,
       CreateSubscriber, AddUsage, LoadUsage, AppendUsage, AppendDetached, Reply,
       UpdateMissing, UpdateSubscriber, UpdateChecked, UpdateAssign, Wipe, FailStatement,
       Restart, Quiet

\* Until a reset, every subscriber's plan and every usage record's subscriber
\* exist, with either backend, whatever races, fails or restarts.
THEOREM NothingDangles == Spec => []NoDanglingWithoutReset
<1>1. Init => RefInv
  BY DEF Init, RefInv, RefsHold, References, Holds, At, Creating
<1>2. TypeInv /\ RefInv /\ [Next]_vars => RefInv'
  <2>1. \A w \in Workers : Wipe(w) => "reset" \in events'
    BY DEF Wipe
  <2>2. QED
    BY <2>1, NextHolds, ResetStays DEF RefInv
<1>3. RefInv => NoDanglingWithoutReset
  BY DEF RefInv, RefsHold, NoDanglingWithoutReset
<1>4. QED
  BY <1>1, <1>2, <1>3, TypeInvInvariant, PTL DEF Spec

----------------------------------------------------------------------------
\* Requests served one at a time: what the goroutine that is alone relies on.

\* One request in hand at a time.
Alone == \A v, w \in Workers : pc[v] # "idle" /\ pc[w] # "idle" => v = w

\* What the goroutine that is alone may rely on.  A reset has emptied the
\* tables it went through; the slice and the row it read are still those of the
\* store; and no row carries the serial of a subscriber still to be created.
Emptied(w) ==
    /\ pc[w] \in {"wipe2", "wipe3"} => Rows(WipeOrder["wipe1"]) = {}
    /\ pc[w] = "wipe3" => Rows(WipeOrder["wipe2"]) = {}

CopyCurrent(w) ==
    /\ pc[w] = "append" => copy[w] = UsageOf(call[w].ref)
    /\ pc[w] = "assign" \/ At(w, "write", {"changeStatus"}) =>
           \E s \in subscribers :
               /\ s.id = call[w].ref
               /\ Allowed(s.status, call[w].to)
               /\ copy[w] = {[s EXCEPT !.status = call[w].to]}

SerialNew(w) ==
    /\ pc[w] # "idle" => call[w].by <= arrivals
    /\ pc[w] \in {"check", "load", "store", "read", "write"}
         /\ call[w].op = "createSubscriber" => \A s \in subscribers : s.by < call[w].by

Mine(w) == Emptied(w) /\ CopyCurrent(w) /\ SerialNew(w)

SubscribersOK ==
    /\ \A s \in subscribers : s.by <= arrivals
    /\ \A r, s \in subscribers : r.id = s.id => r = s

SerialOK ==
    /\ Alone
    /\ \A w \in Workers : Mine(w)
    /\ SubscribersOK
    /\ "race" \notin events

SerialInv == "overlap" \notin events => SerialOK

\* With one goroutine at work only that one has to be accounted for.
LEMMA SoloSerial ==
    ASSUME NEW w \in Workers, \A v \in Workers \ {w} : pc'[v] = "idle",
           Mine(w)', SubscribersOK', "race" \notin events'
    PROVE  SerialOK'
<1>1. \A v \in Workers : v # w => Mine(v)'
  BY DEF Mine, Emptied, CopyCurrent, SerialNew, At
<1>2. QED
  BY <1>1 DEF SerialOK, Alone

\* The others stay idle while a request is served.
LEMMA OthersIdle ==
    ASSUME LocalsOK, Alone, NEW w \in Workers, Serve(w) \/ FailStatement(w)
    PROVE  /\ pc[w] # "idle"
           /\ \A v \in Workers \ {w} : pc[v] = "idle" /\ pc'[v] = "idle"
<1>1. pc[w] # "idle"
  BY DEF Serve, FailStatement, CheckPlan, CheckSubscriber, ReadStatus, NextIDLoad, NextIDStore,
         NextIDRead, RefuseDuplicate, CreatePlan, CreateSubscriber, AddUsage, LoadUsage,
         AppendUsage, AppendDetached, Reply, UpdateMissing, UpdateSubscriber, UpdateChecked,
         UpdateAssign, Wipe, WipeStep, At
<1>2. \A v \in Workers \ {w} : pc[v] = "idle"
  BY <1>1 DEF Alone
<1>3. ASSUME NEW v \in Workers \ {w}
      PROVE  pc'[v] = pc[v] \/ pc[v] = "append"
  BY DEF Serve, FailStatement, CheckPlan, CheckSubscriber, ReadStatus, NextIDLoad, NextIDStore,
         NextIDRead, RefuseDuplicate, CreatePlan, CreateSubscriber, AddUsage, LoadUsage,
         AppendUsage, AppendDetached, Reply, UpdateMissing, UpdateSubscriber, UpdateChecked,
         UpdateAssign, Wipe, Detached, Proceed, Fail, Answer, Goto, LocalsOK
<1>4. QED
  BY <1>1, <1>2, <1>3


\* A step that leaves the subscribers as they are.
LEMMA SubscribersStay ==
    ASSUME SharedOK, SubscribersOK, subscribers' \subseteq subscribers,
           arrivals' \in {arrivals, arrivals + 1}
    PROVE  SubscribersOK'
BY DEF SharedOK, SubscribersOK, SubscriberRow

\* The locals of the goroutine that moves, after it moved on or answered.
LEMMA ProceedLocals ==
    ASSUME LocalsOK, NEW w \in Workers, NEW step, Proceed(w, step)
    PROVE  pc'[w] = step /\ call'[w] = call[w] /\ num'[w] = num[w] /\ copy'[w] = copy[w]
BY DEF LocalsOK, Proceed, Goto

\* A goroutine that has answered relies on nothing.
LEMMA AnswerIdle ==
    ASSUME LocalsOK, NEW w \in Workers, NEW code, Answer(w, code)
    PROVE  Mine(w)'
<1>1. pc'[w] = "idle"
  BY DEF LocalsOK, Answer, Goto
<1>2. QED
  BY <1>1 DEF Mine, Emptied, CopyCurrent, SerialNew, At

\* A step of the goroutine that has the only request.
LEMMA ServeSerial ==
    ASSUME TypeInv, SerialOK, NEW w \in Workers, Serve(w) \/ FailStatement(w)
    PROVE  SerialOK'
<1> USE DEF history, counts, tables
<1>0. /\ LocalsOK /\ SharedOK /\ FlowOK /\ CopyOK
      /\ Alone /\ Mine(w) /\ SubscribersOK /\ "race" \notin events
  BY DEF TypeInv, SerialOK
<1>1. /\ pc[w] # "idle"
      /\ \A v \in Workers \ {w} : pc[v] = "idle" /\ pc'[v] = "idle"
  BY <1>0, OthersIdle
<1>3. arrivals' = arrivals /\ call[w].by <= arrivals
  BY <1>0, <1>1
     DEF Serve, FailStatement, CheckPlan, CheckSubscriber, ReadStatus, NextIDLoad, NextIDStore,
         NextIDRead, RefuseDuplicate, CreatePlan, CreateSubscriber, AddUsage, LoadUsage,
         AppendUsage, AppendDetached, Reply, UpdateMissing, UpdateSubscriber, UpdateChecked,
         UpdateAssign, Wipe, Mine, SerialNew
<1>4. "race" \notin events'
  BY <1>0, <1>1
     DEF Serve, FailStatement, CheckPlan, CheckSubscriber, ReadStatus, NextIDLoad, NextIDStore,
         NextIDRead, RefuseDuplicate, CreatePlan, CreateSubscriber, AddUsage, LoadUsage,
         AppendUsage, AppendDetached, Reply, UpdateMissing, UpdateSubscriber, UpdateChecked,
         UpdateAssign, Wipe
<1>. SUFFICES Mine(w)' /\ SubscribersOK'
  BY <1>1, <1>4, SoloSerial
<1>5. ASSUME NEW code, Answer(w, code), subscribers' \subseteq subscribers
      PROVE  Mine(w)' /\ SubscribersOK'
  BY <1>0, <1>3, <1>5, AnswerIdle, SubscribersStay
<1>6. ASSUME NEW step \in {"load", "store", "read", "write", "reply"},
             pc'[w] = step, call'[w] = call[w], subscribers' = subscribers,
             call[w].op \in Creates,
             step = "reply" \/ pc[w] \in {"check", "load", "store", "read", "write"}
      PROVE  Mine(w)' /\ SubscribersOK'
  <2>1. SubscribersOK'
    BY <1>0, <1>3, <1>6, SubscribersStay
  <2>2. Mine(w)'
    BY <1>0, <1>3, <1>6 DEF Mine, Emptied, CopyCurrent, SerialNew, At, Creates
  <2>3. QED
    BY <2>1, <2>2
<1>7. CASE CheckPlan(w) \/ CheckSubscriber(w)
  <2>1. CASE Proceed(w, "load")
    <3>1. pc'[w] = "load" /\ call'[w] = call[w] /\ subscribers' = subscribers
      BY <1>0, <1>7, <2>1, ProceedLocals DEF CheckPlan, CheckSubscriber
    <3>2. pc[w] = "check" /\ call[w].op \in Creates
      BY <1>7 DEF CheckPlan, CheckSubscriber, At, Creates
    <3>3. QED
      BY <1>6, <3>1, <3>2
  <2>2. CASE ~Proceed(w, "load")
    BY <1>5, <1>7, <2>2 DEF CheckPlan, CheckSubscriber, Fail
  <2>3. QED
    BY <2>1, <2>2
<1>8. CASE ReadStatus(w)
  <2>1. CASE \E err : Fail(w, err)
    BY <1>5, <1>8, <2>1 DEF ReadStatus, Fail
  <2>2. CASE ~ \E err : Fail(w, err)
    <3>1. PICK s \in subscribers :
              /\ s.id = call[w].ref
              /\ Allowed(s.status, call[w].to)
              /\ copy' = [copy EXCEPT ![w] = {[s EXCEPT !.status = call[w].to]}]
              /\ Goto(w, "write")
              /\ UNCHANGED <<call, num, resp>>
      BY <1>8, <2>2 DEF ReadStatus
    <3>2. /\ pc'[w] = "write" /\ call'[w] = call[w]
          /\ copy'[w] = {[s EXCEPT !.status = call[w].to]}
          /\ subscribers' = subscribers /\ call[w].op = "changeStatus"
      BY <1>0, <1>8, <3>1 DEF LocalsOK, Goto, ReadStatus, At
    <3>3. CopyCurrent(w)'
      BY <3>1, <3>2 DEF CopyCurrent
    <3>4. Mine(w)'
      BY <1>3, <3>2, <3>3 DEF Mine, Emptied, SerialNew
    <3>5. QED
      BY <1>0, <1>3, <3>2, <3>4, SubscribersStay
  <2>3. QED
    BY <2>1, <2>2
<1>9. CASE NextIDLoad(w) \/ NextIDStore(w) \/ NextIDRead(w)
  <2>1. /\ pc[w] \in {"load", "store", "read"} /\ pc'[w] \in {"store", "read", "write"}
        /\ call'[w] = call[w] /\ subscribers' = subscribers
    BY <1>0, <1>9 DEF NextIDLoad, NextIDStore, NextIDRead, Proceed, Goto, LocalsOK
  <2>2. call[w].op \in Creates
    BY <1>0, <2>1 DEF FlowOK
  <2>3. QED
    BY <1>6, <2>1, <2>2
<1>10. CASE CreatePlan(w) \/ AddUsage(w) \/ AppendUsage(w) \/ AppendDetached(w)
  <2>1. pc'[w] = "reply" /\ call'[w] = call[w] /\ subscribers' = subscribers
    BY <1>0, <1>10, ProceedLocals DEF CreatePlan, AddUsage, AppendUsage, AppendDetached
  <2>2. call[w].op \in Creates
    BY <1>0, <1>10 DEF CreatePlan, AddUsage, AppendUsage, AppendDetached, At, Creates, FlowOK
  <2>3. QED
    BY <1>6, <2>1, <2>2
<1>11. CASE CreateSubscriber(w)
  <2>1. pc'[w] = "reply" /\ call'[w] = call[w]
    BY <1>0, <1>11, ProceedLocals DEF CreateSubscriber
  <2>2. Mine(w)'
    BY <1>3, <2>1 DEF Mine, Emptied, CopyCurrent, SerialNew, At
  <2>3. /\ subscribers' = {x \in subscribers : x.id # num[w]} \cup {NewSubscriber(w)}
        /\ NewSubscriber(w).id = num[w] /\ NewSubscriber(w).by = call[w].by
    BY <1>11 DEF CreateSubscriber, Put, NewSubscriber
  <2>4. SubscribersOK'
    BY <1>0, <1>3, <2>3 DEF SubscribersOK
  <2>5. QED
    BY <2>2, <2>4
<1>12. CASE LoadUsage(w)
  <2>1. /\ pc'[w] = "append" /\ call'[w] = call[w]
        /\ copy'[w] = UsageOf(call[w].ref) /\ usage' = usage /\ subscribers' = subscribers
    BY <1>0, <1>12 DEF LoadUsage, LocalsOK, Goto
  <2>2. Mine(w)'
    BY <1>3, <2>1 DEF Mine, Emptied, CopyCurrent, SerialNew, At, UsageOf
  <2>3. QED
    BY <1>0, <1>3, <2>1, <2>2, SubscribersStay
<1>13. CASE UpdateChecked(w)
  <2>1. /\ pc'[w] = "assign" /\ call'[w] = call[w]
        /\ copy'[w] = copy[w] /\ subscribers' = subscribers
    BY <1>0, <1>13, ProceedLocals DEF UpdateChecked
  <2>2. At(w, "write", {"changeStatus"})
    BY <1>13 DEF UpdateChecked
  <2>3. CopyCurrent(w)'
    BY <1>0, <2>1, <2>2 DEF Mine, CopyCurrent
  <2>4. Mine(w)'
    BY <1>3, <2>1, <2>3 DEF Mine, Emptied, SerialNew
  <2>5. QED
    BY <1>0, <1>3, <2>1, <2>4, SubscribersStay
<1>14. CASE UpdateSubscriber(w) \/ UpdateAssign(w)
  <2>1. Mine(w)'
    BY <1>0, <1>14, AnswerIdle DEF UpdateSubscriber, UpdateAssign, Fail
  <2>2. PICK s \in subscribers :
            s.id = call[w].ref /\ copy[w] = {[s EXCEPT !.status = call[w].to]}
    BY <1>0, <1>14 DEF UpdateSubscriber, UpdateAssign, Mine, CopyCurrent
  <2>3. PICK t : t = [s EXCEPT !.status = call[w].to]
    OBVIOUS
  <2>4. t.id = s.id /\ t.by = s.by
    BY <1>0, <2>3 DEF SharedOK, SubscriberRow
  <2>5. subscribers' = {x \in subscribers : x.id # call[w].ref} \cup {t}
    BY <1>14, <2>2, <2>3 DEF UpdateSubscriber, UpdateAssign, WriteBack
  <2>6. SubscribersOK'
    BY <1>0, <1>3, <2>2, <2>4, <2>5 DEF SubscribersOK
  <2>7. QED
    BY <2>1, <2>6
<1>15. CASE Wipe(w)
  <2>1. subscribers' \subseteq subscribers
    BY <1>15 DEF Wipe, Wiped
  <2>2. SubscribersOK'
    BY <1>0, <1>3, <2>1, SubscribersStay
  <2>3. /\ pc[w] \in WipeStep
        /\ \/ pc'[w] = "idle"
           \/ pc[w] # "wipe3" /\ pc'[w] = AfterWipe(pc[w]) /\ call'[w] = call[w]
    BY <1>0, <1>15 DEF Wipe, Detached, LocalsOK
  <2>4. \A x : Rows(x)' \subseteq Rows(x)
    BY <1>15 DEF Wipe, Wiped, Rows
  <2>5. \A step \in WipeStep : pc[w] = step => Rows(WipeOrder[step])' = {}
    BY <1>15, BackendAssumption DEF Wipe, Wiped, Rows, WipeOrder, WipeStep
  <2>6. CASE pc'[w] = "idle"
    BY <2>2, <2>6 DEF Mine, Emptied, CopyCurrent, SerialNew, At
  <2>7. CASE pc'[w] # "idle" /\ pc[w] = "wipe1"
    <3>1. pc'[w] = "wipe2" /\ call'[w] = call[w]
      BY <2>3, <2>7 DEF AfterWipe
    <3>2. QED
      BY <1>3, <2>2, <2>5, <2>7, <3>1 DEF WipeStep, Mine, Emptied, CopyCurrent, SerialNew, At
  <2>8. CASE pc'[w] # "idle" /\ pc[w] = "wipe2"
    <3>1. pc'[w] = "wipe3" /\ call'[w] = call[w]
      BY <2>3, <2>8 DEF AfterWipe
    <3>2. Rows(WipeOrder["wipe1"])' = {}
      BY <1>0, <2>4, <2>8 DEF Mine, Emptied
    <3>3. Rows(WipeOrder["wipe2"])' = {}
      BY <2>5, <2>8 DEF WipeStep
    <3>4. QED
      BY <1>3, <2>2, <3>1, <3>2, <3>3 DEF Mine, Emptied, CopyCurrent, SerialNew, At
  <2>9. QED
    BY <2>3, <2>6, <2>7, <2>8 DEF WipeStep
<1>16. CASE RefuseDuplicate(w) \/ UpdateMissing(w) \/ FailStatement(w) \/ Reply(w)
  BY <1>5, <1>16 DEF RefuseDuplicate, UpdateMissing, FailStatement, Reply, Fail
<1>17. QED
  BY <1>7, <1>8, <1>9, <1>10, <1>11, <1>12, <1>13, <1>14, <1>15, <1>16 DEF Serve

\* An overlap, once it happened, stays in the history.
LEMMA OverlapStays ==
    ASSUME [Next]_vars, "overlap" \in events
    PROVE  "overlap" \in events'
BY DEF Next, Serve, vars, history, Refuse, Arrive, CheckPlan, CheckSubscriber,
       ReadStatus, NextIDLoad, NextIDStore, NextIDRead, RefuseDuplicate, CreatePlan,
       CreateSubscriber, AddUsage, LoadUsage, AppendUsage, AppendDetached, Reply,
       UpdateMissing, UpdateSubscriber, UpdateChecked, UpdateAssign, Wipe, FailStatement,
       Restart, Quiet

\* Every step keeps what a goroutine on its own relies on.
LEMMA NextSerial ==
    ASSUME TypeInv, SerialInv, [Next]_vars
    PROVE  SerialInv'
<1> SUFFICES ASSUME "overlap" \notin events'
             PROVE  SerialOK'
  BY DEF SerialInv
<1>0. LocalsOK /\ SharedOK /\ SerialOK
  BY OverlapStays DEF TypeInv, SerialInv
<1>1. ASSUME NEW w \in Workers, Serve(w) \/ FailStatement(w)
      PROVE  SerialOK'
  BY <1>0, <1>1, ServeSerial
<1>2. ASSUME NEW w \in Workers, Arrive(w)
      PROVE  SerialOK'
  <2>1. PICK r \in Requests :
            /\ Goto(w, Entry(r.op))
            /\ call' = [call EXCEPT ![w] =
                   [op |-> r.op, ref |-> r.ref, to |-> r.to, body |-> r.body,
                    by |-> arrivals + 1]]
    BY <1>2 DEF Arrive
  <2>2. \A v \in Workers \ {w} : pc[v] = "idle" /\ pc'[v] = "idle"
    BY <1>0, <1>2, <2>1 DEF Arrive, LocalsOK, Goto
  <2>3. /\ pc'[w] \in {"load", "check", "wipe1"} /\ call'[w].by = arrivals + 1
        /\ arrivals' = arrivals + 1 /\ subscribers' = subscribers /\ arrivals \in Nat
        /\ events' = events
    BY <1>0, <1>2, <2>1 DEF Arrive, LocalsOK, SharedOK, Goto, Entry, tables
  <2>4. Mine(w)'
    BY <1>0, <2>3 DEF Mine, Emptied, CopyCurrent, SerialNew, At, SerialOK, SubscribersOK,
                      SharedOK, SubscriberRow
  <2>5. SubscribersOK'
    BY <1>0, <2>3, SubscribersStay DEF SerialOK
  <2>6. QED
    BY <1>0, <2>2, <2>3, <2>4, <2>5, SoloSerial DEF SerialOK
<1>3. ASSUME NEW w \in Workers, Refuse(w)
      PROVE  SerialOK'
  <2>1. /\ pc[w] = "idle" /\ pc'[w] = "idle"
        /\ \A v \in Workers \ {w} : pc'[v] = pc[v] /\ call'[v] = call[v] /\ copy'[v] = copy[v]
        /\ UNCHANGED <<tables, events>> /\ arrivals' = arrivals + 1 /\ arrivals \in Nat
    BY <1>0, <1>3 DEF Refuse, Fail, Answer, Goto, LocalsOK, SharedOK, history
  <2>2. Alone'
    BY <1>0, <2>1 DEF SerialOK, Alone
  <2>3. SubscribersOK'
    BY <1>0, <2>1, SubscribersStay DEF SerialOK, tables
  <2>4. ASSUME NEW v \in Workers
        PROVE  Mine(v)'
    <3>1. CASE v = w
      BY <2>1, <3>1 DEF Mine, Emptied, CopyCurrent, SerialNew, At
    <3>2. CASE v # w
      <4>1. Mine(v) /\ pc'[v] = pc[v] /\ call'[v] = call[v] /\ copy'[v] = copy[v]
        BY <1>0, <2>1, <3>2 DEF SerialOK
      <4>2. Emptied(v)' /\ CopyCurrent(v)'
        BY <2>1, <4>1 DEF Mine, Emptied, CopyCurrent, At, Rows, UsageOf, tables
      <4>3. SerialNew(v)'
        BY <1>0, <2>1, <4>1 DEF Mine, SerialNew, tables, LocalsOK, Call
      <4>4. QED
        BY <4>2, <4>3 DEF Mine
    <3>3. QED
      BY <3>1, <3>2
  <2>5. QED
    BY <1>0, <2>1, <2>2, <2>3, <2>4 DEF SerialOK
<1>4. CASE Restart
  <2>1. \A w \in Workers : pc'[w] = "idle"
    BY <1>4 DEF Restart
  <2>2. subscribers' \subseteq subscribers /\ arrivals' = arrivals /\ "race" \notin events'
    BY <1>4 DEF Restart, Kept
  <2>3. SubscribersOK'
    BY <1>0, <2>2, SubscribersStay DEF SerialOK
  <2>4. QED
    BY <2>1, <2>2, <2>3 DEF SerialOK, Alone, Mine, Emptied, CopyCurrent, SerialNew, At
<1>5. CASE UNCHANGED vars
  BY <1>0, <1>5 DEF vars, locals, tables, history, counts, SerialOK, Alone, Mine, Emptied,
                    CopyCurrent, SerialNew, SubscribersOK, At, Rows, UsageOf
<1>6. QED
  BY <1>1, <1>2, <1>3, <1>4, <1>5 DEF Next, Quiet

\* So it always holds.
LEMMA SerialInvariant == Spec => []SerialInv
<1>1. Init => SerialInv
  BY DEF Init, SerialInv, SerialOK, Alone, Mine, Emptied, CopyCurrent, SerialNew,
         SubscribersOK, At
<1>2. QED
  BY <1>1, NextSerial, TypeInvInvariant, PTL DEF Spec

\* In memory, between the first and the last table of a reset, references
\* dangle; nothing else can be under way.
Calm == Backend = "memory" => \A w \in Workers : pc[w] \notin {"wipe2", "wipe3"}

SerialRefs == "overlap" \notin events /\ Calm => RefsHold

\* Only the reset itself goes on from there.
LEMMA OnlyWipes ==
    ASSUME Backend = "memory", TypeInv, SerialOK, ~Calm, [Next]_vars,
           Calm', "overlap" \notin events'
    PROVE  Restart \/ \E w \in Workers : Wipe(w)
<1>0. LocalsOK /\ Alone
  BY DEF TypeInv, SerialOK
<1>1. PICK w \in Workers : pc[w] \in {"wipe2", "wipe3"}
  BY DEF Calm
<1>2. ASSUME NEW v \in Workers, Serve(v) \/ FailStatement(v)
      PROVE  Wipe(w)
  <2>1. v = w
    BY <1>0, <1>1, <1>2, OthersIdle
  <2>2. QED
    BY <1>1, <1>2, <2>1
     DEF Serve, FailStatement, CheckPlan, CheckSubscriber, ReadStatus, NextIDLoad, NextIDStore,
         NextIDRead, RefuseDuplicate, CreatePlan, CreateSubscriber, AddUsage, LoadUsage,
         AppendUsage, AppendDetached, Reply, UpdateMissing, UpdateSubscriber, UpdateChecked,
         UpdateAssign, At
<1>3. ASSUME NEW v \in Workers, Refuse(v)
      PROVE  FALSE
  <2>1. pc'[w] = pc[w]
    BY <1>0, <1>1, <1>3 DEF Refuse, Fail, Answer, Goto, LocalsOK
  <2>2. QED
    BY <1>1, <2>1 DEF Calm
<1>4. ASSUME NEW v \in Workers, Arrive(v)
      PROVE  FALSE
  BY <1>1, <1>4 DEF Arrive
<1>5. CASE UNCHANGED vars
  BY <1>1, <1>5 DEF Calm, vars, locals
<1>6. QED
  BY <1>2, <1>3, <1>4, <1>5 DEF Next, Quiet

\* What a reset leaves behind it has no reference left to dangle.
LEMMA WipeRefs ==
    ASSUME TypeInv, SerialOK, Calm => RefsHold, NEW w \in Workers, Wipe(w), Calm'
    PROVE  RefsHold'
<1>0. LocalsOK /\ Alone /\ Emptied(w)
  BY DEF TypeInv, SerialOK, Mine
<1>1. \A v \in Workers \ {w} : pc'[v] = "idle"
  BY <1>0, OthersIdle DEF Serve
<1>2. /\ pc[w] \in WipeStep
      /\ pc'[w] = "idle" \/ (pc[w] # "wipe3" /\ pc'[w] = AfterWipe(pc[w]))
      /\ pc'[w] = "idle" => pc[w] = "wipe3" \/ Backend = "sqlite"
  BY <1>0 DEF Wipe, WipeReturns, Detached, LocalsOK, AfterWipe, WipeStep
<1>3. \A v \in Workers : Holds(v)'
  BY <1>1, <1>2 DEF Holds, At, Creating, AfterWipe
<1>4. \A step \in WipeStep : pc[w] = step =>
          /\ plans' = Wiped(WipeOrder[step], "plans", plans)
          /\ subscribers' = Wiped(WipeOrder[step], "subscribers", subscribers)
          /\ usage' = Wiped(WipeOrder[step], "usage", usage)
  BY DEF Wipe
<1>5. CASE Backend = "sqlite"
  <2>1. References
    BY <1>5 DEF Calm, RefsHold
  <2>2. CASE pc[w] = "wipe1"
    <3>1. plans' = plans /\ subscribers' = subscribers /\ usage' = {}
      BY <1>4, <1>5, <2>2 DEF WipeStep, WipeOrder, Wiped
    <3>2. QED
      BY <1>3, <2>1, <3>1 DEF RefsHold, References
  <2>3. CASE pc[w] = "wipe2"
    <3>1. usage = {}
      BY <1>0, <1>5, <2>3 DEF Emptied, Rows, WipeOrder
    <3>2. subscribers' = {} /\ usage' = usage
      BY <1>4, <1>5, <2>3 DEF WipeStep, WipeOrder, Wiped
    <3>3. QED
      BY <1>3, <3>1, <3>2 DEF RefsHold, References
  <2>4. CASE pc[w] = "wipe3"
    <3>1. usage = {} /\ subscribers = {}
      BY <1>0, <1>5, <2>4 DEF Emptied, Rows, WipeOrder
    <3>2. subscribers' = subscribers /\ usage' = usage
      BY <1>4, <1>5, <2>4 DEF WipeStep, WipeOrder, Wiped
    <3>3. QED
      BY <1>3, <3>1, <3>2 DEF RefsHold, References
  <2>5. QED
    BY <1>2, <2>2, <2>3, <2>4 DEF WipeStep
<1>6. CASE Backend = "memory"
  <2>1. pc[w] = "wipe3"
    BY <1>2, <1>6 DEF Calm, AfterWipe, WipeStep
  <2>2. subscribers = {}
    BY <1>0, <1>6, <2>1 DEF Emptied, Rows, WipeOrder
  <2>3. subscribers' = subscribers /\ usage' = {}
    BY <1>4, <1>6, <2>1 DEF WipeStep, WipeOrder, Wiped
  <2>4. QED
    BY <1>3, <2>2, <2>3 DEF RefsHold, References
<1>7. QED
  BY <1>5, <1>6, BackendAssumption

\* Every step of requests served one at a time keeps the references.
LEMMA NextSerialRefs ==
    ASSUME TypeInv, SerialInv, SerialRefs, [Next]_vars
    PROVE  SerialRefs'
<1> SUFFICES ASSUME "overlap" \notin events', Calm'
             PROVE  RefsHold'
  BY DEF SerialRefs
<1>0. SerialOK /\ (Calm => RefsHold)
  BY OverlapStays DEF SerialInv, SerialRefs
<1>1. CASE Restart
  <2>1. \A w \in Workers : Holds(w)'
    BY <1>1 DEF Restart, Holds, At, Creating
  <2>2. CASE Backend = "sqlite"
    BY <1>0, <1>1, <2>1, <2>2 DEF Restart, Kept, Calm, RefsHold, References
  <2>3. CASE Backend # "sqlite"
    BY <1>1, <2>1, <2>3 DEF Restart, Kept, RefsHold, References
  <2>4. QED
    BY <2>2, <2>3
<1>2. CASE \E w \in Workers : Wipe(w)
  BY <1>0, <1>2, WipeRefs
<1>3. CASE ~Restart /\ ~ \E w \in Workers : Wipe(w)
  <2>1. Calm
    BY <1>0, <1>3, OnlyWipes DEF Calm
  <2>2. QED
    BY <1>0, <1>3, <2>1, NextHolds
<1>4. QED
  BY <1>1, <1>2, <1>3

\* With either backend, requests served one at a time never leave a reference
\* dangling, not even when a reset fails half way or the process dies in it.
THEOREM SerialReferencesHold == Spec => []SerialReferences
<1>1. Init => SerialRefs
  BY DEF Init, SerialRefs, RefsHold, References, Holds, At, Creating
<1>2. SerialRefs => SerialReferences
  BY DEF SerialRefs, SerialReferences, Calm, RefsHold
<1>3. QED
  BY <1>1, <1>2, NextSerialRefs, SerialInvariant, TypeInvInvariant, PTL DEF Spec

\* In memory nothing is carried over a restart, and while requests do not
\* overlap every create stays stored.
MemoryCreates == carried = {} /\ SerialCreates

\* Every step of requests served one at a time keeps what memory has promised.
LEMMA NextCreates ==
    ASSUME Backend = "memory", TypeInv, NumbersInv, SerialInv, MemoryCreates, [Next]_vars
    PROVE  MemoryCreates'
<1> USE DEF history
<1>0. LocalsOK /\ SharedOK /\ FlowOK /\ CopyOK /\ carried = {}
  BY DEF TypeInv, MemoryCreates
<1>1. carried' = {}
  <2>1. CASE Restart
    BY <2>1 DEF Restart, Kept, KeysOf, Ids
  <2>2. CASE ~Restart
    BY <1>0, <2>2
       DEF Next, Serve, vars, Refuse, Arrive, CheckPlan, CheckSubscriber, ReadStatus, NextIDLoad,
           NextIDStore, NextIDRead, RefuseDuplicate, CreatePlan, CreateSubscriber, AddUsage,
           LoadUsage, AppendUsage, AppendDetached, Reply, UpdateMissing, UpdateSubscriber,
           UpdateChecked, UpdateAssign, Wipe, FailStatement, Quiet
  <2>3. QED
    BY <2>1, <2>2
<1>2. SUFFICES ASSUME "overlap" \notin events'
               PROVE  CreatedDurable'
  BY <1>1 DEF MemoryCreates, SerialCreates
<1>3. SerialOK /\ NumbersOK /\ CreatedDurable
  <2>1. "overlap" \notin events
    BY <1>2, OverlapStays
  <2>2. SerialOK /\ CreatedDurable
    BY <2>1 DEF SerialInv, MemoryCreates, SerialCreates
  <2>3. "race" \notin events
    BY <2>2 DEF SerialOK
  <2>4. QED
    BY <2>2, <2>3 DEF NumbersInv
<1>4. ASSUME NEW w \in Workers, CreatePlan(w)
      PROVE  CreatedDurable'
  <2>1. num[w] \notin Ids(plans)
    BY <1>0, <1>3, <1>4
       DEF CreatePlan, NumbersOK, DrawnFresh, Drawn, Creates, Taken, Rows, TableOf, At
  <2>2. plans' = plans \cup {NewPlan(w)}
    BY <1>4, <2>1, PutFresh DEF CreatePlan, NewPlan
  <2>3. PICK new : new = [table |-> "plans", id |-> num[w], by |-> call[w].by]
    OBVIOUS
  <2>4. promised' = promised \cup {new}
    BY <1>4, <2>3 DEF CreatePlan, Promise
  <2>5. Stored(new)'
    BY <2>2, <2>3 DEF Stored, NewPlan
  <2>6. QED
    BY <1>3, <1>4, <2>2, <2>4, <2>5, PromiseStored DEF CreatePlan
<1>5. ASSUME NEW w \in Workers, CreateSubscriber(w)
      PROVE  CreatedDurable'
  <2>1. Ids(subscribers') = Ids(subscribers) \cup {num[w]}
    BY <1>5, PutIds DEF CreateSubscriber, NewSubscriber
  <2>2. PICK new : new = [table |-> "subscribers", id |-> num[w], by |-> call[w].by]
    OBVIOUS
  <2>3. promised' = promised \cup {new}
    BY <1>5, <2>2 DEF CreateSubscriber, Promise
  <2>4. Stored(new)'
    BY <2>1, <2>2 DEF Stored
  <2>5. QED
    BY <1>3, <1>5, <2>1, <2>3, <2>4, PromiseStored DEF CreateSubscriber
<1>6. ASSUME NEW w \in Workers, AppendUsage(w)
      PROVE  CreatedDurable'
  <2>1. copy[w] = UsageOf(call[w].ref)
    BY <1>3, <1>6 DEF AppendUsage, SerialOK, Mine, CopyCurrent
  <2>2. usage \subseteq usage' /\ NewUsage(w) \in usage'
    BY <1>6, <2>1 DEF AppendUsage
  <2>3. PICK new : new = [table |-> "usage", id |-> num[w], by |-> call[w].by]
    OBVIOUS
  <2>4. promised' = promised \cup {new}
    BY <1>6, <2>3 DEF AppendUsage, Promise
  <2>5. NewUsage(w).id = num[w] /\ NewUsage(w).by = call[w].by
    BY DEF NewUsage
  <2>6. Stored(new)'
    BY <2>2, <2>3, <2>5 DEF Stored
  <2>7. QED
    BY <1>3, <1>6, <2>2, <2>4, <2>6, PromiseStored DEF AppendUsage
<1>7. ASSUME NEW w \in Workers, UpdateAssign(w)
      PROVE  CreatedDurable'
  <2>1. PICK r \in SubscriberRow : r.id = call[w].ref /\ copy[w] = {r}
    BY <1>0, <1>7 DEF UpdateAssign, CopyOK
  <2>2. Ids(subscribers) \subseteq Ids(subscribers')
    BY <1>7, <2>1 DEF UpdateAssign, WriteBack, Ids
  <2>3. QED
    BY <1>3, <1>7, <2>2, StoredGrows DEF UpdateAssign, CreatedDurable
<1>8. ASSUME NEW w \in Workers, Wipe(w)
      PROVE  CreatedDurable'
  <2>1. PICK t :
            /\ plans' = Wiped(t, "plans", plans)
            /\ subscribers' = Wiped(t, "subscribers", subscribers)
            /\ usage' = Wiped(t, "usage", usage)
            /\ promised' = {e \in promised : e.table # t}
    BY <1>8 DEF Wipe
  <2>2. QED
    BY <1>3, <2>1 DEF Wiped, CreatedDurable, Stored
<1>9. ASSUME Restart
      PROVE  CreatedDurable'
  BY <1>9 DEF Restart, Kept, CreatedDurable
<1>10. ASSUME NEW w \in Workers,
              \/ Refuse(w) \/ Arrive(w) \/ CheckPlan(w) \/ CheckSubscriber(w)
              \/ ReadStatus(w) \/ NextIDLoad(w) \/ NextIDStore(w) \/ NextIDRead(w)
              \/ RefuseDuplicate(w) \/ LoadUsage(w) \/ AppendDetached(w) \/ Reply(w)
              \/ UpdateMissing(w) \/ UpdateChecked(w) \/ FailStatement(w)
       PROVE  CreatedDurable'
  BY <1>3, <1>10, StoredUntouched
     DEF Refuse, Arrive, CheckPlan, CheckSubscriber, ReadStatus, NextIDLoad, NextIDStore,
         NextIDRead, RefuseDuplicate, LoadUsage, AppendDetached, Reply, UpdateMissing,
         UpdateChecked, FailStatement
<1>11. ASSUME NEW w \in Workers, AddUsage(w) \/ UpdateSubscriber(w)
       PROVE  FALSE
  BY <1>11 DEF AddUsage, UpdateSubscriber
<1>12. ASSUME UNCHANGED vars
       PROVE  CreatedDurable'
  BY <1>3, <1>12, StoredUntouched DEF vars
<1>13. QED
  BY <1>4, <1>5, <1>6, <1>7, <1>8, <1>9, <1>10, <1>11, <1>12 DEF Next, Serve, Quiet

\* Requests served one at a time lose no create, with either backend: in memory
\* because the counter never repeats itself and nobody appends in between.
THEOREM SerialCreatesAreDurable == Spec => []SerialCreates
<1>1. CASE Backend = "sqlite"
  <2>1. CreatedDurable => SerialCreates
    BY DEF SerialCreates
  <2>2. QED
    BY <1>1, <2>1, CreatesAreDurable, PTL
<1>2. CASE Backend = "memory"
  <2>1. Init => MemoryCreates
    BY DEF Init, MemoryCreates, SerialCreates, CreatedDurable
  <2>2. TypeInv /\ NumbersInv /\ SerialInv /\ MemoryCreates /\ [Next]_vars => MemoryCreates'
    BY <1>2, NextCreates
  <2>3. MemoryCreates => SerialCreates
    BY DEF MemoryCreates
  <2>4. QED
    BY <2>1, <2>2, <2>3, NumbersInvariant, SerialInvariant, TypeInvInvariant, PTL DEF Spec
<1>3. QED
  BY <1>1, <1>2, BackendAssumption

----
\* A goroutine that may still insert the subscriber it was asked for.
Subscribing(w) ==
    /\ pc[w] \in {"check", "load", "store", "read", "write"}
    /\ call[w].op = "createSubscriber"

\* Who a subscriber is: the serials of the rows in the table and of those a
\* PATCH may write back.
BysOf(w) == IF Patching(w) THEN {c.by : c \in copy[w]} ELSE {}

Bys == {s.by : s \in subscribers} \cup UNION {BysOf(w) : w \in Workers}

\* A subscriber still to be inserted is none of them, nor another's.
FreshOK ==
    /\ \A n \in Bys : n <= arrivals
    /\ \A w \in Workers : Subscribing(w) => call[w].by <= arrivals /\ call[w].by \notin Bys
    /\ \A v, w \in Workers :
           Subscribing(v) /\ Subscribing(w) /\ call[v].by = call[w].by => v = w

KeysOnce == \A r, s \in subscribers : r.id = s.id => r = s

\* The transition was judged on the row as it still is, if it still is.
CopyJudged(w) ==
    Patching(w) /\ w \notin stale =>
        \A c \in copy[w], s \in subscribers :
            s.id = c.id /\ s.by = c.by => Allowed(s.status, c.status)

MovesInv == KeysOnce /\ FreshOK /\ \A w \in Workers : CopyJudged(w)

\* A step of w leaves the locals of every other goroutine alone, but for
\* an append that a reset detaches.
OthersStay(w) ==
    \A v \in Workers \ {w} :
        /\ call'[v] = call[v] /\ copy'[v] = copy[v]
        /\ pc'[v] = pc[v] \/ (pc[v] = "append" /\ pc'[v] = "detached")

\* Those that neither subscribe nor patch differently are where they were.
LEMMA OthersKeep ==
    ASSUME NEW w \in Workers, OthersStay(w), NEW v \in Workers \ {w}
    PROVE  /\ Subscribing(v)' <=> Subscribing(v)
           /\ Patching(v)' <=> Patching(v)
           /\ call'[v] = call[v] /\ copy'[v] = copy[v]
           /\ BysOf(v)' = BysOf(v)
BY DEF OthersStay, Subscribing, Patching, At, BysOf

\* A step that names no new subscriber keeps the serials apart.
LEMMA FreshStays ==
    ASSUME FreshOK, Bys' \subseteq Bys, arrivals \in Nat,
           arrivals' = arrivals \/ arrivals' = arrivals + 1,
           \A n \in Bys : n \in Nat,
           \A w \in Workers : call[w].by \in Nat,
           \A w \in Workers : Subscribing(w)' => Subscribing(w) /\ call'[w].by = call[w].by
    PROVE  FreshOK'
<1>1. \A n \in Bys' : n <= arrivals'
  BY DEF FreshOK
<1>2. ASSUME NEW w \in Workers, Subscribing(w)'
      PROVE  call'[w].by <= arrivals' /\ call'[w].by \notin Bys'
  BY <1>2 DEF FreshOK
<1>3. ASSUME NEW v \in Workers, NEW w \in Workers,
             Subscribing(v)', Subscribing(w)', call'[v].by = call'[w].by
      PROVE  v = w
  BY <1>3 DEF FreshOK
<1>4. QED
  BY <1>1, <1>2, <1>3 DEF FreshOK

\* Serials are numbers.
LEMMA BysNat ==
    ASSUME TypeInv
    PROVE  /\ \A n \in Bys : n \in Nat
           /\ \A w \in Workers : call[w].by \in Nat
           /\ arrivals \in Nat
<1>1. \A s \in subscribers : s.by \in Nat
  BY DEF TypeInv, SharedOK, SubscriberRow
<1>2. ASSUME NEW w \in Workers, NEW n \in BysOf(w)
      PROVE  n \in Nat
  <2>1. Patching(w) /\ n \in {c.by : c \in copy[w]}
    BY <1>2 DEF BysOf
  <2>2. \A c \in copy[w] : c.by \in Nat
    BY <2>1 DEF TypeInv, CopyOK, Patching, SubscriberRow
  <2>3. QED
    BY <2>1, <2>2
<1>3. \A n \in Bys : n \in Nat
  BY <1>1, <1>2 DEF Bys
<1>4. QED
  BY <1>3 DEF TypeInv, LocalsOK, SharedOK, Call

\* A step of w that adds no row and reads none for a PATCH.
LEMMA NothingNew ==
    ASSUME TypeInv, MovesInv, NEW w \in Workers, OthersStay(w),
           subscribers' \subseteq subscribers,
           arrivals' = arrivals \/ arrivals' = arrivals + 1,
           stale' = stale \/ (~Patching(w)' /\ stale' = stale \ {w}),
           Subscribing(w)' => Subscribing(w) /\ call'[w].by = call[w].by,
           Patching(w)' => Patching(w) /\ copy'[w] = copy[w]
    PROVE  MovesInv'
<1>1. KeysOnce'
  BY DEF MovesInv, KeysOnce
<1>2. \A v \in Workers : BysOf(v)' \subseteq BysOf(v)
  BY OthersKeep DEF BysOf
<1>3. Bys' \subseteq Bys
  BY <1>2 DEF Bys
<1>4. \A v \in Workers : Subscribing(v)' => Subscribing(v) /\ call'[v].by = call[v].by
  BY OthersKeep
<1>5. FreshOK'
  BY <1>3, <1>4, BysNat, FreshStays DEF MovesInv
<1>6. ASSUME NEW v \in Workers
      PROVE  CopyJudged(v)'
  <2>1. Patching(v)' => Patching(v) /\ copy'[v] = copy[v] /\ (v \in stale' <=> v \in stale)
    BY OthersKeep
  <2>2. QED
    BY <2>1 DEF MovesInv, CopyJudged
<1>7. QED
  BY <1>1, <1>5, <1>6 DEF MovesInv

\* An answer adds no row and leaves nothing to write back.
LEMMA AnsweredNothingNew ==
    ASSUME TypeInv, MovesInv, NEW w \in Workers, NEW code, Answer(w, code),
           subscribers' = subscribers,
           arrivals' = arrivals \/ arrivals' = arrivals + 1,
           stale' \in {stale, stale \ {w}}
    PROVE  MovesInv'
<1>1. OthersStay(w) /\ pc'[w] = "idle"
  BY DEF TypeInv, LocalsOK, Answer, Goto, OthersStay
<1>2. ~Patching(w)' /\ ~Subscribing(w)'
  BY <1>1 DEF Patching, Subscribing, At
<1>3. QED
  BY <1>1, <1>2, NothingNew

\* So does moving on, unless it is to a PATCH's write.
LEMMA ProceedNothingNew ==
    ASSUME TypeInv, MovesInv, NEW w \in Workers, NEW step, Proceed(w, step),
           subscribers' = subscribers, arrivals' = arrivals, stale' = stale,
           step \in {"load", "read", "reply", "assign"},
           step = "load" => pc[w] = "check",
           step = "read" => pc[w] = "store",
           step = "assign" => Patching(w)
    PROVE  MovesInv'
<1>1. OthersStay(w) /\ pc'[w] = step /\ call'[w] = call[w] /\ copy'[w] = copy[w]
  BY DEF TypeInv, LocalsOK, Proceed, Goto, OthersStay
<1>2. Subscribing(w)' => Subscribing(w) /\ call'[w].by = call[w].by
  BY <1>1 DEF Subscribing
<1>3. Patching(w)' => Patching(w) /\ copy'[w] = copy[w]
  BY <1>1 DEF Patching, At
<1>4. QED
  BY <1>1, <1>2, <1>3, NothingNew

\* A PATCH judges the transition on the row it has just read.
LEMMA ReadMoves ==
    ASSUME TypeInv, MovesInv, NEW w \in Workers, ReadStatus(w)
    PROVE  MovesInv'
<1> USE DEF history, tables, counts
<1>0. LocalsOK /\ SharedOK
  BY DEF TypeInv
<1>1. CASE \E err : Fail(w, err)
  BY <1>1, AnsweredNothingNew DEF ReadStatus, Fail
<1>2. CASE ~ \E err : Fail(w, err)
  <2>1. PICK s \in subscribers :
            /\ s.id = call[w].ref
            /\ Allowed(s.status, call[w].to)
            /\ copy' = [copy EXCEPT ![w] = {[s EXCEPT !.status = call[w].to]}]
            /\ Goto(w, "write")
            /\ UNCHANGED <<call, num, resp>>
    BY <1>2 DEF ReadStatus
  <2>2. PICK c : c = [s EXCEPT !.status = call[w].to]
    OBVIOUS
  <2>3. c.id = s.id /\ c.by = s.by /\ c.status = call[w].to
    BY <1>0, <2>2 DEF SharedOK, SubscriberRow
  <2>4. /\ OthersStay(w) /\ pc'[w] = "write" /\ copy'[w] = {c}
        /\ call' = call /\ call[w].op = "changeStatus"
        /\ subscribers' = subscribers /\ stale' = stale /\ arrivals' = arrivals
    BY <1>0, <2>1, <2>2 DEF ReadStatus, At, LocalsOK, Goto, OthersStay
  <2>5. KeysOnce'
    BY <2>4 DEF MovesInv, KeysOnce
  <2>6. Bys' \subseteq Bys
    <3>1. \A v \in Workers \ {w} : BysOf(v)' = BysOf(v)
      BY <2>4, OthersKeep
    <3>2. BysOf(w)' \subseteq {s.by}
      BY <2>3, <2>4 DEF BysOf
    <3>3. QED
      BY <2>4, <3>1, <3>2 DEF Bys
  <2>7. \A v \in Workers : Subscribing(v)' => Subscribing(v)
    BY <2>4, OthersKeep DEF Subscribing
  <2>8. FreshOK'
    BY <2>4, <2>6, <2>7, BysNat, FreshStays DEF MovesInv
  <2>9. CopyJudged(w)'
    BY <2>1, <2>3, <2>4 DEF CopyJudged, MovesInv, KeysOnce
  <2>10. ASSUME NEW v \in Workers \ {w}
         PROVE  CopyJudged(v)'
    BY <2>4, OthersKeep DEF MovesInv, CopyJudged
  <2>11. QED
    BY <2>5, <2>8, <2>9, <2>10 DEF MovesInv
<1>3. QED
  BY <1>1, <1>2

\* An arrival is given a serial no row and no other arrival has.
LEMMA ArriveMoves ==
    ASSUME TypeInv, MovesInv, NEW w \in Workers, Arrive(w)
    PROVE  MovesInv'
<1> USE DEF history, tables, counts
<1>0. LocalsOK /\ SharedOK /\ FreshOK
  BY DEF TypeInv, MovesInv
<1>1. PICK r \in Requests :
          /\ Goto(w, Entry(r.op))
          /\ call' = [call EXCEPT ![w] =
                 [op |-> r.op, ref |-> r.ref, to |-> r.to, body |-> r.body,
                  by |-> arrivals + 1]]
  BY DEF Arrive
<1>2. /\ OthersStay(w) /\ pc'[w] \in {"check", "load", "wipe1"}
      /\ call'[w].by = arrivals + 1 /\ arrivals' = arrivals + 1
      /\ subscribers' = subscribers /\ stale' = stale
  BY <1>0, <1>1 DEF Arrive, LocalsOK, Goto, Entry, OthersStay
<1>3. ~Patching(w)'
  BY <1>2 DEF Patching, At
<1>4. \A v \in Workers : BysOf(v)' \subseteq BysOf(v)
  BY <1>2, <1>3, OthersKeep DEF BysOf
<1>5. Bys' \subseteq Bys
  BY <1>2, <1>4 DEF Bys
<1>6. \A v \in Workers \ {w} : (Subscribing(v)' => Subscribing(v)) /\ call'[v] = call[v]
  BY <1>2, OthersKeep
<1>7. \A n \in Bys' : n <= arrivals /\ n \in Nat
  BY <1>0, <1>5, BysNat DEF FreshOK
<1>8. ASSUME NEW v \in Workers, Subscribing(v)'
      PROVE  call'[v].by <= arrivals' /\ call'[v].by \notin Bys'
  BY <1>0, <1>2, <1>5, <1>6, <1>7, <1>8, BysNat DEF FreshOK
<1>9. ASSUME NEW u \in Workers, NEW v \in Workers,
             Subscribing(u)', Subscribing(v)', call'[u].by = call'[v].by
      PROVE  u = v
  BY <1>0, <1>2, <1>6, <1>9, BysNat DEF FreshOK
<1>10. FreshOK'
  BY <1>2, <1>7, <1>8, <1>9, BysNat DEF FreshOK
<1>11. ASSUME NEW v \in Workers
       PROVE  CopyJudged(v)'
  BY <1>2, <1>3, OthersKeep DEF MovesInv, CopyJudged
<1>12. QED
  BY <1>2, <1>10, <1>11 DEF MovesInv, KeysOnce

\* A new subscriber is not the one any PATCH has in hand.
LEMMA SubscribeMoves ==
    ASSUME TypeInv, MovesInv, NEW w \in Workers, CreateSubscriber(w)
    PROVE  MovesInv' /\ MovesAllowed
<1> USE DEF history, tables, counts
<1>0. LocalsOK /\ SharedOK /\ FreshOK /\ KeysOnce
  BY DEF TypeInv, MovesInv
<1>1. PICK r : r = NewSubscriber(w)
  OBVIOUS
<1>2. r.id = num[w] /\ r.by = call[w].by
  BY <1>1 DEF NewSubscriber
<1>3. /\ subscribers' = {x \in subscribers : x.id # r.id} \cup {r}
      /\ OthersStay(w) /\ pc'[w] = "reply" /\ call' = call
      /\ stale' = stale /\ arrivals' = arrivals
      /\ Subscribing(w)
  BY <1>0, <1>1
     DEF CreateSubscriber, Put, Proceed, Goto, LocalsOK, OthersStay, Subscribing, At
<1>4. ~Patching(w)' /\ ~Subscribing(w)'
  BY <1>3 DEF Patching, Subscribing, At
<1>5. r.by <= arrivals /\ r.by \notin Bys
  BY <1>0, <1>2, <1>3 DEF FreshOK
<1>6. \A v \in Workers : BysOf(v)' \subseteq BysOf(v)
  BY <1>3, <1>4, OthersKeep DEF BysOf
<1>7. Bys' \subseteq Bys \cup {r.by}
  BY <1>3, <1>6 DEF Bys
<1>8. \A v \in Workers : Subscribing(v)' => v # w /\ Subscribing(v)
  BY <1>3, <1>4, OthersKeep
<1>9. FreshOK'
  <2>1. \A n \in Bys' : n <= arrivals'
    BY <1>0, <1>3, <1>5, <1>7 DEF FreshOK
  <2>2. ASSUME NEW v \in Workers, Subscribing(v)'
        PROVE  call'[v].by <= arrivals' /\ call'[v].by \notin Bys'
    <3>1. call[v].by # r.by
      BY <1>0, <1>2, <1>3, <1>8, <2>2 DEF FreshOK
    <3>2. QED
      BY <1>0, <1>3, <1>7, <1>8, <2>2, <3>1 DEF FreshOK
  <2>3. ASSUME NEW u \in Workers, NEW v \in Workers,
               Subscribing(u)', Subscribing(v)', call'[u].by = call'[v].by
        PROVE  u = v
    BY <1>0, <1>3, <1>8, <2>3 DEF FreshOK
  <2>4. QED
    BY <2>1, <2>2, <2>3 DEF FreshOK
<1>10. KeysOnce'
  BY <1>0, <1>3 DEF KeysOnce
<1>11. ASSUME NEW v \in Workers
       PROVE  CopyJudged(v)'
  <2>1. Patching(v)' => Patching(v) /\ copy'[v] = copy[v]
    BY <1>3, <1>4, OthersKeep
  <2>2. Patching(v) => \A c \in copy[v] : c.by # r.by
    BY <1>5 DEF Bys, BysOf
  <2>3. CopyJudged(v)
    BY DEF MovesInv
  <2>4. QED
    BY <1>3, <2>1, <2>2, <2>3 DEF CopyJudged
<1>12. MovesAllowed
  <2>1. \A s \in subscribers : s.by # r.by
    BY <1>5 DEF Bys
  <2>2. QED
    BY <1>0, <1>3, <2>1 DEF MovesAllowed, KeysOnce
<1>13. QED
  BY <1>9, <1>10, <1>11, <1>12 DEF MovesInv

\* Writing back a row overtakes every other PATCH of that subscriber; the
\* others are about other keys.
LEMMA WriteMoves ==
    ASSUME TypeInv, MovesInv, NEW w \in Workers, UpdateSubscriber(w) \/ UpdateAssign(w)
    PROVE  /\ MovesInv'
           /\ w \notin stale => MovesAllowed
           /\ Patching(w) /\ pc'[w] = "idle"
<1> USE DEF history, tables, counts
<1>0. LocalsOK /\ SharedOK /\ FreshOK /\ KeysOnce /\ CopyOK /\ CopyJudged(w)
  BY DEF TypeInv, MovesInv
<1>1. PICK c \in SubscriberRow : c.id = call[w].ref /\ copy[w] = {c}
  BY <1>0 DEF UpdateSubscriber, UpdateAssign, CopyOK
<1>2. subscribers' = {s \in subscribers : s.id # c.id} \cup {c}
  BY <1>1 DEF UpdateSubscriber, UpdateAssign, WriteBack
<1>3. /\ Patching(w) /\ OthersStay(w) /\ pc'[w] = "idle"
      /\ arrivals' = arrivals
  BY <1>0 DEF UpdateSubscriber, UpdateAssign, Fail, Answer, Goto, LocalsOK, OthersStay,
              Patching
<1>4. stale' = (stale \ {w}) \cup Rivals(w)
  BY DEF UpdateSubscriber, UpdateAssign, Overtake
<1>5. ~Patching(w)' /\ ~Subscribing(w)'
  BY <1>3 DEF Patching, Subscribing, At
<1>6. KeysOnce'
  BY <1>0, <1>2 DEF KeysOnce
<1>7. Bys' \subseteq Bys
  <2>1. \A v \in Workers : BysOf(v)' \subseteq BysOf(v)
    BY <1>3, <1>5, OthersKeep DEF BysOf
  <2>2. c.by \in BysOf(w)
    BY <1>1, <1>3 DEF BysOf
  <2>3. \A s \in subscribers' : s.by \in Bys
    BY <1>2, <2>2 DEF Bys
  <2>4. QED
    BY <2>1, <2>3 DEF Bys
<1>8. \A v \in Workers : Subscribing(v)' => Subscribing(v) /\ call'[v] = call[v]
  BY <1>3, <1>5, OthersKeep
<1>9. FreshOK'
  BY <1>0, <1>3, <1>7, <1>8, BysNat, FreshStays
<1>10. ASSUME NEW v \in Workers
       PROVE  CopyJudged(v)'
  <2>1. CASE v = w
    BY <1>5, <2>1 DEF CopyJudged
  <2>2. CASE v # w /\ Patching(v) /\ call[v].ref # call[w].ref
    <3>1. copy'[v] = copy[v] /\ (v \in stale' <=> v \in stale)
      BY <1>3, <1>4, <2>2, OthersKeep DEF Rivals
    <3>2. \A x \in copy[v] : x.id = call[v].ref
      BY <1>0, <2>2 DEF CopyOK, Patching
    <3>3. CopyJudged(v)
      BY DEF MovesInv
    <3>4. QED
      BY <1>1, <1>2, <2>2, <3>1, <3>2, <3>3 DEF CopyJudged
  <2>3. CASE v # w /\ ~Patching(v)
    BY <1>3, <2>3, OthersKeep DEF CopyJudged
  <2>4. CASE v # w /\ Patching(v) /\ call[v].ref = call[w].ref
    BY <1>4, <2>4 DEF CopyJudged, Rivals
  <2>5. QED
    BY <2>1, <2>2, <2>3, <2>4
<1>11. ASSUME w \notin stale
       PROVE  MovesAllowed
  BY <1>0, <1>1, <1>2, <1>3, <1>11 DEF MovesAllowed, KeysOnce, CopyJudged
<1>12. QED
  BY <1>3, <1>6, <1>9, <1>10, <1>11 DEF MovesInv

\* A table wiped holds nothing to move; a new process holds no copies.
LEMMA WipeMoves ==
    ASSUME TypeInv, MovesInv, NEW w \in Workers, Wipe(w)
    PROVE  MovesInv'
<1>1. OthersStay(w)
  BY DEF TypeInv, LocalsOK, Wipe, Detached, OthersStay
<1>2. pc'[w] \in WipeStep \cup {"idle"}
  BY DEF TypeInv, LocalsOK, Wipe, Detached, AfterWipe, WipeStep
<1>3. ~Patching(w)' /\ ~Subscribing(w)'
  BY <1>2 DEF Patching, Subscribing, At, WipeStep
<1>4. subscribers' \subseteq subscribers /\ arrivals' = arrivals /\ stale' = stale
  BY DEF Wipe, Wiped, counts
<1>5. QED
  BY <1>1, <1>3, <1>4, NothingNew

\* After a restart only rows of the file are left.
LEMMA RestartMoves ==
    ASSUME TypeInv, MovesInv, Restart
    PROVE  MovesInv'
<1>1. \A w \in Workers : ~Patching(w)' /\ ~Subscribing(w)'
  BY DEF Restart, Patching, Subscribing, At
<1>2. subscribers' \subseteq subscribers /\ arrivals' = arrivals
  BY DEF Restart, Kept
<1>3. Bys' \subseteq Bys
  BY <1>1, <1>2 DEF Bys, BysOf
<1>4. FreshOK'
  BY <1>1, <1>2, <1>3 DEF MovesInv, FreshOK
<1>5. QED
  BY <1>1, <1>2, <1>4 DEF MovesInv, KeysOnce, CopyJudged

\* Every step keeps the invariant, and moves a subscriber as the theorem says.
LEMMA NextMoves ==
    ASSUME TypeInv, MovesInv, [Next]_vars
    PROVE  /\ MovesInv'
           /\ MovesAllowed \/ \E w \in stale : Patching(w) /\ pc'[w] = "idle"
<1> USE DEF history, tables, counts
<1>0. SharedOK /\ KeysOnce /\ FlowOK
  BY DEF TypeInv, MovesInv
<1>1. ASSUME subscribers' \subseteq subscribers
      PROVE  MovesAllowed
  BY <1>0, <1>1 DEF KeysOnce, MovesAllowed
<1>2. ASSUME NEW w \in Workers, Arrive(w) \/ ReadStatus(w) \/ Wipe(w)
      PROVE  MovesInv' /\ MovesAllowed
  BY <1>1, <1>2, ArriveMoves, ReadMoves, WipeMoves DEF Arrive, ReadStatus, Wipe, Wiped
<1>3. ASSUME NEW w \in Workers, CreateSubscriber(w)
      PROVE  MovesInv' /\ MovesAllowed
  BY <1>3, SubscribeMoves
<1>4. ASSUME NEW w \in Workers, UpdateSubscriber(w) \/ UpdateAssign(w)
      PROVE  MovesInv' /\ (MovesAllowed \/ \E v \in stale : Patching(v) /\ pc'[v] = "idle")
  <2>1. CASE w \in stale
    BY <1>4, <2>1, WriteMoves
  <2>2. CASE w \notin stale
    BY <1>4, <2>2, WriteMoves
  <2>3. QED
    BY <2>1, <2>2
<1>5. ASSUME NEW w \in Workers, NEW code, Answer(w, code), subscribers' = subscribers,
             arrivals' = arrivals \/ arrivals' = arrivals + 1, stale' \in {stale, stale \ {w}}
      PROVE  MovesInv' /\ MovesAllowed
  BY <1>1, <1>5, AnsweredNothingNew
<1>6. ASSUME NEW w \in Workers, NEW step \in {"load", "read", "reply", "assign"},
             Proceed(w, step), subscribers' = subscribers, arrivals' = arrivals,
             stale' = stale,
             step = "load" => pc[w] = "check",
             step = "read" => pc[w] = "store",
             step = "assign" => Patching(w)
      PROVE  MovesInv' /\ MovesAllowed
  BY <1>1, <1>6, ProceedNothingNew
<1>7. ASSUME NEW w \in Workers, CheckPlan(w) \/ CheckSubscriber(w)
      PROVE  MovesInv' /\ MovesAllowed
  <2>1. pc[w] = "check" /\ subscribers' = subscribers /\ arrivals' = arrivals /\ stale' = stale
    BY <1>7 DEF CheckPlan, CheckSubscriber, At
  <2>2. Proceed(w, "load") \/ \E err : Fail(w, err)
    BY <1>7 DEF CheckPlan, CheckSubscriber
  <2>3. QED
    BY <1>5, <1>6, <2>1, <2>2 DEF Fail
<1>8. ASSUME NEW w \in Workers, NextIDStore(w)
      PROVE  MovesInv' /\ MovesAllowed
  BY <1>6, <1>8 DEF NextIDStore
<1>9. ASSUME NEW w \in Workers, UpdateChecked(w)
      PROVE  MovesInv' /\ MovesAllowed
  BY <1>6, <1>9 DEF UpdateChecked, Patching
<1>10. ASSUME NEW w \in Workers,
              CreatePlan(w) \/ AddUsage(w) \/ AppendUsage(w) \/ AppendDetached(w)
       PROVE  MovesInv' /\ MovesAllowed
  BY <1>6, <1>10 DEF CreatePlan, AddUsage, AppendUsage, AppendDetached
<1>11. ASSUME NEW w \in Workers,
              NextIDLoad(w) \/ NextIDRead(w) \/ LoadUsage(w)
       PROVE  MovesInv' /\ MovesAllowed
  <2>1. /\ OthersStay(w) /\ call' = call /\ subscribers' = subscribers
        /\ arrivals' = arrivals /\ stale' = stale
        /\ \/ /\ pc[w] \in {"load", "read"} /\ call[w].op \in Creates
              /\ pc'[w] \in {"store", "write"}
           \/ pc'[w] = "append"
    BY <1>0, <1>11 DEF NextIDLoad, NextIDRead, LoadUsage, TypeInv, LocalsOK, FlowOK, Goto,
                       OthersStay
  <2>2. ~Patching(w)'
    BY <2>1 DEF Patching, At, Creates
  <2>3. Subscribing(w)' => Subscribing(w)
    BY <2>1 DEF Subscribing
  <2>4. QED
    BY <1>1, <2>1, <2>2, <2>3, NothingNew
<1>12. ASSUME NEW w \in Workers,
              \/ Refuse(w) \/ RefuseDuplicate(w) \/ Reply(w) \/ UpdateMissing(w)
              \/ FailStatement(w)
       PROVE  MovesInv' /\ MovesAllowed
  BY <1>5, <1>12
     DEF Refuse, RefuseDuplicate, Reply, UpdateMissing, FailStatement, Fail, Overtake
<1>13. CASE Restart
  BY <1>1, <1>13, RestartMoves DEF Restart, Kept
<1>14. CASE UNCHANGED vars
  BY <1>1, <1>14 DEF vars, locals, MovesInv, KeysOnce, FreshOK, CopyJudged, Subscribing,
                     Patching, At, Bys, BysOf
<1>15. QED
  BY <1>2, <1>3, <1>4, <1>7, <1>8, <1>9, <1>10, <1>11, <1>12, <1>13, <1>14
     DEF Next, Serve, Quiet

\* With either backend, whatever overlaps, races, fails or restarts, a
\* subscriber moves along allowedTransitions unless a PATCH writes back a row
\* that another PATCH has rewritten since it was read.
THEOREM MovesAreExplained == Spec => MovesExplained
<1>1. Init => MovesInv
  BY DEF Init, MovesInv, KeysOnce, FreshOK, CopyJudged, Subscribing, Patching, At, Bys, BysOf
<1>2. TypeInv /\ MovesInv /\ [Next]_vars =>
          [MovesAllowed \/ \E w \in stale : Patching(w) /\ pc'[w] = "idle"]_vars
  BY NextMoves
<1>3. QED
  BY <1>1, <1>2, NextMoves, TypeInvInvariant, PTL DEF Spec, MovesExplained

====
