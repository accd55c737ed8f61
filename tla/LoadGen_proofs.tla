---- MODULE LoadGen_proofs ----
(***************************************************************************)
(* For any number of workers and any mix of answers: the counters add up,  *)
(* a progress line misses little, the last one nothing, and only ids the   *)
(* server gave are used.                                                   *)
(***************************************************************************)
EXTENDS LoadGen, FiniteSetTheorems, TLAPS

CallType == [kind : Kind, left : Nat, result : Outcome, id : Nat]

\* A goroutine has a request to make while it makes one, and the id it found
\* was given.
Calls ==
    \A t \in Threads :
        /\ at[t] \in {"refused", "flight", "bucket"} => call[t].left # 0
        /\ call[t].kind \in {"plan", "create"} => call[t].id <= granted[call[t].kind]

\* The workers start when the seeding is over.
Seeding == at[Main] \in {"seed", "refused", "flight", "bucket", "keep"}

Phases == Seeding => \A w \in Workers : at[w] = "off"

\* The counters a line has not loaded yet only grow, so they may stand for
\* what it will load.
ToLoad ==
      (IF line.loaded < 2 THEN bucket["ok"] ELSE 0)
    + (IF line.loaded < 3 THEN bucket["4xx"] ELSE 0)
    + (IF line.loaded < 4 THEN bucket["5xx"] ELSE 0)
    + (IF line.loaded < 5 THEN bucket["error"] ELSE 0)

LineOK ==
    /\ line.loaded = 0 => line.rest = 0
    /\ line.loaded # 0 => line.total <= line.missing + line.rest + ToLoad
    /\ line.loaded = 5 => line.total <= line.rest + line.missing

----
\* An outcome is added to one bucket.
LEMMA Bucketing ==
    ASSUME bucket \in [Outcome -> Nat], NEW t, call[t].result \in Outcome
    PROVE  /\ Bucketed(t) \in [Outcome -> Nat]
           /\ \A o \in Outcome : Bucketed(t)[o] >= bucket[o]
           /\ Bucketed(t)["ok"] + Bucketed(t)["4xx"] + Bucketed(t)["5xx"] + Bucketed(t)["error"]
                = Rest + 1
<1>1. Bucketed(t) = [bucket EXCEPT ![call[t].result] = bucket[call[t].result] + 1]
  BY DEF Bucketed
<1>2. call[t].result \in {"ok", "4xx", "5xx", "error"}
  BY DEF Outcome
<1>3. \A o \in Outcome : Bucketed(t)[o] = IF o = call[t].result THEN bucket[o] + 1 ELSE bucket[o]
  BY <1>1
<1>4. \A o \in Outcome : bucket[o] \in Nat
  OBVIOUS
<1>5. Bucketed(t) \in [Outcome -> Nat]
  BY <1>1, <1>4
<1>6. QED
  BY <1>2, <1>3, <1>4, <1>5 DEF Outcome, Rest

\* What a request's last step leaves of a call.
LEMMA EndedCall ==
    ASSUME TypeOK, NEW t \in Threads, NEW result \in Outcome, NEW id \in Nat, Ends(t, result, id)
    PROVE  /\ call' \in [Threads -> CallType]
           /\ call'[t].id = id /\ call'[t].kind = call[t].kind /\ call'[t].left = call[t].left
           /\ \A u \in Threads \ {t} : call'[u] = call[u]
<1>1. call \in [Threads -> CallType]
  BY DEF TypeOK, CallType
<1> DEFINE made == [call[t] EXCEPT !.result = result, !.id = id]
<1>2. call' = [call EXCEPT ![t] = made]
  BY DEF Ends
<1>3. call[t] \in CallType
  BY <1>1
<1>4. made \in CallType /\ made.id = id /\ made.kind = call[t].kind /\ made.left = call[t].left
  BY <1>3 DEF CallType
<1> HIDE DEF made
<1>5. QED
  BY <1>1, <1>2, <1>4

\* Recording uses up one call of its thread's and touches no other thread's.
LEMMA RecordedCall ==
    ASSUME TypeOK, Calls, NEW t \in Threads, Record(t)
    PROVE  /\ call' \in [Threads -> CallType]
           /\ call'[t].id = call[t].id /\ call'[t].kind = call[t].kind
           /\ call'[t].left = call[t].left - 1
           /\ \A u \in Threads \ {t} : call'[u] = call[u]
<1>1. call \in [Threads -> CallType]
  BY DEF TypeOK, CallType
<1> DEFINE made == OneDone(call[t])
<1>2. call' = [call EXCEPT ![t] = made]
  BY DEF Record
<1>3. call[t] \in CallType /\ call[t].left # 0
  BY <1>1 DEF Record, Calls
<1>4. /\ made \in CallType /\ made.id = call[t].id /\ made.kind = call[t].kind
      /\ made.left = call[t].left - 1
  <2>1. call[t].left \in Nat /\ call[t].left - 1 \in Nat
    BY <1>3 DEF CallType
  <2>2. "ok" \in Outcome
    BY DEF Outcome
  <2>3. made = [call[t] EXCEPT !.left = call[t].left - 1, !.result = "ok"]
    BY DEF OneDone
  <2>4. made \in CallType
    BY <1>3, <2>1, <2>2, <2>3 DEF CallType
  <2>5. made.id = call[t].id /\ made.kind = call[t].kind /\ made.left = call[t].left - 1
    BY <1>3, <2>3 DEF CallType
  <2>6. QED
    BY <2>1, <2>4, <2>5
<1> HIDE DEF made
<1>5. QED
  BY <1>1, <1>2, <1>4

\* Asking gives a thread a call that has no id yet.
LEMMA NewCall ==
    ASSUME TypeOK, NEW t \in Threads, NEW kind \in Kind, NEW n \in Nat \ {0}, Ask(t, kind, n)
    PROVE  /\ call' \in [Threads -> CallType]
           /\ call'[t].id = 0 /\ call'[t].left = n
           /\ \A u \in Threads \ {t} : call'[u] = call[u]
           /\ asked' \in 0 .. MaxRequests
           /\ at' = [at EXCEPT ![t] = Sent]
<1>1. call \in [Threads -> CallType] /\ MaxRequests \in Nat
  BY LoadAssumption DEF TypeOK, CallType, LoadAssumption
<1>2. call' = [call EXCEPT ![t] = [kind |-> kind, left |-> n, result |-> "ok", id |-> 0]]
  BY DEF Ask, NoID
<1>3. [kind |-> kind, left |-> n, result |-> "ok", id |-> 0] \in CallType
  BY DEF CallType, Outcome
<1>4. QED
  BY <1>1, <1>2, <1>3 DEF Ask, TypeOK

\* A request ends with an id only if the server gave it, now or before.
LEMMA GrantedFirst ==
    ASSUME TypeOK, NEW t \in Threads, Refused(t) \/ Answered(t)
    PROVE  /\ at[t] \in {"refused", "flight"}
           /\ granted' \in [{"plan", "create"} -> Nat]
           /\ \A k \in {"plan", "create"} : granted'[k] >= granted[k]
           /\ \E result \in Outcome, id \in Nat :
                /\ Ends(t, result, id)
                /\ call[t].kind \in {"plan", "create"} => id <= granted'[call[t].kind]
<1>1. granted \in [{"plan", "create"} -> Nat]
  BY DEF TypeOK
<1>2. CASE Refused(t)
  BY <1>1, <1>2 DEF Refused, Outcome, NoID
<1>3. CASE Answered(t)
  <2>1. PICK a \in Answers :
          IF call[t].kind \in {"plan", "create"}
          THEN /\ granted' = IF a.handled THEN [granted EXCEPT ![call[t].kind] = granted[call[t].kind] + 1]
                             ELSE granted
               /\ Ends(t, a.result, IF a.decoded THEN granted[call[t].kind] + 1 ELSE NoID)
          ELSE Ends(t, a.result, NoID) /\ UNCHANGED granted
    BY <1>3 DEF Answered
  <2>2. a.result \in Outcome /\ (a.decoded => a.handled)
    BY LoadAssumption DEF LoadAssumption, Answer, Truthful
  <2>3. CASE call[t].kind \in {"plan", "create"}
    <3> DEFINE number == granted[call[t].kind] + 1
               id == IF a.decoded THEN number ELSE NoID
    <3>1. number \in Nat /\ id \in Nat
      BY <1>1, <2>3 DEF NoID
    <3>2. CASE a.handled
      <4>1. granted' = [granted EXCEPT ![call[t].kind] = number] /\ Ends(t, a.result, id)
        BY <2>1, <2>3, <3>2
      <4>2. id <= number
        BY <3>1 DEF NoID
      <4>3. granted'[call[t].kind] = number
        BY <1>1, <2>3, <4>1
      <4>4. /\ granted' \in [{"plan", "create"} -> Nat]
            /\ \A k \in {"plan", "create"} : granted'[k] >= granted[k]
        BY <1>1, <2>3, <3>1, <4>1
      <4>5. QED
        BY <1>3, <2>2, <3>1, <4>1, <4>2, <4>3, <4>4 DEF Answered
    <3>3. CASE ~a.handled
      <4>1. granted' = granted /\ Ends(t, a.result, 0)
        BY <2>1, <2>2, <2>3, <3>3 DEF NoID
      <4>2. QED
        BY <1>1, <1>3, <2>2, <2>3, <4>1 DEF Answered
    <3>4. QED
      BY <3>2, <3>3
  <2>4. CASE call[t].kind \notin {"plan", "create"}
    BY <1>1, <1>3, <2>1, <2>2, <2>4 DEF Answered, NoID
  <2>5. QED
    BY <2>3, <2>4
<1>4. QED
  BY <1>2, <1>3

----
\* Every step keeps the types.
LEMMA TypeNext ==
    ASSUME TypeOK, Calls, [Next]_vars
    PROVE  TypeOK'
<1> USE DEF stats
<1>0. /\ NPlans \in Nat /\ NSubs \in Nat /\ Reads \in Nat \ {0} /\ MaxRequests \in Nat
      /\ Main \in Threads /\ Workers \subseteq Threads
  BY LoadAssumption DEF LoadAssumption, Threads
<1>1. ASSUME NEW t \in Threads, Refused(t) \/ Answered(t)
      PROVE  TypeOK'
  <2>1. PICK result \in Outcome, id \in Nat : Ends(t, result, id)
    BY <1>1, GrantedFirst
  <2>2. call' \in [Threads -> CallType]
    BY <2>1, EndedCall
  <2>3. granted' \in [{"plan", "create"} -> Nat]
    BY <1>1, GrantedFirst
  <2>4. QED
    BY <2>1, <2>2, <2>3 DEF Ends, TypeOK, CallType
<1>2. ASSUME NEW t \in Threads, Record(t)
      PROVE  TypeOK'
  <2>1. call' \in [Threads -> CallType]
    BY <1>2, RecordedCall
  <2>2. bucket' \in [Outcome -> Nat]
    BY <1>2, Bucketing DEF Record, TypeOK
  <2>3. QED
    BY <1>2, <2>1, <2>2 DEF Record, Sent, TypeOK, CallType
<1>3. ASSUME NEW t \in Threads, Keep(t)
      PROVE  TypeOK'
  <2>1. NoCall \in [kind : Kind, left : Nat, result : Outcome, id : Nat]
    BY DEF NoCall, Kind, Outcome, NoID
  <2>2. call[t].id \in Nat
    BY DEF TypeOK
  <2>3. QED
    BY <1>3, <2>1, <2>2 DEF Keep, Add, Home, TypeOK
<1>4. ASSUME NEW t \in Threads, NEW kind \in Kind, NEW n \in Nat \ {0}, Ask(t, kind, n),
             seeded' \in 0 .. NPlans + NSubs, tick' \in BOOLEAN,
             UNCHANGED <<ended, planIDs, pool, stats, printer, line, granted>>
      PROVE  TypeOK'
  BY <1>4, NewCall DEF Sent, TypeOK, CallType
<1>5. ASSUME SeedPlan \/ SeedSubscriber
      PROVE  TypeOK'
  <2>1. seeded \in 0 .. NPlans + NSubs /\ tick \in BOOLEAN
    BY DEF TypeOK
  <2>2. seeded' \in 0 .. NPlans + NSubs /\ tick' \in BOOLEAN
    BY <1>0, <1>5, <2>1 DEF SeedPlan, SeedSubscriber
  <2>3. QED
    BY <1>0, <1>4, <1>5, <2>2 DEF SeedPlan, SeedSubscriber, Kind
<1>6. ASSUME NEW w \in Workers, Work(w)
      PROVE  TypeOK'
  <2>1. seeded' \in 0 .. NPlans + NSubs /\ tick' \in BOOLEAN
    BY <1>6 DEF Work, TypeOK
  <2>2. /\ UNCHANGED <<ended, planIDs, pool, stats, printer, line, granted>>
        /\ Ask(w, "create", 1) \/ Ask(w, "none", 1) \/ Ask(w, "none", Reads)
    BY <1>6 DEF Work
  <2>3. QED
    BY <1>0, <1>4, <2>1, <2>2 DEF Kind
<1>7. ASSUME PrinterLoads
      PROVE  TypeOK'
  <2> DEFINE next == LoadOrder[line.loaded + 1]
  <2>1. line.loaded \in 0 .. 4 /\ line.total \in Nat /\ line.rest \in Nat /\ line.missing \in Nat
    BY <1>7 DEF PrinterLoads, TypeOK
  <2>2. next # "total" => next \in Outcome
    BY <2>1 DEF LoadOrder, Outcome
  <2>3. Cardinality(Between) \in Nat
    <3>1. IsFiniteSet(Threads)
      BY LoadAssumption, FS_AddElement DEF LoadAssumption, Threads
    <3>2. IsFiniteSet(Between)
      BY <3>1, FS_Subset DEF Between
    <3>3. QED
      BY <3>2, FS_CardinalityType
  <2>4. line' = [loaded |-> line.loaded + 1,
                 total  |-> IF next = "total" THEN total ELSE line.total,
                 missing |-> IF next = "total" THEN Cardinality(Between) ELSE line.missing,
                 rest   |-> IF next = "total" THEN line.rest ELSE line.rest + bucket[next]]
    BY <1>7 DEF PrinterLoads
  <2> HIDE DEF next
  <2>5. line' \in [loaded : 0 .. 5, total : Nat, rest : Nat, missing : Nat]
    BY <2>1, <2>2, <2>3, <2>4 DEF TypeOK
  <2>6. QED
    BY <1>7, <2>5 DEF PrinterLoads, TypeOK
<1>8. ASSUME Done
      PROVE  TypeOK'
  <2>1. Rest \in Nat /\ total \in Nat
    BY DEF TypeOK, Rest, Outcome
  <2>2. line' \in [loaded : 0 .. 5, total : Nat, rest : Nat, missing : Nat]
    BY <1>8, <2>1 DEF Done
  <2>3. QED
    BY <1>8, <2>2 DEF Done, TypeOK
<1>9. ASSUME \/ End \/ Tick \/ GiveUp \/ StartWorkers \/ AwaitEnd \/ UNCHANGED vars
             \/ PrinterStops \/ PrinterWakes
             \/ \E w \in Workers : Idle(w) \/ Stop(w)
      PROVE  TypeOK'
  BY <1>0, <1>9 DEF End, Tick, GiveUp, StartWorkers, AwaitEnd, vars, PrinterStops, PrinterWakes,
                    Idle, Stop, TypeOK
<1>10. ASSUME PrinterPrints
       PROVE  TypeOK'
  BY <1>10 DEF PrinterPrints, NoLine, TypeOK
<1>11. QED
  BY <1>1, <1>2, <1>3, <1>5, <1>6, <1>7, <1>8, <1>9, <1>10
     DEF Next, Request, Run, Printer, Over

\* The steps that no call and no id is part of.
Apart ==
    \/ End \/ Tick \/ GiveUp \/ AwaitEnd \/ Done \/ UNCHANGED vars
    \/ PrinterStops \/ PrinterWakes \/ PrinterLoads \/ PrinterPrints
    \/ \E w \in Workers : Idle(w) \/ Stop(w)

\* A step apart from the calls leaves what is counted and granted alone.
LEMMA ApartSteps ==
    ASSUME TypeOK, Apart
    PROVE  /\ UNCHANGED <<call, planIDs, pool, stats, granted>>
           /\ \A t \in Threads : at'[t] = at[t] \/ at'[t] \notin {"refused", "flight", "bucket"}
           /\ Between' = Between
<1> USE DEF stats
<1>1. UNCHANGED <<call, planIDs, pool, stats, granted>>
  BY DEF Apart, End, Tick, GiveUp, AwaitEnd, Done, vars, PrinterStops, PrinterWakes, PrinterLoads,
         PrinterPrints, Idle, Stop
<1>2. \/ at' = at
      \/ \E t \in Threads, step \in {"failed", "wait", "exit", "keep", "gone"} :
            at' = [at EXCEPT ![t] = step] /\ at[t] # "bucket"
  BY LoadAssumption
     DEF Apart, End, Tick, GiveUp, AwaitEnd, Done, vars, PrinterStops, PrinterWakes, PrinterLoads,
         PrinterPrints, Idle, Stop, Threads
<1>3. at \in [Threads -> {"off", "seed", "ctx", "wait", "exit", "failed", "select",
                         "refused", "flight", "bucket", "keep", "gone"}]
  BY DEF TypeOK
<1>4. /\ \A t \in Threads : at'[t] = at[t] \/ at'[t] \notin {"refused", "flight", "bucket"}
      /\ \A t \in Threads : at'[t] = "bucket" <=> at[t] = "bucket"
  BY <1>2, <1>3
<1>5. QED
  BY <1>1, <1>4 DEF Between

\* Every other step is one of a call.
LEMMA Steps ==
    ASSUME [Next]_vars
    PROVE  \/ Apart \/ StartWorkers \/ SeedPlan \/ SeedSubscriber
           \/ \E w \in Workers : Work(w)
           \/ \E t \in Threads : Alive /\ (Refused(t) \/ Answered(t) \/ Record(t) \/ Keep(t))
BY DEF Next, Request, Run, Printer, Over, Apart

\* Seeding and working ask, and count nothing yet.
LEMMA Asked ==
    ASSUME SeedPlan \/ SeedSubscriber \/ \E w \in Workers : Work(w)
    PROVE  /\ \E t \in Threads, kind \in Kind, n \in Nat \ {0} :
                Ask(t, kind, n) /\ at[t] \in {"seed", "select"}
           /\ UNCHANGED <<planIDs, pool, total, bucket, line, granted>>
<1>1. CASE SeedPlan \/ SeedSubscriber
  BY <1>1 DEF SeedPlan, SeedSubscriber, Threads, Kind, stats
<1>2. CASE \E w \in Workers : Work(w)
  BY <1>2, LoadAssumption DEF LoadAssumption, Work, Threads, Kind, stats
<1>3. QED
  BY <1>1, <1>2

\* Every step keeps the ids in hand granted.
LEMMA CallsNext ==
    ASSUME TypeOK, Calls, [Next]_vars
    PROVE  Calls'
<1> USE DEF stats
<1>0. /\ call \in [Threads -> CallType] /\ granted \in [{"plan", "create"} -> Nat]
      /\ at \in [Threads -> {"off", "seed", "ctx", "wait", "exit", "failed", "select",
                             "refused", "flight", "bucket", "keep", "gone"}]
  BY DEF TypeOK, CallType
<1>1. CASE Apart
  BY <1>0, <1>1, ApartSteps DEF Calls
<1>2. CASE StartWorkers
  BY <1>0, <1>2 DEF StartWorkers, Calls
<1>3. CASE SeedPlan \/ SeedSubscriber \/ \E w \in Workers : Work(w)
  <2>1. PICK t \in Threads, kind \in Kind, n \in Nat \ {0} : Ask(t, kind, n)
    BY <1>3, Asked
  <2>2. UNCHANGED granted
    BY <1>3, Asked
  <2>3. QED
    BY <1>0, <2>1, <2>2, NewCall DEF Calls
<1>4. ASSUME NEW t \in Threads, Refused(t) \/ Answered(t)
      PROVE  Calls'
  <2>1. PICK result \in Outcome, id \in Nat :
          /\ Ends(t, result, id)
          /\ call[t].kind \in {"plan", "create"} => id <= granted'[call[t].kind]
    BY <1>4, GrantedFirst
  <2>2. /\ at[t] \in {"refused", "flight"}
        /\ granted' \in [{"plan", "create"} -> Nat]
        /\ \A k \in {"plan", "create"} : granted'[k] >= granted[k]
    BY <1>4, GrantedFirst
  <2>3. /\ call'[t].id = id /\ call'[t].kind = call[t].kind /\ call'[t].left = call[t].left
        /\ \A u \in Threads \ {t} : call'[u] = call[u]
    BY <2>1, EndedCall
  <2>4. at' = [at EXCEPT ![t] = "bucket"]
    BY <2>1 DEF Ends
  <2>5. ASSUME NEW u \in Threads
        PROVE  /\ at'[u] \in {"refused", "flight", "bucket"} => call'[u].left # 0
               /\ call'[u].kind \in {"plan", "create"} => call'[u].id <= granted'[call'[u].kind]
    <3>1. CASE u = t
      BY <2>1, <2>2, <2>3, <3>1 DEF Calls
    <3>2. CASE u # t
      <4>1. at'[u] = at[u] /\ call'[u] = call[u] /\ call[u].id \in Nat
        BY <1>0, <2>3, <2>4, <3>2 DEF CallType
      <4>2. QED
        BY <1>0, <2>2, <4>1 DEF Calls
    <3>3. QED
      BY <3>1, <3>2
  <2>6. QED
    BY <2>5 DEF Calls
<1>5. ASSUME NEW t \in Threads, Record(t)
      PROVE  Calls'
  <2>1. at' = [at EXCEPT ![t] = IF call[t].left > 1 THEN Sent ELSE "keep"] /\ granted' = granted
    BY <1>5 DEF Record
  <2>2. /\ call[t].left \in Nat
        /\ call'[t].left = call[t].left - 1
        /\ call'[t].id = call[t].id /\ call'[t].kind = call[t].kind
        /\ \A u \in Threads \ {t} : call'[u] = call[u]
    BY <1>0, <1>5, RecordedCall DEF CallType
  <2>3. at'[t] \in {"refused", "flight", "bucket"} => call'[t].left # 0
    BY <1>0, <2>1, <2>2
  <2>4. QED
    BY <1>0, <2>1, <2>2, <2>3 DEF Calls
<1>6. ASSUME NEW t \in Threads, Keep(t)
      PROVE  Calls'
  <2>1. /\ call' = [call EXCEPT ![t] = NoCall] /\ granted' = granted
        /\ at' = [at EXCEPT ![t] = Home(t)]
    BY <1>6 DEF Keep
  <2>2. Home(t) \notin {"refused", "flight", "bucket"} /\ NoCall.kind = "none"
    BY DEF Home, NoCall
  <2>3. QED
    BY <1>0, <2>1, <2>2 DEF Calls
<1>7. QED
  BY <1>1, <1>2, <1>3, <1>4, <1>5, <1>6, Steps

----
\* Every step keeps the phases of the run apart.
LEMMA PhasesNext ==
    ASSUME TypeOK, Phases, [Next]_vars
    PROVE  Phases'
<1>0. /\ Main \in Threads /\ Workers \subseteq Threads /\ Main \notin Workers
      /\ \A t \in Threads : t = Main \/ t \in Workers
      /\ at \in [Threads -> {"off", "seed", "ctx", "wait", "exit", "failed", "select",
                             "refused", "flight", "bucket", "keep", "gone"}]
  BY LoadAssumption DEF LoadAssumption, Threads, TypeOK
<1>1. CASE at' = at
  BY <1>1 DEF Phases, Seeding
<1>2. ASSUME NEW t \in Threads, NEW step, at' = [at EXCEPT ![t] = step],
             t = Main => Seeding \/ step \notin {"seed", "refused", "flight", "bucket", "keep"},
             t \in Workers => at[t] # "off"
      PROVE  Phases'
  BY <1>0, <1>2 DEF Phases, Seeding
<1>3. ASSUME NEW t \in Threads, Refused(t) \/ Answered(t) \/ Record(t) \/ Keep(t)
      PROVE  Phases'
  <2>1. /\ at[t] \in {"refused", "flight", "bucket", "keep"}
        /\ \E step : at' = [at EXCEPT ![t] = step]
    BY <1>3, GrantedFirst DEF Record, Keep, Ends
  <2>2. t = Main => Seeding
    BY <2>1 DEF Seeding
  <2>3. QED
    BY <1>2, <2>1, <2>2
<1>4. ASSUME SeedPlan \/ SeedSubscriber \/ GiveUp \/ AwaitEnd \/ Done
      PROVE  Phases'
  <2>1. \E step : /\ at' = [at EXCEPT ![Main] = step]
                  /\ at[Main] = "seed" \/ step \in {"wait", "exit"}
    BY <1>4 DEF SeedPlan, SeedSubscriber, GiveUp, AwaitEnd, Done, Ask
  <2>2. at[Main] = "seed" => Seeding
    BY DEF Seeding
  <2>3. QED
    BY <1>0, <1>2, <2>1, <2>2
<1>5. ASSUME NEW w \in Workers, Work(w) \/ Idle(w) \/ Stop(w)
      PROVE  Phases'
  <2>1. at[w] = "select" /\ \E step : at' = [at EXCEPT ![w] = step]
    BY <1>5 DEF Work, Idle, Stop, Ask
  <2>2. QED
    BY <1>0, <1>2, <2>1
<1>6. ASSUME StartWorkers
      PROVE  Phases'
  BY <1>0, <1>6 DEF StartWorkers, Phases, Seeding
<1>7. ASSUME \/ End \/ Tick \/ UNCHANGED vars
             \/ PrinterStops \/ PrinterWakes \/ PrinterLoads \/ PrinterPrints
      PROVE  Phases'
  <2>1. at' = at
    BY <1>7 DEF End, Tick, vars, PrinterStops, PrinterWakes, PrinterLoads, PrinterPrints
  <2>2. QED
    BY <1>1, <2>1
<1>8. QED
  BY <1>3, <1>4, <1>5, <1>6, <1>7 DEF Next, Request, Run, Printer, Over

\* Between two states, one goroutine enters record, or leaves it, or none does.
LEMMA OneRecords ==
    ASSUME TypeOK, NEW t \in Threads, NEW step, at' = [at EXCEPT ![t] = step]
    PROVE  /\ Cardinality(Between) \in Nat /\ Cardinality(Between') \in Nat
           /\ (at[t] = "bucket" <=> step = "bucket") => Between' = Between
           /\ at[t] # "bucket" /\ step = "bucket" =>
                Cardinality(Between') = Cardinality(Between) + 1
           /\ at[t] = "bucket" /\ step # "bucket" =>
                Cardinality(Between) = Cardinality(Between') + 1
<1>0. at \in [Threads -> {"off", "seed", "ctx", "wait", "exit", "failed", "select",
                         "refused", "flight", "bucket", "keep", "gone"}]
  BY DEF TypeOK
<1>1. IsFiniteSet(Threads)
  BY LoadAssumption, FS_AddElement DEF LoadAssumption, Threads
<1>2. Between \subseteq Threads /\ Between' \subseteq Threads
  BY DEF Between
<1>3. IsFiniteSet(Between) /\ IsFiniteSet(Between')
  BY <1>1, <1>2, FS_Subset
<1>4. Cardinality(Between) \in Nat /\ Cardinality(Between') \in Nat
  BY <1>3, FS_CardinalityType
<1>5. (at[t] = "bucket" <=> step = "bucket") => Between' = Between
  BY <1>0 DEF Between
<1>6. at[t] # "bucket" /\ step = "bucket" => t \notin Between /\ Between' = Between \cup {t}
  BY <1>0 DEF Between
<1>7. at[t] = "bucket" /\ step # "bucket" => t \notin Between' /\ Between = Between' \cup {t}
  BY <1>0 DEF Between
<1>8. QED
  BY <1>3, <1>4, <1>5, <1>6, <1>7, FS_AddElement

\* Every step keeps the counters adding up.
LEMMA CountedNext ==
    ASSUME TypeOK, Calls, Phases, RequestsCounted, [Next]_vars
    PROVE  RequestsCounted'
<1> USE DEF stats
<1>0. total \in Nat /\ Rest \in Nat /\ bucket \in [Outcome -> Nat]
  BY DEF TypeOK, Rest, Outcome
<1>1. ASSUME UNCHANGED <<total, bucket>>, Between' = Between
      PROVE  RequestsCounted'
  BY <1>1 DEF RequestsCounted, Rest
<1>2. CASE Apart
  BY <1>1, <1>2, ApartSteps
<1>3. CASE StartWorkers
  <2>1. \A t \in Threads : at[t] # "bucket" /\ at'[t] # "bucket"
    BY <1>3 DEF StartWorkers, Phases, Seeding, Threads
  <2>2. Between' = Between
    BY <2>1 DEF Between
  <2>3. QED
    BY <1>1, <1>3, <2>2 DEF StartWorkers
<1>4. CASE SeedPlan \/ SeedSubscriber \/ \E w \in Workers : Work(w)
  <2>1. PICK t \in Threads, step \in {"refused", "flight"} :
            at' = [at EXCEPT ![t] = step] /\ at[t] # "bucket"
    BY <1>4, Asked DEF Ask, Sent
  <2>2. Between' = Between
    BY <2>1, OneRecords
  <2>3. QED
    BY <1>1, <1>4, <2>2, Asked
<1>5. ASSUME NEW t \in Threads, Refused(t) \/ Answered(t)
      PROVE  RequestsCounted'
  <2>1. /\ at[t] # "bucket" /\ at' = [at EXCEPT ![t] = "bucket"]
        /\ total' = total + 1 /\ bucket' = bucket
    BY <1>5, GrantedFirst DEF Ends
  <2>2. /\ Cardinality(Between) \in Nat
        /\ Cardinality(Between') = Cardinality(Between) + 1
    BY <2>1, OneRecords
  <2>3. Rest' = Rest
    BY <2>1 DEF Rest
  <2>4. Cardinality(Between)' = Cardinality(Between')
    OBVIOUS
  <2>5. QED
    BY <1>0, <2>1, <2>2, <2>3, <2>4 DEF RequestsCounted
<1>6. ASSUME NEW t \in Threads, Record(t)
      PROVE  RequestsCounted'
  <2>1. PICK step \in {"refused", "flight", "keep"} :
          /\ at[t] = "bucket" /\ at' = [at EXCEPT ![t] = step]
          /\ total' = total /\ bucket' = Bucketed(t)
    BY <1>6 DEF Record, Sent
  <2>2. /\ Cardinality(Between) \in Nat /\ Cardinality(Between') \in Nat
        /\ Cardinality(Between) = Cardinality(Between') + 1
    BY <2>1, OneRecords
  <2>3. Rest' = Rest + 1
    <3>1. call[t].result \in Outcome
      BY DEF TypeOK
    <3>2. QED
      BY <1>0, <2>1, <3>1, Bucketing DEF Rest
  <2>4. QED
    BY <1>0, <2>1, <2>2, <2>3 DEF RequestsCounted
<1>7. ASSUME NEW t \in Threads, Keep(t)
      PROVE  RequestsCounted'
  <2>1. at[t] # "bucket" /\ at' = [at EXCEPT ![t] = Home(t)] /\ Home(t) # "bucket"
    BY <1>7 DEF Keep, Home
  <2>2. Between' = Between
    BY <2>1, OneRecords
  <2>3. QED
    BY <1>1, <1>7, <2>2 DEF Keep
<1>8. QED
  BY <1>2, <1>3, <1>4, <1>5, <1>6, <1>7, Steps

\* Every step keeps the pool to granted ids.
LEMMA GrantedNext ==
    ASSUME TypeOK, Calls, OnlyGrantedIds, [Next]_vars
    PROVE  OnlyGrantedIds'
<1>0. /\ granted \in [{"plan", "create"} -> Nat] /\ planIDs \subseteq Nat /\ pool \subseteq Nat
      /\ call \in [Threads -> CallType]
  BY DEF TypeOK, CallType
<1>1. ASSUME UNCHANGED <<planIDs, pool>>, granted' \in [{"plan", "create"} -> Nat],
             \A k \in {"plan", "create"} : granted'[k] >= granted[k]
      PROVE  OnlyGrantedIds'
  BY <1>0, <1>1 DEF OnlyGrantedIds
<1>2. CASE UNCHANGED <<planIDs, pool, granted>>
  BY <1>2 DEF OnlyGrantedIds
<1>3. CASE Apart \/ StartWorkers
  BY <1>2, <1>3, ApartSteps DEF StartWorkers
<1>4. CASE SeedPlan \/ SeedSubscriber \/ \E w \in Workers : Work(w)
  BY <1>2, <1>4, Asked
<1>5. ASSUME NEW t \in Threads, Refused(t) \/ Answered(t)
      PROVE  OnlyGrantedIds'
  <2>1. UNCHANGED <<planIDs, pool>>
    BY <1>5, GrantedFirst DEF Ends
  <2>2. QED
    BY <1>1, <1>5, <2>1, GrantedFirst
<1>6. ASSUME NEW t \in Threads, Record(t)
      PROVE  OnlyGrantedIds'
  BY <1>2, <1>6 DEF Record
<1>7. ASSUME NEW t \in Threads, Keep(t)
      PROVE  OnlyGrantedIds'
  <2>1. ASSUME NEW n \in Nat, NEW ids \in SUBSET (1 .. n), call[t].id <= n
        PROVE  Add(ids, call[t].id) \in SUBSET (1 .. n)
    <3>1. call[t].id \in Nat
      BY <1>0 DEF CallType
    <3>2. call[t].id = NoID \/ call[t].id \in 1 .. n
      BY <2>1, <3>1 DEF NoID
    <3>3. QED
      BY <3>2 DEF Add
  <2>2. call[t].kind = "plan" => Add(planIDs, call[t].id) \in SUBSET (1 .. granted["plan"])
    <3>1. call[t].kind = "plan" => call[t].id <= granted["plan"]
      BY DEF Calls
    <3>2. granted["plan"] \in Nat /\ planIDs \in SUBSET (1 .. granted["plan"])
      BY <1>0 DEF OnlyGrantedIds
    <3>3. QED
      BY <2>1, <3>1, <3>2
  <2>3. call[t].kind = "create" => Add(pool, call[t].id) \in SUBSET (1 .. granted["create"])
    <3>1. call[t].kind = "create" => call[t].id <= granted["create"]
      BY DEF Calls
    <3>2. granted["create"] \in Nat /\ pool \in SUBSET (1 .. granted["create"])
      BY <1>0 DEF OnlyGrantedIds
    <3>3. QED
      BY <2>1, <3>1, <3>2
  <2>4. QED
    BY <1>7, <2>2, <2>3 DEF Keep, OnlyGrantedIds
<1>8. QED
  BY <1>3, <1>4, <1>5, <1>6, <1>7, Steps

----
\* Every step keeps a line, and what it has still to load, missing little.
LEMMA LineNext ==
    ASSUME TypeOK, RequestsCounted, LineOK, [Next]_vars
    PROVE  LineOK'
<1> USE DEF stats
<1>0. /\ bucket \in [Outcome -> Nat] /\ total \in Nat
      /\ line \in [loaded : 0 .. 5, total : Nat, rest : Nat, missing : Nat]
      /\ Rest = bucket["ok"] + bucket["4xx"] + bucket["5xx"] + bucket["error"]
      /\ bucket["ok"] \in Nat /\ bucket["4xx"] \in Nat /\ bucket["5xx"] \in Nat
      /\ bucket["error"] \in Nat
  BY DEF TypeOK, Rest, Outcome
<1>1. CASE UNCHANGED <<line, bucket>>
  BY <1>1 DEF LineOK, ToLoad
<1>2. ASSUME PrinterLoads
      PROVE  LineOK'
  <2>1. /\ line.loaded \in 0 .. 4 /\ bucket' = bucket
        /\ line' = [loaded |-> line.loaded + 1,
                    total  |-> IF line.loaded = 0 THEN total ELSE line.total,
                    missing |-> IF line.loaded = 0 THEN Cardinality(Between) ELSE line.missing,
                    rest   |-> line.rest + (CASE line.loaded = 0 -> 0
                                              [] line.loaded = 1 -> bucket["ok"]
                                              [] line.loaded = 2 -> bucket["4xx"]
                                              [] line.loaded = 3 -> bucket["5xx"]
                                              [] line.loaded = 4 -> bucket["error"])]
    <3>1. line.loaded \in {0, 1, 2, 3, 4} /\ bucket' = bucket /\ line.rest \in Nat
      BY <1>0, <1>2 DEF PrinterLoads
    <3>2. /\ LoadOrder[1] = "total" /\ LoadOrder[2] = "ok" /\ LoadOrder[3] = "4xx"
          /\ LoadOrder[4] = "5xx" /\ LoadOrder[5] = "error"
      BY DEF LoadOrder
    <3>3. QED
      BY <1>0, <1>2, <3>1, <3>2 DEF PrinterLoads
  <2>2. total = Rest + Cardinality(Between)
    BY DEF RequestsCounted
  <2>3. Cardinality(Between) \in Nat
    <3>1. IsFiniteSet(Threads)
      BY LoadAssumption, FS_AddElement DEF LoadAssumption, Threads
    <3>2. IsFiniteSet(Between)
      BY <3>1, FS_Subset DEF Between
    <3>3. QED
      BY <3>2, FS_CardinalityType
  <2>4. line.loaded \in {0, 1, 2, 3, 4}
    BY <2>1
  <2>5. QED
    BY <1>0, <2>1, <2>2, <2>3, <2>4 DEF LineOK, ToLoad
<1>3. ASSUME PrinterPrints
      PROVE  LineOK'
  BY <1>3 DEF PrinterPrints, NoLine, LineOK
<1>4. ASSUME Done
      PROVE  LineOK'
  <2>1. /\ bucket' = bucket
        /\ line' = [loaded |-> 5, total |-> total, rest |-> Rest, missing |-> 0]
        /\ at[Main] = "wait" /\ \A w \in Workers : at[w] = "gone"
    BY <1>4 DEF Done
  <2>2. Between = {}
    BY <2>1 DEF Between, Threads
  <2>3. total = Rest
    BY <1>0, <2>2, FS_EmptySet DEF RequestsCounted
  <2>4. QED
    BY <1>0, <2>1, <2>3 DEF LineOK, ToLoad
<1>5. ASSUME NEW t \in Threads, Record(t)
      PROVE  LineOK'
  <2>1. line' = line /\ bucket' = Bucketed(t)
    BY <1>5 DEF Record
  <2>2. call[t].result \in Outcome
    BY DEF TypeOK
  <2>3. bucket' \in [Outcome -> Nat] /\ \A o \in Outcome : bucket'[o] >= bucket[o]
    BY <1>0, <2>1, <2>2, Bucketing
  <2>4. /\ bucket'["ok"] >= bucket["ok"] /\ bucket'["4xx"] >= bucket["4xx"]
        /\ bucket'["5xx"] >= bucket["5xx"] /\ bucket'["error"] >= bucket["error"]
        /\ bucket'["ok"] \in Nat /\ bucket'["4xx"] \in Nat /\ bucket'["5xx"] \in Nat
        /\ bucket'["error"] \in Nat
    BY <2>3 DEF Outcome
  <2>5. QED
    BY <1>0, <2>1, <2>4 DEF LineOK, ToLoad
<1>6. ASSUME NEW t \in Threads, Refused(t) \/ Answered(t) \/ Keep(t)
      PROVE  UNCHANGED <<line, bucket>>
  BY <1>6, GrantedFirst DEF Ends, Keep
<1>7. QED
  BY <1>1, <1>2, <1>3, <1>4, <1>5, <1>6, Asked
     DEF Next, Request, Run, Printer, Over, End, Tick, GiveUp, StartWorkers, AwaitEnd, Idle, Stop,
         PrinterStops, PrinterWakes, vars

----
\* The requests a goroutine has decided to make and record has not yet counted
\* in the total, and all of them, the i-th of goroutine t as <<t, i>>.
ToGo ==
    [t \in Threads |->
        CASE at[t] \in {"refused", "flight"} -> call[t].left
          [] at[t] = "bucket" -> call[t].left - 1
          [] OTHER -> 0]

Outstanding(f) == {p \in Threads \X Nat : p[2] \in 1 .. f[p[1]]}

\* Asking for n requests adds n outstanding ones ...
LEMMA OutstandingMore ==
    ASSUME NEW f \in [Threads -> Nat], NEW t \in Threads, f[t] = 0, NEW n \in Nat,
           IsFiniteSet(Outstanding(f))
    PROVE  /\ IsFiniteSet(Outstanding([f EXCEPT ![t] = n]))
           /\ Cardinality(Outstanding([f EXCEPT ![t] = n])) = Cardinality(Outstanding(f)) + n
<1>1. PICK old, new, more :
          /\ old = Outstanding(f)
          /\ new = Outstanding([f EXCEPT ![t] = n])
          /\ more = {t} \X (1 .. n)
  OBVIOUS
<1>2. new = old \cup more /\ old \cap more = {}
  BY <1>1 DEF Outstanding
<1>3. IsFiniteSet(more) /\ Cardinality(more) = n
  <2>0. 1 \in Int /\ n \in Int
    OBVIOUS
  <2>1. IsFiniteSet(1 .. n) /\ Cardinality(1 .. n) = n
    <3>1. IsFiniteSet(1 .. n) /\ Cardinality(1 .. n) = IF 1 > n THEN 0 ELSE n - 1 + 1
      BY <2>0, FS_Interval, Zenon
    <3>2. QED
      BY <3>1
  <2>2. IsFiniteSet({t}) /\ Cardinality({t}) = 1
    BY FS_Singleton
  <2>3. IsFiniteSet(more) /\ Cardinality(more) = Cardinality({t}) * Cardinality(1 .. n)
    BY <1>1, <2>1, <2>2, FS_Product
  <2>4. 1 * n = n
    OBVIOUS
  <2>5. QED
    BY <2>1, <2>2, <2>3, <2>4
<1>4. Cardinality(old) \in Nat /\ Cardinality(old \cap more) = 0
  BY <1>1, <1>2, FS_CardinalityType, FS_EmptySet
<1>5. /\ IsFiniteSet(old \cup more)
      /\ Cardinality(old \cup more)
           = Cardinality(old) + Cardinality(more) - Cardinality(old \cap more)
  BY <1>1, <1>3, FS_Union
<1>6. IsFiniteSet(new) /\ Cardinality(new) = Cardinality(old) + n
  BY <1>2, <1>3, <1>4, <1>5
<1>7. QED
  BY <1>1, <1>6

\* ... and counting one leaves one less.
LEMMA OutstandingLess ==
    ASSUME NEW f \in [Threads -> Nat], NEW t \in Threads, f[t] # 0,
           IsFiniteSet(Outstanding(f))
    PROVE  /\ IsFiniteSet(Outstanding([f EXCEPT ![t] = f[t] - 1]))
           /\ Cardinality(Outstanding([f EXCEPT ![t] = f[t] - 1])) = Cardinality(Outstanding(f)) - 1
<1>1. PICK old, new, one :
          /\ old = Outstanding(f)
          /\ new = Outstanding([f EXCEPT ![t] = f[t] - 1])
          /\ one = <<t, f[t]>>
  OBVIOUS
<1>2. f[t] \in Nat \ {0}
  OBVIOUS
<1>3. one \in old /\ new = old \ {one}
  BY <1>1, <1>2 DEF Outstanding
<1>4. IsFiniteSet(old \ {one}) /\ Cardinality(old \ {one}) = Cardinality(old) - 1
  BY <1>1, <1>3, FS_RemoveElement
<1>5. QED
  BY <1>1, <1>3, <1>4

\* Every request the program decided to make is in the total or outstanding.
AllMade ==
    /\ IsFiniteSet(Outstanding(ToGo))
    /\ asked = total + Cardinality(Outstanding(ToGo))

\* Every step keeps the account of the calls still to make.
LEMMA AllMadeNext ==
    ASSUME TypeOK, Calls, Phases, AllMade, [Next]_vars
    PROVE  AllMade'
<1> USE DEF stats
<1>0. /\ call \in [Threads -> CallType] /\ asked \in Nat /\ total \in Nat
      /\ at \in [Threads -> {"off", "seed", "ctx", "wait", "exit", "failed", "select",
                             "refused", "flight", "bucket", "keep", "gone"}]
      /\ \A t \in Threads : call[t].left \in Nat
  BY DEF TypeOK, CallType
<1>1. ToGo \in [Threads -> Nat] /\ Cardinality(Outstanding(ToGo)) \in Nat
  <2>1. ToGo \in [Threads -> Nat]
    BY <1>0 DEF ToGo, Calls
  <2>2. QED
    BY <2>1, FS_CardinalityType DEF AllMade
<1>2. ASSUME UNCHANGED <<total, asked>>, ToGo' = ToGo
      PROVE  AllMade'
  BY <1>2 DEF AllMade
<1>3. CASE Apart
  <2>1. UNCHANGED <<call, total>>
    BY <1>3, ApartSteps
  <2>2. asked' = asked
    BY <1>3 DEF Apart, End, Tick, GiveUp, AwaitEnd, Done, vars, PrinterStops, PrinterWakes,
                PrinterLoads, PrinterPrints, Idle, Stop
  <2>3. \A t \in Threads : at[t] \in {"refused", "flight", "bucket"} => at'[t] = at[t]
    BY <1>0, <1>3, LoadAssumption
       DEF Apart, End, Tick, GiveUp, AwaitEnd, Done, vars, PrinterStops, PrinterWakes,
           PrinterLoads, PrinterPrints, Idle, Stop, LoadAssumption, Threads
  <2>4. \A t \in Threads : at'[t] = at[t] \/ at'[t] \notin {"refused", "flight", "bucket"}
    BY <1>3, ApartSteps
  <2>5. ToGo' = ToGo
    BY <2>1, <2>3, <2>4 DEF ToGo
  <2>6. QED
    BY <1>2, <2>1, <2>2, <2>5
<1>4. CASE StartWorkers
  <2>1. \A t \in Threads : /\ at[t] \notin {"refused", "flight", "bucket"}
                           /\ at'[t] \notin {"refused", "flight", "bucket"}
    BY <1>4 DEF StartWorkers, Phases, Seeding, Threads
  <2>2. ToGo' = ToGo
    BY <2>1 DEF ToGo
  <2>3. QED
    BY <1>2, <1>4, <2>2 DEF StartWorkers
<1>5. CASE SeedPlan \/ SeedSubscriber \/ \E w \in Workers : Work(w)
  <2>1. PICK t \in Threads, kind \in Kind, n \in Nat \ {0} :
            Ask(t, kind, n) /\ at[t] \in {"seed", "select"}
    BY <1>5, Asked
  <2>2. /\ call'[t].left = n /\ at' = [at EXCEPT ![t] = Sent]
        /\ \A u \in Threads \ {t} : call'[u] = call[u]
    BY <2>1, NewCall
  <2>3. ToGo[t] = 0 /\ ToGo' = [ToGo EXCEPT ![t] = n]
    BY <1>0, <2>1, <2>2 DEF ToGo, Sent
  <2>4. asked' = asked + n /\ total' = total
    BY <1>5, <2>1, Asked DEF Ask
  <2>5. IsFiniteSet(Outstanding([ToGo EXCEPT ![t] = n]))
        /\ Cardinality(Outstanding([ToGo EXCEPT ![t] = n])) = Cardinality(Outstanding(ToGo)) + n
    BY <1>1, <2>3, OutstandingMore DEF AllMade
  <2>6. IsFiniteSet(Outstanding(ToGo'))
        /\ Cardinality(Outstanding(ToGo')) = Cardinality(Outstanding(ToGo)) + n
    BY <2>3, <2>5
  <2>7. Outstanding(ToGo)' = Outstanding(ToGo')
    BY DEF Outstanding
  <2>8. QED
    BY <1>0, <1>1, <2>4, <2>6, <2>7 DEF AllMade
<1>6. ASSUME NEW t \in Threads, Refused(t) \/ Answered(t)
      PROVE  AllMade'
  <2>1. PICK result \in Outcome, id \in Nat : Ends(t, result, id) /\ at[t] \in {"refused", "flight"}
    BY <1>6, GrantedFirst DEF Refused, Answered
  <2>2. /\ call'[t].left = call[t].left /\ at' = [at EXCEPT ![t] = "bucket"]
        /\ \A u \in Threads \ {t} : call'[u] = call[u]
    BY <2>1, EndedCall DEF Ends
  <2>3. ToGo[t] # 0 /\ ToGo' = [ToGo EXCEPT ![t] = ToGo[t] - 1]
    BY <1>0, <2>1, <2>2 DEF ToGo, Calls
  <2>4. asked' = asked /\ total' = total + 1
    BY <2>1 DEF Ends
  <2>5. IsFiniteSet(Outstanding([ToGo EXCEPT ![t] = ToGo[t] - 1]))
        /\ Cardinality(Outstanding([ToGo EXCEPT ![t] = ToGo[t] - 1])) = Cardinality(Outstanding(ToGo)) - 1
    BY <1>1, <2>3, OutstandingLess DEF AllMade
  <2>6. IsFiniteSet(Outstanding(ToGo'))
        /\ Cardinality(Outstanding(ToGo')) = Cardinality(Outstanding(ToGo)) - 1
    BY <2>3, <2>5
  <2>7. Outstanding(ToGo)' = Outstanding(ToGo')
    BY DEF Outstanding
  <2>8. QED
    BY <1>0, <1>1, <2>4, <2>6, <2>7 DEF AllMade
<1>7. ASSUME NEW t \in Threads, Record(t)
      PROVE  AllMade'
  <2>1. /\ call'[t].left = call[t].left - 1 /\ call[t].left \in Nat \ {0}
        /\ \A u \in Threads \ {t} : call'[u] = call[u]
    BY <1>0, <1>7, RecordedCall DEF Calls, Record
  <2>2. /\ at[t] = "bucket"
        /\ at' = [at EXCEPT ![t] = IF call[t].left > 1 THEN Sent ELSE "keep"]
        /\ UNCHANGED <<total, asked>>
    BY <1>7 DEF Record
  <2>3. ToGo' = ToGo
    BY <1>0, <2>1, <2>2 DEF ToGo, Sent
  <2>4. QED
    BY <1>2, <2>2, <2>3
<1>8. ASSUME NEW t \in Threads, Keep(t)
      PROVE  AllMade'
  <2>1. /\ at[t] = "keep" /\ at' = [at EXCEPT ![t] = Home(t)]
        /\ call' = [call EXCEPT ![t] = NoCall] /\ UNCHANGED <<total, asked>>
    BY <1>8 DEF Keep
  <2>2. ToGo' = ToGo
    BY <1>0, <2>1 DEF ToGo, Home
  <2>3. QED
    BY <1>2, <2>1, <2>2
<1>9. QED
  BY <1>3, <1>4, <1>5, <1>6, <1>7, <1>8, Steps

\* When the last line is printed nobody is inside record, and no request is
\* outstanding; nothing happens after it.
LEMMA DoneNext ==
    ASSUME TypeOK, RequestsCounted, AllMade, DoneAddsUp, [Next]_vars
    PROVE  DoneAddsUp'
<1>0. /\ Main \in Threads /\ Main \notin Workers /\ Threads = Workers \cup {Main}
      /\ at \in [Threads -> {"off", "seed", "ctx", "wait", "exit", "failed", "select",
                             "refused", "flight", "bucket", "keep", "gone"}]
      /\ total \in Nat /\ Rest \in Nat
  BY LoadAssumption DEF LoadAssumption, Threads, TypeOK, Rest, Outcome
<1>1. CASE Done
  <2>1. \A t \in Threads : at[t] \in {"wait", "gone"}
    BY <1>0, <1>1 DEF Done
  <2>2. Between = {} /\ Outstanding(ToGo) = {}
    BY <2>1 DEF Between, Outstanding, ToGo
  <2>3. Cardinality({}) = 0
    BY FS_EmptySet
  <2>4. asked = total /\ total = Rest
    BY <1>0, <2>2, <2>3 DEF AllMade, RequestsCounted
  <2>5. QED
    BY <1>1, <2>4 DEF Done, DoneAddsUp
<1>2. CASE at[Main] = "exit"
  <2>1. UNCHANGED vars
    BY <1>0, <1>2
       DEF Next, End, Tick, Request, Work, Idle, Stop, Run, SeedPlan, GiveUp, SeedSubscriber,
           StartWorkers, AwaitEnd, Done, Printer, Over, Alive
  <2>2. QED
    BY <1>2, <2>1 DEF DoneAddsUp, vars
<1>3. CASE at[Main] # "exit" /\ ~Done
  <2>1. at'[Main] # "exit"
    BY <1>0, <1>3
       DEF Next, vars, End, Tick, Request, Refused, Answered, Ends, Record, Keep, Home, Work, Ask,
           Sent, Idle, Stop, Run, SeedPlan, GiveUp, SeedSubscriber, StartWorkers, AwaitEnd,
           Printer, PrinterStops, PrinterWakes, PrinterLoads, PrinterPrints, Over
  <2>2. QED
    BY <2>1 DEF DoneAddsUp
<1>4. QED
  BY <1>1, <1>2, <1>3

----
\* The inductive invariant.
LoadInv ==
    /\ AllMade
    /\ DoneAddsUp
    /\ TypeOK /\ Calls /\ Phases /\ RequestsCounted /\ OnlyGrantedIds /\ LineOK

\* All of it holds at the start.
LEMMA LoadInit == Init => LoadInv
<1> SUFFICES ASSUME Init PROVE LoadInv
  OBVIOUS
<1>0. NPlans \in Nat /\ NSubs \in Nat /\ MaxRequests \in Nat /\ Main \in Threads /\ Main \notin Workers
  BY LoadAssumption DEF LoadAssumption, Threads
<1>1. TypeOK
  <2>1. NoCall \in [kind : Kind, left : Nat, result : Outcome, id : Nat]
    BY DEF NoCall, Kind, Outcome, NoID
  <2>2. NoLine \in [loaded : 0 .. 5, total : Nat, rest : Nat, missing : Nat]
    BY DEF NoLine
  <2>3. 0 \in 0 .. NPlans + NSubs /\ 0 \in 0 .. MaxRequests
    BY <1>0
  <2>4. granted \in [{"plan", "create"} -> Nat] /\ bucket \in [Outcome -> Nat]
    BY DEF Init
  <2>5. /\ call \in [Threads -> [kind : Kind, left : Nat, result : Outcome, id : Nat]]
        /\ at \in [Threads -> {"off", "seed", "ctx", "wait", "exit", "failed", "select",
                               "refused", "flight", "bucket", "keep", "gone"}]
    BY <2>1 DEF Init
  <2>6. QED
    BY <2>2, <2>3, <2>4, <2>5 DEF Init, TypeOK
<1>2. Calls
  BY DEF Init, Calls, NoCall
<1>3. Phases
  BY <1>0 DEF Init, Phases, Threads
<1>4. RequestsCounted
  <2>1. Between = {}
    BY DEF Init, Between
  <2>2. Rest = 0
    BY DEF Init, Rest, Outcome
  <2>3. QED
    BY <2>1, <2>2, FS_EmptySet DEF Init, RequestsCounted
<1>5. OnlyGrantedIds
  BY DEF Init, OnlyGrantedIds
<1>6. LineOK
  BY DEF Init, LineOK, NoLine
<1>7. AllMade
  <2>1. Outstanding(ToGo) = {}
    BY DEF Init, Outstanding, ToGo
  <2>2. QED
    BY <2>1, FS_EmptySet DEF Init, AllMade
<1>8. DoneAddsUp
  BY <1>0 DEF Init, DoneAddsUp
<1>9. QED
  BY <1>1, <1>2, <1>3, <1>4, <1>5, <1>6, <1>7, <1>8 DEF LoadInv

\* So it always holds.
LEMMA LoadInvInvariant == Spec => []LoadInv
<1>1. LoadInv /\ [Next]_vars => LoadInv'
  BY TypeNext, CallsNext, PhasesNext, CountedNext, GrantedNext, LineNext, AllMadeNext,
     DoneNext DEF LoadInv
<1>2. QED
  BY <1>1, LoadInit, PTL DEF Spec

\* Every variable of the load generator keeps its type.
THEOREM TypeCorrect == Spec => []TypeOK
<1>1. LoadInv => TypeOK
  BY DEF LoadInv
<1>2. QED
  BY <1>1, LoadInvInvariant, PTL

\* stats.record counts every request once in the total and once in an outcome,
\* however many goroutines are between the two.
THEOREM CountersAddUp == Spec => []RequestsCounted
<1>1. LoadInv => RequestsCounted
  BY DEF LoadInv
<1>2. QED
  BY <1>1, LoadInvInvariant, PTL

\* Workers use ids that the server gave, whatever becomes of the answers.
THEOREM IdsAreGranted == Spec => []OnlyGrantedIds
<1>1. LoadInv => OnlyGrantedIds
  BY DEF LoadInv
<1>2. QED
  BY <1>1, LoadInvInvariant, PTL

\* A line of stats.String, whose five loads are no snapshot, misses at most the
\* requests that were inside record when it began.
THEOREM LinesMissLittle == Spec => []LineMissesLittle
<1>1. LoadInv => LineMissesLittle
  BY DEF LoadInv, LineOK, LineMissesLittle
<1>2. QED
  BY <1>1, LoadInvInvariant, PTL

\* The last line counts every request the program decided to make, once in the
\* total and once in an outcome: wg.Wait leaves no request outstanding.
THEOREM LastLineAddsUp == Spec => []DoneAddsUp
<1>1. LoadInv => DoneAddsUp
  BY DEF LoadInv
<1>2. QED
  BY <1>1, LoadInvInvariant, PTL

====
