---- MODULE LoadGen ----
(***************************************************************************)
(* The load generator (cmd/loadgen): run seeds plans and subscribers, then *)
(* starts workers that share one ticker, a pool of subscriber ids and four *)
(* outcome counters, until a deadline or a signal ends the context.        *)
(*                                                                         *)
(* The server is what a request may meet: it handles it or not, its answer *)
(* arrives, whole or cut, or does not.  An action is the code between two  *)
(* accesses to what the goroutines share.                                  *)
(***************************************************************************)
EXTENDS Integers, FiniteSets

CONSTANTS
    Workers,
    Main,           \* the goroutine of run
    NPlans, NSubs,  \* what run seeds: 3 plans and 5 subscribers
    Reads,          \* requests of readTraffic: 3
    Answers,        \* what can become of a request that is sent
    MaxRequests     \* bound: requests of a run

Outcome == {"ok", "4xx", "5xx", "error"}

\* handled: the server did what it was asked; decoded: the client found an id.
Answer == [handled : BOOLEAN, result : Outcome, decoded : BOOLEAN]

Truthful(a) == (a.result = "ok" => a.handled) /\ (a.decoded => a.result = "ok")

ASSUME LoadAssumption ==
    /\ IsFiniteSet(Workers) /\ Workers # {} /\ Main \notin Workers
    /\ NPlans \in Nat /\ NSubs \in Nat /\ Reads \in Nat \ {0}
    /\ Answers \subseteq {a \in Answer : Truthful(a)}
    /\ MaxRequests \in Nat /\ NPlans + NSubs <= MaxRequests

VARIABLES
    ended,          \* ctx is done: -duration is over, or a signal came
    tick,           \* the ticker's channel, which holds one tick
    at,             \* each goroutine that sends requests
    call,           \* what it is doing: what it creates, requests to go, result
    seeded,         \* requests of the seeding loops that were made
    planIDs,
    pool,           \* subscriberPool.ids
    total,
    bucket,         \* the four outcome counters
    printer,        \* the progress goroutine
    line,           \* what String has loaded: how many, the total, the rest;
                    \* missing, a history: how many were inside record then
    asked,          \* history: requests the program decided to make
    granted         \* history: ids the server has given, by kind

stats == <<total, bucket>>
vars  == <<ended, tick, at, call, seeded, planIDs, pool, stats, printer, line,
           asked, granted>>

Threads == Workers \cup {Main}

\* What a request creates.
Kind == {"plan", "create", "none"}

\* The id of a response that had none: the empty string.
NoID == 0

NoCall == [kind |-> "none", left |-> 0, result |-> "ok", id |-> NoID]

NoLine == [loaded |-> 0, total |-> 0, rest |-> 0, missing |-> 0]

Init ==
    /\ ended = FALSE /\ tick = FALSE
    /\ at = [t \in Threads |-> IF t = Main THEN "seed" ELSE "off"]
    /\ call = [t \in Threads |-> NoCall]
    /\ seeded = 0 /\ planIDs = {} /\ pool = {}
    /\ total = 0 /\ bucket = [o \in Outcome |-> 0]
    /\ printer = "off" /\ line = NoLine
    /\ asked = 0
    /\ granted = [plan |-> 0, create |-> 0]

Alive == at[Main] \notin {"exit", "failed"}

\* The context ends, and the ticker ticks, when they will.
End ==
    /\ Alive /\ ~ended
    /\ ended' = TRUE
    /\ UNCHANGED <<tick, at, call, seeded, planIDs, pool, stats, printer, line, asked, granted>>

Tick ==
    /\ Alive /\ ~tick
    /\ tick' = TRUE
    /\ UNCHANGED <<ended, at, call, seeded, planIDs, pool, stats, printer, line, asked, granted>>

----
\* httpClient.do: a request of a context that is done is not sent.
Sent == IF ended THEN "refused" ELSE "flight"

\* t makes n requests of a kind, one after the other.
Ask(t, kind, n) ==
    /\ asked + n <= MaxRequests
    /\ asked' = asked + n
    /\ call' = [call EXCEPT ![t] = [kind |-> kind, left |-> n, result |-> "ok", id |-> NoID]]
    /\ at' = [at EXCEPT ![t] = Sent]

\* record counts the request in the total ...
Ends(t, result, id) ==
    /\ total' = total + 1
    /\ call' = [call EXCEPT ![t] = [call[t] EXCEPT !.result = result, !.id = id]]
    /\ at' = [at EXCEPT ![t] = "bucket"]
    /\ UNCHANGED <<ended, tick, seeded, planIDs, pool, bucket, printer, line, asked>>

Refused(t) ==
    /\ at[t] = "refused"
    /\ Ends(t, "error", NoID)
    /\ UNCHANGED granted

\* The server handles what was sent, or does not; the client has its answer,
\* possibly without an id it can decode, or an error: the timeout, the end of
\* the context.
Answered(t) ==
    /\ at[t] = "flight"
    /\ \E a \in Answers :
          IF call[t].kind \in {"plan", "create"}
          THEN LET number == granted[call[t].kind] + 1
               IN  /\ granted' = IF a.handled THEN [granted EXCEPT ![call[t].kind] = number]
                                 ELSE granted
                   /\ Ends(t, a.result, IF a.decoded THEN number ELSE NoID)
          ELSE Ends(t, a.result, NoID) /\ UNCHANGED granted

\* Mutant: the switch of record has no default.
BucketNoDefault(t) ==
    IF call[t].result = "5xx" THEN bucket
    ELSE [bucket EXCEPT ![call[t].result] = @ + 1]

Bucketed(t) == [bucket EXCEPT ![call[t].result] = @ + 1]

\* The next request of the same action, or none.
OneDone(made) == [made EXCEPT !.left = @ - 1, !.result = "ok"]

\* Mutant: the last request of an action is taken for the last but one.
RecordOneMore(t) ==
    /\ at[t] = "bucket"
    /\ bucket' = Bucketed(t)
    /\ call' = [call EXCEPT ![t] = OneDone(call[t])]
    /\ at' = [at EXCEPT ![t] = IF call[t].left >= 1 THEN Sent ELSE "keep"]
    /\ UNCHANGED <<ended, tick, seeded, planIDs, pool, total, printer, line, asked, granted>>

\* ... and then in its outcome.
Record(t) ==
    /\ at[t] = "bucket"
    /\ bucket' = Bucketed(t)
    /\ call' = [call EXCEPT ![t] = OneDone(call[t])]
    /\ at' = [at EXCEPT ![t] = IF call[t].left > 1 THEN Sent ELSE "keep"]
    /\ UNCHANGED <<ended, tick, seeded, planIDs, pool, total, printer, line, asked, granted>>

\* Mutant: subscriberPool.add without its early return.
AddAll(ids, id) == ids \cup {id}

Add(ids, id) == IF id = NoID THEN ids ELSE ids \cup {id}

Home(t) == IF t = Main THEN "seed" ELSE "select"

\* The id of a created plan or subscriber is kept; other results are not used.
Keep(t) ==
    /\ at[t] = "keep"
    /\ planIDs' = IF call[t].kind = "plan" THEN Add(planIDs, call[t].id) ELSE planIDs
    /\ pool' = IF call[t].kind = "create" THEN Add(pool, call[t].id) ELSE pool
    /\ at' = [at EXCEPT ![t] = Home(t)]
    /\ call' = [call EXCEPT ![t] = NoCall]
    /\ UNCHANGED <<ended, tick, seeded, stats, printer, line, asked, granted>>

Request(t) == Alive /\ (Refused(t) \/ Answered(t) \/ Record(t) \/ Keep(t))

----
\* run: seed plans, give up without one, seed subscribers, start the workers.
SeedPlan ==
    /\ at[Main] = "seed" /\ seeded < NPlans
    /\ Ask(Main, "plan", 1)
    /\ seeded' = seeded + 1
    /\ UNCHANGED <<ended, tick, planIDs, pool, stats, printer, line, granted>>

GiveUp ==
    /\ at[Main] = "seed" /\ seeded = NPlans
    /\ planIDs = {}
    /\ at' = [at EXCEPT ![Main] = "failed"]
    /\ UNCHANGED <<ended, tick, call, seeded, planIDs, pool, stats, printer, line, asked, granted>>

SeedSubscriber ==
    /\ at[Main] = "seed" /\ seeded \in NPlans .. NPlans + NSubs - 1
    /\ planIDs # {} /\ Ask(Main, "create", 1)
    /\ seeded' = seeded + 1
    /\ UNCHANGED <<ended, tick, planIDs, pool, stats, printer, line, granted>>

StartWorkers ==
    /\ at[Main] = "seed" /\ seeded = NPlans + NSubs
    /\ planIDs # {}
    /\ at' = [t \in Threads |-> IF t = Main THEN "ctx" ELSE "select"]
    /\ printer' = "select"
    /\ UNCHANGED <<ended, tick, call, seeded, planIDs, pool, stats, line, asked, granted>>

AwaitEnd ==
    /\ at[Main] = "ctx" /\ ended
    /\ at' = [at EXCEPT ![Main] = "wait"]
    /\ UNCHANGED <<ended, tick, call, seeded, planIDs, pool, stats, printer, line, asked, granted>>

Between == {t \in Threads : at[t] = "bucket"}

Rest == bucket["ok"] + bucket["4xx"] + bucket["5xx"] + bucket["error"]

\* Mutant: no wg.Wait.
DoneAtOnce ==
    /\ at[Main] = "wait"
    /\ at' = [at EXCEPT ![Main] = "exit"]
    /\ printer' = "off" /\ line' = [loaded |-> 5, total |-> total, rest |-> Rest, missing |-> 0]
    /\ UNCHANGED <<ended, tick, call, seeded, planIDs, pool, stats, asked, granted>>

\* wg.Wait returns, the last line is printed, and the process ends, with the
\* progress goroutine wherever it is.
Done ==
    /\ at[Main] = "wait"
    /\ \A w \in Workers : at[w] = "gone"
    /\ at' = [at EXCEPT ![Main] = "exit"]
    /\ printer' = "off" /\ line' = [loaded |-> 5, total |-> total, rest |-> Rest, missing |-> 0]
    /\ UNCHANGED <<ended, tick, call, seeded, planIDs, pool, stats, asked, granted>>

----
\* runWorker: one tick, one action of the mix: create, usage, reads, scenario.
Work(w) ==
    /\ Alive /\ at[w] = "select" /\ tick
    /\ tick' = FALSE
    /\ \/ planIDs # {} /\ Ask(w, "create", 1)
       \/ pool # {} /\ Ask(w, "none", 1)
       \/ pool # {} /\ Ask(w, "none", Reads)
       \/ Ask(w, "none", 1)
    /\ UNCHANGED <<ended, seeded, planIDs, pool, stats, printer, line, granted>>

\* usage and reads with an empty pool use up the tick and come back.
Idle(w) ==
    /\ Alive /\ at[w] = "select" /\ tick
    /\ pool = {}
    /\ tick' = FALSE
    /\ at' = [at EXCEPT ![w] = "keep"]
    /\ UNCHANGED <<ended, call, seeded, planIDs, pool, stats, printer, line, asked, granted>>

\* Mutant: the select of runWorker has no ctx.Done().
StopNever(w) == FALSE

Stop(w) ==
    /\ Alive /\ at[w] = "select" /\ ended
    /\ at' = [at EXCEPT ![w] = "gone"]
    /\ UNCHANGED <<ended, tick, call, seeded, planIDs, pool, stats, printer, line, asked, granted>>

----
\* The progress goroutine: stats.String loads the total, then the others.
PrinterStops ==
    /\ printer = "select" /\ ended
    /\ printer' = "off"
    /\ UNCHANGED <<ended, tick, at, call, seeded, planIDs, pool, stats, line, asked, granted>>

PrinterWakes ==
    /\ printer = "select"
    /\ printer' = "load"
    /\ UNCHANGED <<ended, tick, at, call, seeded, planIDs, pool, stats, line, asked, granted>>

\* Mutant: the total is loaded last.
LoadOrderTotalLast == <<"ok", "4xx", "5xx", "error", "total">>

LoadOrder == <<"total", "ok", "4xx", "5xx", "error">>

PrinterLoads ==
    /\ printer = "load" /\ line.loaded < 5
    /\ LET next == LoadOrder[line.loaded + 1]
       IN  line' = [loaded |-> line.loaded + 1,
                    total  |-> IF next = "total" THEN total ELSE line.total,
                    missing |-> IF next = "total" THEN Cardinality(Between) ELSE line.missing,
                    rest   |-> IF next = "total" THEN line.rest ELSE line.rest + bucket[next]]
    /\ UNCHANGED <<ended, tick, at, call, seeded, planIDs, pool, stats, printer, asked, granted>>

PrinterPrints ==
    /\ printer = "load" /\ line.loaded = 5
    /\ printer' = "select" /\ line' = NoLine
    /\ UNCHANGED <<ended, tick, at, call, seeded, planIDs, pool, stats, asked, granted>>

Printer == Alive /\ (PrinterStops \/ PrinterWakes \/ PrinterLoads \/ PrinterPrints)

----
Run ==
    \/ SeedPlan
    \/ GiveUp
    \/ SeedSubscriber
    \/ StartWorkers
    \/ AwaitEnd
    \/ Done

Over == ~Alive /\ UNCHANGED vars

Next ==
    \/ End
    \/ Tick
    \/ \E t \in Threads : Request(t)
    \/ \E w \in Workers : Work(w) \/ Idle(w) \/ Stop(w)
    \/ Run
    \/ Printer
    \/ Over

Spec == Init /\ [][Next]_vars

\* The scheduler runs every goroutine; a request ends, by its timeout or with
\* the context; -duration is positive, so the context does; and a select whose
\* ctx.Done() is ready takes it in the end, since Go picks among the ready
\* cases at random.
FairSpec ==
    /\ Spec
    /\ WF_vars(End) /\ WF_vars(Run)
    /\ \A t \in Threads : WF_vars(Request(t))
    /\ \A w \in Workers : SF_vars(Stop(w))

----
\* Every variable keeps its type.
TypeOK ==
    /\ ended \in BOOLEAN /\ tick \in BOOLEAN
    /\ at \in [Threads -> {"off", "seed", "ctx", "wait", "exit", "failed", "select",
                           "refused", "flight", "bucket", "keep", "gone"}]
    /\ call \in [Threads -> [kind : Kind, left : Nat, result : Outcome, id : Nat]]
    /\ seeded \in 0 .. NPlans + NSubs
    /\ planIDs \in SUBSET Nat /\ pool \in SUBSET Nat
    /\ total \in Nat /\ bucket \in [Outcome -> Nat]
    /\ printer \in {"off", "select", "load"}
    /\ line \in [loaded : 0 .. 5, total : Nat, rest : Nat, missing : Nat]
    /\ asked \in 0 .. MaxRequests
    /\ granted \in [{"plan", "create"} -> Nat]

\* The outcome counters add up to the total, but for the goroutines between
\* the two increments of record: every request is counted once, as something.
RequestsCounted == total = Rest + Cardinality(Between)

\* The ids the workers choose from were given by the server, although answers
\* are lost, cut off, or an error, and answers of several goroutines mix.
OnlyGrantedIds ==
    /\ planIDs \subseteq 1 .. granted["plan"]
    /\ pool \subseteq 1 .. granted["create"]

\* A progress line is no snapshot, but its outcomes miss no request of its
\* total, except those inside record when the total was loaded.
LineMissesLittle ==
    line.loaded = 5 => line.total <= line.rest + line.missing

\* The last line counts every request the program decided to make, once in
\* the total and once in an outcome.
DoneAddsUp ==
    at[Main] = "exit" => line.total = asked /\ line.rest = asked

\* The run ends, however long the ticks go on.
RunEnds == <>(at[Main] \in {"exit", "failed"})

====
