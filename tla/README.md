# A TLA+ model of the subscriber service

The repository is a Go HTTP service for telecom subscribers: plans,
subscribers with a status, metered usage, monthly invoices, over a store that
is either unguarded Go maps or a SQLite file. This directory holds TLA+ modules
for the parts whose behaviour depends on who runs when, TLC configurations that
check them on small instances, and TLAPS proofs of what matters most for every
instance.

    tlc -config SqliteConcurrent.cfg MCSubscriberService      # likewise the other runs
    tlapm SubscriberStore_proofs.tla                          # likewise the other proofs

## The system

| component | state | operations | interacts with |
|---|---|---|---|
| use cases, `internal/subscriber` | `idCounter`, one per process | `nextID`, create plan / subscriber, change status, add usage, list | calls the store, several times per use case |
| memory store, `internal/store/memory.go` | three maps, no mutex | insert, get, update (check, then assign), append usage, list, reset | called by every handler goroutine at once |
| SQLite store, `internal/store/sqlite.go` | three tables in a file | one SQL statement each; reset is three | survives the process; a statement may fail |
| write handlers, `internal/httpapi` | none but their locals | decode, check, call a use case, count, answer | use cases, metrics |
| invoice handler, `invoice.go` | locals; the gauge per subscriber | five reads, `billing.Rate`, gauge, carrier lookup | store, billing, metrics, carrier |
| billing | none (a function) | aggregate, overage, total | called by the invoice handler |
| pagination, `httperror.go`, `service.go`, stores | none | clamp, offset, cut | the client walks, the table grows meanwhile |
| middleware, router, auth, `internal/httpapi`, `internal/auth` | in-flight gauge, request counters, access log, a response recorder per layer | request id, log, recover, CORS, mux, metrics, key check | wraps every handler, and what net/http does before and after it |
| webhook client, `internal/webhook` | none | one POST with a timeout | called by the registration's handler; the receiver is outside |
| server lifecycle, `cmd/server` | the listener, the signal, what run returns | start, serve, drain with a deadline, flush, exit | ends every goroutine; loses everything in memory |
| load generator, `cmd/loadgen` | five outcome counters, a pool of ids | seed, workers on one ticker, progress lines, stop at the deadline | a client of the service |
| config, tracing, logging | none that evolves | once per process | not modelled |

What is hard here, and what makes each part correct:

* **Concurrency without locks.** `net/http` runs every request in a goroutine
  of its own. `idCounter++` is not atomic, the memory maps have no mutex, and a
  use case is several store calls that other requests come between: the plan
  or the subscriber that was checked, the row that was read, may not be what is
  there when the write happens. Correct would be: creates are never lost,
  never share a key, never refer to what does not exist; a status only moves
  along the transition table.
* **Two life spans.** The counter dies with the process, the SQLite file does
  not. Correct would be: fresh identifiers are fresh.
* **Failure half way.** Reset is three statements without a transaction; a
  statement may fail before or after it took effect; the process may die
  anywhere. Correct would be: no dangling row, no create counted that is not
  stored.
* **An invoice is not a snapshot.** It reads the same month's usage three
  times, keeps one kind each time, and the month may end meanwhile. Correct
  would be: every record billed once, and the total between what the first
  read could see and what is there at the end, but for records that a reset or,
  in memory, another append took out.
* **A response is written once.** The recover layer sits outside the metrics
  layer, so a panic unwinds through deferred calls before anybody answers it,
  perhaps after half a response was sent. Correct would be: one status per
  request, a gauge that returns to zero, a log line and a count per answer.
* **The end of the process** races everything: a listener that fails, a signal
  before the listener is bound, a request on an open connection during the
  drain, handlers that outlive its deadline. Correct would be: the process
  ends, and says 0 only when nothing was cut off.
* **Counts without a lock.** The load generator counts a request in two atomic
  steps and prints five separate loads; an answer may be lost, late or cut
  off after the server did the work. Correct would be: the last line adds up, and
  no id is used that the server did not give.
* **Numbers.** Amounts are `int64` products with no overflow check; offsets
  are shifted by one; limits are clamped without telling the client.

`PROJECT.json` lists each hazard at its line with the properties aimed at it.

## Modules

| module | models | notes |
|---|---|---|
| `SubscriberDomain` | statuses, `allowedTransitions`, rows, keys, `httpStatusForError` | the shared vocabulary |
| `StoreContract` | what a `subscriber.Store` promises | abstract specification: one row at a time, keys free, updates in place, whole-table wipes; one theorem |
| `SubscriberService` | the write handlers, the use cases and both stores | the core; `Contract == INSTANCE StoreContract` |
| `MCSubscriberService` | requests for TLC | |
| `SubscriberService_proofs` | type invariant; why generated ids collide | the lemmas the other proofs use |
| `SubscriberStore_proofs` | with SQLite: durability and uniqueness of creates, the refinement of `StoreContract`, the creation counters | |
| `SubscriberSerial_proofs` | with either backend: no dangling reference until a reset; references and creates of requests served one at a time; what makes a subscriber move against the transition table | |
| `Billing` | `billing.Rate` | int64 of any width |
| `Invoicing` | `GET .../invoice` amid usage, month ends and resets | composes `Billing` |
| `MCInvoicing`, `Invoicing_proofs` | its instance, its theorems | lists, folds and wrapping arithmetic are proved there as well |
| `Pagination`, `Pagination_proofs` | `GET /v1/plans`, `GET /v1/subscribers` page by page | |
| `HttpContract` | what the server promises the clients behind its connections | abstract specification: one status per request, and a clean stop with none in hand |
| `HttpServer` | the middleware chain, the webhook call, the life of the process | `Contract == INSTANCE HttpContract` |
| `MCHttpServer`, `HttpServer_proofs` | its instance, its theorems | |
| `LoadGen` | `cmd/loadgen` | the server is the set of answers a request may meet |
| `MCLoadGen`, `LoadGen_proofs` | its instance, its theorems | |

### How SubscriberService corresponds to the code

A worker is a goroutine with one request in hand: `pc` is where it is, `call`
its request, `num` and `copy` its locals. One action is the code between two
accesses to shared memory.

| code | actions |
|---|---|
| decoding and field checks of the handlers, and of `CreatePlan` | `Refuse` (400 at once), `Arrive` |
| `handleCreateSubscriber` line 65, and the checks of `Service.CreateSubscriber` | `CheckPlan` |
| `Service.AddUsage` line 172 | `CheckSubscriber` |
| `Service.ChangeStatus` lines 147-163 | `ReadStatus` |
| `nextID` | `NextIDLoad`, `NextIDStore`, `NextIDRead` |
| `CreatePlan`, `CreateSubscriber`, `AddUsage` of the stores | actions of those names; `RefuseDuplicate` for a taken primary key; in memory, usage is `LoadUsage` then `AppendUsage` (or `AppendDetached`, into a map that a reset has replaced) |
| `UpdateSubscriber` of the stores | `UpdateMissing`, `UpdateSubscriber` (SQLite), `UpdateChecked` then `UpdateAssign` (memory) |
| the counters and the 201 | `Reply` |
| `handleAdminReset` and `Reset` | `Wipe`, one table at a time in the store's order; it returns after the last, or early when a `DELETE` that took effect is reported failed |
| an error of a statement | `FailStatement`: before the effect, or after an insert took effect; `UpdateSubscriber` and `Wipe` have their own failures after the effect |
| the process ends and starts again | `Restart` |

An undefined outcome is a choice: an unsynchronised `idCounter++` is a load, a
store and a read that may see either value. The Go runtime ends a process
that it catches in concurrent map accesses; `Restart` may happen at any
step and covers it. A payload (name, price, MSISDN) is abstracted to `by`, the
serial number of the request it came with, which is what tells two rows apart.

A request arrives with its body read. Reading it may take for ever, as no
`ReadTimeout` is set (`main.go:85-90`); the handler touches nothing shared
before, so for the properties here such a request has not arrived yet, and no
claim is made that requests are answered.

`promised`, `carried`, `stale` and `events` are history: rows a create stored
(removed when the table is wiped), keys found at start, the PATCHes whose row was
rewritten since they read it, and whether requests ever overlapped, raced on the
counter or reset. No action reads them.

### Billing, Invoicing, Pagination

`Billing` keeps the arithmetic of `Rate` in an integer of `2 * Half` values. The
service rates whole calendar months only, so `Rate`'s proration is left out.
The second in-period check of `Rate` repeats the store's and is left out; the
`int32` conversion of data amounts has no effect on the result in the code and
none here. `Invoicing` runs the handler read by read. The timestamp of a
record is the client's, so records of next month exist before it begins. A record
is one `INSERT` in SQLite (`AddUsage`); in memory the slice is read (`LoadSlice`)
and put back with the record (`PutBack`), which takes out what was stored in
between. `past.gone` is the history of records taken out, by that or by a reset.
A failed carrier lookup is counted and the invoice answered 200, although
`carrier.go:9-10` says the invoice path surfaces it as a 502: `CarrierLookup` is what
the code does.
`Pagination` represents a row by its rank in the order of ids (`sub_10` sorts
before `sub_2`), so a new row may appear anywhere.

### How HttpServer corresponds to the code

A connection has one goroutine of net/http: `pc` is where it rests (`closed`,
`new`, `idle`) or which layer has it. `sr[c]` are the three `statusRecorder`s a
response passes through, `told[c]` is what net/http sent. A handler is what it
writes and how it ends: it answers with a status of its route's, panics before
or after it began to, or never returns.

| code | actions |
|---|---|
| net/http (external): accept, idle connections, end of a response | `Accept`, `Hangup`, `Receive`, `Finish` |
| `cors`, the mux without a pattern | `Unrouted`: answered outside the metrics layer |
| `metrics` | `IncInFlight`, `Observe`, `DecInFlight` (deferred, on a panic too) |
| `APIKeyMiddleware` | `Unauthorized` |
| a handler | `Respond`, `Return`, `Panic` |
| `handleRegisterWebhook`, `Client.Notify` | `Notify`, `ReceiverHandles`, `ReceiverAnswers`, `NotifyFails` |
| `recover`, `logging` | `Recover`, `Log` |
| `run`: tracer, store, goroutine, select | `Start`, `Bind`, `SelectServeErr`, `SelectSignal`, `AcceptFails`, `Signal` |
| `srv.Shutdown` with its context | `DrainPoll`, `DrainDeadline` |
| the deferred flush and the exit; a signal with no handler registered | `Flush`, `SignalKills` |

`received`, `answered` and `unmetered` are history; only the bound reads the
first. What the model shows about the code besides its properties:

* A request that panics, a preflight and an unknown path are not in
  `vois_http_requests_total`, although `metrics.go:30` calls it the total of
  HTTP requests: `RequestsAccounted` says exactly what is missing.
* When a listen error and a signal are both there, the select may take the
  signal, and then nobody reads the error: the process may end with 0 although
  its listener had failed.
* A webhook may be delivered and its registration still answered 502, when the
  receiver is slower than the client's timeout.

### How LoadGen corresponds to the code

| code | actions |
|---|---|
| `run` | `SeedPlan`, `GiveUp`, `SeedSubscriber`, `StartWorkers`, `AwaitEnd`, `Done` |
| `runWorker` and the four actions of its mix | `Work`, `Idle` (an empty pool uses up the tick), `Stop` |
| `httpClient.do` | `Ask`, then `Refused` (the context is done) or `Answered` |
| `stats.record` | the total in `Refused` and `Answered`, the outcome in `Record` |
| the ids of created plans, `subscriberPool.add` | `Keep` |
| the progress goroutine, `stats.String` | `PrinterWakes`, `PrinterLoads` (one counter at a time), `PrinterPrints`, `PrinterStops` |

The server is `Answers`: whether it handled the request, which outcome the
client counts, whether it decoded an id. `asked`, `granted` and `line.missing`
are history. Two comments of the code are not what it does: `main.go:77` of
`cmd/loadgen` counts as errored what is not decodable, but lines 150-151
ignore a decoding error and count the request by its status; and `default:` of
`record` puts a 1xx or 3xx with the server errors.

## Runs

| run | instance | shows |
|---|---|---|
| `sqlite_concurrent` | 2 goroutines, 5 requests of 10 kinds, 1 restart, failing statements | creates are durable and unique, the tables follow `StoreContract`; a collision has one of two explanations, a move against the transition table has one; until a reset nothing dangles; one at a time, references are right even when a reset fails half way; counters never exceed rows |
| `memory_concurrent` | 2 goroutines, 5 requests, 1 restart | what is left without a mutex, and what holds one at a time |
| `invoice_reads` | either store, 2 goroutines, 2 invoices, 2 records out of 8 kinds, 2 months, 1 reset, 4-bit integers | each record billed once; the bill lies between what was there at the first read, less what a reset or another append took out, and what has been stored; lines add up; without overlap, month end or lost record the gauge never falls |
| `page_walk` | 6 ids, pages up to 2, limits 0 to 3 | a walk misses no row that was there when it began, and has no gap |
| `http_server` | 2 connections, 2 requests of 6 routes, with or without the key, signals and failures at any time, fair | the server implements `HttpContract`; gauge, counter and log agree with what clients were told; a clean stop is quiet; a signal ends the process; a registration is answered |
| `load_gen` | 2 workers, 1 plan and 1 subscriber seeded, 2 requests more, 5 answers, fair | counters add up, also in the last line; a progress line misses little; only granted ids are used; the run ends |

Violations, each of a sentence in the code or its docs:

| run | sentence | what happens |
|---|---|---|
| `status_race` | service.go:145 | two PATCH requests, and a subscriber moves terminated to suspended |
| `reactivation` | SCENARIOS.md:60 | two PATCH requests, one after the other: terminated, then active again |
| `counter_race` | service.go:10 | the counter goes back |
| `usage_race` | service.go:170 | two appends in memory, one record lost |
| `restart_reuse` | service.go:69 | after a restart a valid plan is refused, its generated key is taken |
| `page_overlap` | service.go:89, 137 | two pages of an unchanged table share a row |

**Bounds.** `MaxRequests`, `MaxRestarts`, `MaxRecords`, `MaxMonth`,
`MaxInvoices`, `MaxOffset` cap what clients and the clock do; no handler is cut
short. Five requests, with either store, are a plan, a subscriber, its usage and
two that interfere (two PATCHes, or a create and a reset), with a restart
anywhere. Two goroutines
suffice for every race between a read and a write; a third would matter for
losing one PATCH under two others, which shows nothing new while status is the
only column that changes. `MaxOffset` 9 is beyond any offset a walk of six rows
can reach (at most six rows precede an empty page, plus the largest stride of 3).
Four-bit integers make one record of 7 overflow an amount; the voice clamp is 2.
Two records are enough for one append in memory to lose the other's, and two
invoices for the second to be less than the first.
In `http_server` two connections are two requests at once, or one after the other on
a connection kept alive, and either of them new while the process drains; the
properties relate one connection to the process or to a shared count, so a third
would add nothing. `load_gen` seeds one plan and one subscriber where the code seeds
three and five, and reads twice where the code reads three times (`NPlans`,
`NSubs`, `Reads`): each loop still has a first, a last and a failing turn. Two
requests more are one by each worker at once, or one action of several. The five
answers are the sorts a client tells apart, and one handled request whose
answer is an error. Goroutines are symmetric, and symmetry is used only where no
liveness is checked.

**Fairness.** Only `HttpServer` and `LoadGen` claim that something happens. The
service's requests need not be answered (a body may never come), and a walk need
not end while rows are created as fast as its pages are read: with page size 1
and a new last row per page it goes on for ever, which a finite set of ids hides.

In `HttpServer` the scheduler runs the chain and the main goroutine, and timers
fire: the webhook client's timeout, the drain's deadline, the flush's. A handler
may run for ever, and clients, receivers and signals owe nothing: `SignalStops`
holds all the same, by the deadline. In `LoadGen` the goroutines run, a request
ends (a client timeout is set, and the context ends every request), and the
context ends because `parseFlags` refuses a duration that is not positive. `Stop`
needs strong fairness: while ticks arrive, the worker's select is ready for both,
and leaves the state in which it could stop each time it takes a tick. Go's
select picks a ready case at random, so it stops in the end; with weak fairness TLC
finds a run that never ends.

## Proofs

Every safety property that a passing run checks, invariant or action property,
and both refinements, are theorems. They hold for any value of the constants
under the named assumptions of the modules, which say what values constants may
have and nothing about behaviour; what a theorem asks beyond that stands in its
statement. Each invariant that was not inductive was strengthened, and the
strengthening checked by TLC on the run's instance before it was proved.

**The service** (`BackendAssumption`, `RequestsAssumption`, `BoundsAssumption`).

* `TypeCorrect`. `TypeOK` is not inductive: that a PATCH writes back a row of
  the right type needs to know what `copy` holds. `TypeInv` adds `FlowOK` (which
  use case can be at which step) and `CopyOK` (a PATCH about to write holds
  exactly one row, under the id in its path; an append holds usage records).
* `CollisionsAreExplained`. Until two goroutines were inside `nextID` at once,
  `NumbersInv` keeps account of the numbers drawn: one goroutine is inside, the
  counter is not below any number drawn or in a key, and no number is in two
  hands. Keys that came with the file are set aside by `carried`.
* `CreatesAreDurable`, `CreatesAreUnique` (SQLite). Each half needs the other:
  a second create under a key is refused because the first is still there, and
  the first is still there because nothing was stored over it. So `Durable` is
  their conjunction, with `TypeInv` for what a PATCH writes back.
* `ServiceImplementsContract` (SQLite): every step maps to a step of
  `StoreContract` or to a stutter. That `UPDATE` replaces one row needs unique
  keys, and those come from the contract itself (`NextKeysUnique`), carried along
  in the same induction. `ContractKeepsKeys` says so of any store that keeps the
  contract.
* `MetricsAreBacked` (SQLite). `MetricsInv` gives each create that is counted, or
  stored and about to be (`Replying`), a row of its own among those this process
  added; a row stored and reported as failed only makes the rows more.
* `NothingDangles` (both backends). The inductive part, `Holds(w)`, says what a
  goroutine relies on between its check and its write: the row it will refer
  to exists, the usage it will put back is its subscriber's, the subscriber it
  will write back names a plan that exists. It is kept because keys only come
  (`Growing`) until a reset; only the goroutine that moves has to be looked at.
* `MovesAreExplained` (both backends). A PATCH is `stale` once another has rewritten
  its row. `MovesInv` says that the copy of any other PATCH was judged on the
  row as it still is (`CopyJudged`), if the row is still there. That needs a
  subscriber to be told from a later one under the same key, which races and
  restarts allow: each is known by the serial of the request that made it, and one
  still to be inserted is not in the table nor in any copy (`FreshOK`).
* `SerialReferencesHold`, `SerialCreatesAreDurable` (both backends). While requests
  did not overlap, `SerialInv` says what the one
  goroutine at work relies on: its copy is still the store's, a reset under way
  has emptied the tables it went through, a subscriber to be created is newer
  than all there are. With it `Holds` survives a reset too, except in the middle
  of one of the maps (`Calm`), where SQLite's order of tables is safe and
  memory's is not. In memory creates are not lost because nothing comes from an
  earlier process and the numbers are fresh by `NumbersInv`.

**The invoice** (`WidthAssumption`, `PlanAssumption`, `StoreAssumption`,
`LimitAssumption`), for any plan, usage, width of the integers and clamp.

* `RecordsBilledOnce`, `InvoicesMissNothing`. `ReadsInv` says what a goroutine has
  gathered at each step: a list, each record once, of the period and the kinds
  listed so far, and among them all of those kinds that its first read could
  see and that were not taken out. In memory a slice under way holds what was
  stored when it was read, less what is gone (`StoredOK`), so what a put-back
  drops is recorded as gone and nothing disappears otherwise (`Growing`).
  Records are told apart by their arrival, so the listing in that order
  exists and has each once (`ArrivalLists`), and the lists of two kinds have
  nothing in common (`ListsJoin`).
* `TypeCorrect`, with `AmountsOK` beside `ReadsInv`: that a total is an int64 needs
  every aggregate, accumulated over any list, to be one.
* `InvoiceAddsUp`: the lines add up to the total, because base prices fit and both
  sums wrap alike.
* `TotalsAreExact`. An aggregate that wraps at each record is the exact sum
  wrapped once (`WrapAdds`, `WrapMultiplies`), in whatever order the records come
  (`SumTakes`: any record may be taken out of a sum first). So an amount is exact
  when the exact one fits, and more usage never costs less (`ExactGrows`). The last
  needs `Charges`, no line of the plan gives money back: the code does not refuse
  a negative price per unit, and with one the property is false.
* `GaugeNeverFalls`. `OneByOne` and `GaugeOK` carry the amount from one invoice to the
  next: the gauge is at most the price of what is stored, and at most the price of
  what an invoice under way could see at its first read. It asks for `Charges` and a
  price that is not negative, since the gauge starts at 0.

The proof system cannot instantiate the library's induction theorems, which take
an operator. Induction is done on sets instead: `NatSets` proves from the
well-foundedness of `<` that a set with 0, and with n + 1 for each n in it, has all
of Nat; the set is that of the numbers for which the claim holds. From it come
`FoldExists` and `FoldUnique`, by the size of the sets, which say what the folds of the
community modules compute, and `MaxInSet` for the order in which `FoldLeft` takes
the elements. `ByArrival` is defined by what it returns, a list in order of arrival,
because the library's sort by comparison cannot be expanded by the prover.

**Pagination** (`PageAssumption`), for any finite set of ids.

* `TypeCorrect`; `WalkMissesNothing` and `WalkLeavesNoGap`, from `WalkInv`. Its core,
  `Covered`, counts: a row that was there at the start and now has a rank below where the
  next page begins has been seen. The rows of a table have the ranks 0, 1, 2 ..., one
  each, a page is an interval of them, and a row that is created only pushes others
  back. It holds for a client that does not stride by more than a page has
  (`Proper`), which is the one `NoneMissed` speaks of.

**The server** (`HttpAssumption`: a finite set of connections, requests of the right
type), for any number of both.

* `CleanStopsAreQuiet`, `ServerImplementsContract`. `ServerInv` is `LifeOK` (what each
  stage of the process says of its listener and, before it runs and after a
  clean stop, of its connections) and `WireOK` (at each step of the chain, what the
  client has been told, and that the recorders of the layers still to come
  know it). Neither property is inductive: that recover never answers a second time
  depends on its recorder having seen what the handler sent. The refinement maps
  a request in hand to `open`, `told` to `status`, the process and its exit
  code to `server`; all of the drain is a stutter but its last step.
* `GaugeCountsRequests`, `LogHasEveryAnswer`, `CounterMissesOnlyUnmetered`. Each says that
  a counter is the size of a set of connections plus what has left it. One
  lemma (`OneMoves`, `ClassMoves`) says what a move of one connection does to such
  a size; the proof then looks at the steps that count, and all others are
  `QuietSteps`.
* `TypeCorrect`.

**The load generator** (`LoadAssumption`: finitely many workers, answers that tell the
truth about a decoded id), for any number of workers, seeds, reads and answers.

* `CountersAddUp`, `IdsAreGranted`, `LinesMissLittle`, `LastLineAddsUp`, `TypeCorrect`, from
  one invariant `LoadInv`. `Calls` says that an id in hand was granted, `Phases` that no
  worker runs before the seeding is over, `LineOK` that a half-loaded line and
  the counters it has still to load together miss little: those counters only
  grow, which is why the order of the loads in `String` matters. `AllMade` is for the
  last line: the requests asked for are those in the total and those outstanding,
  counted as pairs of a goroutine and a number, so that no sum is needed.

**Only model-checked**: liveness, since fairness and `ENABLED` are out of the proof
system's reach: `SignalStops`, `RegistrationEnds`, `RunEnds`.
The runs that end in a violation prove nothing more than that.

## Not modelled

* SQLite's comparison of timestamps as text (`sqlite.go:231`): it depends on
  the driver's formatting, which is not in the repository. The model compares
  the months themselves.
* Proration (`billing.go:35-50`, in `float64`): the period is always a whole month.
* That the slices of two appends in memory may share their backing array, so that
  a lost record's cell is overwritten under a reader: a record is lost or kept as a
  whole here.
* How long a request's body takes to come.
* The search filter of listings: it is fixed for a row, so a row of the model
  is one that matches.
* Configuration, tracing, logging: set up once, nothing depends on what they
  write. That the tracer may fail and is flushed at the end is in `HttpServer`.
* How the API key is parsed and compared, and `GenerateToken`, which the service
  never calls; the command of ping, the file of export. `DELETE` of a
  subscriber and the change of plan answer 501.
* `HttpServer` does not contain `SubscriberService`: a handler is any handler, so
  its properties hold for whatever the use cases do, and those of the use cases
  allow the process to end at any step.
* `Client.Notify` does not close the response's body: the connections this leaves
  open belong to net/http's transport, which has no bound here.
* Negative allowances or prices per unit are accepted by the service and allowed
  by `Billing!Plan`; the instance uses ordinary ones.

## Plan

Every part of the system with state of its own has its module, and every safety
property of the passing runs its theorem. What could be added:

1. Liveness for any constants, by hand: the measures are clear (the steps left of a
   shutdown, the requests left of a worker), the rule that
   turns them into a proof is not available.
2. Reads (`GET` by id, lists) against `SubscriberService`, if a property relates
   them to the writes that the invoice does not already cover.
