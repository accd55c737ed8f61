---- MODULE Invoicing ----
(***************************************************************************)
(* GET /v1/subscribers/{id}/invoice (internal/httpapi/invoice.go): five    *)
(* reads of the store, one after the other, then the rating, the gauge and *)
(* the carrier lookup, while usage arrives, months end and a reset empties *)
(* the tables.  One subscriber on one plan; Billing rates the records.     *)
(***************************************************************************)
EXTENDS Billing, FiniteSets

CONSTANTS
    Workers,        \* goroutines computing invoices
    Backends,       \* the STORE settings a server may be started with
    ThePlan,        \* the subscriber's plan
    Reports,        \* the usage clients report: kind, quantity, month
    CarrierMayFail, \* CARRIER_FAILURE_RATE > 0
    MaxRecords,     \* bound: usage records ever added
    MaxMonth,       \* bound: months that pass
    MaxInvoices     \* bound: invoices asked for

\* The timestamp of a record is the client's: any month, past or future.
Report == [kind : Kind, qty : Int64, month : Nat]

ASSUME PlanAssumption  == ThePlan \in Plan /\ Reports \subseteq Report
ASSUME StoreAssumption == Backends \subseteq {"sqlite", "memory"} /\ CarrierMayFail \in BOOLEAN
ASSUME LimitAssumption == MaxRecords \in Nat /\ MaxMonth \in Nat \ {0} /\ MaxInvoices \in Nat

VARIABLES
    backend,        \* the store of this server
    now,            \* the month of time.Now()
    usage,          \* the subscriber's usage records, n in order of arrival
    known,          \* which of the subscriber's and the plan's row exist
    wiping,         \* tables a reset under way still has to empty
    pending,        \* memory: appends under way, [row, slice] each
    added, asked,   \* counts the bounds apply to
    pc, period, gathered, invoice, resp,    \* the goroutines' locals
    gauge,          \* vois_billing_amount_cents of this subscriber
    runs, errors,   \* vois_billing_runs_total, vois_billing_errors_total
    floor,          \* history: what an invoice's first read could see
    past            \* history: records ever stored, those taken out again;
                    \* whether invoices overlapped, whether there was a reset

store  == <<backend, usage, known, wiping, pending, added>>
locals == <<pc, period, gathered, invoice, resp, floor>>
counts == <<runs, errors>>
vars   == <<now, store, asked, locals, gauge, counts, past>>

Record == [n : Nat, kind : Kind, qty : Int64, month : Nat]

\* Mutant: the loop leaves the last kind out.
usageKindsShort == [voice |-> "data", data |-> "rate", sms |-> "rate"]

\* usageKinds, in order: each round of the loop and what follows it.
usageKinds == [voice |-> "data", data |-> "sms", sms |-> "rate"]

Step == {"idle", "subscriber", "plan", "rate", "gauge", "carrier"} \cup Kind

NoInvoice == [base |-> 0, lines |-> [k \in Kind |-> 0], total |-> 0]

Init ==
    /\ backend \in Backends
    /\ now = 1
    /\ usage = {} /\ known = {"subscribers", "plans"} /\ wiping = <<>>
    /\ pending = {} /\ added = 0 /\ asked = 0
    /\ pc = [w \in Workers |-> "idle"]
    /\ period = [w \in Workers |-> 0]
    /\ gathered = [w \in Workers |-> <<>>]
    /\ invoice = [w \in Workers |-> NoInvoice]
    /\ resp = [w \in Workers |-> 0]
    /\ gauge = 0 /\ runs = 0 /\ errors = 0
    /\ floor = [w \in Workers |-> {}]
    /\ past = [stored |-> {}, gone |-> {}, overlap |-> FALSE, reset |-> FALSE]

----
\* The rest of the program, as an invoice sees it.

NewRecord(r) == [n |-> added, kind |-> r.kind, qty |-> r.qty, month |-> r.month]

\* SQLiteStore.AddUsage: one INSERT.
AddUsage ==
    /\ backend = "sqlite"
    /\ added < MaxRecords
    /\ added' = added + 1
    /\ \E r \in Reports :
           /\ usage' = usage \cup {NewRecord(r)}
           /\ past' = [past EXCEPT !.stored = @ \cup {NewRecord(r)}]
    /\ UNCHANGED <<backend, now, known, wiping, pending, asked, locals, gauge, counts>>

\* MemoryStore.AddUsage: the subscriber's slice is read ...
LoadSlice ==
    /\ backend = "memory"
    /\ added < MaxRecords
    /\ added' = added + 1
    /\ \E r \in Reports :
           pending' = pending \cup {[row |-> NewRecord(r), slice |-> usage]}
    /\ UNCHANGED <<backend, now, usage, known, wiping, asked, locals, gauge, counts, past>>

\* ... and put back with the record appended, without what other goroutines
\* have stored meanwhile.
PutBack ==
    /\ \E p \in pending :
           /\ pending' = pending \ {p}
           /\ usage' = p.slice \cup {p.row}
           /\ past' = [past EXCEPT !.stored = @ \cup {p.row},
                                  !.gone = @ \cup (usage \ usage')]
    /\ UNCHANGED <<backend, now, known, wiping, added, asked, locals, gauge, counts>>

MonthEnds ==
    /\ now < MaxMonth
    /\ now' = now + 1
    /\ UNCHANGED <<store, asked, locals, gauge, counts, past>>

\* A reset begins, and empties the tables in the store's order.
ResetBegins ==
    /\ wiping = <<>> /\ ~past.reset
    /\ wiping' = IF backend = "sqlite" THEN <<"usage", "subscribers", "plans">>
                                       ELSE <<"plans", "subscribers", "usage">>
    /\ past' = [past EXCEPT !.reset = TRUE]
    /\ UNCHANGED <<backend, now, usage, known, pending, added, asked, locals, gauge, counts>>

\* In memory a table is wiped by a new map: appends under way end in the old.
ResetWipes ==
    /\ wiping # <<>>
    /\ \/ /\ Head(wiping) = "usage"
          /\ usage' = {} /\ pending' = {}
          /\ past' = [past EXCEPT !.gone = @ \cup usage]
       \/ /\ Head(wiping) # "usage"
          /\ UNCHANGED <<usage, pending, past>>
    /\ known' = known \ {Head(wiping)}
    /\ wiping' = Tail(wiping)
    /\ UNCHANGED <<backend, now, added, asked, locals, gauge, counts>>

----
Goto(w, step) == pc' = [pc EXCEPT ![w] = step]

Answer(w, code) ==
    /\ Goto(w, "idle")
    /\ resp' = [resp EXCEPT ![w] = code]
    /\ period' = [period EXCEPT ![w] = 0]
    /\ gathered' = [gathered EXCEPT ![w] = <<>>]
    /\ invoice' = [invoice EXCEPT ![w] = NoInvoice]
    /\ floor' = [floor EXCEPT ![w] = {}]

Ask(w) ==
    /\ pc[w] = "idle"
    /\ asked < MaxInvoices
    /\ asked' = asked + 1
    /\ Goto(w, "subscriber")
    /\ resp' = [resp EXCEPT ![w] = 0]
    /\ past' = [past EXCEPT !.overlap = @ \/ \E v \in Workers \ {w} : pc[v] # "idle"]
    /\ UNCHANGED <<now, store, period, gathered, invoice, floor, gauge, counts>>

GetSubscriber(w) ==
    /\ pc[w] = "subscriber"
    /\ \/ /\ "subscribers" \notin known
          /\ Answer(w, 404)
       \/ /\ "subscribers" \in known
          /\ Goto(w, "plan")
          /\ UNCHANGED <<period, gathered, invoice, resp, floor>>
    /\ UNCHANGED <<now, store, asked, gauge, counts, past>>

\* Mutant: the period is the month after the present one.
GetPlanNextMonth(w) ==
    /\ pc[w] = "plan"
    /\ "plans" \in known
    /\ Goto(w, "voice")
    /\ period' = [period EXCEPT ![w] = now + 1]
    /\ UNCHANGED <<gathered, invoice, resp, floor>>
    /\ UNCHANGED <<now, store, asked, gauge, counts, past>>

\* The billing period is taken once, after the plan is read.
GetPlan(w) ==
    /\ pc[w] = "plan"
    /\ \/ /\ "plans" \notin known
          /\ Answer(w, 404)
       \/ /\ "plans" \in known
          /\ Goto(w, "voice")
          /\ period' = [period EXCEPT ![w] = now]
          /\ UNCHANGED <<gathered, invoice, resp, floor>>
    /\ UNCHANGED <<now, store, asked, gauge, counts, past>>

\* Store.ListUsage from the start of the period to its end.
InPeriod(rows, month) == {u \in rows : u.month = month}

ByArrival(rows) ==
    CHOOSE list \in [1 .. Cardinality(rows) -> rows] :
        \A i, j \in 1 .. Cardinality(rows) : i < j => list[i].n < list[j].n

\* Mutant: the kind of the records is not compared.
KeepAll(kind, rows) == rows

KeepKind(kind, rows) == {u \in rows : u.kind = kind}

\* One round of the loop over usageKinds: list the period, keep one kind.
ListUsage(w) ==
    /\ pc[w] \in Kind
    /\ LET rows == InPeriod(usage, period[w])
           kept == KeepKind(pc[w], rows)
       IN  /\ gathered' = [gathered EXCEPT ![w] = @ \o ByArrival(kept)]
           /\ floor' = [floor EXCEPT ![w] = IF pc[w] = "voice" THEN rows ELSE @]
    /\ Goto(w, usageKinds[pc[w]])
    /\ UNCHANGED <<now, store, asked, period, invoice, resp, gauge, counts, past>>

\* A read of the SQLite store fails.
FailStatement(w) ==
    /\ backend = "sqlite"
    /\ pc[w] \in {"subscriber", "plan"} \cup Kind
    /\ Answer(w, 500)
    /\ UNCHANGED <<now, store, asked, gauge, counts, past>>

\* The run is counted and the records rated, for a whole calendar month
\* (currentBillingPeriod): the base price is that of the plan.
RateUsage(w) ==
    /\ pc[w] = "rate"
    /\ runs' = runs + 1
    /\ invoice' = [invoice EXCEPT ![w] = Rate(ThePlan, gathered[w])]
    /\ Goto(w, "gauge")
    /\ UNCHANGED <<now, store, asked, period, gathered, resp, floor, gauge, errors, past>>

SetBillingAmount(w) ==
    /\ pc[w] = "gauge"
    /\ gauge' = invoice[w].total
    /\ Goto(w, "carrier")
    /\ UNCHANGED <<now, store, asked, period, gathered, invoice, resp, floor, counts, past>>

\* A failed lookup is counted, and the invoice answered all the same.
CarrierLookup(w) ==
    /\ pc[w] = "carrier"
    /\ errors' \in IF CarrierMayFail THEN {errors, errors + 1} ELSE {errors}
    /\ Answer(w, 200)
    /\ UNCHANGED <<now, store, asked, gauge, runs, past>>

----
Serve(w) ==
    \/ GetSubscriber(w)
    \/ GetPlan(w)
    \/ ListUsage(w)
    \/ RateUsage(w)
    \/ SetBillingAmount(w)
    \/ CarrierLookup(w)

\* The bounds are spent and every invoice is answered.
Quiet ==
    /\ asked = MaxInvoices /\ added = MaxRecords /\ now = MaxMonth
    /\ past.reset /\ wiping = <<>> /\ pending = {}
    /\ \A w \in Workers : pc[w] = "idle"
    /\ UNCHANGED vars

Next ==
    \/ AddUsage
    \/ LoadSlice
    \/ PutBack
    \/ MonthEnds
    \/ ResetBegins
    \/ ResetWipes
    \/ \E w \in Workers :
          \/ Ask(w)
          \/ Serve(w)
          \/ FailStatement(w)
    \/ Quiet

Spec == Init /\ [][Next]_vars

----
\* Every variable keeps its type; amounts are int64.
TypeOK ==
    /\ backend \in Backends
    /\ now \in 1 .. MaxMonth
    /\ usage \subseteq Record
    /\ known \subseteq {"subscribers", "plans"}
    /\ pending \subseteq [row : Record, slice : SUBSET Record]
    /\ added \in 0 .. MaxRecords
    /\ asked \in 0 .. MaxInvoices
    /\ pc \in [Workers -> Step]
    /\ period \in [Workers -> 0 .. MaxMonth]
    /\ \A w \in Workers :
          /\ \A i \in 1 .. Len(gathered[w]) : gathered[w][i] \in Record
          /\ invoice[w].base \in Int64 /\ invoice[w].total \in Int64
          /\ invoice[w].lines \in [Kind -> Int64]
          /\ floor[w] \subseteq Record
    /\ gauge \in Int64
    /\ runs \in Nat /\ errors \in Nat

Rated(w) == pc[w] \in {"rate", "gauge", "carrier"}

\* The three reads of one invoice never bill a record twice.
BilledOnce ==
    \A w \in Workers : \A i, j \in 1 .. Len(gathered[w]) :
        i # j => gathered[w][i] # gathered[w][j]

\* An invoice bills every record of its period that was stored when it began
\* to read, unless a reset or the put-back of an older slice took the record
\* out, and none that was not stored when it finished, although it reads the
\* kinds at different times and the month may end meanwhile.
BilledBetween ==
    \A w \in Workers :
        Rated(w) =>
            LET billed == ToSet(gathered[w]) IN
            /\ floor[w] \subseteq billed \cup past.gone
            /\ billed \subseteq InPeriod(past.stored, period[w])

\* So its total lies between the exact prices of what was there when it began
\* and was not taken out, and of what has been stored by now, unless the int64
\* arithmetic overflowed.
SumsOf(rows) == [k \in Kind |-> MapThenSumSet(Counts, {u \in rows : u.kind = k})]

Fits(rows) ==
    LET exact == ExactTotal(ThePlan, SumsOf(rows)) IN
    exact \in Int64 /\ \A k \in Kind : SumsOf(rows)[k] \in Int64

TotalBetween ==
    \A w \in Workers :
        LET rows == InPeriod(past.stored, period[w]) IN
        pc[w] \in {"gauge", "carrier"} /\ Fits(rows) =>
            /\ ExactTotal(ThePlan, SumsOf(floor[w] \ past.gone)) <= invoice[w].total
            /\ invoice[w].total <= ExactTotal(ThePlan, SumsOf(rows))

\* billing_test.go:117: the lines add up to the total, overflow or not.
LinesAddUp ==
    \A w \in Workers :
        pc[w] \in {"gauge", "carrier"} => invoice[w].total = SumOfLines(invoice[w])

\* While no record is taken out, no month ends and invoices do not overlap, the
\* gauge of a subscriber never falls: a later invoice bills at least as much.
SerialGauge ==
    [][ (/\ past'.gone = {} /\ ~past'.overlap /\ now' = 1
         /\ Fits(InPeriod(past'.stored, 1)))
            => gauge' >= gauge ]_vars

====
