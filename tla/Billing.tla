---- MODULE Billing ----
(***************************************************************************)
(* billing.Rate as arithmetic: allowances, overage lines and the int64     *)
(* they are computed in.  Half is 2^63 in the program and the clamp        *)
(* VoiceCap is 10^9; both are constants here so that small instances reach *)
(* them.  The period is a whole calendar month, the only one the service   *)
(* rates, so the base price is not prorated.  The descriptions of the      *)
(* lines are left out, and a line the code omits is one of 0 cents.        *)
(***************************************************************************)
EXTENDS Integers, Sequences, SequencesExt

CONSTANTS
    Half,           \* an int64 is in -Half .. Half - 1
    VoiceCap        \* the most minutes one voice record counts for

ASSUME WidthAssumption == Half \in Nat \ {0} /\ VoiceCap \in 0 .. Half - 1

Int64 == -Half .. Half - 1

\* What the program's + - * leave of a result that does not fit.
Wrap(n) == ((n + Half) % (2 * Half)) - Half

Kind == {"voice", "data", "sms"}

Plan == [price : Int64, included : [Kind -> Int64], overage : [Kind -> Int64]]

----
\* What a record adds to its aggregate: nothing unless it is positive, and
\* for voice no more than the clamp.
Counts(u) ==
    IF u.qty <= 0 THEN 0
    ELSE IF u.kind = "voice" /\ u.qty >= VoiceCap THEN VoiceCap
    ELSE u.qty

\* Mutant: the last record replaces the sum.
AggregateLast(kind, records) ==
    FoldLeft(LAMBDA sum, u : IF u.kind = kind THEN Counts(u) ELSE sum, 0, records)

\* The aggregate of a kind, accumulated in an int64.
Aggregate(kind, records) ==
    FoldLeft(LAMBDA sum, u : IF u.kind = kind THEN Wrap(sum + Counts(u)) ELSE sum,
             0, records)

\* (aggregate - included) * price per unit, when over the allowance.
Overage(total, included, cents) ==
    IF total > included THEN Wrap(Wrap(total - included) * cents) ELSE 0

\* Mutant: the sms line is shown and not charged.
TotalNoSms(base, voice, data, sms) == Wrap(Wrap(base + voice) + data)

\* The running total, in the order the lines are added.
Total(base, voice, data, sms) == Wrap(Wrap(Wrap(base + voice) + data) + sms)

RateLines(plan, sums) ==
    LET line == [k \in Kind |-> Overage(sums[k], plan.included[k], plan.overage[k])]
    IN  [base |-> plan.price, lines |-> line,
         total |-> Total(plan.price, line["voice"], line["data"], line["sms"])]

\* Rate, on the records of the period.
Rate(plan, records) == RateLines(plan, [k \in Kind |-> Aggregate(k, records)])

----
\* billing_test.go adds the lines up, in an int64 too, and expects the total.
SumOfLines(invoice) ==
    LET l == invoice.lines IN
    Wrap(Wrap(Wrap(Wrap(0 + invoice.base) + l["voice"]) + l["data"]) + l["sms"])

\* What the invoice comes to in arithmetic that never overflows.
ExactTotal(plan, sums) ==
    LET over(k) == IF sums[k] > plan.included[k]
                   THEN (sums[k] - plan.included[k]) * plan.overage[k] ELSE 0
    IN  plan.price + over("voice") + over("data") + over("sms")

====
