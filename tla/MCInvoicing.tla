---- MODULE MCInvoicing ----
(***************************************************************************)
(* Invoicing on an int64 of a few bits, so that a handful of records runs  *)
(* into the allowance, the voice clamp and the overflow.                   *)
(***************************************************************************)
EXTENDS Invoicing, TLC

SmallPlan == [price    |-> 3,
              included |-> [voice |-> 1, data |-> 2, sms |-> 0],
              overage  |-> [voice |-> 2, data |-> 3, sms |-> 1]]

Said(kind, qty, month) == [kind |-> kind, qty |-> qty, month |-> month]

\* Voice under and over the clamp, a record that counts for nothing, data and
\* sms over their allowance, and records dated next month.
SomeReports ==
    {Said("voice", 1, 1), Said("voice", 3, 1), Said("voice", 3, 2),
     Said("data", -1, 1), Said("data", 3, 1), Said("data", 7, 1),
     Said("sms", 3, 1), Said("sms", 3, 2)}

\* The goroutines are alike.
Interchangeable == Permutations(Workers)

====
