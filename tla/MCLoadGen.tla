---- MODULE MCLoadGen ----
(***************************************************************************)
(* LoadGen with one answer of each sort a client tells apart, and with one *)
(* it cannot: handled, but answered with an error.                         *)
(***************************************************************************)
EXTENDS LoadGen

Meets(handled, result, decoded) ==
    [handled |-> handled, result |-> result, decoded |-> decoded]

FiveAnswers ==
    {Meets(TRUE, "ok", TRUE), Meets(TRUE, "ok", FALSE), Meets(FALSE, "4xx", FALSE),
     Meets(FALSE, "5xx", FALSE), Meets(TRUE, "error", FALSE)}

====
