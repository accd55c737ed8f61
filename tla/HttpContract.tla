---- MODULE HttpContract ----
(***************************************************************************)
(* What the HTTP server promises the clients behind its connections, with  *)
(* no middleware, recorder or drain in sight: a request is answered with   *)
(* one status, never with none and never with two, and a server that stops *)
(* cleanly leaves no request in hand.  HttpServer implements it.           *)
(***************************************************************************)
EXTENDS Naturals

CONSTANTS Conns, Codes

VARIABLES
    open,       \* connections with a request in hand
    status,     \* of each, the status of the response begun, or 0
    server      \* "up", "stopped" (cleanly) or "killed"

exchange == <<open, status, server>>

Silent == [c \in Conns |-> 0]

Init == open = {} /\ status = Silent /\ server = "up"

Ask(c) ==
    /\ server = "up" /\ c \notin open
    /\ open' = open \cup {c}
    /\ UNCHANGED <<status, server>>

Begin(c) ==
    /\ server = "up" /\ c \in open
    /\ status[c] = 0
    /\ \E code \in Codes : status' = [status EXCEPT ![c] = code]
    /\ UNCHANGED <<open, server>>

\* The response ends; if its handler panicked, possibly before all of the body.
Complete(c) ==
    /\ server = "up" /\ c \in open
    /\ status[c] \in Codes
    /\ open' = open \ {c}
    /\ status' = [status EXCEPT ![c] = 0]
    /\ UNCHANGED server

Stop ==
    /\ server = "up" /\ open = {}
    /\ server' = "stopped"
    /\ UNCHANGED <<open, status>>

\* The process ends with an error, and whatever was in hand with it.
Kill ==
    /\ server = "up"
    /\ server' = "killed"
    /\ open' = {} /\ status' = Silent

Next ==
    \/ \E c \in Conns : Ask(c) \/ Begin(c) \/ Complete(c)
    \/ Stop
    \/ Kill

Spec == Init /\ [][Next]_exchange

====
