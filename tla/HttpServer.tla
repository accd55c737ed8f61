---- MODULE HttpServer ----
(***************************************************************************)
(* The process around the handlers: the middleware chain of NewRouter      *)
(* (internal/httpapi/middleware.go, auth.go) run by one goroutine per      *)
(* connection, the webhook call of one handler, and the life of the        *)
(* process in cmd/server: start, serve, drain with a deadline, exit.       *)
(*                                                                         *)
(* A handler is what it writes and how it ends: it begins a response,      *)
(* returns or panics, before or after it began one, or takes for ever.     *)
(* The layers are functions called inside one another; an action is the    *)
(* code between two accesses to what requests share (the wire, the gauge,  *)
(* the counters, the log).  requestID and cors write headers only.         *)
(***************************************************************************)
EXTENDS Integers, FiniteSets

CONSTANTS
    Conns,          \* connections, each served by a goroutine of net/http
    Requests,       \* the requests clients send
    MaxRequests     \* bound: requests that ever arrive

\* "options": CORS preflight; "none": matches no pattern of the mux; "open":
\* a route without auth; "metrics": the Prometheus handler; "authed",
\* "webhook": routes behind the API key.
Route == {"options", "none", "open", "metrics", "authed", "webhook"}

Request == [route : Route, keyOK : BOOLEAN]

ASSUME HttpAssumption ==
    /\ Requests \subseteq Request
    /\ MaxRequests \in Nat
    /\ IsFiniteSet(Conns)

VARIABLES
    life,           \* of the process
    serve,          \* srv.ListenAndServe, and what it sent on serveErr
    inShutdown,     \* srv.Shutdown has been called
    signalled,      \* ctx of NotifyContext is done
    exit,           \* the status the process will end with, or "none"
    pc,             \* each connection, and inside the chain its goroutine
    req,            \* the request in hand
    sr,             \* the statusRecorder of each layer
    told,           \* the status net/http sent for it, 0 for none yet
    got,            \* the webhook's receiver has handled the event
    inFlight,       \* vois_http_in_flight_requests
    requestsTotal,  \* vois_http_requests_total by status label
    accessLog,      \* lines of the access log by status label
    received,
    answered,       \* history: responses ended, by the class of their status
    unmetered       \* history: those that were not routed, or panicked

process == <<life, serve, inShutdown, signalled, exit>>
shared  == <<inFlight, requestsTotal, accessLog>>
history == <<received, answered, unmetered>>
locals  == <<req, sr, told, got>>
vars    == <<process, pc, locals, shared, history>>

Layer == {"logging", "recover", "metrics"}

Class == {"1xx", "2xx", "3xx", "4xx", "5xx"}

Codes == {200, 201, 204, 302, 400, 401, 404, 500, 502, 503}

\* The body of a second response appended to a first.
Garbled == 999

Resting == {"closed", "new", "idle"}

Step == Resting \cup
    {"mux", "handler", "notify", "body", "observe", "dec", "panic", "recover",
     "log", "finish"}

NoRequest == [route |-> "none", keyOK |-> FALSE]

Fresh == [l \in Layer |-> [status |-> 0, wroteHeader |-> FALSE]]

None == [k \in Class |-> 0]

Init ==
    /\ life = "starting" /\ serve = "unstarted" /\ inShutdown = FALSE
    /\ signalled = FALSE /\ exit = "none"
    /\ pc = [c \in Conns |-> "closed"]
    /\ req = [c \in Conns |-> NoRequest]
    /\ sr = [c \in Conns |-> Fresh]
    /\ told = [c \in Conns |-> 0]
    /\ got = [c \in Conns |-> FALSE]
    /\ inFlight = 0 /\ requestsTotal = None /\ accessLog = None
    /\ received = 0 /\ answered = None /\ unmetered = None

----
\* Connections, as net/http keeps them.
Goto(c, step) == pc' = [pc EXCEPT ![c] = step]

Running == life # "exited"

Accept(c) ==
    /\ Running /\ serve = "listening"
    /\ pc[c] = "closed"
    /\ Goto(c, "new")
    /\ UNCHANGED <<process, locals, shared, history>>

\* The client goes away between requests, or ReadHeaderTimeout passes.
Hangup(c) ==
    /\ Running
    /\ pc[c] \in {"new", "idle"}
    /\ Goto(c, "closed")
    /\ UNCHANGED <<process, locals, shared, history>>

\* A request goes through requestID, logging, recover and cors, to the mux.
\* An open connection may bring one while the server drains.
Receive(c) ==
    /\ Running
    /\ pc[c] \in {"new", "idle"}
    /\ received < MaxRequests
    /\ received' = received + 1
    /\ req' \in {[req EXCEPT ![c] = r] : r \in Requests}
    /\ sr' = [sr EXCEPT ![c] = Fresh]
    /\ Goto(c, "mux")
    /\ UNCHANGED <<process, told, got, shared, answered, unmetered>>

----
\* Mutant: Write does not default the status.
WroteOnly(s) == [s EXCEPT !.wroteHeader = TRUE]

\* statusRecorder.WriteHeader and statusRecorder.Write.
Headed(s, code) == [status |-> code, wroteHeader |-> TRUE]

Wrote(s) ==
    [status |-> IF s.status = 0 THEN 200 ELSE s.status, wroteHeader |-> TRUE]

Reach(c, layers, record(_)) ==
    sr' = [sr EXCEPT ![c] = [l \in Layer |->
              IF l \in layers THEN record(sr[c][l]) ELSE sr[c][l]]]

\* A call passes the recorders of the layers around its caller, and net/http
\* sends the first status it is given.
SendHeader(c, layers, code) ==
    /\ Reach(c, layers, LAMBDA s : Headed(s, code))
    /\ told' = [told EXCEPT ![c] = IF @ = 0 THEN code ELSE Garbled]

SendBody(c, layers) ==
    /\ Reach(c, layers, Wrote)
    /\ told' = [told EXCEPT ![c] = IF @ = 0 THEN 200 ELSE @]

Outer == {"logging", "recover"}

\* cors answers a preflight itself, the mux what matches no route: neither
\* comes to the metrics layer.
Unrouted(c) ==
    /\ Running /\ pc[c] = "mux"
    /\ \/ req[c].route = "options" /\ SendHeader(c, Outer, 204)
       \/ req[c].route = "none"    /\ SendHeader(c, Outer, 404)
    /\ Goto(c, "log")
    /\ unmetered' = [unmetered EXCEPT ![IF req[c].route = "options" THEN "2xx" ELSE "4xx"] = @ + 1]
    /\ UNCHANGED <<process, req, got, shared, received, answered>>

\* Mutant: the gauge is not incremented.
IncSkipped(c) ==
    /\ Running /\ pc[c] = "mux"
    /\ req[c].route \notin {"options", "none"}
    /\ Goto(c, "handler")
    /\ UNCHANGED <<process, locals, shared, history>>

IncInFlight(c) ==
    /\ Running /\ pc[c] = "mux"
    /\ req[c].route \notin {"options", "none"}
    /\ inFlight' = inFlight + 1
    /\ Goto(c, "handler")
    /\ UNCHANGED <<process, locals, requestsTotal, accessLog, history>>

Locked(c) == req[c].route \in {"authed", "webhook"} /\ ~req[c].keyOK

\* APIKeyMiddleware turns a request without the key away.
Unauthorized(c) ==
    /\ Running /\ pc[c] = "handler"
    /\ Locked(c)
    /\ SendHeader(c, Layer, 401)
    /\ Goto(c, "observe")
    /\ UNCHANGED <<process, req, got, shared, history>>

\* A handler begins its response, with a status of one of the classes its
\* routes answer; the Prometheus handler just writes.
HandlerCodes(route) ==
    CASE route = "authed"  -> {200, 302, 400, 500}
      [] route = "webhook" -> {400}
      [] OTHER             -> {200, 503}

Respond(c) ==
    /\ Running /\ pc[c] = "handler"
    /\ ~Locked(c)
    /\ \/ /\ req[c].route # "metrics"
          /\ \E code \in HandlerCodes(req[c].route) : SendHeader(c, Layer, code)
       \/ /\ req[c].route = "metrics"
          /\ SendBody(c, Layer)
    /\ Goto(c, "body")
    /\ UNCHANGED <<process, req, got, shared, history>>

Return(c) ==
    /\ Running /\ pc[c] = "body"
    /\ Goto(c, "observe")
    /\ UNCHANGED <<process, locals, shared, history>>

\* The handler panics: the status its client will see is the one begun, or
\* the 500 of the recover layer.
Panic(c) ==
    /\ Running /\ pc[c] \in {"handler", "body"}
    /\ ~Locked(c)
    /\ Goto(c, "panic")
    /\ UNCHANGED <<process, locals, shared, history>>

----
\* handleRegisterWebhook and Client.Notify: the event is posted ...
Notify(c) ==
    /\ Running /\ pc[c] = "handler"
    /\ req[c].route = "webhook" /\ ~Locked(c)
    /\ Goto(c, "notify")
    /\ UNCHANGED <<process, locals, shared, history>>

\* ... its receiver handles it, soon, late or not at all ...
ReceiverHandles(c) ==
    /\ Running /\ pc[c] = "notify"
    /\ ~got[c]
    /\ got' = [got EXCEPT ![c] = TRUE]
    /\ UNCHANGED <<process, pc, req, sr, told, shared, history>>

\* ... and answers, below 400 or not.
ReceiverAnswers(c) ==
    /\ Running /\ pc[c] = "notify"
    /\ got[c]
    /\ \E code \in {201, 502} : SendHeader(c, Layer, code)
    /\ Goto(c, "body")
    /\ UNCHANGED <<process, req, got, shared, history>>

\* Mutant: an http.Client without a Timeout.
NotifyWaits(c) == FALSE

\* The client gives up after its Timeout, or cannot connect.
NotifyFails(c) ==
    /\ Running /\ pc[c] = "notify"
    /\ SendHeader(c, Layer, 502)
    /\ Goto(c, "body")
    /\ UNCHANGED <<process, req, got, shared, history>>

----
\* Mutant: the boundary of the server errors is one off.
StatusLabelOff(status) ==
    CASE status > 500            -> "5xx"
      [] status \in 400 .. 500   -> "4xx"
      [] status \in 300 .. 399   -> "3xx"
      [] status \in 200 .. 299   -> "2xx"
      [] OTHER                   -> "1xx"

statusLabel(status) ==
    CASE status >= 500           -> "5xx"
      [] status \in 400 .. 499   -> "4xx"
      [] status \in 300 .. 399   -> "3xx"
      [] status \in 200 .. 299   -> "2xx"
      [] OTHER                   -> "1xx"

\* The metrics layer counts what returned to it,
Observe(c) ==
    /\ Running /\ pc[c] = "observe"
    /\ LET s == sr[c]["metrics"].status
           k == statusLabel(IF s = 0 THEN 200 ELSE s)
       IN  requestsTotal' = [requestsTotal EXCEPT ![k] = @ + 1]
    /\ Goto(c, "dec")
    /\ UNCHANGED <<process, locals, inFlight, accessLog, history>>

\* Mutant: the decrement is a statement at the end, not deferred.
DecOnReturn(c) ==
    /\ Running /\ pc[c] \in {"dec", "panic"}
    /\ inFlight' = IF pc[c] = "dec" THEN inFlight - 1 ELSE inFlight
    /\ Goto(c, IF pc[c] = "panic" THEN "recover" ELSE "log")
    /\ UNCHANGED <<process, locals, requestsTotal, accessLog, history>>

\* and takes it off the gauge in a deferred call, panic or not.
DecInFlight(c) ==
    /\ Running /\ pc[c] \in {"dec", "panic"}
    /\ inFlight' = inFlight - 1
    /\ Goto(c, IF pc[c] = "panic" THEN "recover" ELSE "log")
    /\ UNCHANGED <<process, locals, requestsTotal, accessLog, history>>

\* Mutant: the recover layer answers whatever was sent before.
RecoverAlways(c) ==
    /\ Running /\ pc[c] = "recover"
    /\ SendHeader(c, Outer, 500)
    /\ unmetered' = [unmetered EXCEPT !["5xx"] = @ + 1]
    /\ Goto(c, "log")
    /\ UNCHANGED <<process, req, got, shared, received, answered>>

\* recover answers 500, unless its recorder says a response has begun.
Recover(c) ==
    /\ Running /\ pc[c] = "recover"
    /\ \/ /\ sr[c]["recover"].wroteHeader
          /\ UNCHANGED <<sr, told>>
       \/ /\ ~sr[c]["recover"].wroteHeader
          /\ SendHeader(c, Outer, 500)
    /\ unmetered' = [unmetered EXCEPT ![statusLabel(told'[c])] = @ + 1]
    /\ Goto(c, "log")
    /\ UNCHANGED <<process, req, got, shared, received, answered>>

Log(c) ==
    /\ Running /\ pc[c] = "log"
    /\ accessLog' = [accessLog EXCEPT ![statusLabel(sr[c]["logging"].status)] = @ + 1]
    /\ Goto(c, "finish")
    /\ UNCHANGED <<process, locals, inFlight, requestsTotal, history>>

\* net/http ends the response, with 200 if nobody gave a status, and keeps
\* the connection unless the client or a shutdown closes it.
ClassOf(status) ==
    CASE status \div 100 = 2 -> "2xx"
      [] status \div 100 = 3 -> "3xx"
      [] status \div 100 = 4 -> "4xx"
      [] OTHER               -> "5xx"

Finish(c) ==
    /\ Running /\ pc[c] = "finish"
    /\ LET k == ClassOf(IF told[c] = 0 THEN 200 ELSE told[c])
       IN  answered' = [answered EXCEPT ![k] = @ + 1]
    /\ \/ Goto(c, "closed")
       \/ ~inShutdown /\ Goto(c, "idle")
    /\ req' = [req EXCEPT ![c] = NoRequest]
    /\ sr' = [sr EXCEPT ![c] = Fresh]
    /\ told' = [told EXCEPT ![c] = 0]
    /\ got' = [got EXCEPT ![c] = FALSE]
    /\ UNCHANGED <<process, shared, received, unmetered>>

----
\* run(): the tracer, the store and the router are made, then a goroutine
\* calls ListenAndServe and the main one waits.  A tracer that fails ends the
\* process at once, a store that fails after the tracer was flushed.
Start ==
    /\ life = "starting"
    /\ \/ life' = "running"  /\ serve' = "binding" /\ UNCHANGED exit
       \/ life' = "exited"   /\ exit' = "1" /\ UNCHANGED serve
       \/ life' = "flushing" /\ exit' = "1" /\ UNCHANGED serve
    /\ UNCHANGED <<inShutdown, signalled, pc, locals, shared, history>>

\* The address may be taken; after Shutdown, ListenAndServe does not listen.
Bind ==
    /\ Running /\ serve = "binding"
    /\ serve' \in IF inShutdown THEN {"closed"} ELSE {"listening", "failed"}
    /\ UNCHANGED <<life, inShutdown, signalled, exit, pc, locals, shared, history>>

AcceptFails ==
    /\ Running /\ serve = "listening"
    /\ serve' = "failed"
    /\ UNCHANGED <<life, inShutdown, signalled, exit, pc, locals, shared, history>>

\* SIGINT or SIGTERM closes ctx.Done(); while draining a second one changes
\* nothing.
Signal ==
    /\ life = "running" /\ ~signalled
    /\ signalled' = TRUE
    /\ UNCHANGED <<life, serve, inShutdown, exit, pc, locals, shared, history>>

Dropped ==
    /\ pc' = [c \in Conns |-> "closed"]
    /\ req' = [c \in Conns |-> NoRequest]
    /\ sr' = [c \in Conns |-> Fresh]
    /\ told' = [c \in Conns |-> 0]
    /\ got' = [c \in Conns |-> FALSE]

\* Before NotifyContext and after the deferred stop it ends the process.
SignalKills ==
    /\ life \in {"starting", "flushing"}
    /\ signalled' = TRUE
    /\ life' = "exited" /\ exit' = "signal"
    /\ Dropped
    /\ UNCHANGED <<serve, inShutdown, shared, history>>

\* The select of run takes a ready case, either one when both are.  A server
\* that is shut down sends nil, when nobody selects any more.
SelectServeErr ==
    /\ life = "running" /\ serve = "failed"
    /\ life' = "flushing" /\ exit' = "1"
    /\ UNCHANGED <<serve, inShutdown, signalled, pc, locals, shared, history>>

SelectSignal ==
    /\ life = "running" /\ signalled
    /\ life' = "draining"
    /\ inShutdown' = TRUE
    /\ serve' = IF serve = "listening" THEN "closed" ELSE serve
    /\ UNCHANGED <<signalled, exit, pc, locals, shared, history>>

\* Mutant: srv.Close in place of srv.Shutdown.
CloseAll ==
    /\ life = "draining"
    /\ pc' = [c \in Conns |-> IF pc[c] \in Resting THEN "closed" ELSE pc[c]]
    /\ life' = "flushing" /\ exit' = "0"
    /\ UNCHANGED <<serve, inShutdown, signalled, locals, shared, history>>

\* Shutdown closes connections that rest (new ones once they are five seconds
\* old), and returns nil when none is left.
DrainPoll ==
    /\ life = "draining"
    /\ \E old \in SUBSET {c \in Conns : pc[c] = "new"} :
           pc' = [c \in Conns |-> IF pc[c] = "idle" \/ c \in old THEN "closed" ELSE pc[c]]
    /\ \/ /\ \A c \in Conns : pc'[c] = "closed"
          /\ life' = "flushing" /\ exit' = "0"
       \/ /\ \E c \in Conns : pc'[c] # "closed"
          /\ UNCHANGED <<life, exit>>
    /\ UNCHANGED <<serve, inShutdown, signalled, locals, shared, history>>

\* Mutant: Shutdown with context.Background().
DrainForever == FALSE

\* The 15 seconds are over: Shutdown returns the context's error, and run does.
DrainDeadline ==
    /\ life = "draining"
    /\ life' = "flushing" /\ exit' = "1"
    /\ UNCHANGED <<serve, inShutdown, signalled, pc, locals, shared, history>>

\* The deferred tracerShutdown returns, within its 5 seconds; the process ends
\* and every goroutine with it.
Flush ==
    /\ life = "flushing"
    /\ life' = "exited"
    /\ Dropped
    /\ UNCHANGED <<serve, inShutdown, signalled, exit, shared, history>>

----
\* What the chain and net/http do by themselves, once the handler has.
Chain(c) ==
    \/ Unrouted(c)
    \/ IncInFlight(c)
    \/ Unauthorized(c)
    \/ Return(c)
    \/ Observe(c)
    \/ DecInFlight(c)
    \/ Recover(c)
    \/ Log(c)
    \/ Finish(c)

Main ==
    \/ Start
    \/ Bind
    \/ SelectServeErr
    \/ SelectSignal
    \/ DrainPoll
    \/ Flush

Exited == life = "exited" /\ UNCHANGED vars

Next ==
    \/ \E c \in Conns :
          \/ Accept(c)
          \/ Hangup(c)
          \/ Receive(c)
          \/ Chain(c)
          \/ Respond(c)
          \/ Panic(c)
          \/ Notify(c)
          \/ ReceiverHandles(c)
          \/ ReceiverAnswers(c)
          \/ NotifyFails(c)
    \/ Main
    \/ AcceptFails
    \/ Signal
    \/ SignalKills
    \/ DrainDeadline
    \/ Exited

Spec == Init /\ [][Next]_vars

\* The scheduler runs the chain and the main goroutine, and timers fire: the
\* webhook client's, the drain's.  Handlers, clients, receivers and signals
\* owe nothing.
FairSpec ==
    /\ Spec
    /\ WF_vars(Start) /\ WF_vars(Bind)
    /\ WF_vars(SelectServeErr \/ SelectSignal)
    /\ WF_vars(DrainDeadline) /\ WF_vars(Flush)
    /\ \A c \in Conns : WF_vars(Chain(c)) /\ WF_vars(NotifyFails(c))

----
\* Every variable keeps its type; the gauge is never negative.
TypeOK ==
    /\ life \in {"starting", "running", "draining", "flushing", "exited"}
    /\ serve \in {"unstarted", "binding", "listening", "failed", "closed"}
    /\ inShutdown \in BOOLEAN /\ signalled \in BOOLEAN
    /\ exit \in {"none", "0", "1", "signal"}
    /\ pc \in [Conns -> Step]
    /\ req \in [Conns -> Request]
    /\ sr \in [Conns -> [Layer -> [status : Codes \cup {0}, wroteHeader : BOOLEAN]]]
    /\ told \in [Conns -> Codes \cup {0}]
    /\ got \in [Conns -> BOOLEAN]
    /\ inFlight \in Nat
    /\ requestsTotal \in [Class -> Nat] /\ accessLog \in [Class -> Nat]
    /\ received \in 0 .. MaxRequests
    /\ answered \in [Class -> Nat] /\ unmetered \in [Class -> Nat]

In(steps) == {c \in Conns : pc[c] \in steps}

Of(k, conns) == {c \in conns : ClassOf(told[c]) = k}

\* The in-flight gauge is the number of requests inside the metrics layer,
\* however their handlers ended: it returns to zero when they are gone.
InFlightMatches ==
    Running => inFlight = Cardinality(
        In({"handler", "notify", "body", "observe", "dec", "panic"}))

\* Every response is in the access log once, under the status its client got,
\* panics, preflights and unknown paths included.
LogsAnswers ==
    Running => \A k \in Class :
        accessLog[k] = answered[k] + Cardinality(Of(k, In({"finish"})))

\* vois_http_requests_total counts every response once under its class, except
\* those of preflights, of unknown paths and of handlers that panicked.
RequestsAccounted ==
    Running => \A k \in Class :
        requestsTotal[k] + unmetered[k] =
            answered[k] + Cardinality(Of(k, In({"dec", "log", "finish"})))

\* When run has decided to return nil, nothing it started is left: no request
\* in hand, no connection, no listener.
CleanStopIsQuiet ==
    exit = "0" => /\ \A c \in Conns : pc[c] = "closed"
                  /\ serve # "listening"
                  /\ signalled

\* A client sees what HttpContract promises: one status per request, and no
\* request cut off by a process that exits with 0.
Contract == INSTANCE HttpContract WITH
    Conns  <- Conns,
    Codes  <- Codes,
    open   <- {c \in Conns : pc[c] \notin Resting},
    status <- told,
    server <- IF Running THEN "up" ELSE IF exit = "0" THEN "stopped" ELSE "killed"

ImplementsContract == Contract!Spec

\* A signal ends the process, although a handler may run for ever.
SignalStops == signalled ~> life = "exited"

\* A webhook registration is answered although its receiver never is.
RegistrationEnds == \A c \in Conns : pc[c] = "notify" ~> pc[c] # "notify"

====
