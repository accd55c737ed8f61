---- MODULE HttpServer_proofs ----
(***************************************************************************)
(* For any number of connections and requests: the server stops cleanly    *)
(* only when it is quiet, its clients see what HttpContract promises, and  *)
(* the gauge, the counter and the access log agree with what they saw.     *)
(***************************************************************************)
EXTENDS HttpServer, FiniteSetTheorems, TLAPS

\* What the life of the process says of its listener and its connections.
LifeOK ==
    /\ life \in {"starting", "running", "draining", "flushing", "exited"}
    /\ serve \in {"unstarted", "binding", "listening", "failed", "closed"}
    /\ inShutdown \in BOOLEAN /\ signalled \in BOOLEAN
    /\ exit \in {"none", "0", "1", "signal"}
    /\ exit = "none" <=> life \in {"starting", "running", "draining"}
    /\ inShutdown => serve # "listening"
    /\ life = "starting" => serve = "unstarted" /\ \A c \in Conns : pc[c] = "closed"
    /\ life = "draining" => inShutdown /\ signalled
    /\ exit = "0" => inShutdown /\ signalled /\ \A c \in Conns : pc[c] = "closed"

Recorder == [status : Codes \cup {0}, wroteHeader : BOOLEAN]

WireTypes ==
    /\ pc \in [Conns -> Step]
    /\ told \in [Conns -> Codes \cup {0}]
    /\ sr \in [Conns -> [Layer -> Recorder]]

\* What a goroutine has told its client by the step it is at, and that the
\* recorders of the layers around it know.
Wire(c) ==
    /\ pc[c] \in Resting \cup {"mux", "handler", "notify"} => told[c] = 0 /\ sr[c] = Fresh
    /\ pc[c] \in {"body", "observe", "dec", "log", "finish"} => told[c] # 0
    /\ sr[c]["recover"].wroteHeader <=> told[c] # 0
    /\ sr[c]["logging"].status = told[c]
    /\ pc[c] \in {"body", "observe"} => sr[c]["metrics"].status = told[c]

WireOK == WireTypes /\ \A c \in Conns : Wire(c)

\* The first status sent reaches the client and the recorders it passes.
LEMMA HeaderSent ==
    ASSUME WireTypes, NEW c \in Conns, NEW layers \in {Outer, Layer}, NEW code \in Codes,
           told[c] = 0, SendHeader(c, layers, code)
    PROVE  /\ told' = [told EXCEPT ![c] = code]
           /\ sr' \in [Conns -> [Layer -> Recorder]]
           /\ \A d \in Conns \ {c} : sr'[d] = sr[d]
           /\ \A l \in layers : sr'[c][l] = [status |-> code, wroteHeader |-> TRUE]
<1>1. sr' = [sr EXCEPT ![c] = [l \in Layer |->
               IF l \in layers THEN [status |-> code, wroteHeader |-> TRUE] ELSE sr[c][l]]]
  BY DEF SendHeader, Reach, Headed
<1>2. [status |-> code, wroteHeader |-> TRUE] \in Recorder
  BY DEF Recorder
<1>3. layers \subseteq Layer
  BY DEF Outer, Layer
<1>4. QED
  BY <1>1, <1>2, <1>3 DEF SendHeader, WireTypes

\* So does the 200 of a handler that just writes.
LEMMA BodySent ==
    ASSUME WireTypes, NEW c \in Conns, told[c] = 0, sr[c] = Fresh, SendBody(c, Layer)
    PROVE  /\ told' = [told EXCEPT ![c] = 200]
           /\ sr' \in [Conns -> [Layer -> Recorder]]
           /\ \A d \in Conns \ {c} : sr'[d] = sr[d]
           /\ \A l \in Layer : sr'[c][l] = [status |-> 200, wroteHeader |-> TRUE]
<1>1. sr' = [sr EXCEPT ![c] = [l \in Layer |-> Wrote(sr[c][l])]]
  BY DEF SendBody, Reach, Wrote
<1>2. \A l \in Layer : Wrote(sr[c][l]) = [status |-> 200, wroteHeader |-> TRUE]
  <2>1. \A l \in Layer : sr[c][l] = [status |-> 0, wroteHeader |-> FALSE]
    BY DEF Fresh
  <2>2. Wrote([status |-> 0, wroteHeader |-> FALSE]) = [status |-> 200, wroteHeader |-> TRUE]
    BY DEF Wrote
  <2>3. QED
    BY <2>1, <2>2
<1>3. [status |-> 200, wroteHeader |-> TRUE] \in Recorder
  BY DEF Recorder, Codes
<1>4. QED
  BY <1>1, <1>2, <1>3 DEF SendBody, WireTypes

\* What a handler answers is a status code.
LEMMA HandlerCodesAreCodes == \A route : HandlerCodes(route) \subseteq Codes
BY DEF HandlerCodes, Codes

\* A goroutine at c that has said nothing and now says code, everywhere, and
\* goes on to a step where that is right.
LEMMA WireSpeaks ==
    ASSUME WireOK, NEW c \in Conns, NEW layers \in {Outer, Layer}, NEW code \in Codes,
           NEW step \in {"body", "observe", "log"},
           layers = Outer => step = "log",
           told' = [told EXCEPT ![c] = code],
           sr' \in [Conns -> [Layer -> Recorder]],
           \A d \in Conns \ {c} : sr'[d] = sr[d],
           \A l \in layers : sr'[c][l] = [status |-> code, wroteHeader |-> TRUE],
           Goto(c, step)
    PROVE  WireOK'
<1>1. WireTypes'
  BY DEF WireOK, WireTypes, Goto, Step, Resting
<1>2. Wire(c)'
  <2>1. pc'[c] = step /\ told'[c] = code /\ code # 0
    BY DEF WireOK, WireTypes, Goto, Codes
  <2>2. "recover" \in layers /\ "logging" \in layers
    BY DEF Outer, Layer
  <2>3. step # "log" => "metrics" \in layers
    BY DEF Outer, Layer
  <2>4. QED
    BY <2>1, <2>2, <2>3 DEF Wire, Resting
<1>3. ASSUME NEW d \in Conns \ {c}
      PROVE  Wire(d)'
  BY DEF WireOK, WireTypes, Wire, Goto
<1>4. QED
  BY <1>1, <1>2, <1>3 DEF WireOK

\* A goroutine goes on and says nothing.
LEMMA WireMoves ==
    ASSUME WireOK, NEW c \in Conns, NEW step \in Step,
           told' = told, sr' = sr, Goto(c, step),
           step \in Resting \cup {"mux", "handler", "notify"} => told[c] = 0 /\ sr[c] = Fresh,
           step \in {"body", "observe", "dec", "log", "finish"} => told[c] # 0,
           step \in {"body", "observe"} => sr[c]["metrics"].status = told[c]
    PROVE  WireOK'
<1>1. WireTypes'
  BY DEF WireOK, WireTypes, Goto
<1>2. \A d \in Conns : Wire(d)'
  BY DEF WireOK, WireTypes, Wire, Goto
<1>3. QED
  BY <1>1, <1>2 DEF WireOK

\* Connections close, and their exchange is forgotten.
LEMMA WireDropped == Dropped => WireOK'
<1>1. SUFFICES ASSUME Dropped PROVE WireOK'
  OBVIOUS
<1>2. Fresh \in [Layer -> Recorder]
  BY DEF Fresh, Recorder, Codes
<1>3. WireTypes'
  BY <1>1, <1>2 DEF Dropped, WireTypes, Step, Resting
<1>4. \A c \in Conns : Wire(c)'
  BY <1>1 DEF Dropped, Wire, Fresh, Layer, Resting
<1>5. QED
  BY <1>3, <1>4 DEF WireOK

\* Every step keeps what the client has been told in line with the recorders.
LEMMA WireNext ==
    ASSUME WireOK, [Next]_vars
    PROVE  WireOK'
<1> USE DEF process, locals, shared, history
<1>1. ASSUME NEW c \in Conns, Accept(c) \/ Hangup(c)
      PROVE  WireOK'
  <2>1. PICK step \in Step : Goto(c, step) /\ step \in Resting
    BY <1>1 DEF Accept, Hangup, Step, Resting
  <2>2. pc[c] \in Resting /\ told' = told /\ sr' = sr
    BY <1>1 DEF Accept, Hangup, Resting
  <2>3. QED
    BY <2>1, <2>2, WireMoves DEF WireOK, Wire, Resting
<1>2. ASSUME NEW c \in Conns, Receive(c)
      PROVE  WireOK'
  <2>1. told[c] = 0 /\ sr[c] = Fresh
    BY <1>2 DEF Receive, WireOK, Wire, Resting
  <2>2. told' = told /\ sr' = sr
    BY <1>2, <2>1 DEF Receive, WireOK, WireTypes
  <2>3. Goto(c, "mux") /\ "mux" \in Step
    BY <1>2 DEF Receive, Step
  <2>4. QED
    BY <2>1, <2>2, <2>3, WireMoves
<1>3. ASSUME NEW c \in Conns, Unrouted(c)
      PROVE  WireOK'
  <2>1. PICK code \in Codes : SendHeader(c, Outer, code)
    BY <1>3 DEF Unrouted, Codes
  <2>2. told[c] = 0
    BY <1>3 DEF Unrouted, WireOK, Wire
  <2>3. Goto(c, "log")
    BY <1>3 DEF Unrouted
  <2>4. QED
    BY <2>1, <2>2, <2>3, HeaderSent, WireSpeaks DEF WireOK
<1>4. ASSUME NEW c \in Conns, IncInFlight(c) \/ Notify(c)
      PROVE  WireOK'
  <2>1. PICK step \in {"handler", "notify"} : Goto(c, step)
    BY <1>4 DEF IncInFlight, Notify
  <2>2. told[c] = 0 /\ sr[c] = Fresh /\ told' = told /\ sr' = sr
    BY <1>4 DEF IncInFlight, Notify, WireOK, Wire
  <2>3. QED
    BY <2>1, <2>2, WireMoves DEF Step
<1>5. ASSUME NEW c \in Conns, Unauthorized(c) \/ ReceiverAnswers(c) \/ NotifyFails(c)
      PROVE  WireOK'
  <2>1. PICK code \in Codes : SendHeader(c, Layer, code)
    BY <1>5 DEF Unauthorized, ReceiverAnswers, NotifyFails, Codes
  <2>2. PICK step \in {"body", "observe"} : Goto(c, step)
    BY <1>5 DEF Unauthorized, ReceiverAnswers, NotifyFails
  <2>3. told[c] = 0
    BY <1>5 DEF Unauthorized, ReceiverAnswers, NotifyFails, WireOK, Wire
  <2>4. Layer # Outer
    BY DEF Layer, Outer
  <2>5. /\ told' = [told EXCEPT ![c] = code]
        /\ sr' \in [Conns -> [Layer -> Recorder]]
        /\ \A d \in Conns \ {c} : sr'[d] = sr[d]
        /\ \A l \in Layer : sr'[c][l] = [status |-> code, wroteHeader |-> TRUE]
    BY <2>1, <2>3, HeaderSent DEF WireOK
  <2>6. QED
    BY <2>2, <2>4, <2>5, WireSpeaks
<1>6. ASSUME NEW c \in Conns, Respond(c)
      PROVE  WireOK'
  <2>1. told[c] = 0 /\ sr[c] = Fresh /\ Goto(c, "body")
    BY <1>6 DEF Respond, WireOK, Wire
  <2>2. Layer # Outer
    BY DEF Layer, Outer
  <2>3. CASE SendBody(c, Layer)
    <3>1. 200 \in Codes
      BY DEF Codes
    <3>2. QED
      BY <2>1, <2>2, <2>3, <3>1, BodySent, WireSpeaks DEF WireOK
  <2>4. CASE \E code \in HandlerCodes(req[c].route) : SendHeader(c, Layer, code)
    <3>1. PICK code \in Codes : SendHeader(c, Layer, code)
      BY <2>4, HandlerCodesAreCodes
    <3>2. QED
      BY <2>1, <2>2, <3>1, HeaderSent, WireSpeaks DEF WireOK
  <2>5. QED
    BY <1>6, <2>3, <2>4 DEF Respond
<1>7. ASSUME NEW c \in Conns, Return(c) \/ Panic(c) \/ Observe(c) \/ DecInFlight(c) \/ Log(c)
      PROVE  WireOK'
  <2>1. PICK step \in {"observe", "panic", "dec", "recover", "log", "finish"} :
          /\ Goto(c, step)
          /\ step = "observe" => pc[c] = "body"
          /\ step \in {"observe", "dec", "log", "finish"} =>
                pc[c] \in {"body", "observe", "dec", "log"}
    BY <1>7 DEF Return, Panic, Observe, DecInFlight, Log
  <2>2. told' = told /\ sr' = sr
    BY <1>7 DEF Return, Panic, Observe, DecInFlight, Log
  <2>3. Wire(c)
    BY DEF WireOK
  <2>4. step \in Step \ Resting
    BY DEF Step, Resting
  <2>5. QED
    BY <2>1, <2>2, <2>3, <2>4, WireMoves DEF Wire, Resting
<1>8. ASSUME NEW c \in Conns, ReceiverHandles(c)
      PROVE  WireOK'
  BY <1>8 DEF ReceiverHandles, WireOK, WireTypes, Wire
<1>9. ASSUME NEW c \in Conns, Recover(c)
      PROVE  WireOK'
  <2>1. Wire(c) /\ Goto(c, "log") /\ "log" \in Step \ Resting
    BY <1>9 DEF Recover, WireOK, Step, Resting
  <2>2. CASE sr[c]["recover"].wroteHeader /\ UNCHANGED <<sr, told>>
    BY <2>1, <2>2, WireMoves DEF Wire, Resting
  <2>3. CASE ~sr[c]["recover"].wroteHeader /\ SendHeader(c, Outer, 500)
    <3>1. PICK code \in Codes : SendHeader(c, Outer, code)
      BY <2>3 DEF Codes
    <3>2. told[c] = 0 /\ Goto(c, "log")
      BY <2>1, <2>3 DEF Wire
    <3>3. /\ told' = [told EXCEPT ![c] = code]
          /\ sr' \in [Conns -> [Layer -> Recorder]]
          /\ \A d \in Conns \ {c} : sr'[d] = sr[d]
          /\ \A l \in Outer : sr'[c][l] = [status |-> code, wroteHeader |-> TRUE]
      BY <3>1, <3>2, HeaderSent DEF WireOK
    <3>4. QED
      BY <3>2, <3>3, WireSpeaks
  <2>4. QED
    BY <1>9, <2>2, <2>3 DEF Recover
<1>10. ASSUME NEW c \in Conns, Finish(c)
       PROVE  WireOK'
  <2>1. Fresh \in [Layer -> Recorder]
    BY DEF Fresh, Recorder, Codes
  <2>2. /\ told' = [told EXCEPT ![c] = 0] /\ sr' = [sr EXCEPT ![c] = Fresh]
        /\ \E step \in {"closed", "idle"} : pc' = [pc EXCEPT ![c] = step]
    BY <1>10 DEF Finish, Goto
  <2>3. WireTypes'
    BY <2>1, <2>2 DEF WireOK, WireTypes, Step, Resting
  <2>4. Wire(c)'
    BY <2>2 DEF Wire, Fresh, Layer, WireOK, WireTypes
  <2>5. \A d \in Conns \ {c} : Wire(d)'
    BY <2>2 DEF Wire, WireOK, WireTypes
  <2>6. QED
    BY <2>3, <2>4, <2>5 DEF WireOK
<1>11. ASSUME DrainPoll
       PROVE  WireOK'
  <2>1. \A c \in Conns : pc'[c] = pc[c] \/ (pc[c] \in Resting /\ pc'[c] = "closed")
    BY <1>11 DEF DrainPoll, Resting, WireOK, WireTypes
  <2>2. told' = told /\ sr' = sr /\ pc' \in [Conns -> Step]
    BY <1>11 DEF DrainPoll, Resting, Step, WireOK, WireTypes
  <2>3. QED
    BY <2>1, <2>2 DEF WireOK, WireTypes, Wire, Resting
<1>12. ASSUME Flush \/ SignalKills
       PROVE  WireOK'
  BY <1>12, WireDropped DEF Flush, SignalKills
<1>13. ASSUME \/ Start \/ Bind \/ SelectServeErr \/ SelectSignal \/ AcceptFails \/ Signal
              \/ DrainDeadline \/ UNCHANGED vars
       PROVE  WireOK'
  <2>1. UNCHANGED <<pc, told, sr>>
    BY <1>13 DEF Start, Bind, SelectServeErr, SelectSignal, AcceptFails, Signal, DrainDeadline, vars
  <2>2. QED
    BY <2>1 DEF WireOK, WireTypes, Wire
<1>14. QED
  BY <1>1, <1>2, <1>3, <1>4, <1>5, <1>6, <1>7, <1>8, <1>9, <1>10, <1>11, <1>12, <1>13
     DEF Next, Chain, Main, Exited

----
\* Every step keeps what a stage of the process says of its connections.
LEMMA LifeNext ==
    ASSUME LifeOK, WireTypes, [Next]_vars
    PROVE  LifeOK'
<1> USE DEF process, Running
<1>1. ASSUME NEW c \in Conns, Accept(c)
      PROVE  LifeOK'
  BY <1>1 DEF LifeOK, Accept, Goto
<1>2. ASSUME NEW c \in Conns,
             pc[c] # "closed", life # "exited",
             UNCHANGED process, pc' = pc \/ \E step \in Step : Goto(c, step)
      PROVE  LifeOK'
  BY <1>2 DEF LifeOK, Goto
<1>3. ASSUME NEW c \in Conns,
             \/ Hangup(c) \/ Receive(c) \/ Chain(c) \/ Respond(c) \/ Panic(c)
             \/ Notify(c) \/ ReceiverHandles(c) \/ ReceiverAnswers(c) \/ NotifyFails(c)
      PROVE  LifeOK'
  <2>1. pc[c] # "closed" /\ life # "exited" /\ UNCHANGED process
    BY <1>3 DEF Hangup, Receive, Chain, Unrouted, IncInFlight, Unauthorized, Return, Observe,
                DecInFlight, Recover, Log, Finish, Respond, Panic, Notify, ReceiverHandles,
                ReceiverAnswers, NotifyFails
  <2>2. pc' = pc \/ \E step \in Step : Goto(c, step)
    BY <1>3 DEF Hangup, Receive, Chain, Unrouted, IncInFlight, Unauthorized, Return, Observe,
                DecInFlight, Recover, Log, Finish, Respond, Panic, Notify, ReceiverHandles,
                ReceiverAnswers, NotifyFails, Step, Resting
  <2>3. QED
    BY <1>2, <2>1, <2>2
<1>4. ASSUME \/ Start \/ Bind \/ SelectServeErr \/ SelectSignal \/ AcceptFails \/ Signal
             \/ DrainDeadline \/ UNCHANGED vars
      PROVE  LifeOK'
  <2>1. CASE Start
    BY <2>1 DEF LifeOK, Start
  <2>2. CASE Bind \/ AcceptFails
    BY <2>2 DEF LifeOK, Bind, AcceptFails
  <2>3. CASE SelectServeErr \/ SelectSignal
    BY <2>3 DEF LifeOK, SelectServeErr, SelectSignal
  <2>4. CASE Signal
    BY <2>4 DEF LifeOK, Signal
  <2>5. CASE DrainDeadline
    BY <2>5 DEF LifeOK, DrainDeadline
  <2>6. CASE UNCHANGED vars
    BY <2>6 DEF LifeOK, vars
  <2>7. QED
    BY <1>4, <2>1, <2>2, <2>3, <2>4, <2>5, <2>6
<1>5. ASSUME DrainPoll
      PROVE  LifeOK'
  <2>1. /\ life = "draining" /\ UNCHANGED <<serve, inShutdown, signalled>>
        /\ \/ /\ \A c \in Conns : pc'[c] = "closed"
              /\ life' = "flushing" /\ exit' = "0"
           \/ UNCHANGED <<life, exit>>
    BY <1>5 DEF DrainPoll
  <2>2. QED
    BY <2>1 DEF LifeOK
<1>6. ASSUME Flush \/ SignalKills
      PROVE  LifeOK'
  <2>1. CASE Flush
    BY <2>1 DEF LifeOK, Flush, Dropped
  <2>2. CASE SignalKills
    BY <2>2 DEF LifeOK, SignalKills, Dropped
  <2>3. QED
    BY <1>6, <2>1, <2>2
<1>7. QED
  BY <1>1, <1>3, <1>4, <1>5, <1>6 DEF Next, Main, Exited

ServerInv == LifeOK /\ WireOK

\* So both always hold.
LEMMA ServerInvInvariant == Spec => []ServerInv
<1>1. Init => ServerInv
  <2>1. Fresh \in [Layer -> Recorder]
    BY DEF Fresh, Recorder, Codes
  <2>2. Init => WireOK
    BY <2>1 DEF Init, WireOK, WireTypes, Wire, Step, Resting, Fresh, Layer, Codes
  <2>3. Init => LifeOK
    BY DEF Init, LifeOK
  <2>4. QED
    BY <2>2, <2>3 DEF ServerInv
<1>2. ServerInv /\ [Next]_vars => ServerInv'
  BY LifeNext, WireNext DEF ServerInv, WireOK
<1>3. QED
  BY <1>1, <1>2, PTL DEF Spec

\* When run has decided to return nil, nothing it started is left, for any
\* number of connections and at whatever moment the signal came.
THEOREM CleanStopsAreQuiet == Spec => []CleanStopIsQuiet
<1>1. ServerInv => CleanStopIsQuiet
  BY DEF ServerInv, LifeOK, CleanStopIsQuiet
<1>2. QED
  BY <1>1, ServerInvInvariant, PTL

----
\* The connections a client waits on.
Asked == {c \in Conns : pc[c] \notin Resting}

Serving == IF Running THEN "up" ELSE IF exit = "0" THEN "stopped" ELSE "killed"

\* A goroutine that goes on inside the chain leaves the connections that are
\* asked as they are.
LEMMA AskedStands ==
    ASSUME WireTypes, NEW c \in Conns, NEW step,
           Goto(c, step), pc[c] \in Resting <=> step \in Resting
    PROVE  Asked' = Asked
BY DEF WireTypes, Goto, Asked

\* Each step is a step of the contract, or one it does not see.
LEMMA NextImplements ==
    ASSUME ServerInv, [Next]_vars
    PROVE  [Contract!Next]_(Contract!exchange)
<1> USE DEF process, locals, shared, history
<1> DEFINE Same == Asked' = Asked /\ told' = told /\ Serving' = Serving
<1>0. LifeOK /\ WireTypes /\ \A c \in Conns : Wire(c)
  BY DEF ServerInv, WireOK
<1>a. Same => UNCHANGED Contract!exchange
  BY DEF Contract!exchange, Asked, Serving
<1>b. ASSUME NEW c \in Conns, NEW code \in Codes,
             Running, UNCHANGED process, Asked' = Asked, c \in Asked,
             told[c] = 0, told' = [told EXCEPT ![c] = code]
      PROVE  Contract!Begin(c)
  BY <1>b DEF Contract!Begin, Asked, Running
<1>1. ASSUME NEW c \in Conns,
             \/ Accept(c) \/ Hangup(c) \/ IncInFlight(c) \/ Return(c) \/ Panic(c) \/ Notify(c)
             \/ Observe(c) \/ DecInFlight(c) \/ Log(c)
      PROVE  Same
  <2>1. UNCHANGED process /\ told' = told
    BY <1>1 DEF Accept, Hangup, IncInFlight, Return, Panic, Notify, Observe, DecInFlight, Log
  <2>2. PICK step \in Step : Goto(c, step) /\ (pc[c] \in Resting <=> step \in Resting)
    BY <1>1 DEF Accept, Hangup, IncInFlight, Return, Panic, Notify, Observe, DecInFlight, Log,
                Step, Resting
  <2>3. QED
    BY <1>0, <2>1, <2>2, AskedStands DEF Serving, Running
<1>2. ASSUME NEW c \in Conns, ReceiverHandles(c)
      PROVE  Same
  BY <1>2 DEF ReceiverHandles, Asked, Serving, Running
<1>3. ASSUME NEW c \in Conns, Receive(c)
      PROVE  Contract!Ask(c)
  <2>1. Asked' = Asked \cup {c} /\ c \notin Asked
    BY <1>0, <1>3 DEF Receive, Asked, Goto, Resting, WireTypes
  <2>2. UNCHANGED <<told, process>> /\ Running
    BY <1>3 DEF Receive
  <2>3. QED
    BY <2>1, <2>2 DEF Contract!Ask, Asked, Running
<1>4. ASSUME NEW c \in Conns, NEW layers \in {Outer, Layer}, NEW code \in Codes,
             Running, UNCHANGED process, told[c] = 0, SendHeader(c, layers, code),
             NEW step \in Step \ Resting, Goto(c, step), pc[c] \notin Resting
      PROVE  Contract!Begin(c)
  <2>1. Asked' = Asked /\ c \in Asked
    BY <1>0, <1>4, AskedStands DEF Asked
  <2>2. told' = [told EXCEPT ![c] = code]
    BY <1>0, <1>4, HeaderSent
  <2>3. QED
    BY <1>4, <1>b, <2>1, <2>2
<1>5. ASSUME NEW c \in Conns, Unrouted(c)
      PROVE  Contract!Begin(c)
  <2>1. PICK code \in Codes : SendHeader(c, Outer, code)
    BY <1>5 DEF Unrouted, Codes
  <2>2. /\ Running /\ UNCHANGED process /\ told[c] = 0 /\ Goto(c, "log")
        /\ pc[c] \notin Resting /\ "log" \in Step \ Resting
    BY <1>0, <1>5 DEF Unrouted, Wire, Step, Resting
  <2>3. QED
    BY <1>4, <2>1, <2>2
<1>6. ASSUME NEW c \in Conns, Unauthorized(c) \/ ReceiverAnswers(c) \/ NotifyFails(c)
      PROVE  Contract!Begin(c)
  <2>1. PICK code \in Codes : SendHeader(c, Layer, code)
    BY <1>6 DEF Unauthorized, ReceiverAnswers, NotifyFails, Codes
  <2>2. PICK step \in Step \ Resting : Goto(c, step)
    BY <1>6 DEF Unauthorized, ReceiverAnswers, NotifyFails, Step, Resting
  <2>3. Running /\ UNCHANGED process /\ told[c] = 0 /\ pc[c] \notin Resting
    BY <1>0, <1>6 DEF Unauthorized, ReceiverAnswers, NotifyFails, Wire, Resting
  <2>4. QED
    BY <1>4, <2>1, <2>2, <2>3
<1>7. ASSUME NEW c \in Conns, Respond(c)
      PROVE  Contract!Begin(c)
  <2>1. /\ Running /\ UNCHANGED process /\ told[c] = 0 /\ sr[c] = Fresh /\ Goto(c, "body")
        /\ pc[c] \notin Resting /\ "body" \in Step \ Resting
    BY <1>0, <1>7 DEF Respond, Wire, Step, Resting
  <2>2. CASE SendBody(c, Layer)
    <3>1. told' = [told EXCEPT ![c] = 200] /\ 200 \in Codes
      BY <1>0, <2>1, <2>2, BodySent DEF Codes
    <3>2. Asked' = Asked /\ c \in Asked
      BY <1>0, <2>1, AskedStands DEF Asked
    <3>3. QED
      BY <1>b, <2>1, <3>1, <3>2
  <2>3. CASE \E code \in HandlerCodes(req[c].route) : SendHeader(c, Layer, code)
    <3>1. PICK code \in Codes : SendHeader(c, Layer, code)
      BY <2>3, HandlerCodesAreCodes
    <3>2. QED
      BY <1>4, <2>1, <3>1
  <2>4. QED
    BY <1>7, <2>2, <2>3 DEF Respond
<1>8. ASSUME NEW c \in Conns, Recover(c)
      PROVE  Same \/ Contract!Begin(c)
  <2>1. /\ Running /\ UNCHANGED process /\ Goto(c, "log")
        /\ pc[c] \notin Resting /\ "log" \in Step \ Resting
    BY <1>8 DEF Recover, Step, Resting
  <2>2. CASE told' = told
    BY <1>0, <2>1, <2>2, AskedStands DEF Serving, Running
  <2>3. CASE ~sr[c]["recover"].wroteHeader /\ SendHeader(c, Outer, 500)
    <3>1. PICK code \in Codes : SendHeader(c, Outer, code)
      BY <2>3 DEF Codes
    <3>2. told[c] = 0
      BY <1>0, <2>3 DEF Wire
    <3>3. QED
      BY <1>4, <2>1, <3>1, <3>2
  <2>4. QED
    BY <1>8, <2>2, <2>3 DEF Recover
<1>9. ASSUME NEW c \in Conns, Finish(c)
      PROVE  Contract!Complete(c)
  <2>1. Asked' = Asked \ {c} /\ c \in Asked
    BY <1>0, <1>9 DEF Finish, Asked, Goto, Resting, WireTypes
  <2>2. told[c] \in Codes /\ told' = [told EXCEPT ![c] = 0]
    BY <1>0, <1>9 DEF Finish, Wire, WireTypes
  <2>3. UNCHANGED process /\ Running
    BY <1>9 DEF Finish
  <2>4. QED
    BY <2>1, <2>2, <2>3 DEF Contract!Complete, Asked, Running
<1>10. ASSUME DrainPoll
       PROVE  Same
  <2>1. \A c \in Conns : pc'[c] = pc[c] \/ (pc[c] \in Resting /\ pc'[c] = "closed")
    BY <1>0, <1>10 DEF DrainPoll, Resting, WireTypes
  <2>2. Asked' = Asked
    BY <2>1 DEF Asked, Resting
  <2>3. told' = told /\ Running /\ Running'
    BY <1>10 DEF DrainPoll, Running
  <2>4. QED
    BY <2>2, <2>3 DEF Serving
<1>11. ASSUME \/ Bind \/ SelectServeErr \/ SelectSignal \/ AcceptFails \/ Signal
              \/ DrainDeadline \/ UNCHANGED vars
       PROVE  Same
  <2>1. UNCHANGED <<pc, told>>
    BY <1>11 DEF Bind, SelectServeErr, SelectSignal, AcceptFails, Signal, DrainDeadline, vars
  <2>2. Serving' = Serving
    BY <1>11 DEF Bind, SelectServeErr, SelectSignal, AcceptFails, Signal, DrainDeadline, vars,
                 Serving, Running
  <2>3. QED
    BY <2>1, <2>2 DEF Asked
<1>12. ASSUME Start
       PROVE  Same \/ Contract!Kill
  <2>1. life = "starting" /\ UNCHANGED <<pc, told>>
    BY <1>12 DEF Start
  <2>2. \A c \in Conns : pc[c] = "closed" /\ told[c] = 0
    BY <1>0, <2>1 DEF LifeOK, Wire, Resting
  <2>3. Asked = {} /\ Asked' = {} /\ told' = [c \in Conns |-> 0]
    BY <1>0, <2>1, <2>2 DEF Asked, Resting, WireTypes
  <2>4. Running /\ (Running' \/ exit' = "1")
    BY <1>12 DEF Start, Running
  <2>5. QED
    BY <2>1, <2>3, <2>4 DEF Contract!Kill, Contract!Silent, Asked, Serving, Running
<1>13. ASSUME SignalKills \/ Flush
       PROVE  Contract!Kill \/ Contract!Stop
  <2>1. Running /\ ~Running' /\ (exit' = "signal" \/ (exit' = exit /\ life = "flushing"))
    BY <1>13 DEF SignalKills, Flush, Running
  <2>2. Asked' = {} /\ told' = [c \in Conns |-> 0]
    BY <1>13 DEF SignalKills, Flush, Dropped, Asked, Resting
  <2>3. CASE exit' = "0"
    <3>1. \A c \in Conns : pc[c] = "closed" /\ told[c] = 0
      BY <1>0, <2>1, <2>3 DEF LifeOK, Wire, Resting
    <3>2. Asked = {} /\ told' = told
      BY <1>0, <2>2, <3>1 DEF Asked, Resting, WireTypes
    <3>3. QED
      BY <2>1, <2>2, <2>3, <3>2 DEF Contract!Stop, Asked, Running
  <2>4. CASE exit' # "0"
    BY <2>1, <2>2, <2>4 DEF Contract!Kill, Contract!Silent, Asked, Running
  <2>5. QED
    BY <2>3, <2>4
<1>14. QED
  BY <1>a, <1>1, <1>2, <1>3, <1>5, <1>6, <1>7, <1>8, <1>9, <1>10, <1>11, <1>12, <1>13
     DEF Next, Chain, Main, Exited, Contract!Next

\* A client gets one status per request, whatever its handler does, and a
\* server that ends with 0 has cut nobody off.
THEOREM ServerImplementsContract == Spec => ImplementsContract
<1>1. Init => Contract!Init
  BY DEF Init, Contract!Init, Contract!Silent, Resting, Running
<1>2. ServerInv /\ [Next]_vars => [Contract!Next]_(Contract!exchange)
  BY NextImplements
<1>3. QED
  BY <1>1, <1>2, ServerInvInvariant, PTL DEF Spec, ImplementsContract, Contract!Spec

----
\* Counting.  When one connection moves, a set of connections gains or loses
\* it, and nothing else.
LEMMA OneMoves ==
    ASSUME NEW A \in SUBSET Conns, NEW B \in SUBSET Conns, NEW c \in Conns,
           \A d \in Conns \ {c} : d \in A <=> d \in B
    PROVE  /\ Cardinality(A) \in Nat /\ Cardinality(B) \in Nat
           /\ (c \in A <=> c \in B) => Cardinality(B) = Cardinality(A)
           /\ c \notin A /\ c \in B => Cardinality(B) = Cardinality(A) + 1
           /\ c \in A /\ c \notin B => Cardinality(A) = Cardinality(B) + 1
<1>1. IsFiniteSet(A) /\ IsFiniteSet(B)
  BY HttpAssumption, FS_Subset DEF HttpAssumption
<1>2. Cardinality(A) \in Nat /\ Cardinality(B) \in Nat
  BY <1>1, FS_CardinalityType
<1>3. (c \in A <=> c \in B) => A = B
  OBVIOUS
<1>4. c \notin A /\ c \in B => B = A \cup {c}
  OBVIOUS
<1>5. c \in A /\ c \notin B => A = B \cup {c}
  OBVIOUS
<1>6. QED
  BY <1>1, <1>2, <1>3, <1>4, <1>5, FS_AddElement

Inside == {"handler", "notify", "body", "observe", "dec", "panic"}

\* The gauge has the right value while the process runs, and is a number
\* after that.
GaugeOK == inFlight \in Nat /\ InFlightMatches

\* Every step keeps the in-flight gauge at the number of requests inside its layer.
LEMMA GaugeNext ==
    ASSUME WireTypes, LifeOK, GaugeOK, [Next]_vars
    PROVE  GaugeOK'
<1> USE DEF process, locals, shared, history
<1>0. Running => inFlight = Cardinality(In(Inside))
  BY DEF GaugeOK, InFlightMatches, Inside
<1>1. ASSUME Running' => Running, inFlight' = inFlight, In(Inside)' = In(Inside)
      PROVE  GaugeOK'
  BY <1>0, <1>1 DEF GaugeOK, InFlightMatches, Inside
<1>2. ASSUME NEW c \in Conns, NEW step, Goto(c, step)
      PROVE  /\ \A d \in Conns \ {c} : d \in In(Inside) <=> d \in In(Inside)'
             /\ c \in In(Inside) <=> pc[c] \in Inside
             /\ c \in In(Inside)' <=> step \in Inside
             /\ In(Inside) \in SUBSET Conns /\ In(Inside)' \in SUBSET Conns
  BY <1>2 DEF In, Goto, WireTypes
<1>3. ASSUME NEW c \in Conns,
             \/ Accept(c) \/ Hangup(c) \/ Receive(c) \/ Unrouted(c) \/ Unauthorized(c)
             \/ Respond(c) \/ Return(c) \/ Panic(c) \/ Notify(c) \/ ReceiverAnswers(c)
             \/ NotifyFails(c) \/ Observe(c) \/ Recover(c) \/ Log(c) \/ Finish(c)
      PROVE  GaugeOK'
  <2>1. /\ UNCHANGED <<process, inFlight>>
        /\ \E step \in Step : Goto(c, step) /\ (pc[c] \in Inside <=> step \in Inside)
    BY <1>3 DEF Accept, Hangup, Receive, Unrouted, Unauthorized, Respond, Return, Panic, Notify,
                ReceiverAnswers, NotifyFails, Observe, Recover, Log, Finish, Step, Resting, Inside
  <2>2. In(Inside)' = In(Inside)
    BY <2>1, <1>2
  <2>3. QED
    BY <1>1, <2>1, <2>2 DEF Running
<1>4. ASSUME NEW c \in Conns, IncInFlight(c)
      PROVE  GaugeOK'
  <2>1. Goto(c, "handler") /\ pc[c] \notin Inside /\ "handler" \in Inside
    BY <1>4 DEF IncInFlight, Inside
  <2>2. Cardinality(In(Inside)') = Cardinality(In(Inside)) + 1
    BY <2>1, <1>2, OneMoves
  <2>3. Running /\ inFlight' = inFlight + 1
    BY <1>4 DEF IncInFlight
  <2>4. QED
    BY <1>0, <2>2, <2>3 DEF GaugeOK, InFlightMatches, Inside
<1>5. ASSUME NEW c \in Conns, DecInFlight(c)
      PROVE  GaugeOK'
  <2>1. PICK step \in {"recover", "log"} : Goto(c, step)
    BY <1>5 DEF DecInFlight
  <2>2. pc[c] \in Inside /\ step \notin Inside
    BY <1>5 DEF DecInFlight, Inside
  <2>3. /\ Cardinality(In(Inside)) = Cardinality(In(Inside)') + 1
        /\ Cardinality(In(Inside)') \in Nat
    BY <2>1, <2>2, <1>2, OneMoves
  <2>4. Running /\ inFlight' = inFlight - 1
    BY <1>5 DEF DecInFlight
  <2>5. QED
    BY <1>0, <2>3, <2>4 DEF GaugeOK, InFlightMatches, Inside
<1>6. ASSUME DrainPoll
      PROVE  GaugeOK'
  <2>1. \A c \in Conns : pc'[c] = pc[c] \/ (pc[c] \in Resting /\ pc'[c] = "closed")
    BY <1>6 DEF DrainPoll, Resting, WireTypes
  <2>2. In(Inside)' = In(Inside)
    BY <2>1 DEF In, Inside, Resting
  <2>3. QED
    BY <1>1, <1>6, <2>2 DEF DrainPoll, Running
<1>7. ASSUME \/ Start \/ Bind \/ SelectServeErr \/ SelectSignal \/ AcceptFails \/ Signal
             \/ DrainDeadline \/ UNCHANGED vars \/ \E c \in Conns : ReceiverHandles(c)
      PROVE  GaugeOK'
  <2>1. UNCHANGED <<pc, inFlight>>
    BY <1>7 DEF Start, Bind, SelectServeErr, SelectSignal, AcceptFails, Signal, DrainDeadline,
                ReceiverHandles, vars
  <2>2. Running' => Running
    BY <1>7 DEF Start, Bind, SelectServeErr, SelectSignal, AcceptFails, Signal, DrainDeadline,
                ReceiverHandles, vars, Running
  <2>3. QED
    BY <1>1, <2>1, <2>2 DEF In
<1>8. ASSUME Flush \/ SignalKills
      PROVE  GaugeOK'
  BY <1>8 DEF Flush, SignalKills, GaugeOK, InFlightMatches, Running
<1>9. QED
  BY <1>3, <1>4, <1>5, <1>6, <1>7, <1>8 DEF Next, Chain, Main, Exited

\* The gauge is the number of requests inside the metrics layer, so it comes
\* back to zero however their handlers end.
THEOREM GaugeCountsRequests == Spec => []InFlightMatches
<1>1. Init => GaugeOK
  <2>1. Init => In(Inside) = {} /\ inFlight = 0
    BY DEF Init, In, Inside
  <2>2. QED
    BY <2>1, FS_EmptySet DEF GaugeOK, InFlightMatches, Inside
<1>2. ServerInv /\ GaugeOK /\ [Next]_vars => GaugeOK'
  BY GaugeNext DEF ServerInv, WireOK
<1>3. GaugeOK => InFlightMatches
  BY DEF GaugeOK
<1>4. QED
  BY <1>1, <1>2, <1>3, ServerInvInvariant, PTL DEF Spec

----
Recorded ==
    /\ requestsTotal \in [Class -> Nat] /\ accessLog \in [Class -> Nat]
    /\ answered \in [Class -> Nat] /\ unmetered \in [Class -> Nat]

LogOK == Recorded /\ LogsAnswers

RequestsOK == Recorded /\ RequestsAccounted

\* A status a client can see has the class its label says.
LEMMA LabelIsClass ==
    ASSUME NEW status \in Codes
    PROVE  statusLabel(status) = ClassOf(status) /\ ClassOf(status) \in Class
<1>1. /\ 200 \div 100 = 2 /\ 201 \div 100 = 2 /\ 204 \div 100 = 2 /\ 302 \div 100 = 3
      /\ 400 \div 100 = 4 /\ 401 \div 100 = 4 /\ 404 \div 100 = 4
      /\ 500 \div 100 = 5 /\ 502 \div 100 = 5 /\ 503 \div 100 = 5
  OBVIOUS
<1>2. CASE status \in {200, 201, 204}
  BY <1>1, <1>2 DEF statusLabel, ClassOf, Class
<1>3. CASE status = 302
  BY <1>1, <1>3 DEF statusLabel, ClassOf, Class
<1>4. CASE status \in {400, 401, 404}
  BY <1>1, <1>4 DEF statusLabel, ClassOf, Class
<1>5. CASE status \in {500, 502, 503}
  BY <1>1, <1>5 DEF statusLabel, ClassOf, Class
<1>6. QED
  BY <1>2, <1>3, <1>4, <1>5 DEF Codes

\* The requests of class k at some steps, when connection c moves.
LEMMA ClassMoves ==
    ASSUME WireTypes, NEW c \in Conns, NEW steps, NEW step, NEW k,
           Goto(c, step), \A d \in Conns \ {c} : told'[d] = told[d]
    PROVE  LET old == Cardinality(Of(k, In(steps)))
               new == Cardinality(Of(k, In(steps)))'
               was == pc[c] \in steps /\ ClassOf(told[c]) = k
               is  == step \in steps /\ ClassOf(told'[c]) = k
           IN  /\ old \in Nat /\ new \in Nat
               /\ (was <=> is) => new = old
               /\ ~was /\ is => new = old + 1
               /\ was /\ ~is => old = new + 1
<1> DEFINE A == Of(k, In(steps))
           B == Of(k, In(steps))'
<1>1. A \in SUBSET Conns /\ B \in SUBSET Conns
  BY DEF Of, In
<1>2. \A d \in Conns \ {c} : d \in A <=> d \in B
  BY DEF Of, In, Goto, WireTypes, ClassOf
<1>3. c \in A <=> pc[c] \in steps /\ ClassOf(told[c]) = k
  BY DEF Of, In
<1>4. c \in B <=> step \in steps /\ ClassOf(told'[c]) = k
  BY DEF Of, In, Goto, WireTypes, ClassOf
<1>5. QED
  BY <1>1, <1>2, <1>3, <1>4, OneMoves

\* One more in a class, and in no other.
LEMMA Bump ==
    ASSUME NEW f \in [Class -> Nat], NEW k
    PROVE  /\ [f EXCEPT ![k] = @ + 1] \in [Class -> Nat]
           /\ \A j \in Class : [f EXCEPT ![k] = @ + 1][j] = IF j = k THEN f[j] + 1 ELSE f[j]
<1>1. \A j \in Class : [f EXCEPT ![k] = @ + 1][j] = IF j = k THEN f[j] + 1 ELSE f[j]
  OBVIOUS
<1>2. \A j \in Class : [f EXCEPT ![k] = @ + 1][j] \in Nat
  BY <1>1
<1>3. QED
  BY <1>1, <1>2

\* The counts stay numbers, class by class.
LEMMA RecordedNext ==
    ASSUME Recorded, [Next]_vars
    PROVE  Recorded'
<1> USE DEF process, locals, shared, history
<1>1. ASSUME NEW c \in Conns, Unrouted(c) \/ Recover(c)
      PROVE  Recorded'
  <2>1. PICK k : unmetered' = [unmetered EXCEPT ![k] = @ + 1]
    BY <1>1 DEF Unrouted, Recover
  <2>2. UNCHANGED <<requestsTotal, accessLog, answered>>
    BY <1>1 DEF Unrouted, Recover
  <2>3. QED
    BY <2>1, <2>2, Bump DEF Recorded
<1>2. ASSUME NEW c \in Conns, Observe(c)
      PROVE  Recorded'
  <2>1. PICK k : requestsTotal' = [requestsTotal EXCEPT ![k] = @ + 1]
    BY <1>2 DEF Observe
  <2>2. UNCHANGED <<unmetered, accessLog, answered>>
    BY <1>2 DEF Observe
  <2>3. QED
    BY <2>1, <2>2, Bump DEF Recorded
<1>3. ASSUME NEW c \in Conns, Log(c)
      PROVE  Recorded'
  <2>1. PICK k : accessLog' = [accessLog EXCEPT ![k] = @ + 1]
    BY <1>3 DEF Log
  <2>2. UNCHANGED <<unmetered, answered, requestsTotal>>
    BY <1>3 DEF Log
  <2>3. QED
    BY <2>1, <2>2, Bump DEF Recorded
<1>4. ASSUME NEW c \in Conns, Finish(c)
      PROVE  Recorded'
  <2>1. PICK k : answered' = [answered EXCEPT ![k] = @ + 1]
    BY <1>4 DEF Finish
  <2>2. UNCHANGED <<unmetered, accessLog, requestsTotal>>
    BY <1>4 DEF Finish
  <2>3. QED
    BY <2>1, <2>2, Bump DEF Recorded
<1>5. ASSUME UNCHANGED <<requestsTotal, accessLog, answered, unmetered>>
      PROVE  Recorded'
  BY <1>5 DEF Recorded
<1>6. QED
  BY <1>1, <1>2, <1>3, <1>4, <1>5
     DEF Next, Chain, Main, Exited, vars, Accept, Hangup, Receive, IncInFlight, Unauthorized,
         Return, DecInFlight, Respond, Panic, Notify, ReceiverHandles, ReceiverAnswers,
         NotifyFails, Start, Bind, SelectServeErr, SelectSignal, DrainPoll, Flush, AcceptFails,
         Signal, SignalKills, DrainDeadline

\* The steps that no counter sees.
Quiet ==
    \/ Start \/ Bind \/ SelectServeErr \/ SelectSignal \/ AcceptFails \/ Signal
    \/ DrainPoll \/ DrainDeadline \/ UNCHANGED vars
    \/ \E c \in Conns :
         \/ Accept(c) \/ Hangup(c) \/ Receive(c) \/ IncInFlight(c) \/ Unauthorized(c)
         \/ Respond(c) \/ Return(c) \/ Panic(c) \/ Notify(c) \/ ReceiverHandles(c)
         \/ ReceiverAnswers(c) \/ NotifyFails(c)

\* Where a request is that has been counted.
Counted == {"dec", "log", "finish"}

\* None of them moves a request that has been counted.
LEMMA QuietSteps ==
    ASSUME ServerInv, Recorded, NEW steps \in {Counted, {"finish"}},
           Quiet
    PROVE  /\ Running' => Running
           /\ UNCHANGED <<requestsTotal, accessLog, answered, unmetered>>
           /\ \A k : Of(k, In(steps))' = Of(k, In(steps))
<1> USE DEF process, locals, shared, history, Quiet
<1>0. WireTypes
  BY DEF ServerInv, WireOK
<1>1. ASSUME NEW c \in Conns, NEW step \in Step \ Counted, Goto(c, step), pc[c] \notin Counted,
             \A d \in Conns \ {c} : told'[d] = told[d]
      PROVE  \A k : Of(k, In(steps))' = Of(k, In(steps))
  BY <1>0, <1>1 DEF Of, In, Goto, WireTypes, Counted, ClassOf
<1>2. ASSUME NEW c \in Conns,
             \/ Accept(c) \/ Hangup(c) \/ Receive(c) \/ IncInFlight(c) \/ Unauthorized(c)
             \/ Respond(c) \/ Return(c) \/ Panic(c) \/ Notify(c)
             \/ ReceiverAnswers(c) \/ NotifyFails(c)
      PROVE  \A k : Of(k, In(steps))' = Of(k, In(steps))
  <2>1. pc[c] \notin Counted /\ \E step \in Step \ Counted : Goto(c, step)
    BY <1>2 DEF Accept, Hangup, Receive, IncInFlight, Unauthorized, Respond, Return, Panic, Notify,
                ReceiverAnswers, NotifyFails, Counted, Step, Resting
  <2>2. told' = told \/ \E code : told' = [told EXCEPT ![c] = code]
    BY <1>2 DEF Accept, Hangup, Receive, IncInFlight, Unauthorized, Respond, Return, Panic, Notify,
                ReceiverAnswers, NotifyFails, SendHeader, SendBody
  <2>3. \A d \in Conns \ {c} : told'[d] = told[d]
    BY <1>0, <2>2 DEF WireTypes
  <2>4. QED
    BY <1>1, <2>1, <2>3
<1>3. ASSUME DrainPoll
      PROVE  \A k : Of(k, In(steps))' = Of(k, In(steps))
  <2>1. \A c \in Conns : pc'[c] = pc[c] \/ (pc[c] \in Resting /\ pc'[c] = "closed")
    BY <1>0, <1>3 DEF DrainPoll, Resting, WireTypes
  <2>2. In(steps)' = In(steps)
    BY <2>1 DEF In, Counted, Resting
  <2>3. told' = told
    BY <1>3 DEF DrainPoll
  <2>4. QED
    BY <2>2, <2>3 DEF Of, ClassOf
<1>4. ASSUME UNCHANGED <<pc, told>>
      PROVE  \A k : Of(k, In(steps))' = Of(k, In(steps))
  BY <1>4 DEF Of, In, ClassOf
<1>5. UNCHANGED <<requestsTotal, accessLog, answered, unmetered>>
  BY DEF vars, Accept, Hangup, Receive, IncInFlight, Unauthorized,
         Return, Respond, Panic, Notify, ReceiverHandles, ReceiverAnswers,
         NotifyFails, Start, Bind, SelectServeErr, SelectSignal, DrainPoll, AcceptFails,
         Signal, DrainDeadline
<1>6. Running' => Running
  BY DEF vars, Accept, Hangup, Receive, IncInFlight, Unauthorized,
         Return, Respond, Panic, Notify, ReceiverHandles, ReceiverAnswers,
         NotifyFails, Start, Bind, SelectServeErr, SelectSignal, DrainPoll, AcceptFails,
         Signal, DrainDeadline, Running
<1>7. QED
  BY <1>2, <1>3, <1>4, <1>5, <1>6
     DEF vars, ReceiverHandles, Start, Bind, SelectServeErr, SelectSignal, AcceptFails, Signal,
         DrainDeadline

\* Only these steps count something.
LEMMA StepsAreQuietOrCount ==
    ASSUME [Next]_vars
    PROVE  \/ Quiet \/ Flush \/ SignalKills
           \/ \E c \in Conns :
                Unrouted(c) \/ Observe(c) \/ DecInFlight(c) \/ Recover(c) \/ Log(c) \/ Finish(c)
BY DEF Next, Chain, Main, Exited, Quiet

\* Every step keeps the log at the answers given.
LEMMA LogNext ==
    ASSUME ServerInv, LogOK, [Next]_vars
    PROVE  LogOK'
<1> USE DEF process, locals, shared, history
<1> DEFINE At(k) == Cardinality(Of(k, In({"finish"})))
<1>0. WireTypes /\ Recorded /\ Recorded'
  BY RecordedNext DEF ServerInv, WireOK, LogOK
<1>1. Running => \A k \in Class : accessLog[k] = answered[k] + At(k)
  BY DEF LogOK, LogsAnswers
<1>2. SUFFICES ASSUME Running', NEW k \in Class
               PROVE  accessLog'[k] = answered'[k] + At(k)'
  BY <1>0 DEF LogOK, LogsAnswers
<1>3. accessLog[k] \in Nat /\ answered[k] \in Nat
  BY <1>0 DEF Recorded
<1>4. ASSUME Quiet
      PROVE  accessLog'[k] = answered'[k] + At(k)'
  <2>1. Running /\ UNCHANGED <<accessLog, answered>> /\ Of(k, In({"finish"}))' = Of(k, In({"finish"}))
    BY <1>0, <1>2, <1>4, QuietSteps
  <2>2. At(k)' = At(k)
    BY <2>1
  <2>3. QED
    BY <1>1, <2>1, <2>2
<1>5. ASSUME NEW c \in Conns, Unrouted(c) \/ Observe(c) \/ DecInFlight(c) \/ Recover(c)
      PROVE  accessLog'[k] = answered'[k] + At(k)'
  <2>1. /\ Running /\ UNCHANGED <<accessLog, answered>>
        /\ pc[c] # "finish"
        /\ \E step \in Step \ {"finish"} : Goto(c, step)
    BY <1>5 DEF Unrouted, Observe, DecInFlight, Recover, Step
  <2>2. \A d \in Conns \ {c} : told'[d] = told[d]
    BY <1>0, <1>5 DEF Unrouted, Observe, DecInFlight, Recover, SendHeader, WireTypes
  <2>3. At(k)' = At(k)
    BY <1>0, <2>1, <2>2, ClassMoves
  <2>4. QED
    BY <1>1, <2>1, <2>3
<1>6. ASSUME NEW c \in Conns, Log(c)
      PROVE  accessLog'[k] = answered'[k] + At(k)'
  <2>1. Running /\ UNCHANGED <<answered, told>> /\ pc[c] = "log" /\ Goto(c, "finish")
    BY <1>6 DEF Log
  <2>2. told[c] \in Codes /\ sr[c]["logging"].status = told[c]
    BY <1>0, <2>1 DEF ServerInv, WireOK, Wire, WireTypes
  <2>3. accessLog' = [accessLog EXCEPT ![ClassOf(told[c])] = @ + 1]
    BY <1>6, <2>2, LabelIsClass DEF Log
  <2>4. accessLog'[k] = IF k = ClassOf(told[c]) THEN accessLog[k] + 1 ELSE accessLog[k]
    BY <1>0, <2>3 DEF Recorded
  <2>5. /\ At(k) \in Nat
        /\ At(k)' = IF k = ClassOf(told[c]) THEN At(k) + 1 ELSE At(k)
    BY <1>0, <2>1, ClassMoves
  <2>6. QED
    BY <1>1, <1>3, <2>1, <2>4, <2>5
<1>7. ASSUME NEW c \in Conns, Finish(c)
      PROVE  accessLog'[k] = answered'[k] + At(k)'
  <2>1. PICK step \in Resting : Goto(c, step)
    BY <1>7 DEF Finish, Resting
  <2>2. Running /\ UNCHANGED accessLog /\ pc[c] = "finish" /\ step # "finish"
    BY <1>7, <2>1 DEF Finish, Resting
  <2>3. told[c] \in Codes /\ told[c] # 0
    BY <1>0, <2>2 DEF ServerInv, WireOK, Wire, WireTypes
  <2>4. answered' = [answered EXCEPT ![ClassOf(told[c])] = @ + 1]
    BY <1>7, <2>3 DEF Finish
  <2>5. answered'[k] = IF k = ClassOf(told[c]) THEN answered[k] + 1 ELSE answered[k]
    BY <1>0, <2>4 DEF Recorded
  <2>6. \A d \in Conns \ {c} : told'[d] = told[d]
    BY <1>0, <1>7 DEF Finish, WireTypes
  <2>7. /\ At(k)' \in Nat
        /\ At(k) = IF k = ClassOf(told[c]) THEN At(k)' + 1 ELSE At(k)'
    <3>1. WireTypes /\ pc[c] \in {"finish"} /\ step \notin {"finish"}
      BY <1>0, <2>2
    <3>2. /\ At(k) \in Nat
          /\ ClassOf(told[c]) # k => At(k)' = At(k)
          /\ ClassOf(told[c]) = k => At(k) = At(k)' + 1
      BY <2>1, <2>6, <3>1, ClassMoves
    <3>3. At(k)' \in Nat
      <4>1. Of(k, In({"finish"}))' \subseteq Conns
        BY DEF Of, In
      <4>2. IsFiniteSet(Of(k, In({"finish"}))')
        BY <4>1, HttpAssumption, FS_Subset DEF HttpAssumption
      <4>3. QED
        BY <4>2, FS_CardinalityType
    <3>4. QED
      BY <3>2, <3>3
  <2>8. QED
    BY <1>1, <1>3, <2>2, <2>5, <2>7
<1>8. ~(Flush \/ SignalKills)
  BY <1>2 DEF Flush, SignalKills, Running
<1>9. QED
  BY <1>4, <1>5, <1>6, <1>7, <1>8, StepsAreQuietOrCount

\* The access log has every response once, under the class of the status its
\* client was sent, also when the handler panicked or was never reached.
THEOREM LogHasEveryAnswer == Spec => []LogsAnswers
<1>1. Init => LogOK
  <2>1. Init => \A k : Of(k, In({"finish"})) = {}
    BY DEF Init, Of, In
  <2>2. QED
    BY <2>1, FS_EmptySet DEF Init, None, Recorded, LogOK, LogsAnswers
<1>2. ServerInv /\ LogOK /\ [Next]_vars => LogOK'
  BY LogNext
<1>3. LogOK => LogsAnswers
  BY DEF LogOK
<1>4. QED
  BY <1>1, <1>2, <1>3, ServerInvInvariant, PTL DEF Spec

\* What a goroutine outside the handler has told its client, and the layer
\* that tells it next.
LEMMA ToldKnown ==
    ASSUME ServerInv, NEW c \in Conns
    PROVE  /\ pc[c] = "mux" => told[c] = 0
           /\ pc[c] \in {"observe", "log", "finish"} => told[c] \in Codes
           /\ pc[c] = "observe" => sr[c]["metrics"].status = told[c]
           /\ sr[c]["recover"].wroteHeader => told[c] \in Codes
           /\ ~sr[c]["recover"].wroteHeader => told[c] = 0
           /\ 0 \notin Codes
BY DEF ServerInv, WireOK, Wire, WireTypes, Codes, Resting

\* Every step keeps the counter at the answers it is owed.
LEMMA RequestsNext ==
    ASSUME ServerInv, RequestsOK, [Next]_vars
    PROVE  RequestsOK'
<1> USE DEF process, locals, shared, history
<1> DEFINE At(k) == Cardinality(Of(k, In(Counted)))
           Told(c) == ClassOf(told[c])
<1>0. WireTypes /\ Recorded /\ Recorded'
  BY RecordedNext DEF ServerInv, WireOK, RequestsOK
<1>1. Running => \A k \in Class : requestsTotal[k] + unmetered[k] = answered[k] + At(k)
  BY DEF RequestsOK, RequestsAccounted, Counted
<1>2. SUFFICES ASSUME Running', NEW k \in Class
               PROVE  requestsTotal'[k] + unmetered'[k] = answered'[k] + At(k)'
  BY <1>0 DEF RequestsOK, RequestsAccounted, Counted
<1>3. requestsTotal[k] \in Nat /\ unmetered[k] \in Nat /\ answered[k] \in Nat
  BY <1>0 DEF Recorded
<1>4. At(k) \in Nat /\ At(k)' \in Nat
  <2>1. Of(k, In(Counted)) \subseteq Conns /\ Of(k, In(Counted))' \subseteq Conns
    BY DEF Of, In
  <2>2. IsFiniteSet(Of(k, In(Counted))) /\ IsFiniteSet(Of(k, In(Counted))')
    BY <2>1, HttpAssumption, FS_Subset DEF HttpAssumption
  <2>3. QED
    BY <2>2, FS_CardinalityType
<1>5. ASSUME Quiet
      PROVE  requestsTotal'[k] + unmetered'[k] = answered'[k] + At(k)'
  <2>1. /\ Running /\ UNCHANGED <<requestsTotal, answered, unmetered>>
        /\ Of(k, In(Counted))' = Of(k, In(Counted))
    BY <1>0, <1>2, <1>5, QuietSteps
  <2>2. At(k)' = At(k)
    BY <2>1
  <2>3. QED
    BY <1>1, <2>1, <2>2
<1>6. ASSUME NEW c \in Conns, NEW step, Goto(c, step), pc[c] \notin Counted, step \in Counted,
             \A d \in Conns \ {c} : told'[d] = told[d]
      PROVE  At(k)' = IF k = Told(c)' THEN At(k) + 1 ELSE At(k)
  BY <1>0, <1>6, ClassMoves
<1>7. ASSUME NEW c \in Conns, Unrouted(c) \/ Recover(c)
      PROVE  requestsTotal'[k] + unmetered'[k] = answered'[k] + At(k)'
  <2>1. /\ Running /\ UNCHANGED <<requestsTotal, answered>>
        /\ Goto(c, "log") /\ pc[c] \notin Counted /\ "log" \in Counted
    BY <1>7 DEF Unrouted, Recover, Counted
  <2>2. /\ told'[c] \in Codes
        /\ \A d \in Conns \ {c} : told'[d] = told[d]
        /\ unmetered' = [unmetered EXCEPT ![Told(c)'] = @ + 1]
    <3>1. CASE Unrouted(c)
      <4> DEFINE Sent(code, class) ==
                   /\ told' = [told EXCEPT ![c] = code]
                   /\ unmetered' = [unmetered EXCEPT ![class] = @ + 1]
      <4>1. told[c] = 0
        BY <3>1, ToldKnown DEF Unrouted
      <4>2. req[c].route = "options" => Sent(204, "2xx")
        BY <3>1, <4>1 DEF Unrouted, SendHeader
      <4>3. req[c].route = "none" => Sent(404, "4xx")
        BY <3>1, <4>1 DEF Unrouted, SendHeader
      <4>4. Sent(204, "2xx") \/ Sent(404, "4xx")
        BY <3>1, <4>2, <4>3 DEF Unrouted
      <4>5. ASSUME NEW code \in Codes, NEW class, Sent(code, class), ClassOf(code) = class
            PROVE  /\ told'[c] \in Codes
                   /\ \A d \in Conns \ {c} : told'[d] = told[d]
                   /\ unmetered' = [unmetered EXCEPT ![ClassOf(told'[c])] = @ + 1]
        <5>1. told'[c] = code /\ \A d \in Conns \ {c} : told'[d] = told[d]
          BY <1>0, <4>5 DEF WireTypes
        <5>2. QED
          BY <4>5, <5>1
      <4>6. /\ 204 \in Codes /\ ClassOf(204) = "2xx"
            /\ 404 \in Codes /\ ClassOf(404) = "4xx"
        BY DEF Codes, ClassOf
      <4>7. QED
        BY <4>4, <4>5, <4>6
    <3>2. CASE Recover(c)
      <4>1. \/ told' = told /\ told[c] \in Codes
            \/ told' = [told EXCEPT ![c] = 500]
        BY <1>0, <3>2, ToldKnown DEF Recover, SendHeader, WireTypes
      <4>2. told'[c] \in Codes /\ \A d \in Conns \ {c} : told'[d] = told[d]
        BY <1>0, <4>1 DEF WireTypes, Codes
      <4>3. statusLabel(told'[c]) = Told(c)'
        BY <4>2, LabelIsClass
      <4>4. QED
        BY <3>2, <4>2, <4>3 DEF Recover
    <3>3. QED
      BY <1>7, <3>1, <3>2
  <2>3. unmetered'[k] = IF k = Told(c)' THEN unmetered[k] + 1 ELSE unmetered[k]
    BY <1>0, <2>2 DEF Recorded
  <2>4. At(k)' = IF k = Told(c)' THEN At(k) + 1 ELSE At(k)
    BY <1>6, <2>1, <2>2
  <2>5. QED
    BY <1>1, <1>3, <1>4, <2>1, <2>3, <2>4
<1>8. ASSUME NEW c \in Conns, Observe(c)
      PROVE  requestsTotal'[k] + unmetered'[k] = answered'[k] + At(k)'
  <2>1. /\ Running /\ UNCHANGED <<unmetered, answered, told>>
        /\ pc[c] = "observe" /\ Goto(c, "dec") /\ pc[c] \notin Counted /\ "dec" \in Counted
    BY <1>8 DEF Observe, Counted
  <2>2. /\ told[c] \in Codes /\ told[c] # 0
        /\ sr[c]["metrics"].status = told[c]
    BY <2>1, ToldKnown
  <2>3. requestsTotal' = [requestsTotal EXCEPT ![Told(c)] = @ + 1]
    BY <1>8, <2>2, LabelIsClass DEF Observe
  <2>4. requestsTotal'[k] = IF k = Told(c) THEN requestsTotal[k] + 1 ELSE requestsTotal[k]
    BY <1>0, <2>3 DEF Recorded
  <2>5. Told(c)' = Told(c)
    BY <2>1
  <2>6. At(k)' = IF k = Told(c) THEN At(k) + 1 ELSE At(k)
    BY <1>6, <2>1, <2>5
  <2>7. QED
    BY <1>1, <1>3, <1>4, <2>1, <2>4, <2>6
<1>9. ASSUME NEW c \in Conns, DecInFlight(c) \/ Log(c)
      PROVE  requestsTotal'[k] + unmetered'[k] = answered'[k] + At(k)'
  <2>1. /\ Running /\ UNCHANGED <<requestsTotal, unmetered, answered, told>>
        /\ \E step \in Step : Goto(c, step) /\ (pc[c] \in Counted <=> step \in Counted)
    BY <1>9 DEF DecInFlight, Log, Counted, Step
  <2>2. At(k)' = At(k)
    BY <1>0, <2>1, ClassMoves
  <2>3. QED
    BY <1>1, <2>1, <2>2
<1>10. ASSUME NEW c \in Conns, Finish(c)
       PROVE  requestsTotal'[k] + unmetered'[k] = answered'[k] + At(k)'
  <2>1. PICK step \in Resting : Goto(c, step)
    BY <1>10 DEF Finish, Resting
  <2>2. /\ Running /\ UNCHANGED <<requestsTotal, unmetered>>
        /\ pc[c] = "finish" /\ pc[c] \in Counted /\ step \notin Counted
    BY <1>10, <2>1 DEF Finish, Resting, Counted
  <2>3. told[c] \in Codes /\ told[c] # 0
    BY <2>2, ToldKnown
  <2>4. answered' = [answered EXCEPT ![Told(c)] = @ + 1]
    BY <1>10, <2>3 DEF Finish
  <2>5. answered'[k] = IF k = Told(c) THEN answered[k] + 1 ELSE answered[k]
    BY <1>0, <2>4 DEF Recorded
  <2>6. \A d \in Conns \ {c} : told'[d] = told[d]
    BY <1>0, <1>10 DEF Finish, WireTypes
  <2>7. /\ Told(c) # k => At(k)' = At(k)
        /\ Told(c) = k => At(k) = At(k)' + 1
    BY <1>0, <2>1, <2>2, <2>6, ClassMoves
  <2>8. QED
    BY <1>1, <1>3, <1>4, <2>2, <2>5, <2>7
<1>11. ~(Flush \/ SignalKills)
  BY <1>2 DEF Flush, SignalKills, Running
<1>12. QED
  BY <1>5, <1>7, <1>8, <1>9, <1>10, <1>11, StepsAreQuietOrCount

\* vois_http_requests_total and the requests it does not see (preflights,
\* unknown paths, handlers that panicked) are all the responses, by class.
THEOREM CounterMissesOnlyUnmetered == Spec => []RequestsAccounted
<1>1. Init => RequestsOK
  <2>1. Init => \A k : Of(k, In(Counted)) = {}
    BY DEF Init, Of, In, Counted
  <2>2. QED
    BY <2>1, FS_EmptySet DEF Init, None, Recorded, RequestsOK, RequestsAccounted, Counted
<1>2. ServerInv /\ RequestsOK /\ [Next]_vars => RequestsOK'
  BY RequestsNext
<1>3. RequestsOK => RequestsAccounted
  BY DEF RequestsOK
<1>4. QED
  BY <1>1, <1>2, <1>3, ServerInvInvariant, PTL DEF Spec

----
Rest ==
    /\ req \in [Conns -> Request] /\ got \in [Conns -> BOOLEAN]
    /\ received \in 0 .. MaxRequests

\* Every step keeps the remaining types.
LEMMA RestNext ==
    ASSUME Rest, [Next]_vars
    PROVE  Rest'
<1> USE DEF process, locals, shared, history
<1>1. Requests \subseteq Request /\ NoRequest \in Request /\ MaxRequests \in Nat
  BY HttpAssumption DEF HttpAssumption, NoRequest, Request, Route
<1>2. req' \in [Conns -> Request]
  <2>1. \/ req' = req \/ req' = [c \in Conns |-> NoRequest]
        \/ \E c \in Conns, r \in Request : req' = [req EXCEPT ![c] = r]
    BY <1>1 DEF Next, Chain, Main, Exited, vars, Accept, Hangup, Receive, Unrouted, IncInFlight,
                Unauthorized, Return, Observe, DecInFlight, Recover, Log, Finish, Respond, Panic,
                Notify, ReceiverHandles, ReceiverAnswers, NotifyFails, Start, Bind, SelectServeErr,
                SelectSignal, DrainPoll, Flush, AcceptFails, Signal, SignalKills, DrainDeadline,
                Dropped
  <2>2. QED
    BY <1>1, <2>1 DEF Rest
<1>3. got' \in [Conns -> BOOLEAN]
  <2>1. \/ got' = got \/ got' = [c \in Conns |-> FALSE]
        \/ \E c \in Conns, b \in BOOLEAN : got' = [got EXCEPT ![c] = b]
    BY DEF Next, Chain, Main, Exited, vars, Accept, Hangup, Receive, Unrouted, IncInFlight,
           Unauthorized, Return, Observe, DecInFlight, Recover, Log, Finish, Respond, Panic,
           Notify, ReceiverHandles, ReceiverAnswers, NotifyFails, Start, Bind, SelectServeErr,
           SelectSignal, DrainPoll, Flush, AcceptFails, Signal, SignalKills, DrainDeadline,
           Dropped
  <2>2. QED
    BY <2>1 DEF Rest
<1>4. received' \in 0 .. MaxRequests
  <2>1. received' = received \/ (received < MaxRequests /\ received' = received + 1)
    BY DEF Next, Chain, Main, Exited, vars, Accept, Hangup, Receive, Unrouted, IncInFlight,
           Unauthorized, Return, Observe, DecInFlight, Recover, Log, Finish, Respond, Panic,
           Notify, ReceiverHandles, ReceiverAnswers, NotifyFails, Start, Bind, SelectServeErr,
           SelectSignal, DrainPoll, Flush, AcceptFails, Signal, SignalKills, DrainDeadline
  <2>2. QED
    BY <1>1, <2>1 DEF Rest
<1>5. QED
  BY <1>2, <1>3, <1>4 DEF Rest

\* Every variable keeps its type; in particular the gauge is never negative and
\* no response is begun twice.
THEOREM TypeCorrect == Spec => []TypeOK
<1>1. Init => Rest /\ Recorded /\ GaugeOK
  <2>1. Init => Rest
    BY HttpAssumption DEF HttpAssumption, Init, Rest, NoRequest, Request, Route
  <2>2. Init => Recorded
    BY DEF Init, Recorded, None
  <2>3. Init => In(Inside) = {} /\ inFlight = 0
    BY DEF Init, In, Inside
  <2>4. Init => GaugeOK
    BY <2>3, FS_EmptySet DEF GaugeOK, InFlightMatches, Inside
  <2>5. QED
    BY <2>1, <2>2, <2>4
<1>2. ServerInv /\ Rest /\ Recorded /\ GaugeOK /\ [Next]_vars => (Rest /\ Recorded /\ GaugeOK)'
  <2>1. Rest /\ [Next]_vars => Rest'
    BY RestNext
  <2>2. Recorded /\ [Next]_vars => Recorded'
    BY RecordedNext
  <2>3. ServerInv /\ GaugeOK /\ [Next]_vars => GaugeOK'
    BY GaugeNext DEF ServerInv, WireOK
  <2>4. QED
    BY <2>1, <2>2, <2>3
<1>3. ServerInv /\ Rest /\ Recorded /\ GaugeOK => TypeOK
  BY DEF ServerInv, LifeOK, WireOK, WireTypes, Recorder, Rest, Recorded, GaugeOK, TypeOK
<1>4. QED
  BY <1>1, <1>2, <1>3, ServerInvInvariant, PTL DEF Spec

====
