------------------------------ MODULE Lifecycle ------------------------------
(***************************************************************************)
(* The process from start to end (src/cmd/sim-rtu/main.go): main loads the *)
(* configuration, builds the engine, starts its loop, the HTTP server and  *)
(* the BACnet server, waits for a signal and takes everything down again,  *)
(* the deferred stops last and in reverse order.  It is composed with      *)
(*   - the engine's loop: Start's select, and the tick seen from outside,  *)
(*     as the time in which it holds e.mu (its work is in Engine);         *)
(*   - the BACnet server, which is BacnetServer itself, its shutdown driven*)
(*     by main;                                                            *)
(*   - the HTTP server and its requests (their work is in HttpApi).        *)
(*                                                                         *)
(* When the process ends, every goroutine ends with it, wherever it is.    *)
(***************************************************************************)
EXTENDS Config, FiniteSets

CONSTANTS
    Configs,                          \* the configurations tried
    MaxRequests,                      \* HTTP requests (checking)
    NoValue, Value, NumSlots,         \* of BacnetServer, from here on
    Device, Registry, InitValues, InitSlots, Request, DeviceType,
    Binary, MultiState, Analog, PresentValue, ObjectIdentifier, ObjectName,
    ObjectType, Description, Units, StatusFlags, TextLength, PropertyWidth, RPWidth, RPMWidth,
    Null, Absent, MaxPackets, MaxOther

\* The stores below belong to the devices of every configuration that starts.
ASSUME ConfigsAssumption ==
    \A cfg \in Configs :
        /\ cfg.tickInterval \in Int
        /\ cfg.bacnet.enabled \in BOOLEAN /\ cfg.api.enabled \in BOOLEAN
        /\ Len(cfg.devices) \in Nat /\ DOMAIN cfg.devices = 1 .. Len(cfg.devices)
        /\ Loads(cfg) => {cfg.devices[i].id : i \in DOMAIN cfg.devices} = Device

VARIABLES
    cfg,               \* the configuration file
    process,           \* "running", or how it ended: "failed", "killed", "crashed", "exited"
    main,              \* where main stands
    devices,           \* e.devices
    engine,            \* "none", "spawned", "select", "tick", "ended"
    engDone,           \* e.done closed
    http,              \* "none", "spawned", "serving", "ended"
    inShutdown,        \* Shutdown has been called
    requests,          \* each HTTP request: see RequestState
    signal,            \* "none", "buffered" in sigCh, "received"
    signalled,         \* history: a signal came when main had asked for it
    timedOut,          \* the deadline of Shutdown's context has passed
    late               \* history: datagrams received after cancel(), counted to two

VARIABLES values, slots, loop, done, cancelled, conn, handlers, writes, rest, others

B == INSTANCE BacnetServer

\* The stores and what clients send are as the BACnet server assumes.
ASSUME ServerAssumption ==
    /\ B!NumSlotsAssumption /\ B!NoValueAssumption /\ B!ValueAssumption /\ B!NullAssumption
    /\ B!StoresAssumption /\ B!WidthsAssumption /\ B!TextsAssumption /\ B!RequestsAssumption

bacnet == <<values, slots, loop, done, cancelled, conn, handlers, writes, rest, others>>
server == <<http, inShutdown, requests>>
loops  == <<engine, engDone>>
vars == <<cfg, process, main, devices, loops, server, signal, signalled, timedOut, late, bacnet>>

----------------------------------------------------------------------------
Init ==
    /\ cfg \in Configs
    /\ process = "running" /\ main = "load"
    /\ devices = <<>>
    /\ engine = "none" /\ engDone = FALSE
    /\ http = "none" /\ inShutdown = FALSE
    /\ requests = [r \in 1 .. MaxRequests |-> "none"]
    /\ signal = "none" /\ signalled = FALSE /\ timedOut = FALSE /\ late = 0
    /\ B!Init

Running == process = "running"

RequestState == {"none", "device", "body", "nf body", "nf device", "store", "answered"}

----------------------------------------------------------------------------
(* main.                                                                   *)

\* main goes from one statement to another, and the process with it.
Main(from, to) == Running /\ main = from /\ main' = to /\ UNCHANGED <<cfg, signalled, late>>

Goes      == process' = process
Ends(how) == process' = how

Load ==
    /\ Main("load", "build")
    /\ IF Loads(cfg) THEN Goes ELSE Ends("failed")
    /\ UNCHANGED <<devices, loops, server, signal, timedOut, bacnet>>

Build ==
    /\ Main("build", "engine")
    /\ IF EngineBuilds(cfg) THEN Goes /\ devices' = DeviceMap(cfg)
       ELSE Ends("failed") /\ UNCHANGED devices
    /\ UNCHANGED <<loops, server, signal, timedOut, bacnet>>

StartEngine ==
    /\ Main("engine", "api") /\ Goes
    /\ engine' = "spawned"
    /\ UNCHANGED <<devices, engDone, server, signal, timedOut, bacnet>>

StartApi ==
    /\ Main("api", "bacnet") /\ Goes
    /\ http' = IF cfg.api.enabled THEN "spawned" ELSE http
    /\ UNCHANGED <<devices, loops, inShutdown, requests, signal, timedOut, bacnet>>

\* (wrong) a BACnet server that cannot listen ends the process
StartBacnetOrExit ==
    /\ Main("bacnet", "notify")
    /\ IF cfg.bacnet.enabled
       THEN engine # "tick" /\ B!Start /\ IF conn' = "open" THEN Goes ELSE Ends("failed")
       ELSE Goes /\ UNCHANGED bacnet
    /\ UNCHANGED <<devices, loops, server, signal, timedOut>>

\* Devices() waits for a tick to end.  A failure to listen is only logged.
StartBacnet ==
    /\ Main("bacnet", "notify") /\ Goes
    /\ IF cfg.bacnet.enabled THEN engine # "tick" /\ B!Start ELSE UNCHANGED bacnet
    /\ UNCHANGED <<devices, loops, server, signal, timedOut>>

Notify ==
    /\ Main("notify", "receive") /\ Goes
    /\ UNCHANGED <<devices, loops, server, signal, timedOut, bacnet>>

\* <-sigCh: main blocks, and is waiting, until a signal is there.
Block ==
    /\ Main("receive", "wait") /\ Goes
    /\ UNCHANGED <<devices, loops, server, signal, timedOut, bacnet>>

ReceiveSignal ==
    /\ Main("wait", "cancel") /\ Goes
    /\ signal = "buffered" /\ signal' = "received"
    /\ UNCHANGED <<devices, loops, server, timedOut, bacnet>>

Cancel ==
    /\ Main("cancel", "stop engine") /\ Goes
    /\ cancelled' = TRUE
    /\ UNCHANGED <<devices, loops, server, signal, timedOut,
                   values, slots, loop, done, conn, handlers, writes, rest, others>>

StopEngine ==
    /\ Main("stop engine", IF cfg.bacnet.enabled THEN "stop bacnet" ELSE "stop api") /\ Goes
    /\ engDone' = TRUE
    /\ UNCHANGED <<devices, engine, server, signal, timedOut, bacnet>>

\* The deferred stops.  The BACnet server's is close(s.done) ...
StopBacnet ==
    /\ Main("stop bacnet", "close conn") /\ Goes
    /\ B!CloseDone
    /\ UNCHANGED <<devices, loops, server, signal, timedOut>>

\* ... and the connection, which is nil if Start could not listen.
CloseConn ==
    /\ Main("close conn", "stop api") /\ Goes
    /\ IF conn = "none" THEN UNCHANGED bacnet ELSE B!CloseConn
    /\ UNCHANGED <<devices, loops, server, signal, timedOut>>

\* (wrong) the HTTP server is left to the end of the process
StopApiForgotten ==
    /\ Main("stop api", "return") /\ Goes
    /\ UNCHANGED <<devices, loops, server, signal, timedOut, bacnet>>

StopApi ==
    /\ Main("stop api", IF cfg.api.enabled THEN "shutdown" ELSE "return") /\ Goes
    /\ inShutdown' = cfg.api.enabled
    /\ UNCHANGED <<devices, loops, http, requests, signal, timedOut, bacnet>>

\* Shutdown returns when no connection is active, or once the five seconds of
\* its context are over; what is active then goes on until the process ends.
Active == {r \in DOMAIN requests : requests[r] \notin {"none", "answered"}}

ShutdownReturns ==
    /\ Main("shutdown", "return") /\ Goes
    /\ Active = {} \/ timedOut
    /\ UNCHANGED <<devices, loops, server, signal, timedOut, bacnet>>

DeadlinePasses ==
    /\ Running /\ main = "shutdown" /\ ~timedOut
    /\ timedOut' = TRUE
    /\ Goes
    /\ UNCHANGED <<cfg, main, devices, loops, server, signal, signalled, late, bacnet>>

Return ==
    /\ Main("return", "returned")
    /\ Ends("exited")
    /\ UNCHANGED <<devices, loops, server, signal, timedOut, bacnet>>

MainStep ==
    \/ Load \/ Build \/ StartEngine \/ StartApi \/ StartBacnet \/ Notify \/ Block
    \/ ReceiveSignal \/ Cancel \/ StopEngine \/ StopBacnet \/ CloseConn
    \/ StopApi \/ ShutdownReturns \/ Return

----------------------------------------------------------------------------
(* Signals.  Before Notify they kill; after it, all but one are dropped.   *)

AskedFor == main \notin {"load", "build", "engine", "api", "bacnet", "notify"}

Elsewhere == UNCHANGED <<cfg, main, devices, loops, server, timedOut, late, bacnet>>

KillBySignal ==
    /\ Running /\ ~AskedFor
    /\ Ends("killed")
    /\ UNCHANGED <<signal, signalled>> /\ Elsewhere

\* (wrong) a channel without a buffer drops what nobody is waiting for
SignalUnbuffered ==
    /\ Running /\ AskedFor /\ signal = "none"
    /\ signal' = IF main = "wait" THEN "buffered" ELSE signal
    /\ signalled' = TRUE
    /\ Goes /\ Elsewhere

Signal ==
    /\ Running /\ AskedFor /\ signal = "none"
    /\ signal' = "buffered"
    /\ signalled' = TRUE
    /\ Goes /\ Elsewhere

----------------------------------------------------------------------------
(* The engine's goroutine.                                                 *)

Engine(from, to) ==
    /\ Running /\ engine = from /\ engine' = to
    /\ UNCHANGED <<cfg, main, devices, engDone, server, signal, signalled, timedOut, late, bacnet>>

\* NewTicker panics unless the duration is positive, and takes the process
\* with it.
EngineStart ==
    /\ Engine("spawned", "select")
    /\ \E ns \in TickDurations(cfg) : IF ns > 0 THEN Goes ELSE Ends("crashed")

\* The ticker may always be due; select takes any case that is ready.
EngineTick    == Engine("select", "tick") /\ Goes
EngineTicked  == Engine("tick", "select") /\ Goes
EngineReturns == Engine("select", "ended") /\ (cancelled \/ engDone) /\ Goes

EngineStep == EngineStart \/ EngineTick \/ EngineTicked \/ EngineReturns

----------------------------------------------------------------------------
(* The HTTP server.  ListenAndServe, Shutdown and the connections are      *)
(* net/http's.                                                             *)

Http == Running /\ UNCHANGED <<cfg, main, devices, loops, signal, signalled, timedOut, late>>

\* The port may be taken; a server that was shut down does not start.
HttpListen ==
    /\ Http /\ Goes /\ http = "spawned"
    /\ http' \in IF inShutdown THEN {"ended"} ELSE {"serving", "ended"}
    /\ UNCHANGED <<inShutdown, requests, bacnet>>

HttpClosed ==
    /\ Http /\ Goes /\ http = "serving" /\ inShutdown
    /\ http' = "ended"
    /\ UNCHANGED <<inShutdown, requests, bacnet>>

Transition(r, from, to) ==
    /\ Http /\ Goes /\ requests[r] = from
    /\ requests' = [requests EXCEPT ![r] = to]
    /\ UNCHANGED <<http, inShutdown>>

\* A request's headers arrive.  The REST routes ask for the device, which takes
\* e.mu, and then read the body, if they have one; the Normal Framework route
\* reads the body first.
Arrive(r) ==
    /\ http = "serving" /\ ~inShutdown
    /\ \E first \in {"device", "nf body"} : Transition(r, "none", first)
    /\ UNCHANGED bacnet

FindDevice(r) ==
    /\ engine # "tick"
    /\ \/ \E next \in {"body", "store", "answered"} : Transition(r, "device", next)
       \/ \E next \in {"store", "answered"} : Transition(r, "nf device", next)
    /\ UNCHANGED bacnet

\* The body comes, and is accepted or not ...
Body(r) ==
    /\ \/ \E next \in {"store", "answered"} : Transition(r, "body", next)
       \/ \E next \in {"nf device", "answered"} : Transition(r, "nf body", next)
    /\ UNCHANGED bacnet

\* ... or does not come in time for the server's ReadTimeout.
BodyTimeout(r) ==
    /\ \E from \in {"body", "nf body"} : Transition(r, from, "answered")
    /\ UNCHANGED bacnet

\* The handler writes the store, or reads it, or is refused.  (The weather
\* override, which goes around the commands, is in HttpApi.)
Store(r) ==
    /\ Transition(r, "store", "answered")
    /\ \/ \E d \in DOMAIN devices : \E n \in Registry[d].writable, v \in Value, p \in 1 .. NumSlots :
             B!RestWrite(d, n, v, p)
       \/ UNCHANGED bacnet

Respond(r) == FindDevice(r) \/ BodyTimeout(r) \/ Store(r)

HttpStep == HttpListen \/ HttpClosed \/ \E r \in DOMAIN requests : Arrive(r) \/ Body(r) \/ Respond(r)

----------------------------------------------------------------------------
(* The BACnet server's goroutines.                                         *)

Beside == Running /\ Goes /\ UNCHANGED <<cfg, main, devices, loops, server, signal, signalled, timedOut>>

BacnetReceive ==
    /\ Beside /\ B!Receive
    /\ late' = IF cancelled /\ late < 2 THEN late + 1 ELSE late

BacnetLoop  == Beside /\ (B!LoopCheck \/ B!ReadFromClosed) /\ UNCHANGED late
BacnetError == Beside /\ B!ReadError /\ UNCHANGED late
BacnetHandle(i) == Beside /\ i \in DOMAIN handlers /\ B!Handle(i) /\ UNCHANGED late

BacnetStep ==
    BacnetReceive \/ BacnetLoop \/ BacnetError \/ \E i \in DOMAIN handlers : BacnetHandle(i)

----------------------------------------------------------------------------
Next == MainStep \/ DeadlinePasses \/ KillBySignal \/ Signal \/ EngineStep \/ HttpStep \/ BacnetStep

\* Goroutines are scheduled fairly and timeouts pass.  Neither signals, nor
\* datagrams, nor requests, nor their bodies have to come.
Fairness ==
    /\ WF_vars(MainStep) /\ WF_vars(DeadlinePasses)
    /\ WF_vars(EngineStart) /\ WF_vars(EngineTicked) /\ SF_vars(EngineReturns)
    /\ WF_vars(HttpListen) /\ WF_vars(HttpClosed) /\ WF_vars(BacnetLoop)
    /\ \A r \in 1 .. MaxRequests : SF_vars(FindDevice(r)) /\ WF_vars(BodyTimeout(r) \/ Store(r))
    /\ \A i \in 1 .. MaxPackets : WF_vars(BacnetHandle(i))

Spec == Init /\ [][Next]_vars /\ Fairness

----------------------------------------------------------------------------
\* Types (main.go:19-107), and those of the BACnet server within the process.
TypeOK ==
    /\ process \in {"running", "failed", "killed", "crashed", "exited"}
    /\ engine \in {"none", "spawned", "select", "tick", "ended"}
    /\ http \in {"none", "spawned", "serving", "ended"}
    /\ engDone \in BOOLEAN /\ inShutdown \in BOOLEAN
    /\ requests \in [1 .. MaxRequests -> RequestState]
    /\ signal \in {"none", "buffered", "received"}
    /\ signalled \in BOOLEAN /\ timedOut \in BOOLEAN /\ late \in 0 .. 2
    /\ B!TypeOK

\* Once a signal has come that main asked for, the process ends: whatever
\* instant it came at, and though a client holds a request open, the read loop
\* waits for a packet, a listener failed or the engine keeps choosing to tick
\* (main.go:98-107).
SignalEndsProcess == signalled ~> ~Running

\* Unless the deadline of Shutdown passed, no HTTP request that reached a handler
\* is cut off by the end of main: main waits for those it finds, none follows,
\* and a server that is still to listen when it is shut down takes none, even if
\* the signal and the request come together (main.go:72-78).
RequestsDrained == process = "exited" /\ ~timedOut => Active = {}

\* After cancel() the BACnet server takes in at most the one datagram it is
\* already waiting for: it looks at the context before each read
\* (server.go:71-99).
OneLateDatagram == late <= 1

\* Every device of a configuration that was accepted is in the engine, under
\* its identifier, with all that a tick needs: what Validate lets through,
\* buildDevice completes and tick does not skip (config.go:95-155,
\* engine.go:56-100, 177).
EveryDeviceTicks ==
    engine # "none" =>
      \A i \in DOMAIN cfg.devices :
        LET d == cfg.devices[i]
        IN  d.id \in DOMAIN devices /\ devices[d.id].config = d /\ Ticks(devices[d.id])

\* The process ends by a signal, before it has opened anything because of what
\* it was configured with, or by an interval that no ticker takes; never
\* because a port is taken or a server fails (main.go:57-95).
OnlySignalsEnd ==
    /\ process = "exited" => signalled
    /\ process = "failed" => /\ engine = "none" /\ http = "none" /\ conn = "none"
                             /\ ~(Loads(cfg) /\ EngineBuilds(cfg))
    /\ process = "crashed" => \E ns \in TickDurations(cfg) : ns <= 0
=============================================================================
