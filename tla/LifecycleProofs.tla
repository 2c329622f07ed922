-------------------------- MODULE LifecycleProofs ---------------------------
(***************************************************************************)
(* For every set of configurations, any number of requests and of          *)
(* datagrams: what the process owes its configuration and its clients from *)
(* its start to its end.                                                   *)
(***************************************************************************)
EXTENDS Lifecycle, TLAPS

\* The BACnet server on its own, with all that is proved of it.  What it does
\* not use, the thermostat controller's constants, may be anything.
Alone == INSTANCE BacnetServerProofs
         WITH Temp <- {0}, DeadBand <- 0, ProportionalBand <- 1, AntiShortCycleTime <- 0


----------------------------------------------------------------------------
(* The inductive invariant.                                                *)

\* What main has not started yet is not there.
Early ==
    /\ main \in {"load", "build", "engine"} => engine = "none"
    /\ main \in {"load", "build", "engine", "api"} => http = "none"
    /\ main \in {"load", "build", "engine", "api", "bacnet"} => conn = "none"

\* main gets on only with a configuration that loads and builds, and then the
\* engine has its devices.
Built ==
    /\ main # "load" /\ process # "failed" => Loads(cfg)
    /\ main \notin {"load", "build"} /\ process # "failed" =>
         EngineBuilds(cfg) /\ devices = DeviceMap(cfg)

\* The ways to end.
Ended ==
    /\ process = "failed" => /\ engine = "none" /\ http = "none" /\ conn = "none"
                             /\ ~(Loads(cfg) /\ EngineBuilds(cfg))
    /\ process = "crashed" => \E ns \in TickDurations(cfg) : ns <= 0
    /\ process = "exited" => main = "returned"

\* main is past its wait only if a signal came.
Asked ==
    /\ signal # "none" => signalled
    /\ main \in {"cancel", "stop engine", "stop bacnet", "close conn", "stop api", "shutdown",
                 "return", "returned"} => signal # "none"

\* No request reaches the HTTP server before it is started or after Shutdown
\* was called, and Shutdown waits for the others.
Drained ==
    /\ requests \in [1 .. MaxRequests -> RequestState]
    /\ http = "none" => Active = {}
    /\ ~cfg.api.enabled => http = "none"
    /\ main \in {"shutdown", "return", "returned"} => inShutdown \/ http = "none"
    /\ main \in {"return", "returned"} => timedOut \/ Active = {}

\* The one late datagram leaves the read loop about to look at the context.
Late == late \in {0, 1} /\ (late = 1 => cancelled /\ loop # "reading")

IInv == cfg \in Configs /\ Early /\ Built /\ Ended /\ Asked /\ Drained /\ Late

----------------------------------------------------------------------------
(* Operators.                                                              *)

\* What Validate and buildDevice let through, tick does not skip: identifiers
\* are not shared, and what a type needs is there.
LEMMA AcceptedDevicesTick ==
    ASSUME NEW c \in Configs, Loads(c), NEW i \in DOMAIN c.devices
    PROVE  LET d == c.devices[i]
           IN  /\ d.id \in DOMAIN DeviceMap(c)
               /\ DeviceMap(c)[d.id].config = d
               /\ Ticks(DeviceMap(c)[d.id])
<1> DEFINE d == c.devices[i]
           IsLast(k) == /\ c.devices[k].id = d.id
                        /\ \A j \in k + 1 .. Len(c.devices) : c.devices[j].id # d.id
           last == CHOOSE k \in DOMAIN c.devices : IsLast(k)
<1>1. /\ Len(c.devices) \in Nat /\ DOMAIN c.devices = 1 .. Len(c.devices)
      /\ \A k \in DOMAIN c.devices : ValidDevice(c.devices, k)
  BY ConfigsAssumption DEF Loads, Validate
<1>2. ASSUME NEW j \in DOMAIN c.devices, NEW k \in DOMAIN c.devices, j < k
      PROVE  c.devices[j].id # c.devices[k].id
  <2>1. j \in 1 .. k - 1
    BY <1>1, <1>2
  <2> QED BY <1>1, <2>1 DEF ValidDevice
<1>3. IsLast(i)
  BY <1>1, <1>2
<1>4. last = i
  <2>1. last \in DOMAIN c.devices /\ IsLast(last)
    BY <1>3
  <2> HIDE DEF last
  <2> QED BY <1>1, <1>2, <2>1
<1>5. d.id \in DOMAIN DeviceMap(c) /\ DeviceMap(c)[d.id] = BuildDevice(d)
  <2>1. d.id \in {c.devices[k].id : k \in DOMAIN c.devices}
    OBVIOUS
  <2> QED BY <1>4, <2>1 DEF DeviceMap
<1>6. BuildDevice(d).config = d /\ Ticks(BuildDevice(d))
  BY <1>1 DEF ValidDevice, BuildDevice, Ticks
<1> QED BY <1>5, <1>6

\* A ticker's durations are integers.
LEMMA DurationsAreIntegers ==
    ASSUME NEW c \in Configs PROVE TickDurations(c) \subseteq Int
BY ConfigsAssumption, DurationAssumption DEF TickDurations

----------------------------------------------------------------------------
(* Each step keeps the invariant.                                          *)

LEMMA InitIInv == Init => IInv
BY DEF Init, B!Init, IInv, Early, Built, Ended, Asked, Drained, Late, RequestState, Active

\* main's steps up to the signal.
LEMMA StartsPreserve ==
    ASSUME IInv, Load \/ Build \/ StartEngine \/ StartApi \/ StartBacnet \/ Notify \/ Block
    PROVE  IInv'
<1> USE DEF Main, Goes, Ends, Running
<1>1. CASE Load
  BY <1>1 DEF Load, IInv, Early, Built, Ended, Asked, Drained, Late, Active, server, loops, bacnet
<1>2. CASE Build
  BY <1>2 DEF Build, IInv, Early, Built, Ended, Asked, Drained, Late, Active, server, loops, bacnet
<1>3. CASE StartEngine
  BY <1>3 DEF StartEngine, IInv, Early, Built, Ended, Asked, Drained, Late, Active, server, bacnet
<1>4. CASE StartApi
  BY <1>4 DEF StartApi, IInv, Early, Built, Ended, Asked, Drained, Late, Active, loops, bacnet
<1>5. CASE StartBacnet
  <2>1. UNCHANGED cancelled /\ (loop' = loop \/ loop' # "reading")
    BY <1>5 DEF StartBacnet, B!Start, bacnet
  <2> QED BY <1>5, <2>1
          DEF StartBacnet, IInv, Early, Built, Ended, Asked, Drained, Late, Active, loops, server
<1>6. CASE Notify
  BY <1>6 DEF Notify, IInv, Early, Built, Ended, Asked, Drained, Late, Active, server, loops, bacnet
<1>7. CASE Block
  BY <1>7 DEF Block, IInv, Early, Built, Ended, Asked, Drained, Late, Active, server, loops, bacnet
<1> QED BY <1>1, <1>2, <1>3, <1>4, <1>5, <1>6, <1>7

\* main's steps from the signal on.
LEMMA StopsPreserve ==
    ASSUME IInv, \/ ReceiveSignal \/ Cancel \/ StopEngine \/ StopBacnet \/ CloseConn
                 \/ StopApi \/ ShutdownReturns \/ Return
    PROVE  IInv'
<1> USE DEF Main, Goes, Ends, Running
<1>1. CASE ReceiveSignal
  BY <1>1 DEF ReceiveSignal, IInv, Early, Built, Ended, Asked, Drained, Late, Active,
              server, loops, bacnet
<1>2. CASE Cancel
  BY <1>2 DEF Cancel, IInv, Early, Built, Ended, Asked, Drained, Late, Active, server, loops
<1>3. CASE StopEngine
  BY <1>3 DEF StopEngine, IInv, Early, Built, Ended, Asked, Drained, Late, Active, server, bacnet
<1>4. CASE StopBacnet
  <2>1. UNCHANGED <<cancelled, loop, conn>>
    BY <1>4 DEF StopBacnet, B!CloseDone
  <2> QED BY <1>4, <2>1
          DEF StopBacnet, IInv, Early, Built, Ended, Asked, Drained, Late, Active, server, loops
<1>5. CASE CloseConn
  <2>1. UNCHANGED <<cancelled, loop>>
    BY <1>5 DEF CloseConn, B!CloseConn, bacnet
  <2> QED BY <1>5, <2>1
          DEF CloseConn, IInv, Early, Built, Ended, Asked, Drained, Late, Active, server, loops
<1>6. CASE StopApi
  BY <1>6 DEF StopApi, IInv, Early, Built, Ended, Asked, Drained, Late, Active, loops, bacnet
<1>7. CASE ShutdownReturns
  BY <1>7 DEF ShutdownReturns, IInv, Early, Built, Ended, Asked, Drained, Late, Active,
              server, loops, bacnet
<1>8. CASE Return
  BY <1>8 DEF Return, IInv, Early, Built, Ended, Asked, Drained, Late, Active,
              server, loops, bacnet
<1> QED BY <1>1, <1>2, <1>3, <1>4, <1>5, <1>6, <1>7, <1>8

\* The deadline of Shutdown passes.
LEMMA DeadlinePreserves == ASSUME IInv, DeadlinePasses PROVE IInv'
BY DEF DeadlinePasses, Running, Goes, IInv, Early, Built, Ended, Asked, Drained, Late, Active,
       server, loops, bacnet

LEMMA SignalsPreserve == ASSUME IInv, KillBySignal \/ Signal PROVE IInv'
<1> USE DEF Goes, Ends, Running, AskedFor, Elsewhere
<1>1. CASE KillBySignal
  BY <1>1 DEF KillBySignal, IInv, Early, Built, Ended, Asked, Drained, Late, Active,
              server, loops, bacnet
<1>2. CASE Signal
  BY <1>2 DEF Signal, IInv, Early, Built, Ended, Asked, Drained, Late, Active,
              server, loops, bacnet
<1> QED BY <1>1, <1>2

LEMMA EnginePreserves == ASSUME IInv, EngineStep PROVE IInv'
<1>1. \E from, to : Engine(from, to) /\ from # "none"
  BY DEF EngineStep, EngineStart, EngineTick, EngineTicked, EngineReturns
<1>2. /\ UNCHANGED <<cfg, main, devices, server, signal, signalled, timedOut, late, bacnet>>
      /\ Running /\ engine # "none"
  BY <1>1 DEF Engine
<1>3. \/ Goes
      \/ Ends("crashed") /\ \E ns \in TickDurations(cfg) : ns <= 0
  <2>1. TickDurations(cfg) \subseteq Int
    BY DurationsAreIntegers DEF IInv
  <2>2. CASE EngineStart
    <3>1. PICK ns \in TickDurations(cfg) : IF ns > 0 THEN Goes ELSE Ends("crashed")
      BY <2>2 DEF EngineStart
    <3>2. ns \in Int
      BY <2>1
    <3> QED BY <3>1, <3>2
  <2> QED BY <2>2 DEF EngineStep, EngineTick, EngineTicked, EngineReturns
<1>4. cfg' \in Configs /\ Asked' /\ Drained' /\ Late'
  BY <1>2 DEF IInv, Asked, Drained, Late, Active, server, bacnet
<1>5. Early' /\ Built'
  BY <1>2, <1>3 DEF IInv, Early, Built, Goes, Ends, Running, server, bacnet
<1>6. Ended'
  BY <1>2, <1>3 DEF IInv, Ended, Goes, Ends, Running
<1> QED BY <1>4, <1>5, <1>6 DEF IInv

\* The BACnet server as the others see it from an HTTP request.
LEMMA HttpLeavesBacnet ==
    ASSUME HttpStep PROVE UNCHANGED <<loop, cancelled, conn>>
<1>1. ASSUME NEW r, Store(r) PROVE UNCHANGED <<loop, cancelled, conn>>
  BY <1>1 DEF Store, B!RestWrite, bacnet
<1> QED BY <1>1 DEF HttpStep, HttpListen, HttpClosed, Arrive, Body, Respond, FindDevice,
                    BodyTimeout, bacnet

LEMMA HttpPreserves == ASSUME IInv, HttpStep PROVE IInv'
<1> DEFINE Moves == \E r \in DOMAIN requests, to \in RequestState \ {"none"} :
                      /\ requests' = [requests EXCEPT ![r] = to]
                      /\ \/ r \in Active
                         \/ http = "serving" /\ ~inShutdown
<1>1. /\ Http /\ Goes /\ UNCHANGED <<loop, cancelled, conn, inShutdown>>
      /\ http' = http \/ (http # "none" /\ http' # "none")
  <2>1. CASE HttpListen \/ HttpClosed
    BY <2>1, HttpLeavesBacnet DEF HttpListen, HttpClosed
  <2>2. ASSUME NEW r, Arrive(r) \/ Body(r) \/ Respond(r)
        PROVE  Http /\ Goes /\ UNCHANGED <<http, inShutdown>>
    BY <2>2 DEF Arrive, Body, Respond, FindDevice, BodyTimeout, Store, Transition
  <2> QED BY <2>1, <2>2, HttpLeavesBacnet DEF HttpStep
<1>2. UNCHANGED requests \/ Moves
  BY DEF HttpStep, HttpListen, HttpClosed, Arrive, Body, Respond, FindDevice,
         BodyTimeout, Store, Transition, RequestState, Active
<1>3. /\ requests' \in [1 .. MaxRequests -> RequestState]
      /\ Active' \subseteq Active \/ (http = "serving" /\ ~inShutdown)
  <2>1. requests \in [1 .. MaxRequests -> RequestState]
    BY DEF IInv, Drained
  <2>2. CASE Moves
    <3>1. PICK r \in DOMAIN requests, to \in RequestState \ {"none"} :
            /\ requests' = [requests EXCEPT ![r] = to]
            /\ r \in Active \/ (http = "serving" /\ ~inShutdown)
      BY <2>2
    <3>2. \A q \in DOMAIN requests : q # r => requests'[q] = requests[q]
      BY <2>1, <3>1
    <3>3. requests' \in [1 .. MaxRequests -> RequestState]
      BY <2>1, <3>1
    <3> QED BY <2>1, <3>1, <3>2, <3>3 DEF Active
  <2> QED BY <1>2, <2>1, <2>2 DEF Active
<1>4. UNCHANGED <<process, cfg, main, devices, engine, signal, signalled, timedOut, late>>
  BY <1>1 DEF Http, Goes, loops
<1>5. cfg' \in Configs /\ Early' /\ Built' /\ Ended'
  BY <1>1, <1>4 DEF IInv, Early, Built, Ended, Http, Running
<1>6. Asked' /\ Late'
  BY <1>1, <1>4 DEF IInv, Asked, Late
<1>7. Drained'
  BY <1>1, <1>3, <1>4 DEF IInv, Drained
<1> QED BY <1>5, <1>6, <1>7 DEF IInv

LEMMA BacnetPreserves == ASSUME IInv, BacnetStep PROVE IInv'
<1>1. /\ Beside /\ UNCHANGED <<cancelled, conn>>
      /\ \/ UNCHANGED late /\ (loop' = loop \/ loop' # "reading" \/ ~cancelled)
         \/ /\ loop = "reading" /\ loop' = "check"
            /\ late' = IF cancelled /\ late < 2 THEN late + 1 ELSE late
  <2>1. CASE BacnetReceive
    BY <2>1 DEF BacnetReceive, B!Receive
  <2>2. CASE BacnetLoop \/ BacnetError
    BY <2>2, SMTT(30) DEF BacnetLoop, BacnetError, B!LoopCheck, B!ReadFromClosed, B!ReadError, B!ReadFails
  <2>3. ASSUME NEW i, BacnetHandle(i)
        PROVE  Beside /\ UNCHANGED <<cancelled, conn, late, loop>>
    BY <2>3 DEF BacnetHandle, B!Handle, B!Parse, B!SendIAm, B!Find, B!ReadProperty,
                B!ReadNextProperty, B!WriteProperty, B!Send, B!Quiet
  <2> QED BY <2>1, <2>2, <2>3 DEF BacnetStep
<1>2. UNCHANGED <<process, cfg, main, devices, engine, http, inShutdown, requests, signal,
                  signalled, timedOut>>
  BY <1>1 DEF Beside, Goes, loops, server
<1>3. cfg' \in Configs /\ Early' /\ Built' /\ Ended'
  BY <1>1, <1>2 DEF IInv, Early, Built, Ended
<1>4. Asked' /\ Drained'
  BY <1>1, <1>2 DEF IInv, Asked, Drained, Active
<1>5. Late'
  BY <1>1 DEF IInv, Late
<1> QED BY <1>3, <1>4, <1>5 DEF IInv

\* The invariant holds throughout.
LEMMA Inductive == Spec => []IInv
<1>1. ASSUME IInv, UNCHANGED vars PROVE IInv'
  BY <1>1 DEF vars, IInv, Early, Built, Ended, Asked, Drained, Late, Active,
              loops, server, bacnet
<1>2. ASSUME IInv, Next PROVE IInv'
  BY <1>2, StartsPreserve, StopsPreserve, DeadlinePreserves, SignalsPreserve, EnginePreserves, HttpPreserves,
     BacnetPreserves DEF Next, MainStep
<1>3. IInv /\ [Next]_vars => IInv'
  BY <1>1, <1>2
<1> QED BY InitIInv, <1>3, PTL DEF Spec

----------------------------------------------------------------------------
(* The BACnet server of Lifecycle, and the one of BacnetServerProofs.      *)

\* What is assumed of the one is assumed of the other.
LEMMA ServerAssumed ==
    /\ Alone!NumSlotsAssumption /\ Alone!NoValueAssumption /\ Alone!ValueAssumption
    /\ Alone!NullAssumption /\ Alone!StoresAssumption /\ Alone!WidthsAssumption
    /\ Alone!TextsAssumption /\ Alone!RequestsAssumption
    /\ Alone!TempAssumption /\ Alone!BandAssumption /\ Alone!TimeAssumption
<1>1. Alone!TempAssumption /\ Alone!BandAssumption /\ Alone!TimeAssumption
  BY DEF Alone!TempAssumption, Alone!BandAssumption, Alone!TimeAssumption
<1>2. /\ Alone!NumSlotsAssumption /\ Alone!NoValueAssumption /\ Alone!ValueAssumption
      /\ Alone!WidthsAssumption
  BY ServerAssumption
     DEF B!NumSlotsAssumption, B!NoValueAssumption, B!ValueAssumption, B!WidthsAssumption,
         Alone!NumSlotsAssumption, Alone!NoValueAssumption, Alone!ValueAssumption,
         Alone!WidthsAssumption
<1>3. B!RequestsAssumption => Alone!RequestsAssumption
  BY Zenon DEF B!RequestsAssumption, B!Field, Alone!RequestsAssumption, Alone!Field
<1>4. B!NullAssumption => Alone!NullAssumption
  BY Zenon DEF B!NullAssumption, B!Reply, B!Single, B!ErrorKind, B!PointConstants,
               B!DeviceConstants, B!Ack, Alone!NullAssumption, Alone!Reply, Alone!Single,
               Alone!ErrorKind, Alone!PointConstants, Alone!DeviceConstants, Alone!Ack
<1>5. B!StoresAssumption => Alone!StoresAssumption
  BY Zenon DEF B!StoresAssumption, B!IsRegistry, B!Mapped, B!Optional, B!Slots, B!Priority,
               Alone!StoresAssumption, Alone!IsRegistry, Alone!Mapped, Alone!Optional,
               Alone!Slots, Alone!Priority
<1>6. B!TextsAssumption => Alone!TextsAssumption
  BY SMT DEF B!TextsAssumption, B!TwoBytes, Alone!TextsAssumption, Alone!TwoBytes
<1> QED
  BY <1>1, <1>2, <1>3, <1>4, <1>5, <1>6, ServerAssumption, PTL

LEMMA SameInit == B!Init <=> Alone!Init
BY DEF B!Init, Alone!Init

LEMMA SameLoop ==
    /\ B!Start <=> Alone!Start
    /\ B!CloseDone <=> Alone!CloseDone
    /\ B!CloseConn <=> Alone!CloseConn
    /\ B!LoopCheck <=> Alone!LoopCheck
    /\ B!ReadFromClosed <=> Alone!ReadFromClosed
    /\ B!ReadError <=> Alone!ReadError
    /\ B!Receive <=> Alone!Receive
<1> USE DEF B!stores, Alone!stores
<1>1. /\ B!Start <=> Alone!Start
      /\ B!CloseDone <=> Alone!CloseDone
      /\ B!CloseConn <=> Alone!CloseConn
  BY DEF B!Start, B!CloseDone, B!CloseConn, Alone!Start, Alone!CloseDone, Alone!CloseConn
<1>2. /\ B!LoopCheck <=> Alone!LoopCheck
      /\ B!ReadFromClosed <=> Alone!ReadFromClosed
      /\ B!ReadError <=> Alone!ReadError
  BY DEF B!LoopCheck, B!ReadFromClosed, B!ReadError, B!ReadFails,
         Alone!LoopCheck, Alone!ReadFromClosed, Alone!ReadError, Alone!ReadFails
<1>3. B!Receive <=> Alone!Receive
  BY DEF B!Receive, B!Overwrite, B!Spawned, Alone!Receive, Alone!Overwrite, Alone!Spawned
<1> QED
  BY <1>1, <1>2, <1>3

\* An accepted write.
LEMMA SameWrites ==
    ASSUME NEW by, NEW d, NEW n, NEW v, NEW p
    PROVE  /\ B!Accept(by, d, n, v, p) <=> Alone!Accept(by, d, n, v, p)
           /\ B!WriteReply(Registry[d], n, p) = Alone!WriteReply(Registry[d], n, p)
           /\ B!Ok = Alone!Ok
BY Zenon
   DEF B!Accept, B!SlotsAfterWrite, B!ValuesAfterWrite, B!WriteSlot, B!ActiveValue, B!Occupied,
       B!IsHighest, B!WriteReply, B!Ok, B!NotFound, B!NotWritable, B!NoArray, B!BadPriority,
       B!Priority,
       Alone!Accept, Alone!SlotsAfterWrite, Alone!ValuesAfterWrite, Alone!WriteSlot,
       Alone!ActiveValue, Alone!Occupied, Alone!IsHighest, Alone!WriteReply, Alone!Ok,
       Alone!NotFound, Alone!NotWritable, Alone!NoArray, Alone!BadPriority, Alone!Priority

LEMMA SameRestWrite ==
    ASSUME NEW d, NEW n, NEW v, NEW p
    PROVE  B!RestWrite(d, n, v, p) <=> Alone!RestWrite(d, n, v, p)
BY SameWrites, Zenon DEF B!RestWrite, Alone!RestWrite

\* The steps of a handler.
LEMMA SameHandler == ASSUME NEW i PROVE B!Handle(i) <=> Alone!Handle(i)
<1> USE DEF B!At, B!Becomes, B!Quiet, B!stores, B!Answer, B!Error, B!Constant, B!Results,
            B!DeviceConstants, B!PointConstants, B!Prop,
            Alone!At, Alone!Becomes, Alone!Quiet, Alone!stores, Alone!Answer, Alone!Error,
            Alone!Constant, Alone!Results, Alone!DeviceConstants, Alone!PointConstants, Alone!Prop
<1>1. B!Parse(i) <=> Alone!Parse(i)
  BY Zenon
     DEF B!Parse, B!Torn, B!Field, B!Dispatch, B!NeedsNoStore, B!EarlyReply, B!Mapped,
         B!ReadDevice, B!Undecodable,
         Alone!Parse, Alone!Torn, Alone!Field, Alone!Dispatch, Alone!NeedsNoStore, Alone!EarlyReply,
         Alone!Mapped, Alone!ReadDevice, Alone!Undecodable
<1>2. (B!SendIAm(i) <=> Alone!SendIAm(i)) /\ (B!Find(i) <=> Alone!Find(i))
  BY Zenon DEF B!SendIAm, B!Find, B!Holders, Alone!SendIAm, Alone!Find, Alone!Holders
<1>3. /\ B!ReadProperty(i) <=> Alone!ReadProperty(i)
      /\ B!ReadNextProperty(i) <=> Alone!ReadNextProperty(i)
  BY Zenon
     DEF B!ReadProperty, B!ReadNextProperty, B!RPValue, B!RPMValue, B!EncodeValue, B!Value1,
         B!ValueOf, B!NameOf, B!PropertyOf,
         Alone!ReadProperty, Alone!ReadNextProperty, Alone!RPValue, Alone!RPMValue,
         Alone!EncodeValue, Alone!Value1, Alone!ValueOf, Alone!NameOf, Alone!PropertyOf
<1>4. B!WriteProperty(i) <=> Alone!WriteProperty(i)
  BY Zenon
     DEF B!WriteProperty, B!DecodedValue, B!DecodedPriority, B!NameOf, B!Ack,
         B!Accept, B!SlotsAfterWrite, B!ValuesAfterWrite, B!WriteSlot, B!ActiveValue, B!Occupied,
         B!IsHighest, B!WriteReply, B!Ok, B!NotFound, B!NotWritable, B!NoArray, B!BadPriority,
         B!Priority,
         Alone!WriteProperty, Alone!DecodedValue, Alone!DecodedPriority, Alone!NameOf, Alone!Ack,
         Alone!Accept, Alone!SlotsAfterWrite, Alone!ValuesAfterWrite, Alone!WriteSlot,
         Alone!ActiveValue, Alone!Occupied, Alone!IsHighest, Alone!WriteReply, Alone!Ok,
         Alone!NotFound, Alone!NotWritable, Alone!NoArray, Alone!BadPriority, Alone!Priority
<1>5. ASSUME NEW n PROVE B!LongString(n) = Alone!LongString(n)
  BY Zenon DEF B!LongString, B!LongStringLen, B!Text, B!Element, B!Bytes2,
               Alone!LongString, Alone!LongStringLen, Alone!Text, Alone!Element, Alone!Bytes2
<1>6. ASSUME NEW v PROVE B!LongUnsigned(v) = Alone!LongUnsigned(v)
  BY SMT DEF B!LongUnsigned, B!LongUnsignedLen, B!Element, B!Bytes2, B!Bytes4,
               Alone!LongUnsigned, Alone!LongUnsignedLen, Alone!Element, Alone!Bytes2, Alone!Bytes4
<1>7. ASSUME NEW h, NEW r PROVE B!OnWire(h, r) = Alone!OnWire(h, r)
  BY <1>5, <1>6, Zenon
     DEF B!OnWire, B!LongEnumerated, B!LongReal, B!Element,
         Alone!OnWire, Alone!LongEnumerated, Alone!LongReal, Alone!Element
<1>8. ASSUME NEW h PROVE B!Elements(h) = Alone!Elements(h)
  BY <1>7, SMT DEF B!Elements, Alone!Elements
<1>9. B!Send(i) <=> Alone!Send(i)
  BY <1>8, Zenon DEF B!Send, Alone!Send
<1> QED
  BY <1>1, <1>2, <1>3, <1>4, <1>9 DEF B!Handle, Alone!Handle

\* What is promised.
LEMMA SamePromises ==
    /\ Alone!TypeOK => B!TypeOK
    /\ Alone!RepliesAreTrue => B!RepliesAreTrue
    /\ Alone!UndisturbedAnswers => B!UndisturbedAnswers
    /\ Alone!StoresHoldWrites => B!StoresHoldWrites
    /\ Alone!RepliesDecode => B!RepliesDecode
<1>1. Alone!TypeOK => B!TypeOK
  BY Zenon
     DEF B!TypeOK, B!Optional, B!Slots, B!Priority, B!Field, B!Reply, B!Single, B!Ack,
         B!ErrorKind, B!PointConstants, B!DeviceConstants,
         Alone!TypeOK, Alone!Optional, Alone!Slots, Alone!Priority, Alone!Field, Alone!Reply,
         Alone!Single, Alone!Ack, Alone!ErrorKind, Alone!PointConstants, Alone!DeviceConstants
<1>2. ASSUME Alone!RepliesAreTrue PROVE B!RepliesAreTrue
  <2>1. ASSUME NEW S PROVE B!Cardinality(S) = Alone!Cardinality(S)
    BY Zenon DEF B!Cardinality, Alone!Cardinality
  <2> QED
    BY <1>2, <2>1, SMT DEF B!RepliesAreTrue, B!Ack, Alone!RepliesAreTrue, Alone!Ack
<1>3. Alone!UndisturbedAnswers => B!UndisturbedAnswers
  BY ZenonT(30) DEF B!UndisturbedAnswers, B!AnswersPacket, Alone!UndisturbedAnswers, Alone!AnswersPacket
<1>4. Alone!StoresHoldWrites => B!StoresHoldWrites
  BY Zenon
     DEF B!StoresHoldWrites, B!ActiveValue, B!Occupied, B!IsHighest, B!Priority,
         Alone!StoresHoldWrites, Alone!ActiveValue, Alone!Occupied, Alone!IsHighest, Alone!Priority
<1>5. Alone!RepliesDecode => B!RepliesDecode
  BY SMT
     DEF B!RepliesDecode, B!Number, B!WellFramed, B!HeaderLength, B!DataLength,
         Alone!RepliesDecode, Alone!Number, Alone!WellFramed, Alone!HeaderLength, Alone!DataLength
<1> QED
  BY <1>1, <1>2, <1>3, <1>4, <1>5

\* What is proved of the server alone.
LEMMA AloneInit == Alone!Init => Alone!IInv
BY ServerAssumed, Alone!InitIInv, PTL

LEMMA AloneNext == Alone!IInv /\ [Alone!Next]_(Alone!vars) => Alone!IInv'
BY ServerAssumed, Alone!NextIInv, PTL

LEMMA AloneAside ==
    ASSUME Alone!IInv, UNCHANGED <<Alone!stores, handlers>>,
           loop' \in {"new", "check", "reading", "stopped"}, loop' = "new" => loop = "new",
           done' \in BOOLEAN, cancelled' \in BOOLEAN, conn' \in {"none", "open", "closed"},
           conn' = "open" => conn = "open" \/ handlers = <<>>
    PROVE  Alone!IInv'
BY ServerAssumed, Alone!AsideKeeps, PTL

LEMMA AloneHolds ==
    ASSUME Alone!IInv
    PROVE  /\ Alone!TypeOK /\ Alone!RepliesAreTrue /\ Alone!UndisturbedAnswers
           /\ Alone!StoresHoldWrites /\ Alone!RepliesDecode
<1>1. Alone!TypeOK /\ Alone!RepliesAreTrue
  BY ServerAssumed, Alone!TypesHold, Alone!TruthHolds, PTL
<1>2. Alone!UndisturbedAnswers
  BY ServerAssumed, Alone!AnswersHold, PTL
<1>3. Alone!StoresHoldWrites
  BY DEF Alone!IInv
<1>4. Alone!RepliesDecode
  BY ServerAssumed, Alone!DecodingHolds, PTL
<1> QED
  BY <1>1, <1>2, <1>3, <1>4
----------------------------------------------------------------------------
(* The BACnet server within the process does what it would do alone, is    *)
(* written to by HTTP requests, or is told to stop.                        *)

\* The devices of a process that has come far enough are those of the stores.
LEMMA DevicesAreStores ==
    ASSUME NEW c \in Configs, Loads(c)
    PROVE  DOMAIN DeviceMap(c) = Device
<1>1. DOMAIN DeviceMap(c) = {c.devices[i].id : i \in DOMAIN c.devices}
  BY DEF DeviceMap
<1> QED
  BY <1>1, ConfigsAssumption

\* What a request writes, it writes to a store that the server has.
LEMMA RequestsWriteStores ==
    ASSUME IInv, NEW r \in DOMAIN requests, Store(r)
    PROVE  \/ UNCHANGED bacnet
           \/ \E d \in Device : \E n \in Registry[d].writable, v \in Value, p \in 1 .. NumSlots :
                B!RestWrite(d, n, v, p)
<1>1. process = "running" /\ r \in Active
  BY DEF Store, Transition, Http, Running, Active
<1>2. main \notin {"load", "build"}
  BY <1>1 DEF IInv, Early, Drained
<1>3. DOMAIN devices = Device
  BY <1>1, <1>2, DevicesAreStores DEF IInv, Built
<1> QED
  BY <1>3, Zenon DEF Store

LEMMA BacnetMoves ==
    ASSUME IInv, [Next]_vars
    PROVE  \/ UNCHANGED bacnet
           \/ Cancel
           \/ B!Start \/ B!CloseDone \/ B!CloseConn
           \/ B!LoopCheck \/ B!ReadFromClosed \/ B!ReadError \/ B!Receive
           \/ \E i \in DOMAIN handlers : B!Handle(i)
           \/ \E d \in Device : \E n \in Registry[d].writable, v \in Value, p \in 1 .. NumSlots :
                B!RestWrite(d, n, v, p)
<1>1. CASE MainStep
  BY <1>1, Zenon
     DEF MainStep, Load, Build, StartEngine, StartApi, StartBacnet, Notify, Block, ReceiveSignal,
         StopEngine, StopBacnet, CloseConn, StopApi, ShutdownReturns, Return
<1>2. CASE DeadlinePasses \/ KillBySignal \/ Signal
  BY <1>2 DEF DeadlinePasses, KillBySignal, Signal, Elsewhere
<1>3. CASE EngineStep
  BY <1>3 DEF EngineStep, EngineStart, EngineTick, EngineTicked, EngineReturns, Engine
<1>4. CASE HttpStep
  <2>1. CASE HttpListen \/ HttpClosed
    BY <2>1 DEF HttpListen, HttpClosed
  <2>2. ASSUME NEW r \in DOMAIN requests, Arrive(r) \/ Body(r) \/ FindDevice(r) \/ BodyTimeout(r)
        PROVE  UNCHANGED bacnet
    BY <2>2 DEF Arrive, Body, FindDevice, BodyTimeout
  <2> QED
    BY <1>4, <2>1, <2>2, RequestsWriteStores, Zenon DEF HttpStep, Respond
<1>5. CASE BacnetStep
  BY <1>5, Zenon DEF BacnetStep, BacnetReceive, BacnetLoop, BacnetError, BacnetHandle
<1>6. CASE UNCHANGED vars
  BY <1>6 DEF vars
<1> QED
  BY <1>1, <1>2, <1>3, <1>4, <1>5, <1>6 DEF Next

\* So it keeps the invariant it would keep alone.
LEMMA ServerKeeps ==
    ASSUME IInv, Alone!IInv, [Next]_vars
    PROVE  Alone!IInv'
<1>1. CASE Cancel
  <2>1. /\ UNCHANGED <<Alone!stores, handlers, loop, done, conn>>
        /\ cancelled' = TRUE
    BY <1>1 DEF Cancel, Alone!stores
  <2>2. /\ loop \in {"new", "check", "reading", "stopped"}
        /\ done \in BOOLEAN /\ conn \in {"none", "open", "closed"}
    BY DEF Alone!IInv, Alone!ServerTyped
  <2> QED
    BY <2>1, <2>2, AloneAside
<1>2. CASE UNCHANGED bacnet
  <2>1. UNCHANGED Alone!vars
    BY <1>2 DEF bacnet, Alone!vars, Alone!stores
  <2> QED
    BY <2>1, AloneNext
<1>3. CASE \/ B!Start \/ B!CloseDone \/ B!CloseConn
           \/ B!LoopCheck \/ B!ReadFromClosed \/ B!ReadError \/ B!Receive
  <2>1. Alone!Next
    BY <1>3, SameLoop DEF Alone!Next
  <2> QED
    BY <2>1, AloneNext
<1>4. ASSUME NEW i \in DOMAIN handlers, B!Handle(i) PROVE Alone!IInv'
  <2>1. Alone!Next
    BY <1>4, SameHandler DEF Alone!Next
  <2> QED
    BY <2>1, AloneNext
<1>5. ASSUME NEW d \in Device, NEW n \in Registry[d].writable, NEW v \in Value,
             NEW p \in 1 .. NumSlots, B!RestWrite(d, n, v, p)
      PROVE  Alone!IInv'
  <2>1. Alone!RestWrite(d, n, v, p)
    BY <1>5, SameRestWrite
  <2>2. Alone!Next
    BY <2>1, Zenon DEF Alone!Next, Alone!Priority
  <2> QED
    BY <2>2, AloneNext
<1> QED
  BY <1>1, <1>2, <1>3, <1>4, <1>5, BacnetMoves, Zenon

LEMMA ServerInvariance == Spec => []Alone!IInv
<1>1. Init => Alone!IInv
  BY SameInit, AloneInit DEF Init
<1>2. IInv /\ Alone!IInv /\ [Next]_vars => Alone!IInv'
  BY ServerKeeps
<1> QED
  BY <1>1, <1>2, Inductive, PTL DEF Spec

----------------------------------------------------------------------------
(* Types.                                                                  *)

Types ==
    /\ process \in {"running", "failed", "killed", "crashed", "exited"}
    /\ engine \in {"none", "spawned", "select", "tick", "ended"}
    /\ http \in {"none", "spawned", "serving", "ended"}
    /\ engDone \in BOOLEAN /\ inShutdown \in BOOLEAN
    /\ signal \in {"none", "buffered", "received"}
    /\ signalled \in BOOLEAN /\ timedOut \in BOOLEAN

LEMMA InitTypes == Init => Types
BY DEF Init, Types

LEMMA TypesKept ==
    ASSUME Types, cfg \in Configs, [Next]_vars
    PROVE  Types'
<1> USE DEF Types, Goes, Ends
<1>0. cfg.api.enabled \in BOOLEAN
  BY ConfigsAssumption
<1>1. CASE MainStep
  BY <1>0, <1>1 DEF MainStep, Load, Build, StartEngine, StartApi, StartBacnet, Notify, Block,
         ReceiveSignal, Cancel, StopEngine, StopBacnet, CloseConn, StopApi, ShutdownReturns,
         Return, Main, loops, server
<1>2. CASE DeadlinePasses \/ KillBySignal \/ Signal
  BY <1>2 DEF DeadlinePasses, KillBySignal, Signal, Elsewhere, loops, server
<1>3. CASE EngineStep
  <2>1. CASE EngineStart
    BY <2>1 DEF EngineStart, Engine, server
  <2>2. CASE EngineTick \/ EngineTicked \/ EngineReturns
    BY <2>2 DEF EngineTick, EngineTicked, EngineReturns, Engine, server
  <2> QED
    BY <1>3, <2>1, <2>2 DEF EngineStep
<1>4. CASE HttpStep
  <2>1. CASE HttpListen \/ HttpClosed
    BY <2>1 DEF HttpListen, HttpClosed, Http, loops
  <2>2. ASSUME NEW r \in DOMAIN requests, Arrive(r) \/ Body(r) \/ Respond(r)
        PROVE  Http /\ Goes /\ UNCHANGED <<http, inShutdown>>
    BY <2>2 DEF Arrive, Body, Respond, FindDevice, BodyTimeout, Store, Transition
  <2> QED
    BY <1>4, <2>1, <2>2 DEF HttpStep, Http, loops
<1>5. CASE BacnetStep
  BY <1>5 DEF BacnetStep, BacnetReceive, BacnetLoop, BacnetError, BacnetHandle, Beside,
              loops, server
<1>6. CASE UNCHANGED vars
  BY <1>6 DEF vars, loops, server
<1> QED
  BY <1>1, <1>2, <1>3, <1>4, <1>5, <1>6 DEF Next

LEMMA TypesInvariance == Spec => []Types
<1>1. IInv /\ Types /\ [Next]_vars => Types'
  BY TypesKept DEF IInv
<1> QED
  BY InitTypes, <1>1, Inductive, PTL DEF Spec

----------------------------------------------------------------------------
(* The theorems.                                                           *)

\* No HTTP request that reached a handler is cut off by main's end, unless the
\* deadline of Shutdown passed (main.go:72-78).
THEOREM NoRequestCutOff == Spec => []RequestsDrained
<1>1. IInv => RequestsDrained
  BY DEF IInv, Ended, Drained, RequestsDrained
<1> QED BY Inductive, <1>1, PTL

\* After cancel() the BACnet server takes in one more datagram at most
\* (server.go:71-99).
THEOREM OneDatagramLate == Spec => []OneLateDatagram
<1>1. IInv => OneLateDatagram
  BY DEF IInv, Late, OneLateDatagram
<1> QED BY Inductive, <1>1, PTL

\* Every configuration that is accepted, of any number of devices, gives an
\* engine that ticks each of them (config.go:95-155, engine.go:56-100, 177).
THEOREM EveryAcceptedDeviceTicks == Spec => []EveryDeviceTicks
<1>1. ASSUME IInv PROVE EveryDeviceTicks
  <2>1. ASSUME engine # "none" PROVE cfg \in Configs /\ Loads(cfg) /\ devices = DeviceMap(cfg)
    BY <1>1, <2>1 DEF IInv, Early, Built, Ended
  <2> QED BY <2>1, AcceptedDevicesTick DEF EveryDeviceTicks
<1> QED BY Inductive, <1>1, PTL

\* The process exits only for a signal, fails only by its configuration and
\* before anything is open, and crashes only for its interval (main.go:57-95).
THEOREM EndsAsDesigned == Spec => []OnlySignalsEnd
<1>1. IInv => OnlySignalsEnd
  BY DEF IInv, Ended, Asked, OnlySignalsEnd
<1> QED BY Inductive, <1>1, PTL

\* The process and its parts are always in a known state, and the types of the
\* BACnet server's stores and goroutines hold within it (main.go:19-107).
THEOREM TypeCorrect == Spec => []TypeOK
<1>1. ASSUME IInv, Types, Alone!IInv PROVE TypeOK
  BY <1>1, AloneHolds, SamePromises DEF IInv, Drained, Late, Types, TypeOK
<1> QED
  BY Inductive, TypesInvariance, ServerInvariance, <1>1, PTL

\* Whenever main starts and stops the BACnet server, and whatever HTTP requests
\* write meanwhile, it keeps what it promises: each acknowledged write is one
\* that a store took, an undisturbed request is answered as it was asked, the
\* stores hold what was written last, and replies decode (main.go:80-107,
\* server.go:62-338).
THEOREM ServerKeepsPromises ==
    Spec => [](/\ B!RepliesAreTrue /\ B!UndisturbedAnswers
               /\ B!StoresHoldWrites /\ B!RepliesDecode)
<1>1. ASSUME Alone!IInv
      PROVE  B!RepliesAreTrue /\ B!UndisturbedAnswers /\ B!StoresHoldWrites /\ B!RepliesDecode
  BY <1>1, AloneHolds, SamePromises
<1> QED
  BY ServerInvariance, <1>1, PTL
=============================================================================
