------------------------------ MODULE LidarProofs ------------------------------
(****************************************************************************)
(* For any number of callers that call one at a time and pair each start()   *)
(* with a stop(), as Application does: stop() is final, the sink outlives    *)
(* the worker, the device does not leak, std::terminate is not reached, and  *)
(* Lidar implements what Acquisition promises its consumer.                  *)
(*                                                                          *)
(* The invariant follows the one call that may be in progress: each of its   *)
(* stages fixes what the worker, the device and the sink can be.             *)
(*                                                                          *)
(* Then the device itself, however its bring-up fails: fully open or fully   *)
(* closed between two calls, which is what Lidar takes it for.               *)
(****************************************************************************)
EXTENDS Lidar, RpLidarDevice, TLAPS

Types ==
    /\ device \in {"open", "closed"}
    /\ running \in BOOLEAN /\ callback \in BOOLEAN /\ quiesced \in BOOLEAN
    /\ thread \in {"none", "joinable"}
    /\ wpc \in WorkerPC
    /\ backoffNext \in {"reopen", "check"}
    /\ cpc \in [Callers -> CallerPC]

\* At most one call is in progress.
OneCall == \A c, d \in Callers : cpc[c] # "idle" /\ cpc[d] # "idle" => c = d

\* A thread object stands for a worker, alive or ended, and the worker has a
\* sink and leaves the device closed.
ThreadIsWorker ==
    /\ thread = "joinable" <=> wpc # "none"
    /\ wpc # "dead"
    /\ wpc # "none" => callback /\ ~quiesced
    /\ wpc \in {"exitFlag", "exited"} => device = "closed"

\* Each stage of start() and stop().
Stage(c) ==
    /\ cpc[c] # "dead"
    /\ cpc[c] \in {"reset", "open", "flag", "spawn"} => thread = "none" /\ ~quiesced
    /\ cpc[c] \in {"reset", "open"} => device = "closed"
    /\ cpc[c] \in {"reset", "open", "flag"} => ~running
    /\ cpc[c] \in {"open", "flag", "spawn"} => callback
    /\ cpc[c] = "close" => thread = "none"

\* Between the calls, and while stop() has not got past the join, an open
\* device or a set flag belongs to a worker.
Owned ==
    (\A c \in Callers : cpc[c] \in {"idle", "notify", "join", "reset", "open"})
        => /\ thread = "none" => device = "closed" /\ ~running
           /\ ~quiesced /\ thread = "none" => \E c \in Callers : cpc[c] \in {"reset", "open"}

IInv ==
    /\ Types /\ OneCall /\ ThreadIsWorker
    /\ \A c \in Callers : Stage(c)
    /\ Owned
    /\ StopIsFinal

-----------------------------------------------------------------------------

\* Nothing runs and nothing is open to begin with.
LEMMA InitIInv == Init => IInv
<1> SUFFICES ASSUME Init PROVE IInv
  OBVIOUS
<1>1. Types
  BY DEF Init, Types, WorkerPC, CallerPC
<1>2. QED
  BY <1>1 DEF Init, IInv, OneCall, ThreadIsWorker, Stage, Owned, StopIsFinal

\* Every step of the worker keeps the invariant: only GrabFrame leads to the
\* callback, and the two last steps leave the device closed.
LEMMA WorkerIInv == ASSUME IInv, WorkerStep PROVE IInv'
<1> USE DEF IInv, Types, OneCall, ThreadIsWorker, Stage, Owned, StopIsFinal, WorkerPC, CallerPC,
            Goto, flags
<1>1. CASE Check
  BY <1>1 DEF Check, AfterCheck
<1>2. CASE AcquireClosed \/ GrabFrame
  BY <1>2 DEF AcquireClosed, GrabFrame
<1>3. CASE GrabEmpty \/ GrabFails
  BY <1>3 DEF GrabEmpty, GrabFails
<1>4. CASE CallbackReturns \/ RetryOnLink
  BY <1>4 DEF CallbackReturns, RetryOnLink
<1>5. CASE Discard
  BY <1>5 DEF Discard
<1>6. CASE Decide
  BY <1>6 DEF Decide
<1>7. CASE Test \/ Block \/ TimeOut
  BY <1>7 DEF Test, Block, TimeOut
<1>8. CASE ReopenSucceeds
  BY <1>8 DEF ReopenSucceeds, OpenSucceeds
<1>9. CASE ReopenFails
  BY <1>9 DEF ReopenFails, OpenFails, AfterFailedReopen
<1>10. CASE ExitClose
  BY <1>10 DEF ExitClose, DeviceOnExit
<1>11. CASE ExitFlag
  BY <1>11 DEF ExitFlag
<1>12. QED
  BY <1>1, <1>2, <1>3, <1>4, <1>5, <1>6, <1>7, <1>8, <1>9, <1>10, <1>11 DEF WorkerStep

\* Every step of a call keeps the invariant, because no other call is under way.
LEMMA CallerIInv ==
    ASSUME Serial, Paired, IInv, NEW c \in Callers, CallerCall(c) \/ CallerStep(c)
    PROVE  IInv'
<1> USE DEF IInv, Types, OneCall, ThreadIsWorker, Stage, Owned, StopIsFinal, WorkerPC, CallerPC,
            CallerGoto, MayCall, worker, flags
<1>1. CASE StartRefused(c)
  BY <1>1 DEF StartRefused
<1>2. CASE StartCall(c)
  BY <1>2 DEF StartCall
<1>3. CASE StopCall(c)
  BY <1>3 DEF StopCall
<1>4. CASE StartReset(c)
  BY <1>4 DEF StartReset
<1>5. CASE StartOpens(c)
  BY <1>5 DEF StartOpens, OpenSucceeds
<1>6. CASE StartOpenFails(c)
  BY <1>6 DEF StartOpenFails, OpenFails, CallbackOnFailure
<1>7. CASE StartFlag(c)
  BY <1>7 DEF StartFlag
<1>8. CASE StartSpawn(c)
  BY <1>8 DEF StartSpawn
<1>9. CASE StartSpawnFails(c)
  BY <1>9 DEF StartSpawnFails, CallbackOnFailure, DeviceOnSpawnFailure
<1>10. CASE StopNotify(c)
  BY <1>10 DEF StopNotify, Goto
<1>11. CASE StopJoin(c)
  BY <1>11 DEF StopJoin, Joined, ThreadAfterJoin
<1>12. CASE StopClose(c)
  BY <1>12 DEF StopClose
<1>13. QED
  BY <1>1, <1>2, <1>3, <1>4, <1>5, <1>6, <1>7, <1>8, <1>9, <1>10, <1>11, <1>12
     DEF CallerCall, CallerStep

LEMMA Invariant == ASSUME Serial, Paired PROVE Spec => []IInv
<1>1. IInv /\ [Next]_vars => IInv'
  <2> SUFFICES ASSUME IInv, [Next]_vars PROVE IInv'
    OBVIOUS
  <2>1. CASE SetLink
    BY <2>1 DEF SetLink, IInv, Types, OneCall, ThreadIsWorker, Stage, Owned, StopIsFinal,
                flags, worker
  <2>2. CASE WorkerStep
    BY <2>2, WorkerIInv
  <2>3. CASE \E c \in Callers : CallerCall(c) \/ CallerStep(c)
    BY <2>3, CallerIInv
  <2>4. CASE UNCHANGED vars
    BY <2>4 DEF vars, IInv, Types, OneCall, ThreadIsWorker, Stage, Owned, StopIsFinal,
                flags, worker
  <2>5. QED
    BY <2>1, <2>2, <2>3, <2>4 DEF Next
<1>2. QED
  BY <1>1, InitIInv, PTL DEF Spec

-----------------------------------------------------------------------------

\* When stop() has returned the worker is gone, the device closed and the sink
\* dropped (Lidar.cpp stop; Lidar.hpp:164).
THEOREM StopFinal == ASSUME Serial, Paired PROVE Spec => []StopIsFinal
<1>1. IInv => StopIsFinal
  BY DEF IInv
<1>2. QED
  BY <1>1, Invariant, PTL

\* The worker always has a sink to deliver to.
THEOREM SinkOutlivesWorker == ASSUME Serial, Paired PROVE Spec => []SinkWhileWorking
<1>1. IInv => SinkWhileWorking
  BY DEF IInv, ThreadIsWorker, SinkWhileWorking
<1>2. QED
  BY <1>1, Invariant, PTL

\* "There is no way to leak the device" (Lidar.hpp:119).
THEOREM DeviceNotLeaked == ASSUME Serial, Paired PROVE Spec => []NoLeak
<1>1. IInv => NoLeak
  <2> SUFFICES ASSUME IInv, device = "open" PROVE NoLeak
    BY DEF NoLeak
  <2>1. CASE \E c \in Callers : cpc[c] \in {"flag", "spawn", "close"}
    BY <2>1 DEF NoLeak
  <2>2. CASE \A c \in Callers : cpc[c] \notin {"flag", "spawn", "close"}
    <3>1. thread = "joinable"
      BY <2>2 DEF IInv, Owned, Types, CallerPC, Stage
    <3>2. QED
      BY <3>1 DEF IInv, ThreadIsWorker, NoLeak
  <2>3. QED
    BY <2>1, <2>2
<1>2. QED
  BY <1>1, Invariant, PTL

\* start() never assigns a thread to a joinable one.
THEOREM NoTerminate == ASSUME Serial, Paired PROVE Spec => []NeverTerminates
<1>1. IInv => NeverTerminates
  BY DEF IInv, ThreadIsWorker, NeverTerminates
<1>2. QED
  BY <1>1, Invariant, PTL

\* The consumer is called only between a start() and the return of its stop(),
\* with consecutive sequence numbers.
THEOREM ImplementsAcquisition == ASSUME Serial, Paired PROVE Spec => ConsumerSpec
<1>1. Init => Consumer!Init
  BY DEF Init, Consumer!Init
<1>2. IInv /\ [Next]_vars => [Consumer!Next]_<<~quiesced, seq>>
  <2> SUFFICES ASSUME IInv, [Next]_vars PROVE [Consumer!Next]_<<~quiesced, seq>>
    OBVIOUS
  <2> USE DEF Consumer!Next, Consumer!Attach, Consumer!Deliver, Consumer!Detach
  <2>1. CASE GrabFrame
    <3>1. ~quiesced /\ UNCHANGED quiesced /\ seq' = (seq + 1) % SeqMod
      BY <2>1 DEF GrabFrame, IInv, ThreadIsWorker, flags
    <3>2. QED
      BY <3>1
  <2>2. CASE WorkerStep /\ ~GrabFrame
    <3>1. UNCHANGED <<quiesced, seq>>
      BY <2>2 DEF WorkerStep, Check, AcquireClosed, GrabEmpty, GrabFails, CallbackReturns,
                  RetryOnLink, Discard, Decide, Test, Block, TimeOut, ReopenSucceeds,
                  ReopenFails, ExitClose, ExitFlag, flags
    <3>2. QED
      BY <3>1
  <2>3. ASSUME NEW c \in Callers, CallerCall(c) \/ CallerStep(c)
        PROVE  [Consumer!Next]_<<~quiesced, seq>>
    <3>1. UNCHANGED seq /\ (UNCHANGED quiesced \/ quiesced' = TRUE \/ quiesced' = FALSE)
      BY <2>3 DEF CallerCall, CallerStep, StartRefused, StartCall, StopCall, StartReset,
                  StartOpens, StartOpenFails, StartFlag, StartSpawn, StartSpawnFails,
                  StopNotify, StopJoin, StopClose, flags, worker
    <3>2. QED
      BY <3>1
  <2>4. CASE SetLink \/ UNCHANGED vars
    BY <2>4 DEF SetLink, vars, flags, worker
  <2>5. QED
    BY <2>1, <2>2, <2>3, <2>4 DEF Next
<1>3. QED
  BY <1>1, <1>2, Invariant, PTL DEF Spec, ConsumerSpec, Consumer!Spec, Consumer!vars

-----------------------------------------------------------------------------

\* The worker backs off on a closed device with its count reset.
Waiting == {"decide", "test", "block", "sleep", "reopen"}

\* On an open connection consecutive_failures counts the failures in a row on
\* that connection; it starts at zero on each.
Counted ==
    /\ wpc \in Waiting => device = "closed" /\ failures = 0
    /\ device = "open" =>
         /\ wpc \in {"check", "acquire"} => streak = failures
         /\ wpc = "failed" => streak = failures + 1
         /\ wpc = "callback" => streak = 0
         /\ \A c \in Callers : cpc[c] \in {"flag", "spawn"} => streak = 0

\* What is left of the type invariant.
Rest ==
    /\ autoReconnect \in Reconnects
    /\ link \in {"absent", "flaky", "good"}
    /\ stopRequested \in BOOLEAN
    /\ lastError \in ErrorKind
    /\ failures \in 0..(MaxFailures - 1)
    /\ seq \in 0..(SeqMod - 1)
    /\ streak \in 0..MaxFailures

\* Nothing has been counted to begin with.
LEMMA InitCounted == Init => Counted /\ Rest
<1>1. 0 \in 0..(MaxFailures - 1) /\ 0 \in 0..(SeqMod - 1) /\ 0 \in 0..MaxFailures
  BY MaxFailuresAssumption, SeqModAssumption
<1>2. QED
  BY <1>1 DEF Init, Counted, Waiting, Rest, ErrorKind

\* The worker's steps: each failure on a connection is counted once, each good
\* or empty revolution clears the count, and the last tolerated failure closes
\* the device.
LEMMA WorkerCounted == ASSUME IInv, Counted, Rest, WorkerStep PROVE Counted' /\ Rest'
<1> USE MaxFailuresAssumption, SeqModAssumption
    DEF Counted, Rest, Waiting, Goto, flags, setting, ErrorKind
<1>1. CASE Check \/ AcquireClosed
  BY <1>1 DEF Check, AfterCheck, AcquireClosed
<1>2. CASE GrabFrame
  <2>1. (seq + 1) % SeqMod \in 0..(SeqMod - 1)
    OBVIOUS
  <2>2. QED
    BY <1>2, <2>1 DEF GrabFrame, IInv, Stage, Owned, ThreadIsWorker
<1>3. CASE GrabEmpty
  BY <1>3 DEF GrabEmpty, AfterSuccess
<1>4. CASE GrabFails
  <2>1. \A c \in Callers : cpc[c] \notin {"flag", "spawn"}
    BY <1>4 DEF GrabFails, IInv, Stage, ThreadIsWorker
  <2>2. QED
    BY <1>4, <2>1 DEF GrabFails, ErrorAfterFailedGrab
<1>5. CASE CallbackReturns
  BY <1>5 DEF CallbackReturns, AfterSuccess
<1>6. CASE RetryOnLink
  BY <1>6 DEF RetryOnLink, Tolerated
<1>7. CASE Discard
  BY <1>7 DEF Discard
<1>8. CASE Decide \/ Test \/ Block \/ TimeOut
  BY <1>8 DEF Decide, Test, Block, TimeOut, IInv, Types
<1>9. CASE ReopenSucceeds
  BY <1>9 DEF ReopenSucceeds, OpenSucceeds
<1>10. CASE ReopenFails
  BY <1>10 DEF ReopenFails, OpenFails, AfterFailedReopen
<1>11. CASE ExitClose \/ ExitFlag
  BY <1>11 DEF ExitClose, DeviceOnExit, ExitFlag
<1>12. QED
  BY <1>1, <1>2, <1>3, <1>4, <1>5, <1>6, <1>7, <1>8, <1>9, <1>10, <1>11 DEF WorkerStep

\* The steps of a call: a connection opened by start() has no failure yet when
\* its worker is created with a count of zero.
LEMMA CallerCounted ==
    ASSUME Serial, Paired, IInv, Counted, Rest, NEW c \in Callers,
           CallerCall(c) \/ CallerStep(c)
    PROVE  Counted' /\ Rest'
<1> USE MaxFailuresAssumption
    DEF Counted, Rest, Waiting, CallerGoto, worker, flags, setting, ErrorKind, Types, CallerPC
<1>0. cpc \in [Callers -> CallerPC]
  BY DEF IInv
<1>1. CASE StartRefused(c) \/ StartCall(c) \/ StopCall(c) \/ StartReset(c) \/ StartFlag(c)
  BY <1>0, <1>1 DEF StartRefused, StartCall, StopCall, StartReset, StartFlag
<1>2. CASE StartOpens(c)
  <2>1. wpc = "none"
    BY <1>2 DEF StartOpens, IInv, Stage, ThreadIsWorker
  <2>2. QED
    BY <1>0, <1>2, <2>1 DEF StartOpens, OpenSucceeds
<1>3. CASE StartOpenFails(c)
  BY <1>3 DEF StartOpenFails, OpenFails
<1>4. CASE StartSpawn(c)
  <2>1. thread = "none"
    BY <1>4 DEF StartSpawn, IInv, Stage
  <2>2. 0 \in 0..(MaxFailures - 1)
    OBVIOUS
  <2>3. QED
    BY <1>0, <1>4, <2>1, <2>2 DEF StartSpawn
<1>5. CASE StartSpawnFails(c) \/ StopClose(c)
  BY <1>5 DEF StartSpawnFails, DeviceOnSpawnFailure, StopClose
<1>6. CASE StopNotify(c)
  BY <1>0, <1>6 DEF StopNotify, Goto, IInv
<1>7. CASE StopJoin(c)
  BY <1>0, <1>7 DEF StopJoin
<1>8. QED
  BY <1>1, <1>2, <1>3, <1>4, <1>5, <1>6, <1>7 DEF CallerCall, CallerStep

LEMMA CountInvariant == ASSUME Serial, Paired PROVE Spec => [](IInv /\ Counted /\ Rest)
<1>1. IInv /\ Counted /\ Rest /\ [Next]_vars => (Counted /\ Rest)'
  <2> SUFFICES ASSUME IInv, Counted, Rest, [Next]_vars PROVE (Counted /\ Rest)'
    OBVIOUS
  <2>1. CASE SetLink \/ UNCHANGED vars
    BY <2>1 DEF SetLink, vars, flags, worker, setting, Counted, Rest
  <2>2. CASE WorkerStep
    BY <2>2, WorkerCounted
  <2>3. CASE \E c \in Callers : CallerCall(c) \/ CallerStep(c)
    BY <2>3, CallerCounted
  <2>4. QED
    BY <2>1, <2>2, <2>3 DEF Next
<1>2. QED
  BY <1>1, InitCounted, Invariant, PTL DEF Spec

\* The type invariant, for any number of callers and any tolerance.
THEOREM TypeCorrect == ASSUME Serial, Paired PROVE Spec => []TypeOK
<1>1. IInv /\ Rest => TypeOK
  BY DEF IInv, Types, Rest, TypeOK
<1>2. QED
  BY <1>1, CountInvariant, PTL

\* A link is given up only after MaxFailures failures in a row on it
\* (Lidar.cpp run).
THEOREM LinkIsKept == ASSUME Serial, Paired PROVE Spec => LinkKept
<1>1. IInv /\ Counted /\ Rest /\ [Next]_vars
        => [Discard /\ device = "open" => streak = MaxFailures]_vars
  <2> SUFFICES ASSUME Counted, Rest, Discard, device = "open" PROVE streak = MaxFailures
    OBVIOUS
  <2>1. streak = failures + 1 /\ ~(failures + 1 < MaxFailures)
    BY DEF Counted, Discard, Tolerated
  <2>2. QED
    BY <2>1, MaxFailuresAssumption DEF Rest
<1>2. QED
  BY <1>1, CountInvariant, PTL DEF Spec, LinkKept
-----------------------------------------------------------------------------
(* The sensor below it: bring-up and teardown leave it fully open or fully   *)
(* closed, whichever step fails and however often it is unplugged.           *)

BringUp == {"connect", "info", "motor", "scan"}
Teardown == {"stop", "motorOff", "deleteDriver"}

DeviceTypes ==
    /\ dpc \in DevicePC
    /\ after \in {"channel", "idle"}
    /\ channel \in BOOLEAN /\ driver \in BOOLEAN
    /\ error \in Origins /\ ok \in BOOLEAN
    /\ plugged \in BOOLEAN /\ spinning \in BOOLEAN /\ replugs \in 0..MaxReplug

\* Which SDK objects exist at each point of a call. Between calls both or
\* neither do; close() frees the driver first.
Objects ==
    /\ dpc = "idle" => (driver <=> channel)
    /\ dpc = "channel" => ~driver /\ ~channel
    /\ dpc = "driver" => ~driver /\ channel
    /\ dpc \in BringUp \cup Teardown => driver /\ channel
    /\ dpc = "deleteChannel" => ~driver

\* The motor turns only under a driver that has not been told to stop it.
Motor == spinning => driver /\ dpc # "deleteDriver"

\* A call reports success only with the device open, and only once it is over.
Result == ok => dpc = "idle" /\ driver

DeviceIInv == DeviceTypes /\ Objects /\ Motor /\ Result

\* Every step of a call keeps the objects, the motor and the result in line.
LEMMA DevicePreserved == DeviceIInv /\ [DeviceNext]_deviceVars => DeviceIInv'
<1> SUFFICES ASSUME DeviceIInv, [DeviceNext]_deviceVars PROVE DeviceIInv'
  OBVIOUS
<1> USE MaxReplugAssumption DEF DeviceIInv, DeviceTypes, Objects, Motor, Result, DevicePC, Origins, BringUp,
            Teardown, hardware, BeginClose, CloseEntry
<1>1. CASE Open
  BY <1>1 DEF Open, CloseFirst
<1>2. CASE Close
  BY <1>2 DEF Close
<1>3. CASE CreateChannel
  BY <1>3 DEF CreateChannel
<1>4. CASE CreateChannelFails
  BY <1>4 DEF CreateChannelFails
<1>5. CASE CreateDriver
  BY <1>5 DEF CreateDriver
<1>6. CASE CreateDriverFails
  BY <1>6 DEF CreateDriverFails, Unwind
<1>7. CASE Connect
  BY <1>7 DEF Connect
<1>8. CASE GetDeviceInfo
  BY <1>8 DEF GetDeviceInfo
<1>9. CASE SetMotorSpeed
  BY <1>9 DEF SetMotorSpeed
<1>10. CASE StartScan
  BY <1>10 DEF StartScan
<1>11. CASE BringUpFails
  BY <1>11 DEF BringUpFails, Unwind
<1>12. CASE StopScan
  BY <1>12 DEF StopScan
<1>13. CASE MotorOff
  BY <1>13 DEF MotorOff, MotorAfterClose
<1>14. CASE DeleteDriver
  BY <1>14 DEF DeleteDriver
<1>15. CASE DeleteChannel
  BY <1>15 DEF DeleteChannel
<1>16. CASE GrabOnClosed \/ Grab \/ GrabScanFails
  <2>1. CASE GrabOnClosed
    BY <2>1 DEF GrabOnClosed
  <2>2. CASE Grab
    BY <2>2 DEF Grab
  <2>3. CASE GrabScanFails
    BY <2>3 DEF GrabScanFails
  <2> QED
    BY <1>16, <2>1, <2>2, <2>3
<1>17. CASE Unplug \/ Plug
  <2>1. CASE Unplug
    BY <2>1 DEF Unplug
  <2>2. CASE Plug
    BY <2>2 DEF Plug
  <2> QED
    BY <1>17, <2>1, <2>2
<1>18. CASE UNCHANGED deviceVars
  BY <1>18 DEF deviceVars
<1> QED
  BY <1>1, <1>2, <1>3, <1>4, <1>5, <1>6, <1>7, <1>8, <1>9, <1>10, <1>11, <1>12,
     <1>13, <1>14, <1>15, <1>16, <1>17, <1>18 DEF DeviceNext, OpenStep, CloseStep

\* Every reachable state of the device satisfies the inductive invariant.
LEMMA DeviceInductive == DeviceSpec => []DeviceIInv
<1>1. DeviceInit => DeviceIInv
  <2>1. 0 \in 0..MaxReplug
    BY MaxReplugAssumption
  <2>2. DeviceInit => DeviceTypes
    BY <2>1 DEF DeviceInit, DeviceTypes, DevicePC, Origins
  <2>3. DeviceInit => Objects /\ Motor /\ Result
    BY DEF DeviceInit, Objects, Motor, Result, BringUp, Teardown
  <2> QED
    BY <2>2, <2>3 DEF DeviceIInv
<1> QED
  BY <1>1, DevicePreserved, PTL DEF DeviceSpec

\* No pointer is overwritten: a channel and a driver are created only where
\* there is none.
LEMMA NothingOrphaned == DeviceSpec => []NoOrphan
<1>1. DeviceInit => NoOrphan
  BY DEF DeviceInit, NoOrphan
<1>2. DeviceIInv /\ NoOrphan /\ [DeviceNext]_deviceVars => NoOrphan'
  <2> SUFFICES ASSUME DeviceIInv, NoOrphan, [DeviceNext]_deviceVars PROVE orphans' = orphans
    BY DEF NoOrphan
  <2>1. CASE CreateChannel
    <3>1. ~channel
      BY <2>1 DEF CreateChannel, DeviceIInv, Objects
    <3> QED
      BY <2>1, <3>1 DEF CreateChannel
  <2>2. CASE CreateDriver
    <3>1. ~driver
      BY <2>2 DEF CreateDriver, DeviceIInv, Objects
    <3> QED
      BY <2>2, <3>1 DEF CreateDriver
  <2>3. CASE Open \/ Close \/ CloseStep \/ CreateChannelFails \/ CreateDriverFails
    BY <2>3 DEF Open, Close, CloseStep, StopScan, MotorOff, DeleteDriver, DeleteChannel,
                CreateChannelFails, CreateDriverFails
  <2>4. CASE Connect \/ GetDeviceInfo \/ SetMotorSpeed \/ StartScan \/ BringUpFails
    BY <2>4 DEF Connect, GetDeviceInfo, SetMotorSpeed, StartScan, BringUpFails
  <2>5. CASE GrabOnClosed \/ Grab \/ GrabScanFails \/ Unplug \/ Plug
    BY <2>5 DEF GrabOnClosed, Grab, GrabScanFails, Unplug, Plug
  <2>6. CASE UNCHANGED deviceVars
    BY <2>6 DEF deviceVars
  <2> QED
    BY <2>1, <2>2, <2>3, <2>4, <2>5, <2>6 DEF DeviceNext, OpenStep
<1> QED
  BY <1>1, <1>2, DeviceInductive, PTL DEF DeviceSpec

\* The type invariant of the device, for any bound on the replugs.
THEOREM DeviceTypeCorrect == DeviceSpec => []DeviceTypeOK
<1>1. DeviceIInv /\ NoOrphan => DeviceTypeOK
  BY DEF DeviceIInv, DeviceTypes, NoOrphan, DeviceTypeOK
<1> QED
  BY DeviceInductive, NothingOrphaned, <1>1, PTL

\* Between calls the device is fully open or fully closed.
THEOREM NeverInBetween == DeviceSpec => []FullyOpenOrClosed
<1>1. DeviceIInv => FullyOpenOrClosed
  BY DEF DeviceIInv, Objects, Result, FullyOpenOrClosed
<1> QED
  BY DeviceInductive, <1>1, PTL

\* The driver has its channel at every step.
THEOREM ChannelOutlivesDriver == DeviceSpec => []DriverNeedsChannel
<1>1. DeviceIInv => DriverNeedsChannel
  BY DEF DeviceIInv, DeviceTypes, DevicePC, Objects, BringUp, Teardown, DriverNeedsChannel
<1> QED
  BY DeviceInductive, <1>1, PTL

\* Reopening and failing never lose an SDK object, and never leave a closed
\* device's motor turning.
THEOREM NothingLeftBehind == DeviceSpec => [](NoOrphan /\ MotorOffWhenClosed)
<1>1. DeviceIInv => MotorOffWhenClosed
  BY DEF DeviceIInv, Motor, MotorOffWhenClosed
<1> QED
  BY DeviceInductive, NothingOrphaned, <1>1, PTL

\* Each call of the device ends as Lidar models it: open and successful, or
\* closed and failed, and only open() and close() change which
\* (RpLidarDevice.cpp:78-186, Lidar.cpp:121-139).
THEOREM CallsEndAsTaken == DeviceSpec => CallsAsLidarTakesThem
<1> DEFINE A == /\ dpc # "idle" /\ dpc' = "idle" => (driver' <=> ok')
                /\ dpc = "idle" /\ dpc' = "idle" => UNCHANGED <<driver, channel>>
<1>1. DeviceIInv /\ DeviceIInv' /\ [DeviceNext]_deviceVars => [A]_deviceVars
  <2> SUFFICES ASSUME DeviceIInv, DeviceIInv', DeviceNext PROVE A
    OBVIOUS
  <2> USE DEF DeviceIInv, Objects, Result, BringUp, Teardown, BeginClose, CloseEntry
  <2>1. CASE Open \/ Close \/ CloseStep
    BY <2>1 DEF Open, CloseFirst, Close, CloseStep, StopScan, MotorOff, DeleteDriver, DeleteChannel,
       DeviceTypes
  <2>2. CASE OpenStep
    BY <2>2 DEF OpenStep, CreateChannel, CreateChannelFails, CreateDriver, CreateDriverFails, Connect,
       GetDeviceInfo, SetMotorSpeed, StartScan, BringUpFails, Unwind, DeviceTypes
  <2>3. CASE GrabOnClosed \/ Grab \/ GrabScanFails \/ Unplug \/ Plug
    BY <2>3 DEF GrabOnClosed, Grab, GrabScanFails, Unplug, Plug
  <2>4. QED
    BY <2>1, <2>2, <2>3 DEF DeviceNext
<1>2. QED
  BY <1>1, DeviceInductive, PTL DEF DeviceSpec, CallsAsLidarTakesThem
================================================================================
