--------------------------------- MODULE Lidar ---------------------------------
(****************************************************************************)
(* lidar/Lidar.cpp: the acquisition thread with its retry, reconnect and     *)
(* back-off, and the start() and stop() that other threads call.             *)
(*                                                                          *)
(* A critical section of device_mutex or state_mutex is one action: the two  *)
(* mutexes are never nested.  shutdown_mutex is not taken by stop(), so the  *)
(* worker's test of the stop flag and its going to sleep are two actions.    *)
(* The counters of LidarStats are left out; the device is open or closed     *)
(* (RpLidarDevice models how it gets there).                                 *)
(****************************************************************************)
EXTENDS Naturals

CONSTANTS
    Callers,        \* the threads that call start() and stop()
    MaxFailures,    \* kMaxConsecutiveGrabFailures
    Reconnects,     \* the values of LidarConfig::auto_reconnect considered
    Serial,         \* callers never overlap, as in Application
    Paired,         \* no start() after a self-exit without a stop() between
    SpawnMayFail,   \* whether std::thread's constructor may throw
    SeqMod          \* bound: sequence numbers are counted modulo SeqMod

ASSUME MaxFailuresAssumption == MaxFailures \in Nat \ {0}
ASSUME SeqModAssumption == SeqMod \in Nat \ {0}
ASSUME FlagsAssumption ==
    /\ Reconnects \subseteq BOOLEAN /\ Serial \in BOOLEAN
    /\ Paired \in BOOLEAN /\ SpawnMayFail \in BOOLEAN

VARIABLES
    autoReconnect,  \* LidarConfig::auto_reconnect, fixed by the constructor
    link,           \* the sensor: "absent", "flaky" or "good"
    device,         \* RpLidarDevice: "open" or "closed"
    running,        \* running
    stopRequested,  \* stop_requested
    callback,       \* whether the frame sink is set
    lastError,      \* last_error, by its origin
    thread,         \* the std::thread object: "none" or "joinable"
    wpc,            \* program counter of the worker
    failures,       \* consecutive_failures
    backoffNext,    \* where the worker goes when its back-off is over
    seq,            \* next_sequence
    cpc,            \* program counter of each caller
    quiesced,       \* history: stopped, or never started, as the callers see it
    streak          \* history: failed grabs in a row on this connection

worker == <<wpc, failures, backoffNext, seq>>
flags == <<running, stopRequested, callback, thread, quiesced>>
setting == <<autoReconnect, link>>
vars == <<setting, device, lastError, flags, worker, cpc, streak>>

WorkerPC == {"none", "check", "acquire", "callback", "failed", "decide", "test", "block",
             "sleep", "reopen", "exitClose", "exitFlag", "exited", "dead"}
CallerPC == {"idle", "reset", "open", "flag", "spawn", "notify", "join", "close",
             "dead"}
ErrorKind == {"none", "usage", "open", "grab", "spawn"}

TypeOK ==
    /\ autoReconnect \in Reconnects
    /\ link \in {"absent", "flaky", "good"}
    /\ device \in {"open", "closed"}
    /\ running \in BOOLEAN /\ stopRequested \in BOOLEAN /\ callback \in BOOLEAN
    /\ lastError \in ErrorKind
    /\ thread \in {"none", "joinable"}
    /\ wpc \in WorkerPC
    /\ failures \in 0..(MaxFailures - 1)
    /\ backoffNext \in {"reopen", "check"}
    /\ seq \in 0..(SeqMod - 1)
    /\ cpc \in [Callers -> CallerPC]
    /\ quiesced \in BOOLEAN
    /\ streak \in 0..MaxFailures

Init ==
    /\ autoReconnect \in Reconnects
    /\ link \in {"absent", "flaky", "good"}
    /\ device = "closed"
    /\ running = FALSE /\ stopRequested = FALSE /\ callback = FALSE
    /\ lastError = "none"
    /\ thread = "none"
    /\ wpc = "none" /\ failures = 0 /\ backoffNext = "reopen" /\ seq = 0
    /\ cpc = [c \in Callers |-> "idle"]
    /\ quiesced = TRUE
    /\ streak = 0

----------------------------------------------------------------------------
(* The device, as its user sees it                                          *)

CanOpen == link \in {"flaky", "good"}
CanFailToOpen == link \in {"absent", "flaky"}

\* openDevice(): the error text is cleared by a success, set by a failure.
OpenSucceeds ==
    /\ CanOpen
    /\ device' = "open" /\ lastError' = "none" /\ streak' = 0

OpenFails ==
    /\ CanFailToOpen
    /\ device' = "closed" /\ lastError' = "open" /\ UNCHANGED streak

\* The sensor is plugged, unplugged or disturbed at any moment.
SetLink ==
    /\ link' \in {"absent", "flaky", "good"} \ {link}
    /\ UNCHANGED <<autoReconnect, device, lastError, flags, worker, cpc, streak>>

----------------------------------------------------------------------------
(* The worker: Impl::run                                                    *)

Goto(pc) == wpc' = pc

\* Mutant: the loop does not test the stop flag.
StopFlagIgnored == "acquire"

\* The loop condition.
AfterCheck == IF stopRequested THEN "exitClose" ELSE "acquire"

Check ==
    /\ wpc = "check"
    /\ Goto(AfterCheck)
    /\ UNCHANGED <<setting, device, lastError, flags, failures, backoffNext, seq, cpc, streak>>

\* acquireOnce() on a device that is not open.
AcquireClosed ==
    /\ wpc = "acquire" /\ device = "closed"
    /\ Goto("failed")
    /\ UNCHANGED <<setting, device, lastError, flags, failures, backoffNext, seq, cpc, streak>>

\* A revolution with points: the frame gets its number, the callback is entered.
GrabFrame ==
    /\ wpc = "acquire" /\ device = "open" /\ link # "absent"
    /\ seq' = (seq + 1) % SeqMod
    /\ streak' = 0
    /\ Goto("callback")
    /\ UNCHANGED <<setting, device, lastError, flags, failures, backoffNext, cpc>>

\* Mutant: a good revolution does not reset the count of failures.
FailuresKept == failures

\* consecutive_failures after a cycle without a device error.
AfterSuccess == 0

\* A revolution without a valid point counts as a success and calls nobody.
GrabEmpty ==
    /\ wpc = "acquire" /\ device = "open" /\ link = "flaky"
    /\ failures' = AfterSuccess
    /\ streak' = 0
    /\ Goto("check")
    /\ UNCHANGED <<setting, device, lastError, flags, backoffNext, seq, cpc>>

\* setError() with the text of the failed grab.
ErrorAfterFailedGrab == "grab"

GrabFails ==
    /\ wpc = "acquire" /\ device = "open" /\ link # "good"
    /\ lastError' = ErrorAfterFailedGrab
    /\ streak' = streak + 1
    /\ Goto("failed")
    /\ UNCHANGED <<setting, device, flags, failures, backoffNext, seq, cpc>>

\* The callback returns or throws; both count as a delivered frame.
CallbackReturns ==
    /\ wpc = "callback"
    /\ failures' = AfterSuccess
    /\ Goto("check")
    /\ UNCHANGED <<setting, device, lastError, flags, backoffNext, seq, cpc, streak>>

\* How many consecutive failures the worker tolerates on one connection.
Tolerated == failures + 1 < MaxFailures

RetryOnLink ==
    /\ wpc = "failed" /\ Tolerated
    /\ failures' = failures + 1
    /\ Goto("check")
    /\ UNCHANGED <<setting, device, lastError, flags, backoffNext, seq, cpc, streak>>

Discard ==
    /\ wpc = "failed" /\ ~Tolerated
    /\ failures' = 0
    /\ device' = "closed"
    /\ Goto("decide")
    /\ UNCHANGED <<setting, lastError, flags, backoffNext, seq, cpc, streak>>

Decide ==
    /\ wpc = "decide"
    /\ IF ~autoReconnect \/ stopRequested
         THEN Goto("exitClose") /\ UNCHANGED backoffNext
         ELSE Goto("test") /\ backoffNext' = "reopen"
    /\ UNCHANGED <<setting, device, lastError, flags, failures, seq, cpc, streak>>

\* backOff(): wait_for tests its predicate, then releases the mutex and sleeps.
Test ==
    /\ wpc = "test"
    /\ Goto(IF stopRequested THEN backoffNext ELSE "block")
    /\ UNCHANGED <<setting, device, lastError, flags, failures, backoffNext, seq, cpc, streak>>

Block ==
    /\ wpc = "block"
    /\ Goto("sleep")
    /\ UNCHANGED <<setting, device, lastError, flags, failures, backoffNext, seq, cpc, streak>>

TimeOut ==
    /\ wpc = "sleep"
    /\ Goto(backoffNext)
    /\ UNCHANGED <<setting, device, lastError, flags, failures, backoffNext, seq, cpc, streak>>

ReopenSucceeds ==
    /\ wpc = "reopen"
    /\ OpenSucceeds
    /\ Goto("check")
    /\ UNCHANGED <<setting, flags, failures, backoffNext, seq, cpc>>

\* Mutant: the worker gives up when the sensor is still absent.
GivesUp == "exitClose"

\* Where a failed reopen leads: to a second back-off and the top of the loop.
AfterFailedReopen == "test"

ReopenFails ==
    /\ wpc = "reopen"
    /\ OpenFails
    /\ Goto(AfterFailedReopen) /\ backoffNext' = "check"
    /\ UNCHANGED <<setting, flags, failures, seq, cpc>>

\* Mutant: the worker leaves without closing the device.
ExitWithoutClose == device

\* The device after the worker's last act on it.
DeviceOnExit == "closed"

ExitClose ==
    /\ wpc = "exitClose"
    /\ device' = DeviceOnExit
    /\ Goto("exitFlag")
    /\ UNCHANGED <<setting, lastError, flags, failures, backoffNext, seq, cpc, streak>>

ExitFlag ==
    /\ wpc = "exitFlag"
    /\ running' = FALSE
    /\ Goto("exited")
    /\ UNCHANGED <<setting, device, lastError, stopRequested, callback, thread, quiesced,
                   failures, backoffNext, seq, cpc, streak>>

WorkerStep ==
    \/ Check
    \/ AcquireClosed \/ GrabFrame \/ GrabEmpty \/ GrabFails
    \/ CallbackReturns
    \/ RetryOnLink \/ Discard \/ Decide
    \/ Test \/ Block \/ TimeOut
    \/ ReopenSucceeds \/ ReopenFails
    \/ ExitClose \/ ExitFlag

----------------------------------------------------------------------------
(* start()                                                                  *)

MayCall(c) == cpc[c] = "idle" /\ (Serial => \A d \in Callers : cpc[d] = "idle")

CallerGoto(c, pc) == cpc' = [cpc EXCEPT ![c] = pc]

\* An empty callback, or a start() while running, is refused.
StartRefused(c) ==
    /\ MayCall(c)
    /\ lastError' = "usage"
    /\ UNCHANGED <<setting, device, flags, worker, cpc, streak>>

StartCall(c) ==
    /\ MayCall(c) /\ ~running
    /\ Paired => quiesced
    /\ CallerGoto(c, "reset")
    /\ quiesced' = FALSE
    /\ UNCHANGED <<setting, device, lastError, running, stopRequested, callback, thread,
                   worker, streak>>

StartReset(c) ==
    /\ cpc[c] = "reset"
    /\ stopRequested' = FALSE
    /\ callback' = TRUE
    /\ CallerGoto(c, "open")
    /\ UNCHANGED <<setting, device, lastError, running, thread, quiesced, worker, streak>>

StartOpens(c) ==
    /\ cpc[c] = "open"
    /\ OpenSucceeds
    /\ CallerGoto(c, "flag")
    /\ UNCHANGED <<setting, flags, worker>>

\* The frame sink after a start() that fails.
CallbackOnFailure == FALSE

StartOpenFails(c) ==
    /\ cpc[c] = "open"
    /\ OpenFails
    /\ callback' = CallbackOnFailure
    /\ quiesced' = TRUE
    /\ CallerGoto(c, "idle")
    /\ UNCHANGED <<setting, running, stopRequested, thread, worker>>

StartFlag(c) ==
    /\ cpc[c] = "flag"
    /\ running' = TRUE
    /\ CallerGoto(c, "spawn")
    /\ UNCHANGED <<setting, device, lastError, stopRequested, callback, thread, quiesced,
                   worker, streak>>

\* A new thread is moved into the member.  If that one is joinable the process
\* ends in std::terminate: no thread takes another step.
StartSpawn(c) ==
    /\ cpc[c] = "spawn"
    /\ IF thread = "joinable"
         THEN /\ wpc' = "dead" /\ cpc' = [d \in Callers |-> "dead"]
              /\ UNCHANGED <<thread, failures>>
         ELSE /\ thread' = "joinable" /\ wpc' = "check" /\ failures' = 0
              /\ CallerGoto(c, "idle")
    /\ UNCHANGED <<setting, device, lastError, running, stopRequested, callback, quiesced,
                   backoffNext, seq, streak>>

\* The device after a start() whose thread could not be created.
DeviceOnSpawnFailure == "closed"

StartSpawnFails(c) ==
    /\ cpc[c] = "spawn" /\ SpawnMayFail
    /\ running' = FALSE
    /\ device' = DeviceOnSpawnFailure
    /\ callback' = CallbackOnFailure
    /\ lastError' = "spawn"
    /\ quiesced' = TRUE
    /\ CallerGoto(c, "idle")
    /\ UNCHANGED <<setting, stopRequested, thread, worker, streak>>

----------------------------------------------------------------------------
(* stop()                                                                   *)

StopCall(c) ==
    /\ MayCall(c)
    /\ stopRequested' = TRUE
    /\ CallerGoto(c, "notify")
    /\ UNCHANGED <<setting, device, lastError, running, callback, thread, quiesced,
                   worker, streak>>

\* notify_all() wakes the worker only if it sleeps already.
StopNotify(c) ==
    /\ cpc[c] = "notify"
    /\ Goto(IF wpc = "sleep" THEN backoffNext ELSE wpc)
    /\ CallerGoto(c, "join")
    /\ UNCHANGED <<setting, device, lastError, flags, failures, backoffNext, seq, streak>>

\* Mutant: stop() does not wait for the worker.
JoinSkipped == TRUE

\* What join() waits for.
Joined == thread = "none" \/ wpc = "exited"

\* Mutant: the thread is joined only while it still runs.
JoinedOnlyIfRunning == IF running THEN "none" ELSE thread

\* The thread object after the join.
ThreadAfterJoin == "none"

StopJoin(c) ==
    /\ cpc[c] = "join"
    /\ Joined
    /\ thread' = ThreadAfterJoin
    /\ wpc' = IF wpc = "exited" THEN "none" ELSE wpc
    /\ CallerGoto(c, "close")
    /\ UNCHANGED <<setting, device, lastError, running, stopRequested, callback, quiesced,
                   failures, backoffNext, seq, streak>>

StopClose(c) ==
    /\ cpc[c] = "close"
    /\ device' = "closed"
    /\ running' = FALSE
    /\ callback' = FALSE
    /\ quiesced' = TRUE
    /\ CallerGoto(c, "idle")
    /\ UNCHANGED <<setting, lastError, stopRequested, thread, worker, streak>>

----------------------------------------------------------------------------

CallerCall(c) == StartRefused(c) \/ StartCall(c) \/ StopCall(c)

CallerStep(c) ==
    \/ StartReset(c) \/ StartOpens(c) \/ StartOpenFails(c)
    \/ StartFlag(c) \/ StartSpawn(c) \/ StartSpawnFails(c)
    \/ StopNotify(c) \/ StopJoin(c) \/ StopClose(c)

Next ==
    \/ SetLink
    \/ WorkerStep
    \/ \E c \in Callers : CallerCall(c) \/ CallerStep(c)

Spec == Init /\ [][Next]_vars

\* The scheduler runs both kinds of thread; grabScan() and open() are bounded
\* by their timeouts, wait_for() by its delay and the callback must not block.
FairSpec ==
    /\ Spec
    /\ WF_vars(WorkerStep)
    /\ \A c \in Callers : WF_vars(CallerStep(c))

----------------------------------------------------------------------------
(* Properties                                                               *)

\* Once stop() has returned the callback is not running and never runs again,
\* the sensor is released and nothing is left to join (Lidar.hpp:164, :191).
StopIsFinal ==
    quiesced => /\ wpc = "none" /\ thread = "none"
                /\ device = "closed" /\ ~running /\ ~callback

\* The worker never calls an empty std::function: neither stop() nor a failing
\* start() takes the sink away while the worker can still deliver.
SinkWhileWorking == wpc \notin {"none", "exited", "dead"} => callback

\* "There is no way to leak the device" (Lidar.hpp:119): an open device always
\* has a worker that will close it, or a start() or stop() under way.
NoLeak ==
    device = "open" => \/ wpc \notin {"none", "exitFlag", "exited"}
                       \/ \E c \in Callers : cpc[c] \in {"flag", "spawn", "close"}

\* A connection is discarded only after MaxFailures failures in a row on it:
\* one good or empty revolution saves the link (Lidar.cpp:228).
LinkKept == [][Discard /\ device = "open" => streak = MaxFailures]_vars

\* Every stop() returns, wherever the worker is and whatever the sensor does.
StopCompletes == \A c \in Callers : cpc[c] = "notify" ~> cpc[c] = "idle"

\* With auto_reconnect, a sensor that comes back and stays is read again.
Recovers ==
    (autoReconnect /\ <>[](link = "good" /\ ~quiesced /\ ~stopRequested))
        => []<>(wpc = "callback")

\* The consumer's view.
Consumer == INSTANCE Acquisition WITH attached <- ~quiesced
ConsumerSpec == Consumer!Spec

\* "All other public methods are safe to call concurrently from any thread"
\* (Lidar.hpp:14): as long as calls come one at a time and each start() is paired
\* with a stop(), no sequence of them assigns to or joins a thread in use.
NeverTerminates == wpc # "dead"

----------------------------------------------------------------------------
(* What a comment of the code says and the code does not do                  *)

\* "Signals the reconnect back-off so shutdown is never delayed"
\* (Lidar.cpp:93): a worker does not sleep on after stop() has notified.
ShutdownNotDelayed ==
    (\E c \in Callers : cpc[c] = "join") => wpc # "sleep"
================================================================================
