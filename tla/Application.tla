------------------------------ MODULE Application ------------------------------
(****************************************************************************)
(* app/Application.cpp, with SignalWaiter and CanBus: the main thread starts *)
(* the components, supervises them and shuts them down; the acquisition      *)
(* thread runs the fan-out callback; the kernel transmits what it accepted   *)
(* for the bus.                                                              *)
(*                                                                          *)
(* Lidar and TcpServer appear here as their callers see them; what is        *)
(* assumed of them is what Lidar.tla and TcpServer.tla check.                *)
(****************************************************************************)
EXTENDS Sequences, Naturals

CONSTANTS
    Frames,          \* the scans that arrive, each the set of sectors with an obstacle
    TxRoom           \* frames the kernel's CAN transmit buffer holds

Sectors == {"left", "left_center", "center", "right_center", "right"}

ASSUME FramesAssumption == Frames \subseteq SUBSET Sectors
ASSUME TxRoomAssumption == TxRoom \in Nat \ {0}

VARIABLES
    noCan,         \* Options::no_can
    autoReconnect, \* Options::lidar.auto_reconnect
    health,        \* Options::health_interval_s > 0
    pc,        \* program counter of the main thread
    then,      \* what follows the shutdown() in progress
    status,    \* how the process ended, or is going to
    fatal,     \* the "fatal:" line printed, if any
    pending,   \* termination signals sent and not yet taken
    can,       \* CanBus::isOpen()
    tcp,       \* TcpServer: "none", "running", or "exited" by itself
    lidar,     \* Lidar: "none", "running", or "exited" and not yet joined
    stopping,  \* Lidar::stop() has been called
    wpc,       \* program counter of the acquisition thread
    frame,     \* the scan in the callback
    verdict,   \* obstacle, once Perception has judged the scan
    sent,      \* what became of the command for this scan
    tx,        \* the kernel's transmit buffer
    ecu,       \* the last command the ECU received
    console    \* standard output is being read

options == <<noCan, autoReconnect, health>>
main == <<pc, then, status, fatal>>
callback == <<wpc, frame, verdict, sent>>
bus == <<tx, ecu>>
vars == <<options, main, pending, can, tcp, lidar, stopping, callback, bus, console>>

MainPC == {"boot", "can", "tcp", "lidar", "supervise", "health",
           "stopLidar", "join", "stopTcp", "closeCan", "unmask", "ended"}
WorkerPC == {"none", "check", "grab", "publish", "process", "send", "log", "exit"}
Commands == {"engage", "disengage"}
Signals == {"INT", "TERM"}

TypeOK ==
    /\ noCan \in BOOLEAN /\ autoReconnect \in BOOLEAN /\ health \in BOOLEAN
    /\ pc \in MainPC /\ then \in {"unmask", "ended"}
    /\ status \in {"none", "success", "failure", "killed"}
    /\ fatal \in {"none", "mask", "can", "tcp", "lidar", "stopped"}
    /\ pending \subseteq Signals
    /\ can \in BOOLEAN /\ stopping \in BOOLEAN /\ console \in BOOLEAN
    /\ tcp \in {"none", "running", "exited"}
    /\ lidar \in {"none", "running", "exited"}
    /\ wpc \in WorkerPC /\ (wpc = "none" <=> lidar = "none")
    /\ frame \in Frames
    /\ verdict \in {"none", "obstacle", "clear"}
    /\ sent \in {"none", "accepted", "full", "closed"}
    /\ tx \in Seq(Commands) /\ Len(tx) <= TxRoom
    /\ ecu \in Commands \cup {"none"}

Init ==
    /\ noCan \in BOOLEAN /\ autoReconnect \in BOOLEAN /\ health \in BOOLEAN
    /\ pc = "boot" /\ then = "unmask" /\ status = "none" /\ fatal = "none"
    /\ pending = {}
    /\ can = FALSE /\ tcp = "none" /\ lidar = "none" /\ stopping = FALSE
    /\ wpc = "none" /\ frame \in Frames /\ verdict = "none" /\ sent = "none"
    /\ tx = <<>> /\ ecu = "none"
    /\ console = TRUE

Over == pc = "ended"
InCallback == wpc \in {"publish", "process", "send", "log"}

----------------------------------------------------------------------------
(* The main thread: run()                                                   *)

Goto(l) == pc' = l
Fail(why) == status' = "failure" /\ fatal' = why
components == <<can, tcp, lidar, stopping>>

MaskSignals ==
    /\ pc = "boot"
    /\ Goto("can")
    /\ UNCHANGED <<options, then, status, fatal, pending, components, callback, bus, console>>

MaskFails ==
    /\ pc = "boot"
    /\ Fail("mask")
    /\ Goto("stopLidar") /\ then' = "ended"
    /\ UNCHANGED <<options, pending, components, callback, bus, console>>

OpenCan ==
    /\ pc = "can"
    /\ can' = ~noCan
    /\ Goto("tcp")
    /\ UNCHANGED <<options, then, status, fatal, pending, tcp, lidar, stopping, callback, bus, console>>

\* Nothing has been started: run() returns without a shutdown().
OpenCanFails ==
    /\ pc = "can" /\ ~noCan
    /\ Fail("can")
    /\ Goto("unmask")
    /\ UNCHANGED <<options, then, pending, components, callback, bus, console>>

StartTcp ==
    /\ pc = "tcp"
    /\ tcp' = "running"
    /\ Goto("lidar")
    /\ UNCHANGED <<options, then, status, fatal, pending, can, lidar, stopping, callback, bus, console>>

\* Mutant: a failing start-up returns without shutdown().
ReturnsAtOnce == "unmask"

\* What a start-up that fails half-way does next.
AfterStartFailure == "stopLidar"

StartTcpFails ==
    /\ pc = "tcp"
    /\ Fail("tcp")
    /\ Goto(AfterStartFailure)
    /\ UNCHANGED <<options, then, pending, components, callback, bus, console>>

StartLidar ==
    /\ pc = "lidar"
    /\ lidar' = "running" /\ wpc' = "check"
    /\ Goto("supervise")
    /\ UNCHANGED <<options, then, status, fatal, pending, can, tcp, stopping,
                   frame, verdict, sent, bus, console>>

StartLidarFails ==
    /\ pc = "lidar"
    /\ Fail("lidar")
    /\ Goto(AfterStartFailure)
    /\ UNCHANGED <<options, then, pending, components, callback, bus, console>>

----------------------------------------------------------------------------
(* supervise()                                                              *)

\* A pending signal is taken before the time-out counts.
TakeSignal ==
    /\ pc = "supervise"
    /\ \E s \in pending : pending' = pending \ {s}
    /\ status' = "success"
    /\ Goto("stopLidar")
    /\ UNCHANGED <<options, then, fatal, components, callback, bus, console>>

\* Mutant: a tick only reports health.
NotChecked == FALSE

\* What a tick looks for: an acquisition that ended by itself.
AcquisitionStopped == lidar = "exited"

TickFatal ==
    /\ pc = "supervise" /\ pending = {}
    /\ AcquisitionStopped
    /\ Fail("stopped")
    /\ Goto("stopLidar")
    /\ UNCHANGED <<options, then, pending, components, callback, bus, console>>

Tick ==
    /\ pc = "supervise" /\ pending = {}
    /\ ~AcquisitionStopped
    /\ health
    /\ Goto("health")
    /\ UNCHANGED <<options, then, status, fatal, pending, components, callback, bus, console>>

\* The report ends in std::endl: it waits for standard output.
ReportHealth ==
    /\ pc = "health" /\ console
    /\ Goto("supervise")
    /\ UNCHANGED <<options, then, status, fatal, pending, components, callback, bus, console>>

----------------------------------------------------------------------------
(* shutdown(), and the destructor that calls it again                       *)

StopLidar ==
    /\ pc = "stopLidar"
    /\ stopping' = (lidar # "none")
    /\ Goto("join")
    /\ UNCHANGED <<options, then, status, fatal, pending, can, tcp, lidar, callback, bus, console>>

\* Mutant: the acquisition thread is told to stop and not waited for.
JoinSkipped == TRUE

\* Lidar::stop() returns when the acquisition thread has ended.
Joined == lidar # "running"

JoinLidar ==
    /\ pc = "join"
    /\ Joined
    /\ lidar' = "none" /\ stopping' = FALSE
    /\ wpc' = IF lidar = "exited" THEN "none" ELSE wpc
    /\ Goto("stopTcp")
    /\ UNCHANGED <<options, then, status, fatal, pending, can, tcp, frame, verdict, sent, bus, console>>

StopTcp ==
    /\ pc = "stopTcp"
    /\ tcp' = "none"
    /\ Goto("closeCan")
    /\ UNCHANGED <<options, then, status, fatal, pending, can, lidar, stopping, callback, bus, console>>

CloseCan ==
    /\ pc = "closeCan"
    /\ can' = FALSE
    /\ Goto(then)
    /\ UNCHANGED <<options, then, status, fatal, pending, tcp, lidar, stopping, callback, bus, console>>

\* run() returns: the mask is restored, and a signal still pending kills the
\* process before ~Application; otherwise that shuts down once more.
Unmask ==
    /\ pc = "unmask"
    /\ IF pending # {}
         THEN status' = "killed" /\ Goto("ended") /\ UNCHANGED then
         ELSE Goto("stopLidar") /\ then' = "ended" /\ UNCHANGED status
    /\ UNCHANGED <<options, fatal, pending, components, callback, bus, console>>

MainStep ==
    \/ MaskSignals \/ MaskFails \/ OpenCan \/ OpenCanFails
    \/ StartTcp \/ StartTcpFails \/ StartLidar \/ StartLidarFails
    \/ TakeSignal \/ TickFatal \/ Tick \/ ReportHealth
    \/ StopLidar \/ JoinLidar \/ StopTcp \/ CloseCan \/ Unmask

----------------------------------------------------------------------------
(* The acquisition thread                                                   *)

WGoto(l) == wpc' = l

\* Mutant: the stop flag is not looked at.
GoesOn == "grab"

\* The top of Lidar's loop.
AfterCheck == IF stopping THEN "exit" ELSE "grab"

Check ==
    /\ wpc = "check"
    /\ WGoto(AfterCheck)
    /\ UNCHANGED <<options, main, pending, components, frame, verdict, sent, bus, console>>

\* A scan with points enters the callback.
Deliver ==
    /\ wpc = "grab"
    /\ frame' \in Frames
    /\ verdict' = "none" /\ sent' = "none"
    /\ WGoto("publish")
    /\ UNCHANGED <<options, main, pending, components, bus, console>>

\* An empty scan, a failed one, or a reconnection that is under way.
GrabNothing ==
    /\ wpc = "grab"
    /\ WGoto("check")
    /\ UNCHANGED <<options, main, pending, components, frame, verdict, sent, bus, console>>

\* The sensor failed for good, and auto_reconnect is off.
GiveUp ==
    /\ wpc = "grab" /\ ~autoReconnect
    /\ WGoto("exit")
    /\ UNCHANGED <<options, main, pending, components, frame, verdict, sent, bus, console>>

Exit ==
    /\ wpc = "exit" /\ lidar = "running"
    /\ lidar' = "exited"
    /\ UNCHANGED <<options, main, pending, can, tcp, stopping, callback, bus, console>>

Publish ==
    /\ wpc = "publish"
    /\ WGoto("process")
    /\ UNCHANGED <<options, main, pending, components, frame, verdict, sent, bus, console>>

\* The copy into the queue throws bad_alloc, which leaves the callback and is
\* absorbed by Lidar::deliverFrame.
PublishThrows ==
    /\ wpc = "publish" /\ tcp = "running"
    /\ WGoto("check")
    /\ UNCHANGED <<options, main, pending, components, frame, verdict, sent, bus, console>>

\* Mutant: the outer sectors are forgotten.
InnerSectorsOnly(f) == f \ {"left", "right"} # {}

\* The disjunction over the five sectors.
Obstacle(f) == f # {}

Process ==
    /\ wpc = "process"
    /\ verdict' = IF Obstacle(frame) THEN "obstacle" ELSE "clear"
    /\ WGoto(IF noCan THEN "log" ELSE "send")
    /\ UNCHANGED <<options, main, pending, components, frame, sent, bus, console>>

\* Mutant: the two payloads are exchanged.
Exchanged(v) == IF v = "obstacle" THEN "disengage" ELSE "engage"

\* The payload for a verdict.
CommandFor(v) == IF v = "obstacle" THEN "engage" ELSE "disengage"

\* CanBus::send: MSG_DONTWAIT, and the caller ignores the result.
Send ==
    /\ wpc = "send"
    /\ sent' = IF ~can THEN "closed" ELSE IF Len(tx) < TxRoom THEN "accepted" ELSE "full"
    /\ tx' = IF sent' = "accepted" THEN Append(tx, CommandFor(verdict)) ELSE tx
    /\ WGoto("log")
    /\ UNCHANGED <<options, main, pending, components, frame, verdict, ecu, console>>

\* The line on standard output, for every frame.
Log ==
    /\ wpc = "log" /\ console
    /\ WGoto("check")
    /\ UNCHANGED <<options, main, pending, components, frame, verdict, sent, bus, console>>

WorkerStep ==
    /\ ~Over
    /\ Check \/ Deliver \/ GrabNothing \/ GiveUp \/ Exit
       \/ Publish \/ PublishThrows \/ Process \/ Send \/ Log

----------------------------------------------------------------------------
(* The surroundings                                                         *)

\* The bus takes the oldest frame, also after the socket was closed.
Transmit ==
    /\ tx # <<>>
    /\ ecu' = Head(tx) /\ tx' = Tail(tx)
    /\ UNCHANGED <<options, main, pending, components, callback, console>>

\* Ctrl-C, or a kill: blocked by every thread while the mask is installed.
Masked == pc # "boot" /\ (then = "unmask" \/ ~(pc \in {"stopLidar", "join", "stopTcp", "closeCan"}))

Signal ==
    /\ ~Over
    /\ \E s \in Signals \ pending : pending' = pending \cup {s}
    /\ IF Masked THEN UNCHANGED main
                 ELSE status' = "killed" /\ Goto("ended") /\ UNCHANGED <<then, fatal>>
    /\ UNCHANGED <<options, components, callback, bus, console>>

\* poll() fails: the server's I/O thread leaves.
TcpThreadExits ==
    /\ tcp = "running"
    /\ tcp' = "exited"
    /\ UNCHANGED <<options, main, pending, can, lidar, stopping, callback, bus, console>>

\* Whoever reads standard output stops doing so, or resumes.
ConsoleStalls ==
    /\ console' = ~console
    /\ UNCHANGED <<options, main, pending, components, callback, bus>>

Finished == Over /\ UNCHANGED vars

Next ==
    \/ MainStep
    \/ WorkerStep
    \/ Transmit \/ Signal \/ TcpThreadExits \/ ConsoleStalls
    \/ Finished

Spec == Init /\ [][Next]_vars

\* Both threads are scheduled, the calls they make are bounded, the bus is
\* arbitrated to this node again and again.  A thread that waits for standard
\* output goes on when it is read often enough: hence strong fairness.
FairSpec ==
    /\ Spec
    /\ SF_vars(MainStep)
    /\ SF_vars(WorkerStep)
    /\ WF_vars(Transmit)

----------------------------------------------------------------------------
(* Properties                                                               *)

\* "Stop producing frames before releasing any consumer" (Application.cpp:207):
\* whenever the callback runs, both its consumers are there.
ConsumersOutliveProducer == InCallback => tcp # "none" /\ (noCan \/ can)

\* However the process ends, by itself, by a failed start-up or by a signal
\* that finds it unmasked, the three components were released in order.
ReleasedAtEnd == Over => lidar = "none" /\ tcp = "none" /\ ~can

\* The newest command the kernel accepted is the one for the newest scan
\* judged: behind whatever is still queued, the brake is engaged exactly if
\* some sector of that scan has an obstacle.
CommandStands ==
    sent = "accepted" =>
        (IF tx = <<>> THEN ecu ELSE tx[Len(tx)])
            = (IF frame = {} THEN "disengage" ELSE "engage")

\* As long as standard output is read again and again.
OutputIsRead == []<>console

\* An obstacle in a scan that reached Perception engages the brake unless the
\* transmit buffer was full, also when a shutdown begins meanwhile.
BrakeReachesEcu ==
    (wpc = "process" /\ frame # {} /\ ~noCan) ~> (ecu = "engage" \/ sent = "full")

\* A termination signal ends the process, whatever it is doing.
ShutdownCompletes == OutputIsRead => (pending # {} ~> Over)

\* "Treat it as fatal rather than idling blind" (Application.cpp:166).
NeverIdlesBlind == OutputIsRead => (lidar = "exited" ~> Over)
================================================================================
