------------------------------- MODULE Launcher -------------------------------
(****************************************************************************)
(* launch.sh with the two processes it starts on the bus they share: the     *)
(* lidar node as its parent sees it (what it does inside is Application's),   *)
(* and the time-of-flight node.  A stale aeb_node of an earlier start may be   *)
(* there, and the launcher that started it may still wait for it.            *)
(****************************************************************************)
EXTENDS CommandLine, TofNode

CONSTANTS
    ExtraArgs,   \* values AEB_EXTRA_ARGS may have, split at blanks
    MaxSignals   \* bound: signals the launcher is sent

ASSUME LauncherAssumption == MaxSignals \in Nat /\ ExtraArgs \subseteq Seq(STRING)

VARIABLES
    skipCan, skipTof, \* SKIP_CAN, SKIP_TOF
    lpc,       \* the launcher's main program
    cleanups,  \* calls of cleanup() in progress, the innermost last: the trap nests
    raised,    \* it has brought the interface up
    signals,   \* signals sent to it so far
    node,      \* the lidar node: what its parent and its signals can tell apart
    noCan,     \* Options::no_can
    term,      \* it has a termination signal pending
    stale,     \* an aeb_node of an earlier start
    rival      \* the launcher of that one

launcher == <<skipCan, skipTof, lpc, cleanups, raised, signals>>
lidarNode == <<node, noCan, term>>
earlier == <<stale, rival>>
vars == <<launcher, lidarNode, earlier, tofNode, near, bus>>

NodePC == {"none", "early", "startup", "running", "stopping", "dead"}
Masked == node \in {"startup", "running", "stopping"}
NodeAlive == node \notin {"none", "dead"}

TypeOK ==
    /\ BusTypeOK /\ TofTypeOK
    /\ skipCan \in BOOLEAN /\ skipTof \in BOOLEAN
    /\ lpc \in {"down", "up", "build", "stale", "node", "tof", "trap", "wait", "last",
                "done", "failed", "killed"}
    /\ cleanups \in Seq({"kill", "wait", "down"}) /\ Len(cleanups) <= MaxSignals + 1
    /\ raised \in BOOLEAN /\ signals \in 0 .. MaxSignals
    /\ node \in NodePC /\ term \in BOOLEAN /\ noCan \in BOOLEAN
    /\ stale \in {"none", "running", "stopping"}
    /\ rival \in {"none", "waiting", "over"}

Init ==
    /\ BusInit /\ TofInit
    /\ skipCan \in BOOLEAN /\ skipTof \in BOOLEAN
    /\ lpc = "down" /\ cleanups = <<>> /\ raised = FALSE /\ signals = 0
    /\ node = "none" /\ noCan = FALSE /\ term = FALSE
    /\ stale \in {"none", "running"}
    /\ rival \in IF stale = "running" THEN {"none", "waiting"} ELSE {"none"}

----------------------------------------------------------------------------
(* The main program, up to its trap                                          *)

Goto(l) == lpc' = l /\ UNCHANGED <<skipCan, skipTof, cleanups, signals>>

\* Down first: it may be up with another configuration.
TakeDown ==
    /\ lpc = "down"
    /\ IF skipCan THEN Goto("build") /\ UNCHANGED bus
                  ELSE Goto("up") /\ InterfaceDown
    /\ UNCHANGED <<raised, lidarNode, earlier, tofNode, near>>

BringUp ==
    /\ lpc = "up"
    /\ InterfaceUp /\ raised' = TRUE
    /\ Goto("build")
    /\ UNCHANGED <<lidarNode, earlier, tofNode, near>>

\* git, cmake, pip and the checks for I2C and the serial device.
Build ==
    /\ lpc = "build"
    /\ Goto("stale")
    /\ UNCHANGED <<raised, lidarNode, earlier, tofNode, near, bus>>

\* die() and set -e: nothing is undone.
Die ==
    /\ lpc \in {"up", "build"}
    /\ Goto("failed")
    /\ UNCHANGED <<raised, lidarNode, earlier, tofNode, near, bus>>

\* pkill -x aeb_node.  The second of sleep that follows is over at any time.
KillStale ==
    /\ lpc = "stale"
    /\ stale' = IF stale = "running" THEN "stopping" ELSE stale
    /\ Goto("node")
    /\ UNCHANGED <<raised, lidarNode, rival, tofNode, near, bus>>

\* AEB_ARGS; AEB_EXTRA_ARGS comes last, and so overrides.
AEB_ARGS(extra) ==
    <<"--device", "/dev/ttyUSB0", "--health-interval", "5">>
        \o (IF skipCan THEN <<"--no-can">> ELSE <<"--can-interface", "can0">>)
        \o extra

\* main(): a command line that asks for help or is refused ends the process.
Main(args) ==
    LET parsed == parse(args)
    IN  IF parsed.outcome = "run"
          THEN node' = "early" /\ noCan' = parsed.options["--no-can"]
          ELSE node' = "dead" /\ UNCHANGED noCan

SpawnNode ==
    /\ lpc = "node"
    /\ \E extra \in ExtraArgs : Main(AEB_ARGS(extra))
    /\ Goto("tof")
    /\ UNCHANGED <<raised, term, earlier, tofNode, near, bus>>

SpawnTof ==
    /\ lpc = "tof"
    /\ tof' = IF skipTof THEN "none" ELSE "bus"
    /\ Goto("trap")
    /\ UNCHANGED <<raised, lidarNode, earlier, tofEnd, payload, near, bus>>

\* trap cleanup INT TERM
Trap ==
    /\ lpc = "trap"
    /\ Goto("wait")
    /\ UNCHANGED <<raised, lidarNode, earlier, tofNode, near, bus>>

\* Mutant: wait without -n.
AllEnded == ~NodeAlive /\ ~TofAlive

\* What wait -n waits for.
OneEnded == ~NodeAlive \/ (~skipTof /\ ~TofAlive)

\* The main program cleans up.
WaitReturns ==
    /\ lpc = "wait" /\ cleanups = <<>>
    /\ OneEnded
    /\ lpc' = "last" /\ cleanups' = <<"kill">>
    /\ UNCHANGED <<skipCan, skipTof, raised, signals, lidarNode, earlier, tofNode, near, bus>>

----------------------------------------------------------------------------
(* cleanup(), called by the trap or at the end of the main program           *)

In(place) == cleanups # <<>> /\ Last(cleanups) = place
Continue(place) == cleanups' = Append(Front(cleanups), place)

NodeTerminated ==
    /\ IF node = "early" THEN node' = "dead" ELSE UNCHANGED node
    /\ term' = (term \/ Masked)
    /\ UNCHANGED noCan

\* kill: SIGTERM to both.
Kill ==
    /\ In("kill")
    /\ NodeTerminated /\ TofTerminated
    /\ Continue("wait")
    /\ UNCHANGED <<skipCan, skipTof, lpc, raised, signals, earlier, near, bus>>

\* Mutant: cleanup() waits for one of its children only.
WaitsForOne == ~NodeAlive \/ ~TofAlive

\* wait "$AEB_PID" "$TOF_PID"
ChildrenEnded == ~NodeAlive /\ ~TofAlive

Reap ==
    /\ In("wait") /\ ChildrenEnded
    /\ Continue("down")
    /\ UNCHANGED <<skipCan, skipTof, lpc, raised, signals, lidarNode, earlier, tofNode, near, bus>>

\* The last line of cleanup().  After the trap's own, wait -n has been
\* interrupted, and the main program cleans up once more.
Return ==
    IF Len(cleanups) > 1 THEN cleanups' = Front(cleanups) /\ UNCHANGED lpc
    ELSE IF lpc = "wait" THEN cleanups' = <<"kill">> /\ lpc' = "last"
    ELSE cleanups' = <<>> /\ lpc' = "done"

BringDown ==
    /\ In("down")
    /\ IF skipCan THEN UNCHANGED bus ELSE InterfaceDown
    /\ Return
    /\ UNCHANGED <<skipCan, skipTof, raised, signals, lidarNode, earlier, tofNode, near>>

\* A signal interrupts wait, or the ip of a cleanup: the trap's cleanup runs
\* first, and the one it interrupted goes on behind the command.
Interrupted ==
    IF In("wait") THEN Front(cleanups) \o <<"down", "kill">> ELSE Append(cleanups, "kill")

\* kill of the launcher, or Ctrl-C, which the lidar node takes as well when it has
\* the signal blocked; background children ignore it otherwise.
Signal(s) ==
    /\ lpc \notin {"done", "failed", "killed"} /\ signals < MaxSignals
    /\ signals' = signals + 1
    /\ IF lpc \in {"wait", "last"}
         THEN cleanups' = Interrupted /\ UNCHANGED lpc
         ELSE lpc' = "killed" /\ UNCHANGED cleanups
    /\ term' = (term \/ (s = "INT" /\ Masked))
    /\ UNCHANGED <<skipCan, skipTof, raised, node, noCan, earlier, tofNode, near, bus>>

LauncherStep ==
    \/ TakeDown \/ BringUp \/ Build \/ KillStale \/ SpawnNode \/ SpawnTof \/ Trap
    \/ WaitReturns \/ Kill \/ Reap \/ BringDown

----------------------------------------------------------------------------
(* The lidar node                                                            *)

NodeStep(step) == step /\ UNCHANGED <<launcher, earlier, tofNode, near>>

\* SignalWaiter::install()
Mask == node = "early" /\ node' = "startup" /\ UNCHANGED <<noCan, term, bus>>

\* The bus exists or is not wanted, the port is free, the sensor answers.
Starts ==
    /\ node = "startup"
    /\ noCan \/ hat
    /\ stale = "none"
    /\ node' = "running"
    /\ UNCHANGED <<noCan, term, bus>>

StartFails == node = "startup" /\ node' = "dead" /\ UNCHANGED <<noCan, term, bus>>

TakesSignal ==
    /\ node = "running" /\ term
    /\ node' = "stopping"
    /\ UNCHANGED <<noCan, term, bus>>

\* shutdown() returns.
Stopped == node = "stopping" /\ node' = "dead" /\ UNCHANGED <<noCan, term, bus>>

\* A fatal error, with --no-reconnect, or a crash.
EndsByItself == node = "running" /\ node' = "dead" /\ UNCHANGED <<noCan, term, bus>>

\* A command for a scan: which one is Application's matter.
NodeSends ==
    /\ node \in {"running", "stopping"} /\ ~noCan
    /\ \E command \in Commands : Accepted(command) \/ Refused
    /\ UNCHANGED lidarNode

\* What every process does when it is scheduled; the rest may or may not happen.
NodeProgress == NodeStep(Mask \/ Starts \/ TakesSignal \/ Stopped)

----------------------------------------------------------------------------
(* The earlier start, the sensor process and the bus                        *)

StaleEnds ==
    /\ stale # "none" /\ stale' = "none"
    /\ UNCHANGED <<launcher, lidarNode, rival, tofNode, near, bus>>

\* Its launcher's wait -n returns, and its cleanup() takes the interface down.
RivalCleansUp ==
    /\ rival = "waiting" /\ stale = "none"
    /\ rival' = "over"
    /\ InterfaceDown
    /\ UNCHANGED <<launcher, lidarNode, stale, tofNode, near>>

Tof(step) == step /\ UNCHANGED <<launcher, lidarNode, earlier>>

Transmit == Transmitted /\ UNCHANGED <<launcher, lidarNode, earlier, tofNode, near>>

Finished == lpc \in {"done", "failed", "killed"} /\ UNCHANGED vars

Next ==
    \/ LauncherStep \/ Die
    \/ \E s \in {"INT", "TERM"} : Signal(s)
    \/ NodeProgress
    \/ NodeStep(StartFails \/ EndsByItself \/ NodeSends)
    \/ StaleEnds \/ RivalCleansUp
    \/ Tof(TofStep \/ SceneChanges)
    \/ Transmit
    \/ Finished

Spec == Init /\ [][Next]_vars

\* Each process is scheduled, the kernel transmits what it accepted, a stale node
\* that was told to stop does, and a start-up ends one way or the other.
FairSpec ==
    /\ Spec
    /\ WF_vars(LauncherStep)
    /\ WF_vars(NodeProgress \/ NodeStep(StartFails))
    /\ WF_vars(stale = "stopping" /\ StaleEnds)
    /\ WF_vars(Tof(OpenBus \/ StartRanging \/ Judge \/ TofSends \/ TofSendFails))
    /\ WF_vars(Transmit)

----------------------------------------------------------------------------
(* Properties                                                               *)

\* However the extra arguments combine with the launcher's own, the node runs with what
\* they say or does not run (CommandLine.cpp:143-168, launch.sh:149-157).
ParsedAsWritten ==
    lpc = "node" => \A extra \in ExtraArgs : MeansWhatItSays(AEB_ARGS(extra))

\* The launcher is done when both children have ended and the interface it
\* brought up is down; and it takes that down under no child that still runs,
\* whatever signals arrive during its cleanups.  Only the cleanup of the launcher
\* before it may do so (launch.sh:175-191).
StoppedInOrder ==
    /\ lpc = "done" => ~NodeAlive /\ ~TofAlive /\ (skipCan \/ ~iface)
    /\ raised /\ ~iface /\ rival # "over" => ~NodeAlive /\ ~TofAlive

\* Once the trap is set, a signal, or the end of either process, ends all:
\* "wait -n" and the trap (launch.sh:184-191).
EndsTogether ==
    /\ (lpc = "wait" /\ (node = "dead" \/ tof = "dead")) ~> lpc = "done"
    /\ cleanups # <<>> ~> lpc = "done"

\* The transmit queue does not happen to be full at each of the imager's attempts.
SometimesRoom == []<><<Tof(TofSends)>>_vars

\* "The ECU should OR the two decisions" (tof_node.py:14-15), and instead the last
\* frame wins: what an object in front of the imager is sure of, whatever the
\* lidar node sends, is that the brake is engaged again and again.
ObstacleRecurs ==
    SometimesRoom /\ <>[](near /\ iface) => []<>(ecu = "engage")

----------------------------------------------------------------------------
(* What a comment of the code says and the code does not do                 *)

\* "--no-can  # viewer-only, no MCP2515 HAT needed" (launch.sh:17): without
\* the HAT, and without a signal, the ToF node's missing bus does not end the run.
NoCanRuns == skipCan /\ signals = 0 /\ In("kill") /\ node = "running" => tofEnd # "bus"
================================================================================
