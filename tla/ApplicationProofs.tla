-------------------------- MODULE ApplicationProofs ----------------------------
(****************************************************************************)
(* For any scans, any transmit buffer and every setting: the consumers       *)
(* outlive the producer, everything is released when the process ends, and   *)
(* the newest command accepted by the kernel is right for the newest scan.   *)
(****************************************************************************)
EXTENDS Application, SequenceTheorems, TLAPS

Shutdown == {"stopLidar", "join", "stopTcp", "closeCan"}
Supervising == {"supervise", "health"}

Types ==
    /\ noCan \in BOOLEAN
    /\ pc \in MainPC /\ then \in {"unmask", "ended"}
    /\ tcp \in {"none", "running", "exited"}
    /\ lidar \in {"none", "running", "exited"}
    /\ wpc \in WorkerPC
    /\ can \in BOOLEAN

\* The acquisition thread and the object that stands for it.
ThreadIsWorker ==
    /\ wpc = "none" <=> lidar = "none"
    /\ lidar = "exited" => wpc = "exit"

Consumers == tcp # "none" /\ (noCan \/ can)
Released == lidar = "none" /\ tcp = "none" /\ ~can

\* What exists at each point of run() and of shutdown().
Stages ==
    /\ pc \in {"boot", "can"} => Released
    /\ pc = "tcp" => lidar = "none" /\ tcp = "none" /\ (noCan \/ can)
    /\ pc = "lidar" => lidar = "none" /\ Consumers
    /\ pc \in Supervising => Consumers
    /\ pc \in {"stopLidar", "join"} => lidar = "none" \/ Consumers
    /\ pc = "stopTcp" => lidar = "none"
    /\ pc = "closeCan" => lidar = "none" /\ tcp = "none"
    /\ pc \in {"unmask", "ended"} => Released
    /\ then = "ended" => Released /\ pc \in Shutdown \cup {"ended"}

IInv == Types /\ ThreadIsWorker /\ Stages

-----------------------------------------------------------------------------

\* The main thread's steps.
LEMMA MainKeepsIInv == IInv /\ MainStep => IInv'
<1> SUFFICES ASSUME IInv, MainStep PROVE IInv'
  OBVIOUS
<1> USE DEF options, IInv, Types, ThreadIsWorker, Consumers, Released, Stages, MainPC, WorkerPC,
        Shutdown, Supervising, Goto, Fail, components, callback
<1>1. CASE MaskSignals
  BY <1>1 DEF MaskSignals
<1>2. CASE MaskFails
  BY <1>2 DEF MaskFails
<1>3. CASE OpenCan
  BY <1>3 DEF OpenCan
<1>4. CASE OpenCanFails
  BY <1>4 DEF OpenCanFails
<1>5. CASE StartTcp
  BY <1>5 DEF StartTcp
<1>6. CASE StartTcpFails
  BY <1>6 DEF StartTcpFails, AfterStartFailure
<1>7. CASE StartLidar
  BY <1>7 DEF StartLidar
<1>8. CASE StartLidarFails
  BY <1>8 DEF StartLidarFails, AfterStartFailure
<1>9. CASE TakeSignal
  BY <1>9 DEF TakeSignal
<1>10. CASE TickFatal
  BY <1>10 DEF TickFatal
<1>11. CASE Tick
  BY <1>11 DEF Tick
<1>12. CASE ReportHealth
  BY <1>12 DEF ReportHealth
<1>13. CASE StopLidar
  BY <1>13 DEF StopLidar
<1>14. CASE JoinLidar
  BY <1>14 DEF JoinLidar, Joined
<1>15. CASE StopTcp
  BY <1>15 DEF StopTcp
<1>16. CASE CloseCan
  BY <1>16 DEF CloseCan
<1>17. CASE Unmask
  BY <1>17 DEF Unmask
<1> QED
  BY <1>1, <1>2, <1>3, <1>4, <1>5, <1>6, <1>7, <1>8, <1>9, <1>10, <1>11, <1>12,
     <1>13, <1>14, <1>15, <1>16, <1>17 DEF MainStep

\* The acquisition thread's steps: none of them takes a consumer away.
LEMMA WorkerKeepsIInv == IInv /\ WorkerStep => IInv'
<1> SUFFICES ASSUME IInv, WorkerStep PROVE IInv'
  OBVIOUS
<1> USE DEF options, IInv, WorkerPC, WGoto, main, components, callback
<1>1. CASE Exit
  BY <1>1 DEF Exit, Types, ThreadIsWorker, Stages, Consumers, Released, Shutdown
<1>2. CASE ~Exit
  <2>1. UNCHANGED <<options, main, components>> /\ wpc \notin {"none", "exit"} /\ wpc' \in WorkerPC \ {"none"}
    BY <1>2 DEF WorkerStep, Check, AfterCheck, Deliver, GrabNothing, GiveUp, Publish, PublishThrows,
                Process, Send, Log
  <2>2. Types' /\ ThreadIsWorker'
    BY <2>1 DEF Types, ThreadIsWorker
  <2>3. Stages'
    BY <2>1 DEF Stages, Consumers, Released
  <2> QED
    BY <2>2, <2>3
<1> QED
  BY <1>1, <1>2

\* The surroundings: a signal ends the process only where all is released.
LEMMA OthersKeepIInv ==
    IInv /\ (Transmit \/ Signal \/ TcpThreadExits \/ ConsoleStalls \/ UNCHANGED vars) => IInv'
<1> USE DEF options, IInv, main, components, callback
<1>1. ASSUME IInv, Transmit \/ ConsoleStalls \/ UNCHANGED vars PROVE IInv'
  <2>1. UNCHANGED <<options, main, components, wpc>>
    BY <1>1 DEF Transmit, ConsoleStalls, vars
  <2> QED
    BY <1>1, <2>1 DEF Types, ThreadIsWorker, Stages, Consumers, Released
<1>2. ASSUME IInv, Signal PROVE IInv'
  <2>1. pc' = pc \/ (~Masked /\ pc' = "ended")
    BY <1>2 DEF Signal, Goto
  <2>0. UNCHANGED <<options, can, tcp, lidar, stopping, wpc, then>>
    BY <1>2 DEF Signal
  <2>2. ~Masked => Released
    BY <1>2 DEF Masked, Stages, Types
  <2>3. Types' /\ ThreadIsWorker'
    BY <1>2, <2>0, <2>1 DEF Types, ThreadIsWorker, MainPC
  <2>4. CASE pc' = pc
    BY <1>2, <2>0, <2>3, <2>4 DEF Stages, Consumers, Released
  <2>5. CASE ~Masked /\ pc' = "ended"
    BY <2>0, <2>2, <2>3, <2>5 DEF Stages, Consumers, Released, Supervising, Shutdown
  <2> QED
    BY <2>1, <2>4, <2>5
<1>3. ASSUME IInv, TcpThreadExits PROVE IInv'
  BY <1>3 DEF TcpThreadExits, Types, ThreadIsWorker, Stages, Consumers, Released
<1> QED
  BY <1>1, <1>2, <1>3

\* Every reachable state satisfies the invariant.
LEMMA Inductive == Spec => []IInv
<1>1. Init => IInv
  BY DEF Init, IInv, Types, ThreadIsWorker, Stages, Consumers, Released, MainPC, WorkerPC,
         Supervising, Shutdown
<1>2. IInv /\ [Next]_vars => IInv'
  BY MainKeepsIInv, WorkerKeepsIInv, OthersKeepIInv DEF Next, Finished
<1> QED
  BY <1>1, <1>2, PTL DEF Spec

\* No consumer of the callback is released while the callback can run.
THEOREM ConsumersOutlive == Spec => []ConsumersOutliveProducer
<1>1. IInv => ConsumersOutliveProducer
  BY DEF IInv, Types, MainPC, ThreadIsWorker, Stages, Consumers, Released, Supervising,
         ConsumersOutliveProducer, InCallback
<1> QED
  BY Inductive, <1>1, PTL

\* Whatever ends the process, nothing is left running or open.
THEOREM AllReleased == Spec => []ReleasedAtEnd
<1>1. IInv => ReleasedAtEnd
  BY DEF IInv, Stages, Released, ReleasedAtEnd, Over
<1> QED
  BY Inductive, <1>1, PTL

-----------------------------------------------------------------------------

Right == IF frame = {} THEN "disengage" ELSE "engage"
Newest == IF tx = <<>> THEN ecu ELSE tx[Len(tx)]

\* The verdict on its way to the bus is the one of the scan in hand, and a
\* command already sent is not overtaken by the scan's own.
CInv ==
    /\ tx \in Seq(Commands)
    /\ wpc = "send" => verdict = IF frame = {} THEN "clear" ELSE "obstacle"
    /\ wpc \in {"publish", "process", "send"} => sent = "none"
    /\ sent = "accepted" => Newest = Right

\* The last element of a queue is the element appended last.
LEMMA AppendLast ==
    ASSUME NEW S, NEW q \in Seq(S), NEW e \in S
    PROVE  Append(q, e) # <<>> /\ Append(q, e)[Len(Append(q, e))] = e /\ Append(q, e) \in Seq(S)
  OBVIOUS

\* Taking the head leaves the last element, or was taking the last element.
LEMMA TailLast ==
    ASSUME NEW S, NEW q \in Seq(S), q # <<>>
    PROVE  /\ Tail(q) \in Seq(S)
           /\ (IF Tail(q) = <<>> THEN Head(q) ELSE Tail(q)[Len(Tail(q))]) = q[Len(q)]
<1>1. /\ Tail(q) \in Seq(S) /\ Len(Tail(q)) = Len(q) - 1 /\ Len(q) \in Nat \ {0}
      /\ \A i \in 1..Len(Tail(q)) : Tail(q)[i] = q[i + 1]
  BY HeadTailProperties, EmptySeq
<1>2. CASE Len(q) = 1
  <2>1. Tail(q) = <<>>
    <3>1. Tail(q) # <<>> => Len(Tail(q)) \in Nat \ {0}
      BY <1>1, EmptySeq
    <3> QED
      BY <1>1, <1>2, <3>1
  <2> QED
    BY <1>1, <1>2, <2>1
<1>3. CASE Len(q) # 1
  <2>1. Tail(q) # <<>> /\ Len(Tail(q)) \in 1..Len(Tail(q))
    BY <1>1, <1>3
  <2> QED
    BY <1>1, <1>3, <2>1
<1> QED
  BY <1>2, <1>3

\* What is left of the type invariant: how the process ends, and the bus.
Rest ==
    /\ autoReconnect \in BOOLEAN /\ health \in BOOLEAN
    /\ status \in {"none", "success", "failure", "killed"}
    /\ fatal \in {"none", "mask", "can", "tcp", "lidar", "stopped"}
    /\ pending \subseteq Signals
    /\ stopping \in BOOLEAN /\ console \in BOOLEAN
    /\ frame \in Frames
    /\ verdict \in {"none", "obstacle", "clear"}
    /\ sent \in {"none", "accepted", "full", "closed"}
    /\ tx \in Seq(Commands) /\ Len(tx) <= TxRoom
    /\ ecu \in Commands \cup {"none"}

\* The transmit buffer is filled by Send and emptied by Transmit.
LEMMA BusKeepsRest == ASSUME Rest, Send \/ Transmit PROVE Rest'
<1> USE DEF Rest
<1>1. CASE Send
  <2>1. UNCHANGED <<options, main, pending, components, frame, verdict, ecu, console>>
    BY <1>1 DEF Send
  <2>2. CASE sent' = "accepted"
    <3>1. tx' = Append(tx, CommandFor(verdict)) /\ Len(tx) < TxRoom
      BY <1>1, <2>2 DEF Send
    <3>2. CommandFor(verdict) \in Commands
      BY DEF CommandFor, Commands
    <3>3. tx' \in Seq(Commands) /\ Len(tx') = Len(tx) + 1 /\ Len(tx) \in Nat
      BY <3>1, <3>2
    <3> QED
      BY <2>1, <2>2, <3>1, <3>3, TxRoomAssumption DEF options, main, components
  <2>3. CASE sent' # "accepted"
    BY <1>1, <2>1, <2>3 DEF Send, options, main, components
  <2> QED
    BY <2>2, <2>3
<1>2. CASE Transmit
  <2>1. UNCHANGED <<options, main, pending, components, callback, console>>
    BY <1>2 DEF Transmit
  <2>2. tx' \in Seq(Commands) /\ Len(tx') = Len(tx) - 1 /\ Len(tx) \in Nat /\ ecu' \in Commands
    BY <1>2 DEF Transmit
  <2> QED
    BY <2>1, <2>2, TxRoomAssumption DEF options, main, components, callback
<1> QED
  BY <1>1, <1>2

\* The type invariant, for any scans and any transmit buffer.
THEOREM TypeCorrect == Spec => []TypeOK
<1>1. Init => Rest
  <2>1. <<>> \in Seq(Commands) /\ Len(<<>>) = 0 /\ 0 <= TxRoom
    BY TxRoomAssumption
  <2> QED
    BY <2>1 DEF Init, Rest
<1>2. ASSUME Rest, MainStep PROVE Rest'
  <2> USE DEF Rest, options, callback, bus, components, Fail, Goto
  <2>1. CASE MaskSignals \/ MaskFails \/ OpenCan \/ OpenCanFails \/ StartTcp \/ StartTcpFails
    BY <1>2, <2>1 DEF MaskSignals, MaskFails, OpenCan, OpenCanFails, StartTcp, StartTcpFails
  <2>2. CASE StartLidar \/ StartLidarFails \/ TakeSignal \/ TickFatal \/ Tick \/ ReportHealth
    BY <1>2, <2>2 DEF StartLidar, StartLidarFails, TakeSignal, TickFatal, Tick, ReportHealth
  <2>3. CASE StopLidar \/ JoinLidar \/ StopTcp \/ CloseCan \/ Unmask
    BY <1>2, <2>3 DEF StopLidar, JoinLidar, StopTcp, CloseCan, Unmask
  <2> QED
    BY <1>2, <2>1, <2>2, <2>3 DEF MainStep
<1>3. ASSUME Rest, WorkerStep, ~Send PROVE Rest'
  BY <1>3 DEF Rest, WorkerStep, Check, Deliver, GrabNothing, GiveUp, Exit, Publish, PublishThrows,
              Process, Log, options, main, callback, bus, components
<1>4. ASSUME Rest, Signal \/ TcpThreadExits \/ ConsoleStalls \/ UNCHANGED vars PROVE Rest'
  BY <1>4 DEF Rest, Signal, TcpThreadExits, ConsoleStalls, vars, options, main, callback, bus,
              components, Goto
<1>5. Rest /\ [Next]_vars => Rest'
  BY <1>2, <1>3, <1>4, BusKeepsRest DEF Next, Finished
<1>6. IInv /\ Rest => TypeOK
  BY DEF IInv, Types, ThreadIsWorker, Rest, TypeOK
<1> QED
  BY <1>1, <1>5, <1>6, Inductive, PTL DEF Spec

\* Send puts the right command behind the others; Transmit keeps the order.
LEMMA CommandInductive == Spec => []CInv
<1>1. Init => CInv
  BY DEF Init, CInv
<1>2. ASSUME CInv, Send PROVE CInv'
  <2>1. wpc' = "log" /\ frame' = frame /\ ecu' = ecu
    BY <1>2 DEF Send, WGoto
  <2>2. CASE sent' = "accepted"
    <3>1. tx' = Append(tx, CommandFor(verdict))
      BY <1>2, <2>2 DEF Send
    <3>2. CommandFor(verdict) = Right /\ CommandFor(verdict) \in Commands
      BY <1>2 DEF CInv, Send, CommandFor, Right, Commands
    <3>3. tx' # <<>> /\ tx'[Len(tx')] = Right /\ tx' \in Seq(Commands)
      BY <1>2, <3>1, <3>2, AppendLast DEF CInv
    <3>4. Right' = Right
      BY <2>1 DEF Right
    <3> QED
      BY <2>1, <3>3, <3>4 DEF CInv, Newest
  <2>3. CASE sent' # "accepted"
    BY <1>2, <2>1, <2>3 DEF CInv, Send
  <2> QED
    BY <2>2, <2>3
<1>3. ASSUME CInv, Transmit PROVE CInv'
  <2>1. tx # <<>> /\ tx' = Tail(tx) /\ ecu' = Head(tx) /\ UNCHANGED <<wpc, frame, verdict, sent>>
    BY <1>3 DEF Transmit, callback
  <2>2. tx' \in Seq(Commands) /\ Newest' = Newest
    BY <1>3, <2>1, TailLast DEF CInv, Newest
  <2>3. Right' = Right
    BY <2>1 DEF Right
  <2> QED
    BY <1>3, <2>1, <2>2, <2>3 DEF CInv
<1>4. ASSUME CInv, MainStep \/ Signal \/ TcpThreadExits \/ ConsoleStalls \/ UNCHANGED vars
      PROVE  CInv'
  <2>1. UNCHANGED <<frame, verdict, sent, tx, ecu>>
    BY <1>4 DEF MainStep, MaskSignals, MaskFails, OpenCan, OpenCanFails, StartTcp, StartTcpFails,
                StartLidar, StartLidarFails, TakeSignal, TickFatal, Tick, ReportHealth,
                StopLidar, JoinLidar, StopTcp, CloseCan, Unmask, Signal, TcpThreadExits,
                ConsoleStalls, vars, callback, bus
  <2>2. wpc' \in {wpc, "check", "none"}
    BY <1>4 DEF MainStep, MaskSignals, MaskFails, OpenCan, OpenCanFails, StartTcp, StartTcpFails,
                StartLidar, StartLidarFails, TakeSignal, TickFatal, Tick, ReportHealth,
                StopLidar, JoinLidar, StopTcp, CloseCan, Unmask, Signal, TcpThreadExits,
                ConsoleStalls, vars, callback
  <2> QED
    BY <1>4, <2>1, <2>2 DEF CInv, Newest, Right
<1>5. ASSUME CInv, WorkerStep, ~Send PROVE CInv'
  <2>1. UNCHANGED bus
    BY <1>5 DEF WorkerStep, Check, AfterCheck, Deliver, GrabNothing, GiveUp, Exit, Publish, PublishThrows,
                Process, Log
  <2>2. CASE Deliver
    BY <1>5, <2>1, <2>2 DEF CInv, Deliver, WGoto, bus
  <2>3. CASE Process
    BY <1>5, <2>1, <2>3 DEF CInv, Newest, Right, Process, Obstacle, WGoto, bus
  <2>4. CASE ~Deliver /\ ~Process
    <3>1. UNCHANGED <<frame, verdict, sent>> /\ wpc' # "send"
          /\ (wpc' \in {"publish", "process"} => sent = "none")
      BY <1>5, <2>4 DEF WorkerStep, Check, AfterCheck, GrabNothing, GiveUp, Exit, Publish, PublishThrows,
                        Log, CInv, WGoto, callback
    <3> QED
      BY <1>5, <2>1, <3>1 DEF CInv, Newest, Right, bus
  <2> QED
    BY <2>2, <2>3, <2>4
<1>6. CInv /\ [Next]_vars => CInv'
  BY <1>2, <1>3, <1>4, <1>5 DEF Next, Finished
<1> QED
  BY <1>1, <1>6, PTL DEF Spec

\* The newest command accepted for the bus is the right one for the newest scan.
THEOREM CommandIsRight == Spec => []CommandStands
<1>1. CInv => CommandStands
  BY DEF CInv, CommandStands, Newest, Right
<1> QED
  BY CommandInductive, <1>1, PTL
================================================================================
