---------------------------- MODULE TcpServerProofs ----------------------------
(****************************************************************************)
(* TcpServer is correct for every depth of the queue, packet size, number of *)
(* frames, viewers and starts, and whether or not calls are paired.          *)
(*                                                                          *)
(* The argument: a frame is pushed by the publish() that numbered it, so the *)
(* frame in hand, the queue, the send buffer and the last chunk written hold *)
(* falling numbers (Ordered, Chunked).  Packets are therefore whole and in   *)
(* order.  When a session is installed only the frame in hand can be as old  *)
(* as it is (Fresh): there is one of them, and hence one stale frame.        *)
(****************************************************************************)
EXTENDS TcpServer, TLAPS

QueueTypes ==
    /\ queue \in Seq(1..MaxFrames) /\ Len(queue) <= capacity
    /\ pub \in PubPC
    /\ published \in 0..MaxFrames /\ evicted \in 0..1

LoopTypes ==
    /\ io \in IoPC
    /\ wantOut \in BOOLEAN /\ polled \in BOOLEAN
    /\ revents \in [wake : BOOLEAN, listen : BOOLEAN, hup : BOOLEAN, input : BOOLEAN]

SessionTypes ==
    /\ session \in [peer : 0..MaxConns, frame : 0..MaxFrames, offset : 0..FrameSize]
    /\ connects \in Nat /\ disconnects \in Nat
    /\ connected \in BOOLEAN /\ statConnected \in BOOLEAN

OwnerTypes ==
    /\ running \in BOOLEAN /\ stopRequested \in BOOLEAN
    /\ thread \in {"none", "joinable"}
    /\ owner \in {"idle", "signal", "join", "close"}
    /\ starts \in 0..MaxStarts
    /\ pipeOpen \in BOOLEAN /\ wake \in BOOLEAN /\ listening \in BOOLEAN

NetTypes ==
    /\ backlog \in Seq(Conns)
    /\ peer \in [Conns -> {"new", "open", "fin", "reset", "gone"}]
    /\ room \in 0..SocketRoom

HistoryTypes ==
    /\ settled \in Nat
    /\ lastChunk \in (0..MaxFrames) \X (1..FrameSize)
    /\ born \in 0..MaxFrames /\ stale \in Nat

Types ==
    /\ QueueTypes /\ LoopTypes /\ SessionTypes /\ OwnerTypes /\ NetTypes /\ HistoryTypes

\* publish() numbers its frame first, and only an eviction waits to be counted.
Numbering ==
    /\ pub # "idle" => published > 0
    /\ evicted # 0 => pub = "evicted"

\* What the stages of start(), of the loop and of stop() say of one another.
Life ==
    /\ io = "down" <=> thread = "none"
    /\ io \in {"down", "exited"} => ~running
    /\ io \notin {"down", "exited", "dead"} => running
    /\ io \in {"down", "exitFlag", "exited", "dead"} => ~Valid
    /\ owner \in {"signal", "join"} => io \notin {"down", "dead"}
    /\ owner = "close" => io = "down"
    /\ owner = "idle" /\ io = "down" => ~listening /\ ~pipeOpen /\ backlog = <<>>
    /\ io = "install" => ~Valid /\ backlog # <<>>
    /\ io \in {"clear", "pump"} => Valid
    /\ ~Valid => ~Buffered

\* The mirrors; a new session is counted after the queue has been cleared.
Mirrored ==
    /\ connected = Valid
    /\ statConnected = (Valid /\ io # "clear")
    /\ connects = disconnects + (IF Valid /\ io # "clear" THEN 1 ELSE 0)

Positions == 1..Len(queue)

\* From the frame in hand over the queue to the send buffer the numbers fall.
Ordered ==
    /\ \A i, j \in Positions : i < j => queue[i] < queue[j]
    /\ \A i \in Positions : queue[i] <= published /\ (InHand = 1 => queue[i] < published)
    /\ Buffered => /\ session.frame <= published
                   /\ InHand = 1 => session.frame < published
                   /\ \A i \in Positions : session.frame < queue[i]

\* The last chunk written is the one before the next, or ends a packet and is
\* older than all that is left.
Chunked ==
    /\ lastChunk[1] <= published
    /\ InHand = 1 => lastChunk[1] < published
    /\ \A i \in Positions : lastChunk[1] < queue[i]
    /\ session.offset \in {0, FrameSize} => lastChunk[2] = FrameSize
    /\ session.offset = 0 => lastChunk[1] < session.frame
    /\ Buffered /\ session.offset > 0 => lastChunk = <<session.frame, session.offset>>

\* Once the queue has been cleared nothing is older than the frame that was in
\* hand, and that was sent once at most.
Fresh ==
    /\ stale <= 1 /\ born <= published
    /\ stale > 0 => lastChunk[1] >= born
    /\ ~Valid \/ io = "clear" => stale = 0 /\ ~Buffered
    /\ Valid /\ io # "clear" =>
         /\ \A i \in Positions : queue[i] >= born
         /\ Buffered => session.frame >= born

\* Connections are used in turn, and each for one session.
Connections == connects + Len(backlog) + (IF io = "clear" THEN 1 ELSE 0)

InTurn ==
    \E k \in 0..MaxConns :
      /\ \A c \in Conns : peer[c] = "new" <=> c > k
      /\ Connections <= k

\* Whoever waits or is served has connected.
Used ==
    /\ Valid => peer[session.peer] # "new"
    /\ \A i \in 1..Len(backlog) : peer[backlog[i]] # "new"

IInv ==
    /\ Types /\ Numbering /\ Life /\ Mirrored
    /\ FramesConserved /\ Ordered /\ Chunked /\ Fresh /\ Used /\ InTurn

-----------------------------------------------------------------------------
(* The queue                                                                *)

\* The clamp leaves a usable capacity.
LEMMA CapacityPositive == capacity \in Nat /\ capacity >= 1
BY ConfiguredAssumption DEF capacity

\* push() on a queue within its capacity evicts at most one frame and shifts
\* the rest by as much.
LEMMA PushShape ==
    ASSUME NEW S, NEW q \in Seq(S), Len(q) <= capacity, NEW f \in S
    PROVE  /\ Evictions(q) \in 0..1
           /\ Evictions(q) <= Len(q)
           /\ Pushed(q, f) \in Seq(S)
           /\ Len(Pushed(q, f)) = Len(q) - Evictions(q) + 1
           /\ Len(Pushed(q, f)) <= capacity
           /\ \A i \in 1..(Len(q) - Evictions(q)) : Pushed(q, f)[i] = q[i + Evictions(q)]
           /\ Pushed(q, f)[Len(q) - Evictions(q) + 1] = f
<1>1. Evictions(q) \in 0..1 /\ Evictions(q) <= Len(q)
  BY CapacityPositive DEF Evictions
<1> DEFINE e == Evictions(q)
           s == SubSeq(q, e + 1, Len(q))
<1>2. s \in Seq(S) /\ Len(s) = Len(q) - e /\ \A i \in 1..(Len(q) - e) : s[i] = q[i + e]
  BY <1>1
<1>3. Pushed(q, f) = Append(s, f)
  BY DEF Pushed
<1>4. Len(q) - e + 1 <= capacity
  BY CapacityPositive DEF Evictions
<1> HIDE DEF s
<1>5. QED
  BY <1>1, <1>2, <1>3, <1>4

\* The sequence without its head.
LEMMA TailShape ==
    ASSUME NEW S, NEW q \in Seq(S), q # <<>>
    PROVE  /\ Head(q) = q[1] /\ Head(q) \in S
           /\ Tail(q) \in Seq(S) /\ Len(Tail(q)) = Len(q) - 1
           /\ \A i \in 1..Len(Tail(q)) : Tail(q)[i] = q[i + 1]
OBVIOUS

\* A queue whose numbers rise, and that lie below f, still rises when f is
\* pushed, and holds nothing but f and what it held.
LEMMA PushRises ==
    ASSUME NEW m \in Nat, NEW q \in Seq(1..m), Len(q) <= capacity, NEW f \in 1..m,
           \A i, j \in 1..Len(q) : i < j => q[i] < q[j],
           \A i \in 1..Len(q) : q[i] < f
    PROVE  /\ \A i, j \in 1..Len(Pushed(q, f)) : i < j => Pushed(q, f)[i] < Pushed(q, f)[j]
           /\ \A i \in 1..Len(Pushed(q, f)) :
                Pushed(q, f)[i] = f \/ \E j \in 1..Len(q) : Pushed(q, f)[i] = q[j]
<1> DEFINE e == Evictions(q)
           p == Pushed(q, f)
           k == Len(q) - e
<1>1. /\ e \in 0..1 /\ e <= Len(q) /\ Len(p) = k + 1
      /\ \A i \in 1..k : p[i] = q[i + e]
      /\ p[k + 1] = f
  BY PushShape
<1> HIDE DEF e, p
<1>2. k \in Nat /\ \A i \in 1..k : i + e \in 1..Len(q)
  BY <1>1
<1>3. \A i \in 1..k : p[i] < f
  BY <1>1, <1>2
<1>4. ASSUME NEW i \in 1..(k + 1), NEW j \in 1..(k + 1), i < j
      PROVE  p[i] < p[j]
  <2>1. i \in 1..k
    BY <1>4, <1>2
  <2>2. CASE j = k + 1
    BY <2>1, <2>2, <1>1, <1>3
  <2>3. CASE j # k + 1
    <3>1. j \in 1..k
      BY <2>3, <1>2
    <3>2. i + e \in 1..Len(q) /\ j + e \in 1..Len(q) /\ i + e < j + e
      BY <2>1, <3>1, <1>1, <1>2, <1>4
    <3>3. q[i + e] < q[j + e]
      BY <3>2
    <3>4. QED
      BY <3>3, <2>1, <3>1, <1>1
  <2>4. QED
    BY <2>2, <2>3
<1>5. ASSUME NEW i \in 1..(k + 1)
      PROVE  p[i] = f \/ \E j \in 1..Len(q) : p[i] = q[j]
  <2>1. i = k + 1 \/ i \in 1..k
    BY <1>2
  <2>2. QED
    BY <2>1, <1>1, <1>2
<1>6. QED
  BY <1>1, <1>4, <1>5 DEF p

\* The rest of a queue whose numbers rise still rises, above what was its head.
LEMMA TailRises ==
    ASSUME NEW m \in Nat, NEW q \in Seq(1..m), q # <<>>,
           \A i, j \in 1..Len(q) : i < j => q[i] < q[j]
    PROVE  /\ 1 \in 1..Len(q) /\ Head(q) = q[1]
           /\ \A i, j \in 1..Len(Tail(q)) : i < j => Tail(q)[i] < Tail(q)[j]
           /\ \A i \in 1..Len(Tail(q)) : Head(q) < Tail(q)[i]
           /\ \A i \in 1..Len(Tail(q)) : \E j \in 1..Len(q) : Tail(q)[i] = q[j]
<1> DEFINE t == Tail(q)
           k == Len(q) - 1
<1>1. /\ Head(q) = q[1] /\ Len(t) = k
      /\ \A i \in 1..k : t[i] = q[i + 1]
  BY TailShape
<1> HIDE DEF t
<1>2. k \in Nat /\ 1 \in 1..Len(q) /\ \A i \in 1..k : i + 1 \in 1..Len(q)
  OBVIOUS
<1>3. ASSUME NEW i \in 1..k, NEW j \in 1..k, i < j PROVE t[i] < t[j]
  <2>1. i + 1 \in 1..Len(q) /\ j + 1 \in 1..Len(q) /\ i + 1 < j + 1
    BY <1>2, <1>3
  <2>2. QED
    BY <2>1, <1>1
<1>4. ASSUME NEW i \in 1..k PROVE Head(q) < t[i] /\ \E j \in 1..Len(q) : t[i] = q[j]
  <2>1. i + 1 \in 1..Len(q) /\ 1 < i + 1
    BY <1>2
  <2>2. QED
    BY <2>1, <1>1, <1>2
<1>5. QED
  BY <1>1, <1>2, <1>3, <1>4 DEF t

\* A session that is closed, or fresh.
LEMMA ClosedShape ==
    /\ Closed \in [peer : 0..MaxConns, frame : 0..MaxFrames, offset : 0..FrameSize]
    /\ \A c \in Conns :
         [Closed EXCEPT !.peer = c]
           \in [peer : 0..MaxConns, frame : 0..MaxFrames, offset : 0..FrameSize]
BY SizesAssumption, BoundsAssumption DEF Closed, Conns

-----------------------------------------------------------------------------
(* The step of each part of the invariant                                    *)

\* The queue and publish() keep to their ranges.
LEMMA StepQueueTypes == IInv /\ [Next]_vars => QueueTypes'
<1> SUFFICES ASSUME IInv, [Next]_vars PROVE QueueTypes'
  OBVIOUS
<1> USE CapacityPositive, BoundsAssumption DEF IInv, Types, QueueTypes, pubVars, ioVars,
        sessionVars, ownerVars, netVars, history, others
<1>1. CASE Build \/ Poll \/ Drain \/ ClientEvents \/ NothingToAccept \/ AcceptClient \/ Install
  \/ ServiceOutput \/ PumpDone \/ PumpSend \/ PumpBlocked \/ PumpFails \/ ExitFlag \/
  PollInterrupted \/ PollFails \/ AcceptFails \/ StartFails \/ Start \/ StopCall \/ StopSignal
  \/ StopJoin \/ StopClose
  BY <1>1 DEF Build, Leaving, WantsOut, Poll, Drain, ClientEvents, EndSession, KeepSession, Gone,
     ConnectedAfterEnd, NothingToAccept, ForgetEvents, AcceptClient, Replace, Install,
     ServiceOutput, PumpDone, BufferWritten, PumpSend, PumpBlocked, PumpFails, ExitFlag,
     PollInterrupted, PollFails, AcceptFails, StartFails, MayStart, Start, StopCall, StopSignal,
     Signalled, StopJoin, Joined, StopClose
<1>2. CASE Publish
  BY <1>2 DEF Publish, PubPC
<1>3. CASE LoadConnected
  BY <1>3 DEF LoadConnected, PubPC
<1>4. CASE LoadRunning
  BY <1>4 DEF LoadRunning, PubPC
<1>5. CASE Drop
  BY <1>5 DEF Drop, PubPC
<1>6. CASE Push
  BY <1>6, PushShape DEF Push, PubPC, Numbering
<1>7. CASE CountEvicted
  BY <1>7 DEF CountEvicted, PubPC
<1>8. CASE Signal
  BY <1>8 DEF Signal, Signalled, PubPC
<1>9. CASE ClearForSession
  BY <1>9 DEF ClearForSession, QueueForNewSession
<1>10. CASE ServiceNobody
  BY <1>10 DEF ServiceNobody
<1>11. CASE PumpPop
  BY <1>11, TailShape DEF PumpPop, BufferWritten
<1>12. CASE Exit
  BY <1>12 DEF Exit, Gone, ConnectedAfterEnd
<1>13. CASE \E c \in Conns : Connect(c)
  BY <1>13 DEF Connect
<1>14. CASE \E c \in Conns : Leave(c)
  BY <1>14 DEF Leave
<1>15. CASE Read
  BY <1>15 DEF Read
<1>16. CASE UNCHANGED vars
  BY <1>16 DEF vars
<1>17. QED
  BY <1>1, <1>2, <1>3, <1>4, <1>5, <1>6, <1>7, <1>8, <1>9, <1>10, <1>11, <1>12, <1>13, <1>14,
     <1>15, <1>16 DEF Next, PublishStep, IoStep, OwnerStep

\* The locals of the loop keep to their ranges.
LEMMA StepLoopTypes == IInv /\ [Next]_vars => LoopTypes'
<1> SUFFICES ASSUME IInv, [Next]_vars PROVE LoopTypes'
  OBVIOUS
<1> USE BoundsAssumption DEF IInv, Types, LoopTypes, IoPC, pubVars, ioVars, sessionVars,
        ownerVars, netVars, history, others
<1>1. CASE Publish \/ LoadConnected \/ LoadRunning \/ Drop \/ Push \/ CountEvicted \/ Signal \/
  PumpPop \/ PumpSend \/ StartFails \/ StopCall \/ StopSignal \/ StopClose
  BY <1>1 DEF Publish, LoadConnected, LoadRunning, Drop, Push, CountEvicted, Signal, Signalled,
     PumpPop, BufferWritten, PumpSend, StartFails, MayStart, StopCall, StopSignal, StopClose
<1>2. CASE Build
  BY <1>2 DEF Build, Leaving, WantsOut, Valid
<1>3. CASE Poll
  BY <1>3 DEF Poll, OwnerTypes
<1>4. CASE Drain
  BY <1>4 DEF Drain
<1>5. CASE ClientEvents
  BY <1>5 DEF ClientEvents, EndSession, KeepSession, Gone, ConnectedAfterEnd
<1>6. CASE NothingToAccept
  BY <1>6 DEF NothingToAccept, ForgetEvents, NoEvents
<1>7. CASE AcceptClient
  BY <1>7 DEF AcceptClient, Replace, EndSession, KeepSession, Gone, ConnectedAfterEnd,
     ForgetEvents, NoEvents
<1>8. CASE Install
  BY <1>8 DEF Install
<1>9. CASE ClearForSession
  BY <1>9 DEF ClearForSession, QueueForNewSession
<1>10. CASE ServiceNobody
  BY <1>10 DEF ServiceNobody
<1>11. CASE ServiceOutput
  BY <1>11 DEF ServiceOutput
<1>12. CASE PumpDone
  BY <1>12 DEF PumpDone, BufferWritten
<1>13. CASE PumpBlocked
  BY <1>13 DEF PumpBlocked, BufferWritten
<1>14. CASE PumpFails
  BY <1>14 DEF PumpFails, BufferWritten, EndSession, Gone, ConnectedAfterEnd
<1>15. CASE Exit
  BY <1>15 DEF Exit, Gone, ConnectedAfterEnd
<1>16. CASE ExitFlag
  BY <1>16 DEF ExitFlag
<1>17. CASE PollInterrupted
  BY <1>17 DEF PollInterrupted
<1>18. CASE PollFails
  BY <1>18 DEF PollFails
<1>19. CASE AcceptFails
  BY <1>19 DEF AcceptFails, ForgetEvents, NoEvents
<1>20. CASE Start
  BY <1>20 DEF Start, MayStart
<1>21. CASE StopJoin
  BY <1>21 DEF StopJoin, Joined
<1>22. CASE \E c \in Conns : Connect(c)
  BY <1>22 DEF Connect
<1>23. CASE \E c \in Conns : Leave(c)
  BY <1>23 DEF Leave
<1>24. CASE Read
  BY <1>24 DEF Read
<1>25. CASE UNCHANGED vars
  BY <1>25 DEF vars
<1>26. QED
  BY <1>1, <1>2, <1>3, <1>4, <1>5, <1>6, <1>7, <1>8, <1>9, <1>10, <1>11, <1>12, <1>13, <1>14,
     <1>15, <1>16, <1>17, <1>18, <1>19, <1>20, <1>21, <1>22, <1>23, <1>24, <1>25 DEF Next,
     PublishStep, IoStep, OwnerStep

\* The session and its mirrors keep to their ranges.
LEMMA StepSessionTypes == IInv /\ [Next]_vars => SessionTypes'
<1> SUFFICES ASSUME IInv, [Next]_vars PROVE SessionTypes'
  OBVIOUS
<1> USE SizesAssumption, BoundsAssumption DEF IInv, Types, SessionTypes, pubVars, ioVars,
        sessionVars, ownerVars, netVars, history, others
<1>1. CASE Publish \/ LoadConnected \/ LoadRunning \/ Drop \/ Push \/ CountEvicted \/ Signal \/
  Build \/ Poll \/ Drain \/ NothingToAccept \/ ServiceNobody \/ ServiceOutput \/ PumpDone \/
  PumpBlocked \/ ExitFlag \/ PollInterrupted \/ PollFails \/ AcceptFails \/ StartFails \/ Start
  \/ StopCall \/ StopSignal \/ StopJoin
  BY <1>1 DEF Publish, LoadConnected, LoadRunning, Drop, Push, CountEvicted, Signal, Signalled,
     Build, Leaving, WantsOut, Poll, Drain, NothingToAccept, ForgetEvents, ServiceNobody,
     ServiceOutput, PumpDone, BufferWritten, PumpBlocked, ExitFlag, PollInterrupted, PollFails,
     AcceptFails, StartFails, MayStart, Start, StopCall, StopSignal, StopJoin, Joined
<1>2. CASE ClientEvents
  <2>1. CASE EndSession
    <3>1. session' = Closed /\ connects' = connects /\ disconnects' = disconnects + 1
      BY <2>1 DEF EndSession
    <3>2. connected' \in BOOLEAN /\ statConnected' \in BOOLEAN
      BY <2>1, Zenon DEF EndSession, ConnectedAfterEnd
    <3>3. QED
      BY <3>1, <3>2, ClosedShape
  <2>2. CASE KeepSession
    BY <2>2 DEF KeepSession
  <2>3. QED
    BY <1>2, <2>1, <2>2, Zenon DEF ClientEvents
<1>3. CASE AcceptClient
  <2>1. CASE EndSession
    <3>1. session' = Closed /\ connects' = connects /\ disconnects' = disconnects + 1
      BY <2>1 DEF EndSession
    <3>2. connected' \in BOOLEAN /\ statConnected' \in BOOLEAN
      BY <2>1, Zenon DEF EndSession, ConnectedAfterEnd
    <3>3. QED
      BY <3>1, <3>2, ClosedShape
  <2>2. CASE KeepSession
    BY <2>2 DEF KeepSession
  <2>3. QED
    BY <1>3, <2>1, <2>2, Zenon DEF AcceptClient, Replace, ForgetEvents
<1>4. CASE Install
  BY <1>4, ClosedShape, TailShape DEF Install, Life, NetTypes
<1>5. CASE ClearForSession
  BY <1>5 DEF ClearForSession, QueueForNewSession
<1>6. CASE PumpPop
  <2>1. Head(queue) \in 0..MaxFrames
    BY <1>6, TailShape DEF PumpPop, QueueTypes
  <2>2. session' = [session EXCEPT !.frame = Head(queue), !.offset = 0]
    BY <1>6 DEF PumpPop
  <2>3. 0 \in 0..FrameSize
    OBVIOUS
  <2>4. session' \in [peer : 0..MaxConns, frame : 0..MaxFrames, offset : 0..FrameSize]
    BY <2>1, <2>2, <2>3
  <2>5. QED
    BY <1>6, <2>4 DEF PumpPop
<1>7. CASE PumpSend
  BY <1>7 DEF PumpSend, BufferWritten, Buffered
<1>8. CASE PumpFails
  <2>1. CASE EndSession
    <3>1. session' = Closed /\ connects' = connects /\ disconnects' = disconnects + 1
      BY <2>1 DEF EndSession
    <3>2. connected' \in BOOLEAN /\ statConnected' \in BOOLEAN
      BY <2>1, Zenon DEF EndSession, ConnectedAfterEnd
    <3>3. QED
      BY <3>1, <3>2, ClosedShape
  <2>2. CASE KeepSession
    BY <2>2 DEF KeepSession
  <2>3. QED
    BY <1>8, <2>1, <2>2, Zenon DEF PumpFails, BufferWritten
<1>9. CASE Exit
  <2>1. session' \in [peer : 0..MaxConns, frame : 0..MaxFrames, offset : 0..FrameSize]
    BY <1>9, ClosedShape DEF Exit
  <2>2. connects' = connects /\ disconnects' \in Nat
    BY <1>9 DEF Exit
  <2>3. connected' \in BOOLEAN /\ statConnected' \in BOOLEAN
    BY <1>9, Zenon DEF Exit, ConnectedAfterEnd
  <2>4. QED
    BY <2>1, <2>2, <2>3
<1>10. CASE StopClose
  BY <1>10 DEF StopClose
<1>11. CASE \E c \in Conns : Connect(c)
  BY <1>11 DEF Connect
<1>12. CASE \E c \in Conns : Leave(c)
  BY <1>12 DEF Leave
<1>13. CASE Read
  BY <1>13 DEF Read
<1>14. CASE UNCHANGED vars
  BY <1>14 DEF vars
<1>15. QED
  BY <1>1, <1>2, <1>3, <1>4, <1>5, <1>6, <1>7, <1>8, <1>9, <1>10, <1>11, <1>12, <1>13, <1>14 DEF
     Next, PublishStep, IoStep, OwnerStep

\* What start() and stop() keep stays within its range.
LEMMA StepOwnerTypes == IInv /\ [Next]_vars => OwnerTypes'
<1> SUFFICES ASSUME IInv, [Next]_vars PROVE OwnerTypes'
  OBVIOUS
<1> USE BoundsAssumption DEF IInv, Types, OwnerTypes, pubVars, ioVars, sessionVars, ownerVars,
        netVars, history, others
<1>1. CASE Publish \/ LoadConnected \/ LoadRunning \/ Drop \/ Push \/ CountEvicted \/ Build \/
  Poll \/ ClientEvents \/ NothingToAccept \/ AcceptClient \/ Install \/ ClearForSession \/
  ServiceNobody \/ ServiceOutput \/ PumpPop \/ PumpDone \/ PumpSend \/ PumpBlocked \/ PumpFails
  \/ Exit \/ PollInterrupted \/ PollFails \/ AcceptFails
  BY <1>1 DEF Publish, LoadConnected, LoadRunning, Drop, Push, CountEvicted, Build, Leaving,
     WantsOut, Poll, ClientEvents, EndSession, KeepSession, Gone, ConnectedAfterEnd,
     NothingToAccept, ForgetEvents, AcceptClient, Replace, Install, ClearForSession,
     QueueForNewSession, ServiceNobody, ServiceOutput, PumpPop, BufferWritten, PumpDone,
     PumpSend, PumpBlocked, PumpFails, Exit, PollInterrupted, PollFails, AcceptFails
<1>2. CASE Signal
  BY <1>2 DEF Signal, Signalled
<1>3. CASE Drain
  BY <1>3 DEF Drain, LoopTypes
<1>4. CASE ExitFlag
  BY <1>4 DEF ExitFlag
<1>5. CASE StartFails
  <2>1. starts' \in 0..MaxStarts
    BY <1>5 DEF StartFails, MayStart
  <2>2. /\ running' \in BOOLEAN /\ stopRequested' \in BOOLEAN
        /\ pipeOpen' \in BOOLEAN /\ wake' \in BOOLEAN /\ listening' \in BOOLEAN
    BY <1>5, Zenon DEF StartFails
  <2>3. thread' \in {"none", "joinable"} /\ owner' = owner
    BY <1>5, Zenon DEF StartFails
  <2>4. QED
    BY <2>1, <2>2, <2>3
<1>6. CASE Start
  <2>1. starts' \in 0..MaxStarts
    BY <1>6 DEF Start, MayStart
  <2>2. /\ running' \in BOOLEAN /\ stopRequested' \in BOOLEAN
        /\ pipeOpen' \in BOOLEAN /\ wake' \in BOOLEAN /\ listening' \in BOOLEAN
    BY <1>6, Zenon DEF Start
  <2>3. thread' \in {"none", "joinable"} /\ owner' = owner
    BY <1>6, Zenon DEF Start
  <2>4. QED
    BY <2>1, <2>2, <2>3
<1>7. CASE StopCall
  BY <1>7 DEF StopCall
<1>8. CASE StopSignal
  BY <1>8 DEF StopSignal, Signalled
<1>9. CASE StopJoin
  BY <1>9 DEF StopJoin, Joined
<1>10. CASE StopClose
  BY <1>10 DEF StopClose
<1>11. CASE \E c \in Conns : Connect(c)
  BY <1>11 DEF Connect
<1>12. CASE \E c \in Conns : Leave(c)
  BY <1>12 DEF Leave
<1>13. CASE Read
  BY <1>13 DEF Read
<1>14. CASE UNCHANGED vars
  BY <1>14 DEF vars
<1>15. QED
  BY <1>1, <1>2, <1>3, <1>4, <1>5, <1>6, <1>7, <1>8, <1>9, <1>10, <1>11, <1>12, <1>13, <1>14 DEF
     Next, PublishStep, IoStep, OwnerStep

\* Connections keep to their ranges.
LEMMA StepNetTypes == IInv /\ [Next]_vars => NetTypes'
<1> SUFFICES ASSUME IInv, [Next]_vars PROVE NetTypes'
  OBVIOUS
<1> USE SizesAssumption DEF IInv, Types, NetTypes, pubVars, ioVars, sessionVars, ownerVars,
        netVars, history, others
<1>1. CASE Publish \/ LoadConnected \/ LoadRunning \/ Drop \/ Push \/ CountEvicted \/ Signal \/
  Build \/ Poll \/ Drain \/ NothingToAccept \/ ClearForSession \/ ServiceNobody \/ ServiceOutput
  \/ PumpPop \/ PumpDone \/ PumpBlocked \/ ExitFlag \/ PollInterrupted \/ PollFails \/
  AcceptFails \/ StartFails \/ Start \/ StopCall \/ StopSignal \/ StopJoin
  BY <1>1 DEF Publish, LoadConnected, LoadRunning, Drop, Push, CountEvicted, Signal, Signalled,
     Build, Leaving, WantsOut, Poll, Drain, NothingToAccept, ForgetEvents, ClearForSession,
     QueueForNewSession, ServiceNobody, ServiceOutput, PumpPop, BufferWritten, PumpDone,
     PumpBlocked, ExitFlag, PollInterrupted, PollFails, AcceptFails, StartFails, MayStart,
     Start, StopCall, StopSignal, StopJoin, Joined
<1>2. CASE ClientEvents
  BY <1>2 DEF ClientEvents, EndSession, KeepSession, Gone, ConnectedAfterEnd
<1>3. CASE AcceptClient
  BY <1>3 DEF AcceptClient, Replace, EndSession, KeepSession, Gone, ConnectedAfterEnd,
     ForgetEvents
<1>4. CASE Install
  BY <1>4, TailShape DEF Install, Life
<1>5. CASE PumpSend
  BY <1>5 DEF PumpSend, BufferWritten
<1>6. CASE PumpFails
  <2>1. peer' = [peer EXCEPT ![session.peer] = "gone"]
    BY <1>6, Zenon DEF PumpFails, EndSession, Gone
  <2>2. backlog' = backlog /\ room' = SocketRoom
    BY <1>6, Zenon DEF PumpFails, EndSession, Gone
  <2>3. peer' \in [Conns -> {"new", "open", "fin", "reset", "gone"}]
    BY <2>1
  <2>4. QED
    BY <2>2, <2>3
<1>7. CASE Exit
  BY <1>7 DEF Exit, Gone, ConnectedAfterEnd
<1>8. CASE StopClose
  BY <1>8 DEF StopClose
<1>9. CASE \E c \in Conns : Connect(c)
  BY <1>9 DEF Connect
<1>10. CASE \E c \in Conns : Leave(c)
  BY <1>10 DEF Leave
<1>11. CASE Read
  BY <1>11 DEF Read
<1>12. CASE UNCHANGED vars
  BY <1>12 DEF vars
<1>13. QED
  BY <1>1, <1>2, <1>3, <1>4, <1>5, <1>6, <1>7, <1>8, <1>9, <1>10, <1>11, <1>12 DEF Next,
     PublishStep, IoStep, OwnerStep

\* Counters and histories keep to their ranges.
LEMMA StepHistoryTypes == IInv /\ [Next]_vars => HistoryTypes'
<1> SUFFICES ASSUME IInv, [Next]_vars PROVE HistoryTypes'
  OBVIOUS
<1> USE SizesAssumption, BoundsAssumption DEF IInv, Types, HistoryTypes, pubVars, ioVars,
        sessionVars, ownerVars, netVars, history, others
<1>1. CASE Publish \/ LoadConnected \/ LoadRunning \/ Push \/ Signal \/ Build \/ Poll \/ Drain
  \/ NothingToAccept \/ ServiceOutput \/ PumpPop \/ PumpDone \/ PumpBlocked \/ ExitFlag \/
  PollInterrupted \/ PollFails \/ AcceptFails \/ StartFails \/ Start \/ StopCall \/ StopSignal
  \/ StopJoin \/ StopClose
  BY <1>1 DEF Publish, LoadConnected, LoadRunning, Push, Signal, Signalled, Build, Leaving,
     WantsOut, Poll, Drain, NothingToAccept, ForgetEvents, ServiceOutput, PumpPop,
     BufferWritten, PumpDone, PumpBlocked, ExitFlag, PollInterrupted, PollFails, AcceptFails,
     StartFails, MayStart, Start, StopCall, StopSignal, StopJoin, Joined, StopClose
<1>2. CASE Drop
  BY <1>2 DEF Drop
<1>3. CASE CountEvicted
  BY <1>3 DEF CountEvicted, QueueTypes
<1>4. CASE ClientEvents
  BY <1>4 DEF ClientEvents, EndSession, KeepSession, Gone, ConnectedAfterEnd, Unsent
<1>5. CASE AcceptClient
  BY <1>5 DEF AcceptClient, Replace, EndSession, KeepSession, Gone, ConnectedAfterEnd,
     ForgetEvents, Unsent
<1>6. CASE Install
  BY <1>6 DEF Install, QueueTypes
<1>7. CASE ClearForSession
  BY <1>7 DEF ClearForSession, QueueForNewSession, QueueTypes
<1>8. CASE ServiceNobody
  BY <1>8 DEF ServiceNobody, QueueTypes
<1>9. CASE PumpSend
  BY <1>9 DEF PumpSend, BufferWritten, SessionTypes, Buffered
<1>10. CASE PumpFails
  BY <1>10 DEF PumpFails, BufferWritten, EndSession, Gone, ConnectedAfterEnd, Unsent
<1>11. CASE Exit
  BY <1>11 DEF Exit, Gone, ConnectedAfterEnd, Unsent, QueueTypes
<1>12. CASE \E c \in Conns : Connect(c)
  BY <1>12 DEF Connect
<1>13. CASE \E c \in Conns : Leave(c)
  BY <1>13 DEF Leave
<1>14. CASE Read
  BY <1>14 DEF Read
<1>15. CASE UNCHANGED vars
  BY <1>15 DEF vars
<1>16. QED
  BY <1>1, <1>2, <1>3, <1>4, <1>5, <1>6, <1>7, <1>8, <1>9, <1>10, <1>11, <1>12, <1>13, <1>14,
     <1>15 DEF Next, PublishStep, IoStep, OwnerStep

\* publish() counts its frame before anything else, and what it evicts right after.
LEMMA StepNumbering == IInv /\ [Next]_vars => Numbering'
<1> SUFFICES ASSUME IInv, [Next]_vars PROVE Numbering'
  OBVIOUS
<1> USE BoundsAssumption DEF IInv, Types, QueueTypes, Numbering, pubVars, ioVars, sessionVars,
        ownerVars, netVars, history, others
<1>1. CASE Build \/ Poll \/ Drain \/ ClientEvents \/ NothingToAccept \/ AcceptClient \/ Install
  \/ ClearForSession \/ ServiceNobody \/ ServiceOutput \/ PumpPop \/ PumpDone \/ PumpSend \/
  PumpBlocked \/ PumpFails \/ Exit \/ ExitFlag \/ PollInterrupted \/ PollFails \/ AcceptFails \/
  StartFails \/ Start \/ StopCall \/ StopSignal \/ StopJoin \/ StopClose
  BY <1>1 DEF Build, Leaving, WantsOut, Poll, Drain, ClientEvents, EndSession, KeepSession, Gone,
     ConnectedAfterEnd, NothingToAccept, ForgetEvents, AcceptClient, Replace, Install,
     ClearForSession, QueueForNewSession, ServiceNobody, ServiceOutput, PumpPop, BufferWritten,
     PumpDone, PumpSend, PumpBlocked, PumpFails, Exit, ExitFlag, PollInterrupted, PollFails,
     AcceptFails, StartFails, MayStart, Start, StopCall, StopSignal, Signalled, StopJoin,
     Joined, StopClose
<1>2. CASE Publish
  BY <1>2 DEF Publish
<1>3. CASE LoadConnected
  BY <1>3 DEF LoadConnected
<1>4. CASE LoadRunning
  BY <1>4 DEF LoadRunning
<1>5. CASE Drop
  BY <1>5 DEF Drop
<1>6. CASE Push
  <2>1. evicted' \in 0..1
    BY <1>6, PushShape DEF Push
  <2>2. QED
    BY <1>6, <2>1 DEF Push
<1>7. CASE CountEvicted
  BY <1>7 DEF CountEvicted
<1>8. CASE Signal
  BY <1>8 DEF Signal, Signalled
<1>9. CASE \E c \in Conns : Connect(c)
  BY <1>9 DEF Connect
<1>10. CASE \E c \in Conns : Leave(c)
  BY <1>10 DEF Leave
<1>11. CASE Read
  BY <1>11 DEF Read
<1>12. CASE UNCHANGED vars
  BY <1>12 DEF vars
<1>13. QED
  BY <1>1, <1>2, <1>3, <1>4, <1>5, <1>6, <1>7, <1>8, <1>9, <1>10, <1>11, <1>12 DEF Next,
     PublishStep, IoStep, OwnerStep

\* The loop, start() and stop() keep step with one another.
LEMMA StepLife == IInv /\ [Next]_vars => Life'
<1> SUFFICES ASSUME IInv, [Next]_vars PROVE Life'
  OBVIOUS
<1> USE SizesAssumption, BoundsAssumption DEF IInv, Types, SessionTypes, OwnerTypes, NetTypes,
        Life, Valid, Buffered, pubVars, ioVars, sessionVars, ownerVars, netVars, history, others
<1>1. CASE Publish \/ LoadConnected \/ LoadRunning \/ Drop \/ Push \/ CountEvicted \/ Signal
  BY <1>1 DEF Publish, LoadConnected, LoadRunning, Drop, Push, CountEvicted, Signal, Signalled
<1>2. CASE Build
  BY <1>2 DEF Build, Leaving, WantsOut
<1>3. CASE Poll
  BY <1>3 DEF Poll
<1>4. CASE Drain
  BY <1>4 DEF Drain
<1>5. CASE ClientEvents
  BY <1>5 DEF ClientEvents, EndSession, KeepSession, Gone, ConnectedAfterEnd, Closed
<1>6. CASE NothingToAccept
  BY <1>6 DEF NothingToAccept, ForgetEvents
<1>7. CASE AcceptClient
  BY <1>7 DEF AcceptClient, Replace, EndSession, KeepSession, Gone, ConnectedAfterEnd,
     ForgetEvents, Closed
<1>8. CASE Install
  <2>1. Head(backlog) \in Conns
    BY <1>8, TailShape DEF Install, Life, NetTypes
  <2>2. session' = [peer |-> Head(backlog), frame |-> 0, offset |-> FrameSize]
    BY <1>8 DEF Install, Closed
  <2>3. Valid'
    BY <2>1, <2>2 DEF Conns
  <2>4. QED
    BY <1>8, <2>3 DEF Install
<1>9. CASE ClearForSession
  BY <1>9 DEF ClearForSession, QueueForNewSession
<1>10. CASE ServiceNobody
  BY <1>10 DEF ServiceNobody
<1>11. CASE ServiceOutput
  BY <1>11 DEF ServiceOutput
<1>12. CASE PumpPop
  BY <1>12 DEF PumpPop, BufferWritten
<1>13. CASE PumpDone
  BY <1>13 DEF PumpDone, BufferWritten
<1>14. CASE PumpSend
  BY <1>14 DEF PumpSend, BufferWritten
<1>15. CASE PumpBlocked
  BY <1>15 DEF PumpBlocked, BufferWritten
<1>16. CASE PumpFails
  BY <1>16 DEF PumpFails, BufferWritten, EndSession, Gone, ConnectedAfterEnd, Closed
<1>17. CASE Exit
  BY <1>17 DEF Exit, Gone, ConnectedAfterEnd, Closed
<1>18. CASE ExitFlag
  BY <1>18 DEF ExitFlag
<1>19. CASE PollInterrupted
  BY <1>19 DEF PollInterrupted
<1>20. CASE PollFails
  BY <1>20 DEF PollFails
<1>21. CASE AcceptFails
  BY <1>21 DEF AcceptFails, ForgetEvents
<1>22. CASE StartFails
  BY <1>22 DEF StartFails, MayStart
<1>23. CASE Start
  BY <1>23 DEF Start, MayStart
<1>24. CASE StopCall
  BY <1>24 DEF StopCall
<1>25. CASE StopSignal
  BY <1>25 DEF StopSignal, Signalled
<1>26. CASE StopJoin
  BY <1>26 DEF StopJoin, Joined
<1>27. CASE StopClose
  BY <1>27 DEF StopClose
<1>28. CASE \E c \in Conns : Connect(c)
  BY <1>28 DEF Connect
<1>29. CASE \E c \in Conns : Leave(c)
  BY <1>29 DEF Leave
<1>30. CASE Read
  BY <1>30 DEF Read
<1>31. CASE UNCHANGED vars
  BY <1>31 DEF vars
<1>32. QED
  BY <1>1, <1>2, <1>3, <1>4, <1>5, <1>6, <1>7, <1>8, <1>9, <1>10, <1>11, <1>12, <1>13, <1>14,
     <1>15, <1>16, <1>17, <1>18, <1>19, <1>20, <1>21, <1>22, <1>23, <1>24, <1>25, <1>26, <1>27,
     <1>28, <1>29, <1>30, <1>31 DEF Next, PublishStep, IoStep, OwnerStep

\* A session that ends while it is counted takes its mirrors and one disconnect
\* with it.
LEMMA EndMirrored ==
    ASSUME Mirrored, SessionTypes, Valid, io # "clear", session' = Closed,
           connected' = FALSE, statConnected' = FALSE,
           disconnects' = disconnects + 1, connects' = connects
    PROVE  Mirrored'
<1>1. Valid' = FALSE
  BY DEF Valid, Closed
<1>2. connected' = Valid'
  BY <1>1, Zenon
<1>3. statConnected' = (Valid' /\ io' # "clear")
  BY <1>1, Zenon
<1>4. connects = disconnects + 1
  BY DEF Mirrored
<1>5. connects' = disconnects' + 0
  BY <1>4 DEF SessionTypes
<1>6. QED
  BY <1>1, <1>2, <1>3, <1>5 DEF Mirrored

\* Nothing but the stage of the loop changes.
LEMMA KeepMirrored ==
    ASSUME Mirrored, io # "clear", io' # "clear", session' = session,
           connected' = connected, statConnected' = statConnected,
           disconnects' = disconnects, connects' = connects
    PROVE  Mirrored'
<1>1. Valid' = Valid
  BY DEF Valid
<1>2. QED
  BY <1>1, Zenon DEF Mirrored

\* Whoever opens or ends a session sets its mirrors and counts it.
LEMMA StepMirrored == IInv /\ [Next]_vars => Mirrored'
<1> SUFFICES ASSUME IInv, [Next]_vars PROVE Mirrored'
  OBVIOUS
<1> USE BoundsAssumption DEF IInv, Types, SessionTypes, Mirrored, Life, Valid, pubVars, ioVars,
        sessionVars, ownerVars, netVars, history, others
<1>1. CASE Publish \/ LoadConnected \/ LoadRunning \/ Drop \/ Push \/ CountEvicted \/ Signal \/
  StopCall \/ StopSignal
  BY <1>1 DEF Publish, LoadConnected, LoadRunning, Drop, Push, CountEvicted, Signal, Signalled,
     StopCall, StopSignal
<1>2. CASE Build
  BY <1>2 DEF Build, Leaving, WantsOut
<1>3. CASE Poll
  BY <1>3 DEF Poll
<1>4. CASE Drain
  BY <1>4 DEF Drain
<1>5. CASE ClientEvents
  <2>1. CASE EndSession /\ Valid
    <3>1. Valid /\ io # "clear"
      BY <1>5, <2>1 DEF ClientEvents, Life
    <3>2. session' = Closed /\ disconnects' = disconnects + 1 /\ connects' = connects
      BY <1>5, <2>1 DEF ClientEvents, EndSession
    <3>3. connected' = FALSE /\ statConnected' = FALSE
      BY <1>5, <2>1, Zenon DEF ClientEvents, EndSession, ConnectedAfterEnd
    <3>4. QED
      BY <3>1, <3>2, <3>3, EndMirrored
  <2>2. CASE KeepSession
    <3>1. io # "clear" /\ io' # "clear"
      BY <1>5 DEF ClientEvents
    <3>2. /\ session' = session /\ connected' = connected /\ statConnected' = statConnected
          /\ disconnects' = disconnects /\ connects' = connects
      BY <1>5, <2>2, Zenon DEF ClientEvents, EndSession, KeepSession, sessionVars
    <3>3. QED
      BY <3>1, <3>2, KeepMirrored
  <2>3. QED
    BY <1>5, <2>1, <2>2, Zenon DEF ClientEvents, EndSession
<1>6. CASE NothingToAccept
  BY <1>6 DEF NothingToAccept, ForgetEvents
<1>7. CASE AcceptClient
  <2>1. CASE EndSession /\ Valid
    <3>1. Valid /\ io # "clear"
      BY <1>7, <2>1 DEF AcceptClient, Life
    <3>2. session' = Closed /\ disconnects' = disconnects + 1 /\ connects' = connects
      BY <1>7, <2>1 DEF AcceptClient, Replace, EndSession
    <3>3. connected' = FALSE /\ statConnected' = FALSE
      BY <1>7, <2>1, Zenon DEF AcceptClient, Replace, EndSession, ConnectedAfterEnd
    <3>4. QED
      BY <3>1, <3>2, <3>3, EndMirrored
  <2>2. CASE KeepSession
    <3>1. io # "clear" /\ io' # "clear"
      BY <1>7 DEF AcceptClient
    <3>2. /\ session' = session /\ connected' = connected /\ statConnected' = statConnected
          /\ disconnects' = disconnects /\ connects' = connects
      BY <1>7, <2>2, Zenon DEF AcceptClient, Replace, EndSession, KeepSession, sessionVars
    <3>3. QED
      BY <3>1, <3>2, KeepMirrored
  <2>3. QED
    BY <1>7, <2>1, <2>2, Zenon DEF AcceptClient, Replace, EndSession
<1>8. CASE Install
  <2>1. Head(backlog) \in Conns
    BY <1>8, TailShape DEF Install, Life, NetTypes
  <2>2. session' = [peer |-> Head(backlog), frame |-> 0, offset |-> FrameSize]
    BY <1>8 DEF Install, Closed
  <2>3. Valid' /\ ~Valid
    BY <1>8, <2>1, <2>2 DEF Install, Life, Conns
  <2>4. connected' = TRUE /\ statConnected' = statConnected /\ io' = "clear"
    BY <1>8 DEF Install
  <2>5. connected' = Valid' /\ statConnected' = (Valid' /\ io' # "clear")
    BY <2>3, <2>4, Zenon
  <2>6. connects' = disconnects' + 0
    BY <1>8, <2>3 DEF Install
  <2>7. QED
    BY <2>4, <2>5, <2>6
<1>9. CASE ClearForSession
  <2>1. io = "clear" /\ io' = "service" /\ Valid /\ session' = session
    BY <1>9 DEF ClearForSession, Life
  <2>2. Valid'
    BY <2>1
  <2>3. connected' = TRUE /\ statConnected' = TRUE
    BY <1>9, <2>1, Zenon DEF ClearForSession
  <2>4. connected' = Valid' /\ statConnected' = (Valid' /\ io' # "clear")
    BY <2>1, <2>2, <2>3, Zenon
  <2>5. connects = disconnects /\ connects' = connects + 1 /\ disconnects' = disconnects
    BY <1>9, <2>1 DEF ClearForSession
  <2>6. connects' = disconnects' + 1
    BY <2>5
  <2>7. QED
    BY <2>1, <2>2, <2>4, <2>6
<1>10. CASE ServiceNobody
  BY <1>10 DEF ServiceNobody
<1>11. CASE ServiceOutput
  BY <1>11 DEF ServiceOutput
<1>12. CASE PumpPop
  BY <1>12 DEF PumpPop, BufferWritten
<1>13. CASE PumpDone
  BY <1>13 DEF PumpDone, BufferWritten
<1>14. CASE PumpSend
  BY <1>14 DEF PumpSend, BufferWritten
<1>15. CASE PumpBlocked
  BY <1>15 DEF PumpBlocked, BufferWritten
<1>16. CASE PumpFails
  <2>1. CASE EndSession /\ Valid
    <3>1. Valid /\ io # "clear"
      BY <1>16, <2>1 DEF PumpFails, Life
    <3>2. session' = Closed /\ disconnects' = disconnects + 1 /\ connects' = connects
      BY <1>16, <2>1 DEF PumpFails, EndSession
    <3>3. connected' = FALSE /\ statConnected' = FALSE
      BY <1>16, <2>1, Zenon DEF PumpFails, EndSession, ConnectedAfterEnd
    <3>4. QED
      BY <3>1, <3>2, <3>3, EndMirrored
  <2>2. CASE ~Valid
    <3>1. io # "clear" /\ io' # "clear"
      BY <1>16 DEF PumpFails
    <3>2. /\ session' = session /\ connected' = connected /\ statConnected' = statConnected
          /\ disconnects' = disconnects /\ connects' = connects
      BY <1>16, <2>2, Zenon DEF PumpFails, EndSession, KeepSession, sessionVars
    <3>3. QED
      BY <3>1, <3>2, KeepMirrored
  <2>3. QED
    BY <1>16, <2>1, <2>2, Zenon DEF PumpFails, EndSession
<1>17. CASE Exit
  <2>1. CASE Valid
    <3>1. Valid /\ io # "clear"
      BY <1>17, <2>1 DEF Exit, Life
    <3>2. session' = Closed /\ disconnects' = disconnects + 1 /\ connects' = connects
      BY <1>17, <2>1 DEF Exit
    <3>3. connected' = FALSE /\ statConnected' = FALSE
      BY <1>17, <2>1, Zenon DEF Exit, ConnectedAfterEnd
    <3>4. QED
      BY <3>1, <3>2, <3>3, EndMirrored
  <2>2. CASE ~Valid
    <3>1. io # "clear" /\ io' # "clear"
      BY <1>17 DEF Exit
    <3>2. /\ session' = session /\ connected' = connected /\ statConnected' = statConnected
          /\ disconnects' = disconnects /\ connects' = connects
      BY <1>17, <2>2, Zenon DEF Exit, KeepSession, sessionVars
    <3>3. QED
      BY <3>1, <3>2, KeepMirrored
  <2>3. QED
    BY <1>17, <2>1, <2>2, Zenon DEF Exit
<1>18. CASE ExitFlag
  BY <1>18 DEF ExitFlag
<1>19. CASE PollInterrupted
  BY <1>19 DEF PollInterrupted
<1>20. CASE PollFails
  BY <1>20 DEF PollFails
<1>21. CASE AcceptFails
  BY <1>21 DEF AcceptFails, ForgetEvents
<1>22. CASE StartFails
  BY <1>22 DEF StartFails, MayStart
<1>23. CASE Start
  BY <1>23 DEF Start, MayStart
<1>24. CASE StopJoin
  BY <1>24 DEF StopJoin, Joined
<1>25. CASE StopClose
  BY <1>25 DEF StopClose
<1>26. CASE \E c \in Conns : Connect(c)
  BY <1>26 DEF Connect
<1>27. CASE \E c \in Conns : Leave(c)
  BY <1>27 DEF Leave
<1>28. CASE Read
  BY <1>28 DEF Read
<1>29. CASE UNCHANGED vars
  BY <1>29 DEF vars
<1>30. QED
  BY <1>1, <1>2, <1>3, <1>4, <1>5, <1>6, <1>7, <1>8, <1>9, <1>10, <1>11, <1>12, <1>13, <1>14,
     <1>15, <1>16, <1>17, <1>18, <1>19, <1>20, <1>21, <1>22, <1>23, <1>24, <1>25, <1>26, <1>27,
     <1>28, <1>29 DEF Next, PublishStep, IoStep, OwnerStep

\* The places of a frame are counted by natural numbers.
LEMMA Counts ==
    ASSUME Types
    PROVE  /\ InHand \in 0..1 /\ Unsent \in 0..1 /\ Len(queue) \in Nat
           /\ published \in Nat /\ evicted \in Nat /\ settled \in Nat
<1>1. Len(queue) \in Nat /\ published \in Nat /\ evicted \in Nat /\ settled \in Nat
  BY BoundsAssumption DEF Types, QueueTypes, HistoryTypes
<1>2. InHand \in 0..1 /\ Unsent \in 0..1
  BY DEF InHand, Unsent
<1>3. QED
  BY <1>1, <1>2

\* A step moves a frame from one place to another and never copies or forgets one.
LEMMA StepConserved == IInv /\ [Next]_vars => FramesConserved'
<1> SUFFICES ASSUME IInv, [Next]_vars PROVE FramesConserved'
  OBVIOUS
<1> USE SizesAssumption DEF IInv, FramesConserved, pubVars, ioVars, sessionVars, ownerVars,
        netVars, history, others
<1>1. CASE Build \/ Poll \/ Drain \/ NothingToAccept \/ ServiceOutput \/ PumpDone \/ PumpBlocked
  \/ ExitFlag \/ PollInterrupted \/ PollFails \/ AcceptFails \/ StartFails \/ Start \/ StopCall
  \/ StopSignal \/ StopJoin \/ StopClose
  BY <1>1 DEF Build, Leaving, WantsOut, Poll, Drain, NothingToAccept, ForgetEvents, ServiceOutput,
     PumpDone, BufferWritten, PumpBlocked, ExitFlag, PollInterrupted, PollFails, AcceptFails,
     StartFails, MayStart, Start, StopCall, StopSignal, Signalled, StopJoin, Joined, StopClose,
     InHand, Unsent, Buffered
<1>2. CASE Publish
  <2>1. InHand = 0 /\ InHand' = 1
    BY <1>2 DEF Publish, InHand
  <2>2. Unsent' = Unsent
    BY <1>2 DEF Publish, Unsent, Buffered, sessionVars
  <2>3. Len(queue') = Len(queue)
    BY <1>2 DEF Publish
  <2>4. published' = published + 1 /\ evicted' = evicted /\ settled' = settled
    BY <1>2 DEF Publish, pubVars, history
  <2>5. QED
    BY <2>1, <2>2, <2>3, <2>4, Counts
<1>3. CASE LoadConnected
  <2>1. InHand' = InHand
    BY <1>3 DEF LoadConnected, InHand
  <2>2. Unsent' = Unsent
    BY <1>3 DEF LoadConnected, Unsent, Buffered, sessionVars
  <2>3. Len(queue') = Len(queue)
    BY <1>3 DEF LoadConnected
  <2>4. published' = published /\ evicted' = evicted /\ settled' = settled
    BY <1>3 DEF LoadConnected, pubVars, history
  <2>5. QED
    BY <2>1, <2>2, <2>3, <2>4, Counts
<1>4. CASE LoadRunning
  <2>1. InHand' = InHand
    BY <1>4 DEF LoadRunning, InHand
  <2>2. Unsent' = Unsent
    BY <1>4 DEF LoadRunning, Unsent, Buffered, sessionVars
  <2>3. Len(queue') = Len(queue)
    BY <1>4 DEF LoadRunning
  <2>4. published' = published /\ evicted' = evicted /\ settled' = settled
    BY <1>4 DEF LoadRunning, pubVars, history
  <2>5. QED
    BY <2>1, <2>2, <2>3, <2>4, Counts
<1>5. CASE Drop
  <2>1. InHand = 1 /\ InHand' = 0
    BY <1>5 DEF Drop, InHand
  <2>2. Unsent' = Unsent
    BY <1>5 DEF Drop, Unsent, Buffered, sessionVars
  <2>3. Len(queue') = Len(queue)
    BY <1>5 DEF Drop
  <2>4. published' = published /\ evicted' = evicted /\ settled' = settled + 1
    BY <1>5 DEF Drop, pubVars, history
  <2>5. QED
    BY <2>1, <2>2, <2>3, <2>4, Counts
<1>6. CASE Push
  <2>1. InHand = 1 /\ InHand' = 0
    BY <1>6 DEF Push, InHand
  <2>2. Unsent' = Unsent
    BY <1>6 DEF Push, Unsent, Buffered, sessionVars
  <2>3. Len(queue') = Len(queue) - Evictions(queue) + 1 /\ Evictions(queue) \in 0..1
    BY <1>6, PushShape, BoundsAssumption DEF Push, Types, QueueTypes, Numbering
  <2>4. published' = published /\ evicted = 0 /\ evicted' = Evictions(queue) /\ settled' = settled
    BY <1>6 DEF Push, pubVars, history, Numbering
  <2>5. QED
    BY <2>1, <2>2, <2>3, <2>4, Counts
<1>7. CASE CountEvicted
  <2>1. InHand = 0 /\ InHand' = 0
    BY <1>7 DEF CountEvicted, InHand
  <2>2. Unsent' = Unsent
    BY <1>7 DEF CountEvicted, Unsent, Buffered, sessionVars
  <2>3. Len(queue') = Len(queue)
    BY <1>7 DEF CountEvicted
  <2>4. published' = published /\ evicted' = 0 /\ settled' = settled + evicted
    BY <1>7 DEF CountEvicted, pubVars, history
  <2>5. QED
    BY <2>1, <2>2, <2>3, <2>4, Counts
<1>8. CASE Signal
  <2>1. InHand = 0 /\ InHand' = 0
    BY <1>8 DEF Signal, InHand
  <2>2. Unsent' = Unsent
    BY <1>8 DEF Signal, Unsent, Buffered, sessionVars
  <2>3. Len(queue') = Len(queue)
    BY <1>8 DEF Signal
  <2>4. published' = published /\ evicted' = evicted /\ settled' = settled
    BY <1>8 DEF Signal, pubVars, history
  <2>5. QED
    BY <2>1, <2>2, <2>3, <2>4, Counts
<1>9. CASE ClientEvents
  <2>1. InHand' = InHand /\ published' = published /\ evicted' = evicted /\ queue' = queue
    BY <1>9, Zenon DEF ClientEvents, InHand, pubVars
  <2>2. CASE EndSession
    <3>1. Unsent' = 0
      BY <1>9, <2>2, SizesAssumption DEF ClientEvents, EndSession, Unsent, Buffered, Closed
    <3>2. settled' = settled + Unsent
      BY <1>9, <2>2, Zenon DEF ClientEvents, EndSession
    <3>3. QED
      BY <2>1, <3>1, <3>2, Counts
  <2>3. CASE KeepSession
    BY <2>1, <2>3 DEF KeepSession, sessionVars, Unsent, Buffered
  <2>4. QED
    BY <1>9, <2>2, <2>3, Zenon DEF ClientEvents
<1>10. CASE AcceptClient
  <2>1. InHand' = InHand /\ published' = published /\ evicted' = evicted /\ queue' = queue
    BY <1>10, Zenon DEF AcceptClient, InHand, pubVars
  <2>2. CASE EndSession
    <3>1. Unsent' = 0
      BY <1>10, <2>2, SizesAssumption DEF AcceptClient, EndSession, Unsent, Buffered, Closed
    <3>2. settled' = settled + Unsent
      BY <1>10, <2>2, Zenon DEF AcceptClient, EndSession
    <3>3. QED
      BY <2>1, <3>1, <3>2, Counts
  <2>3. CASE KeepSession
    BY <2>1, <2>3 DEF KeepSession, sessionVars, Unsent, Buffered
  <2>4. QED
    BY <1>10, <2>2, <2>3, Zenon DEF AcceptClient, Replace
<1>11. CASE Install
  <2>1. InHand' = InHand
    BY <1>11, Zenon DEF Install, InHand, pubVars
  <2>2. Unsent = 0 /\ Unsent' = 0
    BY <1>11, SizesAssumption DEF Install, Unsent, Buffered, sessionVars, Life, Closed
  <2>3. Len(queue') = Len(queue)
    BY <1>11 DEF Install
  <2>4. published' = published /\ evicted' = evicted /\ settled' = settled
    BY <1>11 DEF Install, pubVars, history
  <2>5. QED
    BY <2>1, <2>2, <2>3, <2>4, Counts
<1>12. CASE ClearForSession
  <2>1. InHand' = InHand
    BY <1>12, Zenon DEF ClearForSession, InHand, pubVars
  <2>2. Unsent' = Unsent
    BY <1>12 DEF ClearForSession, Unsent, Buffered, sessionVars
  <2>3. Len(queue') = 0
    BY <1>12 DEF ClearForSession, QueueForNewSession
  <2>4. published' = published /\ evicted' = evicted /\ settled' = settled + Len(queue) - Len(queue')
    BY <1>12 DEF ClearForSession, pubVars, history
  <2>5. QED
    BY <2>1, <2>2, <2>3, <2>4, Counts
<1>13. CASE ServiceNobody
  <2>1. InHand' = InHand
    BY <1>13, Zenon DEF ServiceNobody, InHand, pubVars
  <2>2. Unsent' = Unsent
    BY <1>13 DEF ServiceNobody, Unsent, Buffered, sessionVars
  <2>3. Len(queue') = 0
    BY <1>13 DEF ServiceNobody
  <2>4. published' = published /\ evicted' = evicted /\ settled' = settled + Len(queue)
    BY <1>13 DEF ServiceNobody, pubVars, history
  <2>5. QED
    BY <2>1, <2>2, <2>3, <2>4, Counts
<1>14. CASE PumpPop
  <2>1. InHand' = InHand
    BY <1>14, Zenon DEF PumpPop, InHand, pubVars
  <2>2. Unsent = 0 /\ Unsent' = 1
    BY <1>14, SizesAssumption DEF PumpPop, Unsent, Buffered, sessionVars, BufferWritten, Types, SessionTypes
  <2>3. Len(queue') = Len(queue) - 1
    BY <1>14, TailShape DEF PumpPop, Types, QueueTypes
  <2>4. published' = published /\ evicted' = evicted /\ settled' = settled
    BY <1>14 DEF PumpPop, pubVars, history
  <2>5. QED
    BY <2>1, <2>2, <2>3, <2>4, Counts
<1>15. CASE PumpSend
  <2>1. InHand' = InHand /\ published' = published /\ evicted' = evicted /\ queue' = queue
    BY <1>15, Zenon DEF PumpSend, InHand, pubVars
  <2>2. Unsent = 1 /\ session'.offset = session.offset + 1 /\ session.offset + 1 \in 1..FrameSize
    BY <1>15, SizesAssumption DEF PumpSend, BufferWritten, Buffered, Unsent, Types, SessionTypes
  <2>3. CASE session.offset + 1 = FrameSize
    <3>1. Unsent' = 0 /\ settled' = settled + 1
      BY <1>15, <2>2, <2>3 DEF PumpSend, Unsent, Buffered
    <3>2. QED
      BY <2>1, <2>2, <3>1, Counts
  <2>4. CASE session.offset + 1 # FrameSize
    <3>1. Unsent' = 1 /\ settled' = settled
      BY <1>15, <2>2, <2>4, SizesAssumption DEF PumpSend, Unsent, Buffered
    <3>2. QED
      BY <2>1, <2>2, <3>1, Counts
  <2>5. QED
    BY <2>3, <2>4
<1>16. CASE PumpFails
  <2>1. InHand' = InHand /\ published' = published /\ evicted' = evicted /\ queue' = queue
    BY <1>16, Zenon DEF PumpFails, InHand, pubVars
  <2>2. CASE EndSession
    <3>1. Unsent' = 0
      BY <1>16, <2>2, SizesAssumption DEF PumpFails, EndSession, Unsent, Buffered, Closed
    <3>2. settled' = settled + Unsent
      BY <1>16, <2>2, Zenon DEF PumpFails, EndSession
    <3>3. QED
      BY <2>1, <3>1, <3>2, Counts
  <2>3. CASE KeepSession
    BY <2>1, <2>3 DEF KeepSession, sessionVars, Unsent, Buffered
  <2>4. QED
    BY <1>16, <2>2, <2>3, Zenon DEF PumpFails
<1>17. CASE Exit
  <2>1. InHand' = InHand /\ published' = published /\ evicted' = evicted
    BY <1>17, Zenon DEF Exit, InHand, pubVars
  <2>2. Len(queue') = 0 /\ settled' = settled + Unsent + Len(queue)
    BY <1>17 DEF Exit
  <2>3. Unsent' = 0
    BY <1>17, SizesAssumption DEF Exit, Unsent, Buffered, Closed, Life, Valid
  <2>4. QED
    BY <2>1, <2>2, <2>3, Counts
<1>18. CASE \E c \in Conns : Connect(c)
  BY <1>18 DEF Connect, InHand, Unsent, Buffered
<1>19. CASE \E c \in Conns : Leave(c)
  BY <1>19 DEF Leave, InHand, Unsent, Buffered
<1>20. CASE Read
  BY <1>20 DEF Read, InHand, Unsent, Buffered
<1>21. CASE UNCHANGED vars
  BY <1>21 DEF vars, InHand, Unsent, Buffered
<1>22. QED
  BY <1>1, <1>2, <1>3, <1>4, <1>5, <1>6, <1>7, <1>8, <1>9, <1>10, <1>11, <1>12, <1>13, <1>14,
     <1>15, <1>16, <1>17, <1>18, <1>19, <1>20, <1>21 DEF Next, PublishStep, IoStep, OwnerStep

\* The frame that publish() pushes is younger than all that are in the queue.
LEMMA PushedNumbers ==
    ASSUME IInv, Push
    PROVE  /\ InHand = 1 /\ InHand' = 0 /\ published' = published /\ published \in 1..MaxFrames
           /\ \A i \in Positions : queue[i] \in 1..MaxFrames
           /\ \A i, j \in Positions' : i < j => queue'[i] < queue'[j]
           /\ \A i \in Positions' :
                queue'[i] = published \/ \E j \in Positions : queue'[i] = queue[j]
<1>1. /\ MaxFrames \in Nat /\ queue \in Seq(1..MaxFrames) /\ Len(queue) <= capacity
      /\ published \in 1..MaxFrames
  BY BoundsAssumption DEF IInv, Types, QueueTypes, Numbering, Push
<1>2. InHand = 1
  BY DEF Push, InHand
<1>3. InHand' = 0 /\ published' = published
  BY <1>1, PushShape DEF Push, InHand, pubVars
<1>4. /\ \A i, j \in 1..Len(queue) : i < j => queue[i] < queue[j]
      /\ \A i \in 1..Len(queue) : queue[i] < published
  BY <1>2 DEF IInv, Ordered, Positions
<1> DEFINE p == Pushed(queue, published)
<1>5. /\ \A i, j \in 1..Len(p) : i < j => p[i] < p[j]
      /\ \A i \in 1..Len(p) : p[i] = published \/ \E j \in 1..Len(queue) : p[i] = queue[j]
  BY <1>1, <1>4, PushRises
<1>6. queue' = p
  BY DEF Push
<1> HIDE DEF p
<1>7. \A i \in 1..Len(queue) : queue[i] \in 1..MaxFrames
  BY <1>1
<1>8. QED
  BY <1>1, <1>2, <1>3, <1>5, <1>6, <1>7 DEF Positions

\* The frame that pump() takes is older than all that stay in the queue.
LEMMA PoppedNumbers ==
    ASSUME IInv, PumpPop
    PROVE  /\ 1 \in Positions /\ Head(queue) = queue[1]
           /\ \A i, j \in Positions' : i < j => queue'[i] < queue'[j]
           /\ \A i \in Positions' : Head(queue) < queue'[i]
           /\ \A i \in Positions' : \E j \in Positions : queue'[i] = queue[j]
<1>1. /\ MaxFrames \in Nat /\ queue \in Seq(1..MaxFrames) /\ queue # <<>>
      /\ queue' = Tail(queue)
  BY BoundsAssumption DEF IInv, Types, QueueTypes, PumpPop
<1>2. \A i, j \in 1..Len(queue) : i < j => queue[i] < queue[j]
  BY DEF IInv, Ordered, Positions
<1>3. QED
  BY <1>1, <1>2, TailRises DEF Positions

\* The numbers keep falling: a frame is pushed by the call that numbered it.
LEMMA StepOrdered == IInv /\ [Next]_vars => Ordered'
<1> SUFFICES ASSUME IInv, [Next]_vars PROVE Ordered'
  OBVIOUS
<1> USE SizesAssumption, BoundsAssumption DEF IInv, Types, QueueTypes, SessionTypes, Ordered,
        Positions, InHand, Buffered, pubVars, ioVars, sessionVars, ownerVars, netVars, history,
        others
<1>1. CASE Build \/ Poll \/ Drain \/ NothingToAccept \/ ServiceOutput \/ PumpDone \/ PumpBlocked
  \/ ExitFlag \/ PollInterrupted \/ PollFails \/ AcceptFails \/ StartFails \/ Start \/ StopCall
  \/ StopSignal \/ StopJoin \/ StopClose
  BY <1>1 DEF Build, Leaving, WantsOut, Poll, Drain, NothingToAccept, ForgetEvents, ServiceOutput,
     PumpDone, BufferWritten, PumpBlocked, ExitFlag, PollInterrupted, PollFails, AcceptFails,
     StartFails, MayStart, Start, StopCall, StopSignal, Signalled, StopJoin, Joined, StopClose
<1>2. CASE Publish
  BY <1>2 DEF Publish
<1>3. CASE LoadConnected
  BY <1>3 DEF LoadConnected
<1>4. CASE LoadRunning
  BY <1>4 DEF LoadRunning
<1>5. CASE Drop
  BY <1>5 DEF Drop
<1>6. CASE Push
  <2>1. /\ InHand = 1 /\ InHand' = 0 /\ published' = published /\ published \in 1..MaxFrames
        /\ \A i \in Positions : queue[i] \in 1..MaxFrames
        /\ \A i, j \in Positions' : i < j => queue'[i] < queue'[j]
        /\ \A i \in Positions' :
             queue'[i] = published \/ \E j \in Positions : queue'[i] = queue[j]
    BY <1>6, PushedNumbers
  <2>2. session' = session
    BY <1>6 DEF Push
  <2>3. \A i \in Positions' : queue'[i] <= published
    BY <2>1
  <2>4. Buffered => session.frame <= published /\ \A i \in Positions' : session.frame < queue'[i]
    BY <2>1
  <2>5. QED
    BY <2>1, <2>2, <2>3, <2>4
<1>7. CASE CountEvicted
  BY <1>7 DEF CountEvicted
<1>8. CASE Signal
  BY <1>8 DEF Signal, Signalled
<1>9. CASE ClientEvents
  BY <1>9 DEF ClientEvents, EndSession, KeepSession, Gone, ConnectedAfterEnd, Closed
<1>10. CASE AcceptClient
  BY <1>10 DEF AcceptClient, Replace, EndSession, KeepSession, Gone, ConnectedAfterEnd,
     ForgetEvents, Closed
<1>11. CASE Install
  BY <1>11 DEF Install, Closed
<1>12. CASE ClearForSession
  BY <1>12 DEF ClearForSession, QueueForNewSession
<1>13. CASE ServiceNobody
  BY <1>13 DEF ServiceNobody
<1>14. CASE PumpPop
  <2>1. session'.frame = Head(queue) /\ pub' = pub /\ published' = published
    BY <1>14 DEF PumpPop
  <2>2. /\ 1 \in Positions /\ Head(queue) = queue[1]
        /\ \A i, j \in Positions' : i < j => queue'[i] < queue'[j]
        /\ \A i \in Positions' : Head(queue) < queue'[i]
        /\ \A i \in Positions' : \E j \in Positions : queue'[i] = queue[j]
    BY <1>14, PoppedNumbers
  <2>3. \A i \in Positions' :
           queue'[i] <= published /\ (InHand = 1 => queue'[i] < published)
    BY <2>2
  <2>4. Head(queue) <= published /\ (InHand = 1 => Head(queue) < published)
    BY <2>2
  <2>5. QED
    BY <2>1, <2>2, <2>3, <2>4
<1>15. CASE PumpSend
  BY <1>15 DEF PumpSend, BufferWritten
<1>16. CASE PumpFails
  BY <1>16 DEF PumpFails, BufferWritten, EndSession, Gone, ConnectedAfterEnd, Closed
<1>17. CASE Exit
  BY <1>17 DEF Exit, Gone, ConnectedAfterEnd, Closed
<1>18. CASE \E c \in Conns : Connect(c)
  BY <1>18 DEF Connect
<1>19. CASE \E c \in Conns : Leave(c)
  BY <1>19 DEF Leave
<1>20. CASE Read
  BY <1>20 DEF Read
<1>21. CASE UNCHANGED vars
  BY <1>21 DEF vars
<1>22. QED
  BY <1>1, <1>2, <1>3, <1>4, <1>5, <1>6, <1>7, <1>8, <1>9, <1>10, <1>11, <1>12, <1>13, <1>14,
     <1>15, <1>16, <1>17, <1>18, <1>19, <1>20, <1>21 DEF Next, PublishStep, IoStep, OwnerStep

\* Without a session, or with a new one, no chunk has been written yet.
LEMMA UnwrittenChunked ==
    ASSUME IInv, session'.offset = FrameSize, lastChunk' = <<0, FrameSize>>,
           queue' = queue, pub' = pub, published' = published
    PROVE  Chunked'
<1>1. /\ queue \in Seq(1..MaxFrames) /\ published \in Nat
      /\ FrameSize \in Nat /\ FrameSize # 0
  BY SizesAssumption, BoundsAssumption DEF IInv, Types, QueueTypes
<1>2. InHand = 1 => published > 0
  BY DEF InHand, IInv, Numbering
<1>3. InHand' = InHand
  BY DEF InHand
<1>4. \A i \in Positions : 0 < queue[i]
  BY <1>1, BoundsAssumption DEF Positions
<1>5. lastChunk'[1] = 0 /\ lastChunk'[2] = FrameSize
  OBVIOUS
<1>6. QED
  BY <1>1, <1>2, <1>3, <1>4, <1>5 DEF Chunked, Buffered, Positions

\* Chunks are written in turn, and a new packet begins where the last one ended.
LEMMA StepChunked == IInv /\ [Next]_vars => Chunked'
<1> SUFFICES ASSUME IInv, [Next]_vars PROVE Chunked'
  OBVIOUS
<1> USE SizesAssumption, BoundsAssumption DEF IInv, Types, QueueTypes, SessionTypes,
        HistoryTypes, Chunked, Positions, InHand, Buffered, pubVars, ioVars, sessionVars,
        ownerVars, netVars, history, others
<1>1. CASE Build \/ Poll \/ Drain \/ NothingToAccept \/ ServiceOutput \/ PumpDone \/ PumpBlocked
  \/ ExitFlag \/ PollInterrupted \/ PollFails \/ AcceptFails \/ StartFails \/ Start \/ StopCall
  \/ StopSignal \/ StopJoin \/ StopClose
  BY <1>1 DEF Build, Leaving, WantsOut, Poll, Drain, NothingToAccept, ForgetEvents, ServiceOutput,
     PumpDone, BufferWritten, PumpBlocked, ExitFlag, PollInterrupted, PollFails, AcceptFails,
     StartFails, MayStart, Start, StopCall, StopSignal, Signalled, StopJoin, Joined, StopClose
<1>2. CASE Publish
  BY <1>2 DEF Publish
<1>3. CASE LoadConnected
  BY <1>3 DEF LoadConnected
<1>4. CASE LoadRunning
  BY <1>4 DEF LoadRunning
<1>5. CASE Drop
  BY <1>5 DEF Drop
<1>6. CASE Push
  <2>1. /\ InHand = 1 /\ InHand' = 0 /\ published' = published /\ published \in 1..MaxFrames
        /\ \A i \in Positions : queue[i] \in 1..MaxFrames
    BY <1>6, PushedNumbers
  <2>4. \A i \in Positions' :
           queue'[i] = published \/ \E j \in Positions : queue'[i] = queue[j]
    BY <1>6, PushedNumbers
  <2>5. lastChunk' = lastChunk /\ session' = session
    BY <1>6 DEF Push
  <2>6. \A i \in Positions' : lastChunk[1] < queue'[i]
    BY <2>1, <2>4
  <2>7. QED
    BY <2>1, <2>5, <2>6
<1>7. CASE CountEvicted
  BY <1>7 DEF CountEvicted
<1>8. CASE Signal
  BY <1>8 DEF Signal, Signalled
<1>9. CASE ClientEvents
  <2>1. queue' = queue /\ pub' = pub /\ published' = published
    BY <1>9, Zenon DEF ClientEvents, pubVars
  <2>2. CASE EndSession
    <3>1. session'.offset = FrameSize /\ lastChunk' = <<0, FrameSize>>
      BY <2>2 DEF EndSession, Gone, Closed
    <3>2. QED
      BY <2>1, <3>1, UnwrittenChunked
  <2>3. CASE KeepSession
    BY <2>1, <2>3 DEF KeepSession
  <2>4. QED
    BY <1>9, <2>2, <2>3, Zenon DEF ClientEvents
<1>10. CASE AcceptClient
  <2>1. queue' = queue /\ pub' = pub /\ published' = published
    BY <1>10, Zenon DEF AcceptClient, pubVars
  <2>2. CASE EndSession
    <3>1. session'.offset = FrameSize /\ lastChunk' = <<0, FrameSize>>
      BY <2>2 DEF EndSession, Gone, Closed
    <3>2. QED
      BY <2>1, <3>1, UnwrittenChunked
  <2>3. CASE KeepSession
    BY <2>1, <2>3 DEF KeepSession
  <2>4. QED
    BY <1>10, <2>2, <2>3, Zenon DEF AcceptClient, Replace
<1>11. CASE Install
  <2>1. session'.offset = FrameSize /\ lastChunk' = <<0, FrameSize>>
    BY <1>11 DEF Install, Closed
  <2>2. queue' = queue /\ pub' = pub /\ published' = published
    BY <1>11 DEF Install
  <2>3. QED
    BY <2>1, <2>2, UnwrittenChunked
<1>12. CASE ClearForSession
  BY <1>12 DEF ClearForSession, QueueForNewSession
<1>13. CASE ServiceNobody
  BY <1>13 DEF ServiceNobody
<1>14. CASE PumpPop
  <2>1. session.offset = FrameSize
    BY <1>14 DEF PumpPop, BufferWritten
  <2>2. /\ session'.frame = Head(queue) /\ session'.offset = 0 /\ session'.peer = session.peer
        /\ pub' = pub /\ published' = published /\ lastChunk' = lastChunk
        /\ born' = born /\ stale' = stale /\ io' = io
    BY <1>14 DEF PumpPop
  <2>3. /\ 1 \in Positions /\ Head(queue) = queue[1]
        /\ \A i \in Positions' : Head(queue) < queue'[i]
        /\ \A i \in Positions' : \E j \in Positions : queue'[i] = queue[j]
    BY <1>14, PoppedNumbers
  <2>4. lastChunk[1] < Head(queue) /\ lastChunk[2] = FrameSize
    BY <2>1, <2>3
  <2>5. \A i \in Positions' : lastChunk[1] < queue'[i]
    BY <2>3, <2>4
  <2>6. QED
    BY <2>2, <2>4, <2>5
<1>15. CASE PumpSend
  BY <1>15 DEF PumpSend, BufferWritten, Ordered
<1>16. CASE PumpFails
  BY <1>16 DEF PumpFails, BufferWritten, EndSession, Gone, ConnectedAfterEnd, Closed, Numbering,
     Ordered
<1>17. CASE Exit
  BY <1>17 DEF Exit, Gone, ConnectedAfterEnd, Closed, Numbering, Ordered
<1>18. CASE \E c \in Conns : Connect(c)
  BY <1>18 DEF Connect
<1>19. CASE \E c \in Conns : Leave(c)
  BY <1>19 DEF Leave
<1>20. CASE Read
  BY <1>20 DEF Read
<1>21. CASE UNCHANGED vars
  BY <1>21 DEF vars
<1>22. QED
  BY <1>1, <1>2, <1>3, <1>4, <1>5, <1>6, <1>7, <1>8, <1>9, <1>10, <1>11, <1>12, <1>13, <1>14,
     <1>15, <1>16, <1>17, <1>18, <1>19, <1>20, <1>21 DEF Next, PublishStep, IoStep, OwnerStep

\* A session begins with an empty queue, so that what it sends is its own age or younger.
LEMMA StepFresh == IInv /\ [Next]_vars => Fresh'
<1> SUFFICES ASSUME IInv, [Next]_vars PROVE Fresh'
  OBVIOUS
<1> USE SizesAssumption, BoundsAssumption DEF IInv, Types, QueueTypes, SessionTypes,
        HistoryTypes, Fresh, Positions, Buffered, Valid, InHand, pubVars, ioVars, sessionVars,
        ownerVars, netVars, history, others
<1>1. CASE StopCall \/ StopSignal
  BY <1>1 DEF StopCall, StopSignal, Signalled
<1>2. CASE Publish
  BY <1>2 DEF Publish
<1>3. CASE LoadConnected
  BY <1>3 DEF LoadConnected
<1>4. CASE LoadRunning
  BY <1>4 DEF LoadRunning
<1>5. CASE Drop
  BY <1>5 DEF Drop
<1>6. CASE Push
  <2>1. /\ InHand = 1 /\ InHand' = 0 /\ published' = published /\ published \in 1..MaxFrames
        /\ \A i \in Positions : queue[i] \in 1..MaxFrames
    BY <1>6, PushedNumbers
  <2>4. \A i \in Positions' :
           queue'[i] = published \/ \E j \in Positions : queue'[i] = queue[j]
    BY <1>6, PushedNumbers
  <2>5. /\ lastChunk' = lastChunk /\ session' = session /\ io' = io /\ born' = born
        /\ stale' = stale
    BY <1>6 DEF Push
  <2>6. Valid /\ io # "clear" => \A i \in Positions' : queue'[i] >= born
    BY <2>1, <2>4
  <2>7. QED
    BY <2>1, <2>5, <2>6
<1>7. CASE CountEvicted
  BY <1>7 DEF CountEvicted
<1>8. CASE Signal
  BY <1>8 DEF Signal, Signalled
<1>9. CASE Build
  BY <1>9 DEF Build, Leaving, WantsOut
<1>10. CASE Poll
  BY <1>10 DEF Poll
<1>11. CASE Drain
  BY <1>11 DEF Drain
<1>12. CASE ClientEvents
  <2>1. queue' = queue /\ published' = published /\ io # "clear" /\ io' # "clear"
    BY <1>12 DEF ClientEvents
  <2>2. CASE EndSession
    <3>1. session'.offset = FrameSize /\ ~Valid' /\ stale' = 0 /\ born' = 0
      BY <2>2 DEF EndSession, Gone, Closed
    <3>2. QED
      BY <2>1, <3>1
  <2>3. CASE KeepSession
    BY <2>1, <2>3 DEF KeepSession
  <2>4. QED
    BY <1>12, <2>2, <2>3, Zenon DEF ClientEvents
<1>13. CASE NothingToAccept
  BY <1>13 DEF NothingToAccept, ForgetEvents
<1>14. CASE AcceptClient
  <2>1. queue' = queue /\ published' = published /\ io # "clear" /\ io' # "clear"
    BY <1>14 DEF AcceptClient
  <2>2. CASE EndSession
    <3>1. session'.offset = FrameSize /\ ~Valid' /\ stale' = 0 /\ born' = 0
      BY <2>2 DEF EndSession, Gone, Closed
    <3>2. QED
      BY <2>1, <3>1
  <2>3. CASE KeepSession
    BY <2>1, <2>3 DEF KeepSession
  <2>4. QED
    BY <1>14, <2>2, <2>3, Zenon DEF AcceptClient, Replace
<1>15. CASE Install
  <2>1. session'.offset = FrameSize /\ io' = "clear"
    BY <1>15 DEF Install, Closed
  <2>2. stale' = 0 /\ born' = published /\ published' = published
    BY <1>15 DEF Install
  <2>3. QED
    BY <2>1, <2>2
<1>16. CASE ClearForSession
  BY <1>16 DEF ClearForSession, QueueForNewSession, Life
<1>17. CASE ServiceNobody
  BY <1>17 DEF ServiceNobody
<1>18. CASE ServiceOutput
  BY <1>18 DEF ServiceOutput
<1>19. CASE PumpPop
  <2>1. session.offset = FrameSize
    BY <1>19 DEF PumpPop, BufferWritten
  <2>2. /\ session'.frame = Head(queue) /\ session'.offset = 0 /\ session'.peer = session.peer
        /\ pub' = pub /\ published' = published /\ lastChunk' = lastChunk
        /\ born' = born /\ stale' = stale /\ io' = io
    BY <1>19 DEF PumpPop
  <2>3. /\ 1 \in Positions /\ Head(queue) = queue[1]
        /\ \A i \in Positions' : Head(queue) < queue'[i]
        /\ \A i \in Positions' : \E j \in Positions : queue'[i] = queue[j]
    BY <1>19, PoppedNumbers
  <2>4. Valid /\ io = "pump"
    BY <1>19 DEF PumpPop, Life
  <2>5. Head(queue) >= born /\ \A i \in Positions' : queue'[i] >= born
    BY <2>3, <2>4
  <2>6. QED
    BY <2>2, <2>4, <2>5
<1>20. CASE PumpDone
  BY <1>20 DEF PumpDone, BufferWritten
<1>21. CASE PumpSend
  BY <1>21 DEF PumpSend, BufferWritten, Chunked, Ordered, Life
<1>22. CASE PumpBlocked
  BY <1>22 DEF PumpBlocked, BufferWritten
<1>23. CASE PumpFails
  BY <1>23 DEF PumpFails, BufferWritten, EndSession, Gone, ConnectedAfterEnd, Closed, Life
<1>24. CASE Exit
  BY <1>24 DEF Exit, Gone, ConnectedAfterEnd, Closed, Life
<1>25. CASE ExitFlag
  BY <1>25 DEF ExitFlag
<1>26. CASE PollInterrupted
  BY <1>26 DEF PollInterrupted
<1>27. CASE PollFails
  BY <1>27 DEF PollFails
<1>28. CASE AcceptFails
  BY <1>28 DEF AcceptFails, ForgetEvents
<1>29. CASE StartFails
  BY <1>29 DEF StartFails, MayStart
<1>30. CASE Start
  BY <1>30 DEF Start, MayStart, Closed, Life
<1>31. CASE StopJoin
  BY <1>31 DEF StopJoin, Joined, Closed, Life
<1>32. CASE StopClose
  BY <1>32 DEF StopClose
<1>33. CASE \E c \in Conns : Connect(c)
  BY <1>33 DEF Connect
<1>34. CASE \E c \in Conns : Leave(c)
  BY <1>34 DEF Leave
<1>35. CASE Read
  BY <1>35 DEF Read
<1>36. CASE UNCHANGED vars
  BY <1>36 DEF vars
<1>37. QED
  BY <1>1, <1>2, <1>3, <1>4, <1>5, <1>6, <1>7, <1>8, <1>9, <1>10, <1>11, <1>12, <1>13, <1>14,
     <1>15, <1>16, <1>17, <1>18, <1>19, <1>20, <1>21, <1>22, <1>23, <1>24, <1>25, <1>26, <1>27,
     <1>28, <1>29, <1>30, <1>31, <1>32, <1>33, <1>34, <1>35, <1>36 DEF Next, PublishStep,
     IoStep, OwnerStep

\* The connection of a session was not new before it ended.
LEMMA EndedPeers ==
    ASSUME SessionTypes, NetTypes, Used, Valid, peer' = [peer EXCEPT ![session.peer] = "gone"]
    PROVE  \A c \in Conns : peer'[c] = "new" <=> peer[c] = "new"
<1>1. session.peer \in Conns /\ peer[session.peer] # "new"
  BY BoundsAssumption DEF SessionTypes, Used, Valid, Conns
<1>2. ASSUME NEW c \in Conns PROVE peer'[c] = "new" <=> peer[c] = "new"
  BY <1>1 DEF NetTypes
<1>3. QED
  BY <1>2

\* A connection that ends does not become new again.
LEMMA StepUsed == IInv /\ [Next]_vars => Used'
<1> SUFFICES ASSUME IInv, [Next]_vars PROVE Used'
  OBVIOUS
<1> USE BoundsAssumption DEF IInv, Types, SessionTypes, NetTypes, Used, Valid, Conns, pubVars,
        ioVars, sessionVars, ownerVars, netVars, history, others
<1>1. CASE Publish \/ LoadConnected \/ LoadRunning \/ Drop \/ Push \/ CountEvicted \/ Signal \/
  Build \/ Poll \/ Drain \/ NothingToAccept \/ ClearForSession \/ ServiceNobody \/ ServiceOutput
  \/ PumpDone \/ PumpBlocked \/ ExitFlag \/ PollInterrupted \/ PollFails \/ AcceptFails \/
  StartFails \/ Start \/ StopCall \/ StopSignal \/ StopJoin
  BY <1>1 DEF Publish, LoadConnected, LoadRunning, Drop, Push, CountEvicted, Signal, Signalled,
     Build, Leaving, WantsOut, Poll, Drain, NothingToAccept, ForgetEvents, ClearForSession,
     QueueForNewSession, ServiceNobody, ServiceOutput, PumpDone, BufferWritten, PumpBlocked,
     ExitFlag, PollInterrupted, PollFails, AcceptFails, StartFails, MayStart, Start, StopCall,
     StopSignal, StopJoin, Joined
<1>2. CASE ClientEvents
  <2>1. backlog' = backlog
    BY <1>2 DEF ClientEvents
  <2>2. CASE EndSession /\ Valid
    <3>1. ~Valid' /\ Valid /\ peer' = [peer EXCEPT ![session.peer] = "gone"]
      BY <1>2, <2>2 DEF ClientEvents, EndSession, Gone, Closed, Life
    <3>2. \A c \in Conns : peer'[c] = "new" <=> peer[c] = "new"
      BY <3>1, EndedPeers
    <3>3. QED
      BY <2>1, <3>1, <3>2
  <2>3. CASE KeepSession
    BY <2>1, <2>3, <1>2 DEF ClientEvents, KeepSession
  <2>4. QED
    BY <1>2, <2>2, <2>3, Zenon DEF ClientEvents
<1>3. CASE AcceptClient
  <2>1. backlog' = backlog
    BY <1>3 DEF AcceptClient
  <2>2. CASE EndSession /\ Valid
    <3>1. ~Valid' /\ Valid /\ peer' = [peer EXCEPT ![session.peer] = "gone"]
      BY <1>3, <2>2 DEF AcceptClient, Replace, EndSession, Gone, Closed, Life
    <3>2. \A c \in Conns : peer'[c] = "new" <=> peer[c] = "new"
      BY <3>1, EndedPeers
    <3>3. QED
      BY <2>1, <3>1, <3>2
  <2>3. CASE KeepSession
    BY <2>1, <2>3, <1>3 DEF AcceptClient, KeepSession
  <2>4. QED
    BY <1>3, <2>2, <2>3, Zenon DEF AcceptClient, Replace
<1>4. CASE Install
  <2>1. Head(backlog) \in Conns
    BY <1>4, TailShape DEF Install, Life, NetTypes
  <2>2. session' = [peer |-> Head(backlog), frame |-> 0, offset |-> FrameSize]
    BY <1>4 DEF Install, Closed
  <2>3. /\ Head(backlog) = backlog[1] /\ 1 \in 1..Len(backlog) /\ backlog' = Tail(backlog)
        /\ \A i \in 1..Len(backlog') : backlog'[i] = backlog[i + 1] /\ i + 1 \in 1..Len(backlog)
    BY <1>4, TailShape DEF Install, Life, NetTypes
  <2>4. peer' = peer
    BY <1>4 DEF Install
  <2>5. QED
    BY <2>2, <2>3, <2>4
<1>5. CASE PumpPop
  BY <1>5 DEF PumpPop, BufferWritten
<1>6. CASE PumpSend
  BY <1>6 DEF PumpSend, BufferWritten
<1>7. CASE PumpFails
  <2>1. backlog' = backlog
    BY <1>7 DEF PumpFails
  <2>2. CASE EndSession
    <3>1. ~Valid' /\ Valid /\ peer' = [peer EXCEPT ![session.peer] = "gone"]
      BY <1>7, <2>2 DEF PumpFails, EndSession, Gone, Closed, Life
    <3>2. \A c \in Conns : peer'[c] = "new" <=> peer[c] = "new"
      BY <3>1, EndedPeers
    <3>3. QED
      BY <2>1, <3>1, <3>2
  <2>3. CASE FALSE
    BY <2>1, <2>3, <1>7 DEF PumpFails, KeepSession
  <2>4. QED
    BY <1>7, <2>2, <2>3, Zenon DEF PumpFails
<1>8. CASE Exit
  <2>1. backlog' = backlog
    BY <1>8 DEF Exit
  <2>2. CASE Valid
    <3>1. ~Valid' /\ Valid /\ peer' = [peer EXCEPT ![session.peer] = "gone"]
      BY <1>8, <2>2 DEF Exit, EndSession, Gone, Closed, Life
    <3>2. \A c \in Conns : peer'[c] = "new" <=> peer[c] = "new"
      BY <3>1, EndedPeers
    <3>3. QED
      BY <2>1, <3>1, <3>2
  <2>3. CASE ~Valid
    BY <2>1, <2>3, <1>8 DEF Exit, KeepSession
  <2>4. QED
    BY <1>8, <2>2, <2>3, Zenon DEF Exit
<1>9. CASE StopClose
  BY <1>9 DEF StopClose
<1>10. CASE \E c \in Conns : Connect(c)
  BY <1>10 DEF Connect
<1>11. CASE \E c \in Conns : Leave(c)
  BY <1>11 DEF Leave
<1>12. CASE Read
  BY <1>12 DEF Read
<1>13. CASE UNCHANGED vars
  BY <1>13 DEF vars
<1>14. QED
  BY <1>1, <1>2, <1>3, <1>4, <1>5, <1>6, <1>7, <1>8, <1>9, <1>10, <1>11, <1>12, <1>13 DEF Next,
     PublishStep, IoStep, OwnerStep

\* Connections leave the state new one after the other, by connecting, and
\* everything else lowers at most the number of those that were not served.
LEMMA SameTurn ==
    ASSUME IInv, Connections' \in Nat, Connections' <= Connections,
           \A c \in Conns : peer'[c] = "new" <=> peer[c] = "new"
    PROVE  InTurn'
<1>1. PICK k \in 0..MaxConns : /\ \A c \in Conns : peer[c] = "new" <=> c > k
                               /\ Connections <= k
  BY DEF IInv, InTurn
<1>2. Connections \in Nat
  BY DEF IInv, Types, SessionTypes, NetTypes, Connections
<1>3. Connections' <= k
  BY <1>1, <1>2
<1>4. \A c \in Conns : peer'[c] = "new" <=> c > k
  BY <1>1, Zenon
<1>5. QED
  BY <1>3, <1>4, BoundsAssumption, Zenon DEF InTurn, Conns

\* ... and so is a step that leaves the backlog and the count alone and is not
\* about a session that has not been counted.
LEMMA QuietTurn ==
    ASSUME IInv, connects' = connects, backlog' = backlog, io # "clear" <=> io' # "clear",
           \A c \in Conns : peer'[c] = "new" <=> peer[c] = "new"
    PROVE  InTurn'
<1>1. Connections' = Connections /\ Connections \in Nat
  BY DEF IInv, Types, SessionTypes, NetTypes, Connections
<1>2. QED
  BY <1>1, SameTurn

\* Connections are served in turn.
LEMMA StepInTurn == IInv /\ [Next]_vars => InTurn'
<1> SUFFICES ASSUME IInv, [Next]_vars PROVE InTurn'
  OBVIOUS
<1> USE BoundsAssumption DEF IInv, Types, SessionTypes, NetTypes, pubVars, ioVars, sessionVars,
        ownerVars, netVars, history, others
<1>1. CASE Publish \/ LoadConnected \/ LoadRunning \/ Drop \/ Push \/ CountEvicted \/ Signal \/
  Build \/ Poll \/ Drain \/ NothingToAccept \/ ServiceNobody \/ ServiceOutput \/ PumpPop \/
  PumpDone \/ PumpSend \/ PumpBlocked \/ ExitFlag \/ PollInterrupted \/ PollFails \/ AcceptFails
  \/ StartFails \/ StopCall \/ StopSignal
  BY <1>1, QuietTurn DEF Publish, LoadConnected, LoadRunning, Drop, Push, CountEvicted, Signal,
     Signalled, Build, Leaving, WantsOut, Poll, Drain, NothingToAccept, ForgetEvents,
     ServiceNobody, ServiceOutput, PumpPop, BufferWritten, PumpDone, PumpSend, PumpBlocked,
     ExitFlag, PollInterrupted, PollFails, AcceptFails, StartFails, MayStart, StopCall,
     StopSignal
<1>2. CASE ClientEvents
  <2>1. backlog' = backlog /\ connects' = connects /\ io # "clear" /\ io' # "clear"
    BY <1>2 DEF ClientEvents, EndSession, KeepSession
  <2>2. CASE EndSession /\ Valid
    <3>1. Valid /\ peer' = [peer EXCEPT ![session.peer] = "gone"]
      BY <1>2, <2>2 DEF ClientEvents, EndSession, Gone, Life
    <3>2. \A c \in Conns : peer'[c] = "new" <=> peer[c] = "new"
      BY <3>1, EndedPeers
    <3>3. QED
      BY <2>1, <3>2, QuietTurn
  <2>3. CASE KeepSession
    <3>1. peer' = peer
      BY <1>2, <2>3 DEF ClientEvents, KeepSession
    <3>2. QED
      BY <2>1, <3>1, QuietTurn
  <2>4. QED
    BY <1>2, <2>2, <2>3, Zenon DEF ClientEvents
<1>3. CASE AcceptClient
  <2>1. backlog' = backlog /\ connects' = connects /\ io # "clear" /\ io' # "clear"
    BY <1>3 DEF AcceptClient, Replace, EndSession, KeepSession
  <2>2. CASE EndSession /\ Valid
    <3>1. Valid /\ peer' = [peer EXCEPT ![session.peer] = "gone"]
      BY <1>3, <2>2 DEF AcceptClient, Replace, EndSession, Gone, Life
    <3>2. \A c \in Conns : peer'[c] = "new" <=> peer[c] = "new"
      BY <3>1, EndedPeers
    <3>3. QED
      BY <2>1, <3>2, QuietTurn
  <2>3. CASE KeepSession
    <3>1. peer' = peer
      BY <1>3, <2>3 DEF AcceptClient, KeepSession
    <3>2. QED
      BY <2>1, <3>1, QuietTurn
  <2>4. QED
    BY <1>3, <2>2, <2>3, Zenon DEF AcceptClient, Replace
<1>4. CASE Install
  <2>1. backlog # <<>> /\ backlog' = Tail(backlog) /\ connects' = connects /\ peer' = peer
        /\ io = "install" /\ io' = "clear"
    BY <1>4 DEF Install, Life
  <2>2. Len(backlog) \in Nat \ {0} /\ Len(backlog') = Len(backlog) - 1
    BY <2>1, TailShape
  <2>3. Connections' = Connections /\ Connections \in Nat
    BY <2>1, <2>2 DEF Connections
  <2>4. QED
    BY <2>1, <2>3, SameTurn
<1>5. CASE ClearForSession
  <2>1. backlog' = backlog /\ connects' = connects + 1 /\ peer' = peer /\ io = "clear"
        /\ io' = "service"
    BY <1>5 DEF ClearForSession
  <2>2. Connections' = Connections /\ Connections \in Nat
    BY <2>1 DEF Connections
  <2>3. QED
    BY <2>1, <2>2, SameTurn
<1>6. CASE PumpFails
  <2>1. backlog' = backlog /\ connects' = connects /\ io # "clear" /\ io' # "clear"
    BY <1>6 DEF PumpFails, EndSession, KeepSession
  <2>2. CASE EndSession
    <3>1. Valid /\ peer' = [peer EXCEPT ![session.peer] = "gone"]
      BY <1>6, <2>2 DEF PumpFails, EndSession, Gone, Life
    <3>2. \A c \in Conns : peer'[c] = "new" <=> peer[c] = "new"
      BY <3>1, EndedPeers
    <3>3. QED
      BY <2>1, <3>2, QuietTurn
  <2>3. CASE FALSE
    <3>1. peer' = peer
      BY <1>6, <2>3 DEF PumpFails, KeepSession
    <3>2. QED
      BY <2>1, <3>1, QuietTurn
  <2>4. QED
    BY <1>6, <2>2, <2>3, Zenon DEF PumpFails
<1>7. CASE Exit
  <2>1. backlog' = backlog /\ connects' = connects /\ io # "clear" /\ io' # "clear"
    BY <1>7 DEF Exit, EndSession, KeepSession
  <2>2. CASE Valid
    <3>1. Valid /\ peer' = [peer EXCEPT ![session.peer] = "gone"]
      BY <1>7, <2>2 DEF Exit, EndSession, Gone, Life
    <3>2. \A c \in Conns : peer'[c] = "new" <=> peer[c] = "new"
      BY <3>1, EndedPeers
    <3>3. QED
      BY <2>1, <3>2, QuietTurn
  <2>3. CASE ~Valid
    <3>1. peer' = peer
      BY <1>7, <2>3 DEF Exit, KeepSession
    <3>2. QED
      BY <2>1, <3>1, QuietTurn
  <2>4. QED
    BY <1>7, <2>2, <2>3, Zenon DEF Exit
<1>8. CASE Start
  BY <1>8, QuietTurn DEF Start, MayStart, Life
<1>9. CASE StopJoin
  BY <1>9, QuietTurn DEF StopJoin, Joined
<1>10. CASE StopClose
  <2>1. backlog' = <<>> /\ connects' = connects /\ io' = io
    BY <1>10 DEF StopClose
  <2>2. \A c \in Conns : peer'[c] = "new" <=> peer[c] = "new"
    BY <1>10 DEF StopClose
  <2>3. Connections' \in Nat /\ Connections' <= Connections
    BY <2>1 DEF Connections
  <2>4. QED
    BY <2>2, <2>3, SameTurn
<1>11. CASE \E c \in Conns : Connect(c)
  <2>1. PICK c \in Conns : Connect(c)
    BY <1>11
  <2>2. PICK k \in 0..MaxConns : /\ \A d \in Conns : peer[d] = "new" <=> d > k
                                 /\ Connections <= k
    BY DEF InTurn
  <2>3. c = k + 1 /\ k + 1 \in 0..MaxConns
    <3>1. c > k
      BY <2>1, <2>2 DEF Connect
    <3>2. CASE c > k + 1
      <4>1. k + 1 \in Conns /\ k + 1 < c
        BY <3>2 DEF Conns
      <4>2. peer[k + 1] # "new"
        BY <2>1, <4>1 DEF Connect
      <4>3. QED
        BY <2>2, <4>1, <4>2
    <3>3. QED
      BY <3>1, <3>2 DEF Conns
  <2>4. \A d \in Conns : peer'[d] = "new" <=> d > k + 1
    BY <2>1, <2>2, <2>3 DEF Connect, Conns
  <2>5. Len(backlog') = Len(backlog) + 1 /\ connects' = connects /\ io' = io
    BY <2>1 DEF Connect
  <2>6. Connections' <= k + 1
    BY <2>2, <2>5 DEF Connections
  <2>7. QED
    BY <2>3, <2>4, <2>6 DEF InTurn
<1>12. CASE \E c \in Conns : Leave(c)
  <2>1. /\ backlog' = backlog /\ connects' = connects /\ io' = io
        /\ \A c \in Conns : peer'[c] = "new" <=> peer[c] = "new"
    BY <1>12 DEF Leave
  <2>2. QED
    BY <2>1, QuietTurn
<1>13. CASE Read
  BY <1>13, QuietTurn DEF Read
<1>14. CASE UNCHANGED vars
  BY <1>14, QuietTurn DEF vars
<1>15. QED
  BY <1>1, <1>2, <1>3, <1>4, <1>5, <1>6, <1>7, <1>8, <1>9, <1>10, <1>11, <1>12, <1>13, <1>14 DEF
     Next, PublishStep, IoStep, OwnerStep

-----------------------------------------------------------------------------
(* The invariant, and what follows from it                                    *)

\* The server begins stopped, with nothing queued and no viewer.
LEMMA InitIInv == Init => IInv
<1> SUFFICES ASSUME Init PROVE IInv
  OBVIOUS
<1> USE SizesAssumption, BoundsAssumption, CapacityPositive DEF Init
<1>1. QueueTypes /\ LoopTypes /\ HistoryTypes
  <2>1. QueueTypes
    BY DEF QueueTypes, PubPC
  <2>2. io \in IoPC /\ wantOut \in BOOLEAN /\ polled \in BOOLEAN
    BY DEF IoPC
  <2>3. revents \in [wake : BOOLEAN, listen : BOOLEAN, hup : BOOLEAN, input : BOOLEAN]
    BY DEF NoEvents
  <2>4. HistoryTypes
    BY DEF HistoryTypes
  <2>5. QED
    BY <2>1, <2>2, <2>3, <2>4 DEF LoopTypes
<1>2. SessionTypes
  BY ClosedShape DEF SessionTypes
<1>3. OwnerTypes /\ NetTypes
  <2>1. OwnerTypes
    <3>1. starts \in 0..MaxStarts
      OBVIOUS
    <3>2. QED
      BY <3>1, Zenon DEF OwnerTypes
  <2>2. peer \in [Conns -> {"new", "open", "fin", "reset", "gone"}]
    OBVIOUS
  <2>3. backlog \in Seq(Conns) /\ room \in 0..SocketRoom
    OBVIOUS
  <2>4. QED
    BY <2>1, <2>2, <2>3 DEF NetTypes
<1>4. ~Valid /\ ~Buffered /\ InHand = 0 /\ Unsent = 0
  BY DEF Valid, Buffered, Unsent, InHand, Closed
<1>5. Numbering /\ Life
  BY <1>4 DEF Numbering, Life
<1>6. Mirrored
  <2>1. Valid = FALSE
    BY <1>4
  <2>2. connected = Valid /\ statConnected = (Valid /\ io # "clear")
    BY <2>1, Zenon
  <2>3. connects = disconnects + 0
    OBVIOUS
  <2>4. QED
    BY <2>1, <2>2, <2>3 DEF Mirrored
<1>7. FramesConserved
  BY <1>4 DEF FramesConserved
<1>8. Ordered /\ Chunked /\ Fresh
  BY <1>4 DEF Ordered, Chunked, Fresh, Positions, Closed
<1>9. Used
  BY <1>4 DEF Used
<1>10. InTurn
  <2>1. Connections = 0
    BY DEF Connections
  <2>2. \A c \in Conns : peer[c] = "new" <=> c > 0
    BY DEF Conns
  <2>3. QED
    BY <2>1, <2>2 DEF InTurn
<1>11. QED
  BY <1>1, <1>2, <1>3, <1>5, <1>6, <1>7, <1>8, <1>9, <1>10 DEF IInv, Types

\* The invariant holds of the whole server: whatever publish(), the loop, start(),
\* stop() and the viewers do, and in whatever order.
THEOREM Invariant == Spec => []IInv
<1>1. IInv /\ [Next]_vars => IInv'
  BY StepQueueTypes, StepLoopTypes, StepSessionTypes, StepOwnerTypes, StepNetTypes,
     StepHistoryTypes, StepNumbering, StepLife, StepMirrored, StepConserved, StepOrdered,
     StepChunked, StepFresh, StepUsed, StepInTurn, Zenon DEF IInv, Types
<1>2. QED
  BY InitIInv, <1>1, PTL DEF Spec

\* Every variable stays within its type: no more connections are counted than
\* were made, and no more frames than were published.
THEOREM TypeCorrect == Spec => []TypeOK
<1>1. ASSUME IInv PROVE TypeOK
  <2> USE <1>1 DEF IInv, Types
  <2>1. connects \in 0..MaxConns
    <3>1. PICK k \in 0..MaxConns : Connections <= k
      BY DEF InTurn
    <3>2. QED
      BY <3>1, BoundsAssumption DEF Connections, SessionTypes, NetTypes
  <2>2. disconnects \in 0..connects
    BY DEF Mirrored, SessionTypes
  <2>3. settled \in 0..MaxFrames
    BY Counts, BoundsAssumption DEF FramesConserved, QueueTypes, HistoryTypes
  <2>4. QED
    BY <2>1, <2>2, <2>3, Zenon
       DEF TypeOK, QueueTypes, LoopTypes, SessionTypes, OwnerTypes, NetTypes, HistoryTypes
<1>2. QED
  BY Invariant, <1>1, PTL

\* TcpServerStats: every published frame is sent, dropped, lost with its session,
\* or in exactly one place on its way.
THEOREM Conserved == Spec => []FramesConserved
<1>1. IInv => FramesConserved
  BY DEF IInv
<1>2. QED
  BY Invariant, <1>1, PTL

\* client_connected and the statistics agree with the session at the top of the
\* loop, whichever of the four ways ended the last one.
THEOREM MirrorsRight == Spec => []MirrorsAgree
<1>1. ASSUME IInv PROVE MirrorsAgree
  <2> SUFFICES ASSUME io \in {"build", "poll", "exited", "down"}
               PROVE  /\ connected = Valid /\ statConnected = Valid
                      /\ connects = disconnects + (IF Valid THEN 1 ELSE 0)
    BY DEF MirrorsAgree
  <2>1. (Valid /\ io # "clear") = Valid
    <3>1. io # "clear"
      OBVIOUS
    <3>2. QED
      BY <3>1, Zenon DEF Valid
  <2>2. /\ connected = Valid /\ statConnected = (Valid /\ io # "clear")
        /\ connects = disconnects + (IF Valid /\ io # "clear" THEN 1 ELSE 0)
    BY <1>1, Zenon DEF IInv, Mirrored
  <2>3. QED
    BY <2>1, <2>2, Zenon
<1>2. QED
  BY Invariant, <1>1, PTL

\* After stop() has returned nothing runs and nothing is open, also when start()
\* failed in between.
THEOREM StopFinal == Spec => []StopIsFinal
<1>1. IInv => StopIsFinal
  BY DEF IInv, Life, StopIsFinal
<1>2. QED
  BY Invariant, <1>1, PTL

\* The clearing of the queue for a new session races with at most one publish().
THEOREM OneStale == Spec => []AtMostOneStale
<1>1. IInv => AtMostOneStale
  BY DEF IInv, Fresh, AtMostOneStale
<1>2. QED
  BY Invariant, <1>1, PTL

\* pump() writes whole packets in the order of their numbers.
THEOREM PacketsWhole == Spec => WholePackets
<1> DEFINE Whole == \/ lastChunk' = <<lastChunk[1], lastChunk[2] + 1>>
                    \/ lastChunk[2] = FrameSize /\ lastChunk'[2] = 1 /\ lastChunk'[1] > lastChunk[1]
<1>1. ASSUME IInv, PumpSend PROVE Whole
  <2>1. /\ Buffered /\ session.offset \in Nat
        /\ lastChunk' = <<session.frame, session.offset + 1>>
    BY <1>1, SizesAssumption DEF PumpSend, BufferWritten, IInv, Types, SessionTypes
  <2>2. CASE session.offset = 0
    <3>1. lastChunk[2] = FrameSize /\ lastChunk[1] < session.frame
      BY <1>1, <2>2 DEF IInv, Chunked
    <3>2. lastChunk[1] \in Nat /\ session.frame \in Nat
      BY <1>1, BoundsAssumption DEF IInv, Types, HistoryTypes, SessionTypes
    <3>3. QED
      BY <2>1, <2>2, <3>1, <3>2
  <2>3. CASE session.offset > 0
    BY <1>1, <2>1, <2>3 DEF IInv, Chunked
  <2>4. QED
    BY <2>1, <2>2, <2>3
<1>2. IInv /\ [Next]_vars => [PumpSend => Whole]_vars
  BY <1>1
<1>3. QED
  BY Invariant, <1>2, PTL DEF Spec, WholePackets

================================================================================
