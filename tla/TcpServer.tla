------------------------------- MODULE TcpServer -------------------------------
(****************************************************************************)
(* network/TcpServer.cpp with the ClientSession and the FrameQueue it owns:  *)
(* publish() on the lidar thread, one poll() loop on the I/O thread, start() *)
(* and stop() on the owner's thread, and the viewers at the other end.       *)
(*                                                                          *)
(* A frame is the number of its publish(); encoded it is FrameSize chunks.   *)
(* The wake pipe is one flag, raised by signal() and lowered by drain(),     *)
(* which WakePipe shows is what its users see.                               *)
(****************************************************************************)
EXTENDS FrameQueueOps

CONSTANTS
    FrameSize,     \* chunks in an encoded packet
    SocketRoom,    \* chunks the kernel buffers for a viewer that does not read
    MaxFrames,     \* bound: calls of publish()
    MaxConns,      \* bound: connections
    MaxStarts,     \* bound: calls of start()
    PollMayFail,   \* whether poll() may fail with an error other than EINTR
    Paired         \* no start() before the stop() of the previous one

ASSUME SizesAssumption == FrameSize \in Nat \ {0} /\ SocketRoom \in Nat \ {0}
ASSUME BoundsAssumption == MaxFrames \in Nat /\ MaxConns \in Nat /\ MaxStarts \in Nat
ASSUME FlagsAssumption == PollMayFail \in BOOLEAN /\ Paired \in BOOLEAN

VARIABLES
    queue,          \* FrameQueue::queue_
    pub,            \* program counter of publish()
    published,      \* stats.frames_published, the number of the current frame
    evicted,        \* what the last push() returned
    io,             \* program counter of the I/O thread
    wantOut,        \* POLLOUT was asked for
    polled,         \* a client descriptor was given to poll()
    revents,        \* what poll() reported
    session,        \* peer (0: no session), frame being sent, chunks sent
    connects,       \* stats.client_connects
    disconnects,    \* stats.client_disconnects
    connected,      \* client_connected
    statConnected,  \* stats.client_connected
    running,        \* running
    stopRequested,  \* stop_requested
    thread,         \* the std::thread object: "none" or "joinable"
    owner,          \* program counter of start() and stop()
    starts,         \* calls of start()
    pipeOpen,       \* the wake pipe is open
    wake,           \* the wake pipe is readable
    listening,      \* listen_fd is valid
    backlog,        \* connections waiting in accept()
    peer,           \* each connection as its viewer left it
    room,           \* free chunks in the socket buffer of the session
    settled,        \* stats.frames_sent + stats.frames_dropped, and history: the
                    \* frames cleared or lost with their session
    lastChunk,      \* history: the last chunk written to this session
    born,           \* history: frames published when the session was accepted
    stale           \* history: frames older than the session given to it

pubVars == <<pub, published, evicted>>
ioVars == <<wantOut, polled, revents>>
sessionVars == <<session, connects, disconnects, connected, statConnected>>
ownerVars == <<running, stopRequested, thread, owner, starts, pipeOpen, listening>>
netVars == <<backlog, peer, room>>
others == <<lastChunk, born, stale>>
history == <<settled, others>>
vars == <<queue, pubVars, io, ioVars, sessionVars, ownerVars, wake, netVars, history>>

Conns == 1..MaxConns
NoEvents == [wake |-> FALSE, listen |-> FALSE, hup |-> FALSE, input |-> FALSE]
Closed == [peer |-> 0, frame |-> 0, offset |-> FrameSize]
Valid == session.peer # 0
Buffered == session.offset < FrameSize
\* Frames of the session that will never be sent once it is closed.
Unsent == IF Buffered THEN 1 ELSE 0

PubPC == {"idle", "connected", "running", "drop", "push", "evicted", "signal"}
IoPC == {"down", "build", "poll", "drain", "client", "accept", "install", "clear", "service",
         "pump", "exit", "exitFlag", "exited", "dead"}

TypeOK ==
    /\ queue \in Seq(1..MaxFrames) /\ Len(queue) <= capacity
    /\ pub \in PubPC
    /\ published \in 0..MaxFrames /\ evicted \in 0..1
    /\ io \in IoPC
    /\ wantOut \in BOOLEAN /\ polled \in BOOLEAN
    /\ revents \in [wake : BOOLEAN, listen : BOOLEAN, hup : BOOLEAN, input : BOOLEAN]
    /\ session \in [peer : 0..MaxConns, frame : 0..MaxFrames, offset : 0..FrameSize]
    /\ connects \in 0..MaxConns /\ disconnects \in 0..connects
    /\ connected \in BOOLEAN /\ statConnected \in BOOLEAN
    /\ running \in BOOLEAN /\ stopRequested \in BOOLEAN
    /\ thread \in {"none", "joinable"}
    /\ owner \in {"idle", "signal", "join", "close"}
    /\ starts \in 0..MaxStarts
    /\ pipeOpen \in BOOLEAN /\ wake \in BOOLEAN /\ listening \in BOOLEAN
    /\ backlog \in Seq(Conns)
    /\ peer \in [Conns -> {"new", "open", "fin", "reset", "gone"}]
    /\ room \in 0..SocketRoom
    /\ settled \in 0..MaxFrames
    /\ lastChunk \in (0..MaxFrames) \X (1..FrameSize)
    /\ born \in 0..MaxFrames /\ stale \in Nat

Init ==
    /\ queue = <<>>
    /\ pub = "idle" /\ published = 0 /\ evicted = 0
    /\ io = "down" /\ wantOut = FALSE /\ polled = FALSE /\ revents = NoEvents
    /\ session = Closed
    /\ connects = 0 /\ disconnects = 0
    /\ connected = FALSE /\ statConnected = FALSE
    /\ running = FALSE /\ stopRequested = FALSE /\ thread = "none"
    /\ owner = "idle" /\ starts = 0
    /\ pipeOpen = FALSE /\ wake = FALSE /\ listening = FALSE
    /\ backlog = <<>> /\ peer = [c \in Conns |-> "new"] /\ room = SocketRoom
    /\ settled = 0 /\ lastChunk = <<0, FrameSize>> /\ born = 0 /\ stale = 0

----------------------------------------------------------------------------
(* publish()                                                                *)

Publish ==
    /\ pub = "idle" /\ published < MaxFrames
    /\ published' = published + 1
    /\ pub' = "connected"
    /\ UNCHANGED <<queue, evicted, io, ioVars, sessionVars, ownerVars, wake, netVars,
                   history>>

\* The two loads of the early discard are not one.
LoadConnected ==
    /\ pub = "connected"
    /\ pub' = IF connected THEN "running" ELSE "drop"
    /\ UNCHANGED <<queue, published, evicted, io, ioVars, sessionVars, ownerVars, wake,
                   netVars, history>>

LoadRunning ==
    /\ pub = "running"
    /\ pub' = IF running THEN "push" ELSE "drop"
    /\ UNCHANGED <<queue, published, evicted, io, ioVars, sessionVars, ownerVars, wake,
                   netVars, history>>

Drop ==
    /\ pub = "drop"
    /\ settled' = settled + 1
    /\ pub' = "idle"
    /\ UNCHANGED <<queue, published, evicted, io, ioVars, sessionVars, ownerVars, wake, netVars,
                   others>>

Push ==
    /\ pub = "push"
    /\ queue' = Pushed(queue, published)
    /\ evicted' = Evictions(queue)
    /\ pub' = IF evicted' > 0 THEN "evicted" ELSE "signal"
    /\ UNCHANGED <<published, io, ioVars, sessionVars, ownerVars, wake, netVars,
                   history>>

CountEvicted ==
    /\ pub = "evicted"
    /\ settled' = settled + evicted
    /\ evicted' = 0
    /\ pub' = "signal"
    /\ UNCHANGED <<queue, published, io, ioVars, sessionVars, ownerVars, wake, netVars, others>>

\* Mutant: publish() does not signal the I/O thread.
NotSignalled == wake

\* The wake pipe after signal(): a closed pipe is not written to.
Signalled == wake \/ pipeOpen

Signal ==
    /\ pub = "signal"
    /\ wake' = Signalled
    /\ pub' = "idle"
    /\ UNCHANGED <<queue, published, evicted, io, ioVars, sessionVars, ownerVars,
                   netVars, history>>

PublishStep == LoadConnected \/ LoadRunning \/ Drop \/ Push \/ CountEvicted \/ Signal

----------------------------------------------------------------------------
(* The I/O thread: Impl::run                                                *)

\* Mutant: the loop does not test the stop flag.
LoopsForever == FALSE

\* The loop condition.
Leaving == stopRequested

\* ClientSession::pollEvents(): whether POLLOUT is asked for.
WantsOut == queue # <<>> \/ Buffered

Build ==
    /\ io = "build"
    /\ IF Leaving
         THEN io' = "exit" /\ UNCHANGED <<wantOut, polled>>
         ELSE io' = "poll" /\ wantOut' = (Valid /\ WantsOut) /\ polled' = Valid
    /\ UNCHANGED <<queue, pubVars, revents, sessionVars, ownerVars, wake, netVars, history>>

ClientState == IF Valid THEN peer[session.peer] ELSE "gone"

Ready ==
    \/ wake
    \/ backlog # <<>>
    \/ polled /\ (ClientState \in {"fin", "reset"} \/ (wantOut /\ room > 0))

\* poll() returns what is ready at that moment; later it is old news.
Poll ==
    /\ io = "poll" /\ Ready
    /\ revents' = [wake |-> wake, listen |-> backlog # <<>>,
                   hup |-> polled /\ ClientState = "reset",
                   input |-> polled /\ ClientState = "fin"]
    /\ io' = "drain"
    /\ UNCHANGED <<queue, pubVars, wantOut, polled, sessionVars, ownerVars, wake, netVars,
                   history>>

PollInterrupted ==
    /\ io = "poll"
    /\ io' = "build"
    /\ UNCHANGED <<queue, pubVars, ioVars, sessionVars, ownerVars, wake, netVars, history>>

PollFails ==
    /\ io = "poll" /\ PollMayFail
    /\ io' = "exit"
    /\ UNCHANGED <<queue, pubVars, ioVars, sessionVars, ownerVars, wake, netVars, history>>

Drain ==
    /\ io = "drain"
    /\ wake' = (wake /\ ~revents.wake)
    /\ io' = "client"
    /\ UNCHANGED <<queue, pubVars, ioVars, sessionVars, ownerVars, netVars, history>>

\* Mutant: a session ends without its mirror being lowered.
MirrorKept == connected

\* client_connected once a session has ended.
ConnectedAfterEnd == FALSE

\* The connection of a session that ends, and what was noted of the session.
Gone ==
    /\ peer' = [peer EXCEPT ![session.peer] = "gone"]
    /\ room' = SocketRoom
    /\ lastChunk' = <<0, FrameSize>> /\ born' = 0 /\ stale' = 0

\* endSession() on a valid session.
EndSession ==
    /\ Gone
    /\ session' = Closed
    /\ connected' = ConnectedAfterEnd /\ statConnected' = FALSE
    /\ disconnects' = disconnects + 1
    /\ settled' = settled + Unsent
    /\ UNCHANGED connects

KeepSession == UNCHANGED <<sessionVars, settled, peer, room, others>>

\* serviceClientEvents(): a hang-up, an error or an end of input ends the session.
ClientEvents ==
    /\ io = "client"
    /\ IF Valid /\ polled /\ (revents.hup \/ revents.input) THEN EndSession ELSE KeepSession
    /\ io' = "accept"
    /\ UNCHANGED <<queue, pubVars, ioVars, ownerVars, wake, backlog>>

\* The locals of an iteration are dead once its events are handled.
ForgetEvents == wantOut' = FALSE /\ polled' = FALSE /\ revents' = NoEvents

NothingToAccept ==
    /\ io = "accept" /\ ~revents.listen
    /\ io' = "service"
    /\ ForgetEvents
    /\ UNCHANGED <<queue, pubVars, sessionVars, ownerVars, wake, netVars, history>>

\* accept() fails, for instance for lack of descriptors.
AcceptFails ==
    /\ io = "accept" /\ revents.listen
    /\ io' = "service"
    /\ ForgetEvents
    /\ UNCHANGED <<queue, pubVars, sessionVars, ownerVars, wake, netVars, history>>

\* Mutant: the session that is replaced is not ended first.
ReplacedSilently == KeepSession

\* acceptClient(): the new connection replaces the session there is.
Replace == IF Valid THEN EndSession ELSE KeepSession

AcceptClient ==
    /\ io = "accept" /\ revents.listen /\ backlog # <<>>
    /\ Replace
    /\ io' = "install"
    /\ ForgetEvents
    /\ UNCHANGED <<queue, pubVars, ownerVars, wake, backlog>>

Install ==
    /\ io = "install"
    /\ session' = [Closed EXCEPT !.peer = Head(backlog)]
    /\ backlog' = Tail(backlog)
    /\ room' = SocketRoom
    /\ connected' = TRUE
    /\ lastChunk' = <<0, FrameSize>> /\ born' = published /\ stale' = 0
    /\ io' = "clear"
    /\ UNCHANGED <<queue, pubVars, ioVars, connects, disconnects, statConnected, ownerVars,
                   wake, peer, settled>>

\* Mutant: the new session keeps the queue of the old one.
QueueKept == queue

\* The queue once it has been cleared for a new session.
QueueForNewSession == <<>>

ClearForSession ==
    /\ io = "clear"
    /\ queue' = QueueForNewSession
    /\ settled' = settled + Len(queue) - Len(queue')
    /\ connects' = connects + 1 /\ statConnected' = TRUE
    /\ io' = "service"
    /\ UNCHANGED <<pubVars, ioVars, session, disconnects, connected, ownerVars, wake,
                   netVars, lastChunk, born, stale>>

\* Without a viewer the queue holds no memory.
ServiceNobody ==
    /\ io = "service" /\ ~Valid
    /\ settled' = settled + Len(queue)
    /\ queue' = <<>>
    /\ io' = "build"
    /\ UNCHANGED <<pubVars, ioVars, sessionVars, ownerVars, wake, netVars, lastChunk, born,
                   stale>>

ServiceOutput ==
    /\ io = "service" /\ Valid
    /\ io' = "pump"
    /\ UNCHANGED <<queue, pubVars, ioVars, sessionVars, ownerVars, wake, netVars, history>>

\* Mutant: the next frame is encoded over one that is half sent.
PopsEarly == session.offset > 0

\* ClientSession::pump(): the send buffer has been written in full.
BufferWritten == ~Buffered

PumpPop ==
    /\ io = "pump" /\ BufferWritten /\ queue # <<>>
    /\ session' = [session EXCEPT !.frame = Head(queue), !.offset = 0]
    /\ queue' = Tail(queue)
    /\ UNCHANGED <<pubVars, io, ioVars, connects, disconnects, connected, statConnected,
                   ownerVars, wake, netVars, history>>

PumpDone ==
    /\ io = "pump" /\ BufferWritten /\ queue = <<>>
    /\ io' = "build"
    /\ UNCHANGED <<queue, pubVars, ioVars, sessionVars, ownerVars, wake, netVars, history>>

PumpSend ==
    /\ io = "pump" /\ ~BufferWritten
    /\ ClientState \in {"open", "fin"} /\ room > 0
    /\ session' = [session EXCEPT !.offset = @ + 1]
    /\ room' = room - 1
    /\ settled' = IF session'.offset = FrameSize THEN settled + 1 ELSE settled
    /\ lastChunk' = <<session.frame, session'.offset>>
    /\ stale' = IF session.offset = 0 /\ session.frame <= born THEN stale + 1 ELSE stale
    /\ UNCHANGED <<queue, pubVars, io, ioVars, connects, disconnects, connected, statConnected,
                   ownerVars, wake, backlog, peer, born>>

PumpBlocked ==
    /\ io = "pump" /\ ~BufferWritten
    /\ ClientState \in {"open", "fin"} /\ room = 0
    /\ io' = "build"
    /\ UNCHANGED <<queue, pubVars, ioVars, sessionVars, ownerVars, wake, netVars, history>>

PumpFails ==
    /\ io = "pump" /\ ~BufferWritten
    /\ ClientState \in {"fin", "reset"}
    /\ EndSession
    /\ io' = "build"
    /\ UNCHANGED <<queue, pubVars, ioVars, ownerVars, wake, backlog>>

Exit ==
    /\ io = "exit"
    /\ IF Valid
         THEN /\ Gone
              /\ session' = Closed
              /\ connected' = ConnectedAfterEnd /\ statConnected' = FALSE
              /\ disconnects' = disconnects + 1
         ELSE UNCHANGED <<session, connected, statConnected, disconnects, peer, room, others>>
    /\ queue' = <<>>
    /\ settled' = settled + Unsent + Len(queue)
    /\ io' = "exitFlag"
    /\ UNCHANGED <<pubVars, ioVars, connects, ownerVars, wake, backlog>>

ExitFlag ==
    /\ io = "exitFlag"
    /\ running' = FALSE
    /\ io' = "exited"
    /\ UNCHANGED <<queue, pubVars, ioVars, sessionVars, stopRequested, thread, owner, starts,
                   pipeOpen, listening, wake, netVars, history>>

IoStep ==
    \/ Build \/ Poll \/ Drain \/ ClientEvents
    \/ NothingToAccept \/ AcceptClient \/ Install \/ ClearForSession
    \/ ServiceNobody \/ ServiceOutput
    \/ PumpPop \/ PumpDone \/ PumpSend \/ PumpBlocked \/ PumpFails
    \/ Exit \/ ExitFlag

----------------------------------------------------------------------------
(* start() and stop()                                                       *)

MayStart == owner = "idle" /\ starts < MaxStarts /\ ~running /\ (Paired => thread = "none")

\* pipe(), bind(), listen() or the thread fails: nothing is left open.
StartFails ==
    /\ MayStart
    /\ starts' = starts + 1
    /\ stopRequested' = FALSE /\ running' = FALSE
    /\ pipeOpen' = FALSE /\ wake' = FALSE /\ listening' = FALSE
    /\ UNCHANGED <<queue, pubVars, io, ioVars, sessionVars, thread, owner, netVars, history>>

\* A thread moved onto a joinable one ends the process.
Start ==
    /\ MayStart
    /\ starts' = starts + 1
    /\ stopRequested' = FALSE /\ running' = TRUE
    /\ pipeOpen' = TRUE /\ wake' = FALSE /\ listening' = TRUE
    /\ thread' = "joinable"
    /\ io' = IF thread = "joinable" THEN "dead" ELSE "build"
    /\ UNCHANGED <<queue, pubVars, ioVars, sessionVars, owner, netVars, history>>

StopCall ==
    /\ owner = "idle" /\ io # "dead"
    /\ starts > 0 /\ (running \/ thread = "joinable")
    /\ stopRequested' = TRUE
    /\ owner' = "signal"
    /\ UNCHANGED <<queue, pubVars, io, ioVars, sessionVars, running, thread, starts, pipeOpen,
                   listening, wake, netVars, history>>

StopSignal ==
    /\ owner = "signal"
    /\ wake' = Signalled
    /\ owner' = "join"
    /\ UNCHANGED <<queue, pubVars, io, ioVars, sessionVars, running, stopRequested, thread,
                   starts, pipeOpen, listening, netVars, history>>

\* Mutant: stop() does not wait for the I/O thread.
JoinSkipped == TRUE

\* What join() waits for.
Joined == io = "exited"

StopJoin ==
    /\ owner = "join"
    /\ Joined
    /\ thread' = "none"
    /\ io' = IF io = "exited" THEN "down" ELSE io
    /\ owner' = "close"
    /\ UNCHANGED <<queue, pubVars, ioVars, sessionVars, running, stopRequested, starts, pipeOpen,
                   listening, wake, netVars, history>>

\* Closing the listening socket resets the connections still in its backlog.
StopClose ==
    /\ owner = "close"
    /\ listening' = FALSE
    /\ peer' = [c \in Conns |-> IF peer[c] = "new" \/ c = session.peer THEN peer[c]
                                ELSE "gone"]
    /\ backlog' = <<>>
    /\ pipeOpen' = FALSE /\ wake' = FALSE
    /\ connected' = FALSE
    /\ running' = FALSE
    /\ owner' = "idle"
    /\ UNCHANGED <<queue, pubVars, io, ioVars, session, connects, disconnects,
                   statConnected, stopRequested, thread, starts, room, history>>

OwnerStep == StopSignal \/ StopJoin \/ StopClose

----------------------------------------------------------------------------
(* The viewers                                                              *)

Connect(c) ==
    /\ listening /\ peer[c] = "new"
    /\ \A d \in Conns : d < c => peer[d] # "new"
    /\ peer' = [peer EXCEPT ![c] = "open"]
    /\ backlog' = Append(backlog, c)
    /\ UNCHANGED <<queue, pubVars, io, ioVars, sessionVars, ownerVars, wake, room, history>>

Leave(c) ==
    /\ peer[c] = "open"
    /\ c = session.peer \/ c \in {backlog[i] : i \in 1..Len(backlog)}
    /\ \E how \in {"fin", "reset"} : peer' = [peer EXCEPT ![c] = how]
    /\ UNCHANGED <<queue, pubVars, io, ioVars, sessionVars, ownerVars, wake, backlog, room,
                   history>>

\* The viewer of the session reads what the kernel holds for it.
Read ==
    /\ Valid /\ ClientState = "open" /\ room < SocketRoom
    /\ room' = SocketRoom
    /\ UNCHANGED <<queue, pubVars, io, ioVars, sessionVars, ownerVars, wake, backlog, peer,
                   history>>

----------------------------------------------------------------------------

Next ==
    \/ Publish \/ PublishStep
    \/ IoStep \/ PollInterrupted \/ PollFails \/ AcceptFails
    \/ StartFails \/ Start \/ StopCall \/ OwnerStep
    \/ \E c \in Conns : Connect(c) \/ Leave(c)
    \/ Read

Spec == Init /\ [][Next]_vars

\* Threads that can run do run.  poll() is strongly fair because an EINTR only
\* sends it round again.  A viewer reads while it is connected.
FairSpec ==
    /\ Spec
    /\ WF_vars(PublishStep)
    /\ WF_vars(IoStep) /\ SF_vars(Poll) /\ SF_vars(AcceptClient)
    /\ WF_vars(OwnerStep)
    /\ WF_vars(Read)

----------------------------------------------------------------------------
(* Properties                                                               *)

\* Where the frame of the publish() in progress is, unless it is elsewhere.
InHand == IF pub \in {"connected", "running", "drop", "push"} THEN 1 ELSE 0

\* Every published frame is in exactly one place: with its publish(), in the
\* queue, in the send buffer, or settled: sent, counted as dropped, or lost with a
\* session (TcpServerStats).
FramesConserved ==
    published = InHand + Len(queue) + Unsent + evicted + settled

\* At the top of the loop the two mirrors of the session and the counts of
\* connects and disconnects agree with it, whichever path ended the last one.
MirrorsAgree ==
    io \in {"build", "poll", "exited", "down"} =>
        /\ connected = Valid /\ statConnected = Valid
        /\ connects = disconnects + (IF Valid THEN 1 ELSE 0)

\* What a viewer is sent is whole packets in increasing order: a chunk follows
\* the chunk before it in its packet, or begins a newer packet after a whole
\* one, however often the socket blocks and the session is replaced.
WholePackets ==
    [][PumpSend =>
         \/ lastChunk' = <<lastChunk[1], lastChunk[2] + 1>>
         \/ lastChunk[2] = FrameSize /\ lastChunk'[2] = 1 /\ lastChunk'[1] > lastChunk[1]]_vars

\* A session is given at most one frame older than itself: the one whose
\* publish() had passed its checks when the queue was cleared.
AtMostOneStale == stale <= 1

\* After stop() has returned nobody is served: the thread is joined and every
\* descriptor is closed.
StopIsFinal ==
    (owner = "idle" /\ thread = "none") =>
        io = "down" /\ ~Valid /\ ~running /\ ~listening /\ ~pipeOpen /\ backlog = <<>>

\* Frames never rest in the queue of a session whose viewer reads: whatever the
\* interleaving of publish() and the loop, they are sent or the session ends.
QueueServed ==
    (Valid /\ queue # <<>>) ~> (~Valid \/ queue = <<>>)

\* stop() returns, whatever the viewer and the publisher are doing.
StopCompletes == owner = "signal" ~> owner = "idle"
================================================================================
