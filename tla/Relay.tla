--------------------------------- MODULE Relay ---------------------------------
(****************************************************************************)
(* angle_monitor.py: the monitor's session with the node, the relay that     *)
(* passes every byte on to the viewers connected to it, its accept thread,   *)
(* and the receiver thread of lidar_viewer.py at the other end.  The stream  *)
(* is cut into pieces, numbered as the monitor receives them; what decoders  *)
(* make of a stream that starts anywhere is Protocol's matter.               *)
(****************************************************************************)
EXTENDS Integers, SequencesExt

CONSTANTS
    Viewers,     \* connections a viewer may open, each used once
    Pieces,      \* bound: pieces the node sends
    ChunkSize,   \* pieces one recv() returns at most
    SocketRoom   \* pieces on their way to a viewer that the sockets hold

ASSUME RelayAssumption ==
    Pieces \in Nat /\ ChunkSize \in Nat \ {0} /\ SocketRoom \in Nat \ {0}

VARIABLES
    mpc,      \* program counter of the monitor's thread
    session,  \* its connection with the node: "none", "open", "closed" by the node
    received, \* pieces received so far, over all sessions
    chunk,    \* the last recv()
    round,    \* the viewers of the snapshot not served yet
    rest,     \* what sendall() still has to send to the first of them
    dead,     \* those whose sendall() failed
    clients,  \* RelayServer._clients
    apc,      \* program counter of the accept thread
    conn,     \* the connection it has accepted and not yet appended
    peer,     \* the viewers' ends: "away", "backlog", "open", "left"
    inflight, \* pieces between the relay and each viewer
    got       \* history: what each viewer has read

monitor == <<mpc, session, received, chunk, round, rest, dead>>
acceptor == <<apc, conn>>
viewers == <<peer, inflight, got>>
relayVars == <<monitor, clients, acceptor, viewers>>

MonitorPC == {"connect", "recv", "copy", "send", "sleep"}

RelayTypeOK ==
    /\ mpc \in MonitorPC /\ session \in {"none", "open", "closed"}
    /\ received \in 0 .. Pieces
    /\ \A s \in {round, dead, clients} : IsInjective(s) /\ Range(s) \subseteq Viewers
    /\ apc \in {"accept", "append", "ended"} /\ conn \subseteq Viewers
    /\ peer \in [Viewers -> {"away", "backlog", "open", "left"}]
    /\ \A v \in Viewers : Len(inflight[v]) <= SocketRoom

RelayInit ==
    /\ mpc = "connect" /\ session = "none" /\ received = 0
    /\ chunk = <<>> /\ round = <<>> /\ rest = <<>> /\ dead = <<>>
    /\ clients = <<>> /\ apc = "accept" /\ conn = {}
    /\ peer = [v \in Viewers |-> "away"]
    /\ inflight = [v \in Viewers |-> <<>>] /\ got = [v \in Viewers |-> <<>>]

----------------------------------------------------------------------------
(* The monitor's thread: run() and _run_session()                            *)

Connect ==
    /\ mpc = "connect"
    /\ mpc' = "recv" /\ session' = "open"
    /\ UNCHANGED <<received, chunk, round, rest, dead, clients, acceptor, viewers>>

ConnectFails ==
    /\ mpc = "connect"
    /\ mpc' = "sleep"
    /\ UNCHANGED <<session, received, chunk, round, rest, dead, clients, acceptor, viewers>>

Recv ==
    /\ mpc = "recv" /\ session = "open"
    /\ \E n \in 1 .. ChunkSize :
         /\ received + n <= Pieces
         /\ received' = received + n
         /\ chunk' = [i \in 1 .. n |-> received + i]
    /\ mpc' = "copy"
    /\ UNCHANGED <<session, round, rest, dead, clients, acceptor, viewers>>

\* The end of the stream, or two seconds without a byte.
RecvFails ==
    /\ mpc = "recv"
    /\ mpc' = "sleep" /\ session' = "none"
    /\ UNCHANGED <<received, chunk, round, rest, dead, clients, acceptor, viewers>>

Retry ==
    /\ mpc = "sleep"
    /\ mpc' = "connect"
    /\ UNCHANGED <<session, received, chunk, round, rest, dead, clients, acceptor, viewers>>

----------------------------------------------------------------------------
(* RelayServer.broadcast(): the lock is held for the copy and for the end    *)

Copy ==
    /\ mpc = "copy"
    /\ round' = clients /\ rest' = chunk /\ dead' = <<>>
    /\ mpc' = "send"
    /\ UNCHANGED <<session, received, chunk, clients, acceptor, viewers>>

\* Mutant: send() in place of sendall().
PartOnly == <<>>

\* sendall() goes on with what the socket did not take.
Unsent == Tail(rest)

\* Some of what sendall() was given goes into the socket; the next viewer
\* follows when all of it has.  What was sent to one that left is lost.
Send ==
    /\ mpc = "send" /\ round # <<>>
    /\ LET v == Head(round)
       IN  /\ Len(inflight[v]) < SocketRoom
           /\ inflight' = [inflight EXCEPT ![v] = Append(@, Head(rest))]
    /\ IF Unsent # <<>> THEN rest' = Unsent /\ UNCHANGED round
                        ELSE rest' = chunk /\ round' = Tail(round)
    /\ UNCHANGED <<mpc, session, received, chunk, dead, clients, acceptor, peer, got>>

\* Mutant: the dead are removed from the list that is being gone through.
SkipsNext == IF Len(round) > 1 THEN Tail(Tail(round)) ELSE <<>>

\* Who is served after a viewer whose sendall() failed.
AfterError == Tail(round)

SendFails ==
    /\ mpc = "send" /\ round # <<>>
    /\ peer[Head(round)] = "left"
    /\ dead' = Append(dead, Head(round))
    /\ round' = AfterError /\ rest' = chunk
    /\ UNCHANGED <<mpc, session, received, chunk, clients, acceptor, viewers>>

\* What remove() leaves of a list, called for one after the other.
Without(list, gone) ==
    LET left[i \in 0 .. Len(gone)] ==
            IF i = 0 THEN list ELSE RemoveFirst(left[i - 1], gone[i])
    IN  left[Len(gone)]

\* The dead are removed and closed.
EndOfRound ==
    /\ mpc = "send" /\ round = <<>>
    /\ clients' = Without(clients, dead)
    /\ dead' = <<>>
    /\ mpc' = "recv"
    /\ UNCHANGED <<session, received, chunk, round, rest, acceptor, viewers>>

MonitorStep ==
    \/ Connect \/ ConnectFails \/ Recv \/ RecvFails \/ Retry
    \/ Copy \/ Send \/ SendFails \/ EndOfRound

----------------------------------------------------------------------------
(* The accept thread                                                        *)

Accept ==
    /\ apc = "accept"
    /\ \E v \in Viewers :
         /\ peer[v] = "backlog"
         /\ conn' = {v} /\ peer' = [peer EXCEPT ![v] = "open"]
    /\ apc' = "append"
    /\ UNCHANGED <<monitor, clients, inflight, got>>

AppendClient ==
    /\ apc = "append"
    /\ \E v \in conn : clients' = Append(clients, v)
    /\ apc' = "accept" /\ conn' = {}
    /\ UNCHANGED <<monitor, viewers>>

\* Any exception ends the thread: there will be no further viewer.
AcceptFails ==
    /\ apc = "accept"
    /\ apc' = "ended"
    /\ UNCHANGED <<monitor, clients, conn, viewers>>

----------------------------------------------------------------------------
(* The node and the viewers                                                  *)

\* The node stops, or serves another viewer instead.
NodeCloses ==
    /\ session = "open"
    /\ session' = "closed"
    /\ UNCHANGED <<mpc, received, chunk, round, rest, dead, clients, acceptor, viewers>>

ViewerConnects ==
    /\ \E v \in Viewers :
         peer[v] = "away" /\ peer' = [peer EXCEPT ![v] = "backlog"]
    /\ UNCHANGED <<monitor, clients, acceptor, inflight, got>>

\* Receiver._run_session
Read(v) ==
    /\ peer[v] = "open" /\ inflight[v] # <<>>
    /\ got' = [got EXCEPT ![v] = Append(@, Head(inflight[v]))]
    /\ inflight' = [inflight EXCEPT ![v] = Tail(@)]
    /\ UNCHANGED <<monitor, clients, acceptor, peer>>

\* Two seconds without a byte, an exception, or the window is closed.
Leave(v) ==
    /\ peer[v] = "open"
    /\ peer' = [peer EXCEPT ![v] = "left"]
    /\ UNCHANGED <<monitor, clients, acceptor, inflight, got>>

RelayNext ==
    \/ MonitorStep
    \/ Accept \/ AppendClient \/ AcceptFails
    \/ NodeCloses \/ ViewerConnects
    \/ \E v \in Viewers : Read(v) \/ Leave(v)

RelaySpec == RelayInit /\ [][RelayNext]_relayVars

\* Both threads are scheduled, and a viewer that stays reads.  Nothing forces
\* the node to send or to accept the monitor, a viewer to stay or to leave.
RelayFairSpec ==
    /\ RelaySpec
    /\ WF_relayVars(MonitorStep)
    /\ WF_relayVars(AppendClient)
    /\ \A v \in Viewers : WF_relayVars(Read(v))

----------------------------------------------------------------------------
(* Properties                                                               *)

StreamTo(v) == got[v] \o inflight[v]

\* "forwards every byte it receives to all clients" (angle_monitor.py:121): what is on its
\* way to a viewer and behind it is a run of what the monitor received, in
\* order and without a gap, over any number of sessions with the node, whoever
\* comes or leaves meanwhile; and between two rounds no viewer that has had a piece and
\* stays lacks one.
StreamIntact ==
    \A v \in Viewers :
        LET s == StreamTo(v)
        IN  /\ \A i \in 1 .. Len(s) - 1 : s[i + 1] = s[i] + 1
            /\ mpc # "send" /\ mpc # "copy" /\ s # <<>> /\ peer[v] = "open"
                 => Last(s) = received

\* A viewer that is connected when a chunk arrives gets all of it, or leaves: neither
\* one that leaves in the middle of the round nor one with a full socket keeps it
\* from the others for good (angle_monitor.py:149-165).
Forwarded ==
    \A v \in Viewers : \A n \in 1 .. Pieces :
        (mpc = "copy" /\ v \in ToSet(clients) /\ n \in ToSet(chunk))
            ~> (peer[v] = "left" \/ n \in ToSet(got[v]))
================================================================================
