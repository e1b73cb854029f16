------------------------------- MODULE WakePipe -------------------------------
(****************************************************************************)
(* The self-pipe of network/WakePipe.hpp: any thread may signal(), the I/O   *)
(* thread of TcpServer polls the read end, drains it and then looks at its   *)
(* work (the frame queue, the stop flag).  One atomic flag coalesces the     *)
(* signals.  Every step other threads can interleave with is an action.      *)
(* The owner closes the pipe while no thread signals, which is the order      *)
(* Application keeps: it stops the producer before the server.               *)
(****************************************************************************)
EXTENDS Naturals

CONSTANTS
    Signallers,   \* the threads that post work and signal
    Generations   \* bound: how often the pipe is opened

ASSUME GenerationsAssumption == Generations \in Nat \ {0}

VARIABLES
    open,      \* both ends are valid descriptors
    pending,   \* pending_: the coalescing flag
    bytes,     \* bytes in the pipe
    sig,       \* program counter of each signaller
    drainer,   \* program counter of the I/O thread
    gen,       \* how often the pipe has been opened
    work,      \* something was posted and not looked at since
    failed     \* history: a write() has failed

vars == <<open, pending, bytes, sig, drainer, gen, work, failed>>

SigPC == {"idle", "enter", "exchange", "write", "undo"}
DrainPC == {"down", "look", "poll", "read", "store"}

TypeOK ==
    /\ open \in BOOLEAN
    /\ pending \in BOOLEAN
    /\ bytes \in Nat
    /\ sig \in [Signallers -> SigPC]
    /\ drainer \in DrainPC
    /\ gen \in 1..Generations
    /\ work \in BOOLEAN /\ failed \in BOOLEAN

Init ==
    /\ open = TRUE
    /\ pending = FALSE
    /\ bytes = 0
    /\ sig = [s \in Signallers |-> "idle"]
    /\ drainer = "look"
    /\ gen = 1
    /\ work = FALSE /\ failed = FALSE

----------------------------------------------------------------------------
(* signal()                                                                 *)

\* The caller makes its work visible before it calls signal().
Post(s) ==
    /\ sig[s] = "idle"
    /\ work' = TRUE
    /\ sig' = [sig EXCEPT ![s] = "enter"]
    /\ UNCHANGED <<open, pending, bytes, drainer, gen, failed>>

\* A closed pipe is not signalled.
Enter(s) ==
    /\ sig[s] = "enter"
    /\ sig' = [sig EXCEPT ![s] = IF open THEN "exchange" ELSE "idle"]
    /\ UNCHANGED <<open, pending, bytes, drainer, gen, work, failed>>

\* Mutant: every signal writes a byte.
NotCoalesced == "write"

\* Where the caller goes after pending_.exchange(true).
AfterExchange == IF pending THEN "idle" ELSE "write"

Exchange(s) ==
    /\ sig[s] = "exchange"
    /\ pending' = TRUE
    /\ sig' = [sig EXCEPT ![s] = AfterExchange]
    /\ UNCHANGED <<open, bytes, drainer, gen, work, failed>>

WriteByte(s) ==
    /\ sig[s] = "write"
    /\ open
    /\ bytes' = bytes + 1
    /\ sig' = [sig EXCEPT ![s] = "idle"]
    /\ UNCHANGED <<open, pending, drainer, gen, work, failed>>

\* write() returns an error other than EINTR.
WriteFails(s) ==
    /\ sig[s] = "write"
    /\ failed' = TRUE
    /\ sig' = [sig EXCEPT ![s] = "undo"]
    /\ UNCHANGED <<open, pending, bytes, drainer, gen, work>>

\* Mutant: a failed write leaves the flag up.
FlagLatched == pending

\* The flag after a failed write: released so that the next caller retries.
PendingAfterFailure == FALSE

Undo(s) ==
    /\ sig[s] = "undo"
    /\ pending' = PendingAfterFailure
    /\ sig' = [sig EXCEPT ![s] = "idle"]
    /\ UNCHANGED <<open, bytes, drainer, gen, work, failed>>

----------------------------------------------------------------------------
(* The I/O thread                                                           *)

\* Top of the loop: the queue and the stop flag are read, then poll() blocks.
Look ==
    /\ drainer = "look"
    /\ work' = FALSE
    /\ drainer' = "poll"
    /\ UNCHANGED <<open, pending, bytes, sig, gen, failed>>

\* poll() reports POLLIN on the wake pipe.
PollWake ==
    /\ drainer = "poll"
    /\ bytes > 0
    /\ drainer' = "read"
    /\ UNCHANGED <<open, pending, bytes, sig, gen, work, failed>>

\* poll() reports another descriptor only; the pipe is not drained.
PollOther ==
    /\ drainer = "poll"
    /\ bytes = 0
    /\ drainer' = "look"
    /\ UNCHANGED <<open, pending, bytes, sig, gen, work, failed>>

\* drain(): read() until the pipe is empty ...
DrainRead ==
    /\ drainer = "read"
    /\ IF bytes > 0
         THEN bytes' = 0 /\ UNCHANGED drainer
         ELSE drainer' = "store" /\ UNCHANGED bytes
    /\ UNCHANGED <<open, pending, sig, gen, work, failed>>

\* Mutant: drain() forgets to lower the flag.
FlagKept == pending

\* The flag once drain() has emptied the pipe.
PendingAfterDrain == FALSE

\* ... then let the next signal through.
DrainStore ==
    /\ drainer = "store"
    /\ pending' = PendingAfterDrain
    /\ drainer' = "look"
    /\ UNCHANGED <<open, bytes, sig, gen, work, failed>>

----------------------------------------------------------------------------
(* Owner: TcpServer::stop closes the pipe once the thread is joined, and the *)
(* next start opens it again.                                                *)

Retire ==
    /\ drainer = "look"
    /\ gen < Generations
    /\ drainer' = "down"
    /\ UNCHANGED <<open, pending, bytes, sig, gen, work, failed>>

Quiet == \A s \in Signallers : sig[s] = "idle"

\* The flag of a closed pipe.
PendingAfterClose == FALSE

Close ==
    /\ drainer = "down" /\ open
    /\ Quiet
    /\ open' = FALSE
    /\ bytes' = 0
    /\ pending' = PendingAfterClose
    /\ UNCHANGED <<sig, drainer, gen, work, failed>>

Open ==
    /\ ~open
    /\ open' = TRUE
    /\ gen' = gen + 1
    /\ drainer' = "look"
    /\ UNCHANGED <<pending, bytes, sig, work, failed>>

----------------------------------------------------------------------------

SignalStep(s) ==
    Enter(s) \/ Exchange(s) \/ WriteByte(s) \/ WriteFails(s) \/ Undo(s)

\* What the I/O thread does of its own accord; PollOther needs a peer.
DrainStep == Look \/ PollWake \/ DrainRead \/ DrainStore

Next ==
    \/ \E s \in Signallers : Post(s) \/ SignalStep(s)
    \/ DrainStep \/ PollOther
    \/ Retire \/ Close \/ Open

Spec == Init /\ [][Next]_vars

\* The scheduler runs every thread that can run; nothing forces a caller to
\* post or another descriptor to become ready.
FairSpec ==
    /\ Spec
    /\ \A s \in Signallers : WF_vars(SignalStep(s))
    /\ WF_vars(DrainStep)

----------------------------------------------------------------------------
(* Properties                                                               *)

\* "At most one byte is ever in flight" (WakePipe.hpp:30): the threads that
\* have won the exchange and the bytes they wrote never number more than one,
\* so write() can neither fill the pipe nor block.
AtMostOneByte == bytes <= 1

\* Until a write() fails, the I/O thread is never left asleep with work it has
\* not seen: if it is in poll() and work is posted, a byte is in the pipe or a
\* signaller is still on its way to writing one (WakePipe.hpp:87-95).
NoLostWakeup ==
    (work /\ drainer = "poll" /\ ~failed)
        => \/ bytes > 0
           \/ \E s \in Signallers : sig[s] \in {"enter", "exchange", "write"}

\* The flag is never latched (WakePipe.hpp:101): while no thread is inside
\* signal() and the I/O thread is not draining, it is up exactly when a byte
\* backs it, so the next signal is never swallowed.
PendingIsBacked ==
    (Quiet /\ drainer \in {"look", "poll", "down"}) => (pending <=> bytes > 0)

\* While the I/O thread serves the pipe and no write() has failed, work that is
\* posted is looked at (WakePipe.hpp:75-116).
Event == INSTANCE WakeEvent WITH serving <- ~failed /\ drainer # "down"
EventSpec == Event!Spec
=============================================================================
