---------------------------- MODULE WakePipeProofs ----------------------------
(****************************************************************************)
(* WakePipe is correct for every set of signallers, however often it is      *)
(* opened.                                                                  *)
(*                                                                          *)
(* The argument: the raised flag is a token.  While it is up it is held by   *)
(* exactly one of a signaller past its exchange, the byte in the pipe, or    *)
(* the I/O thread between its read() and its store; whoever sees it up may   *)
(* leave, because the holder will wake the I/O thread.                       *)
(****************************************************************************)
EXTENDS WakePipe, TLAPS

\* The signallers that hold the token.
Holds(s) == sig[s] \in {"write", "undo"}

OneHolder == \A s, t \in Signallers : Holds(s) /\ Holds(t) => s = t

\* A signaller that holds the token holds it alone.
HolderExcludes ==
    \A s \in Signallers : Holds(s) => pending /\ bytes = 0 /\ drainer \notin {"read", "store"}

\* A byte, or a drain under way, holds the token.
ByteHolds ==
    /\ bytes <= 1
    /\ bytes > 0 => pending /\ drainer # "store"
    /\ drainer \in {"read", "store"} => pending

\* The token is never lost.
SomeHolder ==
    pending => \/ bytes > 0
               \/ drainer \in {"read", "store"}
               \/ \E s \in Signallers : Holds(s)

\* No signaller is past the validity check of a closed pipe, and the bound on
\* the number of openings is not used up while the I/O thread is down.
ClosedIsQuiet ==
    /\ drainer = "down" => gen < Generations
    /\ ~open => /\ bytes = 0 /\ ~pending /\ drainer = "down"
                /\ \A s \in Signallers : sig[s] \in {"idle", "enter"}

IInv ==
    /\ TypeOK /\ OneHolder /\ HolderExcludes /\ ByteHolds /\ SomeHolder /\ ClosedIsQuiet

\* A signaller has the flag to release only if its write() failed.
NoUndo == failed \/ \A s \in Signallers : sig[s] # "undo"

WInv == IInv /\ NoUndo /\ NoLostWakeup

-----------------------------------------------------------------------------

\* The initial state of a pipe: the token is down and nobody holds it.
LEMMA InitIInv == Init => IInv
<1> SUFFICES ASSUME Init PROVE IInv
  OBVIOUS
<1>1. TypeOK
  <2>1. gen \in 1..Generations
    BY GenerationsAssumption DEF Init
  <2>2. sig \in [Signallers -> SigPC] /\ drainer \in DrainPC /\ bytes \in Nat
    BY DEF Init, SigPC, DrainPC
  <2>3. QED
    BY <2>1, <2>2 DEF Init, TypeOK
<1>2. ~pending /\ open /\ bytes = 0 /\ drainer = "look"
  BY DEF Init
<1>3. \A s \in Signallers : ~Holds(s)
  BY DEF Init, Holds
<1>4. OneHolder /\ HolderExcludes /\ ByteHolds /\ SomeHolder /\ ClosedIsQuiet
  BY <1>2, <1>3 DEF OneHolder, HolderExcludes, ByteHolds, SomeHolder, ClosedIsQuiet
<1>5. QED
  BY <1>1, <1>4 DEF IInv

\* Every step of signal(), of the I/O thread and of the owner passes the token
\* on whole.
LEMMA StepIInv == IInv /\ [Next]_vars => IInv'
<1> SUFFICES ASSUME IInv, [Next]_vars PROVE IInv'
  OBVIOUS
<1> USE GenerationsAssumption
    DEF IInv, TypeOK, OneHolder, HolderExcludes, ByteHolds, SomeHolder, ClosedIsQuiet,
        Holds, SigPC, DrainPC
<1>1. ASSUME NEW s \in Signallers, Post(s) PROVE IInv'
  BY <1>1 DEF Post
<1>2. ASSUME NEW s \in Signallers, Enter(s) PROVE IInv'
  BY <1>2 DEF Enter
<1>3. ASSUME NEW s \in Signallers, Exchange(s) PROVE IInv'
  BY <1>3 DEF Exchange, AfterExchange
<1>4. ASSUME NEW s \in Signallers, WriteByte(s) PROVE IInv'
  BY <1>4 DEF WriteByte
<1>5. ASSUME NEW s \in Signallers, WriteFails(s) PROVE IInv'
  BY <1>5 DEF WriteFails
<1>6. ASSUME NEW s \in Signallers, Undo(s) PROVE IInv'
  <2>1. sig' = [sig EXCEPT ![s] = "idle"] /\ ~pending' /\ pending' \in BOOLEAN
    BY <1>6 DEF Undo, PendingAfterFailure
  <2>2. UNCHANGED <<open, bytes, drainer, gen, work, failed>> /\ Holds(s)
    BY <1>6 DEF Undo
  <2>3. \A t \in Signallers : ~Holds(t)'
    BY <2>1, <2>2
  <2>4. QED
    BY <2>1, <2>2, <2>3
<1>7. CASE Look \/ PollWake \/ PollOther
  <2>1. CASE Look
    BY <2>1 DEF Look
  <2>2. CASE PollWake
    BY <2>2 DEF PollWake
  <2>3. CASE PollOther
    BY <2>3 DEF PollOther
  <2>4. QED
    BY <1>7, <2>1, <2>2, <2>3
<1>8. CASE DrainRead
  BY <1>8 DEF DrainRead
<1>9. CASE DrainStore
  BY <1>9 DEF DrainStore, PendingAfterDrain
<1>10. CASE Retire
  BY <1>10 DEF Retire
<1>11. CASE Close
  <2>1. bytes' = 0 /\ ~pending' /\ ~open' /\ pending' \in BOOLEAN /\ open' \in BOOLEAN
    BY <1>11 DEF Close, PendingAfterClose
  <2>2. UNCHANGED <<sig, drainer, gen, work, failed>> /\ drainer = "down" /\ Quiet
    BY <1>11 DEF Close
  <2>3. QED
    BY <2>1, <2>2 DEF Quiet
<1>12. CASE Open
  BY <1>12 DEF Open
<1>13. CASE UNCHANGED vars
  BY <1>13 DEF vars
<1>14. QED
  BY <1>1, <1>2, <1>3, <1>4, <1>5, <1>6, <1>7, <1>8, <1>9, <1>10, <1>11, <1>12, <1>13
     DEF Next, SignalStep, DrainStep

\* The token argument as an invariant of the specification.
LEMMA Invariant == Spec => []IInv
<1>1. IInv /\ [Next]_vars => IInv'
  BY StepIInv
<1>2. QED
  BY <1>1, InitIInv, PTL DEF Spec

\* The type invariant of the wake pipe, for any number of threads and openings.
THEOREM TypeCorrect == Spec => []TypeOK
<1>1. IInv => TypeOK
  BY DEF IInv
<1>2. QED
  BY <1>1, Invariant, PTL

\* "At most one byte is ever in flight" (WakePipe.hpp:30), whatever write()
\* returns, for any number of threads.
THEOREM OneByte == Spec => []AtMostOneByte
<1>1. IInv => AtMostOneByte
  BY DEF IInv, ByteHolds, AtMostOneByte
<1>2. QED
  BY <1>1, Invariant, PTL

\* The coalescing flag is never latched (WakePipe.hpp:101): with nobody in
\* signal() or drain() it is up exactly when a byte backs it.
THEOREM FlagIsBacked == Spec => []PendingIsBacked
<1>1. IInv => PendingIsBacked
  BY DEF IInv, ByteHolds, SomeHolder, Holds, PendingIsBacked, Quiet
<1>2. QED
  BY <1>1, Invariant, PTL

\* Until a write() fails the I/O thread never sleeps on work it has not seen.
THEOREM WakeupNotLost == Spec => []NoLostWakeup
<1>1. Init => WInv
  BY InitIInv DEF WInv, NoUndo, NoLostWakeup, Init
<1>2. WInv /\ [Next]_vars => WInv'
  <2> SUFFICES ASSUME WInv, [Next]_vars PROVE WInv'
    OBVIOUS
  <2>0. IInv'
    BY StepIInv DEF WInv
  <2> USE DEF WInv, NoUndo, NoLostWakeup, IInv, TypeOK, SigPC, DrainPC
  <2>1. ASSUME NEW s \in Signallers, Post(s) PROVE WInv'
    BY <2>0, <2>1 DEF Post
  <2>2. ASSUME NEW s \in Signallers, Enter(s) PROVE WInv'
    BY <2>0, <2>2 DEF Enter, ClosedIsQuiet
  <2>3. ASSUME NEW s \in Signallers, Exchange(s) PROVE WInv'
    BY <2>0, <2>3 DEF Exchange, AfterExchange, SomeHolder, Holds
  <2>4. ASSUME NEW s \in Signallers, WriteByte(s) PROVE WInv'
    BY <2>0, <2>4 DEF WriteByte
  <2>5. ASSUME NEW s \in Signallers, WriteFails(s) PROVE WInv'
    BY <2>0, <2>5 DEF WriteFails, ClosedIsQuiet
  <2>6. ASSUME NEW s \in Signallers, Undo(s) PROVE WInv'
    BY <2>0, <2>6 DEF Undo
  <2>7. CASE Look \/ PollWake \/ PollOther \/ DrainRead \/ DrainStore
    BY <2>0, <2>7 DEF Look, PollWake, PollOther, DrainRead, DrainStore
  <2>8. CASE Retire \/ Close \/ Open
    BY <2>0, <2>8 DEF Retire, Close, Open
  <2>9. CASE UNCHANGED vars
    BY <2>0, <2>9 DEF vars
  <2>10. QED
    BY <2>1, <2>2, <2>3, <2>4, <2>5, <2>6, <2>7, <2>8, <2>9 DEF Next, SignalStep, DrainStep
<1>3. WInv => NoLostWakeup
  BY DEF WInv
<1>4. QED
  BY <1>1, <1>2, <1>3, PTL DEF Spec

\* The safety part of the refinement: every step of the pipe and of its users
\* is a step of WakeEvent on the posted work and on the promise, or leaves both
\* alone.
THEOREM ImplementsEvent == Spec => Event!Init /\ [][Event!Next]_(Event!vars)
<1>1. Init => Event!Init
  BY DEF Init, Event!Init
<1>2. IInv /\ [Next]_vars => [Event!Next]_(Event!vars)
  <2> SUFFICES ASSUME IInv, [Next]_vars PROVE [Event!Next]_(Event!vars)
    OBVIOUS
  <2>1. ASSUME UNCHANGED work PROVE [Event!Next]_(Event!vars)
    BY <2>1 DEF Event!Next, Event!StopOrStart, Event!vars
  <2>2. ASSUME work' = TRUE, UNCHANGED <<failed, drainer>> PROVE [Event!Next]_(Event!vars)
    BY <2>2 DEF Event!Next, Event!Post
  <2>3. ASSUME NEW s \in Signallers, Post(s) PROVE [Event!Next]_(Event!vars)
    BY <2>2, <2>3 DEF Post
  <2>4. ASSUME NEW s \in Signallers, SignalStep(s) PROVE [Event!Next]_(Event!vars)
    BY <2>1, <2>4 DEF SignalStep, Enter, Exchange, WriteByte, WriteFails, Undo
  <2>5. CASE Look
    <3>1. work' = FALSE /\ UNCHANGED failed /\ drainer # "down" /\ drainer' # "down"
      BY <2>5 DEF Look
    <3>2. work \in BOOLEAN
      BY DEF IInv, TypeOK
    <3>3. CASE work
      BY <3>1, <3>3 DEF Event!Next, Event!Serve
    <3>4. CASE ~work
      BY <3>1, <3>2, <3>4, <2>1
    <3>5. QED
      BY <3>3, <3>4
  <2>6. CASE PollWake \/ PollOther \/ DrainRead \/ DrainStore
    BY <2>1, <2>6 DEF PollWake, PollOther, DrainRead, DrainStore
  <2>7. CASE Retire \/ Close \/ Open
    BY <2>1, <2>7 DEF Retire, Close, Open
  <2>8. CASE UNCHANGED vars
    BY <2>1, <2>8 DEF vars
  <2>9. QED
    BY <2>3, <2>4, <2>5, <2>6, <2>7, <2>8 DEF Next, DrainStep
<1>3. QED
  BY <1>1, <1>2, Invariant, PTL DEF Spec
=============================================================================
