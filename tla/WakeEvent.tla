------------------------------ MODULE WakeEvent ------------------------------
(****************************************************************************)
(* What a producer relies on when it calls WakePipe::signal: work it has     *)
(* posted is looked at by the I/O thread, however often it signals and       *)
(* however the signals coalesce.  WakePipe implements this specification.    *)
(****************************************************************************)
VARIABLES
    work,      \* TRUE while something was posted that nobody has looked at
    serving    \* TRUE while the promise stands

vars == <<work, serving>>

Init == work = FALSE /\ serving = TRUE

Post == work' = TRUE /\ UNCHANGED serving

Serve == work /\ work' = FALSE /\ UNCHANGED serving

\* The I/O thread is stopped or started, or the pipe fails.
StopOrStart == serving' # serving /\ UNCHANGED work

Next == Post \/ Serve \/ StopOrStart

Spec == Init /\ [][Next]_vars /\ WF_vars(serving /\ Serve)
==============================================================================
