----------------------------- MODULE LauncherProofs -----------------------------
(****************************************************************************)
(* A command line is taken as it is written however long it is, and the      *)
(* order in which launch.sh ends things is right whatever the extra          *)
(* arguments, the depth of the transmit queue and the number of signals.     *)
(*                                                                          *)
(* The argument of the first: the recursive functions of CommandLine are     *)
(* unfolded by induction, in the form of a least counterexample, and what    *)
(* the loop has made of the first i arguments (SoFar) is kept by each.       *)
(* Of the second: cleanups nest, and one that was interrupted in its wait    *)
(* goes on to its last line without waiting.  But it does so only when the   *)
(* cleanup on top of it has returned, and that one, or one on top of it,     *)
(* waited: what counts is the top of the stack (Cleaning), however deep it is.*)
(****************************************************************************)
EXTENDS Launcher, WellFoundedInduction, TLAPS

-----------------------------------------------------------------------------
(* Induction, and the recursive functions of the command line                *)

\* A nonempty set of numbers has a least one.
LEMMA Least ==
    ASSUME NEW T \in SUBSET Nat, T # {}
    PROVE  \E n \in T : \A m \in T : n <= m
<1> DEFINE Below == {pair \in Nat \X Nat : pair[1] < pair[2]}
<1>1. \E n \in T : \A m \in T : <<m, n>> \notin Below
  <2>1. IsWellFoundedOn(Below, Nat)
    BY NatLessThanWellFounded DEF OpToRel
  <2>2. QED
    BY <2>1, WFMin
<1>2. \A n, m \in T : <<m, n>> \notin Below => n <= m
  <2> SUFFICES ASSUME NEW n \in T, NEW m \in T, <<m, n>> \notin Below PROVE n <= m
    OBVIOUS
  <2>1. n \in Nat /\ m \in Nat /\ <<m, n>> \in Nat \X Nat
    OBVIOUS
  <2>2. QED
    BY <2>1
<1>3. QED
  BY <1>1, <1>2

\* Induction, for a property given as the set of numbers that have it.
LEMMA FromZero ==
    ASSUME NEW T, 0 \in T, \A n \in Nat : n \in T => n + 1 \in T
    PROVE  Nat \subseteq T
<1> SUFFICES ASSUME Nat \ T # {} PROVE FALSE
  OBVIOUS
<1>1. PICK n \in Nat \ T : \A m \in Nat \ T : n <= m
  BY Least
<1>2. n - 1 \in T
  BY <1>1
<1>3. QED
  BY <1>1, <1>2

\* The recursive functions of the command line are what their equations say.
LEMMA LoopsUnfold ==
    ASSUME NEW S, NEW args \in Seq(S)
    PROVE  /\ Loops(args)[0] = AtFirst
           /\ \A i \in 1 .. Len(args) : Loops(args)[i] = Take(Loops(args)[i - 1], args[i])
<1> DEFINE F(f, n) == [i \in 0 .. n |->
                         IF i = 0 THEN AtFirst
                         ELSE The({Take(before, args[i]) : before \in {f[i - 1]}})]
           T == {n \in Nat : \E f : f = F(f, n)}
<1>1. ASSUME NEW f, NEW i
      PROVE  The({Take(before, args[i]) : before \in {f[i - 1]}}) = Take(f[i - 1], args[i])
  BY DEF The
<1>2. 0 \in T
  <2> DEFINE g == [i \in 0 .. 0 |-> AtFirst]
  <2>1. g = F(g, 0)
    OBVIOUS
  <2>2. \E f : f = F(f, 0)
    BY <2>1
  <2> HIDE DEF F
  <2>3. QED
    BY <2>2
<1>3. ASSUME NEW n \in Nat, n \in T PROVE n + 1 \in T
  <2>1. PICK f : f = F(f, n)
    BY <1>3
  <2> DEFINE g == [i \in 0 .. n + 1 |-> IF i = n + 1 THEN Take(f[n], args[n + 1]) ELSE f[i]]
  <2>2. \A i \in 0 .. n : f[i] = IF i = 0 THEN AtFirst ELSE Take(f[i - 1], args[i])
    BY <2>1, <1>1
  <2>3. \A i \in 0 .. n + 1 : g[i] = IF i = 0 THEN AtFirst ELSE Take(g[i - 1], args[i])
    <3>1. g[n + 1] = Take(g[n], args[n + 1])
      OBVIOUS
    <3>2. \A i \in 0 .. n : g[i] = f[i]
      OBVIOUS
    <3> HIDE DEF g
    <3>3. QED
      BY <2>2, <3>1, <3>2
  <2>4. g = [i \in 0 .. n + 1 |-> IF i = 0 THEN AtFirst ELSE Take(g[i - 1], args[i])]
    BY <2>3
  <2> HIDE DEF g
  <2>5. g = F(g, n + 1)
    BY <2>4, <1>1
  <2> HIDE DEF F
  <2>6. QED
    BY <2>5
<1>4. \E f : f = F(f, Len(args))
  <2> HIDE DEF T
  <2>1. Len(args) \in T
    BY <1>2, <1>3, FromZero
  <2> HIDE DEF F
  <2>2. QED
    BY <2>1 DEF T
<1>5. Loops(args) = F(Loops(args), Len(args))
  BY <1>4 DEF Loops
<1>6. \A i \in 0 .. Len(args) :
        Loops(args)[i] = IF i = 0 THEN AtFirst ELSE Take(Loops(args)[i - 1], args[i])
  BY <1>5, <1>1
<1>7. QED
  BY <1>6

LEMMA PlacesUnfold ==
    ASSUME NEW S, NEW args \in Seq(S)
    PROVE  /\ OptionPlaces(args) \subseteq 1 .. Len(args)
           /\ Len(args) > 0 => 1 \in OptionPlaces(args)
           /\ \A i \in 1 .. Len(args) - 1 :
                i + 1 \in OptionPlaces(args)
                  <=> i \notin OptionPlaces(args) \/ args[i] \in Flags \cup Help
<1> DEFINE F(f, n) == [i \in 1 .. n |->
                         i = 1 \/ ~f[i - 1] \/ args[i - 1] \in Flags \cup Help]
           T == {n \in Nat : \E f : f = F(f, n)}
<1>2. 0 \in T
  <2>1. [i \in 1 .. 0 |-> FALSE] = F([i \in 1 .. 0 |-> FALSE], 0)
    OBVIOUS
  <2>2. QED
    BY <2>1
<1>3. ASSUME NEW n \in Nat, n \in T PROVE n + 1 \in T
  <2>1. PICK f : f = F(f, n)
    BY <1>3
  <2> DEFINE next == n = 0 \/ ~f[n] \/ args[n] \in Flags \cup Help
             g == [i \in 1 .. n + 1 |-> IF i = n + 1 THEN next ELSE f[i]]
  <2>2. \A i \in 1 .. n : f[i] = (i = 1 \/ ~f[i - 1] \/ args[i - 1] \in Flags \cup Help)
    BY <2>1
  <2>3. \A i \in 1 .. n + 1 : g[i] = (i = 1 \/ ~g[i - 1] \/ args[i - 1] \in Flags \cup Help)
    <3>1. g[n + 1] = (n + 1 = 1 \/ ~g[n] \/ args[n] \in Flags \cup Help)
      OBVIOUS
    <3>2. QED
      BY <2>2, <3>1
  <2>4. g = F(g, n + 1)
    BY <2>3
  <2> HIDE DEF F, g
  <2>5. QED
    BY <2>4
<1>4. \E f : f = F(f, Len(args))
  <2> HIDE DEF T
  <2>1. Len(args) \in T
    BY <1>2, <1>3, FromZero
  <2> HIDE DEF F
  <2>2. QED
    BY <2>1 DEF T
<1> DEFINE isOption == CHOOSE f : f = F(f, Len(args))
<1>5. isOption = F(isOption, Len(args))
  BY <1>4
<1>6. OptionPlaces(args) = {i \in 1 .. Len(args) : isOption[i]}
  BY DEF OptionPlaces
<1> HIDE DEF isOption
<1>7. \A i \in 1 .. Len(args) :
        isOption[i] = (i = 1 \/ ~isOption[i - 1] \/ args[i - 1] \in Flags \cup Help)
  BY <1>5
<1>8. ASSUME NEW i \in 1 .. Len(args) - 1
      PROVE  i + 1 \in OptionPlaces(args)
               <=> i \notin OptionPlaces(args) \/ args[i] \in Flags \cup Help
  <2>1. i \in 1 .. Len(args) /\ i + 1 \in 1 .. Len(args) /\ i + 1 # 1 /\ (i + 1) - 1 = i
    OBVIOUS
  <2>2. isOption[i + 1] = (~isOption[i] \/ args[i] \in Flags \cup Help)
    BY <1>7, <2>1
  <2>3. QED
    BY <1>6, <2>1, <2>2
<1>9. ASSUME Len(args) > 0 PROVE isOption[1]
  <2>1. 1 \in 1 .. Len(args)
    BY <1>9
  <2>2. isOption[1] = TRUE
    BY <1>7, <2>1
  <2>3. QED
    BY <2>2
<1>10. QED
  BY <1>6, <1>8, <1>9

-----------------------------------------------------------------------------
(* What the loop over the arguments has made of the first of them           *)

\* The value of an option is the last one given before the i-th argument.
LastBefore(args, option, i, k) ==
    /\ k \in OptionPlaces(args) /\ k < i /\ args[k] = option
    /\ \A m \in OptionPlaces(args) : m < i /\ args[m] = option => m <= k

\* What the loop has made of the first i arguments, none of which ended it.
Reading(args, i, loop) ==
    /\ i < Len(args) => (i + 1 \in OptionPlaces(args) <=> loop.waiting = {})
    /\ i \in OptionPlaces(args) =>
          IF args[i] \in Flags THEN loop.waiting = {}
          ELSE loop.waiting = {args[i]} /\ args[i] \notin Help
    /\ loop.waiting # {} => i \in OptionPlaces(args)
    /\ \A k \in OptionPlaces(args) : k < i => args[k] \in Flags \cup Valued
    /\ \A option \in Flags :
          \/ loop.options[option] = TRUE /\ \E k \in OptionPlaces(args) : k <= i /\ args[k] = option
          \/ loop.options[option] = FALSE /\ ~\E k \in OptionPlaces(args) : k <= i /\ args[k] = option
    /\ \A option \in Valued :
          \/ /\ \A k \in OptionPlaces(args) : k < i => args[k] # option
             /\ loop.options[option] = Options[option]
          \/ \E k \in OptionPlaces(args) :
               /\ LastBefore(args, option, i, k)
               /\ Accepts(option, args[k + 1])
               /\ loop.options[option] = Stored(option, args[k + 1])

\* Or which of them ended it.
SoFar(args, i, loop) ==
    /\ DOMAIN loop.options = Flags \cup Valued
    /\ loop.outcome \in {"reading", "help", "usage"}
    /\ loop.outcome = "help" => \E k \in OptionPlaces(args) : args[k] \in Help
    /\ loop.outcome = "usage" =>
          \E k \in OptionPlaces(args) :
             k < Len(args) /\ args[k] \notin Flags \cup Help /\ ~Accepts(args[k], args[k + 1])
    /\ loop.outcome = "reading" => Reading(args, i, loop)

\* Before the first argument.
LEMMA AtFirstSoFar == ASSUME NEW S, NEW args \in Seq(S) PROVE SoFar(args, 0, AtFirst)
<1>1. /\ AtFirst = [options |-> Options, waiting |-> {}, outcome |-> "reading"]
      /\ DOMAIN Options = Flags \cup Valued
  BY DEF AtFirst, State, Options
<1>0. \A option \in Flags : Options[option] = FALSE
  <2>1. "--no-can" \in Flags /\ "--no-reconnect" \in Flags
    BY DEF Flags
  <2>2. LidarConfig["--no-reconnect"] = FALSE
    BY DEF LidarConfig
  <2>3. "--no-reconnect" \in DOMAIN LidarConfig
    BY DEF LidarConfig
  <2>4. /\ "--no-can" \notin DOMAIN LidarConfig /\ "--no-can" \notin DOMAIN CanBusConfig
        /\ "--no-can" \notin DOMAIN TcpServerConfig /\ "--no-can" \notin DOMAIN PerceptionConfig
    BY DEF LidarConfig, CanBusConfig, TcpServerConfig, PerceptionConfig, Floats
  <2>5. Options["--no-reconnect"] = FALSE
    <3>1. /\ "--no-reconnect" \notin DOMAIN CanBusConfig
          /\ "--no-reconnect" \notin DOMAIN TcpServerConfig
          /\ "--no-reconnect" \notin DOMAIN PerceptionConfig
      BY DEF CanBusConfig, TcpServerConfig, PerceptionConfig, Floats
    <3> HIDE DEF Flags
    <3>2. QED
      BY <2>1, <2>2, <2>3, <3>1 DEF Options
  <2>6. Options["--no-can"] = FALSE
    BY <2>1, <2>4 DEF Options
  <2>7. QED
    BY <2>5, <2>6 DEF Flags
<1>2. \A k \in OptionPlaces(args) : k \in Nat /\ k > 0
  BY PlacesUnfold
<1>3. 0 < Len(args) => 1 \in OptionPlaces(args)
  BY PlacesUnfold
<1> HIDE DEF AtFirst
<1>4. Reading(args, 0, AtFirst)
  BY <1>0, <1>1, <1>2, <1>3 DEF Reading
<1>5. QED
  BY <1>1, <1>4 DEF SoFar

\* A token in the place of an option.
LEMMA OptionSoFar ==
    ASSUME NEW S, NEW args \in Seq(S), NEW i \in 0 .. Len(args) - 1, NEW loop,
           SoFar(args, i, loop), loop.outcome = "reading", loop.waiting = {}
    PROVE  SoFar(args, i + 1, TakeOption(loop, args[i + 1]))
<1> DEFINE P == OptionPlaces(args)
           arg == args[i + 1]
           next == TakeOption(loop, arg)
<1>1. /\ P \subseteq 1 .. Len(args) /\ i + 1 \in P
      /\ i + 1 < Len(args) => (i + 2 \in P <=> arg \in Flags \cup Help)
  BY PlacesUnfold DEF SoFar, Reading
<1>2. \A k \in P : k <= i => args[k] \in Flags \cup Valued
  BY <1>1 DEF SoFar, Reading
<1>3. \A k \in P : (k < i + 1 <=> k < i \/ k = i) /\ (k <= i + 1 <=> k <= i \/ k = i + 1)
  BY <1>1
<1>4. i \in P => args[i] \in Flags
  BY DEF SoFar, Reading
<1>5. CASE arg \in Help
  <2>1. next = State(loop.options, {}, "help")
    BY <1>5 DEF TakeOption, Help, Flags
  <2>2. QED
    BY <1>1, <1>5, <2>1 DEF SoFar, State
<1>6. CASE arg \in Flags
  <2>1. next = State([loop.options EXCEPT ![arg] = TRUE], {}, "reading")
    BY <1>6 DEF TakeOption, Flags, Help
  <2>2. /\ next = [options |-> [loop.options EXCEPT ![arg] = TRUE], waiting |-> {},
                   outcome |-> "reading"]
        /\ DOMAIN loop.options = Flags \cup Valued
    BY <2>1 DEF SoFar, State
  <2>3. Reading(args, i + 1, next)
    <3>1. \A option \in Flags :
            \/ next.options[option] = TRUE /\ \E k \in P : k <= i + 1 /\ args[k] = option
            \/ next.options[option] = FALSE /\ ~\E k \in P : k <= i + 1 /\ args[k] = option
      BY <1>1, <1>3, <1>6, <2>2 DEF SoFar, Reading
    <3>2. ASSUME NEW option \in Valued
          PROVE  \/ /\ \A k \in P : k < i + 1 => args[k] # option
                    /\ next.options[option] = Options[option]
                 \/ \E k \in P : /\ LastBefore(args, option, i + 1, k)
                                 /\ Accepts(option, args[k + 1])
                                 /\ next.options[option] = Stored(option, args[k + 1])
      <4>0. option \notin Flags
        BY DEF Flags, Valued, Texts, Unsigned, Floats
      <4>1. option # arg /\ option \in Flags \cup Valued
        BY <1>6, <4>0
      <4>4. next.options = [loop.options EXCEPT ![arg] = TRUE]
        BY <2>2
      <4>5. next.options[option] = loop.options[option]
        BY <2>2, <4>1, <4>4
      <4>2. \A k \in P : args[k] = option => (k < i + 1 <=> k < i)
        BY <1>3, <1>4, <4>0
      <4>3. QED
        BY <4>5, <4>2 DEF SoFar, Reading, LastBefore
    <3>3. i + 1 < Len(args) => i + 2 \in P
      BY <1>1, <1>6
    <3>4. \A k \in P : k < i + 1 => args[k] \in Flags \cup Valued
      BY <1>1, <1>2, <1>3
    <3>5. next.waiting = {} /\ (i + 1) + 1 = i + 2
      BY <2>2
    <3>6. QED
      BY <1>1, <1>6, <3>1, <3>2, <3>3, <3>4, <3>5 DEF Reading
  <2>4. QED
    BY <2>2, <2>3 DEF SoFar
<1>7. CASE arg \notin Help /\ arg \notin Flags
  <2>1. next = State(loop.options, {arg}, "reading")
    BY <1>7 DEF TakeOption
  <2>2. /\ next = [options |-> loop.options, waiting |-> {arg}, outcome |-> "reading"]
        /\ DOMAIN loop.options = Flags \cup Valued
    BY <2>1 DEF SoFar, State
  <2>3. Reading(args, i + 1, next)
    <3>1. \A option \in Flags :
            \/ next.options[option] = TRUE /\ \E k \in P : k <= i + 1 /\ args[k] = option
            \/ next.options[option] = FALSE /\ ~\E k \in P : k <= i + 1 /\ args[k] = option
      BY <1>1, <1>3, <1>7, <2>2 DEF SoFar, Reading
    <3>2. ASSUME NEW option \in Valued
          PROVE  \/ /\ \A k \in P : k < i + 1 => args[k] # option
                    /\ next.options[option] = Options[option]
                 \/ \E k \in P : /\ LastBefore(args, option, i + 1, k)
                                 /\ Accepts(option, args[k + 1])
                                 /\ next.options[option] = Stored(option, args[k + 1])
      <4>1. option \notin Flags /\ next.options[option] = loop.options[option]
        BY <2>2 DEF Flags, Valued, Texts, Unsigned, Floats
      <4>2. \A k \in P : args[k] = option => (k < i + 1 <=> k < i)
        BY <1>3, <1>4, <4>1
      <4>3. QED
        BY <4>1, <4>2 DEF SoFar, Reading, LastBefore
    <3>3. QED
      BY <1>1, <1>2, <1>3, <1>7, <2>2, <3>1, <3>2 DEF Reading
  <2>4. QED
    BY <2>2, <2>3 DEF SoFar
<1>8. QED
  BY <1>5, <1>6, <1>7

\* The value of the option before it.
LEMMA ValueSoFar ==
    ASSUME NEW S, NEW args \in Seq(S), NEW i \in 0 .. Len(args) - 1, NEW loop,
           SoFar(args, i, loop), loop.outcome = "reading", loop.waiting # {}
    PROVE  SoFar(args, i + 1, TakeValue(loop, The(loop.waiting), args[i + 1]))
<1> DEFINE P == OptionPlaces(args)
           given == args[i]
           arg == args[i + 1]
           next == TakeValue(loop, given, arg)
<1>1. /\ P \subseteq 1 .. Len(args) /\ i \in P /\ i + 1 \notin P
      /\ i + 1 < Len(args) => i + 2 \in P
  BY PlacesUnfold DEF SoFar, Reading
<1>2. /\ loop.waiting = {given} /\ given \notin Flags \cup Help
      /\ DOMAIN loop.options = Flags \cup Valued
  BY <1>1 DEF SoFar, Reading
<1>3. The(loop.waiting) = given
  BY <1>2 DEF The
<1> SUFFICES SoFar(args, i + 1, next)
  BY <1>3
<1>4. \A k \in P : (k < i + 1 <=> k < i \/ k = i) /\ (k <= i + 1 <=> k < i \/ k = i)
                  /\ (k <= i <=> k < i \/ k = i) /\ (k < i => k # i)
  BY <1>1
<1>5. CASE Accepts(given, arg)
  <2>1. given \in Valued
    BY <1>5 DEF Accepts, Valued
  <2>2. next = [options |-> [loop.options EXCEPT ![given] = Stored(given, arg)],
                waiting |-> {}, outcome |-> "reading"]
    BY <1>5 DEF TakeValue, State
  <2>3. Reading(args, i + 1, next)
    <3>1. \A option \in Flags :
            \/ next.options[option] = TRUE /\ \E k \in P : k <= i + 1 /\ args[k] = option
            \/ next.options[option] = FALSE /\ ~\E k \in P : k <= i + 1 /\ args[k] = option
      BY <1>2, <1>4, <2>2 DEF SoFar, Reading
    <3>2. ASSUME NEW option \in Valued
          PROVE  \/ /\ \A k \in P : k < i + 1 => args[k] # option
                    /\ next.options[option] = Options[option]
                 \/ \E k \in P : /\ LastBefore(args, option, i + 1, k)
                                 /\ Accepts(option, args[k + 1])
                                 /\ next.options[option] = Stored(option, args[k + 1])
      <4>1. CASE option = given
        <5>1. LastBefore(args, option, i + 1, i)
          BY <1>1, <1>4, <4>1 DEF LastBefore
        <5>2. next.options[option] = Stored(option, arg)
          BY <1>2, <2>2, <4>1
        <5>3. QED
          BY <1>1, <1>5, <4>1, <5>1, <5>2
      <4>2. CASE option # given
        <5>1. next.options[option] = loop.options[option]
          BY <1>2, <2>2, <4>2
        <5>2. \A k \in P : args[k] = option => (k < i + 1 <=> k < i)
          BY <1>4, <4>2
        <5>3. QED
          BY <5>1, <5>2 DEF SoFar, Reading, LastBefore
      <4>3. QED
        BY <4>1, <4>2
    <3>3. \A k \in P : k < i + 1 => args[k] \in Flags \cup Valued
      BY <1>4, <2>1 DEF SoFar, Reading
    <3>4. QED
      BY <1>1, <2>2, <3>1, <3>2, <3>3 DEF Reading
  <2>4. QED
    BY <1>2, <2>2, <2>3 DEF SoFar
<1>6. CASE ~Accepts(given, arg)
  <2>1. next = State(loop.options, loop.waiting, "usage")
    BY <1>6 DEF TakeValue
  <2>2. i < Len(args)
    OBVIOUS
  <2>3. QED
    BY <1>1, <1>2, <1>6, <2>1, <2>2 DEF SoFar, State
<1>7. QED
  BY <1>5, <1>6

\* After each argument.
LEMMA LoopsSoFar ==
    ASSUME NEW S, NEW args \in Seq(S) PROVE SoFar(args, Len(args), Loops(args)[Len(args)])
<1> DEFINE T == {i \in Nat : i <= Len(args) => SoFar(args, i, Loops(args)[i])}
<1>1. 0 \in T
  BY LoopsUnfold, AtFirstSoFar
<1>2. ASSUME NEW i \in Nat, i \in T PROVE i + 1 \in T
  <2> SUFFICES ASSUME i + 1 <= Len(args) PROVE SoFar(args, i + 1, Loops(args)[i + 1])
    OBVIOUS
  <2>1. i \in 0 .. Len(args) - 1 /\ SoFar(args, i, Loops(args)[i])
    BY <1>2
  <2>2. Loops(args)[i + 1] = Take(Loops(args)[i], args[i + 1])
    BY LoopsUnfold
  <2>3. CASE Loops(args)[i].outcome # "reading"
    BY <2>1, <2>2, <2>3 DEF Take, SoFar
  <2>4. CASE Loops(args)[i].outcome = "reading"
    BY <2>1, <2>2, <2>4, OptionSoFar, ValueSoFar DEF Take
  <2>5. QED
    BY <2>3, <2>4
<1> HIDE DEF T
<1>3. Len(args) \in T
  BY <1>1, <1>2, FromZero
<1>4. QED
  BY <1>3 DEF T

\* A number within the range of its field arrives as written.
LEMMA StoredAsWritten ==
    ASSUME NEW option \in Unsigned, NEW value, IsUnsigned(value),
           Integers10[value] \in 0 .. Largest(option)
    PROVE  Stored(option, value) = Integers10[value]
<1>1. ASSUME NEW v \in Nat, NEW m \in Nat, v < m PROVE v % m = v
  BY <1>1
<1>2. Largest(option) \in Nat /\ Largest(option) <= ULONG_MAX /\ ULONG_MAX \in Nat
  BY WidthsAssumption DEF Largest
<1>3. strtoul(value) = Integers10[value]
  BY <1>1, <1>2 DEF strtoul
<1>4. Integers10[value] % (Largest(option) + 1) = Integers10[value]
  BY <1>1, <1>2
<1>5. option \notin Texts /\ option \notin Floats
  BY DEF Unsigned, Texts, Floats
<1>6. QED
  BY <1>3, <1>4, <1>5 DEF Stored

\* The place of the last one is the largest.
LEMMA LastIsLargest ==
    ASSUME NEW S \in SUBSET Nat, NEW k \in S, \A m \in S : m <= k
    PROVE  Max(S) = k
<1>1. \A x \in S : (\A y \in S : x >= y) => x = k
  OBVIOUS
<1>2. \A y \in S : k >= y
  OBVIOUS
<1>3. QED
  BY <1>1, <1>2 DEF Max

\* The options say of a valued one what the last of its places says.
SaidLast(options, args, option, At) ==
    IF At = {} THEN options[option] = Options[option]
    ELSE LET written == args[Max(At) + 1]
         IN  \/ option \in Texts /\ options[option] = written
             \/ option \in Floats /\ options[option] = Decimals[written]
             \/ option \in Unsigned /\
                  (Integers10[written] \in 0 .. Largest(option)
                     => options[option] = Integers10[written])

\* What an accepted command line says of a valued option.
LEMMA LastCounts ==
    ASSUME NEW S, NEW args \in Seq(S), NEW loop, Reading(args, Len(args), loop), loop.waiting = {},
           NEW option \in Valued,
           NEW At, At = {i \in OptionPlaces(args) : args[i] = option}
    PROVE  SaidLast(loop.options, args, option, At)
<1> DEFINE n == Len(args)
<1>1. OptionPlaces(args) \subseteq 1 .. n
  BY PlacesUnfold
<1>2. n \in OptionPlaces(args) => args[n] \in Flags
  BY DEF Reading
<1>3. option \notin Flags
  BY DEF Flags, Valued, Texts, Unsigned, Floats
<1>4. \A k \in At : k \in OptionPlaces(args) /\ k \in Nat /\ k < n
  BY <1>1, <1>2, <1>3
<1>5. CASE At = {}
  BY <1>4, <1>5 DEF SaidLast, Reading, LastBefore
<1>6. CASE At # {}
  <2>1. PICK k \in OptionPlaces(args) :
           /\ LastBefore(args, option, n, k)
           /\ Accepts(option, args[k + 1])
           /\ loop.options[option] = Stored(option, args[k + 1])
    BY <1>4, <1>6 DEF Reading
  <2>2. k \in At /\ \A m \in At : m <= k
    BY <1>4, <2>1 DEF LastBefore
  <2>3. Max(At) = k
    BY <1>4, <2>2, LastIsLargest
  <2>4. CASE option \in Texts
    <3>1. Stored(option, args[k + 1]) = args[k + 1]
      BY <2>4 DEF Stored, Texts, Unsigned, Floats
    <3>2. QED
      BY <1>6, <2>1, <2>3, <2>4, <3>1 DEF SaidLast
  <2>5. CASE option \in Floats
    <3>1. Stored(option, args[k + 1]) = Decimals[args[k + 1]]
      BY <2>5 DEF Stored, Texts, Unsigned, Floats
    <3>2. QED
      BY <1>6, <2>1, <2>3, <2>5, <3>1 DEF SaidLast
  <2>6. CASE option \in Unsigned
    <3>1. IsUnsigned(args[k + 1])
      BY <2>1, <2>6 DEF Accepts, Texts, Unsigned, Floats
    <3>2. QED
      BY <1>6, <2>1, <2>3, <2>6, <3>1, StoredAsWritten DEF SaidLast
  <2>7. QED
    BY <2>4, <2>5, <2>6 DEF Valued
<1>7. QED
  BY <1>5, <1>6

\* However long the command line is, and whatever it says, parse() takes it as a
\* reader of the usage text does (CommandLine.cpp:143-168).
THEOREM ParseIsExact == ASSUME NEW S, NEW args \in Seq(S) PROVE MeansWhatItSays(args)
<1> DEFINE P == OptionPlaces(args)
           n == Len(args)
           end == Loops(args)[n]
           got == parse(args)
<1>1. SoFar(args, n, end)
  BY LoopsSoFar
<1>2. /\ got.options = end.options
      /\ end.outcome # "reading" => got.outcome = end.outcome
      /\ end.outcome = "reading" /\ end.waiting # {} => got.outcome = "usage"
      /\ end.outcome = "reading" /\ end.waiting = {} => got.outcome = "run"
  BY DEF parse
<1>3. P \subseteq 1 .. n /\ n \in Nat
  BY PlacesUnfold
<1> HIDE DEF P, end, got
<1>4. CASE end.outcome = "reading" /\ end.waiting = {}
  <2>1. got.outcome = "run" /\ Reading(args, n, end)
    BY <1>1, <1>2, <1>4 DEF SoFar
  <2>2. \A option \in Flags :
          got.options[option] <=> {i \in P : args[i] = option} # {}
    <3>1. \A i \in P : i <= n
      BY <1>3
    <3>2. QED
      BY <1>2, <2>1, <3>1 DEF Reading, P
  <2>3. \A option \in Valued : SaidLast(got.options, args, option, {i \in P : args[i] = option})
    BY <1>2, <1>4, <2>1, LastCounts DEF P
  <2>4. \A i \in P : args[i] \in Flags \cup Valued
    <3>1. \A i \in P : i < n \/ i = n
      BY <1>3
    <3>2. QED
      BY <1>4, <2>1, <3>1 DEF Reading, P
  <2>5. QED
    BY <2>1, <2>2, <2>3, <2>4 DEF MeansWhatItSays, SaidLast, P, got
<1>5. CASE end.outcome = "reading" /\ end.waiting # {}
  <2>1. got.outcome = "usage" /\ Reading(args, n, end)
    BY <1>1, <1>2, <1>5 DEF SoFar
  <2>2. n \in P /\ args[n] \notin Flags \cup Help
    BY <1>5, <2>1 DEF Reading, P
  <2>3. QED
    BY <2>1, <2>2 DEF MeansWhatItSays, P, got
<1>6. CASE end.outcome # "reading"
  <2>1. got.outcome = end.outcome
    BY <1>2, <1>6
  <2>2. CASE end.outcome = "help"
    BY <1>1, <2>1, <2>2 DEF MeansWhatItSays, P, got, SoFar
  <2>3. CASE end.outcome = "usage"
    <3>1. PICK k \in P :
             k < n /\ args[k] \notin Flags \cup Help /\ ~Accepts(args[k], args[k + 1])
      BY <1>1, <2>3 DEF SoFar, P
    <3>2. QED
      BY <2>1, <2>3, <3>1 DEF MeansWhatItSays, P, got
  <2>4. QED
    BY <1>1, <1>6, <2>2, <2>3 DEF SoFar
<1>7. QED
  BY <1>4, <1>5, <1>6

\* What the launcher passes is a sequence of arguments.
LEMMA ArgsAreASequence ==
    ASSUME NEW extra \in ExtraArgs PROVE \E S : AEB_ARGS(extra) \in Seq(S)
<1> DEFINE Own == {"--device", "/dev/ttyUSB0", "--health-interval", "5", "--no-can",
                   "--can-interface", "can0"}
<1>1. /\ <<"--device", "/dev/ttyUSB0", "--health-interval", "5">> \in Seq(STRING \cup Own)
      /\ <<"--no-can">> \in Seq(STRING \cup Own)
      /\ <<"--can-interface", "can0">> \in Seq(STRING \cup Own)
  OBVIOUS
<1>2. extra \in Seq(STRING \cup Own)
  BY LauncherAssumption
<1> HIDE DEF Own
<1>3. AEB_ARGS(extra) \in Seq(STRING \cup Own)
  BY <1>1, <1>2 DEF AEB_ARGS
<1>4. QED
  BY <1>3

\* Whatever the extra arguments are, the node runs with what they say or does not
\* run (CommandLine.cpp:143-168, launch.sh:149-157).
THEOREM ParsedRight == Spec => []ParsedAsWritten
<1>1. ParsedAsWritten
  BY ParseIsExact, ArgsAreASequence DEF ParsedAsWritten
<1>2. QED
  BY <1>1, PTL

-----------------------------------------------------------------------------
(* The order of the end                                                      *)

Places == {"kill", "wait", "down"}
\* The children are started one after the other, behind the last use of ip.
Staged ==
    /\ lpc \in {"down", "up", "build", "stale", "node"} => node = "none"
    /\ lpc \in {"down", "up", "build", "stale", "node", "tof"} => tof = "none"
    /\ lpc \in {"down", "up"} => ~raised

\* cleanup() runs behind the trap only, and reaches its last line with both
\* children reaped.
Cleaning ==
    /\ cleanups \in Seq(Places)
    /\ cleanups # <<>> => lpc \in {"wait", "last"}
    /\ In("down") => ChildrenEnded

\* Between bringing the interface up and the first cleanup nothing but the
\* launcher of an earlier start takes it down.
Interface ==
    raised /\ lpc \in {"build", "stale", "node", "tof", "trap"} /\ rival # "over" => iface

IInv == Staged /\ Cleaning /\ Interface /\ StoppedInOrder

-----------------------------------------------------------------------------
(* The stack of cleanups                                                     *)

\* What is called last is on top, and lies on what it interrupted.
LEMMA Tops ==
    ASSUME NEW c \in Seq(Places), NEW p \in Places
    PROVE  /\ Append(c, p) \in Seq(Places) /\ Append(c, p) # <<>> /\ Last(Append(c, p)) = p
           /\ c # <<>> =>
                /\ Front(c) \in Seq(Places)
                /\ Append(Front(c), p) \in Seq(Places)
                /\ Last(Append(Front(c), p)) = p
                /\ Front(c) \o <<"down", "kill">> \in Seq(Places)
                /\ Front(c) \o <<"down", "kill">> # <<>>
                /\ Last(Front(c) \o <<"down", "kill">>) = "kill"
<1>1. /\ Append(c, p) \in Seq(Places) /\ Append(c, p) # <<>>
      /\ Last(Append(c, p)) = p
  BY DEF Last
<1>2. ASSUME c # <<>> PROVE Front(c) \in Seq(Places)
  BY <1>2 DEF Front
<1>3. ASSUME NEW f \in Seq(Places)
      PROVE  /\ Append(f, p) \in Seq(Places) /\ Last(Append(f, p)) = p
             /\ f \o <<"down", "kill">> \in Seq(Places)
             /\ f \o <<"down", "kill">> # <<>>
             /\ Last(f \o <<"down", "kill">>) = "kill"
  <2>1. <<"down", "kill">> \in Seq(Places)
    BY DEF Places
  <2>2. QED
    BY <2>1 DEF Last
<1>4. QED
  BY <1>1, <1>2, <1>3

-----------------------------------------------------------------------------
(* The steps                                                                 *)

\* Nothing of an earlier start counts at the beginning.
LEMMA InitIInv == Init => IInv
BY DEF Init, BusInit, TofInit, IInv, Staged, Cleaning, Interface, StoppedInOrder, In, ChildrenEnded,
       NodeAlive, TofAlive, Places

\* A child that has ended, or was not started, does not start by itself.
LEMMA ChildrenStay ==
    ASSUME NodeProgress \/ NodeStep(StartFails \/ EndsByItself \/ NodeSends)
             \/ Tof(TofStep \/ SceneChanges)
    PROVE  /\ NodeAlive' => NodeAlive
           /\ TofAlive' => TofAlive
           /\ node = "none" => node' = "none"
           /\ tof = "none" => tof' = "none"
           /\ UNCHANGED <<launcher, earlier, iface>>
<1>1. CASE NodeProgress \/ NodeStep(StartFails \/ EndsByItself \/ NodeSends)
  BY <1>1 DEF NodeProgress, NodeStep, Mask, Starts, TakesSignal, Stopped, StartFails, EndsByItself,
     NodeSends, Accepted, Refused, bus, launcher, earlier, tofNode, lidarNode, NodeAlive, TofAlive
<1>2. CASE Tof(TofStep \/ SceneChanges)
  BY <1>2 DEF Tof, TofStep, SceneChanges, OpenBus, StartRanging, SensorFails, Judge, TofSends,
     TofSendFails, TofEnded, Accepted, Refused, bus, launcher, earlier, tofNode, lidarNode,
     NodeAlive, TofAlive
<1>3. QED
  BY <1>1, <1>2

\* Every step keeps the order.
LEMMA StepIInv == IInv /\ [Next]_vars => IInv'
<1> SUFFICES ASSUME IInv, [Next]_vars PROVE IInv'
  OBVIOUS
<1> USE DEF IInv, Staged, Cleaning, Interface, StoppedInOrder, In, ChildrenEnded,
            launcher, lidarNode, earlier, tofNode, bus
<1>1. CASE TakeDown \/ BringUp \/ Build \/ KillStale \/ Trap \/ Die
  BY <1>1 DEF TakeDown, BringUp, Build, KillStale, Trap, Die, Goto, InterfaceDown, InterfaceUp,
     NodeAlive, TofAlive
<1>2. CASE SpawnNode
  BY <1>2 DEF SpawnNode, Main, Goto, NodeAlive, TofAlive
<1>3. CASE SpawnTof
  BY <1>3 DEF SpawnTof, Goto, NodeAlive, TofAlive
<1>4. CASE WaitReturns
  <2>1. /\ cleanups' = <<"kill">> /\ lpc = "wait" /\ lpc' = "last"
        /\ UNCHANGED <<raised, skipCan, lidarNode, earlier, tofNode, bus>>
    BY <1>4 DEF WaitReturns
  <2>2. cleanups' \in Seq(Places) /\ ~In("down")'
    BY <2>1 DEF Places, Last
  <2>3. QED
    BY <2>1, <2>2 DEF NodeAlive, TofAlive
<1>5. CASE Kill
  <2>1. cleanups' \in Seq(Places) /\ ~In("down")' /\ lpc \in {"wait", "last"}
    BY <1>5, Tops DEF Kill, Continue, Places
  <2>2. /\ NodeAlive' => NodeAlive
        /\ TofAlive' => TofAlive
        /\ UNCHANGED <<lpc, raised, skipCan, rival, iface>>
    BY <1>5 DEF Kill, NodeTerminated, TofTerminated, TofEnded, NodeAlive, TofAlive
  <2>3. QED
    BY <2>1, <2>2
<1>6. CASE Reap
  <2>1. cleanups' \in Seq(Places) /\ lpc \in {"wait", "last"}
    BY <1>6, Tops DEF Reap, Continue, Places
  <2>2. ChildrenEnded /\ ChildrenEnded' /\ UNCHANGED <<lpc, raised, skipCan, rival, iface>>
    BY <1>6 DEF Reap, NodeAlive, TofAlive
  <2>3. QED
    BY <2>1, <2>2
<1>7. CASE BringDown
  <2>1. ChildrenEnded /\ ChildrenEnded' /\ UNCHANGED <<raised, skipCan, rival>> /\ (skipCan \/ ~iface')
    BY <1>7 DEF BringDown, InterfaceDown, NodeAlive, TofAlive
  <2>2. lpc \in {"wait", "last"} /\ lpc' \in {lpc, "last", "done"}
    BY <1>7 DEF BringDown, Return
  <2>3. cleanups' \in Seq(Places) /\ (cleanups' # <<>> => lpc' \in {"wait", "last"})
    <3>1. /\ cleanups # <<>> /\ Front(cleanups) \in Seq(Places)
          /\ <<"kill">> \in Seq(Places) /\ <<>> \in Seq(Places)
      BY <1>7, Tops DEF BringDown, Places
    <3>2. /\ cleanups' \in {Front(cleanups), <<"kill">>, <<>>}
          /\ cleanups' = <<>> \/ lpc' \in {"wait", "last"}
      BY <1>7, <2>2 DEF BringDown, Return
    <3>3. QED
      BY <3>1, <3>2
  <2>4. QED
    BY <2>1, <2>2, <2>3
<1>8. CASE \E s \in {"INT", "TERM"} : Signal(s)
  <2>1. UNCHANGED <<raised, skipCan, rival, iface, node, tof>>
    BY <1>8 DEF Signal
  <2>2. CASE lpc \in {"wait", "last"}
    <3>1. cleanups' = Interrupted /\ lpc' = lpc
      BY <1>8, <2>2 DEF Signal
    <3>2. cleanups' \in Seq(Places) /\ ~In("down")'
      BY <3>1, Tops DEF Interrupted, Places
    <3>3. QED
      BY <2>1, <2>2, <3>1, <3>2 DEF NodeAlive, TofAlive
  <2>3. CASE lpc \notin {"wait", "last"}
    BY <1>8, <2>1, <2>3 DEF Signal, NodeAlive, TofAlive
  <2>4. QED
    BY <2>2, <2>3
<1>9. CASE NodeProgress \/ NodeStep(StartFails \/ EndsByItself \/ NodeSends)
             \/ Tof(TofStep \/ SceneChanges)
  BY <1>9, ChildrenStay
<1>10. CASE StaleEnds \/ RivalCleansUp \/ Transmit
  BY <1>10 DEF StaleEnds, RivalCleansUp, Transmit, Transmitted, InterfaceDown, NodeAlive, TofAlive
<1>11. CASE Finished \/ UNCHANGED vars
  BY <1>11 DEF Finished, vars, NodeAlive, TofAlive
<1>12. QED
  BY <1>1, <1>2, <1>3, <1>4, <1>5, <1>6, <1>7, <1>8, <1>9, <1>10, <1>11 DEF Next, LauncherStep

\* The launcher is done when both children have ended and the interface it
\* brought up is down, and it never takes that down under a running child, for
\* any number of signals and any nesting of cleanup() (launch.sh:175-191).
THEOREM InOrder == Spec => []StoppedInOrder
<1>1. IInv => StoppedInOrder
  BY DEF IInv
<1>2. QED
  BY InitIInv, StepIInv, <1>1, PTL DEF Spec

-----------------------------------------------------------------------------
(* Types                                                                     *)

\* No more cleanups are in progress than signals arrived, and the last one.
TypeIInv == TypeOK /\ Len(cleanups) <= signals + 1

\* How cleanup()'s steps change the height of the stack.
LEMMA Heights ==
    ASSUME NEW c \in Seq(Places), NEW p \in Places
    PROVE  /\ Len(Append(c, p)) = Len(c) + 1
           /\ c # <<>> =>
                /\ Len(Front(c)) = Len(c) - 1
                /\ Len(Append(Front(c), p)) = Len(c)
                /\ Len(Front(c) \o <<"down", "kill">>) = Len(c) + 1
<1>1. ASSUME c # <<>> PROVE Front(c) \in Seq(Places) /\ Len(Front(c)) = Len(c) - 1
  <2>1. Len(c) \in Nat /\ Len(c) # 0
    BY <1>1
  <2> DEFINE n == Len(c) - 1
  <2>2. n \in 0 .. Len(c)
    BY <2>1
  <2> HIDE DEF n
  <2>3. SubSeq(c, 1, n) \in Seq(Places) /\ Len(SubSeq(c, 1, n)) = n
    BY <2>2
  <2>4. Front(c) = SubSeq(c, 1, n)
    BY DEF Front, n
  <2>5. QED
    BY <2>3, <2>4 DEF n
<1>2. /\ Len(Append(c, p)) = Len(c) + 1
      /\ c # <<>> => Len(Append(Front(c), p)) = Len(c)
  BY <1>1
<1>3. ASSUME c # <<>> PROVE Len(Front(c) \o <<"down", "kill">>) = Len(c) + 1
  <2>1. <<"down", "kill">> \in Seq(Places) /\ Len(<<"down", "kill">>) = 2
    BY DEF Places
  <2>2. QED
    BY <1>1, <1>3, <2>1
<1>4. QED
  BY <1>1, <1>2, <1>3

\* The node's flag is one, whatever the command line.
LEMMA FlagIsBoolean ==
    ASSUME NEW S, NEW args \in Seq(S), parse(args).outcome = "run"
    PROVE  parse(args).options["--no-can"] \in BOOLEAN
<1> DEFINE end == Loops(args)[Len(args)]
<1>1. SoFar(args, Len(args), end)
  BY LoopsSoFar
<1>2. end.outcome = "reading" /\ parse(args).options = end.options
  BY <1>1 DEF parse, SoFar
<1>3. "--no-can" \in Flags
  BY DEF Flags
<1> HIDE DEF end
<1>4. end.options["--no-can"] = TRUE \/ end.options["--no-can"] = FALSE
  BY <1>1, <1>2, <1>3 DEF SoFar, Reading
<1>5. QED
  BY <1>2, <1>4

\* Taking the interface down or bringing it up.
LEMMA InterfaceTyped ==
    ASSUME BusTypeOK, InterfaceDown \/ InterfaceUp PROVE BusTypeOK'
<1>1. CASE InterfaceUp
  BY <1>1 DEF InterfaceUp, BusTypeOK
<1>2. CASE InterfaceDown
  <2>1. tx' = <<>>
    BY <1>2 DEF InterfaceDown
  <2>2. tx' \in Seq(Commands) /\ Len(tx') = 0
    BY <2>1
  <2>3. hat' = hat /\ iface' = FALSE /\ ecu' = ecu
    BY <1>2 DEF InterfaceDown
  <2>4. Len(tx') <= TxRoom
    BY <2>2, TxRoomAssumption
  <2>5. ecu' \in Commands \cup {"none"}
    BY <2>3 DEF BusTypeOK
  <2>6. QED
    BY <2>2, <2>3, <2>4, <2>5 DEF BusTypeOK
<1>3. QED
  BY <1>1, <1>2

\* The two processes and the bus, as their own actions leave them.
LEMMA NodesTyped ==
    ASSUME TypeOK,
           NodeProgress \/ NodeStep(StartFails \/ EndsByItself \/ NodeSends)
             \/ Tof(TofStep \/ SceneChanges) \/ Transmit
    PROVE  TypeOK' /\ UNCHANGED <<cleanups, signals>>
<1> USE TxRoomAssumption DEF TypeOK, BusTypeOK, TofTypeOK, launcher, lidarNode, earlier, tofNode, bus
<1>1. CASE NodeProgress \/ NodeStep(StartFails \/ EndsByItself)
  BY <1>1 DEF NodeProgress, NodeStep, Mask, Starts, TakesSignal, Stopped, StartFails, EndsByItself,
     NodePC
<1>2. ASSUME NEW command \in Commands, Accepted(command) \/ Refused
      PROVE  BusTypeOK'
  BY <1>2 DEF Accepted, Refused
<1>3. CASE NodeStep(NodeSends)
  <2>1. BusTypeOK'
    BY <1>2, <1>3 DEF NodeStep, NodeSends
  <2>2. QED
    BY <1>3, <2>1 DEF NodeStep, NodeSends, NodePC
<1>4. CASE Tof(OpenBus \/ StartRanging \/ SensorFails)
  BY <1>4 DEF Tof, OpenBus, StartRanging, SensorFails, TofEnded, TofPC, TofEnds
<1>8. CASE Tof(Judge)
  <2>1. payload' \in Commands /\ tof' \in TofPC
    BY <1>8 DEF Tof, Judge, Commands, TofPC
  <2>2. QED
    BY <1>8, <2>1 DEF Tof, Judge
<1>9. CASE Tof(SceneChanges)
  BY <1>9 DEF Tof, SceneChanges
<1>5. CASE Tof(TofSends \/ TofSendFails)
  <2>1. BusTypeOK'
    BY <1>2, <1>5 DEF Tof, TofSends, TofSendFails
  <2>2. UNCHANGED <<launcher, lidarNode, earlier, tofEnd, payload, near>> /\ tof' = "poll"
    BY <1>5 DEF Tof, TofSends, TofSendFails
  <2>3. QED
    BY <2>1, <2>2 DEF TofPC
<1>6. CASE Transmit
  BY <1>6 DEF Transmit, Transmitted
<1>7. QED
  BY <1>1, <1>3, <1>4, <1>5, <1>6, <1>8, <1>9 DEF NodeStep, NodeProgress, Tof, TofStep

\* Every step of the system keeps the types.
LEMMA StepTypes == TypeIInv /\ [Next]_vars => TypeIInv'
<1> SUFFICES ASSUME TypeIInv, [Next]_vars PROVE TypeIInv'
  OBVIOUS
<1> USE LauncherAssumption
    DEF TypeIInv, TypeOK, TofTypeOK, launcher, lidarNode, earlier, tofNode
<1>0. UNCHANGED bus => BusTypeOK'
  BY DEF bus, BusTypeOK
<1>1. CASE TakeDown \/ BringUp
  <2>1. BusTypeOK'
    BY <1>0, <1>1, InterfaceTyped DEF TakeDown, BringUp
  <2>2. QED
    BY <1>1, <2>1 DEF TakeDown, BringUp, Goto
<1>12. CASE Build \/ KillStale \/ Trap \/ Die
  BY <1>0, <1>12 DEF Build, KillStale, Trap, Die, Goto
<1>2. CASE SpawnNode
  <2>1. PICK extra \in ExtraArgs : Main(AEB_ARGS(extra))
    BY <1>2 DEF SpawnNode
  <2>2. PICK S : AEB_ARGS(extra) \in Seq(S)
    BY ArgsAreASequence
  <2>3. node' \in NodePC /\ noCan' \in BOOLEAN
    BY <2>1, <2>2, FlagIsBoolean DEF Main, NodePC
  <2>4. QED
    BY <1>0, <1>2, <2>3 DEF SpawnNode, Goto
<1>3. CASE SpawnTof
  BY <1>0, <1>3 DEF SpawnTof, Goto, TofPC
<1>4. CASE WaitReturns
  <2>1. <<"kill">> \in Seq(Places) /\ Len(<<"kill">>) = 1
    BY DEF Places
  <2>2. QED
    BY <1>0, <1>4, <2>1 DEF WaitReturns, Places
<1>5. CASE Kill \/ Reap
  <2>1. /\ cleanups # <<>> /\ cleanups \in Seq(Places) /\ {"wait", "down"} \subseteq Places
        /\ \E p \in {"wait", "down"} : cleanups' = Append(Front(cleanups), p)
    BY <1>5 DEF Kill, Reap, In, Continue, Places
  <2>2. cleanups' \in Seq(Places) /\ Len(cleanups') = Len(cleanups)
    BY <2>1, Tops, Heights
  <2>3. /\ node' \in NodePC /\ term' \in BOOLEAN /\ noCan' = noCan
        /\ tof' \in TofPC /\ tofEnd' \in TofEnds /\ payload' = payload
    BY <1>5 DEF Kill, Reap, NodeTerminated, TofTerminated, TofEnded, NodePC, TofPC, TofEnds, Masked
  <2>4. QED
    BY <1>0, <1>5, <2>2, <2>3 DEF Kill, Reap, Places
<1>6. CASE BringDown
  <2>1. /\ <<"kill">> \in Seq(Places) /\ Len(<<"kill">>) = 1
    BY DEF Places
  <2>2. /\ cleanups' \in {Front(cleanups), <<"kill">>, <<>>}
        /\ lpc' \in {lpc, "last", "done"} /\ cleanups # <<>> /\ cleanups \in Seq(Places)
    BY <1>6 DEF BringDown, Return, In, Places
  <2>3. Front(cleanups) \in Seq(Places) /\ Len(Front(cleanups)) = Len(cleanups) - 1
    BY <2>2, Tops, Heights DEF Places
  <2>4. cleanups' \in Seq(Places) /\ Len(cleanups') <= signals + 1 /\ Len(cleanups') <= MaxSignals + 1
    <3>1. CASE cleanups' = Front(cleanups)
      BY <2>3, <3>1
    <3>2. CASE cleanups' = <<"kill">>
      BY <2>1, <3>2
    <3>3. CASE cleanups' = <<>>
      <4>1. cleanups' \in Seq(Places) /\ Len(cleanups') = 0
        BY <3>3
      <4>2. QED
        BY <4>1
    <3>4. QED
      BY <2>2, <3>1, <3>2, <3>3
  <2>5. BusTypeOK'
    BY <1>0, <1>6, InterfaceTyped DEF BringDown
  <2>6. QED
    BY <1>6, <2>2, <2>4, <2>5 DEF BringDown, Places
<1>7. CASE \E s \in {"INT", "TERM"} : Signal(s)
  <2>1. /\ lpc' \in {lpc, "killed"} /\ cleanups' \in {cleanups, Interrupted}
        /\ signals' = signals + 1 /\ signals < MaxSignals /\ term' \in BOOLEAN
        /\ UNCHANGED <<skipCan, skipTof, raised, node, noCan, earlier, tofNode, near, bus>>
    BY <1>7 DEF Signal, Masked
  <2>2. Interrupted \in Seq(Places) /\ Len(Interrupted) = Len(cleanups) + 1
    BY Tops, Heights DEF Interrupted, In, Places
  <2>3. QED
    BY <1>0, <2>1, <2>2 DEF Places
<1>8. CASE NodeProgress \/ NodeStep(StartFails \/ EndsByItself \/ NodeSends)
             \/ Tof(TofStep \/ SceneChanges) \/ Transmit
  BY <1>8, NodesTyped
<1>9. CASE StaleEnds
  BY <1>0, <1>9 DEF StaleEnds
<1>13. CASE RivalCleansUp
  BY <1>13, InterfaceTyped DEF RivalCleansUp
<1>10. CASE Finished \/ UNCHANGED vars
  BY <1>0, <1>10 DEF Finished, vars
<1>11. QED
  BY <1>1, <1>2, <1>3, <1>4, <1>5, <1>6, <1>7, <1>8, <1>9, <1>10, <1>12, <1>13
  DEF Next, LauncherStep

\* The types hold in every reachable state: the stack of cleanups, which nothing
\* in launch.sh bounds, is never higher than the signals that arrived and one.
THEOREM TypeCorrect == Spec => []TypeOK
<1>1. Init => TypeIInv
  <2> SUFFICES ASSUME Init PROVE TypeIInv
    OBVIOUS
  <2>1. /\ tx = <<>> /\ cleanups = <<>>
    BY DEF Init, BusInit
  <2>5. /\ tx \in Seq(Commands) /\ Len(tx) = 0
        /\ cleanups \in Seq(Places) /\ Len(cleanups) = 0
    BY <2>1
  <2>2. BusTypeOK
    <3>1. hat \in BOOLEAN /\ iface \in BOOLEAN /\ ecu = "none"
      BY DEF Init, BusInit
    <3>2. QED
      BY <2>5, <3>1, TxRoomAssumption DEF BusTypeOK
  <2>3. TofTypeOK
    BY DEF Init, TofInit, TofTypeOK, TofPC, TofEnds, Commands
  <2>4. /\ skipCan \in BOOLEAN /\ skipTof \in BOOLEAN /\ lpc = "down" /\ raised = FALSE /\ signals = 0
        /\ node = "none" /\ noCan = FALSE /\ term = FALSE
        /\ stale \in {"none", "running"} /\ rival \in {"none", "waiting"}
    BY DEF Init
  <2>6. /\ signals \in 0 .. MaxSignals
        /\ Len(cleanups) <= MaxSignals + 1 /\ Len(cleanups) <= signals + 1
    BY <2>4, <2>5, LauncherAssumption
  <2>7. QED
    BY <2>2, <2>3, <2>4, <2>5, <2>6 DEF TypeIInv, TypeOK, NodePC, Places
<1>2. TypeIInv => TypeOK
  BY DEF TypeIInv
<1>3. QED
  BY <1>1, <1>2, StepTypes, PTL DEF Spec
================================================================================
