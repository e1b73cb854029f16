------------------------------ MODULE CommandLine ------------------------------
(****************************************************************************)
(* app/CommandLine.cpp and app/main.cpp: what the node makes of its argument *)
(* vector.  A pure module: no variables.                                     *)
(*                                                                          *)
(* The program refers to an option by its spelling, and so does this module. *)
(* What strtoul and stof make of a text are tables.  The widths of the       *)
(* integer types are constants, so that TLC can go beyond them.              *)
(****************************************************************************)
EXTENDS Integers, SequencesExt

CONSTANTS
    UINT8_MAX, UINT16_MAX, UINT32_MAX, ULONG_MAX, \* the largest of each integer type
    Integers10,  \* the integer strtoul reads, for each text it reads to the end
    Decimals     \* the number stof reads, for each text that starts with one

ASSUME WidthsAssumption ==
    /\ {UINT8_MAX, UINT16_MAX, UINT32_MAX, ULONG_MAX} \subseteq Nat
    /\ UINT8_MAX <= UINT16_MAX /\ UINT16_MAX <= UINT32_MAX /\ UINT32_MAX <= ULONG_MAX
ASSUME TablesAssumption == \A text \in DOMAIN Integers10 : Integers10[text] \in Int

Help  == {"--help", "-h"}
Flags == {"--no-reconnect", "--no-can"}
Texts == {"--device", "--can-interface"}
Unsigned == {"--baud", "--scan-timeout-ms", "--health-interval",
             "--tcp-port", "--min-quality", "--min-hits"}
Floats == {"--min-angle", "--max-angle", "--max-distance"}
Valued == Texts \cup Unsigned \cup Floats

\* The largest number the field of an unsigned option holds.
Largest(option) == CASE option = "--tcp-port"    -> UINT16_MAX
                     [] option = "--min-quality" -> UINT8_MAX
                     [] OTHER                    -> UINT32_MAX

\* What the configuration structures say for what is not given.  A flag is
\* TRUE once it was given.
LidarConfig ==
    [option \in {"--device", "--baud", "--scan-timeout-ms", "--no-reconnect"} |->
        CASE option = "--device" -> "/dev/ttyUSB0" [] option = "--baud" -> 460800
          [] option = "--scan-timeout-ms" -> 2000  [] option = "--no-reconnect" -> FALSE]
CanBusConfig == [option \in {"--can-interface"} |-> "can0"]
TcpServerConfig == [option \in {"--tcp-port"} |-> 7000]
PerceptionConfig ==
    [option \in Floats \cup {"--min-quality", "--min-hits"} |->
        CASE option = "--min-angle" -> -45     [] option = "--max-angle" -> 45
          [] option = "--max-distance" -> 2000 [] option = "--min-quality" -> 15
          [] option = "--min-hits" -> 3]
Options ==
    [option \in Flags \cup Valued |->
        CASE option \in DOMAIN LidarConfig -> LidarConfig[option]
          [] option \in DOMAIN CanBusConfig -> CanBusConfig[option]
          [] option \in DOMAIN TcpServerConfig -> TcpServerConfig[option]
          [] option \in DOMAIN PerceptionConfig -> PerceptionConfig[option]
          [] option = "--no-can" -> FALSE
          [] option = "--health-interval" -> 5]

----------------------------------------------------------------------------
(* Values                                                                    *)

\* strtoul takes a minus sign, and negates in the width of unsigned long.
strtoul(text) == Integers10[text] % (ULONG_MAX + 1)

\* errno is ERANGE: the number has more bits than unsigned long.
OutOfRange(text) == Integers10[text] \notin (-ULONG_MAX) .. ULONG_MAX

kMaxNumericValue == UINT32_MAX

\* parseUnsigned() succeeds.
IsUnsigned(text) ==
    /\ text # ""
    /\ text \in DOMAIN Integers10
    /\ ~OutOfRange(text)
    /\ strtoul(text) <= kMaxNumericValue

\* applyValued() succeeds.
Accepts(option, value) ==
    \/ option \in Texts
    \/ option \in Unsigned /\ IsUnsigned(value)
    \/ option \in Floats /\ value \in DOMAIN Decimals

\* What applyValued() then stores: port and quality are cast to their width.
Stored(option, value) ==
    CASE option \in Texts    -> value
      [] option \in Unsigned -> strtoul(value) % (Largest(option) + 1)
      [] option \in Floats   -> Decimals[value]

----------------------------------------------------------------------------
(* The loop over the arguments.  Its state: the options so far, the option   *)
(* that waits for its value (none, or one), and how the loop has ended.      *)

\* What a set of one holds.
The(S) == CHOOSE x \in S : TRUE

State(options, waiting, outcome) ==
    [options |-> options, waiting |-> waiting, outcome |-> outcome]

AtFirst == State(Options, {}, "reading")

TakeValue(loop, option, value) ==
    IF Accepts(option, value)
      THEN State([loop.options EXCEPT ![option] = Stored(option, value)], {}, "reading")
      ELSE State(loop.options, loop.waiting, "usage")

TakeOption(loop, option) ==
    CASE option \in Help  -> State(loop.options, {}, "help")
      [] option \in Flags -> State([loop.options EXCEPT ![option] = TRUE], {}, "reading")
      [] OTHER            -> State(loop.options, {option}, "reading")

\* Mutant: every argument is looked at as an option first.
FlagsEverywhere(loop, arg) ==
    IF loop.outcome # "reading" THEN loop
    ELSE IF loop.waiting = {} \/ arg \in Help \cup Flags THEN TakeOption(loop, arg)
    ELSE TakeValue(loop, The(loop.waiting), arg)

Take(loop, arg) ==
    IF loop.outcome # "reading" THEN loop
    ELSE IF loop.waiting = {} THEN TakeOption(loop, arg)
    ELSE TakeValue(loop, The(loop.waiting), arg)

\* The loop before the first argument and after each.  (Taken from sets of one,
\* so that TLC evaluates each once.)
Loops(args) ==
    LET loop[i \in 0 .. Len(args)] ==
            IF i = 0 THEN AtFirst
            ELSE The({Take(before, args[i]) : before \in {loop[i - 1]}})
    IN  loop

\* CommandLine::parse, argv[0] left aside: "run" with the options, "help" with
\* an empty error, or "usage" with one.
parse(args) ==
    LET end == Loops(args)[Len(args)]
    IN  [options |-> end.options,
         outcome |-> IF end.outcome # "reading" THEN end.outcome
                     ELSE IF end.waiting # {} THEN "usage" ELSE "run"]

----------------------------------------------------------------------------
(* What a reader of the usage text expects                                   *)

\* Which arguments are in the place of an option: the first, each after a flag,
\* and each after a value.
OptionPlaces(args) ==
    LET isOption[i \in 1 .. Len(args)] ==
            i = 1 \/ ~isOption[i - 1] \/ args[i - 1] \in Flags \cup Help
    IN  {i \in 1 .. Len(args) : isOption[i]}

\* A command line that is accepted means what it says: flags and options
\* count where an option can stand and nowhere else, the last one counts, what
\* is not given keeps its default, texts and numbers within the field's range arrive
\* as written.  One that is refused asks for help or has an option or value that is
\* no such thing (CommandLine.cpp:143-168).
MeansWhatItSays(args) ==
    LET P == OptionPlaces(args)
        At(option) == {i \in P : args[i] = option}
        Written(option) == args[Max(At(option)) + 1]
        got == parse(args)
    IN  IF got.outcome = "run" THEN
            /\ \A option \in Flags : got.options[option] <=> At(option) # {}
            /\ \A option \in Valued :
                IF At(option) = {} THEN got.options[option] = Options[option]
                ELSE \/ option \in Texts /\ got.options[option] = Written(option)
                     \/ option \in Floats /\ got.options[option] = Decimals[Written(option)]
                     \/ option \in Unsigned /\
                          (Integers10[Written(option)] \in 0 .. Largest(option)
                             => got.options[option] = Integers10[Written(option)])
            /\ \A i \in P : args[i] \in Flags \cup Valued
        ELSE \E i \in P :
               IF got.outcome = "help" THEN args[i] \in Help
               ELSE \/ args[i] \notin Flags \cup Valued \cup Help
                    \/ args[i] \in Valued /\ i = Len(args)
                    \/ args[i] \in Valued /\ ~Accepts(args[i], args[i + 1])
================================================================================
