------------------------------ MODULE MCLauncher ------------------------------
(* Small instances of Launcher for TLC, on a Pi whose unsigned long is as     *)
(* wide as its uint32_t.  Extra arguments: all of up to two of Tokens, and more.*)
EXTENDS Launcher

MCIntegers10 == [text \in {"5", "7", "9", "-1", "40", ""} |->
    CASE text = "5" -> 5 [] text = "7" -> 7 [] text = "9" -> 9
      [] text = "-1" -> -1 [] text = "40" -> 40 [] text = "" -> 0]
MCDecimals == [text \in {"5", "7", "9", "-1", "40", "3O"} |->
    CASE text = "5" -> 5 [] text = "7" -> 7 [] text = "9" -> 9
      [] text = "-1" -> -1 [] text = "40" -> 40 [] text = "3O" -> 3]

Tokens == {"--help", "--no-can", "--device", "--tcp-port", "--min-angle", "--bogus", "7", "9",
           "-1", "3O"}
MCExtraArgs == UNION {[1 .. n -> Tokens] : n \in 0 .. 2} \cup
    {<<"--tcp-port", "7", "--tcp-port", "5">>, <<"--min-quality", "5">>, <<"--bogus", "7">>,
     <<"--device", "--no-can", "--no-can">>, <<"--baud", "40">>}

MCDistances == {0, 2000, 2001}
================================================================================
