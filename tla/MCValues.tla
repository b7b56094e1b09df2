------------------------------ MODULE MCValues -------------------------------
(***************************************************************************)
(* Values for TLC, with the unit whose module is recursive.                *)
(*                                                                         *)
(*   heap     bheap.h: up to six contexts of three values                  *)
(*   bits     every bit set of five, eight and nine bits in bytes of three *)
(*   string   two strings of three bytes over two characters               *)
(*   fbuffer  two buffers of three bytes                                   *)
(*   dynamic  two objects of up to three bytes, growing by 2 or by 0;      *)
(*            three blocks, so that a leaked one leaves two                *)
(*   filter   all bars and thresholds up to five                           *)
(*   text     config_parser.cpp: all values of up to four characters       *)
(*   tree     two sections, a key, a value of each type (two of bool and   *)
(*            double), nodes up to one level below the key, and texts with *)
(*            a repeated section, a pair before any section and a section  *)
(*            without pairs                                                *)
(***************************************************************************)
EXTENDS Values

VARIABLE value

Text == INSTANCE ConfigText WITH MaxLen <- 4

MCCharacters == 0 .. 2
\* What programs set, and what files hold.
Of(t, v) == [kind |-> "value", type |-> t, v |-> v]
Section(s) == [is |-> "section", name |-> s]
Line(k, t) == [is |-> "pair", key |-> k, text |-> t]
MCNodeValues ==
    {Of("string", "x"), Of("char", "x"), Of("nullptr_t", "null pointer"),
     Of("bool", "truth value true"), Of("bool", "truth value false"),
     Of("double", "number 7"), Of("double", "number 7.0000001")}
    \cup {Of(t, "number 7") : t \in {"int32_t", "uint8_t", "int8_t"}}
MCTexts ==
    {<<Line("k", "7"), Section("s"), Line("k", "x")>>,
     <<Section("s"), Line("k", "7"), Section("t"), [is |-> "other"],
       Line("k", "true"), Section("s")>>}

Init == ValuesInit /\ Text!Init

Next ==
    \/ ValuesNext /\ UNCHANGED value
    \/ unit = "text" /\ Text!Grow /\ UNCHANGED valuesVars

vars == <<valuesVars, value>>

Spec == Init /\ [][Next]_vars

-----------------------------------------------------------------------------
(* What is read back, a property of recursive parts. *)

\* config_parser.cpp and .h: INI reads back every text it wrote and CONF exactly
\* the ones it can; the values of a tree come back with their types, except those
\* of eight bits and those that need more than six digits.
ReadsBack ==
    /\ unit = "text" => Text!IniRoundTrip /\ Text!ConfSurvivors
    /\ unit = "tree" => Tree!SaveLoadKeeps
=============================================================================
