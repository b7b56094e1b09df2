----------------------------- MODULE ConfigText -----------------------------
(***************************************************************************)
(* basic/config/config_parser.cpp, the text side: how a string value is    *)
(* written into a line of an INI or CONF file and read back.  A state is a *)
(* value built character by character; the conversions are operators on    *)
(* sequences of characters, checked for every value up to MaxLen.          *)
(***************************************************************************)
EXTENDS Naturals, SequencesExt

CONSTANT MaxLen     \* bound: the longest value

SP == "space"       \* stands for all whitespace but the newline
NL == "newline"
DQ == "quote"
SQ == "apostrophe"
BS == "backslash"
EQ == "="
Chars == {SP, NL, DQ, SQ, BS, EQ, "#", "n"}

VARIABLE value

Init == value = <<>>
Grow == Len(value) < MaxLen /\ \E c \in Chars : value' = Append(value, c)
Spec == Init /\ [][Grow]_value

-----------------------------------------------------------------------------
(* The conversions. *)

trim(str) ==
    LET solid == {i \in DOMAIN str : str[i] \notin {SP, NL}} IN
    IF solid = {} THEN <<>> ELSE SubSeq(str, Min(solid), Max(solid))

Escape(c) == IF c = NL THEN <<BS, "n">> ELSE <<BS, c>>
EscapeQuotesOnly(str) ==
    FlattenSeq([i \in DOMAIN str |->
        IF str[i] \in {NL, DQ, SQ} THEN Escape(str[i]) ELSE <<str[i]>>])
escape(str) ==
    FlattenSeq([i \in DOMAIN str |->
        IF str[i] \in {NL, BS, DQ, SQ} THEN Escape(str[i]) ELSE <<str[i]>>])

RECURSIVE unescape(_)
unescape(str) ==
    IF str = <<>> THEN <<>>
    ELSE IF Len(str) >= 2 /\ str[1] = BS /\ str[2] \in {"n", BS, DQ, SQ}
    THEN <<IF str[2] = "n" THEN NL ELSE str[2]>> \o unescape(SubSeq(str, 3, Len(str)))
    ELSE <<str[1]>> \o unescape(Tail(str))

add_quotes_if_needed(str) ==
    IF ToSet(str) \cap {SP, NL, DQ, SQ, BS} = {} THEN str ELSE <<DQ>> \o escape(str) \o <<DQ>>

trim_quotes(str) ==
    IF Len(str) >= 2 /\ str[1] \in {DQ, SQ} /\ Last(str) = str[1]
    THEN SubSeq(str, 2, Len(str) - 1) ELSE str

\* std::getline: the lines of a text, without their newlines.
RECURSIVE Lines(_)
Lines(text) ==
    LET ends == {i \in DOMAIN text : text[i] = NL} IN
    IF text = <<>> THEN <<>>
    ELSE IF ends = {} THEN <<text>>
    ELSE <<SubSeq(text, 1, Min(ends) - 1)>> \o Lines(SubSeq(text, Min(ends) + 1, Len(text)))

\* What a trimmed line says, as a set of at most one <<key, value>>.
Pair(line) ==
    LET at == {i \in DOMAIN line : line[i] = EQ} IN
    IF line = <<>> \/ line[1] = "#" \/ at = {} THEN {}
    ELSE {<<trim(SubSeq(line, 1, Min(at) - 1)),
            trim_quotes(unescape(trim(SubSeq(line, Min(at) + 1, Len(line)))))>>}

\* The pairs a parser stores: a later line with the same key wins.
parse(text) ==
    LET lines == [i \in DOMAIN Lines(text) |-> trim(Lines(text)[i])]
        found == [i \in DOMAIN lines |-> Pair(lines[i])]
    IN  UNION {{p \in found[i] : \A j \in i + 1..Len(lines) : \A q \in found[j] : q[1] # p[1]}
               : i \in DOMAIN lines}

Key == <<"k">>
IniDump(str) == Key \o <<SP, EQ, SP>> \o add_quotes_if_needed(str) \o <<NL>>
ConfDumpQuoted(str) == Key \o <<SP, EQ, SP>> \o add_quotes_if_needed(str) \o <<NL>>
ConfDump(str) == Key \o <<SP, EQ, SP>> \o str \o <<NL>>

-----------------------------------------------------------------------------
(* Properties. *)

\* INI: whatever a value holds (quotes, backslashes, newlines, delimiters,
\* blanks at its ends), IniParser::parse reads back what IniParser::dump wrote
\* with add_quotes_if_needed (config_parser.cpp:238 against 212).
IniRoundTrip == parse(IniDump(value)) = {<<Key, value>>}

\* CONF: dump does not quote (config_parser.cpp:294).  A value survives exactly
\* if it is one line, has no blanks at its ends and nothing that unescape or
\* trim_quotes would change; any other value comes back different, or as
\* further pairs.
ConfSurvivors ==
    parse(ConfDump(value)) = {<<Key, value>>} <=>
        /\ NL \notin ToSet(value)
        /\ trim(value) = value
        /\ trim_quotes(unescape(value)) = value
=============================================================================
