------------------------------- MODULE Fstring -------------------------------
(***************************************************************************)
(* basic/fstring.h: strings in an array of N bytes.  Bytes 0 .. N - 1 are  *)
(* kept as they are, those behind the terminator too, because comparisons  *)
(* of two fstrings look at all N.                                          *)
(***************************************************************************)
EXTENDS Naturals, Sequences, FiniteSets, FiniteSetsExt

CONSTANTS
    N,          \* the template's parameter
    Strings,    \* the objects
    Chars       \* characters; 0 is the terminator

NAssumption == N \in Nat \ {0} /\ 0 \in Chars

Index == 0 .. N - 1
Zeros == [i \in Index |-> 0]
CStrings == UNION {[1 .. n -> Chars \ {0}] : n \in 0 .. N + 1}   \* arguments

VARIABLES
    data_,
    raw         \* may bytes other than zeros follow the terminator?

vars == <<data_, raw>>

Init == data_ = [x \in Strings |-> Zeros] /\ raw = [x \in Strings |-> FALSE]

length(d) == Min({i \in Index : d[i] = 0} \cup {N})
Text(d) == [i \in 1 .. length(d) |-> d[i - 1]]

Store(x, d, r) == data_' = [data_ EXCEPT ![x] = d] /\ raw' = [raw EXCEPT ![x] = r]

\* strncpy stops at the terminator and fills with zeros ...
Strncpy(s) == [i \in Index |-> IF i < Len(s) /\ i < N - 1 THEN s[i + 1] ELSE 0]
\* ... memcpy takes what follows the source as well.
Memcpy(s, after) == [i \in Index |->
    IF i = N - 1 THEN 0 ELSE IF i < Len(s) THEN s[i + 1] ELSE after[i]]

\* fstring(const char *) and fstring(const std::string &)
ConstructRaw(x) == \E s \in CStrings, after \in [Index -> Chars] :
    Store(x, Memcpy(Append(s, 0), after), FALSE)
Construct(x) == \E s \in CStrings : Store(x, Strncpy(s), FALSE)

\* fstring(const std::string_view &): what is viewed need not be terminated.
ConstructView(x) == \E s \in CStrings, after \in [Index -> Chars] :
    Store(x, Memcpy(s, after), TRUE)

\* operator=(const char *)
Assign(x) == \E s \in CStrings, after \in [Index -> Chars] :
    Store(x, Memcpy(Append(s, 0), after), TRUE)

\* fstring(char, n)
ConstructFill(x) == \E c \in Chars \ {0}, n \in 0 .. N + 1 :
    Store(x, [i \in Index |-> IF i < n /\ i < N - 1 THEN c ELSE 0], FALSE)

\* The copy constructor; the moves also clear their source.
Copy(x, y) == x # y /\ Store(x, data_[y], raw[y])

Move(x, y) ==
    /\ data_' = [data_ EXCEPT ![x] = data_[y], ![y] = Zeros]
    /\ raw' = [raw EXCEPT ![x] = raw[y], ![y] = FALSE]

\* append, under operator+ and +=.  The bytes are any, terminators among them.
Bytes == UNION {[1 .. n -> Chars] : n \in 0 .. N + 1}
Embedded(s) == \E i, j \in 1 .. Len(s) : i < j /\ s[i] = 0 /\ s[j] # 0
AppendedTight(d, s) ==
    LET len == length(d) IN
    IF s = <<>> \/ Len(s) > N - len THEN d
    ELSE [i \in Index |-> IF i \in len .. len + Len(s) - 1 THEN s[i - len + 1]
                          ELSE IF i = len + Len(s) THEN 0 ELSE d[i]]
Appended(d, s) ==
    LET len == length(d) IN
    IF s = <<>> \/ Len(s) >= N - len THEN d
    ELSE [i \in Index |-> IF i \in len .. len + Len(s) - 1 THEN s[i - len + 1]
                          ELSE IF i = len + Len(s) THEN 0 ELSE d[i]]
append(x) == \E s \in Bytes :
    LET d == Appended(data_[x], s)
    IN  Store(x, d, raw[x] \/ (d # data_[x] /\ Embedded(s)))

Next == \E x \in Strings :
    \/ Construct(x) \/ ConstructView(x) \/ Assign(x) \/ ConstructFill(x) \/ append(x)
    \/ \E y \in Strings : Copy(x, y) \/ Move(x, y)

Spec == Init /\ [][Next]_vars

\* operator== and operator< of two fstrings: memcmp over all N bytes.
Equal(d, e) == d = e
Less(d, e) == \E i \in Index : d[i] < e[i] /\ \A j \in 0 .. i - 1 : d[j] = e[j]

\* operator< with a C string or a std::string
LessText(d, s) == Less(d, Strncpy(s))

\* Whatever was done, the array ends a string: the longest append that is
\* accepted leaves room for the terminator (line 209), moves and copies too.
Terminated == \A x \in Strings : length(data_[x]) < N

\* Strings compare by their texts alone unless memcpy has filled them from
\* beyond their source or an append has put a terminator among its bytes: all
\* else that constructors, moves and appends leave behind the terminator is
\* zeros, so memcmp (lines 112 to 118) sees no difference where the texts have
\* none.
ComparesTexts == \A x, y \in Strings : ~raw[x] /\ ~raw[y] =>
    /\ Equal(data_[x], data_[y]) <=> Text(data_[x]) = Text(data_[y])
    /\ Less(data_[x], data_[y]) <=> LessText(data_[x], Text(data_[y]))
=============================================================================
