----------------------------- MODULE ConfigTree -----------------------------
(***************************************************************************)
(* basic/config/config_parser.h: the tree of ConfigNodes that a document   *)
(* holds, the operations of the API on it, and IniParser's parse and dump  *)
(* of it.  A text is a sequence of lines that are already understood       *)
(* (ConfigText is about the characters); a dump is the function of its     *)
(* strings.                                                                *)
(***************************************************************************)
EXTENDS Naturals, SequencesExt

CONSTANTS
    Sections, Keys,     \* names
    Values,             \* the values a program sets: [kind, type, v]
    Texts,              \* what files may hold: sequences of lines
    MaxArray            \* bound: the length of an array

ValuesAssumption == \A v \in Values : v.kind = "value"

\* Values that are not strings, named apart from the strings that spell them.
Seven == "number 7"
Fine == "number 7.0000001"      \* needs more than six digits
True == "truth value true"
False == "truth value false"
NullPtr == "null pointer"
\* What get<T> can do instead of delivering a value.
Default == "the default"
Throws == "throws"
Value(t, v) == [kind |-> "value", type |-> t, v |-> v]
Object(f) == [kind |-> "object", map |-> f]
Array(s) == [kind |-> "array", list |-> s]
\* ConfigNode(): the first alternative of the variant, an empty string.
ConfigNode == Value("string", "")
is_object(n) == n.kind = "object"
is_array(n) == n.kind = "array"
is_value(n) == n.kind = "value"

VARIABLE root           \* the document's root_

vars == <<root>>

Init == root = ConfigNode

-----------------------------------------------------------------------------
(* Operations on a node. *)

NoMap == [k \in {} |-> ConfigNode]

\* operator[](key): a node that is not an object becomes an empty one, and a
\* key that is not there gets a default node.
AsObject(n) == IF is_object(n) THEN n.map ELSE NoMap
AsArray(n) == IF is_array(n) THEN n.list ELSE <<>>
Child(n, key) == IF key \in DOMAIN AsObject(n) THEN n.map[key] ELSE ConfigNode
PutFresh(n, key, c) == Object([k \in {key} |-> c])
Put(n, key, c) ==
    LET old == AsObject(n) IN
    Object([k \in DOMAIN old \cup {key} |-> IF k = key THEN c ELSE old[k]])

\* arr.resize(index + 1) before the element is set; index counts from 1 here.
Element(n, index) == IF index <= Len(AsArray(n)) THEN n.list[index] ELSE ConfigNode
PutIndex(n, index, c) ==
    LET old == AsArray(n)
        len == IF index > Len(old) THEN index ELSE Len(old)
    IN  Array([i \in 1..len |-> IF i = index THEN c
                                ELSE IF i <= Len(old) THEN old[i] ELSE ConfigNode])

clear(n) == CASE is_object(n) -> Object(NoMap)
              [] is_array(n) -> Array(<<>>)
              [] OTHER -> ConfigNode

\* The conversions of get<T> from a stored string; stoi throws on no number.
\* int32_t stands for all integers of 16 bits and more, double also for float.
Number(s) == IF s \in {"7", "7.000000"} THEN Seven ELSE Throws
TrueWords == {"true", "yes", "on"}
Convert(s, T) ==
    CASE T \in {"int32_t", "double"} -> Number(s)
      [] T = "bool" -> IF s = "" THEN Throws        \* all of no digits
                       ELSE IF s = "7" \/ s \in TrueWords THEN True ELSE False
      [] T = "char" -> IF s = "" THEN Default ELSE SubSeq(s, 1, 1)
      [] T = "nullptr_t" -> NullPtr                 \* the default is all there is
      [] OTHER -> Default                           \* int8_t and uint8_t
get(n, T) ==
    CASE ~is_value(n) -> Default
      [] is_value(n) /\ n.type = T -> n.v
      [] is_value(n) /\ n.type # T /\ n.type = "string" -> Convert(n.v, T)
      [] OTHER -> Default

-----------------------------------------------------------------------------
(* The parser. *)

\* A double is written with six digits, an int8_t and nullptr as nothing.
ToStringNoBool(n) ==
    CASE n.type \in {"string", "char"} -> n.v
      [] n.type \in {"int32_t", "uint8_t"} -> "7"
      [] n.type = "double" -> "7.000000"
      [] OTHER -> ""
config_node_value_to_string(n) ==
    CASE n.type \in {"string", "char"} -> n.v
      [] n.type \in {"int32_t", "uint8_t"} -> "7"
      [] n.type = "double" -> "7.000000"
      [] n.type = "bool" -> IF n.v = True THEN "true" ELSE "false"
      [] OTHER -> ""

\* A section line makes the section anew; pairs go to the current section.
ParseLine(st, line) ==
    CASE line.is = "section" ->
            [node |-> Put(st.node, line.name, ConfigNode), section |-> line.name]
      [] line.is = "pair" /\ st.section # "" ->
            [st EXCEPT !.node = Put(@, st.section,
                Put(Child(@, st.section), line.key, Value("string", line.text)))]
      [] OTHER -> st
parse(text, node) == FoldLeft(ParseLine, [node |-> node, section |-> ""], text).node

\* Nested objects and arrays are skipped; a section that is not an object makes
\* std::get throw (config_parser.cpp:229).
DumpThrows(n) == is_object(n) /\ \E s \in DOMAIN n.map : ~is_object(n.map[s])
dump(n) ==
    IF ~is_object(n) THEN NoMap
    ELSE [s \in DOMAIN n.map |->
            [k \in {x \in DOMAIN n.map[s].map : is_value(n.map[s].map[x])} |->
                config_node_value_to_string(n.map[s].map[k])]]

\* The lines of a dump, one section after the other.
DumpLines(d) ==
    FlattenSeq([i \in DOMAIN SetToSeq(DOMAIN d) |->
        LET s == SetToSeq(DOMAIN d)[i]
            keys == SetToSeq(DOMAIN d[s])
        IN  <<[is |-> "section", name |-> s]>> \o
            [j \in DOMAIN keys |->
                [is |-> "pair", key |-> keys[j], text |-> d[s][keys[j]]]]])

-----------------------------------------------------------------------------
(* Steps: calls of the API by the program that owns the document.  A call is *)
(* made on the node that a path of names leads to from the root; operator[]  *)
(* on the way makes what is missing.                                         *)

Paths == {<<>>} \cup {<<s>> : s \in Sections} \cup (Sections \X Keys)
Names(p) == IF p = <<>> THEN Sections ELSE Keys
Node(p) ==
    CASE Len(p) = 0 -> root
      [] Len(p) = 1 -> Child(root, p[1])
      [] Len(p) = 2 -> Child(Child(root, p[1]), p[2])
Update(p, n) ==
    CASE Len(p) = 0 -> n
      [] Len(p) = 1 -> Put(root, p[1], n)
      [] Len(p) = 2 -> Put(root, p[1], Put(Child(root, p[1]), p[2], n))

\* set(value)
setValue(p) == \E v \in Values : root' = Update(p, v)

\* set(key, value), insert(key, value) and assignment through operator[].
set(p) == \E k \in Names(p), v \in Values : root' = Update(p, Put(Node(p), k, v))

\* operator[] of a key and of an index, only to look.
Touch(p) == \E k \in Names(p) : root' = Update(p, Put(Node(p), k, Child(Node(p), k)))

TouchIndex(p) == \E i \in 1..MaxArray :
    root' = Update(p, PutIndex(Node(p), i, Element(Node(p), i)))

setIndex(p) == \E i \in 1..MaxArray, v \in Values :
    root' = Update(p, PutIndex(Node(p), i, v))

append(p) == \E v \in Values :
    /\ Len(AsArray(Node(p))) < MaxArray
    /\ root' = Update(p, PutIndex(Node(p), Len(AsArray(Node(p))) + 1, v))

Clear(p) == root' = Update(p, clear(Node(p)))

reset(p) == root' = Update(p, ConfigNode)

\* A text is parsed into the document.
Load == \E t \in Texts : root' = parse(t, root)

Call(p) ==
    setValue(p) \/ set(p) \/ Touch(p) \/ TouchIndex(p) \/ setIndex(p) \/ append(p)

Next == (\E p \in Paths : Call(p) \/ Clear(p) \/ reset(p)) \/ Load

Spec == Init /\ [][Next]_vars

-----------------------------------------------------------------------------
(* Properties. *)

HasKey(n, s, k) == is_object(n) /\ s \in DOMAIN n.map /\ is_object(n.map[s])
                       /\ k \in DOMAIN n.map[s].map
Present(n, s, k) == HasKey(n, s, k) /\ is_value(n.map[s].map[k])

\* The values that a file of strings brings back: a type of eight bits has no
\* conversion in get (int8_t is not even written), and six digits are kept.
Survives(n) == n.type \notin {"int8_t", "uint8_t"} /\ n.v # Fine

\* dump and parse (config_parser.cpp) bring back the keys that have a value, no
\* other, and what get<T> with the type of each delivers is what was set,
\* although the file holds only strings, exactly for the values that survive.
SaveLoadKeeps ==
    ~DumpThrows(root) =>
        LET again == parse(DumpLines(dump(root)), ConfigNode) IN
        \A s \in Sections, k \in Keys :
            /\ Present(again, s, k) <=> Present(root, s, k)
            /\ Present(root, s, k) =>
                LET old == root.map[s].map[k] IN
                get(again.map[s].map[k], old.type) = old.v <=> Survives(old)

\* new is old with something else at x.
OnlyAt(x, old, new) == x \in DOMAIN new /\
    \A y \in DOMAIN old \ {x} : y \in DOMAIN new /\ new[y] = old[y]

\* The node a call was made on, or the one below it that the call named, is
\* another one now, it is on the way to the key, and nothing beside it changed.
Replaced(p, s, k) ==
    \/ /\ p = <<>>
       /\ is_object(root') => OnlyAt(s, root.map, root'.map) /\ ~is_object(root'.map[s])
    \/ /\ p = <<s>>
       /\ is_object(root') /\ OnlyAt(s, root.map, root'.map)
       /\ is_object(root'.map[s]) => OnlyAt(k, root.map[s].map, root'.map[s].map)
    \/ /\ p = <<s, k>>
       /\ is_object(root') /\ OnlyAt(s, root.map, root'.map)
       /\ is_object(root'.map[s]) /\ OnlyAt(k, root.map[s].map, root'.map[s].map)

KeepsKeys == \A s \in Sections, k \in Keys :
    Present(root, s, k) =>
        \/ HasKey(root', s, k) /\ root'.map[s].map[k] = root.map[s].map[k]
        \/ \A p \in Paths : Call(p) => Replaced(p, s, k)

\* A call of the API takes away or changes the value of a key only if it was
\* made on a node on the way to that key, by replacing this node or the next
\* one, and then nothing else: an object that remains one keeps its other keys,
\* though operator[], append and set replace a node of another kind (lines 207,
\* 235, 368 and 378).
KeysKept == [][KeepsKeys]_vars
=============================================================================
