------------------------------- MODULE Values --------------------------------
(***************************************************************************)
(* The sequential data structures of basic/, each on its own: unit says    *)
(* which one a behaviour is about, and the others stay as they were made.  *)
(*                                                                         *)
(*   heap     bheap.h, by Bheap                                            *)
(*   bits     fixed_bit_set.h, by FixedBitSet                              *)
(*   string   fstring.h, by Fstring                                        *)
(*   fbuffer  fbuffer.h, by FBuffer                                        *)
(*   dynamic  dynamic_buffer.h, by DynamicBuffer                           *)
(*   filter   repeat_filter_limit.h, by RepeatFilter                       *)
(*   tree     config_parser.h, by ConfigTree                               *)
(*   text is that of MCValues, whose module is recursive.                  *)
(***************************************************************************)
EXTENDS Integers, Sequences

CONSTANTS
    HeapVals, HeapSize, MaxContexts,            \* of Bheap
    Ns, ByteBits,                               \* of FixedBitSet
    StringSize, Strings, Characters,            \* of Fstring
    BufferSize, Buffers, MaxByte,               \* of FBuffer
    Objects, Blocks, MaxSize, Expand, NULL,     \* of DynamicBuffer
    MaxParam, MaxCalls,                         \* of RepeatFilter
    Sections, Keys, NodeValues, Texts, MaxArray \* of ConfigTree

VARIABLES
    unit,
    heap_, made, live, erased, up, frames,
    N, bits_,
    str, raw,
    fdata, fhead, tail_, unread, moved,
    capacity_, size_, head_, data_, expand_size_, heap, assigned, spins,
    bar1_, bar2_, threshold1_, threshold2_, counter_, gap, trapped,
    root

heapVars == <<heap_, made, live, erased, up, frames>>
bitsVars == <<N, bits_>>
stringVars == <<str, raw>>
fbufferVars == <<fdata, fhead, tail_, unread, moved>>
dynamicVars ==
    <<capacity_, size_, head_, data_, expand_size_, heap, assigned, spins>>
filterVars == <<bar1_, bar2_, threshold1_, threshold2_, counter_, gap, trapped>>
treeVars == <<root>>

Heap == INSTANCE Bheap WITH Vals <- HeapVals, MaxSize <- HeapSize
Bits == INSTANCE FixedBitSet
String == INSTANCE Fstring WITH N <- StringSize, Chars <- Characters, data_ <- str
Fixed == INSTANCE FBuffer WITH N <- BufferSize, data_ <- fdata, head_ <- fhead
Dynamic == INSTANCE DynamicBuffer
Filter == INSTANCE RepeatFilter
Tree == INSTANCE ConfigTree WITH Values <- NodeValues

ASSUME HeapAssumption == Heap!ValsAssumption
ASSUME BitsAssumption == Bits!SizeAssumption
ASSUME StringAssumption == String!NAssumption
ASSUME FixedAssumption == Fixed!NAssumption
ASSUME DynamicAssumption == Dynamic!BlocksAssumption
ASSUME FilterAssumption == Filter!BoundsAssumption
ASSUME TreeAssumption == Tree!ValuesAssumption

ValuesInit ==
    /\ unit \in {"heap", "bits", "string", "fbuffer", "dynamic", "filter", "text", "tree"}
    /\ Heap!Init /\ String!Init /\ Fixed!Init /\ Dynamic!Init
    /\ Bits!Init /\ (unit # "bits" => N = CHOOSE n \in Ns : TRUE)
    /\ Filter!Init /\ (unit # "filter" => filterVars = <<0, 0, 1, 1, 0, 0, FALSE>>)
    /\ Tree!Init

ValuesNext ==
    /\ UNCHANGED unit
    /\ \/ unit = "heap" /\ Heap!Next
       \/ unit = "bits" /\ Bits!Next
       \/ unit = "string" /\ String!Next
       \/ unit = "fbuffer" /\ Fixed!Next
       \/ unit = "dynamic" /\ Dynamic!Next
       \/ unit = "filter" /\ Filter!Next
       \/ unit = "tree" /\ Tree!Next
    /\ unit # "heap" => UNCHANGED heapVars
    /\ unit # "bits" => UNCHANGED bitsVars
    /\ unit # "string" => UNCHANGED stringVars
    /\ unit # "fbuffer" => UNCHANGED fbufferVars
    /\ unit # "dynamic" => UNCHANGED dynamicVars
    /\ unit # "filter" => UNCHANGED filterVars
    /\ unit # "tree" => UNCHANGED treeVars

valuesVars ==
    <<unit, heapVars, bitsVars, stringVars, fbufferVars, dynamicVars, filterVars, treeVars>>

ValuesSpec == ValuesInit /\ [][ValuesNext]_valuesVars

-----------------------------------------------------------------------------
(* The properties of the parts, under names of this module. *)

\* bheap.h: context->idx is where the context is, sifting loses and duplicates
\* nothing, and until something was erased the largest element is on top.
HeapSafe == unit = "heap" =>
    Heap!IdxTracksPosition /\ Heap!ContextsKept /\ Heap!TopUntilErase
\* fixed_bit_set.h: find_last_set returns the last bit below its limit, and
\* find_first_set the first bit from its offset on, where the byte of the offset
\* has none before it.
ScansFind == unit = "bits" => Bits!FirstSetFound /\ Bits!LastSetFound
\* fstring.h: strings are terminated inside their arrays and, unless memcpy has
\* filled them or an append had a terminator among its bytes, compare by their
\* texts.  fbuffer.h: the buffer holds what was appended and not skipped.
\* dynamic_buffer.h: a block has one owner, holds what is stored, and is lost
\* only by an assignment.
BuffersSafe ==
    /\ unit = "string" => String!Terminated /\ String!ComparesTexts
    /\ unit = "fbuffer" => Fixed!HoldsUnread
    /\ unit = "dynamic" =>
        Dynamic!OwnedOnce /\ Dynamic!FitsBlock /\ Dynamic!LeakOnlyByAssign
\* repeat_filter_limit.h: how long the filter can be silent.
GapBounded == unit = "filter" => Filter!GapBounded
\* config_parser.h: a call loses or changes a key only by replacing a node on
\* the way to it.
KeysKept == [][unit = "tree" => Tree!KeepsKeys]_treeVars
=============================================================================
