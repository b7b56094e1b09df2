---------------------------- MODULE AnswersProofs ----------------------------
(***************************************************************************)
(* For every number of waits, notifiers, ids and Synchronizer objects: a   *)
(* single answer meets no undefined behaviour, is not lost to a timeout    *)
(* and leaves nothing in the map, and no thread waits on a Synchronizer    *)
(* that was replaced unless both threads had found the id absent.          *)
(***************************************************************************)
EXTENDS Answers, FiniteSetTheorems, TLAPS

\* One object is made before the waiter succeeds, and at most one after it.
MapInv ==
    /\ ~res => entry = made /\ made <= 1
    /\ res => /\ (entry = made /\ made <= 2) \/ (entry = 0 /\ made <= 1)
              /\ wpc = "idle" /\ Notifier # {}

\* What is in the promises, and who put it there.
CellInv ==
    /\ \A k \in Cell : val[k] # None => k <= made /\ nref[val[k]] = k
    /\ \A k \in Cell : val[k] # None /\ npc[val[k]] # "mark" => npc[val[k]] = "done" /\ isset[k]
    /\ \A k \in Cell : isset[k] => val[k] # None /\ npc[val[k]] = "done"

\* What the waiter refers to and has seen.
WaiterInv ==
    /\ wpc # "idle" => entry # 0
    /\ wpc \in {"wait", "get", "remove"} => wref = entry
    /\ wpc \in {"get", "remove"} => val[entry] # None
    /\ wpc = "remove" => isget[entry]
    /\ ready => IF wpc = "idle" THEN res ELSE val[entry] # None

\* What a notifier refers to.
NotifierInv ==
    /\ \A n \in Notifier : npc[n] \in {"test", "set", "mark"} => nref[n] # 0
    /\ \A n \in Notifier : npc[n] = "mark" => val[nref[n]] = n
    /\ OneAnswer => /\ ub = "no"
                    /\ \A n \in Notifier : npc[n] \in {"test", "set", "mark"} => nref[n] = entry

\* The inductive invariant of AsyncResult.
SyncerInv == TypeOK /\ MapInv /\ CellInv /\ WaiterInv /\ NotifierInv

\* The inductive invariant of BatchSync, for one id.
PairInv(i) ==
    /\ waiter[i] \in {"idle", "make", "find"} => held[i] = None
    /\ waiter[i] \in {"find", "wait", "got"} => sync_list_[i] # None
    /\ notifier[i] = "make" /\ ~overlap[i] => waiter[i] = "idle" /\ sync_list_[i] = None
    /\ held[i] # None /\ ~overlap[i] => held[i] = sync_list_[i]

BatchTypes ==
    /\ waiter \in [Ids -> {"idle", "make", "find", "wait", "got"}]
    /\ notifier \in [Ids -> {"idle", "make", "set", "done"}]
    /\ sync_list_ \in [Ids -> Syncs \cup {None}]
    /\ held \in [Ids -> Syncs \cup {None}]
    /\ overlap \in [Ids -> BOOLEAN]
    /\ used \in [Ids -> SUBSET Syncs]

BatchInv == BatchTypes /\ \A i \in Ids : PairInv(i)
-----------------------------------------------------------------------------
(* The objects and the threads *)

\* There are enough objects for every creation.
LEMMA CellSize ==
    /\ Cardinality(Notifier) \in Nat /\ Cell = 1 .. MaxTry + Cardinality(Notifier)
    /\ Cardinality(Cell) = MaxTry + Cardinality(Notifier) /\ Cardinality(Cell) \in Nat
    /\ 1 <= Cardinality(Cell) /\ (Notifier # {} => 2 <= Cardinality(Cell))
  <1>1. Cardinality(Notifier) \in Nat /\ (Notifier # {} => Cardinality(Notifier) # 0)
    BY NotifierAssumption, FS_CardinalityType, FS_EmptySet
  <1>2. MaxTry \in Nat \ {0}
    BY TryAssumption
  <1>3. PICK c \in Nat : c = MaxTry + Cardinality(Notifier)
    BY <1>1, <1>2
  <1>4. Cardinality(1 .. c) = c
    <2>1. Cardinality(1 .. c) = IF 1 > c THEN 0 ELSE c - 1 + 1
      BY FS_Interval
    <2>2. QED
      BY <2>1
  <1>5. QED
    BY <1>1, <1>2, <1>3, <1>4 DEF Cell

\* A set with at most one element.
LEMMA AtMostOne ==
    ASSUME NEW S, S \subseteq Notifier, Cardinality(S) <= 1, NEW n \in S, NEW m \in S
    PROVE  n = m
  <1> SUFFICES ASSUME n # m PROVE FALSE
    OBVIOUS
  <1>1. IsFiniteSet(S)
    BY NotifierAssumption, FS_Subset
  <1>2. Cardinality({n, m}) = 2
    <2>1. IsFiniteSet({m}) /\ Cardinality({m}) = 1
      BY FS_Singleton
    <2>2. n \notin {m}
      OBVIOUS
    <2>3. Cardinality({m} \cup {n}) = Cardinality({m}) + 1
      BY <2>1, <2>2, FS_AddElement
    <2>4. {m} \cup {n} = {n, m}
      OBVIOUS
    <2>5. QED
      BY <2>1, <2>3, <2>4
  <1>3. Cardinality({n, m}) <= Cardinality(S) /\ Cardinality(S) \in Nat
    BY <1>1, FS_Subset, FS_CardinalityType
  <1>4. QED
    BY <1>2, <1>3

\* With one answer, one notifier has begun.
LEMMA OneOnly ==
    ASSUME OneAnswer, NEW n \in Notifier, NEW m \in Notifier, npc[n] # "create", npc[m] # "create"
    PROVE  n = m
  <1>1. Cardinality({x \in Notifier : npc[x] # "create"}) <= 1
    BY DEF OneAnswer
  <1>2. QED
    BY <1>1, AtMostOne

\* The same after a step.
LEMMA OneOnlyAfter ==
    ASSUME OneAnswer', NEW n \in Notifier, NEW m \in Notifier, npc'[n] # "create", npc'[m] # "create"
    PROVE  n = m
  <1>1. Cardinality({x \in Notifier : npc'[x] # "create"}) <= 1
    BY DEF OneAnswer
  <1>2. QED
    BY <1>1, AtMostOne

\* A notifier that has begun has begun for good.
LEMMA OneBefore ==
    ASSUME OneAnswer', \A n \in Notifier : npc[n] # "create" => npc'[n] # "create"
    PROVE  OneAnswer
  <1> DEFINE S == {x \in Notifier : npc[x] # "create"}
             T == {x \in Notifier : npc'[x] # "create"}
  <1>1. IsFiniteSet(T) /\ S \subseteq T
    BY NotifierAssumption, FS_Subset
  <1>2. Cardinality(S) <= Cardinality(T) /\ IsFiniteSet(S)
    BY <1>1, FS_Subset
  <1>3. Cardinality(S) \in Nat /\ Cardinality(T) \in Nat
    BY <1>1, <1>2, FS_CardinalityType
  <1>4. Cardinality(T) <= 1
    BY DEF OneAnswer
  <1>5. Cardinality(S) <= 1
    <2> HIDE DEF S, T
    <2>1. QED
      BY <1>2, <1>3, <1>4
  <1>6. QED
    BY <1>5 DEF OneAnswer

\* create_sync_data and get_sync_data make an object when there is none, and
\* leave the map alone otherwise.
LEMMA MakeStep ==
    ASSUME SyncerInv,
           Create \/ (entry' = Found /\ made' = IF entry = 0 THEN made + 1 ELSE made)
    PROVE  /\ made \in Nat /\ made' \in Nat /\ made <= made' /\ made' <= Cardinality(Cell)
           /\ entry' # 0 /\ entry' \in 0 .. made'
           /\ entry # 0 => entry' = entry /\ made' = made
           /\ ~res => entry' = made' /\ made' <= 1
           /\ res => entry' = made' /\ made' <= 2
           /\ entry = 0 => entry' = made + 1
  <1>1. /\ made \in 0 .. Cardinality(Cell) /\ entry \in 0 .. made /\ res \in BOOLEAN
        /\ ~res => entry = made /\ made <= 1
        /\ res => ((entry = made /\ made <= 2) \/ (entry = 0 /\ made <= 1)) /\ Notifier # {}
    BY DEF SyncerInv, TypeOK, MapInv
  <1>2. /\ Cardinality(Cell) \in Nat /\ 1 <= Cardinality(Cell)
        /\ (Notifier # {} => 2 <= Cardinality(Cell))
    BY CellSize
  <1>3. CASE entry # 0
    <2>1. entry' = entry /\ made' = made
      BY <1>3 DEF Create, mapVars, Found
    <2>2. QED
      BY <1>1, <1>2, <1>3, <2>1
  <1>4. CASE entry = 0
    <2>1. entry' = made + 1 /\ made' = made + 1
      BY <1>4 DEF Create, Found
    <2>2. QED
      BY <1>1, <1>2, <1>4, <2>1
  <1>5. QED
    BY <1>3, <1>4
-----------------------------------------------------------------------------
(* The steps of notify *)

\* The objects that are made are among the cells, none is 0.
LEMMA SyncerFacts ==
    ASSUME SyncerInv
    PROVE  /\ made \in Nat /\ entry \in Nat /\ entry <= made /\ made <= Cardinality(Cell)
           /\ \A k \in 1 .. made : k \in Cell
           /\ \A n \in Notifier : nref[n] \in 0 .. made /\ nref[n] \in Nat
           /\ wref \in 0 .. made /\ wref \in Nat
           /\ 0 \notin Cell /\ None \notin Notifier
  <1>1. /\ made \in 0 .. Cardinality(Cell) /\ entry \in 0 .. made
        /\ nref \in [Notifier -> 0 .. made] /\ wref \in 0 .. made
    BY DEF SyncerInv, TypeOK
  <1>2. /\ Cardinality(Cell) \in Nat /\ Cell = 1 .. Cardinality(Cell)
    BY CellSize
  <1>3. QED
    BY <1>1, <1>2, NotifierAssumption

\* The map gets an entry before the notifier looks for it.
LEMMA NotifyCreateKeeps ==
    ASSUME SyncerInv, ub = "no", NEW n \in Notifier, NotifyCreate(n)
    PROVE  SyncerInv'
  <1>1. /\ npc[n] = "create" /\ npc' = [npc EXCEPT ![n] = "find"]
        /\ UNCHANGED <<val, isset, isget, nref, wpc, wref, tries, data, res, ready, ub>> /\ Create
    BY DEF NotifyCreate, cellVars, waitVars
  <1>2. /\ made \in Nat /\ made' \in Nat /\ made <= made' /\ made' <= Cardinality(Cell)
        /\ entry' # 0 /\ entry' \in 0 .. made'
        /\ entry # 0 => entry' = entry /\ made' = made
        /\ ~res => entry' = made' /\ made' <= 1
        /\ res => entry' = made' /\ made' <= 2
    BY <1>1, MakeStep
  <1>3. npc \in [Notifier -> {"create", "find", "test", "set", "mark", "done"}]
    BY DEF SyncerInv, TypeOK
  <1>4. TypeOK'
    BY <1>1, <1>2, <1>3, CellSize DEF SyncerInv, TypeOK
  <1>5. MapInv'
    <2>1. ~res' => entry' = made' /\ made' <= 1
      BY <1>1, <1>2
    <2>2. res' => entry' = made' /\ made' <= 2
      BY <1>1, <1>2
    <2>3. res' => wpc' = "idle" /\ Notifier # {}
      BY <1>1 DEF SyncerInv, MapInv
    <2>4. QED
      BY <2>1, <2>2, <2>3 DEF MapInv
  <1>6. CellInv'
    <2>1. \A k \in Cell : val[k] # None => val[k] \in Notifier /\ val[k] # n
      BY <1>1 DEF SyncerInv, TypeOK, CellInv
    <2>2. \A k \in Cell : val[k] # None => npc'[val[k]] = npc[val[k]]
      BY <1>1, <1>3, <2>1
    <2>3. \A k \in Cell : val[k] # None => k <= made'
      BY <1>2, CellSize DEF SyncerInv, CellInv
    <2>4. QED
      BY <1>1, <2>1, <2>2, <2>3 DEF SyncerInv, CellInv
  <1>7. WaiterInv'
    BY <1>1, <1>2 DEF SyncerInv, WaiterInv, MapInv
  <1>8. NotifierInv'
    <2>1. \A m \in Notifier : npc'[m] \in {"test", "set", "mark"} => npc'[m] = npc[m]
      BY <1>1, <1>3
    <2>2. ASSUME OneAnswer' PROVE \A m \in Notifier : npc'[m] \notin {"test", "set", "mark"}
      <3>1. OneAnswer
        BY <1>1, <1>3, <2>2, OneBefore
      <3>2. ASSUME NEW m \in Notifier, npc'[m] \in {"test", "set", "mark"} PROVE FALSE
        <4>1. m # n /\ npc[m] # "create" /\ npc'[n] = "find"
          BY <1>1, <1>3, <3>2
        <4>2. nref[m] = entry /\ nref[m] # 0
          BY <2>1, <3>1, <3>2 DEF SyncerInv, NotifierInv
        <4>3. n = m
          BY <1>1, <2>2, <3>2, <4>1, OneOnlyAfter
        <4>4. QED
          BY <4>1, <4>3
      <3>3. QED
        BY <3>2
    <2>3. QED
      BY <1>1, <2>1, <2>2 DEF SyncerInv, NotifierInv
  <1>9. QED
    BY <1>4, <1>5, <1>6, <1>7, <1>8 DEF SyncerInv

\* The notifier has the object that is in the map.
LEMMA NotifyFindKeeps ==
    ASSUME SyncerInv, ub = "no", NEW n \in Notifier, NotifyFind(n)
    PROVE  SyncerInv'
  <1>1. /\ npc[n] = "find" /\ npc' = [npc EXCEPT ![n] = "test"]
        /\ nref' = [nref EXCEPT ![n] = entry']
        /\ UNCHANGED <<val, isset, isget, wpc, wref, tries, data, res, ready, ub>>
        /\ entry' = Found /\ made' = IF entry = 0 THEN made + 1 ELSE made
    BY DEF NotifyFind, cellVars, waitVars
  <1>2. /\ made \in Nat /\ made' \in Nat /\ made <= made' /\ made' <= Cardinality(Cell)
        /\ entry' # 0 /\ entry' \in 0 .. made'
        /\ entry # 0 => entry' = entry /\ made' = made
        /\ ~res => entry' = made' /\ made' <= 1
        /\ res => entry' = made' /\ made' <= 2
    BY <1>1, MakeStep
  <1>3. /\ npc \in [Notifier -> {"create", "find", "test", "set", "mark", "done"}]
        /\ nref \in [Notifier -> 0 .. made]
    BY DEF SyncerInv, TypeOK
  <1>4. TypeOK'
    <2>1. nref' \in [Notifier -> 0 .. made']
      BY <1>1, <1>2, <1>3
    <2>2. wref \in 0 .. made'
      BY <1>2, SyncerFacts
    <2>3. made' \in 0 .. Cardinality(Cell)
      BY <1>2, CellSize
    <2>4. QED
      BY <1>1, <1>2, <1>3, <2>1, <2>2, <2>3 DEF SyncerInv, TypeOK
  <1>5. MapInv'
    <2>1. ~res' => entry' = made' /\ made' <= 1
      BY <1>1, <1>2
    <2>2. res' => entry' = made' /\ made' <= 2
      BY <1>1, <1>2
    <2>3. res' => wpc' = "idle" /\ Notifier # {}
      BY <1>1 DEF SyncerInv, MapInv
    <2>4. QED
      BY <2>1, <2>2, <2>3 DEF MapInv
  <1>6. CellInv'
    <2>1. \A k \in Cell : val[k] # None => val[k] \in Notifier /\ val[k] # n
      BY <1>1 DEF SyncerInv, TypeOK, CellInv
    <2>2. \A k \in Cell : val[k] # None => npc'[val[k]] = npc[val[k]] /\ nref'[val[k]] = nref[val[k]]
      BY <1>1, <1>3, <2>1
    <2>3. \A k \in Cell : val[k] # None => k <= made'
      BY <1>2, CellSize DEF SyncerInv, CellInv
    <2>4. QED
      BY <1>1, <2>1, <2>2, <2>3 DEF SyncerInv, CellInv
  <1>7. WaiterInv'
    BY <1>1, <1>2 DEF SyncerInv, WaiterInv, MapInv
  <1>8. NotifierInv'
    <2>1. \A m \in Notifier \ {n} : npc'[m] = npc[m] /\ nref'[m] = nref[m]
      BY <1>1, <1>3
    <2>2. npc'[n] = "test" /\ nref'[n] = entry'
      BY <1>1, <1>3
    <2>3. ASSUME OneAnswer' PROVE \A m \in Notifier : npc'[m] # "create" => m = n
      BY <2>2, <2>3, OneOnlyAfter
    <2>4. ASSUME OneAnswer' PROVE OneAnswer
      BY <1>1, <1>3, <2>4, OneBefore
    <2>5. QED
      BY <1>1, <1>2, <2>1, <2>2, <2>3, <2>4 DEF SyncerInv, NotifierInv
  <1>9. QED
    BY <1>4, <1>5, <1>6, <1>7, <1>8 DEF SyncerInv

\* Steps of a notifier inside SyncData::set that leave the map alone.
LEMMA NotifyStays ==
    ASSUME SyncerInv, NEW n \in Notifier, NEW pc \in {"set", "mark", "done"},
           npc[n] \in {"test", "set", "mark"}, npc' = [npc EXCEPT ![n] = pc],
           UNCHANGED <<entry, made, nref, ub>>
    PROVE  /\ \A m \in Notifier \ {n} : npc'[m] = npc[m]
           /\ npc'[n] = pc
           /\ OneAnswer' => OneAnswer
           /\ OneAnswer' => /\ ub = "no"
                            /\ \A m \in Notifier : npc'[m] \in {"test", "set", "mark"} => nref[m] = entry
           /\ \A m \in Notifier : npc'[m] \in {"test", "set", "mark"} => nref[m] # 0
           /\ npc' \in [Notifier -> {"create", "find", "test", "set", "mark", "done"}]
  <1>1. npc \in [Notifier -> {"create", "find", "test", "set", "mark", "done"}]
    BY DEF SyncerInv, TypeOK
  <1>2. npc'[n] = pc /\ \A m \in Notifier \ {n} : npc'[m] = npc[m]
    BY <1>1
  <1>3. OneAnswer' => OneAnswer
    BY <1>1, OneBefore
  <1>4. \A m \in Notifier : npc'[m] \in {"test", "set", "mark"} => npc[m] \in {"test", "set", "mark"}
    BY <1>2
  <1>5. QED
    BY <1>1, <1>2, <1>3, <1>4 DEF SyncerInv, NotifierInv

\* is_get_ and is_set_ are read.
LEMMA NotifyTestKeeps ==
    ASSUME SyncerInv, ub = "no", NEW n \in Notifier, NotifyTest(n)
    PROVE  SyncerInv'
  <1> DEFINE pc == IF isget[nref[n]] \/ isset[nref[n]] THEN "done" ELSE "set"
  <1>1. /\ npc[n] = "test" /\ npc' = [npc EXCEPT ![n] = pc] /\ pc \in {"set", "done"}
        /\ UNCHANGED <<entry, made, val, isset, isget, nref, wpc, wref, tries, data, res, ready, ub>>
    BY DEF NotifyTest, mapVars, cellVars, waitVars
  <1> HIDE DEF pc
  <1>2. /\ \A m \in Notifier \ {n} : npc'[m] = npc[m]
        /\ npc'[n] = pc
        /\ OneAnswer' => /\ ub = "no"
                         /\ \A m \in Notifier : npc'[m] \in {"test", "set", "mark"} => nref[m] = entry
        /\ \A m \in Notifier : npc'[m] \in {"test", "set", "mark"} => nref[m] # 0
        /\ npc' \in [Notifier -> {"create", "find", "test", "set", "mark", "done"}]
    BY <1>1, NotifyStays
  <1>3. TypeOK' /\ MapInv' /\ WaiterInv'
    BY <1>1, <1>2 DEF SyncerInv, TypeOK, MapInv, WaiterInv
  <1>4. CellInv'
    <2>1. \A k \in Cell : val[k] # None => val[k] \in Notifier /\ val[k] # n
      BY <1>1 DEF SyncerInv, TypeOK, CellInv
    <2>2. QED
      BY <1>1, <1>2, <2>1 DEF SyncerInv, CellInv
  <1>5. NotifierInv'
    BY <1>1, <1>2 DEF SyncerInv, NotifierInv
  <1>6. QED
    BY <1>3, <1>4, <1>5 DEF SyncerInv

\* The promise gets its value.
LEMMA NotifySetKeeps ==
    ASSUME SyncerInv, ub = "no", NEW n \in Notifier, NotifySet(n)
    PROVE  SyncerInv'
  <1>1. /\ npc[n] = "set" /\ npc' = [npc EXCEPT ![n] = "mark"]
        /\ nref[n] = entry /\ val[nref[n]] = None /\ val' = [val EXCEPT ![nref[n]] = n]
        /\ UNCHANGED <<entry, made, isset, isget, nref, wpc, wref, tries, data, res, ready, ub>>
    BY DEF NotifySet, mapVars, cellVars, waitVars, Live
  <1>2. /\ \A m \in Notifier \ {n} : npc'[m] = npc[m]
        /\ npc'[n] = "mark"
        /\ OneAnswer' => /\ ub = "no"
                         /\ \A m \in Notifier : npc'[m] \in {"test", "set", "mark"} => nref[m] = entry
        /\ \A m \in Notifier : npc'[m] \in {"test", "set", "mark"} => nref[m] # 0
        /\ npc' \in [Notifier -> {"create", "find", "test", "set", "mark", "done"}]
    BY <1>1, NotifyStays
  <1>3. nref[n] \in Cell /\ nref[n] <= made
    <2>1. nref[n] # 0
      BY <1>1 DEF SyncerInv, NotifierInv
    <2>2. QED
      BY <2>1, SyncerFacts
  <1>4. /\ val \in [Cell -> Notifier \cup {None}] /\ n # None
        /\ isset \in [Cell -> BOOLEAN]
    BY NotifierAssumption DEF SyncerInv, TypeOK
  <1>5. val'[nref[n]] = n /\ \A k \in Cell \ {nref[n]} : val'[k] = val[k]
    BY <1>1, <1>3, <1>4
  <1>6. val' \in [Cell -> Notifier \cup {None}]
    BY <1>1, <1>3, <1>4
  <1>7. TypeOK' /\ MapInv'
    BY <1>1, <1>2, <1>6 DEF SyncerInv, TypeOK, MapInv
  <1>8. \A k \in Cell : val[k] # None => val'[k] = val[k] /\ val[k] \in Notifier /\ val[k] # n
    <2>1. \A k \in Cell : val[k] # None => k # nref[n]
      BY <1>1
    <2>2. QED
      BY <1>1, <1>4, <1>5, <2>1 DEF SyncerInv, CellInv
  <1>9. CellInv'
    <2>1. ~isset[nref[n]]
      BY <1>1, <1>3 DEF SyncerInv, CellInv
    <2>2. QED
      BY <1>1, <1>2, <1>3, <1>4, <1>5, <1>8, <2>1 DEF SyncerInv, CellInv
  <1>10. WaiterInv'
    <2>1. entry \in Cell
      BY <1>1, <1>3
    <2>2. QED
      BY <1>1, <1>4, <1>5, <2>1 DEF SyncerInv, WaiterInv
  <1>11. NotifierInv'
    <2>1. ASSUME NEW m \in Notifier, npc'[m] = "mark" PROVE val'[nref[m]] = m
      <3>1. CASE m = n
        BY <1>5, <3>1
      <3>2. CASE m # n
        <4>1. val[nref[m]] = m
          BY <1>2, <2>1, <3>2 DEF SyncerInv, NotifierInv
        <4>2. nref[m] \in Cell
          BY <1>2, <2>1, <3>2, SyncerFacts DEF SyncerInv, NotifierInv
        <4>3. QED
          BY <1>8, <4>1, <4>2, NotifierAssumption
      <3>3. QED
        BY <3>1, <3>2
    <2>2. QED
      BY <1>1, <1>2, <2>1 DEF NotifierInv
  <1>12. QED
    BY <1>7, <1>9, <1>10, <1>11 DEF SyncerInv

\* is_set_ says so.
LEMMA NotifyMarkKeeps ==
    ASSUME SyncerInv, ub = "no", NEW n \in Notifier, NotifyMark(n)
    PROVE  SyncerInv'
  <1>1. /\ npc[n] = "mark" /\ npc' = [npc EXCEPT ![n] = "done"]
        /\ isset' = [isset EXCEPT ![nref[n]] = TRUE]
        /\ UNCHANGED <<entry, made, val, isget, nref, wpc, wref, tries, data, res, ready, ub>>
    BY DEF NotifyMark, mapVars, cellVars, waitVars
  <1>2. /\ \A m \in Notifier \ {n} : npc'[m] = npc[m]
        /\ npc'[n] = "done"
        /\ OneAnswer' => /\ ub = "no"
                         /\ \A m \in Notifier : npc'[m] \in {"test", "set", "mark"} => nref[m] = entry
        /\ \A m \in Notifier : npc'[m] \in {"test", "set", "mark"} => nref[m] # 0
        /\ npc' \in [Notifier -> {"create", "find", "test", "set", "mark", "done"}]
    BY <1>1, NotifyStays
  <1>3. nref[n] \in Cell /\ val[nref[n]] = n
    <2>1. nref[n] # 0 /\ val[nref[n]] = n
      BY <1>1 DEF SyncerInv, NotifierInv
    <2>2. QED
      BY <2>1, SyncerFacts
  <1>4. /\ val \in [Cell -> Notifier \cup {None}] /\ n # None
        /\ isset \in [Cell -> BOOLEAN]
    BY NotifierAssumption DEF SyncerInv, TypeOK
  <1>5. isset'[nref[n]] /\ \A k \in Cell \ {nref[n]} : isset'[k] = isset[k]
    BY <1>1, <1>3, <1>4
  <1>6. TypeOK' /\ MapInv' /\ WaiterInv'
    <2>1. isset' \in [Cell -> BOOLEAN]
      BY <1>1, <1>3, <1>4
    <2>2. QED
      BY <1>1, <1>2, <2>1 DEF SyncerInv, TypeOK, MapInv, WaiterInv
  <1>7. CellInv'
    <2>1. \A k \in Cell \ {nref[n]} : val[k] # None => val[k] \in Notifier /\ val[k] # n
      BY <1>3, <1>4 DEF SyncerInv, CellInv
    <2>2. QED
      BY <1>1, <1>2, <1>3, <1>4, <1>5, <2>1 DEF SyncerInv, CellInv
  <1>8. NotifierInv'
    BY <1>1, <1>2 DEF SyncerInv, NotifierInv
  <1>9. QED
    BY <1>6, <1>7, <1>8 DEF SyncerInv
-----------------------------------------------------------------------------
(* The steps of wait_for *)

\* Steps of the waiter that change no notifier and no promise.
LEMMA WaiterStays ==
    ASSUME SyncerInv, UNCHANGED <<val, isset, npc, nref, ub>>,
           made' \in Nat, made <= made', OneAnswer => entry' = entry \/ entry = 0
    PROVE  /\ CellInv' /\ NotifierInv'
           /\ val' \in [Cell -> Notifier \cup {None}] /\ isset' \in [Cell -> BOOLEAN]
           /\ npc' \in [Notifier -> {"create", "find", "test", "set", "mark", "done"}]
           /\ nref' \in [Notifier -> 0 .. made'] /\ ub' \in {"no", "dangling", "set twice"}
  <1>1. OneAnswer' = OneAnswer
    BY DEF OneAnswer
  <1>2. made \in Nat /\ Cell \subseteq Nat
    BY SyncerFacts, CellSize
  <1>3. CellInv'
    <2>1. \A k \in Cell : val[k] # None => k <= made'
      BY <1>2 DEF SyncerInv, CellInv
    <2>2. QED
      BY <2>1 DEF SyncerInv, CellInv
  <1>4. NotifierInv'
    BY <1>1 DEF SyncerInv, NotifierInv
  <1>5. nref' \in [Notifier -> 0 .. made']
    <2>1. nref \in [Notifier -> 0 .. made] /\ nref' = nref
      BY DEF SyncerInv, TypeOK
    <2>2. 0 .. made \subseteq 0 .. made'
      BY <1>2
    <2>3. QED
      BY <2>1, <2>2
  <1>6. QED
    BY <1>3, <1>4, <1>5 DEF SyncerInv, TypeOK

\* A wait begins.
LEMMA WaitCreateKeeps ==
    ASSUME SyncerInv, ub = "no", WaitCreate
    PROVE  SyncerInv'
  <1>1. /\ wpc = "idle" /\ tries < MaxTry /\ ~res /\ Create /\ tries' = tries + 1
        /\ ready' = (entry # 0 /\ val[entry] # None) /\ wpc' = "find"
        /\ UNCHANGED <<val, isset, isget, npc, nref, wref, data, res, ub>>
    BY DEF WaitCreate, cellVars, notVars
  <1>2. /\ made \in Nat /\ made' \in Nat /\ made <= made' /\ made' <= Cardinality(Cell)
        /\ entry' # 0 /\ entry' \in 0 .. made'
        /\ entry # 0 => entry' = entry /\ made' = made
        /\ ~res => entry' = made' /\ made' <= 1
    BY <1>1, MakeStep
  <1>3. /\ CellInv' /\ NotifierInv'
        /\ val' \in [Cell -> Notifier \cup {None}] /\ isset' \in [Cell -> BOOLEAN]
        /\ npc' \in [Notifier -> {"create", "find", "test", "set", "mark", "done"}]
        /\ nref' \in [Notifier -> 0 .. made'] /\ ub' \in {"no", "dangling", "set twice"}
    BY <1>1, <1>2, WaiterStays
  <1>4. TypeOK'
    <2>1. wref' \in 0 .. made' /\ made' \in 0 .. Cardinality(Cell)
      BY <1>1, <1>2, SyncerFacts, CellSize
    <2>2. tries' \in 0 .. MaxTry
      BY <1>1, TryAssumption DEF SyncerInv, TypeOK
    <2>3. ready' \in BOOLEAN
      BY <1>1
    <2>4. QED
      BY <1>1, <1>2, <1>3, <2>1, <2>2, <2>3 DEF SyncerInv, TypeOK
  <1>5. MapInv'
    BY <1>1, <1>2 DEF MapInv
  <1>6. WaiterInv'
    BY <1>1, <1>2 DEF WaiterInv
  <1>7. QED
    BY <1>3, <1>4, <1>5, <1>6 DEF SyncerInv

\* The waiter has the object that is in the map.
LEMMA WaitFindKeeps ==
    ASSUME SyncerInv, ub = "no", WaitFind
    PROVE  SyncerInv'
  <1>1. /\ wpc = "find" /\ wref' = Found /\ entry' = Found /\ wpc' = "wait"
        /\ made' = IF entry = 0 THEN made + 1 ELSE made
        /\ UNCHANGED <<val, isset, isget, npc, nref, tries, data, res, ready, ub>>
    BY DEF WaitFind, cellVars, notVars
  <1>2. entry # 0 /\ entry' = entry /\ made' = made /\ wref' = entry
    BY <1>1 DEF SyncerInv, WaiterInv, Found
  <1>3. made \in Nat /\ entry \in 0 .. made
    BY SyncerFacts
  <1>4. /\ CellInv' /\ NotifierInv'
        /\ val' \in [Cell -> Notifier \cup {None}] /\ isset' \in [Cell -> BOOLEAN]
        /\ npc' \in [Notifier -> {"create", "find", "test", "set", "mark", "done"}]
        /\ nref' \in [Notifier -> 0 .. made'] /\ ub' \in {"no", "dangling", "set twice"}
    BY <1>1, <1>2, <1>3, WaiterStays
  <1>5. TypeOK' /\ MapInv'
    BY <1>1, <1>2, <1>3, <1>4 DEF SyncerInv, TypeOK, MapInv
  <1>6. WaiterInv'
    BY <1>1, <1>2 DEF SyncerInv, WaiterInv
  <1>7. QED
    BY <1>4, <1>5, <1>6 DEF SyncerInv

\* The future is ready, or the time is up.
LEMMA WaitEndsKeeps ==
    ASSUME SyncerInv, ub = "no", WaitReady \/ WaitTimeout
    PROVE  SyncerInv'
  <1>1. /\ wpc = "wait"
        /\ UNCHANGED <<entry, made, val, isset, isget, npc, nref, wref, tries, data, ready, ub>>
        /\ \/ val[wref] # None /\ wpc' = "get" /\ res' = res
           \/ val[wref] = None /\ wpc' = "idle" /\ res' = FALSE
    BY DEF WaitReady, WaitTimeout, mapVars, cellVars, notVars
  <1>2. wref = entry /\ entry # 0 /\ ~res
    BY <1>1 DEF SyncerInv, WaiterInv, MapInv
  <1>3. made \in Nat
    BY SyncerFacts
  <1>4. /\ CellInv' /\ NotifierInv'
        /\ val' \in [Cell -> Notifier \cup {None}] /\ isset' \in [Cell -> BOOLEAN]
        /\ npc' \in [Notifier -> {"create", "find", "test", "set", "mark", "done"}]
        /\ nref' \in [Notifier -> 0 .. made'] /\ ub' \in {"no", "dangling", "set twice"}
    BY <1>1, <1>3, WaiterStays
  <1>5. res' = FALSE
    BY <1>1, <1>2 DEF SyncerInv, TypeOK
  <1>6. TypeOK'
    BY <1>1, <1>4, <1>5 DEF SyncerInv, TypeOK
  <1>7. MapInv'
    BY <1>1, <1>2, <1>5 DEF SyncerInv, MapInv
  <1>8. WaiterInv'
    BY <1>1, <1>2 DEF SyncerInv, WaiterInv
  <1>9. QED
    BY <1>4, <1>6, <1>7, <1>8 DEF SyncerInv

\* The answer is read.
LEMMA WaitGetKeeps ==
    ASSUME SyncerInv, ub = "no", WaitGet
    PROVE  SyncerInv'
  <1>1. /\ wpc = "get" /\ data' = val[wref] /\ isget' = [isget EXCEPT ![wref] = TRUE]
        /\ wpc' = "remove"
        /\ UNCHANGED <<entry, made, val, isset, npc, nref, wref, tries, res, ready, ub>>
    BY DEF WaitGet, mapVars, notVars
  <1>2. wref = entry /\ entry # 0 /\ ~res /\ val[entry] # None
    BY <1>1 DEF SyncerInv, WaiterInv, MapInv
  <1>3. made \in Nat /\ wref \in Cell
    BY <1>2, SyncerFacts
  <1>4. /\ CellInv' /\ NotifierInv'
        /\ val' \in [Cell -> Notifier \cup {None}] /\ isset' \in [Cell -> BOOLEAN]
        /\ npc' \in [Notifier -> {"create", "find", "test", "set", "mark", "done"}]
        /\ nref' \in [Notifier -> 0 .. made'] /\ ub' \in {"no", "dangling", "set twice"}
    BY <1>1, <1>3, WaiterStays
  <1>5. isget \in [Cell -> BOOLEAN]
    BY DEF SyncerInv, TypeOK
  <1>6. isget' \in [Cell -> BOOLEAN] /\ isget'[wref]
    BY <1>1, <1>3, <1>5
  <1>7. data' \in Notifier \cup {None}
    BY <1>1, <1>3, <1>4
  <1>8. TypeOK'
    BY <1>1, <1>4, <1>6, <1>7 DEF SyncerInv, TypeOK
  <1>9. MapInv'
    BY <1>1, <1>2 DEF SyncerInv, MapInv
  <1>10. WaiterInv'
    BY <1>1, <1>2, <1>6 DEF SyncerInv, WaiterInv
  <1>11. QED
    BY <1>4, <1>8, <1>9, <1>10 DEF SyncerInv

\* The entry is erased, or stays.
LEMMA WaitRemoveKeeps ==
    ASSUME SyncerInv, ub = "no", WaitRemove
    PROVE  SyncerInv' /\ (npc[val[wref]] = "done" => entry' = 0)
  <1>1. /\ wpc = "remove" /\ wpc' = "idle" /\ res' = TRUE
        /\ entry' = IF entry # 0 /\ isset[entry] /\ isget[entry] THEN 0 ELSE entry
        /\ UNCHANGED <<made, val, isset, isget, npc, nref, wref, tries, data, ready, ub>>
    BY DEF WaitRemove, cellVars, notVars
  <1>2. /\ wref = entry /\ entry # 0 /\ ~res /\ val[entry] # None /\ isget[entry]
        /\ entry = made /\ made <= 1
    BY <1>1 DEF SyncerInv, WaiterInv, MapInv
  <1>3. made \in Nat /\ entry \in Cell /\ None \notin Notifier
    BY <1>2, SyncerFacts
  <1>4. val[entry] \in Notifier
    BY <1>2, <1>3 DEF SyncerInv, TypeOK
  <1>5. OneAnswer /\ isset[entry] => \A n \in Notifier : npc[n] \notin {"test", "set", "mark"}
    <2> SUFFICES ASSUME OneAnswer, isset[entry], NEW n \in Notifier, npc[n] \in {"test", "set", "mark"}
                 PROVE  FALSE
      OBVIOUS
    <2>1. npc[val[entry]] = "done"
      BY <1>3 DEF SyncerInv, CellInv
    <2>2. val[entry] = n
      BY <1>4, <2>1, OneOnly
    <2>3. QED
      BY <2>1, <2>2
  <1>6. CellInv'
    BY <1>1 DEF SyncerInv, CellInv
  <1>7. NotifierInv'
    <2>1. OneAnswer' = OneAnswer
      BY <1>1 DEF OneAnswer
    <2>2. CASE isset[entry]
      BY <1>1, <1>5, <2>1, <2>2 DEF SyncerInv, NotifierInv
    <2>3. CASE ~isset[entry]
      BY <1>1, <2>1, <2>3 DEF SyncerInv, NotifierInv
    <2>4. QED
      BY <2>2, <2>3
  <1>8. TypeOK'
    <2>1. entry' \in 0 .. made
      BY <1>1, <1>2, <1>3
    <2>2. QED
      BY <1>1, <2>1 DEF SyncerInv, TypeOK
  <1>9. MapInv'
    BY <1>1, <1>2, <1>3, <1>4 DEF MapInv
  <1>10. WaiterInv'
    BY <1>1 DEF WaiterInv
  <1>11. npc[val[wref]] = "done" => entry' = 0
    <2>1. npc[val[entry]] = "done" => isset[entry]
      BY <1>2, <1>3 DEF SyncerInv, CellInv
    <2>2. QED
      BY <1>1, <1>2, <2>1
  <1>12. QED
    BY <1>6, <1>7, <1>8, <1>9, <1>10, <1>11 DEF SyncerInv

\* A fault happens only to a second answer.
LEMMA FaultKeeps ==
    ASSUME SyncerInv, ub = "no", NEW n \in Notifier, Dangling(n) \/ SetTwice(n)
    PROVE  SyncerInv'
  <1>1. /\ UNCHANGED <<entry, made, val, isset, isget, npc, nref, wpc, wref, tries, data, res, ready>>
        /\ ub' \in {"dangling", "set twice"}
    BY DEF Dangling, SetTwice, Fault, mapVars, cellVars, notVars, waitVars
  <1>2. ~OneAnswer
    <2> SUFFICES ASSUME OneAnswer PROVE FALSE
      OBVIOUS
    <2>1. npc[n] \in {"test", "set", "mark"} /\ nref[n] = entry /\ nref[n] # 0
      BY DEF Dangling, SetTwice, SyncerInv, NotifierInv
    <2>2. CASE Dangling(n)
      BY <2>1, <2>2 DEF Dangling, Live
    <2>3. CASE SetTwice(n)
      <3>1. npc[n] = "set" /\ val[nref[n]] # None
        BY <2>3 DEF SetTwice
      <3>2. nref[n] \in Cell
        BY <2>1, SyncerFacts
      <3>3. val[nref[n]] \in Notifier /\ npc[val[nref[n]]] \in {"mark", "done"}
        BY <3>1, <3>2 DEF SyncerInv, CellInv, TypeOK
      <3>4. val[nref[n]] = n
        BY <3>1, <3>3, OneOnly
      <3>5. QED
        BY <3>1, <3>3, <3>4
    <2>4. QED
      BY <2>2, <2>3
  <1>3. ~OneAnswer'
    BY <1>1, <1>2 DEF OneAnswer
  <1>4. QED
    BY <1>1, <1>3 DEF SyncerInv, TypeOK, MapInv, CellInv, WaiterInv, NotifierInv

\* Every step of the syncer keeps its invariant.
LEMMA SyncerKeeps ==
    ASSUME SyncerInv, [Next]_vars
    PROVE  SyncerInv'
  <1>1. CASE UNCHANGED vars
    BY <1>1, ZenonT(40) DEF vars, mapVars, cellVars, notVars, waitVars, SyncerInv, TypeOK, MapInv, CellInv, WaiterInv,
                NotifierInv, OneAnswer
  <1>2. CASE Next
    <2>1. ub = "no"
      BY <1>2 DEF Next
    <2>2. ASSUME NEW n \in Notifier, notify(n) \/ Dangling(n) \/ SetTwice(n)
          PROVE  SyncerInv'
      BY <2>1, <2>2, NotifyCreateKeeps, NotifyFindKeeps, NotifyTestKeeps, NotifySetKeeps, NotifyMarkKeeps,
         FaultKeeps DEF notify
    <2>3. ASSUME WaitCreate \/ WaitStep
          PROVE  SyncerInv'
      BY <2>1, <2>3, WaitCreateKeeps, WaitFindKeeps, WaitEndsKeeps, WaitGetKeeps, WaitRemoveKeeps
         DEF WaitStep
    <2>4. QED
      BY <1>2, <2>2, <2>3 DEF Next
  <1>3. QED
    BY <1>1, <1>2

\* Nothing is in the map at first.
LEMMA SyncerStarts ==
    ASSUME Init
    PROVE  SyncerInv
  <1>1. TypeOK
    <2>1. 0 \in 0 .. Cardinality(Cell) /\ 0 \in 0 .. MaxTry /\ 0 \in 0 .. 0
      BY CellSize, TryAssumption
    <2>2. QED
      BY <2>1 DEF Init, TypeOK
  <1>2. QED
    BY <1>1 DEF Init, SyncerInv, MapInv, CellInv, WaiterInv, NotifierInv
-----------------------------------------------------------------------------
(* BatchSync *)

\* A step of one id leaves the others alone.
LEMMA BatchKeeps ==
    ASSUME BatchInv, [Batch!Next]_Batch!vars
    PROVE  BatchInv'
  <1>1. CASE UNCHANGED Batch!vars
    BY <1>1 DEF Batch!vars, BatchInv, BatchTypes, PairInv
  <1>2. ASSUME NEW i \in Ids, Batch!Wait(i) \/ Batch!Notify(i)
        PROVE  BatchInv'
    <2>1. BatchTypes /\ \A j \in Ids : PairInv(j)
      BY DEF BatchInv
    <2>2. ASSUME Batch!Make(i)
          PROVE  /\ sync_list_' \in [Ids -> Syncs \cup {None}] /\ used' \in [Ids -> SUBSET Syncs]
                 /\ sync_list_'[i] # None
                 /\ \A j \in Ids \ {i} : sync_list_'[j] = sync_list_[j]
      <3>1. PICK s \in Syncs \ used[i] :
                /\ sync_list_' = [sync_list_ EXCEPT ![i] = s]
                /\ used' = [used EXCEPT ![i] = @ \cup {s}]
        BY <2>2 DEF Batch!Make
      <3>2. s # None
        BY SyncsAssumption
      <3>3. QED
        BY <2>1, <3>1, <3>2 DEF BatchTypes
    <2>3. CASE Batch!WaitCount(i)
      <3>1. BatchTypes'
        BY <2>1, <2>3 DEF Batch!WaitCount, BatchTypes
      <3>2. ASSUME NEW j \in Ids PROVE PairInv(j)'
        BY <2>1, <2>3 DEF Batch!WaitCount, BatchTypes, PairInv
      <3>3. QED
        BY <3>1, <3>2 DEF BatchInv
    <2>4. CASE Batch!WaitMake(i)
      <3>1. BatchTypes'
        BY <2>1, <2>2, <2>4 DEF Batch!WaitMake, BatchTypes
      <3>2. ASSUME NEW j \in Ids PROVE PairInv(j)'
        BY <2>1, <2>2, <2>4 DEF Batch!WaitMake, BatchTypes, PairInv
      <3>3. QED
        BY <3>1, <3>2 DEF BatchInv
    <2>5. CASE Batch!WaitFind(i)
      <3>1. BatchTypes'
        BY <2>1, <2>5 DEF Batch!WaitFind, BatchTypes
      <3>2. ASSUME NEW j \in Ids PROVE PairInv(j)'
        BY <2>1, <2>5 DEF Batch!WaitFind, BatchTypes, PairInv
      <3>3. QED
        BY <3>1, <3>2 DEF BatchInv
    <2>6. CASE Batch!WaitReady(i) \/ Batch!WaitTimeout(i)
      <3>1. BatchTypes'
        BY <2>1, <2>6 DEF Batch!WaitReady, Batch!WaitTimeout, BatchTypes
      <3>2. ASSUME NEW j \in Ids PROVE PairInv(j)'
        BY <2>1, <2>6 DEF Batch!WaitReady, Batch!WaitTimeout, BatchTypes, PairInv
      <3>3. QED
        BY <3>1, <3>2 DEF BatchInv
    <2>7. CASE Batch!NotifyCount(i)
      <3>1. BatchTypes'
        BY <2>1, <2>7 DEF Batch!NotifyCount, BatchTypes
      <3>2. ASSUME NEW j \in Ids PROVE PairInv(j)'
        BY <2>1, <2>7 DEF Batch!NotifyCount, BatchTypes, PairInv
      <3>3. QED
        BY <3>1, <3>2 DEF BatchInv
    <2>8. CASE Batch!NotifyMake(i)
      <3>1. BatchTypes'
        BY <2>1, <2>2, <2>8 DEF Batch!NotifyMake, BatchTypes
      <3>2. ASSUME NEW j \in Ids PROVE PairInv(j)'
        BY <2>1, <2>2, <2>8 DEF Batch!NotifyMake, BatchTypes, PairInv
      <3>3. QED
        BY <3>1, <3>2 DEF BatchInv
    <2>9. CASE Batch!NotifySet(i)
      <3>1. BatchTypes'
        BY <2>1, <2>9 DEF Batch!NotifySet, BatchTypes
      <3>2. ASSUME NEW j \in Ids PROVE PairInv(j)'
        BY <2>1, <2>9 DEF Batch!NotifySet, BatchTypes, PairInv
      <3>3. QED
        BY <3>1, <3>2 DEF BatchInv
    <2>10. QED
      BY <1>2, <2>3, <2>4, <2>5, <2>6, <2>7, <2>8, <2>9 DEF Batch!Wait, Batch!Notify
  <1>3. QED
    BY <1>1, <1>2 DEF Batch!Next

\* No object is in the map at first.
LEMMA BatchStarts ==
    ASSUME Batch!Init
    PROVE  BatchInv
  BY DEF Batch!Init, BatchInv, BatchTypes, PairInv
-----------------------------------------------------------------------------
(* The theorems *)

\* Both invariants hold, whichever the behaviour is about.
LEMMA AnswersInvariant == AnswersSpec => [](SyncerInv /\ BatchInv)
  <1>1. AnswersInit => SyncerInv /\ BatchInv
    BY SyncerStarts, BatchStarts DEF AnswersInit
  <1>2. SyncerInv /\ BatchInv /\ [AnswersNext]_<<unit, vars, batchVars>> => (SyncerInv /\ BatchInv)'
    <2> SUFFICES ASSUME SyncerInv, BatchInv, [AnswersNext]_<<unit, vars, batchVars>>
                 PROVE  SyncerInv' /\ BatchInv'
      OBVIOUS
    <2>1. [Next]_vars /\ [Batch!Next]_Batch!vars
      BY DEF AnswersNext, batchVars, Batch!vars
    <2>2. QED
      BY <2>1, SyncerKeeps, BatchKeeps
  <1>3. QED
    BY <1>1, <1>2, PTL DEF AnswersSpec

\* async_result_syncer.h, with any number of waits and of notifiers: one
\* answer meets no undefined behaviour, the waiter's reference is the entry in
\* the map, and a late answer is returned by the next wait.  synchronizer.h,
\* with any number of ids: a thread waits on the object in the map unless both
\* threads had found the id absent.
THEOREM AnswersCorrect == AnswersSpec => []AnswersSafe
  <1>1. SyncerInv /\ BatchInv => AnswersSafe
    <2> SUFFICES ASSUME SyncerInv, BatchInv PROVE AnswersSafe
      OBVIOUS
    <2>1. TypeOK /\ NoUndefined /\ WaiterRefLive /\ LateAnswerKept
      BY DEF SyncerInv, NotifierInv, WaiterInv, NoUndefined, WaiterRefLive, LateAnswerKept
    <2>2. Batch!WaitsOnCurrent
      BY DEF BatchInv, PairInv, Batch!WaitsOnCurrent
    <2>3. QED
      BY <2>1, <2>2 DEF AnswersSafe
  <1>2. QED
    BY <1>1, AnswersInvariant, PTL

\* When the notifier has left SyncData::set, the wait that returns its answer
\* leaves no SyncData of the id behind, however many answers there are.
THEOREM ErasedCorrect == AnswersSpec => ErasedWhenAnswered
  <1>1. SyncerInv /\ [AnswersNext]_<<unit, vars, batchVars>>
            => [(wpc = "remove" /\ wpc' = "idle" /\ npc[val[wref]] = "done") => entry' = 0]_vars
    <2> SUFFICES ASSUME SyncerInv, [AnswersNext]_<<unit, vars, batchVars>>,
                        wpc = "remove", wpc' = "idle", npc[val[wref]] = "done"
                 PROVE  entry' = 0
      OBVIOUS
    <2>1. Next
      BY DEF AnswersNext, vars, waitVars
    <2>2. ub = "no"
      BY <2>1 DEF Next
    <2>3. WaitRemove
      BY <2>1 DEF Next, WaitCreate, WaitStep, WaitFind, WaitReady, WaitTimeout, WaitGet, notify,
                  NotifyCreate, NotifyFind, NotifyTest, NotifySet, NotifyMark, Dangling, SetTwice, Fault,
                  waitVars
    <2>4. QED
      BY <2>2, <2>3, WaitRemoveKeeps
  <1>2. QED
    BY <1>1, AnswersInvariant, PTL DEF AnswersSpec, ErasedWhenAnswered
=============================================================================
