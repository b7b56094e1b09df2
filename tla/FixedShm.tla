------------------------------ MODULE FixedShm ------------------------------
(***************************************************************************)
(* basic/fixed_shm.h: an object that owns a descriptor (fd_) and a mapping *)
(* (data_) of one file.  Objects are made, opened, mapped, moved, closed   *)
(* and destroyed; a process may crash and start again with the file it     *)
(* left.  Descriptors and mappings are numbered in the order the system    *)
(* hands them out.                                                         *)
(***************************************************************************)
EXTENDS Integers, FiniteSets

CONSTANTS
    Objects,
    Sizes,          \* the sizes the objects are made with, in pages
    MaxFd           \* bound: descriptors and mappings made

Null == 0
MapFailed == 0 - 1          \* (void *)-1

VARIABLES
    file,       \* pages in the file, or NoFile
    first,      \* the size of the object that made the file
    obj,        \* object -> [alive, size, fd, data, opening]
    fds, maps,  \* descriptors open and mappings present in the process
    made,       \* how many of them were made
    shut,       \* descriptors on which close() was called by a user
    twice,      \* descriptors and mappings released a second time
    faults,     \* sizes of mappings with a page past the end of the file
    cut         \* the file was made, and a crash or an error came before it
                \* was extended

vars == <<file, first, obj, fds, maps, made, shut, twice, faults, cut>>

NoFile == 0 - 1
Fresh(n) == [alive |-> TRUE, size |-> n, fd |-> -1, data |-> Null, opening |-> FALSE]
Gone == [Fresh(0) EXCEPT !.alive = FALSE]

Init ==
    /\ file = NoFile /\ first = 0
    /\ obj = [o \in Objects |-> Gone]
    /\ fds = {} /\ maps = {} /\ made = 0 /\ shut = {} /\ twice = {} /\ faults = {} /\ cut = FALSE

Usable(o) == obj[o].alive /\ \A x \in Objects : ~obj[x].opening

Construct(o) == \E n \in Sizes :
    /\ ~obj[o].alive /\ \A x \in Objects : ~obj[x].opening
    /\ obj' = [obj EXCEPT ![o] = Fresh(n)]
    /\ UNCHANGED <<file, first, fds, maps, made, shut, twice, faults, cut>>

\* access, then ::open with O_CREAT; a new file is still empty.
open(o) ==
    /\ Usable(o) /\ obj[o].fd = -1 /\ made < MaxFd
    /\ \/ /\ obj' = [obj EXCEPT ![o].fd = made + 1, ![o].opening = (file = NoFile)]
          /\ IF file = NoFile THEN file' = 0 /\ first' = obj[o].size
                              ELSE UNCHANGED <<file, first>>
          /\ fds' = fds \cup {made + 1} /\ made' = made + 1
       \/ UNCHANGED <<obj, file, first, fds, made>>     \* ::open fails
    /\ UNCHANGED <<maps, shut, twice, faults, cut>>

OpenNoFill(o) ==
    /\ obj[o].opening
    /\ obj' = [obj EXCEPT ![o].opening = FALSE]
    /\ UNCHANGED <<file, first, fds, maps, made, shut, twice, faults, cut>>
\* A file that did not exist before is extended to size_ (lines 74-77), unless
\* write fails and it stays empty, or lseek does and one byte is written at the
\* start; what they return is not looked at.
OpenFill(o) ==
    /\ obj[o].opening
    /\ file' \in IF obj[o].size = 0 THEN {0} ELSE {0, 1, obj[o].size}
    /\ cut' = (cut \/ file' < obj[o].size)
    /\ obj' = [obj EXCEPT ![o].opening = FALSE]
    /\ UNCHANGED <<first, fds, maps, made, shut, twice, faults>>

\* mmap, which fails on a closed descriptor and for no bytes, then touch_pages.
map(o) ==
    /\ Usable(o) /\ made < MaxFd
    /\ IF obj[o].fd \in fds /\ obj[o].size > 0
       THEN /\ obj' = [obj EXCEPT ![o].data = made + 1]
            /\ maps' = maps \cup {made + 1} /\ made' = made + 1
            /\ faults' = faults \cup (IF file < obj[o].size THEN {obj[o].size} ELSE {})
       ELSE /\ obj' = [obj EXCEPT ![o].data = MapFailed]
            /\ UNCHANGED <<maps, made, faults>>
    /\ UNCHANGED <<file, first, fds, shut, twice, cut>>

UnmappedKeeps(d) == d
\* What unmap does to data_: munmap of MapFailed fails and leaves it alone.
Unmapped(d) == IF d = MapFailed THEN MapFailed ELSE Null
Released(o) ==
    ({obj[o].data} \ (maps \cup {Null, MapFailed})) \cup ({obj[o].fd} \ (fds \cup {-1}))

unmap(o) ==
    /\ Usable(o)
    /\ obj' = [obj EXCEPT ![o].data = Unmapped(@)]
    /\ maps' = maps \ {obj[o].data}
    /\ UNCHANGED <<file, first, fds, made, shut, twice, faults, cut>>

\* unmap, then ::close; fd_ keeps its value.
close(o) ==
    /\ Usable(o)
    /\ obj' = [obj EXCEPT ![o].data = Unmapped(@)]
    /\ maps' = maps \ {obj[o].data} /\ fds' = fds \ {obj[o].fd}
    /\ shut' = shut \cup ({obj[o].fd} \ {-1})
    /\ twice' = twice \cup Released(o)
    /\ UNCHANGED <<file, first, made, faults, cut>>

\* fsync and close.
Destroy(o) ==
    /\ Usable(o)
    /\ obj' = [obj EXCEPT ![o] = Gone]
    /\ maps' = maps \ {obj[o].data} /\ fds' = fds \ {obj[o].fd}
    /\ twice' = twice \cup Released(o)
    /\ UNCHANGED <<file, first, made, shut, faults, cut>>

\* The move constructor (o not alive before) and the move assignment.
MoveKeepsFd(o, rhs) ==
    /\ o # rhs /\ Usable(rhs)
    /\ obj' = [obj EXCEPT ![o] = obj[rhs], ![rhs].data = Null]
    /\ UNCHANGED <<file, first, fds, maps, made, shut, twice, faults, cut>>
Move(o, rhs) ==
    /\ o # rhs /\ Usable(rhs)
    /\ obj' = [obj EXCEPT ![o] = obj[rhs], ![rhs] = Fresh(@.size)]
    /\ UNCHANGED <<file, first, fds, maps, made, shut, twice, faults, cut>>

\* The process dies and starts again: only the file remains.
Crash ==
    /\ cut' = (cut \/ \E o \in Objects : obj[o].opening)
    /\ obj' = [o \in Objects |-> Gone]
    /\ fds' = {} /\ maps' = {}
    /\ UNCHANGED <<file, first, made, shut, twice, faults>>

Next ==
    \/ Crash
    \/ \E o \in Objects :
        \/ Construct(o) \/ open(o) \/ OpenFill(o) \/ map(o) \/ unmap(o)
        \/ close(o) \/ Destroy(o)
        \/ \E rhs \in Objects : Move(o, rhs)

Spec == Init /\ [][Next]_vars

-----------------------------------------------------------------------------
(* Properties. *)

\* However objects are moved and destroyed, a mapping or a descriptor is
\* released once.  The exception is a descriptor that a user closed: close()
\* keeps fd_ (line 88), and the destructor closes it again.
ReleasedOnce == twice \subseteq shut

\* An object whose data_ is a mapping has that mapping, and has it alone:
\* writeto and readfrom check nothing but a null pointer (lines 128, 141).
MappingOwned ==
    \A o \in Objects : obj[o].data > Null =>
        /\ obj[o].data \in maps
        /\ \A x \in Objects \ {o} : obj[x].data # obj[o].data

\* test_shm.cpp:33-34: after an open that succeeded, map gives usable memory,
\* also after a crash and a restart, with two exceptions, for a file that exists
\* is never extended (lines 64-77): one made by a smaller object, and one that
\* a crash or an error that open does not look at left unextended.
MapUsable == \A n \in faults : n > first \/ cut
=============================================================================
