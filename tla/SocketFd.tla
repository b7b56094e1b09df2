------------------------------ MODULE SocketFd ------------------------------
(***************************************************************************)
(* Who owns which descriptor: the endpoints of network/io/bsd (rx_bsd_mcbc *)
(* and tx_bsd_mcbc), net_io with the acceptor and the accepted or          *)
(* connecting tcp_conn, and other code of the process that opens and       *)
(* closes properly.  All share the table of the process, in which a number *)
(* that was closed is given to the next who asks.                          *)
(***************************************************************************)
EXTENDS Integers, FiniteSets, FiniteSetsExt

CONSTANTS
    Rx, Tx, Io, Other,      \* the objects of each class
    MaxFd,                  \* bound: the size of the descriptor table
    Nobody                  \* the owner of a number that is free

Objects == Rx \cup Tx \cup Io \cup Other
Fds == 0 .. MaxFd - 1
NoFd == -1

VARIABLES
    table,      \* the owner of each open descriptor
    fd_,        \* the member of each object
    foreign     \* the first object that closed a descriptor of another one

vars == <<table, fd_, foreign>>

Init ==
    /\ table = [fd \in Fds |-> Nobody]
    /\ fd_ = [x \in Objects |-> NoFd]
    /\ foreign = {}

\* ::socket and ::accept give the lowest free number, or fail.
Free == {fd \in Fds : table[fd] = Nobody}
Socket(x) ==
    IF Free = {}
    THEN fd_' = [fd_ EXCEPT ![x] = NoFd] /\ UNCHANGED table
    ELSE /\ fd_' = [fd_ EXCEPT ![x] = Min(Free)]
         /\ table' = [table EXCEPT ![Min(Free)] = x]

\* ::close of the number that x has.
Close(x) ==
    /\ table' = [table EXCEPT ![fd_[x]] = Nobody]
    /\ foreign' = IF foreign = {} /\ table[fd_[x]] \notin {x, Nobody} THEN {x} ELSE foreign

\* open of a receiver.  Whatever fails after ::socket, fd_ stays.
RxOpen(x) == Socket(x) /\ UNCHANGED foreign

\* close, also from the destructor of the base class: fd_ is not reset.
RxClose(x) ==
    /\ fd_[x] # NoFd
    /\ Close(x)
    /\ UNCHANGED fd_

\* A receiver is destroyed and another constructed in its place.
RxDestroy(x) ==
    /\ IF fd_[x] = NoFd THEN UNCHANGED <<table, foreign>> ELSE Close(x)
    /\ fd_' = [fd_ EXCEPT ![x] = NoFd]

TxOpen(x) == Socket(x) /\ UNCHANGED foreign

TxCloseKeeps(x) ==
    /\ fd_[x] # NoFd
    /\ Close(x)
    /\ UNCHANGED fd_
TxClose(x) ==
    /\ fd_[x] # NoFd
    /\ Close(x)
    /\ fd_' = [fd_ EXCEPT ![x] = NoFd]

\* tx has no destructor: the descriptor stays open.
TxDestroy(x) ==
    /\ fd_' = [fd_ EXCEPT ![x] = NoFd]
    /\ UNCHANGED <<table, foreign>>

\* net_io::create, under the acceptor's init and Impl::connect, and the
\* assignment of an accepted descriptor to a new tcp_conn.  What bind, listen
\* or connect then say changes no descriptor.
create(x) == Socket(x) /\ UNCHANGED foreign
OnRead(x) == fd_[x] = NoFd /\ Free # {} /\ create(x)

\* net_io::close closes only a descriptor below 0; terminate and the
\* destructor call it, so they release nothing.
IoCloseBelow(x) == UNCHANGED table
IoDestroy(x) ==
    /\ IoCloseBelow(x)
    /\ fd_' = [fd_ EXCEPT ![x] = NoFd]
    /\ UNCHANGED foreign

OtherOpen(x) == fd_[x] = NoFd /\ Socket(x) /\ UNCHANGED foreign
OtherClose(x) ==
    /\ fd_[x] # NoFd /\ Close(x)
    /\ fd_' = [fd_ EXCEPT ![x] = NoFd]

Next ==
    \/ \E x \in Rx : RxOpen(x) \/ RxClose(x) \/ RxDestroy(x)
    \/ \E x \in Tx : TxOpen(x) \/ TxClose(x) \/ TxDestroy(x)
    \/ \E x \in Io : create(x) \/ OnRead(x) \/ IoDestroy(x)
    \/ \E x \in Other : OtherOpen(x) \/ OtherClose(x)

Spec == Init /\ [][Next]_vars

\* The first to close what is not its own is a receiver; until then every other
\* object holds a descriptor that is open and its own: reopening, destroying
\* and failing may lose descriptors but never hand one to two objects.
HeldIsOwn ==
    /\ foreign \subseteq Rx
    /\ foreign = {} => \A x \in Objects \ Rx : fd_[x] # NoFd => table[fd_[x]] = x
=============================================================================
