------------------------------- MODULE TcpSend -------------------------------
(***************************************************************************)
(* The send path of core/tcp_conn.cpp: send_msg of the application threads *)
(* and OnSend of the loop thread, over a byte stream whose send() may take *)
(* part of what it is given.  Every step runs under _lck of the            *)
(* connection.  _wait_snds is the queue LossyFifo specifies (NgxQueue      *)
(* implements it).  The i-th byte of the m-th message that send_msg        *)
(* answered with 0 is <<m, i>>.                                            *)
(***************************************************************************)
EXTENDS Integers, Sequences

CONSTANTS
    MaxLen,     \* bound: the length of a message
    MaxMsg,     \* bound: how many messages are accepted
    MaxAgain,   \* bound: how often send() in OnSend reports EAGAIN
    nalloc,     \* the capacity of _wait_snds
    SizeMod,    \* size_t counts modulo this (2^64 in the code)
    NULL        \* no buffer

ASSUME LenAssumption == MaxLen \in Nat \ {0} /\ SizeMod \in Nat /\ SizeMod > MaxLen + 1
ASSUME CountAssumption == MaxMsg \in Nat /\ MaxAgain \in Nat
ASSUME QueueAssumption == nalloc \in Nat \ {0}

Msg == 1 .. MaxMsg
ASSUME MsgAssumption == NULL \notin Msg

VARIABLES
    len,            \* the lengths of the accepted messages, in order
    wire,           \* the bytes the socket took
    sndbuf,         \* _snd_buf: the message it holds, or NULL
    sndlen,         \* _snd_len
    wait, drained, qres,    \* _wait_snds, see LossyFifo
    wt,             \* is the connection in wt_fds of this pass of loop()?
    brk,            \* _brk_tm # 0
    again           \* how often OnSend met EAGAIN

queueVars == <<wait, drained, qres>>
vars == <<len, wire, sndbuf, sndlen, queueVars, wt, brk, again>>

Queue == INSTANCE LossyFifo WITH Elem <- Msg, q <- wait, result <- qres

Init ==
    /\ len = <<>> /\ wire = <<>>
    /\ sndbuf = NULL /\ sndlen = 0
    /\ Queue!Init
    /\ wt = FALSE /\ brk = FALSE
    /\ again = 0

\* The number of the next accepted message.
Fresh == Len(len) + 1

Bytes(m, from, k) == [i \in 1 .. k |-> <<m, from + i>>]
-----------------------------------------------------------------------------
(* send_msg *)

\* A copy of the message goes to the end of the queue.
Enqueue(n) ==
    /\ Queue!Accept(Fresh)
    /\ len' = Append(len, n)

\* Something is waiting already: the message goes behind it.
SendBehind(n) ==
    /\ ~brk /\ Fresh \in Msg
    /\ sndbuf # NULL \/ wait # <<>>
    /\ Enqueue(n)
    /\ UNCHANGED <<wire, sndbuf, sndlen, wt, brk, again>>

\* The queue is full: -1, and the message is not taken.
SendRefused ==
    /\ ~brk /\ Fresh \in Msg
    /\ sndbuf # NULL \/ wait # <<>>
    /\ Queue!Refuse(Fresh)
    /\ UNCHANGED <<len, wire, sndbuf, sndlen, wt, brk, again>>

\* Mutant of SendNow: a message that overtakes the queue.
SendNowOvertakes(n, k) ==
    /\ ~brk /\ Fresh \in Msg
    /\ sndbuf = NULL
    /\ len' = Append(len, n)
    /\ wire' = wire \o Bytes(Fresh, 0, k)
    /\ IF k < n
       THEN sndbuf' = Fresh /\ sndlen' = k
       ELSE UNCHANGED <<sndbuf, sndlen>>
    /\ UNCHANGED <<queueVars, wt, brk, again>>

\* send() takes k of the n bytes; the rest is kept in _snd_buf.
SendNow(n, k) ==
    /\ ~brk /\ Fresh \in Msg
    /\ sndbuf = NULL /\ wait = <<>>
    /\ len' = Append(len, n)
    /\ wire' = wire \o Bytes(Fresh, 0, k)
    /\ IF k < n
       THEN sndbuf' = Fresh /\ sndlen' = k
       ELSE UNCHANGED <<sndbuf, sndlen>>
    /\ UNCHANGED <<queueVars, wt, brk, again>>

\* send() reports EAGAIN: the whole message is queued.
SendAgain(n) ==
    /\ ~brk /\ Fresh \in Msg
    /\ sndbuf = NULL /\ wait = <<>>
    /\ Enqueue(n)
    /\ UNCHANGED <<wire, sndbuf, sndlen, wt, brk, again>>

\* terminate, called by send_msg after a failed send(), or by any other holder
\* of the connection.
Terminate ==
    /\ ~brk
    /\ brk' = TRUE
    /\ UNCHANGED <<len, wire, sndbuf, sndlen, queueVars, wt, again>>
-----------------------------------------------------------------------------
(* The loop thread *)

\* Mutant of Snapshot: a half sent buffer counts too.
SnapshotAll ==
    /\ ~brk
    /\ wt' = (wait # <<>> \/ sndbuf # NULL)
    /\ UNCHANGED <<len, wire, sndbuf, sndlen, queueVars, brk, again>>

\* loop(): only a connection with queued messages is watched for writing.
\* terminate takes the connection out of the loop.
Snapshot ==
    /\ ~brk
    /\ wt' = (wait # <<>>)
    /\ UNCHANGED <<len, wire, sndbuf, sndlen, queueVars, brk, again>>

\* Mutant of OnSendIdle: with nothing half sent the next message is taken
\* out of the queue.
OnSendTakes ==
    /\ wt /\ sndbuf = NULL
    /\ Queue!GetFirst
    /\ sndbuf' = Head(wait) /\ sndlen' = 0
    /\ wt' = FALSE
    /\ UNCHANGED <<len, wire, brk, again>>

\* OnSend that sends nothing.  Without _snd_buf it returns when the queue is
\* not empty, and else gets NULL from the queue; with it, a _snd_len that
\* wrapped around is not below the length.
OnSendIdle ==
    /\ wt
    /\ sndbuf # NULL => len[sndbuf] <= sndlen
    /\ wt' = FALSE
    /\ UNCHANGED <<len, wire, sndbuf, sndlen, queueVars, brk, again>>

\* Mutant of OnSendSome: the finished buffer is not freed.
OnSendKeeps(k) ==
    /\ wt /\ sndbuf # NULL
    /\ sndlen + k <= len[sndbuf]
    /\ wire' = wire \o Bytes(sndbuf, sndlen, k)
    /\ sndlen' = sndlen + k
    /\ wt' = FALSE
    /\ UNCHANGED <<len, sndbuf, queueVars, brk, again>>

\* OnSend continues with the rest of _snd_buf; send() takes k bytes of it.
OnSendSome(k) ==
    /\ wt /\ sndbuf # NULL
    /\ sndlen + k <= len[sndbuf]
    /\ wire' = wire \o Bytes(sndbuf, sndlen, k)
    /\ IF sndlen + k = len[sndbuf]
       THEN sndbuf' = NULL /\ sndlen' = 0
       ELSE sndlen' = sndlen + k /\ UNCHANGED sndbuf
    /\ wt' = FALSE
    /\ UNCHANGED <<len, queueVars, brk, again>>

\* Mutant of OnSendAgain: _snd_len as a signed number.
OnSendAgainSigned ==
    /\ again < MaxAgain
    /\ wt /\ sndbuf # NULL
    /\ sndlen < len[sndbuf]
    /\ sndlen' = sndlen - 1
    /\ wt' = FALSE
    /\ again' = again + 1
    /\ UNCHANGED <<len, wire, sndbuf, queueVars, brk>>

\* Mutant of OnSendAgain: the -1 of send() taken for a byte.
OnSendAgainUp ==
    /\ again < MaxAgain
    /\ wt /\ sndbuf # NULL
    /\ sndlen < len[sndbuf]
    /\ sndlen' = sndlen + 1
    /\ wt' = FALSE
    /\ again' = again + 1
    /\ UNCHANGED <<len, wire, sndbuf, queueVars, brk>>

\* send() reports EAGAIN or EINTR: its -1 is added to _snd_len.
OnSendAgain ==
    /\ again < MaxAgain
    /\ wt /\ sndbuf # NULL
    /\ sndlen < len[sndbuf]
    /\ sndlen' = (sndlen - 1) % SizeMod
    /\ wt' = FALSE
    /\ again' = again + 1
    /\ UNCHANGED <<len, wire, sndbuf, queueVars, brk>>

\* send() fails, or takes nothing: terminate.
OnSendBroken ==
    /\ wt /\ sndbuf # NULL
    /\ sndlen < len[sndbuf]
    /\ brk' = TRUE
    /\ wt' = FALSE
    /\ UNCHANGED <<len, wire, sndbuf, sndlen, queueVars, again>>
-----------------------------------------------------------------------------
SendMsg ==
    \/ \E n \in 1 .. MaxLen : SendBehind(n) \/ SendAgain(n) \/ \E k \in 1 .. n : SendNow(n, k)
    \/ SendRefused

OnSend == OnSendIdle \/ (\E k \in 1 .. MaxLen : OnSendSome(k)) \/ OnSendAgain \/ OnSendBroken

Next == SendMsg \/ Terminate \/ Snapshot \/ OnSend

Spec == Init /\ [][Next]_vars

\* The loop keeps passing and the peer keeps reading.
Fairness == WF_vars(Snapshot /\ ~wt) /\ WF_vars(OnSend)

FairSpec == Spec /\ Fairness
-----------------------------------------------------------------------------
TypeOK ==
    /\ len \in Seq(1 .. MaxLen) /\ Len(len) <= MaxMsg
    /\ wire \in Seq(Msg \X (1 .. MaxLen))
    /\ sndbuf \in Msg \cup {NULL} /\ sndlen \in 0 .. SizeMod - 1
    /\ wait \in Seq(Msg) /\ drained \in BOOLEAN
    /\ wt \in BOOLEAN /\ brk \in BOOLEAN
    /\ again \in 0 .. MaxAgain

\* The byte that follows b in the stream of messages of the lengths l.
Succ(l, b) == IF b[2] < l[b[1]] THEN <<b[1], b[2] + 1>> ELSE <<b[1] + 1, 1>>

\* The peer reads a prefix of the accepted messages, whole and in order, as
\* long as send() does not report EAGAIN to OnSend.
StreamPrefix ==
    again = 0 =>
        /\ wire # <<>> => wire[1] = <<1, 1>>
        /\ \A j \in 1 .. Len(wire) - 1 : wire[j + 1] = Succ(len, wire[j])

\* EAGAIN makes OnSend send bytes a second time, but never skip one: each
\* byte on the wire is the first of all or follows one sent before it.
StreamNoGap ==
    \A j \in 1 .. Len(wire) :
        wire[j] = <<1, 1>> \/ \E i \in 1 .. j - 1 : wire[j] = Succ(len, wire[i])

\* _wait_snds is never taken from, so its overflow is a refusal (LossyFifo!
\* Refuse) and never the silent loss of the backlog (LossyFifo!Forget).
NeverDrained == ~drained

\* What tcp_conn keeps true of the stream, the cursor and the queue.
SendSafe == TypeOK /\ StreamPrefix /\ StreamNoGap /\ NeverDrained

\* Once a message waits and no buffer is half sent, nothing is ever sent
\* again: OnSend returns because the queue is not empty, and send_msg queues
\* every message behind it.
WedgedForever ==
    [][sndbuf = NULL /\ wait # <<>> => sndbuf' = NULL /\ wait' # <<>> /\ UNCHANGED wire]_vars

\* The rest of a half sent message leaves only after a later message was
\* queued: loop() asks wait_sndmsg_size, which does not count _snd_buf.
TailWaits == [][sndbuf # NULL /\ wait = <<>> => UNCHANGED <<wire, sndbuf, sndlen>>]_vars

\* With a message queued behind it, a half sent message is completed, or the
\* connection is broken, or EAGAIN took _snd_len below 0.
PartCompletes ==
    \A m \in Msg : (sndbuf = m /\ wait # <<>>) ~> (sndbuf # m \/ brk \/ again > 0)
=============================================================================
