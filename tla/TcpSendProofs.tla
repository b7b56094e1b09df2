---------------------------- MODULE TcpSendProofs ----------------------------
(***************************************************************************)
(* For every bound on the messages, every capacity of _wait_snds and every *)
(* width of size_t: the bytes tcp_conn gives to the socket are the         *)
(* accepted messages in order, without a gap, and the two ways in which it *)
(* stops sending are permanent as TcpSend states them.                     *)
(***************************************************************************)
EXTENDS TcpSend, SequenceTheorems, TLAPS

USE LenAssumption, CountAssumption DEF Msg

\* A byte of an accepted message.
Byte == Msg \X (1 .. MaxLen)

\* How many of the accepted messages have left _wait_snds' reach: they were
\* given to send() at once, whole or in part.
Started == Len(len) - Len(wait)

\* Is byte i of message m among the bytes w?
OnWire(w, m, i) == \E j \in 1 .. Len(w) : w[j] = <<m, i>>

\* The queue holds the youngest messages in order, and _snd_buf the one
\* before them.
QueueInOrder ==
    /\ Started \in Nat
    /\ \A i \in 1 .. Len(wait) : wait[i] = Started + i
    /\ sndbuf # NULL => sndbuf = Started /\ Started # 0

\* Only bytes of started messages are on the wire.
WireStarted ==
    \A j \in 1 .. Len(wire) : wire[j][1] \in 1 .. Started /\ wire[j][2] \in 1 .. len[wire[j][1]]

\* Every message before _snd_buf was sent whole, and _snd_buf up to the
\* cursor _snd_len, wherever EAGAIN took it.
SentUpToCursor ==
    \A m \in 1 .. Started : \A i \in 1 .. len[m] :
        m < Started \/ sndbuf = NULL \/ (i <= sndlen /\ sndlen < len[m]) => OnWire(wire, m, i)

\* Without EAGAIN the last byte on the wire is the one before the cursor.
LastByte ==
    again = 0 =>
        /\ sndbuf # NULL => 0 < sndlen /\ sndlen < len[sndbuf]
        /\ IF Started = 0 THEN wire = <<>>
           ELSE /\ wire # <<>>
                /\ wire[Len(wire)] = <<Started, IF sndbuf = NULL THEN len[Started] ELSE sndlen>>

\* The inductive invariant.
SendInv ==
    /\ SendSafe
    /\ QueueInOrder
    /\ WireStarted
    /\ SentUpToCursor
    /\ LastByte
-----------------------------------------------------------------------------
\* A byte is its message and its place in it.
LEMMA ByteParts ==
    ASSUME NEW b \in Byte
    PROVE  b = <<b[1], b[2]>> /\ b[1] \in Msg /\ b[2] \in 1 .. MaxLen
  BY DEF Byte

\* After the last byte of a message comes the first of the next.
LEMMA SuccEnd ==
    ASSUME NEW l, NEW p \in Nat, l[p] \in Nat
    PROVE  Succ(l, <<p, l[p]>>) = <<p + 1, 1>>
  BY DEF Succ

\* Inside a message comes the next byte of it.
LEMMA SuccInside ==
    ASSUME NEW l, NEW p \in Nat, NEW i \in Nat, l[p] \in Nat, i < l[p]
    PROVE  Succ(l, <<p, i>>) = <<p, i + 1>>
  BY DEF Succ

\* The bytes given to send().
LEMMA BytesType ==
    ASSUME NEW m \in Msg, NEW from \in Nat, NEW k \in Nat, from + k <= MaxLen
    PROVE  /\ Bytes(m, from, k) \in Seq(Byte)
           /\ Len(Bytes(m, from, k)) = k
           /\ \A i \in 1 .. k : Bytes(m, from, k)[i] = <<m, from + i>>
  <1>1. \A i \in 1 .. k : <<m, from + i>> \in Byte
    BY LenAssumption DEF Byte
  <1>2. QED
    BY <1>1 DEF Bytes

\* send() takes k bytes of message m, after the first from ones.
Takes(m, from, k) == wire' = wire \o Bytes(m, from, k)

\* What appending bytes does to the wire.
LEMMA WireAppended ==
    ASSUME wire \in Seq(Byte),
           NEW m \in Msg, NEW from \in Nat, NEW k \in Nat \ {0}, from + k <= MaxLen,
           Takes(m, from, k)
    PROVE  /\ wire' \in Seq(Byte)
           /\ Len(wire') = Len(wire) + k
           /\ \A j \in 1 .. Len(wire) : wire'[j] = wire[j]
           /\ \A i \in 1 .. k : wire'[Len(wire) + i] = <<m, from + i>>
  <1> DEFINE b == Bytes(m, from, k)
  <1>1. b \in Seq(Byte) /\ Len(b) = k /\ \A i \in 1 .. k : b[i] = <<m, from + i>>
    BY BytesType
  <1>2. wire' = wire \o b
    BY DEF Takes
  <1> HIDE DEF b
  <1>3. /\ wire \o b \in Seq(Byte)
        /\ Len(wire \o b) = Len(wire) + k
        /\ \A i \in 1 .. Len(wire) + k : (wire \o b)[i] = IF i <= Len(wire) THEN wire[i] ELSE b[i - Len(wire)]
    BY <1>1, ConcatProperties
  <1>4. Len(wire) \in Nat
    OBVIOUS
  <1>5. \A i \in 1 .. k : (wire \o b)[Len(wire) + i] = b[i]
    BY <1>3, <1>4
  <1>6. QED
    BY <1>1, <1>2, <1>3, <1>4, <1>5

\* A step that accepts messages changes no length of an earlier one.
LenGrows ==
    /\ len' \in Seq(1 .. MaxLen)
    /\ Len(len) <= Len(len')
    /\ \A j \in 1 .. Len(len) : len'[j] = len[j]

\* The byte after the first from bytes of m follows a byte on the wire, and
\* without EAGAIN the last one.
Follows(m, from) ==
    /\ IF from = 0 THEN m = 1 \/ \E p \in 1 .. Len(len) : m = p + 1 /\ OnWire(wire, p, len[p])
                   ELSE OnWire(wire, m, from)
    /\ again = 0 => IF wire = <<>> THEN m = 1 /\ from = 0
                                  ELSE <<m, from + 1>> = Succ(len', wire[Len(wire)])

\* Bytes appended at the right place keep the stream in order and without a
\* gap.
LEMMA StreamExtends ==
    ASSUME TypeOK, StreamPrefix, StreamNoGap, WireStarted, LenGrows,
           NEW m \in Msg, NEW from \in Nat, NEW k \in Nat \ {0}, Follows(m, from),
           Takes(m, from, k), again' = again,
           m \in 1 .. Len(len'), from + k <= len'[m],
           Started \in Nat, m = Started', Started <= Started'
    PROVE  /\ wire' \in Seq(Byte)
           /\ StreamPrefix'
           /\ StreamNoGap'
           /\ WireStarted'
  <1>0. len'[m] \in 1 .. MaxLen /\ \A j \in 1 .. Len(len') : len'[j] \in 1 .. MaxLen
    BY DEF LenGrows
  <1>1. /\ len \in Seq(1 .. MaxLen) /\ Len(len) \in Nat
        /\ \A j \in 1 .. Len(len) : len[j] \in 1 .. MaxLen
        /\ wire \in Seq(Byte) /\ Len(wire) \in Nat
        /\ Started <= Len(len)
    <2>1. len \in Seq(1 .. MaxLen) /\ wire \in Seq(Byte) /\ wait \in Seq(Msg)
      BY DEF TypeOK, Byte
    <2>2. Started <= Len(len)
      BY <2>1 DEF Started
    <2>3. QED
      BY <2>1, <2>2, SMTT(30)
  <1>2. /\ wire' \in Seq(Byte)
        /\ Len(wire') = Len(wire) + k
        /\ \A j \in 1 .. Len(wire) : wire'[j] = wire[j]
        /\ \A i \in 1 .. k : wire'[Len(wire) + i] = <<m, from + i>>
    <2>1. from + k <= MaxLen
      BY <1>0, LenAssumption
    <2>2. QED
      BY <1>1, <2>1, WireAppended
  <1>3. \A j \in 1 .. Len(wire) :
           /\ wire[j] \in Byte
           /\ wire[j][1] \in 1 .. Len(len) /\ wire[j][1] \in 1 .. Started'
           /\ wire[j][2] \in 1 .. len'[wire[j][1]]
           /\ Succ(len', wire'[j]) = Succ(len, wire[j])
    <2> SUFFICES ASSUME NEW j \in 1 .. Len(wire)
                 PROVE  /\ wire[j] \in Byte
                        /\ wire[j][1] \in 1 .. Len(len) /\ wire[j][1] \in 1 .. Started'
                        /\ wire[j][2] \in 1 .. len'[wire[j][1]]
                        /\ Succ(len', wire'[j]) = Succ(len, wire[j])
      OBVIOUS
    <2>1. wire[j][1] \in 1 .. Started /\ wire[j][2] \in 1 .. len[wire[j][1]]
      BY DEF WireStarted
    <2>2. wire[j][1] \in 1 .. Len(len) /\ wire[j][1] \in 1 .. Started'
      BY <1>1, <2>1, SMTT(30)
    <2>3. len'[wire[j][1]] = len[wire[j][1]]
      BY <2>2 DEF LenGrows
    <2>4. wire'[j] = wire[j]
      BY <1>2
    <2>5. QED
      BY <1>1, <2>1, <2>2, <2>3, <2>4 DEF Succ
  <1>4. WireStarted'
    <2> SUFFICES ASSUME NEW j \in 1 .. Len(wire')
                 PROVE  wire'[j][1] \in 1 .. Started' /\ wire'[j][2] \in 1 .. len'[wire'[j][1]]
      BY DEF WireStarted
    <2>1. CASE j \in 1 .. Len(wire)
      BY <1>2, <1>3, <2>1
    <2>2. CASE j \notin 1 .. Len(wire)
      <3>0. j - Len(wire) \in 1 .. k /\ j = Len(wire) + (j - Len(wire))
        BY <1>1, <1>2, <2>2
      <3>1. PICK i \in 1 .. k : j = Len(wire) + i
        BY <3>0
      <3>2. wire'[j] = <<m, from + i>>
        BY <1>2, <3>1
      <3>3. QED
        BY <3>2, <1>0, SMTT(30)
    <2>3. QED
      BY <2>1, <2>2
  <1>5. \A i \in 1 .. k : i # 1 => wire'[Len(wire) + i] = Succ(len', wire'[Len(wire) + (i - 1)])
    <2> SUFFICES ASSUME NEW i \in 1 .. k, i # 1
                 PROVE  wire'[Len(wire) + i] = Succ(len', wire'[Len(wire) + (i - 1)])
      OBVIOUS
    <2>0. i - 1 \in 1 .. k
      OBVIOUS
    <2>1. wire'[Len(wire) + (i - 1)] = <<m, from + (i - 1)>> /\ wire'[Len(wire) + i] = <<m, from + i>>
      BY <1>2, <2>0
    <2>2. QED
      BY <2>1, <1>0, SMTT(30) DEF Succ
  <1>6. StreamNoGap'
    <2> SUFFICES ASSUME NEW j \in 1 .. Len(wire')
                 PROVE  wire'[j] = <<1, 1>> \/ \E i \in 1 .. j - 1 : wire'[j] = Succ(len', wire'[i])
      BY DEF StreamNoGap
    <2>1. CASE j \in 1 .. Len(wire)
      <3>1. wire[j] = <<1, 1>> \/ \E i \in 1 .. j - 1 : wire[j] = Succ(len, wire[i])
        BY <2>1 DEF StreamNoGap
      <3>2. \A i \in 1 .. j - 1 : Succ(len', wire'[i]) = Succ(len, wire[i])
        BY <1>1, <1>2, <1>3, <2>1
      <3>3. QED
        BY <1>2, <2>1, <3>1, <3>2
    <2>2. CASE j = Len(wire) + 1
      <3>1. wire'[j] = <<m, from + 1>>
        BY <1>1, <1>2, <2>2, SMTT(30)
      <3>2. CASE from = 0 /\ m = 1
        BY <3>1, <3>2
      <3>3. CASE from = 0 /\ m # 1
        <4>0. PICK p \in 1 .. Len(len) : m = p + 1 /\ OnWire(wire, p, len[p])
          BY <3>3 DEF Follows
        <4>1. PICK i \in 1 .. Len(wire) : wire[i] = <<p, len[p]>>
          BY <4>0 DEF OnWire
        <4>2. len'[p] = len[p] /\ len'[p] \in Nat /\ p \in Nat /\ wire'[i] = wire[i]
          <5>1. len'[p] = len[p] /\ len[p] \in 1 .. MaxLen
            BY <1>1 DEF LenGrows
          <5>2. wire'[i] = wire[i]
            BY <1>2
          <5>3. QED
            BY <1>1, <5>1, <5>2, SMTT(30)
        <4>4. Succ(len', wire'[i]) = <<m, 1>>
          <5>1. Succ(len', <<p, len'[p]>>) = <<p + 1, 1>>
            BY <4>2, SuccEnd
          <5>2. QED
            BY <4>0, <4>1, <4>2, <5>1
        <4>3. QED
          BY <1>1, <2>2, <3>1, <3>3, <4>4
      <3>4. CASE from # 0
        <4>1. PICK i \in 1 .. Len(wire) : wire[i] = <<m, from>>
          BY <3>4 DEF OnWire, Follows
        <4>2. Succ(len', wire'[i]) = <<m, from + 1>>
          BY <1>0, <1>2, <4>1, SMTT(30) DEF Succ
        <4>3. QED
          BY <1>1, <2>2, <3>1, <4>2
      <3>5. QED
        BY <3>2, <3>3, <3>4
    <2>3. CASE j \notin 1 .. Len(wire) /\ j # Len(wire) + 1
      <3>0. j - Len(wire) \in 1 .. k /\ j = Len(wire) + (j - Len(wire)) /\ j - Len(wire) # 1
        <4>1. Len(wire') = Len(wire) + k /\ Len(wire) \in Nat
          BY <1>1, <1>2
        <4>2. QED
          BY <4>1, <2>3
      <3>1. PICK i \in 1 .. k : j = Len(wire) + i /\ i # 1
        BY <3>0
      <3>2. Len(wire) + (i - 1) \in 1 .. j - 1
        BY <1>1, <3>1
      <3>3. QED
        BY <1>5, <3>1, <3>2
    <2>4. QED
      BY <2>1, <2>2, <2>3
  <1>7. StreamPrefix'
    <2> SUFFICES ASSUME again = 0
                 PROVE  /\ wire'[1] = <<1, 1>>
                        /\ \A j \in 1 .. Len(wire') - 1 : wire'[j + 1] = Succ(len', wire'[j])
      BY DEF StreamPrefix
    <2>1. wire'[1] = <<1, 1>>
      <3>1. CASE wire = <<>>
        <4>1. Len(wire) = 0 /\ m = 1 /\ from = 0
          BY <3>1 DEF Follows
        <4>2. QED
          BY <1>2, <4>1
      <3>2. CASE wire # <<>>
        <4>1. Len(wire) # 0 /\ wire[1] = <<1, 1>>
          BY <1>1, <3>2, EmptySeq DEF StreamPrefix
        <4>2. QED
          BY <1>1, <1>2, <4>1, SMTT(30)
      <3>3. QED
        BY <3>1, <3>2
    <2>2. ASSUME NEW j \in 1 .. Len(wire') - 1
          PROVE  wire'[j + 1] = Succ(len', wire'[j])
      <3>1. CASE j + 1 \in 1 .. Len(wire)
        <4>1. wire[j + 1] = Succ(len, wire[j])
          BY <1>1, <3>1 DEF StreamPrefix
        <4>2. QED
          BY <1>1, <1>2, <1>3, <3>1, <4>1
      <3>2. CASE j = Len(wire)
        <4>0. Len(wire) \in 1 .. Len(wire) /\ wire # <<>>
          BY <1>1, <3>2
        <4>1. wire # <<>> /\ wire'[j] = wire[Len(wire)] /\ wire'[j + 1] = <<m, from + 1>>
          BY <1>2, <3>2, <4>0
        <4>2. QED
          BY <4>1 DEF Follows
      <3>3. CASE j > Len(wire)
        <4>0. j + 1 - Len(wire) \in 1 .. k /\ j + 1 = Len(wire) + (j + 1 - Len(wire)) /\ j + 1 - Len(wire) # 1
          BY <1>1, <1>2, <3>3, SMTT(30)
        <4>1. PICK i \in 1 .. k : j + 1 = Len(wire) + i /\ i # 1
          BY <4>0
        <4>2. j = Len(wire) + (i - 1)
          BY <1>1, <4>1
        <4>3. QED
          BY <1>5, <4>1, <4>2
      <3>4. QED
        BY <1>1, <1>2, <3>1, <3>2, <3>3
    <2>3. QED
      BY <2>1, <2>2
  <1>8. QED
    BY <1>2, <1>4, <1>6, <1>7
-----------------------------------------------------------------------------
(* The steps *)

\* A message that only joins the queue.
LEMMA EnqueueKeeps ==
    ASSUME SendInv, NEW n \in 1 .. MaxLen, Fresh \in Msg, Enqueue(n),
           UNCHANGED <<wire, sndbuf, sndlen, brk, again>>, wt' \in BOOLEAN
    PROVE  SendInv'
  <1> DEFINE f == Fresh
  <1>1. /\ len \in Seq(1 .. MaxLen) /\ Len(len) \in Nat
        /\ wait \in Seq(Msg) /\ Len(wait) \in Nat
        /\ \A j \in 1 .. Len(len) : len[j] \in 1 .. MaxLen
        /\ f \in Msg /\ f = Len(len) + 1
    BY DEF SendInv, SendSafe, TypeOK, Fresh
  <1>2. len' = Append(len, n) /\ wait' = Append(wait, f) /\ drained' = drained
    BY DEF Enqueue, Queue!Accept
  <1> HIDE DEF f
  <1>3. /\ len' \in Seq(1 .. MaxLen) /\ Len(len') = Len(len) + 1
        /\ \A j \in 1 .. Len(len) : len'[j] = len[j]
        /\ wait' \in Seq(Msg) /\ Len(wait') = Len(wait) + 1
        /\ \A j \in 1 .. Len(wait) : wait'[j] = wait[j]
        /\ wait'[Len(wait) + 1] = f
    BY <1>1, <1>2
  <1>4. Started' = Started /\ Started \in Nat /\ Started <= Len(len)
    BY <1>1, <1>3 DEF Started, SendInv, QueueInOrder
  <1>5. TypeOK'
    BY <1>1, <1>2, <1>3 DEF SendInv, SendSafe, TypeOK, Fresh
  <1>6. QueueInOrder'
    <2>1. ASSUME NEW i \in 1 .. Len(wait') PROVE wait'[i] = Started' + i
      <3>1. CASE i \in 1 .. Len(wait)
        BY <1>3, <1>4, <3>1 DEF SendInv, QueueInOrder
      <3>2. CASE i = Len(wait) + 1
        <4>1. f = Started + i
          BY <1>1, <3>2 DEF Started
        <4>2. QED
          BY <1>3, <1>4, <3>2, <4>1
      <3>3. QED
        BY <1>1, <1>3, <3>1, <3>2
    <2>2. QED
      BY <1>4, <2>1 DEF SendInv, QueueInOrder
  <1>7. \A j \in 1 .. Len(wire) :
           /\ wire[j][1] \in 1 .. Started /\ wire[j][2] \in 1 .. len[wire[j][1]]
           /\ len'[wire[j][1]] = len[wire[j][1]]
           /\ Succ(len', wire[j]) = Succ(len, wire[j])
    <2> SUFFICES ASSUME NEW j \in 1 .. Len(wire)
                 PROVE  /\ wire[j][1] \in 1 .. Started /\ wire[j][2] \in 1 .. len[wire[j][1]]
                        /\ len'[wire[j][1]] = len[wire[j][1]]
                        /\ Succ(len', wire[j]) = Succ(len, wire[j])
      OBVIOUS
    <2>1. wire[j][1] \in 1 .. Started /\ wire[j][2] \in 1 .. len[wire[j][1]]
      BY DEF SendInv, WireStarted
    <2>2. wire[j][1] \in 1 .. Len(len)
      BY <1>1, <1>4, <2>1, SMTT(30)
    <2>3. len'[wire[j][1]] = len[wire[j][1]]
      BY <1>3, <2>2
    <2>4. QED
      BY <2>1, <2>3 DEF Succ
  <1>8. WireStarted'
    BY <1>4, <1>7 DEF WireStarted
  <1>9. Len(wire) \in Nat
    BY DEF SendInv, SendSafe, TypeOK
  <1>10. StreamPrefix'
    <2> SUFFICES ASSUME again = 0, NEW j \in 1 .. Len(wire) - 1
                 PROVE  wire[j + 1] = Succ(len', wire[j])
      BY DEF StreamPrefix, SendInv, SendSafe
    <2>1. wire[j + 1] = Succ(len, wire[j]) /\ j \in 1 .. Len(wire)
      BY <1>9 DEF StreamPrefix, SendInv, SendSafe
    <2>2. QED
      BY <1>7, <2>1
  <1>11. StreamNoGap'
    <2> SUFFICES ASSUME NEW j \in 1 .. Len(wire)
                 PROVE  wire[j] = <<1, 1>> \/ \E i \in 1 .. j - 1 : wire[j] = Succ(len', wire[i])
      BY DEF StreamNoGap
    <2>1. wire[j] = <<1, 1>> \/ \E i \in 1 .. j - 1 : wire[j] = Succ(len, wire[i])
      BY DEF StreamNoGap, SendInv, SendSafe
    <2>2. \A i \in 1 .. j - 1 : i \in 1 .. Len(wire)
      BY <1>9
    <2>3. QED
      BY <1>7, <2>1, <2>2
  <1>12. SentUpToCursor'
    <2> SUFFICES ASSUME NEW m \in 1 .. Started, NEW i \in 1 .. len'[m],
                        m < Started \/ sndbuf = NULL \/ (i <= sndlen /\ sndlen < len'[m])
                 PROVE  OnWire(wire, m, i)
      BY <1>4 DEF SentUpToCursor, OnWire
    <2>1. len'[m] = len[m]
      BY <1>1, <1>3, <1>4
    <2>2. QED
      BY <2>1 DEF SendInv, SentUpToCursor
  <1>13. LastByte'
    <2> SUFFICES ASSUME again = 0
                 PROVE  /\ sndbuf # NULL => 0 < sndlen /\ sndlen < len'[sndbuf]
                        /\ IF Started = 0 THEN wire = <<>>
                           ELSE /\ wire # <<>>
                                /\ wire[Len(wire)] = <<Started, IF sndbuf = NULL THEN len'[Started] ELSE sndlen>>
      BY <1>4 DEF LastByte
    <2>1. Started # 0 => len'[Started] = len[Started]
      BY <1>1, <1>3, <1>4
    <2>2. sndbuf # NULL => sndbuf = Started /\ Started # 0
      BY DEF SendInv, QueueInOrder
    <2>3. QED
      BY <2>1, <2>2 DEF SendInv, LastByte
  <1>14. NeverDrained'
    BY <1>2 DEF SendInv, SendSafe, NeverDrained
  <1>15. QED
    BY <1>5, <1>6, <1>8, <1>10, <1>11, <1>12, <1>13, <1>14 DEF SendInv, SendSafe

\* What is on the wire stays there, and the bytes send() takes get there.
LEMMA TakenOnWire ==
    ASSUME wire \in Seq(Byte),
           NEW m \in Msg, NEW from \in Nat, NEW k \in Nat \ {0}, from + k <= MaxLen,
           Takes(m, from, k)
    PROVE  /\ \A p, i : OnWire(wire, p, i) => OnWire(wire', p, i)
           /\ \A i \in from + 1 .. from + k : OnWire(wire', m, i)
           /\ wire' # <<>> /\ wire'[Len(wire')] = <<m, from + k>>
  <1>1. /\ wire' \in Seq(Byte)
        /\ Len(wire') = Len(wire) + k
        /\ \A j \in 1 .. Len(wire) : wire'[j] = wire[j]
        /\ \A i \in 1 .. k : wire'[Len(wire) + i] = <<m, from + i>>
    BY WireAppended
  <1>2. Len(wire) \in Nat
    OBVIOUS
  <1>3. ASSUME NEW p, NEW i, OnWire(wire, p, i) PROVE OnWire(wire', p, i)
    <2>1. PICK j \in 1 .. Len(wire) : wire[j] = <<p, i>>
      BY <1>3 DEF OnWire
    <2>2. j \in 1 .. Len(wire') /\ wire'[j] = <<p, i>>
      BY <1>1, <1>2, <2>1
    <2>3. QED
      BY <2>2 DEF OnWire
  <1>4. ASSUME NEW i \in from + 1 .. from + k PROVE OnWire(wire', m, i)
    <2>0. i - from \in 1 .. k /\ i = from + (i - from)
      OBVIOUS
    <2>1. PICK t \in 1 .. k : i = from + t
      BY <2>0
    <2>2. Len(wire) + t \in 1 .. Len(wire') /\ wire'[Len(wire) + t] = <<m, i>>
      BY <1>1, <1>2, <2>1
    <2>3. QED
      BY <2>2 DEF OnWire
  <1>5. wire' # <<>>
    BY <1>1, <1>2
  <1>6. wire'[Len(wire')] = <<m, from + k>>
    BY <1>1, <1>2
  <1>7. QED
    BY <1>3, <1>4, <1>5, <1>6

\* send_msg with nothing waiting.
LEMMA SendNowKeeps ==
    ASSUME SendInv, NEW n \in 1 .. MaxLen, NEW k \in 1 .. n, SendNow(n, k)
    PROVE  SendInv'
  <1> DEFINE m == Fresh
  <1>1. /\ len \in Seq(1 .. MaxLen) /\ Len(len) \in Nat
        /\ wire \in Seq(Byte) /\ Len(wire) \in Nat
        /\ \A j \in 1 .. Len(len) : len[j] \in 1 .. MaxLen
        /\ m \in Msg /\ m = Len(len) + 1
        /\ wait = <<>> /\ sndbuf = NULL
    BY SMTT(30) DEF SendInv, SendSafe, TypeOK, Byte, Fresh, SendNow
  <1>2. /\ len' = Append(len, n) /\ Takes(m, 0, k)
        /\ IF k < n THEN sndbuf' = m /\ sndlen' = k ELSE sndbuf' = NULL /\ sndlen' = sndlen
        /\ UNCHANGED <<wait, drained, wt, brk, again>>
    BY <1>1 DEF SendNow, Takes, queueVars
  <1> HIDE DEF m
  <1>3. /\ len' \in Seq(1 .. MaxLen) /\ Len(len') = Len(len) + 1
        /\ \A j \in 1 .. Len(len) : len'[j] = len[j]
        /\ len'[m] = n
    BY <1>1, <1>2
  <1>4. Started = Len(len) /\ m = Started' /\ m = Started + 1
    <2>1. Len(wait) = 0 /\ Len(wait') = 0
      BY <1>1, <1>2
    <2>2. QED
      BY <1>1, <1>3, <2>1 DEF Started
  <1>5. LenGrows
    BY <1>1, <1>3 DEF LenGrows
  <1>6. Started # 0 => Started \in 1 .. Len(len) /\ len[Started] \in 1 .. MaxLen /\ OnWire(wire, Started, len[Started])
    BY <1>1, <1>4 DEF SendInv, SentUpToCursor
  <1>7. Follows(m, 0)
    <2>1. m = 1 \/ \E p \in 1 .. Len(len) : m = p + 1 /\ OnWire(wire, p, len[p])
      BY <1>1, <1>4, <1>6
    <2>2. CASE again = 0 /\ wire = <<>>
      BY <1>1, <1>4, <2>1, <2>2 DEF Follows, SendInv, LastByte
    <2>3. CASE again = 0 /\ wire # <<>>
      <3>1. Started # 0 /\ wire[Len(wire)] = <<Started, len[Started]>>
        BY <1>1, <2>3 DEF SendInv, LastByte
      <3>2. len'[Started] = len[Started]
        BY <1>3, <1>6, <3>1
      <3>3. Succ(len', wire[Len(wire)]) = <<m, 1>>
        <4>1. Started \in Nat /\ len'[Started] \in Nat
          BY <1>6, <3>1, <3>2
        <4>2. Succ(len', <<Started, len'[Started]>>) = <<Started + 1, 1>>
          BY <4>1, SuccEnd
        <4>3. QED
          BY <1>4, <3>1, <3>2, <4>2
      <3>4. QED
        BY <2>1, <2>3, <3>3 DEF Follows
    <2>4. CASE again # 0
      BY <2>1, <2>4 DEF Follows
    <2>5. QED
      BY <2>2, <2>3, <2>4
  <1>8. /\ wire' \in Seq(Byte) /\ StreamPrefix' /\ StreamNoGap' /\ WireStarted'
    <2>1. TypeOK /\ StreamPrefix /\ StreamNoGap /\ WireStarted
      BY DEF SendInv, SendSafe
    <2>2. /\ 0 \in Nat /\ k \in Nat \ {0} /\ m \in 1 .. Len(len') /\ 0 + k <= len'[m]
          /\ Started \in Nat /\ Started <= Started' /\ again' = again
      BY <1>1, <1>2, <1>3, <1>4
    <2>3. QED
      BY <1>1, <1>2, <1>4, <1>5, <1>7, <2>1, <2>2, StreamExtends
  <1>9. TypeOK'
    <2>1. sndbuf' \in Msg \cup {NULL} /\ sndlen' \in 0 .. SizeMod - 1
      BY <1>1, <1>2 DEF SendInv, SendSafe, TypeOK
    <2>2. Len(len') <= MaxMsg
      BY <1>1, <1>3
    <2>3. QED
      BY <1>2, <1>3, <1>8, <2>1, <2>2 DEF SendInv, SendSafe, TypeOK, Byte
  <1>10. QueueInOrder'
    <2>1. m # 0 /\ Started' \in Nat /\ Len(wait') = 0
      BY <1>1, <1>2, <1>4
    <2>2. \A i \in 1 .. Len(wait') : wait'[i] = Started' + i
      BY <2>1
    <2>3. QED
      BY <1>2, <1>4, <2>1, <2>2 DEF QueueInOrder
  <1>11. /\ \A p, i : OnWire(wire, p, i) => OnWire(wire', p, i)
         /\ \A i \in 1 .. k : OnWire(wire', m, i)
         /\ wire' # <<>> /\ wire'[Len(wire')] = <<m, k>>
    <2> DEFINE z == 0
    <2>1. k \in Nat \ {0} /\ z + k <= MaxLen /\ z \in Nat /\ m \in Msg /\ wire \in Seq(Byte) /\ Takes(m, z, k)
      BY <1>1, <1>2
    <2>2. z + k = k /\ z + 1 = 1
      OBVIOUS
    <2> HIDE DEF z
    <2>3. /\ \A p, i : OnWire(wire, p, i) => OnWire(wire', p, i)
          /\ \A i \in z + 1 .. z + k : OnWire(wire', m, i)
          /\ wire' # <<>> /\ wire'[Len(wire')] = <<m, z + k>>
      BY <2>1, TakenOnWire
    <2>4. QED
      BY <2>2, <2>3
  <1>12. SentUpToCursor'
    <2> SUFFICES ASSUME NEW q \in 1 .. m, NEW i \in 1 .. len'[q],
                        q < m \/ sndbuf' = NULL \/ (i <= sndlen' /\ sndlen' < len'[q])
                 PROVE  OnWire(wire', q, i)
      BY <1>4 DEF SentUpToCursor
    <2>1. CASE q = m
      <3>1. i \in 1 .. k
        <4>1. k < n => sndbuf' # NULL /\ sndlen' = k
          BY <1>1, <1>2, MsgAssumption
        <4>2. i \in 1 .. n
          BY <1>3, <2>1
        <4>3. QED
          BY <2>1, <4>1, <4>2
      <3>2. QED
        BY <1>11, <2>1, <3>1
    <2>2. CASE q # m
      <3>0. q \in 1 .. Started /\ q \in 1 .. Len(len)
        BY <1>1, <1>4, <2>2
      <3>1. q \in 1 .. Started /\ len'[q] = len[q]
        BY <1>3, <3>0
      <3>2. OnWire(wire, q, i)
        BY <1>1, <3>1 DEF SendInv, SentUpToCursor
      <3>3. QED
        BY <1>11, <3>2
    <2>3. QED
      BY <2>1, <2>2
  <1>13. LastByte'
    <2>1. Started' # 0
      BY <1>1, <1>4
    <2>2. sndbuf' # NULL => sndbuf' = m /\ 0 < sndlen' /\ sndlen' < len'[sndbuf'] /\ sndlen' = k
      BY <1>1, <1>2, <1>3
    <2>3. sndbuf' = NULL => k = n
      BY <1>1, <1>2, MsgAssumption
    <2>4. wire'[Len(wire')] = <<Started', IF sndbuf' = NULL THEN len'[Started'] ELSE sndlen'>>
      BY <1>3, <1>4, <1>11, <2>2, <2>3
    <2>5. QED
      BY <1>11, <2>1, <2>2, <2>4 DEF LastByte
  <1>14. NeverDrained'
    BY <1>2 DEF SendInv, SendSafe, NeverDrained
  <1>15. QED
    BY <1>8, <1>9, <1>10, <1>12, <1>13, <1>14 DEF SendInv, SendSafe

\* OnSend that continues with _snd_buf.
LEMMA OnSendSomeKeeps ==
    ASSUME SendInv, NEW k \in 1 .. MaxLen, OnSendSome(k)
    PROVE  SendInv'
  <1> DEFINE m == sndbuf
             c == sndlen
  <1>1. /\ len \in Seq(1 .. MaxLen) /\ Len(len) \in Nat
        /\ wire \in Seq(Byte) /\ Len(wire) \in Nat
        /\ \A j \in 1 .. Len(len) : len[j] \in 1 .. MaxLen
        /\ m \in Msg /\ m # NULL /\ c \in Nat
    <2>1. len \in Seq(1 .. MaxLen) /\ wire \in Seq(Byte) /\ c \in Nat
      BY DEF SendInv, SendSafe, TypeOK, Byte
    <2>2. m \in Msg /\ m # NULL
      BY DEF SendInv, SendSafe, TypeOK, OnSendSome
    <2>3. QED
      BY <2>1, <2>2
  <1>2. /\ Takes(m, c, k) /\ c + k <= len[m]
        /\ IF c + k = len[m] THEN sndbuf' = NULL /\ sndlen' = 0 ELSE sndbuf' = m /\ sndlen' = c + k
        /\ UNCHANGED <<len, wait, drained, brk, again>> /\ wt' = FALSE
    BY DEF OnSendSome, Takes, queueVars
  <1>3. m = Started /\ Started' = Started /\ m \in 1 .. Len(len) /\ len[m] \in 1 .. MaxLen
    <2>1. wait \in Seq(Msg) /\ Len(wait) \in Nat
      BY DEF SendInv, SendSafe, TypeOK
    <2>2. m = Started
      BY <1>1 DEF SendInv, QueueInOrder
    <2>3. m \in 1 .. Len(len)
      BY <1>1, <2>1, <2>2 DEF Started
    <2>4. QED
      BY <1>1, <1>2, <2>2, <2>3 DEF Started
  <1>4. again = 0 => 0 < c /\ wire # <<>> /\ wire[Len(wire)] = <<m, c>>
    BY <1>1, <1>3 DEF SendInv, LastByte
  <1>5. SentUpToCursor /\ LenGrows
    BY <1>1, <1>2 DEF LenGrows, SendInv
  <1>6. /\ \A p \in 1 .. m - 1 : \A i \in 1 .. len[p] : OnWire(wire, p, i)
        /\ \A i \in 1 .. c : OnWire(wire, m, i)
    <2>1. ASSUME NEW p \in 1 .. m - 1, NEW i \in 1 .. len[p] PROVE OnWire(wire, p, i)
      <3>1. p \in 1 .. Started /\ p < Started
        BY <1>1, <1>3
      <3>2. QED
        BY <1>5, <3>1 DEF SentUpToCursor
    <2>2. ASSUME NEW i \in 1 .. c PROVE OnWire(wire, m, i)
      <3>1. m \in 1 .. Started /\ i \in 1 .. len[m] /\ i <= c /\ c < len[m]
        BY <1>1, <1>2, <1>3
      <3>2. QED
        BY <1>5, <3>1 DEF SentUpToCursor
    <2>3. QED
      BY <2>1, <2>2
  <1> HIDE DEF m, c
  <1>7. Follows(m, c)
    <2>1. c # 0 => OnWire(wire, m, c)
      BY <1>1, <1>6
    <2>2. c = 0 /\ m # 1 => \E p \in 1 .. Len(len) : m = p + 1 /\ OnWire(wire, p, len[p])
      <3> SUFFICES ASSUME c = 0, m # 1
                   PROVE  \E p \in 1 .. Len(len) : m = p + 1 /\ OnWire(wire, p, len[p])
        OBVIOUS
      <3>1. m - 1 \in 1 .. Len(len) /\ m = (m - 1) + 1 /\ m - 1 \in 1 .. m - 1
        BY <1>1, <1>3
      <3>2. PICK p \in 1 .. Len(len) : m = p + 1 /\ p \in 1 .. m - 1
        BY <3>1
      <3>3. len[p] \in 1 .. len[p]
        BY <1>1
      <3>4. QED
        BY <1>6, <3>2, <3>3
    <2>3. again = 0 => <<m, c + 1>> = Succ(len', wire[Len(wire)])
      <3>1. len' = len /\ m \in Nat /\ len[m] \in Nat /\ c < len[m]
        BY <1>1, <1>2, <1>3
      <3>2. Succ(len, <<m, c>>) = <<m, c + 1>>
        BY <1>1, <3>1, SuccInside
      <3>3. QED
        BY <1>4, <3>1, <3>2
    <2>4. QED
      BY <1>4, <2>1, <2>2, <2>3 DEF Follows
  <1>8. k \in Nat \ {0} /\ c + k <= MaxLen
    BY <1>1, <1>2, <1>3
  <1>9. wire' \in Seq(Byte) /\ StreamPrefix' /\ StreamNoGap' /\ WireStarted'
    <2>1. TypeOK /\ StreamPrefix /\ StreamNoGap /\ WireStarted
      BY DEF SendInv, SendSafe
    <2>2. /\ m \in 1 .. Len(len') /\ c + k <= len'[m] /\ again' = again
          /\ Started \in Nat /\ m = Started' /\ Started <= Started'
      BY <1>1, <1>2, <1>3
    <2>3. QED
      BY <1>1, <1>2, <1>5, <1>7, <1>8, <2>1, <2>2, StreamExtends
  <1>10. TypeOK'
    <2>1. sndbuf' \in Msg \cup {NULL} /\ sndlen' \in 0 .. SizeMod - 1
      BY <1>1, <1>2, <1>3
    <2>2. QED
      BY <1>2, <1>9, <2>1 DEF SendInv, SendSafe, TypeOK, Byte
  <1>11. QueueInOrder'
    BY <1>1, <1>2, <1>3 DEF SendInv, QueueInOrder
  <1>12. /\ \A p, i : OnWire(wire, p, i) => OnWire(wire', p, i)
         /\ \A i \in c + 1 .. c + k : OnWire(wire', m, i)
         /\ wire' # <<>> /\ wire'[Len(wire')] = <<m, c + k>>
    BY <1>1, <1>2, <1>8, TakenOnWire
  <1>13. SentUpToCursor'
    <2> SUFFICES ASSUME NEW q \in 1 .. m, NEW i \in 1 .. len[q],
                        q < m \/ sndbuf' = NULL \/ (i <= sndlen' /\ sndlen' < len[q])
                 PROVE  OnWire(wire', q, i)
      BY <1>2, <1>3 DEF SentUpToCursor
    <2>1. CASE q < m
      <3>1. q \in 1 .. m - 1
        BY <1>1, <2>1
      <3>2. QED
        BY <1>6, <1>12, <3>1
    <2>2. CASE q = m
      <3>1. i \in Nat /\ i <= c + k
        BY <1>1, <1>2, <1>3, <2>2, MsgAssumption
      <3>2. i \in 1 .. c \/ i \in c + 1 .. c + k
        BY <1>1, <3>1
      <3>3. QED
        BY <1>6, <1>12, <2>2, <3>2
    <2>3. QED
      BY <1>1, <2>1, <2>2
  <1>14. LastByte'
    <2>1. Started' # 0
      BY <1>1, <1>3
    <2>2. sndbuf' # NULL => sndbuf' = m /\ 0 < sndlen' /\ sndlen' < len'[sndbuf'] /\ sndlen' = c + k
      <3>1. len' = len /\ c \in Nat /\ len[m] \in Nat
        BY <1>1, <1>2, <1>3
      <3>2. QED
        BY <1>2, <3>1
    <2>3. sndbuf' = NULL => c + k = len'[m]
      BY <1>1, <1>2, MsgAssumption
    <2>4. wire'[Len(wire')] = <<Started', IF sndbuf' = NULL THEN len'[Started'] ELSE sndlen'>>
      BY <1>3, <1>12, <2>2, <2>3
    <2>5. QED
      BY <1>12, <2>1, <2>2, <2>4 DEF LastByte
  <1>15. NeverDrained'
    BY <1>2 DEF SendInv, SendSafe, NeverDrained
  <1>16. QED
    BY <1>9, <1>10, <1>11, <1>13, <1>14, <1>15 DEF SendInv, SendSafe

\* A step that sends nothing and accepts nothing; EAGAIN may take the cursor
\* one byte back, or around.
LEMMA IdleKeeps ==
    ASSUME SendInv, UNCHANGED <<len, wire, sndbuf, wait, drained>>,
           wt' \in BOOLEAN, brk' \in BOOLEAN,
           \/ UNCHANGED <<sndlen, again>>
           \/ OnSendAgain
    PROVE  SendInv'
  <1>1. Started' = Started /\ QueueInOrder' /\ WireStarted' /\ StreamNoGap' /\ NeverDrained'
    BY DEF SendInv, SendSafe, Started, QueueInOrder, WireStarted, StreamNoGap, NeverDrained
  <1>2. CASE UNCHANGED <<sndlen, again>>
    <2>1. TypeOK'
      BY <1>2 DEF SendInv, SendSafe, TypeOK
    <2>2. StreamPrefix' /\ SentUpToCursor' /\ LastByte'
      BY <1>1, <1>2 DEF SendInv, SendSafe, StreamPrefix, SentUpToCursor, LastByte
    <2>3. QED
      BY <1>1, <2>1, <2>2 DEF SendInv, SendSafe
  <1>3. CASE OnSendAgain
    <2>1. /\ sndlen \in Nat /\ again \in Nat /\ again < MaxAgain /\ sndbuf # NULL
          /\ len[sndbuf] \in 1 .. MaxLen /\ sndlen < len[sndbuf] /\ sndbuf = Started
          /\ sndlen' = (sndlen - 1) % SizeMod /\ again' = again + 1
      <3>1. sndbuf \in 1 .. Len(len) /\ sndbuf = Started
        BY <1>3 DEF OnSendAgain, SendInv, SendSafe, TypeOK, QueueInOrder, Started
      <3>2. QED
        BY <1>3, <3>1 DEF OnSendAgain, SendInv, SendSafe, TypeOK
    <2>2. IF sndlen = 0 THEN sndlen' = SizeMod - 1 ELSE sndlen' = sndlen - 1
      BY <2>1
    <2>3. TypeOK'
      <3>1. sndlen' \in 0 .. SizeMod - 1 /\ again' \in 0 .. MaxAgain
        BY <2>1, <2>2
      <3>2. QED
        BY <3>1 DEF SendInv, SendSafe, TypeOK
    <2>4. again' # 0
      BY <2>1
    <2>5. StreamPrefix' /\ LastByte'
      BY <2>4 DEF StreamPrefix, LastByte
    <2>6. SentUpToCursor'
      <3> SUFFICES ASSUME NEW m \in 1 .. Started, NEW i \in 1 .. len[m],
                          m < Started \/ sndbuf = NULL \/ (i <= sndlen' /\ sndlen' < len[m])
                   PROVE  OnWire(wire, m, i)
        BY <1>1 DEF SentUpToCursor
      <3>1. m < Started \/ (i <= sndlen /\ sndlen < len[m])
        <4>1. CASE m = Started
          BY <2>1, <2>2, <4>1
        <4>2. CASE m # Started
          BY <2>1, <4>2, <1>1 DEF SendInv, QueueInOrder
        <4>3. QED
          BY <4>1, <4>2
      <3>2. QED
        BY <3>1 DEF SendInv, SentUpToCursor
    <2>7. QED
      BY <1>1, <2>3, <2>5, <2>6 DEF SendInv, SendSafe
  <1>4. QED
    BY <1>2, <1>3
-----------------------------------------------------------------------------
\* Every step of send_msg, of the loop and of OnSend keeps the invariant.
LEMMA NextKeeps == SendInv /\ [Next]_vars => SendInv'
  <1> SUFFICES ASSUME SendInv, [Next]_vars PROVE SendInv'
    OBVIOUS
  <1>0. wt \in BOOLEAN /\ brk \in BOOLEAN
    BY DEF SendInv, SendSafe, TypeOK
  <1>1. ASSUME NEW n \in 1 .. MaxLen, SendBehind(n) \/ SendAgain(n)
        PROVE  SendInv'
    <2>1. Fresh \in Msg /\ Enqueue(n) /\ UNCHANGED <<wire, sndbuf, sndlen, brk, again>> /\ wt' = wt
      BY <1>1 DEF SendBehind, SendAgain
    <2>2. QED
      BY <1>0, <2>1, EnqueueKeeps
  <1>2. CASE SendRefused \/ Terminate \/ Snapshot \/ OnSendIdle \/ OnSendBroken \/ UNCHANGED vars
    <2>1. UNCHANGED <<len, wire, sndbuf, wait, drained, sndlen, again>>
      BY <1>2 DEF SendRefused, Queue!Refuse, Terminate, Snapshot, OnSendIdle, OnSendBroken, vars, queueVars
    <2>2. wt' \in BOOLEAN /\ brk' \in BOOLEAN
      BY <1>0, <1>2 DEF SendRefused, Terminate, Snapshot, OnSendIdle, OnSendBroken, vars
    <2>3. QED
      BY <2>1, <2>2, IdleKeeps
  <1>3. CASE OnSendAgain
    BY <1>0, <1>3, IdleKeeps DEF OnSendAgain, queueVars
  <1>4. QED
    BY <1>1, <1>2, <1>3, SendNowKeeps, OnSendSomeKeeps DEF Next, SendMsg, OnSend

\* A new connection: nothing accepted, nothing sent.
LEMMA InitSendInv == Init => SendInv
  <1> SUFFICES ASSUME Init PROVE SendInv
    OBVIOUS
  <1>1. /\ len = <<>> /\ wire = <<>> /\ sndbuf = NULL /\ sndlen = 0 /\ wait = <<>>
        /\ drained = FALSE /\ wt = FALSE /\ brk = FALSE /\ again = 0
    BY DEF Init, Queue!Init
  <1>2. Started = 0 /\ Len(wire) = 0 /\ Len(wait) = 0 /\ Len(len) = 0
    BY <1>1 DEF Started
  <1>3. TypeOK
    <2>1. <<>> \in Seq(1 .. MaxLen) /\ <<>> \in Seq(Msg \X (1 .. MaxLen)) /\ <<>> \in Seq(Msg)
      BY EmptySeq
    <2>2. sndlen \in 0 .. SizeMod - 1 /\ again \in 0 .. MaxAgain /\ Len(len) <= MaxMsg
      BY <1>1, <1>2
    <2>3. QED
      BY <1>1, <2>1, <2>2 DEF TypeOK
  <1>4. StreamPrefix /\ StreamNoGap /\ NeverDrained
    BY <1>1, <1>2 DEF StreamPrefix, StreamNoGap, NeverDrained
  <1>5. QueueInOrder /\ WireStarted /\ SentUpToCursor /\ LastByte
    BY <1>1, <1>2 DEF QueueInOrder, WireStarted, SentUpToCursor, LastByte
  <1>6. QED
    BY <1>3, <1>4, <1>5 DEF SendInv, SendSafe

\* The inductive invariant holds in every reachable state.
LEMMA SendInductive == Spec => []SendInv
  BY InitSendInv, NextKeeps, PTL DEF Spec

\* Whatever the lengths, the capacity of _wait_snds and the interleaving of
\* send_msg with OnSend: the socket is given the accepted messages in order
\* as long as OnSend meets no EAGAIN, never a byte whose predecessor was not
\* sent, and the queue never silently loses its backlog.
THEOREM SendCorrect == Spec => []SendSafe
  <1>1. SendInv => SendSafe
    BY DEF SendInv
  <1>2. QED
    BY <1>1, SendInductive, PTL

\* Once a message waits with no buffer half sent, no step of any thread ever
\* sends again: OnSend returns early and send_msg only queues.
THEOREM WedgedCorrect == Spec => WedgedForever
  <1>1. ASSUME SendInv, [Next]_vars, sndbuf = NULL, wait # <<>>
        PROVE  sndbuf' = NULL /\ wait' # <<>> /\ UNCHANGED wire
    <2>1. wait \in Seq(Msg)
      BY <1>1 DEF SendInv, SendSafe, TypeOK
    <2>2. ASSUME NEW n \in 1 .. MaxLen, SendBehind(n) \/ SendAgain(n)
          PROVE  sndbuf' = NULL /\ wait' # <<>> /\ UNCHANGED wire
      <3>1. wait' = Append(wait, Fresh) /\ sndbuf' = sndbuf /\ wire' = wire /\ Fresh \in Msg
        BY <2>2 DEF SendBehind, SendAgain, Enqueue, Queue!Accept
      <3>2. QED
        BY <1>1, <2>1, <3>1
    <2>3. CASE SendRefused \/ Terminate \/ Snapshot \/ OnSendIdle \/ UNCHANGED vars
      BY <1>1, <2>3 DEF SendRefused, Queue!Refuse, Terminate, Snapshot, OnSendIdle, vars, queueVars
    <2>4. QED
      BY <1>1, <2>2, <2>3
         DEF Next, SendMsg, OnSend, SendNow, OnSendSome, OnSendAgain, OnSendBroken
  <1>2. SendInv /\ [Next]_vars
          => [sndbuf = NULL /\ wait # <<>> => sndbuf' = NULL /\ wait' # <<>> /\ UNCHANGED wire]_vars
    BY <1>1
  <1>3. QED
    BY <1>2, SendInductive, PTL DEF Spec, WedgedForever

\* The rest of a half sent message does not leave while nothing is queued
\* behind it: loop() does not watch the connection for writing.
THEOREM TailCorrect == Spec => TailWaits
  <1> DEFINE Watched == SendInv /\ (wt => wait # <<>>)
  <1>1. Init => Watched
    BY InitSendInv DEF Init
  <1>2. Watched /\ [Next]_vars => Watched'
    <2> SUFFICES ASSUME Watched, [Next]_vars PROVE (wt => wait # <<>>)'
      BY NextKeeps
    <2>1. wait \in Seq(Msg)
      BY DEF SendInv, SendSafe, TypeOK
    <2>2. ASSUME NEW n \in 1 .. MaxLen, SendBehind(n) \/ SendAgain(n)
          PROVE  wait' # <<>>
      <3>1. wait' = Append(wait, Fresh) /\ Fresh \in Msg
        BY <2>2 DEF SendBehind, SendAgain, Enqueue, Queue!Accept
      <3>2. QED
        BY <2>1, <3>1
    <2>3. CASE SendRefused \/ Terminate \/ Snapshot \/ OnSend \/ UNCHANGED vars
      BY <2>3 DEF SendRefused, Queue!Refuse, Terminate, Snapshot, OnSend, OnSendIdle, OnSendSome,
                  OnSendAgain, OnSendBroken, vars, queueVars
    <2>4. ASSUME NEW n \in 1 .. MaxLen, NEW k \in 1 .. n, SendNow(n, k)
          PROVE  (wt => wait # <<>>)'
      BY <2>4 DEF SendNow, queueVars
    <2>5. QED
      BY <2>2, <2>3, <2>4 DEF Next, SendMsg
  <1>3. ASSUME Watched, [Next]_vars, sndbuf # NULL, wait = <<>>
        PROVE  UNCHANGED <<wire, sndbuf, sndlen>>
    <2>1. ~wt
      BY <1>3
    <2>2. ASSUME NEW n \in 1 .. MaxLen, SendBehind(n) \/ SendAgain(n)
          PROVE  UNCHANGED <<wire, sndbuf, sndlen>>
      BY <2>2 DEF SendBehind, SendAgain
    <2>3. CASE SendRefused \/ Terminate \/ Snapshot \/ UNCHANGED vars
      BY <2>3 DEF SendRefused, Terminate, Snapshot, vars
    <2>4. QED
      BY <1>3, <2>1, <2>2, <2>3
         DEF Next, SendMsg, OnSend, SendNow, OnSendIdle, OnSendSome, OnSendAgain, OnSendBroken
  <1>4. Watched /\ [Next]_vars => [sndbuf # NULL /\ wait = <<>> => UNCHANGED <<wire, sndbuf, sndlen>>]_vars
    BY <1>3
  <1>5. QED
    BY <1>1, <1>2, <1>4, PTL DEF Spec, TailWaits
=============================================================================
