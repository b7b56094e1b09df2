------------------------------- MODULE TcpRecv -------------------------------
(***************************************************************************)
(* The receiving side of core/tcp_conn.cpp, with the demo server's         *)
(* msg_head_parse: messages of a fixed length arrive in pieces and are     *)
(* handed to the callback.  Memory is counted in words of eight bytes: an  *)
(* ngx_buf_t has the words cap, len, ref and data, then its bytes.  OnRead *)
(* gives recv the address of the ngx_buf_t plus len, not data plus len.    *)
(***************************************************************************)
EXTENDS Naturals, Sequences, SequencesExt, FiniteSetsExt

CONSTANTS
    Words,          \* what a word of a message can be
    MaxMessages     \* bound: messages sent

HeadWords == 3      \* head_len of the demo's connections, 24 bytes
BufWords == 4       \* sizeof(ngx_buf_t)
Cap == 0
LenAt == 1
DataAt == 3
Junk == 99          \* pool memory nobody has written

VARIABLES
    sent,           \* the messages the peer has sent
    stream,         \* their words that were not received yet
    buf,            \* the words of _rcv_buf, or <<>> before the first read
    _expected_len,
    handed,         \* what OnMessage was called with
    wild            \* a pointer or a length that is not the program's was used

vars == <<sent, stream, buf, _expected_len, handed, wild>>

Init ==
    /\ sent = <<>> /\ stream = <<>> /\ buf = <<>>
    /\ _expected_len = HeadWords
    /\ handed = <<>> /\ wild = FALSE

Send == \E msg \in [1 .. HeadWords -> Words] :
    /\ Len(sent) < MaxMessages
    /\ sent' = Append(sent, msg) /\ stream' = stream \o msg
    /\ UNCHANGED <<buf, _expected_len, handed, wild>>

Word(b, at) == b[at + 1]
ngx_create_buf(cap) ==
    [w \in 1 .. BufWords + cap |-> CASE w = Cap + 1 -> cap
                                     [] w = LenAt + 1 -> 0
                                     [] OTHER -> Junk]

\* recv stores at the buffer's own address plus len.
RecvAt(b) == Word(b, LenAt)
Received(b, got) == [w \in DOMAIN b |->
    IF w - 1 \in RecvAt(b) .. RecvAt(b) + Len(got) - 1 THEN got[w - RecvAt(b)] ELSE b[w]]

msg_head_parse(len) == IF len < HeadWords THEN HeadWords ELSE len

\* One OnRead that receives n words.
OnRead(n) ==
    LET b == IF buf = <<>> THEN ngx_create_buf(_expected_len) ELSE buf
        asked == _expected_len - Word(b, LenAt)
        got == SubSeq(stream, 1, n)
        r == Received(b, got)
        len == Word(r, LenAt) + n
        full == [r EXCEPT ![LenAt + 1] = len]
        expected == IF _expected_len = HeadWords THEN msg_head_parse(len) ELSE _expected_len
    IN /\ ~wild /\ n <= Len(stream)
       /\ Word(b, LenAt) < _expected_len => n <= asked
       /\ stream' = SubSeq(stream, n + 1, Len(stream))
       /\ IF \/ Word(b, LenAt) >= _expected_len                 \* asks for too much
             \/ RecvAt(b) + n > DataAt /\ RecvAt(b) < BufWords  \* data is overwritten
             \/ len > Len(b) - BufWords                         \* data beyond the buffer is used
          THEN wild' = TRUE /\ UNCHANGED <<buf, _expected_len, handed>>
          ELSE /\ IF len = expected
                  THEN /\ handed' = Append(handed, SubSeq(full, BufWords + 1, BufWords + expected))
                       /\ _expected_len' = HeadWords
                       /\ buf' = [full EXCEPT ![LenAt + 1] = 0]
                  ELSE /\ buf' = full /\ _expected_len' = expected
                       /\ UNCHANGED handed
               /\ UNCHANGED wild
    /\ UNCHANGED sent

Next == Send \/ \E n \in 1 .. HeadWords : OnRead(n)

Spec == Init /\ [][Next]_vars

\* What the callback is handed is what the peer has sent, message by message,
\* in whatever pieces it arrived (line 41).
HandedAsSent == IsPrefix(handed, sent)
=============================================================================
