------------------------------ MODULE MCTcpSend ------------------------------
\* Up to three bytes per message: a message can be sent in three parts, and
\* _snd_len can be taken below 0.  The queue fills before MaxMsg is reached.
EXTENDS TcpSend
=============================================================================
