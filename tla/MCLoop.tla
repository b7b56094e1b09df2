------------------------------- MODULE MCLoop --------------------------------
(***************************************************************************)
(* MCLoopServer.cfg: demo/main.cpp, one thread runs the loop with an       *)
(* acceptor in it and SIGTERM calls stop.                                  *)
(* MCLoopClient.cfg: example/, the loop has a thread of its own and two    *)
(* application threads add, use, terminate and reconnect a connection and  *)
(* stop the loop.                                                          *)
(* MCLoopTasks.cfg: two threads submit tasks and a connection, then stop.  *)
(***************************************************************************)
EXTENDS EventLoop
=============================================================================
