------------------------------ MODULE MCProcess ------------------------------
(***************************************************************************)
(* Process for TLC.                                                        *)
(*                                                                         *)
(*   thread  two objects with their owners                                 *)
(*   client  two starts; no address, a known and an unknown one, and lists *)
(*           of both; builds with and without the loop that waits for the  *)
(*           thread                                                        *)
(*   log     six records through a queue of three, with an empty and a     *)
(*           longer text                                                   *)
(*   fd      an object of each class, and a table of three                 *)
(*   shm     two objects that share one file                               *)
(***************************************************************************)
EXTENDS Process

Hosts == {"good", "bad"}
MCURLs == {<<>>} \cup {<<a>> : a \in Hosts} \cup (Hosts \X Hosts)
=============================================================================
