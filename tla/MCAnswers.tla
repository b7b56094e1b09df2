----------------------------- MODULE MCAnswers ------------------------------
(***************************************************************************)
(* Answers for TLC.                                                        *)
(*                                                                         *)
(*   syncer  three waits, and up to three answers for the id: one, a       *)
(*           duplicate, and one after the entry was erased                 *)
(*   batch   two ids, each with a thread that waits again after a timeout  *)
(*           and one that notifies                                         *)
(***************************************************************************)
EXTENDS Answers

MCIds == {"i1", "i2"}
MCSyncs == {"s1", "s2"}
=============================================================================
