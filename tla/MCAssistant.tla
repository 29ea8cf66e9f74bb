---------------------------- MODULE MCAssistant ----------------------------
(***************************************************************************)
(* Two turns, in one chat, in two, or in one that is deleted meanwhile;    *)
(* turns are interchangeable.                                              *)
(***************************************************************************)
EXTENDS Assistant, TLC

Interchangeable == Permutations(Turns)
=============================================================================
