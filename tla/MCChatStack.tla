----------------------------- MODULE MCChatStack -----------------------------
(* Three messages. *)
EXTENDS ChatStack, TLC

CONSTANTS m1, m2, m3

Symmetry == Permutations(Msg)
=============================================================================
