----------------------------- MODULE MCLiveSession -----------------------------
(* TLC instances of LiveSession. *)
EXTENDS LiveSession, TLC

Symmetry == Permutations(Conns)
=============================================================================
