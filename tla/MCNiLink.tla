------------------------------ MODULE MCNiLink ------------------------------
(* One port on an interface with two possible addresses. *)
EXTENDS NiLink, TLC
CONSTANTS a0, a1

Addresses == Permutations({a0, a1})
=============================================================================
