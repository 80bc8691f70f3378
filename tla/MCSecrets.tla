------------------------------- MODULE MCSecrets -------------------------------
(* Instance of Secrets for TLC.                                            *)
EXTENDS Secrets, TLC

CONSTANTS p1, p2, a, b

MCProduct == {p1, p2}
MCRequest == {a, b}
MCCodeIndex == {1, 2}

(* Nothing names a product or a handler.                                   *)
RowSymmetry == Permutations(MCProduct) \union Permutations(MCRequest)
=============================================================================
