--------------------------- MODULE MCContextCache ---------------------------
(* Request threads are interchangeable.                                    *)
EXTENDS ContextCache, TLC

ClientSymmetry == Permutations(Client)
============================================================================
