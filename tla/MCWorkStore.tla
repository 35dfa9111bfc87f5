---------------------------- MODULE MCWorkStore -----------------------------
(* Small instances of the Work store.                                      *)
EXTENDS WorkStore, TLC

AgentSymmetry == Permutations(Agents)
=============================================================================
