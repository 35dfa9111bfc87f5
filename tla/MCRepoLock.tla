----------------------------- MODULE MCRepoLock -----------------------------
(* Two processes, one of them with two threads, and the mutants of         *)
(* RepoLock's definitions.                                                 *)
EXTENDS RepoLock, TLC

CONSTANTS t1, t2, t3, p1, p2

MCProcOf == (t1 :> p1) @@ (t2 :> p1) @@ (t3 :> p2)
=============================================================================
