---------------------------- MODULE MCLifecycle ----------------------------
(***************************************************************************)
(* The instance of Lifecycle for TLC: a user who opens a kernel, while the *)
(* process ends and is started again around her.                           *)
(***************************************************************************)
EXTENDS Lifecycle

CONSTANTS r1, u1, k1

OneUserOf == [r \in Req |-> u1]
OneKernelOf == [r \in Req |-> k1]
OneCanExecute == {<<u1, k1>>}

=============================================================================
