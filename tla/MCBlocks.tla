------------------------------ MODULE MCBlocks ------------------------------
(***************************************************************************)
(* Instances of Blocks for TLC: one user, who opens a kernel more than     *)
(* once.                                                                   *)
(***************************************************************************)
EXTENDS Blocks, TLC

CONSTANTS r1, r2, r3, u1, k1, b1, b2, key1

OneUserOf == [r \in Req |-> u1]
OneKernelOf == [r \in Req |-> k1]
OneCanExecute == {<<u1, k1>>}
OneKeyOf == [ku \in {k1} \X {u1} |-> key1]

=============================================================================
