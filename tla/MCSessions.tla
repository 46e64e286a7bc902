----------------------------- MODULE MCSessions -----------------------------
(***************************************************************************)
(* Instances of Sessions for TLC: the requests and whose they are.         *)
(***************************************************************************)
EXTENDS Sessions, TLC

CONSTANTS r1, r2, r3, r4, u1, u2, k1, k2

\* A user with two kernels, and another user of the first.
SharedUserOf == [r \in Req |-> IF r = r3 THEN u2 ELSE u1]
SharedKernelOf == [r \in Req |-> IF r = r2 THEN k2 ELSE k1]
SharedCanExecute == {<<u1, k1>>, <<u1, k2>>, <<u2, k1>>}

\* A user who opens the same kernel twice, and another kernel.
ReturningUserOf == [r \in Req |-> u1]
ReturningKernelOf == [r \in Req |-> IF r = r3 THEN k2 ELSE k1]
ReturningCanExecute == {<<u1, k1>>, <<u1, k2>>}

\* A user with two sessions at once, another user of the second kernel, and a request for
\* the first that the other user has no right to.
GrantedUserOf == [r \in Req |-> IF r \in {r1, r2} THEN u1 ELSE u2]
GrantedKernelOf == [r \in Req |-> IF r \in {r1, r4} THEN k1 ELSE k2]
GrantedCanExecute == {<<u1, k1>>, <<u1, k2>>, <<u2, k2>>}

=============================================================================
