----------------------------- MODULE KernelLease ----------------------------
(***************************************************************************)
(* What starting and stopping kernel containers promises: a kernel is      *)
(* leased to one session at a time.  A session acquires a free kernel and  *)
(* releases it; a kernel whose session went away without releasing it is   *)
(* stranded, and the runner never leases it again.  Sessions implements    *)
(* this specification.                                                     *)
(***************************************************************************)
CONSTANTS Kernels, Sessions

VARIABLES
    holders,    \* the sessions that hold each kernel
    stranded    \* the kernels that no session can acquire any more

leaseVars == <<holders, stranded>>

Init ==
    /\ holders = [k \in Kernels |-> {}]
    /\ stranded = {}

Acquire(s, k) ==
    /\ holders[k] = {}
    /\ k \notin stranded
    /\ holders' = [holders EXCEPT ![k] = {s}]
    /\ UNCHANGED stranded

Release(s, k) ==
    /\ holders[k] = {s}
    /\ holders' = [holders EXCEPT ![k] = {}]
    /\ UNCHANGED stranded

\* The kernels of lost are stranded together: all those held when the runner's
\* process ends, or the one whose session or whose start failed.
Strand(lost) ==
    /\ lost \cap stranded = {}
    /\ holders' = [k \in Kernels |-> IF k \in lost THEN {} ELSE holders[k]]
    /\ stranded' = stranded \cup lost

Next ==
    \/ \E s \in Sessions, k \in Kernels : Acquire(s, k) \/ Release(s, k)
    \/ \E lost \in SUBSET Kernels : Strand(lost)

Spec == Init /\ [][Next]_leaseVars

=============================================================================
