------------------------- MODULE SessionsLeaseProofs ------------------------
(***************************************************************************)
(* The proof that Sessions implements KernelLease under the mapping of     *)
(* holders and stranded: each step of the sessions acquires, releases or   *)
(* strands kernels, or changes neither.                                    *)
(***************************************************************************)
EXTENDS SessionsProofs

USE ConstantsAssumption

\* Who holds what, without the functions and sets of the mapping.
Holds(r, k) == KernelOf[r] = k /\ pc[r] \in Holding
Strands(r, k) == KernelOf[r] = k /\ container[r] # "none" /\ pc[r] \in Ended

\* No container is there at first.
LEMMA LeaseInit == Init => Lease!Init
  BY DEF Init, Lease!Init, holders, stranded, Holding, Live, Admission, Connected, Stopping

\* A step that changes no container's presence and no hold changes no lease.
LEMMA LeaseStutter ==
  ASSUME \A r \in Req : pc[r] \in Holding <=> pc'[r] \in Holding,
         \A r \in Req : (container[r] # "none" /\ pc[r] \in Ended)
                          <=> (container'[r] # "none" /\ pc'[r] \in Ended)
  PROVE  UNCHANGED <<holders, stranded>>
  BY DEF holders, stranded

\* A session that lets its container be, and goes, strands its kernel.
LEMMA LeaseStrand ==
  ASSUME TypeInv, LeaseInv, NEW r \in Req, pc[r] \in Holding \cup {"create"},
         ~NameTaken(r) \/ pc[r] \in Holding,
         pc'[r] \in Ended, container'[r] # "none",
         \A q \in Req : q # r => pc'[q] = pc[q] /\ container'[q] = container[q]
  PROVE  Lease!Strand({KernelOf[r]})
<1> DEFINE k == KernelOf[r]
<1>1. k \in Kernels
  OBVIOUS
<1>2. Ended \cap Holding = {}
  BY DEF Ended, Holding, Live, Admission, Connected, Stopping
<1>3. ASSUME NEW q \in Req, KernelOf[q] = k, q # r
      PROVE  container[q] = "none" /\ pc[q] \notin Holding
  <2>1. container[q] = "none"
    BY <1>3 DEF LeaseInv, NameUnique, Owns, NameTaken, ContainerName
  <2> QED
    BY <2>1 DEF LeaseInv, Owns
<1>4. pc[r] \notin Ended
  BY <1>2 DEF Ended
<1>5. {k} \cap stranded = {}
  BY <1>3, <1>4 DEF stranded
<1>6. holders' = [j \in Kernels |-> IF j \in {k} THEN {} ELSE holders[j]]
  <2>1. ASSUME NEW j \in Kernels
        PROVE  {q \in Req : KernelOf[q] = j /\ pc'[q] \in Holding}
                 = IF j \in {k} THEN {} ELSE {q \in Req : KernelOf[q] = j /\ pc[q] \in Holding}
    BY <1>2, <1>3
  <2> QED
    BY <2>1 DEF holders
<1>7. stranded' = stranded \cup {k}
  BY <1>4 DEF stranded
<1> QED
  BY <1>5, <1>6, <1>7 DEF Lease!Strand

\* A session that goes and takes its container along releases its kernel.
LEMMA LeaseRelease ==
  ASSUME TypeInv, LeaseInv, NEW r \in Req, pc[r] \in Holding,
         pc'[r] \in Ended, container'[r] = "none",
         \A q \in Req : q # r => pc'[q] = pc[q] /\ container'[q] = container[q]
  PROVE  Lease!Release(r, KernelOf[r])
<1> DEFINE k == KernelOf[r]
<1>1. k \in Kernels
  OBVIOUS
<1>2. Ended \cap Holding = {}
  BY DEF Ended, Holding, Live, Admission, Connected, Stopping
<1>3. ASSUME NEW q \in Req, KernelOf[q] = k, q # r
      PROVE  pc[q] \notin Holding
  BY <1>3, LeaseInvExclusive DEF KernelExclusive
<1>4. holders[k] = {r}
  BY <1>3 DEF holders
<1>5. holders' = [holders EXCEPT ![k] = {}]
  <2>1. ASSUME NEW j \in Kernels
        PROVE  {q \in Req : KernelOf[q] = j /\ pc'[q] \in Holding}
                 = IF j = k THEN {} ELSE {q \in Req : KernelOf[q] = j /\ pc[q] \in Holding}
    BY <1>2, <1>3
  <2> QED
    BY <2>1 DEF holders
<1>6. UNCHANGED stranded
  BY <1>2 DEF stranded
<1> QED
  BY <1>4, <1>5, <1>6 DEF Lease!Release

\* A container that is created goes with a kernel that nobody had.
LEMMA LeaseAcquire ==
  ASSUME TypeInv, LeaseInv, NEW r \in Req, Create(r)
  PROVE  Lease!Acquire(r, KernelOf[r])
<1> DEFINE k == KernelOf[r]
<1>1. k \in Kernels
  OBVIOUS
<1>2. /\ pc[r] = "create" /\ pc'[r] = "start"
      /\ \A q \in Req : q # r => pc'[q] = pc[q] /\ container'[q] = container[q]
  BY DEF Create, Goto, TypeInv, TypeOK
<1>3. /\ "start" \in Holding /\ "create" \notin Holding
      /\ "start" \notin Ended /\ "create" \notin Ended
  BY DEF Ended, Holding, Live, Admission, Connected, Stopping
<1>4. ASSUME NEW q \in Req, KernelOf[q] = k
      PROVE  container[q] = "none" /\ pc[q] \notin Holding
  BY <1>4 DEF Create, NameTaken, ContainerName, LeaseInv, Owns
<1>5. holders[k] = {} /\ k \notin stranded
  BY <1>4 DEF holders, stranded
<1>6. holders' = [holders EXCEPT ![k] = {r}]
  <2>1. ASSUME NEW j \in Kernels
        PROVE  {q \in Req : KernelOf[q] = j /\ pc'[q] \in Holding}
                 = IF j = k THEN {r} ELSE {q \in Req : KernelOf[q] = j /\ pc[q] \in Holding}
    BY <1>2, <1>3, <1>4
  <2> QED
    BY <2>1 DEF holders
<1>7. UNCHANGED stranded
  BY <1>2, <1>3 DEF stranded
<1> QED
  BY <1>5, <1>6, <1>7 DEF Lease!Acquire

\* When the process ends it strands every kernel a goroutine held.
LEMMA LeaseCrash ==
  ASSUME TypeInv, LeaseInv, Crash
  PROVE  \E lost \in SUBSET Kernels : Lease!Strand(lost)
<1> DEFINE lost == {KernelOf[r] : r \in {q \in Req : pc[q] \in Holding}}
<1>1. lost \in SUBSET Kernels
  OBVIOUS
<1>2. /\ \A r \in Req : pc'[r] = IF pc[r] \in Live THEN "crashed" ELSE pc[r]
      /\ UNCHANGED container
  BY DEF Crash, daemonVars
<1>3. /\ Holding \subseteq Live /\ Ended \cap Live = {}
      /\ "crashed" \in Ended /\ "crashed" \notin Live
  BY DEF Ended, Holding, Live, Admission, Connected, Stopping
<1>4. \A r \in Req : pc[r] \in Holding => container[r] # "none"
  BY DEF LeaseInv, Owns
<1>5. \A r \in Req : pc[r] \in Live /\ pc[r] \notin Holding => container[r] = "none"
  BY DEF LeaseInv, Unstarted, Holding
<1>6. lost \cap stranded = {}
  <2> SUFFICES ASSUME NEW p \in Req, NEW q \in Req, pc[p] \in Holding, pc[q] \in Ended,
                      container[q] # "none", KernelOf[p] = KernelOf[q]
               PROVE  FALSE
    BY DEF stranded
  <2>1. p = q
    BY <1>4 DEF LeaseInv, NameUnique
  <2> QED
    BY <2>1, <1>3
<1>7. holders' = [k \in Kernels |-> IF k \in lost THEN {} ELSE holders[k]]
  <2>1. \A r \in Req : pc'[r] \notin Holding
    BY <1>2, <1>3
  <2>2. ASSUME NEW k \in Kernels
        PROVE  {r \in Req : KernelOf[r] = k /\ pc'[r] \in Holding}
                 = IF k \in lost THEN {} ELSE {r \in Req : KernelOf[r] = k /\ pc[r] \in Holding}
    BY <2>1
  <2> QED
    BY <2>2 DEF holders
<1>8. stranded' = stranded \cup lost
  <2>1. ASSUME NEW r \in Req
        PROVE  container'[r] # "none" /\ pc'[r] \in Ended
                 <=> (container[r] # "none" /\ pc[r] \in Ended) \/ pc[r] \in Holding
    BY <1>2, <1>3, <1>4, <1>5
  <2> QED
    BY <2>1 DEF stranded
<1> QED
  BY <1>1, <1>6, <1>7, <1>8 DEF Lease!Strand

LeaseStep == [Lease!Next]_<<holders, stranded>>

\* Every step of the sessions is a step of the leases, or none.
LEMMA LeaseNext == TypeInv /\ LeaseInv /\ [Next]_vars => LeaseStep
<1> SUFFICES ASSUME TypeInv, LeaseInv, [Next]_vars PROVE LeaseStep
  OBVIOUS
<1> DEFINE Present(r) == container[r] # "none"
<1>a. /\ Ended \cap Holding = {}
      /\ Holding = {"start", "upgrade", "register", "listen", "read", "run", "reply",
                    "delete", "stop", "remove"}
  BY DEF Ended, Holding, Live, Admission, Connected, Stopping
<1>b. /\ pc \in [Req -> Point]
      /\ container \in [Req -> ContainerState]
  BY DEF TypeInv, TypeOK
<1>c. \A r \in Req : pc[r] \in Holding => Present(r)
  BY DEF LeaseInv, Owns
<1>d. \A r \in Req : pc[r] \in {"new", "check", "create"} => ~Present(r)
  BY DEF LeaseInv, Unstarted
\* A goroutine that goes on holding what it holds, or nothing.
<1>1. ASSUME NEW r \in Req,
             \A q \in Req : q # r => pc'[q] = pc[q] /\ container'[q] = container[q],
             \/ pc[r] \in Holding /\ pc'[r] \in Holding
             \/ /\ pc[r] \in {"new", "check", "create"}
                /\ pc'[r] \notin Holding
                /\ container'[r] = container[r]
      PROVE  LeaseStep
  <2>1. \A q \in Req : pc[q] \in Holding <=> pc'[q] \in Holding
    BY <1>1, <1>a
  <2>2. \A q \in Req : (container[q] # "none" /\ pc[q] \in Ended)
                         <=> (container'[q] # "none" /\ pc'[q] \in Ended)
    BY <1>1, <1>a, <1>d
  <2> QED
    BY <2>1, <2>2, LeaseStutter DEF LeaseStep
\* A step that moves no goroutine, nor brings or takes a container.
<1>2. ASSUME UNCHANGED pc, \A q \in Req : container'[q] = "none" <=> container[q] = "none"
      PROVE  LeaseStep
  BY <1>2, LeaseStutter DEF LeaseStep
\* A goroutine that ends while it holds a container: it strands or releases it.
<1>3. ASSUME NEW r \in Req, pc[r] \in Holding, pc'[r] \in Ended,
             \A q \in Req : q # r => pc'[q] = pc[q] /\ container'[q] = container[q]
      PROVE  LeaseStep
  <2>1. KernelOf[r] \in Kernels
    OBVIOUS
  <2>2. CASE container'[r] # "none"
    BY <1>3, <2>1, <2>2, LeaseStrand DEF LeaseStep, Lease!Next
  <2>3. CASE container'[r] = "none"
    BY <1>3, <2>1, <2>3, LeaseRelease DEF LeaseStep, Lease!Next
  <2> QED
    BY <2>2, <2>3
<1>4. CASE UNCHANGED vars
  BY <1>2, <1>4 DEF vars
<1>5. ASSUME NEW r \in Req, Reject(r) \/ Admit(r) PROVE LeaseStep
  BY <1>1, <1>5, <1>a, <1>b DEF Reject, Admit, Goto, daemonVars
<1>6. ASSUME NEW r \in Req, Enter(r) PROVE LeaseStep
  <2>1. CASE Refuse(r) \/ Accept(r) \/ CreateFails(r)
    BY <1>1, <2>1, <1>a, <1>b DEF Refuse, Accept, CreateFails, Goto, daemonVars
  <2>2. CASE Create(r)
    <3>1. KernelOf[r] \in Kernels
      OBVIOUS
    <3> QED
      BY <2>2, <3>1, LeaseAcquire DEF LeaseStep, Lease!Next
  <2>3. CASE CreateAnswerLost(r)
    <3>1. /\ pc[r] = "create" /\ pc'[r] = "failed" /\ container'[r] = "created"
          /\ ~NameTaken(r)
          /\ \A q \in Req : q # r => pc'[q] = pc[q] /\ container'[q] = container[q]
      BY <2>3, <1>b DEF CreateAnswerLost, Goto
    <3>2. KernelOf[r] \in Kernels /\ "failed" \in Ended
      BY DEF Ended
    <3> QED
      BY <3>1, <3>2, LeaseStrand DEF LeaseStep, Lease!Next
  <2>4. CASE Run(r)
    BY <1>1, <2>4, <1>a, <1>b DEF Run, Goto
  <2>5. CASE RunFails(r)
    <3>1. /\ pc[r] = "start" /\ pc'[r] = "failed"
          /\ \A q \in Req : q # r => pc'[q] = pc[q] /\ container'[q] = container[q]
      BY <2>5, <1>b DEF RunFails, Goto
    <3>2. "failed" \in Ended
      BY DEF Ended
    <3> QED
      BY <1>3, <3>1, <3>2, <1>a
  <2>6. CASE Upgrade(r) \/ RegisterConn(r) \/ RegisterListener(r)
    BY <1>1, <2>6, <1>a, <1>b DEF Upgrade, RegisterConn, RegisterListener, Goto, daemonVars
  <2>7. CASE UpgradeFails(r)
    BY <1>3, <2>7, <1>a, <1>b DEF UpgradeFails, Goto, daemonVars, Ended
  <2> QED
    BY <1>6, <2>1, <2>2, <2>3, <2>4, <2>5, <2>6, <2>7 DEF Enter
<1>7. ASSUME NEW r \in Req, Loop(r) PROVE LeaseStep
  <2>1. CASE ReadMessage(r) \/ RunBlock(r) \/ ReplyWritten(r)
    BY <1>1, <2>1, <1>a, <1>b DEF ReadMessage, RunBlock, ReplyWritten, Goto, daemonVars
  <2>2. CASE ReplyFails(r)
    BY <1>3, <2>2, <1>a, <1>b DEF ReplyFails, Goto, daemonVars, Ended
  <2> QED
    BY <1>7, <2>1, <2>2 DEF Loop
<1>8. ASSUME NEW r \in Req, Leave(r) PROVE LeaseStep
  <2>1. CASE DeleteConn(r) \/ ContainerStop(r)
    BY <1>1, <2>1, <1>a, <1>b DEF DeleteConn, ContainerStop, Goto, daemonVars
  <2>2. CASE ContainerRemove(r)
    BY <1>3, <2>2, <1>a, <1>b DEF ContainerRemove, Goto, Ended
  <2>3. CASE RemoveFails(r)
    <3>1. /\ pc[r] \in Holding /\ pc'[r] = "stopFailed"
          /\ \A q \in Req : q # r => pc'[q] = pc[q] /\ container'[q] = container[q]
      BY <2>3, <1>a, <1>b DEF RemoveFails, Goto
    <3>2. "stopFailed" \in Ended
      BY DEF Ended
    <3> QED
      BY <1>3, <3>1, <3>2
  <2> QED
    BY <1>8, <2>1, <2>2, <2>3 DEF Leave
<1>9. ASSUME NEW r \in Req, Publish(r) \/ KernelExits(r) PROVE LeaseStep
  BY <1>2, <1>9, <1>b DEF Publish, KernelExits, daemonVars
<1>10. CASE Receive \/ SendMemes
  BY <1>2, <1>10 DEF Receive, SendMemes, LookupListener, LookupConn, WriteMemes, daemonVars
<1>11. CASE Crash
  BY <1>11, LeaseCrash DEF LeaseStep, Lease!Next
<1> QED
  BY <1>4, <1>5, <1>6, <1>7, <1>8, <1>9, <1>10, <1>11 DEF Next

\* A kernel changes hands only by being released, and one that a failure or the
\* end of the process left behind is never started again.
THEOREM Implementation == Spec => ImplementsKernelLease
<1>1. IInv /\ [Next]_vars => [Lease!Next]_(Lease!leaseVars)
  BY LeaseNext DEF LeaseStep, IInv, Lease!leaseVars
<1> QED
  BY <1>1, LeaseInit, Invariance, PTL DEF Spec, ImplementsKernelLease, Lease!Spec

=============================================================================
