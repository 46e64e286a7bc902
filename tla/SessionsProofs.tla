--------------------------- MODULE SessionsProofs ---------------------------
(***************************************************************************)
(* Proofs about Sessions, for any requests, users, kernels and rights.     *)
(***************************************************************************)
EXTENDS Sessions, SequenceTheorems, TLAPS

USE ConstantsAssumption

-----------------------------------------------------------------------------
(* The inductive invariant. *)

\* A lookup of a listener is for a kernel that some result named.
LookupTyped == consumer.at = "listener" => consumer.kernel \in Kernels

\* The daemon keeps one container of a name, whether its session lives or not.
NameUnique ==
    \A p, q \in Req :
        container[p] # "none" /\ container[q] # "none" /\ KernelOf[p] = KernelOf[q]
            => p = q

\* A goroutine past Create has its container until it removed it.
Owns == \A r \in Req : pc[r] \in Holding => container[r] # "none"

\* A request that has not come to Create, or was turned away before, has none.
Unstarted ==
    \A r \in Req :
        pc[r] \in {"new", "check", "create", "rejected", "refused"} => container[r] = "none"

\* Whoever got past AccessMW may execute the kernel, and so may every listener.
AdmittedMay == \A r \in Req : pc[r] \in {"new", "rejected"} \/ MayExecute(r)
ListenersMay ==
    \A k \in Kernels : kernelListeners[k] = None \/ <<kernelListeners[k], k>> \in CanExecute

\* What the consumer looked up: a user of the kernel, then a connection of hers.
ConsumerMay ==
    /\ consumer.at = "conn" => \/ consumer.user = None
                               \/ <<consumer.user, consumer.kernel>> \in CanExecute
    /\ consumer.at = "write" => ResultsToGranted

TypeInv == TypeOK /\ LookupTyped
LeaseInv == NameUnique /\ Owns /\ Unstarted
MapsInv == ListenerAccurate /\ NoDanglingConn
MayInv == AdmittedMay /\ ListenersMay /\ ConsumerMay
IInv == TypeInv /\ LeaseInv /\ MapsInv /\ MayInv

-----------------------------------------------------------------------------
(* Types. *)

\* The initial states have the types TypeOK says.
LEMMA InitTypeInv == Init => TypeInv
  BY DEF Init, TypeInv, TypeOK, LookupTyped, Receiving, At, Point, ContainerState

\* No step leaves the types: a lookup is always of a kernel or a user there is.
LEMMA NextTypeInv == TypeInv /\ [Next]_vars => TypeInv'
<1> SUFFICES ASSUME TypeInv, [Next]_vars PROVE TypeInv'
  OBVIOUS
<1> USE DEF TypeInv, TypeOK, LookupTyped, daemonVars, deliveryVars, resultVars,
            Point, Ended, Live, Admission, Connected, Stopping, ContainerState,
            Receiving, At, Goto
<1>1. CASE UNCHANGED vars
  BY <1>1 DEF vars
<1>2. ASSUME NEW r \in Req, Reject(r) \/ Admit(r) PROVE TypeInv'
  BY <1>2 DEF Reject, Admit
<1>3. ASSUME NEW r \in Req, Enter(r) PROVE TypeInv'
  <2>1. CASE Refuse(r) \/ Accept(r)
    BY <2>1 DEF Refuse, Accept
  <2>2. CASE Create(r) \/ CreateFails(r) \/ CreateAnswerLost(r)
    BY <2>2 DEF Create, CreateFails, CreateAnswerLost
  <2>3. CASE Run(r) \/ RunFails(r)
    BY <2>3 DEF Run, RunFails
  <2>4. CASE Upgrade(r) \/ UpgradeFails(r)
    BY <2>4 DEF Upgrade, UpgradeFails
  <2>5. CASE RegisterConn(r) \/ RegisterListener(r)
    BY <2>5 DEF RegisterConn, RegisterListener
  <2> QED
    BY <1>3, <2>1, <2>2, <2>3, <2>4, <2>5 DEF Enter
<1>4. ASSUME NEW r \in Req, Loop(r) PROVE TypeInv'
  BY <1>4 DEF Loop, ReadMessage, RunBlock, ReplyWritten, ReplyFails
<1>5. ASSUME NEW r \in Req, Leave(r) PROVE TypeInv'
  BY <1>5 DEF Leave, DeleteConn, ContainerStop, ContainerRemove, RemoveFails
<1>6. ASSUME NEW r \in Req, Publish(r) PROVE TypeInv'
  <2>1. PICK m \in {KernelOf[r], Malformed} : queue' = Append(queue, m)
    BY <1>6 DEF Publish
  <2>2. m \in Kernels \cup {Malformed}
    OBVIOUS
  <2>3. queue' \in Seq(Kernels \cup {Malformed})
    BY <2>1, <2>2, AppendProperties
  <2> QED
    BY <1>6, <2>3 DEF Publish
<1>7. ASSUME NEW r \in Req, KernelExits(r) PROVE TypeInv'
  BY <1>7 DEF KernelExits
<1>8. CASE Receive
  <2>1. /\ Head(queue) \in Kernels \cup {Malformed}
        /\ Tail(queue) \in Seq(Kernels \cup {Malformed})
    BY <1>8, HeadTailProperties DEF Receive
  <2>2. queue' \in Seq(Kernels \cup {Malformed})
    BY <1>8, <2>1 DEF Receive
  <2>3. CASE Head(queue) = Malformed
    BY <1>8, <2>2, <2>3 DEF Receive
  <2>4. CASE Head(queue) # Malformed
    BY <1>8, <2>1, <2>2, <2>4 DEF Receive
  <2> QED
    BY <2>3, <2>4
<1>9. CASE SendMemes
  BY <1>9 DEF SendMemes, LookupListener, LookupConn, WriteMemes, ConnFound
<1>10. CASE Crash
  BY <1>10 DEF Crash
<1> QED
  BY <1>1, <1>2, <1>3, <1>4, <1>5, <1>6, <1>7, <1>8, <1>9, <1>10 DEF Next

-----------------------------------------------------------------------------
(* The containers and the sessions that hold them. *)

\* No session has a container before its request reaches Create.
LEMMA InitLeaseInv == Init => LeaseInv
  BY DEF Init, LeaseInv, NameUnique, Owns, Unstarted, Holding, Live, Admission,
     Connected, Stopping

\* The daemon's names keep a second session from the container of a kernel.
LEMMA NextLeaseInv == TypeInv /\ LeaseInv /\ [Next]_vars => LeaseInv'
<1> SUFFICES ASSUME TypeInv, LeaseInv, [Next]_vars PROVE LeaseInv'
  OBVIOUS
<1> USE DEF TypeInv, TypeOK, LeaseInv, NameUnique, Owns, Unstarted, Holding, Live,
            Admission, Connected, Stopping, daemonVars, deliveryVars, resultVars, Goto
<1>1. CASE UNCHANGED vars
  BY <1>1 DEF vars
<1>2. ASSUME NEW r \in Req, Reject(r) \/ Admit(r) PROVE LeaseInv'
  BY <1>2 DEF Reject, Admit
<1>3. ASSUME NEW r \in Req, Enter(r) PROVE LeaseInv'
  <2>1. CASE Create(r) \/ CreateAnswerLost(r)
    BY <2>1 DEF Create, CreateAnswerLost, NameTaken, ContainerName
  <2>2. CASE Run(r) \/ RunFails(r)
    <3>1. /\ container[r] # "none" /\ container'[r] # "none"
          /\ \A q \in Req : container'[q] = container[q] \/ q = r
      BY <2>2 DEF Run, RunFails
    <3>2. /\ pc[r] = "start" /\ pc'[r] \in {"upgrade", "failed"}
          /\ \A q \in Req : pc'[q] = pc[q] \/ q = r
      BY <2>2 DEF Run, RunFails
    <3>3. \A q \in Req : container'[q] # "none" <=> container[q] # "none"
      BY <3>1
    <3> QED
      BY <3>2, <3>3
  <2>3. CASE Refuse(r) \/ Accept(r) \/ CreateFails(r)
    <3>1. CASE Refuse(r)
      BY <3>1 DEF Refuse
    <3>2. CASE Accept(r)
      BY <3>2 DEF Accept
    <3>3. CASE CreateFails(r)
      BY <3>3 DEF CreateFails
    <3> QED
      BY <2>3, <3>1, <3>2, <3>3
  <2>4. CASE Upgrade(r) \/ UpgradeFails(r)
    BY <2>4, ZenonT(40) DEF Upgrade, UpgradeFails
  <2>5. CASE RegisterConn(r) \/ RegisterListener(r)
    BY <2>5 DEF RegisterConn, RegisterListener
  <2> QED
    BY <1>3, <2>1, <2>2, <2>3, <2>4, <2>5 DEF Enter
<1>4. ASSUME NEW r \in Req, Loop(r) PROVE LeaseInv'
  BY <1>4 DEF Loop, ReadMessage, RunBlock, ReplyWritten, ReplyFails
<1>5. ASSUME NEW r \in Req, Leave(r) PROVE LeaseInv'
  <2>1. CASE DeleteConn(r)
    BY <2>1 DEF DeleteConn
  <2>2. CASE ContainerStop(r)
    BY <2>2 DEF ContainerStop
  <2>3. CASE ContainerRemove(r)
    BY <2>3 DEF ContainerRemove
  <2>4. CASE RemoveFails(r)
    <3>1. /\ pc[r] \in Stopping
          /\ pc' = [pc EXCEPT ![r] = "stopFailed"]
          /\ \A q \in Req : container'[q] = container[q] \/ q = r
      BY <2>4 DEF RemoveFails
    <3> QED
      BY <3>1
  <2> QED
    BY <1>5, <2>1, <2>2, <2>3, <2>4 DEF Leave
<1>6. ASSUME NEW r \in Req, Publish(r) \/ KernelExits(r) PROVE LeaseInv'
  BY <1>6 DEF Publish, KernelExits
<1>7. CASE Receive \/ SendMemes
  BY <1>7 DEF Receive, SendMemes, LookupListener, LookupConn, WriteMemes
<1>8. CASE Crash
  BY <1>8 DEF Crash
<1> QED
  BY <1>1, <1>2, <1>3, <1>4, <1>5, <1>6, <1>7, <1>8 DEF Next

\* One name, one container: so two sessions never hold the same kernel.
LEMMA LeaseInvExclusive == LeaseInv => KernelExclusive
  BY DEF LeaseInv, NameUnique, Owns, KernelExclusive

-----------------------------------------------------------------------------
(* The two maps of ComilerDelivery. *)

\* Nothing is registered yet.
LEMMA InitMapsInv == Init => MapsInv
  BY DEF Init, MapsInv, ListenerAccurate, NoDanglingConn, Connected, Stopping

\* Only the session that holds a kernel writes its listener, and the entry of a
\* connection goes when the connection leaves the loop by its end.
LEMMA NextMapsInv ==
  TypeInv /\ LeaseInv /\ LeaseInv' /\ MapsInv /\ [Next]_vars => MapsInv'
<1> SUFFICES ASSUME TypeInv, KernelExclusive', MapsInv, [Next]_vars PROVE MapsInv'
  BY LeaseInvExclusive, PTL
<1> USE DEF TypeInv, TypeOK, MapsInv, ListenerAccurate, NoDanglingConn, Connected,
            Stopping, daemonVars, deliveryVars, resultVars, Goto
<1>1. CASE UNCHANGED vars
  BY <1>1 DEF vars
<1>2. ASSUME NEW r \in Req, Reject(r) \/ Admit(r) PROVE MapsInv'
  BY <1>2 DEF Reject, Admit
<1>3. ASSUME NEW r \in Req, Enter(r) PROVE MapsInv'
  <2>1. CASE RegisterListener(r)
    <3>1. ListenerAccurate'
      <4> SUFFICES ASSUME NEW q \in Req,
                          pc'[q] \in (Connected \ {"listen"}) \cup Stopping
                   PROVE  kernelListeners'[KernelOf[q]] = UserOf[q]
        OBVIOUS
      <4>1. CASE KernelOf[q] = KernelOf[r]
        <5>1. pc'[r] = "read" /\ kernelListeners'[KernelOf[r]] = UserOf[r]
          BY <2>1 DEF RegisterListener
        <5>2. pc'[r] \in Holding /\ pc'[q] \in Holding
          BY <5>1 DEF Holding, Live, Admission
        <5>3. q = r
          BY <5>2, <4>1 DEF KernelExclusive
        <5> QED
          BY <5>1, <5>3
      <4>2. CASE KernelOf[q] # KernelOf[r]
        BY <2>1, <4>2 DEF RegisterListener
      <4> QED
        BY <4>1, <4>2
    <3>2. NoDanglingConn'
      BY <2>1 DEF RegisterListener
    <3> QED
      BY <3>1, <3>2
  <2>2. CASE RegisterConn(r)
    BY <2>2 DEF RegisterConn
  <2>3. ASSUME UNCHANGED deliveryVars, pc[r] \in Admission \ {"register"},
               \E to \in Point : pc' = [pc EXCEPT ![r] = to], 
               pc'[r] \notin Connected \cup Stopping
        PROVE  MapsInv'
    BY <2>3 DEF Admission
  <2>4. CASE Refuse(r) \/ Accept(r) \/ Create(r) \/ CreateFails(r) \/ CreateAnswerLost(r)
    BY <2>3, <2>4 DEF Refuse, Accept, Create, CreateFails, CreateAnswerLost, Admission,
       Point, Ended, Live
  <2>5. CASE Run(r) \/ RunFails(r) \/ Upgrade(r) \/ UpgradeFails(r)
    BY <2>3, <2>5 DEF Run, RunFails, Upgrade, UpgradeFails, Admission, Point, Ended, Live
  <2> QED
    BY <1>3, <2>1, <2>2, <2>4, <2>5 DEF Enter
<1>4. ASSUME NEW r \in Req, Loop(r) PROVE MapsInv'
  BY <1>4 DEF Loop, ReadMessage, RunBlock, ReplyWritten, ReplyFails
<1>5. ASSUME NEW r \in Req, Leave(r) PROVE MapsInv'
  <2>1. CASE DeleteConn(r)
    BY <2>1 DEF DeleteConn
  <2>2. CASE ContainerStop(r) \/ ContainerRemove(r)
    BY <2>2 DEF ContainerStop, ContainerRemove
  <2>3. CASE RemoveFails(r)
    BY <2>3 DEF RemoveFails
  <2> QED
    BY <1>5, <2>1, <2>2, <2>3 DEF Leave
<1>6. ASSUME NEW r \in Req, Publish(r) \/ KernelExits(r) PROVE MapsInv'
  BY <1>6 DEF Publish, KernelExits
<1>7. CASE Receive \/ SendMemes
  BY <1>7 DEF Receive, SendMemes, LookupListener, LookupConn, WriteMemes
<1>8. CASE Crash
  BY <1>8 DEF Crash, Live, Admission
<1> QED
  BY <1>1, <1>2, <1>3, <1>4, <1>5, <1>6, <1>7, <1>8 DEF Next

-----------------------------------------------------------------------------
(* Who may execute what. *)

\* Nobody is admitted and nothing is looked up yet.
LEMMA InitMayInv == Init => MayInv
  BY DEF Init, MayInv, AdmittedMay, ListenersMay, ConsumerMay, Receiving, At

\* A listener comes from an admitted request, what the consumer looked up from
\* a listener, and the connection it found belongs to the user it looked up.
LEMMA NextMayInv == TypeInv /\ MapsInv /\ MayInv /\ [Next]_vars => MayInv'
<1> SUFFICES ASSUME TypeInv, MapsInv, MayInv, [Next]_vars PROVE MayInv'
  OBVIOUS
<1> USE DEF TypeInv, TypeOK, MayInv, AdmittedMay, ListenersMay, ConsumerMay, MayExecute,
            ResultsToGranted, daemonVars, deliveryVars, resultVars, Goto
<1>1. CASE UNCHANGED vars
  BY <1>1 DEF vars
<1>2. ASSUME NEW r \in Req, Reject(r) \/ Admit(r) PROVE MayInv'
  BY <1>2 DEF Reject, Admit
<1>3. ASSUME NEW r \in Req, Enter(r) PROVE MayInv'
  <2>1. CASE RegisterListener(r)
    BY <2>1 DEF RegisterListener
  <2>2. ASSUME UNCHANGED <<kernelListeners, consumer>>, MayExecute(r),
               \A q \in Req : pc'[q] = pc[q] \/ q = r
        PROVE  MayInv'
    BY <2>2
  <2>3. CASE Refuse(r) \/ Accept(r) \/ Create(r) \/ CreateFails(r) \/ CreateAnswerLost(r)
    BY <2>2, <2>3 DEF Refuse, Accept, Create, CreateFails, CreateAnswerLost
  <2>4. CASE Run(r) \/ RunFails(r) \/ Upgrade(r) \/ UpgradeFails(r) \/ RegisterConn(r)
    BY <2>2, <2>4 DEF Run, RunFails, Upgrade, UpgradeFails, RegisterConn
  <2> QED
    BY <1>3, <2>1, <2>3, <2>4 DEF Enter
<1>4. ASSUME NEW r \in Req, Loop(r) PROVE MayInv'
  BY <1>4 DEF Loop, ReadMessage, RunBlock, ReplyWritten, ReplyFails
<1>5. ASSUME NEW r \in Req, Leave(r) PROVE MayInv'
  BY <1>5 DEF Leave, DeleteConn, ContainerStop, ContainerRemove, RemoveFails
<1>6. ASSUME NEW r \in Req, Publish(r) \/ KernelExits(r) PROVE MayInv'
  BY <1>6 DEF Publish, KernelExits
<1>7. CASE Receive
  BY <1>7 DEF Receive, At
<1>8. CASE LookupListener
  BY <1>8 DEF LookupListener, At, LookupTyped
<1>9. CASE LookupConn
  <2>1. CASE ConnFound = None
    BY <1>9, <2>1 DEF LookupConn, Receiving, At
  <2>2. CASE ConnFound # None
    <3>1. /\ consumer.user \in Users
          /\ ConnFound = activeConns[consumer.user]
          /\ <<consumer.user, consumer.kernel>> \in CanExecute
      BY <1>9, <2>2 DEF LookupConn, ConnFound
    <3>2. ConnFound \in Req /\ UserOf[ConnFound] = consumer.user
      BY <2>2, <3>1 DEF MapsInv, NoDanglingConn
    <3> QED
      BY <1>9, <2>2, <3>1, <3>2 DEF LookupConn, At
  <2> QED
    BY <2>1, <2>2
<1>10. CASE WriteMemes
  BY <1>10 DEF WriteMemes, Receiving, At
<1>11. CASE Crash
  BY <1>11 DEF Crash, Receiving, At, Live, Admission, Connected, Stopping
<1> QED
  BY <1>1, <1>2, <1>3, <1>4, <1>5, <1>6, <1>7, <1>8, <1>9, <1>10, <1>11 DEF Next, SendMemes

-----------------------------------------------------------------------------
(* The theorems. *)

\* The invariant is inductive: it holds at first and every step keeps it.
THEOREM Invariance == Spec => []IInv
<1>1. Init => IInv
  BY InitTypeInv, InitLeaseInv, InitMapsInv, InitMayInv DEF IInv
<1>2. IInv /\ [Next]_vars => IInv'
  BY NextTypeInv, NextLeaseInv, NextMapsInv, NextMayInv DEF IInv
<1> QED
  BY <1>1, <1>2, PTL DEF Spec

\* Every state of the sessions has the types TypeOK says.
THEOREM TypeCorrect == Spec => []TypeOK
<1>1. IInv => TypeOK
  BY DEF IInv, TypeInv
<1> QED
  BY <1>1, Invariance, PTL

\* However requests for a kernel race through Compile, the daemon's container
\* name lets at most one of them hold it.
THEOREM Exclusion == Spec => []KernelExclusive
<1>1. IInv => KernelExclusive
  BY LeaseInvExclusive DEF IInv
<1> QED
  BY <1>1, Invariance, PTL

\* The listener of a kernel is the user it is served to.
THEOREM Listening == Spec => []ListenerAccurate
<1>1. IInv => ListenerAccurate
  BY DEF IInv, MapsInv
<1> QED
  BY <1>1, Invariance, PTL

\* No entry of activeConns outlives a connection that ended by itself.
THEOREM NoDangling == Spec => []NoDanglingConn
<1>1. IInv => NoDanglingConn
  BY DEF IInv, MapsInv
<1> QED
  BY <1>1, Invariance, PTL

\* The results of a kernel are only ever written to users who may execute it.
THEOREM Confinement == Spec => []ResultsToGranted
<1>1. IInv => ResultsToGranted
  BY DEF IInv, MayInv, ConsumerMay, ResultsToGranted
<1> QED
  BY <1>1, Invariance, PTL

=============================================================================
