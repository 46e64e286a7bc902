---------------------------- MODULE BlocksProofs ----------------------------
(***************************************************************************)
(* Proofs about Blocks: it implements Sessions, so that what is proved of  *)
(* sessions holds of it, and RunBlock keeps to its mutex, its types and    *)
(* its attempts.                                                           *)
(***************************************************************************)
EXTENDS Blocks, SessionsProofs

USE ConstantsAssumption, BlocksAssumption

\* Kernel ids and user ids have one length, so their concatenations differ.
KeysDiffer ==
    \A p, q \in Kernels \X Users : KeyOf[p] = KeyOf[q] => p = q

-----------------------------------------------------------------------------
(* Sessions. *)

\* The steps of StartKernel and RunBlock are steps of the sessions, or none.
THEOREM BlocksImplementation == BlocksSpec => ImplementsSessions
<1>1. BlocksInit => Init
  BY DEF BlocksInit
<1>2. [BlocksNext]_allVars => [Next]_vars
  <2> SUFFICES ASSUME [BlocksNext]_allVars PROVE [Next]_vars
    OBVIOUS
  <2>1. CASE UNCHANGED allVars
    BY <2>1 DEF allVars
  <2>2. ASSUME NEW r \in Req, StartKernel(r) PROVE [Next]_vars
    BY <2>2 DEF StartKernel, EnterStartKernel, NewMutex, NewTypes, CallCreate, Next, Enter
  <2>3. ASSUME NEW r \in Req, EnterRunBlock(r) PROVE [Next]_vars
    BY <2>3 DEF EnterRunBlock, Next, Loop
  <2>4. ASSUME NEW r \in Req, InRunBlock(r) PROVE [Next]_vars
    <3>1. CASE LookupMutex(r) \/ Lock(r) \/ DeferUnlock(r) \/ ReadAttempts(r) \/ WriteAttempts(r)
      BY <3>1 DEF LookupMutex, Lock, DeferUnlock, ReadAttempts, WriteAttempts
    <3>2. CASE ReadSource(r) \/ LookupTypes(r) \/ Parse(r) \/ Build(r) \/ AskKernel(r) \/ AskFails(r)
      BY <3>2 DEF ReadSource, LookupTypes, Parse, Build, AskKernel, AskFails
    <3>3. CASE Return(r)
      BY <3>3 DEF Return, Next, Loop
    <3>4. CASE UnlockOfUnlocked(r)
      BY <3>4 DEF UnlockOfUnlocked, BlocksCrash, Next
    <3> QED
      BY <2>4, <3>1, <3>2, <3>3, <3>4 DEF InRunBlock
  <2>5. ASSUME NEW r \in Req, Elsewhere(r) PROVE [Next]_vars
    BY <2>5 DEF Elsewhere, Next, Enter, Loop
  <2>6. CASE (Receive \/ SendMemes) /\ UNCHANGED blockVars
    BY <2>6 DEF Next
  <2>7. CASE BlocksCrash
    BY <2>7 DEF BlocksCrash, Next
  <2> QED
    BY <2>1, <2>2, <2>3, <2>4, <2>5, <2>6, <2>7 DEF BlocksNext
<1> QED
  BY <1>1, <1>2, PTL DEF BlocksSpec, ImplementsSessions, Spec

-----------------------------------------------------------------------------
(* Types, and what a goroutine finds in the maps. *)

\* Where a goroutine stands in the two functions agrees with where it stands in
\* its session, and in RunBlock it has a block.
Located ==
    \A r \in Req :
        /\ pc[r] = "create" <=> at[r] \in Starting
        /\ pc[r] = "run" <=> at[r] \in Running
        /\ at[r] \in Running => frame[r].block \in BlockIds

\* Past the assignments of StartKernel the maps have a mutex and types for r:
\* later requests replace them, and nothing takes them away.
Found ==
    \A r \in Req :
        pc[r] \in Live \ {"check"} =>
            /\ at[r] = "newMutex" \/ kernelMuxes[Key(r)] \in Req
            /\ at[r] \in {"newMutex", "newTypes"} \/ kernelTypes[Key(r)] \in Req

BlocksInv == BlocksTypeOK /\ Located /\ Found /\ NoNilLookup

\* The maps are empty, and nobody stands in the two functions.
LEMMA BlocksInitInv == BlocksInit => BlocksInv
  BY DEF BlocksInit, BlocksInv, BlocksTypeOK, Located, Found, NoNilLookup, NoFrame, Frame,
     Starting, Running, Holds, Init, Live, Admission, Connected, Stopping

\* Setting one local keeps a frame a frame, and the other locals as they are.
LEMMA FrameUpdate ==
  ASSUME NEW f \in [Req -> Frame], NEW r \in Req
  PROVE  /\ \A b \in BlockIds \cup {None} :
               [f EXCEPT ![r].block = b] \in [Req -> Frame]
         /\ \A m \in Req \cup {None} :
               /\ [f EXCEPT ![r].mutex = m] \in [Req -> Frame]
               /\ [f EXCEPT ![r].unlock = m] \in [Req -> Frame]
               /\ [f EXCEPT ![r].types = m] \in [Req -> Frame]
         /\ \A n \in Nat : [f EXCEPT ![r].attempt = n] \in [Req -> Frame]
<1>1. f[r] \in Frame
  OBVIOUS
<1>2. \A b \in BlockIds \cup {None} : [f[r] EXCEPT !.block = b] \in Frame
  BY <1>1 DEF Frame
<1>3. \A m \in Req \cup {None} : [f[r] EXCEPT !.mutex = m] \in Frame
  BY <1>1 DEF Frame
<1>4. \A m \in Req \cup {None} : [f[r] EXCEPT !.unlock = m] \in Frame
  BY <1>1 DEF Frame
<1>5. \A m \in Req \cup {None} : [f[r] EXCEPT !.types = m] \in Frame
  BY <1>1 DEF Frame
<1>6. \A n \in Nat : [f[r] EXCEPT !.attempt = n] \in Frame
  BY <1>1 DEF Frame
<1> QED
  BY <1>2, <1>3, <1>4, <1>5, <1>6

\* A step within RunBlock that leaves the maps of StartKernel alone.
LEMMA LocalStep ==
  ASSUME TypeOK, BlocksInv, NEW r \in Req, NEW to \in Running,
         UNCHANGED <<vars, kernelMuxes, kernelTypes>>,
         at[r] \in Running, at' = [at EXCEPT ![r] = to],
         frame' \in [Req -> Frame],
         \A q \in Req : q # r => frame'[q] = frame[q],
         frame'[r].block = frame[r].block,
         to # "mutex" => frame'[r].mutex # None,
         to \in Holds \ {"defer"} => frame'[r].unlock # None,
         to = "parse" => frame'[r].types # None,
         locked' \in SUBSET Req, declared' \in [Req -> SUBSET BlockIds],
         kernelAttempts' \in [Keys \X BlockIds -> Nat],
         loaded' \in [Req -> SUBSET (BlockIds \X Nat)]
  PROVE  BlocksInv'
<1> USE DEF BlocksInv
<1>1. /\ at \in [Req -> {"out"} \cup Starting \cup Running]
      /\ \A q \in Req : at'[q] = IF q = r THEN to ELSE at[q]
      /\ pc' = pc
  BY DEF BlocksTypeOK, vars
<1>2. BlocksTypeOK'
  BY <1>1 DEF BlocksTypeOK
<1>3. Located'
  BY <1>1 DEF Located, Running, Starting, Holds
<1>4. Found'
  <2>1. kernelMuxes' = kernelMuxes /\ kernelTypes' = kernelTypes
    OBVIOUS
  <2>2. at[r] \notin {"newMutex", "newTypes"}
    BY DEF Running, Holds
  <2> QED
    BY <1>1, <2>1, <2>2 DEF Found, Key
<1>5. NoNilLookup'
  BY <1>1 DEF NoNilLookup, Holds, Running
<1> QED
  BY <1>2, <1>3, <1>4, <1>5

\* Every step keeps the types, and what a goroutine was promised to find.
LEMMA BlocksNextInv ==
  TypeOK /\ TypeOK' /\ BlocksInv /\ [BlocksNext]_allVars => BlocksInv'
<1> SUFFICES ASSUME TypeOK, TypeOK', BlocksInv, [BlocksNext]_allVars PROVE BlocksInv'
  OBVIOUS
<1>a. /\ pc \in [Req -> Point]
      /\ at \in [Req -> {"out"} \cup Starting \cup Running]
  BY DEF TypeOK, BlocksInv, BlocksTypeOK
<1>b. \A r \in Req : Key(r) \in Keys
  BY DEF Key
<1> USE <1>a, <1>b DEF BlocksInv
\* A step of the sessions which takes no goroutine into or out of the functions.
<1>1. ASSUME UNCHANGED blockVars,
             \A r \in Req : /\ pc'[r] = "create" <=> pc[r] = "create"
                            /\ pc'[r] = "run" <=> pc[r] = "run"
                            /\ pc'[r] \in Live \ {"check"} => pc[r] \in Live \ {"check"}
      PROVE  BlocksInv'
  BY <1>1 DEF BlocksTypeOK, Located, Found, NoNilLookup, blockVars, mapVars, Key
<1>2. CASE UNCHANGED allVars
  BY <1>1, <1>2 DEF allVars, vars
<1>c. CASE BlocksCrash
  BY <1>c DEF BlocksCrash, Crash, BlocksTypeOK, Located, Found, NoNilLookup, Starting,
     Running, Holds, NoFrame, Frame, Live, Admission, Connected, Stopping
<1>3. ASSUME NEW r \in Req, StartKernel(r) PROVE BlocksInv'
  <2> USE DEF Step, BlocksTypeOK, Located, Found, NoNilLookup, Starting, Running, Holds,
              mapVars, Live, Admission, Connected, Stopping
  <2>1. CASE EnterStartKernel(r)
    BY <2>1 DEF EnterStartKernel, Accept, Goto
  <2>2. CASE NewMutex(r)
    BY <2>2 DEF NewMutex, vars
  <2>3. CASE NewTypes(r)
    BY <2>3 DEF NewTypes, vars
  <2>4. CASE CallCreate(r)
    BY <2>4 DEF CallCreate, Create, CreateFails, CreateAnswerLost, Goto
  <2> QED
    BY <1>3, <2>1, <2>2, <2>3, <2>4 DEF StartKernel
<1>4. ASSUME NEW r \in Req, EnterRunBlock(r) PROVE BlocksInv'
  <2>1. PICK b \in BlockIds : frame' = [frame EXCEPT ![r].block = b]
    BY <1>4 DEF EnterRunBlock
  <2>2. /\ pc[r] = "read" /\ pc'[r] = "run" /\ \A q \in Req : q # r => pc'[q] = pc[q]
        /\ at[r] = "out" /\ at' = [at EXCEPT ![r] = "mutex"]
        /\ UNCHANGED <<mapVars, loaded>>
    BY <1>4 DEF EnterRunBlock, ReadMessage, Goto, Step
  <2>3. /\ frame' \in [Req -> Frame] /\ frame'[r].block \in BlockIds
        /\ \A q \in Req : q # r => frame'[q] = frame[q]
    <3>1. frame \in [Req -> Frame] /\ frame[r] \in Frame
      BY DEF BlocksTypeOK
    <3>2. frame' \in [Req -> Frame]
      BY <2>1, <3>1, FrameUpdate
    <3>3. frame'[r] = [frame[r] EXCEPT !.block = b]
      BY <2>1, <3>1
    <3> QED
      BY <2>1, <3>1, <3>2, <3>3 DEF Frame
  <2> USE DEF Starting, Running, Holds, mapVars
  <2>4. BlocksTypeOK'
    BY <2>2, <2>3 DEF BlocksTypeOK
  <2>5. Located'
    BY <2>2, <2>3 DEF Located
  <2>6. Found'
    BY <2>2 DEF Found, Live, Connected, Key
  <2>7. NoNilLookup'
    BY <2>2, <2>3 DEF NoNilLookup
  <2> QED
    BY <2>4, <2>5, <2>6, <2>7
<1>5. ASSUME NEW r \in Req, InRunBlock(r) PROVE BlocksInv'
  <2>1. /\ frame \in [Req -> Frame]
        /\ locked \in SUBSET Req /\ declared \in [Req -> SUBSET BlockIds]
        /\ kernelAttempts \in [Keys \X BlockIds -> Nat]
        /\ loaded \in [Req -> SUBSET (BlockIds \X Nat)]
    BY DEF BlocksTypeOK
  <2>2. ASSUME at[r] \in Running
        PROVE  /\ kernelMuxes[Key(r)] \in Req /\ kernelTypes[Key(r)] \in Req
               /\ frame[r].block \in BlockIds
               /\ at[r] # "mutex" => frame[r].mutex \in Req
               /\ at[r] \in Holds \ {"defer"} => frame[r].unlock \in Req
               /\ at[r] = "parse" => frame[r].types \in Req
    <3>1. pc[r] = "run" /\ at[r] \notin {"newMutex", "newTypes"}
      BY <2>2 DEF Located, Running, Holds
    <3>2. kernelMuxes[Key(r)] \in Req /\ kernelTypes[Key(r)] \in Req
      BY <3>1 DEF Found, Live, Connected
    <3>3. frame[r].mutex \in Req \cup {None} /\ frame[r].unlock \in Req \cup {None}
            /\ frame[r].types \in Req \cup {None}
      BY <2>1 DEF Frame
    <3>4. frame[r].block \in BlockIds
      BY <2>2 DEF Located
    <3>5. at[r] # "mutex" => at[r] \in Holds \cup {"lock"}
      BY <2>2 DEF Running
    <3> QED
      BY <3>2, <3>3, <3>4, <3>5 DEF NoNilLookup
  <2> USE DEF Step, mapVars, Running, Holds
  <2>3. CASE LookupMutex(r)
    <3>1. /\ at[r] = "mutex" /\ at' = [at EXCEPT ![r] = "lock"]
          /\ frame' = [frame EXCEPT ![r].mutex = kernelMuxes[Key(r)]]
          /\ UNCHANGED <<vars, mapVars, loaded>>
      BY <2>3 DEF LookupMutex
    <3>2. /\ frame' \in [Req -> Frame]
          /\ frame'[r] = [frame[r] EXCEPT !.mutex = kernelMuxes[Key(r)]]
          /\ \A q \in Req : q # r => frame'[q] = frame[q]
      <4>1. kernelMuxes[Key(r)] \in Req
        BY <2>1, <2>2, <3>1 DEF Running, Holds
      <4>2. frame' \in [Req -> Frame]
        BY <2>1, <3>1, <4>1, FrameUpdate
      <4> QED
        BY <2>1, <3>1, <4>2
    <3>3. frame[r] \in Frame /\ "lock" \in Running
      BY <2>1
    <3>4. /\ frame'[r].block = frame[r].block
          /\ frame'[r].mutex # None
          /\ "lock" \in Holds \ {"defer"} => frame'[r].unlock # None
          /\ "lock" = "parse" => frame'[r].types # None
      BY <2>2, <3>1, <3>2, <3>3 DEF Frame
    <3> QED
      BY <2>1, <3>1, <3>2, <3>3, <3>4, LocalStep
  <2>4. CASE Lock(r)
    BY <2>1, <2>2, <2>4, LocalStep DEF Lock
  <2>5. CASE DeferUnlock(r)
    <3>1. /\ at[r] = "defer" /\ at' = [at EXCEPT ![r] = "attempt"]
          /\ frame' = [frame EXCEPT ![r].unlock = kernelMuxes[Key(r)]]
          /\ UNCHANGED <<vars, mapVars, loaded>>
      BY <2>5 DEF DeferUnlock
    <3>2. /\ frame' \in [Req -> Frame]
          /\ frame'[r] = [frame[r] EXCEPT !.unlock = kernelMuxes[Key(r)]]
          /\ \A q \in Req : q # r => frame'[q] = frame[q]
      <4>1. kernelMuxes[Key(r)] \in Req
        BY <2>1, <2>2, <3>1 DEF Running, Holds
      <4>2. frame' \in [Req -> Frame]
        BY <2>1, <3>1, <4>1, FrameUpdate
      <4> QED
        BY <2>1, <3>1, <4>2
    <3>3. frame[r] \in Frame /\ "attempt" \in Running
      BY <2>1
    <3>4. /\ frame'[r].block = frame[r].block
          /\ frame'[r].mutex # None
          /\ "attempt" \in Holds \ {"defer"} => frame'[r].unlock # None
          /\ "attempt" = "parse" => frame'[r].types # None
      BY <2>2, <3>1, <3>2, <3>3 DEF Frame
    <3> QED
      BY <2>1, <3>1, <3>2, <3>3, <3>4, LocalStep
  <2>6. CASE ReadAttempts(r)
    <3>1. /\ at[r] = "attempt" /\ at' = [at EXCEPT ![r] = "count"]
          /\ frame' = [frame EXCEPT ![r].attempt = kernelAttempts[<<Key(r), frame[r].block>>] + 1]
          /\ UNCHANGED <<vars, mapVars, loaded>>
      BY <2>6 DEF ReadAttempts
    <3>2. /\ frame' \in [Req -> Frame]
          /\ frame'[r] = [frame[r] EXCEPT !.attempt = kernelAttempts[<<Key(r), frame[r].block>>] + 1]
          /\ \A q \in Req : q # r => frame'[q] = frame[q]
      <4>1. kernelAttempts[<<Key(r), frame[r].block>>] + 1 \in Nat
        BY <2>1, <2>2, <3>1 DEF Running, Holds
      <4>2. frame' \in [Req -> Frame]
        BY <2>1, <3>1, <4>1, FrameUpdate
      <4> QED
        BY <2>1, <3>1, <4>2
    <3>3. frame[r] \in Frame /\ "count" \in Running
      BY <2>1
    <3>4. /\ frame'[r].block = frame[r].block
          /\ frame'[r].mutex # None
          /\ "count" \in Holds \ {"defer"} => frame'[r].unlock # None
          /\ "count" = "parse" => frame'[r].types # None
      BY <2>2, <3>1, <3>2, <3>3 DEF Frame
    <3> QED
      BY <2>1, <3>1, <3>2, <3>3, <3>4, LocalStep
  <2>7. CASE WriteAttempts(r)
    <3>1. /\ at[r] = "count" /\ at' = [at EXCEPT ![r] = "source"]
          /\ UNCHANGED <<vars, kernelMuxes, locked, kernelTypes, declared, frame, loaded>>
          /\ kernelAttempts' = [kernelAttempts EXCEPT ![<<Key(r), frame[r].block>>]
                                                          = frame[r].attempt]
      BY <2>7 DEF WriteAttempts
    <3>2. frame[r].attempt \in Nat
      BY <2>1 DEF Frame
    <3>3. kernelAttempts' \in [Keys \X BlockIds -> Nat]
      BY <2>1, <3>1, <3>2
    <3> QED
      BY <2>1, <2>2, <3>1, <3>3, LocalStep
  <2>8. CASE ReadSource(r) \/ Build(r) \/ AskFails(r)
    <3>1. PICK to \in {"types", "ask", "failed"} : at' = [at EXCEPT ![r] = to]
      BY <2>8 DEF ReadSource, Build, AskFails
    <3>2. at[r] \in {"source", "build", "ask"} /\ UNCHANGED <<vars, mapVars, frame, loaded>>
      BY <2>8 DEF ReadSource, Build, AskFails
    <3> QED
      BY <2>1, <2>2, <3>1, <3>2, LocalStep
  <2>9. CASE LookupTypes(r)
    <3>1. /\ at[r] = "types" /\ at' = [at EXCEPT ![r] = "parse"]
          /\ frame' = [frame EXCEPT ![r].types = kernelTypes[Key(r)]]
          /\ UNCHANGED <<vars, mapVars, loaded>>
      BY <2>9 DEF LookupTypes
    <3>2. /\ frame' \in [Req -> Frame]
          /\ frame'[r] = [frame[r] EXCEPT !.types = kernelTypes[Key(r)]]
          /\ \A q \in Req : q # r => frame'[q] = frame[q]
      <4>1. kernelTypes[Key(r)] \in Req
        BY <2>1, <2>2, <3>1 DEF Running, Holds
      <4>2. frame' \in [Req -> Frame]
        BY <2>1, <3>1, <4>1, FrameUpdate
      <4> QED
        BY <2>1, <3>1, <4>2
    <3>3. frame[r] \in Frame /\ "parse" \in Running
      BY <2>1
    <3>4. /\ frame'[r].block = frame[r].block
          /\ frame'[r].mutex # None
          /\ "parse" \in Holds \ {"defer"} => frame'[r].unlock # None
          /\ "parse" = "parse" => frame'[r].types # None
      BY <2>2, <3>1, <3>2, <3>3 DEF Frame
    <3> QED
      BY <2>1, <3>1, <3>2, <3>3, <3>4, LocalStep
  <2>10. CASE Parse(r)
    <3>1. PICK to \in {"build", "failed"} : at' = [at EXCEPT ![r] = to]
      BY <2>10 DEF Parse
    <3>2. /\ at[r] = "parse"
          /\ UNCHANGED <<vars, kernelMuxes, locked, kernelTypes, kernelAttempts, frame, loaded>>
      BY <2>10 DEF Parse
    <3>3. declared' \in [Req -> SUBSET BlockIds]
      BY <2>1, <2>2, <2>10, <3>2 DEF Parse
    <3> QED
      BY <2>1, <2>2, <3>1, <3>2, <3>3, LocalStep
  <2>11. CASE AskKernel(r)
    <3>1. PICK to \in {"done", "failed"} : at' = [at EXCEPT ![r] = to]
      BY <2>11 DEF AskKernel
    <3>2. at[r] = "ask" /\ UNCHANGED <<vars, mapVars, frame>>
      BY <2>11 DEF AskKernel
    <3>3. Plugin(r) \in BlockIds \X Nat
      BY <2>1, <2>2, <3>2 DEF Plugin, Frame
    <3>4. loaded' \in [Req -> SUBSET (BlockIds \X Nat)]
      BY <2>1, <2>11, <3>3 DEF AskKernel
    <3> QED
      BY <2>1, <2>2, <3>1, <3>2, <3>4, LocalStep
  <2>12. CASE Return(r)
    BY <2>1, <2>12 DEF Return, RunBlock, Goto, BlocksTypeOK, Located, Found, NoNilLookup,
       Starting, NoFrame, Frame, Live, Connected
  <2>13. CASE UnlockOfUnlocked(r)
    BY <1>c, <2>13 DEF UnlockOfUnlocked
  <2> QED
    BY <1>5, <2>3, <2>4, <2>5, <2>6, <2>7, <2>8, <2>9, <2>10, <2>11, <2>12, <2>13
       DEF InRunBlock
<1>6. ASSUME NEW r \in Req, Elsewhere(r) PROVE BlocksInv'
  <2> USE DEF Goto, Live, Admission, Connected, Stopping
  <2>1. UNCHANGED blockVars
    BY <1>6 DEF Elsewhere
  <2>2. CASE Reject(r) \/ Admit(r) \/ Refuse(r)
    BY <1>1, <2>1, <2>2 DEF Reject, Admit, Refuse
  <2>3. CASE Run(r) \/ RunFails(r) \/ Upgrade(r) \/ UpgradeFails(r)
    BY <1>1, <2>1, <2>3 DEF Run, RunFails, Upgrade, UpgradeFails
  <2>4. CASE RegisterConn(r) \/ RegisterListener(r)
    BY <1>1, <2>1, <2>4 DEF RegisterConn, RegisterListener
  <2>5. CASE ReadMessage(r) /\ pc'[r] # "run"
    BY <1>1, <2>1, <2>5 DEF ReadMessage
  <2>6. CASE ReplyWritten(r) \/ ReplyFails(r)
    BY <1>1, <2>1, <2>6 DEF ReplyWritten, ReplyFails
  <2>7. CASE Leave(r)
    BY <1>1, <2>1, <2>7 DEF Leave, DeleteConn, ContainerStop, ContainerRemove, RemoveFails
  <2>8. CASE Publish(r) \/ KernelExits(r)
    BY <1>1, <2>1, <2>8 DEF Publish, KernelExits
  <2> QED
    BY <1>6, <2>2, <2>3, <2>4, <2>5, <2>6, <2>7, <2>8 DEF Elsewhere
<1>7. CASE (Receive \/ SendMemes) /\ UNCHANGED blockVars
  BY <1>1, <1>7 DEF Receive, SendMemes, LookupListener, LookupConn, WriteMemes
<1> QED
  BY <1>2, <1>c, <1>3, <1>4, <1>5, <1>6, <1>7 DEF BlocksNext

\* What is proved of sessions holds while they run blocks, and BlocksInv too.
LEMMA BlocksInvariance == BlocksSpec => [](IInv /\ BlocksInv)
<1>1. IInv => TypeOK
  BY DEF IInv, TypeInv
<1>2. BlocksSpec => []IInv
  BY BlocksImplementation, Invariance, PTL DEF ImplementsSessions
<1> QED
  BY <1>1, <1>2, BlocksInitInv, BlocksNextInv, PTL DEF BlocksSpec

\* RunBlock never comes upon a nil mutex or nil types, whatever requests for the
\* same kernel put into the maps meanwhile.
THEOREM NilFreedom == BlocksSpec => []NoNilLookup
<1>1. BlocksInv => NoNilLookup
  BY DEF BlocksInv
<1> QED
  BY <1>1, BlocksInvariance, PTL

-----------------------------------------------------------------------------
(* Attempts. *)

\* The plugins a session's kernel opened are of attempts counted already.
Opened ==
    \A r \in Req :
        /\ pc[r] \in {"new"} \cup Admission => loaded[r] = {}
        /\ pc[r] \in Connected =>
               \A p \in loaded[r] : p[2] <= kernelAttempts[<<Key(r), p[1]>>]

\* The attempt a goroutine is at is the one it counted, and was not opened yet.
Counted ==
    \A r \in Req :
        /\ at[r] = "count" =>
               frame[r].attempt = kernelAttempts[<<Key(r), frame[r].block>>] + 1
        /\ at[r] \in {"source", "types", "parse", "build", "ask"} =>
               /\ frame[r].attempt = kernelAttempts[<<Key(r), frame[r].block>>]
               /\ Plugin(r) \notin loaded[r]

AttemptsInv == Opened /\ Counted

\* A kernel has one session, whose goroutine alone counts attempts at its blocks.
LEMMA NextAttemptsInv ==
  ASSUME KeysDiffer
  PROVE  IInv /\ BlocksInv /\ BlocksInv' /\ AttemptsInv /\ [BlocksNext]_allVars => AttemptsInv'
<1> SUFFICES ASSUME IInv, BlocksInv, BlocksInv', AttemptsInv, [BlocksNext]_allVars
             PROVE  AttemptsInv'
  OBVIOUS
<1>a. /\ TypeOK /\ KernelExclusive
      /\ BlocksTypeOK /\ Located /\ BlocksTypeOK' /\ Located'
  BY LeaseInvExclusive DEF IInv, TypeInv, BlocksInv
<1>b. /\ pc \in [Req -> Point] /\ at \in [Req -> {"out"} \cup Starting \cup Running]
      /\ frame \in [Req -> Frame] /\ loaded \in [Req -> SUBSET (BlockIds \X Nat)]
      /\ kernelAttempts \in [Keys \X BlockIds -> Nat]
  BY <1>a DEF TypeOK, BlocksTypeOK
<1>c. \A r \in Req : Key(r) \in Keys
  BY DEF Key
<1> USE <1>b, <1>c DEF AttemptsInv, Opened, Counted
\* A step that neither counts nor opens, nor brings r to a point it was not at.
<1>1. ASSUME UNCHANGED <<kernelAttempts, loaded>>,
             \A r \in Req :
                 /\ pc'[r] \in {"new"} \cup Admission => pc[r] \in {"new"} \cup Admission
                 /\ pc'[r] \in Connected => pc[r] \in {"register"} \cup Connected
                 /\ at'[r] = "count" =>
                        at[r] = "count" /\ frame'[r] = frame[r]
                 /\ at'[r] \in {"source", "types", "parse", "build", "ask"} =>
                        /\ at[r] \in {"source", "types", "parse", "build", "ask"}
                        /\ frame'[r].block = frame[r].block
                        /\ frame'[r].attempt = frame[r].attempt
      PROVE  AttemptsInv'
  BY <1>1 DEF Plugin, Key, Admission
<1>2. CASE UNCHANGED allVars
  BY <1>1, <1>2 DEF allVars, vars, blockVars, mapVars
<1>3. ASSUME NEW r \in Req, StartKernel(r) PROVE AttemptsInv'
  <2> USE DEF Step, mapVars, Admission, Connected, Starting, Goto
  <2>1. CASE EnterStartKernel(r)
    BY <1>1, <2>1 DEF EnterStartKernel, Accept
  <2>2. CASE NewMutex(r) \/ NewTypes(r)
    BY <1>1, <2>2 DEF NewMutex, NewTypes, vars
  <2>3. CASE CallCreate(r)
    BY <1>1, <2>3 DEF CallCreate, Create, CreateFails, CreateAnswerLost
  <2> QED
    BY <1>3, <2>1, <2>2, <2>3 DEF StartKernel
<1>4. ASSUME NEW r \in Req, EnterRunBlock(r) PROVE AttemptsInv'
  BY <1>1, <1>4 DEF EnterRunBlock, ReadMessage, Goto, Step, mapVars, Admission, Connected
<1>5. CASE BlocksCrash
  BY <1>5, <1>b DEF BlocksCrash, Crash, Live, Admission, Connected, Point
<1>6. ASSUME NEW r \in Req, InRunBlock(r) PROVE AttemptsInv'
  <2> USE DEF Step, mapVars
  <2>1. CASE LookupMutex(r) \/ Lock(r) \/ DeferUnlock(r)
    BY <1>1, <2>1 DEF LookupMutex, Lock, DeferUnlock, vars
  <2>2. CASE ReadAttempts(r)
    <3>1. /\ at[r] = "attempt" /\ at' = [at EXCEPT ![r] = "count"]
          /\ frame' = [frame EXCEPT ![r].attempt = kernelAttempts[<<Key(r), frame[r].block>>] + 1]
          /\ UNCHANGED <<pc, kernelAttempts, loaded>>
      BY <2>2 DEF ReadAttempts, vars
    <3>2. frame[r] \in Frame /\ frame'[r] = [frame[r] EXCEPT !.attempt =
                                               kernelAttempts[<<Key(r), frame[r].block>>] + 1]
      BY <3>1
    <3>3. /\ frame'[r].block = frame[r].block
          /\ frame'[r].attempt = kernelAttempts[<<Key(r), frame[r].block>>] + 1
          /\ \A q \in Req : q # r => frame'[q] = frame[q]
      BY <3>1, <3>2 DEF Frame
    <3>4. \A q \in Req : at'[q] = IF q = r THEN "count" ELSE at[q]
      BY <3>1
    <3>5. Opened'
      BY <3>1 DEF Key
    <3>6. Counted'
      BY <3>1, <3>3, <3>4 DEF Key, Plugin
    <3> QED
      BY <3>5, <3>6
  <2>3. CASE WriteAttempts(r)
    <3> DEFINE rk == <<Key(r), frame[r].block>>
    <3>1. /\ at[r] = "count" /\ at' = [at EXCEPT ![r] = "source"]
          /\ kernelAttempts' = [kernelAttempts EXCEPT ![rk] = frame[r].attempt]
          /\ UNCHANGED <<pc, frame, loaded>>
      BY <2>3 DEF WriteAttempts, vars
    <3>2. /\ pc[r] = "run" /\ frame[r].block \in BlockIds
          /\ frame[r].attempt = kernelAttempts[rk] + 1
      BY <1>a, <3>1 DEF Located, Running, Holds
    <3>3. rk \in Keys \X BlockIds
      BY <3>2
    <3>4. ASSUME NEW q \in Req, q # r, pc[q] \in Connected
          PROVE  Key(q) # Key(r)
      <4>1. KernelOf[q] # KernelOf[r]
        BY <1>a, <3>2, <3>4 DEF KernelExclusive, Holding, Live, Connected, Admission
      <4> QED
        BY <4>1 DEF KeysDiffer, Key
    <3>5. \A x \in Keys \X BlockIds :
            kernelAttempts'[x] = IF x = rk THEN kernelAttempts[rk] + 1 ELSE kernelAttempts[x]
      BY <3>1, <3>2, <3>3
    <3>6. Opened'
      <4> SUFFICES ASSUME NEW q \in Req, pc[q] \in Connected, NEW p \in loaded[q]
                   PROVE  p[2] <= kernelAttempts'[<<Key(q), p[1]>>]
        BY <3>1 DEF Key
      <4>1. /\ p \in BlockIds \X Nat
            /\ p[2] <= kernelAttempts[<<Key(q), p[1]>>]
        OBVIOUS
      <4>2. <<Key(q), p[1]>> \in Keys \X BlockIds
        BY <4>1
      <4> QED
        BY <3>3, <3>5, <4>1, <4>2
    <3>7. ASSUME NEW q \in Req, q # r, at[q] \in Running
          PROVE  kernelAttempts'[<<Key(q), frame[q].block>>]
                    = kernelAttempts[<<Key(q), frame[q].block>>]
      <4>1. pc[q] \in Connected /\ <<Key(q), frame[q].block>> \in Keys \X BlockIds
        BY <1>a, <3>7 DEF Located, Connected
      <4> QED
        BY <3>4, <3>5, <3>7, <4>1
    <3>8. Plugin(r) \notin loaded[r]
      <4>1. \A p \in loaded[r] : p[2] <= kernelAttempts[<<Key(r), p[1]>>]
        BY <3>2 DEF Connected
      <4> QED
        BY <3>2, <3>3, <4>1 DEF Plugin
    <3>9. Counted'
      <4> SUFFICES ASSUME NEW q \in Req PROVE Counted!(q)'
        BY DEF Counted
      <4>1. CASE q = r
        BY <3>1, <3>2, <3>3, <3>5, <3>8, <4>1 DEF Key, Plugin
      <4>2. CASE q # r
        BY <3>1, <3>7, <4>2 DEF Key, Plugin, Running, Holds
      <4> QED
        BY <4>1, <4>2
    <3> QED
      BY <3>6, <3>9
  <2>4. CASE ReadSource(r) \/ Build(r) \/ AskFails(r)
    BY <1>1, <2>4 DEF ReadSource, Build, AskFails, vars
  <2>5. CASE LookupTypes(r) \/ Parse(r)
    <3>1. /\ at[r] \in {"types", "parse"}
          /\ at' \in {[at EXCEPT ![r] = to] : to \in {"parse", "build", "failed"}}
          /\ UNCHANGED <<pc, kernelAttempts, loaded>>
          /\ frame' = frame \/ frame' = [frame EXCEPT ![r].types = kernelTypes[Key(r)]]
      BY <2>5 DEF LookupTypes, Parse, vars
    <3>2. \A q \in Req : /\ frame'[q].block = frame[q].block
                         /\ frame'[q].attempt = frame[q].attempt
      BY <3>1 DEF Frame
    <3>3. \A q \in Req : at'[q] = at[q] \/ (q = r /\ at'[r] \in {"parse", "build", "failed"})
      BY <3>1
    <3>4. Opened'
      BY <3>1 DEF Key
    <3>5. Counted'
      <4> SUFFICES ASSUME NEW q \in Req PROVE Counted!(q)'
        BY DEF Counted
      <4> QED
        BY <3>1, <3>2, <3>3 DEF Key, Plugin
    <3> QED
      BY <3>4, <3>5
  <2>6. CASE AskKernel(r)
    <3>1. PICK to \in {"done", "failed"} : at' = [at EXCEPT ![r] = to]
      BY <2>6 DEF AskKernel
    <3>2. /\ at[r] = "ask" /\ UNCHANGED <<pc, kernelAttempts, frame>>
          /\ loaded' = loaded \/ loaded' = [loaded EXCEPT ![r] = @ \cup {Plugin(r)}]
      BY <2>6 DEF AskKernel, vars
    <3>3. /\ pc[r] = "run"
          /\ frame[r].attempt = kernelAttempts[<<Key(r), frame[r].block>>]
      BY <1>a, <3>2 DEF Located, Running, Holds
    <3>4. /\ \A q \in Req : q # r => loaded'[q] = loaded[q]
          /\ loaded'[r] \subseteq loaded[r] \cup {Plugin(r)}
      BY <3>2
    <3>5. Opened'
      <4> SUFFICES ASSUME NEW q \in Req PROVE Opened!(q)'
        BY DEF Opened
      <4>1. CASE q = r
        <5>1. <<Key(r), frame[r].block>> = <<Key(r), Plugin(r)[1]>> /\ Plugin(r)[2] = frame[r].attempt
          BY DEF Plugin
        <5>2. frame[r].attempt \in Nat
          BY DEF Frame
        <5>3. \A p \in loaded'[r] : p[2] <= kernelAttempts[<<Key(r), p[1]>>]
          <6> SUFFICES ASSUME NEW p \in loaded'[r]
                       PROVE  p[2] <= kernelAttempts[<<Key(r), p[1]>>]
            OBVIOUS
          <6>1. CASE p \in loaded[r]
            <7>1. pc[r] \in Connected /\ Opened
              BY <3>3 DEF Connected, AttemptsInv
            <7> HIDE DEF Connected
            <7>2. \A e \in loaded[r] : e[2] <= kernelAttempts[<<Key(r), e[1]>>]
              BY <7>1, Zenon DEF Opened
            <7> QED
              BY <6>1, <7>2, Zenon
          <6>2. CASE p = Plugin(r)
            <7>1. p[2] = kernelAttempts[<<Key(r), p[1]>>] /\ p[2] \in Nat
              BY <3>3, <5>1, <5>2, <6>2
            <7> QED
              BY <7>1
          <6> QED
            BY <3>4, <6>1, <6>2
        <5> QED
          BY <3>2, <3>3, <4>1, <5>3 DEF Admission, Key
      <4>2. CASE q # r
        BY <3>2, <3>4, <4>2 DEF Key
      <4> QED
        BY <4>1, <4>2
    <3>6. Counted'
      BY <3>1, <3>2, <3>4 DEF Key, Plugin
    <3> QED
      BY <3>5, <3>6
  <2>7. CASE Return(r)
    BY <1>1, <2>7 DEF Return, RunBlock, Goto, Admission, Connected
  <2>8. CASE UnlockOfUnlocked(r)
    BY <1>5, <2>8 DEF UnlockOfUnlocked
  <2> QED
    BY <1>6, <2>1, <2>2, <2>3, <2>4, <2>5, <2>6, <2>7, <2>8 DEF InRunBlock
<1>7. ASSUME NEW r \in Req, Elsewhere(r) PROVE AttemptsInv'
  <2> USE DEF Goto, Admission, Connected, Stopping, blockVars, mapVars
  <2>1. UNCHANGED blockVars
    BY <1>7 DEF Elsewhere
  <2>2. CASE Reject(r) \/ Admit(r) \/ Refuse(r)
    BY <1>1, <2>1, <2>2 DEF Reject, Admit, Refuse
  <2>3. CASE Run(r) \/ RunFails(r) \/ Upgrade(r) \/ UpgradeFails(r)
    BY <1>1, <2>1, <2>3 DEF Run, RunFails, Upgrade, UpgradeFails
  <2>4. CASE RegisterConn(r) \/ RegisterListener(r)
    BY <1>1, <2>1, <2>4 DEF RegisterConn, RegisterListener
  <2>5. CASE ReadMessage(r) \/ ReplyWritten(r) \/ ReplyFails(r)
    BY <1>1, <2>1, <2>5 DEF ReadMessage, ReplyWritten, ReplyFails
  <2>6. CASE Leave(r)
    BY <1>1, <2>1, <2>6 DEF Leave, DeleteConn, ContainerStop, ContainerRemove, RemoveFails
  <2>7. CASE Publish(r) \/ KernelExits(r)
    BY <1>1, <2>1, <2>7 DEF Publish, KernelExits
  <2> QED
    BY <1>7, <2>2, <2>3, <2>4, <2>5, <2>6, <2>7 DEF Elsewhere
<1>8. CASE (Receive \/ SendMemes) /\ UNCHANGED blockVars
  BY <1>1, <1>8 DEF Receive, SendMemes, LookupListener, LookupConn, WriteMemes, blockVars,
     mapVars
<1> QED
  BY <1>2, <1>3, <1>4, <1>5, <1>6, <1>7, <1>8 DEF BlocksNext

\* No kernel is asked for a plugin it opened before, in whatever order sessions
\* come and go: the attempts of a block are counted for as long as the process
\* lives, and a kernel never outlives its session for another one's sake.
THEOREM FreshPlugins == ASSUME KeysDiffer PROVE BlocksSpec => FreshPlugin
<1>1. BlocksInit => AttemptsInv
  BY DEF BlocksInit, AttemptsInv, Opened, Counted, Init, Connected
<1>2. BlocksSpec => []AttemptsInv
  BY <1>1, NextAttemptsInv, BlocksInvariance, PTL DEF BlocksSpec
<1>3. AttemptsInv => (\A r \in Req : AskKernel(r) => Plugin(r) \notin loaded[r])
  BY DEF AttemptsInv, Counted, AskKernel, Step
<1> QED
  BY <1>2, <1>3, PTL DEF FreshPlugin

-----------------------------------------------------------------------------
(* The mutex. *)

\* The maps have under a key what a request of that key put there, and so have the
\* locals of RunBlock.
EntriesOf ==
    \A k \in Keys : /\ kernelMuxes[k] # None => Key(kernelMuxes[k]) = k
                    /\ kernelTypes[k] # None => Key(kernelTypes[k]) = k
LocalsOf ==
    \A r \in Req : /\ frame[r].mutex # None => Key(frame[r].mutex) = Key(r)
                   /\ frame[r].unlock # None => Key(frame[r].unlock) = Key(r)
                   /\ frame[r].types # None => Key(frame[r].types) = Key(r)

\* A mutex is locked by a RunBlock that is past its Lock.
LocksHeld == \A m \in locked : \E r \in Req : at[r] \in Holds /\ frame[r].mutex = m

MutexInv == EntriesOf /\ LocalsOf /\ LocksHeld

\* A kernel and user have one RunBlock, so a locked mutex under its key is its own.
LEMMA LockedOwn ==
  ASSUME KeysDiffer, IInv, BlocksInv, MutexInv, NEW r \in Req,
         at[r] \in Holds \ {"defer"}, frame[r].unlock \in locked
  PROVE  frame[r].unlock = frame[r].mutex
<1>1. PICK p \in Req : at[p] \in Holds /\ frame[p].mutex = frame[r].unlock
  BY DEF MutexInv, LocksHeld
<1>2. frame[r].unlock # None /\ frame[p].mutex # None
  BY <1>1 DEF BlocksInv, NoNilLookup
<1>3. Key(p) = Key(r)
  BY <1>1, <1>2 DEF MutexInv, LocalsOf
<1>4. KernelOf[p] = KernelOf[r]
  BY <1>3 DEF Key, KeysDiffer
<1>5. pc[p] = "run" /\ pc[r] = "run"
  BY <1>1 DEF BlocksInv, Located, Running
<1>6. KernelExclusive
  BY LeaseInvExclusive DEF IInv
<1>7. p = r
  BY <1>4, <1>5, <1>6 DEF KernelExclusive, Holding, Live, Connected
<1> QED
  BY <1>1, <1>7

\* The locks are left when their RunBlock is, and the maps keep to their keys.
LEMMA NextMutexInv ==
  ASSUME KeysDiffer
  PROVE  IInv /\ BlocksInv /\ MutexInv /\ [BlocksNext]_allVars => MutexInv'
<1> SUFFICES ASSUME IInv, BlocksInv, MutexInv, [BlocksNext]_allVars PROVE MutexInv'
  OBVIOUS
<1>a. /\ at \in [Req -> {"out"} \cup Starting \cup Running] /\ frame \in [Req -> Frame]
      /\ kernelMuxes \in [Keys -> Req \cup {None}]
      /\ kernelTypes \in [Keys -> Req \cup {None}]
      /\ \A r \in Req : Key(r) \in Keys
      /\ \A r \in Req : /\ frame[r].mutex \in Req \cup {None}
                        /\ frame[r].unlock \in Req \cup {None}
                        /\ frame[r].types \in Req \cup {None}
  BY DEF BlocksInv, BlocksTypeOK, Key, Frame
<1> USE <1>a DEF MutexInv, EntriesOf, LocalsOf, LocksHeld
\* A step that locks nothing, and takes none who holds a mutex from it.
<1>1. ASSUME UNCHANGED <<kernelMuxes, kernelTypes, locked>>,
             \A r \in Req : /\ at[r] \in Holds => at'[r] \in Holds
                            /\ frame'[r].mutex = frame[r].mutex
                            /\ frame'[r].unlock = frame[r].unlock
                            /\ frame'[r].types = frame[r].types
      PROVE  MutexInv'
  <2>1. EntriesOf'
    BY <1>1 DEF Key
  <2>2. LocalsOf'
    BY <1>1 DEF Key
  <2>3. LocksHeld'
    BY <1>1, SMTT(30)
  <2> QED
    BY <2>1, <2>2, <2>3
<1>2. CASE UNCHANGED allVars
  BY <1>1, <1>2 DEF allVars, blockVars, mapVars
<1>3. ASSUME NEW r \in Req, StartKernel(r) PROVE MutexInv'
  <2> USE DEF Step, mapVars
  <2>1. CASE EnterStartKernel(r)
    BY <1>1, <2>1 DEF EnterStartKernel, Holds
  <2>2. CASE NewMutex(r) \/ NewTypes(r)
    <3>1. /\ at[r] \in Starting /\ \A q \in Req : q # r => at'[q] = at[q]
          /\ UNCHANGED <<locked, frame>>
          /\ \/ kernelMuxes' = [kernelMuxes EXCEPT ![Key(r)] = r] /\ kernelTypes' = kernelTypes
             \/ kernelTypes' = [kernelTypes EXCEPT ![Key(r)] = r] /\ kernelMuxes' = kernelMuxes
      BY <2>2 DEF NewMutex, NewTypes, Starting
    <3>2. EntriesOf'
      <4>1. \A k \in Keys : /\ kernelMuxes'[k] \in {kernelMuxes[k], r}
                            /\ kernelTypes'[k] \in {kernelTypes[k], r}
                            /\ k # Key(r) => /\ kernelMuxes'[k] = kernelMuxes[k]
                                             /\ kernelTypes'[k] = kernelTypes[k]
        BY <3>1
      <4>2. SUFFICES ASSUME NEW k \in Keys
                     PROVE  /\ kernelMuxes'[k] # None => Key(kernelMuxes'[k]) = k
                            /\ kernelTypes'[k] # None => Key(kernelTypes'[k]) = k
        BY DEF Key
      <4>3. CASE k = Key(r)
        BY <4>1, <4>3
      <4>4. CASE k # Key(r)
        BY <4>1, <4>4
      <4> QED
        BY <4>3, <4>4
    <3>3. LocalsOf' /\ LocksHeld'
      BY <3>1 DEF Key, Starting, Holds
    <3> QED
      BY <3>2, <3>3
  <2>3. CASE CallCreate(r)
    BY <1>1, <2>3 DEF CallCreate, Holds
  <2> QED
    BY <1>3, <2>1, <2>2, <2>3 DEF StartKernel
<1>4. ASSUME NEW r \in Req, EnterRunBlock(r) PROVE MutexInv'
  <2>1. PICK b \in BlockIds : frame' = [frame EXCEPT ![r].block = b]
    BY <1>4 DEF EnterRunBlock
  <2>2. /\ at[r] = "out" /\ \A q \in Req : q # r => at'[q] = at[q]
        /\ UNCHANGED mapVars
    BY <1>4 DEF EnterRunBlock, Step
  <2>3. \A q \in Req : /\ frame'[q].mutex = frame[q].mutex
                       /\ frame'[q].unlock = frame[q].unlock
                       /\ frame'[q].types = frame[q].types
    BY <2>1 DEF Frame
  <2> QED
    BY <1>1, <2>2, <2>3 DEF mapVars, Holds
<1>5. CASE BlocksCrash
  BY <1>5 DEF BlocksCrash, NoFrame
<1>6. ASSUME NEW r \in Req, InRunBlock(r) PROVE MutexInv'
  <2> USE DEF Step, mapVars
  <2>1. CASE LookupMutex(r) \/ DeferUnlock(r) \/ LookupTypes(r) \/ ReadAttempts(r)
    <3>1. /\ UNCHANGED mapVars /\ \A q \in Req : q # r => at'[q] = at[q]
          /\ at[r] = "mutex" \/ at'[r] \in Holds
          /\ frame' \in {[frame EXCEPT ![r].mutex = kernelMuxes[Key(r)]],
                         [frame EXCEPT ![r].unlock = kernelMuxes[Key(r)]],
                         [frame EXCEPT ![r].types = kernelTypes[Key(r)]],
                         [frame EXCEPT ![r].attempt =
                                           kernelAttempts[<<Key(r), frame[r].block>>] + 1]}
          /\ at[r] \in Holds => frame'[r].mutex = frame[r].mutex
      BY <2>1 DEF LookupMutex, DeferUnlock, LookupTypes, ReadAttempts, Holds, Frame
    <3>2. \A q \in Req :
            /\ q # r => frame'[q] = frame[q]
            /\ frame'[q].mutex \in {frame[q].mutex, kernelMuxes[Key(q)]}
            /\ frame'[q].unlock \in {frame[q].unlock, kernelMuxes[Key(q)]}
            /\ frame'[q].types \in {frame[q].types, kernelTypes[Key(q)]}
      BY <3>1 DEF Frame
    <3>3. EntriesOf'
      BY <3>1 DEF Key
    <3>4. LocalsOf'
      <4>1. \A q \in Req : /\ kernelMuxes[Key(q)] # None => Key(kernelMuxes[Key(q)]) = Key(q)
                           /\ kernelTypes[Key(q)] # None => Key(kernelTypes[Key(q)]) = Key(q)
        OBVIOUS
      <4>2. SUFFICES ASSUME NEW q \in Req
                     PROVE  /\ frame'[q].mutex # None => Key(frame'[q].mutex) = Key(q)
                            /\ frame'[q].unlock # None => Key(frame'[q].unlock) = Key(q)
                            /\ frame'[q].types # None => Key(frame'[q].types) = Key(q)
        BY DEF Key
      <4> QED
        BY <3>2, <4>1
    <3>5. LocksHeld'
      BY <3>1, <3>2 DEF Holds
    <3> QED
      BY <3>3, <3>4, <3>5
  <2>2. CASE Lock(r)
    <3>1. /\ locked' = locked \cup {frame[r].mutex} /\ at'[r] \in Holds
          /\ \A q \in Req : q # r => at'[q] = at[q]
          /\ UNCHANGED <<kernelMuxes, kernelTypes, frame>>
      BY <2>2 DEF Lock, Holds
    <3> QED
      BY <3>1 DEF Key
  <2>3. CASE WriteAttempts(r) \/ ReadSource(r) \/ Parse(r) \/ Build(r) \/ AskKernel(r) \/ AskFails(r)
    <3>1. /\ UNCHANGED <<kernelMuxes, kernelTypes, locked, frame>> /\ at'[r] \in Holds
          /\ \A q \in Req : q # r => at'[q] = at[q]
      BY <2>3 DEF WriteAttempts, ReadSource, Parse, Build, AskKernel, AskFails, Holds
    <3> QED
      BY <1>1, <3>1
  <2>4. CASE Return(r)
    <3>1. /\ at[r] \in Holds \ {"defer"} /\ frame[r].unlock \in locked
          /\ locked' = locked \ {frame[r].unlock}
          /\ \A q \in Req : q # r => at'[q] = at[q] /\ frame'[q] = frame[q]
          /\ frame'[r] = NoFrame /\ UNCHANGED <<kernelMuxes, kernelTypes>>
      BY <2>4 DEF Return, Holds
    <3>2. frame[r].unlock = frame[r].mutex
      BY <3>1, LockedOwn
    <3>3. EntriesOf'
      BY <3>1 DEF Key
    <3>4. LocalsOf'
      <4>1. /\ frame'[r].mutex = None /\ frame'[r].unlock = None /\ frame'[r].types = None
        BY <3>1 DEF NoFrame
      <4>2. SUFFICES ASSUME NEW q \in Req
                     PROVE  /\ frame'[q].mutex # None => Key(frame'[q].mutex) = Key(q)
                            /\ frame'[q].unlock # None => Key(frame'[q].unlock) = Key(q)
                            /\ frame'[q].types # None => Key(frame'[q].types) = Key(q)
        BY DEF Key
      <4> QED
        BY <3>1, <4>1
    <3>5. LocksHeld'
      BY <3>1, <3>2
    <3> QED
      BY <3>3, <3>4, <3>5
  <2>5. CASE UnlockOfUnlocked(r)
    BY <1>5, <2>5 DEF UnlockOfUnlocked
  <2> QED
    BY <1>6, <2>1, <2>2, <2>3, <2>4, <2>5 DEF InRunBlock
<1>7. ASSUME NEW r \in Req, Elsewhere(r) PROVE MutexInv'
  BY <1>1, <1>7 DEF Elsewhere, blockVars, mapVars
<1>8. CASE (Receive \/ SendMemes) /\ UNCHANGED blockVars
  BY <1>1, <1>8 DEF blockVars, mapVars
<1> QED
  BY <1>2, <1>3, <1>4, <1>5, <1>6, <1>7, <1>8 DEF BlocksNext

LEMMA MutexInvariance == ASSUME KeysDiffer PROVE BlocksSpec => []MutexInv
<1>1. BlocksInit => MutexInv
  BY DEF BlocksInit, MutexInv, EntriesOf, LocalsOf, LocksHeld, NoFrame
<1> QED
  BY <1>1, NextMutexInv, BlocksInvariance, PTL DEF BlocksSpec

\* Whichever requests for a kernel come while it runs a block, the Unlock of one RunBlock
\* never lets another one pass its Lock.
THEOREM MutexOwn == ASSUME KeysDiffer PROVE BlocksSpec => []UnlocksOwn
<1>1. IInv /\ BlocksInv /\ MutexInv => UnlocksOwn
  BY LockedOwn DEF UnlocksOwn
<1> QED
  BY <1>1, MutexInvariance, BlocksInvariance, PTL

-----------------------------------------------------------------------------
(* The types. *)

\* A request that the running kernel keeps from starting, or did.
Refused(q) == pc[q] \in {"create", "failed"}

\* The types of q have all blocks that the kernel of r opened.
HasOpened(q, r) == \A p \in loaded[r] : p[1] \in declared[q]

\* A session's types have what its kernel opened, unless they were replaced by those of a
\* request that does not get the kernel.
TypesKept ==
    \A r \in Req :
        /\ pc[r] \in {"new"} \cup Admission => loaded[r] = {}
        /\ pc[r] \in Connected =>
               Refused(kernelTypes[Key(r)]) \/ HasOpened(kernelTypes[Key(r)], r)
        /\ at[r] \in {"parse", "build", "ask"} =>
               frame[r].types = kernelTypes[Key(r)] \/ Refused(kernelTypes[Key(r)])
        /\ at[r] \in {"parse", "build", "ask"} => frame[r].types # None
        /\ at[r] = "parse" => Refused(frame[r].types) \/ HasOpened(frame[r].types, r)
        /\ at[r] \in {"build", "ask"} => frame[r].block \in declared[frame[r].types]

\* While a session lasts, no request of its kernel and user gets past Create.
LEMMA StaysRefused ==
  ASSUME KeysDiffer, IInv, NEW q \in Req, Create(q),
         NEW r \in Req, pc[r] \in Connected, Key(r) = Key(q)
  PROVE  FALSE
<1>1. KernelOf[r] = KernelOf[q]
  BY DEF Key, KeysDiffer
<1>2. container[r] # "none"
  BY DEF IInv, LeaseInv, Owns, Holding, Live, Connected
<1> QED
  BY <1>1, <1>2 DEF Create, NameTaken, ContainerName

\* What replaces a session's types belongs to a request that is refused, and what is
\* opened was declared before in the types that the session had then.
LEMMA NextTypesKept ==
  ASSUME KeysDiffer
  PROVE  IInv /\ BlocksInv /\ MutexInv /\ TypesKept /\ [BlocksNext]_allVars => TypesKept'
<1> SUFFICES ASSUME IInv, BlocksInv, MutexInv, TypesKept, [BlocksNext]_allVars PROVE TypesKept'
  OBVIOUS
<1>a. /\ pc \in [Req -> Point] /\ at \in [Req -> {"out"} \cup Starting \cup Running]
      /\ frame \in [Req -> Frame] /\ loaded \in [Req -> SUBSET (BlockIds \X Nat)]
      /\ declared \in [Req -> SUBSET BlockIds]
      /\ kernelTypes \in [Keys -> Req \cup {None}]
      /\ \A r \in Req : Key(r) \in Keys
      /\ \A r \in Req : frame[r].types \in Req \cup {None}
  BY DEF IInv, TypeInv, TypeOK, BlocksInv, BlocksTypeOK, Key, Frame
<1>b. Located /\ Found
  BY DEF BlocksInv
<1>d. ASSUME NEW r \in Req, at[r] \in Running PROVE pc[r] = "run" /\ pc[r] \in Connected
  BY <1>b, <1>d DEF Located, Connected
<1>e. ASSUME NEW r \in Req, pc[r] \in Connected
      PROVE  kernelTypes[Key(r)] \in Req /\ Key(kernelTypes[Key(r)]) = Key(r)
  <2>1. kernelTypes[Key(r)] \in Req
    BY <1>b, <1>e DEF Located, Found, Live, Connected, Starting
  <2>2. kernelTypes[Key(r)] # None
    BY <2>1
  <2>3. Key(kernelTypes[Key(r)]) = Key(r)
    <3>1. \A k \in Keys : kernelTypes[k] # None => Key(kernelTypes[k]) = k
      BY DEF MutexInv, EntriesOf
    <3> HIDE DEF Key
    <3> QED
      BY <1>a, <2>2, <3>1
  <2> QED
    BY <2>1, <2>3
<1>f. ASSUME NEW r \in Req, at[r] \in {"parse", "build", "ask"}
      PROVE  /\ frame[r].types \in Req /\ Key(frame[r].types) = Key(r)
             /\ pc[r] = "run" /\ pc[r] \in Connected
  <2>1. pc[r] = "run" /\ pc[r] \in Connected
    <3>1. at[r] \in Running
      BY <1>f DEF Running, Holds
    <3> QED
      BY <1>d, <3>1
  <2>2. frame[r].types # None
    BY <1>f DEF TypesKept
  <2>3. frame[r].types \in Req
    BY <1>a, <2>2
  <2>4. Key(frame[r].types) = Key(r)
    BY <2>2 DEF MutexInv, LocalsOf
  <2> QED
    BY <2>1, <2>3, <2>4
<1> USE <1>a DEF TypesKept
\* A step that opens and replaces nothing, in which no refused request gets further.
<1>1. ASSUME UNCHANGED <<kernelTypes, loaded>>,
             \A q \in Req : declared[q] \subseteq declared'[q],
             \A q \in Req : Refused(q) => Refused(q)',
             \A r \in Req :
                 /\ pc'[r] \in {"new"} \cup Admission => pc[r] \in {"new"} \cup Admission
                 /\ pc'[r] \in Connected => pc[r] \in {"register"} \cup Connected
                 /\ at'[r] \in {"parse", "build", "ask"} => at[r] \in {"parse", "build", "ask"}
                 /\ at'[r] = "parse" => at[r] = "parse"
                 /\ at'[r] \in {"build", "ask"} /\ at[r] = "parse"
                       => frame[r].block \in declared'[frame[r].types]
                 /\ at'[r] \in {"parse", "build", "ask"} =>
                       /\ frame'[r].block = frame[r].block
                       /\ frame'[r].types = frame[r].types /\ frame[r].types \in Req
      PROVE  TypesKept'
  <2> SUFFICES ASSUME NEW r \in Req PROVE TypesKept!(r)'
    OBVIOUS
  <2>1. /\ pc'[r] \in {"new"} \cup Admission => loaded'[r] = {}
        /\ kernelTypes'[Key(r)] = kernelTypes[Key(r)]
    BY <1>1
  <2>2. ASSUME NEW q \in Req, HasOpened(q, r) PROVE HasOpened(q, r)'
    BY <1>1, <2>2 DEF HasOpened
  <2>3. ASSUME pc'[r] \in Connected
        PROVE  Refused(kernelTypes[Key(r)])' \/ HasOpened(kernelTypes[Key(r)], r)'
    <3>1. CASE pc[r] = "register"
      BY <1>1, <3>1 DEF HasOpened, Admission
    <3>2. CASE pc[r] \in Connected
      BY <1>1, <1>e, <2>1, <2>2, <3>2
    <3> QED
      BY <1>1, <2>3, <3>1, <3>2
  <2>4. ASSUME at'[r] \in {"parse", "build", "ask"}
        PROVE  /\ frame'[r].types = kernelTypes'[Key(r)] \/ Refused(kernelTypes[Key(r)])'
               /\ frame'[r].types # None
               /\ at'[r] = "parse" => Refused(frame[r].types)' \/ HasOpened(frame[r].types, r)'
               /\ at'[r] \in {"build", "ask"} => frame'[r].block \in declared'[frame'[r].types]
    <3>1. /\ frame'[r].types = frame[r].types /\ frame'[r].block = frame[r].block
          /\ at[r] \in {"parse", "build", "ask"} /\ frame[r].types \in Req
          /\ at'[r] = "parse" => at[r] = "parse"
      BY <1>1, <2>4
    <3>2. kernelTypes[Key(r)] \in Req
      BY <1>e, <1>f, <3>1
    <3> QED
      BY <1>1, <2>1, <2>2, <2>4, <3>1, <3>2
  <2> QED
    BY <2>1, <2>3, <2>4
<1>2. CASE UNCHANGED allVars
  BY <1>1, <1>2, <1>f DEF allVars, vars, blockVars, mapVars, Refused
<1>3. ASSUME NEW r \in Req, StartKernel(r) PROVE TypesKept'
  <2> USE DEF Step, mapVars, Admission, Connected, Starting, Goto
  <2>1. CASE EnterStartKernel(r)
    BY <1>1, <1>f, <2>1 DEF EnterStartKernel, Accept, Refused
  <2>2. CASE NewMutex(r)
    BY <1>1, <1>f, <2>2 DEF NewMutex, vars, Refused
  <2>3. CASE NewTypes(r)
    <3>1. /\ at[r] = "newTypes" /\ at' = [at EXCEPT ![r] = "docker"]
          /\ kernelTypes' = [kernelTypes EXCEPT ![Key(r)] = r]
          /\ UNCHANGED <<pc, declared, frame, loaded>>
      BY <2>3 DEF NewTypes, vars
    <3>2. pc[r] = "create"
      BY <1>b, <3>1 DEF Located
    <3> SUFFICES ASSUME NEW q \in Req PROVE TypesKept!(q)'
      OBVIOUS
    <3>3. /\ \A p : Refused(p)' <=> Refused(p)
          /\ \A p : HasOpened(p, q)' <=> HasOpened(p, q)
      BY <3>1 DEF Refused, HasOpened
    <3>4. at'[q] \in {"parse", "build", "ask"} => at'[q] = at[q]
      BY <3>1
    <3>5. CASE Key(q) = Key(r)
      <4>1. kernelTypes'[Key(q)] = r /\ Refused(r)
        BY <3>1, <3>2, <3>5 DEF Refused
      <4>2. Refused(kernelTypes[Key(q)])'
        BY <3>1, <4>1 DEF Refused, Key
      <4> QED
        BY <3>1, <3>3, <3>4, <4>2
    <3>6. CASE Key(q) # Key(r)
      <4>1. kernelTypes'[Key(q)] = kernelTypes[Key(q)]
        BY <3>1, <3>6
      <4> QED
        BY <3>1, <3>3, <3>4, <4>1
    <3> QED
      BY <3>5, <3>6
  <2>4. CASE CallCreate(r)
    <3>1. CASE CreateFails(r) \/ CreateAnswerLost(r)
      BY <1>1, <1>f, <2>4, <3>1 DEF CallCreate, CreateFails, CreateAnswerLost, Refused
    <3>2. CASE Create(r)
      <4>1. /\ pc' = [pc EXCEPT ![r] = "start"] /\ pc[r] = "create" /\ at'[r] = "out"
            /\ \A q \in Req : q # r => at'[q] = at[q]
            /\ UNCHANGED <<kernelTypes, declared, frame, loaded>>
        BY <2>4, <3>2 DEF CallCreate, Create
      <4> SUFFICES ASSUME NEW q \in Req PROVE TypesKept!(q)'
        OBVIOUS
      <4>2. ASSUME NEW p \in Req, Key(p) = Key(q), pc[q] \in Connected, Refused(p)
            PROVE  Refused(p)'
        <5>1. p # r
          BY <3>2, <4>2, StaysRefused
        <5> QED
          BY <4>1, <4>2, <5>1 DEF Refused
      <4>3. \A p : HasOpened(p, q)' <=> HasOpened(p, q)
        BY <4>1 DEF HasOpened
      <4>4. pc'[q] \in Connected => pc[q] \in Connected
        BY <4>1
      <4>5. /\ pc'[q] \in {"new"} \cup Admission => loaded'[q] = {}
            /\ kernelTypes'[Key(q)] = kernelTypes[Key(q)]
        BY <4>1
      <4>6. ASSUME pc'[q] \in Connected
            PROVE  Refused(kernelTypes[Key(q)])' \/ HasOpened(kernelTypes[Key(q)], q)'
        BY <1>e, <4>1, <4>2, <4>3, <4>4, <4>6
      <4>7. ASSUME at'[q] \in {"parse", "build", "ask"}
            PROVE  /\ frame'[q].types = kernelTypes'[Key(q)] \/ Refused(kernelTypes[Key(q)])'
                   /\ frame'[q].types # None
                   /\ at'[q] = "parse"
                         => Refused(frame[q].types)' \/ HasOpened(frame[q].types, q)'
                   /\ at'[q] \in {"build", "ask"}
                         => frame'[q].block \in declared'[frame'[q].types]
        <5>1. at[q] = at'[q] /\ frame'[q] = frame[q]
          BY <4>1, <4>7
        <5>2. pc[q] \in Connected /\ frame[q].types \in Req /\ Key(frame[q].types) = Key(q)
          BY <1>f, <4>7, <5>1
        <5>3. kernelTypes[Key(q)] \in Req /\ Key(kernelTypes[Key(q)]) = Key(q)
          BY <1>e, <5>2
        <5> QED
          BY <4>1, <4>2, <4>3, <4>5, <4>7, <5>1, <5>2, <5>3
      <4> QED
        BY <4>5, <4>6, <4>7
    <3> QED
      BY <2>4, <3>1, <3>2 DEF CallCreate
  <2> QED
    BY <1>3, <2>1, <2>2, <2>3, <2>4 DEF StartKernel
<1>4. ASSUME NEW r \in Req, EnterRunBlock(r) PROVE TypesKept'
  <2>1. PICK b \in BlockIds : frame' = [frame EXCEPT ![r].block = b]
    BY <1>4 DEF EnterRunBlock
  <2>2. /\ pc[r] = "read" /\ pc' = [pc EXCEPT ![r] = "run"] /\ at' = [at EXCEPT ![r] = "mutex"]
        /\ UNCHANGED <<kernelTypes, declared, loaded>>
        /\ \A q \in Req : q # r => frame'[q] = frame[q]
    BY <1>4, <2>1 DEF EnterRunBlock, ReadMessage, Goto, Step, mapVars
  <2> QED
    BY <1>1, <1>f, <2>2 DEF Refused, Connected, Admission
<1>5. CASE BlocksCrash
  BY <1>5 DEF BlocksCrash, Crash, Live, Admission, Connected, Point, HasOpened
<1>6. ASSUME NEW r \in Req, InRunBlock(r) PROVE TypesKept'
  <2> USE DEF Step, mapVars
  <2>1. CASE LookupMutex(r) \/ Lock(r) \/ DeferUnlock(r) \/ ReadAttempts(r) \/ WriteAttempts(r)
             \/ ReadSource(r) \/ Build(r) \/ AskFails(r)
    <3>1. /\ UNCHANGED <<pc, kernelTypes, declared, loaded>>
          /\ \A q \in Req : q # r => at'[q] = at[q] /\ frame'[q] = frame[q]
          /\ at'[r] \in {"parse", "build", "ask"} => at[r] = "build" /\ at'[r] = "ask"
          /\ at'[r] \in {"parse", "build", "ask"} => frame'[r] = frame[r]
      BY <2>1 DEF LookupMutex, Lock, DeferUnlock, ReadAttempts, WriteAttempts, ReadSource,
                  Build, AskFails, vars
    <3> QED
      BY <1>1, <1>f, <3>1 DEF Refused
  <2>2. CASE LookupTypes(r)
    <3>1. /\ at[r] = "types" /\ at' = [at EXCEPT ![r] = "parse"]
          /\ frame' = [frame EXCEPT ![r].types = kernelTypes[Key(r)]]
          /\ UNCHANGED <<pc, kernelTypes, declared, loaded>>
      BY <2>2 DEF LookupTypes, vars
    <3>2. frame'[r].types = kernelTypes[Key(r)] /\ \A q \in Req : q # r => frame'[q] = frame[q]
      BY <3>1 DEF Frame
    <3>3. pc[r] \in Connected /\ kernelTypes[Key(r)] \in Req
      BY <1>d, <1>e, <3>1 DEF Running, Holds
    <3> SUFFICES ASSUME NEW q \in Req PROVE TypesKept!(q)'
      OBVIOUS
    <3>4. \A p : (Refused(p)' <=> Refused(p)) /\ (HasOpened(p, q)' <=> HasOpened(p, q))
      BY <3>1 DEF Refused, HasOpened
    <3>5. CASE q = r
      BY <3>1, <3>2, <3>3, <3>4, <3>5
    <3>6. CASE q # r
      BY <3>1, <3>2, <3>4, <3>6
    <3> QED
      BY <3>5, <3>6
  <2>3. CASE Parse(r)
    <3>1. /\ UNCHANGED <<pc, kernelTypes, loaded, frame>> /\ at[r] = "parse"
          /\ \A q \in Req : q # r => at'[q] = at[q]
          /\ at'[r] \in {"build", "failed"}
          /\ \A q \in Req : declared[q] \subseteq declared'[q]
      BY <2>3 DEF Parse, vars
    <3>2. at'[r] = "build" => frame[r].block \in declared'[frame[r].types]
      BY <1>f, <2>3, <3>1 DEF Parse
    <3> QED
      BY <1>1, <1>f, <3>1, <3>2 DEF Refused
  <2>4. CASE AskKernel(r)
    <3>1. /\ at[r] = "ask" /\ at'[r] \in {"done", "failed"}
          /\ \A q \in Req : q # r => at'[q] = at[q]
          /\ UNCHANGED <<pc, kernelTypes, declared, frame>>
          /\ loaded' = loaded \/ loaded' = [loaded EXCEPT ![r] = @ \cup {Plugin(r)}]
      BY <2>4 DEF AskKernel, vars
    <3>2. /\ \A q \in Req : q # r => loaded'[q] = loaded[q]
          /\ loaded'[r] \subseteq loaded[r] \cup {Plugin(r)}
      BY <3>1
    <3>3. /\ pc[r] = "run" /\ Plugin(r)[1] \in declared[frame[r].types]
          /\ frame[r].types = kernelTypes[Key(r)] \/ Refused(kernelTypes[Key(r)])
      BY <1>f, <3>1 DEF Plugin
    <3> SUFFICES ASSUME NEW q \in Req PROVE TypesKept!(q)'
      OBVIOUS
    <3>4. \A p : Refused(p)' <=> Refused(p)
      BY <3>1 DEF Refused
    <3>5. CASE q = r
      <4>1. pc'[r] \in Connected =>
               Refused(kernelTypes[Key(r)]) \/ HasOpened(kernelTypes[Key(r)], r)'
        BY <3>1, <3>2, <3>3 DEF HasOpened, Connected
      <4> QED
        BY <3>1, <3>3, <3>4, <3>5, <4>1 DEF Admission, HasOpened, Key
    <3>6. CASE q # r
      BY <3>1, <3>2, <3>4, <3>6 DEF HasOpened, Key
    <3> QED
      BY <3>5, <3>6
  <2>5. CASE Return(r)
    <3>1. /\ UNCHANGED <<kernelTypes, declared, loaded>> /\ at'[r] = "out"
          /\ \A q \in Req : q # r => at'[q] = at[q] /\ frame'[q] = frame[q] /\ pc'[q] = pc[q]
          /\ pc[r] = "run" /\ pc'[r] \in {"read", "reply"}
      BY <2>5 DEF Return, RunBlock, Goto
    <3> QED
      BY <1>1, <1>f, <3>1 DEF Refused, Connected, Admission
  <2>6. CASE UnlockOfUnlocked(r)
    BY <1>5, <2>6 DEF UnlockOfUnlocked
  <2> QED
    BY <1>6, <2>1, <2>2, <2>3, <2>4, <2>5, <2>6 DEF InRunBlock
<1>7. ASSUME NEW r \in Req, Elsewhere(r) PROVE TypesKept'
  <2> USE <1>f DEF Goto, Admission, Connected, Stopping, blockVars, mapVars, Refused
  <2>1. UNCHANGED blockVars
    BY <1>7 DEF Elsewhere
  <2>2. CASE Reject(r) \/ Admit(r) \/ Refuse(r)
    BY <1>1, <2>1, <2>2 DEF Reject, Admit, Refuse
  <2>3. CASE Run(r) \/ RunFails(r) \/ Upgrade(r) \/ UpgradeFails(r)
    BY <1>1, <2>1, <2>3 DEF Run, RunFails, Upgrade, UpgradeFails
  <2>4. CASE RegisterConn(r) \/ RegisterListener(r)
    BY <1>1, <2>1, <2>4 DEF RegisterConn, RegisterListener
  <2>5. CASE ReadMessage(r) \/ ReplyWritten(r) \/ ReplyFails(r)
    BY <1>1, <2>1, <2>5 DEF ReadMessage, ReplyWritten, ReplyFails
  <2>6. CASE Leave(r)
    BY <1>1, <2>1, <2>6 DEF Leave, DeleteConn, ContainerStop, ContainerRemove, RemoveFails
  <2>7. CASE Publish(r) \/ KernelExits(r)
    BY <1>1, <2>1, <2>7 DEF Publish, KernelExits
  <2> QED
    BY <1>7, <2>2, <2>3, <2>4, <2>5, <2>6, <2>7 DEF Elsewhere
<1>8. CASE (Receive \/ SendMemes) /\ UNCHANGED blockVars
  BY <1>1, <1>f, <1>8 DEF Receive, SendMemes, LookupListener, LookupConn, WriteMemes, blockVars,
     mapVars, Refused
<1> QED
  BY <1>2, <1>3, <1>4, <1>5, <1>6, <1>7, <1>8 DEF BlocksNext

\* The types RunBlock parses a block with have all that the kernel opened, but for those
\* of requests that are refused because the kernel runs.
THEOREM EarlierBlocksSeen == ASSUME KeysDiffer PROVE BlocksSpec => []SeesEarlierBlocks
<1>1. BlocksInit => TypesKept
  BY DEF BlocksInit, Init, TypesKept, Connected
<1>2. BlocksSpec => []TypesKept
  BY <1>1, NextTypesKept, MutexInvariance, BlocksInvariance, PTL DEF BlocksSpec
<1>3. TypesKept => SeesEarlierBlocks
  BY DEF TypesKept, SeesEarlierBlocks, HasOpened, Refused
<1> QED
  BY <1>2, <1>3, PTL

=============================================================================
