-------------------------- MODULE LifecycleProofs --------------------------
(***************************************************************************)
(* Proofs about Lifecycle: its sessions are those of Sessions, so that the *)
(* invariants of Sessions hold of a process with its setup, its consumer   *)
(* and its shutdown; and the shutdown leaves no request without an answer. *)
(***************************************************************************)
EXTENDS Lifecycle, SessionsProofs

-----------------------------------------------------------------------------
(* What was pushed is a part of the queue. *)

Pushed == delivered \in 0 .. Len(queue)

\* The process ends with what was pushed to it, which is how a Crash loses results.
LEMMA DieCrashes == ASSUME TypeOK, Pushed, NEW how, Die(how) PROVE Crash
<1>1. delivered + 1 \in 1 .. (Len(queue) + 1)
  BY SMT DEF Pushed, TypeOK
<1> QED
  BY <1>1, Zenon DEF Die, Crash

\* Every step is one of Sessions, or leaves what Sessions knows of alone.
LEMMA LifeStepMaps == TypeOK /\ Pushed /\ [LifeNext]_lifeVars => [Next]_vars
<1> SUFFICES ASSUME TypeOK, Pushed, [LifeNext]_lifeVars PROVE [Next]_vars
  OBVIOUS
<1>1. \A how \in {"ended", "killed", "panicked"} : Die(how) => Next
  BY DieCrashes DEF Next
<1>2. CASE UNCHANGED lifeVars
  BY <1>2 DEF lifeVars
<1>3. CASE SetupStep \/ Start \/ Listen \/ ListenFails \/ Restart \/ Deliver \/ LinkLost
  BY <1>3 DEF SetupStep, Start, Listen, ListenFails, Restart, Deliver, LinkLost
<1>4. CASE SetupFails \/ Kill
  BY <1>1, <1>4 DEF SetupFails, Kill
<1>5. CASE Signal
  BY <1>1, <1>5 DEF Signal
<1>6. CASE MainStep
  BY <1>1, <1>6 DEF MainStep, TakeSignal, ShutdownNothing, ShutdownBegins, ShutdownEnds,
                   CloseChannel, CloseConn, CloseFails, Join
<1>7. CASE ConsumerStep
  BY <1>7 DEF ConsumerStep, Take, Handle, LoopEnds, Next
<1>8. ASSUME NEW r \in Req, Arrive(r) PROVE UNCHANGED vars
  BY <1>8 DEF Arrive
<1>9. ASSUME NEW r \in Req, Session(r) PROVE Next
  BY <1>9 DEF Session, Next
<1>10. ASSUME NEW r \in Req, Kernel(r) PROVE Next
  BY <1>10 DEF Kernel, Next
<1> QED
  BY <1>2, <1>3, <1>4, <1>5, <1>6, <1>7, <1>8, <1>9, <1>10 DEF LifeNext

-----------------------------------------------------------------------------
(* Types. *)

\* A step of the consumer takes a result off the queue, and no other does.
LEMMA TakeShortens == ASSUME TypeOK, Receive
                      PROVE  Len(queue) > 0 /\ Len(queue') = Len(queue) - 1
<1>1. queue \in Seq(Kernels \cup {Malformed}) /\ queue # <<>> /\ queue' = Tail(queue)
  BY DEF TypeOK, Receive
<1> QED
  BY <1>1, EmptySeq, HeadTailProperties

\* A kernel adds results at the end of the queue.
LEMMA PublishLengthens ==
    ASSUME TypeOK, NEW r \in Req, Publish(r) PROVE Len(queue') = Len(queue) + 1
<1>1. PICK m \in {KernelOf[r], Malformed} : queue' = Append(queue, m)
  BY DEF Publish
<1>2. queue \in Seq(Kernels \cup {Malformed})
  BY Zenon DEF TypeOK
<1>3. m \in Kernels \cup {Malformed}
  <2>1. KernelOf[r] \in Kernels
    BY ConstantsAssumption
  <2> QED
    BY <1>1, <2>1
<1> QED
  BY <1>1, <1>2, <1>3, AppendProperties

\* No step of a session touches the queue.
LEMMA SessionKeepsQueue == ASSUME NEW r \in Req, Session(r) PROVE queue' = queue
  BY DEF Session, Reject, Admit, Enter, Refuse, Accept, Create, CreateFails,
         CreateAnswerLost, Run, RunFails, Upgrade, UpgradeFails, RegisterConn,
         RegisterListener, Loop, ReadMessage, RunBlock, ReplyWritten, ReplyFails, Leave,
         DeleteConn, ContainerStop, ContainerRemove, RemoveFails, resultVars

\* The initial states have the types LifeTypeOK says.
LEMMA LifeInitTypes == LifeInit => LifeTypeOK
<1> SUFFICES ASSUME LifeInit PROVE LifeTypeOK
  OBVIOUS
<1>1. delivered = 0 /\ Len(queue) = 0
  BY DEF LifeInit, Init
<1>2. delivered \in 0 .. Len(queue)
  BY <1>1
<1> QED
  BY <1>2, Zenon DEF LifeInit, LifeTypeOK, Setup

\* The end of the process resets what it knew.
LEMMA DieTypes ==
    ASSUME TypeOK', NEW how \in Dead, Die(how) PROVE LifeTypeOK'
<1>1. Len(queue') \in Nat
  BY LenProperties DEF TypeOK
<1>2. delivered' = 0
  BY Zenon DEF Die
<1>3. delivered' \in 0 .. Len(queue')
  BY <1>1, <1>2
<1> QED
  BY <1>3, Zenon DEF LifeTypeOK, Die, Dead

\* No step leaves the types: what was pushed stays a part of the queue.
LEMMA LifeNextTypes ==
    TypeOK /\ TypeOK' /\ LifeTypeOK /\ [LifeNext]_lifeVars => LifeTypeOK'
<1> SUFFICES ASSUME TypeOK, TypeOK', LifeTypeOK, [LifeNext]_lifeVars PROVE LifeTypeOK'
  OBVIOUS
<1>1. Len(queue) \in Nat /\ Len(queue') \in Nat
  BY LenProperties DEF TypeOK
<1> DEFINE Others == /\ main \in Setup \cup {"run"} \cup Serving \cup Dead
                     /\ quit \in BOOLEAN
                     /\ server \in {"off", "binding", "listening", "stopping", "stopped",
                                    "failed"}
                     /\ open \subseteq Req
                     /\ link \in {"off", "up", "lost", "closed"}
                     /\ loop \in {"off", "on", "done"}
<1>a. Others /\ Pushed
  BY DEF LifeTypeOK, Pushed
<1>b. Others' /\ Pushed' => LifeTypeOK'
  BY DEF LifeTypeOK, Pushed
<1>2. CASE UNCHANGED lifeVars
  <2>1. Pushed'
    BY <1>2, <1>a DEF lifeVars, rabbitVars, vars, Pushed
  <2>2. Others'
    BY <1>2, <1>a, Zenon DEF lifeVars, appVars, rabbitVars
  <2> QED
    BY <2>1, <2>2, <1>b
<1>3. CASE SetupStep \/ Start \/ Listen \/ ListenFails \/ Restart \/ LinkLost
  <2>1. Pushed'
    BY <1>3, <1>a DEF SetupStep, Start, Listen, ListenFails, Restart, LinkLost, rabbitVars,
                      vars, Pushed
  <2>2. Others'
    BY <1>3, <1>a, Zenon DEF SetupStep, Start, Listen, ListenFails, Restart, LinkLost,
                      appVars, rabbitVars, Setup, Serving, After
  <2> QED
    BY <2>1, <2>2, <1>b
<1>4. CASE SetupFails \/ Kill
  BY <1>4, DieTypes DEF SetupFails, Kill, Dead
<1>5. CASE Signal
  <2>1. CASE Die("ended")
    BY <2>1, DieTypes DEF Dead
  <2>2. CASE quit' = TRUE /\ UNCHANGED <<vars, main, server, open, rabbitVars>>
    <3>1. Pushed'
      BY <2>2, <1>a DEF rabbitVars, vars, Pushed
    <3>2. Others'
      BY <2>2, <1>a, Zenon DEF rabbitVars
    <3> QED
      BY <3>1, <3>2, <1>b
  <2> QED
    BY <1>5, <2>1, <2>2, Zenon DEF Signal
<1>6. CASE TakeSignal \/ ShutdownNothing \/ ShutdownBegins \/ ShutdownEnds
           \/ CloseChannel \/ CloseConn
  <2>1. Pushed'
    BY <1>6, <1>a DEF TakeSignal, ShutdownNothing, ShutdownBegins, ShutdownEnds,
                      CloseChannel, CloseConn, rabbitVars, vars, Pushed
  <2>2. Others'
    BY <1>6, <1>a, Zenon DEF TakeSignal, ShutdownNothing, ShutdownBegins, ShutdownEnds,
                      CloseChannel, CloseConn, rabbitVars, Serving
  <2> QED
    BY <2>1, <2>2, <1>b
<1>7. CASE CloseFails \/ Join
  BY <1>7, DieTypes DEF CloseFails, Join, Dead
<1>8. CASE Deliver
  <2>1. Pushed'
    BY <1>8, <1>a, <1>1 DEF Deliver, vars, Pushed
  <2>2. Others'
    BY <1>8, <1>a, Zenon DEF Deliver, appVars
  <2> QED
    BY <2>1, <2>2, <1>b
<1>9. CASE Take
  <2>1. Pushed'
    BY <1>9, <1>a, <1>1, TakeShortens DEF Take, Pushed
  <2>2. Others'
    BY <1>9, <1>a, Zenon DEF Take, appVars
  <2> QED
    BY <2>1, <2>2, <1>b
<1>10. CASE Handle \/ LoopEnds
  <2>1. Pushed'
    BY <1>10, <1>a DEF Handle, LoopEnds, SendMemes, LookupListener, LookupConn, WriteMemes,
                       rabbitVars, vars, Pushed
  <2>2. Others'
    BY <1>10, <1>a, Zenon DEF Handle, LoopEnds, appVars, rabbitVars
  <2> QED
    BY <2>1, <2>2, <1>b
<1>11. ASSUME NEW r \in Req, Arrive(r) \/ Session(r) \/ Kernel(r) PROVE LifeTypeOK'
  <2>1. Others'
    BY <1>11, <1>a, Zenon DEF Arrive, Session, Kernel, appVars, rabbitVars
  <2>2. Pushed'
    <3>1. CASE Arrive(r) \/ Session(r)
      BY <3>1, <1>a, SessionKeepsQueue DEF Arrive, Session, rabbitVars, vars, Pushed
    <3>2. CASE Kernel(r)
      <4>1. Len(queue') \in {Len(queue), Len(queue) + 1}
        BY <3>2, PublishLengthens DEF Kernel, KernelExits, resultVars
      <4> QED
        BY <3>2, <4>1, <1>1, <1>a DEF Kernel, rabbitVars, Pushed
    <3> QED
      BY <1>11, <3>1, <3>2
  <2> QED
    BY <2>1, <2>2, <1>b
<1> QED
  BY <1>2, <1>3, <1>4, <1>5, <1>6, <1>7, <1>8, <1>9, <1>10, <1>11
  DEF LifeNext, MainStep, ConsumerStep

-----------------------------------------------------------------------------
(* The refinement, and the shutdown. *)

\* The sessions of the process are those of Sessions, whatever its setup, the consumer, the
\* broker and the shutdown do meanwhile: the end of the process is a Crash, which
\* loses what was pushed (app.go:32-137, rabbit.go:43-56).
THEOREM LifeImplementation == LifeSpec => ImplementsSessions
<1> DEFINE Inv == TypeInv /\ LifeTypeOK
<1>1. LifeInit => Init /\ Inv
  BY InitTypeInv, LifeInitTypes DEF LifeInit
<1>2. Inv /\ [LifeNext]_lifeVars => [Next]_vars
  BY LifeStepMaps DEF TypeInv, LifeTypeOK, Pushed
<1>3. Inv /\ [LifeNext]_lifeVars => Inv'
  <2> SUFFICES ASSUME TypeInv, LifeTypeOK, [LifeNext]_lifeVars PROVE Inv'
    OBVIOUS
  <2>1. TypeInv'
    BY <1>2, NextTypeInv
  <2>2. TypeOK /\ TypeOK'
    BY <2>1 DEF TypeInv
  <2> QED
    BY <2>1, <2>2, LifeNextTypes
<1> HIDE DEF Inv
<1> QED
  BY <1>1, <1>2, <1>3, PTL DEF LifeSpec, ImplementsSessions, Spec

\* With it, every invariant of Sessions is one of the process.
LEMMA LifeInvariance == LifeSpec => []IInv
  BY LifeImplementation, Invariance, PTL DEF ImplementsSessions

\* Main, the server, the connection to the broker, the consumer and the signal have the
\* states LifeTypeOK lists, and no more was pushed than the queue has.
THEOREM LifeTypeCorrect == LifeSpec => []LifeTypeOK
<1>1. IInv => TypeOK
  BY DEF IInv, TypeInv
<1> QED
  BY <1>1, LifeInitTypes, LifeNextTypes, LifeInvariance, PTL DEF LifeSpec

\* A server that does not listen has no requests, one that stopped has none to answer.
ServerInv ==
    /\ main \notin Serving => server = "off"
    /\ server \in {"off", "binding", "failed"} => open = {}
    /\ server = "stopped" => InFlight = {}

\* A step of a request answers it or brings it on: it is in flight only if it was.
LEMMA FlightShrinks ==
    ASSUME TypeOK, LifeTypeOK, NEW r \in Req, Session(r) PROVE InFlight' \subseteq InFlight
<1> DEFINE Asking == {"new", "check", "create", "start", "upgrade"}
<1>1. open' = open
  BY DEF Session, appVars
<1>2. \A q \in Req : pc'[q] \in Asking => pc[q] \in Asking
  BY DEF TypeOK, Session, Reject, Admit, Enter, Refuse, Accept, Create, CreateFails,
         CreateAnswerLost, Run, RunFails, Upgrade, UpgradeFails, RegisterConn,
         RegisterListener, Loop, ReadMessage, RunBlock, ReplyWritten, ReplyFails, Leave,
         DeleteConn, ContainerStop, ContainerRemove, RemoveFails, Goto
<1>3. open \subseteq Req
  BY DEF LifeTypeOK
<1>4. /\ InFlight = {q \in open : pc[q] \in Asking}
      /\ InFlight' = {q \in open' : pc'[q] \in Asking}
  BY DEF InFlight
<1> HIDE DEF Asking
<1> QED
  BY <1>1, <1>2, <1>3, <1>4

\* Shutdown leaves with no request in flight, and then none can come.
LEMMA ServerNext == TypeOK /\ LifeTypeOK /\ ServerInv /\ [LifeNext]_lifeVars => ServerInv'
<1> SUFFICES ASSUME TypeOK, LifeTypeOK, ServerInv, [LifeNext]_lifeVars PROVE ServerInv'
  OBVIOUS
<1> USE DEF ServerInv, Setup, Serving, Dead
<1>1. \A how \in Dead : Die(how) => ServerInv'
  BY Zenon DEF Die
<1>2. ASSUME UNCHANGED <<pc, open>> PROVE InFlight' = InFlight
  BY <1>2 DEF InFlight
<1>3. CASE UNCHANGED lifeVars
  BY <1>2, <1>3 DEF lifeVars, vars, appVars
<1>4. CASE SetupStep \/ Start \/ Listen \/ ListenFails \/ Restart \/ Deliver \/ LinkLost
  BY <1>2, <1>4 DEF SetupStep, Start, Listen, ListenFails, Restart, Deliver, LinkLost, vars,
                   appVars, After
<1>5. CASE SetupFails \/ Kill \/ CloseFails \/ Join
  BY <1>1, <1>5 DEF SetupFails, Kill, CloseFails, Join
<1>6. CASE Signal
  BY <1>1, <1>2, <1>6 DEF Signal, vars
<1>7. CASE TakeSignal \/ ShutdownNothing \/ ShutdownBegins \/ ShutdownEnds
           \/ CloseChannel \/ CloseConn
  BY <1>2, <1>7 DEF TakeSignal, ShutdownNothing, ShutdownBegins, ShutdownEnds, CloseChannel,
                   CloseConn, vars
<1>8. CASE ConsumerStep
  BY <1>2, <1>8 DEF ConsumerStep, Take, Handle, LoopEnds, Receive, SendMemes, LookupListener,
                   LookupConn, WriteMemes, vars, appVars
<1>9. ASSUME NEW r \in Req, Arrive(r) \/ Session(r) \/ Kernel(r) PROVE ServerInv'
  <2>1. CASE Arrive(r)
    BY <2>1 DEF Arrive
  <2>2. CASE Session(r)
    BY <2>2, FlightShrinks DEF Session, appVars
  <2>3. CASE Kernel(r)
    BY <1>2, <2>3 DEF Kernel, Publish, KernelExits, appVars
  <2> QED
    BY <1>9, <2>1, <2>2, <2>3
<1> QED
  BY <1>3, <1>4, <1>5, <1>6, <1>7, <1>8, <1>9 DEF LifeNext, MainStep

\* When RabbitMQ is closed, every request that the server took is answered or has its
\* websocket, unless the server came to listen after its Shutdown (app.go:129-135).
THEOREM Draining == LifeSpec => []Drained
<1>1. LifeInit => ServerInv
  BY DEF LifeInit, ServerInv, Serving
<1>2. IInv => TypeOK
  BY DEF IInv, TypeInv
<1>3. LifeSpec => []ServerInv
  BY <1>1, <1>2, ServerNext, LifeInvariance, LifeTypeCorrect, PTL DEF LifeSpec
<1>4. ServerInv => Drained
  BY DEF ServerInv, Drained, InFlight
<1> QED
  BY <1>3, <1>4, PTL

=============================================================================
