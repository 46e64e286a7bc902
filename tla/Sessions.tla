------------------------------ MODULE Sessions ------------------------------
(***************************************************************************)
(* The life of notebook sessions in noted-runner.                          *)
(*                                                                         *)
(* A request for /ws/ passes the authentication and access middlewares and *)
(* reaches ComilerDelivery.Compile, which starts a kernel container through *)
(* the usecase and the docker client, upgrades the connection to a         *)
(* websocket and then serves it from a goroutine of its own until the      *)
(* connection ends and the container is removed.  Every request runs on    *)
(* its own goroutine; the maps activeConns and kernelListeners are shared  *)
(* by all of them, and by the goroutine of the RabbitMQ consumer, without  *)
(* any lock.  A step below is one access to shared state or one call to    *)
(* the docker daemon, so that every interleaving of them is a behaviour.   *)
(*                                                                         *)
(* The process may end between any two steps (a signal, the kill that      *)
(* follows it, the fatal error the Go runtime raises when it catches a     *)
(* concurrent map access or two writers on one websocket, a panic in a     *)
(* goroutine) and be started again: Crash.  The docker daemon and the      *)
(* RabbitMQ broker outlive it.                                             *)
(*                                                                         *)
(* RunBlock is one step here, which ends with or without an error.         *)
(***************************************************************************)
EXTENDS Naturals, Sequences

CONSTANTS
    Req,          \* the requests that ever reach the server
    Users,        \* user ids, as the auth service returns them
    Kernels,      \* kernel ids, the "kernel-id" query argument
    UserOf,       \* the user each request is made by
    KernelOf,     \* the kernel each request asks for
    CanExecute,   \* the pairs <<user, kernel>> the access service gives "x" to
    None,         \* a missing map entry
    Malformed,    \* a queue message that is not a KernelMessage
    DaemonFails,  \* the docker daemon may fail a call
    MaxQueue      \* bound on the results waiting in the queue; 0: none are published

ASSUME ConstantsAssumption ==
    /\ UserOf \in [Req -> Users]
    /\ KernelOf \in [Req -> Kernels]
    /\ CanExecute \subseteq Users \X Kernels
    /\ None \notin Req \cup Users \cup Kernels
    /\ Malformed \notin Kernels
    /\ DaemonFails \in BOOLEAN
    /\ MaxQueue \in Nat

VARIABLES
    pc,               \* where the goroutine of each request stands
    container,        \* what the daemon keeps of the container each request created
    activeConns,      \* ComilerDelivery.activeConns: the connection of a user
    kernelListeners,  \* ComilerDelivery.kernelListeners: the user of a kernel
    queue,            \* kernel ids of the results waiting in the broker
    consumer          \* the RunnerConsumer goroutine, inside SendMemes or not

vars == <<pc, container, activeConns, kernelListeners, queue, consumer>>
daemonVars == <<container>>
deliveryVars == <<activeConns, kernelListeners>>
resultVars == <<queue, consumer>>

-----------------------------------------------------------------------------
(* The control points of a request's goroutine. *)

Admission == {"check", "create", "start", "upgrade", "register"}
Connected == {"listen", "read", "run", "reply", "delete"}
Stopping  == {"stop", "remove"}
Live      == Admission \cup Connected \cup Stopping
Ended     == {"rejected",      \* 401 of a middleware, or 400 without a kernel id
              "refused",       \* 400, the user is already connected
              "failed",        \* 400, StartKernel returned an error
              "notUpgraded",   \* no websocket came of the upgrade
              "broken",        \* the handler stopped at a failed write
              "closed",        \* the container was stopped and removed
              "stopFailed",    \* StopKernel did not remove the container
              "crashed"}       \* the process ended under the goroutine
Point     == {"new"} \cup Live \cup Ended

\* The goroutines that own a container which the daemon keeps for them.
Holding == (Live \ {"check", "create"})

ContainerState == {"none", "created", "running", "stopped"}

TypeOK ==
    /\ pc \in [Req -> Point]
    /\ container \in [Req -> ContainerState]
    /\ activeConns \in [Users -> Req \cup {None}]
    /\ kernelListeners \in [Kernels -> Users \cup {None}]
    /\ queue \in Seq(Kernels \cup {Malformed})
    /\ consumer \in [at     : {"receive", "listener", "conn", "write"},
                     kernel : Kernels \cup {None},
                     user   : Users \cup {None},
                     conn   : Req \cup {None}]

\* Where the consumer stands: the kernel of its result, and what it looked up.
At(point, k, u, c) == [at |-> point, kernel |-> k, user |-> u, conn |-> c]
Receiving == At("receive", None, None, None)

Init ==
    /\ pc = [r \in Req |-> "new"]
    /\ container = [r \in Req |-> "none"]
    /\ activeConns = [u \in Users |-> None]
    /\ kernelListeners = [k \in Kernels |-> None]
    /\ queue = <<>>
    /\ consumer = Receiving

\* The goroutine of r moves from one control point to another.
Goto(r, from, to) ==
    /\ pc[r] = from
    /\ pc' = [pc EXCEPT ![r] = to]

-----------------------------------------------------------------------------
(* The middlewares. *)

\* The middlewares answer 401 when a cookie is missing, a service fails or the
\* user lacks the right; Compile answers 400 when the request names no kernel.
Reject(r) ==
    /\ Goto(r, "new", "rejected")
    /\ UNCHANGED <<daemonVars, deliveryVars, resultVars>>

\* MUTANT: a right on any kernel opens every kernel.
MayExecuteAny(r) == \E k \in Kernels : <<UserOf[r], k>> \in CanExecute

\* AccessMW lets a request through when the rights contain "x".
MayExecute(r) == <<UserOf[r], KernelOf[r]>> \in CanExecute

Admit(r) ==
    /\ MayExecute(r)
    /\ Goto(r, "new", "check")
    /\ UNCHANGED <<daemonVars, deliveryVars, resultVars>>

-----------------------------------------------------------------------------
(* Compile up to the upgrade, with StartKernel and the docker client. *)

Refuse(r) ==
    /\ activeConns[UserOf[r]] # None
    /\ Goto(r, "check", "refused")
    /\ UNCHANGED <<daemonVars, deliveryVars, resultVars>>

Accept(r) ==
    /\ activeConns[UserOf[r]] = None
    /\ Goto(r, "check", "create")
    /\ UNCHANGED <<daemonVars, deliveryVars, resultVars>>

\* MUTANT: the name of the commented-out call, after the kernel and the user.
ContainerNameByUser(r) == <<KernelOf[r], UserOf[r]>>

\* StartKernel names the container after the kernel alone.
ContainerName(r) == KernelOf[r]

\* The daemon refuses a name that any container it keeps has, running or not.
NameTaken(r) ==
    \E q \in Req : container[q] # "none" /\ ContainerName(q) = ContainerName(r)

Create(r) ==
    /\ ~NameTaken(r)
    /\ Goto(r, "create", "start")
    /\ container' = [container EXCEPT ![r] = "created"]
    /\ UNCHANGED <<deliveryVars, resultVars>>

\* MUTANT: the failed start clears the kernel's listener.
CreateFailsClearing(r) ==
    /\ NameTaken(r) \/ DaemonFails
    /\ Goto(r, "create", "failed")
    /\ kernelListeners' = [kernelListeners EXCEPT ![KernelOf[r]] = None]
    /\ UNCHANGED <<daemonVars, activeConns, resultVars>>

\* MUTANT: the container in the way is removed before the start is given up.
CreateFailsForcing(r) ==
    /\ NameTaken(r) \/ DaemonFails
    /\ Goto(r, "create", "failed")
    /\ container' = [q \in Req |-> IF ContainerName(q) = ContainerName(r)
                                   THEN "none" ELSE container[q]]
    /\ UNCHANGED <<deliveryVars, resultVars>>

\* MUTANT: a failed creation is tried again.
CreateFailsRetrying(r) ==
    /\ NameTaken(r) \/ DaemonFails
    /\ Goto(r, "create", "create")
    /\ UNCHANGED <<daemonVars, deliveryVars, resultVars>>

CreateFails(r) ==
    /\ NameTaken(r) \/ DaemonFails
    /\ Goto(r, "create", "failed")
    /\ UNCHANGED <<daemonVars, deliveryVars, resultVars>>

\* The daemon created the container but the client did not get its answer.
CreateAnswerLost(r) ==
    /\ DaemonFails
    /\ ~NameTaken(r)
    /\ Goto(r, "create", "failed")
    /\ container' = [container EXCEPT ![r] = "created"]
    /\ UNCHANGED <<deliveryVars, resultVars>>

Run(r) ==
    /\ Goto(r, "start", "upgrade")
    /\ container' = [container EXCEPT ![r] = "running"]
    /\ UNCHANGED <<deliveryVars, resultVars>>

\* StartKernel returns the error and leaves the container as the daemon has it:
\* created, or running when only the answer was lost.
RunFails(r) ==
    /\ DaemonFails
    /\ Goto(r, "start", "failed")
    /\ container' \in {container, [container EXCEPT ![r] = "running"]}
    /\ UNCHANGED <<deliveryVars, resultVars>>

\* The handler returns and the response is written, after which the callback
\* of the upgrade runs on a goroutine of its own.
Upgrade(r) ==
    /\ Goto(r, "upgrade", "register")
    /\ UNCHANGED <<daemonVars, deliveryVars, resultVars>>

\* The request was no websocket handshake, or the response could not be
\* written: the callback never runs.
UpgradeFails(r) ==
    /\ Goto(r, "upgrade", "notUpgraded")
    /\ UNCHANGED <<daemonVars, deliveryVars, resultVars>>

-----------------------------------------------------------------------------
(* The callback that serves the connection. *)

RegisterConn(r) ==
    /\ Goto(r, "register", "listen")
    /\ activeConns' = [activeConns EXCEPT ![UserOf[r]] = r]
    /\ UNCHANGED <<daemonVars, kernelListeners, resultVars>>

RegisterListener(r) ==
    /\ Goto(r, "listen", "read")
    /\ kernelListeners' = [kernelListeners EXCEPT ![KernelOf[r]] = UserOf[r]]
    /\ UNCHANGED <<daemonVars, activeConns, resultVars>>

\* ReadMessage returns a message: RunBlock; an error in the middle of one: the
\* error is told to the client; or -1, the connection has ended.
ReadMessage(r) ==
    /\ \E next \in {"run", "reply", "delete"} : Goto(r, "read", next)
    /\ UNCHANGED <<daemonVars, deliveryVars, resultVars>>

\* RunBlock returns; an error is reported to the client.
RunBlock(r) ==
    /\ \E next \in {"read", "reply"} : Goto(r, "run", next)
    /\ UNCHANGED <<daemonVars, deliveryVars, resultVars>>

ReplyWritten(r) ==
    /\ Goto(r, "reply", "read")
    /\ UNCHANGED <<daemonVars, deliveryVars, resultVars>>

\* A failed write closes the connection and leaves the loop, nothing more.
ReplyFails(r) ==
    /\ Goto(r, "reply", "broken")
    /\ UNCHANGED <<daemonVars, deliveryVars, resultVars>>

\* MUTANT: the entry outlives the connection.
DeleteConnForgotten(r) ==
    /\ Goto(r, "delete", "stop")
    /\ UNCHANGED <<daemonVars, deliveryVars, resultVars>>

\* delete(activeConns, userId), whichever connection the entry is for.
DeleteConn(r) ==
    /\ Goto(r, "delete", "stop")
    /\ activeConns' = [activeConns EXCEPT ![UserOf[r]] = None]
    /\ UNCHANGED <<daemonVars, kernelListeners, resultVars>>

-----------------------------------------------------------------------------
(* StopKernel, DockerClient.Remove. *)

ContainerStop(r) ==
    /\ Goto(r, "stop", "remove")
    /\ container' = [container EXCEPT ![r] = "stopped"]
    /\ UNCHANGED <<deliveryVars, resultVars>>

\* MUTANT: the stopped container is left to AutoRemove, which is not set.
ContainerRemoveLeft(r) ==
    /\ Goto(r, "remove", "closed")
    /\ UNCHANGED <<daemonVars, deliveryVars, resultVars>>

ContainerRemove(r) ==
    /\ Goto(r, "remove", "closed")
    /\ container' = [container EXCEPT ![r] = "none"]
    /\ UNCHANGED <<deliveryVars, resultVars>>

\* Remove returns at the first call that fails, and Compile drops its error.
\* What failed may be the call, or the way back of its answer.
RemoveFails(r) ==
    /\ DaemonFails
    /\ \/ /\ Goto(r, "stop", "stopFailed")
          /\ container' \in {container, [container EXCEPT ![r] = "stopped"]}
       \/ /\ Goto(r, "remove", "stopFailed")
          /\ container' \in {container, [container EXCEPT ![r] = "none"]}
    /\ UNCHANGED <<deliveryVars, resultVars>>

-----------------------------------------------------------------------------
(* The kernel in the container, and the broker between it and the runner. *)

\* A running kernel publishes the result of a block, or something unreadable.
Publish(r) ==
    /\ container[r] = "running"
    /\ Len(queue) < MaxQueue
    /\ \E m \in {KernelOf[r], Malformed} : queue' = Append(queue, m)
    /\ UNCHANGED <<pc, daemonVars, deliveryVars, consumer>>

\* The kernel's process ends; without AutoRemove the daemon keeps the container.
KernelExits(r) ==
    /\ container[r] = "running"
    /\ container' = [container EXCEPT ![r] = "stopped"]
    /\ UNCHANGED <<pc, deliveryVars, resultVars>>

-----------------------------------------------------------------------------
(* The consumer goroutine: Consume and SendMemes. *)

\* MUTANT: what cannot be decoded is passed on like a result.
ReceiveUnchecked ==
    /\ consumer.at = "receive"
    /\ queue # <<>>
    /\ queue' = Tail(queue)
    /\ consumer' = At("listener", Head(queue), None, None)
    /\ UNCHANGED <<pc, daemonVars, deliveryVars>>

\* The message is acknowledged as it is delivered; one that cannot be decoded
\* is skipped.
Receive ==
    /\ consumer.at = "receive"
    /\ queue # <<>>
    /\ queue' = Tail(queue)
    /\ consumer' = IF Head(queue) = Malformed THEN consumer
                   ELSE At("listener", Head(queue), None, None)
    /\ UNCHANGED <<pc, daemonVars, deliveryVars>>

LookupListener ==
    /\ consumer.at = "listener"
    /\ consumer' = At("conn", consumer.kernel, kernelListeners[consumer.kernel], None)
    /\ UNCHANGED <<pc, daemonVars, deliveryVars, queue>>

\* The connection the consumer finds for the user it looked up.
ConnFound == IF consumer.user = None THEN None ELSE activeConns[consumer.user]

\* A result for which no connection is found is dropped.
LookupConn ==
    /\ consumer.at = "conn"
    /\ consumer' = IF ConnFound = None THEN Receiving
                   ELSE At("write", consumer.kernel, consumer.user, ConnFound)
    /\ UNCHANGED <<pc, daemonVars, deliveryVars, queue>>

\* The write succeeds or fails; an error is logged and nothing else.
WriteMemes ==
    /\ consumer.at = "write"
    /\ consumer' = Receiving
    /\ UNCHANGED <<pc, daemonVars, deliveryVars, queue>>

SendMemes == LookupListener \/ LookupConn \/ WriteMemes

-----------------------------------------------------------------------------
\* The process ends and is started again: the goroutines and the maps are gone,
\* the containers are not, nor the queued results but for those that were pushed to
\* the process, and acknowledged by that, before it could handle them.
Crash ==
    /\ pc' = [r \in Req |-> IF pc[r] \in Live THEN "crashed" ELSE pc[r]]
    /\ activeConns' = [u \in Users |-> None]
    /\ kernelListeners' = [k \in Kernels |-> None]
    /\ consumer' = Receiving
    /\ \E n \in 1 .. (Len(queue) + 1) : queue' = SubSeq(queue, n, Len(queue))
    /\ UNCHANGED daemonVars

\* From the middlewares to a websocket, or to an answer without one.
Enter(r) ==
    \/ Refuse(r) \/ Accept(r)
    \/ Create(r) \/ CreateFails(r) \/ CreateAnswerLost(r)
    \/ Run(r) \/ RunFails(r)
    \/ Upgrade(r) \/ UpgradeFails(r)
    \/ RegisterConn(r) \/ RegisterListener(r)

\* The loop over the messages of the connection.
Loop(r) == ReadMessage(r) \/ RunBlock(r) \/ ReplyWritten(r) \/ ReplyFails(r)

\* From the end of the connection to the end of the goroutine.
Leave(r) == DeleteConn(r) \/ ContainerStop(r) \/ ContainerRemove(r) \/ RemoveFails(r)

Next ==
    \/ \E r \in Req : \/ Reject(r) \/ Admit(r)
                      \/ Enter(r) \/ Loop(r) \/ Leave(r)
                      \/ Publish(r) \/ KernelExits(r)
    \/ Receive \/ SendMemes
    \/ Crash

Spec == Init /\ [][Next]_vars

\* The Go scheduler runs every goroutine that can take a step, and the daemon
\* answers every call.  Nothing makes a client send or read, or a block end.
FairSpec == Spec /\ \A r \in Req : WF_vars(Enter(r)) /\ WF_vars(Leave(r))

-----------------------------------------------------------------------------
(* Properties. *)

\* Two goroutines never hold the container of the same kernel, although the
\* check at the head of Compile is by user and races with the registration: the
\* daemon's container name is the lock.
KernelExclusive ==
    \A p, q \in Req :
        pc[p] \in Holding /\ pc[q] \in Holding /\ KernelOf[p] = KernelOf[q] => p = q

\* While a connection is served, SendMemes takes the results of its kernel to
\* its user, whoever else tries to start the same kernel in the meantime.
ListenerAccurate ==
    \A r \in Req : pc[r] \in (Connected \ {"listen"}) \cup Stopping
                       => kernelListeners[KernelOf[r]] = UserOf[r]

\* An entry of activeConns is a connection of that user which is being served,
\* or which a failed write broke: no other way out of the loop leaves one.
NoDanglingConn ==
    \A u \in Users, r \in Req :
        activeConns[u] = r => UserOf[r] = u /\ pc[r] \in Connected \cup {"broken"}

\* The consumer only ever writes a kernel's result to a connection of a user
\* who may execute that kernel, though it looks the two maps up one after the
\* other while they change, and results outlive the session they belong to.
ResultsToGranted ==
    consumer.at = "write" => <<UserOf[consumer.conn], consumer.kernel>> \in CanExecute

\* "user already connected": a user is served on one connection at a time.
OneConnectionPerUser ==
    \A p, q \in Req :
        pc[p] \in Connected /\ pc[q] \in Connected /\ UserOf[p] = UserOf[q] => p = q

\* "user already connected": a request is refused only to a user who has a
\* connection that is being served.
RefusedOnlyIfConnected ==
    [][\A r \in Req : Refuse(r) =>
           \E q \in Req : UserOf[q] = UserOf[r] /\ pc[q] \in Connected]_vars

\* The kernels as leases: the goroutines that hold a kernel's container, and
\* the kernels whose name a container without a goroutine keeps taken.
holders == [k \in Kernels |-> {r \in Req : KernelOf[r] = k /\ pc[r] \in Holding}]
stranded == {KernelOf[r] : r \in {q \in Req : container[q] # "none" /\ pc[q] \in Ended}}

Lease == INSTANCE KernelLease WITH Sessions <- Req

\* Sessions implements KernelLease: a kernel changes hands only by being
\* released, and once stranded it is never started again.
ImplementsKernelLease == Lease!Spec

\* When a connection ends by itself its container goes away, unless the daemon
\* fails a call of StopKernel or the process ends first.
ContainerRemovedAfterClose ==
    \A r \in Req :
        pc[r] = "delete" ~> container[r] = "none" \/ pc[r] \in {"stopFailed", "crashed"}

\* Every request that passes the middlewares is answered or comes to be served:
\* a busy kernel or a connected user is an answer, never a wait.
RequestDecided ==
    \A r \in Req : pc[r] = "check" ~> pc[r] \notin Admission

=============================================================================
