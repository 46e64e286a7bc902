----------------------------- MODULE Lifecycle -----------------------------
(***************************************************************************)
(* The life of the process in which the sessions live.                     *)
(*                                                                         *)
(* main sets the components up in order and panics if one fails, starts    *)
(* the goroutines of the HTTP server and of the consumer, waits for a      *)
(* signal, shuts the server down, closes RabbitMQ and waits for the two    *)
(* goroutines.  The goroutines of hijacked websockets are waited for by    *)
(* nobody.  The steps of the sessions are those of Sessions; requests come *)
(* while the server listens, results while the consumer is there, and the  *)
(* end of the process is the Crash of Sessions.                            *)
(*                                                                         *)
(* The broker pushes results to the process and takes them for             *)
(* acknowledged by that; delivered is how many of the queue were pushed    *)
(* and wait for the consumer.                                              *)
(***************************************************************************)
EXTENDS Sessions

VARIABLES
    main,       \* where App.Run, or what comes before it, stands
    quit,       \* a signal waits in the channel
    server,     \* the goroutine of ListenAndServe
    open,       \* the requests that came over its connections
    link,       \* the connection to RabbitMQ
    loop,       \* the goroutine of Consume
    delivered

appVars == <<main, quit, server, open>>
rabbitVars == <<link, loop, delivered>>
lifeVars == <<vars, appVars, rabbitVars>>

Setup == {"configs", "rabbit", "docker", "httpClient", "layers"}
Serving == {"waiting", "shutdown", "closeChannel", "closeConn", "join"}
Dead == {"ended", "killed", "panicked"}

\* The stages of NewApp in their order.
After(stage) == CASE stage = "configs" -> "rabbit"
                  [] stage = "rabbit" -> "docker"
                  [] stage = "docker" -> "httpClient"
                  [] stage = "httpClient" -> "layers"
                  [] stage = "layers" -> "run"

LifeTypeOK ==
    /\ main \in Setup \cup {"run"} \cup Serving \cup Dead
    /\ quit \in BOOLEAN
    /\ server \in {"off", "binding", "listening", "stopping", "stopped", "failed"}
    /\ open \subseteq Req
    /\ link \in {"off", "up", "lost", "closed"}
    /\ loop \in {"off", "on", "done"}
    /\ delivered \in 0 .. Len(queue)

LifeInit ==
    /\ Init
    /\ main = "configs" /\ quit = FALSE /\ server = "off" /\ open = {}
    /\ link = "off" /\ loop = "off" /\ delivered = 0

\* The requests that the server has and has not answered, nor handed over to a websocket.
InFlight == {r \in open : pc[r] \in {"new", "check", "create", "start", "upgrade"}}

-----------------------------------------------------------------------------
(* main: NewApp. *)

\* MUTANT: what was served is remembered.
DieKeeping(how) ==
    /\ main' = how
    /\ pc' = [r \in Req |-> IF pc[r] \in Live THEN "crashed" ELSE pc[r]]
    /\ consumer' = Receiving
    /\ queue' = SubSeq(queue, delivered + 1, Len(queue))
    /\ quit' = FALSE /\ server' = "off" /\ open' = {}
    /\ link' = "off" /\ loop' = "off" /\ delivered' = 0
    /\ UNCHANGED <<daemonVars, deliveryVars>>

\* MUTANT: the count of what was pushed outlives the process.
DieCounting(how) ==
    /\ main' = how
    /\ pc' = [r \in Req |-> IF pc[r] \in Live THEN "crashed" ELSE pc[r]]
    /\ activeConns' = [u \in Users |-> None]
    /\ kernelListeners' = [k \in Kernels |-> None]
    /\ consumer' = Receiving
    /\ queue' = SubSeq(queue, delivered + 1, Len(queue))
    /\ quit' = FALSE /\ server' = "off" /\ open' = {}
    /\ link' = "off" /\ loop' = "off"
    /\ UNCHANGED <<daemonVars, delivered>>

\* The process is gone, with the results that were pushed to it.
Die(how) ==
    /\ main' = how
    /\ pc' = [r \in Req |-> IF pc[r] \in Live THEN "crashed" ELSE pc[r]]
    /\ activeConns' = [u \in Users |-> None]
    /\ kernelListeners' = [k \in Kernels |-> None]
    /\ consumer' = Receiving
    /\ queue' = SubSeq(queue, delivered + 1, Len(queue))
    /\ quit' = FALSE /\ server' = "off" /\ open' = {}
    /\ link' = "off" /\ loop' = "off" /\ delivered' = 0
    /\ UNCHANGED daemonVars

\* A component is set up; NewRabbit registers the consumer with the broker.
SetupStep ==
    /\ main \in Setup
    /\ main' = After(main)
    /\ link' = IF main = "rabbit" THEN "up" ELSE link
    /\ UNCHANGED <<vars, quit, server, open, loop, delivered>>

\* NewApp returns an error, and main panics.
SetupFails == main \in Setup \ {"layers"} /\ Die("panicked")

\* The channel of signals, then the two goroutines.
Start ==
    /\ main = "run"
    /\ main' = "waiting" /\ server' = "binding" /\ loop' = "on"
    /\ UNCHANGED <<vars, quit, open, link, delivered>>

-----------------------------------------------------------------------------
(* The HTTP server. *)

\* From here on Shutdown knows the listener.
Listen ==
    /\ server = "binding"
    /\ server' = "listening"
    /\ UNCHANGED <<vars, main, quit, open, rabbitVars>>

\* ListenAndServe returns an error, which is logged.
ListenFails ==
    /\ server = "binding"
    /\ server' = "failed"
    /\ UNCHANGED <<vars, main, quit, open, rabbitVars>>

Arrive(r) ==
    /\ server = "listening" /\ pc[r] = "new"
    /\ open' = open \cup {r}
    /\ UNCHANGED <<vars, main, quit, server, rabbitVars>>

-----------------------------------------------------------------------------
(* main: Run. *)

\* A signal before Notify ends the process; later ones wait in the channel.
Signal ==
    \/ main \in Setup \cup {"run"} /\ Die("ended")
    \/ /\ main \in Serving /\ ~quit
       /\ quit' = TRUE
       /\ UNCHANGED <<vars, main, server, open, rabbitVars>>

TakeSignal ==
    /\ main = "waiting" /\ quit
    /\ main' = "shutdown" /\ quit' = FALSE
    /\ UNCHANGED <<vars, server, open, rabbitVars>>

\* Shutdown of a server that does not listen yet, or any more, does nothing.
ShutdownNothing ==
    /\ main = "shutdown" /\ server \in {"binding", "failed"}
    /\ main' = "closeChannel"
    /\ UNCHANGED <<vars, quit, server, open, rabbitVars>>

ShutdownBegins ==
    /\ main = "shutdown" /\ server = "listening"
    /\ server' = "stopping"
    /\ UNCHANGED <<vars, main, quit, open, rabbitVars>>

\* MUTANT: the listener is closed and nothing waited for.
ShutdownEndsAtOnce ==
    /\ main = "shutdown" /\ server = "stopping"
    /\ main' = "closeChannel" /\ server' = "stopped"
    /\ UNCHANGED <<vars, quit, open, rabbitVars>>

\* It waits for the requests that came over its connections.
ShutdownEnds ==
    /\ main = "shutdown" /\ server = "stopping" /\ InFlight = {}
    /\ main' = "closeChannel" /\ server' = "stopped"
    /\ UNCHANGED <<vars, quit, open, rabbitVars>>

\* MUTANT: closing leaves the deliveries open.
CloseChannelLeft ==
    /\ main = "closeChannel"
    /\ main' = "closeConn"
    /\ UNCHANGED <<vars, quit, server, open, rabbitVars>>

\* Rabbit.Close: the channel, if the broker has not closed it, then the connection.
CloseChannel ==
    /\ main = "closeChannel"
    /\ main' = "closeConn" /\ link' = IF link = "up" THEN "closed" ELSE link
    /\ UNCHANGED <<vars, quit, server, open, loop, delivered>>

CloseConn ==
    /\ main = "closeConn"
    /\ main' = "join"
    /\ UNCHANGED <<vars, quit, server, open, rabbitVars>>

\* An error of closing is logged through a logger that is nil.
CloseFails ==
    /\ (main = "closeChannel" /\ link = "up") \/ main = "closeConn"
    /\ Die("panicked")

\* wg.Wait returns, and main.
Join ==
    /\ main = "join" /\ server \in {"stopped", "failed"} /\ loop = "done"
    /\ Die("ended")

\* A kill, or a fault of any goroutine.
Kill == main \notin Dead /\ Die("killed")

Restart ==
    /\ main \in Dead
    /\ main' = "configs"
    /\ UNCHANGED <<vars, quit, server, open, rabbitVars>>

-----------------------------------------------------------------------------
(* RabbitMQ and the consumer. *)

Deliver ==
    /\ link = "up" /\ delivered < Len(queue)
    /\ delivered' = delivered + 1
    /\ UNCHANGED <<vars, appVars, link, loop>>

\* The broker ends, or the connection to it: no code of the runner opens another.
LinkLost ==
    /\ link = "up"
    /\ link' = "lost"
    /\ UNCHANGED <<vars, appVars, loop, delivered>>

\* MUTANT: a message that cannot be decoded ends the loop.
TakeReturning ==
    /\ loop = "on" /\ delivered > 0
    /\ Receive
    /\ delivered' = delivered - 1
    /\ loop' = IF Head(queue) = Malformed THEN "done" ELSE "on"
    /\ UNCHANGED <<appVars, link>>

Take ==
    /\ loop = "on" /\ delivered > 0
    /\ Receive
    /\ delivered' = delivered - 1
    /\ UNCHANGED <<appVars, link, loop>>

Handle == loop = "on" /\ SendMemes /\ UNCHANGED <<appVars, rabbitVars>>

\* The deliveries are closed; those that wait are dropped.
LoopEnds ==
    /\ loop = "on" /\ consumer.at = "receive" /\ link \in {"lost", "closed"}
    /\ loop' = "done"
    /\ UNCHANGED <<vars, appVars, link, delivered>>

-----------------------------------------------------------------------------
\* The steps of a request while the process is there.
Session(r) ==
    /\ main \in Serving
    /\ r \in open
    /\ Reject(r) \/ Admit(r) \/ Enter(r) \/ Loop(r) \/ Leave(r)
    /\ UNCHANGED <<appVars, rabbitVars>>

\* Those of its kernel, which need no process.
Kernel(r) == (Publish(r) \/ KernelExits(r)) /\ UNCHANGED <<appVars, rabbitVars>>

MainStep ==
    \/ TakeSignal \/ ShutdownNothing \/ ShutdownBegins \/ ShutdownEnds
    \/ CloseChannel \/ CloseConn \/ CloseFails \/ Join

ConsumerStep == Take \/ Handle \/ LoopEnds

LifeNext ==
    \/ SetupStep \/ SetupFails \/ Start \/ Listen \/ ListenFails
    \/ Signal \/ MainStep \/ Kill \/ Restart
    \/ Deliver \/ LinkLost \/ ConsumerStep
    \/ \E r \in Req : Arrive(r) \/ Session(r) \/ Kernel(r)

LifeSpec == LifeInit /\ [][LifeNext]_lifeVars

\* The scheduler runs main, the consumer and the requests; what a request waits for
\* before its answer, the services and the daemon, answers it.  Nothing makes a write to a
\* websocket end: it has no deadline (http.go:132), and a client need not read.
FairLifeSpec ==
    /\ LifeSpec
    /\ WF_lifeVars(MainStep) /\ WF_lifeVars(Deliver)
    /\ WF_lifeVars(consumer.at # "write" /\ ConsumerStep)
    /\ \A r \in Req : WF_lifeVars(r \in InFlight /\ Session(r))

-----------------------------------------------------------------------------
(* Properties. *)

\* The sessions of a process that is set up, signalled and shut down are those of
\* Sessions: its end, at whatever point, is a Crash (app.go:32-137).
ImplementsSessions == Spec

\* Once RabbitMQ is being closed every request that came is answered or has its
\* websocket: Shutdown has waited for it, or the server has no connections; but for a
\* server that began to listen after Shutdown had come to it (app.go:109, 129-137).
Drained ==
    main \in {"closeChannel", "closeConn", "join"} /\ server \in {"stopped", "failed"}
        => InFlight = {}

\* The writes of the consumer end, because the clients read.
ClientsRead == []<>(consumer.at # "write")

\* A signal ends the process in the end, whatever its sessions are at, with two exceptions.
\* A server that was not listening yet when Shutdown came to it serves on, and main waits
\* for it; so does main for a consumer whose write to a client never ends
\* (app.go:109, 126-137; http.go:132).  The end may be a panic in Close, which would log an error
\* through a logger that nothing sets (rabbit.go:62-70).
SignalEnds ==
    ClientsRead =>
        (main = "waiting" /\ quit
             ~> main \in Dead \/ (main = "join" /\ server \in {"binding", "listening"}))

\* As long as main waits, the connection to the broker is there and the clients read, the
\* results that were pushed to the process do not wait for ever, however few: one that is
\* not readable does not end the consumer (runner.go:24-35).
ResultsTaken ==
    /\ ClientsRead
    /\ <>[](main = "waiting" /\ link = "up" /\ delivered > 0)
    => []<><<Take>>_lifeVars

=============================================================================
