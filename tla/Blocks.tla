------------------------------- MODULE Blocks -------------------------------
(***************************************************************************)
(* Running the blocks of a notebook: the usecase of noted-runner, step by  *)
(* step, under the sessions of module Sessions.                            *)
(*                                                                         *)
(* Compile keeps three maps that the goroutines of all requests share      *)
(* without a lock: the mutex and the preprocessor's KernelTypes of a kernel *)
(* and user, which StartKernel replaces, and how often each block was run. *)
(* A mutex and a KernelTypes object are named by the request whose         *)
(* StartKernel made them.  A step is one access to a map or a mutex, or a  *)
(* call to the file system, the compiler or the kernel.                    *)
(***************************************************************************)
EXTENDS Sessions, FiniteSets

CONSTANTS
    BlockIds,  \* the ids of the notebook's blocks, which clients send
    Keys,      \* the keys of kernelMuxes and kernelTypes
    KeyOf,     \* kernelID + userID, the key of a kernel and user
    MaxRuns    \* bound on the attempts at blocks under one key in the life of the process

ASSUME BlocksAssumption ==
    /\ KeyOf \in [Kernels \X Users -> Keys]
    /\ None \notin BlockIds
    /\ MaxRuns \in Nat \ {0}

VARIABLES
    kernelMuxes,     \* the mutex of each key
    locked,          \* the mutexes that are locked
    kernelTypes,     \* the KernelTypes of each key
    declared,        \* the blocks whose declarations each KernelTypes holds
    kernelAttempts,  \* the attempts at each block under each key
    at,              \* where each goroutine stands in StartKernel or RunBlock
    frame,           \* the locals of RunBlock in each goroutine
    loaded           \* the plugins <<block, attempt>> each container's kernel opened

mapVars == <<kernelMuxes, locked, kernelTypes, declared, kernelAttempts>>
blockVars == <<mapVars, at, frame, loaded>>
allVars == <<vars, blockVars>>

-----------------------------------------------------------------------------
Key(r) == KeyOf[<<KernelOf[r], UserOf[r]>>]

\* The points of StartKernel before its calls to the docker client ...
Starting == {"newMutex", "newTypes", "docker"}

\* ... and those of RunBlock.  From "defer" on it holds a mutex.
Holds == {"defer", "attempt", "count", "source", "types", "parse", "build", "ask",
          "done", "failed"}
Running == {"mutex", "lock"} \cup Holds

Frame == [block   : BlockIds \cup {None},
          mutex   : Req \cup {None},
          unlock  : Req \cup {None},
          attempt : Nat,
          types   : Req \cup {None}]
NoFrame == [block |-> None, mutex |-> None, unlock |-> None, attempt |-> 0, types |-> None]

BlocksTypeOK ==
    /\ kernelMuxes \in [Keys -> Req \cup {None}]
    /\ locked \in SUBSET Req
    /\ kernelTypes \in [Keys -> Req \cup {None}]
    /\ declared \in [Req -> SUBSET BlockIds]
    /\ kernelAttempts \in [Keys \X BlockIds -> Nat]
    /\ at \in [Req -> {"out"} \cup Starting \cup Running]
    /\ frame \in [Req -> Frame]
    /\ loaded \in [Req -> SUBSET (BlockIds \X Nat)]

BlocksInit ==
    /\ Init
    /\ kernelMuxes = [k \in Keys |-> None]
    /\ locked = {}
    /\ kernelTypes = [k \in Keys |-> None]
    /\ declared = [r \in Req |-> {}]
    /\ kernelAttempts = [kb \in Keys \X BlockIds |-> 0]
    /\ at = [r \in Req |-> "out"]
    /\ frame = [r \in Req |-> NoFrame]
    /\ loaded = [r \in Req |-> {}]

\* The goroutine of r goes from a point of StartKernel or RunBlock to another.
Step(r, from, to) ==
    /\ at[r] = from
    /\ at' = [at EXCEPT ![r] = to]

-----------------------------------------------------------------------------
(* StartKernel.  Accept is followed by the two assignments, then by Create. *)

EnterStartKernel(r) ==
    /\ Accept(r)
    /\ Step(r, "out", "newMutex")
    /\ UNCHANGED <<mapVars, frame, loaded>>

NewMutex(r) ==
    /\ Step(r, "newMutex", "newTypes")
    /\ kernelMuxes' = [kernelMuxes EXCEPT ![Key(r)] = r]
    /\ UNCHANGED <<vars, locked, kernelTypes, declared, kernelAttempts, frame, loaded>>

NewTypes(r) ==
    /\ Step(r, "newTypes", "docker")
    /\ kernelTypes' = [kernelTypes EXCEPT ![Key(r)] = r]
    /\ UNCHANGED <<vars, kernelMuxes, locked, declared, kernelAttempts, frame, loaded>>

\* MUTANT: a start that failed takes its mutex back.
CallCreateUndone(r) ==
    /\ Step(r, "docker", "out")
    /\ \/ Create(r) /\ UNCHANGED kernelMuxes
       \/ /\ CreateFails(r) \/ CreateAnswerLost(r)
          /\ kernelMuxes' = [kernelMuxes EXCEPT ![Key(r)] = None]
    /\ UNCHANGED <<locked, kernelTypes, declared, kernelAttempts, frame, loaded>>

\* MUTANT: a container that is there already is started again.
CallCreateReusing(r) ==
    /\ Step(r, "docker", "out")
    /\ \/ Create(r)
       \/ /\ NameTaken(r)
          /\ Goto(r, "create", "start")
          /\ UNCHANGED <<daemonVars, deliveryVars, resultVars>>
    /\ UNCHANGED <<mapVars, frame, loaded>>

CallCreate(r) ==
    /\ Step(r, "docker", "out")
    /\ Create(r) \/ CreateFails(r) \/ CreateAnswerLost(r)
    /\ UNCHANGED <<mapVars, frame, loaded>>

-----------------------------------------------------------------------------
(* RunBlock, up to the preprocessor. *)

\* The bound on the attempts at the blocks of r's kernel and user.
WithinBound(r) ==
    Cardinality(UNION {{b} \X (1 .. kernelAttempts[<<Key(r), b>>]) : b \in BlockIds}) < MaxRuns

\* A message names the block to run.
EnterRunBlock(r) ==
    /\ ReadMessage(r)
    /\ pc'[r] = "run"
    /\ Step(r, "out", "mutex")
    /\ WithinBound(r)
    /\ \E b \in BlockIds : frame' = [frame EXCEPT ![r].block = b]
    /\ UNCHANGED <<mapVars, loaded>>

LookupMutex(r) ==
    /\ Step(r, "mutex", "lock")
    /\ frame' = [frame EXCEPT ![r].mutex = kernelMuxes[Key(r)]]
    /\ UNCHANGED <<vars, mapVars, loaded>>

Lock(r) ==
    /\ frame[r].mutex \notin locked
    /\ Step(r, "lock", "defer")
    /\ locked' = locked \cup {frame[r].mutex}
    /\ UNCHANGED <<vars, kernelMuxes, kernelTypes, declared, kernelAttempts, frame, loaded>>

\* The defer statement looks the mutex up again.
DeferUnlock(r) ==
    /\ Step(r, "defer", "attempt")
    /\ frame' = [frame EXCEPT ![r].unlock = kernelMuxes[Key(r)]]
    /\ UNCHANGED <<vars, mapVars, loaded>>

ReadAttempts(r) ==
    /\ Step(r, "attempt", "count")
    /\ frame' = [frame EXCEPT ![r].attempt = kernelAttempts[<<Key(r), frame[r].block>>] + 1]
    /\ UNCHANGED <<vars, mapVars, loaded>>

\* MUTANT: the count is not stored.
WriteAttemptsForgotten(r) ==
    /\ Step(r, "count", "source")
    /\ UNCHANGED <<vars, mapVars, frame, loaded>>

WriteAttempts(r) ==
    /\ Step(r, "count", "source")
    /\ kernelAttempts' =
           [kernelAttempts EXCEPT ![<<Key(r), frame[r].block>>] = frame[r].attempt]
    /\ UNCHANGED <<vars, kernelMuxes, locked, kernelTypes, declared, frame, loaded>>

\* The user's directory is made and the block's document read, or one fails.
ReadSource(r) ==
    /\ \E to \in {"types", "failed"} : Step(r, "source", to)
    /\ UNCHANGED <<vars, mapVars, frame, loaded>>

\* MUTANT: every block is preprocessed with types of its own.
LookupTypesFresh(r) ==
    /\ Step(r, "types", "parse")
    /\ frame' = [frame EXCEPT ![r].types = kernelTypes[Key(r)]]
    /\ declared' = [declared EXCEPT ![kernelTypes[Key(r)]] = {}]
    /\ UNCHANGED <<vars, kernelMuxes, locked, kernelTypes, kernelAttempts, loaded>>

LookupTypes(r) ==
    /\ Step(r, "types", "parse")
    /\ frame' = [frame EXCEPT ![r].types = kernelTypes[Key(r)]]
    /\ UNCHANGED <<vars, mapVars, loaded>>

-----------------------------------------------------------------------------
(* RunBlock, from the preprocessor to the kernel. *)

\* Parse enters the block's declarations into the KernelTypes it was given; one
\* that fails may have entered some before.
Parse(r) ==
    /\ \/ Step(r, "parse", "build")
       \/ Step(r, "parse", "failed")
    /\ \/ declared' = [declared EXCEPT ![frame[r].types] = @ \cup {frame[r].block}]
       \/ at'[r] = "failed" /\ UNCHANGED declared
    /\ UNCHANGED <<vars, kernelMuxes, locked, kernelTypes, kernelAttempts, frame, loaded>>

\* The generated file is written and built; either may fail, and the build is
\* killed at CompileTimeout.
Build(r) ==
    /\ \E to \in {"ask", "failed"} : Step(r, "build", to)
    /\ UNCHANGED <<vars, mapVars, frame, loaded>>

\* The plugin is named after the block and the attempt.
Plugin(r) == <<frame[r].block, frame[r].attempt>>

\* The kernel opens the plugin of this attempt, or answers that it could not:
\* the status of the answer is not looked at.
AskKernel(r) ==
    /\ container[r] = "running"
    /\ \E to \in {"done", "failed"} : Step(r, "ask", to)
    /\ loaded' \in {loaded, [loaded EXCEPT ![r] = @ \cup {Plugin(r)}]}
    /\ UNCHANGED <<vars, mapVars, frame>>

\* No answer comes from a kernel which is not there, or not yet.
AskFails(r) ==
    /\ Step(r, "ask", "failed")
    /\ UNCHANGED <<vars, mapVars, frame, loaded>>

\* MUTANT: an error returns without the Unlock.
ReturnLocked(r) ==
    /\ at[r] \in {"done", "failed"}
    /\ frame[r].unlock \in locked
    /\ RunBlock(r)
    /\ pc'[r] = IF at[r] = "done" THEN "read" ELSE "reply"
    /\ locked' = IF at[r] = "done" THEN locked \ {frame[r].unlock} ELSE locked
    /\ at' = [at EXCEPT ![r] = "out"]
    /\ frame' = [frame EXCEPT ![r] = NoFrame]
    /\ UNCHANGED <<kernelMuxes, kernelTypes, declared, kernelAttempts, loaded>>

\* RunBlock returns, which runs the deferred Unlock.
Return(r) ==
    /\ at[r] \in {"done", "failed"}
    /\ frame[r].unlock \in locked
    /\ RunBlock(r)
    /\ pc'[r] = IF at[r] = "done" THEN "read" ELSE "reply"
    /\ locked' = locked \ {frame[r].unlock}
    /\ at' = [at EXCEPT ![r] = "out"]
    /\ frame' = [frame EXCEPT ![r] = NoFrame]
    /\ UNCHANGED <<kernelMuxes, kernelTypes, declared, kernelAttempts, loaded>>

-----------------------------------------------------------------------------
\* The process ends and is started again; the kernels in the containers go on.
BlocksCrash ==
    /\ Crash
    /\ kernelMuxes' = [k \in Keys |-> None]
    /\ locked' = {}
    /\ kernelTypes' = [k \in Keys |-> None]
    /\ declared' = [r \in Req |-> {}]
    /\ kernelAttempts' = [kb \in Keys \X BlockIds |-> 0]
    /\ at' = [r \in Req |-> "out"]
    /\ frame' = [r \in Req |-> NoFrame]
    /\ UNCHANGED loaded

\* The Go runtime ends the process that unlocks a mutex which is not locked.
UnlockOfUnlocked(r) ==
    /\ at[r] \in {"done", "failed"}
    /\ frame[r].unlock \notin locked
    /\ BlocksCrash

StartKernel(r) == EnterStartKernel(r) \/ NewMutex(r) \/ NewTypes(r) \/ CallCreate(r)

InRunBlock(r) ==
    \/ LookupMutex(r) \/ Lock(r) \/ DeferUnlock(r)
    \/ ReadAttempts(r) \/ WriteAttempts(r)
    \/ ReadSource(r) \/ LookupTypes(r) \/ Parse(r) \/ Build(r)
    \/ AskKernel(r) \/ AskFails(r) \/ Return(r) \/ UnlockOfUnlocked(r)

\* The steps of the sessions that neither function takes part in.  A result is of a
\* block (kmessage.go:5): here a kernel publishes none before it opened a plugin.
Elsewhere(r) ==
    /\ \/ Reject(r) \/ Admit(r) \/ Refuse(r)
       \/ Run(r) \/ RunFails(r) \/ Upgrade(r) \/ UpgradeFails(r)
       \/ RegisterConn(r) \/ RegisterListener(r)
       \/ ReadMessage(r) /\ pc'[r] # "run"
       \/ ReplyWritten(r) \/ ReplyFails(r)
       \/ Leave(r)
       \/ loaded[r] # {} /\ Publish(r)
       \/ KernelExits(r)
    /\ UNCHANGED blockVars

BlocksNext ==
    \/ \E r \in Req : StartKernel(r) \/ EnterRunBlock(r) \/ InRunBlock(r) \/ Elsewhere(r)
    \/ (Receive \/ SendMemes) /\ UNCHANGED blockVars
    \/ BlocksCrash

BlocksSpec == BlocksInit /\ [][BlocksNext]_allVars

\* The compiler is killed in the end.  Nothing makes the kernel answer: the
\* request to it has no timeout.
FairBlocksSpec ==
    BlocksSpec /\ \A r \in Req : WF_allVars(at[r] # "ask" /\ InRunBlock(r))

-----------------------------------------------------------------------------
(* Properties. *)

\* RunBlock never comes to use a mutex or types that are not there: the process
\* would end at the nil pointer.
NoNilLookup ==
    \A r \in Req :
        /\ at[r] \in Holds \cup {"lock"} => frame[r].mutex # None
        /\ at[r] \in Holds \ {"defer"} => frame[r].unlock # None
        /\ at[r] = "parse" => frame[r].types # None

\* No RunBlock unlocks a mutex that another one holds, though it looks the map up twice
\* and StartKernel puts other mutexes there in between: what it unlocks is its own, or a
\* mutex nobody has locked, at which the process ends (compile.go:47, 66, 67).
UnlocksOwn ==
    \A r \in Req : at[r] \in Holds \ {"defer"} =>
        frame[r].unlock = frame[r].mutex \/ frame[r].unlock \notin locked

\* A block is preprocessed with what the blocks declared that its kernel has opened,
\* unless the types it finds are those of a request which the running kernel keeps from
\* starting: only such a request takes a session's types away (compile.go:48, 93).
SeesEarlierBlocks ==
    \A r \in Req : at[r] = "parse" =>
        \/ \A p \in loaded[r] : p[1] \in declared[frame[r].types]
        \/ pc[frame[r].types] \in {"create", "failed"}

\* A kernel is never asked for a plugin it has opened: it would run the old code
\* again, as plugins are opened once.
FreshPlugin ==
    [][\A r \in Req : AskKernel(r) => Plugin(r) \notin loaded[r]]_allVars

\* Whatever fails in RunBlock, and whoever else takes the same mutex, it returns:
\* it can only be held up for good by a kernel which never answers.
RunBlockReturns ==
    \A r \in Req : <>[](pc[r] = "run") => \E q \in Req : <>[](at[q] = "ask")

\* The blocks are run under sessions as module Sessions describes them.
ImplementsSessions == Spec

=============================================================================
