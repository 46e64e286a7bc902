# noted-runner in TLA+

noted-runner starts a kernel container for a notebook, compiles the notebook's
Go blocks into plugins, asks the kernel to run them and passes the results back
over a websocket. This directory has TLA+ modules of its behaviour, TLC
configurations that check them on small instances, and proofs that TLAPS
checks for every instance. Paths below are relative to `src/internal/`.

## The system

| part | state it keeps | operations | what makes it hard | what makes it correct |
|---|---|---|---|---|
| compiler delivery (`delivery/compiler/v1/http/http.go`) | `activeConns`: user to websocket; `kernelListeners`: kernel to user | `Compile`, its upgrade callback, `SendMemes` | maps without a lock shared by the goroutines of all requests and the consumer; a check far from the write it guards; exits from the loop that skip the cleaning up | one connection per user, one session per kernel, results only to those who may see them, containers removed |
| compile usecase (`usecase/compile.go`) | `kernelMuxes`, `kernelTypes`, `kernelAttempts` | `StartKernel`, `RunBlock`, `StopKernel` | `StartKernel` replaces a mutex and types that a `RunBlock` may be using; the deferred `Unlock` looks the mutex up again | unlock what was locked, parse with what was declared, never reuse an attempt, always return |
| docker client (`docker/docker.go`) | `active`: ids of created containers | `Create`, `Run`, `Remove`, `Close` | calls fail half way, answers get lost, containers outlive the process | a kernel's name is released exactly when its container is removed |
| result consumer (`consumers/runner.go`) and RabbitMQ connection (`rabbit/rabbit.go`) | the queue, in the broker | `Consume`, `NewRabbit`, `Close` | auto-acknowledged messages, results that outlive their session, the end of the channel | an undecodable message is skipped; a result goes to its kernel's listener or nowhere |
| middlewares (`middlewares/`) | none | `AuthMiddleware`, `MW`, `CommonMiddleware` | failing services | nobody without the right `x` reaches `Compile` |
| application (`application/`) | components, wait group | setup, `Run`, shutdown | what is closed, and in which order, while requests go on | what was opened is closed; containers do not outlive the process |
| http client (`httpclient/httpclient.go`) | counters | `Get`, attempts with backoff | retries, cancellation, overflow of a shift | bounded attempts; the configured statuses are retried |
| preprocessor (`preproc/preproc.go`) | `KernelTypes`: declarations of a session | `Parse`, `FormExportFunc` | state kept across blocks and changed by a parse that fails; types as text, which Go may not have | later blocks find what earlier ones declared, with the types that they assert |
| imports of a plugin (`preproc/preproc.go`, `preproc/base_copypaste.go`) | none | `ClearImports` | names by the last element of a path | a plugin has the imports it uses, and no other |
| configs, logger, metrics, cookies, ids, routing | settings, counters | reading and formatting | | |

A request for `/ws/` goes through the auth and the access middleware to
`Compile`, which calls `StartKernel` (two map writes, then `Create` and `Run`
of the docker client), answers the handshake, and goes on in a callback on a
goroutine of its own: it enters the connection in the two maps, and runs a block
for each message until the connection ends. Results come back through RabbitMQ
to the one consumer goroutine, whose `SendMemes` looks up the kernel's user and
the user's connection. The docker daemon, the kernels and the broker outlive the
process.

## Modules

* **Sessions**: `Compile`, its callback, `SendMemes`, `Consume`, `StopKernel` and
  the docker client. `pc[r]` is where the goroutine of request `r` stands,
  `container[r]` what the daemon keeps of the container it created,
  `activeConns` and `kernelListeners` are the maps, a connection being named by
  its request. Each action is one access to a map or one call to the daemon,
  with one action per outcome: `Create` / `CreateFails` / `CreateAnswerLost`,
  `Run` / `RunFails`, `ContainerStop`, `ContainerRemove` / `RemoveFails`.
  `RunBlock` is one step.
* **KernelLease**: the abstract promise: a kernel is held by one session at a time,
  and is free, held or stranded. `Sessions!ImplementsKernelLease` maps the
  goroutines past `Create` to holders, and the containers whose goroutine has
  ended to stranded kernels.
* **Blocks** (extends Sessions): `StartKernel` and `RunBlock` step by step. `at[r]` is
  where the goroutine stands inside them, `frame[r]` the locals of `RunBlock`
  (which mutex it locked, which it will unlock, the attempt, the types),
  `kernelMuxes`, `kernelTypes` and `kernelAttempts` the maps. A mutex or a
  `KernelTypes` is named by the request whose `StartKernel` made it; of the types
  the model keeps which blocks were entered (`declared`), of a kernel which
  plugins it opened (`loaded`), without which it publishes nothing. `ImplementsSessions` says that this is a
  refinement of Sessions.
* **HttpClient**: `HTTPClient.Get`, apart from the rest of the system (the application
  builds the client and calls none of its methods). `pc[c]` is where a call stands,
  `attempt[c]` the loop's variable, `result[c]` the `resp` and `lastErr` of `makeRequest`,
  `open[c]` the attempts whose body nobody closed, each with the state of the context it is read
  under (the deferred `cancel` of `httpclient.go:92` has cancelled it when `Get` returns), `answers[c]` what the attempts
  brought. A step is `executeRequestAttempt` with the decision after it (`Invalid`,
  `Respond`, `Fail`) or the end of `sleepOrCtx` (`Wake`, `Interrupt`); `Cancel` is the
  caller's. The backoff is computed in integers of the width of a `time.Duration`.
* **GoBlock**: what a block of code is, and what it is in Go. A block is a sequence of tokens,
  each with the line that the scanner reports, and for every line how many `:=` are in its
  text and which expressions are behind the one. From these, and not from what `Parse` makes
  of them, it defines the bodies of functions, the statements, and the types of names whose
  declaration shows them: what the properties of Preproc measure the code by.
* **Preproc**: `Parse` and `FormExportFunc` over the blocks of a session, and the two maps of the
  kernel. An action is a case of the `switch` in the loop of `Parse` (`Func`, `LBrace`, `Ident`,
  `Define`, ...), with an action of its own where the case returns an error (`DefineFails`) or
  indexes a slice out of its range (`SignPanics`, `LinePanics`); the variables are the
  locals of `Parse`, the fields of `Block` and those of `KernelTypes` that anything reads.
  `Resolves`, `ValueTypes` and `CallTypes` are `parseLineType` by its cases, `TypeText` the text that it
  gives to a type, `float` and `char` included; `FuncDefs` and `Mains` say on which side of the
  exported function each line ends up, `Copies` how often. `RunPlugin` and `Drop` are what
  follows in `RunBlock` and in the kernel: the plugin is built and stores what it declares, or it
  comes to nothing. `funcs` and `vars` are the texts that `KernelTypes` has, `funcMap` and `varMap` the
  types that the stored values have in Go: that of the declaration where the block shows it,
  and any otherwise. A plugin runs to its end only if each name it looks up is there and has
  the type that it asserts.
* **Lifecycle** (extends Sessions): `NewApp` stage by stage, `Run`, the signal, the shutdown
  and the restart. `main` is where the main goroutine stands, `server` the goroutine of
  `ListenAndServe`, `loop` that of `Consume`, `link` the connection to the broker, `open` the
  requests that came over the server's connections, `delivered` how many results of the
  queue were pushed to the process. `Arrive` and `Session` bind the requests of Sessions to
  a server that listens and a process that lives, `Take` and `Handle` its consumer to what
  was pushed; `Die` is every end of the process. `ImplementsSessions` says that this is a
  refinement of Sessions.
* **MCSessions**, **MCBlocks**, **MCHttpClient**, **MCLifecycle**: who makes the requests or
  calls, in the instances for TLC. **MCPreproc**: blocks, put together from lines of Go.
* **SessionsProofs**, **SessionsLeaseProofs**, **BlocksProofs**, **HttpClientProofs**,
  **PreprocProofs**, **PreprocTextProofs**, **PreprocStatementProofs**, **LifecycleProofs**: the
  theorems.

How they hang together: Blocks and Lifecycle both extend Sessions and are shown to
implement it, Sessions implements KernelLease, so that what is proved of the sessions
holds inside a process that is signalled, shut down and started again. Preproc stands for
the one line of Blocks in which `RunBlock` calls `Parse`, for one session whose blocks do
not overlap: two goroutines that share one `KernelTypes` are the subject of Blocks.

`Crash` is the end of the process between any two steps, by whatever cause, and
its restart: the signal that ends `Run`, a kill, the runtime's fatal error on a
concurrent map access, the websocket library's panic on two writers, the nil
pointer after `automerge.Load` fails, the `Unlock` of an unlocked mutex
(`UnlockOfUnlocked`, its own action in Blocks). The broker takes a result for acknowledged
when it has sent it, so that any number of results at the head of the queue may be lost
with the process. Data races are thus atomic
accesses in any order, or the end of the process.

### What is abstracted

* The documents, generated code and results: only which block, which attempt
  and which kernel they belong to.
* A result is of a block (`model/kmessage.go`), and which one is left out. In Sessions a kernel publishes at
  any time; in Blocks, which asks nothing of results, only once it opened a plugin.
* Keys made by concatenation, such as `kernelID+userID`: `KeyOf` may map
  different pairs to one key; the theorems that need it assume `KeysDiffer`, which
  holds for ids of a fixed length (UUIDs).
* `AccessMW` asks for rights once; the rights are constant (`CanExecute`), so a
  right taken away during a session is not looked at.
* The kernel id that the callback uses stays what the query said: the library
  keeps the request's memory while the connection is hijacked.
* A read error in the middle of a message leads, like an error of `RunBlock`, to a
  write that succeeds (the loop goes on) or fails (the loop is left).
* An attempt of HttpClient is one step: it shares nothing with other calls but the
  counters, which are atomic. What can be wrong with it is one of five errors, told
  apart by what `shouldRetryError` makes of them. The jitter is a whole number of
  units, at most a fifth of the delay.
* In Preproc an expression is a literal of some kind, `T{}` or `&T{}`, a `call` of a function of the
  session, a `packageCall`, or `garbage` (a piece that is no expression, such as half of
  `T{1,2}`); others are told apart by what their text looks like to `parseLineType`: `likeCall`,
  `mistaken` (some type is seen in it) and `untyped` (none is). `CallTypes` computes with
  the text of the signature, in which `Parse` leaves only parentheses, commas and the types of
  `knownTypes`. `snames`, `KernelTypes.types` and what only they depend on are written and never
  read: they are left out.
* A type in Go is the sequence of the words it is written with. What a block stores under a name
  has the type its text shows, if one `:=` of a block of statements declares it, with a known
  expression, or one `func` with a signature of names and known types; in every other case
  (`var`, a `:=` in the text of a function, other signatures) it has any type of `GoTypes`, or the
  one that was recorded. The names of such a block are `unspelt` until another one stores them.
* A plugin stores all it declares or nothing: `Drop` is a block that did not parse, a
  plugin that is no Go or is not built, or one that stops; its names are `lost`. What keeps a
  plugin from being built is not modelled, except that a function on one line is written
  twice (`Redeclared`).
* Lines that are blank are left out of the plugin, those of a raw string too.
* `NewRabbit` and each other stage of `NewApp` is one step that ends well or with an error.
  The settings of the server, the health checks and the metrics are left out of Lifecycle:
  they are set up and never changed.
* `Remove` returns nil when the daemon cannot be reached: as `Compile` drops the
  error in any case, it is one outcome of `RemoveFails`.

## Runs

| run | instance | shows |
|---|---|---|
| `sessions` | 3 requests, 2 users, 2 kernels, daemon failing, with fairness | `KernelExclusive`, `ListenerAccurate`, `NoDanglingConn`, `ImplementsKernelLease`, `ContainerRemovedAfterClose`, `RequestDecided` |
| `access` | 4 requests for 2 kernels: a user with two sessions at once, another user for the second kernel, a request without the right; 1 result in the queue | `TypeOK`, `ResultsToGranted` |
| `blocks` | 2 requests of one user for one kernel, 2 blocks, 2 attempts in all, 1 result in the queue, with fairness | `NoNilLookup`, `UnlocksOwn`, `SeesEarlierBlocks`, `FreshPlugin`, `RunBlockReturns`, `ImplementsSessions` |
| `lifecycle` | 1 request in a process that ends and starts again, 2 results in the queue, daemon failing, with fairness | `LifeTypeOK`, `Drained`, `ImplementsSessions`, `SignalEnds`, `ResultsTaken` |
| `preproc` | sessions of up to 3 blocks out of 40 | `TypeOK`, `VarsRebound`, `FuncsRebound`, `PlainParses`, `TypesRecorded`, `CodeComplete`, `BodiesWhole`, `BodiesClosed`, `NamedNeverPanics` |
| `http` | 3 calls of `Get`, one of a bad endpoint, 4 attempts, statuses 200, 404 and 503, of which 503 is retried, with fairness | `Backoff`, `LastAnswerReturned`, `BodiesSettled`, `Accounted`, `NoVainSleep`, `GetReturns` |
| `http_retry` | 1 call, 3 attempts | violates `RetryableRetried` |
| `http_delay` | 1 call, 3 attempts | violates `WaitsWithinConfig` |
| `preproc_tests` | the blocks of `TestFunc` and `TestStruct` | violates `TestsParse` |
| `preproc_closure` | a function with a function literal in its body | violates `InsideFunc` |
| `second_connection` | 3 requests of one user, in any order | violates `OneConnectionPerUser` |
| `refusal` | 3 requests of one user, in any order | violates `RefusedOnlyIfConnected` |

Bounds. A request is used once, so their number bounds the sessions. The
properties relate two requests, the maps between them and a third that
disturbs: three requests in `sessions`. In `blocks` two are enough, because a request disturbs another one's
block by its `StartKernel` alone, which is refused while the kernel runs. The four of `access` are two
sessions that one user has at once, one of another user who takes the second of these kernels
over, so that a listener outlives its session and is rewritten, and one that is to be rejected. `MaxQueue`
bounds the results waiting (in `access` one at a time, taken before, during or after each
session; two in `lifecycle`, where the broker pushes them; one in `blocks`),
`MaxRuns` the attempts at the blocks of a kernel (2, in one session or in two: at one block, where the count is
used again, or at two, where the second is parsed with what the first declared; at both the lock is used again). Requests are not interchangeable (each has its
user and kernel), so no symmetry is used. In `http` the shifted delays are 7, 14 and
28 under a cap of 12, with a `Duration` of -16 to 15: below the cap, above it, and past
the width, where the delay becomes negative and the wait empty. Four attempts are three
waits, one of each; the codes are one that ends the loop well, one that ends it although
it is an error, and one configured to be retried. The runs of HttpClient turn the
check for deadlock off, because the calls are finitely many and end. `lifecycle` has one
request: the interleavings of several sessions are in `sessions` and `access`, and its own
questions are between a session, the server, the consumer and `main`; `LifeImplementation` and
`Draining` hold for any number. The process may be started again without bound. In `preproc`
three blocks are one that declares, one that declares again or comes to nothing, and one
that uses; its 40 sources have each kind of line that a case of `Parse` or `parseLineType`
tells apart: literals of several kinds, copies, calls with none, one or two results, structs,
packages, `var`, `type`, nested braces, methods, closures, a signature cut off or of other types, one with
`interface{}`, a function on one line, a `:=` in a string or a comment, a blank line, a raw string
over several lines, `//line` directives. `KernelGoTypes` are the types of what a block does not show: one
that is recorded somewhere and one that never is.
`Preproc` stops when the bound on blocks is reached, so deadlock is not checked in its
three runs.

Fairness. `FairSpec` has weak fairness of a request's way in (`Enter`) and out
(`Leave`): the Go scheduler runs a goroutine that can go on, and the daemon
answers its calls, with a result or an error. The calls carry
`context.Background()`, so the second is an assumption about the daemon. Nothing
makes a client send or close, a kernel exit or publish, the consumer get a
message or the process end. `FairBlocksSpec` is fair to the steps of `RunBlock`
except the request to the kernel: the build is killed at `CompileTimeout`, but
`http.Get` has no timeout. `RunBlockReturns` therefore says that a `RunBlock`
which never returns is waiting, or waits for a mutex whose holder is waiting,
for a kernel that never answers. `FairSpec` of HttpClient is fair to attempts, which
`RequestTimeout` ends, and to waits, which a timer ends; the caller need never give up.
`FairLifeSpec` has weak fairness of `main`, of the consumer but for its write to a client, and of
the requests that the server has not answered, with the assumption above about the daemon and
the same one about the auth and access services; and of the broker, which pushes what waits
in the queue while the connection stands. A signal, a lost connection and a kill need never
come. `WriteMessage` at `http.go:132` has no deadline, as the server's `write-timeout` ends with the hijacking:
a client that does not read holds the consumer, and behind it `wg.Wait` and the results of all
other kernels. Nothing in the code makes it end, so it is not fair, and `SignalEnds` and `ResultsTaken` speak
of clients that read (`ClientsRead`). Websockets need never end: nobody waits for them. Preproc
has no liveness: `Parse` reads every token once.

### Where the code does something else

* `second_connection`: `Compile` looks at `activeConns` at line 53 and writes it at
  line 71, after a container was started. Two requests of a user for two kernels
  both pass; the second entry replaces the first, the first connection gets no
  results, and the end of either deletes the entry.
* `refusal`: after a failed write the handler leaves its loop without deleting the
  entry and without `StopKernel`. The user is refused as "already connected" until
  the process ends, and the kernel's container keeps its name.
* `http_retry`: `makeRequest` leaves its loop for any response (`httpclient.go:77`), so
  that a status in `on-status`, at which `config.yaml` says the request is repeated, is
  never retried: the response comes back with an error and a closed body. Only network
  errors that are timeouts are retried.
* `http_delay`: the jitter is added after the cap (`httpclient.go:176-183`), so that a wait is from
  0.8 of `base-delay` up to 1.2 of `max-delay`, which `config.yaml:38-39` call the minimum and the maximum.
* `preproc_tests`: `parseLineType` cuts the text behind `:=` at every comma
  (`preproc.go:296`), also inside braces: `a:=AAA{1,"dheit"}` becomes `AAA{1` and `"dheit"}`, which
  are no expressions, and the block is refused. `preproc_test.go:193-194` has this block and
  expects no error.
* `preproc_closure`: `funcLevel`, by which `Parse` finds the end of a function's body, is one
  variable. A function literal in a body overwrites it (`preproc.go:233`), and from its
  closing brace on the lines of the enclosing body are taken for statements of the block,
  although line 110 says of `insideFunc` that it is true inside a body.
* Not runs of their own, but excepted where a property would fail for them. The delay is shifted before it
  is compared with `MaxDelay` (`httpclient.go:172`) and leaves the 64 bits of a `Duration` for an attempt
  late enough: there is no wait, where line 171 says "but not more than MaxDelay" (with the 200ms of
  `config.yaml` after the 37th attempt; `Backoff`, and the third wait in `http`). An attempt without a response
  is counted as one of status 400 (`httpclient.go:137`), that is, as an ok, "The total number of 200 requests" by
  `HTTPRequestMetrics.go:23` (`Accounted` only says that each attempt is counted once). Line 109
  of `preproc.go` says of `funcSignatureOpen` "after `func`, up to `{`", from which line 231 takes the body to
  begin; but the first `{` closes it, also that of `interface{}` or `struct{}` in the header: the body of
  `func f(y interface{}) {` is taken to end there and its lines are put into the exported function
  (`BodiesWhole`; `InsideFunc` fails for such a function too). `rabbit.Close` logs its errors through a logger
  that `NewRabbit` never sets (`rabbit.go:56`, `rabbit.go:63`): a shutdown after the connection was lost
  ends in a panic of `main`, which `SignalEnds` takes for an end.
* Not runs either, because no line of the repository promises otherwise: a `{` does not clear the
  candidates of a statement (`preproc.go:228`), so that `if x {` with `y := 1` on the next line is
  refused as two names with one type; a signal that comes before the server's
  goroutine listens makes `Shutdown` return at once, after which the server serves on and
  `main` waits for it for ever (`app.go:129`), the exception that `SignalEnds` and `Drained` name; a
  second request for the user and kernel of a session replaces the mutex and the types
  before the daemon refuses its container. If that comes between lines 66 and 67
  of `compile.go`, `RunBlock` unlocks a mutex that is not locked, which ends the
  process (`UnlockOfUnlocked`); later, the session goes on with empty types. `UnlocksOwn` and
  `SeesEarlierBlocks` say that nothing worse comes of it: no lock is taken from another block, and
  only a refused request takes types away. What `KernelTypes` records need not be Go's type: `float`
  for `1.5`, nothing for `var`, a signature without its types that are not in `knownTypes`. A
  later block that uses such a name is not built or panics in the kernel; these are the names that
  `VarsRebound` and `FuncsRebound` except as `unspelt`. A `:=` in a string or a comment makes
  `Parse` refuse the line, a blank line is left out of a raw string, a function on one line is
  written twice, and a `//line` directive can take `lines[c.line-1]` out of its range.

## Proofs

All theorems are for any sets of requests, users, kernels, blocks and keys, and for a
daemon that may fail or not.

* `SessionsProofs`. The inductive invariant is `IInv`: `TypeInv`; `LeaseInv`, which
  ties control points to containers (a goroutine past `Create` has a container
  that the daemon keeps, one before has none, and two kept containers never have
  one name); `MapsInv`, which is `ListenerAccurate` and `NoDanglingConn`, inductive together
  once `LeaseInv` is known; and `MayInv`, by which every request past
  the middlewares, every listener and every lookup of the consumer is of a user
  with the right to the kernel. `KernelExclusive` alone is not inductive: it needs that
  the daemon refuses names of containers which no goroutine holds any more.
* `SessionsLeaseProofs`. Each step maps to `Acquire`, `Release` or `Strand` of KernelLease
  or changes neither `holders` nor `stranded`, given `LeaseInv`. The end of the process is one
  `Strand` of all kernels held.
* `BlocksProofs`. `BlocksImplementation` is the refinement, by which all invariants of
  Sessions are at hand. `BlocksInv` ties `at` to `pc` and to the maps (a request
  past `StartKernel` finds entries); `AttemptsInv` says that what a session's kernel
  opened was counted, and that the attempt at hand was not opened yet; it needs
  `KernelExclusive`, because a second session of the kernel would read the count
  between the two steps of the first. `MutexInv` says that maps and locals of `RunBlock` have under
  a key only what a request of that key made, and that a locked mutex belongs to a
  `RunBlock` past its `Lock`. With `KernelExclusive` a kernel has one such `RunBlock`, so that a
  locked mutex which another one would unlock is its own (`LockedOwn`): `UnlocksOwn`, whatever
  requests overlap. `TypesKept` follows the types from the map to the locals and through `declared`;
  what replaces them is of a request that `Create` refuses as long as the session lasts
  (`StaysRefused`), which gives `SeesEarlierBlocks`.
* `HttpClientProofs`. `BackoffNear` computes with `Wrap`, the shift, the cap and the jitter:
  from `HttpAssumption`, by which the longest delay with its jitter fits a `Duration`, a
  wait is within a fifth of the capped delay. `Progress` ties `pc` to the attempt (a call
  that waits has another attempt to make) and says that a call still at work has no
  body open; it is what `NoVainSleep` and `BodiesSettled` need to be inductive. `Counting` keeps with
  `Accounted` that the attempts which went out are finitely many (`SentInv`): an attempt that ends
  adds one element to `Sent` (`SentStep`), to one of its three parts by the status that the client counts
  it with, as its counter does (`CountStep`). The three parts together are `Sent`, and those of the errors
  are what was answered (`CountedOnce`).

* `PreprocProofs`, for any blocks and any number of them. `NextSteps` splits a step into the
  tokens that `Parse` scans and the rest; the lemmas `NamesStep`, `NestingStep` and `SignatureStep`
  say what any token does to the names, the braces and an open signature. `Nested` (a body lies
  within the braces that are open) gives `BodiesClosed`; `SignatureNamed` (an open signature is of
  a named function, or its name comes next, or some `func` has none) and `CandidatesPlaced` (a
  candidate is on the line of some token) give `NamedNeverPanics`.
* `PreprocTextProofs` relates what `Parse` keeps to the tokens it has scanned, for any block.
  `CodeInv` gives `CodeComplete`: every candidate is a token of the statement that is being
  scanned, in the order of the lines (`CandidatesInv`), and every declared name stands on a line
  marked as a declaration. Only the line of the `:=` is marked, so the proof has to show that all
  candidates of a `:=` that is accepted are on its line (`TypedLine`). They are because the line
  of the first candidate has one `:=`, whose text `parseLineType` could parse, and behind such a
  text the scanner puts a semicolon. This is the part of `SourcesAssumption` that speaks of `;`: Go
  inserts one at the end of a line after a token that ends an expression, and a line whose text
  goes on in the next one is no expression (`Garbled`) where `parseLineType` cuts it off.
  `BodyInv` gives `BodiesWhole`, for bodies without function literals whose header has no brace: a signature is open from
  `func` to the brace (`SignatureInv`), and in a body `braceDepth` is `funcLevel - 1` and the braces
  that were opened and not closed since (`DepthInv`), so that `insideFunc` holds up to the
  closing brace and marks every line (`BodyMarks`). Counts of braces are computed by
  `CountStep` and `CountNone`, not by induction.
* `PreprocStatementProofs`, for blocks of statements (`Plain`). `StatementsInv` says that in such
  a block `Parse` expects no name of a function or a type, that a line taken for a declaration
  has a `:=` which was scanned, and (`ListInv`) that in front of a `:=` the candidates are exactly
  the names of its list up to the token that is next. At the `:=` they are the names it
  declares (`AtDefine`). `StrippedCut` and `RegularTypes` show that `CallTypes`, which cuts the text
  of a signature at its commas, finds the results of a function with up to two results of known
  types, with or without parentheses. Together, a `:=` of known expressions is accepted with the
  types that are expected (`FittingDefine`), which gives `PlainParses`. For `TypesRecorded`,
  `RecordedInv` says of each `:=` that was scanned what the property says at the end; `RecordedInGo` is
  the conversion of a literal's kind, which gives the type for those named as in Go.
  `VarsFound` is `VarsRebound`: a recorded variable is the block's own, is in the kernel with its
  type, or is lost or unspelt (`VarsAccounted`). A plugin that stores a variable whose type the block
  shows stores what was recorded of it (`SpeltRecorded`), by `RecordedInv` and because one place
  declares it.
* `LifecycleProofs`. `LifeImplementation` is the refinement. It needs `Pushed`: the process has
  been pushed no more results than there are, so that losing them with the process is one of the
  losses of `Crash` (`DieCrashes`). `Draining` is by `ServerInv`: a server that does not listen has
  no requests, and one that was stopped has none to answer, because `FlightShrinks`, no step of
  a session puts a request back among those that wait for an answer.

Every safety property of a passing run but `FuncsRebound`, and each refinement that one checks, is
thus a theorem. Only model-checked: `FuncsRebound`, the liveness properties
(`ContainerRemovedAfterClose`, `RequestDecided`, `RunBlockReturns`, `GetReturns`, `SignalEnds`, `ResultsTaken`),
which are out of the proof system's reach, and the six violations. The assumptions are those of
the constants: for Preproc, what `SourcesAssumption` says of the contents of blocks, that lines come
in their order (where no `//line` directive says otherwise) and that the scanner puts a semicolon
behind expressions; TLC evaluates it for the blocks of each run. Three theorems of Blocks assume
that keys do not collide (`KeysDiffer`).
The definition of `FlattenSeq`, which joins the types of the expressions of a line, is recursive;
the proofs use only that it is the same function in `LineTypes` and in `Expected`.

## Plan

1. Done: Sessions, KernelLease, Blocks and their proofs.
2. Done: HttpClient and its proofs.
3. Done: Preproc and its proofs; Lifecycle, its refinement of Sessions and its proofs.
4. Left: `declared` of Blocks as the names of Preproc, so that two goroutines of one kernel
   scan their blocks at once; `FuncsRebound` as a theorem, which needs that an open signature
   collects exactly the words of the header; the body of a response of HttpClient read by a
   caller, when the code has one.

## Not modelled

The list `active` of the docker client, which `Create` appends to without a lock, and `Close`,
which alone reads it: nothing calls `Close`. `ClearImports` and the list of imports: they choose by
names in the syntax tree of the generated code, the type assertions of the plugin included, and keep
both `crypto/rand` and `math/rand` for one use of `rand`; a plugin that they spoil is not built, which
is `Drop`. A write deadline and what a client reads of its websocket. Reading of configs, logging, metrics, cookies,
trace ids, routing and generated code, which keep no state over time or only pass values
on.
