----------------------------- MODULE HttpClient -----------------------------
(***************************************************************************)
(* The HTTP client of noted-runner: attempts at a request, the wait        *)
(* between them, and the counters of what came of them.                    *)
(*                                                                         *)
(* Calls of Get run concurrently and share the counters.  A step is an     *)
(* attempt with the decision that follows it, or the end of a wait.  The   *)
(* caller's context interrupts a wait and not an attempt, which has a      *)
(* context and a timeout of its own.                                       *)
(***************************************************************************)
EXTENDS Integers, Sequences, FiniteSets

CONSTANTS
    Calls,          \* the calls of Get
    BadEndpoint,    \* those whose endpoint is not a URL
    Codes,          \* the status codes that servers answer with
    RetryOnStatus,  \* the status codes configured to be retried
    MaxAttempts,    \* the configured number of attempts
    BaseDelay,      \* the configured delays, in the unit of a time.Duration
    MaxDelay,
    Half,           \* a time.Duration is an integer from -Half to Half - 1
    None            \* nil

\* What is wrong with an attempt.  The http library wraps all of its errors in a
\* url.Error, which is a net.Error.
NetErrors == {"invalid",    \* the endpoint does not parse
              "broken",     \* refused, reset, unresolved
              "timeout"}    \* the network gave up
Errors == NetErrors \cup
          {"deadline",      \* RequestTimeout or DialTimeout passed
           "status",        \* a status to be retried
           "canceled"}      \* the caller's context was done in a wait

ASSUME HttpAssumption ==
    /\ BadEndpoint \subseteq Calls
    /\ Codes \subseteq Nat
    /\ None \notin Codes /\ None \notin Errors
    /\ MaxAttempts \in Int
    /\ BaseDelay \in Nat
    /\ MaxDelay \in Nat
    /\ Half \in Nat \ {0}
    /\ MaxDelay + MaxDelay \div 5 < Half

VARIABLES
    pc,         \* where each call stands
    attempt,    \* the attempt each call is at
    delay,      \* the wait that was chosen after it
    result,     \* the values of resp and lastErr
    cancelled,  \* the calls whose context is done
    open,       \* the attempts of each call whose response body is not closed,
                \* with the state of the context that the body is read under
    answers,    \* what came of each attempt of each call, in order
    oks, bads, servErrs     \* the counters

callVars == <<pc, attempt, delay, result, answers>>
counters == <<oks, bads, servErrs>>
vars == <<callVars, cancelled, open, counters>>

-----------------------------------------------------------------------------
Result == [resp : Codes \cup {None}, err : Errors \cup {None}]

TypeOK ==
    /\ pc \in [Calls -> {"idle", "attempt", "sleep", "done"}]
    /\ attempt \in [Calls -> Nat]
    /\ delay \in [Calls -> Int]
    /\ result \in [Calls -> Result]
    /\ cancelled \in SUBSET Calls
    /\ open \in [Calls -> SUBSET (Nat \X {"live", "cancelled"})]
    /\ answers \in [Calls -> Seq(Result)]
    /\ oks \in Nat /\ bads \in Nat /\ servErrs \in Nat

Init ==
    /\ pc = [c \in Calls |-> "idle"]
    /\ attempt = [c \in Calls |-> 0]
    /\ delay = [c \in Calls |-> 0]
    /\ result = [c \in Calls |-> [resp |-> None, err |-> None]]
    /\ cancelled = {}
    /\ open = [c \in Calls |-> {}]
    /\ answers = [c \in Calls |-> <<>>]
    /\ oks = 0 /\ bads = 0 /\ servErrs = 0

-----------------------------------------------------------------------------
(* The policy. *)

\* A deadline is final, a network error is tried again if it is a timeout.
ShouldRetryError(err) == err # "deadline" /\ (err \in NetErrors => err = "timeout")

\* MUTANT: one more attempt is waited for than is made.
ShouldRetryLate(err, resp, n) ==
    /\ n <= MaxAttempts
    /\ IF err # None THEN ShouldRetryError(err) ELSE resp # None /\ resp \in RetryOnStatus

ShouldRetry(err, resp, n) ==
    /\ n < MaxAttempts
    /\ IF err # None THEN ShouldRetryError(err) ELSE resp # None /\ resp \in RetryOnStatus

\* What an integer becomes as a time.Duration.
Wrap(n) == ((n + Half) % (2 * Half)) - Half

\* MUTANT: the shift is by the attempt itself.
ShiftedMore(n) == Wrap(BaseDelay * 2^n)

\* BaseDelay << (attempt - 1)
Shifted(n) == Wrap(BaseDelay * 2^(n - 1))

Capped(n) == IF Shifted(n) > MaxDelay THEN MaxDelay ELSE Shifted(n)

\* The fifths of d, up or down, that a random jitter adds.
Jitter(d) == LET fifth == (IF d < 0 THEN -d ELSE d) \div 5 IN -fifth .. fifth

\* The delays that the backoff may choose after the attempt n.
BackoffDelays(n) == {Wrap(Capped(n) + j) : j \in Jitter(Capped(n))}

-----------------------------------------------------------------------------
(* Attempts. *)

\* The loop is entered, if it has an attempt to make.
Get(c) ==
    /\ pc[c] = "idle"
    /\ pc' = [pc EXCEPT ![c] = IF 1 <= MaxAttempts THEN "attempt" ELSE "done"]
    /\ attempt' = [attempt EXCEPT ![c] = 1]
    /\ UNCHANGED <<delay, result, answers, cancelled, open, counters>>

\* MUTANT: resp and lastErr are declared anew in the loop.
ConcludeShadowed(c, resp, err) ==
    /\ pc[c] = "attempt"
    /\ answers' = [answers EXCEPT ![c] = Append(@, [resp |-> resp, err |-> err])]
    /\ \/ /\ resp # None \/ ~ShouldRetry(err, resp, attempt[c])
          /\ pc' = [pc EXCEPT ![c] = "done"]
          /\ UNCHANGED delay
       \/ /\ resp = None /\ ShouldRetry(err, resp, attempt[c])
          /\ pc' = [pc EXCEPT ![c] = "sleep"]
          /\ \E d \in BackoffDelays(attempt[c]) : delay' = [delay EXCEPT ![c] = d]
    /\ UNCHANGED <<attempt, result, cancelled>>

\* The attempt has brought resp and err: the loop is left, or goes on after a
\* wait.  Any response ends it, whatever its status.
Conclude(c, resp, err) ==
    /\ pc[c] = "attempt"
    /\ result' = [result EXCEPT ![c] = [resp |-> resp, err |-> err]]
    /\ answers' = [answers EXCEPT ![c] = Append(@, [resp |-> resp, err |-> err])]
    /\ \/ /\ resp # None \/ ~ShouldRetry(err, resp, attempt[c])
          /\ pc' = [pc EXCEPT ![c] = "done"]
          /\ UNCHANGED delay
       \/ /\ resp = None /\ ShouldRetry(err, resp, attempt[c])
          /\ pc' = [pc EXCEPT ![c] = "sleep"]
          /\ \E d \in BackoffDelays(attempt[c]) : delay' = [delay EXCEPT ![c] = d]
    /\ UNCHANGED <<attempt, cancelled>>

ObserveStatusCode(code) ==
    /\ oks' = IF code <= 400 THEN oks + 1 ELSE oks
    /\ bads' = IF 400 < code /\ code <= 500 THEN bads + 1 ELSE bads
    /\ servErrs' = IF 500 < code THEN servErrs + 1 ELSE servErrs

\* The request could not be made: nothing is sent and nothing counted.
Invalid(c) ==
    /\ c \in BadEndpoint
    /\ Conclude(c, None, "invalid")
    /\ UNCHANGED <<open, counters>>

\* MUTANT: the body of a response that is not wanted is left open.
RespondUndrained(c) ==
    /\ c \notin BadEndpoint
    /\ \E code \in Codes :
        /\ Conclude(c, code, IF code \in RetryOnStatus THEN "status" ELSE None)
        /\ ObserveStatusCode(code)
    /\ open' = [open EXCEPT ![c] = @ \cup {<<attempt[c], "cancelled">>}]

\* A response came.  Its body is drained and closed if its status is one to be
\* retried, and left to the caller otherwise: with a context that the deferred
\* cancel has cancelled, so that what was not yet received cannot be read.
Respond(c) ==
    /\ c \notin BadEndpoint
    /\ \E code \in Codes :
        /\ Conclude(c, code, IF code \in RetryOnStatus THEN "status" ELSE None)
        /\ ObserveStatusCode(code)
        /\ open' = [open EXCEPT ![c] =
                        IF code \in RetryOnStatus THEN @
                        ELSE @ \cup {<<attempt[c], "cancelled">>}]

\* MUTANT: only responses are counted.
FailUncounted(c) ==
    /\ c \notin BadEndpoint
    /\ \E err \in {"broken", "timeout", "deadline"} : Conclude(c, None, err)
    /\ UNCHANGED <<open, counters>>

\* No response came.  It is counted as one with status 400.
Fail(c) ==
    /\ c \notin BadEndpoint
    /\ \E err \in {"broken", "timeout", "deadline"} : Conclude(c, None, err)
    /\ ObserveStatusCode(400)
    /\ UNCHANGED open

-----------------------------------------------------------------------------
(* Waits. *)

\* MUTANT: the timer is not listened to.
WakeUnheard(c) ==
    /\ pc[c] = "sleep" /\ delay[c] <= 0
    /\ attempt' = [attempt EXCEPT ![c] = @ + 1]
    /\ pc' = [pc EXCEPT ![c] = IF attempt[c] + 1 <= MaxAttempts THEN "attempt" ELSE "done"]
    /\ UNCHANGED <<delay, result, answers, cancelled, open, counters>>

\* The timer fires, or there is nothing to wait for, and the loop goes on.
Wake(c) ==
    /\ pc[c] = "sleep"
    /\ attempt' = [attempt EXCEPT ![c] = @ + 1]
    /\ pc' = [pc EXCEPT ![c] = IF attempt[c] + 1 <= MaxAttempts THEN "attempt" ELSE "done"]
    /\ UNCHANGED <<delay, result, answers, cancelled, open, counters>>

\* The context is done: the response and the error there were are dropped.
Interrupt(c) ==
    /\ pc[c] = "sleep"
    /\ delay[c] > 0
    /\ c \in cancelled
    /\ pc' = [pc EXCEPT ![c] = "done"]
    /\ result' = [result EXCEPT ![c] = [resp |-> None, err |-> "canceled"]]
    /\ UNCHANGED <<attempt, delay, answers, cancelled, open, counters>>

\* The caller gives up while Get is at work.
Cancel(c) ==
    /\ pc[c] \in {"attempt", "sleep"}
    /\ c \notin cancelled
    /\ cancelled' = cancelled \cup {c}
    /\ UNCHANGED <<callVars, open, counters>>

Attempt(c) == Invalid(c) \/ Respond(c) \/ Fail(c)
SleepOrCtx(c) == Wake(c) \/ Interrupt(c)

Next == \E c \in Calls : Get(c) \/ Attempt(c) \/ SleepOrCtx(c) \/ Cancel(c)

Spec == Init /\ [][Next]_vars

\* An attempt ends when RequestTimeout has passed, a wait when its timer fires.
FairSpec == Spec /\ \A c \in Calls : WF_vars(Attempt(c) \/ SleepOrCtx(c))

-----------------------------------------------------------------------------
(* Properties. *)

\* "Base * 2^(attempt-1), but no more than MaxDelay", give or take a fifth, is what
\* d is waited for after the attempt n (httpclient.go:171, 176).
AsCommented(d, n) ==
    LET exact == BaseDelay * 2^(n - 1)
        bound == IF exact > MaxDelay THEN MaxDelay ELSE exact
    IN  d \in (bound - bound \div 5) .. (bound + bound \div 5)

\* The wait is the one of the comment as long as the shifted delay is a time.Duration at
\* all: the cap and the jitter are applied to the right value (httpclient.go:172-183).  The
\* comment makes no such exception, the code needs it: behind it the shift overflows, and
\* the wait is none or a wrong one.  WaitsWithinConfig says what the configuration asks for.
Backoff ==
    \A c \in Calls :
        pc[c] = "sleep" /\ BaseDelay * 2^(attempt[c] - 1) \in 0 .. (Half - 1) =>
            AsCommented(delay[c], attempt[c])

\* base-delay is the minimum and max-delay the maximum of the delay between attempts
\* (config.yaml:38-39): a wait is not shorter than the one and not longer than the other.
WaitsWithinConfig ==
    \A c \in Calls : pc[c] = "sleep" => BaseDelay <= delay[c] /\ delay[c] <= MaxDelay

\* A wait is always for another attempt: after the last one Get returns at once.
NoVainSleep ==
    [][\A c \in Calls : pc[c] = "sleep" /\ pc'[c] = "done" => c \in cancelled]_vars

\* Get returns what the last attempt brought, unless a wait was interrupted, in
\* which case it returns no response.
LastAnswerReturned ==
    \A c \in Calls : pc[c] = "done" /\ answers[c] # <<>> =>
        IF result[c].err = "canceled" THEN result[c].resp = None
        ELSE result[c] = answers[c][Len(answers[c])]

\* A body that is left open is that of the response which Get returned without
\* an error: the caller who has it knows to close it (httpclient.go:114-121).  It is not
\* said that the caller can read it: the context of it is cancelled.
BodiesSettled ==
    \A c \in Calls : open[c] # {} =>
        /\ pc[c] = "done" /\ open[c] = {<<attempt[c], "cancelled">>}
        /\ result[c].resp # None /\ result[c].err = None

\* The attempts that went out, and what each was answered.
Sent == UNION {{c} \X DOMAIN answers[c] : c \in Calls \ BadEndpoint}
Code(a) == answers[a[1]][a[2]].resp

\* Whatever calls run at once, every attempt that went out is counted once: an error status
\* by the counter of its class, and each attempt by one of the three (httpclient.go:55-64,
\* 135-141).  What is left for the oks are also the attempts that had no answer; that those
\* are "The total number of 200 requests" (HTTPRequestMetrics.go:23) is not said here, and
\* is not so.
Accounted ==
    /\ oks + bads + servErrs = Cardinality(Sent)
    /\ bads = Cardinality({a \in Sent : Code(a) # None /\ 400 < Code(a) /\ Code(a) <= 500})
    /\ servErrs = Cardinality({a \in Sent : Code(a) # None /\ 500 < Code(a)})

\* Every call of Get returns: its waits have a timer and its attempts a timeout
\* (httpclient.go:46, 91, 198).
GetReturns == \A c \in Calls : pc[c] = "attempt" ~> pc[c] = "done"

\* "status codes at which the request is repeated": a status that is configured
\* to be retried is retried, up to the last attempt.
RetryableRetried ==
    \A c \in Calls :
        pc[c] = "done" /\ result[c].err = "status" => Len(answers[c]) = MaxAttempts

=============================================================================
