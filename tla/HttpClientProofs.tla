-------------------------- MODULE HttpClientProofs --------------------------
(***************************************************************************)
(* Proofs about HttpClient, for any calls, any policy and any width of     *)
(* durations.                                                              *)
(***************************************************************************)
EXTENDS HttpClient, FiniteSetTheorems, TLAPS

USE HttpAssumption

\* Where a call is in its attempts: one that waits has another to make.
Progress ==
    \A c \in Calls :
        /\ pc[c] = "idle" => answers[c] = <<>>
        /\ pc[c] = "attempt" => attempt[c] \in 1 .. MaxAttempts
        /\ pc[c] = "sleep" => attempt[c] \in 1 .. (MaxAttempts - 1)
        /\ pc[c] # "done" => open[c] = {}

IInv == TypeOK /\ Progress /\ Backoff /\ LastAnswerReturned /\ BodiesSettled

\* A number that fits a duration is that duration.
LEMMA WrapFits == \A n \in -Half .. (Half - 1) : Wrap(n) = n
  BY DEF Wrap

\* Any number becomes some duration.
LEMMA WrapType == \A n \in Int : Wrap(n) \in -Half .. (Half - 1)
  BY DEF Wrap

\* What the backoff chooses after an attempt is a duration, and one as near to
\* the exact delay as the jitter lets it be, if that one fits.
LEMMA BackoffNear ==
  ASSUME NEW n \in Nat \ {0}, NEW d \in BackoffDelays(n),
         NEW exact, exact = BaseDelay * 2^(n - 1),
         NEW bound, bound = IF exact > MaxDelay THEN MaxDelay ELSE exact
  PROVE  /\ d \in Int
         /\ exact \in 0 .. (Half - 1) => AsCommented(d, n)
<1>1. exact \in Int /\ Shifted(n) = Wrap(exact)
  BY DEF Shifted
<1>2. Shifted(n) \in Int /\ Capped(n) \in Int
  BY <1>1, WrapType DEF Capped
<1>3. PICK j \in Jitter(Capped(n)) : d = Wrap(Capped(n) + j)
  BY DEF BackoffDelays
<1>4. j \in Int
  BY <1>2, <1>3 DEF Jitter
<1>5. d \in Int
  BY <1>2, <1>3, <1>4, WrapType
<1>6. ASSUME exact \in 0 .. (Half - 1)
      PROVE  d \in (bound - bound \div 5) .. (bound + bound \div 5)
  <2>1. Capped(n) = bound /\ bound \in 0 .. MaxDelay
    BY <1>1, <1>6, WrapFits DEF Capped
  <2>2. j \in -(bound \div 5) .. (bound \div 5)
    BY <1>3, <2>1 DEF Jitter
  <2>3. bound \div 5 \in Nat /\ bound \div 5 <= bound /\ bound \div 5 <= MaxDelay \div 5
    BY <2>1
  <2>4. bound + j \in -Half .. (Half - 1)
    BY <2>1, <2>2, <2>3
  <2> QED
    BY <1>3, <2>1, <2>2, <2>3, <2>4, WrapFits
<1> QED
  BY <1>5, <1>6 DEF AsCommented

\* Nothing has happened yet.
LEMMA InitInv == Init => IInv
  BY DEF Init, IInv, TypeOK, Result, Progress, Backoff, LastAnswerReturned, BodiesSettled

\* An attempt that brought resp and err leaves everything but bodies and counters
\* as it should be.
LEMMA ConcludeInv ==
  ASSUME IInv, NEW c \in Calls, NEW resp \in Codes \cup {None},
         NEW err \in (Errors \ {"canceled"}) \cup {None}, Conclude(c, resp, err)
  PROVE  /\ pc' \in [Calls -> {"idle", "attempt", "sleep", "done"}]
         /\ attempt' \in [Calls -> Nat] /\ delay' \in [Calls -> Int]
         /\ result' \in [Calls -> Result] /\ answers' \in [Calls -> Seq(Result)]
         /\ cancelled' \in SUBSET Calls
         /\ \A q \in Calls : q # c => /\ pc'[q] = pc[q]
                                      /\ result'[q] = result[q]
         /\ attempt' = attempt /\ attempt[c] \in 1 .. MaxAttempts /\ pc[c] = "attempt"
         /\ result'[c] = [resp |-> resp, err |-> err]
         /\ pc'[c] \in {"sleep", "done"} /\ (resp # None => pc'[c] = "done")
         /\ \A q \in Calls : pc'[q] = "idle" => answers'[q] = <<>>
         /\ \A q \in Calls : pc'[q] = "attempt" => attempt[q] \in 1 .. MaxAttempts
         /\ \A q \in Calls : pc'[q] = "sleep" => attempt[q] \in 1 .. (MaxAttempts - 1)
         /\ Backoff' /\ LastAnswerReturned'
<1> USE DEF IInv, TypeOK, Conclude
<1> DEFINE a == [resp |-> resp, err |-> err]
<1>1. a \in Result
  BY DEF Result
<1>2. /\ pc[c] = "attempt" /\ attempt[c] \in 1 .. MaxAttempts
      /\ attempt' = attempt /\ cancelled' = cancelled
  BY DEF Progress
<1>3. /\ result' = [result EXCEPT ![c] = a]
      /\ answers' = [answers EXCEPT ![c] = Append(answers[c], a)]
  OBVIOUS
<1>4. /\ Append(answers[c], a) \in Seq(Result)
      /\ Len(Append(answers[c], a)) \in Nat \ {0}
      /\ Append(answers[c], a)[Len(Append(answers[c], a))] = a
  BY <1>1
<1>5. /\ result' \in [Calls -> Result] /\ answers' \in [Calls -> Seq(Result)]
      /\ \A q \in Calls : q # c => result'[q] = result[q] /\ answers'[q] = answers[q]
      /\ result'[c] = a /\ answers'[c] = Append(answers[c], a)
  BY <1>1, <1>3, <1>4
<1>6. \/ pc' = [pc EXCEPT ![c] = "done"] /\ delay' = delay
      \/ /\ resp = None /\ attempt[c] < MaxAttempts /\ pc' = [pc EXCEPT ![c] = "sleep"]
         /\ \E d \in BackoffDelays(attempt[c]) : delay' = [delay EXCEPT ![c] = d]
  BY DEF ShouldRetry
<1>7. /\ pc' \in [Calls -> {"idle", "attempt", "sleep", "done"}]
      /\ pc'[c] \in {"sleep", "done"} /\ (resp # None => pc'[c] = "done")
      /\ pc'[c] = "sleep" => attempt[c] \in 1 .. (MaxAttempts - 1)
      /\ \A q \in Calls : q # c => pc'[q] = pc[q]
  <2>1. CASE pc' = [pc EXCEPT ![c] = "done"]
    BY <2>1
  <2>2. CASE /\ resp = None /\ attempt[c] < MaxAttempts
             /\ pc' = [pc EXCEPT ![c] = "sleep"]
    <3>1. attempt[c] \in 1 .. (MaxAttempts - 1)
      BY <1>2, <2>2
    <3> QED
      BY <2>2, <3>1
  <2> QED
    BY <1>6, <2>1, <2>2
<1>8. delay' \in [Calls -> Int] /\ Backoff'
  <2>1. CASE pc' = [pc EXCEPT ![c] = "done"] /\ delay' = delay
    BY <1>2, <2>1 DEF Backoff
  <2>2. ASSUME NEW d \in BackoffDelays(attempt[c]), delay' = [delay EXCEPT ![c] = d]
        PROVE  delay' \in [Calls -> Int] /\ Backoff'
    <3>1. d \in Int
      BY <1>2, BackoffNear
    <3> SUFFICES ASSUME NEW q \in Calls, pc'[q] = "sleep" PROVE Backoff!(q)'
      BY <2>2, <3>1 DEF Backoff
    <3>2. CASE q = c
      <4>1. attempt'[q] = attempt[c] /\ delay'[q] = d /\ attempt[c] \in Nat \ {0}
        BY <1>2, <2>2, <3>2
      <4> QED
        BY <4>1, BackoffNear
    <3>3. CASE q # c
      BY <1>2, <1>7, <2>2, <3>3 DEF Backoff
    <3> QED
      BY <3>2, <3>3
  <2> QED
    BY <1>6, <2>1, <2>2
<1>9. LastAnswerReturned'
  <2> SUFFICES ASSUME NEW q \in Calls, pc'[q] = "done", answers'[q] # <<>>
               PROVE  IF result'[q].err = "canceled" THEN result'[q].resp = None
                      ELSE result'[q] = answers'[q][Len(answers'[q])]
    BY DEF LastAnswerReturned
  <2>1. CASE q = c
    <3>1. result'[c].err # "canceled"
      BY <1>5 DEF Errors, NetErrors, a
    <3> QED
      BY <1>4, <1>5, <2>1, <3>1
  <2>2. CASE q # c
    BY <1>5, <1>7, <2>2 DEF LastAnswerReturned
  <2> QED
    BY <2>1, <2>2
<1> QED
  BY <1>2, <1>5, <1>7, <1>8, <1>9, SMTT(30) DEF Progress

\* Every step keeps the invariant: an attempt by the lemma above, the end of a wait
\* because there is another attempt to make or the caller gave up.
LEMMA NextInv == IInv /\ [Next]_vars => IInv'
<1> SUFFICES ASSUME IInv, [Next]_vars PROVE IInv'
  OBVIOUS
<1>1. CASE UNCHANGED vars
  BY <1>1 DEF vars, callVars, counters, IInv, TypeOK, Progress, Backoff, LastAnswerReturned,
     BodiesSettled
<1>2. ASSUME NEW c \in Calls, Get(c) PROVE IInv'
  <2> USE <1>2 DEF IInv, Get, counters
  <2>1. TypeOK'
    BY DEF TypeOK
  <2>2. /\ \A q \in Calls : q # c => pc'[q] = pc[q] /\ attempt'[q] = attempt[q]
        /\ pc[c] = "idle" /\ answers[c] = <<>> /\ open[c] = {} /\ attempt'[c] = 1
        /\ pc'[c] \in {"attempt", "done"} /\ (pc'[c] = "attempt" => 1 <= MaxAttempts)
        /\ UNCHANGED <<delay, result, answers, open>>
    BY DEF TypeOK, Progress
  <2>3. Progress'
    BY <2>2 DEF Progress
  <2>4. Backoff'
    BY <2>2 DEF Backoff
  <2>5. LastAnswerReturned' /\ BodiesSettled'
    BY <2>2 DEF LastAnswerReturned, BodiesSettled
  <2> QED
    BY <2>1, <2>3, <2>4, <2>5
<1>3. ASSUME NEW c \in Calls, Attempt(c) PROVE IInv'
  <2>1. CASE Invalid(c)
    <3>1. Conclude(c, None, "invalid") /\ "invalid" \in (Errors \ {"canceled"})
      BY <2>1 DEF Invalid, Errors, NetErrors
    <3>2. UNCHANGED <<open, oks, bads, servErrs>>
      BY <2>1 DEF Invalid, counters
    <3> QED
      BY <3>1, <3>2, ConcludeInv, ZenonT(40) DEF IInv, TypeOK, Progress, BodiesSettled
  <2>2. CASE Respond(c)
    <3>1. PICK code \in Codes :
            /\ Conclude(c, code, IF code \in RetryOnStatus THEN "status" ELSE None)
            /\ ObserveStatusCode(code)
            /\ open' = [open EXCEPT ![c] =
                            IF code \in RetryOnStatus THEN @
                            ELSE @ \cup {<<attempt[c], "cancelled">>}]
      BY <2>2 DEF Respond
    <3> DEFINE err == IF code \in RetryOnStatus THEN "status" ELSE None
    <3>2. err \in (Errors \ {"canceled"}) \cup {None}
      BY DEF Errors, NetErrors
    <3>3. oks' \in Nat /\ bads' \in Nat /\ servErrs' \in Nat
      <4>1. oks \in Nat /\ bads \in Nat /\ servErrs \in Nat
        BY DEF IInv, TypeOK
      <4>2. ObserveStatusCode(code)
        BY <3>1
      <4> QED
        BY <4>1, <4>2 DEF ObserveStatusCode
    <3>4. /\ attempt[c] \in 1 .. MaxAttempts /\ pc[c] = "attempt"
          /\ pc'[c] = "done" /\ attempt' = attempt
          /\ result'[c] = [resp |-> code, err |-> err]
      BY <3>1, <3>2, ConcludeInv
    <3>a. open \in [Calls -> SUBSET (Nat \X {"live", "cancelled"})] /\ open[c] = {}
      BY <3>4 DEF IInv, TypeOK, Progress
    <3>5. /\ open' \in [Calls -> SUBSET (Nat \X {"live", "cancelled"})]
          /\ \A q \in Calls : q # c => open'[q] = open[q]
          /\ open'[c] = IF code \in RetryOnStatus THEN {} ELSE {<<attempt[c], "cancelled">>}
      BY <3>1, <3>4, <3>a
    <3>6. \A q \in Calls : q # c => pc'[q] = pc[q] /\ result'[q] = result[q]
      BY <3>1, <3>2, ConcludeInv
    <3>7. BodiesSettled'
      <4> SUFFICES ASSUME NEW q \in Calls, open'[q] # {} PROVE BodiesSettled!(q)!2'
        BY DEF BodiesSettled
      <4>1. CASE q = c
        BY <3>4, <3>5, <4>1
      <4>2. CASE q # c
        BY <3>4, <3>5, <3>6, <4>2 DEF IInv, BodiesSettled
      <4> QED
        BY <4>1, <4>2
    <3>8. TypeOK' /\ Progress'
      BY <3>1, <3>2, <3>3, <3>4, <3>5, ConcludeInv, ZenonT(40) DEF IInv, TypeOK, Progress
    <3> QED
      BY <3>1, <3>2, <3>7, <3>8, ConcludeInv DEF IInv
  <2>3. CASE Fail(c)
    <3>1. PICK err \in {"broken", "timeout", "deadline"} : Conclude(c, None, err)
      BY <2>3 DEF Fail
    <3>2. err \in (Errors \ {"canceled"})
      BY DEF Errors, NetErrors
    <3>3. oks' \in Nat /\ bads' \in Nat /\ servErrs' \in Nat /\ open' = open
      BY <2>3 DEF Fail, ObserveStatusCode, IInv, TypeOK
    <3> QED
      BY <3>1, <3>2, <3>3, ConcludeInv, ZenonT(40) DEF IInv, TypeOK, Progress, BodiesSettled
  <2> QED
    BY <1>3, <2>1, <2>2, <2>3 DEF Attempt
<1>4. ASSUME NEW c \in Calls, Wake(c) PROVE IInv'
  <2>1. /\ pc[c] = "sleep"
        /\ attempt' = [attempt EXCEPT ![c] = attempt[c] + 1]
        /\ pc' = [pc EXCEPT ![c] = IF attempt[c] + 1 <= MaxAttempts
                                   THEN "attempt" ELSE "done"]
        /\ UNCHANGED <<delay, result, answers, cancelled, open, oks, bads, servErrs>>
    BY <1>4 DEF Wake, counters
  <2>2. attempt[c] \in 1 .. (MaxAttempts - 1) /\ open[c] = {}
    BY <2>1 DEF IInv, Progress
  <2>3. attempt[c] + 1 \in 1 .. MaxAttempts
    BY <2>2
  <2>4. pc' = [pc EXCEPT ![c] = "attempt"]
    <3>1. attempt[c] + 1 <= MaxAttempts
      BY <2>3
    <3> QED
      BY <2>1, <3>1
  <2>5. TypeOK'
    BY <2>1, <2>3, <2>4 DEF IInv, TypeOK
  <2>6. /\ \A q \in Calls : q # c => pc'[q] = pc[q] /\ attempt'[q] = attempt[q]
        /\ pc'[c] = "attempt" /\ attempt'[c] \in 1 .. MaxAttempts
    BY <2>1, <2>3, <2>4 DEF IInv, TypeOK
  <2>7. Progress'
    BY <2>1, <2>2, <2>6 DEF IInv, Progress
  <2>8. Backoff'
    BY <2>1, <2>6 DEF IInv, Backoff
  <2>9. LastAnswerReturned' /\ BodiesSettled'
    BY <2>1, <2>2, <2>6 DEF IInv, LastAnswerReturned, BodiesSettled
  <2> QED
    BY <2>5, <2>7, <2>8, <2>9 DEF IInv
<1>5. ASSUME NEW c \in Calls, Interrupt(c) PROVE IInv'
  <2>1. [resp |-> None, err |-> "canceled"] \in Result
    BY DEF Result, Errors
  <2> QED
    BY <1>5, <2>1 DEF Interrupt, counters, IInv, TypeOK, Progress, Backoff,
       LastAnswerReturned, BodiesSettled
<1>6. ASSUME NEW c \in Calls, Cancel(c) PROVE IInv'
  BY <1>6 DEF Cancel, callVars, counters, IInv, TypeOK, Progress, Backoff,
     LastAnswerReturned, BodiesSettled
<1> QED
  BY <1>1, <1>2, <1>3, <1>4, <1>5, <1>6 DEF Next, SleepOrCtx

\* The invariant holds always.
THEOREM HttpInvariance == Spec => []IInv
  BY InitInv, NextInv, PTL DEF Spec

\* The wait between attempts is what the comment on backoffDelay says, give or
\* take the jitter, for as long as the shift fits a time.Duration.
THEOREM Waits == Spec => []Backoff
<1>1. IInv => Backoff
  BY DEF IInv
<1> QED
  BY <1>1, HttpInvariance, PTL

\* Get returns what its last attempt brought, or nothing if it was interrupted.
THEOREM Returned == Spec => []LastAnswerReturned
<1>1. IInv => LastAnswerReturned
  BY DEF IInv
<1> QED
  BY <1>1, HttpInvariance, PTL

\* No body is left open but that of the response Get returned without an error.
THEOREM Settled == Spec => []BodiesSettled
<1>1. IInv => BodiesSettled
  BY DEF IInv
<1> QED
  BY <1>1, HttpInvariance, PTL

\* makeRequest never waits after the last attempt.
THEOREM WaitsForAttempts == Spec => NoVainSleep
<1>1. IInv /\ [Next]_vars =>
        \A c \in Calls : pc[c] = "sleep" /\ pc'[c] = "done" => c \in cancelled
  <2> SUFFICES ASSUME IInv, [Next]_vars, NEW c \in Calls, pc[c] = "sleep", pc'[c] = "done"
               PROVE  c \in cancelled
    OBVIOUS
  <2> USE DEF IInv, TypeOK
  <2>1. ASSUME NEW q \in Calls, Get(q) \/ Attempt(q) \/ Cancel(q) PROVE FALSE
    BY <2>1 DEF Get, Attempt, Invalid, Respond, Fail, Conclude, Cancel, callVars
  <2>2. ASSUME NEW q \in Calls, Wake(q) PROVE FALSE
    BY <2>2 DEF Wake, Progress
  <2>3. ASSUME NEW q \in Calls, Interrupt(q) PROVE c \in cancelled
    BY <2>3 DEF Interrupt
  <2>4. CASE UNCHANGED vars
    BY <2>4 DEF vars, callVars
  <2> QED
    BY <2>1, <2>2, <2>3, <2>4 DEF Next, SleepOrCtx
<1> QED
  BY <1>1, HttpInvariance, PTL DEF Spec, NoVainSleep

-----------------------------------------------------------------------------
(* The counters. *)

\* The status that the client counts an attempt by, and the counters by that status.
Status(a) == IF Code(a) = None THEN 400 ELSE Code(a)

ByStatus ==
    /\ oks = Cardinality({a \in Sent : Status(a) <= 400})
    /\ bads = Cardinality({a \in Sent : 400 < Status(a) /\ Status(a) <= 500})
    /\ servErrs = Cardinality({a \in Sent : 500 < Status(a)})

\* There are only as many attempts as there were steps.
SentInv == IsFiniteSet(Sent) /\ ByStatus

\* A part of the attempts grows by the new one if that one is in it.
LEMMA OneMore ==
  ASSUME NEW S, NEW T, NEW a, NEW n \in Nat, NEW m, IsFiniteSet(S), n = Cardinality(S),
         a \notin S,
         \/ T = S \cup {a} /\ m = n + 1
         \/ T = S /\ m = n
  PROVE  m = Cardinality(T)
<1>1. CASE T = S \cup {a} /\ m = n + 1
  BY <1>1, FS_AddElement
<1>2. CASE T = S /\ m = n
  BY <1>2
<1> QED
  BY <1>1, <1>2

\* The attempt that a call is at goes out, and what it brings decides its status.
LEMMA SentStep ==
  ASSUME IInv, NEW c \in Calls \ BadEndpoint, NEW resp \in Codes \cup {None},
         NEW err \in (Errors \ {"canceled"}) \cup {None}, Conclude(c, resp, err),
         NEW a, a = <<c, Len(answers[c]) + 1>>
  PROVE  /\ a \notin Sent /\ Sent' = Sent \cup {a}
         /\ Status(a)' = IF resp = None THEN 400 ELSE resp
         /\ \A b \in Sent : Status(b)' = Status(b)
<1> DEFINE answer == [resp |-> resp, err |-> err]
<1>1. /\ answers \in [Calls -> Seq(Result)] /\ answer \in Result
      /\ answers' = [answers EXCEPT ![c] = Append(answers[c], answer)]
  BY DEF IInv, TypeOK, Conclude, Result
<1>2. /\ answers'[c] = Append(answers[c], answer)
      /\ \A q \in Calls : q # c => answers'[q] = answers[q]
  BY <1>1
<1>3. answers[c] \in Seq(Result) /\ Len(answers[c]) \in Nat
  BY <1>1
<1>4. /\ DOMAIN answers'[c] = DOMAIN answers[c] \cup {Len(answers[c]) + 1}
      /\ Len(answers[c]) + 1 \notin DOMAIN answers[c]
      /\ answers'[c][Len(answers[c]) + 1] = answer
      /\ \A i \in DOMAIN answers[c] : answers'[c][i] = answers[c][i]
  <2>1. DOMAIN answers[c] = 1 .. Len(answers[c])
    BY <1>3
  <2>2. DOMAIN answers'[c] = 1 .. (Len(answers[c]) + 1)
    BY <1>1, <1>2, <1>3
  <2> QED
    BY <1>1, <1>2, <1>3, <2>1, <2>2
<1>5. a \notin Sent
  BY <1>4 DEF Sent
<1>6. Sent' = Sent \cup {a}
  <2>1. \A q, i : <<q, i>> \in Sent <=> q \in Calls \ BadEndpoint /\ i \in DOMAIN answers[q]
    BY DEF Sent
  <2>2. \A q, i : <<q, i>> \in Sent' <=> q \in Calls \ BadEndpoint /\ i \in DOMAIN answers'[q]
    BY DEF Sent
  <2>3. \A b \in Sent \cup Sent' : b = <<b[1], b[2]>>
    BY DEF Sent
  <2>4. \A q, i : <<q, i>> \in Sent' <=> <<q, i>> \in Sent \/ <<q, i>> = a
    BY <1>2, <1>4, <2>1, <2>2
  <2> QED
    BY <2>3, <2>4
<1>7. Status(a)' = IF resp = None THEN 400 ELSE resp
  BY <1>4 DEF Status, Code
<1>8. \A b \in Sent : Status(b)' = Status(b)
  <2> SUFFICES ASSUME NEW b \in Sent PROVE answers'[b[1]][b[2]] = answers[b[1]][b[2]]
    BY DEF Status, Code
  <2>1. b[1] \in Calls /\ b[2] \in DOMAIN answers[b[1]]
    BY DEF Sent
  <2> QED
    BY <1>2, <1>4, <2>1, SMTT(30)
<1> QED
  BY <1>5, <1>6, <1>7, <1>8

\* Each class of statuses grows as its counter does.
LEMMA CountStep ==
  ASSUME IInv, SentInv, NEW c \in Calls \ BadEndpoint, NEW resp \in Codes \cup {None},
         NEW err \in (Errors \ {"canceled"}) \cup {None}, Conclude(c, resp, err),
         NEW code \in Nat, code = IF resp = None THEN 400 ELSE resp, ObserveStatusCode(code)
  PROVE  SentInv'
<1>a. PICK a : a = <<c, Len(answers[c]) + 1>>
  OBVIOUS
<1>1. /\ a \notin Sent /\ Sent' = Sent \cup {a} /\ Status(a)' = code
      /\ \A b \in Sent : Status(b)' = Status(b)
  BY <1>a, SentStep
<1>2. oks \in Nat /\ bads \in Nat /\ servErrs \in Nat
  BY DEF IInv, TypeOK
<1> DEFINE Oks == {b \in Sent : Status(b) <= 400}
           Bads == {b \in Sent : 400 < Status(b) /\ Status(b) <= 500}
           ServErrs == {b \in Sent : 500 < Status(b)}
<1>3. /\ IsFiniteSet(Oks) /\ IsFiniteSet(Bads) /\ IsFiniteSet(ServErrs)
      /\ a \notin Oks /\ a \notin Bads /\ a \notin ServErrs
  BY <1>1, FS_Subset DEF SentInv
<1>4. oks = Cardinality(Oks) /\ bads = Cardinality(Bads) /\ servErrs = Cardinality(ServErrs)
  BY DEF SentInv, ByStatus
<1>5. \/ Oks' = Oks \cup {a} /\ oks' = oks + 1
      \/ Oks' = Oks /\ oks' = oks
  BY <1>1 DEF ObserveStatusCode
<1>6. \/ Bads' = Bads \cup {a} /\ bads' = bads + 1
      \/ Bads' = Bads /\ bads' = bads
  BY <1>1 DEF ObserveStatusCode
<1>7. \/ ServErrs' = ServErrs \cup {a} /\ servErrs' = servErrs + 1
      \/ ServErrs' = ServErrs /\ servErrs' = servErrs
  BY <1>1 DEF ObserveStatusCode
<1> HIDE DEF Oks, Bads, ServErrs
<1>8. oks' = Cardinality(Oks') /\ bads' = Cardinality(Bads') /\ servErrs' = Cardinality(ServErrs')
  BY <1>2, <1>3, <1>4, <1>5, <1>6, <1>7, OneMore
<1>9. IsFiniteSet(Sent')
  BY <1>1, FS_AddElement DEF SentInv
<1> USE DEF Oks, Bads, ServErrs
<1> QED
  BY <1>8, <1>9 DEF SentInv, ByStatus

\* Nothing else sends or counts.
LEMMA SentNext == IInv /\ SentInv /\ [Next]_vars => SentInv'
<1> SUFFICES ASSUME IInv, SentInv, [Next]_vars PROVE SentInv'
  OBVIOUS
<1>1. ASSUME UNCHANGED <<answers, oks, bads, servErrs>> PROVE SentInv'
  <2>1. Sent' = Sent
    BY <1>1 DEF Sent
  <2>2. \A a : Status(a)' = Status(a)
    BY <1>1 DEF Status, Code
  <2> QED
    BY <1>1, <2>1, <2>2 DEF SentInv, ByStatus
<1>2. ASSUME NEW c \in Calls, Get(c) \/ SleepOrCtx(c) \/ Cancel(c) PROVE SentInv'
  BY <1>1, <1>2 DEF Get, SleepOrCtx, Wake, Interrupt, Cancel, callVars, counters
<1>3. ASSUME NEW c \in Calls, Invalid(c) PROVE SentInv'
  <2>1. /\ UNCHANGED <<oks, bads, servErrs>> /\ c \in BadEndpoint
        /\ \A q \in Calls \ BadEndpoint : answers'[q] = answers[q]
    BY <1>3 DEF Invalid, Conclude, counters, IInv, TypeOK
  <2>2. Sent' = Sent
    BY <2>1 DEF Sent
  <2>3. \A a \in Sent : Status(a)' = Status(a)
    BY <2>1 DEF Sent, Status, Code
  <2> QED
    BY <2>1, <2>2, <2>3 DEF SentInv, ByStatus
<1>4. ASSUME NEW c \in Calls, Respond(c) PROVE SentInv'
  <2>1. PICK code \in Codes :
          /\ Conclude(c, code, IF code \in RetryOnStatus THEN "status" ELSE None)
          /\ ObserveStatusCode(code)
    BY <1>4 DEF Respond
  <2>2. (IF code \in RetryOnStatus THEN "status" ELSE None) \in (Errors \ {"canceled"}) \cup {None}
    BY DEF Errors, NetErrors
  <2>3. c \in Calls \ BadEndpoint /\ code \in Nat /\ code # None
    BY <1>4 DEF Respond
  <2> QED
    BY <2>1, <2>2, <2>3, CountStep
<1>5. ASSUME NEW c \in Calls, Fail(c) PROVE SentInv'
  <2>1. PICK err \in {"broken", "timeout", "deadline"} : Conclude(c, None, err)
    BY <1>5 DEF Fail
  <2>2. err \in (Errors \ {"canceled"}) \cup {None} /\ None \in Codes \cup {None}
    BY DEF Errors, NetErrors
  <2>3. c \in Calls \ BadEndpoint /\ ObserveStatusCode(400) /\ 400 \in Nat
    BY <1>5 DEF Fail
  <2> QED
    BY <2>1, <2>2, <2>3, CountStep, ZenonT(40)
<1>6. CASE UNCHANGED vars
  BY <1>1, <1>6 DEF vars, callVars, counters
<1> QED
  BY <1>2, <1>3, <1>4, <1>5, <1>6 DEF Next, Attempt

\* What is counted by status is counted once, and the error statuses by what was answered.
LEMMA CountedOnce == IInv /\ SentInv => Accounted
<1> SUFFICES ASSUME IInv, SentInv PROVE Accounted
  OBVIOUS
<1> DEFINE Oks == {a \in Sent : Status(a) <= 400}
           Bads == {a \in Sent : 400 < Status(a) /\ Status(a) <= 500}
           ServErrs == {a \in Sent : 500 < Status(a)}
<1>1. ASSUME NEW a \in Sent PROVE Code(a) \in Codes \cup {None} /\ Status(a) \in Nat
  <2>1. a[1] \in Calls /\ a[2] \in DOMAIN answers[a[1]]
    BY DEF Sent
  <2>2. answers[a[1]] \in Seq(Result)
    BY <2>1 DEF IInv, TypeOK
  <2>3. answers[a[1]][a[2]] \in Result
    BY <2>1, <2>2
  <2>4. Code(a) \in Codes \cup {None}
    BY <2>3 DEF Code, Result
  <2>5. Codes \subseteq Nat /\ 400 \in Nat
    BY HttpAssumption
  <2>6. CASE Code(a) = None
    BY <2>4, <2>5, <2>6 DEF Status
  <2>7. CASE Code(a) # None
    <3>1. Status(a) = Code(a)
      BY <2>7, Zenon DEF Status
    <3> QED
      BY <2>4, <2>5, <2>7, <3>1
  <2> QED
    BY <2>6, <2>7
<1>2. /\ Bads = {a \in Sent : Code(a) # None /\ 400 < Code(a) /\ Code(a) <= 500}
      /\ ServErrs = {a \in Sent : Code(a) # None /\ 500 < Code(a)}
  BY <1>1 DEF Status
<1>3. /\ Sent = (Oks \cup Bads) \cup ServErrs
      /\ Oks \cap Bads = {} /\ (Oks \cup Bads) \cap ServErrs = {}
  BY <1>1
<1>4. /\ oks = Cardinality(Oks) /\ bads = Cardinality(Bads)
      /\ servErrs = Cardinality(ServErrs) /\ IsFiniteSet(Sent)
  BY DEF SentInv, ByStatus
<1>5. oks \in Nat /\ bads \in Nat /\ servErrs \in Nat
  BY DEF IInv, TypeOK
<1>6. IsFiniteSet(Oks) /\ IsFiniteSet(Bads) /\ IsFiniteSet(ServErrs)
  BY <1>4, FS_Subset
<1> HIDE DEF Oks, Bads, ServErrs
<1>7. IsFiniteSet(Oks \cup Bads) /\ Cardinality(Oks \cup Bads) = oks + bads
  <2>1. Cardinality(Oks \cap Bads) = 0
    BY <1>3, FS_EmptySet
  <2>2. /\ IsFiniteSet(Oks \cup Bads)
        /\ Cardinality(Oks \cup Bads) =
             Cardinality(Oks) + Cardinality(Bads) - Cardinality(Oks \cap Bads)
    BY <1>6, FS_Union
  <2> QED
    BY <1>4, <1>5, <2>1, <2>2
<1>8. Cardinality(Sent) = oks + bads + servErrs
  <2> DEFINE Rest == Oks \cup Bads
  <2>1. Cardinality(Rest \cap ServErrs) = 0
    BY <1>3, FS_EmptySet
  <2>2. IsFiniteSet(Rest) /\ Cardinality(Rest) = oks + bads /\ Sent = Rest \cup ServErrs
    BY <1>3, <1>7
  <2> HIDE DEF Rest
  <2>3. Cardinality(Rest \cup ServErrs) =
             Cardinality(Rest) + Cardinality(ServErrs) - Cardinality(Rest \cap ServErrs)
    BY <1>6, <2>2, FS_Union
  <2> QED
    BY <1>4, <1>5, <2>1, <2>2, <2>3
<1> QED
  BY <1>2, <1>4, <1>8 DEF Accounted

\* Whatever calls run at once, their attempts are counted once, an error status by its class.
THEOREM Counting == Spec => []Accounted
<1>1. Init => SentInv
  <2> SUFFICES ASSUME Init PROVE SentInv
    OBVIOUS
  <2>1. Sent = {}
    BY DEF Init, Sent
  <2> QED
    BY <2>1, FS_EmptySet DEF Init, SentInv, ByStatus
<1> QED
  BY <1>1, CountedOnce, SentNext, HttpInvariance, PTL DEF Spec

=============================================================================
