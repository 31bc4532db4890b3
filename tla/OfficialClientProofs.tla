------------------------- MODULE OfficialClientProofs -------------------------
(***************************************************************************)
(* The invariants of AdaptiveConcurrency and of the client that uses it,   *)
(* for every finite set of threads, every ceiling, all delays and answers. *)
(* ControllerInv is inductive for the controller alone: an admission needs *)
(* the limit to be in range to keep the requests in flight bounded, and    *)
(* the count of active requests to be exact to know how many they are.     *)
(* ClientInv adds where in its get each thread is: a permit is out for the *)
(* threads between admission and the end of the attempt, the pacing mutex  *)
(* is held by the one that sleeps, and nothing is due before the longest   *)
(* deferral.                                                               *)
(***************************************************************************)
EXTENDS OfficialClient, BrowserTransport, FiniteSetTheorems, SequenceTheorems, TLAPS

-----------------------------------------------------------------------------
(* The controller alone: threads acquire, finish and drop as they like *)

ControllerInv ==
  /\ ControllerTypeOK
  /\ CountsPermits
  /\ LimitInRange
  /\ NoStoredCredit
  /\ NoLostWakeup
  /\ active <= WorkerCeiling

\* (limit / 2).max(1) of a positive limit lies between 1 and the limit.
LEMMA HalfInRange ==
  ASSUME NEW n \in Nat, 1 <= n
  PROVE  Half(n) \in Nat /\ 1 <= Half(n) /\ Half(n) <= n
BY DEF Half, Greater

\* A set of threads is finite, and its size is a number.
LEMMA FiniteThreads ==
  ASSUME NEW S \in SUBSET Threads
  PROVE  IsFiniteSet(S) /\ Cardinality(S) \in Nat
BY FS_Subset, FS_CardinalityType, ControllerConstants DEF ControllerConstants

\* The controller starts in its invariant.
LEMMA ControllerStarts == ControllerInit => ControllerInv
<1> SUFFICES ASSUME ControllerInit PROVE ControllerInv
  OBVIOUS
<1>1. Cardinality(holding) = 0
  BY FS_EmptySet DEF ControllerInit
<1>2. QED
  BY <1>1, ControllerConstants
  DEF ControllerConstants, ControllerInit, ControllerInv, ControllerTypeOK, CountsPermits,
      LimitInRange, NoStoredCredit, NoLostWakeup

\* Admission takes one of the free permits.
LEMMA AcquireKeeps ==
  ASSUME ControllerInv, NEW t \in Threads, Acquire(t)
  PROVE  ControllerInv'
<1>1. IsFiniteSet(holding)
  BY FiniteThreads DEF ControllerInv, ControllerTypeOK
<1>2. Cardinality(holding') = Cardinality(holding) + 1
  BY <1>1, FS_AddElement DEF Acquire
<1>3. CountsPermits'
  BY <1>2 DEF ControllerInv, CountsPermits, Acquire
<1>4. ControllerTypeOK' /\ LimitInRange' /\ NoStoredCredit'
  BY DEF ControllerInv, ControllerTypeOK, LimitInRange, NoStoredCredit, Acquire
<1>5. active' <= WorkerCeiling
  BY ControllerConstants
  DEF ControllerConstants, ControllerInv, ControllerTypeOK, LimitInRange, Acquire
<1>6. NoLostWakeup'
  BY DEF ControllerInv, ControllerTypeOK, NoLostWakeup, Acquire
<1>7. QED
  BY <1>3, <1>4, <1>5, <1>6 DEF ControllerInv

\* A thread goes to sleep only when there is no capacity.
LEMMA WaitKeeps ==
  ASSUME ControllerInv, NEW t \in Threads, Wait(t)
  PROVE  ControllerInv'
BY DEF ControllerInv, ControllerTypeOK, CountsPermits, LimitInRange, NoStoredCredit,
       NoLostWakeup, Wait

\* Giving a permit back keeps the count exact; it cannot go below zero.
LEMMA GiveBackCounts ==
  ASSUME ControllerInv, NEW t \in Threads, GiveBack(t)
  PROVE  /\ holding' \subseteq Threads
         /\ active' \in Nat
         /\ active' = Cardinality(holding')
         /\ active' = active - 1
         /\ active' <= WorkerCeiling
<1>1. IsFiniteSet(holding) /\ Cardinality(holding) \in Nat
  BY FiniteThreads DEF ControllerInv, ControllerTypeOK
<1>2. Cardinality(holding') = Cardinality(holding) - 1
  BY <1>1, FS_RemoveElement DEF GiveBack
<1>3. Cardinality(holding') \in Nat
  BY FiniteThreads DEF ControllerInv, ControllerTypeOK, GiveBack
<1>4. active = Cardinality(holding)
  BY DEF ControllerInv, CountsPermits
<1>5. active' = active - 1
  BY <1>1, <1>2, <1>3, <1>4 DEF GiveBack
<1>6. QED
  BY <1>1, <1>2, <1>3, <1>4, <1>5, ControllerConstants
  DEF ControllerConstants, ControllerInv, ControllerTypeOK, GiveBack

\* Whatever the outcome teaches, the limit stays in range and no credit is stored.
LEMMA LearnKeeps ==
  ASSUME ControllerInv, NEW outcome \in Outcomes, NEW delay \in Delays, Learn(outcome, delay)
  PROVE  /\ limit' \in Nat /\ ceiling' \in Nat /\ successes' \in Nat /\ episode' \in Nat
         /\ LimitInRange'
         /\ NoStoredCredit'
<1> USE DEF ControllerInv, ControllerTypeOK, LimitInRange, NoStoredCredit
<1>1. WorkerCeiling \in Nat /\ delay \in Nat
  BY ControllerConstants DEF ControllerConstants
<1>2. CASE Succeed
  BY <1>1, <1>2 DEF Succeed
<1>3. CASE UNCHANGED <<limit, ceiling, successes, episode>>
  BY <1>1, <1>3
<1>4. CASE BackOff
  BY <1>1, <1>4, HalfInRange DEF BackOff
<1>5. CASE Congest(delay)
  BY <1>1, <1>5, HalfInRange DEF Congest, Lesser, Greater
<1>6. QED
  BY <1>2, <1>3, <1>4, <1>5 DEF Learn

LEMMA FinishKeeps ==
  ASSUME ControllerInv, NEW t \in Threads, NEW outcome \in Outcomes, NEW delay \in Delays,
         Finish(t, outcome, delay)
  PROVE  ControllerInv'
<1>1. GiveBack(t) /\ Learn(outcome, delay) /\ waiting' = {}
  BY DEF Finish, NotifyAll
<1>2. /\ holding' \subseteq Threads /\ active' \in Nat
      /\ active' = Cardinality(holding') /\ active' <= WorkerCeiling
  BY <1>1, GiveBackCounts
<1>3. /\ limit' \in Nat /\ ceiling' \in Nat /\ successes' \in Nat /\ episode' \in Nat
      /\ LimitInRange' /\ NoStoredCredit'
  BY <1>1, LearnKeeps
<1>4. QED
  BY <1>1, <1>2, <1>3 DEF ControllerInv, ControllerTypeOK, CountsPermits, NoLostWakeup

LEMMA DropKeeps ==
  ASSUME ControllerInv, NEW t \in Threads, Drop(t)
  PROVE  ControllerInv'
<1>1. /\ holding' \subseteq Threads /\ active' \in Nat
      /\ active' = Cardinality(holding') /\ active' <= WorkerCeiling
  BY GiveBackCounts DEF Drop
<1>2. QED
  BY <1>1 DEF ControllerInv, ControllerTypeOK, CountsPermits, LimitInRange, NoStoredCredit,
              NoLostWakeup, Drop, NotifyAll

LEMMA ElapseKeeps == ControllerInv /\ Elapse => ControllerInv'
BY DEF ControllerInv, ControllerTypeOK, CountsPermits, LimitInRange, NoStoredCredit,
       NoLostWakeup, Elapse

\* The invariant holds in every reachable state of the controller.
THEOREM ControllerCorrect == ControllerSpec => []ControllerInv
<1>1. ControllerInit => ControllerInv
  BY ControllerStarts
<1>2. ControllerInv /\ [ControllerNext]_controller => ControllerInv'
  <2> SUFFICES ASSUME ControllerInv, [ControllerNext]_controller PROVE ControllerInv'
    OBVIOUS
  <2>1. ASSUME NEW t \in Threads, Step(t) PROVE ControllerInv'
    <3>1. CASE Acquire(t)
      BY <3>1, AcquireKeeps
    <3>2. CASE Wait(t)
      BY <3>2, WaitKeeps
    <3>3. CASE \E outcome \in Outcomes, delay \in Delays : Finish(t, outcome, delay)
      BY <3>3, FinishKeeps
    <3>4. CASE Drop(t)
      BY <3>4, DropKeeps
    <3>5. QED
      BY <2>1, <3>1, <3>2, <3>3, <3>4 DEF Step
  <2>2. CASE Elapse
    BY <2>2, ElapseKeeps
  <2>3. CASE UNCHANGED controller
    BY <2>3 DEF controller, ControllerInv, ControllerTypeOK, CountsPermits, LimitInRange,
                NoStoredCredit, NoLostWakeup
  <2>4. QED
    BY <2>1, <2>2, <2>3 DEF ControllerNext
<1>3. QED
  BY <1>1, <1>2, PTL DEF ControllerSpec

\* Every reachable state of the controller is well typed: the counters stay
\* within their bounds and permits belong to threads (adaptive_http.rs AdaptiveState).
THEOREM ControllerTypeCorrect == ControllerSpec => []ControllerTypeOK
<1>1. ControllerInv => ControllerTypeOK
  BY DEF ControllerInv
<1>2. QED
  BY <1>1, ControllerCorrect, PTL

\* However the permits of any number of threads are finished or dropped, the
\* count of active requests stays exact, and the source never sees more
\* requests than the ceiling.
THEOREM InFlightAlwaysBounded == ControllerSpec => [](CountsPermits /\ InFlightBounded)
<1>1. ControllerInv => CountsPermits /\ InFlightBounded
  BY DEF ControllerInv, CountsPermits, InFlightBounded
<1>2. QED
  BY <1>1, ControllerCorrect, PTL

\* The limit stays between one and the learned ceiling.
THEOREM LimitAlwaysInRange == ControllerSpec => []LimitInRange
<1>1. ControllerInv => LimitInRange
  BY DEF ControllerInv
<1>2. QED
  BY <1>1, ControllerCorrect, PTL

\* A cut is never undone by successes counted before it.
THEOREM NoCreditAcrossCuts == ControllerSpec => []NoStoredCredit
<1>1. ControllerInv => NoStoredCredit
  BY DEF ControllerInv
<1>2. QED
  BY <1>1, ControllerCorrect, PTL

\* No thread sleeps on the condition variable while a permit is free.
THEOREM WaitersAreWoken == ControllerSpec => []NoLostWakeup
<1>1. ControllerInv => NoLostWakeup
  BY DEF ControllerInv
<1>2. QED
  BY <1>1, ControllerCorrect, PTL

-----------------------------------------------------------------------------
(* The client: gets of threads, on the controller *)

Phases == {"idle", "admission", "paced", "sleeping", "sent", "deferring", "finishing"}

\* Where a get has its permit.
Permitted == {"paced", "sleeping", "sent", "deferring", "finishing"}

ClientTypes ==
  /\ phase \in [Threads -> Phases]
  /\ attempt \in [Threads -> 0..(RateAttempts - 1)]
  /\ redirects \in [Threads -> 0..MaxRedirects]
  /\ left \in [Threads -> 0..Gets]
  /\ answer \in [Threads -> [kind : AllAnswers, delay : Nat]]
  /\ slot \in Threads \cup {NoThread}
  /\ next \in Nat /\ quiet \in Nat

\* What the controller and the pacing mutex are to a thread, by where it is in its get.
Placed(t) ==
  /\ t \in holding <=> phase[t] \in Permitted
  /\ t \in waiting => phase[t] = "admission"
  /\ slot = t <=> phase[t] = "sleeping"
  /\ phase[t] \in {"deferring", "finishing"} => answer[t].delay \in Delays

ClientInv ==
  /\ ControllerInv
  /\ ClientTypes
  /\ \A t \in Threads : Placed(t)
  /\ quiet <= next

LEMMA ClientStarts == ClientInit => ClientInv
BY ControllerStarts, ClientConstants
DEF ClientInit, ControllerInit, ClientInv, ClientTypes, Placed, Phases, Permitted, Pending, AllAnswers

\* What a step of one thread may do to the others.
LEMMA OthersPlaced ==
  ASSUME ClientInv, NEW t \in Threads, Placed(t)',
         \A u \in Threads \ {t} :
           /\ phase'[u] = phase[u] /\ answer'[u] = answer[u]
           /\ u \in holding' <=> u \in holding
           /\ u \in waiting' => u \in waiting
           /\ slot' = u <=> slot = u
  PROVE  \A u \in Threads : Placed(u)'
<1> SUFFICES ASSUME NEW u \in Threads
             PROVE  Placed(u)'
  OBVIOUS
<1>1. CASE u = t
  BY <1>1
<1>2. CASE u # t
  BY <1>2 DEF ClientInv, Placed
<1> QED
  BY <1>1, <1>2

\* A step of a get before it is sent: the permit is acquired, or waited for, and not given back.
LEMMA AskingKeeps ==
  ASSUME ClientInv, NEW t \in Threads,
         StartGet(t) \/ Admit(t) \/ Queue(t) \/ TakeSlot(t) \/ Issue(t)
  PROVE  ClientInv' /\ [ControllerNext]_controller
<1> USE ClientConstants DEF To, pacing, clientVars
<1>1. [ControllerNext]_controller
  BY DEF StartGet, Admit, Queue, TakeSlot, Issue, ControllerNext, Step
<1>2. ControllerInv'
  <2>1. UNCHANGED controller => ControllerInv'
    BY DEF ClientInv, controller, ControllerInv, ControllerTypeOK, CountsPermits, LimitInRange,
           NoStoredCredit, NoLostWakeup
  <2> QED
    BY <2>1, AcquireKeeps, WaitKeeps DEF ClientInv, StartGet, Admit, Queue, TakeSlot, Issue
<1>3. ClientTypes'
  BY DEF ClientInv, ClientTypes, StartGet, Admit, Queue, TakeSlot, Issue, Phases, Greater
<1>4. quiet' <= next'
  BY DEF ClientInv, ClientTypes, StartGet, Admit, Queue, TakeSlot, Issue, Greater
<1>5. \A u \in Threads : Placed(u)'
  <2>1. Placed(t)'
    BY DEF ClientInv, ClientTypes, Placed, StartGet, Admit, Queue, TakeSlot, Issue, Phases, Permitted,
           Acquire, Wait, controller
  <2>2. ASSUME NEW u \in Threads \ {t}
        PROVE  /\ phase'[u] = phase[u] /\ answer'[u] = answer[u]
               /\ u \in holding' <=> u \in holding
               /\ u \in waiting' => u \in waiting
               /\ slot' = u <=> slot = u
    BY DEF ClientInv, ClientTypes, Placed, StartGet, Admit, Queue, TakeSlot, Issue, Acquire, Wait,
           controller
  <2> QED
    BY <2>1, <2>2, OthersPlaced
<1> QED
  BY <1>1, <1>2, <1>3, <1>4, <1>5 DEF ClientInv

\* An outcome that is not congestion teaches the same whatever the delay.
LEMMA FinishesAsStep ==
  ASSUME NEW t \in Threads, NEW outcome \in Outcomes, NEW delay, Finish(t, outcome, delay),
         outcome = "congestion" => delay \in Delays
  PROVE  \E d \in Delays : Finish(t, outcome, d)
<1>1. PICK d \in Delays : outcome = "congestion" => d = delay
  BY ClientConstants
<1>2. Learn(outcome, d)
  BY <1>1 DEF Finish, Learn
<1> QED
  BY <1>1, <1>2 DEF Finish

\* The end of an attempt: the permit is given back, and everybody who waited is woken.
LEMMA EndingKeeps ==
  ASSUME ClientInv, NEW t \in Threads, phase[t] \in {"sent", "finishing"}, GiveBack(t), NotifyAll,
         ControllerInv', NEW p \in {"idle", "admission"}, To(t, p), UNCHANGED <<left, pacing>>,
         attempt' \in [Threads -> 0..(RateAttempts - 1)],
         redirects' \in [Threads -> 0..MaxRedirects],
         answer' = answer \/ answer' = [answer EXCEPT ![t] = Pending]
  PROVE  ClientInv'
<1> USE ClientConstants DEF To, pacing
<1>1. ClientTypes'
  <2>1. Pending \in [kind : AllAnswers, delay : Nat]
    BY DEF Pending, AllAnswers
  <2>2. answer' \in [Threads -> [kind : AllAnswers, delay : Nat]]
    BY <2>1 DEF ClientInv, ClientTypes
  <2>3. phase' \in [Threads -> Phases]
    BY DEF ClientInv, ClientTypes, Phases
  <2> QED
    BY <2>2, <2>3 DEF ClientInv, ClientTypes
<1>2. Placed(t)'
  BY DEF ClientInv, ClientTypes, Placed, GiveBack, NotifyAll, Permitted
<1>3. ASSUME NEW u \in Threads \ {t}
      PROVE  /\ phase'[u] = phase[u] /\ answer'[u] = answer[u]
             /\ u \in holding' <=> u \in holding
             /\ u \in waiting' => u \in waiting
             /\ slot' = u <=> slot = u
  BY DEF ClientInv, ClientTypes, GiveBack, NotifyAll
<1>4. \A u \in Threads : Placed(u)'
  BY <1>2, <1>3, OthersPlaced
<1>5. quiet' <= next'
  BY DEF ClientInv
<1> QED
  BY <1>1, <1>4, <1>5 DEF ClientInv

LEMMA ReturnKeeps ==
  ASSUME ClientInv, NEW t \in Threads, NEW kind \in Answers, Return(t, kind)
  PROVE  ClientInv' /\ [ControllerNext]_controller
<1>1. LastOutcome(kind) \in Outcomes \ {"congestion"}
  BY DEF LastOutcome, Outcomes
<1>2. PICK d \in Delays : Finish(t, LastOutcome(kind), d)
  BY <1>1, FinishesAsStep DEF Return
<1>3. ControllerInv'
  BY <1>1, <1>2, FinishKeeps DEF ClientInv
<1>4. /\ phase[t] = "sent" /\ GiveBack(t) /\ NotifyAll /\ To(t, "idle")
      /\ UNCHANGED <<attempt, redirects, left, answer, pacing>>
  BY DEF Return, Finish
<1>5. /\ attempt' \in [Threads -> 0..(RateAttempts - 1)]
      /\ redirects' \in [Threads -> 0..MaxRedirects]
  BY <1>4 DEF ClientInv, ClientTypes
<1>6. ClientInv'
  BY <1>3, <1>4, <1>5, EndingKeeps
<1> QED
  BY <1>1, <1>2, <1>6 DEF ControllerNext, Step

LEMMA RedirectKeeps ==
  ASSUME ClientInv, NEW t \in Threads, FollowRedirect(t)
  PROVE  ClientInv' /\ [ControllerNext]_controller
<1>1. PICK d \in Delays : Finish(t, "success", d)
  BY FinishesAsStep DEF FollowRedirect, Outcomes
<1>2. ControllerInv'
  BY <1>1, FinishKeeps DEF ClientInv, Outcomes
<1>3. /\ attempt' \in [Threads -> 0..(RateAttempts - 1)]
      /\ redirects' \in [Threads -> 0..MaxRedirects]
  BY ClientConstants DEF FollowRedirect, ClientInv, ClientTypes
<1>4. \E p \in {"idle", "admission"} : To(t, p)
  BY DEF FollowRedirect
<1>5. ClientInv'
  BY <1>2, <1>3, <1>4, EndingKeeps DEF FollowRedirect, Finish
<1> QED
  BY <1>1, <1>5 DEF ControllerNext, Step, Outcomes

LEMMA AbandonKeeps ==
  ASSUME ClientInv, NEW t \in Threads, Abandon(t)
  PROVE  ClientInv' /\ [ControllerNext]_controller
<1>1. ControllerInv'
  BY DropKeeps DEF ClientInv, Abandon
<1>2. ClientInv'
  BY <1>1, EndingKeeps DEF Abandon, Drop, ClientInv, ClientTypes
<1> QED
  BY <1>2 DEF Abandon, ControllerNext, Step

LEMMA FinishAttemptKeeps ==
  ASSUME ClientInv, NEW t \in Threads, FinishAttempt(t)
  PROVE  ClientInv' /\ [ControllerNext]_controller
<1> DEFINE outcome == RetryOutcome(answer[t].kind)
<1>1. outcome \in Outcomes /\ answer[t].delay \in Delays
  BY DEF RetryOutcome, Outcomes, FinishAttempt, ClientInv, Placed
<1>2. Finish(t, outcome, answer[t].delay)
  BY DEF FinishAttempt
<1>3. ControllerInv'
  BY <1>1, <1>2, FinishKeeps DEF ClientInv
<1>4. attempt' \in [Threads -> 0..(RateAttempts - 1)] /\ redirects' = redirects
  BY ClientConstants DEF FinishAttempt, ClientInv, ClientTypes
<1>5. \E p \in {"idle", "admission"} : To(t, p)
  BY DEF FinishAttempt
<1>6. ClientInv'
  BY <1>3, <1>4, <1>5, EndingKeeps DEF FinishAttempt, Finish, ClientInv, ClientTypes
<1> QED
  BY <1>1, <1>2, <1>6 DEF ControllerNext, Step

\* Deferring: what was due later stays so.
LEMMA DeferringKeeps ==
  ASSUME ClientInv, NEW t \in Threads,
         \/ \E kind \in Answers, delay \in Delays : ReceiveRetryable(t, kind, delay)
         \/ Defer(t)
  PROVE  ClientInv' /\ [ControllerNext]_controller
<1> USE ClientConstants, ControllerConstants DEF To, pacing
<1>1. UNCHANGED <<controller, attempt, redirects, left, slot>>
  BY DEF ReceiveRetryable, Defer
<1>2. ControllerInv'
  BY <1>1 DEF ClientInv, controller, ControllerInv, ControllerTypeOK, CountsPermits, LimitInRange,
              NoStoredCredit, NoLostWakeup
<1>3. ClientTypes' /\ quiet' <= next'
  <2>1. CASE Defer(t)
    <3>1. answer[t].delay \in Nat /\ next \in Nat /\ quiet \in Nat /\ quiet <= next
      BY DEF ClientInv, ClientTypes
    <3>2. next' \in Nat /\ quiet' \in Nat /\ quiet' <= next'
      BY <2>1, <3>1 DEF Defer, Greater
    <3> QED
      BY <2>1, <3>2 DEF Defer, ClientInv, ClientTypes, Phases
  <2>2. ASSUME NEW kind \in Answers, NEW delay \in Delays, ReceiveRetryable(t, kind, delay)
        PROVE  ClientTypes' /\ quiet' <= next'
    <3>1. [kind |-> kind, delay |-> delay] \in [kind : AllAnswers, delay : Nat]
      OBVIOUS
    <3>2. answer' \in [Threads -> [kind : AllAnswers, delay : Nat]]
      BY <2>2, <3>1 DEF ClientInv, ClientTypes, ReceiveRetryable
    <3> QED
      BY <2>2, <3>2 DEF ClientInv, ClientTypes, ReceiveRetryable, Phases
  <2> QED
    BY <2>1, <2>2
<1>4. Placed(t)'
  BY <1>1 DEF ClientInv, ClientTypes, Placed, ReceiveRetryable, Defer, Permitted, controller
<1>5. ASSUME NEW u \in Threads \ {t}
      PROVE  phase'[u] = phase[u] /\ answer'[u] = answer[u]
  BY DEF ClientInv, ClientTypes, ReceiveRetryable, Defer
<1>6. \A u \in Threads : Placed(u)'
  BY <1>1, <1>4, <1>5, OthersPlaced DEF controller
<1> QED
  BY <1>1, <1>2, <1>3, <1>6 DEF ClientInv

\* Time passes for the pacing and for the congestion episode alike.
LEMMA TickKeeps ==
  ASSUME ClientInv, Tick
  PROVE  ClientInv' /\ [ControllerNext]_controller
<1>1. Elapse \/ UNCHANGED controller
  BY DEF Tick, Less, Elapse, controller, ClientInv, ControllerInv, ControllerTypeOK
<1>2. ControllerInv'
  <2>1. UNCHANGED controller => ControllerInv'
    BY DEF ClientInv, controller, ControllerInv, ControllerTypeOK, CountsPermits, LimitInRange,
           NoStoredCredit, NoLostWakeup
  <2> QED
    BY <1>1, <2>1, ElapseKeeps DEF ClientInv
<1>3. ClientTypes' /\ quiet' <= next'
  BY DEF ClientInv, ClientTypes, Tick, Less
<1>4. \A u \in Threads : Placed(u)'
  BY DEF ClientInv, Placed, Tick
<1> QED
  BY <1>1, <1>2, <1>3, <1>4 DEF ClientInv, ControllerNext

LEMMA ClientStep == ClientInv /\ [ClientNext]_vars => ClientInv' /\ [ControllerNext]_controller
<1> SUFFICES ASSUME ClientInv, [ClientNext]_vars
             PROVE  ClientInv' /\ [ControllerNext]_controller
  OBVIOUS
<1>1. ASSUME NEW t \in Threads, StartGet(t) \/ GetStep(t)
      PROVE  ClientInv' /\ [ControllerNext]_controller
  BY <1>1, AskingKeeps, ReturnKeeps, RedirectKeeps, AbandonKeeps, DeferringKeeps,
     FinishAttemptKeeps DEF GetStep
<1>2. CASE UNCHANGED vars
  <2>1. UNCHANGED <<controller, phase, attempt, redirects, left, answer, slot, next, quiet>>
    BY <1>2 DEF vars, clientVars, pacing
  <2>2. ControllerInv'
    BY <2>1 DEF ClientInv, controller, ControllerInv, ControllerTypeOK, CountsPermits, LimitInRange,
                NoStoredCredit, NoLostWakeup
  <2> QED
    BY <2>1, <2>2 DEF ClientInv, ClientTypes, Placed, controller
<1> QED
  BY <1>1, <1>2, TickKeeps DEF ClientNext

LEMMA ClientInvHolds == ClientSpec => []ClientInv
<1>1. ClientInv /\ [ClientNext]_vars => ClientInv'
  BY ClientStep
<1> QED
  BY <1>1, ClientStarts, PTL DEF ClientSpec

\* The client uses the controller as it is meant to be used: each of its steps is one of the
\* controller or none, also where an answer that ends the get comes with no delay.
THEOREM ClientUsesController == ClientSpec => ControllerSpec
<1>1. ClientInit => ControllerInit
  BY DEF ClientInit
<1>2. ClientInv /\ [ClientNext]_vars => [ControllerNext]_controller
  BY ClientStep
<1> QED
  BY <1>1, <1>2, ClientInvHolds, PTL DEF ClientSpec, ControllerSpec

\* No request is issued before the longest of the deferrals and the pacing interval have passed,
\* whichever threads recorded them and in whatever order.
THEOREM NeverTooEarly == ClientSpec => NoEarlyRequest
<1>1. ClientInv /\ [ClientNext]_vars =>
        [\A t \in Threads : phase[t] = "sleeping" /\ phase'[t] = "sent" => quiet = 0]_vars
  <2> SUFFICES ASSUME ClientInv, ClientNext, NEW t \in Threads, phase[t] = "sleeping", phase'[t] = "sent"
               PROVE  quiet = 0
    OBVIOUS
  <2>1. ASSUME NEW u \in Threads, StartGet(u) \/ GetStep(u), u # t
        PROVE  phase'[t] = phase[t]
    BY <2>1 DEF ClientInv, ClientTypes, StartGet, GetStep, Admit, Queue, TakeSlot, Issue, Return,
                FollowRedirect, Abandon, ReceiveRetryable, Defer, FinishAttempt, To, clientVars
  <2>2. StartGet(t) \/ GetStep(t)
    BY <2>1 DEF ClientNext, Tick
  <2>3. next = 0
    BY <2>2 DEF ClientInv, ClientTypes, StartGet, GetStep, Admit, Queue, TakeSlot, Issue, Return,
                FollowRedirect, Abandon, ReceiveRetryable, Defer, FinishAttempt, To, clientVars
  <2> QED
    BY <2>3 DEF ClientInv, ClientTypes
<1> QED
  BY <1>1, ClientInvHolds, PTL DEF ClientSpec, NoEarlyRequest

\* A get has one permit from its admission to the end of the attempt, and the pacing mutex only
\* while it sleeps for its turn: on no path is either kept or given back by another thread.
PermitsFollowGets ==
  \A t \in Threads :
    /\ t \in holding <=> phase[t] \in Permitted
    /\ slot = t <=> phase[t] = "sleeping"

\* No permit is kept after its get, and none is given back by another thread.
THEOREM PermitsAlwaysFollowGets == ClientSpec => []PermitsFollowGets
<1>1. ClientInv => PermitsFollowGets
  BY DEF ClientInv, Placed, PermitsFollowGets
<1> QED
  BY <1>1, ClientInvHolds, PTL

\* What was proved of the controller alone holds among the gets of the client.
THEOREM ClientKeepsController ==
  ClientSpec => [](InFlightBounded /\ LimitInRange /\ NoStoredCredit /\ NoLostWakeup)
<1>1. ClientInv => InFlightBounded /\ LimitInRange /\ NoStoredCredit /\ NoLostWakeup
  BY DEF ClientInv, ControllerInv, CountsPermits, InFlightBounded
<1> QED
  BY <1>1, ClientInvHolds, PTL
-----------------------------------------------------------------------------
(* The browser that a transport of last resort drives.  BrowserInv says     *)
(* which caller has which tab, that none is lost, and that what a caller     *)
(* expects, has met as a challenge or answers with is a url that its own     *)
(* redirects lead to.                                                        *)

\* The callers that have a tab.
InHands == {"navigate", "loop", "failed", "give"}
Held == {c \in Callers : caller[c].pc \in InHands}

\* A url that some way of at most so many redirects leads to.
Within(url, n, to) == \E m \in 0 .. n : to \in Led(url, m)

BrowserTypeOK ==
  /\ redirect \in [Urls -> Urls \cup {NoUrl, Outside}]
  /\ pool \in Seq(Tabs)
  /\ DOMAIN caller = Callers

CallerAt(c) ==
  \/ caller[c] = Unused
  \/ caller[c] \in [pc : {"wait"}, url : Urls]
  \/ caller[c] \in [pc : {"navigate", "failed"}, url : Urls, tab : Tabs]
  \/ /\ caller[c] \in [pc : {"loop"}, url : Urls, tab : Tabs, expected : Urls,
                       redirects : 0 .. MaxBrowserRedirects, challenge : Urls \cup {NoUrl}]
     /\ caller[c].expected \in Led(caller[c].url, caller[c].redirects)
     /\ caller[c].challenge # NoUrl => Within(caller[c].url, MaxBrowserRedirects, caller[c].challenge)
  \/ /\ caller[c] \in [pc : {"give"}, url : Urls, tab : Tabs, answer : Urls \cup {NoUrl}]
     /\ caller[c].answer # NoUrl => Within(caller[c].url, MaxBrowserRedirects, caller[c].answer)

TabsKept ==
  /\ Len(pool) + Cardinality(Held) = Cardinality(Tabs)
  /\ Range(pool) \cup {caller[c].tab : c \in Held} = Tabs

BrowserInv ==
  /\ BrowserTypeOK
  /\ \A c \in Callers : CallerAt(c)
  /\ TabsKept

\* The sequence of a finite set has each of its elements once.
LEMMA SetAsSequence ==
  ASSUME NEW S, IsFiniteSet(S)
  PROVE  /\ SetToSeq(S) \in [1 .. Cardinality(S) -> S]
         /\ Range(SetToSeq(S)) = S
<1> DEFINE n == Cardinality(S)
<1>1. n \in Nat /\ ExistsBijection(1 .. n, S)
  BY FS_CardinalityType
<1>2. \E f \in [1 .. n -> S] : IsInjective(f)
  BY <1>1 DEF ExistsBijection, Bijection, Injection
<1>3. SetToSeq(S) \in [1 .. n -> S] /\ IsInjective(SetToSeq(S))
  BY <1>2 DEF SetToSeq
<1>4. Range(SetToSeq(S)) \subseteq S
  BY <1>3 DEF Range
<1>5. Cardinality(Range(SetToSeq(S))) = n
  <2> DEFINE f == SetToSeq(S)
  <2>1. IsFiniteSet(1 .. n) /\ Cardinality(1 .. n) = n
    BY <1>1, FS_Interval
  <2>2. f \in Bijection(1 .. n, Range(f))
    BY <1>3 DEF Bijection, Injection, Surjection, Range
  <2>3. ExistsBijection(1 .. n, Range(f))
    BY <2>2 DEF ExistsBijection
  <2>4. QED
    BY <2>1, <2>3, FS_Bijection
<1>6. QED
  BY <1>3, <1>4, <1>5, FS_Subset

\* A sequence without its last element.
LEMMA FrontOfSequence ==
  ASSUME NEW S, NEW s \in Seq(S), s # <<>>
  PROVE  /\ Len(s) \in Nat /\ Len(s) > 0
         /\ Last(s) \in S /\ Last(s) = s[Len(s)]
         /\ Front(s) \in Seq(S) /\ Len(Front(s)) = Len(s) - 1
         /\ \A i \in 1 .. Len(s) - 1 : Front(s)[i] = s[i]
<1>1. Len(s) \in Nat /\ Len(s) > 0
  OBVIOUS
<1>2. Last(s) \in S
  BY <1>1 DEF Last
<1>3. /\ Front(s) \in Seq(S) /\ Len(Front(s)) = Len(s) - 1
      /\ \A i \in 1 .. Len(s) - 1 : Front(s)[i] = s[i]
  <2> DEFINE n == Len(s) - 1
  <2>1. 1 \in Int /\ n \in Int /\ \A i \in 1 .. n : s[i] \in S
    BY <1>1
  <2>2. /\ SubSeq(s, 1, n) \in Seq(S)
        /\ Len(SubSeq(s, 1, n)) = IF 1 <= n THEN n - 1 + 1 ELSE 0
        /\ \A i \in 1 .. n - 1 + 1 : SubSeq(s, 1, n)[i] = s[1 + i - 1]
    BY <2>1, SubSeqProperties
  <2>3. n \in Nat /\ Len(s) = n + 1
    BY <1>1
  <2> DEFINE front == SubSeq(s, 1, n)
  <2>4. Front(s) = front
    BY DEF Front
  <2>5. front \in Seq(S) /\ Len(front) = n /\ \A i \in 1 .. n : front[i] = s[i]
    <3> HIDE DEF n
    <3>1. QED
      BY <2>2, <2>3
  <2>6. QED
    BY <2>4, <2>5
<1>5. QED
  BY <1>1, <1>2, <1>3 DEF Last

\* The set of the tabs' holders, and the way, are what they are made of.
LEMMA HeldFinite == IsFiniteSet(Held) /\ Cardinality(Held) \in Nat /\ Cardinality(Tabs) \in Nat
BY FS_Subset, FS_CardinalityType, BrowserConstants DEF Held

LEMMA BrowserStarts == BrowserInit => BrowserInv
<1> SUFFICES ASSUME BrowserInit PROVE BrowserInv
  OBVIOUS
<1>1. IsFiniteSet(Tabs) /\ Cardinality(Tabs) \in Nat
  BY BrowserConstants, FS_CardinalityType
<1>2. pool \in [1 .. Cardinality(Tabs) -> Tabs] /\ Range(pool) = Tabs
  BY <1>1, SetAsSequence DEF BrowserInit
<1>3. pool \in Seq(Tabs) /\ Len(pool) = Cardinality(Tabs)
  BY <1>1, <1>2
<1>4. Held = {}
  BY DEF Held, InHands, BrowserInit, Unused
<1>5. TabsKept
  BY <1>1, <1>2, <1>3, <1>4, FS_EmptySet DEF TabsKept
<1>6. BrowserTypeOK
  BY <1>3 DEF BrowserTypeOK, BrowserInit
<1>7. QED
  BY <1>5, <1>6 DEF BrowserInv, CallerAt, BrowserInit

\* A caller with a tab goes on with the same tab.
GoesOn(c) ==
  /\ DOMAIN caller' = Callers
  /\ \A d \in Callers \ {c} : caller'[d] = caller[d]
  /\ caller[c].pc \in InHands /\ caller'[c].pc \in InHands /\ caller'[c].tab = caller[c].tab
  /\ UNCHANGED <<redirect, pool>>

\* The court's redirects stay, and with them where they lead.
LEMMA WaysStay ==
  ASSUME UNCHANGED redirect
  PROVE  /\ \A u, n : Led(u, n)' = Led(u, n)
         /\ \A u, n, to : Within(u, n, to)' = Within(u, n, to)
BY DEF Within, Led, Way

\* A caller that does nothing is where it was: the court's redirects stay.
LEMMA OthersStay ==
  ASSUME NEW d \in Callers, CallerAt(d), caller'[d] = caller[d], redirect' = redirect
  PROVE  CallerAt(d)'
BY WaysStay DEF CallerAt

LEMMA GoesOnKeeps ==
  ASSUME BrowserInv, NEW c \in Callers, GoesOn(c), CallerAt(c)'
  PROVE  BrowserInv'
<1>2. DOMAIN caller = Callers /\ \A d \in Callers \ {c} : caller'[d] = caller[d]
  BY DEF GoesOn, BrowserInv, BrowserTypeOK
<1>3. Held' = Held /\ \A d \in Held : caller'[d].tab = caller[d].tab
  BY <1>2 DEF GoesOn, Held
<1>4. TabsKept'
  BY <1>3 DEF GoesOn, TabsKept, BrowserInv
<1>5. \A d \in Callers : CallerAt(d)'
  BY <1>2, OthersStay DEF BrowserInv, GoesOn
<1>6. BrowserTypeOK'
  BY DEF GoesOn, BrowserInv, BrowserTypeOK
<1>7. QED
  BY <1>4, <1>5, <1>6 DEF BrowserInv

\* What Chrome reports changes no caller and no redirect.
LEMMA PauseKeeps ==
  ASSUME BrowserInv, NEW t \in Tabs, NEW e \in Pauses(page[t].url), Pause(t, e)
  PROVE  BrowserInv'
<1>1. BrowserTypeOK'
  BY DEF Pause, BrowserInv, BrowserTypeOK
<1>2. \A c \in Callers : CallerAt(c)'
  BY OthersStay DEF Pause, BrowserInv
<1>3. TabsKept'
  BY DEF Pause, BrowserInv, TabsKept, Held
<1>4. QED
  BY <1>1, <1>2, <1>3 DEF BrowserInv

LEMMA GetKeeps ==
  ASSUME BrowserInv, NEW c \in Callers, NEW url \in Urls, Get(c, url)
  PROVE  BrowserInv'
<1>1. caller'[c] = [pc |-> "wait", url |-> url] /\ \A d \in Callers \ {c} : caller'[d] = caller[d]
  BY DEF BrowserInv, BrowserTypeOK, Get
<1>2. BrowserTypeOK'
  BY DEF BrowserInv, BrowserTypeOK, Get
<1>3. \A d \in Callers : CallerAt(d)'
  <2>1. CallerAt(c)'
    BY <1>1 DEF CallerAt
  <2>2. ASSUME NEW d \in Callers, d # c PROVE CallerAt(d)'
    BY <1>1, <2>2, OthersStay DEF BrowserInv, Get
  <2>3. QED
    BY <2>1, <2>2
<1>4. Held' = Held /\ \A d \in Held : caller'[d].tab = caller[d].tab
  BY <1>1 DEF Held, InHands, Get
<1>5. TabsKept'
  BY <1>4 DEF TabsKept, BrowserInv, Get
<1>6. QED
  BY <1>2, <1>3, <1>5 DEF BrowserInv

\* The last tab of the pool goes to the caller.
LEMMA TakeKeeps ==
  ASSUME BrowserInv, NEW c \in Callers, Take(c)
  PROVE  BrowserInv'
<1> DEFINE tab == Last(pool)
<1>1. /\ pool \in Seq(Tabs) /\ Len(pool) \in Nat /\ Len(pool) > 0
      /\ tab \in Tabs /\ tab = pool[Len(pool)]
      /\ pool' \in Seq(Tabs) /\ Len(pool') = Len(pool) - 1
      /\ \A i \in 1 .. Len(pool) - 1 : pool'[i] = pool[i]
  BY FrontOfSequence DEF BrowserInv, BrowserTypeOK, Take
<1>2. caller[c] \in [pc : {"wait"}, url : Urls]
  BY DEF BrowserInv, CallerAt, Take, Unused
<1>3. /\ caller'[c] = [pc |-> "navigate", url |-> caller[c].url, tab |-> tab]
      /\ \A d \in Callers \ {c} : caller'[d] = caller[d]
      /\ DOMAIN caller' = Callers
  BY DEF BrowserInv, BrowserTypeOK, Take
<1>4. BrowserTypeOK'
  BY <1>1, <1>3 DEF BrowserInv, BrowserTypeOK, Take
<1>5. \A d \in Callers : CallerAt(d)'
  <2>1. CallerAt(c)'
    BY <1>1, <1>2, <1>3 DEF CallerAt
  <2>2. ASSUME NEW d \in Callers, d # c PROVE CallerAt(d)'
    BY <1>3, <2>2, OthersStay DEF BrowserInv, Take
  <2>3. QED
    BY <2>1, <2>2
<1>6. Held' = Held \cup {c} /\ c \notin Held
  BY <1>2, <1>3 DEF Held, InHands
<1>7. Cardinality(Held') = Cardinality(Held) + 1
  BY <1>6, HeldFinite, FS_AddElement
<1>8. Range(pool') \cup {tab} = Range(pool)
  BY <1>1 DEF Range
<1>9. {caller'[d].tab : d \in Held'} = {caller[d].tab : d \in Held} \cup {tab}
  BY <1>3, <1>6 DEF Held
<1>10. TabsKept'
  <2>1. Range(pool') \cup {caller'[d].tab : d \in Held'} = Range(pool) \cup {caller[d].tab : d \in Held}
    BY <1>8, <1>9
  <2>2. Len(pool') + Cardinality(Held') = Len(pool) + Cardinality(Held)
    BY <1>1, <1>7, HeldFinite
  <2>3. QED
    BY <2>1, <2>2 DEF TabsKept, BrowserInv
<1>11. QED
  BY <1>4, <1>5, <1>10 DEF BrowserInv

\* The tab comes back behind the others.
LEMMA GiveKeeps ==
  ASSUME BrowserInv, NEW c \in Callers, Give(c)
  PROVE  BrowserInv'
<1> DEFINE tab == caller[c].tab
<1>1. tab \in Tabs
  BY DEF BrowserInv, CallerAt, Give, Unused
<1>2. /\ pool \in Seq(Tabs) /\ Len(pool) \in Nat
      /\ pool' \in Seq(Tabs) /\ Len(pool') = Len(pool) + 1
      /\ \A i \in 1 .. Len(pool) : pool'[i] = pool[i]
      /\ pool'[Len(pool) + 1] = tab
  BY <1>1 DEF BrowserInv, BrowserTypeOK, Give
<1>3. /\ caller'[c] = Unused
      /\ \A d \in Callers \ {c} : caller'[d] = caller[d]
      /\ DOMAIN caller' = Callers
  BY DEF BrowserInv, BrowserTypeOK, Give
<1>4. BrowserTypeOK'
  BY <1>2, <1>3 DEF BrowserInv, BrowserTypeOK, Give
<1>5. \A d \in Callers : CallerAt(d)'
  <2>1. CallerAt(c)'
    BY <1>3 DEF CallerAt
  <2>2. ASSUME NEW d \in Callers, d # c PROVE CallerAt(d)'
    BY <1>3, <2>2, OthersStay DEF BrowserInv, Give
  <2>3. QED
    BY <2>1, <2>2
<1>6. Held' = Held \ {c} /\ c \in Held
  BY <1>3 DEF Held, InHands, Give, Unused
<1>7. Cardinality(Held') = Cardinality(Held) - 1
  BY <1>6, HeldFinite, FS_RemoveElement
<1>8. Range(pool') = Range(pool) \cup {tab}
  BY <1>2 DEF Range
<1>9. {caller'[d].tab : d \in Held'} \cup {tab} = {caller[d].tab : d \in Held}
  BY <1>3, <1>6 DEF Held
<1>10. TabsKept'
  BY <1>2, <1>7, <1>8, <1>9, HeldFinite DEF TabsKept, BrowserInv
<1>11. QED
  BY <1>4, <1>5, <1>10 DEF BrowserInv

LEMMA NavigateKeeps ==
  ASSUME BrowserInv, NEW c \in Callers, Navigate(c)
  PROVE  BrowserInv'
<1>1. caller[c] \in [pc : {"navigate", "failed"}, url : Urls, tab : Tabs]
  BY DEF BrowserInv, CallerAt, Navigate, Unused
<1>2. caller'[c] = [pc |-> "loop", url |-> caller[c].url, tab |-> caller[c].tab,
                    expected |-> caller[c].url, redirects |-> 0, challenge |-> NoUrl]
  BY DEF BrowserInv, BrowserTypeOK, Navigate
<1>3. GoesOn(c)
  BY <1>1, <1>2 DEF GoesOn, InHands, Navigate, BrowserInv, BrowserTypeOK
<1>4. caller[c].url \in Led(caller[c].url, 0)
  <2> DEFINE url == caller[c].url
             way == [i \in 0 .. 0 |-> url]
  <2>1. url \in Urls
    BY <1>1
  <2>2. way \in Way(url, 0) /\ way[0] = url
    BY <2>1 DEF Way
  <2>3. QED
    BY <2>2 DEF Led
<1>5. CallerAt(c)'
  BY <1>1, <1>2, <1>4, WaysStay, BrowserConstants DEF CallerAt, BrowserConstants, Navigate
<1>6. QED
  BY <1>3, <1>5, GoesOnKeeps

\* A caller that looks at pauses is looking for what its url has led to.
LEMMA LoopingAt ==
  ASSUME BrowserInv, NEW c \in Callers, Looping(c)
  PROVE  /\ caller[c] \in [pc : {"loop"}, url : Urls, tab : Tabs, expected : Urls,
                           redirects : 0 .. MaxBrowserRedirects, challenge : Urls \cup {NoUrl}]
         /\ caller[c].expected \in Led(caller[c].url, caller[c].redirects)
         /\ caller[c].challenge # NoUrl =>
              Within(caller[c].url, MaxBrowserRedirects, caller[c].challenge)
BY DEF BrowserInv, CallerAt, Looping, Unused

LEMMA FailKeeps ==
  ASSUME BrowserInv, NEW c \in Callers, Looping(c), Fail(c), UNCHANGED <<redirect, pool>>
  PROVE  BrowserInv'
<1>1. caller'[c] = [pc |-> "failed", url |-> caller[c].url, tab |-> caller[c].tab]
  BY DEF Fail, BrowserInv, BrowserTypeOK
<1>2. GoesOn(c)
  BY <1>1, LoopingAt DEF GoesOn, InHands, Fail, Looping, BrowserInv, BrowserTypeOK
<1>3. CallerAt(c)'
  BY <1>1, LoopingAt DEF CallerAt
<1>4. QED
  BY <1>2, <1>3, GoesOnKeeps

\* A caller returns what its url has led to, or nothing.
LEMMA SettleKeeps ==
  ASSUME BrowserInv, NEW c \in Callers, NEW url \in Urls \cup {NoUrl}, Settle(c, url),
         caller[c].url \in Urls, caller[c].tab \in Tabs, caller[c].pc \in InHands,
         url # NoUrl => Within(caller[c].url, MaxBrowserRedirects, url),
         UNCHANGED <<redirect, pool>>
  PROVE  BrowserInv'
<1>1. caller'[c] = [pc |-> "give", url |-> caller[c].url, tab |-> caller[c].tab, answer |-> url]
  BY DEF Settle, BrowserInv, BrowserTypeOK
<1>2. GoesOn(c)
  BY <1>1 DEF GoesOn, InHands, Settle, BrowserInv, BrowserTypeOK
<1>4. CallerAt(c)'
  BY <1>1, WaysStay DEF CallerAt
<1>5. QED
  BY <1>2, <1>4, GoesOnKeeps

\* One redirect more.
LEMMA WayGoesOn ==
  ASSUME NEW url \in Urls, NEW n \in Nat, NEW from \in Urls, from \in Led(url, n),
         redirect[from] \in Urls
  PROVE  redirect[from] \in Led(url, n + 1)
<1>1. PICK way \in Way(url, n) : way[n] = from
  BY DEF Led
<1> DEFINE longer == [i \in 0 .. n + 1 |-> IF i = n + 1 THEN redirect[from] ELSE way[i]]
<1>2. way \in [0 .. n -> Urls] /\ way[0] = url /\ \A i \in 1 .. n : way[i] = redirect[way[i - 1]]
  BY <1>1 DEF Way
<1>3. longer \in [0 .. n + 1 -> Urls] /\ longer[0] = url /\ longer[n + 1] = redirect[from]
  BY <1>2
<1>4. ASSUME NEW i \in 1 .. n + 1 PROVE longer[i] = redirect[longer[i - 1]]
  <2>1. CASE i = n + 1
    BY <1>1, <1>2, <2>1
  <2>2. CASE i \in 1 .. n
    BY <1>2, <2>2
  <2>3. QED
    BY <2>1, <2>2
<1>5. longer \in Way(url, n + 1)
  BY <1>3, <1>4 DEF Way
<1>6. QED
  BY <1>3, <1>5 DEF Led

\* A pause that is passed on leaves the caller where it is, or fails it.
LEMMA PassKeeps ==
  ASSUME BrowserInv, NEW c \in Callers, Pass(c)
  PROVE  BrowserInv'
<1>1. Looping(c) /\ UNCHANGED <<redirect, pool>>
  BY DEF Pass, Next1
<1>2. CASE UNCHANGED caller
  <2>1. GoesOn(c)
    BY <1>1, <1>2 DEF GoesOn, Looping, InHands, BrowserInv, BrowserTypeOK
  <2>2. CallerAt(c)'
    BY <1>1, <1>2, OthersStay DEF BrowserInv
  <2>3. QED
    BY <2>1, <2>2, GoesOnKeeps
<1>3. CASE Fail(c)
  BY <1>1, <1>3, FailKeeps
<1>4. QED
  BY <1>2, <1>3 DEF Pass

LEMMA EscapeKeeps ==
  ASSUME BrowserInv, NEW c \in Callers, Escape(c)
  PROVE  BrowserInv'
BY FailKeeps DEF Escape, Next1

\* A redirect of the document it is looking for leads the caller one step on.
LEMMA FollowKeeps ==
  ASSUME BrowserInv, NEW c \in Callers, Follow(c)
  PROVE  BrowserInv'
<1> DEFINE from == caller[c].expected
           target == redirect[from]
<1>1. Looping(c) /\ UNCHANGED <<redirect, pool>> /\ Event(c).url = from /\ target # NoUrl
  BY DEF Follow, Next1, Foreign, Redirected
<1>2. CASE Fail(c)
  BY <1>1, <1>2, FailKeeps
<1>3. CASE /\ caller[c].redirects < MaxBrowserRedirects /\ target # Outside
           /\ caller' = [caller EXCEPT ![c].expected = target, ![c].redirects = @ + 1]
  <2>1. /\ caller[c] \in [pc : {"loop"}, url : Urls, tab : Tabs, expected : Urls,
                          redirects : 0 .. MaxBrowserRedirects, challenge : Urls \cup {NoUrl}]
        /\ from \in Led(caller[c].url, caller[c].redirects)
        /\ caller[c].challenge # NoUrl =>
             Within(caller[c].url, MaxBrowserRedirects, caller[c].challenge)
    BY <1>1, LoopingAt
  <2>2. from \in Urls /\ caller[c].redirects \in Nat /\ target \in Urls
    BY <1>1, <1>3, <2>1, BrowserConstants DEF BrowserInv, BrowserTypeOK, BrowserConstants
  <2>3. target \in Led(caller[c].url, caller[c].redirects + 1)
    BY <2>1, <2>2, WayGoesOn
  <2>4. /\ DOMAIN caller' = Callers
        /\ \A d \in Callers \ {c} : caller'[d] = caller[d]
        /\ caller'[c] = [pc |-> "loop", url |-> caller[c].url, tab |-> caller[c].tab,
                         expected |-> target, redirects |-> caller[c].redirects + 1,
                         challenge |-> caller[c].challenge]
    BY <1>3, <2>1 DEF BrowserInv, BrowserTypeOK
  <2>5. GoesOn(c)
    BY <1>1, <2>1, <2>4 DEF GoesOn, InHands
  <2>6. caller[c].redirects + 1 \in 0 .. MaxBrowserRedirects
    BY <1>3, <2>2, BrowserConstants DEF BrowserConstants
  <2> HIDE DEF from, target
  <2>7. CallerAt(c)'
    BY <1>1, <2>1, <2>2, <2>3, <2>4, <2>6, WaysStay DEF CallerAt
  <2>8. QED
    BY <2>5, <2>7, GoesOnKeeps
<1>4. QED
  BY <1>1, <1>2, <1>3 DEF Follow

\* The document it is looking for is one that its url has led to.
LEMMA BodyKeeps ==
  ASSUME BrowserInv, NEW c \in Callers, NEW fits \in BOOLEAN, Body(c, fits)
  PROVE  BrowserInv'
<1> DEFINE found == caller[c].expected
<1>1. Looping(c) /\ UNCHANGED <<redirect, pool>> /\ Event(c).url = found
  BY DEF Body, Next1, Foreign
<1>2. /\ caller[c] \in [pc : {"loop"}, url : Urls, tab : Tabs, expected : Urls,
                        redirects : 0 .. MaxBrowserRedirects, challenge : Urls \cup {NoUrl}]
      /\ found \in Led(caller[c].url, caller[c].redirects)
  BY <1>1, LoopingAt
<1>3. found \in Urls /\ Within(caller[c].url, MaxBrowserRedirects, found)
  BY <1>2 DEF Within
<1>4. CASE Fail(c)
  BY <1>1, <1>4, FailKeeps
<1>5. CASE Settle(c, found)
  BY <1>1, <1>2, <1>3, <1>5, SettleKeeps DEF InHands
<1>6. CASE caller' = [caller EXCEPT ![c].challenge = found]
  <2>1. /\ DOMAIN caller' = Callers
        /\ \A d \in Callers \ {c} : caller'[d] = caller[d]
        /\ caller'[c] = [pc |-> "loop", url |-> caller[c].url, tab |-> caller[c].tab,
                         expected |-> found, redirects |-> caller[c].redirects,
                         challenge |-> found]
    BY <1>2, <1>6 DEF BrowserInv, BrowserTypeOK
  <2>2. GoesOn(c)
    BY <1>1, <1>2, <2>1 DEF GoesOn, InHands
  <2> HIDE DEF found
  <2>3. CallerAt(c)'
    BY <1>1, <1>2, <1>3, <2>1, WaysStay DEF CallerAt
  <2>4. QED
    BY <2>2, <2>3, GoesOnKeeps
<1>7. QED
  BY <1>1, <1>4, <1>5, <1>6 DEF Body

LEMMA TimeUpKeeps ==
  ASSUME BrowserInv, NEW c \in Callers, TimeUp(c)
  PROVE  BrowserInv'
<1>1. Looping(c) /\ UNCHANGED <<redirect, pool>>
  BY DEF TimeUp
<1>2. CASE Fail(c)
  BY <1>1, <1>2, FailKeeps
<1>3. CASE caller[c].challenge # NoUrl /\ Settle(c, caller[c].challenge)
  BY <1>1, <1>3, LoopingAt, SettleKeeps DEF InHands
<1>4. QED
  BY <1>2, <1>3 DEF TimeUp

\* A new tab or the old one: its holder returns nothing, and gives it back.
LEMMA ReplaceKeeps ==
  ASSUME BrowserInv, NEW c \in Callers, ReplaceTab(c) \/ ReplaceFails(c)
  PROVE  BrowserInv'
<1>1. caller[c].pc = "failed" /\ Settle(c, NoUrl) /\ UNCHANGED <<redirect, pool>>
  BY DEF ReplaceTab, ReplaceFails
<1>2. caller[c] \in [pc : {"navigate", "failed"}, url : Urls, tab : Tabs]
  BY <1>1 DEF BrowserInv, CallerAt, Unused
<1>3. QED
  BY <1>1, <1>2, SettleKeeps DEF InHands

LEMMA BrowserStepKeeps == BrowserInv /\ [BrowserNext]_browserVars => BrowserInv'
<1> SUFFICES ASSUME BrowserInv, [BrowserNext]_browserVars PROVE BrowserInv'
  OBVIOUS
<1>1. CASE UNCHANGED browserVars
  <2>1. BrowserTypeOK' /\ TabsKept'
    BY <1>1 DEF browserVars, BrowserInv, BrowserTypeOK, TabsKept, Held
  <2>2. \A c \in Callers : CallerAt(c)'
    BY <1>1, OthersStay DEF browserVars, BrowserInv
  <2>3. QED
    BY <2>1, <2>2 DEF BrowserInv
<1>2. ASSUME NEW t \in Tabs, NEW e \in Pauses(page[t].url), Pause(t, e) PROVE BrowserInv'
  BY <1>2, PauseKeeps
<1>3. ASSUME NEW c \in Callers, NEW url \in Urls, Get(c, url) PROVE BrowserInv'
  BY <1>3, GetKeeps
<1>4. ASSUME NEW c \in Callers, NEW fits \in BOOLEAN, Body(c, fits) PROVE BrowserInv'
  BY <1>4, BodyKeeps
<1>5. ASSUME NEW c \in Callers,
             \/ Take(c) \/ Navigate(c) \/ Pass(c) \/ Escape(c) \/ Follow(c)
             \/ TimeUp(c) \/ ReplaceTab(c) \/ ReplaceFails(c) \/ Give(c)
      PROVE  BrowserInv'
  BY <1>5, TakeKeeps, NavigateKeeps, PassKeeps, EscapeKeeps, FollowKeeps, TimeUpKeeps,
     ReplaceKeeps, GiveKeeps
<1>6. QED
  BY <1>1, <1>2, <1>3, <1>4, <1>5 DEF BrowserNext

\* Whatever Chrome reports and of which page, however many callers there are: a caller
\* gets what the court's redirects lead to from the url it asked for, and every tab is in the
\* pool or in one caller's hands (browser_http.rs BrowserHttpTransport::get).
THEOREM BrowserGivesOwnDocument == BrowserSpec => []OwnDocument
<1>1. BrowserInv => OwnDocument
  <2> SUFFICES ASSUME BrowserInv PROVE OwnDocument
    OBVIOUS
  <2>1. ASSUME NEW c \in Callers, caller[c].pc = "give", caller[c].answer # NoUrl
        PROVE  \E n \in 0 .. MaxBrowserRedirects : caller[c].answer \in Led(caller[c].url, n)
    BY <2>1 DEF BrowserInv, CallerAt, Unused, Within
  <2>2. TabsKept
    BY DEF BrowserInv
  <2>3. QED
    BY <2>1, <2>2 DEF OwnDocument, TabsKept, Held, InHands
<1>2. QED
  BY <1>1, BrowserStarts, BrowserStepKeeps, PTL DEF BrowserSpec
=============================================================================
