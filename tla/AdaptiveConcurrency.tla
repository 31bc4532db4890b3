------------------------- MODULE AdaptiveConcurrency -------------------------
(***************************************************************************)
(* adaptive_http.rs: the controller that decides how many requests to one  *)
(* official source are in flight.  Worker threads acquire a permit, and    *)
(* give it back by finishing it with an outcome or by dropping it; every   *)
(* operation holds the state mutex throughout, so each is one action, but  *)
(* a thread that finds no capacity sleeps on the condition variable and    *)
(* returns to the loop only when it is notified.                           *)
(*                                                                         *)
(* Time is what remains: `episode` counts down to congestion_until and is  *)
(* 0 when that is None or past.                                            *)
(***************************************************************************)
EXTENDS Naturals, FiniteSets

CONSTANTS
  Threads,        \* the worker threads of one source
  WorkerCeiling,  \* SOURCE_WORKER_CEILING
  Delays,         \* the retry delays, in ticks
  MaxSuccesses    \* bound of the counter of successes

ASSUME ControllerConstants ==
  /\ IsFiniteSet(Threads)
  /\ WorkerCeiling \in Nat \ {0}
  /\ Delays \subseteq Nat
  /\ MaxSuccesses \in Nat

VARIABLES
  active, limit, ceiling, successes, episode,  \* AdaptiveState
  holding,   \* threads that own an AdaptiveRequest
  waiting    \* threads asleep on the condition variable

controller == <<active, limit, ceiling, successes, episode, holding, waiting>>

Outcomes == {"success", "neutral", "transient", "congestion"}

Lesser(m, n) == IF m <= n THEN m ELSE n
Greater(m, n) == IF m >= n THEN m ELSE n

\* (limit / 2).max(1)
Half(n) == Greater(n \div 2, 1)

ControllerInit ==
  /\ active = 0 /\ limit = 1 /\ ceiling = WorkerCeiling
  /\ successes = 0 /\ episode = 0
  /\ holding = {} /\ waiting = {}

NotifyAll == waiting' = {}
-----------------------------------------------------------------------------
Acquire(t) ==
  /\ t \notin holding \cup waiting
  /\ active < limit
  /\ active' = active + 1
  /\ holding' = holding \cup {t}
  /\ UNCHANGED <<limit, ceiling, successes, episode, waiting>>

Wait(t) ==
  /\ t \notin holding \cup waiting
  /\ active >= limit
  /\ waiting' = waiting \cup {t}
  /\ UNCHANGED <<active, limit, ceiling, successes, episode, holding>>

\* A window of `limit` successes raises the limit by one, up to the ceiling.
Succeed ==
  /\ successes < MaxSuccesses
  /\ LET raise == limit < ceiling /\ successes + 1 >= limit
     IN /\ limit' = IF raise THEN limit + 1 ELSE limit
        /\ successes' = IF raise THEN 0 ELSE successes + 1
  /\ UNCHANGED <<ceiling, episode>>

BackOffKeepingCredit ==
  limit' = Half(limit) /\ UNCHANGED <<successes, ceiling, episode>>

BackOff ==
  limit' = Half(limit) /\ successes' = 0 /\ UNCHANGED <<ceiling, episode>>

\* Outside an episode congestion halves the learned ceiling; in any case the
\* episode lasts until the latest of the delays it was given.
Congest(delay) ==
  /\ ceiling' = IF episode = 0 THEN Lesser(ceiling, Half(limit)) ELSE ceiling
  /\ episode' = Greater(episode, delay)
  /\ limit' = Lesser(limit, ceiling')
  /\ successes' = 0

Learn(outcome, delay) ==
  \/ outcome = "success" /\ Succeed
  \/ outcome = "neutral" /\ UNCHANGED <<limit, ceiling, successes, episode>>
  \/ outcome = "transient" /\ BackOff
  \/ outcome = "congestion" /\ Congest(delay)

\* active.saturating_sub(1)
GiveBack(t) ==
  /\ t \in holding
  /\ holding' = holding \ {t}
  /\ active' = IF active = 0 THEN 0 ELSE active - 1

Finish(t, outcome, delay) ==
  /\ GiveBack(t)
  /\ Learn(outcome, delay)
  /\ NotifyAll

DropSilently(t) ==
  GiveBack(t) /\ UNCHANGED <<limit, ceiling, successes, episode, waiting>>

\* An AdaptiveRequest that leaves its scope unfinished: release_unfinished.
Drop(t) ==
  /\ GiveBack(t)
  /\ NotifyAll
  /\ UNCHANGED <<limit, ceiling, successes, episode>>

Elapse ==
  /\ episode > 0
  /\ episode' = episode - 1
  /\ UNCHANGED <<active, limit, ceiling, successes, holding, waiting>>

Step(t) ==
  \/ Acquire(t)
  \/ Wait(t)
  \/ \E outcome \in Outcomes, delay \in Delays : Finish(t, outcome, delay)
  \/ Drop(t)

ControllerNext == (\E t \in Threads : Step(t)) \/ Elapse

ControllerSpec == ControllerInit /\ [][ControllerNext]_controller
-----------------------------------------------------------------------------
(* Properties *)

\* Every variable is in its range.
ControllerTypeOK ==
  /\ active \in Nat /\ limit \in Nat /\ ceiling \in Nat
  /\ successes \in Nat /\ episode \in Nat
  /\ holding \subseteq Threads /\ waiting \subseteq Threads

\* The count of active requests is the number of permits that are out, on
\* every path that ends a request: capacity neither leaks (a source would stall
\* for good) nor is given back twice.
CountsPermits == active = Cardinality(holding)

\* The limit always admits one request and never passes the learned ceiling,
\* whatever the order in which the answers of many threads come in.
LimitInRange == 1 <= limit /\ limit <= ceiling /\ ceiling <= WorkerCeiling

\* Below the ceiling less than a window of successes is ever in store: the
\* many successes counted at the ceiling cannot raise the limit at once after
\* it was cut.
NoStoredCredit == limit < ceiling => successes < limit

\* No thread sleeps while there is capacity: no notification is lost.
NoLostWakeup == waiting # {} => active >= limit

\* A source never sees more requests at once than the shared ceiling.
InFlightBounded == Cardinality(holding) <= WorkerCeiling
=============================================================================
