---------------------------- MODULE OfficialClient ----------------------------
(***************************************************************************)
(* OfficialHttpClient (official_sources/mod.rs): a `get` of one worker     *)
(* thread, composed with the AdaptiveConcurrency of its source.  A get     *)
(* acquires a permit, waits for its turn under the pacing mutex (which it  *)
(* holds while it sleeps), sends, and reacts to the answer: it returns,    *)
(* follows a redirect, gives up, or defers everybody's next request,       *)
(* finishes the permit and tries again.                                    *)
(*                                                                         *)
(* `next` is the time left until next_request.  What the network answers   *)
(* is a choice, and so is each delay among Delays (the Retry-After header  *)
(* or the backoff of the attempt).                                         *)
(***************************************************************************)
EXTENDS AdaptiveConcurrency

CONSTANTS
  HttpAttempts,   \* MAX_HTTP_ATTEMPTS
  RateAttempts,   \* MAX_RATE_LIMIT_ATTEMPTS
  MaxRedirects,   \* MAX_REDIRECTS
  Interval,       \* minimum_request_interval_ms, in ticks
  Answers,        \* the kinds of answer the network gives
  Gets,           \* bound: gets of each thread
  Prompt,         \* whether local steps take no time
  NoThread

AllAnswers == {"ok", "refused", "redirect", "unusable",
               "rateLimited", "forbidden", "serverError", "broken", "challenge"}

ASSUME ClientConstants ==
  /\ Answers \subseteq AllAnswers
  /\ HttpAttempts \in Nat \ {0} /\ RateAttempts \in Nat \ {0}
  /\ HttpAttempts <= RateAttempts
  /\ MaxRedirects \in Nat /\ Interval \in Nat /\ Gets \in Nat
  /\ Prompt \in BOOLEAN
  /\ Delays # {}
  /\ NoThread \notin Threads

VARIABLES
  phase,      \* where each thread is in its get
  attempt,    \* the attempt of the current hop
  redirects,  \* hops made
  left,       \* gets still to make
  answer,     \* the answer a thread is about to defer for
  slot,       \* the holder of the pacing mutex
  next,       \* time left until next_request
  quiet       \* history: time left of the longest deferral or interval recorded

pacing == <<slot, next, quiet>>
clientVars == <<phase, attempt, redirects, left, answer, pacing>>
vars == <<controller, clientVars>>

Congesting == {"rateLimited", "forbidden", "challenge"}

Pending == [kind |-> "ok", delay |-> 0]

\* A 429 may be tried again more often than the other retryable answers; an
\* anti-bot challenge is always deferred for.
Retried(kind, n) ==
  \/ kind = "challenge"
  \/ kind = "rateLimited" /\ n + 1 < RateAttempts
  \/ kind \in {"forbidden", "serverError", "broken"} /\ n + 1 < HttpAttempts

RetryOutcome(kind) == IF kind \in Congesting THEN "congestion" ELSE "transient"

\* Of an answer that ends the get: a body, a refusal or an error.
LastOutcome(kind) ==
  CASE kind = "ok"     -> "success"
    [] kind = "broken" -> "transient"
    [] OTHER           -> "neutral"

ClientInit ==
  /\ ControllerInit
  /\ phase = [t \in Threads |-> "idle"]
  /\ attempt = [t \in Threads |-> 0]
  /\ redirects = [t \in Threads |-> 0]
  /\ left = [t \in Threads |-> Gets]
  /\ answer = [t \in Threads |-> Pending]
  /\ slot = NoThread /\ next = 0 /\ quiet = 0

To(t, p) == phase' = [phase EXCEPT ![t] = p]
-----------------------------------------------------------------------------
StartGet(t) ==
  /\ phase[t] = "idle" /\ left[t] > 0
  /\ left' = [left EXCEPT ![t] = @ - 1]
  /\ attempt' = [attempt EXCEPT ![t] = 0]
  /\ redirects' = [redirects EXCEPT ![t] = 0]
  /\ To(t, "admission")
  /\ UNCHANGED <<controller, answer, pacing>>

AdmitUnchecked(t) ==
  /\ phase[t] = "admission"
  /\ active' = active + 1 /\ holding' = holding \cup {t}
  /\ UNCHANGED <<limit, ceiling, successes, episode, waiting>>
  /\ To(t, "paced")
  /\ UNCHANGED <<attempt, redirects, left, answer, pacing>>

Admit(t) ==
  /\ phase[t] = "admission"
  /\ Acquire(t)
  /\ To(t, "paced")
  /\ UNCHANGED <<attempt, redirects, left, answer, pacing>>

Queue(t) ==
  /\ phase[t] = "admission"
  /\ Wait(t)
  /\ UNCHANGED clientVars

\* wait_for_issue_slot: take the pacing mutex, and sleep holding it.
TakeSlot(t) ==
  /\ phase[t] = "paced" /\ slot = NoThread
  /\ slot' = t
  /\ To(t, "sleeping")
  /\ UNCHANGED <<controller, attempt, redirects, left, answer, next, quiet>>

Issue(t) ==
  /\ phase[t] = "sleeping" /\ next = 0
  /\ slot' = NoThread
  /\ next' = Interval /\ quiet' = Greater(quiet, Interval)
  /\ To(t, "sent")
  /\ UNCHANGED <<controller, attempt, redirects, left, answer>>
-----------------------------------------------------------------------------
(* Answers *)

\* The get returns its payload or its error.
Return(t, kind) ==
  /\ phase[t] = "sent" /\ kind \in Answers \ {"redirect", "unusable"}
  /\ ~Retried(kind, attempt[t])
  /\ Finish(t, LastOutcome(kind), 0)
  /\ To(t, "idle")
  /\ UNCHANGED <<attempt, redirects, left, answer, pacing>>

\* An approved redirect starts a new hop with a new permit.
FollowRedirect(t) ==
  /\ phase[t] = "sent" /\ "redirect" \in Answers
  /\ redirects[t] < MaxRedirects
  /\ Finish(t, "success", 0)
  /\ \/ /\ To(t, "admission")
        /\ redirects' = [redirects EXCEPT ![t] = @ + 1]
        /\ attempt' = [attempt EXCEPT ![t] = 0]
     \/ /\ To(t, "idle")          \* the host is not an approved one
        /\ UNCHANGED <<redirects, attempt>>
  /\ UNCHANGED <<left, answer, pacing>>

AbandonHolding(t) ==
  /\ phase[t] = "sent"
  /\ \/ "unusable" \in Answers
     \/ "redirect" \in Answers /\ redirects[t] >= MaxRedirects
  /\ To(t, "idle")
  /\ UNCHANGED <<controller, attempt, redirects, left, answer, pacing>>

\* Too many redirects, no usable Location, a Retry-After beyond the maximum: the
\* get bails and its permit is dropped unfinished.
Abandon(t) ==
  /\ phase[t] = "sent"
  /\ \/ "unusable" \in Answers
     \/ "redirect" \in Answers /\ redirects[t] >= MaxRedirects
  /\ Drop(t)
  /\ To(t, "idle")
  /\ UNCHANGED <<attempt, redirects, left, answer, pacing>>

ReceiveRetryable(t, kind, delay) ==
  /\ phase[t] = "sent" /\ kind \in Answers
  /\ Retried(kind, attempt[t])
  /\ answer' = [answer EXCEPT ![t] = [kind |-> kind, delay |-> delay]]
  /\ To(t, "deferring")
  /\ UNCHANGED <<controller, attempt, redirects, left, pacing>>

DeferExactly(t) ==
  /\ phase[t] = "deferring" /\ slot = NoThread
  /\ next' = answer[t].delay /\ quiet' = Greater(quiet, answer[t].delay)
  /\ To(t, "finishing")
  /\ UNCHANGED <<controller, attempt, redirects, left, answer, slot>>

\* defer_requests needs the pacing mutex, and never shortens a deferral.
Defer(t) ==
  /\ phase[t] = "deferring" /\ slot = NoThread
  /\ next' = Greater(next, answer[t].delay)
  /\ quiet' = Greater(quiet, answer[t].delay)
  /\ To(t, "finishing")
  /\ UNCHANGED <<controller, attempt, redirects, left, answer, slot>>

FinishAttempt(t) ==
  /\ phase[t] = "finishing"
  /\ Finish(t, RetryOutcome(answer[t].kind), answer[t].delay)
  /\ answer' = [answer EXCEPT ![t] = Pending]
  /\ IF attempt[t] + 1 < RateAttempts
       THEN To(t, "admission") /\ attempt' = [attempt EXCEPT ![t] = @ + 1]
       ELSE To(t, "idle") /\ UNCHANGED attempt
  /\ UNCHANGED <<redirects, left, pacing>>
-----------------------------------------------------------------------------
GetStep(t) ==
  \/ Admit(t) \/ Queue(t) \/ TakeSlot(t) \/ Issue(t)
  \/ \E kind \in Answers : Return(t, kind)
  \/ FollowRedirect(t) \/ Abandon(t)
  \/ \E kind \in Answers, delay \in Delays : ReceiveRetryable(t, kind, delay)
  \/ Defer(t) \/ FinishAttempt(t)

\* A thread that waits for nothing but the processor.
Runnable(t) ==
  \/ phase[t] = "admission" /\ t \notin waiting
  \/ phase[t] \in {"paced", "deferring"} /\ slot = NoThread
  \/ phase[t] = "sleeping" /\ next = 0
  \/ phase[t] = "finishing"

Less(n) == IF n = 0 THEN 0 ELSE n - 1

Tick ==
  /\ (next > 0 \/ episode > 0)
  /\ Prompt => ~\E t \in Threads : Runnable(t)
  /\ next' = Less(next) /\ quiet' = Less(quiet) /\ episode' = Less(episode)
  /\ UNCHANGED <<active, limit, ceiling, successes, holding, waiting,
                 phase, attempt, redirects, left, answer, slot>>

ClientNext == (\E t \in Threads : StartGet(t) \/ GetStep(t)) \/ Tick

ClientSpec == ClientInit /\ [][ClientNext]_vars

\* Threads are scheduled, requests time out at the latest, and time passes.
FairClientSpec ==
  ClientSpec /\ WF_vars(Tick) /\ \A t \in Threads : WF_vars(GetStep(t))
-----------------------------------------------------------------------------
(* Properties *)

\* No request is issued before the longest of the deferrals recorded so far and
\* the interval since the previous request have passed, whichever threads
\* recorded them and in whatever order.
NoEarlyRequest ==
  [][\A t \in Threads : phase[t] = "sleeping" /\ phase'[t] = "sent" => quiet = 0]_vars

\* Every get returns, whatever the network answers: permits and the pacing mutex
\* are given back on every path, and retries end.
GetsReturn == \A t \in Threads : phase[t] # "idle" ~> phase[t] = "idle"

=============================================================================
