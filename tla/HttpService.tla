----------------------------- MODULE HttpService -----------------------------
(***************************************************************************)
(* serve (main.rs): one thread accepts requests and answers the health     *)
(* probes itself; the others go through a bounded channel to a pool of     *)
(* workers, or are refused when it is full.  A signal ends the accept      *)
(* loop, the channel is closed and drained for at most the shutdown grace, *)
(* and the state file is removed.  A handler may take for ever, or panic.  *)
(*                                                                         *)
(* serve keeps a reference to the receiver until it returns; the workers   *)
(* have clones of it.  So the channel outlives the last worker: requests   *)
(* stay in it, more are accepted while there is room, and try_send never   *)
(* finds it disconnected.                                                  *)
(***************************************************************************)
EXTENDS Naturals, FiniteSets, Sequences

CONSTANTS
  Requests,     \* requests that clients send
  Probes,       \* those of them that go to /livez or /readyz
  Workers,      \* LEGAL_MCP_HTTP_WORKERS threads
  PerWorker,    \* HTTP_QUEUE_PER_WORKER
  MaxPanics,    \* bound: handlers that panic
  MayFail,      \* whether the listener may fail
  NoRequest     \* what a worker runs that waits for the channel

ASSUME ServiceConstants ==
  /\ Probes \subseteq Requests
  /\ NoRequest \notin Requests \cup {"stopped", "panicked"}
  /\ {"stopped", "panicked"} \cap Requests = {}
  /\ IsFiniteSet(Workers) /\ Workers # {}
  /\ PerWorker \in Nat \ {0} /\ MaxPanics \in Nat
  /\ MayFail \in BOOLEAN

VARIABLES
  status,        \* what became of each request
  queue,         \* the channel
  open,          \* whether its sender exists
  worker,        \* the request a worker runs, NoRequest, or why it has stopped
  accept,        \* where the accept thread is
  shuttingDown,  \* the flag that the signal handlers set
  expired,       \* whether the shutdown grace is over
  stateFile,     \* whether http.json is there
  panics

serviceVars == <<status, queue, open, worker, accept, shuttingDown, expired, stateFile, panics>>

Capacity == Cardinality(Workers) * PerWorker
Ended == {"answered", "refused", "dropped", "lost"}
InQueue == {queue[i] : i \in DOMAIN queue}
Alive(w) == worker[w] \notin {"stopped", "panicked"}

ServiceInit ==
  /\ status = [r \in Requests |-> "unsent"]
  /\ queue = <<>> /\ open = TRUE
  /\ worker = [w \in Workers |-> NoRequest]
  /\ accept = "loop"
  /\ shuttingDown = FALSE /\ expired = FALSE
  /\ stateFile = TRUE
  /\ panics = 0

Becomes(r, s) == status' = [status EXCEPT ![r] = s]

\* The process ends: what it had not answered is lost.
Over == accept \in {"done", "failed"}

Die(how) ==
  /\ accept' = how
  /\ status' = [r \in Requests |-> IF status[r] \in Ended \cup {"unsent"}
                                     THEN status[r] ELSE "lost"]
  /\ queue' = <<>>
-----------------------------------------------------------------------------
(* The accept thread *)

Arrive(r) ==
  /\ status[r] = "unsent" /\ ~Over
  /\ Becomes(r, "arrived")
  /\ UNCHANGED <<queue, open, worker, accept, shuttingDown, expired, stateFile, panics>>

Accepting == accept = "loop" /\ ~shuttingDown

AnswerProbeIfRoom(r) ==
  /\ Accepting /\ status[r] = "arrived" /\ r \in Probes
  /\ Len(queue) < Capacity
  /\ Becomes(r, "answered")
  /\ UNCHANGED <<queue, open, worker, accept, shuttingDown, expired, stateFile, panics>>

AnswerProbe(r) ==
  /\ Accepting /\ status[r] = "arrived" /\ r \in Probes
  /\ Becomes(r, "answered")
  /\ UNCHANGED <<queue, open, worker, accept, shuttingDown, expired, stateFile, panics>>

\* try_send finds room or none, whether or not a worker is left.
Enqueue(r) ==
  /\ Accepting /\ status[r] = "arrived" /\ r \notin Probes
  /\ Len(queue) < Capacity
  /\ queue' = Append(queue, r)
  /\ Becomes(r, "queued")
  /\ UNCHANGED <<open, worker, accept, shuttingDown, expired, stateFile, panics>>

Refuse(r) ==
  /\ Accepting /\ status[r] = "arrived" /\ r \notin Probes
  /\ Len(queue) >= Capacity
  /\ Becomes(r, "refused")
  /\ UNCHANGED <<queue, open, worker, accept, shuttingDown, expired, stateFile, panics>>

\* recv_timeout(...)? : the service ends without a drain.
ListenerFails ==
  /\ MayFail /\ Accepting
  /\ Die("failed")
  /\ UNCHANGED <<open, worker, shuttingDown, expired, stateFile, panics>>

Signal ==
  /\ ~shuttingDown /\ ~Over
  /\ shuttingDown' = TRUE
  /\ UNCHANGED <<status, queue, open, worker, accept, expired, stateFile, panics>>

CloseChannel ==
  /\ accept = "loop" /\ shuttingDown
  /\ open' = FALSE
  /\ accept' = "draining"
  /\ UNCHANGED <<status, queue, worker, shuttingDown, expired, stateFile, panics>>

GraceEnds ==
  /\ accept = "draining" /\ ~expired
  /\ expired' = TRUE
  /\ UNCHANGED <<status, queue, open, worker, accept, shuttingDown, stateFile, panics>>

ShutDownWhenIdle ==
  /\ accept = "draining"
  /\ \A w \in Workers : ~Alive(w)
  /\ Die("done")
  /\ stateFile' = FALSE
  /\ UNCHANGED <<open, worker, shuttingDown, expired, panics>>

\* Every worker has reported or is gone, or the grace is over.  When all have panicked no
\* sender is left to report, and the drain is over at once, whatever the channel holds.
ShutDown ==
  /\ accept = "draining"
  /\ expired \/ \A w \in Workers : ~Alive(w)
  /\ Die("done")
  /\ stateFile' = FALSE
  /\ UNCHANGED <<open, worker, shuttingDown, expired, panics>>
-----------------------------------------------------------------------------
(* The workers *)

Take(w) ==
  /\ worker[w] = NoRequest /\ ~Over
  /\ queue # <<>>
  /\ worker' = [worker EXCEPT ![w] = Head(queue)]
  /\ queue' = Tail(queue)
  /\ Becomes(Head(queue), "running")
  /\ UNCHANGED <<open, accept, shuttingDown, expired, stateFile, panics>>

Respond(w) ==
  /\ worker[w] \in Requests /\ ~Over
  /\ Becomes(worker[w], "answered")
  /\ worker' = [worker EXCEPT ![w] = NoRequest]
  /\ UNCHANGED <<queue, open, accept, shuttingDown, expired, stateFile, panics>>

\* The thread unwinds, and its request is dropped.
Panic(w) ==
  /\ worker[w] \in Requests /\ ~Over
  /\ panics < MaxPanics /\ panics' = panics + 1
  /\ Becomes(worker[w], "dropped")
  /\ worker' = [worker EXCEPT ![w] = "panicked"]
  /\ UNCHANGED <<queue, open, accept, shuttingDown, expired, stateFile>>

StopUndrained(w) ==
  /\ worker[w] = NoRequest /\ ~Over
  /\ ~open
  /\ worker' = [worker EXCEPT ![w] = "stopped"]
  /\ UNCHANGED <<status, queue, open, accept, shuttingDown, expired, stateFile, panics>>

\* recv fails once the sender is gone and the channel is empty.
Stop(w) ==
  /\ worker[w] = NoRequest /\ ~Over
  /\ ~open /\ queue = <<>>
  /\ worker' = [worker EXCEPT ![w] = "stopped"]
  /\ UNCHANGED <<status, queue, open, accept, shuttingDown, expired, stateFile, panics>>
-----------------------------------------------------------------------------
AcceptThread ==
  \/ \E r \in Requests : AnswerProbe(r) \/ Enqueue(r) \/ Refuse(r)
  \/ CloseChannel \/ ShutDown

ServiceNext ==
  \/ AcceptThread
  \/ \E r \in Requests : Arrive(r)
  \/ ListenerFails \/ Signal \/ GraceEnds
  \/ \E w \in Workers : Take(w) \/ Respond(w) \/ Panic(w) \/ Stop(w)

ServiceSpec == ServiceInit /\ [][ServiceNext]_serviceVars

\* The accept thread and idle workers run and time passes, but nothing says
\* that a handler ever returns.
FairServiceSpec ==
  /\ ServiceSpec
  /\ WF_serviceVars(AcceptThread) /\ WF_serviceVars(GraceEnds)
  /\ \A w \in Workers : WF_serviceVars(Take(w) \/ Stop(w))
-----------------------------------------------------------------------------
(* Properties *)

\* A shutdown that ends before its grace is over abandons no request that a worker runs; and
\* none that is in the channel, unless every worker has panicked: one that is left comes to
\* all of them before it stops (main.rs 1314-1326).
CleanShutdown ==
  [][accept = "draining" /\ accept' = "done" /\ ~expired =>
       /\ \A r \in Requests : status[r] # "running"
       /\ (\E w \in Workers : worker[w] # "panicked")
            => \A r \in Requests : status[r] # "queued"]_serviceVars

\* A health probe is answered although every worker may be stuck for good or have panicked, and
\* the channel be full, as long as the service is not asked to stop and can listen (main.rs
\* 1273-1281).
ProbesAnswered ==
  \A r \in Probes : status[r] = "arrived" ~> status[r] = "answered" \/ shuttingDown \/ accept = "failed"

\* After a signal the process ends, although handlers may never return.
ShutdownEnds == shuttingDown ~> Over

=============================================================================
