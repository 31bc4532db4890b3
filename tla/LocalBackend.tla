----------------------------- MODULE LocalBackend -----------------------------
(***************************************************************************)
(* `legal-mcp mcp` (main.rs): each stdio shim forwards its requests to the *)
(* local HTTP backend that state/http.json names, and starts one under     *)
(* SERVER_LOCK when that one does not answer an initialize probe.  A       *)
(* backend writes http.json itself when it listens, and removes the file,  *)
(* whatever it names by then, when it stops.  A backend that refuses       *)
(* requests because its queue is full, or answers too late, is not ready   *)
(* for a probe.                                                            *)
(***************************************************************************)
EXTENDS Naturals, FiniteSets

CONSTANTS
  Shims,     \* stdio entry points
  Ports,     \* the free ports that may be picked; each backend has its own
  Faults,    \* what may go wrong: "crash", "saturate", "stop", "kill"
  MaxFaults, \* bound: faults, each of another kind
  MaxPosts,  \* bound: requests of a shim
  None

ASSUME BackendConstants ==
  /\ None \notin Shims \cup Ports
  /\ Faults \subseteq {"crash", "saturate", "stop", "kill"}
  /\ MaxFaults \in Nat /\ MaxPosts \in Nat

VARIABLES
  file,     \* the port in http.json, or None
  backend,  \* the backend of each port
  parent,   \* the shim that started it
  lock,     \* the holder of SERVER_LOCK
  pc,       \* where each shim is
  target,   \* the port it probes, starts or is connected to
  mode,     \* why it is in ensure_http_server: to start, or after a failure
  posts,    \* requests it has forwarded
  faults    \* the kinds of fault that have happened

backendVars == <<file, backend, parent, lock, pc, target, mode, posts, faults>>

Live(p) == backend[p] \in {"serving", "saturated"}
Responds(p) == backend[p] = "serving"

BackendInit ==
  /\ file = None
  /\ backend = [p \in Ports |-> "unused"]
  /\ parent = [p \in Ports |-> None]
  /\ lock = None
  /\ pc = [s \in Shims |-> "new"]
  /\ target = [s \in Shims |-> None]
  /\ mode = [s \in Shims |-> "start"]
  /\ posts = [s \in Shims |-> 0]
  /\ faults = {}

To(s, p) == pc' = [pc EXCEPT ![s] = p]
Aim(s, p) == target' = [target EXCEPT ![s] = p]
Serves(p, b) == backend' = [backend EXCEPT ![p] = b]

\* ensure_http_server returns the target: to the main loop or to the retry.
Connect(s) == To(s, IF mode[s] = "start" THEN "idle" ELSE "repost")

Unlock(s) == lock' = IF lock = s THEN None ELSE lock
-----------------------------------------------------------------------------
(* ensure_http_server *)

Launch(s) ==
  /\ pc[s] = "new"
  /\ To(s, "ensure")
  /\ UNCHANGED <<file, backend, parent, lock, target, mode, posts, faults>>

ReadState(s) ==
  /\ pc[s] = "ensure"
  /\ Aim(s, file)
  /\ To(s, IF file = None THEN "lock" ELSE "probe")
  /\ UNCHANGED <<file, backend, parent, lock, mode, posts, faults>>

Probe(s) ==
  /\ pc[s] = "probe"
  /\ IF Responds(target[s]) THEN Connect(s) ELSE To(s, "lock")
  /\ UNCHANGED <<file, backend, parent, lock, target, mode, posts, faults>>

LockServer(s) ==
  /\ pc[s] = "lock" /\ lock = None
  /\ lock' = s
  /\ To(s, "reread")
  /\ UNCHANGED <<file, backend, parent, target, mode, posts, faults>>

RereadSkipped(s) ==
  /\ pc[s] = "reread"
  /\ Aim(s, None)
  /\ To(s, "spawn")
  /\ UNCHANGED <<file, backend, parent, lock, mode, posts, faults>>

\* Another shim may have started one while this one waited for the lock.
Reread(s) ==
  /\ pc[s] = "reread"
  /\ Aim(s, file)
  /\ To(s, IF file = None THEN "spawn" ELSE "reprobe")
  /\ UNCHANGED <<file, backend, parent, lock, mode, posts, faults>>

ReprobeLocked(s) ==
  /\ pc[s] = "reprobe"
  /\ IF Responds(target[s]) THEN Connect(s) ELSE To(s, "spawn")
  /\ UNCHANGED <<file, backend, parent, lock, target, mode, posts, faults>>

Reprobe(s) ==
  /\ pc[s] = "reprobe"
  /\ IF Responds(target[s]) THEN Connect(s) /\ Unlock(s) ELSE To(s, "spawn") /\ UNCHANGED lock
  /\ UNCHANGED <<file, backend, parent, target, mode, posts, faults>>

\* Which of the free ports it is makes no difference.
Free == {p \in Ports : backend[p] = "unused"}

Spawn(s) ==
  /\ pc[s] = "spawn"
  /\ Free # {}
  /\ LET p == CHOOSE q \in Free : TRUE
     IN Serves(p, "starting") /\ parent' = [parent EXCEPT ![p] = s] /\ Aim(s, p)
  /\ To(s, "await")
  /\ UNCHANGED <<file, lock, mode, posts, faults>>

Advertise(s) ==
  /\ pc[s] = "await" /\ Live(target[s])
  /\ file' = target[s]
  /\ To(s, "confirm")
  /\ UNCHANGED <<backend, parent, lock, target, mode, posts, faults>>

\* The child ended before readiness, or is killed after 20 seconds without it.
AwaitFails(s) ==
  /\ pc[s] = "await"
  /\ backend[target[s]] \in {"starting", "listening", "gone"}
  /\ Serves(target[s], "gone")
  /\ To(s, "ended") /\ Unlock(s)
  /\ UNCHANGED <<file, parent, target, mode, posts, faults>>

\* A child that is ready but does not answer is left running.
Confirm(s) ==
  /\ pc[s] = "confirm"
  /\ IF Responds(target[s]) THEN Connect(s) ELSE To(s, "ended")
  /\ Unlock(s)
  /\ UNCHANGED <<file, backend, parent, target, mode, posts, faults>>
-----------------------------------------------------------------------------
(* Forwarding *)

Receive(s) ==
  /\ pc[s] = "idle" /\ posts[s] < MaxPosts
  /\ posts' = [posts EXCEPT ![s] = @ + 1]
  /\ To(s, "post")
  /\ UNCHANGED <<file, backend, parent, lock, target, mode, faults>>

Answered(s) ==
  /\ pc[s] \in {"post", "repost"} /\ Responds(target[s])
  /\ To(s, "idle")
  /\ UNCHANGED <<file, backend, parent, lock, target, mode, posts, faults>>

\* A POST that failed is forwarded once more, after ensure_http_server; the second
\* failure ends the shim.
PostFails(s) ==
  /\ pc[s] \in {"post", "repost"} /\ ~Responds(target[s])
  /\ To(s, IF pc[s] = "post" THEN "ensure" ELSE "ended")
  /\ mode' = [mode EXCEPT ![s] = "retry"]
  /\ UNCHANGED <<file, backend, parent, lock, target, posts, faults>>
-----------------------------------------------------------------------------
(* The backends *)

Listen(p) ==
  /\ backend[p] = "starting"
  /\ Serves(p, "listening")
  /\ file' = p
  /\ UNCHANGED <<parent, lock, pc, target, mode, posts, faults>>

\* The ready line goes to a pipe: without a reader the backend ends.
EmitReady(p) ==
  /\ backend[p] = "listening"
  /\ Serves(p, IF pc[parent[p]] = "ended" THEN "gone" ELSE "serving")
  /\ UNCHANGED <<file, parent, lock, pc, target, mode, posts, faults>>

Fault(kind) ==
  /\ kind \in Faults \ faults /\ Cardinality(faults) < MaxFaults
  /\ faults' = faults \cup {kind}

Crash(p) ==
  /\ Fault("crash") /\ Live(p)
  /\ Serves(p, "gone")
  /\ UNCHANGED <<file, parent, lock, pc, target, mode, posts>>

Saturate(p) ==
  /\ Fault("saturate") /\ Responds(p)
  /\ Serves(p, "saturated")
  /\ UNCHANGED <<file, parent, lock, pc, target, mode, posts>>

CatchUp(p) ==
  /\ backend[p] = "saturated"
  /\ Serves(p, "serving")
  /\ UNCHANGED <<file, parent, lock, pc, target, mode, posts, faults>>

BeginStop(p) ==
  /\ Fault("stop") /\ Live(p)
  /\ Serves(p, "stopping")
  /\ UNCHANGED <<file, parent, lock, pc, target, mode, posts>>

EndStop(p) ==
  /\ backend[p] = "stopping"
  /\ Serves(p, "gone")
  /\ file' = None
  /\ UNCHANGED <<parent, lock, pc, target, mode, posts, faults>>

KillShim(s) ==
  /\ Fault("kill") /\ pc[s] \notin {"new", "ended"}
  /\ To(s, "ended") /\ Unlock(s)
  /\ UNCHANGED <<file, backend, parent, target, mode, posts>>
-----------------------------------------------------------------------------
ShimStep(s) ==
  \/ ReadState(s) \/ Probe(s)
  \/ LockServer(s) \/ Reread(s) \/ Reprobe(s)
  \/ Spawn(s) \/ Advertise(s) \/ AwaitFails(s) \/ Confirm(s)
  \/ Answered(s) \/ PostFails(s)

BackendStep(p) == Listen(p) \/ EmitReady(p) \/ CatchUp(p) \/ EndStop(p)

BackendNext ==
  \/ \E s \in Shims : Launch(s) \/ Receive(s) \/ ShimStep(s) \/ KillShim(s)
  \/ \E p \in Ports : BackendStep(p) \/ Crash(p) \/ Saturate(p) \/ BeginStop(p)

BackendSpec == BackendInit /\ [][BackendNext]_backendVars

\* Processes are scheduled; every wait in them has a timeout.
FairBackendSpec ==
  /\ BackendSpec
  /\ \A s \in Shims : WF_backendVars(ShimStep(s))
  /\ \A p \in Ports : WF_backendVars(BackendStep(p))
-----------------------------------------------------------------------------
(* Properties *)

\* main.rs 227-230: the stdio entry point "connects to one shared local HTTP
\* server", so that the agent hosts share one loaded semantic runtime.  However
\* shims race to start one or to replace one that crashed, no second one serves.
\* (With any of the other faults one may: a busy backend is taken for a dead one, a
\* stopping one removes the http.json of its successor, and the child of a shim
\* killed while it starts overwrites it before it ends.)
OneBackend == faults \subseteq {"crash"} => Cardinality({p \in Ports : Live(p)}) <= 1

\* A shim that looks for a backend, or waits for an answer, comes to an end of it:
\* neither the lock nor a dead backend blocks it for good.
ShimsSettle ==
  \A s \in Shims :
    pc[s] \notin {"new", "idle", "ended"} ~> pc[s] \in {"idle", "ended"}
=============================================================================
