------------------------------ MODULE MCServing ------------------------------
(* The sides of the local HTTP server, one at a time: the service with its workers, the stdio
   entry points that start and share one, and what the searches of its process share. *)
EXTENDS HttpService, LocalBackend, SearchCaches

CONSTANT Sides  \* what is checked: "service", "backend", "caches"

VARIABLE side

vars == <<side, serviceVars, backendVars, cacheVars>>

Serving(step) == side = "service" /\ step /\ UNCHANGED <<side, backendVars, cacheVars>>
Sharing(step) == side = "backend" /\ step /\ UNCHANGED <<side, serviceVars, cacheVars>>
Searching(step) == side = "caches" /\ step /\ UNCHANGED <<side, serviceVars, backendVars>>

\* What is not checked stays where it started.
Init ==
  /\ side \in Sides
  /\ ServiceInit /\ BackendInit /\ CacheInit
  /\ side # "caches" => seals = [s \in Sources |-> 1]

Next == Serving(ServiceNext) \/ Sharing(BackendNext) \/ Searching(CacheNext)

\* The fairness of the service and of the entry points.
FairSpec ==
  /\ Init /\ [][Next]_vars
  /\ WF_vars(Serving(AcceptThread)) /\ WF_vars(Serving(GraceEnds))
  /\ \A w \in Workers : WF_vars(Serving(Take(w) \/ Stop(w)))
  /\ \A s \in Shims : WF_vars(Sharing(ShimStep(s)))
  /\ \A p \in Ports : WF_vars(Sharing(BackendStep(p)))

\* The service goes on and comes to its end: a health probe is answered although every worker
\* may be stuck or have panicked, and after a signal the process ends.
ServiceGoesOn == ProbesAnswered /\ ShutdownEnds
=============================================================================
