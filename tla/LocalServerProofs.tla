-------------------------- MODULE LocalServerProofs --------------------------
(***************************************************************************)
(* Proofs about the HTTP server, for any workers, requests, shims, ports,  *)
(* threads and keys: the service with its channel and its pool             *)
(* (HttpService), the stdio shims that start and share one (LocalBackend), *)
(* what the searches of its process share (SearchCaches), and the keys by   *)
(* which it knows its callers (SigningKeys).                               *)
(***************************************************************************)
EXTENDS HttpService, LocalBackend, SearchCaches, SigningKeys, FiniteSetTheorems, SequenceTheorems,
        TLAPS

-----------------------------------------------------------------------------
(* The service.  ServiceInv says where each request is: in the channel,     *)
(* with one worker, or at its end; and that a worker which has stopped was   *)
(* told that the channel is closed and empty, which it then stays.           *)

Statuses == {"unsent", "arrived", "queued", "running"} \cup Ended

ServiceTypes ==
  /\ status \in [Requests -> Statuses]
  /\ queue \in Seq(Requests)
  /\ worker \in [Workers -> Requests \cup {NoRequest, "stopped", "panicked"}]
  /\ accept \in {"loop", "draining", "done", "failed"}
  /\ open \in BOOLEAN /\ shuttingDown \in BOOLEAN /\ expired \in BOOLEAN /\ stateFile \in BOOLEAN
  /\ panics \in 0..MaxPanics

\* The channel holds the queued requests, each once.
Channelled ==
  /\ \A i \in DOMAIN queue : status[queue[i]] = "queued"
  /\ \A i, j \in DOMAIN queue : queue[i] = queue[j] => i = j
  /\ \A r \in Requests : status[r] = "queued" => \E i \in DOMAIN queue : queue[i] = r

\* A worker runs the running requests, one each.
AtWork ==
  /\ \A w \in Workers : worker[w] \in Requests /\ ~Over => status[worker[w]] = "running"
  /\ \A v, w \in Workers : worker[v] \in Requests /\ worker[v] = worker[w] => v = w
  /\ \A r \in Requests : status[r] = "running" => \E w \in Workers : worker[w] = r

\* Nothing is sent once the channel is closed, and a worker stops when it is empty then.
Drained ==
  /\ accept = "loop" => open
  /\ \A w \in Workers : worker[w] = "stopped" => ~open /\ queue = <<>>

ServiceInv ==
  /\ ServiceTypes
  /\ Channelled
  /\ AtWork
  /\ Drained

LEMMA ServiceStarts == ServiceInit => ServiceInv
<1> SUFFICES ASSUME ServiceInit
             PROVE  ServiceInv
  OBVIOUS
<1> USE DEF ServiceInit
<1>1. ServiceTypes
  <2>1. queue \in Seq(Requests) /\ panics \in 0..MaxPanics
    BY ServiceConstants
  <2>2. worker \in [Workers -> Requests \cup {NoRequest, "stopped", "panicked"}]
    OBVIOUS
  <2> QED
    BY <2>1, <2>2 DEF ServiceTypes, Statuses
<1>2. Channelled
  BY DEF Channelled
<1>3. AtWork
  BY ServiceConstants DEF AtWork
<1>4. Drained
  BY ServiceConstants DEF Drained
<1> QED
  BY <1>1, <1>2, <1>3, <1>4 DEF ServiceInv

LEMMA DieKeeps ==
  ASSUME ServiceInv, NEW how \in {"done", "failed"}, Die(how), UNCHANGED worker,
         UNCHANGED <<open, shuttingDown, expired, panics>>, stateFile' \in BOOLEAN
  PROVE  ServiceInv'
<1>1. ServiceTypes'
  BY DEF ServiceInv, ServiceTypes, Statuses, Ended, Die
<1>2. \A r \in Requests : status'[r] \notin {"queued", "running"}
  BY DEF ServiceInv, ServiceTypes, Die, Ended
<1>3. Channelled' /\ AtWork'
  BY <1>2 DEF ServiceInv, Channelled, AtWork, Die, Over
<1>4. Drained'
  BY DEF ServiceInv, Drained, Die
<1> QED
  BY <1>1, <1>3, <1>4 DEF ServiceInv

\* Steps that leave the channel and the workers alone.
LEMMA QuietKeeps ==
  ASSUME ServiceInv, UNCHANGED <<queue, worker, panics>>, ServiceTypes', Over' = Over,
         accept' = "loop" => accept = "loop" /\ open', open' => open,
         \A r \in Requests : status'[r] \in {"queued", "running"} <=> status[r] \in {"queued", "running"},
         \A r \in Requests : status[r] \in {"queued", "running"} => status'[r] = status[r]
  PROVE  ServiceInv'
<1>1. Channelled'
  BY DEF ServiceInv, ServiceTypes, Channelled
<1>2. AtWork'
  BY DEF ServiceInv, ServiceTypes, AtWork
<1>3. Drained'
  BY DEF ServiceInv, Drained
<1> QED
  BY <1>1, <1>2, <1>3 DEF ServiceInv

LEMMA EnqueueKeeps ==
  ASSUME ServiceInv, NEW r \in Requests, Enqueue(r)
  PROVE  ServiceInv'
<1> USE DEF Enqueue, Becomes
<1>1. ServiceTypes'
  BY DEF ServiceInv, ServiceTypes, Statuses
<1>2. /\ queue \in Seq(Requests) /\ queue' = Append(queue, r)
      /\ DOMAIN queue' = 1..(Len(queue) + 1)
      /\ \A i \in DOMAIN queue : queue'[i] = queue[i]
      /\ queue'[Len(queue) + 1] = r
  BY DEF ServiceInv, ServiceTypes
<1>3. \A i \in DOMAIN queue : queue[i] # r /\ queue[i] \in Requests
  BY DEF ServiceInv, ServiceTypes, Channelled
<1>4. Channelled'
  <2>1. \A i \in DOMAIN queue' : status'[queue'[i]] = "queued"
    BY <1>2, <1>3 DEF ServiceInv, ServiceTypes, Channelled
  <2>2. \A i, j \in DOMAIN queue' : queue'[i] = queue'[j] => i = j
    BY <1>2, <1>3 DEF ServiceInv, Channelled
  <2>3. \A q \in Requests : status'[q] = "queued" => \E i \in DOMAIN queue' : queue'[i] = q
    BY <1>2 DEF ServiceInv, ServiceTypes, Channelled
  <2> QED
    BY <2>1, <2>2, <2>3 DEF Channelled
<1>5. AtWork'
  BY DEF ServiceInv, ServiceTypes, AtWork, Over
<1>6. Drained'
  BY DEF ServiceInv, Drained, Accepting
<1> QED
  BY <1>1, <1>4, <1>5, <1>6 DEF ServiceInv

LEMMA TakeKeeps ==
  ASSUME ServiceInv, NEW w \in Workers, Take(w)
  PROVE  ServiceInv'
<1> USE DEF Take, Becomes
<1> DEFINE r == Head(queue)
<1>1. /\ queue \in Seq(Requests) /\ queue # <<>> /\ r \in Requests
      /\ r = queue[1] /\ 1 \in DOMAIN queue
      /\ queue' = Tail(queue) /\ queue' \in Seq(Requests)
      /\ DOMAIN queue' = 1..(Len(queue) - 1) /\ DOMAIN queue = 1..Len(queue) /\ Len(queue) \in Nat
      /\ \A i \in DOMAIN queue' : queue'[i] = queue[i + 1] /\ i + 1 \in DOMAIN queue
  BY DEF ServiceInv, ServiceTypes
<1> HIDE DEF r
<1>2. /\ status' = [status EXCEPT ![r] = "running"] /\ worker' = [worker EXCEPT ![w] = r]
      /\ UNCHANGED <<open, accept, shuttingDown, expired, stateFile, panics>>
      /\ worker[w] = NoRequest /\ ~Over
  BY DEF r
<1>3. ServiceTypes'
  BY <1>1, <1>2 DEF ServiceInv, ServiceTypes, Statuses
<1>4. status[r] = "queued"
  BY <1>1 DEF ServiceInv, Channelled
<1>5. Channelled'
  <2>1. \A i \in DOMAIN queue' : queue'[i] # r
    BY <1>1 DEF ServiceInv, Channelled
  <2>2. \A i \in DOMAIN queue' : status'[queue'[i]] = "queued"
    BY <1>1, <1>2, <2>1 DEF ServiceInv, ServiceTypes, Channelled
  <2>3. \A i, j \in DOMAIN queue' : queue'[i] = queue'[j] => i = j
    BY <1>1 DEF ServiceInv, Channelled
  <2>4. ASSUME NEW q \in Requests, status'[q] = "queued"
        PROVE  \E i \in DOMAIN queue' : queue'[i] = q
    <3>1. q # r /\ status[q] = "queued"
      BY <1>2, <2>4, <1>1 DEF ServiceInv, ServiceTypes
    <3>2. PICK i \in DOMAIN queue : queue[i] = q
      BY <3>1 DEF ServiceInv, Channelled
    <3>3. i # 1 /\ i - 1 \in DOMAIN queue'
      BY <1>1, <3>1, <3>2
    <3>4. queue'[i - 1] = q
      BY <1>1, <3>2, <3>3
    <3> QED
      BY <3>3, <3>4
  <2> QED
    BY <2>2, <2>3, <2>4 DEF Channelled
<1>6. AtWork'
  <2>1. \A v \in Workers : worker[v] # r
    BY <1>1, <1>2, <1>4 DEF ServiceInv, AtWork
  <2>2. \A v \in Workers : worker'[v] = IF v = w THEN r ELSE worker[v]
    BY <1>2 DEF ServiceInv, ServiceTypes
  <2>3. \A q \in Requests : status'[q] = IF q = r THEN "running" ELSE status[q]
    BY <1>2 DEF ServiceInv, ServiceTypes
  <2>4. \A q \in Requests : status'[q] = "running" => \E v \in Workers : worker'[v] = q
    <3> SUFFICES ASSUME NEW q \in Requests, status'[q] = "running"
                 PROVE  \E v \in Workers : worker'[v] = q
      OBVIOUS
    <3>1. CASE q = r
      BY <2>2, <3>1
    <3>2. CASE q # r
      <4>1. PICK v \in Workers : worker[v] = q
        BY <2>3, <3>2 DEF ServiceInv, AtWork
      <4>2. v # w
        BY <1>2, <4>1, ServiceConstants
      <4> QED
        BY <2>2, <4>1, <4>2
    <3> QED
      BY <3>1, <3>2
  <2> QED
    BY <1>1, <1>2, <2>1, <2>2, <2>3, <2>4 DEF ServiceInv, AtWork, Over
<1>7. Drained'
  <2>1. \A v \in Workers : worker[v] # "stopped"
    BY <1>1 DEF ServiceInv, Drained
  <2>2. \A v \in Workers : worker'[v] # "stopped"
    BY <1>1, <1>2, <2>1, ServiceConstants DEF ServiceInv, ServiceTypes
  <2> QED
    BY <1>2, <2>2 DEF ServiceInv, Drained
<1> QED
  BY <1>3, <1>5, <1>6, <1>7 DEF ServiceInv

LEMMA RespondKeeps ==
  ASSUME ServiceInv, NEW w \in Workers, Respond(w)
  PROVE  ServiceInv'
<1> USE DEF Respond, Becomes
<1> DEFINE r == worker[w]
<1>1. /\ r \in Requests /\ status[r] = "running"
      /\ \A q \in Requests : status'[q] = IF q = r THEN "answered" ELSE status[q]
      /\ \A v \in Workers : worker'[v] = IF v = w THEN NoRequest ELSE worker[v]
  BY DEF ServiceInv, ServiceTypes, AtWork
<1>2. ServiceTypes'
  BY DEF ServiceInv, ServiceTypes, Statuses, Ended
<1>3. Channelled'
  <2>1. \A i \in DOMAIN queue : queue[i] \in Requests /\ queue[i] # r
    BY <1>1 DEF ServiceInv, ServiceTypes, Channelled
  <2> QED
    BY <1>1, <2>1 DEF ServiceInv, Channelled
<1>4. AtWork'
  BY <1>1, ServiceConstants DEF ServiceInv, ServiceTypes, AtWork, Over
<1>5. Drained'
  BY <1>1, ServiceConstants DEF ServiceInv, Drained
<1> QED
  BY <1>2, <1>3, <1>4, <1>5 DEF ServiceInv

\* A panic takes one request, and leaves the channel as it is.
LEMMA PanicKeeps ==
  ASSUME ServiceInv, NEW w \in Workers, Panic(w)
  PROVE  ServiceInv'
<1> USE DEF Panic, Becomes
<1> DEFINE r == worker[w]
<1>1. /\ r \in Requests /\ status[r] = "running"
      /\ \A q \in Requests : status'[q] = IF q = r THEN "dropped" ELSE status[q]
      /\ \A v \in Workers : worker'[v] = IF v = w THEN "panicked" ELSE worker[v]
  BY DEF ServiceInv, ServiceTypes, AtWork
<1>2. ServiceTypes'
  <2>1. panics' \in 0..MaxPanics
    BY ServiceConstants DEF ServiceInv, ServiceTypes
  <2> QED
    BY <2>1 DEF ServiceInv, ServiceTypes, Statuses, Ended
<1>3. Channelled'
  <2>1. \A i \in DOMAIN queue : queue[i] \in Requests /\ queue[i] # r
    BY <1>1 DEF ServiceInv, ServiceTypes, Channelled
  <2> QED
    BY <1>1, <2>1 DEF ServiceInv, Channelled
<1>4. AtWork'
  BY <1>1, ServiceConstants DEF ServiceInv, ServiceTypes, AtWork, Over
<1>5. Drained'
  BY <1>1 DEF ServiceInv, Drained
<1> QED
  BY <1>2, <1>3, <1>4, <1>5 DEF ServiceInv

\* A worker stops when there is nothing left to come.
LEMMA StopKeeps ==
  ASSUME ServiceInv, NEW w \in Workers, Stop(w)
  PROVE  ServiceInv'
<1>1. /\ \A v \in Workers : worker'[v] = IF v = w THEN "stopped" ELSE worker[v]
      /\ worker[w] = NoRequest /\ queue' = <<>> /\ UNCHANGED <<status, queue, accept>>
  BY DEF Stop, ServiceInv, ServiceTypes
<1>2. ServiceTypes'
  BY DEF Stop, ServiceInv, ServiceTypes
<1>3. Channelled'
  BY <1>1 DEF ServiceInv, Channelled
<1>4. AtWork'
  BY <1>1, ServiceConstants DEF ServiceInv, AtWork, Over
<1>5. Drained'
  BY <1>1 DEF ServiceInv, Drained, Stop
<1> QED
  BY <1>2, <1>3, <1>4, <1>5 DEF ServiceInv

LEMMA ServiceStep == ServiceInv /\ [ServiceNext]_serviceVars => ServiceInv'
<1> SUFFICES ASSUME ServiceInv, [ServiceNext]_serviceVars
             PROVE  ServiceInv'
  OBVIOUS
<1>1. ASSUME NEW r \in Requests, Arrive(r) \/ AnswerProbe(r) \/ Refuse(r)
      PROVE  ServiceInv'
  <2>1. /\ UNCHANGED <<queue, open, worker, accept, shuttingDown, expired, stateFile, panics>>
        /\ status[r] \in {"unsent", "arrived"}
        /\ \E s \in {"arrived", "answered", "refused"} : status' = [status EXCEPT ![r] = s]
    BY <1>1 DEF Arrive, AnswerProbe, Refuse, Becomes
  <2>2. ServiceTypes'
    BY <2>1 DEF ServiceInv, ServiceTypes, Statuses, Ended
  <2>3. /\ \A q \in Requests : status'[q] \in {"queued", "running"} <=> status[q] \in {"queued", "running"}
        /\ \A q \in Requests : status[q] \in {"queued", "running"} => status'[q] = status[q]
    BY <2>1 DEF ServiceInv, ServiceTypes
  <2>4. accept' = "loop" => open
    BY <2>1 DEF ServiceInv, Drained
  <2> QED
    BY <2>1, <2>2, <2>3, <2>4, QuietKeeps DEF Over
<1>3. CASE ListenerFails
  BY <1>3, DieKeeps DEF ListenerFails, ServiceInv, ServiceTypes
<1>4. CASE ShutDown
  BY <1>4, DieKeeps DEF ShutDown
<1>5. CASE Signal \/ CloseChannel \/ GraceEnds
  <2>1. /\ UNCHANGED <<status, queue, worker, panics>> /\ Over' = Over
        /\ accept' = "loop" => accept = "loop" /\ open'
        /\ open' => open
    BY <1>5 DEF Signal, CloseChannel, GraceEnds, Over, ServiceInv, Drained
  <2>2. ServiceTypes'
    BY <1>5 DEF Signal, CloseChannel, GraceEnds, ServiceInv, ServiceTypes
  <2> QED
    BY <2>1, <2>2, QuietKeeps
<1>6. CASE UNCHANGED serviceVars
  BY <1>6 DEF serviceVars, ServiceInv, ServiceTypes, Channelled, AtWork, Over, Drained
<1>7. ASSUME NEW w \in Workers, Take(w) \/ Respond(w) \/ Panic(w) \/ Stop(w)
      PROVE  ServiceInv'
  BY <1>7, TakeKeeps, RespondKeeps, PanicKeeps, StopKeeps
<1>8. ASSUME NEW r \in Requests, Enqueue(r)
      PROVE  ServiceInv'
  BY <1>8, EnqueueKeeps
<1> QED
  BY <1>1, <1>3, <1>4, <1>5, <1>6, <1>7, <1>8 DEF ServiceNext, AcceptThread

LEMMA ServiceInvHolds == ServiceSpec => []ServiceInv
BY ServiceStarts, ServiceStep, PTL DEF ServiceSpec

\* A shutdown that ends before its grace is over, because no worker is left, abandons no request
\* that had been accepted, in the channel or with a worker, but for those in the channel of a
\* service whose workers have all panicked.
THEOREM ShutdownsAreClean == ServiceSpec => CleanShutdown
<1>1. ASSUME ServiceInv, ServiceNext, accept = "draining", accept' = "done", ~expired
      PROVE  /\ \A r \in Requests : status[r] # "running"
             /\ (\E w \in Workers : worker[w] # "panicked") => \A r \in Requests : status[r] # "queued"
  <2>1. ShutDown
    BY <1>1 DEF ServiceNext, AcceptThread, AnswerProbe, Enqueue, Refuse, CloseChannel, Die,
                Arrive, ListenerFails, Signal, GraceEnds, Take, Respond, Panic, Stop, Accepting
  <2>2. \A w \in Workers : worker[w] \in {"stopped", "panicked"}
    BY <1>1, <2>1 DEF ShutDown, Alive
  <2>3. (\E w \in Workers : worker[w] # "panicked") => queue = <<>>
    BY <1>1, <2>2 DEF ServiceInv, Drained
  <2>4. queue = <<>> => \A r \in Requests : status[r] # "queued"
    BY <1>1 DEF ServiceInv, Channelled
  <2>5. \A r \in Requests : status[r] # "running"
    BY <1>1, <2>2, ServiceConstants DEF ServiceInv, AtWork
  <2> QED
    BY <2>3, <2>4, <2>5
<1>2. ServiceInv /\ [ServiceNext]_serviceVars =>
        [accept = "draining" /\ accept' = "done" /\ ~expired =>
           /\ \A r \in Requests : status[r] # "running"
           /\ (\E w \in Workers : worker[w] # "panicked")
                => \A r \in Requests : status[r] # "queued"]_serviceVars
  BY <1>1
<1> QED
  BY <1>2, ServiceInvHolds, PTL DEF ServiceSpec, CleanShutdown

\* What is accepted stays accepted: a request leaves the channel to a worker or with the process, so
\* that no panic of another's handler takes it along; what a worker runs is answered, or
\* dropped by that worker's panic, or lost with the process; nothing is lost before the process ends
\* or becomes of a request whose outcome is known (main.rs 1247-1312).
OneOutcome ==
  [][\A r \in Requests :
       /\ status[r] \in Ended => status'[r] = status[r]
       /\ status[r] = "queued" => status'[r] \in {"queued", "running", "lost"}
       /\ status[r] = "running" => status'[r] \in {"running", "answered", "dropped", "lost"}
       /\ status'[r] = "dropped" /\ status[r] # "dropped"
            => \E w \in Workers : worker[w] = r /\ worker'[w] = "panicked"
       /\ status'[r] = "lost" /\ status[r] # "lost" => Over']_serviceVars

\* OneOutcome, for any requests, workers and panics.
THEOREM OutcomesAreFinal == ServiceSpec => OneOutcome
<1> DEFINE Follows(r) ==
      /\ status[r] \in Ended => status'[r] = status[r]
      /\ status[r] = "queued" => status'[r] \in {"queued", "running", "lost"}
      /\ status[r] = "running" => status'[r] \in {"running", "answered", "dropped", "lost"}
      /\ status'[r] = "dropped" /\ status[r] # "dropped"
           => \E w \in Workers : worker[w] = r /\ worker'[w] = "panicked"
      /\ status'[r] = "lost" /\ status[r] # "lost" => Over'
<1>1. ASSUME ServiceInv, ServiceNext, NEW r \in Requests
      PROVE  Follows(r)
  <2> USE <1>1 DEF Becomes
  <2>0. status'[r] = status[r] => Follows(r)
    BY DEF Ended
  <2>1. ASSUME NEW q \in Requests, Arrive(q) \/ AnswerProbe(q) \/ Refuse(q) \/ Enqueue(q)
        PROVE  Follows(r)
    <3>1. /\ status[q] \in {"unsent", "arrived"}
          /\ \E s \in {"arrived", "answered", "refused", "queued"} : status' = [status EXCEPT ![q] = s]
      BY <2>1 DEF Arrive, AnswerProbe, Refuse, Enqueue
    <3> QED
      BY <2>0, <3>1 DEF ServiceInv, ServiceTypes, Ended
  <2>2. ASSUME NEW how \in {"done", "failed"}, Die(how)
        PROVE  Follows(r)
    <3>1. Over'
      BY <2>2 DEF Die, Over
    <3>2. status'[r] = IF status[r] \in Ended \cup {"unsent"} THEN status[r] ELSE "lost"
      BY <2>2 DEF Die
    <3> QED
      BY <2>0, <3>1, <3>2 DEF Ended
  <2>3. ASSUME NEW w \in Workers, Take(w)
        PROVE  Follows(r)
    <3>1. Head(queue) = queue[1] /\ 1 \in DOMAIN queue /\ Head(queue) \in Requests
      BY <2>3 DEF Take, ServiceInv, ServiceTypes
    <3>2. status[Head(queue)] = "queued"
      BY <3>1 DEF ServiceInv, Channelled
    <3>3. status'[r] = IF r = Head(queue) THEN "running" ELSE status[r]
      BY <2>3 DEF Take, ServiceInv, ServiceTypes
    <3> QED
      BY <2>0, <3>2, <3>3 DEF Ended
  <2>4. ASSUME NEW w \in Workers, Respond(w) \/ Panic(w)
        PROVE  Follows(r)
    <3>1. worker[w] \in Requests /\ status[worker[w]] = "running"
      BY <2>4 DEF Respond, Panic, ServiceInv, AtWork
    <3>2. CASE Respond(w)
      <4>1. status'[r] = IF r = worker[w] THEN "answered" ELSE status[r]
        BY <3>2 DEF Respond, ServiceInv, ServiceTypes
      <4> QED
        BY <2>0, <3>1, <4>1 DEF Ended
    <3>3. CASE Panic(w)
      <4>1. status'[r] = IF r = worker[w] THEN "dropped" ELSE status[r]
        BY <3>3 DEF Panic, ServiceInv, ServiceTypes
      <4>2. worker'[w] = "panicked"
        BY <3>3 DEF Panic, ServiceInv, ServiceTypes
      <4> QED
        BY <2>0, <3>1, <4>1, <4>2 DEF Ended
    <3> QED
      BY <2>4, <3>2, <3>3
  <2>5. ASSUME UNCHANGED status
        PROVE  Follows(r)
    BY <2>0, <2>5
  <2> HIDE DEF Follows
  <2> QED
    BY <2>1, <2>2, <2>3, <2>4, <2>5
    DEF ServiceNext, AcceptThread, CloseChannel, ShutDown, ListenerFails, Signal, GraceEnds, Stop
<1>2. ServiceInv /\ [ServiceNext]_serviceVars => [\A r \in Requests : Follows(r)]_serviceVars
  <2> HIDE DEF Follows
  <2> QED
    BY <1>1
<1> QED
  BY <1>2, ServiceInvHolds, PTL DEF ServiceSpec, OneOutcome

-----------------------------------------------------------------------------
(* The backends.  BackendInv says what SERVER_LOCK protects while nothing   *)
(* but crashes goes wrong: only its holder starts a backend, after it has   *)
(* found that none is alive, and what is alive is what http.json names.     *)

\* The steps of ensure_http_server that hold SERVER_LOCK.
Locked == {"reread", "reprobe", "spawn", "await", "confirm"}

ShimSteps == {"new", "ensure", "probe", "lock", "idle", "post", "repost", "ended"} \cup Locked

BackendStates == {"unused", "starting", "listening", "serving", "saturated", "stopping", "gone"}

BackendTypes ==
  /\ file \in Ports \cup {None}
  /\ backend \in [Ports -> BackendStates]
  /\ parent \in [Ports -> Shims \cup {None}]
  /\ lock \in Shims \cup {None}
  /\ pc \in [Shims -> ShimSteps]
  /\ target \in [Shims -> Ports \cup {None}]
  /\ mode \in [Shims -> {"start", "retry"}]
  /\ posts \in [Shims -> 0..MaxPosts]
  /\ faults \subseteq Faults

\* SERVER_LOCK excludes.
LockHeld == \A s \in Shims : pc[s] \in Locked <=> lock = s

\* Where a shim that has SERVER_LOCK stands.
Finding(s) ==
  /\ pc[s] = "reprobe" => target[s] = file
  /\ pc[s] = "spawn" => \A p \in Ports : ~Live(p)
  /\ pc[s] = "await" => target[s] \in Ports /\ \A p \in Ports \ {target[s]} : ~Live(p)

\* What a backend stands for.
Known(p) ==
  /\ backend[p] \notin {"saturated", "stopping"}
  /\ backend[p] \in {"starting", "listening"} =>
       parent[p] \in Shims /\ pc[parent[p]] = "await" /\ target[parent[p]] = p
  /\ backend[p] = "listening" \/ Live(p) => file = p

\* With no fault but crashes.
Orderly ==
  /\ \A s \in Shims : Finding(s)
  /\ \A p \in Ports : Known(p)

BackendInv ==
  /\ BackendTypes
  /\ LockHeld
  /\ faults \subseteq {"crash"} => Orderly

LEMMA BackendStarts == BackendInit => BackendInv
BY BackendConstants
DEF BackendInit, BackendInv, BackendTypes, LockHeld, Orderly, Finding, Known, Live, ShimSteps, Locked,
    BackendStates

LEMMA BackendTypesKept ==
  ASSUME BackendTypes, [BackendNext]_backendVars
  PROVE  BackendTypes'
<1> USE BackendConstants DEF BackendTypes, To, Aim, Serves, Unlock
<1>1. ASSUME NEW s \in Shims, Launch(s) \/ ReadState(s) \/ LockServer(s) \/ Reread(s)
      PROVE  BackendTypes'
  <2>1. \E step \in {"ensure", "lock", "probe", "reread", "spawn", "reprobe"} : To(s, step)
    BY <1>1 DEF Launch, ReadState, LockServer, Reread
  <2>2. pc' \in [Shims -> ShimSteps]
    BY <2>1 DEF ShimSteps, Locked
  <2>3. lock' \in {lock, s} /\ UNCHANGED <<file, backend, parent, mode, posts, faults>>
    BY <1>1 DEF Launch, ReadState, LockServer, Reread
  <2>4. target' \in {target, [target EXCEPT ![s] = file]}
    BY <1>1 DEF Launch, ReadState, LockServer, Reread
  <2> QED
    BY <2>2, <2>3, <2>4
<1>2. ASSUME NEW s \in Shims, Probe(s) \/ Reprobe(s) \/ Confirm(s) \/ KillShim(s)
      PROVE  BackendTypes'
  <2>1. \E step \in {"idle", "repost", "lock", "spawn", "ended"} : To(s, step)
    BY <1>2 DEF Probe, Reprobe, Confirm, KillShim, Connect
  <2>2. pc' \in [Shims -> ShimSteps]
    BY <2>1 DEF ShimSteps, Locked
  <2>3. lock' \in {lock, None} /\ UNCHANGED <<file, backend, parent, target, mode, posts>>
    BY <1>2 DEF Probe, Reprobe, Confirm, KillShim
  <2>4. faults' \subseteq Faults
    BY <1>2 DEF Probe, Reprobe, Confirm, KillShim, Fault
  <2> QED
    BY <2>2, <2>3, <2>4
<1>3. ASSUME NEW s \in Shims, Spawn(s)
      PROVE  BackendTypes'
  <2>1. PICK p \in Ports : Serves(p, "starting") /\ parent' = [parent EXCEPT ![p] = s] /\ Aim(s, p)
    BY <1>3 DEF Spawn, Free
  <2>2. pc' \in [Shims -> ShimSteps]
    BY <1>3 DEF Spawn, ShimSteps, Locked
  <2>3. /\ backend' \in [Ports -> BackendStates]
        /\ parent' \in [Ports -> Shims \cup {None}]
        /\ target' \in [Shims -> Ports \cup {None}]
    BY <2>1 DEF BackendStates
  <2> QED
    BY <1>3, <2>2, <2>3 DEF Spawn
<1>4. ASSUME NEW s \in Shims, Receive(s) \/ Answered(s) \/ PostFails(s)
      PROVE  BackendTypes'
  <2>1. \E step \in {"post", "idle", "ensure", "ended"} : To(s, step)
    BY <1>4 DEF Receive, Answered, PostFails
  <2>2. pc' \in [Shims -> ShimSteps]
    BY <2>1 DEF ShimSteps
  <2>3. posts' \in [Shims -> 0..MaxPosts]
    BY <1>4 DEF Receive, Answered, PostFails
  <2>4. mode' \in [Shims -> {"start", "retry"}]
    BY <1>4 DEF Receive, Answered, PostFails
  <2> QED
    BY <1>4, <2>2, <2>3, <2>4 DEF Receive, Answered, PostFails
<1>5. ASSUME NEW s \in Shims, Advertise(s) \/ AwaitFails(s)
      PROVE  BackendTypes'
  <2>1. \E step \in {"confirm", "ended"} : To(s, step)
    BY <1>5 DEF Advertise, AwaitFails
  <2>2. pc' \in [Shims -> ShimSteps]
    BY <2>1 DEF ShimSteps, Locked
  <2>3. file' \in {file, target[s]} /\ lock' \in {lock, None}
    BY <1>5 DEF Advertise, AwaitFails
  <2>4. backend' \in {backend, [backend EXCEPT ![target[s]] = "gone"]}
    BY <1>5 DEF Advertise, AwaitFails
  <2>5. backend' \in [Ports -> BackendStates]
    BY <2>4 DEF BackendStates
  <2>6. UNCHANGED <<parent, target, mode, posts, faults>>
    BY <1>5 DEF Advertise, AwaitFails
  <2> QED
    BY <2>2, <2>3, <2>5, <2>6
<1>6. ASSUME NEW p \in Ports,
             \/ Listen(p) \/ EmitReady(p) \/ CatchUp(p) \/ EndStop(p) \/ Crash(p) \/ Saturate(p)
             \/ BeginStop(p)
      PROVE  BackendTypes'
  <2>1. \E b \in {"listening", "gone", "serving", "saturated", "stopping"} : Serves(p, b)
    BY <1>6 DEF Listen, EmitReady, CatchUp, EndStop, Crash, Saturate, BeginStop
  <2>2. backend' \in [Ports -> BackendStates]
    BY <2>1 DEF BackendStates
  <2>3. file' \in {file, p, None} /\ UNCHANGED <<parent, lock, pc, target, mode, posts>>
    BY <1>6 DEF Listen, EmitReady, CatchUp, EndStop, Crash, Saturate, BeginStop
  <2>4. faults' \subseteq Faults
    BY <1>6 DEF Listen, EmitReady, CatchUp, EndStop, Crash, Saturate, BeginStop, Fault
  <2> QED
    BY <2>2, <2>3, <2>4
<1>7. CASE UNCHANGED backendVars
  BY <1>7 DEF backendVars
<1> QED
  BY <1>1, <1>2, <1>3, <1>4, <1>5, <1>6, <1>7 DEF BackendNext, ShimStep, BackendStep

\* SERVER_LOCK is taken when it is free, and given back by whoever leaves the section.
LEMMA LockHeldKept ==
  ASSUME BackendTypes, LockHeld, [BackendNext]_backendVars
  PROVE  LockHeld'
<1> SUFFICES ASSUME NEW u \in Shims
             PROVE  (pc'[u] \in Locked) <=> (lock' = u)
  BY DEF LockHeld
<1> USE BackendConstants DEF To
<1>0. pc \in [Shims -> ShimSteps] /\ (pc[u] \in Locked <=> lock = u) /\ u # None
  BY DEF BackendTypes, LockHeld
<1>1. ASSUME NEW s \in Shims,
             \/ Launch(s) \/ ReadState(s) \/ Probe(s) \/ Receive(s) \/ Answered(s) \/ PostFails(s)
      PROVE  (pc'[u] \in Locked) <=> (lock' = u)
  BY <1>0, <1>1 DEF Launch, ReadState, Probe, Receive, Answered, PostFails, Connect, Locked
<1>2. ASSUME NEW s \in Shims, LockServer(s)
      PROVE  (pc'[u] \in Locked) <=> (lock' = u)
  BY <1>0, <1>2 DEF LockServer, Locked
<1>3. ASSUME NEW s \in Shims, Reread(s) \/ Spawn(s) \/ Advertise(s)
      PROVE  (pc'[u] \in Locked) <=> (lock' = u)
  BY <1>0, <1>3 DEF Reread, Spawn, Advertise, Locked
<1>4. ASSUME NEW s \in Shims, Reprobe(s) \/ AwaitFails(s) \/ Confirm(s) \/ KillShim(s)
      PROVE  (pc'[u] \in Locked) <=> (lock' = u)
  <2>1. pc[s] \in Locked <=> lock = s
    BY DEF LockHeld
  <2> QED
    BY <1>0, <1>4, <2>1 DEF Reprobe, AwaitFails, Confirm, KillShim, Connect, Unlock, Locked
<1>5. ASSUME NEW p \in Ports,
             \/ Listen(p) \/ EmitReady(p) \/ CatchUp(p) \/ EndStop(p) \/ Crash(p) \/ Saturate(p)
             \/ BeginStop(p)
      PROVE  (pc'[u] \in Locked) <=> (lock' = u)
  BY <1>0, <1>5 DEF Listen, EmitReady, CatchUp, EndStop, Crash, Saturate, BeginStop
<1>6. CASE UNCHANGED backendVars
  BY <1>0, <1>6 DEF backendVars
<1> QED
  BY <1>1, <1>2, <1>3, <1>4, <1>5, <1>6 DEF BackendNext, ShimStep, BackendStep

\* One holder of SERVER_LOCK at a time.
LEMMA OneHolder ==
  ASSUME LockHeld, NEW s \in Shims, NEW u \in Shims, pc[s] \in Locked, pc[u] \in Locked
  PROVE  u = s
BY DEF LockHeld

\* While nothing is alive beside what http.json names, nothing is alive when it names nothing,
\* or something that does not answer.
LEMMA NoneAlive ==
  ASSUME \A p \in Ports : Known(p), file = None \/ ~Responds(file)
  PROVE  \A p \in Ports : ~Live(p)
BY BackendConstants DEF Known, Live, Responds

\* A shim's own steps outside the section that starts a backend.
LEMMA OutsideKeeps ==
  ASSUME BackendTypes, Orderly, NEW s \in Shims, UNCHANGED <<file, backend, parent>>,
         pc[s] # "await", pc'[s] \notin {"reprobe", "spawn", "await"},
         \A u \in Shims \ {s} : pc'[u] = pc[u] /\ target'[u] = target[u]
  PROVE  Orderly'
<1>1. ASSUME NEW u \in Shims
      PROVE  Finding(u)'
  <2>1. CASE u = s
    BY <2>1 DEF Finding
  <2>2. CASE u # s
    BY <2>2 DEF Orderly, Finding, Live
  <2> QED
    BY <2>1, <2>2
<1>2. ASSUME NEW p \in Ports
      PROVE  Known(p)'
  BY DEF Orderly, Known, Live
<1> QED
  BY <1>1, <1>2 DEF Orderly

\* A backend that ends, or is killed, leaves no other state behind.
LEMMA GoneKeeps ==
  ASSUME BackendTypes, Orderly, NEW p \in Ports, Serves(p, "gone"), UNCHANGED <<file, parent>>,
         NEW S \in SUBSET Shims, \A u \in Shims \ S : pc'[u] = pc[u] /\ target'[u] = target[u],
         \A u \in S : pc'[u] \notin {"reprobe", "spawn", "await"},
         \A q \in Ports \ {p} : backend[q] \in {"starting", "listening"} => parent[q] \notin S
  PROVE  Orderly'
<1>1. \A q \in Ports : backend'[q] = IF q = p THEN "gone" ELSE backend[q]
  BY DEF BackendTypes, Serves
<1>2. ASSUME NEW u \in Shims
      PROVE  Finding(u)'
  <2>1. CASE u \in S
    BY <2>1 DEF Finding
  <2>2. CASE u \notin S
    BY <1>1, <2>2 DEF Orderly, Finding, Live
  <2> QED
    BY <2>1, <2>2
<1>3. ASSUME NEW q \in Ports
      PROVE  Known(q)'
  <2>1. CASE q = p
    BY <1>1, <2>1 DEF Known, Live
  <2>2. CASE q # p
    BY <1>1, <2>2 DEF Orderly, Known, Live
  <2> QED
    BY <2>1, <2>2
<1> QED
  BY <1>2, <1>3 DEF Orderly

LEMMA ReprobingKeeps ==
  ASSUME BackendInv, Orderly, NEW s \in Shims, Reread(s) \/ Reprobe(s)
  PROVE  Orderly'
<1> USE BackendConstants DEF To
<1>1. /\ UNCHANGED <<file, backend, parent>> /\ pc[s] \in {"reread", "reprobe"}
      /\ \A u \in Shims \ {s} : pc'[u] = pc[u] /\ target'[u] = target[u]
  BY DEF Reread, Reprobe, BackendInv, BackendTypes, Aim, Connect
<1>2. Finding(s)'
  <2>1. CASE Reread(s)
    <3>1. target'[s] = file /\ pc'[s] = IF file = None THEN "spawn" ELSE "reprobe"
      BY <2>1 DEF Reread, Aim, BackendInv, BackendTypes
    <3>2. file = None => \A p \in Ports : ~Live(p)'
      BY <1>1, NoneAlive DEF Orderly, Live
    <3> QED
      BY <1>1, <3>1, <3>2 DEF Finding
  <2>2. CASE Reprobe(s)
    <3>1. target[s] = file /\ pc'[s] \in {"idle", "repost", "spawn"}
      BY <2>2 DEF Reprobe, Connect, Orderly, Finding, BackendInv, BackendTypes
    <3>2. pc'[s] = "spawn" => ~Responds(file)
      BY <2>2, <3>1 DEF Reprobe, Connect, BackendInv, BackendTypes
    <3>3. ~Responds(file) => \A p \in Ports : ~Live(p)'
      BY <1>1, NoneAlive DEF Orderly, Live
    <3> QED
      BY <3>1, <3>2, <3>3 DEF Finding
  <2> QED
    BY <2>1, <2>2
<1>3. ASSUME NEW u \in Shims, u # s
      PROVE  Finding(u)'
  BY <1>1, <1>3 DEF Orderly, Finding, Live
<1>4. ASSUME NEW p \in Ports
      PROVE  Known(p)'
  BY <1>1 DEF Orderly, Known, Live
<1> QED
  BY <1>2, <1>3, <1>4 DEF Orderly

LEMMA SpawnKeeps ==
  ASSUME BackendInv, Orderly, NEW s \in Shims, Spawn(s)
  PROVE  Orderly'
<1>1. PICK p \in Free : Serves(p, "starting") /\ parent' = [parent EXCEPT ![p] = s] /\ Aim(s, p)
  BY DEF Spawn
<1>2. p \in Ports /\ backend[p] = "unused" /\ pc[s] = "spawn" /\ file' = file
  BY <1>1 DEF Free, Spawn
<1>3. /\ \A q \in Ports : backend'[q] = IF q = p THEN "starting" ELSE backend[q]
      /\ \A q \in Ports : parent'[q] = IF q = p THEN s ELSE parent[q]
      /\ \A u \in Shims : target'[u] = IF u = s THEN p ELSE target[u]
      /\ \A u \in Shims : pc'[u] = IF u = s THEN "await" ELSE pc[u]
  BY <1>1, <1>2 DEF Spawn, Serves, Aim, To, BackendInv, BackendTypes
<1>4. \A q \in Ports : ~Live(q)
  BY <1>2 DEF Orderly, Finding
<1>5. ASSUME NEW u \in Shims
      PROVE  Finding(u)'
  <2>1. CASE u = s
    BY <1>2, <1>3, <1>4, <2>1 DEF Finding, Live
  <2>2. CASE u # s
    <3>1. pc[u] \notin Locked
      BY <1>2, <2>2, OneHolder DEF BackendInv, Locked
    <3> QED
      BY <1>3, <2>2, <3>1 DEF Finding, Locked
  <2> QED
    BY <2>1, <2>2
<1>6. ASSUME NEW q \in Ports
      PROVE  Known(q)'
  <2>1. CASE q = p
    BY <1>3, <2>1 DEF Known, Live
  <2>2. CASE q # p
    <3>1. Known(q) /\ ~Live(q)
      BY <1>4 DEF Orderly
    <3>2. backend[q] \notin {"starting", "listening"}
      BY <1>2, <3>1, OneHolder DEF BackendInv, Known, Locked
    <3> QED
      BY <1>3, <2>2, <3>1, <3>2 DEF Known, Live
  <2> QED
    BY <2>1, <2>2
<1> QED
  BY <1>5, <1>6 DEF Orderly

LEMMA AdvertiseKeeps ==
  ASSUME BackendInv, Orderly, NEW s \in Shims, Advertise(s)
  PROVE  Orderly'
<1>1. target[s] \in Ports /\ file' = file
  BY DEF Advertise, Orderly, Finding, Known
<1>2. ASSUME NEW p \in Ports
      PROVE  Known(p)'
  <2>1. Known(p) /\ UNCHANGED <<backend, parent, target>>
    BY DEF Advertise, Orderly
  <2>2. ~(parent[p] = s /\ backend[p] \in {"starting", "listening"})
    BY <2>1 DEF Advertise, Known, Live
  <2>3. \A u \in Shims \ {s} : pc'[u] = pc[u]
    BY DEF Advertise, To, BackendInv, BackendTypes
  <2> QED
    BY <1>1, <2>1, <2>2, <2>3 DEF Known, Live
<1>3. ASSUME NEW u \in Shims
      PROVE  Finding(u)'
  BY <1>1 DEF Advertise, To, BackendInv, BackendTypes, Orderly, Finding, Live
<1> QED
  BY <1>2, <1>3 DEF Orderly

LEMMA AwaitFailsKeeps ==
  ASSUME BackendInv, Orderly, NEW s \in Shims, AwaitFails(s)
  PROVE  Orderly'
<1>1. target[s] \in Ports /\ pc[s] = "await"
  BY DEF AwaitFails, Orderly, Finding
<1>2. ASSUME NEW q \in Ports \ {target[s]}, backend[q] \in {"starting", "listening"}
      PROVE  parent[q] # s
  BY <1>2 DEF Orderly, Known
<1>3. pc'[s] = "ended" /\ \A u \in Shims \ {s} : pc'[u] = pc[u] /\ target'[u] = target[u]
  BY DEF AwaitFails, To, BackendInv, BackendTypes
<1> DEFINE S == {s}
<1>4. /\ S \in SUBSET Shims
      /\ \A u \in Shims \ S : pc'[u] = pc[u] /\ target'[u] = target[u]
      /\ \A u \in S : pc'[u] \notin {"reprobe", "spawn", "await"}
      /\ \A q \in Ports \ {target[s]} : backend[q] \in {"starting", "listening"} => parent[q] \notin S
  BY <1>2, <1>3
<1> HIDE DEF S
<1>5. BackendTypes /\ Serves(target[s], "gone") /\ UNCHANGED <<file, parent>>
  BY DEF AwaitFails, BackendInv
<1> QED
  BY <1>1, <1>4, <1>5, GoneKeeps

\* A backend that listens, or says that it does, is the one its parent awaits.
LEMMA ComingUpKeeps ==
  ASSUME BackendInv, Orderly, NEW p \in Ports, Listen(p) \/ EmitReady(p)
  PROVE  Orderly'
<1> DEFINE s == parent[p]
<1>1. s \in Shims /\ pc[s] = "await" /\ target[s] = p /\ UNCHANGED <<parent, lock, pc, target>>
  BY DEF Listen, EmitReady, Orderly, Known
<1>2. /\ file' = p
      /\ \A q \in Ports \ {p} : backend'[q] = backend[q]
      /\ backend'[p] \in {"listening", "serving"}
  BY <1>1 DEF Listen, EmitReady, Serves, BackendInv, BackendTypes, Orderly, Known
<1>3. ASSUME NEW u \in Shims, pc[u] \in Locked
      PROVE  u = s
  BY <1>1, <1>3, OneHolder DEF BackendInv, Locked
<1>4. ASSUME NEW q \in Ports, q # p
      PROVE  ~Live(q) /\ backend[q] \notin {"starting", "listening", "saturated", "stopping"}
  <2>1. ~Live(q)
    BY <1>1, <1>4 DEF Orderly, Finding
  <2>2. backend[q] \notin {"starting", "listening"}
    BY <1>1, <1>3, <1>4 DEF Orderly, Known, Locked
  <2> QED
    BY <2>1, <2>2 DEF Orderly, Known
<1>5. ASSUME NEW u \in Shims
      PROVE  Finding(u)'
  <2>1. CASE u = s
    BY <1>1, <1>2, <1>4, <2>1 DEF Finding, Live
  <2>2. CASE u # s
    BY <1>1, <1>3, <2>2 DEF Finding, Locked
  <2> QED
    BY <2>1, <2>2
<1>6. ASSUME NEW q \in Ports
      PROVE  Known(q)'
  <2>1. CASE q = p
    BY <1>1, <1>2, <2>1 DEF Known, Live
  <2>2. CASE q # p
    BY <1>2, <1>4, <2>2 DEF Known, Live
  <2> QED
    BY <2>1, <2>2
<1> QED
  BY <1>5, <1>6 DEF Orderly

LEMMA OrderlyKept ==
  ASSUME BackendInv, [BackendNext]_backendVars, faults' \subseteq {"crash"}
  PROVE  Orderly'
<1>1. faults \subseteq faults'
  BY DEF BackendNext, ShimStep, BackendStep, Launch, Receive, KillShim, ReadState, Probe, LockServer,
         Reread, Reprobe, Spawn, Advertise, AwaitFails, Confirm, Answered, PostFails, Listen,
         EmitReady, CatchUp, EndStop, Crash, Saturate, BeginStop, Fault, backendVars
<1>2. Orderly /\ BackendTypes
  BY <1>1 DEF BackendInv
<1>3. ASSUME NEW s \in Shims,
             \/ Launch(s) \/ ReadState(s) \/ Probe(s) \/ LockServer(s) \/ Receive(s) \/ Answered(s)
             \/ PostFails(s) \/ Confirm(s)
      PROVE  Orderly'
  <2>1. /\ UNCHANGED <<file, backend, parent>>
        /\ pc[s] # "await" /\ pc'[s] \notin {"reprobe", "spawn", "await"}
    BY <1>2, <1>3 DEF Launch, ReadState, Probe, LockServer, Receive, Answered, PostFails, Confirm,
                      Connect, To, BackendTypes
  <2>2. \A u \in Shims \ {s} : pc'[u] = pc[u] /\ target'[u] = target[u]
    BY <1>2, <1>3 DEF Launch, ReadState, Probe, LockServer, Receive, Answered, PostFails, Confirm,
                      Connect, To, Aim, BackendTypes
  <2> QED
    BY <1>2, <2>1, <2>2, OutsideKeeps
<1>4. ASSUME NEW p \in Ports, Crash(p)
      PROVE  Orderly'
  <2>1. /\ {} \in SUBSET Shims /\ \A u \in {} : pc'[u] \notin {"reprobe", "spawn", "await"}
        /\ \A u \in Shims \ {} : pc'[u] = pc[u] /\ target'[u] = target[u]
        /\ \A q \in Ports \ {p} : backend[q] \in {"starting", "listening"} => parent[q] \notin {}
    BY <1>4 DEF Crash
  <2>2. Serves(p, "gone") /\ UNCHANGED <<file, parent>>
    BY <1>4 DEF Crash
  <2> QED
    BY <1>2, <2>1, <2>2, GoneKeeps
<1>5. ASSUME NEW p \in Ports, CatchUp(p) \/ EndStop(p) \/ Saturate(p) \/ BeginStop(p)
      PROVE  FALSE
  BY <1>2, <1>5 DEF CatchUp, EndStop, Saturate, BeginStop, Fault, Orderly, Known
<1>6. ASSUME NEW s \in Shims, KillShim(s)
      PROVE  FALSE
  BY <1>6 DEF KillShim, Fault
<1>7. CASE UNCHANGED backendVars
  BY <1>2, <1>7 DEF backendVars, Orderly, Finding, Known, Live
<1> QED
  BY <1>2, <1>3, <1>4, <1>5, <1>6, <1>7, ReprobingKeeps, SpawnKeeps, AdvertiseKeeps,
     AwaitFailsKeeps, ComingUpKeeps DEF BackendNext, ShimStep, BackendStep

LEMMA BackendInvHolds == BackendSpec => []BackendInv
<1>1. BackendInv /\ [BackendNext]_backendVars => BackendInv'
  BY BackendTypesKept, LockHeldKept, OrderlyKept DEF BackendInv
<1> QED
  BY <1>1, BackendStarts, PTL DEF BackendSpec

\* However shims race to start a backend, or to replace one that crashed, no second one serves.
THEOREM AlwaysOneBackend == BackendSpec => []OneBackend
<1>1. BackendInv => OneBackend
  <2> SUFFICES ASSUME BackendInv, faults \subseteq {"crash"}
               PROVE  Cardinality({p \in Ports : Live(p)}) <= 1
    BY DEF OneBackend
  <2>1. {p \in Ports : Live(p)} = {} \/ {p \in Ports : Live(p)} = {file}
    BY DEF BackendInv, Orderly, Known
  <2>2. Cardinality({}) = 0 /\ Cardinality({file}) = 1
    BY FS_EmptySet, FS_Singleton
  <2> QED
    BY <2>1, <2>2
<1> QED
  BY <1>1, BackendInvHolds, PTL

\* SERVER_LOCK is held exactly by the shim in the section it protects, whatever faults happen:
\* it is free once that shim has connected, failed, ended or been killed.
THEOREM ServerLockExcludes == BackendSpec => []LockHeld
<1>1. BackendInv => LockHeld
  BY DEF BackendInv
<1> QED
  BY <1>1, BackendInvHolds, PTL
-----------------------------------------------------------------------------
(* The caches of a process.  CacheInv says of each search how the index it   *)
(* holds stands to the one in its place, which thread checks vectors or      *)
(* fills a cell, that an entry has the cell of its own filter, and that no   *)
(* filter lost its entry while there was room for all.                       *)

Places ==
  {"idle", "lexical", "hash", "open", "verify", "insert", "ready", "check", "eligible", "cell",
   "fill", "answered", "failed"}
SearchRecords ==
  [at : Places, source : Sources, filter : Filters, first : Nat, seal : Nat,
   opened : [stamp : Nat, sound : BOOLEAN], full : BOOLEAN, cell : Nat]
CellRecords ==
  [key : Sources \X Filters, state : {"empty", "rows", "failed"}, fillers : SUBSET Threads]
EntryRecords == [key : Sources \X Filters, cell : Nat]

CacheTypeOK ==
  /\ files \in [Sources -> [stamp : Nat, sound : BOOLEAN]]
  /\ seals \in [Sources -> Nat]
  /\ ready \in [Sources -> {"unknown", "ready", "failed"}]
  /\ checking \in SUBSET Threads
  /\ entries \in Seq(EntryRecords)
  /\ cells \in Seq(CellRecords)
  /\ searches \in [Threads -> SearchRecords]

\* The index a source began with is the manifest's, and so is one that was verified as long as
\* no other is in its place.
FilesKnown ==
  \A s \in Sources :
    /\ files[s].stamp >= 1 /\ seals[s] <= files[s].stamp
    /\ files[s].stamp = 1 => files[s].sound
    /\ seals[s] = files[s].stamp => files[s].sound

\* The index that a search holds is at least as new as the one it began with, and is the
\* manifest's if it was hashed or known; the one it opens by path is that or a newer one.
Holding == {"hash", "open", "verify", "insert", "ready", "check", "eligible", "cell", "fill", "answered"}
Verified == {"insert", "ready", "check", "eligible", "cell", "fill", "answered"}
IndexHeld(t) ==
  LET search == searches[t]
      index == files[search.source]
  IN /\ search.at \in Holding \cup {"lexical"} => search.first >= 1 /\ search.first <= index.stamp
     /\ search.at \in Holding => search.first <= search.seal /\ search.seal <= index.stamp
     /\ search.at \in Holding \ {"hash"} => (index.stamp = search.seal => index.sound)
     /\ search.at = "verify" => search.full
     /\ search.at \in Verified \cup {"verify"} =>
          /\ search.opened.stamp <= index.stamp
          /\ ~search.opened.sound => search.opened.stamp > search.seal
     /\ search.at \in Verified => (~search.opened.sound => ~search.full)

\* The one thread that checks the vectors holds the lock, and what it checks is unknown.
CheckExclusive ==
  /\ \A t \in Threads : At(t, "check") <=> t \in checking
  /\ \A t, u \in checking : t = u
  /\ \A t \in checking : ready[SourceOf(t)] = "unknown"

\* A thread that fills a cell is the only one, and the cell is empty; every thread at a cell
\* has one, with its own key.
CellsFilled ==
  /\ \A t \in Threads : searches[t].at \in {"cell", "fill"} => searches[t].cell # 0
  /\ \A t \in Threads : searches[t].cell # 0 =>
       searches[t].cell \in DOMAIN cells /\ cells[searches[t].cell].key = KeyOf(t)
  /\ \A t \in Threads : At(t, "fill") => cells[searches[t].cell].fillers = {t}
  /\ \A i \in DOMAIN cells : \A t \in cells[i].fillers :
       At(t, "fill") /\ searches[t].cell = i /\ cells[i].state = "empty"

\* An entry has the cell of its filter; no filter has two entries.
EntriesOwn ==
  /\ \A i \in DOMAIN entries :
       entries[i].cell \in DOMAIN cells /\ cells[entries[i].cell].key = entries[i].key
  /\ \A i, j \in DOMAIN entries : entries[i].key = entries[j].key => i = j
  /\ Len(entries) <= CacheCapacity

\* While there is room for all the filters that were asked for, none has lost its entry.
KeysSeen == {cells[i].key : i \in DOMAIN cells}
NoneEvicted ==
  Cardinality(KeysSeen) <= CacheCapacity =>
    /\ \A i \in DOMAIN cells : \E j \in DOMAIN entries : entries[j].key = cells[i].key
    /\ \A i, j \in DOMAIN cells : cells[i].key = cells[j].key => i = j

CacheInv ==
  /\ CacheTypeOK /\ FilesKnown /\ CheckExclusive /\ CellsFilled /\ EntriesOwn /\ NoneEvicted
  /\ \A t \in Threads : IndexHeld(t)
  /\ FailureHasCause
-----------------------------------------------------------------------------
LEMMA SearchTypes ==
  ASSUME CacheInv, NEW t \in Threads
  PROVE  /\ searches[t] \in SearchRecords
         /\ SourceOf(t) \in Sources /\ FileOf(t) \in [stamp : Nat, sound : BOOLEAN]
         /\ seals[SourceOf(t)] \in Nat
         /\ KeyOf(t) \in Sources \X Filters
BY DEF CacheInv, CacheTypeOK, SearchRecords, SourceOf, FileOf, KeyOf

LEMMA CellTypes ==
  ASSUME CacheInv, NEW i \in DOMAIN cells
  PROVE  cells[i] \in CellRecords /\ i \in 1 .. Len(cells)
BY DEF CacheInv, CacheTypeOK

LEMMA NoSearchType ==
  NoSearch \in SearchRecords /\ NoSearch.at = "idle" /\ NoSearch.cell = 0
BY CacheConstants DEF CacheConstants, NoSearch, SearchRecords, Places

LEMMA CacheStarts == CacheInit => CacheInv
<1> SUFFICES ASSUME CacheInit PROVE CacheInv
  OBVIOUS
<1>1. NoSearch \in SearchRecords
  BY NoSearchType
<1>2. CacheTypeOK
  <2>1. seals \in [Sources -> Nat]
    BY DEF CacheInit
  <2>2. files \in [Sources -> [stamp : Nat, sound : BOOLEAN]]
    BY DEF CacheInit
  <2>3. searches \in [Threads -> SearchRecords]
    BY <1>1 DEF CacheInit
  <2>4. QED
    BY <2>1, <2>2, <2>3 DEF CacheInit, CacheTypeOK
<1>3. FilesKnown
  BY DEF CacheInit, FilesKnown
<1>4. \A t \in Threads : searches[t].at = "idle" /\ searches[t].cell = 0
  BY DEF CacheInit, NoSearch
<1>5. CheckExclusive
  BY <1>4 DEF CacheInit, CheckExclusive, At
<1>6. CellsFilled /\ EntriesOwn /\ NoneEvicted
  BY <1>4, CacheConstants DEF CacheInit, CellsFilled, EntriesOwn, NoneEvicted, At, CacheConstants
<1>7. \A t \in Threads : IndexHeld(t)
  BY <1>4 DEF IndexHeld, Holding, Verified
<1>8. FailureHasCause
  BY <1>4 DEF FailureHasCause, At
<1>9. QED
  BY <1>2, <1>3, <1>5, <1>6, <1>7, <1>8 DEF CacheInv
-----------------------------------------------------------------------------
(* The index *)

\* A file that is put in the place of an index is newer than all that was known of it.
LEMMA ReplaceKeeps ==
  ASSUME CacheInv, NEW s \in Sources, Replace(s)
  PROVE  CacheInv'
<1>1. PICK sound \in BOOLEAN :
        files' = [files EXCEPT ![s] = [stamp |-> files[s].stamp + 1, sound |-> sound]]
  BY DEF Replace
<1>2. UNCHANGED <<seals, ready, checking, entries, cells, searches, begun, passing>>
  BY DEF Replace
<1>3. files \in [Sources -> [stamp : Nat, sound : BOOLEAN]] /\ seals \in [Sources -> Nat]
  BY DEF CacheInv, CacheTypeOK
<1>4. /\ files'[s].stamp = files[s].stamp + 1
      /\ \A r \in Sources \ {s} : files'[r] = files[r]
      /\ files' \in [Sources -> [stamp : Nat, sound : BOOLEAN]]
  BY <1>1, <1>3
<1>5. CacheTypeOK'
  BY <1>2, <1>4 DEF CacheInv, CacheTypeOK
<1>6. FilesKnown'
  BY <1>2, <1>3, <1>4 DEF CacheInv, FilesKnown
<1>7. ASSUME NEW t \in Threads PROVE IndexHeld(t)'
  <2>1. searches[t] \in SearchRecords /\ searches'[t] = searches[t]
    BY <1>2, SearchTypes
  <2>2. CASE searches[t].source = s
    BY <1>3, <1>4, <2>1, <2>2 DEF CacheInv, IndexHeld, SearchRecords
  <2>3. CASE searches[t].source # s
    BY <1>4, <2>1, <2>3 DEF CacheInv, IndexHeld, SearchRecords
  <2>4. QED
    BY <2>2, <2>3
<1>8. FailureHasCause'
  <2>1. ASSUME NEW r \in Sources, files[r].stamp > 1 PROVE files'[r].stamp > 1
    BY <1>3, <1>4, <2>1
  <2>2. QED
    BY <1>2, <2>1, SearchTypes DEF CacheInv, FailureHasCause, At, SourceOf, SearchRecords
<1>9. CheckExclusive' /\ CellsFilled' /\ EntriesOwn' /\ NoneEvicted'
  BY <1>2 DEF CacheInv, CheckExclusive, CellsFilled, EntriesOwn, NoneEvicted, At, SourceOf, KeyOf,
              KeysSeen
<1>10. QED
  BY <1>5, <1>6, <1>7, <1>8, <1>9 DEF CacheInv

\* The others are where they were.
Alone(t) ==
  /\ searches' \in [Threads -> SearchRecords]
  /\ \A u \in Threads \ {t} : searches'[u] = searches[u]

\* A step of a search that touches neither the lock nor a cell.
IndexStep(t) ==
  LET search == searches[t]
      after == searches'[t]
  IN /\ Alone(t)
     /\ search.at \notin {"check", "fill"} /\ after.at \notin {"check", "cell", "fill"}
     /\ after.cell # 0 =>
          after.cell = search.cell /\ after.source = search.source /\ after.filter = search.filter
     /\ UNCHANGED <<files, ready, checking, entries, cells>>

LEMMA IndexStepKeeps ==
  ASSUME CacheInv, NEW t \in Threads, IndexStep(t), IndexHeld(t)',
         seals' \in [Sources -> Nat], FilesKnown',
         At(t, "failed")' => files[SourceOf(t)'].stamp > 1 \/ ready[SourceOf(t)'] = "failed"
  PROVE  CacheInv'
<1>1. /\ Alone(t)
      /\ UNCHANGED <<files, ready, checking, entries, cells>>
  BY DEF IndexStep
<1>2. CacheTypeOK'
  BY <1>1 DEF CacheInv, CacheTypeOK, Alone
<1>3. CheckExclusive'
  <2>1. \A u \in Threads : At(u, "check")' <=> At(u, "check")
    BY <1>1 DEF IndexStep, Alone, At
  <2>2. \A u \in checking : u \in Threads /\ u # t
    BY DEF CacheInv, CacheTypeOK, CheckExclusive, IndexStep, At
  <2>3. \A u \in checking : SourceOf(u)' = SourceOf(u)
    BY <1>1, <2>2 DEF Alone, SourceOf
  <2>4. QED
    BY <1>1, <2>1, <2>3 DEF CacheInv, CheckExclusive
<1>4. CellsFilled'
  <2>1. \A u \in Threads : searches'[u].at \in {"cell", "fill"} => searches'[u].cell # 0
    BY <1>1 DEF IndexStep, Alone, CacheInv, CellsFilled
  <2>2. \A u \in Threads : searches'[u].cell # 0 =>
          searches'[u].cell \in DOMAIN cells /\ cells[searches'[u].cell].key = KeyOf(u)'
    BY <1>1 DEF IndexStep, Alone, CacheInv, CellsFilled, KeyOf, SourceOf
  <2>3. \A u \in Threads : At(u, "fill")' => u # t /\ cells[searches'[u].cell].fillers = {u}
    BY <1>1 DEF IndexStep, Alone, CacheInv, CellsFilled, At
  <2>4. ASSUME NEW i \in DOMAIN cells, NEW u \in cells[i].fillers
        PROVE  At(u, "fill")' /\ searches'[u].cell = i /\ cells[i].state = "empty"
    <3>1. u \in Threads
      BY CellTypes DEF CellRecords
    <3>2. QED
      BY <1>1, <3>1 DEF IndexStep, Alone, CacheInv, CellsFilled, At
  <2>5. QED
    BY <1>1, <2>1, <2>2, <2>3, <2>4 DEF CellsFilled
<1>5. EntriesOwn' /\ NoneEvicted'
  BY <1>1 DEF CacheInv, EntriesOwn, NoneEvicted, KeysSeen
<1>6. ASSUME NEW u \in Threads, u # t PROVE IndexHeld(u)'
  BY <1>1, <1>6 DEF CacheInv, IndexHeld, Alone
<1>7. FailureHasCause'
  BY <1>1 DEF CacheInv, FailureHasCause, Alone, At, SourceOf
<1>8. QED
  BY <1>2, <1>3, <1>4, <1>5, <1>6, <1>7 DEF CacheInv

LEMMA GoesAlone ==
  ASSUME CacheInv, NEW t \in Threads
  PROVE  \A search \in SearchRecords : Goes(t, search) => Alone(t) /\ searches'[t] = search
BY DEF CacheInv, CacheTypeOK, Goes, Alone

\* A search that goes to a place changes nothing else of itself.
LEMMA GoesToAlone ==
  ASSUME CacheInv, NEW t \in Threads, NEW place \in Places, GoesTo(t, place)
  PROVE  /\ Alone(t) /\ searches'[t] = [searches[t] EXCEPT !.at = place]
         /\ searches'[t].at = place /\ searches'[t].cell = searches[t].cell
         /\ KeyOf(t)' = KeyOf(t) /\ SourceOf(t)' = SourceOf(t)
<1> DEFINE after == [searches[t] EXCEPT !.at = place]
<1>1. searches[t] \in SearchRecords
  BY SearchTypes
<1>2. after \in SearchRecords
  BY <1>1 DEF SearchRecords
<1>3. Alone(t) /\ searches'[t] = after
  BY <1>2, GoesAlone DEF GoesTo
<1>4. /\ after.at = place /\ after.cell = searches[t].cell
      /\ after.source = searches[t].source /\ after.filter = searches[t].filter
  BY <1>1 DEF SearchRecords
<1>5. QED
  BY <1>3, <1>4 DEF KeyOf, SourceOf

LEMMA BeginKeeps ==
  ASSUME CacheInv, NEW t \in Threads, Begin(t)
  PROVE  CacheInv'
<1>1. PICK s \in Sources, f \in Filters :
        Goes(t, [NoSearch EXCEPT !.at = "lexical", !.source = s, !.filter = f, !.first = files[s].stamp])
  BY DEF Begin
<1> DEFINE after == [NoSearch EXCEPT !.at = "lexical", !.source = s, !.filter = f,
                                     !.first = files[s].stamp]
<1>2. files[s].stamp \in Nat /\ files[s].stamp >= 1
  BY DEF CacheInv, CacheTypeOK, FilesKnown
<1>3. /\ after.at = "lexical" /\ after.cell = 0 /\ after.source = s /\ after.first = files[s].stamp
      /\ after \in SearchRecords
  BY <1>2, NoSearchType DEF SearchRecords, Places
<1>5. Alone(t) /\ searches'[t] = after
  BY <1>1, <1>3, GoesAlone
<1>6. UNCHANGED <<files, seals, ready, checking, entries, cells>>
  BY DEF Begin
<1>7. /\ searches'[t].at = "lexical" /\ searches'[t].cell = 0 /\ searches'[t].source = s
      /\ searches'[t].first = files[s].stamp
  BY <1>3, <1>5
<1>8. IndexStep(t)
  BY <1>5, <1>6, <1>7 DEF IndexStep, Begin, At
<1>9. IndexHeld(t)'
  BY <1>2, <1>6, <1>7 DEF IndexHeld, Holding, Verified
<1>10. seals' \in [Sources -> Nat] /\ FilesKnown' /\ ~At(t, "failed")'
  BY <1>6, <1>7 DEF CacheInv, CacheTypeOK, FilesKnown, At
<1>11. QED
  BY <1>8, <1>9, <1>10, IndexStepKeeps

LEMMA CaptureKeeps ==
  ASSUME CacheInv, NEW t \in Threads, Capture(t)
  PROVE  CacheInv'
<1> DEFINE known == seals[SourceOf(t)]
           stamp == FileOf(t).stamp
           place == IF known = 0 THEN "hash" ELSE IF known = stamp THEN "open" ELSE "failed"
           after == [searches[t] EXCEPT !.seal = stamp, !.full = (known = 0), !.at = place]
<1>1. /\ searches[t] \in SearchRecords /\ SourceOf(t) \in Sources
      /\ known \in Nat /\ stamp \in Nat /\ (known = 0) \in BOOLEAN
  BY SearchTypes
<1>2. Goes(t, after)
  BY DEF Capture
<1>3. place \in Places
  BY DEF Places
<1>4. after \in SearchRecords
  <2> HIDE DEF known, stamp, place
  <2> QED
    BY <1>1, <1>3 DEF SearchRecords
<1>5. /\ after.at = place /\ after.seal = stamp /\ after.full = (known = 0)
      /\ after.first = searches[t].first /\ after.source = searches[t].source
      /\ after.filter = searches[t].filter /\ after.cell = searches[t].cell
  <2> HIDE DEF known, stamp, place
  <2> QED
    BY <1>1 DEF SearchRecords
<1>6. Alone(t) /\ searches'[t] = after
  BY <1>2, <1>4, GoesAlone
<1>7. UNCHANGED <<files, seals, ready, checking, entries, cells>> /\ searches[t].at = "lexical"
  BY DEF Capture, At
<1> HIDE DEF after
<1>8. IndexStep(t)
  BY <1>5, <1>6, <1>7 DEF IndexStep
<1>9. files[SourceOf(t)].stamp >= 1 /\ (known = stamp => files[SourceOf(t)].sound)
      /\ known <= stamp /\ searches[t].first <= stamp /\ searches[t].first >= 1
  BY <1>1, <1>7 DEF CacheInv, FilesKnown, IndexHeld, FileOf, SourceOf, Holding
<1>10. IndexHeld(t)'
  BY <1>1, <1>5, <1>6, <1>7, <1>9 DEF IndexHeld, Holding, Verified, SourceOf, FileOf, SearchRecords
<1>11. seals' \in [Sources -> Nat] /\ FilesKnown'
  BY <1>7 DEF CacheInv, CacheTypeOK, FilesKnown
<1>12. At(t, "failed")' => files[SourceOf(t)'].stamp > 1
  BY <1>1, <1>5, <1>6, <1>9 DEF At, SourceOf, FileOf
<1>13. QED
  BY <1>8, <1>10, <1>11, <1>12, IndexStepKeeps

LEMMA HashKeeps ==
  ASSUME CacheInv, NEW t \in Threads, Hash(t)
  PROVE  CacheInv'
<1> DEFINE place == IF FileOf(t).sound /\ FileOf(t).stamp = searches[t].seal THEN "open" ELSE "failed"
<1>1. searches[t] \in SearchRecords /\ SourceOf(t) \in Sources
  BY SearchTypes
<1>2. place \in Places /\ GoesTo(t, place)
  BY DEF Hash, Places
<1>3. UNCHANGED <<files, seals, ready, checking, entries, cells>> /\ searches[t].at = "hash"
  BY DEF Hash, At
<1>4. /\ Alone(t) /\ searches'[t] = [searches[t] EXCEPT !.at = place]
      /\ searches'[t].at = place /\ searches'[t].cell = searches[t].cell
      /\ SourceOf(t)' = SourceOf(t) /\ KeyOf(t)' = KeyOf(t)
  BY <1>2, GoesToAlone
<1>5. /\ searches'[t].first = searches[t].first /\ searches'[t].seal = searches[t].seal
      /\ searches'[t].source = searches[t].source /\ searches'[t].filter = searches[t].filter
  BY <1>1, <1>4 DEF SearchRecords
<1>6. IndexStep(t)
  BY <1>3, <1>4, <1>5 DEF IndexStep
<1>7. IndexHeld(t)
  BY DEF CacheInv
<1>8. IndexHeld(t)'
  BY <1>1, <1>3, <1>4, <1>5, <1>7 DEF IndexHeld, Holding, Verified, FileOf, SourceOf
<1>9. seals' \in [Sources -> Nat] /\ FilesKnown'
  BY <1>3 DEF CacheInv, CacheTypeOK, FilesKnown
<1>10. At(t, "failed")' => files[SourceOf(t)'].stamp > 1
  <2>1. files[SourceOf(t)].stamp \in Nat /\ files[SourceOf(t)].stamp >= 1
    BY <1>1 DEF CacheInv, CacheTypeOK, FilesKnown
  <2>2. files[SourceOf(t)].stamp = 1 => files[SourceOf(t)].sound
    BY <1>1 DEF CacheInv, FilesKnown
  <2>3. searches[t].seal >= 1 /\ searches[t].seal <= files[SourceOf(t)].stamp /\ searches[t].seal \in Nat
    BY <1>1, <1>3, <1>7 DEF IndexHeld, Holding, SourceOf, SearchRecords
  <2>4. QED
    BY <1>4, <2>1, <2>2, <2>3 DEF At, FileOf
<1>11. QED
  BY <1>6, <1>8, <1>9, <1>10, IndexStepKeeps

LEMMA OpenKeeps ==
  ASSUME CacheInv, NEW t \in Threads, Open(t)
  PROVE  CacheInv'
<1> DEFINE place == IF searches[t].full THEN "verify" ELSE "ready"
           after == [searches[t] EXCEPT !.opened = FileOf(t), !.at = place]
<1>1. /\ searches[t] \in SearchRecords /\ SourceOf(t) \in Sources
      /\ FileOf(t) \in [stamp : Nat, sound : BOOLEAN]
  BY SearchTypes
<1>2. UNCHANGED <<files, seals, ready, checking, entries, cells>> /\ searches[t].at = "open"
  BY DEF Open, At
<1>3. seals' \in [Sources -> Nat] /\ FilesKnown'
  BY <1>2 DEF CacheInv, CacheTypeOK, FilesKnown
<1>4. IndexHeld(t)
  BY DEF CacheInv
<1>5. CASE Goes(t, after)
  <2>1. after \in SearchRecords
    BY <1>1 DEF SearchRecords, Places
  <2>2. /\ after.at = place /\ after.seal = searches[t].seal /\ after.full = searches[t].full
        /\ after.first = searches[t].first /\ after.source = searches[t].source
        /\ after.filter = searches[t].filter /\ after.cell = searches[t].cell
        /\ after.opened = FileOf(t)
    BY <1>1 DEF SearchRecords
  <2>3. Alone(t) /\ searches'[t] = after
    BY <1>5, <2>1, GoesAlone
  <2> HIDE DEF after
  <2>4. IndexStep(t)
    BY <1>2, <2>2, <2>3 DEF IndexStep
  <2>5. IndexHeld(t)'
    BY <1>1, <1>2, <1>4, <2>2, <2>3 DEF IndexHeld, Holding, Verified, FileOf, SourceOf, SearchRecords
  <2>6. ~At(t, "failed")'
    BY <2>2, <2>3 DEF At
  <2>7. QED
    BY <1>3, <2>4, <2>5, <2>6, IndexStepKeeps
<1>6. CASE ~FileOf(t).sound /\ GoesTo(t, "failed")
  <2>1. /\ Alone(t) /\ searches'[t].at = "failed" /\ searches'[t].cell = searches[t].cell
        /\ SourceOf(t)' = SourceOf(t) /\ KeyOf(t)' = KeyOf(t)
    BY <1>6, GoesToAlone DEF Places
  <2>2. IndexStep(t)
    BY <1>2, <2>1 DEF IndexStep, KeyOf, SourceOf
  <2>3. IndexHeld(t)'
    BY <2>1 DEF IndexHeld, Holding, Verified
  <2>4. files[SourceOf(t)'].stamp > 1
    BY <1>1, <1>6, <2>1 DEF CacheInv, CacheTypeOK, FilesKnown, FileOf
  <2>5. QED
    BY <1>3, <2>2, <2>3, <2>4, IndexStepKeeps
<1>7. QED
  BY <1>5, <1>6 DEF Open

LEMMA SealKeeps ==
  ASSUME CacheInv, NEW t \in Threads, Seal(t)
  PROVE  CacheInv'
<1> DEFINE place == IF FileOf(t).stamp = searches[t].seal THEN "insert" ELSE "failed"
<1>1. searches[t] \in SearchRecords /\ SourceOf(t) \in Sources
      /\ FileOf(t) \in [stamp : Nat, sound : BOOLEAN]
  BY SearchTypes
<1>2. place \in Places /\ GoesTo(t, place)
  BY DEF Seal, Places
<1>3. UNCHANGED <<files, seals, ready, checking, entries, cells>> /\ searches[t].at = "verify"
  BY DEF Seal, At
<1>4. /\ Alone(t) /\ searches'[t] = [searches[t] EXCEPT !.at = place]
      /\ searches'[t].at = place /\ searches'[t].cell = searches[t].cell
      /\ SourceOf(t)' = SourceOf(t) /\ KeyOf(t)' = KeyOf(t)
  BY <1>2, GoesToAlone
<1>5. /\ searches'[t].first = searches[t].first /\ searches'[t].seal = searches[t].seal
      /\ searches'[t].source = searches[t].source /\ searches'[t].filter = searches[t].filter
      /\ searches'[t].opened = searches[t].opened /\ searches'[t].full = searches[t].full
  BY <1>1, <1>4 DEF SearchRecords
<1>6. IndexStep(t)
  BY <1>3, <1>4, <1>5 DEF IndexStep
<1>7. IndexHeld(t)
  BY DEF CacheInv
<1>8. IndexHeld(t)'
  BY <1>1, <1>3, <1>4, <1>5, <1>7 DEF IndexHeld, Holding, Verified, FileOf, SourceOf, SearchRecords
<1>9. seals' \in [Sources -> Nat] /\ FilesKnown'
  BY <1>3 DEF CacheInv, CacheTypeOK, FilesKnown
<1>10. At(t, "failed")' => files[SourceOf(t)'].stamp > 1
  BY <1>1, <1>3, <1>4, <1>7 DEF At, FileOf, IndexHeld, Holding, SourceOf, SearchRecords
<1>11. QED
  BY <1>6, <1>8, <1>9, <1>10, IndexStepKeeps

LEMMA InsertKeeps ==
  ASSUME CacheInv, NEW t \in Threads, Insert(t)
  PROVE  CacheInv'
<1>1. searches[t] \in SearchRecords /\ SourceOf(t) \in Sources
  BY SearchTypes
<1>2. /\ UNCHANGED <<files, ready, checking, entries, cells>> /\ searches[t].at = "insert"
      /\ seals' = [seals EXCEPT ![SourceOf(t)] = searches[t].seal]
      /\ GoesTo(t, "ready")
  BY DEF Insert, At
<1>3. /\ Alone(t) /\ searches'[t] = [searches[t] EXCEPT !.at = "ready"]
      /\ searches'[t].at = "ready" /\ searches'[t].cell = searches[t].cell
      /\ SourceOf(t)' = SourceOf(t) /\ KeyOf(t)' = KeyOf(t)
  BY <1>2, GoesToAlone DEF Places
<1>4. /\ searches'[t].first = searches[t].first /\ searches'[t].seal = searches[t].seal
      /\ searches'[t].source = searches[t].source /\ searches'[t].filter = searches[t].filter
      /\ searches'[t].opened = searches[t].opened /\ searches'[t].full = searches[t].full
  BY <1>1, <1>3 DEF SearchRecords
<1>5. IndexStep(t)
  BY <1>2, <1>3, <1>4 DEF IndexStep
<1>6. IndexHeld(t)
  BY DEF CacheInv
<1>7. IndexHeld(t)'
  BY <1>2, <1>3, <1>4, <1>6 DEF IndexHeld, Holding, Verified
<1>8. seals' \in [Sources -> Nat]
  BY <1>1, <1>2 DEF CacheInv, CacheTypeOK, SearchRecords
<1>9. FilesKnown'
  <2>1. searches[t].seal <= FileOf(t).stamp
        /\ (FileOf(t).stamp = searches[t].seal => FileOf(t).sound)
    BY <1>2, <1>6 DEF IndexHeld, Holding, FileOf, SourceOf
  <2>2. QED
    BY <1>1, <1>2, <2>1 DEF CacheInv, CacheTypeOK, FilesKnown, FileOf
<1>10. ~At(t, "failed")'
  BY <1>3 DEF At
<1>11. QED
  BY <1>5, <1>7, <1>8, <1>9, <1>10, IndexStepKeeps

LEMMA EndKeeps ==
  ASSUME CacheInv, NEW t \in Threads, End(t)
  PROVE  CacheInv'
<1>1. /\ UNCHANGED <<files, seals, ready, checking, entries, cells>>
      /\ searches[t].at \in {"answered", "failed"} /\ Goes(t, NoSearch)
  BY DEF End
<1>2. Alone(t) /\ searches'[t] = NoSearch
  BY <1>1, NoSearchType, GoesAlone
<1>3. IndexStep(t)
  BY <1>1, <1>2, NoSearchType DEF IndexStep
<1>4. IndexHeld(t)'
  BY <1>2, NoSearchType DEF IndexHeld, Holding, Verified
<1>5. seals' \in [Sources -> Nat] /\ FilesKnown' /\ ~At(t, "failed")'
  BY <1>1, <1>2, NoSearchType DEF CacheInv, CacheTypeOK, FilesKnown, At
<1>6. QED
  BY <1>3, <1>4, <1>5, IndexStepKeeps
-----------------------------------------------------------------------------
(* The vectors *)

LEMMA LockReadyKeeps ==
  ASSUME CacheInv, NEW t \in Threads, LockReady(t)
  PROVE  CacheInv'
<1>1. searches[t] \in SearchRecords /\ SourceOf(t) \in Sources
  BY SearchTypes
<1>2. /\ searches[t].at = "ready" /\ checking = {}
      /\ UNCHANGED <<files, seals, ready, entries, cells>>
  BY DEF LockReady, At
<1>3. PICK place \in {"eligible", "failed", "check"} :
        /\ GoesTo(t, place)
        /\ place = "failed" => ready[SourceOf(t)] = "failed"
        /\ place = "check" => checking' = {t} /\ ready[SourceOf(t)] = "unknown"
        /\ place # "check" => UNCHANGED checking
  <2>1. ready[SourceOf(t)] \in {"unknown", "ready", "failed"}
    BY <1>1 DEF CacheInv, CacheTypeOK
  <2>2. CASE ready[SourceOf(t)] = "ready"
    BY <2>2 DEF LockReady
  <2>3. CASE ready[SourceOf(t)] = "failed"
    BY <2>3 DEF LockReady
  <2>4. CASE ready[SourceOf(t)] = "unknown"
    BY <2>4 DEF LockReady
  <2>5. QED
    BY <2>1, <2>2, <2>3, <2>4
<1>4. place \in Places
  BY DEF Places
<1>5. /\ Alone(t) /\ searches'[t] = [searches[t] EXCEPT !.at = place]
      /\ searches'[t].at = place /\ searches'[t].cell = searches[t].cell
      /\ SourceOf(t)' = SourceOf(t) /\ KeyOf(t)' = KeyOf(t)
  BY <1>3, <1>4, GoesToAlone
<1>6. /\ searches'[t].first = searches[t].first /\ searches'[t].seal = searches[t].seal
      /\ searches'[t].source = searches[t].source /\ searches'[t].filter = searches[t].filter
      /\ searches'[t].opened = searches[t].opened /\ searches'[t].full = searches[t].full
  BY <1>1, <1>5 DEF SearchRecords
<1>7. IndexHeld(t)
  BY DEF CacheInv
<1>8. IndexHeld(t)'
  BY <1>2, <1>3, <1>5, <1>6, <1>7 DEF IndexHeld, Holding, Verified
<1>9. CASE place # "check"
  <2>1. IndexStep(t)
    BY <1>2, <1>3, <1>5, <1>6, <1>9 DEF IndexStep
  <2>2. seals' \in [Sources -> Nat] /\ FilesKnown'
    BY <1>2 DEF CacheInv, CacheTypeOK, FilesKnown
  <2>3. At(t, "failed")' => ready[SourceOf(t)'] = "failed"
    BY <1>3, <1>5 DEF At
  <2>4. QED
    BY <1>8, <2>1, <2>2, <2>3, IndexStepKeeps
<1>10. CASE place = "check"
  <2>1. checking' = {t} /\ ready[SourceOf(t)] = "unknown" /\ searches'[t].at = "check"
    BY <1>3, <1>5, <1>10
  <2>2. CacheTypeOK'
    BY <1>2, <1>5, <2>1 DEF CacheInv, CacheTypeOK, Alone
  <2>3. CheckExclusive'
    BY <1>2, <1>5, <2>1 DEF CacheInv, CheckExclusive, At, Alone
  <2>4. CellsFilled'
    <3>1. /\ \A u \in Threads : searches'[u].cell = searches[u].cell /\ KeyOf(u)' = KeyOf(u)
          /\ \A u \in Threads : At(u, "fill")' <=> At(u, "fill")
          /\ \A u \in Threads : searches'[u].at = "cell" => searches[u].at = "cell"
      BY <1>2, <1>5, <2>1 DEF Alone, KeyOf, SourceOf, At
    <3>2. \A i \in DOMAIN cells : cells[i].fillers \subseteq Threads
      BY CellTypes DEF CellRecords
    <3>3. QED
      BY <1>2, <3>1, <3>2 DEF CacheInv, CellsFilled, At
  <2>5. ASSUME NEW u \in Threads, u # t PROVE IndexHeld(u)'
    BY <1>2, <1>5, <2>5 DEF CacheInv, IndexHeld, Alone
  <2>6. FailureHasCause'
    <3>1. ASSUME NEW u \in Threads, searches'[u].at = "failed"
          PROVE  u # t /\ searches'[u] = searches[u]
      BY <1>5, <2>1, <3>1 DEF Alone
    <3>2. QED
      BY <1>2, <3>1 DEF CacheInv, FailureHasCause, At, SourceOf
  <2>7. FilesKnown' /\ EntriesOwn' /\ NoneEvicted'
    BY <1>2 DEF CacheInv, FilesKnown, EntriesOwn, NoneEvicted, KeysSeen
  <2>8. QED
    BY <1>8, <2>2, <2>3, <2>4, <2>5, <2>6, <2>7 DEF CacheInv
<1>11. QED
  BY <1>9, <1>10

\* What was unknown of a source is known, and the lock is free.
LEMMA CheckReadyKeeps ==
  ASSUME CacheInv, NEW t \in Threads, CheckReady(t)
  PROVE  CacheInv'
<1>1. searches[t] \in SearchRecords /\ SourceOf(t) \in Sources
  BY SearchTypes
<1>2. /\ searches[t].at = "check" /\ checking' = {}
      /\ UNCHANGED <<files, seals, entries, cells>>
  BY DEF CheckReady, At
<1>3. PICK place \in {"eligible", "failed"} :
        /\ GoesTo(t, place)
        /\ ready' = [ready EXCEPT ![SourceOf(t)] = IF place = "eligible" THEN "ready" ELSE "failed"]
  BY DEF CheckReady
<1>4. place \in Places
  BY DEF Places
<1>5. /\ Alone(t) /\ searches'[t] = [searches[t] EXCEPT !.at = place]
      /\ searches'[t].at = place /\ searches'[t].cell = searches[t].cell
      /\ SourceOf(t)' = SourceOf(t) /\ KeyOf(t)' = KeyOf(t)
  BY <1>3, <1>4, GoesToAlone
<1>6. /\ searches'[t].first = searches[t].first /\ searches'[t].seal = searches[t].seal
      /\ searches'[t].source = searches[t].source /\ searches'[t].filter = searches[t].filter
      /\ searches'[t].opened = searches[t].opened /\ searches'[t].full = searches[t].full
  BY <1>1, <1>5 DEF SearchRecords
<1>7. /\ ready' \in [Sources -> {"unknown", "ready", "failed"}]
      /\ place = "failed" => ready'[SourceOf(t)] = "failed"
      /\ \A s \in Sources : ready[s] = "failed" => ready'[s] = "failed"
  <2>1. ready \in [Sources -> {"unknown", "ready", "failed"}]
    BY DEF CacheInv, CacheTypeOK
  <2>2. ready[SourceOf(t)] = "unknown"
    BY <1>2 DEF CacheInv, CheckExclusive, At
  <2>3. QED
    BY <1>1, <1>3, <2>1, <2>2
<1>8. ASSUME NEW u \in Threads PROVE IndexHeld(u)'
  <2>1. IndexHeld(u)
    BY DEF CacheInv
  <2>2. CASE u = t
    BY <1>2, <1>5, <1>6, <2>1, <2>2 DEF IndexHeld, Holding, Verified
  <2>3. CASE u # t
    BY <1>2, <1>5, <2>1, <2>3 DEF IndexHeld, Alone
  <2>4. QED
    BY <2>2, <2>3
<1>9. CacheTypeOK'
  BY <1>2, <1>5, <1>7 DEF CacheInv, CacheTypeOK, Alone
<1>10. CheckExclusive'
  <2>1. ASSUME NEW u \in Threads PROVE searches'[u].at # "check"
    <3>1. CASE u = t
      BY <1>5, <3>1
    <3>2. CASE u # t
      BY <1>2, <1>5, <3>2 DEF CacheInv, CheckExclusive, At, Alone
    <3>3. QED
      BY <3>1, <3>2
  <2>2. QED
    BY <1>2, <2>1 DEF CheckExclusive, At
<1>11. CellsFilled'
  <2>1. /\ \A u \in Threads : searches'[u].cell = searches[u].cell /\ KeyOf(u)' = KeyOf(u)
        /\ \A u \in Threads : At(u, "fill")' <=> At(u, "fill")
        /\ \A u \in Threads : searches'[u].at = "cell" => searches[u].at = "cell"
    BY <1>2, <1>5 DEF Alone, KeyOf, SourceOf, At
  <2>2. \A i \in DOMAIN cells : cells[i].fillers \subseteq Threads
    BY CellTypes DEF CellRecords
  <2>3. QED
    BY <1>2, <2>1, <2>2 DEF CacheInv, CellsFilled, At
<1>12. FailureHasCause'
  <2>1. ASSUME NEW u \in Threads, searches'[u].at = "failed"
        PROVE  \/ files[SourceOf(u)'].stamp > 1
               \/ ready'[SourceOf(u)'] = "failed"
               \/ searches'[u].cell # 0 /\ cells[searches'[u].cell].state = "failed"
    <3>1. CASE u = t
      BY <1>5, <1>7, <2>1, <3>1
    <3>2. CASE u # t
      <4>1. searches'[u] = searches[u] /\ SourceOf(u) \in Sources
        BY <1>5, <3>2, SearchTypes DEF Alone
      <4>2. QED
        BY <1>7, <2>1, <4>1 DEF CacheInv, FailureHasCause, At, SourceOf
    <3>3. QED
      BY <3>1, <3>2
  <2>2. QED
    BY <1>2, <2>1 DEF FailureHasCause, At
<1>13. FilesKnown' /\ EntriesOwn' /\ NoneEvicted'
  BY <1>2 DEF CacheInv, FilesKnown, EntriesOwn, NoneEvicted, KeysSeen
<1>14. QED
  BY <1>8, <1>9, <1>10, <1>11, <1>12, <1>13 DEF CacheInv
-----------------------------------------------------------------------------
(* The rows of a filter *)

\* A step of a search from its cell on, in which the cell may change its state.
RowStep(t) ==
  LET search == searches[t]
      after == searches'[t]
  IN /\ Alone(t)
     /\ search.at \in {"cell", "fill"} /\ after.at \in {"fill", "answered", "failed"}
     /\ after = [search EXCEPT !.at = after.at]
     /\ after.at = "failed" => cells'[search.cell].state = "failed"
     /\ after.at = "fill" => search.at = "cell"
     /\ after.at = "fill" <=> cells'[search.cell].fillers = {t}
     /\ after.at # "fill" => cells'[search.cell].fillers = {}
     /\ cells'[search.cell].state = "empty" \/ cells'[search.cell].fillers = {}
     /\ cells[search.cell].state = "failed" => cells'[search.cell].state = "failed"
     /\ search.at = "cell" => cells[search.cell].fillers = {}
     /\ cells' \in Seq(CellRecords) /\ DOMAIN cells' = DOMAIN cells
     /\ \A i \in DOMAIN cells : cells'[i].key = cells[i].key
     /\ \A i \in DOMAIN cells \ {search.cell} : cells'[i] = cells[i]
     /\ UNCHANGED <<files, seals, ready, checking, entries>>

LEMMA RowStepKeeps ==
  ASSUME CacheInv, NEW t \in Threads, RowStep(t)
  PROVE  CacheInv'
<1> DEFINE cell == searches[t].cell
<1>1. searches[t] \in SearchRecords /\ cell \in DOMAIN cells /\ Alone(t)
      /\ UNCHANGED <<files, seals, ready, checking, entries>>
  BY SearchTypes DEF RowStep, CacheInv, CellsFilled
<1>2. /\ searches'[t].first = searches[t].first /\ searches'[t].seal = searches[t].seal
      /\ searches'[t].source = searches[t].source /\ searches'[t].filter = searches[t].filter
      /\ searches'[t].opened = searches[t].opened /\ searches'[t].full = searches[t].full
      /\ searches'[t].cell = cell
  BY <1>1 DEF RowStep, SearchRecords
<1>3. /\ searches[t].at \in {"cell", "fill"} /\ searches'[t].at \in {"fill", "answered", "failed"}
      /\ cells' \in Seq(CellRecords) /\ DOMAIN cells' = DOMAIN cells
      /\ \A i \in DOMAIN cells : cells'[i].key = cells[i].key
      /\ \A i \in DOMAIN cells \ {cell} : cells'[i] = cells[i]
  BY DEF RowStep
<1>4. CacheTypeOK'
  BY <1>1, <1>3 DEF CacheInv, CacheTypeOK, Alone
<1>5. CheckExclusive'
  <2>1. \A u \in Threads : At(u, "check")' <=> At(u, "check")
    BY <1>1, <1>3 DEF Alone, At
  <2>2. \A u \in checking : u \in Threads /\ At(u, "check")
    BY DEF CacheInv, CacheTypeOK, CheckExclusive
  <2>3. \A u \in checking : SourceOf(u)' = SourceOf(u)
    BY <1>1, <1>2, <2>2 DEF Alone, SourceOf
  <2>4. QED
    BY <1>1, <2>1, <2>3 DEF CacheInv, CheckExclusive
<1>6. ASSUME NEW u \in Threads PROVE IndexHeld(u)'
  <2>1. IndexHeld(u)
    BY DEF CacheInv
  <2>2. CASE u = t
    BY <1>1, <1>2, <1>3, <2>1, <2>2 DEF IndexHeld, Holding, Verified
  <2>3. CASE u # t
    BY <1>1, <2>1, <2>3 DEF IndexHeld, Alone
  <2>4. QED
    BY <2>2, <2>3
<1>7. CellsFilled'
  <2>1. \A u \in Threads : searches'[u].cell = searches[u].cell /\ KeyOf(u)' = KeyOf(u)
    BY <1>1, <1>2 DEF Alone, KeyOf, SourceOf
  <2>2. \A u \in Threads : searches'[u].at \in {"cell", "fill"} => searches'[u].cell # 0
    BY <1>1, <1>3, <2>1 DEF Alone, CacheInv, CellsFilled
  <2>3. \A u \in Threads : searches'[u].cell # 0 =>
          searches'[u].cell \in DOMAIN cells' /\ cells'[searches'[u].cell].key = KeyOf(u)'
    BY <1>3, <2>1 DEF CacheInv, CellsFilled
  <2>4. ASSUME NEW u \in Threads, At(u, "fill")'
        PROVE  cells'[searches'[u].cell].fillers = {u}
    <3>1. CASE u = t
      BY <1>2, <2>4, <3>1 DEF RowStep, At
    <3>2. CASE u # t
      <4>1. searches'[u] = searches[u] /\ At(u, "fill")
        BY <1>1, <2>4, <3>2 DEF Alone, At
      <4>2. /\ cells[searches[u].cell].fillers = {u}
            /\ searches[u].at \in {"cell", "fill"} /\ searches[u].cell \in DOMAIN cells
        BY <4>1 DEF CacheInv, CellsFilled, At
      <4>3. searches[u].cell # cell
        <5>1. CASE searches[t].at = "cell"
          BY <4>2, <5>1 DEF RowStep
        <5>2. CASE searches[t].at = "fill"
          BY <3>2, <4>2, <5>2 DEF CacheInv, CellsFilled, At
        <5>3. QED
          BY <1>3, <5>1, <5>2
      <4>4. QED
        BY <1>3, <4>1, <4>2, <4>3
    <3>3. QED
      BY <3>1, <3>2
  <2>5. ASSUME NEW i \in DOMAIN cells, NEW u \in cells'[i].fillers
        PROVE  At(u, "fill")' /\ searches'[u].cell = i /\ cells'[i].state = "empty"
    <3>1. CASE i = cell
      <4>1. searches'[t].at = "fill" /\ u = t
        BY <2>5, <3>1 DEF RowStep
      <4>2. QED
        BY <1>2, <3>1, <4>1 DEF RowStep, At
    <3>2. CASE i # cell
      <4>1. cells'[i] = cells[i] /\ u \in Threads
        BY <1>3, <2>5, <3>2, CellTypes DEF CellRecords
      <4>2. At(u, "fill") /\ searches[u].cell = i /\ cells[i].state = "empty"
        BY <2>5, <4>1 DEF CacheInv, CellsFilled
      <4>3. u # t
        BY <3>2, <4>2
      <4>4. QED
        BY <1>1, <4>1, <4>2, <4>3 DEF Alone, At
    <3>3. QED
      BY <3>1, <3>2
  <2>6. QED
    BY <1>3, <2>2, <2>3, <2>4, <2>5 DEF CellsFilled
<1>8. FailureHasCause'
  <2>1. ASSUME NEW u \in Threads, searches'[u].at = "failed"
        PROVE  \/ files[SourceOf(u)'].stamp > 1
               \/ ready[SourceOf(u)'] = "failed"
               \/ searches'[u].cell # 0 /\ cells'[searches'[u].cell].state = "failed"
    <3>1. CASE u = t
      BY <1>2, <1>3, <2>1, <3>1 DEF RowStep, CacheInv, CellsFilled
    <3>2. CASE u # t
      <4>1. searches'[u] = searches[u]
        BY <1>1, <3>2 DEF Alone
      <4>2. searches[u].cell # 0 => searches[u].cell \in DOMAIN cells
        BY DEF CacheInv, CellsFilled
      <4>3. \A i \in DOMAIN cells : cells[i].state = "failed" => cells'[i].state = "failed"
        BY <1>3 DEF RowStep
      <4>4. QED
        BY <2>1, <4>1, <4>2, <4>3 DEF CacheInv, FailureHasCause, At, SourceOf
    <3>3. QED
      BY <3>1, <3>2
  <2>2. QED
    BY <1>1, <2>1 DEF FailureHasCause, At
<1>9. KeysSeen' = KeysSeen
  BY <1>3 DEF KeysSeen
<1>10. FilesKnown' /\ EntriesOwn' /\ NoneEvicted'
  <2>1. FilesKnown'
    BY <1>1 DEF CacheInv, FilesKnown
  <2>2. EntriesOwn'
    BY <1>1, <1>3 DEF CacheInv, EntriesOwn
  <2>3. SUFFICES ASSUME Cardinality(KeysSeen) <= CacheCapacity
                 PROVE  /\ \A i \in DOMAIN cells' : \E j \in DOMAIN entries :
                             entries[j].key = cells'[i].key
                        /\ \A i, j \in DOMAIN cells' : cells'[i].key = cells'[j].key => i = j
    BY <1>1, <1>9, <2>1, <2>2 DEF NoneEvicted
  <2>4. QED
    BY <1>3, <2>3 DEF CacheInv, NoneEvicted
<1>11. QED
  BY <1>4, <1>5, <1>6, <1>7, <1>8, <1>10 DEF CacheInv

LEMMA EnterKeeps ==
  ASSUME CacheInv, NEW t \in Threads, Enter(t)
  PROVE  CacheInv'
<1> DEFINE cell == searches[t].cell
<1>1. /\ searches[t] \in SearchRecords /\ cell \in DOMAIN cells /\ cells \in Seq(CellRecords)
      /\ searches[t].at = "cell" /\ cells[cell] \in CellRecords
      /\ cells[cell].fillers = {}
      /\ UNCHANGED <<files, seals, ready, checking, entries>>
  BY SearchTypes, CellTypes DEF CacheInv, CacheTypeOK, CellsFilled, Enter, At
<1>2. PICK place \in {"fill", "answered", "failed"} :
        /\ GoesTo(t, place)
        /\ place = "failed" => cells[cell].state = "failed"
        /\ place # "fill" => cells' = cells
        /\ place = "fill" => /\ cells[cell].state = "empty"
                             /\ cells' = [cells EXCEPT ![cell].fillers = {t}]
  <2>1. cells[cell].state \in {"empty", "rows", "failed"}
    BY <1>1 DEF CellRecords
  <2>2. CASE cells[cell].state = "rows"
    BY <2>2 DEF Enter
  <2>3. CASE cells[cell].state = "failed"
    BY <2>3 DEF Enter
  <2>4. CASE cells[cell].state = "empty"
    BY <2>4 DEF Enter
  <2>5. QED
    BY <2>1, <2>2, <2>3, <2>4
<1>3. place \in Places
  BY DEF Places
<1>4. Alone(t) /\ searches'[t] = [searches[t] EXCEPT !.at = place] /\ searches'[t].at = place
  BY <1>2, <1>3, GoesToAlone
<1>5. /\ cells' \in Seq(CellRecords) /\ DOMAIN cells' = DOMAIN cells
      /\ \A i \in DOMAIN cells : cells'[i].key = cells[i].key
      /\ \A i \in DOMAIN cells \ {cell} : cells'[i] = cells[i]
      /\ cells'[cell].state = cells[cell].state
      /\ cells'[cell].fillers = IF place = "fill" THEN {t} ELSE {}
  <2>1. CASE place # "fill"
    BY <1>1, <1>2, <2>1
  <2>2. CASE place = "fill"
    <3> DEFINE filled == [cells[cell] EXCEPT !.fillers = {t}]
    <3>1. filled \in CellRecords /\ filled.key = cells[cell].key
          /\ filled.state = cells[cell].state /\ filled.fillers = {t}
      BY <1>1 DEF CellRecords
    <3>2. cells' = [cells EXCEPT ![cell] = filled]
      BY <1>2, <2>2
    <3> HIDE DEF filled
    <3>3. cells' \in Seq(CellRecords) /\ DOMAIN cells' = DOMAIN cells /\ cells'[cell] = filled
          /\ \A i \in DOMAIN cells \ {cell} : cells'[i] = cells[i]
      BY <1>1, <3>1, <3>2
    <3>4. QED
      BY <2>2, <3>1, <3>3
  <2>3. QED
    BY <2>1, <2>2
<1>6. RowStep(t)
  BY <1>1, <1>2, <1>4, <1>5 DEF RowStep
<1>7. QED
  BY <1>6, RowStepKeeps

LEMMA FillKeeps ==
  ASSUME CacheInv, NEW t \in Threads, Fill(t)
  PROVE  CacheInv'
<1> DEFINE cell == searches[t].cell
<1>1. /\ searches[t] \in SearchRecords /\ cell \in DOMAIN cells /\ cells \in Seq(CellRecords)
      /\ searches[t].at = "fill" /\ cells[cell] \in CellRecords
      /\ cells[cell].fillers = {t}
      /\ UNCHANGED <<files, seals, ready, checking, entries>>
  BY SearchTypes, CellTypes DEF CacheInv, CacheTypeOK, CellsFilled, Fill, At
<1>2. PICK place \in {"answered", "failed"} :
        /\ GoesTo(t, place)
        /\ cells' = [cells EXCEPT ![cell].state = IF place = "failed" THEN "failed" ELSE "rows",
                                  ![cell].fillers = {}]
  BY DEF Fill
<1>3. place \in Places
  BY DEF Places
<1>4. Alone(t) /\ searches'[t] = [searches[t] EXCEPT !.at = place] /\ searches'[t].at = place
  BY <1>2, <1>3, GoesToAlone
<1>5. cells[cell].state = "empty"
  BY <1>1 DEF CacheInv, CellsFilled
<1>6. /\ cells' \in Seq(CellRecords) /\ DOMAIN cells' = DOMAIN cells
      /\ \A i \in DOMAIN cells : cells'[i].key = cells[i].key
      /\ \A i \in DOMAIN cells \ {cell} : cells'[i] = cells[i]
      /\ cells'[cell].fillers = {}
      /\ place = "failed" => cells'[cell].state = "failed"
  <2> DEFINE state == IF place = "failed" THEN "failed" ELSE "rows"
             filled == [cells[cell] EXCEPT !.state = state, !.fillers = {}]
  <2>1. state \in {"rows", "failed"}
    OBVIOUS
  <2>2. cells' = [cells EXCEPT ![cell] = filled]
    BY <1>1, <1>2
  <2>3. filled \in CellRecords /\ filled.key = cells[cell].key
        /\ filled.state = state /\ filled.fillers = {}
    <3> HIDE DEF state
    <3> QED
      BY <1>1, <2>1 DEF CellRecords
  <2> HIDE DEF filled
  <2>4. cells' \in Seq(CellRecords) /\ DOMAIN cells' = DOMAIN cells /\ cells'[cell] = filled
        /\ \A i \in DOMAIN cells \ {cell} : cells'[i] = cells[i]
    BY <1>1, <2>2, <2>3
  <2>5. QED
    BY <2>3, <2>4
<1>7. RowStep(t)
  BY <1>1, <1>2, <1>4, <1>5, <1>6 DEF RowStep
<1>8. QED
  BY <1>7, RowStepKeeps

\* Where the element at j was before the one at i was put behind the n - 1 others.
Whence(j, i, n) == IF j < i THEN j ELSE IF j < n THEN j + 1 ELSE i

LEMMA MovedBehind ==
  ASSUME NEW S, NEW s \in Seq(S), NEW i \in 1 .. Len(s)
  PROVE  /\ Append(RemoveAt(s, i), s[i]) \in Seq(S)
         /\ Len(Append(RemoveAt(s, i), s[i])) = Len(s)
         /\ \A j \in 1 .. Len(s) :
              Append(RemoveAt(s, i), s[i])[j] = s[Whence(j, i, Len(s))]
<1> DEFINE front == SubSeq(s, 1, i - 1)
           back == SubSeq(s, i + 1, Len(s))
<1>1. /\ front \in Seq(S) /\ Len(front) = i - 1
      /\ \A j \in 1 .. i - 1 : front[j] = s[j]
  <2>1. \A j \in 1 .. i - 1 : s[j] \in S
    OBVIOUS
  <2>2. /\ front \in Seq(S) /\ Len(front) = IF 1 <= i - 1 THEN i - 1 - 1 + 1 ELSE 0
        /\ \A j \in 1 .. i - 1 - 1 + 1 : front[j] = s[1 + j - 1]
    BY <2>1, SubSeqProperties
  <2> HIDE DEF front
  <2>3. QED
    BY <2>2
<1>2. /\ back \in Seq(S) /\ Len(back) = Len(s) - i
      /\ \A j \in 1 .. Len(s) - i : back[j] = s[i + j]
  <2>1. \A j \in i + 1 .. Len(s) : s[j] \in S
    OBVIOUS
  <2>2. /\ back \in Seq(S) /\ Len(back) = IF i + 1 <= Len(s) THEN Len(s) - (i + 1) + 1 ELSE 0
        /\ \A j \in 1 .. Len(s) - (i + 1) + 1 : back[j] = s[i + 1 + j - 1]
    BY <2>1, SubSeqProperties
  <2> HIDE DEF back
  <2>3. QED
    BY <2>2
<1> HIDE DEF front, back
<1>3. RemoveAt(s, i) = front \o back
  BY DEF RemoveAt, front, back
<1>4. /\ front \o back \in Seq(S) /\ Len(front \o back) = Len(s) - 1
      /\ \A j \in 1 .. Len(s) - 1 : (front \o back)[j] = s[IF j < i THEN j ELSE j + 1]
  <2>1. /\ front \o back \in Seq(S) /\ Len(front \o back) = Len(front) + Len(back)
        /\ \A j \in 1 .. Len(front) + Len(back) :
             (front \o back)[j] = IF j <= Len(front) THEN front[j] ELSE back[j - Len(front)]
    BY <1>1, <1>2, ConcatProperties
  <2>2. Len(front) + Len(back) = Len(s) - 1
    BY <1>1, <1>2
  <2>3. ASSUME NEW j \in 1 .. Len(s) - 1
        PROVE  (front \o back)[j] = s[IF j < i THEN j ELSE j + 1]
    <3>1. CASE j < i
      BY <1>1, <2>1, <2>2, <3>1
    <3>2. CASE ~(j < i)
      <4>1. j - Len(front) \in 1 .. Len(s) - i /\ i + (j - Len(front)) = j + 1
        BY <1>1, <3>2
      <4>2. back[j - Len(front)] = s[j + 1]
        BY <1>2, <4>1
      <4>3. QED
        BY <1>1, <2>1, <2>2, <3>2, <4>2
    <3>3. QED
      BY <3>1, <3>2
  <2>4. QED
    BY <2>1, <2>2, <2>3
<1> DEFINE moved == Append(RemoveAt(s, i), s[i])
<1>5. moved = Append(front \o back, s[i])
  BY <1>3
<1> HIDE DEF moved
<1>6. /\ moved \in Seq(S) /\ Len(moved) = Len(s)
      /\ \A j \in 1 .. Len(s) - 1 : moved[j] = (front \o back)[j]
      /\ moved[Len(s)] = s[i]
  BY <1>4, <1>5, AppendProperties
<1>7. ASSUME NEW j \in 1 .. Len(s)
      PROVE  moved[j] = s[Whence(j, i, Len(s))]
  <2>1. CASE j = Len(s)
    BY <1>6, <2>1 DEF Whence
  <2>2. CASE j # Len(s)
    <3>1. j \in 1 .. Len(s) - 1 /\ j < Len(s)
      BY <2>2
    <3>2. moved[j] = s[IF j < i THEN j ELSE j + 1]
      BY <1>4, <1>6, <3>1
    <3>3. QED
      BY <3>1, <3>2 DEF Whence
  <2>3. QED
    BY <2>1, <2>2
<1>8. QED
  BY <1>6, <1>7 DEF moved

\* The entries are no more than the filters that were asked for.
LEMMA EntriesCount ==
  ASSUME CacheInv
  PROVE  /\ IsFiniteSet(KeysSeen) /\ Cardinality(KeysSeen) \in Nat
         /\ Len(entries) <= Cardinality(KeysSeen)
<1>1. cells \in Seq(CellRecords) /\ entries \in Seq(EntryRecords)
  BY DEF CacheInv, CacheTypeOK
<1>2. IsFiniteSet(KeysSeen)
  <2> DEFINE key == [i \in 1 .. Len(cells) |-> cells[i].key]
  <2>1. key \in Surjection(1 .. Len(cells), KeysSeen)
    <3>1. \A i \in 1 .. Len(cells) : key[i] \in KeysSeen
      BY <1>1 DEF KeysSeen
    <3>2. \A k \in KeysSeen : \E i \in 1 .. Len(cells) : key[i] = k
      BY <1>1 DEF KeysSeen
    <3>3. key \in [1 .. Len(cells) -> KeysSeen]
      BY <3>1
    <3> HIDE DEF key
    <3>4. QED
      BY <3>2, <3>3 DEF Surjection
  <2>2. IsFiniteSet(1 .. Len(cells))
    BY <1>1, FS_Interval
  <2>3. QED
    BY <2>1, <2>2, FS_Surjection
<1>3. Len(entries) <= Cardinality(KeysSeen)
  <2> DEFINE key == [i \in 1 .. Len(entries) |-> entries[i].key]
  <2>1. key \in Injection(1 .. Len(entries), KeysSeen)
    <3>1. \A i \in 1 .. Len(entries) : entries[i].key \in KeysSeen
      <4>1. \A i \in DOMAIN entries : cells[entries[i].cell].key \in KeysSeen
        BY DEF KeysSeen, CacheInv, EntriesOwn
      <4>2. QED
        BY <1>1, <4>1 DEF CacheInv, EntriesOwn
    <3>2. \A i, j \in 1 .. Len(entries) : entries[i].key = entries[j].key => i = j
      BY <1>1 DEF CacheInv, EntriesOwn
    <3>3. QED
      BY <3>1, <3>2 DEF Injection, IsInjective
  <2>2. Cardinality(1 .. Len(entries)) <= Cardinality(KeysSeen)
    BY <1>2, <2>1, FS_Injection
  <2>3. Cardinality(1 .. Len(entries)) = Len(entries)
    <3>1. Len(entries) \in Nat
      BY <1>1
    <3>2. Cardinality(1 .. Len(entries)) = IF 1 > Len(entries) THEN 0 ELSE Len(entries) - 1 + 1
      BY <3>1, FS_Interval
    <3>3. QED
      BY <3>1, <3>2
  <2>4. QED
    BY <2>2, <2>3
<1>4. QED
  BY <1>2, <1>3, FS_CardinalityType

\* A step of a search to a cell of its key, the only one that may be new.
CellStep(t) ==
  LET search == searches[t]
      after == searches'[t]
  IN /\ Alone(t)
     /\ search.at = "eligible" /\ after = [search EXCEPT !.at = "cell", !.cell = after.cell]
     /\ cells' \in Seq(CellRecords) /\ DOMAIN cells \subseteq DOMAIN cells'
     /\ \A i \in DOMAIN cells : cells'[i] = cells[i]
     /\ \A i \in DOMAIN cells' \ DOMAIN cells : cells'[i].fillers = {}
     /\ after.cell \in DOMAIN cells' /\ cells'[after.cell].key = KeyOf(t)
     /\ entries' \in Seq(EntryRecords)
     /\ UNCHANGED <<files, seals, ready, checking>>

LEMMA CellStepKeeps ==
  ASSUME CacheInv, NEW t \in Threads, CellStep(t), EntriesOwn', NoneEvicted'
  PROVE  CacheInv'
<1>1. searches[t] \in SearchRecords /\ Alone(t) /\ UNCHANGED <<files, seals, ready, checking>>
  BY SearchTypes DEF CellStep
<1>2. /\ searches'[t].first = searches[t].first /\ searches'[t].seal = searches[t].seal
      /\ searches'[t].source = searches[t].source /\ searches'[t].filter = searches[t].filter
      /\ searches'[t].opened = searches[t].opened /\ searches'[t].full = searches[t].full
      /\ searches'[t].at = "cell" /\ KeyOf(t)' = KeyOf(t)
  BY <1>1 DEF CellStep, SearchRecords, KeyOf, SourceOf
<1>3. /\ cells' \in Seq(CellRecords) /\ DOMAIN cells \subseteq DOMAIN cells'
      /\ \A i \in DOMAIN cells : cells'[i] = cells[i]
      /\ \A i \in DOMAIN cells' \ DOMAIN cells : cells'[i].fillers = {}
      /\ searches'[t].cell \in DOMAIN cells' /\ cells'[searches'[t].cell].key = KeyOf(t)
      /\ searches[t].at = "eligible"
  BY DEF CellStep
<1>4. CacheTypeOK'
  BY <1>1 DEF CacheInv, CacheTypeOK, Alone, CellStep
<1>5. CheckExclusive'
  <2>1. \A u \in Threads : At(u, "check")' <=> At(u, "check")
    BY <1>1, <1>2, <1>3 DEF Alone, At
  <2>2. \A u \in checking : u \in Threads /\ At(u, "check")
    BY DEF CacheInv, CacheTypeOK, CheckExclusive
  <2>3. \A u \in checking : SourceOf(u)' = SourceOf(u)
    BY <1>1, <1>2, <2>2 DEF Alone, SourceOf
  <2>4. QED
    BY <1>1, <2>1, <2>3 DEF CacheInv, CheckExclusive
<1>6. ASSUME NEW u \in Threads PROVE IndexHeld(u)'
  <2>1. IndexHeld(u)
    BY DEF CacheInv
  <2>2. CASE u = t
    BY <1>1, <1>2, <1>3, <2>1, <2>2 DEF IndexHeld, Holding, Verified
  <2>3. CASE u # t
    BY <1>1, <2>1, <2>3 DEF IndexHeld, Alone
  <2>4. QED
    BY <2>2, <2>3
<1>7. CellsFilled'
  <2>1. searches'[t].cell # 0
    <3>1. DOMAIN cells' = 1 .. Len(cells')
      BY <1>3
    <3>2. QED
      BY <1>3, <3>1
  <2>2. \A u \in Threads : searches'[u].at \in {"cell", "fill"} => searches'[u].cell # 0
    BY <1>1, <2>1 DEF Alone, CacheInv, CellsFilled
  <2>3. ASSUME NEW u \in Threads, searches'[u].cell # 0
        PROVE  searches'[u].cell \in DOMAIN cells' /\ cells'[searches'[u].cell].key = KeyOf(u)'
    <3>1. CASE u = t
      BY <1>2, <1>3, <3>1
    <3>2. CASE u # t
      BY <1>1, <1>3, <2>3, <3>2 DEF Alone, CacheInv, CellsFilled, KeyOf, SourceOf
    <3>3. QED
      BY <3>1, <3>2
  <2>4. ASSUME NEW u \in Threads, At(u, "fill")'
        PROVE  cells'[searches'[u].cell].fillers = {u}
    <3>1. u # t /\ searches'[u] = searches[u] /\ At(u, "fill")
      BY <1>1, <1>2, <2>4 DEF Alone, At
    <3>2. searches[u].cell \in DOMAIN cells /\ cells[searches[u].cell].fillers = {u}
      BY <3>1 DEF CacheInv, CellsFilled, At
    <3>3. QED
      BY <1>3, <3>1, <3>2
  <2>5. ASSUME NEW i \in DOMAIN cells', NEW u \in cells'[i].fillers
        PROVE  At(u, "fill")' /\ searches'[u].cell = i /\ cells'[i].state = "empty"
    <3>1. i \in DOMAIN cells /\ cells'[i] = cells[i]
      BY <1>3, <2>5
    <3>2. u \in Threads /\ At(u, "fill") /\ searches[u].cell = i /\ cells[i].state = "empty"
      BY <2>5, <3>1, CellTypes DEF CacheInv, CellsFilled, CellRecords
    <3>3. u # t
      BY <1>3, <3>2 DEF At
    <3>4. QED
      BY <1>1, <3>1, <3>2, <3>3 DEF Alone, At
  <2>6. QED
    BY <2>2, <2>3, <2>4, <2>5 DEF CellsFilled
<1>8. FailureHasCause'
  <2>1. ASSUME NEW u \in Threads, searches'[u].at = "failed"
        PROVE  \/ files[SourceOf(u)'].stamp > 1
               \/ ready[SourceOf(u)'] = "failed"
               \/ searches'[u].cell # 0 /\ cells'[searches'[u].cell].state = "failed"
    <3>1. u # t /\ searches'[u] = searches[u]
      BY <1>1, <1>2, <2>1 DEF Alone
    <3>2. searches[u].cell # 0 => searches[u].cell \in DOMAIN cells
      BY DEF CacheInv, CellsFilled
    <3>3. QED
      BY <1>3, <2>1, <3>1, <3>2 DEF CacheInv, FailureHasCause, At, SourceOf
  <2>2. QED
    BY <1>1, <2>1 DEF FailureHasCause, At
<1>9. FilesKnown'
  BY <1>1 DEF CacheInv, FilesKnown
<1>10. QED
  BY <1>4, <1>5, <1>6, <1>7, <1>8, <1>9 DEF CacheInv

\* A filter that is found is put behind the others, with its cell.
LEMMA CellFound ==
  ASSUME CacheInv, NEW t \in Threads, Cell(t), NEW i \in Entry(KeyOf(t)),
         entries' = Append(RemoveAt(entries, i), entries[i]),
         Goes(t, [searches[t] EXCEPT !.at = "cell", !.cell = entries[i].cell]),
         UNCHANGED cells
  PROVE  CacheInv'
<1> DEFINE from(j) == Whence(j, i, Len(entries))
<1>1. /\ entries \in Seq(EntryRecords)
      /\ i \in 1 .. Len(entries) /\ entries[i].key = KeyOf(t)
      /\ entries[i] \in EntryRecords
      /\ searches[t] \in SearchRecords /\ searches[t].at = "eligible"
      /\ UNCHANGED <<files, seals, ready, checking>>
  <2>1. entries \in Seq(EntryRecords)
    BY DEF CacheInv, CacheTypeOK
  <2>2. i \in DOMAIN entries /\ entries[i].key = KeyOf(t)
    BY DEF Entry
  <2>3. searches[t] \in SearchRecords /\ searches[t].at = "eligible"
        /\ UNCHANGED <<files, seals, ready, checking>>
    BY SearchTypes DEF Cell, At
  <2>4. i \in 1 .. Len(entries)
    BY <2>1, <2>2
  <2>5. entries[i] \in EntryRecords
    BY <2>1, <2>4, ElementOfSeq
  <2>6. QED
    BY <2>1, <2>2, <2>3, <2>4, <2>5
<1>2. /\ entries' \in Seq(EntryRecords)
      /\ DOMAIN entries = 1 .. Len(entries) /\ DOMAIN entries' = 1 .. Len(entries)
      /\ Len(entries') = Len(entries)
      /\ \A j \in 1 .. Len(entries) : entries'[j] = entries[from(j)] /\ from(j) \in 1 .. Len(entries)
  <2>1. /\ entries' \in Seq(EntryRecords) /\ Len(entries') = Len(entries)
        /\ \A j \in 1 .. Len(entries) : entries'[j] = entries[from(j)]
    <3>1. /\ entries' = Append(RemoveAt(entries, i), entries[i])
          /\ entries \in Seq(EntryRecords) /\ i \in 1 .. Len(entries)
      BY <1>1
    <3> HIDE DEF from
    <3>2. /\ entries' \in Seq(EntryRecords) /\ Len(entries') = Len(entries)
          /\ \A j \in 1 .. Len(entries) : entries'[j] = entries[Whence(j, i, Len(entries))]
      BY ONLY <3>1, MovedBehind
    <3>3. QED
      BY <3>2 DEF from
  <2>2. \A j \in 1 .. Len(entries) : from(j) \in 1 .. Len(entries)
    BY <1>1 DEF Whence
  <2> HIDE DEF from
  <2>3. QED
    BY <1>1, <2>1, <2>2
<1>3. \A j, k \in 1 .. Len(entries) : from(j) = from(k) => j = k
  BY <1>1 DEF Whence
<1>4. \A k \in 1 .. Len(entries) : \E j \in 1 .. Len(entries) : from(j) = k
  <2> SUFFICES ASSUME NEW k \in 1 .. Len(entries)
               PROVE  \E j \in 1 .. Len(entries) : from(j) = k
    OBVIOUS
  <2>1. CASE k < i
    <3>1. from(k) = k
      BY <1>1, <2>1 DEF Whence
    <3> HIDE DEF from
    <3>2. QED
      BY <3>1
  <2>2. CASE k = i
    <3>1. Len(entries) \in 1 .. Len(entries) /\ from(Len(entries)) = k
      BY <1>1, <2>2 DEF Whence
    <3> HIDE DEF from
    <3>2. QED
      BY <3>1
  <2>3. CASE k > i
    <3>1. k - 1 \in 1 .. Len(entries) /\ from(k - 1) = k
      BY <1>1, <2>3 DEF Whence
    <3> HIDE DEF from
    <3>2. QED
      BY <3>1
  <2>4. QED
    BY <1>1, <2>1, <2>2, <2>3
<1> HIDE DEF from
<1>5. EntriesOwn'
  <2>1. \A j \in 1 .. Len(entries) :
          entries'[j].cell \in DOMAIN cells /\ cells[entries'[j].cell].key = entries'[j].key
    <3>1. \A j \in 1 .. Len(entries) :
            entries[j].cell \in DOMAIN cells /\ cells[entries[j].cell].key = entries[j].key
      BY <1>2 DEF CacheInv, EntriesOwn
    <3>2. SUFFICES ASSUME NEW j \in 1 .. Len(entries)
                   PROVE  entries'[j].cell \in DOMAIN cells
                          /\ cells[entries'[j].cell].key = entries'[j].key
      OBVIOUS
    <3>3. entries'[j] = entries[from(j)] /\ from(j) \in 1 .. Len(entries)
      BY <1>2
    <3>4. QED
      BY <3>1, <3>3
  <2>2. ASSUME NEW j \in 1 .. Len(entries), NEW k \in 1 .. Len(entries),
               entries'[j].key = entries'[k].key
        PROVE  j = k
    <3>1. entries[from(j)].key = entries[from(k)].key
      BY <1>2, <2>2
    <3>2. from(j) = from(k)
      BY <1>2, <3>1 DEF CacheInv, EntriesOwn
    <3>3. QED
      BY <1>3, <3>2
  <2>3. QED
    BY <1>2, <2>1, <2>2 DEF CacheInv, EntriesOwn
<1>6. NoneEvicted'
  <2>1. KeysSeen' = KeysSeen
    BY DEF KeysSeen
  <2>2. SUFFICES ASSUME Cardinality(KeysSeen) <= CacheCapacity
                 PROVE  /\ \A j \in DOMAIN cells : \E k \in DOMAIN entries' :
                             entries'[k].key = cells[j].key
                        /\ \A j, k \in DOMAIN cells : cells[j].key = cells[k].key => j = k
    BY <2>1 DEF NoneEvicted
  <2>3. ASSUME NEW j \in DOMAIN cells PROVE \E k \in DOMAIN entries' : entries'[k].key = cells[j].key
    <3>1. PICK k \in DOMAIN entries : entries[k].key = cells[j].key
      BY <2>2 DEF CacheInv, NoneEvicted
    <3>2. PICK l \in 1 .. Len(entries) : from(l) = k
      BY <1>2, <1>4
    <3>3. l \in DOMAIN entries' /\ entries'[l] = entries[k]
      BY <1>2, <3>2
    <3>4. QED
      BY <3>1, <3>3
  <2>4. QED
    BY <2>2, <2>3 DEF CacheInv, NoneEvicted
<1>7. CellStep(t)
  <2> DEFINE after == [searches[t] EXCEPT !.at = "cell", !.cell = entries[i].cell]
  <2>1. after \in SearchRecords /\ after.cell = entries[i].cell
    BY <1>1 DEF SearchRecords, EntryRecords, Places
  <2>2. Alone(t) /\ searches'[t] = after
    BY <2>1, GoesAlone
  <2>3. searches'[t] = [searches[t] EXCEPT !.at = "cell", !.cell = searches'[t].cell]
    BY <2>1, <2>2
  <2>4. searches'[t].cell \in DOMAIN cells /\ cells[searches'[t].cell].key = KeyOf(t)
    BY <1>1, <2>1, <2>2 DEF CacheInv, EntriesOwn
  <2>5. QED
    BY <1>1, <1>2, <2>2, <2>3, <2>4 DEF CellStep, CacheInv, CacheTypeOK
<1>8. QED
  BY <1>5, <1>6, <1>7, CellStepKeeps

\* A filter that is not found has a new cell; when there is room for all the filters that were
\* asked for, it was never asked for, and no other loses its entry.
LEMMA CellAdded ==
  ASSUME CacheInv, NEW t \in Threads, Cell(t), Entry(KeyOf(t)) = {},
         entries' = Append(IF Len(entries) >= CacheCapacity THEN Tail(entries) ELSE entries,
                           [key |-> KeyOf(t), cell |-> Len(cells) + 1]),
         cells' = Append(cells, [key |-> KeyOf(t), state |-> "empty", fillers |-> {}]),
         Goes(t, [searches[t] EXCEPT !.at = "cell", !.cell = Len(cells) + 1])
  PROVE  CacheInv'
<1> DEFINE key == KeyOf(t)
           last == Len(cells) + 1
           kept == IF Len(entries) >= CacheCapacity THEN Tail(entries) ELSE entries
           entry == [key |-> key, cell |-> last]
           cell == [key |-> key, state |-> "empty", fillers |-> {}]
<1>1. /\ entries \in Seq(EntryRecords) /\ cells \in Seq(CellRecords)
      /\ searches[t] \in SearchRecords /\ searches[t].at = "eligible"
      /\ key \in Sources \X Filters /\ UNCHANGED <<files, seals, ready, checking>>
      /\ \A i \in DOMAIN entries : entries[i].key # key
  BY SearchTypes DEF CacheInv, CacheTypeOK, Entry, Cell, At
<1>2. /\ Len(cells) \in Nat /\ last \in Nat \ {0} /\ DOMAIN cells = 1 .. Len(cells)
      /\ DOMAIN entries = 1 .. Len(entries) /\ Len(entries) \in Nat
  BY <1>1
<1>3. /\ entry \in EntryRecords /\ entry.key = key /\ entry.cell = last
      /\ cell \in CellRecords /\ cell.key = key /\ cell.fillers = {}
  BY <1>1, <1>2 DEF EntryRecords, CellRecords
<1>4. entries' = Append(kept, entry) /\ cells' = Append(cells, cell)
  OBVIOUS
<1>5. PICK shift \in {0, 1} :
        /\ shift = 0 => Len(entries) < CacheCapacity
        /\ Len(entries) < CacheCapacity => shift = 0
        /\ kept \in Seq(EntryRecords) /\ Len(kept) = Len(entries) - shift
        /\ \A i \in 1 .. Len(kept) : kept[i] = entries[i + shift]
  <2>1. CASE Len(entries) >= CacheCapacity
    <3>1. entries # <<>>
      BY <1>2, <2>1, CacheConstants DEF CacheConstants
    <3>2. /\ Tail(entries) \in Seq(EntryRecords) /\ Len(Tail(entries)) = Len(entries) - 1
          /\ \A i \in 1 .. Len(Tail(entries)) : Tail(entries)[i] = entries[i + 1]
      BY <1>1, <3>1, HeadTailProperties
    <3>3. kept = Tail(entries) /\ ~(Len(entries) < CacheCapacity)
      BY <1>2, <2>1, CacheConstants DEF CacheConstants
    <3> HIDE DEF kept
    <3>4. /\ kept \in Seq(EntryRecords) /\ Len(kept) = Len(entries) - 1
          /\ \A i \in 1 .. Len(kept) : kept[i] = entries[i + 1]
      BY <3>2, <3>3
    <3> WITNESS 1 \in {0, 1}
    <3>5. QED
      BY <3>3, <3>4
  <2>2. CASE ~(Len(entries) >= CacheCapacity)
    <3>1. kept = entries /\ Len(entries) < CacheCapacity
      BY <1>2, <2>2, CacheConstants DEF CacheConstants
    <3>2. \A i \in 1 .. Len(entries) : entries[i + 0] = entries[i]
      OBVIOUS
    <3> HIDE DEF kept
    <3>3. QED
      BY <1>1, <1>2, <3>1, <3>2
  <2>3. QED
    BY <2>1, <2>2
<1> HIDE DEF key, last, kept, entry, cell
<1>6. /\ entries' \in Seq(EntryRecords) /\ Len(entries') = Len(kept) + 1
      /\ DOMAIN entries' = 1 .. Len(kept) + 1 /\ Len(kept) \in Nat
      /\ \A i \in 1 .. Len(kept) : entries'[i] = entries[i + shift] /\ i + shift \in DOMAIN entries
      /\ entries'[Len(kept) + 1] = entry
  <2>1. /\ entries' \in Seq(EntryRecords) /\ Len(entries') = Len(kept) + 1
        /\ \A i \in 1 .. Len(kept) : entries'[i] = kept[i]
        /\ entries'[Len(kept) + 1] = entry
    <3>1. entries' = Append(kept, entry) /\ kept \in Seq(EntryRecords) /\ entry \in EntryRecords
      BY <1>3, <1>4, <1>5
    <3>2. QED
      BY ONLY <3>1, AppendProperties
  <2>2. \A i \in 1 .. Len(kept) : i + shift \in 1 .. Len(entries)
    BY <1>2, <1>5
  <2>3. QED
    BY <1>2, <1>5, <2>1, <2>2
<1>7. /\ cells' \in Seq(CellRecords) /\ Len(cells') = last /\ DOMAIN cells' = 1 .. last
      /\ \A i \in DOMAIN cells : i \in DOMAIN cells' /\ cells'[i] = cells[i]
      /\ cells'[last] = cell /\ last \in DOMAIN cells'
      /\ \A i \in DOMAIN cells' : i = last \/ i \in DOMAIN cells
  <2>1. /\ cells' \in Seq(CellRecords) /\ Len(cells') = Len(cells) + 1
        /\ \A i \in 1 .. Len(cells) : cells'[i] = cells[i]
        /\ cells'[Len(cells) + 1] = cell
    BY <1>1, <1>3, <1>4, AppendProperties
  <2>2. last = Len(cells) + 1
    BY DEF last
  <2>3. QED
    BY <1>2, <2>1, <2>2
<1>8. EntriesOwn'
  <2>1. ASSUME NEW i \in DOMAIN entries'
        PROVE  entries'[i].cell \in DOMAIN cells' /\ cells'[entries'[i].cell].key = entries'[i].key
    <3>1. CASE i = Len(kept) + 1
      BY <1>3, <1>6, <1>7, <3>1
    <3>2. CASE i # Len(kept) + 1
      <4>1. i \in 1 .. Len(kept)
        BY <1>6, <3>2
      <4>2. QED
        BY <1>6, <1>7, <4>1 DEF CacheInv, EntriesOwn
    <3>3. QED
      BY <3>1, <3>2
  <2>2. ASSUME NEW i \in DOMAIN entries', NEW j \in DOMAIN entries',
               entries'[i].key = entries'[j].key
        PROVE  i = j
    <3>1. CASE i = Len(kept) + 1 /\ j # Len(kept) + 1
      <4>1. j \in 1 .. Len(kept)
        BY <1>6, <3>1
      <4>2. QED
        BY <1>1, <1>3, <1>6, <2>2, <3>1, <4>1
    <3>2. CASE j = Len(kept) + 1 /\ i # Len(kept) + 1
      <4>1. i \in 1 .. Len(kept)
        BY <1>6, <3>2
      <4>2. QED
        BY <1>1, <1>3, <1>6, <2>2, <3>2, <4>1
    <3>3. CASE i # Len(kept) + 1 /\ j # Len(kept) + 1
      <4>1. i \in 1 .. Len(kept) /\ j \in 1 .. Len(kept)
        BY <1>6, <3>3
      <4>2. /\ i + shift \in DOMAIN entries /\ j + shift \in DOMAIN entries
            /\ entries[i + shift].key = entries[j + shift].key
        BY <1>6, <2>2, <4>1
      <4>3. i + shift = j + shift
        BY <4>2 DEF CacheInv, EntriesOwn
      <4>4. QED
        BY <4>1, <4>3
    <3>4. QED
      BY <3>1, <3>2, <3>3
  <2>3. Len(entries') <= CacheCapacity
    BY <1>2, <1>5, <1>6, CacheConstants DEF CacheInv, EntriesOwn, CacheConstants
  <2>4. QED
    BY <2>1, <2>2, <2>3 DEF EntriesOwn
<1>9. NoneEvicted'
  <2>1. KeysSeen' = KeysSeen \cup {key}
    <3>1. KeysSeen' = {cells'[i].key : i \in DOMAIN cells'}
      BY DEF KeysSeen
    <3>2. cells'[last].key = key
      BY <1>3, <1>7
    <3>3. QED
      BY <1>7, <3>1, <3>2 DEF KeysSeen
  <2>2. /\ IsFiniteSet(KeysSeen) /\ Cardinality(KeysSeen) \in Nat
        /\ Len(entries) <= Cardinality(KeysSeen)
    BY EntriesCount
  <2>3. /\ Cardinality(KeysSeen \cup {key})
             = IF key \in KeysSeen THEN Cardinality(KeysSeen) ELSE Cardinality(KeysSeen) + 1
    BY <2>2, FS_AddElement
  <2>4. SUFFICES ASSUME Cardinality(KeysSeen \cup {key}) <= CacheCapacity
                 PROVE  /\ \A i \in DOMAIN cells' : \E j \in DOMAIN entries' :
                             entries'[j].key = cells'[i].key
                        /\ \A i, j \in DOMAIN cells' : cells'[i].key = cells'[j].key => i = j
    BY <2>1 DEF NoneEvicted
  <2>5. Cardinality(KeysSeen) <= CacheCapacity
    BY <2>2, <2>3, <2>4, CacheConstants DEF CacheConstants
  <2>6. /\ \A i \in DOMAIN cells : \E j \in DOMAIN entries : entries[j].key = cells[i].key
        /\ \A i, j \in DOMAIN cells : cells[i].key = cells[j].key => i = j
    BY <2>5 DEF CacheInv, NoneEvicted
  <2>7. \A i \in DOMAIN cells : cells[i].key # key
    BY <1>1, <2>6
  <2>8. shift = 0
    <3>1. key \notin KeysSeen
      BY <2>7 DEF KeysSeen
    <3>2. Len(entries) < CacheCapacity
      BY <1>2, <2>2, <2>3, <2>4, <3>1, CacheConstants DEF CacheConstants
    <3>3. QED
      BY <1>5, <3>2
  <2>9. ASSUME NEW i \in DOMAIN cells' PROVE \E j \in DOMAIN entries' : entries'[j].key = cells'[i].key
    <3>1. CASE i = last
      BY <1>3, <1>6, <1>7, <3>1
    <3>2. CASE i # last
      <4>1. i \in DOMAIN cells /\ cells'[i] = cells[i]
        BY <1>7, <3>2
      <4>2. PICK j \in DOMAIN entries : entries[j].key = cells[i].key
        BY <2>6, <4>1
      <4>3. j \in 1 .. Len(kept) /\ j + shift = j
        BY <1>2, <1>5, <2>8
      <4>4. j \in DOMAIN entries' /\ entries'[j] = entries[j]
        BY <1>6, <4>3
      <4>5. QED
        BY <4>1, <4>2, <4>4
    <3>3. QED
      BY <3>1, <3>2
  <2>10. ASSUME NEW i \in DOMAIN cells', NEW j \in DOMAIN cells', cells'[i].key = cells'[j].key
         PROVE  i = j
    BY <1>3, <1>7, <2>6, <2>7, <2>10
  <2>11. QED
    BY <2>9, <2>10
<1>10. CellStep(t)
  <2> DEFINE after == [searches[t] EXCEPT !.at = "cell", !.cell = last]
  <2>1. after \in SearchRecords /\ after.cell = last
    BY <1>1, <1>2 DEF SearchRecords, Places
  <2>2. Goes(t, after)
    BY DEF last
  <2> HIDE DEF after
  <2>3. Alone(t) /\ searches'[t] = after
    BY <2>1, <2>2, GoesAlone
  <2>4. searches'[t].cell = last
        /\ searches'[t] = [searches[t] EXCEPT !.at = "cell", !.cell = searches'[t].cell]
    BY <2>1, <2>3 DEF after
  <2>5. cells'[last].key = KeyOf(t) /\ cells'[last].fillers = {}
    BY <1>3, <1>7 DEF key
  <2>6. QED
    BY <1>1, <1>6, <1>7, <2>3, <2>4, <2>5 DEF CellStep
<1>11. QED
  BY <1>8, <1>9, <1>10, CellStepKeeps

LEMMA CellKeeps ==
  ASSUME CacheInv, NEW t \in Threads, Cell(t)
  PROVE  CacheInv'
BY CellFound, CellAdded DEF Cell
-----------------------------------------------------------------------------
LEMMA CacheStep == CacheInv /\ [CacheNext]_cacheVars => CacheInv'
<1> SUFFICES ASSUME CacheInv, [CacheNext]_cacheVars PROVE CacheInv'
  OBVIOUS
<1>1. CASE UNCHANGED cacheVars
  BY <1>1 DEF CacheInv, CacheTypeOK, FilesKnown, CheckExclusive, CellsFilled, EntriesOwn, NoneEvicted,
              IndexHeld, FailureHasCause, cacheVars, At, SourceOf, KeyOf, KeysSeen
<1>2. CASE \E s \in Sources : Replace(s)
  BY <1>2, ReplaceKeeps
<1>3. ASSUME NEW t \in Threads,
             \/ Begin(t) \/ Capture(t) \/ Hash(t) \/ Open(t) \/ Seal(t) \/ Insert(t)
             \/ LockReady(t) \/ CheckReady(t) \/ Cell(t) \/ Enter(t) \/ Fill(t) \/ End(t)
      PROVE  CacheInv'
  BY <1>3, BeginKeeps, CaptureKeeps, HashKeeps, OpenKeeps, SealKeeps, InsertKeeps, LockReadyKeeps,
     CheckReadyKeeps, CellKeeps, EnterKeeps, FillKeeps, EndKeeps
<1>4. QED
  BY <1>1, <1>2, <1>3 DEF CacheNext

LEMMA CacheInvSound == CacheInv => CachesSound
<1> SUFFICES ASSUME CacheInv PROVE CachesSound
  OBVIOUS
<1>1. ReplacementSeen
  <2> SUFFICES ASSUME NEW t \in Threads, At(t, "answered"), ~searches[t].opened.sound
               PROVE  searches[t].first # searches[t].opened.stamp /\ ~searches[t].full
    BY DEF ReplacementSeen
  <2>1. searches[t] \in SearchRecords /\ IndexHeld(t)
    BY SearchTypes DEF CacheInv
  <2>2. QED
    BY <2>1 DEF IndexHeld, At, Holding, Verified, SearchRecords
<1>2. LoadedOnce
  BY DEF CacheInv, LoadedOnce, NoneEvicted, KeysSeen, CellsFilled, EntriesOwn
<1>3. NobodyStuck
  <2> DEFINE SomeoneGoes ==
               \E u \in Threads : \/ searches[u].at \notin {"idle", "ready", "cell"}
                                  \/ At(u, "ready") /\ checking = {}
                                  \/ At(u, "cell") /\ cells[searches[u].cell].fillers = {}
  <2> HIDE DEF SomeoneGoes
  <2> SUFFICES ASSUME NEW t \in Threads, ~At(t, "idle")
               PROVE  SomeoneGoes
    BY DEF NobodyStuck, SomeoneGoes
  <2> USE DEF SomeoneGoes
  <2>1. CASE searches[t].at = "ready" /\ checking # {}
    <3>1. PICK u \in checking : u \in Threads /\ At(u, "check")
      BY <2>1 DEF CacheInv, CacheTypeOK, CheckExclusive
    <3>2. QED
      BY <3>1 DEF At
  <2>2. CASE searches[t].at = "cell" /\ cells[searches[t].cell].fillers # {}
    <3>1. searches[t].cell \in DOMAIN cells
      BY <2>2 DEF CacheInv, CellsFilled
    <3>2. PICK u \in cells[searches[t].cell].fillers : u \in Threads /\ At(u, "fill")
      BY <2>2, <3>1, CellTypes DEF CacheInv, CellsFilled, CellRecords
    <3>3. QED
      BY <3>2 DEF At
  <2>3. QED
    BY <2>1, <2>2 DEF At
<1>4. QED
  BY <1>1, <1>2, <1>3 DEF CacheInv, CachesSound

\* src/lexical.rs, src/search.rs: an index that is not the manifest's is read only by a search
\* during which it was put in the place of one that was; a search fails for a cause of its own;
\* the rows of a filter are loaded once while there is room; and somebody can always go on.
THEOREM CachesHold == CacheSpec => []CachesSound
<1>1. CacheSpec => []CacheInv
  BY CacheStarts, CacheStep, PTL DEF CacheSpec
<1>2. QED
  BY <1>1, CacheInvSound, PTL

-----------------------------------------------------------------------------
(* The keys of the issuer: one that it has withdrawn is accepted for        *)
(* MaximumStale at most, it is asked by one thread at a time, and a key it   *)
(* publishes is known after a RetryInterval.  KeyInv says of every set of    *)
(* keys that some thread still goes by (the cached one, one that has been    *)
(* fetched but not kept, and the verdict a thread has formed before it tried *)
(* to refresh) how old it may be, FreshInv what it may miss.                 *)

\* A time is not Absent, and neither is a thread.
AbsentApart == Absent \notin Nat /\ Absent \notin Verifiers

Verdicts ==
  {"none", "open", "missing", "accepted", "invalid", "insufficient scope", "forbidden client",
   "unknown", "unavailable"}
Waiting ==
  [pc : {"ready", "refresh", "fetch"}, key : Keys \cup {Absent}, claims : Claims \cup {Absent},
   cached : BOOLEAN, verdict : Verdicts]
Storing ==
  [pc : {"store"}, key : Keys \cup {Absent}, claims : Claims \cup {Absent}, set : SUBSET Keys]

KeyTypes ==
  /\ now \in Nat
  /\ published \in [Keys -> Nat \cup {Absent}]
  /\ withdrawn \in [Keys -> Nat \cup {Absent}]
  /\ jwks \in [set : SUBSET Keys, fetchedAt : Nat, nextRefreshAt : Nat]
  /\ threads \in [Verifiers -> Waiting \cup Storing]

\* k was one of the issuer's keys at the given time or since.
IssuedSince(k, time) == published[k] # Absent \/ (withdrawn[k] # Absent /\ withdrawn[k] >= time)

CachedSince ==
  /\ jwks.fetchedAt <= now
  /\ \A k \in jwks.set : IssuedSince(k, jwks.fetchedAt)
SeenSince ==
  \A t \in Verifiers :
    threads[t].pc \in {"refresh", "fetch"} /\ threads[t].cached =>
      /\ threads[t].key \in Keys
      /\ IssuedSince(threads[t].key, now - MaximumStale)
StoredSince ==
  \A t \in Verifiers : threads[t].pc = "store" => \A k \in threads[t].set : IssuedSince(k, now)
OneRefresher == \A t \in Verifiers : threads[t].pc \in {"fetch", "store"} => refresher = t

KeyInv == KeyTypes /\ CachedSince /\ SeenSince /\ StoredSince /\ OneRefresher
-----------------------------------------------------------------------------
LEMMA SignedVerdicts ==
  ASSUME NEW found, NEW claims
  PROVE  Allowed(claims) \in Verdicts /\ Verdict(found, claims) \in Verdicts
<1>1. Allowed(claims) \in Verdicts
  BY DEF Allowed, Verdicts
<1>2. Verdict(found, claims) \in {Allowed(claims), "unknown"}
  BY DEF Verdict
<1> QED
  BY <1>1, <1>2 DEF Verdicts

LEMMA UnsignedVerdicts ==
  ASSUME NEW credentials
  PROVE  Unsigned(credentials) \in Verdicts
BY DEF Unsigned, Verdicts

LEMMA ReadyWaits == Ready \in Waiting /\ Ready.pc = "ready"
BY DEF Ready, Waiting, Verdicts

\* An answer ends a thread's request and leaves the other threads alone.
LEMMA AnswerEnds ==
  ASSUME threads \in [Verifiers -> Waiting \cup Storing],
         NEW t \in Verifiers, NEW verdict \in Verdicts, Answer(t, verdict)
  PROVE  /\ threads' \in [Verifiers -> Waiting \cup Storing]
         /\ threads'[t].pc = "ready" /\ threads'[t].key = threads[t].key
         /\ threads'[t].verdict = verdict
         /\ \A u \in Verifiers \ {t} : threads'[u] = threads[u]
<1> DEFINE answer == [Ready EXCEPT !.key = threads[t].key, !.verdict = verdict]
<1>1. threads[t].key \in Keys \cup {Absent}
  BY DEF Waiting, Storing
<1>2. /\ answer \in Waiting /\ answer.pc = "ready"
      /\ answer.key = threads[t].key /\ answer.verdict = verdict
  BY <1>1 DEF Ready, Waiting
<1>3. threads' = [threads EXCEPT ![t] = answer]
  BY DEF Answer
<1> HIDE DEF answer
<1> QED
  BY <1>2, <1>3

\* When no thread but t changes, what the others go by is as old as it was.
LEMMA OthersKeep ==
  ASSUME KeyInv, NEW t \in Verifiers,
         \A u \in Verifiers \ {t} : threads'[u] = threads[u],
         threads'[t].pc = "ready",
         UNCHANGED <<now, published, withdrawn>>
  PROVE  SeenSince' /\ StoredSince'
BY DEF KeyInv, SeenSince, StoredSince, IssuedSince

-----------------------------------------------------------------------------
LEMMA KeyInvHolds ==
  ASSUME KeyConstants, AbsentApart, KeyInit
  PROVE  KeyInv
<1>1. KeyTypes
  BY ReadyWaits DEF KeyInit, KeyTypes, KeyConstants, Fetched, Issued
<1>2. CachedSince
  BY DEF KeyInit, CachedSince, IssuedSince, Fetched, Issued
<1>3. SeenSince /\ StoredSince /\ OneRefresher
  BY DEF KeyInit, SeenSince, StoredSince, OneRefresher, Ready
<1> QED
  BY <1>1, <1>2, <1>3 DEF KeyInv

\* Between two requests a thread goes by nothing, so that time may pass.
LEMMA TickKeeps ==
  ASSUME KeyConstants, KeyInv, Tick
  PROVE  KeyInv'
<1>1. \A t \in Verifiers : threads'[t] = Ready
  BY DEF KeyInv, KeyTypes, Tick, Quiet, Forget
<1>2. KeyTypes'
  BY ReadyWaits DEF KeyInv, KeyTypes, Tick, Quiet, Forget
<1>3. CachedSince'
  BY DEF KeyInv, KeyTypes, CachedSince, IssuedSince, Tick
<1>4. SeenSince' /\ StoredSince' /\ OneRefresher'
  BY <1>1 DEF SeenSince, StoredSince, OneRefresher, Ready
<1> QED
  BY <1>2, <1>3, <1>4 DEF KeyInv

\* A key that is withdrawn now was issued until now.
LEMMA RotateKeeps ==
  ASSUME KeyConstants, AbsentApart, KeyInv, NEW k \in Keys, Rotate(k)
  PROVE  KeyInv'
<1>1. \A t \in Verifiers : threads'[t] = threads[t] \/ threads'[t] = Ready
  BY DEF KeyInv, KeyTypes, Rotate, Forget
<1>2. KeyTypes'
  <2>1. threads' \in [Verifiers -> Waiting \cup Storing]
    BY ReadyWaits DEF KeyInv, KeyTypes, Rotate, Forget
  <2> QED
    BY <2>1 DEF KeyInv, KeyTypes, Rotate
<1>3. ASSUME NEW j \in Keys, NEW time \in Int, time <= now, IssuedSince(j, time)
      PROVE  IssuedSince(j, time)'
  BY <1>3 DEF KeyInv, KeyTypes, Rotate, IssuedSince, AbsentApart
<1>4. now' = now /\ jwks' = jwks /\ refresher' = refresher
  BY DEF Rotate
<1>5. CachedSince'
  BY <1>3, <1>4 DEF KeyInv, KeyTypes, CachedSince
<1>6. SeenSince'
  BY <1>1, <1>3, <1>4, ReadyWaits DEF KeyInv, KeyTypes, SeenSince, KeyConstants
<1>7. StoredSince'
  BY <1>1, <1>3, <1>4, ReadyWaits DEF KeyInv, KeyTypes, StoredSince, Waiting, Storing
<1>8. OneRefresher'
  BY <1>1, <1>4, ReadyWaits DEF KeyInv, OneRefresher
<1> QED
  BY <1>2, <1>5, <1>6, <1>7, <1>8 DEF KeyInv

-----------------------------------------------------------------------------
\* What leaves the clock, the issuer and the cache alone.
LEMMA OnlyThreads ==
  ASSUME KeyInv, NEW t \in Verifiers,
         \A u \in Verifiers \ {t} : threads'[u] = threads[u],
         UNCHANGED <<now, published, withdrawn, jwks>>
  PROVE  CachedSince'
BY DEF KeyInv, CachedSince, IssuedSince

LEMMA PresentKeeps ==
  ASSUME KeyInv, NEW t \in Verifiers, NEW credentials, Present(t, credentials)
  PROVE  KeyInv'
<1> DEFINE next == [Ready EXCEPT !.verdict = Unsigned(credentials)]
<1>1. next \in Waiting /\ next.pc = "ready"
  BY UnsignedVerdicts DEF Ready, Waiting, Verdicts
<1>2. threads' = [threads EXCEPT ![t] = next]
  BY DEF Present
<1> HIDE DEF next
<1>3. UNCHANGED <<now, published, withdrawn, jwks, refresher>>
  BY DEF Present
<1>4. KeyTypes'
  BY <1>1, <1>2, <1>3 DEF KeyInv, KeyTypes
<1>5. threads'[t].pc = "ready" /\ \A u \in Verifiers \ {t} : threads'[u] = threads[u]
  BY <1>1, <1>2 DEF KeyInv, KeyTypes
<1>6. CachedSince' /\ SeenSince' /\ StoredSince'
  BY <1>3, <1>5, OnlyThreads, OthersKeep
<1>7. OneRefresher'
  BY <1>3, <1>5 DEF KeyInv, OneRefresher
<1> QED
  BY <1>4, <1>6, <1>7 DEF KeyInv

\* What is cached is young enough, so that a key in it was issued not long ago.
LEMMA CachedIsRecent ==
  ASSUME KeyConstants, KeyInv, NEW k \in Keys, Cached(k)
  PROVE  IssuedSince(k, now - MaximumStale)
BY DEF KeyConstants, KeyInv, KeyTypes, CachedSince, IssuedSince, Cached, Usable

LEMMA LookKeeps ==
  ASSUME KeyConstants, KeyInv, NEW t \in Verifiers, NEW k \in Keys, NEW claims \in Claims,
         Look(t, k, claims)
  PROVE  KeyInv'
<1> DEFINE next == IF Due(k) THEN [Ready EXCEPT !.pc = "refresh", !.key = k, !.claims = claims,
                                                !.cached = Cached(k)]
                   ELSE [Ready EXCEPT !.key = k, !.verdict = Verdict(Cached(k), claims)]
<1>1. threads' = [threads EXCEPT ![t] = next]
  BY DEF Look
<1>2. Cached(k) \in BOOLEAN
  BY DEF Cached, Usable
<1>3. next \in Waiting /\ next.pc \in {"ready", "refresh"}
  BY <1>2, SignedVerdicts DEF Ready, Waiting, Verdicts
<1>4. next.pc = "refresh" => next.key = k /\ next.cached = Cached(k)
  BY <1>2 DEF Ready
<1> HIDE DEF next
<1>5. UNCHANGED <<now, published, withdrawn, jwks, refresher>>
  BY DEF Look
<1>6. KeyTypes'
  BY <1>1, <1>3, <1>5 DEF KeyInv, KeyTypes
<1>7. threads'[t] = next /\ \A u \in Verifiers \ {t} : threads'[u] = threads[u]
  BY <1>1 DEF KeyInv, KeyTypes
<1>8. CachedSince'
  BY <1>5, <1>7, OnlyThreads
<1>9. SeenSince'
  <2>1. next.pc = "refresh" /\ next.cached => IssuedSince(k, now - MaximumStale)
    BY <1>2, <1>4, CachedIsRecent
  <2> QED
    BY <1>3, <1>4, <1>5, <1>7, <2>1 DEF KeyInv, SeenSince, IssuedSince
<1>10. StoredSince' /\ OneRefresher'
  BY <1>3, <1>5, <1>7 DEF KeyInv, StoredSince, OneRefresher, IssuedSince
<1> QED
  BY <1>6, <1>8, <1>9, <1>10 DEF KeyInv

LEMMA YieldKeeps ==
  ASSUME KeyInv, NEW t \in Verifiers, Yield(t)
  PROVE  KeyInv'
<1> DEFINE verdict == Verdict(threads[t].cached, threads[t].claims)
<1>1. verdict \in Verdicts /\ Answer(t, verdict)
  BY SignedVerdicts DEF Yield
<1> HIDE DEF verdict
<1>2. UNCHANGED <<now, published, withdrawn, jwks, refresher>>
  BY DEF Yield
<1>3. /\ threads' \in [Verifiers -> Waiting \cup Storing]
      /\ threads'[t].pc = "ready" /\ \A u \in Verifiers \ {t} : threads'[u] = threads[u]
  BY <1>1, AnswerEnds DEF KeyInv, KeyTypes
<1>4. KeyTypes' /\ OneRefresher'
  BY <1>2, <1>3 DEF KeyInv, KeyTypes, OneRefresher
<1>5. CachedSince' /\ SeenSince' /\ StoredSince'
  BY <1>2, <1>3, OnlyThreads, OthersKeep
<1> QED
  BY <1>4, <1>5 DEF KeyInv

\* A thread that finds the lock free and the set due becomes the refresher; it goes on with
\* what it saw, and nobody else is at it.
LEMMA RefreshKeeps ==
  ASSUME KeyConstants, AbsentApart, KeyInv, NEW t \in Verifiers, Refresh(t)
  PROVE  KeyInv'
<1>1. CASE Due(threads[t].key)
  <2>1. /\ threads' = [threads EXCEPT ![t].pc = "fetch"] /\ refresher' = t
        /\ jwks' = [jwks EXCEPT !.nextRefreshAt = now + RetryInterval]
        /\ UNCHANGED <<now, published, withdrawn>>
    BY <1>1 DEF Refresh
  <2>2. threads[t].pc = "refresh" /\ refresher = Absent
    BY DEF Refresh
  <2>3. threads[t] \in Waiting
    BY <2>2 DEF KeyInv, KeyTypes, Storing
  <2>4. [threads[t] EXCEPT !.pc = "fetch"] \in Waiting
    BY <2>3 DEF Waiting
  <2>5. threads'[t] = [threads[t] EXCEPT !.pc = "fetch"]
        /\ \A u \in Verifiers \ {t} : threads'[u] = threads[u]
    BY <2>1 DEF KeyInv, KeyTypes
  <2>6. /\ jwks'.set = jwks.set /\ jwks'.fetchedAt = jwks.fetchedAt
        /\ jwks' \in [set : SUBSET Keys, fetchedAt : Nat, nextRefreshAt : Nat]
    BY <2>1 DEF KeyInv, KeyTypes, KeyConstants
  <2>7. KeyTypes'
    BY <2>1, <2>4, <2>6 DEF KeyInv, KeyTypes
  <2>8. CachedSince'
    BY <2>1, <2>6 DEF KeyInv, CachedSince, IssuedSince
  <2>9. /\ threads'[t].pc = "fetch" /\ threads'[t].cached = threads[t].cached
        /\ threads'[t].key = threads[t].key
    BY <2>3, <2>5 DEF Waiting
  <2>10. SeenSince' /\ StoredSince'
    BY <2>1, <2>2, <2>5, <2>9 DEF KeyInv, SeenSince, StoredSince, IssuedSince
  <2>11. OneRefresher'
    BY <2>1, <2>2, <2>5 DEF KeyInv, OneRefresher, AbsentApart
  <2> QED
    BY <2>7, <2>8, <2>10, <2>11 DEF KeyInv
<1>2. CASE ~Due(threads[t].key)
  <2> DEFINE verdict == Verdict(Cached(threads[t].key), threads[t].claims)
  <2>1. verdict \in Verdicts /\ Answer(t, verdict)
    BY <1>2, SignedVerdicts DEF Refresh
  <2> HIDE DEF verdict
  <2>2. UNCHANGED <<now, published, withdrawn, jwks, refresher>>
    BY <1>2 DEF Refresh
  <2>3. /\ threads' \in [Verifiers -> Waiting \cup Storing]
        /\ threads'[t].pc = "ready" /\ \A u \in Verifiers \ {t} : threads'[u] = threads[u]
    BY <2>1, AnswerEnds DEF KeyInv, KeyTypes
  <2>4. KeyTypes' /\ OneRefresher'
    BY <2>2, <2>3 DEF KeyInv, KeyTypes, OneRefresher
  <2>5. CachedSince' /\ SeenSince' /\ StoredSince'
    BY <2>2, <2>3, OnlyThreads, OthersKeep
  <2> QED
    BY <2>4, <2>5 DEF KeyInv
<1> QED
  BY <1>1, <1>2

\* What the issuer sends are its keys of now.
LEMMA FetchKeeps ==
  ASSUME KeyInv, NEW t \in Verifiers, Fetch(t)
  PROVE  KeyInv'
<1> DEFINE next == [pc |-> "store", key |-> threads[t].key, claims |-> threads[t].claims,
                    set |-> Issued]
<1>1. threads[t].pc = "fetch" /\ UNCHANGED <<now, published, withdrawn, jwks, refresher>>
  BY DEF Fetch
<1>2. threads' = [threads EXCEPT ![t] = next]
  BY DEF Fetch
<1>3. next \in Storing
  BY DEF KeyInv, KeyTypes, Waiting, Storing, Issued
<1>4. next.pc = "store" /\ next.set = Issued
  OBVIOUS
<1> HIDE DEF next
<1>5. threads'[t] = next /\ \A u \in Verifiers \ {t} : threads'[u] = threads[u]
  BY <1>2 DEF KeyInv, KeyTypes
<1>6. KeyTypes'
  BY <1>1, <1>2, <1>3 DEF KeyInv, KeyTypes
<1>7. CachedSince'
  BY <1>1, <1>5, OnlyThreads
<1>8. SeenSince' /\ OneRefresher'
  BY <1>1, <1>4, <1>5 DEF KeyInv, SeenSince, OneRefresher, IssuedSince
<1>9. StoredSince'
  BY <1>1, <1>4, <1>5 DEF KeyInv, StoredSince, IssuedSince, Issued
<1> QED
  BY <1>6, <1>7, <1>8, <1>9 DEF KeyInv

\* Only the refresher was at it, so that nobody is when it gives the lock back.
LEMMA ReleaseKeeps ==
  ASSUME AbsentApart, KeyInv, NEW t \in Verifiers, threads[t].pc \in {"fetch", "store"},
         threads'[t].pc = "ready", \A u \in Verifiers \ {t} : threads'[u] = threads[u]
  PROVE  OneRefresher'
BY DEF KeyInv, OneRefresher

LEMMA FetchFailsKeeps ==
  ASSUME AbsentApart, KeyInv, NEW t \in Verifiers, FetchFails(t)
  PROVE  KeyInv'
<1> DEFINE verdict == IF threads[t].cached THEN Allowed(threads[t].claims) ELSE "unavailable"
<1>1. verdict \in Verdicts
  BY SignedVerdicts DEF Verdicts
<1>2. Answer(t, verdict)
  BY DEF FetchFails
<1> HIDE DEF verdict
<1>3. /\ threads[t].pc = "fetch" /\ refresher' = Absent
      /\ UNCHANGED <<now, published, withdrawn, jwks>>
  BY DEF FetchFails
<1>4. /\ threads' \in [Verifiers -> Waiting \cup Storing]
      /\ threads'[t].pc = "ready" /\ \A u \in Verifiers \ {t} : threads'[u] = threads[u]
  BY <1>1, <1>2, AnswerEnds DEF KeyInv, KeyTypes
<1>5. KeyTypes'
  BY <1>3, <1>4 DEF KeyInv, KeyTypes
<1>6. CachedSince' /\ SeenSince' /\ StoredSince'
  BY <1>3, <1>4, OnlyThreads, OthersKeep
<1>7. OneRefresher'
  BY <1>3, <1>4, ReleaseKeeps
<1> QED
  BY <1>5, <1>6, <1>7 DEF KeyInv

\* The set that is kept is as young as the cache says.
LEMMA KeepKeeps ==
  ASSUME AbsentApart, KeyInv, NEW t \in Verifiers, Keep(t)
  PROVE  KeyInv'
<1> DEFINE verdict == Verdict(threads[t].key \in threads[t].set, threads[t].claims)
<1>1. verdict \in Verdicts /\ Answer(t, verdict)
  BY SignedVerdicts DEF Keep
<1> HIDE DEF verdict
<1>2. /\ threads[t].pc = "store" /\ refresher' = Absent
      /\ jwks' = [jwks EXCEPT !.set = threads[t].set, !.fetchedAt = now]
      /\ UNCHANGED <<now, published, withdrawn>>
  BY DEF Keep
<1>3. /\ threads' \in [Verifiers -> Waiting \cup Storing]
      /\ threads'[t].pc = "ready" /\ \A u \in Verifiers \ {t} : threads'[u] = threads[u]
  BY <1>1, AnswerEnds DEF KeyInv, KeyTypes
<1>4. threads[t].set \in SUBSET Keys
  BY <1>2 DEF KeyInv, KeyTypes, Waiting, Storing
<1>5. /\ jwks'.set = threads[t].set /\ jwks'.fetchedAt = now
      /\ jwks' \in [set : SUBSET Keys, fetchedAt : Nat, nextRefreshAt : Nat]
  BY <1>2, <1>4 DEF KeyInv, KeyTypes
<1>6. KeyTypes'
  BY <1>2, <1>3, <1>5 DEF KeyInv, KeyTypes
<1>7. CachedSince'
  BY <1>2, <1>5 DEF KeyInv, KeyTypes, CachedSince, StoredSince, IssuedSince
<1>8. SeenSince' /\ StoredSince'
  BY <1>2, <1>3, OthersKeep
<1>9. OneRefresher'
  BY <1>2, <1>3, ReleaseKeeps
<1> QED
  BY <1>6, <1>7, <1>8, <1>9 DEF KeyInv

-----------------------------------------------------------------------------
LEMMA KeyInvKept ==
  ASSUME KeyConstants, AbsentApart, KeyInv, [KeyNext]_keyVars
  PROVE  KeyInv'
<1>1. CASE UNCHANGED keyVars
  BY <1>1 DEF keyVars, KeyInv, KeyTypes, CachedSince, SeenSince, StoredSince, OneRefresher,
              IssuedSince
<1>2. CASE Tick
  BY <1>2, TickKeeps
<1>3. ASSUME NEW k \in Keys, Rotate(k)
      PROVE  KeyInv'
  BY <1>3, RotateKeeps
<1>4. ASSUME NEW t \in Verifiers, NEW credentials, Present(t, credentials)
      PROVE  KeyInv'
  BY <1>4, PresentKeeps
<1>5. ASSUME NEW t \in Verifiers, NEW k \in Keys, NEW claims \in Claims, Look(t, k, claims)
      PROVE  KeyInv'
  BY <1>5, LookKeeps
<1>6. ASSUME NEW t \in Verifiers, Yield(t) \/ Refresh(t)
      PROVE  KeyInv'
  BY <1>6, YieldKeeps, RefreshKeeps
<1>7. ASSUME NEW t \in Verifiers, Fetch(t) \/ FetchFails(t) \/ Keep(t)
      PROVE  KeyInv'
  BY <1>7, FetchKeeps, FetchFailsKeeps, KeepKeeps
<1> QED
  BY <1>1, <1>2, <1>3, <1>4, <1>5, <1>6, <1>7 DEF KeyNext

\* Whatever threads, keys, times and failures: no set of keys that a thread goes by, or that is
\* cached or on its way to the cache, holds a key the issuer had withdrawn when it was fetched
\* (http_auth.rs jwk_for).
THEOREM KeysStayRecent == ASSUME KeyConstants, AbsentApart PROVE KeySpec => []KeyInv
<1>1. KeyInit => KeyInv
  BY KeyInvHolds
<1>2. KeyInv /\ [KeyNext]_keyVars => KeyInv'
  BY KeyInvKept
<1> QED
  BY <1>1, <1>2, PTL DEF KeySpec

-----------------------------------------------------------------------------
LEMMA UnknownIsNotAccepted ==
  ASSUME NEW found, NEW claims, Verdict(found, claims) = "accepted"
  PROVE  found
BY DEF Verdict

\* A key that is accepted was one of the issuer's at most MaximumStale ago: it was in the
\* cache, or the thread saw it there before, or it has just been fetched.
LEMMA AcceptedIsRecent ==
  ASSUME KeyConstants, AbsentApart, KeyInv, [KeyNext]_keyVars,
         NEW t \in Verifiers, Decided(t, "accepted")
  PROVE  /\ threads'[t].key \in Keys
         /\ IssuedSince(threads'[t].key, now - MaximumStale)
<1>1. threads'[t] # threads[t] /\ threads'[t].key # Absent /\ threads'[t].verdict = "accepted"
      /\ threads'[t].pc = "ready"
  BY DEF Decided
<1>2. ASSUME NEW u \in Verifiers, NEW verdict \in Verdicts, Answer(u, verdict)
      PROVE  u = t /\ threads'[t].key = threads[t].key /\ verdict = "accepted"
  BY <1>1, <1>2, AnswerEnds DEF KeyInv, KeyTypes
<1>3. ASSUME NEW u \in Verifiers, threads[u].pc \in {"refresh", "fetch"}
      PROVE  threads[u].cached \in BOOLEAN
  BY <1>3 DEF KeyInv, KeyTypes, Waiting, Storing
<1>4. CASE UNCHANGED keyVars
  BY <1>1, <1>4 DEF keyVars
<1>5. CASE Tick \/ \E k \in Keys : Rotate(k)
  BY <1>1, <1>5 DEF KeyInv, KeyTypes, Tick, Rotate, Forget, Ready
<1>6. ASSUME NEW u \in Verifiers, NEW credentials, Present(u, credentials)
      PROVE  FALSE
  BY <1>1, <1>6 DEF KeyInv, KeyTypes, Present, Ready
<1>7. ASSUME NEW u \in Verifiers, NEW k \in Keys, NEW claims \in Claims, Look(u, k, claims)
      PROVE  threads'[t].key = k /\ Cached(k)
  <2> DEFINE next == IF Due(k) THEN [Ready EXCEPT !.pc = "refresh", !.key = k, !.claims = claims,
                                                  !.cached = Cached(k)]
                     ELSE [Ready EXCEPT !.key = k, !.verdict = Verdict(Cached(k), claims)]
  <2>1. threads' = [threads EXCEPT ![u] = next]
    BY <1>7 DEF Look
  <2>2. next.key = k /\ (next.pc = "ready" => next.verdict = Verdict(Cached(k), claims))
    BY DEF Ready
  <2> HIDE DEF next
  <2>3. threads'[t] = next
    BY <1>1, <2>1 DEF KeyInv, KeyTypes
  <2> QED
    BY <1>1, <2>2, <2>3, UnknownIsNotAccepted
<1>8. ASSUME NEW u \in Verifiers, Yield(u) \/ FetchFails(u)
      PROVE  u = t /\ threads'[t].key = threads[t].key /\ threads[t].cached
             /\ threads[t].pc \in {"refresh", "fetch"}
  <2>1. CASE Yield(u)
    <3>1. Answer(u, Verdict(threads[u].cached, threads[u].claims)) /\ threads[u].pc = "refresh"
      BY <2>1 DEF Yield
    <3> QED
      BY <1>2, <3>1, SignedVerdicts, UnknownIsNotAccepted
  <2>2. CASE FetchFails(u)
    <3>1. threads[u].pc = "fetch"
      BY <2>2 DEF FetchFails
    <3>2. CASE threads[u].cached
      <4>1. Answer(u, Allowed(threads[u].claims))
        BY <2>2, <3>2 DEF FetchFails
      <4> QED
        BY <1>2, <3>1, <3>2, <4>1, SignedVerdicts
    <3>3. CASE ~threads[u].cached
      <4>1. Answer(u, "unavailable")
        BY <2>2, <3>3 DEF FetchFails
      <4>2. "unavailable" \in Verdicts
        BY DEF Verdicts
      <4> QED
        BY <1>2, <4>1, <4>2
    <3> QED
      BY <3>2, <3>3
  <2> QED
    BY <1>8, <2>1, <2>2
<1>9. ASSUME NEW u \in Verifiers, Refresh(u)
      PROVE  threads'[t].key = threads[t].key /\ Cached(threads[t].key)
  <2>1. CASE Due(threads[u].key)
    <3>1. threads' = [threads EXCEPT ![u].pc = "fetch"] /\ threads[u].pc = "refresh"
      BY <1>9, <2>1 DEF Refresh
    <3>2. threads[u] \in Waiting
      BY <3>1 DEF KeyInv, KeyTypes, Storing
    <3>3. threads'[u].pc = "fetch"
      BY <3>1, <3>2 DEF KeyInv, KeyTypes, Waiting
    <3> QED
      BY <1>1, <3>1, <3>3 DEF KeyInv, KeyTypes
  <2>2. CASE ~Due(threads[u].key)
    <3>1. Answer(u, Verdict(Cached(threads[u].key), threads[u].claims))
      BY <1>9, <2>2 DEF Refresh
    <3> QED
      BY <1>2, <3>1, SignedVerdicts, UnknownIsNotAccepted
  <2> QED
    BY <2>1, <2>2
<1>10. ASSUME NEW u \in Verifiers, Keep(u)
       PROVE  u = t /\ threads'[t].key = threads[t].key /\ threads[t].key \in threads[t].set
              /\ threads[t].pc = "store"
  <2> DEFINE verdict == Verdict(threads[u].key \in threads[u].set, threads[u].claims)
  <2>1. Answer(u, verdict) /\ threads[u].pc = "store"
    BY <1>10 DEF Keep
  <2>2. verdict \in Verdicts
    BY SignedVerdicts
  <2>3. verdict = "accepted" => threads[u].key \in threads[u].set
    BY DEF Verdict
  <2> HIDE DEF verdict
  <2> QED
    BY <1>2, <2>1, <2>2, <2>3
<1>11. ASSUME NEW u \in Verifiers, Fetch(u)
       PROVE  FALSE
  BY <1>1, <1>11 DEF KeyInv, KeyTypes, Fetch
<1>12. ASSUME NEW k, Cached(k)
       PROVE  k \in Keys /\ IssuedSince(k, now - MaximumStale)
  BY <1>12, CachedIsRecent DEF Cached, KeyInv, KeyTypes
<1>13. ASSUME threads[t].pc = "store", threads[t].key \in threads[t].set
       PROVE  threads[t].key \in Keys /\ IssuedSince(threads[t].key, now - MaximumStale)
  <2>1. threads[t].key \in Keys /\ IssuedSince(threads[t].key, now)
    BY <1>13 DEF KeyInv, KeyTypes, StoredSince, Waiting, Storing
  <2> QED
    BY <2>1 DEF KeyInv, KeyTypes, IssuedSince, KeyConstants
<1>14. ASSUME threads[t].pc \in {"refresh", "fetch"}, threads[t].cached
       PROVE  threads[t].key \in Keys /\ IssuedSince(threads[t].key, now - MaximumStale)
  BY <1>14 DEF KeyInv, SeenSince
<1>15. ASSUME NEW u \in Verifiers, Yield(u) \/ Refresh(u) \/ Fetch(u) \/ FetchFails(u) \/ Keep(u)
       PROVE  threads'[t].key \in Keys /\ IssuedSince(threads'[t].key, now - MaximumStale)
  BY <1>8, <1>9, <1>10, <1>11, <1>12, <1>13, <1>14, <1>15
<1> QED
  BY <1>4, <1>5, <1>6, <1>7, <1>12, <1>15 DEF KeyNext

\* A withdrawn key is accepted for MaximumStale at most, however many threads refresh the
\* cached set, fail to, or go on with what they read before (http_auth.rs jwk_for).
THEOREM WithdrawnKeysEnd ==
  ASSUME KeyConstants, AbsentApart
  PROVE  KeySpec => WithdrawnKeyEnds
<1>1. ASSUME KeyInv, [KeyNext]_keyVars
      PROVE  AcceptedWasIssued
  <2>1. SUFFICES ASSUME NEW t \in Verifiers, Decided(t, "accepted")
                 PROVE  LET k == threads'[t].key
                        IN published[k] # Absent
                           \/ (withdrawn[k] # Absent /\ now - withdrawn[k] <= MaximumStale)
    BY DEF AcceptedWasIssued
  <2>2. threads'[t].key \in Keys /\ IssuedSince(threads'[t].key, now - MaximumStale)
    BY <1>1, <2>1, AcceptedIsRecent
  <2> QED
    BY <1>1, <2>2 DEF IssuedSince, KeyInv, KeyTypes, KeyConstants
<1>2. KeySpec => []KeyInv
  BY KeysStayRecent
<1> QED
  BY <1>1, <1>2, PTL DEF KeySpec, WithdrawnKeyEnds

-----------------------------------------------------------------------------
\* A thread begins to fetch only as the refresher, when the set is due.
LEMMA FetchBegins ==
  ASSUME KeyInv, [KeyNext]_keyVars,
         NEW t \in Verifiers, threads[t].pc # "fetch", threads'[t].pc = "fetch"
  PROVE  Refresh(t) /\ Due(threads[t].key)
<1>1. ASSUME NEW u \in Verifiers, NEW verdict \in Verdicts, Answer(u, verdict)
      PROVE  FALSE
  BY <1>1, AnswerEnds DEF KeyInv, KeyTypes
<1>2. CASE UNCHANGED keyVars
  BY <1>2 DEF keyVars
<1>3. CASE Tick \/ \E k \in Keys : Rotate(k)
  BY <1>3 DEF KeyInv, KeyTypes, Tick, Rotate, Forget, Ready
<1>4. ASSUME NEW u \in Verifiers, NEW credentials, Present(u, credentials)
      PROVE  FALSE
  BY <1>4 DEF KeyInv, KeyTypes, Present, Ready
<1>5. ASSUME NEW u \in Verifiers, NEW k \in Keys, NEW claims \in Claims, Look(u, k, claims)
      PROVE  FALSE
  BY <1>5 DEF KeyInv, KeyTypes, Look, Ready
<1>6. ASSUME NEW u \in Verifiers, Yield(u)
      PROVE  FALSE
  BY <1>1, <1>6, SignedVerdicts DEF Yield
<1>7. ASSUME NEW u \in Verifiers, Refresh(u)
      PROVE  u = t /\ Due(threads[u].key)
  <2>1. CASE Due(threads[u].key)
    <3>1. threads' = [threads EXCEPT ![u].pc = "fetch"]
      BY <1>7, <2>1 DEF Refresh
    <3> QED
      BY <2>1, <3>1 DEF KeyInv, KeyTypes
  <2>2. CASE ~Due(threads[u].key)
    BY <1>1, <1>7, <2>2, SignedVerdicts DEF Refresh
  <2> QED
    BY <2>1, <2>2
<1>8. ASSUME NEW u \in Verifiers, Fetch(u)
      PROVE  FALSE
  <2> DEFINE next == [pc |-> "store", key |-> threads[u].key, claims |-> threads[u].claims,
                      set |-> Issued]
  <2>1. threads' = [threads EXCEPT ![u] = next] /\ next.pc = "store"
    BY <1>8 DEF Fetch
  <2> HIDE DEF next
  <2> QED
    BY <2>1 DEF KeyInv, KeyTypes
<1>9. ASSUME NEW u \in Verifiers, FetchFails(u)
      PROVE  FALSE
  <2> DEFINE verdict == IF threads[u].cached THEN Allowed(threads[u].claims) ELSE "unavailable"
  <2>1. verdict \in Verdicts /\ Answer(u, verdict)
    BY <1>9, SignedVerdicts DEF FetchFails, Verdicts
  <2> QED
    BY <1>1, <2>1
<1>10. ASSUME NEW u \in Verifiers, Keep(u)
       PROVE  FALSE
  BY <1>1, <1>10, SignedVerdicts DEF Keep
<1> QED
  BY <1>2, <1>3, <1>4, <1>5, <1>6, <1>7, <1>8, <1>9, <1>10 DEF KeyNext

\* The issuer is asked at most once in a RetryInterval and by one thread at a time, however
\* many threads meet a token whose key they do not know (http_auth.rs jwk_for).
THEOREM IssuerAskedSparingly ==
  ASSUME KeyConstants, AbsentApart
  PROVE  KeySpec => [][AskedSparingly]_keyVars
<1>1. ASSUME KeyInv, [KeyNext]_keyVars
      PROVE  AskedSparingly
  <2>1. SUFFICES ASSUME NEW t \in Verifiers, threads[t].pc # "fetch", threads'[t].pc = "fetch"
                 PROVE  /\ now >= jwks.nextRefreshAt
                        /\ jwks'.nextRefreshAt = now + RetryInterval
                        /\ \A u \in Verifiers : threads[u].pc \notin {"fetch", "store"}
    BY DEF AskedSparingly
  <2>2. Refresh(t) /\ Due(threads[t].key)
    BY <1>1, <2>1, FetchBegins
  <2>3. now >= jwks.nextRefreshAt
    BY <2>2 DEF Due
  <2>4. jwks'.nextRefreshAt = now + RetryInterval
    BY <1>1, <2>2 DEF Refresh, KeyInv, KeyTypes
  <2>5. \A u \in Verifiers : threads[u].pc \notin {"fetch", "store"}
    BY <1>1, <2>2 DEF Refresh, KeyInv, OneRefresher, AbsentApart
  <2> QED
    BY <2>3, <2>4, <2>5
<1>2. KeySpec => []KeyInv
  BY KeysStayRecent
<1> QED
  BY <1>1, <1>2, PTL DEF KeySpec
-----------------------------------------------------------------------------
(* The keys that are published are known.  Every set misses only keys that  *)
(* were published after it was fetched; and as long as no fetch has failed  *)
(* the next refresh is due a RetryInterval after the last at the latest.    *)

NextSoon == jwks.nextRefreshAt <= now + RetryInterval
CacheComplete ==
  \A k \in Keys : published[k] # Absent /\ published[k] < jwks.fetchedAt => k \in jwks.set
StoreComplete ==
  \A t \in Verifiers : threads[t].pc = "store" =>
    \A k \in Keys : published[k] # Absent /\ published[k] < now => k \in threads[t].set
RefresherBusy ==
  refresher # Absent => refresher \in Verifiers /\ threads[refresher].pc \in {"fetch", "store"}
RefreshedInTime ==
  fetchFaults = 0 /\ refresher = Absent => jwks.nextRefreshAt <= jwks.fetchedAt + RetryInterval
HeldKeys == \A t \in Verifiers : threads[t].pc # "ready" => threads[t].key \in Keys

FreshInv ==
  /\ fetchFaults \in Nat
  /\ NextSoon /\ CacheComplete /\ StoreComplete /\ RefresherBusy /\ RefreshedInTime /\ HeldKeys

LEMMA FreshInvHolds ==
  ASSUME KeyConstants, AbsentApart, KeyInit
  PROVE  FreshInv
<1>1. NextSoon /\ CacheComplete /\ RefreshedInTime
  BY DEF KeyConstants, AbsentApart, KeyInit, Fetched, NextSoon, CacheComplete, RefreshedInTime
<1>2. StoreComplete /\ RefresherBusy /\ HeldKeys /\ fetchFaults \in Nat
  BY DEF KeyInit, Ready, StoreComplete, RefresherBusy, HeldKeys
<1> QED
  BY <1>1, <1>2 DEF FreshInv

\* A thread that ends its request, or only begins to look, holds back nothing.
LEMMA OneThreadKeeps ==
  ASSUME FreshInv, NEW t \in Verifiers,
         \A u \in Verifiers \ {t} : threads'[u] = threads[u],
         threads'[t].pc # "store", threads'[t].pc # "ready" => threads'[t].key \in Keys,
         UNCHANGED <<now, published>>
  PROVE  StoreComplete' /\ HeldKeys'
BY DEF FreshInv, StoreComplete, HeldKeys

\* Neither does one that was not the refresher, when nobody else becomes it.
LEMMA BystanderKeeps ==
  ASSUME FreshInv, NEW t \in Verifiers,
         \A u \in Verifiers \ {t} : threads'[u] = threads[u],
         threads[t].pc \notin {"fetch", "store"},
         threads'[t].pc # "store", threads'[t].pc # "ready" => threads'[t].key \in Keys,
         UNCHANGED <<now, published, jwks, refresher, fetchFaults>>
  PROVE  FreshInv'
<1>1. StoreComplete' /\ HeldKeys'
  BY OneThreadKeeps
<1>2. NextSoon' /\ CacheComplete' /\ RefreshedInTime'
  BY DEF FreshInv, NextSoon, CacheComplete, RefreshedInTime
<1>3. RefresherBusy'
  BY DEF FreshInv, RefresherBusy
<1> QED
  BY <1>1, <1>2, <1>3 DEF FreshInv

LEMMA TickFresh ==
  ASSUME KeyConstants, KeyInv, FreshInv, Tick
  PROVE  FreshInv'
<1>1. \A t \in Verifiers : threads[t].pc = "ready" /\ threads'[t].pc = "ready"
  BY DEF KeyInv, KeyTypes, Tick, Quiet, Forget, Ready
<1>2. now' = now + 1 /\ UNCHANGED <<published, jwks, refresher, fetchFaults>>
  BY DEF Tick
<1>3. NextSoon' /\ CacheComplete' /\ RefreshedInTime'
  BY <1>2 DEF FreshInv, KeyInv, KeyTypes, KeyConstants, NextSoon, CacheComplete, RefreshedInTime
<1>4. StoreComplete' /\ RefresherBusy' /\ HeldKeys'
  BY <1>1, <1>2 DEF FreshInv, StoreComplete, RefresherBusy, HeldKeys
<1> QED
  BY <1>2, <1>3, <1>4 DEF FreshInv

\* A key that is published now is younger than every set.
LEMMA RotateFresh ==
  ASSUME AbsentApart, KeyInv, FreshInv, NEW k \in Keys, Rotate(k)
  PROVE  FreshInv'
<1>1. \A t \in Verifiers :
        \/ threads'[t] = threads[t]
        \/ threads[t].pc = "ready" /\ threads'[t].pc = "ready"
  BY DEF KeyInv, KeyTypes, Rotate, Forget, Ready
<1>2. \A j \in Keys : published'[j] = published[j] \/ published'[j] = Absent \/ published'[j] = now
  BY DEF KeyInv, KeyTypes, Rotate
<1>3. UNCHANGED <<now, jwks, refresher, fetchFaults>>
  BY DEF Rotate
<1>4. CacheComplete'
  BY <1>2, <1>3 DEF FreshInv, KeyInv, KeyTypes, CachedSince, CacheComplete
<1>5. StoreComplete'
  BY <1>1, <1>2, <1>3 DEF FreshInv, KeyInv, KeyTypes, StoreComplete
<1>6. NextSoon' /\ RefreshedInTime'
  BY <1>3 DEF FreshInv, NextSoon, RefreshedInTime
<1>7. RefresherBusy' /\ HeldKeys'
  BY <1>1, <1>3 DEF FreshInv, RefresherBusy, HeldKeys
<1> QED
  BY <1>3, <1>4, <1>5, <1>6, <1>7 DEF FreshInv

LEMMA PresentFresh ==
  ASSUME KeyInv, FreshInv, NEW t \in Verifiers, NEW credentials, Present(t, credentials)
  PROVE  FreshInv'
<1> DEFINE next == [Ready EXCEPT !.verdict = Unsigned(credentials)]
<1>1. next.pc = "ready" /\ threads' = [threads EXCEPT ![t] = next]
  BY DEF Present, Ready
<1> HIDE DEF next
<1>2. threads'[t].pc = "ready" /\ \A u \in Verifiers \ {t} : threads'[u] = threads[u]
  BY <1>1 DEF KeyInv, KeyTypes
<1>3. threads[t].pc = "ready" /\ UNCHANGED <<now, published, jwks, refresher, fetchFaults>>
  BY DEF Present
<1> QED
  BY <1>2, <1>3, BystanderKeeps

LEMMA LookFresh ==
  ASSUME KeyInv, FreshInv, NEW t \in Verifiers, NEW k \in Keys, NEW claims \in Claims,
         Look(t, k, claims)
  PROVE  FreshInv'
<1> DEFINE next == IF Due(k) THEN [Ready EXCEPT !.pc = "refresh", !.key = k, !.claims = claims,
                                                !.cached = Cached(k)]
                   ELSE [Ready EXCEPT !.key = k, !.verdict = Verdict(Cached(k), claims)]
<1>1. next.pc \in {"ready", "refresh"} /\ next.key = k
  BY DEF Ready
<1>2. threads' = [threads EXCEPT ![t] = next]
  BY DEF Look
<1> HIDE DEF next
<1>3. threads'[t] = next /\ \A u \in Verifiers \ {t} : threads'[u] = threads[u]
  BY <1>2 DEF KeyInv, KeyTypes
<1>4. threads[t].pc = "ready" /\ UNCHANGED <<now, published, jwks, refresher, fetchFaults>>
  BY DEF Look
<1> QED
  BY <1>1, <1>3, <1>4, BystanderKeeps

LEMMA YieldFresh ==
  ASSUME KeyInv, FreshInv, NEW t \in Verifiers, Yield(t)
  PROVE  FreshInv'
<1> DEFINE verdict == Verdict(threads[t].cached, threads[t].claims)
<1>1. verdict \in Verdicts /\ Answer(t, verdict)
  BY SignedVerdicts DEF Yield
<1> HIDE DEF verdict
<1>2. threads'[t].pc = "ready" /\ \A u \in Verifiers \ {t} : threads'[u] = threads[u]
  BY <1>1, AnswerEnds DEF KeyInv, KeyTypes
<1>3. threads[t].pc = "refresh" /\ UNCHANGED <<now, published, jwks, refresher, fetchFaults>>
  BY DEF Yield
<1> QED
  BY <1>2, <1>3, BystanderKeeps

\* Whoever refreshes puts the next refresh off, but is at it.
LEMMA RefreshFresh ==
  ASSUME KeyConstants, AbsentApart, KeyInv, FreshInv, NEW t \in Verifiers, Refresh(t)
  PROVE  FreshInv'
<1>1. CASE Due(threads[t].key)
  <2>1. /\ threads' = [threads EXCEPT ![t].pc = "fetch"] /\ refresher' = t
        /\ jwks' = [jwks EXCEPT !.nextRefreshAt = now + RetryInterval]
        /\ UNCHANGED <<now, published, fetchFaults>> /\ threads[t].pc = "refresh"
    BY <1>1 DEF Refresh
  <2>2. threads[t] \in Waiting
    BY <2>1 DEF KeyInv, KeyTypes, Storing
  <2>3. /\ threads'[t].pc = "fetch" /\ threads'[t].key = threads[t].key
        /\ \A u \in Verifiers \ {t} : threads'[u] = threads[u]
    BY <2>1, <2>2 DEF KeyInv, KeyTypes, Waiting
  <2>4. threads[t].key \in Keys
    BY <2>1 DEF FreshInv, HeldKeys
  <2>5. /\ jwks'.set = jwks.set /\ jwks'.fetchedAt = jwks.fetchedAt
        /\ jwks'.nextRefreshAt = now + RetryInterval
    BY <2>1 DEF KeyInv, KeyTypes
  <2>6. StoreComplete' /\ HeldKeys'
    BY <2>1, <2>3, <2>4, OneThreadKeeps
  <2>7. NextSoon' /\ CacheComplete'
    BY <2>1, <2>5 DEF FreshInv, KeyInv, KeyTypes, KeyConstants, NextSoon, CacheComplete
  <2>8. RefresherBusy' /\ RefreshedInTime'
    BY <2>1, <2>3 DEF RefresherBusy, RefreshedInTime, AbsentApart
  <2> QED
    BY <2>1, <2>6, <2>7, <2>8 DEF FreshInv
<1>2. CASE ~Due(threads[t].key)
  <2> DEFINE verdict == Verdict(Cached(threads[t].key), threads[t].claims)
  <2>1. verdict \in Verdicts /\ Answer(t, verdict)
    BY <1>2, SignedVerdicts DEF Refresh
  <2> HIDE DEF verdict
  <2>2. threads'[t].pc = "ready" /\ \A u \in Verifiers \ {t} : threads'[u] = threads[u]
    BY <2>1, AnswerEnds DEF KeyInv, KeyTypes
  <2>3. threads[t].pc = "refresh" /\ UNCHANGED <<now, published, jwks, refresher, fetchFaults>>
    BY <1>2 DEF Refresh
  <2> QED
    BY <2>2, <2>3, BystanderKeeps
<1> QED
  BY <1>1, <1>2

\* What is fetched misses nothing that is published.
LEMMA FetchFresh ==
  ASSUME KeyInv, FreshInv, NEW t \in Verifiers, Fetch(t)
  PROVE  FreshInv'
<1> DEFINE next == [pc |-> "store", key |-> threads[t].key, claims |-> threads[t].claims,
                    set |-> Issued]
<1>1. /\ threads' = [threads EXCEPT ![t] = next] /\ threads[t].pc = "fetch"
      /\ UNCHANGED <<now, published, jwks, refresher, fetchFaults>>
  BY DEF Fetch
<1>2. next.pc = "store" /\ next.key = threads[t].key /\ next.set = Issued
  OBVIOUS
<1> HIDE DEF next
<1>3. threads'[t] = next /\ \A u \in Verifiers \ {t} : threads'[u] = threads[u]
  BY <1>1 DEF KeyInv, KeyTypes
<1>4. StoreComplete'
  BY <1>1, <1>2, <1>3 DEF FreshInv, StoreComplete, Issued
<1>5. HeldKeys'
  BY <1>1, <1>2, <1>3 DEF FreshInv, HeldKeys
<1>6. RefresherBusy'
  BY <1>1, <1>2, <1>3 DEF FreshInv, RefresherBusy
<1>7. NextSoon' /\ CacheComplete' /\ RefreshedInTime'
  BY <1>1 DEF FreshInv, NextSoon, CacheComplete, RefreshedInTime
<1> QED
  BY <1>1, <1>4, <1>5, <1>6, <1>7 DEF FreshInv

LEMMA FetchFailsFresh ==
  ASSUME KeyInv, FreshInv, NEW t \in Verifiers, FetchFails(t)
  PROVE  FreshInv'
<1> DEFINE verdict == IF threads[t].cached THEN Allowed(threads[t].claims) ELSE "unavailable"
<1>1. verdict \in Verdicts /\ Answer(t, verdict)
  BY SignedVerdicts DEF FetchFails, Verdicts
<1> HIDE DEF verdict
<1>2. fetchFaults' = fetchFaults + 1 /\ refresher' = Absent /\ UNCHANGED <<now, published, jwks>>
  BY DEF FetchFails
<1>3. threads'[t].pc = "ready" /\ \A u \in Verifiers \ {t} : threads'[u] = threads[u]
  BY <1>1, AnswerEnds DEF KeyInv, KeyTypes
<1>4. StoreComplete' /\ HeldKeys'
  BY <1>2, <1>3, OneThreadKeeps
<1>5. fetchFaults' \in Nat /\ NextSoon' /\ CacheComplete' /\ RefresherBusy' /\ RefreshedInTime'
  BY <1>2 DEF FreshInv, NextSoon, CacheComplete, RefresherBusy, RefreshedInTime
<1> QED
  BY <1>4, <1>5 DEF FreshInv

\* The set that is kept was fetched now, so that the refresh put off by its refresher is in time.
LEMMA KeepFresh ==
  ASSUME KeyInv, FreshInv, NEW t \in Verifiers, Keep(t)
  PROVE  FreshInv'
<1> DEFINE verdict == Verdict(threads[t].key \in threads[t].set, threads[t].claims)
<1>1. verdict \in Verdicts /\ Answer(t, verdict)
  BY SignedVerdicts DEF Keep
<1> HIDE DEF verdict
<1>2. /\ threads[t].pc = "store" /\ refresher' = Absent
      /\ jwks' = [jwks EXCEPT !.set = threads[t].set, !.fetchedAt = now]
      /\ UNCHANGED <<now, published, fetchFaults>>
  BY DEF Keep
<1>3. threads'[t].pc = "ready" /\ \A u \in Verifiers \ {t} : threads'[u] = threads[u]
  BY <1>1, AnswerEnds DEF KeyInv, KeyTypes
<1>4. /\ jwks'.set = threads[t].set /\ jwks'.fetchedAt = now
      /\ jwks'.nextRefreshAt = jwks.nextRefreshAt
  BY <1>2 DEF KeyInv, KeyTypes
<1>5. StoreComplete' /\ HeldKeys'
  BY <1>2, <1>3, OneThreadKeeps
<1>6. CacheComplete'
  BY <1>2, <1>4 DEF FreshInv, StoreComplete, CacheComplete
<1>7. NextSoon' /\ RefreshedInTime' /\ RefresherBusy'
  BY <1>2, <1>4 DEF FreshInv, NextSoon, RefreshedInTime, RefresherBusy
<1> QED
  BY <1>2, <1>5, <1>6, <1>7 DEF FreshInv

LEMMA FreshInvKept ==
  ASSUME KeyConstants, AbsentApart, KeyInv, FreshInv, [KeyNext]_keyVars
  PROVE  FreshInv'
<1>1. CASE UNCHANGED keyVars
  BY <1>1 DEF keyVars, FreshInv, NextSoon, CacheComplete, StoreComplete, RefresherBusy,
              RefreshedInTime, HeldKeys
<1>2. CASE Tick
  BY <1>2, TickFresh
<1>3. ASSUME NEW k \in Keys, Rotate(k)
      PROVE  FreshInv'
  BY <1>3, RotateFresh
<1>4. ASSUME NEW t \in Verifiers, NEW credentials, Present(t, credentials)
      PROVE  FreshInv'
  BY <1>4, PresentFresh
<1>5. ASSUME NEW t \in Verifiers, NEW k \in Keys, NEW claims \in Claims, Look(t, k, claims)
      PROVE  FreshInv'
  BY <1>5, LookFresh
<1>6. ASSUME NEW t \in Verifiers, Yield(t) \/ Refresh(t)
      PROVE  FreshInv'
  BY <1>6, YieldFresh, RefreshFresh
<1>7. ASSUME NEW t \in Verifiers, Fetch(t) \/ FetchFails(t) \/ Keep(t)
      PROVE  FreshInv'
  BY <1>7, FetchFresh, FetchFailsFresh, KeepFresh
<1> QED
  BY <1>1, <1>2, <1>3, <1>4, <1>5, <1>6, <1>7 DEF KeyNext

-----------------------------------------------------------------------------
LEMMA OnlyTheUnfoundAreUnknown ==
  ASSUME NEW found, NEW claims
  PROVE  /\ Allowed(claims) # "unknown"
         /\ Verdict(found, claims) = "unknown" => ~found
BY DEF Verdict, Allowed

\* A set that is not due and lacks a key was fetched less than a RetryInterval ago, before the
\* key was published.
LEMMA MissedIsYoung ==
  ASSUME KeyConstants, AbsentApart, KeyInv, FreshInv, fetchFaults = 0, refresher = Absent,
         NEW k \in Keys, ~Cached(k), ~Due(k), published[k] # Absent
  PROVE  now - published[k] < RetryInterval
<1>1. now < jwks.nextRefreshAt
  BY DEF Due, KeyInv, KeyTypes
<1>2. now - jwks.fetchedAt < RetryInterval
  BY <1>1 DEF FreshInv, RefreshedInTime, KeyInv, KeyTypes, KeyConstants
<1>3. Usable
  BY <1>2 DEF Usable, KeyInv, KeyTypes, KeyConstants
<1>4. k \notin jwks.set
  BY <1>3 DEF Cached
<1>5. published[k] \in Nat /\ published[k] >= jwks.fetchedAt
  BY <1>4 DEF FreshInv, CacheComplete, KeyInv, KeyTypes
<1> QED
  BY <1>2, <1>5 DEF KeyInv, KeyTypes, KeyConstants

\* A thread that does not find a key, while no other fetches the keys, did not find it in a set
\* that was not due, or in the set it has just fetched.
LEMMA UnknownIsMissed ==
  ASSUME KeyConstants, AbsentApart, KeyInv, FreshInv, [KeyNext]_keyVars,
         NEW t \in Verifiers, Decided(t, "unknown"), refresher \in {Absent, t}
  PROVE  LET k == threads'[t].key
         IN /\ k \in Keys
            /\ \/ refresher = Absent /\ ~Cached(k) /\ ~Due(k)
               \/ threads[t].pc = "store" /\ k \notin threads[t].set
<1>1. threads'[t] # threads[t] /\ threads'[t].key # Absent /\ threads'[t].verdict = "unknown"
      /\ threads'[t].pc = "ready"
  BY DEF Decided
<1>2. ASSUME NEW u \in Verifiers, NEW verdict \in Verdicts, Answer(u, verdict)
      PROVE  u = t /\ threads'[t].key = threads[t].key /\ verdict = "unknown"
  BY <1>1, <1>2, AnswerEnds DEF KeyInv, KeyTypes
<1>3. threads[t].pc \notin {"fetch", "store"} => refresher = Absent
  BY DEF FreshInv, RefresherBusy
<1>4. threads[t].pc # "ready" => threads[t].key \in Keys
  BY DEF FreshInv, HeldKeys
<1>5. CASE UNCHANGED keyVars
  BY <1>1, <1>5 DEF keyVars
<1>6. CASE Tick \/ \E k \in Keys : Rotate(k)
  BY <1>1, <1>6 DEF KeyInv, KeyTypes, Tick, Rotate, Forget, Ready
<1>7. ASSUME NEW u \in Verifiers, NEW credentials, Present(u, credentials)
      PROVE  FALSE
  BY <1>1, <1>7 DEF KeyInv, KeyTypes, Present, Ready
<1>8. ASSUME NEW u \in Verifiers, NEW k \in Keys, NEW claims \in Claims, Look(u, k, claims)
      PROVE  threads'[t].key = k /\ ~Cached(k) /\ ~Due(k) /\ refresher = Absent
  <2> DEFINE next == IF Due(k) THEN [Ready EXCEPT !.pc = "refresh", !.key = k, !.claims = claims,
                                                  !.cached = Cached(k)]
                     ELSE [Ready EXCEPT !.key = k, !.verdict = Verdict(Cached(k), claims)]
  <2>1. threads' = [threads EXCEPT ![u] = next] /\ threads[u].pc = "ready"
    BY <1>8 DEF Look
  <2>2. /\ next.key = k /\ (next.pc = "ready" => ~Due(k))
        /\ next.pc = "ready" => next.verdict = Verdict(Cached(k), claims)
    BY DEF Ready
  <2> HIDE DEF next
  <2>3. u = t /\ threads'[t] = next
    BY <1>1, <2>1 DEF KeyInv, KeyTypes
  <2> QED
    BY <1>1, <1>3, <2>1, <2>2, <2>3, OnlyTheUnfoundAreUnknown
<1>9. ASSUME NEW u \in Verifiers, Yield(u)
      PROVE  FALSE
  <2>1. /\ Answer(u, Verdict(threads[u].cached, threads[u].claims))
        /\ threads[u].pc = "refresh" /\ refresher # Absent
    BY <1>9 DEF Yield
  <2> QED
    BY <1>2, <1>3, <2>1, SignedVerdicts
<1>10. ASSUME NEW u \in Verifiers, Refresh(u)
       PROVE  /\ threads'[t].key \in Keys /\ ~Cached(threads'[t].key) /\ ~Due(threads'[t].key)
              /\ refresher = Absent
  <2>1. threads[u].pc = "refresh" /\ refresher = Absent
    BY <1>10 DEF Refresh
  <2>2. CASE Due(threads[u].key)
    <3>1. threads' = [threads EXCEPT ![u].pc = "fetch"]
      BY <1>10, <2>2 DEF Refresh
    <3>2. threads[u] \in Waiting
      BY <2>1 DEF KeyInv, KeyTypes, Storing
    <3>3. threads'[u].pc = "fetch"
      BY <3>1, <3>2 DEF KeyInv, KeyTypes, Waiting
    <3> QED
      BY <1>1, <3>1, <3>3 DEF KeyInv, KeyTypes
  <2>3. CASE ~Due(threads[u].key)
    <3>1. Answer(u, Verdict(Cached(threads[u].key), threads[u].claims))
      BY <1>10, <2>3 DEF Refresh
    <3> QED
      BY <1>2, <1>4, <2>1, <2>3, <3>1, SignedVerdicts, OnlyTheUnfoundAreUnknown
  <2> QED
    BY <2>2, <2>3
<1>11. ASSUME NEW u \in Verifiers, Fetch(u)
       PROVE  FALSE
  BY <1>1, <1>11 DEF KeyInv, KeyTypes, Fetch
<1>12. ASSUME NEW u \in Verifiers, FetchFails(u)
       PROVE  FALSE
  <2> DEFINE verdict == IF threads[u].cached THEN Allowed(threads[u].claims) ELSE "unavailable"
  <2>1. Answer(u, verdict)
    BY <1>12 DEF FetchFails
  <2>2. verdict \in Verdicts /\ verdict # "unknown"
    BY SignedVerdicts, OnlyTheUnfoundAreUnknown DEF Verdicts
  <2> HIDE DEF verdict
  <2> QED
    BY <1>2, <2>1, <2>2
<1>13. ASSUME NEW u \in Verifiers, Keep(u)
       PROVE  /\ threads'[t].key \in Keys /\ threads[t].pc = "store"
              /\ threads'[t].key \notin threads[t].set
  <2> DEFINE verdict == Verdict(threads[u].key \in threads[u].set, threads[u].claims)
  <2>1. Answer(u, verdict) /\ threads[u].pc = "store"
    BY <1>13 DEF Keep
  <2>2. verdict \in Verdicts
    BY SignedVerdicts
  <2>3. verdict = "unknown" => threads[u].key \notin threads[u].set
    BY OnlyTheUnfoundAreUnknown
  <2> HIDE DEF verdict
  <2> QED
    BY <1>2, <1>4, <2>1, <2>2, <2>3
<1> QED
  BY <1>5, <1>6, <1>7, <1>8, <1>9, <1>10, <1>11, <1>12, <1>13 DEF KeyNext

\* A key that was published is unknown for a RetryInterval at most, unless another thread is
\* fetching the keys at that moment or a fetch failed before (http_auth.rs jwk_for).
THEOREM PublishedKeysKnown ==
  ASSUME KeyConstants, AbsentApart
  PROVE  KeySpec => [][PublishedKeyKnown]_keyVars
<1>1. ASSUME KeyInv, FreshInv, [KeyNext]_keyVars
      PROVE  PublishedKeyKnown
  <2>1. SUFFICES ASSUME NEW t \in Verifiers, Decided(t, "unknown"), refresher \in {Absent, t},
                        fetchFaults = 0, published[threads'[t].key] # Absent
                 PROVE  now - published[threads'[t].key] < RetryInterval
    BY DEF PublishedKeyKnown
  <2> DEFINE k == threads'[t].key
  <2>2. /\ k \in Keys
        /\ \/ refresher = Absent /\ ~Cached(k) /\ ~Due(k)
           \/ threads[t].pc = "store" /\ k \notin threads[t].set
    BY <1>1, <2>1, UnknownIsMissed
  <2> HIDE DEF k
  <2>3. published[k] # Absent
    BY <2>1 DEF k
  <2>4. CASE refresher = Absent /\ ~Cached(k) /\ ~Due(k)
    BY <1>1, <2>1, <2>2, <2>3, <2>4, MissedIsYoung DEF k
  <2>5. CASE threads[t].pc = "store" /\ k \notin threads[t].set
    <3>1. published[k] \in Nat /\ now \in Nat
      BY <1>1, <2>2, <2>3 DEF KeyInv, KeyTypes
    <3>2. ~(published[k] < now)
      BY <1>1, <2>2, <2>3, <2>5 DEF FreshInv, StoreComplete
    <3>3. now - published[k] < RetryInterval
      BY <3>1, <3>2 DEF KeyConstants
    <3> QED
      BY <3>3 DEF k
  <2> QED
    BY <2>2, <2>4, <2>5
<1>2. KeySpec => []KeyInv
  BY KeysStayRecent
<1>3. KeyInit => FreshInv
  BY FreshInvHolds
<1>4. KeyInv /\ FreshInv /\ [KeyNext]_keyVars => FreshInv'
  BY FreshInvKept
<1>5. KeySpec => []FreshInv
  BY <1>2, <1>3, <1>4, PTL DEF KeySpec
<1> QED
  BY <1>1, <1>2, <1>5, PTL DEF KeySpec
\* The issuer's keys are fetched when they are needed and by one thread, whatever threads, keys,
\* times and failures (http_auth.rs jwk_for).
THEOREM KeysAlwaysFetched ==
  ASSUME KeyConstants, AbsentApart
  PROVE  KeySpec => KeysFetched
BY PublishedKeysKnown, IssuerAskedSparingly, PTL DEF KeysFetched
=============================================================================
