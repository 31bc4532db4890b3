--------------------------- MODULE CorpusBuildProofs ---------------------------
(***************************************************************************)
(* Proofs about CorpusBuild, for any sources and any number of runs, kills   *)
(* and failures: an output can be taken up again until it is complete, and   *)
(* what is complete holds one snapshot of the workspaces.  The inductive     *)
(* invariant follows a run: what the checkpoint binds, which sources have    *)
(* rows no older than that, which of those the second thread has written,    *)
(* and what each step after the thread has ended adds.                       *)
(***************************************************************************)
EXTENDS CorpusBuild, SourceIngest, FiniteSetTheorems, SequenceTheorems, TLAPS

Rows == [Legal -> Nat \cup {Missing}]
Manifests == [rows : Rows, stamp : Nat, vectors : Rows]

\* A workspace is not Missing, and neither is a manifest.
NothingApart == Missing \notin [Legal -> Nat] /\ Missing \notin Manifests

Ended == {"finish", "clear", "compare", "models", "lexical", "publish", "release"}
Running == {"ingest", "join"} \cup Ended

Outputs ==
  [state : [Legal -> Nat] \cup {Missing}, db : BOOLEAN, rows : Rows, cache : BOOLEAN, stamp : Nat,
   vectors : Rows, lexical : {Nothing} \cup [Legal -> (Nat \cup {Missing}) \X Nat],
   models : BOOLEAN, manifest : Manifests \cup {Missing},
   litter : SUBSET {"ann", "temporary", "lexical"}]
Steps == {"idle", "check", "bind", "unpublish"} \cup Running
Builders == [pc : Steps, binding : Rows, todo : Seq(Legal), runs : Nat]
Followers ==
  [pc : {"none", "idle", "scan", "write", "failed"}, queue : Seq(Legal),
   source : Legal \cup {Missing}, open : BOOLEAN, made : Rows]

BuildTypes ==
  workspace \in [Legal -> Nat] /\ out \in Outputs /\ main \in Builders /\ ann \in Followers

\* The binding is what the workspaces were when the run began, and it begins with all of them.
BindingRead ==
  /\ main.pc # "idle" =>
       \A s \in Legal : main.binding[s] \in Nat /\ main.binding[s] <= workspace[s]
  /\ main.pc \in {"check", "bind", "unpublish"} => main.todo = Order

\* What the checkpoint and the manifest are at each step of a run.
Checkpointed ==
  /\ main.pc = "bind" => out.state = Missing /\ out.manifest = Missing /\ ~out.db
  /\ main.pc \in {"unpublish"} \cup Running => out.state = main.binding
  /\ main.pc \in Running \ {"release"} => out.manifest = Missing

\* The thread works on nothing while no source is ingested.
ThreadRests ==
  /\ main.pc \notin {"ingest", "join"} =>
       ann.pc \in {"none", "failed"} \/ (ann.pc = "idle" /\ ann.queue = <<>>)
  /\ ann.pc \in {"scan", "write"} => ann.source \in Legal
  /\ main.pc \in Ended => main.todo = <<>> /\ ann.pc = "idle"

\* The sources that this run has ingested, and those among them that the thread has done.
Behind == IF ann.pc \in {"scan", "write", "failed"} THEN {ann.source} ELSE {}
RowsBound ==
  main.pc \in Running =>
    \A s \in Legal \ ToSet(main.todo) :
      out.rows[s] \in Nat /\ main.binding[s] <= out.rows[s] /\ out.rows[s] <= workspace[s]
VectorsMade ==
  main.pc \in Running =>
    /\ \A s \in Legal \ (ToSet(main.todo) \cup ToSet(ann.queue) \cup Behind) :
         ann.made[s] = out.rows[s] /\ out.vectors[s] = out.rows[s]
    /\ ann.pc = "write" /\ ann.source \notin ToSet(ann.queue) =>
         ann.made[ann.source] = out.rows[ann.source]

\* What the steps after the thread add.
Completing ==
  /\ main.pc \in Ended \ {"finish"} => out.stamp = main.runs
  /\ main.pc \in Ended \ {"finish", "clear"} => ~out.cache
  /\ main.pc \in {"models", "lexical", "publish", "release"} => out.rows = main.binding
  /\ main.pc \in {"lexical", "publish", "release"} => out.models
  /\ main.pc \in {"publish", "release"} =>
       out.lexical = [s \in Legal |-> <<out.rows[s], out.stamp>>]
  /\ main.pc = "release" =>
       out.manifest = [rows |-> out.rows, stamp |-> main.runs, vectors |-> ann.made]

\* The conditions of BuildResumes, at every step.
Resumable ==
  /\ (out.db /\ out.manifest = Missing) => out.state # Missing
  /\ (out.manifest # Missing /\ out.state # Missing) => out.manifest.rows = out.state
Whole ==
  /\ out.manifest.rows = out.rows /\ out.vectors = out.rows
  /\ out.manifest.vectors = out.vectors
  /\ out.manifest.stamp = out.stamp
  /\ out.lexical = [s \in Legal |-> <<out.rows[s], out.stamp>>]
  /\ out.models /\ ~out.cache

BuildInv ==
  /\ BuildTypes /\ BindingRead /\ Checkpointed /\ ThreadRests
  /\ RowsBound /\ VectorsMade /\ Completing
  /\ Resumable /\ (Completed => Whole)
-----------------------------------------------------------------------------
(* Sequences of sources *)

LEMMA SetOfTail ==
  ASSUME NEW S, NEW s \in Seq(S), s # <<>>
  PROVE  Head(s) \in S /\ Tail(s) \in Seq(S) /\ ToSet(s) \subseteq {Head(s)} \cup ToSet(Tail(s))
<1>1. Head(s) = s[1] /\ Head(s) \in S /\ Tail(s) \in Seq(S)
  OBVIOUS
<1>2. ASSUME NEW i \in DOMAIN s, i # 1
      PROVE  s[i] \in ToSet(Tail(s))
  <2>1. i - 1 \in DOMAIN Tail(s) /\ Tail(s)[i - 1] = s[i]
    BY <1>2
  <2> QED
    BY <2>1 DEF ToSet
<1> QED
  BY <1>1, <1>2 DEF ToSet

LEMMA SetOfAppend ==
  ASSUME NEW S, NEW s \in Seq(S), NEW e \in S
  PROVE  /\ Append(s, e) \in Seq(S) /\ e \in ToSet(Append(s, e))
         /\ ToSet(s) \subseteq ToSet(Append(s, e))
<1>1. Append(s, e) \in Seq(S) /\ Len(Append(s, e)) = Len(s) + 1
  OBVIOUS
<1>2. Append(s, e)[Len(s) + 1] = e /\ Len(s) + 1 \in DOMAIN Append(s, e)
  OBVIOUS
<1>3. ASSUME NEW i \in DOMAIN s
      PROVE  i \in DOMAIN Append(s, e) /\ Append(s, e)[i] = s[i]
  OBVIOUS
<1> QED
  BY <1>1, <1>2, <1>3 DEF ToSet

LEMMA SetOfNothing == ToSet(<<>>) = {}
BY DEF ToSet

LEMMA StartTypes == NoThread \in Followers /\ Nothing \in Rows
BY DEF NoThread, Nothing, Rows, Followers

-----------------------------------------------------------------------------
LEMMA BuildInvHolds == ASSUME BuildInit PROVE BuildInv
<1>1. BuildTypes
  BY StartTypes DEF BuildInit, BuildTypes, Idle, Outputs, Builders, Steps
<1>2. BindingRead /\ Checkpointed /\ ThreadRests /\ RowsBound /\ VectorsMade /\ Completing
  BY DEF BuildInit, BindingRead, Checkpointed, ThreadRests, RowsBound, VectorsMade, Completing,
         Idle, NoThread, Running, Ended
<1>3. Resumable /\ (Completed => Whole)
  BY DEF BuildInit, Resumable, Completed
<1> QED
  BY <1>1, <1>2, <1>3 DEF BuildInv

LEMMA WorkspaceChangesKeeps ==
  ASSUME BuildInv, NEW s \in Legal, WorkspaceChanges(s)
  PROVE  BuildInv'
<1>1. UNCHANGED <<out, main, ann>>
  BY DEF WorkspaceChanges
<1>2. workspace' \in [Legal -> Nat] /\ \A r \in Legal : workspace[r] <= workspace'[r]
  BY DEF WorkspaceChanges, BuildInv, BuildTypes
<1>3. BuildTypes'
  BY <1>1, <1>2 DEF BuildInv, BuildTypes
<1>4. BindingRead'
  BY <1>1, <1>2 DEF BuildInv, BuildTypes, Builders, BindingRead
<1>5. RowsBound'
  BY <1>1, <1>2 DEF BuildInv, BuildTypes, Outputs, Builders, RowsBound, BindingRead, Running, Ended
<1>6. Checkpointed' /\ ThreadRests' /\ VectorsMade' /\ Completing'
  BY <1>1 DEF BuildInv, Checkpointed, ThreadRests, VectorsMade, Behind, Completing
<1>7. Resumable' /\ (Completed => Whole)'
  BY <1>1 DEF BuildInv, Resumable, Completed, Whole
<1> QED
  BY <1>3, <1>4, <1>5, <1>6, <1>7 DEF BuildInv

\* The steps that leave the output alone do not spoil it.
LEMMA OutputKept ==
  ASSUME BuildInv, UNCHANGED out
  PROVE  Resumable' /\ (Completed => Whole)'
BY DEF BuildInv, Resumable, Completed, Whole

LEMMA LaunchKeeps ==
  ASSUME BuildConstants, BuildInv, Launch
  PROVE  BuildInv'
<1>1. /\ main' = [pc |-> "check", binding |-> workspace, todo |-> Order, runs |-> main.runs + 1]
      /\ ann' = NoThread /\ UNCHANGED <<workspace, out>>
  BY DEF Launch
<1>2. /\ main'.pc = "check" /\ main'.binding = workspace
      /\ ann'.pc = "none"
  BY <1>1 DEF NoThread
<1>3. BuildTypes'
  BY <1>1, StartTypes DEF BuildInv, BuildTypes, Builders, Steps, Rows, BuildConstants, Legal
<1>4. BindingRead'
  BY <1>1, <1>2 DEF BuildInv, BuildTypes, Builders, BindingRead
<1>5. Checkpointed' /\ ThreadRests' /\ RowsBound' /\ VectorsMade' /\ Completing'
  BY <1>2 DEF Checkpointed, ThreadRests, RowsBound, VectorsMade, Completing, Running, Ended
<1>6. Resumable' /\ (Completed => Whole)'
  BY <1>1, OutputKept
<1> QED
  BY <1>3, <1>4, <1>5, <1>6 DEF BuildInv

\* The fields of the main thread when only its step changes.
LEMMA Gone ==
  ASSUME BuildTypes, NEW pc \in Steps, Go(pc)
  PROVE  /\ main' \in Builders
         /\ main'.pc = pc /\ main'.binding = main.binding /\ main'.todo = main.todo
         /\ main'.runs = main.runs
BY DEF Go, BuildTypes, Builders

LEMMA CheckKeeps ==
  ASSUME BuildInv, Check
  PROVE  BuildInv'
<1> DEFINE next == IF Refused THEN "idle" ELSE IF out.state = Missing THEN "bind" ELSE "unpublish"
<1>1. main.pc = "check" /\ Go(next) /\ UNCHANGED <<workspace, out, ann>>
  BY DEF Check, At
<1>2. next \in {"idle", "bind", "unpublish"}
  OBVIOUS
<1>3. next = "bind" => out.state = Missing /\ out.manifest = Missing /\ ~out.db
  BY DEF Refused
<1>4. next = "unpublish" => out.state = main.binding
  BY DEF Refused
<1> HIDE DEF next
<1>5. /\ main'.pc = next /\ main'.binding = main.binding /\ main'.todo = main.todo
      /\ main' \in Builders
  BY <1>1, <1>2, Gone DEF BuildInv, Steps
<1>6. BuildTypes'
  BY <1>1, <1>5 DEF BuildInv, BuildTypes
<1>7. BindingRead'
  BY <1>1, <1>5 DEF BuildInv, BindingRead
<1>8. Checkpointed' /\ ThreadRests'
  BY <1>1, <1>2, <1>3, <1>4, <1>5 DEF BuildInv, Checkpointed, ThreadRests, Running, Ended
<1>9. RowsBound' /\ VectorsMade' /\ Completing'
  BY <1>2, <1>5 DEF RowsBound, VectorsMade, Completing, Running, Ended
<1>10. Resumable' /\ (Completed => Whole)'
  BY <1>1, OutputKept
<1> QED
  BY <1>6, <1>7, <1>8, <1>9, <1>10 DEF BuildInv

\* A checkpoint is made only where there is neither a database nor a manifest.
LEMMA BindKeeps ==
  ASSUME NothingApart, BuildInv, Bind
  PROVE  BuildInv'
<1>1. /\ main.pc = "bind" /\ Go("unpublish") /\ UNCHANGED <<workspace, ann>>
      /\ out' = [out EXCEPT !.state = main.binding]
  BY DEF Bind, At
<1>2. main.binding \in [Legal -> Nat]
  BY <1>1 DEF BuildInv, BuildTypes, Builders, BindingRead, Rows
<1>3. /\ main'.pc = "unpublish" /\ main'.binding = main.binding /\ main'.todo = main.todo
      /\ main' \in Builders
  BY <1>1, Gone DEF BuildInv, Steps
<1>4. /\ out'.state = main.binding /\ out'.manifest = out.manifest
      /\ out.manifest = Missing
  BY <1>1 DEF BuildInv, BuildTypes, Outputs, Checkpointed
<1>5. BuildTypes'
  BY <1>1, <1>2, <1>3 DEF BuildInv, BuildTypes, Outputs
<1>6. BindingRead' /\ Checkpointed'
  BY <1>1, <1>3, <1>4 DEF BuildInv, BindingRead, Checkpointed, Running, Ended
<1>7. ThreadRests'
  BY <1>1, <1>3 DEF BuildInv, ThreadRests, Ended
<1>8. RowsBound' /\ VectorsMade' /\ Completing'
  BY <1>3 DEF RowsBound, VectorsMade, Completing, Running, Ended
<1>9. Resumable' /\ (Completed => Whole)'
  BY <1>2, <1>4 DEF Resumable, Completed, NothingApart
<1> QED
  BY <1>5, <1>6, <1>7, <1>8, <1>9 DEF BuildInv

\* Every source is still to be ingested.
LEMMA UnpublishKeeps ==
  ASSUME BuildConstants, NothingApart, BuildInv, Unpublish
  PROVE  BuildInv'
<1>1. /\ main.pc = "unpublish" /\ Go("ingest") /\ UNCHANGED workspace
      /\ out' = [out EXCEPT !.manifest = Missing, !.db = TRUE]
      /\ ann' = [NoThread EXCEPT !.pc = "idle", !.open = TRUE]
  BY DEF Unpublish, At
<1>2. /\ main'.pc = "ingest" /\ main'.binding = main.binding /\ main'.todo = main.todo
      /\ main' \in Builders
  BY <1>1, Gone DEF BuildInv, Steps, Running
<1>3. /\ out'.state = out.state /\ out'.manifest = Missing /\ out' \in Outputs
  BY <1>1 DEF BuildInv, BuildTypes, Outputs
<1>4. /\ ann'.pc = "idle" /\ ann'.queue = <<>> /\ ann' \in Followers
  BY <1>1, StartTypes DEF NoThread, Followers
<1>5. BuildTypes'
  BY <1>1, <1>2, <1>3, <1>4 DEF BuildInv, BuildTypes
<1>6. BindingRead' /\ Checkpointed' /\ ThreadRests'
  BY <1>1, <1>2, <1>3, <1>4 DEF BuildInv, BindingRead, Checkpointed, ThreadRests, Ended, Running
<1>7. RowsBound' /\ VectorsMade'
  BY <1>1, <1>2, <1>4 DEF BuildInv, BindingRead, RowsBound, VectorsMade, Legal
<1>8. Completing'
  BY <1>2 DEF Completing, Ended
<1>9. Resumable' /\ (Completed => Whole)'
  <2>1. main.binding \in [Legal -> Nat]
    BY <1>1 DEF BuildInv, BuildTypes, Builders, BindingRead, Rows
  <2>2. out.state # Missing
    BY <1>1, <2>1 DEF BuildInv, Checkpointed, NothingApart
  <2> QED
    BY <1>3, <2>2 DEF Resumable, Completed
<1> QED
  BY <1>5, <1>6, <1>7, <1>8, <1>9 DEF BuildInv

\* The checkpoint is there from the first source to the manifest.
LEMMA CheckpointThere ==
  ASSUME NothingApart, BuildInv, main.pc \in Running
  PROVE  out.state # Missing /\ ~Completed
<1>1. main.binding \in [Legal -> Nat]
  BY DEF BuildInv, BuildTypes, Builders, BindingRead, Rows, Running, Ended
<1> QED
  BY <1>1 DEF BuildInv, Checkpointed, NothingApart, Completed

\* A source that is ingested is as new as the workspace, and waits for the thread unless that
\* has stopped.
LEMMA IngestKeeps ==
  ASSUME NothingApart, BuildInv, Ingest
  PROVE  BuildInv'
<1> DEFINE s == Head(main.todo)
<1>1. /\ main.pc = "ingest" /\ main.todo # <<>> /\ ann.pc # "scan" /\ UNCHANGED workspace
      /\ out' = [out EXCEPT !.rows[s] = workspace[s], !.cache = @ \/ out.rows[s] # workspace[s]]
  BY DEF Ingest, At
<1>2. /\ s \in Legal /\ Tail(main.todo) \in Seq(Legal)
      /\ ToSet(main.todo) \subseteq {s} \cup ToSet(Tail(main.todo))
  BY <1>1, SetOfTail DEF BuildInv, BuildTypes, Builders
<1>3. IF ann.pc = "failed"
      THEN main' = [main EXCEPT !.pc = "join"] /\ UNCHANGED ann
      ELSE /\ main' = [main EXCEPT !.todo = Tail(main.todo)]
           /\ ann' = [ann EXCEPT !.queue = Append(ann.queue, s)]
  BY DEF Ingest
<1> HIDE DEF s
<1>4. /\ out' \in Outputs
      /\ out'.state = out.state /\ out'.manifest = out.manifest /\ out'.db = out.db
      /\ out'.vectors = out.vectors /\ out'.rows = [out.rows EXCEPT ![s] = workspace[s]]
  BY <1>1, <1>2 DEF BuildInv, BuildTypes, Outputs, Rows
<1>5. /\ out'.rows[s] = workspace[s] /\ \A r \in Legal \ {s} : out'.rows[r] = out.rows[r]
  BY <1>2, <1>4 DEF BuildInv, BuildTypes, Outputs, Rows
<1>6. Resumable' /\ (Completed => Whole)'
  BY <1>1, <1>4, CheckpointThere DEF BuildInv, Resumable, Completed, Running
<1>7. CASE ann.pc = "failed"
  <2>1. /\ main' \in Builders /\ main'.pc = "join" /\ main'.binding = main.binding
        /\ main'.todo = main.todo /\ ann' = ann
    BY <1>3, <1>7 DEF BuildInv, BuildTypes, Builders, Steps, Running
  <2>2. s \in ToSet(main.todo)
    BY <1>1 DEF s, ToSet, BuildInv, BuildTypes, Builders
  <2>3. BuildTypes'
    BY <1>1, <1>4, <2>1 DEF BuildInv, BuildTypes
  <2>4. BindingRead' /\ Checkpointed' /\ ThreadRests'
    BY <1>1, <1>4, <1>7, <2>1 DEF BuildInv, BindingRead, Checkpointed, ThreadRests, Running, Ended
  <2>5. RowsBound' /\ VectorsMade'
    BY <1>1, <1>4, <1>5, <1>7, <2>1, <2>2
       DEF BuildInv, RowsBound, VectorsMade, Behind, Running
  <2>6. Completing'
    BY <2>1 DEF Completing, Ended
  <2> QED
    BY <1>6, <2>3, <2>4, <2>5, <2>6 DEF BuildInv
<1>8. CASE ann.pc # "failed"
  <2>1. /\ main' \in Builders /\ main'.pc = "ingest" /\ main'.binding = main.binding
        /\ main'.todo = Tail(main.todo)
    BY <1>1, <1>2, <1>3, <1>8 DEF BuildInv, BuildTypes, Builders
  <2>2. /\ Append(ann.queue, s) \in Seq(Legal) /\ s \in ToSet(Append(ann.queue, s))
        /\ ToSet(ann.queue) \subseteq ToSet(Append(ann.queue, s))
    BY <1>2, SetOfAppend DEF BuildInv, BuildTypes, Followers
  <2>3. /\ ann' \in Followers /\ ann'.pc = ann.pc /\ ann'.queue = Append(ann.queue, s)
        /\ ann'.source = ann.source /\ ann'.made = ann.made
    BY <1>3, <1>8, <2>2 DEF BuildInv, BuildTypes, Followers
  <2>4. BuildTypes'
    BY <1>1, <1>4, <2>1, <2>3 DEF BuildInv, BuildTypes
  <2>5. BindingRead' /\ Checkpointed' /\ ThreadRests'
    BY <1>1, <1>4, <2>1, <2>3 DEF BuildInv, BindingRead, Checkpointed, ThreadRests, Running, Ended
  <2>6. RowsBound'
    <3>1. ASSUME NEW r \in Legal \ ToSet(Tail(main.todo)), r # s
          PROVE  r \in Legal \ ToSet(main.todo)
      BY <1>2, <3>1
    <3>2. main.binding[s] \in Nat /\ main.binding[s] <= workspace[s] /\ workspace[s] \in Nat
      BY <1>1, <1>2 DEF BuildInv, BuildTypes, BindingRead
    <3> QED
      BY <1>1, <1>5, <2>1, <3>1, <3>2 DEF BuildInv, RowsBound, Running
  <2>7. VectorsMade'
    <3>1. Behind' = Behind
      BY <2>3 DEF Behind
    <3>2. ASSUME NEW r \in Legal \ (ToSet(Tail(main.todo)) \cup ToSet(Append(ann.queue, s)) \cup Behind)
          PROVE  r # s /\ r \in Legal \ (ToSet(main.todo) \cup ToSet(ann.queue) \cup Behind)
      BY <1>2, <2>2, <3>2
    <3>3. ASSUME ann.pc = "write", ann.source \notin ToSet(Append(ann.queue, s))
          PROVE  ann.source \in Legal \ {s} /\ ann.source \notin ToSet(ann.queue)
      BY <2>2, <3>3 DEF BuildInv, ThreadRests
    <3> QED
      BY <1>1, <1>4, <1>5, <2>1, <2>3, <3>1, <3>2, <3>3 DEF BuildInv, VectorsMade, Running
  <2>8. Completing'
    BY <2>1 DEF Completing, Ended
  <2> QED
    BY <1>6, <2>4, <2>5, <2>6, <2>7, <2>8 DEF BuildInv
<1> QED
  BY <1>7, <1>8

\* The ingest that ends: nothing of the output changes, and the thread goes on.
LEMMA LeaveIngest ==
  ASSUME BuildInv, main.pc = "ingest", Go("join"), UNCHANGED <<workspace, out, ann>>
  PROVE  BuildInv'
<1>1. /\ main'.pc = "join" /\ main'.binding = main.binding /\ main'.todo = main.todo
      /\ main' \in Builders
  BY Gone DEF BuildInv, Steps, Running
<1>2. BuildTypes' /\ BindingRead' /\ Checkpointed' /\ ThreadRests'
  BY <1>1 DEF BuildInv, BuildTypes, BindingRead, Checkpointed, ThreadRests, Running, Ended
<1>3. RowsBound' /\ VectorsMade'
  BY <1>1 DEF BuildInv, RowsBound, VectorsMade, Behind, Running
<1>4. Completing'
  BY <1>1 DEF Completing, Ended
<1>5. Resumable' /\ (Completed => Whole)'
  BY OutputKept
<1> QED
  BY <1>2, <1>3, <1>4, <1>5 DEF BuildInv

-----------------------------------------------------------------------------
(* The second thread *)

\* What a step of the thread leaves as it was, whatever it does to its own state.
LEMMA ThreadSteps ==
  ASSUME BuildInv, UNCHANGED <<workspace, main>>, ann' \in Followers, out' \in Outputs,
         main.pc \in {"ingest", "join"},
         ann'.pc \in {"scan", "write"} => ann'.source \in Legal,
         \A f \in {"state", "manifest", "db", "rows"} : out'[f] = out[f]
  PROVE  /\ BuildTypes' /\ BindingRead' /\ Checkpointed' /\ ThreadRests'
         /\ RowsBound' /\ Completing'
<1>1. /\ out'.state = out.state /\ out'.manifest = out.manifest /\ out'.db = out.db
      /\ out'.rows = out.rows
  OBVIOUS
<1>2. BuildTypes' /\ BindingRead'
  BY DEF BuildInv, BuildTypes, BindingRead
<1>3. Checkpointed' /\ ThreadRests' /\ RowsBound' /\ Completing'
  BY <1>1 DEF BuildInv, Checkpointed, ThreadRests, RowsBound, Completing, Running, Ended
<1> QED
  BY <1>2, <1>3

\* The thread works only while sources are ingested or the main thread waits for it.
LEMMA ThreadWorks ==
  ASSUME BuildInv, ann.pc \in {"scan", "write"} \/ (ann.pc = "idle" /\ ann.queue # <<>>)
  PROVE  main.pc \in {"ingest", "join"} /\ main.pc \in Running
BY DEF BuildInv, ThreadRests, Running

LEMMA ScanKeeps ==
  ASSUME BuildInv, Scan
  PROVE  BuildInv'
<1>1. /\ ann.pc = "idle" /\ ann.queue # <<>> /\ UNCHANGED <<workspace, out, main>>
      /\ ann' = [ann EXCEPT !.pc = "scan", !.source = Head(ann.queue), !.queue = Tail(ann.queue)]
  BY DEF Scan
<1>2. /\ Head(ann.queue) \in Legal /\ Tail(ann.queue) \in Seq(Legal)
      /\ ToSet(ann.queue) \subseteq {Head(ann.queue)} \cup ToSet(Tail(ann.queue))
  BY <1>1, SetOfTail DEF BuildInv, BuildTypes, Followers
<1>3. /\ ann' \in Followers /\ ann'.pc = "scan" /\ ann'.source = Head(ann.queue)
      /\ ann'.queue = Tail(ann.queue) /\ ann'.made = ann.made
  BY <1>1, <1>2 DEF BuildInv, BuildTypes, Followers
<1>4. main.pc \in {"ingest", "join"} /\ main.pc \in Running
  BY <1>1, ThreadWorks
<1>5. /\ BuildTypes' /\ BindingRead' /\ Checkpointed' /\ ThreadRests'
      /\ RowsBound' /\ Completing'
  BY <1>1, <1>2, <1>3, <1>4, ThreadSteps DEF BuildInv, BuildTypes
<1>6. VectorsMade'
  <2>1. ASSUME NEW r \in Legal \ (ToSet(main.todo) \cup ToSet(Tail(ann.queue)) \cup {Head(ann.queue)})
        PROVE  r \in Legal \ (ToSet(main.todo) \cup ToSet(ann.queue) \cup Behind)
    BY <1>1, <1>2 DEF Behind
  <2> QED
    BY <1>1, <1>3, <1>4, <2>1 DEF BuildInv, VectorsMade, Behind
<1>7. Resumable' /\ (Completed => Whole)'
  BY <1>1, OutputKept
<1> QED
  BY <1>5, <1>6, <1>7 DEF BuildInv

LEMMA ScannedKeeps ==
  ASSUME BuildInv, Scanned
  PROVE  BuildInv'
<1>1. /\ ann.pc = "scan" /\ UNCHANGED <<workspace, out, main>>
      /\ ann' = [ann EXCEPT !.pc = "write", !.made[ann.source] = out.rows[ann.source]]
  BY DEF Scanned
<1>2. ann.source \in Legal
  BY <1>1 DEF BuildInv, ThreadRests
<1>3. /\ ann' \in Followers /\ ann'.pc = "write" /\ ann'.source = ann.source
      /\ ann'.queue = ann.queue /\ ann'.made = [ann.made EXCEPT ![ann.source] = out.rows[ann.source]]
  BY <1>1, <1>2 DEF BuildInv, BuildTypes, Followers, Outputs, Rows
<1>4. /\ ann'.made[ann.source] = out.rows[ann.source]
      /\ \A r \in Legal \ {ann.source} : ann'.made[r] = ann.made[r]
  BY <1>2, <1>3 DEF BuildInv, BuildTypes, Followers, Rows
<1>5. main.pc \in {"ingest", "join"} /\ main.pc \in Running
  BY <1>1, ThreadWorks
<1>6. /\ BuildTypes' /\ BindingRead' /\ Checkpointed' /\ ThreadRests'
      /\ RowsBound' /\ Completing'
  BY <1>1, <1>2, <1>3, <1>5, ThreadSteps DEF BuildInv, BuildTypes
<1>7. VectorsMade'
  <2>1. Behind = {ann.source} /\ Behind' = {ann.source}
    BY <1>1, <1>3 DEF Behind
  <2> QED
    BY <1>1, <1>3, <1>4, <1>5, <2>1 DEF BuildInv, VectorsMade
<1>8. Resumable' /\ (Completed => Whole)'
  BY <1>1, OutputKept
<1> QED
  BY <1>6, <1>7, <1>8 DEF BuildInv

\* The index that is put in place is of the rows the database holds, unless the source was
\* ingested again and waits again.
LEMMA ReplaceKeeps ==
  ASSUME NothingApart, BuildInv, Replace
  PROVE  BuildInv'
<1>1. /\ ann.pc = "write" /\ UNCHANGED <<workspace, main>>
      /\ out' = [out EXCEPT !.vectors[ann.source] = ann.made[ann.source]]
      /\ ann' = [ann EXCEPT !.pc = "idle"]
  BY DEF Replace
<1>2. ann.source \in Legal
  BY <1>1 DEF BuildInv, ThreadRests
<1>3. /\ ann' \in Followers /\ ann'.pc = "idle" /\ ann'.queue = ann.queue /\ ann'.made = ann.made
  BY <1>1 DEF BuildInv, BuildTypes, Followers
<1>4. /\ out' \in Outputs
      /\ out'.state = out.state /\ out'.manifest = out.manifest /\ out'.db = out.db
      /\ out'.rows = out.rows
      /\ out'.vectors = [out.vectors EXCEPT ![ann.source] = ann.made[ann.source]]
  BY <1>1, <1>2 DEF BuildInv, BuildTypes, Followers, Outputs, Rows
<1>5. /\ out'.vectors[ann.source] = ann.made[ann.source]
      /\ \A r \in Legal \ {ann.source} : out'.vectors[r] = out.vectors[r]
  BY <1>2, <1>4 DEF BuildInv, BuildTypes, Outputs, Rows
<1>6. main.pc \in {"ingest", "join"} /\ main.pc \in Running
  BY <1>1, ThreadWorks
<1>7. /\ BuildTypes' /\ BindingRead' /\ Checkpointed' /\ ThreadRests'
      /\ RowsBound' /\ Completing'
  BY <1>1, <1>3, <1>4, <1>6, ThreadSteps
<1>8. VectorsMade'
  <2>1. Behind = {ann.source} /\ Behind' = {}
    BY <1>1, <1>3 DEF Behind
  <2> QED
    BY <1>1, <1>3, <1>4, <1>5, <1>6, <2>1 DEF BuildInv, VectorsMade
<1>9. Resumable' /\ (Completed => Whole)'
  BY <1>4, <1>6, CheckpointThere DEF BuildInv, Resumable, Completed
<1> QED
  BY <1>7, <1>8, <1>9 DEF BuildInv

LEMMA AnnFailsKeeps ==
  ASSUME BuildInv, AnnFails
  PROVE  BuildInv'
<1>1. /\ ann.pc \in {"scan", "write"} /\ UNCHANGED <<workspace, out, main>>
      /\ ann' = [ann EXCEPT !.pc = "failed"]
  BY DEF AnnFails
<1>2. /\ ann' \in Followers /\ ann'.pc = "failed" /\ ann'.source = ann.source
      /\ ann'.queue = ann.queue /\ ann'.made = ann.made
  BY <1>1 DEF BuildInv, BuildTypes, Followers
<1>3. main.pc \in {"ingest", "join"} /\ main.pc \in Running
  BY <1>1, ThreadWorks
<1>4. /\ BuildTypes' /\ BindingRead' /\ Checkpointed' /\ ThreadRests'
      /\ RowsBound' /\ Completing'
  BY <1>1, <1>2, <1>3, ThreadSteps DEF BuildInv, BuildTypes
<1>5. VectorsMade'
  BY <1>1, <1>2, <1>3 DEF BuildInv, VectorsMade, Behind
<1>6. Resumable' /\ (Completed => Whole)'
  BY <1>1, OutputKept
<1> QED
  BY <1>4, <1>5, <1>6 DEF BuildInv

\* The run goes on only when every source is ingested and the thread has done them all.
LEMMA JoinKeeps ==
  ASSUME BuildInv, Join
  PROVE  BuildInv'
<1> DEFINE next == IF ann.pc = "idle" /\ main.todo = <<>> THEN "finish" ELSE "idle"
<1>1. /\ main.pc = "join" /\ (ann.pc = "failed" \/ (ann.pc = "idle" /\ ann.queue = <<>>))
      /\ Go(next) /\ UNCHANGED <<workspace, out>>
      /\ ann' = [ann EXCEPT !.open = FALSE]
  BY DEF Join, At
<1>2. /\ next \in {"finish", "idle"}
      /\ next = "finish" => ann.pc = "idle" /\ main.todo = <<>>
  OBVIOUS
<1> HIDE DEF next
<1>3. /\ main'.pc = next /\ main'.binding = main.binding /\ main'.todo = main.todo
      /\ main' \in Builders
  BY <1>1, <1>2, Gone DEF BuildInv, Steps, Running, Ended
<1>4. /\ ann' \in Followers /\ ann'.pc = ann.pc /\ ann'.queue = ann.queue
      /\ ann'.source = ann.source /\ ann'.made = ann.made
  BY <1>1 DEF BuildInv, BuildTypes, Followers
<1>5. BuildTypes' /\ BindingRead'
  BY <1>1, <1>2, <1>3, <1>4 DEF BuildInv, BuildTypes, BindingRead
<1>6. Checkpointed' /\ ThreadRests'
  BY <1>1, <1>2, <1>3, <1>4 DEF BuildInv, Checkpointed, ThreadRests, Running, Ended
<1>7. RowsBound' /\ VectorsMade'
  BY <1>1, <1>2, <1>3, <1>4 DEF BuildInv, RowsBound, VectorsMade, Behind, Running, Ended
<1>8. Completing'
  BY <1>2, <1>3 DEF Completing, Ended
<1>9. Resumable' /\ (Completed => Whole)'
  BY <1>1, OutputKept
<1> QED
  BY <1>5, <1>6, <1>7, <1>8, <1>9 DEF BuildInv

-----------------------------------------------------------------------------
(* The end of a run *)

\* Once the thread has ended, a step that leaves the rows and the vectors, the checkpoint and the
\* absence of a manifest keeps all but what the steps add.
LEMMA EndSteps ==
  ASSUME NothingApart, BuildInv, NEW pc \in Ended, main.pc \in Ended \ {"release"},
         pc # "release", Go(pc), UNCHANGED <<workspace, ann>>, out' \in Outputs,
         \A f \in {"state", "manifest", "db", "rows", "vectors"} : out'[f] = out[f]
  PROVE  /\ BuildTypes' /\ BindingRead' /\ Checkpointed' /\ ThreadRests'
         /\ RowsBound' /\ VectorsMade' /\ Resumable' /\ (Completed => Whole)'
         /\ main'.pc = pc /\ main'.binding = main.binding /\ main'.runs = main.runs
<1>1. /\ main'.pc = pc /\ main'.binding = main.binding /\ main'.todo = main.todo
      /\ main'.runs = main.runs /\ main' \in Builders
  BY Gone DEF BuildInv, Steps, Running
<1>2. /\ out'.state = out.state /\ out'.manifest = out.manifest /\ out'.db = out.db
      /\ out'.rows = out.rows /\ out'.vectors = out.vectors
  OBVIOUS
<1>3. main.pc \in Running /\ pc \in Running
  BY DEF Running
<1>4. BuildTypes' /\ BindingRead'
  BY <1>1 DEF BuildInv, BuildTypes, BindingRead, Ended
<1>5. Checkpointed' /\ ThreadRests'
  BY <1>1, <1>2, <1>3 DEF BuildInv, Checkpointed, ThreadRests, Ended
<1>6. RowsBound' /\ VectorsMade'
  BY <1>1, <1>2, <1>3 DEF BuildInv, RowsBound, VectorsMade, Behind
<1>7. Resumable' /\ (Completed => Whole)'
  BY <1>2, <1>3, CheckpointThere DEF BuildInv, Resumable, Completed
<1> QED
  BY <1>1, <1>4, <1>5, <1>6, <1>7

LEMMA BindMetadataKeeps ==
  ASSUME NothingApart, BuildInv, BindMetadata
  PROVE  BuildInv'
<1>1. /\ main.pc = "finish" /\ Go("clear") /\ UNCHANGED <<workspace, ann>>
      /\ out' = [out EXCEPT !.stamp = main.runs]
  BY DEF BindMetadata, At
<1>2. /\ out' \in Outputs /\ out'.stamp = main.runs
      /\ \A f \in {"state", "manifest", "db", "rows", "vectors"} : out'[f] = out[f]
  BY <1>1 DEF BuildInv, BuildTypes, Outputs, Builders
<1>3. /\ BuildTypes' /\ BindingRead' /\ Checkpointed' /\ ThreadRests'
      /\ RowsBound' /\ VectorsMade' /\ Resumable' /\ (Completed => Whole)'
      /\ main'.pc = "clear" /\ main'.binding = main.binding /\ main'.runs = main.runs
  BY <1>1, <1>2, EndSteps DEF Ended
<1>4. Completing'
  BY <1>2, <1>3 DEF Completing, Ended
<1> QED
  BY <1>3, <1>4 DEF BuildInv

LEMMA ClearCacheKeeps ==
  ASSUME NothingApart, BuildInv, ClearCache
  PROVE  BuildInv'
<1>1. /\ main.pc = "clear" /\ Go("compare") /\ UNCHANGED <<workspace, ann>>
      /\ out' = [out EXCEPT !.cache = FALSE]
  BY DEF ClearCache, At
<1>2. /\ out' \in Outputs /\ ~out'.cache /\ out'.stamp = out.stamp
      /\ \A f \in {"state", "manifest", "db", "rows", "vectors"} : out'[f] = out[f]
  BY <1>1 DEF BuildInv, BuildTypes, Outputs
<1>3. /\ BuildTypes' /\ BindingRead' /\ Checkpointed' /\ ThreadRests'
      /\ RowsBound' /\ VectorsMade' /\ Resumable' /\ (Completed => Whole)'
      /\ main'.pc = "compare" /\ main'.binding = main.binding /\ main'.runs = main.runs
  BY <1>1, <1>2, EndSteps DEF Ended
<1>4. Completing'
  BY <1>1, <1>2, <1>3 DEF BuildInv, Completing, Ended
<1> QED
  BY <1>3, <1>4 DEF BuildInv

\* A run that fails or ends leaves the output to the next as it is.
LEMMA GoIdle ==
  ASSUME BuildInv, Go("idle"), UNCHANGED <<workspace, out>>, ann' \in Followers,
         ann'.pc \in {"none", "failed"} \/ (ann'.pc = "idle" /\ ann'.queue = <<>>)
  PROVE  BuildInv'
<1>1. main'.pc = "idle" /\ main' \in Builders
  BY Gone DEF BuildInv, Steps
<1>2. BuildTypes' /\ BindingRead' /\ Checkpointed' /\ ThreadRests'
  BY <1>1 DEF BuildInv, BuildTypes, BindingRead, Checkpointed, ThreadRests, Running, Ended
<1>3. RowsBound' /\ VectorsMade' /\ Completing'
  BY <1>1 DEF RowsBound, VectorsMade, Completing, Running, Ended
<1> QED
  BY <1>2, <1>3, OutputKept DEF BuildInv

\* The second reading of the workspaces: what has been ingested lies between the two.
LEMMA CompareKeeps ==
  ASSUME NothingApart, BuildInv, Compare
  PROVE  BuildInv'
<1>1. /\ main.pc = "compare" /\ UNCHANGED <<workspace, out, ann>>
      /\ Go(IF workspace = main.binding THEN "models" ELSE "idle")
  BY DEF Compare, At
<1>2. ann.pc = "idle" /\ ann.queue = <<>> /\ main.todo = <<>>
  BY <1>1 DEF BuildInv, ThreadRests, Ended
<1>3. CASE workspace # main.binding
  BY <1>1, <1>2, <1>3, GoIdle DEF BuildInv, BuildTypes
<1>4. CASE workspace = main.binding
  <2>1. /\ BuildTypes' /\ BindingRead' /\ Checkpointed' /\ ThreadRests'
        /\ RowsBound' /\ VectorsMade' /\ Resumable' /\ (Completed => Whole)'
        /\ main'.pc = "models" /\ main'.binding = main.binding /\ main'.runs = main.runs
    BY <1>1, <1>4, EndSteps DEF BuildInv, BuildTypes, Ended
  <2>2. \A s \in Legal : out.rows[s] = main.binding[s]
    <3>1. ASSUME NEW s \in Legal
          PROVE  /\ out.rows[s] \in Nat /\ workspace[s] \in Nat
                 /\ main.binding[s] <= out.rows[s] /\ out.rows[s] <= workspace[s]
      BY <1>1, <1>2, SetOfNothing DEF BuildInv, BuildTypes, RowsBound, Running, Ended
    <3> QED
      BY <1>4, <3>1
  <2>3. out.rows = main.binding
    BY <2>2 DEF BuildInv, BuildTypes, Outputs, Builders, Rows
  <2>4. Completing'
    BY <1>1, <2>1, <2>3 DEF BuildInv, Completing, Ended
  <2> QED
    BY <2>1, <2>4 DEF BuildInv
<1> QED
  BY <1>3, <1>4

\* The models, and then the text indexes, of the rows that are bound.
LEMMA InstallModelsKeeps ==
  ASSUME NothingApart, BuildInv, InstallModels
  PROVE  BuildInv'
<1>1. /\ main.pc = "models" /\ Go("lexical") /\ UNCHANGED <<workspace, ann>>
      /\ out' = [out EXCEPT !.models = TRUE]
  BY DEF InstallModels, At
<1>2. /\ out' \in Outputs /\ out'.models /\ out'.stamp = out.stamp /\ out'.cache = out.cache
      /\ \A f \in {"state", "manifest", "db", "rows", "vectors"} : out'[f] = out[f]
  BY <1>1 DEF BuildInv, BuildTypes, Outputs
<1>3. /\ BuildTypes' /\ BindingRead' /\ Checkpointed' /\ ThreadRests'
      /\ RowsBound' /\ VectorsMade' /\ Resumable' /\ (Completed => Whole)'
      /\ main'.pc = "lexical" /\ main'.binding = main.binding /\ main'.runs = main.runs
  BY <1>1, <1>2, EndSteps DEF Ended
<1>4. out'.rows = out.rows
  BY <1>2
<1>5. Completing'
  BY <1>1, <1>2, <1>3, <1>4 DEF BuildInv, Completing, Ended
<1> QED
  BY <1>3, <1>5 DEF BuildInv

LEMMA LexicalSidecarsKeeps ==
  ASSUME NothingApart, BuildInv, LexicalSidecars
  PROVE  BuildInv'
<1> DEFINE index == [s \in Legal |-> <<out.rows[s], out.stamp>>]
<1>1. /\ main.pc = "lexical" /\ Go("publish") /\ UNCHANGED <<workspace, ann>>
      /\ out' = [out EXCEPT !.litter = out.litter \ {"lexical"}, !.lexical = index]
  BY DEF LexicalSidecars, At
<1>2. index \in [Legal -> (Nat \cup {Missing}) \X Nat]
  BY DEF BuildInv, BuildTypes, Outputs, Rows
<1> HIDE DEF index
<1>3. out.litter \ {"lexical"} \in SUBSET {"ann", "temporary", "lexical"}
  BY DEF BuildInv, BuildTypes, Outputs
<1>4. /\ out' \in Outputs /\ out'.lexical = index
      /\ out'.stamp = out.stamp /\ out'.cache = out.cache /\ out'.models = out.models
      /\ out'.rows = out.rows
      /\ \A f \in {"state", "manifest", "db", "rows", "vectors"} : out'[f] = out[f]
  BY <1>1, <1>2, <1>3 DEF BuildInv, BuildTypes, Outputs
<1>5. /\ BuildTypes' /\ BindingRead' /\ Checkpointed' /\ ThreadRests'
      /\ RowsBound' /\ VectorsMade' /\ Resumable' /\ (Completed => Whole)'
      /\ main'.pc = "publish" /\ main'.binding = main.binding /\ main'.runs = main.runs
  BY <1>1, <1>4, EndSteps DEF Ended
<1>6. out'.lexical = [s \in Legal |-> <<out'.rows[s], out'.stamp>>]
  BY <1>4 DEF index
<1>7. Completing'
  BY <1>1, <1>4, <1>5, <1>6 DEF BuildInv, Completing, Ended
<1> QED
  BY <1>5, <1>7 DEF BuildInv

\* From the thread's end on, every index is of the rows the database holds.
LEMMA VectorsComplete ==
  ASSUME BuildInv, main.pc \in Ended
  PROVE  ann.made = out.rows /\ out.vectors = out.rows
<1>1. /\ main.todo = <<>> /\ ann.pc = "idle" /\ ann.queue = <<>> /\ main.pc \in Running
  BY DEF BuildInv, ThreadRests, Ended, Running
<1>2. \A s \in Legal : ann.made[s] = out.rows[s] /\ out.vectors[s] = out.rows[s]
  BY <1>1, SetOfNothing DEF BuildInv, VectorsMade, Behind
<1> QED
  BY <1>2 DEF BuildInv, BuildTypes, Followers, Outputs, Rows

LEMMA PublishKeeps ==
  ASSUME NothingApart, BuildInv, Publish
  PROVE  BuildInv'
<1> DEFINE new == [rows |-> out.rows, stamp |-> main.runs, vectors |-> ann.made]
<1>1. /\ main.pc = "publish" /\ Go("release") /\ UNCHANGED <<workspace, ann>>
      /\ out' = [out EXCEPT !.manifest = new]
  BY DEF Publish, At
<1>2. new \in Manifests /\ new.rows = out.rows
  BY DEF BuildInv, BuildTypes, Outputs, Builders, Followers, Manifests
<1>3. main.pc \in Ended /\ main.pc \in Running
  BY <1>1 DEF Ended, Running
<1>4. /\ main'.pc = "release" /\ main'.binding = main.binding /\ main'.todo = main.todo
      /\ main'.runs = main.runs /\ main' \in Builders
  BY <1>1, Gone DEF BuildInv, Steps, Running, Ended
<1>5. /\ out' \in Outputs /\ out'.manifest = new /\ out'.state = out.state /\ out'.db = out.db
      /\ out'.rows = out.rows /\ out'.vectors = out.vectors /\ out'.stamp = out.stamp
      /\ out'.cache = out.cache /\ out'.models = out.models /\ out'.lexical = out.lexical
  BY <1>1, <1>2 DEF BuildInv, BuildTypes, Outputs
<1>6. BuildTypes' /\ BindingRead'
  BY <1>1, <1>4, <1>5 DEF BuildInv, BuildTypes, BindingRead
<1>7. Checkpointed' /\ ThreadRests'
  BY <1>1, <1>3, <1>4, <1>5 DEF BuildInv, Checkpointed, ThreadRests, Ended
<1>8. RowsBound' /\ VectorsMade'
  BY <1>1, <1>3, <1>4, <1>5 DEF BuildInv, RowsBound, VectorsMade, Behind
<1>9. Completing'
  BY <1>1, <1>4, <1>5 DEF BuildInv, Completing, Ended
<1>10. Resumable' /\ (Completed => Whole)'
  <2>1. out.rows = out.state /\ out.state # Missing
    BY <1>1, <1>3, CheckpointThere DEF BuildInv, Completing, Checkpointed
  <2> HIDE DEF new
  <2> QED
    BY <1>2, <1>5, <2>1 DEF Resumable, Completed
<1> QED
  BY <1>6, <1>7, <1>8, <1>9, <1>10 DEF BuildInv

\* The checkpoint goes when all that the manifest says is true of the directory.
LEMMA ReleaseKeeps ==
  ASSUME NothingApart, BuildInv, Release
  PROVE  BuildInv'
<1>1. /\ main.pc = "release" /\ Go("idle") /\ UNCHANGED <<workspace, ann>>
      /\ out' = [out EXCEPT !.state = Missing]
  BY DEF Release, At
<1>2. main'.pc = "idle" /\ main' \in Builders
  BY <1>1, Gone DEF BuildInv, Steps
<1>3. /\ out' \in Outputs /\ out'.manifest = out.manifest /\ out'.state = Missing
      /\ out'.rows = out.rows /\ out'.vectors = out.vectors /\ out'.stamp = out.stamp
      /\ out'.cache = out.cache /\ out'.models = out.models /\ out'.lexical = out.lexical
  BY <1>1 DEF BuildInv, BuildTypes, Outputs
<1>4. BuildTypes' /\ BindingRead' /\ Checkpointed' /\ ThreadRests'
  BY <1>1, <1>2, <1>3
     DEF BuildInv, BuildTypes, BindingRead, Checkpointed, ThreadRests, Running, Ended
<1>5. RowsBound' /\ VectorsMade' /\ Completing'
  BY <1>2 DEF RowsBound, VectorsMade, Completing, Running, Ended
<1>6. ann.made = out.rows /\ out.vectors = out.rows
  BY <1>1, VectorsComplete DEF Ended
<1>7. /\ out.manifest = [rows |-> out.rows, stamp |-> main.runs, vectors |-> ann.made]
      /\ out.stamp = main.runs /\ ~out.cache /\ out.models
      /\ out.lexical = [s \in Legal |-> <<out.rows[s], out.stamp>>]
  BY <1>1 DEF BuildInv, Completing, Ended
<1>8. out.manifest # Missing
  BY <1>7 DEF BuildInv, BuildTypes, Outputs, Builders, Followers, Manifests, NothingApart
<1>9. out.manifest.rows = out.rows /\ out.manifest.stamp = main.runs /\ out.manifest.vectors = ann.made
  BY <1>7
<1>10. Resumable'
  BY <1>3, <1>8 DEF Resumable
<1>11. (Completed => Whole)'
  BY <1>3, <1>6, <1>7, <1>9 DEF Whole
<1> QED
  BY <1>4, <1>5, <1>10, <1>11 DEF BuildInv

-----------------------------------------------------------------------------
LEMMA KillKeeps ==
  ASSUME BuildInv, Kill
  PROVE  BuildInv'
<1>1. /\ Go("idle") /\ ann' = NoThread /\ UNCHANGED workspace
  BY DEF Kill
<1>2. PICK left \in SUBSET Litter : out' = [out EXCEPT !.litter = out.litter \cup left]
  BY DEF Kill
<1>3. Litter \subseteq {"ann", "temporary", "lexical"}
  BY DEF Litter
<1>4. /\ out' \in Outputs /\ out'.manifest = out.manifest /\ out'.state = out.state
      /\ out'.db = out.db
      /\ out'.rows = out.rows /\ out'.vectors = out.vectors /\ out'.stamp = out.stamp
      /\ out'.cache = out.cache /\ out'.models = out.models /\ out'.lexical = out.lexical
  BY <1>2, <1>3 DEF BuildInv, BuildTypes, Outputs
<1>5. /\ main'.pc = "idle" /\ main' \in Builders
      /\ ann' \in Followers /\ ann'.pc = "none"
  BY <1>1, Gone, StartTypes DEF BuildInv, Steps, NoThread
<1>6. BuildTypes' /\ BindingRead' /\ Checkpointed' /\ ThreadRests'
  BY <1>1, <1>4, <1>5
     DEF BuildInv, BuildTypes, BindingRead, Checkpointed, ThreadRests, Running, Ended
<1>7. RowsBound' /\ VectorsMade' /\ Completing'
  BY <1>5 DEF RowsBound, VectorsMade, Completing, Running, Ended
<1>8. Resumable' /\ (Completed => Whole)'
  BY <1>4 DEF BuildInv, Resumable, Completed, Whole
<1> QED
  BY <1>6, <1>7, <1>8 DEF BuildInv

LEMMA BuildStutter == ASSUME BuildInv, UNCHANGED buildVars PROVE BuildInv'
<1>1. UNCHANGED <<workspace, out, main, ann>>
  BY DEF buildVars
<1>2. BuildTypes' /\ BindingRead' /\ Checkpointed' /\ ThreadRests' /\ RowsBound'
  BY <1>1 DEF BuildInv, BuildTypes, BindingRead, Checkpointed, ThreadRests, RowsBound
<1>3. VectorsMade' /\ Completing'
  BY <1>1 DEF BuildInv, VectorsMade, Behind, Completing
<1> QED
  BY <1>1, <1>2, <1>3, OutputKept DEF BuildInv

LEMMA BuildInvKept ==
  ASSUME BuildConstants, NothingApart, BuildInv, [BuildNext]_buildVars
  PROVE  BuildInv'
<1>1. ASSUME NEW s \in Legal, WorkspaceChanges(s) PROVE BuildInv'
  BY <1>1, WorkspaceChangesKeeps
<1>2. CASE Launch \/ Check \/ Bind \/ Unpublish
  BY <1>2, LaunchKeeps, CheckKeeps, BindKeeps, UnpublishKeeps
<1>3. CASE Ingest
  BY <1>3, IngestKeeps
<1>4. CASE IngestFails
  BY <1>4, LeaveIngest DEF IngestFails, At
<1>5. CASE Ingested
  BY <1>5, LeaveIngest DEF Ingested, At
<1>6. CASE Scan \/ Scanned \/ Replace \/ AnnFails \/ Join
  BY <1>6, ScanKeeps, ScannedKeeps, ReplaceKeeps, AnnFailsKeeps, JoinKeeps
<1>7. CASE BindMetadata \/ ClearCache \/ Compare \/ InstallModels \/ LexicalSidecars
  BY <1>7, BindMetadataKeeps, ClearCacheKeeps, CompareKeeps, InstallModelsKeeps,
     LexicalSidecarsKeeps
<1>8. CASE Publish \/ Release \/ Kill
  BY <1>8, PublishKeeps, ReleaseKeeps, KillKeeps
<1>9. CASE BuildEnded
  BY <1>9, BuildStutter DEF BuildEnded
<1>10. CASE UNCHANGED buildVars
  BY <1>10, BuildStutter
<1> QED
  BY <1>1, <1>2, <1>3, <1>4, <1>5, <1>6, <1>7, <1>8, <1>9, <1>10 DEF BuildNext

-----------------------------------------------------------------------------
\* Whatever sources there are, and however many runs are killed or fail at whatever step: the
\* output is never a database that no run can take up, a manifest that has its checkpoint beside
\* it is of the rows the checkpoint binds, and a complete output holds one snapshot of the
\* workspaces with indexes of exactly those rows and that database (build.rs build_corpus).
THEOREM BuildAlwaysResumes ==
  ASSUME BuildConstants, NothingApart
  PROVE  BuildInit /\ [][BuildNext]_buildVars => []BuildResumes
<1>1. BuildInit => BuildInv
  BY BuildInvHolds
<1>2. BuildInv /\ [BuildNext]_buildVars => BuildInv'
  BY BuildInvKept
<1>3. BuildInv => BuildResumes
  BY DEF BuildInv, Resumable, Whole, BuildResumes
<1> QED
  BY <1>1, <1>2, <1>3, PTL
-----------------------------------------------------------------------------
(* The ingestion of a source.  IngestInv says that the rows of the tables    *)
(* belong together; that what has no vector waits in exactly one place, the  *)
(* job that is encoded, a job behind it or the buffer; what a job knows and   *)
(* lacks; and how far the tables are between the old rows and the snapshot.  *)

Items == [id : Nat, text : Texts]
ChunkRows == [native : Natives, text : Texts]

\* The tables: each chunk belongs to a document, and each vector is that of its chunk's text.
Tables(db) ==
  /\ DOMAIN db = {"documents", "chunks", "vectors", "cache"}
  /\ DOMAIN db.documents \subseteq Natives
  /\ db.documents \in [DOMAIN db.documents -> Contents]
  /\ DOMAIN db.chunks \subseteq Nat
  /\ db.chunks \in [DOMAIN db.chunks -> ChunkRows]
  /\ \E n \in Nat : \A i \in DOMAIN db.chunks : i <= n
RowsOwn(db) ==
  /\ \A i \in DOMAIN db.chunks : db.chunks[i].native \in DOMAIN db.documents
  /\ \A i \in DOMAIN db.vectors : i \in DOMAIN db.chunks /\ db.vectors[i] = db.chunks[i].text
  /\ \A t \in DOMAIN db.cache : db.cache[t] = t
  /\ \A n \in DOMAIN db.documents : Laid(db, n)

\* The chunks that wait for a vector, from the job that is encoded to the buffer.
Waiting(k) ==
  IF k = 0 THEN UNION {ToSet(job.pending) : job \in worker}
  ELSE IF k <= Len(queued) THEN ToSet(queued[k].pending)
  ELSE IF k = Len(queued) + 1 THEN ToSet(buffer)
  ELSE {}

\* Each of them is a chunk of a document the snapshot has named, has no vector, and waits in
\* one place; and every chunk that has no vector waits.
LineSound ==
  /\ \A k \in Nat : \A p \in Waiting(k) :
       /\ p \in Items
       /\ p.id \in DOMAIN tables.chunks /\ p.id \notin DOMAIN tables.vectors
       /\ tables.chunks[p.id].text = p.text
       /\ tables.chunks[p.id].native \in DOMAIN ingest.seen
  /\ \A j, k \in Nat : \A p \in Waiting(j), q \in Waiting(k) : p.id = q.id => j = k
  /\ \A i \in DOMAIN tables.chunks \ DOMAIN tables.vectors :
       \E k \in Nat : \E p \in Waiting(k) : p.id = i

\* The job that is encoded: what it lacks nobody has put in the cache, and it has the rest.
Wanted(job) == {p.text : p \in ToSet(job.pending)}
JobSound(job) ==
  /\ DOMAIN job = {"pending", "vectors", "missing", "new", "done"}
  /\ job.done \in BOOLEAN
  /\ job.missing \cap DOMAIN tables.cache = {}
  /\ job.new = IF job.done THEN job.missing ELSE {}
  /\ Wanted(job) \ job.missing \subseteq DOMAIN job.vectors
  /\ job.done => job.missing \subseteq DOMAIN job.vectors
  /\ \A t \in DOMAIN job.vectors : job.vectors[t] = t

JobsSound ==
  /\ buffer \in Seq(Items) /\ queued \in Seq({RawJob(s) : s \in Seq(Items)})
  /\ \A job \in worker : JobSound(job)
  /\ \A job, other \in worker : job = other

\* The transaction: what the snapshot has named so far is in the tables, and the rest is as it
\* was; before and after it nothing waits.
Within == {"batch", "document", "poll", "throttle", "drain"}
RunSound ==
  /\ DOMAIN ingest = {"pc", "rest", "batch", "seen", "runs"}
  /\ ingest.pc \in Within \cup {"idle", "committed", "duplicate", "failed"}
  /\ ingest.rest \in Seq(Documents)
  /\ DOMAIN ingest.seen \subseteq Natives /\ ingest.seen \in [DOMAIN ingest.seen -> Contents]
  /\ ingest.pc = "document" => ingest.batch \in 1 .. Len(ingest.rest)
  /\ ingest.pc = "drain" => buffer = <<>>
  /\ ingest.pc \notin Within => tables = committed /\ worker = {} /\ queued = <<>> /\ buffer = <<>>
  /\ ingest.pc = "committed" => tables.documents = ingest.seen
  /\ DOMAIN committed.vectors = DOMAIN committed.chunks
  /\ ingest.pc \in Within => \A n \in Natives :
       IF n \in DOMAIN ingest.seen
       THEN n \in DOMAIN tables.documents /\ tables.documents[n] = ingest.seen[n]
       ELSE /\ n \in DOMAIN tables.documents <=> n \in DOMAIN committed.documents
            /\ n \in DOMAIN committed.documents => tables.documents[n] = committed.documents[n]

IngestInv ==
  /\ Tables(committed) /\ RowsOwn(committed) /\ Tables(tables) /\ RowsOwn(tables)
  /\ LineSound /\ JobsSound /\ RunSound
-----------------------------------------------------------------------------
(* The tables *)

GoneWith(db, natives) == {i \in DOMAIN db.chunks : db.chunks[i].native \in natives}

LEMMA WithoutFields ==
  ASSUME NEW db, DOMAIN db = {"documents", "chunks", "vectors", "cache"}, NEW natives
  PROVE  /\ DOMAIN Without(db, natives) = DOMAIN db
         /\ Without(db, natives).documents = Restrict(db.documents, DOMAIN db.documents \ natives)
         /\ Without(db, natives).chunks = Restrict(db.chunks, DOMAIN db.chunks \ GoneWith(db, natives))
         /\ Without(db, natives).vectors = Restrict(db.vectors, DOMAIN db.vectors \ GoneWith(db, natives))
         /\ Without(db, natives).cache = db.cache
<1> DEFINE gone == GoneWith(db, natives)
           documents == Restrict(db.documents, DOMAIN db.documents \ natives)
           chunks == Restrict(db.chunks, DOMAIN db.chunks \ gone)
           vectors == Restrict(db.vectors, DOMAIN db.vectors \ gone)
<1>1. Without(db, natives)
        = [db EXCEPT !.documents = documents, !.chunks = chunks, !.vectors = vectors]
  BY DEF Without, GoneWith
<1> HIDE DEF documents, chunks, vectors
<1>2. /\ DOMAIN Without(db, natives) = DOMAIN db
      /\ Without(db, natives).documents = documents /\ Without(db, natives).chunks = chunks
      /\ Without(db, natives).vectors = vectors /\ Without(db, natives).cache = db.cache
  BY <1>1
<1>3. QED
  BY <1>2 DEF documents, chunks, vectors

\* What is left of the tables when documents are deleted.
LEMMA WithoutKeeps ==
  ASSUME NEW db, Tables(db), NEW natives
  PROVE  /\ DOMAIN Without(db, natives) = {"documents", "chunks", "vectors", "cache"}
         /\ DOMAIN Without(db, natives).documents = DOMAIN db.documents \ natives
         /\ \A n \in DOMAIN db.documents \ natives :
              Without(db, natives).documents[n] = db.documents[n]
         /\ Without(db, natives).documents
              \in [DOMAIN Without(db, natives).documents -> Contents]
         /\ \A i : i \in DOMAIN Without(db, natives).chunks
                     <=> i \in DOMAIN db.chunks /\ db.chunks[i].native \notin natives
         /\ \A i \in DOMAIN Without(db, natives).chunks :
              Without(db, natives).chunks[i] = db.chunks[i]
         /\ Without(db, natives).chunks \in [DOMAIN Without(db, natives).chunks -> ChunkRows]
         /\ \A i : i \in DOMAIN Without(db, natives).vectors
                     <=> i \in DOMAIN db.vectors
                         /\ ~(i \in DOMAIN db.chunks /\ db.chunks[i].native \in natives)
         /\ \A i \in DOMAIN Without(db, natives).vectors :
              Without(db, natives).vectors[i] = db.vectors[i]
         /\ Without(db, natives).cache = db.cache
<1> DEFINE kept == Without(db, natives)
           gone == GoneWith(db, natives)
<1>1. /\ DOMAIN kept = {"documents", "chunks", "vectors", "cache"}
      /\ kept.documents = Restrict(db.documents, DOMAIN db.documents \ natives)
      /\ kept.chunks = Restrict(db.chunks, DOMAIN db.chunks \ gone)
      /\ kept.vectors = Restrict(db.vectors, DOMAIN db.vectors \ gone)
      /\ kept.cache = db.cache
  BY WithoutFields DEF Tables
<1>2. /\ db.documents \in [DOMAIN db.documents -> Contents]
      /\ db.chunks \in [DOMAIN db.chunks -> ChunkRows]
  BY DEF Tables
<1> HIDE DEF kept
<1>3. /\ DOMAIN kept.documents = DOMAIN db.documents \ natives
      /\ \A n \in DOMAIN db.documents \ natives : kept.documents[n] = db.documents[n]
      /\ kept.documents \in [DOMAIN kept.documents -> Contents]
  BY <1>1, <1>2 DEF Restrict
<1>4. /\ DOMAIN kept.chunks = DOMAIN db.chunks \ gone
      /\ \A i \in DOMAIN kept.chunks : kept.chunks[i] = db.chunks[i]
      /\ kept.chunks \in [DOMAIN kept.chunks -> ChunkRows]
  BY <1>1, <1>2 DEF Restrict
<1>5. /\ DOMAIN kept.vectors = DOMAIN db.vectors \ gone
      /\ \A i \in DOMAIN kept.vectors : kept.vectors[i] = db.vectors[i]
  BY <1>1 DEF Restrict
<1>6. QED
  BY <1>1, <1>3, <1>4, <1>5 DEF kept, GoneWith

LEMMA WithoutSound ==
  ASSUME NEW db, Tables(db), RowsOwn(db), NEW natives
  PROVE  Tables(Without(db, natives)) /\ RowsOwn(Without(db, natives))
<1> DEFINE kept == Without(db, natives)
<1>1. /\ DOMAIN kept = {"documents", "chunks", "vectors", "cache"}
      /\ DOMAIN kept.documents = DOMAIN db.documents \ natives
      /\ \A n \in DOMAIN db.documents \ natives : kept.documents[n] = db.documents[n]
      /\ kept.documents \in [DOMAIN kept.documents -> Contents]
      /\ \A i : i \in DOMAIN kept.chunks <=> i \in DOMAIN db.chunks /\ db.chunks[i].native \notin natives
      /\ \A i \in DOMAIN kept.chunks : kept.chunks[i] = db.chunks[i]
      /\ kept.chunks \in [DOMAIN kept.chunks -> ChunkRows]
      /\ \A i : i \in DOMAIN kept.vectors
                  <=> i \in DOMAIN db.vectors
                      /\ ~(i \in DOMAIN db.chunks /\ db.chunks[i].native \in natives)
      /\ \A i \in DOMAIN kept.vectors : kept.vectors[i] = db.vectors[i]
      /\ kept.cache = db.cache
  BY WithoutKeeps
<1> HIDE DEF kept
<1>2. Tables(kept)
  BY <1>1 DEF Tables
<1>3. /\ \A i \in DOMAIN kept.chunks : kept.chunks[i].native \in DOMAIN kept.documents
      /\ \A i \in DOMAIN kept.vectors : i \in DOMAIN kept.chunks /\ kept.vectors[i] = kept.chunks[i].text
      /\ \A t \in DOMAIN kept.cache : kept.cache[t] = t
  BY <1>1 DEF RowsOwn
<1>4. ASSUME NEW n \in DOMAIN kept.documents
      PROVE  Laid(kept, n)
  <2> DEFINE own == {i \in DOMAIN db.chunks : db.chunks[i].native = n}
             ownKept == {i \in DOMAIN kept.chunks : kept.chunks[i].native = n}
  <2>1. n \in DOMAIN db.documents /\ n \notin natives /\ kept.documents[n] = db.documents[n]
    BY <1>1
  <2>2. own = ownKept
    BY <1>1, <2>1
  <2>3. PICK first \in own \cup {0} :
          /\ own = first .. first + Len(db.documents[n]) - 1
          /\ \A k \in DOMAIN db.documents[n] : db.chunks[first + k - 1].text = db.documents[n][k]
    BY <2>1 DEF RowsOwn, Laid
  <2>4. DOMAIN db.documents[n] = 1 .. Len(db.documents[n]) /\ Len(db.documents[n]) \in Nat
    BY <2>1, IngestConstants DEF Tables, IngestConstants
  <2>5. own \cup {0} \subseteq Nat
    BY DEF Tables
  <2>6. ASSUME NEW k \in DOMAIN db.documents[n]
        PROVE  kept.chunks[first + k - 1] = db.chunks[first + k - 1]
    <3>3. first \in Nat /\ k \in 1 .. Len(db.documents[n]) /\ Len(db.documents[n]) \in Nat
      BY <2>4, <2>5
    <3>4. first + k - 1 \in first .. first + Len(db.documents[n]) - 1
      BY <3>3
    <3>1. first + k - 1 \in own
      BY <2>3, <3>4
    <3>2. QED
      BY <1>1, <2>2, <3>1
  <2>7. QED
    BY <2>1, <2>2, <2>3, <2>6 DEF Laid
<1>5. QED
  BY <1>2, <1>3, <1>4 DEF RowsOwn, kept

\* The id of a new chunk is larger than all.
LEMMA NewIdLarger ==
  ASSUME NEW db, Tables(db)
  PROVE  /\ NewId(db.chunks) \in Nat \ {0}
         /\ \A i \in DOMAIN db.chunks : i < NewId(db.chunks)
<1> DEFINE ids == DOMAIN db.chunks \cup {0}
           bounds == {n \in Nat : \A i \in DOMAIN db.chunks : i <= n}
<1>1. ids \subseteq Nat /\ bounds # {} /\ bounds \subseteq Nat
  BY DEF Tables
<1>2. PICK least \in bounds : \A n \in bounds : ~(<<n, least>> \in OpToRel(<, Nat))
  BY <1>1, NatLessThanWellFounded, WFMin
<1>3. least \in ids
  <2> SUFFICES ASSUME least \notin ids PROVE FALSE
    OBVIOUS
  <2>1. least \in Nat /\ least # 0
    BY <1>1
  <2>2. least - 1 \in bounds
    BY <1>1, <2>1
  <2>3. <<least - 1, least>> \in OpToRel(<, Nat)
    BY <2>1, <2>2 DEF OpToRel
  <2>4. QED
    BY <1>2, <2>2, <2>3
<1>4. least \in ids /\ \A i \in ids : least >= i
  <2>1. least \in Nat /\ \A i \in DOMAIN db.chunks : i <= least
    BY <1>1
  <2>2. QED
    BY <1>1, <1>3, <2>1
<1>5. Max(ids) \in ids /\ \A i \in ids : Max(ids) >= i
  BY <1>4 DEF Max
<1>6. QED
  BY <1>1, <1>5 DEF NewId

\* The ids of the chunks of a document that is inserted.
NewIds(db, d) == NewId(db.chunks) .. NewId(db.chunks) + Len(d.content) - 1

LEMMA WithFields ==
  ASSUME NEW db, DOMAIN db = {"documents", "chunks", "vectors", "cache"}, NEW d \in Documents
  PROVE  /\ DOMAIN With(db, d) = {"documents", "chunks", "vectors", "cache"}
         /\ With(db, d).documents
              = [n \in DOMAIN db.documents \cup {d.native} |->
                   IF n = d.native THEN d.content ELSE db.documents[n]]
         /\ With(db, d).chunks
              = [i \in DOMAIN db.chunks \cup NewIds(db, d) |->
                   IF i \in NewIds(db, d)
                   THEN [native |-> d.native, text |-> d.content[i - NewId(db.chunks) + 1]]
                   ELSE db.chunks[i]]
         /\ With(db, d).vectors = db.vectors /\ With(db, d).cache = db.cache
<1> DEFINE first == NewId(db.chunks)
           new == [i \in NewIds(db, d) |->
                     [native |-> d.native, text |-> d.content[i - first + 1]]]
           documents == Over([n \in {d.native} |-> d.content], db.documents)
           chunks == Over(new, db.chunks)
<1>1. With(db, d) = [db EXCEPT !.documents = documents, !.chunks = chunks]
  BY DEF With, NewIds
<1> HIDE DEF documents, chunks
<1>2. /\ DOMAIN With(db, d) = {"documents", "chunks", "vectors", "cache"}
      /\ With(db, d).documents = documents /\ With(db, d).chunks = chunks
      /\ With(db, d).vectors = db.vectors /\ With(db, d).cache = db.cache
  BY <1>1
<1>3. documents = [n \in DOMAIN db.documents \cup {d.native} |->
                     IF n = d.native THEN d.content ELSE db.documents[n]]
  BY DEF documents, Over
<1>4. chunks = [i \in DOMAIN db.chunks \cup NewIds(db, d) |->
                  IF i \in NewIds(db, d)
                  THEN [native |-> d.native, text |-> d.content[i - NewId(db.chunks) + 1]]
                  ELSE db.chunks[i]]
  BY DEF chunks, Over
<1>5. QED
  BY <1>2, <1>3, <1>4

LEMMA DocumentTypes ==
  ASSUME NEW d \in Documents
  PROVE  /\ d.native \in Natives /\ d.content \in Contents /\ d.content \in Seq(Texts)
         /\ Len(d.content) \in Nat /\ DOMAIN d.content = 1 .. Len(d.content)
BY IngestConstants DEF Documents, IngestConstants

\* A document that the tables do not have is inserted behind all that is there.
LEMMA WithKeeps ==
  ASSUME NEW db, Tables(db), NEW d \in Documents
  PROVE  /\ DOMAIN With(db, d) = {"documents", "chunks", "vectors", "cache"}
         /\ DOMAIN With(db, d).documents = DOMAIN db.documents \cup {d.native}
         /\ With(db, d).documents[d.native] = d.content
         /\ \A n \in DOMAIN db.documents \ {d.native} :
              With(db, d).documents[n] = db.documents[n]
         /\ With(db, d).documents \in [DOMAIN With(db, d).documents -> Contents]
         /\ DOMAIN With(db, d).chunks = DOMAIN db.chunks \cup NewIds(db, d)
         /\ \A i \in DOMAIN db.chunks : i \notin NewIds(db, d) /\ With(db, d).chunks[i] = db.chunks[i]
         /\ \A i \in NewIds(db, d) :
              /\ i \in Nat /\ i - NewId(db.chunks) + 1 \in 1 .. Len(d.content)
              /\ With(db, d).chunks[i].native = d.native
              /\ With(db, d).chunks[i].text = d.content[i - NewId(db.chunks) + 1]
         /\ With(db, d).chunks \in [DOMAIN With(db, d).chunks -> ChunkRows]
         /\ With(db, d).vectors = db.vectors /\ With(db, d).cache = db.cache
<1> DEFINE added == With(db, d)
           first == NewId(db.chunks)
           new == NewIds(db, d)
           row == [i \in new |-> [native |-> d.native, text |-> d.content[i - first + 1]]]
<1>1. /\ DOMAIN added = {"documents", "chunks", "vectors", "cache"}
      /\ added.documents = [n \in DOMAIN db.documents \cup {d.native} |->
                              IF n = d.native THEN d.content ELSE db.documents[n]]
      /\ added.chunks = [i \in DOMAIN db.chunks \cup new |->
                           IF i \in new
                           THEN [native |-> d.native, text |-> d.content[i - first + 1]]
                           ELSE db.chunks[i]]
      /\ added.vectors = db.vectors /\ added.cache = db.cache
  BY WithFields DEF Tables
<1>2. /\ d.native \in Natives /\ d.content \in Contents /\ d.content \in Seq(Texts)
      /\ Len(d.content) \in Nat /\ DOMAIN d.content = 1 .. Len(d.content)
  BY DocumentTypes
<1>3. /\ first \in Nat \ {0} /\ \A i \in DOMAIN db.chunks : i < first /\ i \in Nat
  BY NewIdLarger DEF Tables
<1> HIDE DEF added, first
<1>4. \A i \in new : i \in Nat /\ i - first + 1 \in 1 .. Len(d.content) /\ i \notin DOMAIN db.chunks
  BY <1>2, <1>3 DEF NewIds, first
<1> HIDE DEF new
<1>5. \A i \in new : d.content[i - first + 1] \in Texts
  BY <1>2, <1>4
<1>6. \A i \in new : [native |-> d.native, text |-> d.content[i - first + 1]] \in ChunkRows
  BY <1>2, <1>5 DEF ChunkRows
<1>7. /\ db.documents \in [DOMAIN db.documents -> Contents]
      /\ db.chunks \in [DOMAIN db.chunks -> ChunkRows]
  BY DEF Tables
<1>8. /\ DOMAIN added.documents = DOMAIN db.documents \cup {d.native}
      /\ added.documents[d.native] = d.content
      /\ \A n \in DOMAIN db.documents \ {d.native} : added.documents[n] = db.documents[n]
      /\ added.documents \in [DOMAIN added.documents -> Contents]
  BY <1>1, <1>2, <1>7
<1>9. /\ DOMAIN added.chunks = DOMAIN db.chunks \cup new
      /\ \A i \in DOMAIN db.chunks : i \notin new /\ added.chunks[i] = db.chunks[i]
      /\ \A i \in new : added.chunks[i] = [native |-> d.native, text |-> d.content[i - first + 1]]
  BY <1>1, <1>4
<1>10. added.chunks \in [DOMAIN added.chunks -> ChunkRows]
  BY <1>1, <1>6, <1>7, <1>9
<1>11. QED
  BY <1>1, <1>4, <1>8, <1>9, <1>10 DEF added, first, new

\* A document that the tables do not have is inserted behind all that is there.
LEMMA WithSound ==
  ASSUME NEW db, Tables(db), RowsOwn(db), NEW d \in Documents, d.native \notin DOMAIN db.documents
  PROVE  Tables(With(db, d)) /\ RowsOwn(With(db, d))
<1> DEFINE added == With(db, d)
           first == NewId(db.chunks)
           new == NewIds(db, d)
<1>1. /\ DOMAIN added = {"documents", "chunks", "vectors", "cache"}
      /\ DOMAIN added.documents = DOMAIN db.documents \cup {d.native}
      /\ added.documents[d.native] = d.content
      /\ \A n \in DOMAIN db.documents \ {d.native} : added.documents[n] = db.documents[n]
      /\ added.documents \in [DOMAIN added.documents -> Contents]
      /\ DOMAIN added.chunks = DOMAIN db.chunks \cup new
      /\ \A i \in DOMAIN db.chunks : i \notin new /\ added.chunks[i] = db.chunks[i]
      /\ \A i \in new :
           /\ i \in Nat /\ i - first + 1 \in 1 .. Len(d.content)
           /\ added.chunks[i].native = d.native
           /\ added.chunks[i].text = d.content[i - first + 1]
      /\ added.chunks \in [DOMAIN added.chunks -> ChunkRows]
      /\ added.vectors = db.vectors /\ added.cache = db.cache
  BY WithKeeps
<1>2. /\ first \in Nat \ {0} /\ \A i \in DOMAIN db.chunks : i < first /\ i \in Nat
  BY NewIdLarger DEF Tables
<1>3. /\ d.native \in Natives /\ d.content \in Contents /\ d.content \in Seq(Texts)
      /\ Len(d.content) \in Nat /\ DOMAIN d.content = 1 .. Len(d.content)
  BY DocumentTypes
<1>4. new = first .. first + Len(d.content) - 1
  BY DEF NewIds
<1> HIDE DEF added, first, new
<1>5. Tables(added)
  <2>1. first + Len(d.content) \in Nat
        /\ \A i \in DOMAIN added.chunks : i <= first + Len(d.content)
    BY <1>1, <1>2, <1>3, <1>4
  <2>2. DOMAIN added.documents \subseteq Natives /\ DOMAIN added.chunks \subseteq Nat
    BY <1>1, <1>3 DEF Tables
  <2>3. QED
    BY <1>1, <2>1, <2>2 DEF Tables
<1>6. /\ \A i \in DOMAIN added.chunks : added.chunks[i].native \in DOMAIN added.documents
      /\ \A i \in DOMAIN added.vectors :
           i \in DOMAIN added.chunks /\ added.vectors[i] = added.chunks[i].text
      /\ \A t \in DOMAIN added.cache : added.cache[t] = t
  BY <1>1 DEF RowsOwn
<1>7. ASSUME NEW n \in DOMAIN db.documents
      PROVE  Laid(added, n)
  <2> DEFINE own == {i \in DOMAIN db.chunks : db.chunks[i].native = n}
             ownAdded == {i \in DOMAIN added.chunks : added.chunks[i].native = n}
  <2>1. n # d.native /\ added.documents[n] = db.documents[n]
    BY <1>1
  <2>2. own = ownAdded
    BY <1>1, <2>1
  <2>3. PICK base \in own \cup {0} :
          /\ own = base .. base + Len(db.documents[n]) - 1
          /\ \A k \in DOMAIN db.documents[n] : db.chunks[base + k - 1].text = db.documents[n][k]
    BY DEF RowsOwn, Laid
  <2>4. DOMAIN db.documents[n] = 1 .. Len(db.documents[n]) /\ Len(db.documents[n]) \in Nat
    BY IngestConstants DEF Tables, IngestConstants
  <2>5. own \cup {0} \subseteq Nat
    BY DEF Tables
  <2>6. ASSUME NEW k \in DOMAIN db.documents[n]
        PROVE  added.chunks[base + k - 1] = db.chunks[base + k - 1]
    <3>3. base \in Nat /\ k \in 1 .. Len(db.documents[n]) /\ Len(db.documents[n]) \in Nat
      BY <2>4, <2>5
    <3>4. base + k - 1 \in base .. base + Len(db.documents[n]) - 1
      BY <3>3
    <3>1. base + k - 1 \in own
      BY <2>3, <3>4
    <3>2. QED
      BY <1>1, <3>1
  <2>7. \A k \in DOMAIN db.documents[n] :
          added.chunks[base + k - 1].text = added.documents[n][k]
    BY <2>1, <2>3, <2>6
  <2>8. /\ base \in ownAdded \cup {0}
        /\ ownAdded = base .. base + Len(added.documents[n]) - 1
        /\ DOMAIN added.documents[n] = DOMAIN db.documents[n]
    BY <2>1, <2>2, <2>3
  <2>9. QED
    BY <2>7, <2>8 DEF Laid
<1>8. Laid(added, d.native)
  <2>1. {i \in DOMAIN added.chunks : added.chunks[i].native = d.native} = new
    <3>1. \A i \in DOMAIN db.chunks : added.chunks[i].native # d.native
      BY <1>1 DEF RowsOwn
    <3>2. \A i \in new : added.chunks[i].native = d.native
      BY <1>1
    <3>3. QED
      BY <1>1, <3>1, <3>2
  <2>2. ASSUME NEW k \in DOMAIN d.content
        PROVE  added.chunks[first + k - 1].text = d.content[k]
    <3>1. PICK i \in new : i = first + k - 1 /\ i - first + 1 = k
      BY <1>2, <1>3, <1>4
    <3>2. added.chunks[i].text = d.content[i - first + 1]
      BY <1>1
    <3>3. QED
      BY <3>1, <3>2
  <2>3. CASE new # {}
    <3>1. first \in new
      BY <1>2, <1>3, <1>4, <2>3
    <3>2. added.documents[d.native] = d.content
      BY <1>1
    <3>3. QED
      BY <1>4, <2>1, <2>2, <3>1, <3>2 DEF Laid
  <2>4. CASE new = {}
    <3>1. Len(d.content) = 0 /\ DOMAIN d.content = {}
      BY <1>2, <1>3, <1>4, <2>4
    <3>2. 0 .. 0 + Len(d.content) - 1 = {}
      BY <3>1
    <3>3. QED
      BY <1>1, <2>1, <2>4, <3>1, <3>2 DEF Laid
  <2>5. QED
    BY <2>3, <2>4
<1>9. \A n \in DOMAIN added.documents : Laid(added, n)
  BY <1>1, <1>7, <1>8
<1>10. QED
  BY <1>5, <1>6, <1>9 DEF RowsOwn, added

\* The vectors of a job are those of its chunks' texts, and what it adds to the cache is not there.
Ready(job, db) ==
  /\ DOMAIN job = {"pending", "vectors", "missing", "new", "done"}
  /\ job.new \subseteq DOMAIN job.vectors /\ job.new \cap DOMAIN db.cache = {}
  /\ \A t \in DOMAIN job.vectors : job.vectors[t] = t
  /\ \A p \in ToSet(job.pending) :
       /\ p.id \in DOMAIN db.chunks /\ p.id \notin DOMAIN db.vectors
       /\ db.chunks[p.id].text = p.text /\ p.text \in DOMAIN job.vectors

LEMMA PersistedKeeps ==
  ASSUME NEW db, Tables(db), RowsOwn(db), NEW job, Ready(job, db)
  PROVE  /\ ~Conflicts(job, db)
         /\ Tables(Persisted(job, db)) /\ RowsOwn(Persisted(job, db))
         /\ Persisted(job, db).documents = db.documents
         /\ Persisted(job, db).chunks = db.chunks
         /\ DOMAIN Persisted(job, db).vectors
              = DOMAIN db.vectors \cup {p.id : p \in ToSet(job.pending)}
         /\ DOMAIN Persisted(job, db).cache = DOMAIN db.cache \cup job.new
<1> DEFINE ids == {p.id : p \in ToSet(job.pending)}
           of(i) == CHOOSE p \in ToSet(job.pending) : p.id = i
           made == [i \in ids |-> job.vectors[of(i).text]]
           cache == Over(Restrict(job.vectors, job.new), db.cache)
           vectors == Over(made, db.vectors)
           after == Persisted(job, db)
<1>1. after = [db EXCEPT !.cache = cache, !.vectors = vectors]
  BY DEF Persisted
<1>2. \A i \in ids : of(i) \in ToSet(job.pending) /\ of(i).id = i
  OBVIOUS
<1>3. \A i \in ids : /\ i \in DOMAIN db.chunks /\ i \notin DOMAIN db.vectors
                     /\ job.vectors[of(i).text] = db.chunks[i].text
  BY <1>2 DEF Ready
<1> HIDE DEF of
<1>4. DOMAIN made = ids /\ \A i \in ids : made[i] = db.chunks[i].text
  BY <1>3
<1> HIDE DEF made
<1>5. /\ DOMAIN vectors = DOMAIN db.vectors \cup ids
      /\ \A i \in DOMAIN vectors : vectors[i] = IF i \in ids THEN db.chunks[i].text ELSE db.vectors[i]
  BY <1>4 DEF Over
<1>6. /\ DOMAIN cache = DOMAIN db.cache \cup job.new
      /\ \A t \in DOMAIN cache : cache[t] = t
  BY DEF Over, Restrict, Ready, RowsOwn
<1> HIDE DEF vectors, cache, after
<1>7. /\ DOMAIN after = DOMAIN db /\ after.cache = cache /\ after.vectors = vectors
      /\ after.documents = db.documents /\ after.chunks = db.chunks
  BY <1>1 DEF Tables
<1>8. Tables(after)
  BY <1>7 DEF Tables
<1>9. RowsOwn(after)
  <2>1. /\ \A i \in DOMAIN after.vectors :
             i \in DOMAIN after.chunks /\ after.vectors[i] = after.chunks[i].text
        /\ \A t \in DOMAIN after.cache : after.cache[t] = t
    BY <1>3, <1>5, <1>6, <1>7 DEF RowsOwn
  <2>2. \A n \in DOMAIN after.documents : Laid(after, n)
    <3> SUFFICES ASSUME NEW n \in DOMAIN after.documents PROVE Laid(after, n)
      OBVIOUS
    <3>1. n \in DOMAIN db.documents /\ Laid(db, n)
      BY <1>7 DEF RowsOwn
    <3>2. QED
      BY <1>7, <3>1 DEF Laid
  <2>3. QED
    BY <1>7, <2>1, <2>2 DEF RowsOwn
<1>10. ~Conflicts(job, db)
  BY DEF Conflicts, Ready
<1>11. QED
  BY <1>5, <1>6, <1>7, <1>8, <1>9, <1>10 DEF after
-----------------------------------------------------------------------------
(* The chunks that wait *)

LEMMA NothingWaits ==
  ASSUME worker' = {}, queued' = <<>>, buffer' = <<>>,
         DOMAIN tables'.vectors = DOMAIN tables'.chunks
  PROVE  LineSound' /\ JobsSound'
<1>1. \A k \in Nat : Waiting(k)' = {}
  BY DEF Waiting, ToSet
<1>2. LineSound'
  BY <1>1 DEF LineSound
<1>3. JobsSound'
  BY DEF JobsSound
<1>4. QED
  BY <1>2, <1>3

\* The chunks in front get their vectors, and the others may move up.
LEMMA LineMoves ==
  ASSUME LineSound, NEW shift \in {0, 1},
         \A k \in Nat : Waiting(k)' = IF k + shift = 0 THEN {} ELSE Waiting(k + shift),
         tables'.chunks = tables.chunks, ingest'.seen = ingest.seen,
         DOMAIN tables'.vectors = DOMAIN tables.vectors \cup {p.id : p \in Waiting(0)}
  PROVE  LineSound'
<1>2. ASSUME NEW k \in Nat, NEW p \in Waiting(k)'
      PROVE  k + shift \in Nat \ {0} /\ p \in Waiting(k + shift)
  <2>1. Waiting(k)' = IF k + shift = 0 THEN {} ELSE Waiting(k + shift)
    OBVIOUS
  <2>2. k + shift \in Nat
    OBVIOUS
  <2>3. QED
    BY <1>2, <2>1, <2>2
<1>3. ASSUME NEW k \in Nat, NEW p \in Waiting(k)'
      PROVE  /\ p \in Items
             /\ p.id \in DOMAIN tables'.chunks /\ p.id \notin DOMAIN tables'.vectors
             /\ tables'.chunks[p.id].text = p.text
             /\ tables'.chunks[p.id].native \in DOMAIN ingest'.seen
  <2>1. k + shift \in Nat \ {0} /\ p \in Waiting(k + shift)
    BY <1>2
  <2>2. \A q \in Waiting(0) : q.id # p.id
    BY <2>1 DEF LineSound
  <2>3. QED
    BY <2>1, <2>2 DEF LineSound
<1>4. ASSUME NEW j \in Nat, NEW k \in Nat, NEW p \in Waiting(j)', NEW q \in Waiting(k)', p.id = q.id
      PROVE  j = k
  <2>1. /\ j + shift \in Nat /\ p \in Waiting(j + shift)
        /\ k + shift \in Nat /\ q \in Waiting(k + shift)
    BY <1>2
  <2>2. j + shift = k + shift
    BY <1>4, <2>1 DEF LineSound
  <2>3. QED
    BY <2>2
<1>5. ASSUME NEW i \in DOMAIN tables'.chunks \ DOMAIN tables'.vectors
      PROVE  \E k \in Nat : \E p \in Waiting(k)' : p.id = i
  <2>1. PICK k \in Nat : \E p \in Waiting(k) : p.id = i
    BY DEF LineSound
  <2>2. k # 0
    BY <2>1
  <2>3. PICK j \in Nat : j + shift = k
    BY <2>2
  <2>4. Waiting(j)' = IF j + shift = 0 THEN {} ELSE Waiting(j + shift)
    OBVIOUS
  <2>5. Waiting(j)' = Waiting(k)
    BY <2>2, <2>3, <2>4
  <2>6. QED
    BY <2>1, <2>5
<1>6. QED
  BY <1>3, <1>4, <1>5 DEF LineSound

\* The chunks of a document that is inserted wait in the buffer, or in the job it becomes.
LEMMA LineGrows ==
  ASSUME NEW place \in Nat, NEW fresh,
         LineSound, \A k \in Nat \ {place} : Waiting(k)' = Waiting(k),
         Waiting(place)' = Waiting(place) \cup fresh,
         \A i \in DOMAIN tables.chunks :
           tables.chunks[i].native \in DOMAIN ingest.seen => i \in DOMAIN tables'.chunks,
         \A i \in DOMAIN tables'.chunks :
           \/ i \in DOMAIN tables.chunks /\ tables'.chunks[i] = tables.chunks[i]
           \/ \E p \in fresh : p.id = i,
         \A i \in DOMAIN tables'.vectors : i \in DOMAIN tables.vectors,
         \A i \in DOMAIN tables'.chunks :
           i \in DOMAIN tables.vectors =>
             i \in DOMAIN tables'.vectors \/ \E p \in fresh : p.id = i,
         DOMAIN ingest.seen \subseteq DOMAIN ingest'.seen,
         \A p \in fresh : /\ p \in Items /\ p.id \in DOMAIN tables'.chunks
                          /\ p.id \notin DOMAIN tables'.vectors
                          /\ tables'.chunks[p.id].text = p.text
                          /\ tables'.chunks[p.id].native \in DOMAIN ingest'.seen
                          /\ ~(p.id \in DOMAIN tables.chunks
                               /\ tables.chunks[p.id].native \in DOMAIN ingest.seen)
  PROVE  LineSound'
<1>1. ASSUME NEW k \in Nat, NEW p \in Waiting(k)'
      PROVE  \/ p \in Waiting(k)
             \/ k = place /\ p \in fresh
  BY <1>1
<1>2. ASSUME NEW k \in Nat, NEW p \in Waiting(k)
      PROVE  /\ p \in Items
             /\ p.id \in DOMAIN tables.chunks /\ p.id \notin DOMAIN tables.vectors
             /\ tables.chunks[p.id].text = p.text
             /\ tables.chunks[p.id].native \in DOMAIN ingest.seen
  BY DEF LineSound
<1>3. ASSUME NEW k \in Nat, NEW p \in Waiting(k), NEW q \in fresh
      PROVE  p.id # q.id
  BY <1>2
<1>4. ASSUME NEW k \in Nat, NEW p \in Waiting(k)'
      PROVE  /\ p \in Items
             /\ p.id \in DOMAIN tables'.chunks /\ p.id \notin DOMAIN tables'.vectors
             /\ tables'.chunks[p.id].text = p.text
             /\ tables'.chunks[p.id].native \in DOMAIN ingest'.seen
  <2>1. CASE p \in fresh
    BY <2>1
  <2>2. CASE p \in Waiting(k)
    <3>1. \A q \in fresh : p.id # q.id
      BY <1>3, <2>2
    <3>2. /\ p \in Items
          /\ p.id \in DOMAIN tables.chunks /\ p.id \notin DOMAIN tables.vectors
          /\ tables.chunks[p.id].text = p.text
          /\ tables.chunks[p.id].native \in DOMAIN ingest.seen
      BY <1>2, <2>2
    <3>3. p.id \in DOMAIN tables'.chunks /\ tables'.chunks[p.id] = tables.chunks[p.id]
      BY <3>1, <3>2
    <3>4. QED
      BY <3>2, <3>3
  <2>3. QED
    BY <1>1, <1>4, <2>1, <2>2
<1>5. ASSUME NEW j \in Nat, NEW k \in Nat, NEW p \in Waiting(j)', NEW q \in Waiting(k)', p.id = q.id
      PROVE  j = k
  <2>1. CASE p \in Waiting(j) /\ q \in Waiting(k)
    BY <1>5, <2>1 DEF LineSound
  <2>2. CASE p \in fresh /\ j = place /\ q \in fresh /\ k = place
    BY <2>2
  <2>3. QED
    BY <1>1, <1>3, <1>5, <2>1, <2>2
<1>6. ASSUME NEW i \in DOMAIN tables'.chunks \ DOMAIN tables'.vectors
      PROVE  \E k \in Nat : \E p \in Waiting(k)' : p.id = i
  <2>1. CASE \E p \in fresh : p.id = i
    BY <2>1
  <2>2. CASE i \in DOMAIN tables.chunks /\ i \notin DOMAIN tables.vectors
    <3>1. PICK k \in Nat : \E p \in Waiting(k) : p.id = i
      BY <2>2 DEF LineSound
    <3>2. \A p \in Waiting(k) : p \in Waiting(k)'
      OBVIOUS
    <3>3. QED
      BY <3>1, <3>2
  <2>3. QED
    BY <2>1, <2>2
<1>7. QED
  BY <1>4, <1>5, <1>6 DEF LineSound

LEMMA LineStays ==
  ASSUME LineSound, \A k \in Nat : Waiting(k)' = Waiting(k),
         tables'.chunks = tables.chunks, tables'.vectors = tables.vectors,
         ingest'.seen = ingest.seen
  PROVE  LineSound'
<1>1. ASSUME NEW k \in Nat, NEW p \in Waiting(k)'
      PROVE  /\ p \in Items
             /\ p.id \in DOMAIN tables'.chunks /\ p.id \notin DOMAIN tables'.vectors
             /\ tables'.chunks[p.id].text = p.text
             /\ tables'.chunks[p.id].native \in DOMAIN ingest'.seen
  BY <1>1 DEF LineSound
<1>2. ASSUME NEW j \in Nat, NEW k \in Nat, NEW p \in Waiting(j)', NEW q \in Waiting(k)', p.id = q.id
      PROVE  j = k
  BY <1>2 DEF LineSound
<1>3. ASSUME NEW i \in DOMAIN tables'.chunks \ DOMAIN tables'.vectors
      PROVE  \E k \in Nat : \E p \in Waiting(k)' : p.id = i
  BY DEF LineSound
<1>4. QED
  BY <1>1, <1>2, <1>3 DEF LineSound

\* Where each chunk waits.
LEMMA Places ==
  ASSUME JobsSound
  PROVE  /\ \A job \in worker : Waiting(0) = ToSet(job.pending)
         /\ worker = {} => Waiting(0) = {}
         /\ Len(queued) \in Nat
         /\ \A k \in 1 .. Len(queued) :
              Waiting(k) = ToSet(queued[k].pending) /\ queued[k].pending \in Seq(Items)
         /\ Waiting(Len(queued) + 1) = ToSet(buffer)
         /\ \A k \in Nat : k > Len(queued) + 1 => Waiting(k) = {}
<1>1. Len(queued) \in Nat
  BY DEF JobsSound
<1>2. ASSUME NEW job \in worker
      PROVE  Waiting(0) = ToSet(job.pending)
  <2>1. worker = {job}
    BY DEF JobsSound
  <2>2. QED
    BY <2>1 DEF Waiting
<1>3. worker = {} => Waiting(0) = {}
  BY DEF Waiting
<1>4. ASSUME NEW k \in 1 .. Len(queued)
      PROVE  Waiting(k) = ToSet(queued[k].pending) /\ queued[k].pending \in Seq(Items)
  <2>1. queued[k] \in {RawJob(s) : s \in Seq(Items)}
    BY DEF JobsSound
  <2>2. QED
    BY <1>1, <2>1 DEF Waiting, RawJob
<1>5. Waiting(Len(queued) + 1) = ToSet(buffer)
  BY <1>1 DEF Waiting
<1>6. \A k \in Nat : k > Len(queued) + 1 => Waiting(k) = {}
  BY <1>1 DEF Waiting
<1>7. QED
  BY <1>1, <1>2, <1>3, <1>4, <1>5, <1>6
-----------------------------------------------------------------------------
(* The run *)

LEMMA RunMoves ==
  ASSUME RunSound, ingest.pc \in Within, NEW pc \in Within \ {"document"},
         ingest' = [ingest EXCEPT !.pc = pc], pc = "drain" => buffer' = <<>>,
         tables'.documents = tables.documents, UNCHANGED committed
  PROVE  RunSound'
<1>1. /\ DOMAIN ingest' = DOMAIN ingest /\ ingest'.pc = pc
      /\ ingest'.rest = ingest.rest /\ ingest'.seen = ingest.seen
  BY DEF RunSound
<1>2. pc \notin {"document", "committed"}
  BY DEF Within
<1>3. QED
  BY <1>1, <1>2 DEF RunSound, Within

\* The transaction has been rolled back.
LEMMA RolledBack ==
  ASSUME IngestInv, NEW outcome \in {"duplicate", "failed"},
         ingest' = [ingest EXCEPT !.pc = outcome], tables' = committed,
         buffer' = <<>>, queued' = <<>>, worker' = {}, UNCHANGED committed
  PROVE  IngestInv'
<1>1. /\ DOMAIN ingest' = DOMAIN ingest /\ ingest'.pc = outcome
      /\ ingest'.rest = ingest.rest /\ ingest'.seen = ingest.seen
  BY DEF IngestInv, RunSound
<1>2. RunSound'
  BY <1>1 DEF IngestInv, RunSound, Within
<1>3. LineSound' /\ JobsSound'
  BY NothingWaits DEF IngestInv, RunSound
<1>4. /\ Tables(committed)' /\ RowsOwn(committed)' /\ Tables(tables)' /\ RowsOwn(tables)'
  BY DEF IngestInv
<1>5. QED
  BY <1>2, <1>3, <1>4 DEF IngestInv

LEMMA BeginKeeps ==
  ASSUME IngestInv, Begin
  PROVE  IngestInv'
<1>1. PICK s \in Snapshots :
        ingest' = [pc |-> "batch", rest |-> s, batch |-> 0, seen |-> <<>>, runs |-> ingest.runs + 1]
  BY DEF Begin
<1>2. s \in Seq(Documents)
  BY DEF Snapshots, BoundedSeq, SeqOf
<1>3. /\ tables' = committed /\ committed' = committed
      /\ worker' = {} /\ queued' = <<>> /\ buffer' = <<>>
  BY DEF Begin, IngestInv, RunSound, Within
<1>4. RunSound'
  <2>1. /\ DOMAIN ingest' = {"pc", "rest", "batch", "seen", "runs"} /\ ingest'.pc = "batch"
        /\ ingest'.rest \in Seq(Documents) /\ ingest'.seen = <<>>
    BY <1>1, <1>2
  <2>2. DOMAIN ingest'.seen = {} /\ ingest'.seen \in [{} -> Contents]
    BY <2>1
  <2>3. QED
    BY <1>3, <2>1, <2>2 DEF RunSound, Within, IngestInv
<1>5. LineSound' /\ JobsSound'
  BY <1>3, NothingWaits DEF IngestInv, RunSound
<1>6. /\ Tables(committed)' /\ RowsOwn(committed)' /\ Tables(tables)' /\ RowsOwn(tables)'
  BY <1>3 DEF IngestInv
<1>7. QED
  BY <1>4, <1>5, <1>6 DEF IngestInv

LEMMA TakeBatchKeeps ==
  ASSUME IngestInv, TakeBatch
  PROVE  IngestInv'
<1>1. /\ ingest.pc = "batch" /\ UNCHANGED <<committed, tables, worker>>
      /\ RunSound /\ JobsSound /\ LineSound
  BY DEF TakeBatch, IngestInv
<1>2. /\ Tables(committed)' /\ RowsOwn(committed)' /\ Tables(tables)' /\ RowsOwn(tables)'
  BY <1>1 DEF IngestInv
<1>3. CASE ingest.rest = <<>>
  <2>1. /\ ingest' = [ingest EXCEPT !.pc = "drain"] /\ buffer' = <<>>
        /\ queued' = IF buffer = <<>> THEN queued ELSE Append(queued, RawJob(buffer))
    BY <1>3 DEF TakeBatch
  <2>2. RunSound' /\ ingest'.seen = ingest.seen
    BY <1>1, <2>1, RunMoves DEF RunSound, Within
  <2>3. JobsSound'
    BY <1>1, <2>1 DEF JobsSound, JobSound, Wanted
  <2>4. \A k \in Nat : Waiting(k)' = Waiting(k)
    <3>1. CASE buffer = <<>>
      <4>1. UNCHANGED <<worker, queued, buffer>>
        BY <1>1, <2>1, <3>1
      <4>2. QED
        BY <4>1 DEF Waiting
    <3>2. CASE buffer # <<>>
      <4>1. queued' = Append(queued, RawJob(buffer))
        BY <2>1, <3>2
      <4>2. /\ Len(queued) \in Nat /\ Len(queued') = Len(queued) + 1
            /\ \A k \in 1 .. Len(queued) : queued'[k] = queued[k]
            /\ queued'[Len(queued) + 1] = RawJob(buffer)
        BY <4>1 DEF IngestInv, JobsSound
      <4>3. RawJob(buffer).pending = buffer
        BY DEF RawJob
      <4>4. ToSet(buffer') = {}
        BY <2>1 DEF ToSet
      <4>5. SUFFICES ASSUME NEW k \in Nat PROVE Waiting(k)' = Waiting(k)
        OBVIOUS
      <4>6. CASE k = 0
        BY <1>1, <4>6 DEF Waiting
      <4>7. CASE k \in 1 .. Len(queued)
        BY <4>2, <4>7 DEF Waiting
      <4>8. CASE k = Len(queued) + 1
        BY <4>2, <4>3, <4>8 DEF Waiting
      <4>9. CASE k > Len(queued) + 1
        BY <4>2, <4>4, <4>9 DEF Waiting
      <4>10. QED
        BY <4>2, <4>6, <4>7, <4>8, <4>9
    <3>3. QED
      BY <3>1, <3>2
  <2>5. LineSound'
    BY <1>1, <2>2, <2>4, LineStays
  <2>6. QED
    BY <1>2, <2>2, <2>3, <2>5 DEF IngestInv
<1>4. CASE ingest.rest # <<>>
  <2> DEFINE size == Min({BatchSize, Len(ingest.rest)})
  <2>1. /\ ingest' = [ingest EXCEPT !.pc = "document", !.batch = size]
        /\ UNCHANGED <<queued, buffer>>
    BY <1>4 DEF TakeBatch
  <2>2. size \in 1 .. Len(ingest.rest)
    <3>1. BatchSize \in Nat \ {0} /\ Len(ingest.rest) \in Nat \ {0}
      BY <1>1, <1>4, IngestConstants, EmptySeq DEF IngestConstants, RunSound
    <3>2. \E x \in {BatchSize, Len(ingest.rest)} :
            \A y \in {BatchSize, Len(ingest.rest)} : x <= y
      BY <3>1
    <3>3. /\ size \in {BatchSize, Len(ingest.rest)}
          /\ \A y \in {BatchSize, Len(ingest.rest)} : size <= y
      BY <3>2 DEF Min
    <3>4. QED
      BY <3>1, <3>3
  <2> HIDE DEF size
  <2>3. /\ DOMAIN ingest' = DOMAIN ingest /\ ingest'.pc = "document" /\ ingest'.batch = size
        /\ ingest'.rest = ingest.rest /\ ingest'.seen = ingest.seen
    BY <1>1, <2>1 DEF RunSound
  <2>4. RunSound'
    BY <1>1, <2>2, <2>3 DEF RunSound, Within
  <2>5. JobsSound'
    BY <1>1, <2>1 DEF JobsSound, JobSound, Wanted
  <2>6. LineSound'
    BY <1>1, <2>1, <2>3, LineStays DEF Waiting
  <2>7. QED
    BY <1>2, <2>4, <2>5, <2>6 DEF IngestInv
<1>5. QED
  BY <1>3, <1>4

\* The document the main thread is at, and the run behind it.
LEMMA AdvancedFields ==
  ASSUME RunSound, ingest.pc = "document", ingest' = Advanced
  PROVE  /\ Head(ingest.rest) \in Documents
         /\ DOMAIN ingest' = {"pc", "rest", "batch", "seen", "runs"}
         /\ ingest'.pc \in {"poll", "document"}
         /\ ingest'.rest \in Seq(Documents)
         /\ ingest'.pc = "document" => ingest'.batch \in 1 .. Len(ingest'.rest)
         /\ DOMAIN ingest'.seen = DOMAIN ingest.seen \cup {Head(ingest.rest).native}
         /\ ingest'.seen[Head(ingest.rest).native] = Head(ingest.rest).content
         /\ \A n \in DOMAIN ingest.seen \ {Head(ingest.rest).native} :
              ingest'.seen[n] = ingest.seen[n]
         /\ ingest'.seen \in [DOMAIN ingest'.seen -> Contents]
<1> DEFINE d == Head(ingest.rest)
           seen == Over([n \in {d.native} |-> d.content], ingest.seen)
           next == IF ingest.batch = 1 THEN "poll" ELSE "document"
<1>1. ingest.rest \in Seq(Documents) /\ ingest.rest # <<>>
  <2>1. ingest.batch \in 1 .. Len(ingest.rest)
    BY DEF RunSound
  <2>2. Len(ingest.rest) # 0
    BY <2>1 DEF RunSound
  <2>3. QED
    BY <2>2, EmptySeq DEF RunSound
<1>2. d \in Documents /\ Tail(ingest.rest) \in Seq(Documents)
      /\ Len(Tail(ingest.rest)) = Len(ingest.rest) - 1
  BY <1>1, HeadTailProperties
<1>3. d.native \in Natives /\ d.content \in Contents
  BY <1>2, DocumentTypes
<1>4. ingest' = [ingest EXCEPT !.rest = Tail(ingest.rest), !.batch = ingest.batch - 1,
                               !.pc = next, !.seen = seen]
  BY DEF Advanced
<1> HIDE DEF seen, next
<1>5. /\ DOMAIN ingest' = {"pc", "rest", "batch", "seen", "runs"}
      /\ ingest'.rest = Tail(ingest.rest) /\ ingest'.batch = ingest.batch - 1
      /\ ingest'.pc = next /\ ingest'.seen = seen
  BY <1>4 DEF RunSound
<1>6. next \in {"poll", "document"}
      /\ (next = "document" => ingest.batch - 1 \in 1 .. Len(Tail(ingest.rest)))
  <2>1. ingest.batch \in 1 .. Len(ingest.rest) /\ Len(ingest.rest) \in Nat
    BY <1>1 DEF RunSound
  <2>2. QED
    BY <1>2, <2>1 DEF next
<1>7. /\ DOMAIN seen = DOMAIN ingest.seen \cup {d.native}
      /\ seen[d.native] = d.content
      /\ \A n \in DOMAIN ingest.seen \ {d.native} : seen[n] = ingest.seen[n]
      /\ seen \in [DOMAIN seen -> Contents]
  <2>1. ingest.seen \in [DOMAIN ingest.seen -> Contents]
    BY DEF RunSound
  <2>2. seen = [n \in DOMAIN ingest.seen \cup {d.native} |->
                  IF n = d.native THEN d.content ELSE ingest.seen[n]]
    BY DEF seen, Over
  <2>3. QED
    BY <1>3, <2>1, <2>2
<1>8. QED
  BY <1>2, <1>5, <1>6, <1>7

LEMMA DuplicateKeeps ==
  ASSUME IngestInv, Duplicate
  PROVE  IngestInv'
BY RolledBack DEF Duplicate, RollBack

\* The row of a document that has not changed stays.
LEMMA KeepRowKeeps ==
  ASSUME IngestInv, KeepRow
  PROVE  IngestInv'
<1> DEFINE d == Head(ingest.rest)
<1>1. /\ ingest.pc = "document" /\ ingest' = Advanced /\ d.native \notin DOMAIN ingest.seen
      /\ UNCHANGED <<committed, tables, buffer, queued, worker, ingestFaults>>
      /\ d.native \in DOMAIN committed.documents
      /\ committed.documents[d.native] = d.content
      /\ RunSound /\ JobsSound /\ LineSound
  BY DEF KeepRow, Unchanged, IngestInv
<1>2. /\ d \in Documents
      /\ DOMAIN ingest' = {"pc", "rest", "batch", "seen", "runs"}
      /\ ingest'.pc \in {"poll", "document"}
      /\ ingest'.rest \in Seq(Documents)
      /\ ingest'.pc = "document" => ingest'.batch \in 1 .. Len(ingest'.rest)
      /\ DOMAIN ingest'.seen = DOMAIN ingest.seen \cup {d.native}
      /\ ingest'.seen[d.native] = d.content
      /\ \A n \in DOMAIN ingest.seen \ {d.native} : ingest'.seen[n] = ingest.seen[n]
      /\ ingest'.seen \in [DOMAIN ingest'.seen -> Contents]
  BY <1>1, AdvancedFields
<1>3. d.native \in Natives
  BY <1>2, DocumentTypes
<1> HIDE DEF d
<1>4. RunSound'
  <2>1. \A n \in Natives :
          IF n \in DOMAIN ingest'.seen
          THEN n \in DOMAIN tables'.documents /\ tables'.documents[n] = ingest'.seen[n]
          ELSE /\ n \in DOMAIN tables'.documents <=> n \in DOMAIN committed'.documents
               /\ n \in DOMAIN committed'.documents =>
                    tables'.documents[n] = committed'.documents[n]
    BY <1>1, <1>2, <1>3 DEF RunSound, Within
  <2>2. DOMAIN ingest'.seen \subseteq Natives
    BY <1>1, <1>2, <1>3 DEF RunSound
  <2>3. ingest'.pc \in Within /\ ingest'.pc # "drain" /\ ingest'.pc # "committed"
    BY <1>2 DEF Within
  <2>4. DOMAIN committed'.vectors = DOMAIN committed'.chunks
    BY <1>1 DEF RunSound
  <2>5. QED
    BY <1>2, <2>1, <2>2, <2>3, <2>4 DEF RunSound
<1>5. JobsSound'
  BY <1>1 DEF JobsSound, JobSound, Wanted
<1>6. LineSound'
  <2>1. \A k \in Nat : Waiting(k)' = Waiting(k)
    BY <1>1 DEF Waiting
  <2>2. \A k \in Nat : \A p \in Waiting(k)' :
          /\ p \in Items
          /\ p.id \in DOMAIN tables'.chunks /\ p.id \notin DOMAIN tables'.vectors
          /\ tables'.chunks[p.id].text = p.text
          /\ tables'.chunks[p.id].native \in DOMAIN ingest'.seen
    BY <1>1, <1>2, <2>1 DEF LineSound
  <2>3. \A j, k \in Nat : \A p \in Waiting(j)', q \in Waiting(k)' : p.id = q.id => j = k
    BY <1>1, <2>1 DEF LineSound
  <2>4. \A i \in DOMAIN tables'.chunks \ DOMAIN tables'.vectors :
          \E k \in Nat : \E p \in Waiting(k)' : p.id = i
    BY <1>1, <2>1 DEF LineSound
  <2>5. QED
    BY <2>2, <2>3, <2>4 DEF LineSound
<1>7. /\ Tables(committed)' /\ RowsOwn(committed)' /\ Tables(tables)' /\ RowsOwn(tables)'
  BY <1>1 DEF IngestInv
<1>8. QED
  BY <1>4, <1>5, <1>6, <1>7 DEF IngestInv

\* The chunks of a new row, and the items that wait for it.
LEMMA PendingItems ==
  ASSUME NEW db, Tables(db), NEW d \in Documents
  PROVE  /\ Pending(db, d.content) \in Seq(Items)
         /\ \A p \in ToSet(Pending(db, d.content)) :
              /\ p.id \in NewIds(db, d) /\ p.text = d.content[p.id - NewId(db.chunks) + 1]
         /\ \A i \in NewIds(db, d) : \E p \in ToSet(Pending(db, d.content)) : p.id = i
<1> DEFINE first == NewId(db.chunks)
           pending == Pending(db, d.content)
<1>1. first \in Nat \ {0}
  BY NewIdLarger
<1>2. /\ d.content \in Seq(Texts) /\ Len(d.content) \in Nat
      /\ DOMAIN d.content = 1 .. Len(d.content)
  BY DocumentTypes
<1>3. pending = [k \in 1 .. Len(d.content) |-> [id |-> first + k - 1, text |-> d.content[k]]]
  BY <1>2 DEF Pending
<1> HIDE DEF first, pending
<1>4. \A k \in 1 .. Len(d.content) : d.content[k] \in Texts /\ first + k - 1 \in Nat
  BY <1>1, <1>2
<1>5. \A k \in 1 .. Len(d.content) : [id |-> first + k - 1, text |-> d.content[k]] \in Items
  BY <1>4 DEF Items
<1>6. pending \in Seq(Items)
  <2>1. pending \in [1 .. Len(d.content) -> Items]
    BY <1>3, <1>5
  <2>2. QED
    BY <1>2, <2>1, SeqDef
<1>7. \A p \in ToSet(pending) : \E k \in 1 .. Len(d.content) :
        p = [id |-> first + k - 1, text |-> d.content[k]]
  BY <1>3 DEF ToSet
<1>8. ASSUME NEW p \in ToSet(pending)
      PROVE  p.id \in NewIds(db, d) /\ p.text = d.content[p.id - first + 1]
  <2>1. PICK k \in 1 .. Len(d.content) : p = [id |-> first + k - 1, text |-> d.content[k]]
    BY <1>7
  <2>2. p.id = first + k - 1 /\ p.text = d.content[k]
    BY <2>1
  <2>3. p.id - first + 1 = k /\ p.id \in first .. first + Len(d.content) - 1
    BY <1>1, <1>2, <2>2
  <2>4. QED
    BY <2>2, <2>3 DEF NewIds, first
<1>9. ASSUME NEW i \in NewIds(db, d)
      PROVE  \E p \in ToSet(pending) : p.id = i
  <2>1. i \in first .. first + Len(d.content) - 1
    BY DEF NewIds, first
  <2>2. PICK k \in 1 .. Len(d.content) : i = first + k - 1
    <3>1. i - first + 1 \in 1 .. Len(d.content) /\ i = first + (i - first + 1) - 1
      BY <1>1, <1>2, <2>1
    <3>2. QED
      BY <3>1
  <2>3. pending[k].id = i /\ pending[k] \in ToSet(pending)
    BY <1>3, <2>2 DEF ToSet
  <2>4. QED
    BY <2>3
<1>10. QED
  BY <1>6, <1>8, <1>9 DEF pending, first

\* The tables that a document is inserted in: without its old row.
Before(d) == IF d.native \in DOMAIN committed.documents THEN Without(tables, {d.native}) ELSE tables

LEMMA BeforeKeeps ==
  ASSUME IngestInv, ingest.pc = "document", NEW d \in Documents, d.native \notin DOMAIN ingest.seen
  PROVE  /\ Tables(Before(d)) /\ RowsOwn(Before(d))
         /\ DOMAIN Before(d).documents = DOMAIN tables.documents \ {d.native}
         /\ \A n \in DOMAIN Before(d).documents : Before(d).documents[n] = tables.documents[n]
         /\ \A i : i \in DOMAIN Before(d).chunks
                     <=> i \in DOMAIN tables.chunks /\ tables.chunks[i].native # d.native
         /\ \A i \in DOMAIN Before(d).chunks : Before(d).chunks[i] = tables.chunks[i]
         /\ \A i : i \in DOMAIN Before(d).vectors
                     <=> i \in DOMAIN tables.vectors /\ i \in DOMAIN Before(d).chunks
         /\ Before(d).cache = tables.cache
<1>1. Tables(tables) /\ RowsOwn(tables) /\ RunSound
  BY DEF IngestInv
<1>2. d.native \in Natives
  BY DocumentTypes
<1>3. CASE d.native \in DOMAIN committed.documents
  <2> DEFINE db == Without(tables, {d.native})
  <2>1. Before(d) = db
    BY <1>3 DEF Before
  <2>2. Tables(db) /\ RowsOwn(db)
    BY <1>1, WithoutSound
  <2>3. /\ DOMAIN db.documents = DOMAIN tables.documents \ {d.native}
        /\ \A n \in DOMAIN tables.documents \ {d.native} : db.documents[n] = tables.documents[n]
        /\ \A i : i \in DOMAIN db.chunks
                    <=> i \in DOMAIN tables.chunks /\ tables.chunks[i].native \notin {d.native}
        /\ \A i \in DOMAIN db.chunks : db.chunks[i] = tables.chunks[i]
        /\ \A i : i \in DOMAIN db.vectors
                    <=> i \in DOMAIN tables.vectors
                        /\ ~(i \in DOMAIN tables.chunks /\ tables.chunks[i].native \in {d.native})
        /\ db.cache = tables.cache
    BY <1>1, WithoutKeeps
  <2>4. \A i \in DOMAIN tables.vectors : i \in DOMAIN tables.chunks
    BY <1>1 DEF RowsOwn
  <2> HIDE DEF db
  <2>5. QED
    BY <2>1, <2>2, <2>3, <2>4
<1>4. CASE d.native \notin DOMAIN committed.documents
  <2>1. Before(d) = tables
    BY <1>4 DEF Before
  <2>2. d.native \notin DOMAIN tables.documents
    BY <1>1, <1>2, <1>4 DEF RunSound, Within
  <2>3. /\ \A i \in DOMAIN tables.chunks : tables.chunks[i].native # d.native
        /\ \A i \in DOMAIN tables.vectors : i \in DOMAIN tables.chunks
    BY <1>1, <2>2 DEF RowsOwn
  <2>4. QED
    BY <1>1, <2>1, <2>2, <2>3
<1>5. QED
  BY <1>3, <1>4

\* The chunks of the new row wait behind the others, in the buffer or in the job it fills.
LEMMA InsertQueues ==
  ASSUME IngestInv, Insert, ingest.pc = "document", Head(ingest.rest) \in Documents,
         Head(ingest.rest).native \notin DOMAIN ingest.seen,
         NEW fresh, fresh = Pending(Before(Head(ingest.rest)), Head(ingest.rest).content),
         NEW place \in Nat, place = Len(queued) + 1
  PROVE  /\ buffer' \in Seq(Items) /\ queued' \in Seq({RawJob(s) : s \in Seq(Items)})
         /\ \A k \in Nat \ {place} : Waiting(k)' = Waiting(k)
         /\ Waiting(place)' = Waiting(place) \cup ToSet(fresh)
<1> DEFINE pending == buffer \o fresh
           full == Len(pending) >= FlushSize
<1>1. /\ buffer' = IF full THEN <<>> ELSE pending
      /\ queued' = IF full THEN Append(queued, RawJob(pending)) ELSE queued
      /\ worker' = worker
  BY DEF Insert, Before
<1>2. buffer \in Seq(Items) /\ queued \in Seq({RawJob(s) : s \in Seq(Items)}) /\ JobsSound
  BY DEF IngestInv, JobsSound
<1>3. fresh \in Seq(Items)
  <2>1. Tables(Before(Head(ingest.rest)))
    BY BeforeKeeps
  <2>2. QED
    BY <2>1, PendingItems
<1>4. /\ pending \in Seq(Items) /\ Len(pending) = Len(buffer) + Len(fresh)
      /\ \A i \in 1 .. Len(buffer) + Len(fresh) :
           pending[i] = IF i <= Len(buffer) THEN buffer[i] ELSE fresh[i - Len(buffer)]
  BY <1>2, <1>3, ConcatProperties
<1> HIDE DEF pending, full
<1>5. ToSet(pending) = ToSet(buffer) \cup ToSet(fresh)
  <2>1. /\ DOMAIN pending = 1 .. Len(buffer) + Len(fresh)
        /\ DOMAIN buffer = 1 .. Len(buffer) /\ DOMAIN fresh = 1 .. Len(fresh)
        /\ Len(buffer) \in Nat /\ Len(fresh) \in Nat
    BY <1>2, <1>3, <1>4
  <2>2. \A i \in DOMAIN buffer : i \in DOMAIN pending /\ pending[i] = buffer[i]
    BY <1>4, <2>1
  <2>3. ASSUME NEW i \in DOMAIN fresh
        PROVE  \E k \in DOMAIN pending : pending[k] = fresh[i]
    <3>1. /\ Len(buffer) + i \in 1 .. Len(buffer) + Len(fresh) /\ ~(Len(buffer) + i <= Len(buffer))
          /\ Len(buffer) + i - Len(buffer) = i
      BY <2>1
    <3>2. pending[Len(buffer) + i] = fresh[i]
      BY <1>4, <3>1
    <3>3. QED
      BY <2>1, <3>1, <3>2
  <2>4. \A i \in DOMAIN pending : \/ i \in DOMAIN buffer /\ pending[i] = buffer[i]
                                  \/ i - Len(buffer) \in DOMAIN fresh
                                     /\ pending[i] = fresh[i - Len(buffer)]
    BY <1>4, <2>1
  <2>5. QED
    BY <2>2, <2>3, <2>4 DEF ToSet
<1>6. /\ Len(queued) \in Nat
      /\ \A k \in 1 .. Len(queued) : Waiting(k) = ToSet(queued[k].pending)
      /\ Waiting(place) = ToSet(buffer)
      /\ \A k \in Nat : k > place => Waiting(k) = {}
  BY <1>2, Places
<1>7. CASE full
  <2>1. buffer' = <<>> /\ queued' = Append(queued, RawJob(pending))
    BY <1>1, <1>7
  <2>2. queued' \in Seq({RawJob(s) : s \in Seq(Items)}) /\ buffer' \in Seq(Items)
    BY <1>2, <1>4, <2>1
  <2>3. /\ Len(queued') = place
        /\ \A k \in 1 .. Len(queued) : queued'[k] = queued[k]
        /\ queued'[place] = RawJob(pending)
    BY <1>2, <2>1
  <2>4. RawJob(pending).pending = pending /\ ToSet(buffer') = {}
    BY <2>1 DEF RawJob, ToSet
  <2>5. Waiting(place)' = ToSet(pending)
    BY <1>6, <2>3, <2>4 DEF Waiting
  <2>6. ASSUME NEW k \in Nat \ {place}
        PROVE  Waiting(k)' = Waiting(k)
    <3>1. CASE k = 0
      BY <1>1, <3>1 DEF Waiting
    <3>2. CASE k \in 1 .. Len(queued)
      BY <1>6, <2>3, <3>2 DEF Waiting
    <3>3. CASE k > place
      BY <1>6, <2>3, <2>4, <3>3 DEF Waiting
    <3>4. QED
      BY <1>6, <3>1, <3>2, <3>3
  <2>7. QED
    BY <1>5, <1>6, <2>2, <2>5, <2>6
<1>8. CASE ~full
  <2>1. buffer' = pending /\ queued' = queued
    BY <1>1, <1>8
  <2>2. Waiting(place)' = ToSet(pending)
    BY <1>6, <2>1 DEF Waiting
  <2>3. \A k \in Nat \ {place} : Waiting(k)' = Waiting(k)
    BY <1>1, <1>6, <2>1 DEF Waiting
  <2>4. QED
    BY <1>2, <1>4, <1>5, <1>6, <2>1, <2>2, <2>3
<1>9. QED
  BY <1>7, <1>8

LEMMA InsertKeeps ==
  ASSUME IngestInv, Insert
  PROVE  IngestInv'
<1> DEFINE d == Head(ingest.rest)
           db == Before(d)
           fresh == Pending(db, d.content)
<1>1. /\ ingest.pc = "document" /\ ingest' = Advanced /\ d.native \notin DOMAIN ingest.seen
      /\ tables' = With(db, d) /\ UNCHANGED <<committed, worker>>
      /\ RunSound /\ JobsSound /\ LineSound /\ Tables(tables) /\ RowsOwn(tables)
  BY DEF Insert, Before, IngestInv
<1>2. /\ d \in Documents
      /\ DOMAIN ingest' = {"pc", "rest", "batch", "seen", "runs"}
      /\ ingest'.pc \in {"poll", "document"}
      /\ ingest'.rest \in Seq(Documents)
      /\ ingest'.pc = "document" => ingest'.batch \in 1 .. Len(ingest'.rest)
      /\ DOMAIN ingest'.seen = DOMAIN ingest.seen \cup {d.native}
      /\ ingest'.seen[d.native] = d.content
      /\ \A n \in DOMAIN ingest.seen \ {d.native} : ingest'.seen[n] = ingest.seen[n]
      /\ ingest'.seen \in [DOMAIN ingest'.seen -> Contents]
  BY <1>1, AdvancedFields
<1>3. d.native \in Natives
  BY <1>2, DocumentTypes
<1>14. PICK place \in Nat : place = Len(queued) + 1
  BY <1>1, Places
<1>4. /\ buffer' \in Seq(Items) /\ queued' \in Seq({RawJob(s) : s \in Seq(Items)})
      /\ \A k \in Nat \ {place} : Waiting(k)' = Waiting(k)
      /\ Waiting(place)' = Waiting(place) \cup ToSet(fresh)
  BY <1>1, <1>2, <1>14, InsertQueues
<1>5. /\ Tables(db) /\ RowsOwn(db)
      /\ DOMAIN db.documents = DOMAIN tables.documents \ {d.native}
      /\ \A n \in DOMAIN db.documents : db.documents[n] = tables.documents[n]
      /\ \A i : i \in DOMAIN db.chunks
                  <=> i \in DOMAIN tables.chunks /\ tables.chunks[i].native # d.native
      /\ \A i \in DOMAIN db.chunks : db.chunks[i] = tables.chunks[i]
      /\ \A i : i \in DOMAIN db.vectors <=> i \in DOMAIN tables.vectors /\ i \in DOMAIN db.chunks
      /\ db.cache = tables.cache
  BY <1>1, <1>2, BeforeKeeps
<1>6. /\ \A p \in ToSet(fresh) :
           p \in Items /\ p.id \in NewIds(db, d) /\ p.text = d.content[p.id - NewId(db.chunks) + 1]
      /\ \A i \in NewIds(db, d) : \E p \in ToSet(fresh) : p.id = i
  <2>1. fresh \in Seq(Items)
    BY <1>2, <1>5, PendingItems
  <2>2. ToSet(fresh) \subseteq Items
    BY <2>1 DEF ToSet
  <2>3. QED
    BY <1>2, <1>5, <2>2, PendingItems
<1> HIDE DEF d, db, fresh
<1>7. /\ DOMAIN tables'.documents = DOMAIN db.documents \cup {d.native}
      /\ tables'.documents[d.native] = d.content
      /\ \A n \in DOMAIN db.documents \ {d.native} : tables'.documents[n] = db.documents[n]
      /\ DOMAIN tables'.chunks = DOMAIN db.chunks \cup NewIds(db, d)
      /\ \A i \in DOMAIN db.chunks :
           i \notin NewIds(db, d) /\ tables'.chunks[i] = db.chunks[i]
      /\ \A i \in NewIds(db, d) :
           /\ tables'.chunks[i].native = d.native
           /\ tables'.chunks[i].text = d.content[i - NewId(db.chunks) + 1]
      /\ tables'.vectors = db.vectors /\ tables'.cache = db.cache
  <2>1. With(db, d).cache = db.cache
    BY <1>2, <1>5, WithKeeps
  <2>2. QED
    BY <1>1, <1>2, <1>5, WithKeeps
<1>8. Tables(tables)' /\ RowsOwn(tables)'
  <2>1. Tables(With(db, d)) /\ RowsOwn(With(db, d))
    BY <1>2, <1>5, WithSound
  <2>2. QED
    BY <1>1, <2>1
<1>9. RunSound'
  <2>1. \A n \in Natives :
          IF n \in DOMAIN ingest'.seen
          THEN n \in DOMAIN tables'.documents /\ tables'.documents[n] = ingest'.seen[n]
          ELSE /\ n \in DOMAIN tables'.documents <=> n \in DOMAIN committed'.documents
               /\ n \in DOMAIN committed'.documents =>
                    tables'.documents[n] = committed'.documents[n]
    BY <1>1, <1>2, <1>3, <1>5, <1>7 DEF RunSound, Within
  <2>2. DOMAIN ingest'.seen \subseteq Natives
    BY <1>1, <1>2, <1>3 DEF RunSound
  <2>3. ingest'.pc \in Within /\ ingest'.pc # "drain" /\ ingest'.pc # "committed"
    BY <1>2 DEF Within
  <2>4. DOMAIN committed'.vectors = DOMAIN committed'.chunks
    BY <1>1 DEF RunSound
  <2>5. QED
    BY <1>2, <2>1, <2>2, <2>3, <2>4 DEF RunSound
<1>10. JobsSound'
  <2>1. tables'.cache = tables.cache
    BY <1>5, <1>7
  <2>2. QED
    BY <1>1, <1>4, <2>1 DEF JobsSound, JobSound, Wanted
<1>11. LineSound'
  <2>2. \A i \in DOMAIN tables.chunks :
          tables.chunks[i].native \in DOMAIN ingest.seen => i \in DOMAIN tables'.chunks
    BY <1>1, <1>5, <1>7
  <2>3. \A i \in DOMAIN tables'.chunks :
          \/ i \in DOMAIN tables.chunks /\ tables'.chunks[i] = tables.chunks[i]
          \/ \E p \in ToSet(fresh) : p.id = i
    BY <1>5, <1>6, <1>7
  <2>4. /\ \A i \in DOMAIN tables'.vectors : i \in DOMAIN tables.vectors
        /\ \A i \in DOMAIN tables'.chunks :
             i \in DOMAIN tables.vectors =>
               i \in DOMAIN tables'.vectors \/ \E p \in ToSet(fresh) : p.id = i
    BY <1>5, <1>6, <1>7
  <2>5. DOMAIN ingest.seen \subseteq DOMAIN ingest'.seen
    BY <1>2
  <2>6. \A p \in ToSet(fresh) :
          /\ p \in Items /\ p.id \in DOMAIN tables'.chunks /\ p.id \notin DOMAIN tables'.vectors
          /\ tables'.chunks[p.id].text = p.text
          /\ tables'.chunks[p.id].native \in DOMAIN ingest'.seen
          /\ ~(p.id \in DOMAIN tables.chunks /\ tables.chunks[p.id].native \in DOMAIN ingest.seen)
    BY <1>1, <1>2, <1>5, <1>6, <1>7
  <2>7. QED
    BY <1>1, <1>4, <2>2, <2>3, <2>4, <2>5, <2>6, LineGrows
<1>12. Tables(committed)' /\ RowsOwn(committed)'
  BY <1>1 DEF IngestInv
<1>13. QED
  BY <1>8, <1>9, <1>10, <1>11, <1>12 DEF IngestInv
-----------------------------------------------------------------------------
(* The jobs *)

Fresh(job, s, available) ==
  /\ DOMAIN job = {"pending", "vectors", "missing", "new", "done"}
  /\ job.pending = s /\ job.done = FALSE /\ job.new = {}
  /\ job.missing = Wanted(job) \ (DOMAIN available \cup DOMAIN tables.cache)
  /\ DOMAIN job.vectors = Wanted(job) \cap (DOMAIN available \cup DOMAIN tables.cache)
  /\ \A t \in DOMAIN job.vectors :
       job.vectors[t] = IF t \in DOMAIN available THEN available[t] ELSE tables.cache[t]

LEMMA ResolvedFields ==
  ASSUME NEW s \in Seq(Items), NEW available, NEW job, job = Resolved(RawJob(s), available)
  PROVE  Fresh(job, s, available)
<1> DEFINE raw == RawJob(s)
           wanted == {p.text : p \in ToSet(raw.pending)}
           cached == DOMAIN tables.cache \ DOMAIN available
           vectors == Over(Restrict(available, DOMAIN available \cap wanted),
                           Restrict(tables.cache, cached \cap wanted))
           missing == wanted \ (DOMAIN available \cup cached)
<1>1. job = [raw EXCEPT !.vectors = vectors, !.missing = missing]
  BY DEF Resolved
<1>2. /\ DOMAIN raw = {"pending", "vectors", "missing", "new", "done"}
      /\ raw.pending = s /\ raw.done = FALSE /\ raw.new = {}
  BY DEF RawJob
<1>3. /\ DOMAIN vectors = wanted \cap (DOMAIN available \cup DOMAIN tables.cache)
      /\ \A t \in DOMAIN vectors :
           vectors[t] = IF t \in DOMAIN available THEN available[t] ELSE tables.cache[t]
  BY DEF Over, Restrict
<1>4. missing = wanted \ (DOMAIN available \cup DOMAIN tables.cache)
  OBVIOUS
<1> HIDE DEF raw, vectors, missing, wanted
<1>5. /\ DOMAIN job = {"pending", "vectors", "missing", "new", "done"}
      /\ job.pending = s /\ job.done = FALSE /\ job.new = {}
      /\ job.vectors = vectors /\ job.missing = missing
  BY <1>1, <1>2
<1>6. Wanted(job) = wanted
  BY <1>2, <1>5 DEF Wanted, wanted
<1>7. QED
  BY <1>3, <1>4, <1>5, <1>6 DEF Fresh

\* The next job leaves the queue: it takes the vectors of the job ahead.
LEMMA QueueMoves ==
  ASSUME JobsSound, RowsOwn(tables), NEW available, \A t \in DOMAIN available : available[t] = t,
         worker' = IF queued = <<>> THEN {} ELSE {Resolved(Head(queued), available)},
         queued' = IF queued = <<>> THEN <<>> ELSE Tail(queued), buffer' = buffer,
         DOMAIN tables'.cache \subseteq DOMAIN tables.cache \cup DOMAIN available
  PROVE  /\ JobsSound'
         /\ \E shift \in {0, 1} : \A k \in Nat :
              Waiting(k)' = IF k + shift = 0 THEN {} ELSE Waiting(k + shift)
<1>1. /\ buffer \in Seq(Items) /\ queued \in Seq({RawJob(s) : s \in Seq(Items)})
      /\ Len(queued) \in Nat
  BY DEF JobsSound
<1>2. CASE queued = <<>>
  <2>1. worker' = {} /\ queued' = <<>> /\ Len(queued) = 0
    BY <1>2
  <2>2. JobsSound'
    BY <1>1, <2>1 DEF JobsSound
  <2>3. ASSUME NEW k \in Nat
        PROVE  Waiting(k)' = IF k + 0 = 0 THEN {} ELSE Waiting(k + 0)
    <3>1. k + 0 = k
      OBVIOUS
    <3>2. Waiting(k)' = IF k = 0 THEN {} ELSE Waiting(k)
      BY <1>2, <2>1 DEF Waiting
    <3>3. QED
      BY <3>1, <3>2
  <2>4. \A k \in Nat : Waiting(k)' = IF k + 0 = 0 THEN {} ELSE Waiting(k + 0)
    BY <2>3
  <2>5. \E shift \in {0, 1} : \A k \in Nat :
          Waiting(k)' = IF k + shift = 0 THEN {} ELSE Waiting(k + shift)
    <3> WITNESS 0 \in {0, 1}
    <3>1. QED
      BY <2>4 DEF Fresh
  <2>6. QED
    BY <2>2, <2>5
<1>3. CASE queued # <<>>
  <2>1. /\ Head(queued) \in {RawJob(s) : s \in Seq(Items)}
        /\ Tail(queued) \in Seq({RawJob(s) : s \in Seq(Items)})
        /\ Len(Tail(queued)) = Len(queued) - 1
        /\ \A i \in 1 .. Len(Tail(queued)) : Tail(queued)[i] = queued[i + 1]
        /\ Head(queued) = queued[1] /\ Len(queued) >= 1
    BY <1>1, <1>3, HeadTailProperties, EmptySeq
  <2>2. PICK s \in Seq(Items) : Head(queued) = RawJob(s)
    BY <2>1
  <2>12. PICK job : job = Resolved(RawJob(s), available)
    OBVIOUS
  <2>3. worker' = {job} /\ queued' = Tail(queued)
    BY <1>3, <2>2, <2>12
  <2>4. Fresh(job, s, available)
    BY <2>12, ResolvedFields
  <2>6. JobSound(job)'
    <3>1. Wanted(job)' = Wanted(job)
      BY DEF Wanted
    <3>2. job.missing \cap DOMAIN tables'.cache = {}
      BY <2>4 DEF Fresh
    <3>3. \A t \in DOMAIN job.vectors : job.vectors[t] = t
      BY <2>4 DEF RowsOwn, Fresh
    <3>4. Wanted(job) \ job.missing \subseteq DOMAIN job.vectors
      BY <2>4 DEF Fresh
    <3>5. QED
      BY <2>4, <3>1, <3>2, <3>3, <3>4 DEF JobSound, Fresh
  <2>7. JobsSound'
    <3>1. worker' = {job}
      BY <2>3
    <3>2. queued' \in Seq({RawJob(t) : t \in Seq(Items)})
      BY <2>1, <2>3
    <3>3. QED
      BY <1>1, <2>6, <3>1, <3>2 DEF JobsSound
  <2>8. ASSUME NEW k \in Nat
        PROVE  Waiting(k)' = Waiting(k + 1)
    <3>1. Len(queued') = Len(queued) - 1
      BY <2>1, <2>3
    <3>2. CASE k = 0
      <4>1. Waiting(0)' = ToSet(job.pending)
        BY <2>3 DEF Waiting
      <4>2. RawJob(s).pending = s
        BY DEF RawJob
      <4>3. Waiting(1) = ToSet(s)
        BY <2>1, <2>2, <4>2 DEF Waiting
      <4>4. QED
        BY <2>4, <3>2, <4>1, <4>3 DEF Fresh
    <3>3. CASE k \in 1 .. Len(queued')
      <4>1. queued'[k] = queued[k + 1]
        BY <2>1, <2>3, <3>3
      <4>2. QED
        BY <1>1, <3>1, <3>3, <4>1 DEF Waiting
    <3>4. CASE k > Len(queued')
      BY <1>1, <2>1, <3>1, <3>4 DEF Waiting
    <3>5. QED
      BY <1>1, <2>1, <3>1, <3>2, <3>3, <3>4
  <2>9. ASSUME NEW k \in Nat
        PROVE  Waiting(k)' = IF k + 1 = 0 THEN {} ELSE Waiting(k + 1)
    <3>1. k + 1 # 0
      OBVIOUS
    <3>2. QED
      BY <2>8, <3>1
  <2>10. \E shift \in {0, 1} : \A k \in Nat :
           Waiting(k)' = IF k + shift = 0 THEN {} ELSE Waiting(k + shift)
    <3> WITNESS 1 \in {0, 1}
    <3>1. QED
      BY <2>9
  <2>11. QED
    BY <2>7, <2>10
<1>4. QED
  BY <1>2, <1>3

\* A job that is done trips over nothing.
LEMMA DoneReady ==
  ASSUME IngestInv, NEW job \in worker, job.done
  PROVE  Ready(job, tables)
<1>1. JobSound(job) /\ LineSound
  BY DEF IngestInv, JobsSound
<1>2. Waiting(0) = ToSet(job.pending)
  BY Places DEF IngestInv
<1>3. job.new = job.missing /\ job.missing \subseteq DOMAIN job.vectors
  BY <1>1 DEF JobSound
<1>4. ASSUME NEW p \in ToSet(job.pending)
      PROVE  /\ p.id \in DOMAIN tables.chunks /\ p.id \notin DOMAIN tables.vectors
             /\ tables.chunks[p.id].text = p.text /\ p.text \in DOMAIN job.vectors
  <2>1. p \in Waiting(0)
    BY <1>2
  <2>2. p.text \in Wanted(job)
    BY DEF Wanted
  <2>3. p.text \in DOMAIN job.vectors
    BY <1>1, <1>3, <2>2 DEF JobSound
  <2>4. QED
    BY <1>1, <2>1, <2>3 DEF LineSound
<1>5. QED
  BY <1>1, <1>3, <1>4 DEF JobSound, Ready

LEMMA HandKeeps ==
  ASSUME IngestInv, ingest.pc \in Within, NEW job \in worker, job.done,
         NEW pc \in Within \ {"document"}, Hand(job, pc), pc = "drain" => buffer = <<>>
  PROVE  IngestInv'
<1>1. Ready(job, tables)
  BY DoneReady
<1>2. /\ ~Conflicts(job, tables)
      /\ Tables(Persisted(job, tables)) /\ RowsOwn(Persisted(job, tables))
      /\ Persisted(job, tables).documents = tables.documents
      /\ Persisted(job, tables).chunks = tables.chunks
      /\ DOMAIN Persisted(job, tables).vectors
           = DOMAIN tables.vectors \cup {p.id : p \in ToSet(job.pending)}
      /\ DOMAIN Persisted(job, tables).cache = DOMAIN tables.cache \cup job.new
  BY <1>1, PersistedKeeps DEF IngestInv
<1>3. /\ tables' = Persisted(job, tables) /\ ingest' = [ingest EXCEPT !.pc = pc]
      /\ worker' = IF queued = <<>> THEN {} ELSE {Resolved(Head(queued), job.vectors)}
      /\ queued' = IF queued = <<>> THEN <<>> ELSE Tail(queued)
      /\ buffer' = buffer /\ committed' = committed
      /\ JobsSound /\ LineSound /\ RunSound
  BY <1>2 DEF Hand, IngestInv
<1>4. RunSound'
  BY <1>2, <1>3, RunMoves
<1>5. /\ job.new \subseteq DOMAIN job.vectors
      /\ \A t \in DOMAIN job.vectors : job.vectors[t] = t
  BY <1>1 DEF Ready
<1>6. DOMAIN tables'.cache \subseteq DOMAIN tables.cache \cup DOMAIN job.vectors
  BY <1>2, <1>3, <1>5
<1>7. /\ JobsSound'
      /\ \E shift \in {0, 1} : \A k \in Nat :
           Waiting(k)' = IF k + shift = 0 THEN {} ELSE Waiting(k + shift)
  BY <1>3, <1>5, <1>6, QueueMoves DEF IngestInv
<1>8. LineSound'
  <2>1. PICK shift \in {0, 1} : \A k \in Nat :
          Waiting(k)' = IF k + shift = 0 THEN {} ELSE Waiting(k + shift)
    BY <1>7
  <2>2. Waiting(0) = ToSet(job.pending)
    BY <1>3, Places
  <2>3. /\ tables'.chunks = tables.chunks /\ ingest'.seen = ingest.seen
        /\ DOMAIN tables'.vectors = DOMAIN tables.vectors \cup {p.id : p \in Waiting(0)}
    BY <1>2, <1>3, <2>2 DEF RunSound
  <2>4. QED
    BY <1>3, <2>1, <2>3, LineMoves
<1>9. Tables(tables)' /\ RowsOwn(tables)' /\ Tables(committed)' /\ RowsOwn(committed)'
  BY <1>2, <1>3 DEF IngestInv
<1>10. QED
  BY <1>4, <1>7, <1>8, <1>9 DEF IngestInv

LEMMA StartKeeps ==
  ASSUME IngestInv, ingest.pc \in Within, worker = {},
         NEW pc \in Within \ {"document"}, Start(pc), pc = "drain" => buffer = <<>>
  PROVE  IngestInv'
<1>1. /\ ingest' = [ingest EXCEPT !.pc = pc]
      /\ worker' = IF queued = <<>> THEN {} ELSE {Resolved(Head(queued), <<>>)}
      /\ queued' = IF queued = <<>> THEN <<>> ELSE Tail(queued)
      /\ buffer' = buffer /\ committed' = committed /\ tables' = tables
      /\ JobsSound /\ LineSound /\ RunSound
  BY DEF Start, IngestInv
<1>2. RunSound'
  BY <1>1, RunMoves
<1>3. /\ \A t \in DOMAIN <<>> : <<>>[t] = t
      /\ DOMAIN tables'.cache \subseteq DOMAIN tables.cache \cup DOMAIN <<>>
  BY <1>1
<1>4. /\ JobsSound'
      /\ \E shift \in {0, 1} : \A k \in Nat :
           Waiting(k)' = IF k + shift = 0 THEN {} ELSE Waiting(k + shift)
  BY <1>1, <1>3, QueueMoves DEF IngestInv
<1>5. LineSound'
  <2>1. PICK shift \in {0, 1} : \A k \in Nat :
          Waiting(k)' = IF k + shift = 0 THEN {} ELSE Waiting(k + shift)
    BY <1>4
  <2>2. Waiting(0) = {}
    BY <1>1, Places
  <2>3. /\ tables'.chunks = tables.chunks /\ ingest'.seen = ingest.seen
        /\ DOMAIN tables'.vectors = DOMAIN tables.vectors \cup {p.id : p \in Waiting(0)}
    BY <1>1, <2>2 DEF RunSound
  <2>4. QED
    BY <1>1, <2>1, <2>3, LineMoves
<1>6. Tables(tables)' /\ RowsOwn(tables)' /\ Tables(committed)' /\ RowsOwn(committed)'
  BY <1>1 DEF IngestInv
<1>7. QED
  BY <1>2, <1>4, <1>5, <1>6 DEF IngestInv

\* Only the main thread moves.
LEMMA PcMoves ==
  ASSUME IngestInv, ingest.pc \in Within, NEW pc \in Within \ {"document"},
         ingest' = [ingest EXCEPT !.pc = pc], pc = "drain" => buffer = <<>>,
         UNCHANGED <<committed, tables, buffer, queued, worker>>
  PROVE  IngestInv'
<1>1. RunSound' /\ ingest'.seen = ingest.seen
  BY RunMoves DEF IngestInv, RunSound
<1>2. JobsSound'
  BY DEF IngestInv, JobsSound, JobSound, Wanted
<1>3. LineSound'
  BY <1>1, LineStays DEF IngestInv, Waiting
<1>4. Tables(tables)' /\ RowsOwn(tables)' /\ Tables(committed)' /\ RowsOwn(committed)'
  BY DEF IngestInv
<1>5. QED
  BY <1>1, <1>2, <1>3, <1>4 DEF IngestInv

LEMMA PollKeeps ==
  ASSUME IngestInv, Poll
  PROVE  IngestInv'
<1>1. ingest.pc \in Within /\ "throttle" \in Within \ {"document"}
  BY DEF Poll, Within
<1>2. CASE \E job \in worker : job.done /\ Hand(job, "throttle")
  BY <1>1, <1>2, HandKeeps
<1>3. CASE worker = {} /\ Start("throttle")
  BY <1>1, <1>3, StartKeeps
<1>4. CASE /\ ingest' = [ingest EXCEPT !.pc = "throttle"]
           /\ UNCHANGED <<committed, tables, buffer, queued, worker, ingestFaults>>
  BY <1>1, <1>4, PcMoves
<1>5. QED
  BY <1>2, <1>3, <1>4 DEF Poll

LEMMA ThrottleKeeps ==
  ASSUME IngestInv, Throttle
  PROVE  IngestInv'
<1>1. ingest.pc \in Within /\ "batch" \in Within \ {"document"}
  BY DEF Throttle, Within
<1>2. CASE \E job \in worker : job.done /\ Hand(job, "batch")
  BY <1>1, <1>2, HandKeeps
<1>3. CASE /\ ingest' = [ingest EXCEPT !.pc = "batch"]
           /\ UNCHANGED <<committed, tables, buffer, queued, worker, ingestFaults>>
  BY <1>1, <1>3, PcMoves
<1>4. QED
  BY <1>2, <1>3 DEF Throttle

LEMMA DrainKeeps ==
  ASSUME IngestInv, Drain
  PROVE  IngestInv'
<1>1. /\ ingest.pc \in Within /\ "drain" \in Within \ {"document"} /\ buffer = <<>>
  BY DEF Drain, Within, IngestInv, RunSound
<1>2. CASE \E job \in worker : job.done /\ Hand(job, "drain")
  BY <1>1, <1>2, HandKeeps
<1>3. CASE worker = {} /\ queued # <<>> /\ Start("drain")
  BY <1>1, <1>3, StartKeeps
<1>4. QED
  BY <1>2, <1>3 DEF Drain

\* The worker makes the vectors its job lacks.
LEMMA EncodeKeeps ==
  ASSUME IngestInv, Encode
  PROVE  IngestInv'
<1>1. PICK job \in worker :
        /\ ~job.done
        /\ worker' = {[job EXCEPT !.done = TRUE, !.new = job.missing,
                                  !.vectors = Over([t \in job.missing |-> t], job.vectors)]}
  BY DEF Encode
<1> DEFINE vectors == Over([t \in job.missing |-> t], job.vectors)
<1>2. /\ UNCHANGED <<committed, tables, ingest, buffer, queued>>
      /\ JobSound(job) /\ worker = {job} /\ JobsSound /\ LineSound /\ RunSound
  BY DEF Encode, IngestInv, JobsSound
<1>3. /\ DOMAIN vectors = job.missing \cup DOMAIN job.vectors
      /\ \A t \in DOMAIN vectors : vectors[t] = t
  BY <1>2 DEF Over, JobSound
<1> HIDE DEF vectors
<1>4. PICK new :
        new = [job EXCEPT !.done = TRUE, !.new = job.missing, !.vectors = vectors]
  OBVIOUS
<1>5. /\ DOMAIN new = DOMAIN job /\ new.done = TRUE /\ new.new = job.missing
      /\ new.vectors = vectors /\ new.pending = job.pending /\ new.missing = job.missing
  BY <1>2, <1>4 DEF JobSound
<1>6. worker' = {new}
  BY <1>1, <1>4 DEF vectors
<1>7. JobSound(new)'
  <2>1. Wanted(new)' = Wanted(job) /\ tables' = tables
    BY <1>2, <1>5 DEF Wanted
  <2>2. QED
    BY <1>2, <1>3, <1>5, <2>1 DEF JobSound
<1>8. JobsSound'
  BY <1>2, <1>6, <1>7 DEF JobsSound
<1>9. LineSound'
  <2>1. Waiting(0) = ToSet(job.pending) /\ Waiting(0)' = ToSet(new.pending)
    BY <1>2, <1>6 DEF Waiting
  <2>2. \A k \in Nat : Waiting(k)' = Waiting(k)
    <3> SUFFICES ASSUME NEW k \in Nat PROVE Waiting(k)' = Waiting(k)
      OBVIOUS
    <3>1. CASE k = 0
      BY <1>5, <2>1, <3>1
    <3>2. CASE k # 0
      BY <1>2, <3>2 DEF Waiting
    <3>3. QED
      BY <3>1, <3>2
  <2>3. QED
    BY <1>2, <2>2, LineStays
<1>10. RunSound'
  <2>1. worker # {} /\ worker' # {}
    BY <1>6
  <2>2. QED
    BY <1>2, <2>1 DEF RunSound
<1>11. Tables(tables)' /\ RowsOwn(tables)' /\ Tables(committed)' /\ RowsOwn(committed)'
  BY <1>2 DEF IngestInv
<1>12. QED
  BY <1>8, <1>9, <1>10, <1>11 DEF IngestInv

LEMMA FailsKeeps ==
  ASSUME IngestInv, Fails
  PROVE  IngestInv'
BY RolledBack DEF Fails

\* Once nothing waits every chunk has its vector, and what the snapshot has not named goes.
LEMMA FinishKeeps ==
  ASSUME IngestInv, Finish
  PROVE  IngestInv'
<1> DEFINE absent == DOMAIN committed.documents \ DOMAIN ingest.seen
           kept == Without(tables, absent)
<1>1. /\ ingest.pc = "drain" /\ worker = {} /\ queued = <<>> /\ buffer = <<>>
      /\ Tables(tables) /\ RowsOwn(tables) /\ LineSound /\ RunSound
  BY DEF Finish, IngestInv, RunSound
<1>2. \A k \in Nat : Waiting(k) = {}
  BY <1>1 DEF Waiting, ToSet
<1>3. DOMAIN tables.vectors = DOMAIN tables.chunks
  BY <1>1, <1>2 DEF LineSound, RowsOwn
<1>4. /\ DOMAIN kept.documents = DOMAIN tables.documents \ absent
      /\ \A n \in DOMAIN tables.documents \ absent : kept.documents[n] = tables.documents[n]
      /\ kept.documents \in [DOMAIN kept.documents -> Contents]
      /\ \A i : i \in DOMAIN kept.chunks
                  <=> i \in DOMAIN tables.chunks /\ tables.chunks[i].native \notin absent
      /\ \A i : i \in DOMAIN kept.vectors
                  <=> i \in DOMAIN tables.vectors
                      /\ ~(i \in DOMAIN tables.chunks /\ tables.chunks[i].native \in absent)
  BY <1>1, WithoutKeeps
<1>5. Tables(kept) /\ RowsOwn(kept)
  BY <1>1, WithoutSound
<1>6. /\ IF Unencoded(kept)
         THEN RollBack("conflict")
         ELSE /\ tables' = kept /\ committed' = kept
              /\ ingest' = [ingest EXCEPT !.pc = "committed"]
              /\ UNCHANGED <<buffer, queued, worker, ingestFaults>>
  BY DEF Finish
<1> HIDE DEF kept
<1>7. DOMAIN kept.vectors = DOMAIN kept.chunks
  BY <1>3, <1>4
<1>8. /\ tables' = kept /\ committed' = kept
      /\ ingest' = [ingest EXCEPT !.pc = "committed"]
      /\ worker' = {} /\ queued' = <<>> /\ buffer' = <<>>
  BY <1>1, <1>6, <1>7 DEF Unencoded
<1>9. /\ DOMAIN ingest' = DOMAIN ingest /\ ingest'.pc = "committed"
      /\ ingest'.rest = ingest.rest /\ ingest'.seen = ingest.seen
  BY <1>1, <1>8 DEF RunSound
<1>10. kept.documents = ingest.seen
  <2>1. /\ DOMAIN tables.documents \subseteq Natives /\ DOMAIN ingest.seen \subseteq Natives
        /\ ingest.seen \in [DOMAIN ingest.seen -> Contents]
    BY <1>1 DEF Tables, RunSound
  <2>2. \A n \in Natives :
          IF n \in DOMAIN ingest.seen
          THEN n \in DOMAIN tables.documents /\ tables.documents[n] = ingest.seen[n]
          ELSE n \in DOMAIN tables.documents <=> n \in DOMAIN committed.documents
    BY <1>1 DEF RunSound, Within
  <2>3. DOMAIN kept.documents = DOMAIN ingest.seen
    BY <1>4, <2>1, <2>2
  <2>4. \A n \in DOMAIN ingest.seen : kept.documents[n] = ingest.seen[n]
    BY <1>4, <2>1, <2>2
  <2>5. QED
    BY <1>4, <2>1, <2>3, <2>4
<1>11. RunSound'
  BY <1>1, <1>7, <1>8, <1>9, <1>10 DEF RunSound, Within
<1>12. LineSound' /\ JobsSound'
  BY <1>7, <1>8, NothingWaits
<1>13. Tables(tables)' /\ RowsOwn(tables)' /\ Tables(committed)' /\ RowsOwn(committed)'
  BY <1>5, <1>8
<1>14. QED
  BY <1>11, <1>12, <1>13 DEF IngestInv

LEMMA AgainKeeps ==
  ASSUME IngestInv, Again
  PROVE  IngestInv'
<1>1. /\ ingest' = [ingest EXCEPT !.pc = "idle", !.rest = <<>>, !.batch = 0, !.seen = <<>>]
      /\ tables' = committed /\ committed' = committed
      /\ worker' = {} /\ queued' = <<>> /\ buffer' = <<>> /\ RunSound
  BY DEF Again, IngestInv, RunSound, Within
<1>2. /\ DOMAIN ingest' = {"pc", "rest", "batch", "seen", "runs"} /\ ingest'.pc = "idle"
      /\ ingest'.rest = <<>> /\ ingest'.seen = <<>>
  BY <1>1 DEF RunSound
<1>3. RunSound'
  <2>1. DOMAIN ingest'.seen = {} /\ ingest'.seen \in [{} -> Contents]
    BY <1>2
  <2>2. ingest'.rest \in Seq(Documents)
    BY <1>2
  <2>3. QED
    BY <1>1, <1>2, <2>1, <2>2 DEF RunSound, Within
<1>4. LineSound' /\ JobsSound'
  BY <1>1, NothingWaits DEF RunSound
<1>5. Tables(tables)' /\ RowsOwn(tables)' /\ Tables(committed)' /\ RowsOwn(committed)'
  BY <1>1 DEF IngestInv
<1>6. QED
  BY <1>3, <1>4, <1>5 DEF IngestInv

LEMMA IngestStarts ==
  ASSUME IngestInit
  PROVE  IngestInv
<1>1. PICK seed \in Seeds : committed = Empty(seed)
  BY DEF IngestInit
<1>2. /\ DOMAIN committed = {"documents", "chunks", "vectors", "cache"}
      /\ committed.documents = <<>> /\ committed.chunks = <<>> /\ committed.vectors = <<>>
      /\ committed.cache = [t \in seed |-> t]
  BY <1>1 DEF Empty
<1>3. /\ DOMAIN committed.documents = {} /\ DOMAIN committed.chunks = {}
      /\ DOMAIN committed.vectors = {} /\ \A t \in DOMAIN committed.cache : committed.cache[t] = t
  BY <1>2
<1>4. Tables(committed)
  <2>1. \E n \in Nat : \A i \in DOMAIN committed.chunks : i <= n
    BY <1>3
  <2>2. /\ committed.documents \in [DOMAIN committed.documents -> Contents]
        /\ committed.chunks \in [DOMAIN committed.chunks -> ChunkRows]
    BY <1>2, <1>3
  <2>3. QED
    BY <1>2, <1>3, <2>1, <2>2 DEF Tables
<1>5. RowsOwn(committed)
  BY <1>3 DEF RowsOwn
<1>6. /\ tables = committed /\ buffer = <<>> /\ queued = <<>> /\ worker = {}
      /\ ingest = [pc |-> "idle", rest |-> <<>>, batch |-> 0, seen |-> <<>>, runs |-> 0]
  BY DEF IngestInit
<1>7. LineSound /\ JobsSound
  <2>1. \A k \in Nat : Waiting(k) = {}
    BY <1>6 DEF Waiting, ToSet
  <2>2. LineSound
    BY <1>3, <1>6, <2>1 DEF LineSound
  <2>3. JobsSound
    BY <1>6 DEF JobsSound
  <2>4. QED
    BY <2>2, <2>3
<1>8. RunSound
  <2>1. /\ DOMAIN ingest = {"pc", "rest", "batch", "seen", "runs"} /\ ingest.pc = "idle"
        /\ ingest.rest = <<>> /\ ingest.seen = <<>>
    BY <1>6
  <2>2. DOMAIN ingest.seen = {} /\ ingest.seen \in [{} -> Contents]
        /\ ingest.rest \in Seq(Documents)
    BY <2>1
  <2>3. QED
    BY <1>3, <1>6, <2>1, <2>2 DEF RunSound, Within
<1>9. QED
  BY <1>4, <1>5, <1>6, <1>7, <1>8 DEF IngestInv

LEMMA IngestStepKeeps ==
  ASSUME IngestInv, [IngestNext]_ingestVars
  PROVE  IngestInv'
<1>1. CASE UNCHANGED ingestVars
  <2>1. UNCHANGED <<committed, tables, ingest, buffer, queued, worker>>
    BY <1>1 DEF ingestVars
  <2>2. RunSound' /\ JobsSound'
    BY <2>1 DEF IngestInv, RunSound, JobsSound, JobSound, Wanted
  <2>3. LineSound'
    BY <2>1, LineStays DEF IngestInv, Waiting
  <2>4. Tables(tables)' /\ RowsOwn(tables)' /\ Tables(committed)' /\ RowsOwn(committed)'
    BY <2>1 DEF IngestInv
  <2>5. QED
    BY <2>2, <2>3, <2>4 DEF IngestInv
<1>2. CASE Begin
  BY <1>2, BeginKeeps
<1>3. CASE TakeBatch
  BY <1>3, TakeBatchKeeps
<1>4. CASE Duplicate
  BY <1>4, DuplicateKeeps
<1>5. CASE KeepRow
  BY <1>5, KeepRowKeeps
<1>6. CASE Insert
  BY <1>6, InsertKeeps
<1>7. CASE Poll
  BY <1>7, PollKeeps
<1>8. CASE Throttle
  BY <1>8, ThrottleKeeps
<1>9. CASE Drain
  BY <1>9, DrainKeeps
<1>10. CASE Encode
  BY <1>10, EncodeKeeps
<1>11. CASE Fails
  BY <1>11, FailsKeeps
<1>12. CASE Finish
  BY <1>12, FinishKeeps
<1>13. CASE Again
  BY <1>13, AgainKeeps
<1>14. CASE IngestEnded
  BY <1>1, <1>14 DEF IngestEnded
<1>15. QED
  BY <1>1, <1>2, <1>3, <1>4, <1>5, <1>6, <1>7, <1>8, <1>9, <1>10, <1>11, <1>12, <1>13, <1>14
     DEF IngestNext

LEMMA IngestInvSound == IngestInv => IngestSound
<1> SUFFICES ASSUME IngestInv PROVE IngestSound
  OBVIOUS
<1>1. ingest.pc # "conflict"
  BY DEF IngestInv, RunSound, Within
<1>2. \A i \in DOMAIN tables.vectors :
        i \in DOMAIN tables.chunks /\ tables.vectors[i] = tables.chunks[i].text
  BY DEF IngestInv, RowsOwn
<1>3. ASSUME ingest.pc = "committed"
      PROVE  /\ tables.documents = ingest.seen
             /\ \A n \in DOMAIN tables.documents : Laid(tables, n)
             /\ DOMAIN tables.vectors = DOMAIN tables.chunks
  BY <1>3 DEF IngestInv, RunSound, RowsOwn, Within
<1>4. QED
  BY <1>1, <1>2, <1>3 DEF IngestSound

\* An ingestion of a source never trips over its own jobs, and what it commits is its snapshot:
\* a document's chunks in its own order, each with the vector of its own text.
THEOREM IngestKeepsSound == IngestSpec => []IngestSound
<1>1. IngestInit => IngestInv
  BY IngestStarts
<1>2. IngestInv /\ [IngestNext]_ingestVars => IngestInv'
  BY IngestStepKeeps
<1>3. QED
  BY <1>1, <1>2, IngestInvSound, PTL DEF IngestSpec
=============================================================================
