---------------------------- MODULE CorpusServer ----------------------------
(***************************************************************************)
(* `legal-mcp serve` against the generation store: how a process binds     *)
(* itself to the active generation at startup, and how each tool call      *)
(* reads the corpus under LOCK, while lifecycle commands, kills and power  *)
(* losses of GenerationStore go on around it.                              *)
(*                                                                         *)
(* Every artifact is found through live_dir(), which reads the pointer     *)
(* afresh: one call resolves it several times, and startup resolves it     *)
(* outside any lock.                                                       *)
(***************************************************************************)
EXTENDS GenerationStore

CONSTANTS
  Threads,  \* HTTP worker threads
  Owner     \* the server process of each thread

ASSUME ServerConstants ==
  /\ Owner \in [Threads -> Servers]
  /\ Descriptors = (Servers \X {"verify"}) \cup (Threads \X {"call", "search"})

VARIABLES
  phase,        \* how far each server process has started
  hosted,       \* started with --require-ready-corpus
  required,     \* the generation verified and described in the instructions
  generation,   \* ServerState.corpus_generation
  loaded,       \* generations the semantic model and tokenizer came from
  ready,        \* ServerState.ready
  interrupted,  \* history: another generation was active since the seal
  call, kind,   \* per thread: the step of its tool call, and the tool
  seen          \* per thread: generations the call has resolved so far

serverVars == <<phase, hosted, required, generation, loaded, ready, interrupted>>
callVars   == <<call, kind, seen>>
vars       == <<storeVars, serverVars, callVars>>

Phases == {"down", "verify", "verifying", "capture", "seal", "compare", "model",
           "tokenizer", "recheck", "up"}
Steps  == {"idle", "lock", "ensure", "relock", "resolve", "db", "lexical", "vector", "encode",
           "answer"}

\* The part of the store a reader leaves alone.
Untouched == UNCHANGED <<diskVars, issued, pc, commandVars>>

FdsOf(s) == {<<s, "verify">>} \cup {<<t, f>> : t \in {u \in Threads : Owner[u] = s},
                                              f \in {"call", "search"}}

\* A mutation: only the key is compared, not the sealed database.
KeyUnchanged(s) == ~Dangling /\ pointer = generation[s]

\* ServerState::ensure_corpus_generation_unchanged, LiveDbSeal::verify included.
Unchanged(s) ==
  /\ ~Dangling
  /\ pointer = generation[s]
  /\ generation[s] # NoGeneration => seal[s].intact

-----------------------------------------------------------------------------
(* Startup.                                                                 *)

To(s, next) == phase' = [phase EXCEPT ![s] = next]

\* The process exits: its descriptors close and its calls vanish.
Exit(s) ==
  /\ To(s, "down")
  /\ UnlockShared(FdsOf(s))
  /\ seal' = [seal EXCEPT ![s] = NoSeal]
  /\ ready' = [ready EXCEPT ![s] = FALSE]
  /\ call' = [t \in Threads |-> IF Owner[t] = s THEN "idle" ELSE call[t]]
  /\ UNCHANGED <<hosted, required, generation, loaded, interrupted, kind, seen>>
  /\ Untouched

\* Reading the key to verify.  Hosted startup refuses to go on without one.
StartServer(s) ==
  /\ phase[s] = "down"
  /\ ~Dangling
  /\ \E h \in BOOLEAN :
       /\ h => pointer # NoGeneration
       /\ hosted' = [hosted EXCEPT ![s] = h]
  /\ required' = [required EXCEPT ![s] = pointer]
  /\ generation' = [generation EXCEPT ![s] = NoGeneration]
  /\ loaded' = [loaded EXCEPT ![s] = {}]
  /\ interrupted' = [interrupted EXCEPT ![s] = FALSE]
  /\ To(s, IF pointer = NoGeneration THEN "capture" ELSE "verify")
  /\ UNCHANGED <<ready, seal, lockVars, callVars>>
  /\ Untouched

VerifyLock(s) ==
  /\ phase[s] = "verify"
  /\ LockShared(<<s, "verify">>)
  /\ To(s, "verifying")
  /\ UNCHANGED <<hosted, required, generation, loaded, ready, interrupted, seal, callVars>>
  /\ Untouched

\* verify_active_generation_startup.  Without --require-ready-corpus a failure
\* leaves the server unready, its instructions describing no generation.
Verify(s) ==
  /\ phase[s] = "verifying"
  /\ LET good == pointer = required[s] /\ installed[pointer] = pointer /\ pointer \in sealed
     IN  IF hosted[s] /\ ~good THEN Exit(s)
         ELSE /\ UnlockShared({<<s, "verify">>})
              /\ To(s, "capture")
              /\ required' = IF good THEN required ELSE [required EXCEPT ![s] = NoGeneration]
              /\ UNCHANGED <<hosted, generation, loaded, ready, interrupted, seal, callVars>>
              /\ Untouched

\* ServerState::new: the pointer is read once for the key ...
CaptureGeneration(s) ==
  /\ phase[s] = "capture"
  /\ generation' = [generation EXCEPT ![s] = IF Resolves THEN pointer ELSE NoGeneration]
  /\ To(s, "seal")
  /\ UNCHANGED <<hosted, required, loaded, ready, interrupted, seal, lockVars, callVars>>
  /\ Untouched

\* ... and once more for the database to seal.
CaptureDatabase(s) ==
  /\ phase[s] = "seal"
  /\ CaptureSeal(s)
  /\ To(s, "compare")
  /\ UNCHANGED <<hosted, required, generation, loaded, ready, interrupted, lockVars, callVars>>
  /\ Untouched

\* A mutation: the verified key is not compared with the captured one.
CompareUnverified(s) ==
  /\ phase[s] = "compare"
  /\ IF hosted[s] /\ ~Unchanged(s) THEN Exit(s)
     ELSE /\ To(s, "model")
          /\ UNCHANGED <<hosted, required, generation, loaded, ready, interrupted, seal,
                         lockVars, callVars>>
          /\ Untouched

\* The hosted comparison with the verified key, and the first of two checks
\* around the loading of the model.
Compare(s) ==
  /\ phase[s] = "compare"
  /\ IF hosted[s] /\ ~(generation[s] = required[s] /\ Unchanged(s)) THEN Exit(s)
     ELSE /\ To(s, IF required[s] = NoGeneration THEN "up" ELSE "model")
          /\ UNCHANGED <<hosted, required, generation, loaded, ready, interrupted, seal,
                         lockVars, callVars>>
          /\ Untouched

\* SemanticModelPaths::live resolves the pointer once for each file.
LoadModel(s) ==
  /\ phase[s] \in {"model", "tokenizer"}
  /\ IF Resolves /\ installed[pointer] = pointer
     THEN /\ loaded' = [loaded EXCEPT ![s] = @ \cup {pointer}]
          /\ To(s, IF phase[s] = "model" THEN "tokenizer" ELSE "recheck")
          /\ UNCHANGED <<hosted, required, generation, ready, interrupted, seal, lockVars,
                         callVars>>
          /\ Untouched
     ELSE Exit(s)

Recheck(s) ==
  /\ phase[s] = "recheck"
  /\ IF hosted[s] /\ ~Unchanged(s) THEN Exit(s)
     ELSE /\ To(s, "up")
          /\ ready' = [ready EXCEPT ![s] = TRUE]
          /\ UNCHANGED <<hosted, required, generation, loaded, interrupted, seal, lockVars,
                         callVars>>
          /\ Untouched

Crash(s) == phase[s] # "down" /\ Exit(s)

-----------------------------------------------------------------------------
(* Tool calls.                                                              *)

GotoStep(t, step) == call' = [call EXCEPT ![t] = step]

\* The call returns, with an answer or an error; both its locks are dropped.
EndCall(t) ==
  /\ GotoStep(t, "idle")
  /\ UnlockShared({<<t, "call">>, <<t, "search">>})
  /\ UNCHANGED <<kind, seen, seal, serverVars>>
  /\ Untouched

BeginCall(t) ==
  /\ phase[Owner[t]] = "up"
  /\ call[t] = "idle"
  /\ GotoStep(t, "lock")
  /\ \E tool \in {"search", "retrieve"} : kind' = [kind EXCEPT ![t] = tool]
  /\ seen' = [seen EXCEPT ![t] = {}]
  /\ UNCHANGED <<lockVars, seal, serverVars>>
  /\ Untouched

\* A mutation: a pending exclusive request holds up new shared ones.
LockCorpusBehindWriter(t) ==
  /\ \A a \in Admins : pc[a] # "corpus"
  /\ LockShared(<<t, IF call[t] = "lock" THEN "call" ELSE "search">>)

\* A mutation: tool calls do without the lock.
LockCorpusSkipped(t) == UNCHANGED lockVars

\* config::corpus_read_lock, taken by call_tool and again by search_inner on a
\* descriptor of its own.
LockCorpus(t) == LockShared(<<t, IF call[t] = "lock" THEN "call" ELSE "search">>)

TakeReadLock(t) ==
  /\ call[t] \in {"lock", "relock"}
  /\ LockCorpus(t)
  /\ GotoStep(t, IF call[t] = "lock" THEN "ensure" ELSE "resolve")
  /\ UNCHANGED <<kind, seen, seal, serverVars>>
  /\ Untouched

Ensure(t) ==
  /\ call[t] = "ensure"
  /\ IF Unchanged(Owner[t])
     THEN /\ GotoStep(t, IF kind[t] = "search" THEN "relock" ELSE "db")
          /\ UNCHANGED <<kind, seen, lockVars, seal, serverVars>>
          /\ Untouched
     ELSE EndCall(t)

\* search_inner labels its hits with the pointer's key and checks again.
Resolve(t) ==
  /\ call[t] = "resolve"
  /\ IF Resolves /\ Unchanged(Owner[t])
     THEN /\ seen' = [seen EXCEPT ![t] = @ \cup {pointer}]
          /\ GotoStep(t, "db")
          /\ UNCHANGED <<kind, lockVars, seal, serverVars>>
          /\ Untouched
     ELSE EndCall(t)

\* legal.db, then for a search the lexical sidecar and the vectors: each is
\* opened through live_dir().
Read(t) ==
  /\ call[t] \in {"db", "lexical", "vector"}
  /\ IF Resolves /\ installed[pointer] = pointer
     THEN /\ seen' = [seen EXCEPT ![t] = @ \cup {pointer}]
          /\ GotoStep(t, CASE kind[t] = "retrieve"  -> "answer"
                           [] call[t] = "db"        -> "lexical"
                           [] call[t] = "lexical"   -> "vector"
                           [] call[t] = "vector"    -> "encode")
          /\ UNCHANGED <<kind, lockVars, seal, serverVars>>
          /\ Untouched
     ELSE EndCall(t)

\* The query is embedded with the model of the process, loaded on first use.
Encode(t) ==
  /\ call[t] = "encode"
  /\ LET s == Owner[t]
     IN  loaded' = IF loaded[s] = {} THEN [loaded EXCEPT ![s] = {pointer}] ELSE loaded
  /\ GotoStep(t, "answer")
  /\ UNCHANGED <<phase, hosted, required, generation, ready, interrupted, kind, seen, lockVars,
                 seal>>
  /\ Untouched

Answer(t) == call[t] = "answer" /\ EndCall(t)

-----------------------------------------------------------------------------
ServerInit ==
  /\ Init
  /\ phase = [s \in Servers |-> "down"]
  /\ hosted = [s \in Servers |-> FALSE]
  /\ required = [s \in Servers |-> NoGeneration]
  /\ generation = [s \in Servers |-> NoGeneration]
  /\ loaded = [s \in Servers |-> {}]
  /\ ready = [s \in Servers |-> FALSE]
  /\ interrupted = [s \in Servers |-> FALSE]
  /\ call = [t \in Threads |-> "idle"]
  /\ kind = [t \in Threads |-> "retrieve"]
  /\ seen = [t \in Threads |-> {}]

\* A step of the store as the servers undergo it.
StoreStep ==
  /\ \/ \E a \in Admins : Issue(a) \/ Command(a) \/ Kill(a)
     \/ \E p \in Paths : Build(p)
  /\ interrupted' = [s \in Servers |->
       interrupted[s] \/ (seal[s] # NoSeal /\ pointer' # generation[s])]
  /\ UNCHANGED <<phase, hosted, required, generation, loaded, ready, callVars>>

Blackout ==
  /\ PowerLoss
  /\ phase' = [s \in Servers |-> "down"]
  /\ ready' = [s \in Servers |-> FALSE]
  /\ call' = [t \in Threads |-> "idle"]
  /\ UNCHANGED <<hosted, required, generation, loaded, interrupted, kind, seen>>

Startup(s) ==
  \/ VerifyLock(s) \/ Verify(s) \/ CaptureGeneration(s) \/ CaptureDatabase(s)
  \/ Compare(s) \/ LoadModel(s) \/ Recheck(s)

CallStep(t) ==
  TakeReadLock(t) \/ Ensure(t) \/ Resolve(t) \/ Read(t) \/ Encode(t) \/ Answer(t)

ServerNext ==
  \/ StoreStep
  \/ Blackout
  \/ \E s \in Servers : StartServer(s) \/ Startup(s) \/ Crash(s)
  \/ \E t \in Threads : BeginCall(t) \/ CallStep(t)

ServerSpec == ServerInit /\ [][ServerNext]_vars
-----------------------------------------------------------------------------
(* Properties.                                                              *)

Answering(t) == call[t] = "answer"

\* However often a tool call resolves the pointer, everything it read comes
\* from the one generation its server was started on, still complete.
AnswersCoherent ==
  \A t \in Threads : Answering(t) =>
    LET g == generation[Owner[t]] IN seen[t] = {g} /\ installed[g] = g /\ g \in sealed

\* Hosted startup reads the pointer three times without a lock; a server that
\* got through it answers from the generation it verified and described.
HostedInstructionsMatch ==
  \A t \in Threads : Answering(t) /\ hosted[Owner[t]] =>
    required[Owner[t]] = generation[Owner[t]]

SealedOwn(s) == seal[s].key = generation[s]

\* The model and the tokenizer are loaded outside the lock; a search is still
\* answered with those of the generation it reads.  (When the pointer moved
\* away and back between the two reads of ServerState::new, the seal is on
\* another database and this is not guaranteed.)
ModelCoherent ==
  \A t \in Threads :
    Answering(t) /\ kind[t] = "search" /\ SealedOwn(Owner[t]) =>
      loaded[Owner[t]] = {generation[Owner[t]]}

\* A server that lost its generation never answers again, even when the
\* pointer has come back to it (rollback moves the ctime the seal compares).
NoAnswerAfterInterruption ==
  \A t \in Threads :
    Answering(t) /\ SealedOwn(Owner[t]) => ~interrupted[Owner[t]]

\* Once a tool call has LOCK it is never held up: taking it shared a second time
\* inside search does not wait for a command that waits for the first.
CallsProceed == \A t \in Threads : call[t] \notin {"idle", "lock"} => ENABLED CallStep(t)
=============================================================================
