-------------------------- MODULE ActiveGeneration --------------------------
(***************************************************************************)
(* What the generation store promises to the processes that read it: a     *)
(* register naming the active generation, whose value is always a complete *)
(* read-only generation, switched in one step, and which a power loss sets *)
(* back at most to a value it held since it was last settled on disk.      *)
(***************************************************************************)
CONSTANTS Keys, NoGeneration

VARIABLES
  active,     \* the generation readers are served from
  available,  \* generations that are installed, complete and read-only
  fallback    \* the values a power loss may leave in `active`

abstractVars == <<active, available, fallback>>

Start == active = NoGeneration /\ available = {} /\ fallback = {NoGeneration}

Install(k) ==
  /\ available' = available \cup {k}
  /\ UNCHANGED <<active, fallback>>

Discard(k) ==
  /\ k # active
  /\ available' = available \ {k}
  /\ UNCHANGED <<active, fallback>>

Switch(k) ==
  /\ k \in available \cup {NoGeneration}
  /\ active' = k
  /\ fallback' = fallback \cup {k}
  /\ UNCHANGED available

Settle ==
  /\ fallback' = {active}
  /\ UNCHANGED <<active, available>>

Crash ==
  /\ active' \in fallback
  /\ fallback' = {active'}
  /\ available' \in SUBSET Keys  \* an unsettled install lost, a discard undone
  /\ active' \in available' \cup {NoGeneration}

Step ==
  \/ \E k \in Keys : Install(k) \/ Discard(k)
  \/ \E k \in Keys \cup {NoGeneration} : Switch(k)
  \/ Settle
  \/ Crash

ActiveSpec == Start /\ [][Step]_abstractVars
=============================================================================
