----------------------------- MODULE MCAcquisition -----------------------------
(* The three formats of a source workspace, one at a time: that of the court and State
   adapters, the Federal Register's and the Taxation Office's. *)
EXTENDS SourceWorkspace, FrlAcquisition, AtoAcquisition, TLC

CONSTANT Adapters  \* the acquisitions that are checked

\* The documents have the same images.
SharedImages == [d \in Docs |-> Assets]
\* Every document is in a folder of its own.
FolderPerId == {{d} : d \in Ids}
\* The threads of a download are alike, and so are the documents of a court.
Symmetry == Permutations(Workers) \cup Permutations(Docs)

ASSUME AcquisitionConstants == WorkspaceConstants /\ FrlConstants /\ AtoConstants

VARIABLE adapter

vars == <<adapter, workspaceVars, frlVars, atoVars>>

Official(step) == adapter = "official" /\ step /\ UNCHANGED <<adapter, frlVars, atoVars>>
Frl(step) == adapter = "frl" /\ step /\ UNCHANGED <<adapter, workspaceVars, atoVars>>
Ato(step) == adapter = "ato" /\ step /\ UNCHANGED <<adapter, workspaceVars, frlVars>>

\* Those that are not checked stay where they started.
Init ==
  /\ adapter \in Adapters
  /\ WorkspaceInit /\ FrlInit /\ AtoInit
  /\ adapter # "official" => upstream = [d \in Docs |-> 0]
  /\ adapter # "frl" => frlState = FirstState(CHOOSE w \in Workspaces : TRUE)
  /\ adapter # "ato" => index = Nowhere /\ published = [d \in Ids |-> 0]

Next == Official(WorkspaceNext) \/ Frl(FrlNext) \/ Ato(AtoNext)

Spec == Init /\ [][Next]_vars
=============================================================================
