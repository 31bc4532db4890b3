--------------------------- MODULE MCCorpusServer ---------------------------
(***************************************************************************)
(* CorpusServer for TLC: every thread belongs to the one server process,   *)
(* and threads and generations are interchangeable.                        *)
(***************************************************************************)
EXTENDS CorpusServer, TLC

OneServer == CHOOSE s \in Servers : TRUE
Owners == [t \in Threads |-> OneServer]
LockDescriptors == (Servers \X {"verify"}) \cup (Threads \X {"call", "search"})

Interchangeable == Permutations(Keys) \cup Permutations(Threads)
=============================================================================
