------------------------------- MODULE VectorScan -------------------------------
(***************************************************************************)
(* The exact vector search of one source (src/ann.rs, scan_sidecar and the *)
(* structures around it; src/search.rs, vector_search): the rows that pass *)
(* the filter are scored in blocks by a pool of threads, each with a heap  *)
(* of the best so far, the heaps are merged in whatever order they become  *)
(* ready, and the winners are scored again from the database.  The mapped  *)
(* file is verified when it is opened, once; what changes it later is what *)
(* the second scoring is for.                                              *)
(***************************************************************************)
EXTENDS Naturals, Sequences, FiniteSets, SequencesExt, FiniteSetsExt

CONSTANTS
  Scores,     \* the scores of the rows for the query
  BlockSize,  \* SCAN_BLOCK_ROWS
  MaxRows, MaxLimit  \* bounds

ScanConstants ==
  /\ Scores \subseteq Nat /\ Scores # {}
  /\ BlockSize \in Nat \ {0} /\ MaxRows \in Nat \ {0} /\ MaxLimit \in Nat \ {0}

VARIABLES
  database,  \* the score of each chunk by the stored embeddings
  sidecar,   \* the rows of the mapped file
  damaged,
  eligible,  \* the chunks that pass the filter of the search
  limit,
  rows,      \* the bitmap of their rows
  blocks,    \* the blocks nobody has taken
  heaps,
  scan, hits

scanVars == <<database, sidecar, damaged, eligible, limit, rows, blocks, heaps, scan, hits>>

\* validate_manifest_ann: the ids of a source are a range without holes.
ScanInit ==
  /\ database \in UNION {[1 .. n -> Scores] : n \in 1 .. MaxRows}
  /\ sidecar = [r \in DOMAIN database |-> [id |-> r, score |-> database[r]]]
  /\ damaged = FALSE
  /\ eligible \in SUBSET DOMAIN database
  /\ limit \in 1 .. MaxLimit
  /\ rows = {} /\ blocks = {} /\ heaps = <<>>
  /\ scan = "prepare" /\ hits = <<>>

Wanted == Min({limit, Cardinality(rows)})
Block(b) == SelectSeq([k \in 1 .. BlockSize |-> b * BlockSize + k],
                      LAMBDA r : r \in DOMAIN sidecar /\ r \in rows)
-----------------------------------------------------------------------------
(* TopK *)

\* The higher score, and of two chunks with the same the one with the smaller id.
Better(a, b) == a.score > b.score \/ (a.score = b.score /\ a.id < b.id)
Sorted(heap) == SetToSortSeq(heap, Better)
Worst(heap) == Last(Sorted(heap))

\* Mutant: a tie leaves the chunk in that came first.
PushHigher(heap, hit) ==
  IF Cardinality(heap) < Wanted THEN heap \cup {hit}
  ELSE IF hit.score > Worst(heap).score THEN (heap \ {Worst(heap)}) \cup {hit} ELSE heap

Push(heap, hit) ==
  IF Cardinality(heap) < Wanted THEN heap \cup {hit}
  ELSE IF Better(hit, Worst(heap)) THEN (heap \ {Worst(heap)}) \cup {hit} ELSE heap

PushAll(heap, seq) == FoldLeft(LAMBDA h, hit : Push(h, hit), heap, seq)
-----------------------------------------------------------------------------
(* The scan *)

End(outcome, found) == scan' = outcome /\ hits' = found

\* eligible_rows: each chunk of the filter has one row.
Prepare ==
  /\ scan = "prepare"
  /\ rows' = {r \in DOMAIN sidecar : sidecar[r].id \in eligible}
  /\ blocks' = 0 .. (Len(sidecar) - 1) \div BlockSize
  /\ heaps' = <<>>
  /\ IF Cardinality(rows') # Cardinality(eligible) THEN End("refused", <<>>)
     ELSE IF eligible = {} THEN End("answered", <<>>) ELSE End("scan", <<>>)
  /\ UNCHANGED <<database, sidecar, damaged, eligible, limit>>

\* A thread takes a block, with a new heap or with one it has filled before.
Fold(b) ==
  /\ scan = "scan" /\ b \in blocks
  /\ blocks' = blocks \ {b}
  /\ LET scored == [k \in DOMAIN Block(b) |-> sidecar[Block(b)[k]]]
     IN \/ heaps' = Append(heaps, PushAll({}, scored))
        \/ \E h \in DOMAIN heaps : heaps' = [heaps EXCEPT ![h] = PushAll(@, scored)]
  /\ UNCHANGED <<database, sidecar, damaged, eligible, limit, rows, scan, hits>>

Merge(h, other) ==
  /\ scan = "scan" /\ h # other
  /\ heaps' = RemoveAt([heaps EXCEPT ![h] = PushAll(@, SetToSeq(heaps[other]))], other)
  /\ UNCHANGED <<database, sidecar, damaged, eligible, limit, rows, blocks, scan, hits>>

Finish ==
  /\ scan = "scan" /\ blocks = {} /\ Len(heaps) = 1
  /\ IF Cardinality(heaps[1]) # Wanted THEN End("refused", <<>>)
     ELSE End("rerank", Sorted(heaps[1]))
  /\ UNCHANGED <<database, sidecar, damaged, eligible, limit, rows, blocks, heaps>>

\* exact_rerank_candidates: each winner is looked up in the database.
Confirmed ==
  /\ IsInjective([k \in DOMAIN hits |-> hits[k].id])
  /\ \A k \in DOMAIN hits : hits[k].id \in DOMAIN database
                            /\ database[hits[k].id] = hits[k].score

Rerank ==
  /\ scan = "rerank"
  /\ IF Confirmed THEN End("answered", Sorted(ToSet(hits))) ELSE End("refused", <<>>)
  /\ UNCHANGED <<database, sidecar, damaged, eligible, limit, rows, blocks, heaps>>

\* The file changes under its mapping.
Damage(r, row) ==
  /\ ~damaged /\ damaged' = TRUE
  /\ scan \in {"prepare", "scan"} /\ sidecar[r] # row
  /\ sidecar' = [sidecar EXCEPT ![r] = row]
  /\ UNCHANGED <<database, eligible, limit, rows, blocks, heaps, scan, hits>>

ScanNext ==
  \/ Prepare \/ Finish \/ Rerank
  \/ \E b \in blocks : Fold(b)
  \/ \E h, other \in DOMAIN heaps : Merge(h, other)
  \/ \E r \in DOMAIN sidecar, row \in [id : 1 .. MaxRows + 1, score : Scores] : Damage(r, row)
-----------------------------------------------------------------------------
\* However the blocks are shared out and the heaps merged, a search finds the best chunks of
\* those that pass its filter, in one order, ties included; and a file that changes under the
\* search never puts a chunk at another score than the database gives it into an answer.
ScanExact ==
  scan = "answered" =>
    /\ \A k \in DOMAIN hits : database[hits[k].id] = hits[k].score
    /\ ~damaged =>
         LET best == Sorted({[id |-> c, score |-> database[c]] : c \in eligible})
         IN hits = SubSeq(best, 1, Min({limit, Len(best)}))
=============================================================================
