------------------------------ MODULE SearchRanking ------------------------------
(***************************************************************************)
(* What a search makes of its two rankings (src/search.rs, search_inner):  *)
(* the chunks that the vectors and the words of the query find are fused   *)
(* by rank, grouped by document, cut to so many chunks of each, sorted and *)
(* cut again; the answer names the call that asks for more.                *)
(***************************************************************************)
EXTENDS Integers, Sequences, FiniteSets, SequencesExt, FiniteSetsExt

CONSTANTS
  Catalogue,      \* the chunks of the source: their document and whether they are intros
  Dates,          \* the date of each document, or 0
  Requested,      \* the values of k
  MaxPerDocument, \* DEFAULT_MAX_PER_DOC
  MaxK,           \* MAX_K
  Widening,       \* how many candidates each ranking gives for every hit
  MinCandidates,  \* and at least
  RankConstant,   \* RRF_K
  None

RankingConstants ==
  /\ \A c \in DOMAIN Catalogue : Catalogue[c].document \in DOMAIN Dates
  /\ Requested \subseteq Nat \ {0}
  /\ {MaxPerDocument, MaxK, Widening, MinCandidates, RankConstant} \subseteq Nat \ {0}

VARIABLES
  request,   \* mode, k, sort_by and the seed chunk
  rankings,  \* what the vectors and the words have found
  ranked,    \* the candidates, with scores
  deduped,   \* those that are left of each document
  answer,    \* the hits and what is said of those that are left out
  ranking    \* the stage

rankingVars == <<request, rankings, ranked, deduped, answer, ranking>>

Chunks == DOMAIN Catalogue
Clamped(k) == Min({k, MaxK})
InternalLimit == Max({Clamped(request.k) * Widening, MinCandidates})

\* The seed chunk of a search by example is left out of its own results, after the scan; such
\* a search has no words.
ModesOf(seed) == IF seed = None THEN {"hybrid", "vector", "keyword"} ELSE {"vector"}

RankingInit ==
  /\ request \in {[mode |-> m, k |-> k, sort |-> s, seed |-> None] :
                    m \in ModesOf(None), k \in Requested, s \in {"relevance", "recency"}}
                 \cup {[mode |-> "vector", k |-> k, sort |-> "relevance", seed |-> c] :
                         k \in Requested, c \in Chunks}
  /\ rankings = [vector |-> <<>>, lexical |-> <<>>]
  /\ ranked = <<>> /\ deduped = <<>> /\ answer = None /\ ranking = "retrieve"
-----------------------------------------------------------------------------
(* Candidates *)

Orders(found) == {s \in [1 .. Cardinality(found) -> found] : IsInjective(s)}
First(s, n) == SubSeq(s, 1, Min({n, Len(s)}))
Without(s, seed) == SelectSeq(s, LAMBDA c : c # seed)

\* The vectors rank every chunk that passes the filter, the words those that hold them all.
Retrieve ==
  /\ ranking = "retrieve" /\ ranking' = "fuse"
  /\ \E eligible \in SUBSET Chunks : \E worded \in SUBSET eligible :
       \E byVector \in Orders(eligible), byWords \in Orders(worded) :
         rankings' =
           [vector |-> IF request.mode = "keyword" THEN <<>>
                       ELSE Without(First(byVector, InternalLimit), request.seed),
            lexical |-> IF request.mode = "vector" THEN <<>> ELSE First(byWords, InternalLimit)]
  /\ UNCHANGED <<request, ranked, deduped, answer>>

\* 1 / (K + rank), over a denominator that all ranks share.
Denominator ==
  LET P[n \in 0 .. Cardinality(Chunks)] == IF n = 0 THEN 1 ELSE (RankConstant + n) * P[n - 1]
  IN P[Cardinality(Chunks)]
Points(s, c) ==
  LET rank == SelectInSeq(s, LAMBDA x : x = c)
  IN IF rank = 0 THEN 0 ELSE Denominator \div (RankConstant + rank)

Score(c) == Points(rankings.vector, c) + Points(rankings.lexical, c)
Higher(a, b) == Score(a) > Score(b) \/ (Score(a) = Score(b) /\ a < b)

\* rrf_fuse, or the only ranking there is, whose order its own scores have made.
Fuse ==
  /\ ranking = "fuse" /\ ranking' = "dedup"
  /\ ranked' = SetToSortSeq(ToSet(rankings.vector) \cup ToSet(rankings.lexical), Higher)
  /\ UNCHANGED <<request, rankings, deduped, answer>>
-----------------------------------------------------------------------------
(* dedup_per_doc *)

Intro(c) == Catalogue[c].intro
Document(c) == Catalogue[c].document
Candidates == ToSet(ranked)
Documents == {Document(c) : c \in Candidates}

\* The candidates of a document: the others before the intros, by score.
OfDocument(d) ==
  SetToSortSeq({c \in Candidates : Document(c) = d},
               LAMBDA a, b : IF Intro(a) = Intro(b) THEN Higher(a, b) ELSE Intro(b))
DocumentScore(d) == Max({Score(c) : c \in ToSet(First(OfDocument(d), 3))})
DocumentOrder ==
  SetToSortSeq(Documents, LAMBDA d, e : DocumentScore(d) > DocumentScore(e)
                                        \/ (DocumentScore(d) = DocumentScore(e) /\ d < e))

Frontier == IF request.sort = "relevance" THEN Clamped(request.k) ELSE InternalLimit

Take(out, d) == out \o First(OfDocument(d), Min({MaxPerDocument, Frontier - Len(out)}))

Dedup ==
  /\ ranking = "dedup" /\ ranking' = "answer"
  /\ deduped' = FoldLeft(LAMBDA out, d : Take(out, d), <<>>, DocumentOrder)
  /\ UNCHANGED <<request, rankings, ranked, answer>>

Newer(a, b) ==
  LET d == Document(a)
      e == Document(b)
  IN Dates[d] > Dates[e] \/ (Dates[d] = Dates[e] /\ (d < e \/ (d = e /\ a < b)))

\* The hits, and the call for twice as many when some candidates are left out.
Answer ==
  /\ ranking = "answer" /\ ranking' = "done"
  /\ LET hits == IF request.sort = "relevance" THEN deduped
                 ELSE First(SetToSortSeq(ToSet(deduped), Newer), Clamped(request.k))
         more == Len(ranked) > Len(hits)
     IN answer' = [hits |-> hits, truncated |-> more,
                   next |-> IF more /\ Clamped(request.k) < MaxK
                            THEN Min({2 * Clamped(request.k), MaxK}) ELSE None]
  /\ UNCHANGED <<request, rankings, ranked, deduped>>

\* The caller makes the call that the answer names.
More ==
  /\ ranking = "done" /\ answer.next # None
  /\ request' = [request EXCEPT !.k = answer.next]
  /\ rankings' = [vector |-> <<>>, lexical |-> <<>>]
  /\ ranked' = <<>> /\ deduped' = <<>> /\ answer' = None /\ ranking' = "retrieve"

RankingNext == Retrieve \/ Fuse \/ Dedup \/ Answer \/ More
-----------------------------------------------------------------------------
Shown == ToSet(answer.hits)
Hidden == Candidates \ Shown
OfShown(d) == {c \in Shown : Document(c) = d}

\* No document crowds the others out, and none loses its place: at most so many chunks of
\* each; a document with room left shows all it has, unless the answer is full; by relevance
\* its intro never stands where another chunk could (by date it may: the chunks of one day go
\* by their number), and what both rankings put first comes first.  By date, nothing newer
\* than a hit is left out but what the cut by relevance has left out.
RankingSound ==
  ranking = "done" =>
    /\ Len(answer.hits) <= Clamped(request.k) /\ request.seed \notin Shown
    /\ Cardinality(Shown) = Len(answer.hits)
    /\ \A d \in Documents : Cardinality(OfShown(d)) <= MaxPerDocument
    /\ \A c \in Hidden :
         \/ Len(answer.hits) = Clamped(request.k)
         \/ Cardinality(OfShown(Document(c))) = MaxPerDocument
    /\ \A c \in Hidden : ~Intro(c) /\ request.sort = "relevance" =>
         \A x \in OfShown(Document(c)) : ~Intro(x)
    /\ (request.mode = "hybrid" /\ request.sort = "relevance"
        /\ rankings.vector # <<>> /\ rankings.lexical # <<>>
        /\ Head(rankings.vector) = Head(rankings.lexical)) =>
         /\ Document(answer.hits[1]) = Document(Head(rankings.vector))
         /\ ~Intro(Head(rankings.vector)) => answer.hits[1] = Head(rankings.vector)
    /\ request.sort = "recency" =>
         /\ \A i, j \in DOMAIN answer.hits :
              i < j => Dates[Document(answer.hits[i])] >= Dates[Document(answer.hits[j])]
         /\ \A c \in ToSet(deduped) \ Shown, x \in Shown :
              Dates[Document(c)] <= Dates[Document(x)]
    /\ answer.truncated = (Hidden # {})
=============================================================================
