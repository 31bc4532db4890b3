------------------------------- MODULE ChunkPages -------------------------------
(***************************************************************************)
(* get_chunks (src/retrieval.rs): the text of the requested chunks and of  *)
(* those around them, in pages of at most so many characters.  Each page   *)
(* names the next call, with a cursor that the caller brings back; what    *)
(* the caller has in the end depends on every page, and the generation may *)
(* change between two of them.                                             *)
(***************************************************************************)
EXTENDS Naturals, Sequences, FiniteSets, SequencesExt, FiniteSetsExt

CONSTANTS
  Corpora,      \* the generations: the lengths of the chunks of each document, as served
  Limits,       \* the values of max_chars
  Around,       \* the values of before and after
  MaxRequested, \* MAX_GET_CHUNKS_IDS
  MaxQuestions, MaxSwitches,  \* bounds
  None

PageConstants ==
  /\ \A g \in DOMAIN Corpora : \A d \in DOMAIN Corpora[g] : Corpora[g][d] \in Seq(Nat)
  /\ Limits \subseteq Nat \ {0} /\ Around \subseteq Nat
  /\ {MaxRequested, MaxQuestions, MaxSwitches} \subseteq Nat

VARIABLES
  active,    \* the generation that is served
  question,  \* what the caller asks, with references of one generation
  cursor,    \* the item and the offset of the next call, or None
  pages,     \* the pages the caller has
  outcome,   \* "none", "asking", "complete" or "refused"
  questions, switches

pageVars == <<active, question, cursor, pages, outcome, questions, switches>>

Chunks(g) == UNION {{<<d, ord>> : ord \in DOMAIN Corpora[g][d]} : d \in DOMAIN Corpora[g]}
Length(g, c) == Corpora[g][c[1]][c[2]]

PageInit ==
  /\ active \in DOMAIN Corpora
  /\ question = None /\ cursor = None /\ pages = <<>> /\ outcome = "none"
  /\ questions = 0 /\ switches = 0
-----------------------------------------------------------------------------
(* The chunks of a question *)

\* chunk_ranges_in_request_order: the chunks around the k-th reference.
Near(q, k) ==
  LET c == q.chunks[k]
      ords == {o \in DOMAIN Corpora[active][c[1]] : o + q.before >= c[2] /\ o <= c[2] + q.after}
  IN [i \in 1 .. Cardinality(ords) |-> <<c[1], SetToSortSeq(ords, <)[i]>>]

\* A chunk that is asked for by itself waits for its turn; each comes once.
Later(q, c, k) == c \in ToSet(q.chunks) /\ SelectInSeq(q.chunks, LAMBDA x : x = c) > k
Add(q, stored, k) ==
  stored \o SelectSeq(Near(q, k), LAMBDA c : c \notin ToSet(stored) /\ ~Later(q, c, k))
Stored(q) == FoldLeft(LAMBDA s, k : Add(q, s, k), <<>>, [k \in DOMAIN q.chunks |-> k])
-----------------------------------------------------------------------------
(* A page *)

\* One more chunk: as much of it as there is room for.
Read(q, page, index) ==
  LET c == Stored(q)[index]
      start == IF index = cursor.item THEN cursor.offset ELSE 0
      take == Min({Length(active, c) - start, q.limit - page.chars})
      chars == page.chars + take
  IN IF page.next # None \/ start = Length(active, c) THEN page
     ELSE [pieces |-> Append(page.pieces, [chunk |-> c, start |-> start, take |-> take]),
           chars |-> chars,
           next |-> IF start + take < Length(active, c)
                    THEN [item |-> index, offset |-> start + take]
                    ELSE IF chars = q.limit /\ index < Len(Stored(q))
                         THEN [item |-> index + 1, offset |-> 0] ELSE None]

Page(q) ==
  FoldLeft(LAMBDA page, index : Read(q, page, index),
           [pieces |-> <<>>, chars |-> 0, next |-> None],
           [i \in 1 .. Len(Stored(q)) - cursor.item + 1 |-> cursor.item + i - 1])

\* The caller asks for chunks it has seen in the generation that is served.
Ask ==
  /\ outcome # "asking" /\ questions < MaxQuestions /\ questions' = questions + 1
  /\ \E n \in 1 .. MaxRequested : \E chunks \in [1 .. n -> Chunks(active)] :
       \E before, after \in Around, limit \in Limits :
         question' = [generation |-> active, chunks |-> chunks, before |-> before,
                      after |-> after, limit |-> limit]
  /\ cursor' = [item |-> 1, offset |-> 0] /\ pages' = <<>> /\ outcome' = "asking"
  /\ UNCHANGED <<active, switches>>

\* validate_chunk_ref: a reference of another generation is refused, whatever the cursor.
Turn ==
  /\ outcome = "asking" /\ question.generation = active
  /\ LET page == Page(question)
     IN /\ pages' = Append(pages, page.pieces)
        /\ cursor' = page.next
        /\ outcome' = IF page.next = None THEN "complete" ELSE "asking"
  /\ UNCHANGED <<active, question, questions, switches>>

Refuse ==
  /\ outcome = "asking" /\ question.generation # active
  /\ outcome' = "refused" /\ cursor' = None
  /\ UNCHANGED <<active, question, pages, questions, switches>>

Switch(g) ==
  /\ g # active /\ switches < MaxSwitches /\ switches' = switches + 1
  /\ active' = g
  /\ UNCHANGED <<question, cursor, pages, outcome, questions>>

PageNext == Ask \/ Turn \/ Refuse \/ \E g \in DOMAIN Corpora : Switch(g)
-----------------------------------------------------------------------------
(* What the caller has *)

Characters(piece) == [i \in 1 .. piece.take |-> <<piece.chunk, piece.start + i>>]
Whole(g, c) == [i \in 1 .. Length(g, c) |-> <<c, i>>]
FirstPlace(chunks, c) == SelectInSeq(chunks, LAMBDA x : x = c)

\* The pages of a question are together the whole text of the chunks that it names and of
\* those around them, each character once and in place; every page but the last is full, so
\* that they come to an end; and the chunks that are named come in the order they are named
\* in (retrieval.rs get_chunks_from_cursor).
PagesComplete ==
  /\ \A i \in DOMAIN pages :
       LET chars == Len(FlattenSeq([p \in DOMAIN pages[i] |-> Characters(pages[i][p])]))
       IN chars <= question.limit
          /\ (i < Len(pages) \/ outcome = "asking" => chars = question.limit)
  /\ (outcome = "complete" /\ question.generation = active) =>
       LET text == FlattenSeq([i \in DOMAIN pages |->
                     FlattenSeq([p \in DOMAIN pages[i] |-> Characters(pages[i][p])])])
           chunks == Stored(question)
       IN /\ text = FlattenSeq([i \in DOMAIN chunks |-> Whole(active, chunks[i])])
          /\ ToSet(chunks) =
               UNION {ToSet(Near(question, k)) : k \in DOMAIN question.chunks}
          /\ \A j, k \in DOMAIN question.chunks :
               j < k /\ question.chunks[k] \notin ToSet(SubSeq(question.chunks, 1, j)) =>
                 FirstPlace(chunks, question.chunks[j]) < FirstPlace(chunks, question.chunks[k])
=============================================================================
