------------------------------- MODULE Chunker -------------------------------
(***************************************************************************)
(* How src/chunker.rs packs the blocks of a document into chunks, and how  *)
(* the ingestion finds the chunks that the links within the document lead  *)
(* to: headings are held until a block follows them, blocks are packed up  *)
(* to a limit that is estimated from their words, blocks beyond it are cut *)
(* into rows, sentences or words, and what the tokenizer then counts as    *)
(* too long is cut again, the headings repeated before each piece.         *)
(*                                                                         *)
(* A word stands for what the last cut cannot divide, a character; a       *)
(* marker is one word or several, and "glued" are all but its first.  The  *)
(* rows of a table end like sentences; they have none.                     *)
(***************************************************************************)
EXTENDS Naturals, Sequences, SequencesExt, FiniteSets, FiniteSetsExt

CONSTANTS
  Shapes,       \* the shapes of blocks: a function from their names to records
  MaxBlocks,    \* bound: the blocks of a document
  MaxTokens,    \* EMBED_MAX_TOKENS
  PrefixTokens  \* the tokens of the prefix that every text is embedded with

\* What TLC is to assume of the constants.
ChunkerConstants ==
  /\ \A name \in DOMAIN Shapes :
       /\ Shapes[name].kind \in {"heading", "prose", "table"}
       /\ Shapes[name].anchor \in {"none", "linked", "marked", "unlinked"}
       /\ Shapes[name].anchor = "unlinked" => Shapes[name].kind = "heading"
       /\ Shapes[name].words # <<>> /\ ~Head(Shapes[name].words).glued
       /\ \A i \in DOMAIN Shapes[name].words : Shapes[name].words[i].tokens \in Nat
  /\ {MaxBlocks, PrefixTokens} \subseteq Nat /\ MaxTokens \in Nat \ {0}

VARIABLES
  document,  \* the shapes of its blocks
  stage,     \* "attach", "pack", "limit", "stored" or "failed"
  done,      \* how many blocks, units or packed chunks were dealt with in this stage
  pending,   \* the headings that wait for a block
  units,     \* the blocks with the headings before them
  current,   \* the units of the chunk that is being packed
  packed,    \* the packed chunks
  chunks     \* the chunks of the document

vars == <<document, stage, done, pending, units, current, packed, chunks>>
--------------------------------------------------------------------------------
\* A word is named by its block and its place there.
Shape(block) == Shapes[document[block]]
WordsOf(block) == [j \in DOMAIN Shape(block).words |-> <<block, j>>]
At(word) == Shape(word[1]).words[word[2]]
Glued(word) == At(word).glued

Tokens(text) == FoldSeq(LAMBDA word, sum : At(word).tokens + sum, 0, text)
Embedded(text) == PrefixTokens + Tokens(text)
Fits(text) == Embedded(text) <= MaxTokens

\* chunker_approx_tokens: 1.3 tokens a word, at least one.
Approx(count) == Max({1, (count * 13) \div 10})

\* The places a text may be cut at without dividing a marker, and a text cut into pieces.
Boundaries(text) == {i \in DOMAIN text : i = Len(text) \/ ~Glued(text[i + 1])}
Cut(text, Next(_)) ==
  LET pieces[from \in 1 .. Len(text) + 1] ==
        IF from > Len(text) THEN <<>>
        ELSE LET n == Next(SubSeq(text, from, Len(text)))
             IN <<SubSeq(text, from, from + n - 1)>> \o pieces[from + n]
  IN pieces[1]
--------------------------------------------------------------------------------
(* Blocks beyond the estimate.                                              *)

\* chunker_enforce_max_tokens: a run of words that stays clear of the limit; a marker at its
\* end is left to the next run, or taken whole when the run is nothing else.
WordRun(max, text) ==
  LET target == Max({1, (max * 10) \div 14})
      before == {i \in Boundaries(text) : i <= target}
  IN IF Len(text) <= target THEN Len(text)
     ELSE IF before # {} THEN Max(before) ELSE Min(Boundaries(text))

EnforceMaxTokens(max, text) ==
  IF Approx(Len(text)) <= max THEN <<text>> ELSE Cut(text, LAMBDA rest : WordRun(max, rest))

\* chunker_sentence_split, or the rows of a table that is too long by itself; and as many of
\* them as the estimates allow.
Sentences(text) ==
  IF Shape(text[1][1]).kind = "table" /\ Approx(Len(text)) <= MaxTokens THEN <<text>>
  ELSE Cut(text, LAMBDA rest : Min({i \in DOMAIN rest : i = Len(rest) \/ At(rest[i]).ends}))
Packed(max, parts) ==
  FoldLeft(LAMBDA acc, part :
             IF acc.text # <<>> /\ acc.tokens + Approx(Len(part)) > max
               THEN [text |-> part, tokens |-> Approx(Len(part)), out |-> Append(acc.out, acc.text)]
               ELSE [text |-> acc.text \o part, tokens |-> acc.tokens + Approx(Len(part)), out |-> acc.out],
           [text |-> <<>>, tokens |-> 0, out |-> <<>>], parts)
SplitBody(max, text) ==
  LET acc == Packed(max, Sentences(text))
      pieces == Append(acc.out, acc.text)
  IN FlattenSeq([i \in DOMAIN pieces |-> EnforceMaxTokens(max, pieces[i])])

\* chunker_split_oversize_block: the room beside the headings, which every piece repeats.
BodyTokens(context) ==
  LET words == Max({w \in 0 .. MaxTokens : (w * 13) \div 10 <= MaxTokens})
  IN Approx(Max({1, IF words > Len(context) THEN words - Len(context) ELSE 0}))
SplitOversize(unit) ==
  LET pieces == SplitBody(IF unit.context = <<>> THEN MaxTokens ELSE BodyTokens(unit.context), unit.body)
  IN [i \in DOMAIN pieces |-> [text |-> unit.context \o pieces[i], anchor |-> unit.anchor,
                               context |-> unit.context]]
--------------------------------------------------------------------------------
(* Chunks beyond the limit.                                                 *)

\* The headings are repeated when the first character and every marker fit beside them.
Marker(text, i) ==
  SubSeq(text, i, Min({j \in Boundaries(text) : j >= i}))
Markers(text) == {Marker(text, i) : i \in {k \in DOMAIN text : At(text[k]).marker}}
Attached(chunk) == SubSeq(chunk.text, Len(chunk.context) + 1, Len(chunk.text))
Repeats(chunk) ==
  /\ chunk.context # <<>> /\ Attached(chunk) # <<>>
  /\ Fits(Append(chunk.context, Head(Attached(chunk))))
  /\ \A marker \in Markers(Attached(chunk)) : Fits(chunk.context \o marker)

\* The pieces of a text, each with as many characters as fit behind the headings: the binary
\* search finds the last place.  A piece without any is none.
LastFitting(context, rest) == Max({0} \cup {i \in Boundaries(rest) : Fits(context \o SubSeq(rest, 1, i))})
Pieces(context, text) ==
  LET pieces[from \in 1 .. Len(text) + 1] ==
        LET n == LastFitting(context, SubSeq(text, from, Len(text)))
        IN IF from > Len(text) THEN <<>>
           ELSE IF n = 0 THEN <<<<>>>>
           ELSE <<context \o SubSeq(text, from, from + n - 1)>> \o pieces[from + n]
  IN pieces[1]

\* chunker_enforce_final_token_limit_prepared, for one chunk: the chunks of it, none if it fails.
Limited(chunk) ==
  LET context == IF Repeats(chunk) THEN chunk.context ELSE <<>>
      pieces == Pieces(context, IF Repeats(chunk) THEN Attached(chunk) ELSE chunk.text)
  IN IF Fits(chunk.text) THEN <<chunk>>
     ELSE IF <<>> \in ToSet(pieces) THEN <<>>
     ELSE [i \in DOMAIN pieces |-> [text |-> pieces[i], anchor |-> chunk.anchor, context |-> context]]
--------------------------------------------------------------------------------
NoChunk == [text |-> <<>>, anchor |-> 0, context |-> <<>>]

ChunkerInit ==
  /\ document \in BoundedSeq(DOMAIN Shapes, MaxBlocks)
  /\ stage = "attach" /\ done = 0
  /\ pending = <<>> /\ units = <<>> /\ current = NoChunk /\ packed = <<>> /\ chunks = <<>>

\* An anchor is named after its block; the body has the first of its headings', or its own.
AnchorOf(block) == IF Shape(block).anchor = "none" THEN 0 ELSE block
HeadingAnchor(headings) ==
  LET anchored == SelectSeq(headings, LAMBDA h : AnchorOf(h) # 0)
  IN IF anchored = <<>> THEN 0 ELSE AnchorOf(Head(anchored))

Unit(context, block, anchor) ==
  [context |-> FlattenSeq([i \in DOMAIN context |-> WordsOf(context[i])]),
   body |-> WordsOf(block), anchor |-> anchor]

\* chunker_attach_pending_headings, for one block, and for what is left at the end.
Attach ==
  /\ stage = "attach" /\ done < Len(document)
  /\ LET block == done + 1
     IN IF Shape(block).kind = "heading"
          THEN pending' = Append(pending, block) /\ units' = units
          ELSE /\ units' = Append(units, Unit(pending, block,
                             IF HeadingAnchor(pending) # 0 THEN HeadingAnchor(pending) ELSE AnchorOf(block)))
               /\ pending' = <<>>
  /\ done' = done + 1
  /\ UNCHANGED <<document, stage, current, packed, chunks>>

AttachRest ==
  /\ stage = "attach" /\ done = Len(document)
  /\ units' = units \o [i \in DOMAIN pending |-> Unit(<<>>, pending[i], AnchorOf(pending[i]))]
  /\ pending' = <<>> /\ stage' = "pack" /\ done' = 0
  /\ UNCHANGED <<document, current, packed, chunks>>

\* chunker_pack, for one unit: a unit with headings begins a chunk, one beyond the limit is
\* cut, and one that does not fit goes to the next chunk.
Flushed(chunk) == IF chunk.text = <<>> THEN packed ELSE Append(packed, chunk)
WordCount(unit) == Len(unit.context) + Len(unit.body)
Joined(chunk, unit) ==
  [text |-> chunk.text \o unit.context \o unit.body,
   anchor |-> IF chunk.anchor = 0 THEN unit.anchor ELSE chunk.anchor,
   context |-> IF chunk.context = <<>> THEN unit.context ELSE chunk.context]

Pack ==
  /\ stage = "pack" /\ done < Len(units)
  /\ LET unit == units[done + 1]
         begins == \/ unit.context # <<>>
                   \/ Approx(Len(current.text) + WordCount(unit)) > MaxTokens
     IN IF Approx(WordCount(unit)) > MaxTokens
          THEN packed' = Flushed(current) \o SplitOversize(unit) /\ current' = NoChunk
          ELSE IF begins THEN packed' = Flushed(current) /\ current' = Joined(NoChunk, unit)
          ELSE packed' = packed /\ current' = Joined(current, unit)
  /\ done' = done + 1
  /\ UNCHANGED <<document, stage, pending, units, chunks>>

PackRest ==
  /\ stage = "pack" /\ done = Len(units)
  /\ packed' = Flushed(current) /\ current' = NoChunk
  /\ stage' = "limit" /\ done' = 0
  /\ UNCHANGED <<document, pending, units, chunks>>

Limit ==
  /\ stage = "limit" /\ done < Len(packed)
  /\ LET pieces == Limited(packed[done + 1])
     IN /\ chunks' = chunks \o pieces
        /\ stage' = IF pieces = <<>> THEN "failed" ELSE stage
  /\ done' = done + 1
  /\ UNCHANGED <<document, pending, units, current, packed>>

Store ==
  /\ stage = "limit" /\ done = Len(packed) /\ stage' = "stored"
  /\ UNCHANGED <<document, done, pending, units, current, packed, chunks>>

ChunkerNext == Attach \/ AttachRest \/ Pack \/ PackRest \/ Limit \/ Store

ChunkerSpec == ChunkerInit /\ [][ChunkerNext]_vars
--------------------------------------------------------------------------------
Blocks == DOMAIN document
Heading(block) == Shape(block).kind = "heading"
Text == FlattenSeq([b \in Blocks |-> WordsOf(b)])
Undivided == {<<word>> : word \in ToSet(Text)} \cup Markers(Text)

\* The headings right before a block, and every text that is repeated before one.
Headings(block) ==
  LET above == {h \in 1 .. block - 1 : \A k \in h .. block - 1 : Heading(k)}
  IN IF Heading(block) THEN <<>> ELSE SelectSeq(Text, LAMBDA word : word[1] \in above)
FitsBeside(context) == \A piece \in Undivided : Fits(context \o piece)

\* The ingestion: a link leads to the first chunk that has the anchor, or its marker.
Linked(block) == Shape(block).anchor \in {"linked", "marked"}
Targets(block) ==
  {c \in DOMAIN chunks : \/ chunks[c].anchor = block
                         \/ \E word \in ToSet(chunks[c].text) : word[1] = block /\ At(word).anchors}
Near(block, chunk) == \E word \in ToSet(chunk.text) : word[1] = block

\* The chunks of a document are the text of its blocks in order: no word is lost, and only
\* headings come twice.  Each is within the limit of the tokenizer, and no marker is cut.  A
\* block after headings has them in every chunk, unless some character or marker does not fit
\* beside them.  A link leads to the chunk with its target, or to the first of the pieces of
\* one, and only a link whose target has an anchor before it in the same chunk leads nowhere.
\* Chunking fails only when a character or a marker does not fit by itself, or a character that
\* is not the first one after some headings does not fit beside them.
ChunksSound ==
  /\ stage = "stored" =>
       LET texts == FlattenSeq([c \in DOMAIN chunks |-> chunks[c].text])
           Once(seen, word) == IF word \in ToSet(seen) THEN seen ELSE Append(seen, word)
       IN /\ FoldLeft(Once, <<>>, texts) = Text
          /\ \A i, j \in DOMAIN texts : i < j /\ texts[i] = texts[j] => Heading(texts[i][1])
          /\ \A c \in DOMAIN chunks :
               LET text == chunks[c].text
               IN /\ Fits(text)
                  /\ \A i \in DOMAIN text : Glued(text[i]) =>
                       i > 1 /\ text[i - 1] = <<text[i][1], text[i][2] - 1>>
                  /\ \A b \in Blocks : Near(b, chunks[c]) /\ FitsBeside(Headings(b)) =>
                       IsPrefix(Headings(b), text)
          /\ \A b \in Blocks : Linked(b) =>
               IF Targets(b) # {}
                 THEN \E p \in ToSet(packed) :
                        Near(b, p) /\ ToSet(chunks[Min(Targets(b))].text) \subseteq ToSet(p.text)
               ELSE \E c \in DOMAIN chunks :
                      Near(b, chunks[c]) /\ chunks[c].anchor \in 1 .. b - 1
  /\ stage = "failed" =>
       \/ \E piece \in Undivided : ~Fits(piece)
       \/ \E b \in Blocks : \E word \in ToSet(Text) \ {<<b, 1>>} :
            word[1] >= b /\ ~Fits(Append(Headings(b), word))
================================================================================
