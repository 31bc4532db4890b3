---------------------------- MODULE DocumentBlocks ----------------------------
(***************************************************************************)
(* How src/chunker.rs cuts a cleaned document into blocks, before it packs *)
(* them into chunks: the walk over its elements, the headings, tables,     *)
(* lists and definitions it renders, and the markers that src/html.rs      *)
(* writes for linked documents and for the anchors that are linked to.     *)
(*                                                                         *)
(* A document is a tree of elements and texts, in preorder; the parser     *)
(* that made it decides what may stand in what.  Texts are not blank.      *)
(***************************************************************************)
EXTENDS Naturals, Sequences, SequencesExt, FiniteSets, FiniteSetsExt

CONSTANT
  Alphabets  \* the kinds of nodes that are checked together, and a bound: how many nodes

Phrasing == {"text", "span", "link", "name"}  \* name: an a with a name, link: one with a document
Grouping == {"div", "ul", "table", "p", "heading", "dt", "dd", "pre"}

\* What TLC is to assume of the constants.
BlockConstants ==
  \A a \in Alphabets :
    /\ a.tags \subseteq Phrasing \cup Grouping \cup {"li", "tr", "td", "caption"}
    /\ a.nodes \in Nat

VARIABLES
  alphabet,  \* the kinds of nodes of the document
  nodes,     \* the document: a tag and a parent for each node; 0 is the body
  target,    \* the element that some link of the document leads to, 0 if there is none
  titled,    \* whether the first heading repeats the title of the document
  named,     \* whether the headings have an id
  chunked    \* whether the document is complete

vars == <<alphabet, nodes, target, titled, named, chunked>>
--------------------------------------------------------------------------------
Nodes == DOMAIN nodes
Tag(n) == IF n = 0 THEN "body" ELSE nodes[n].tag
InOrder(Test(_)) == SelectSeq([m \in Nodes |-> m], Test)
Children(n) == InOrder(LAMBDA m : nodes[m].parent = n)

RECURSIVE Within(_, _)
Within(n, m) == n = m \/ (n > m /\ Within(nodes[n].parent, m))

Under(n, tag) == InOrder(LAMBDA m : m # n /\ Tag(m) = tag /\ Within(m, n))

\* What the parser lets stand in what.
MayHold(outer, tag) ==
  CASE outer \in {"p", "caption", "dt", "pre"} -> tag \in Phrasing
    [] outer = "heading" -> tag \in Phrasing \cup {"div", "ul", "table"}
    [] outer = "table" -> tag \in {"tr", "caption"}
    [] outer = "tr" -> tag = "td"
    [] outer = "ul" -> tag \in {"li", "text", "span"}
    [] outer \in {"body", "div", "li", "td", "dd"} -> tag \in Phrasing \cup Grouping
    [] outer \in {"span", "link"} -> tag \in Phrasing \cup {"p", "div", "table"}
    [] outer = "name" -> tag = "text"
    [] OTHER -> FALSE

--------------------------------------------------------------------------------
(* Rendering: a sequence of texts and markers.                              *)

Joined(of, F(_)) == FlattenSeq([i \in DOMAIN of |-> F(of[i])])
Item(kind, node) == [kind |-> kind, node |-> node]
AnchorMarker(n) == IF n = target THEN <<Item("anchor", n)>> ELSE <<>>

\* render_node: a link to a document is its text and a marker; of the other elements the one
\* that is linked to has a marker behind its text, a heading only if it has text.
RECURSIVE Rendered(_)
RenderInline(n) == Joined(Children(n), Rendered)
Marked(n, inline) ==
  IF Tag(n) = "heading" /\ inline = <<>> THEN <<>> ELSE inline \o AnchorMarker(n)
Rendered(n) ==
  LET inline == RenderInline(n)
  IN CASE Tag(n) = "text" -> <<Item("text", n)>>
       [] Tag(n) = "link" -> Append(inline, Item("doc", n))
       [] OTHER -> Marked(n, inline)

\* chunker_render_table_text: the cells of the rows, or, when they are empty, everything.
RenderTable(n) ==
  LET cell(td) == RenderInline(td) \o AnchorMarker(td)
      text == Joined(Under(n, "tr"), LAMBDA tr : Joined(Under(tr, "td"), cell))
  IN IF text # <<>> THEN text ELSE RenderInline(n)

RenderPre(n) == Joined(Under(n, "text"), Rendered)
RenderList(n) == Joined(Under(n, "li"), RenderInline)

FirstReferenced(n) == IF target # 0 /\ Within(target, n) THEN target ELSE 0

\* A block that has no text is none.
Block(items, anchor, heading) ==
  IF items = <<>> THEN <<>> ELSE <<[items |-> items, anchor |-> anchor, heading |-> heading]>>

RenderBlock(n) ==
  Block(CASE Tag(n) = "table" -> RenderTable(n)
          [] Tag(n) = "pre" -> RenderPre(n)
          [] Tag(n) = "ul" -> RenderList(n)
          [] OTHER -> RenderInline(n),
        FirstReferenced(n), FALSE)

\* A term and the definition that follows it at once.
RenderPair(dt, dd) ==
  Block(RenderInline(dt) \o IF dd = 0 THEN <<>> ELSE RenderInline(dd),
        IF FirstReferenced(dt) # 0 \/ dd = 0 THEN FirstReferenced(dt) ELSE FirstReferenced(dd), FALSE)

\* The id of a heading, linked to or not, or the first a in it that has one or a name.
HeadingAnchor(n) ==
  LET anchors == {m \in Nodes : /\ Within(m, n)
                                 /\ \/ m = n /\ (named \/ m = target)
                                    \/ Tag(m) = "name"
                                    \/ Tag(m) = "link" /\ m = target}
  IN IF anchors = {} THEN 0 ELSE Min(anchors)

\* A heading that repeats the title of the document is left out.
TitleEcho(n) == titled /\ \A m \in Nodes : Tag(m) = "heading" => m >= n
RenderHeading(n) == IF TitleEcho(n) THEN <<>> ELSE Block(RenderInline(n), HeadingAnchor(n), TRUE)
--------------------------------------------------------------------------------
(* The walk.                                                                *)

Structural(n) == Tag(n) \in Grouping \cup {"li", "tr", "td", "caption"}
HasStructure(n) == \E m \in ToSet(Children(n)) : Structural(m)

\* The blocks that are rendered in one piece.
Atomic(n) ==
  \/ Tag(n) \in {"table", "p", "pre", "li", "caption", "dt", "dd"}
  \/ Tag(n) \in {"div", "ul"} /\ ~HasStructure(n)

\* What was gathered since the last block.
Gathered(state) == Block(state.inline, state.anchor, FALSE)
Emit(state, more) ==
  [blocks |-> state.blocks \o Gathered(state) \o more, inline |-> <<>>, anchor |-> 0, paired |-> state.paired]

RECURSIVE Walk(_)
Visit(state, n, next) ==
  IF n = state.paired THEN state
  ELSE IF Tag(n) = "text" THEN [state EXCEPT !.inline = @ \o Rendered(n)]
  ELSE IF Tag(n) = "dt"
  THEN LET dd == IF Tag(next) = "dd" THEN next ELSE 0
       IN [Emit(state, RenderPair(n, dd)) EXCEPT !.paired = dd]
  ELSE IF Tag(n) = "heading" /\ ~HasStructure(n) THEN Emit(state, RenderHeading(n))
  ELSE IF Atomic(n) THEN Emit(state, RenderBlock(n))
  ELSE IF HasStructure(n) THEN Emit(state, Walk(n))
  ELSE [state EXCEPT !.inline = @ \o Rendered(n),
                     !.anchor = IF @ = 0 THEN FirstReferenced(n) ELSE @]

Walk(parent) ==
  LET children == Children(parent)
      next(i) == IF i < Len(children) THEN children[i + 1] ELSE 0
      Empty == [blocks |-> <<>>, inline |-> <<>>, anchor |-> 0, paired |-> 0]
      after[i \in 0 .. Len(children)] ==
        IF i = 0 THEN Empty ELSE Visit(after[i - 1], children[i], next(i))
  IN Emit(after[Len(children)], <<>>).blocks
--------------------------------------------------------------------------------
BlockInit ==
  /\ alphabet \in Alphabets
  /\ nodes = <<>> /\ target = 0 /\ titled = FALSE /\ named = FALSE /\ chunked = FALSE

\* The parser adds a node to one that is still open.
Parse ==
  /\ ~chunked /\ Len(nodes) < alphabet.nodes
  /\ \E parent \in {n \in 0 .. Len(nodes) : Within(Len(nodes), n)}, tag \in alphabet.tags :
       /\ MayHold(Tag(parent), tag)
       /\ nodes' = Append(nodes, [tag |-> tag, parent |-> parent])
  /\ UNCHANGED <<alphabet, target, titled, named, chunked>>

\* chunk_fragment_packed, up to the blocks, which are Walk(0).
Chunk ==
  /\ ~chunked /\ chunked' = TRUE
  /\ target' \in {0} \cup {n \in Nodes : Tag(n) # "text"}
  /\ LET headings == IF Under(0, "heading") = <<>> THEN {FALSE} ELSE BOOLEAN
     IN titled' \in headings /\ named' \in headings
  /\ UNCHANGED <<alphabet, nodes>>

BlockNext == Parse \/ Chunk

BlockSpec == BlockInit /\ [][BlockNext]_vars
--------------------------------------------------------------------------------
\* The elements whose children are walked, and the block that a node is rendered in.
RECURSIVE Walked(_)
Walked(n) == n = 0 \/ (Walked(nodes[n].parent) /\ ~Atomic(n) /\ HasStructure(n))
BlockOf(n) == CHOOSE m \in Nodes : Within(n, m) /\ ~Walked(m) /\ Walked(nodes[m].parent)

\* Left out on purpose: a heading that echoes the title.  Left out by the way a block is
\* rendered: the caption of a table, and a list without an item.
Overlooked(n) ==
  LET block == BlockOf(n)
  IN \/ Tag(block) = "heading" /\ TitleEcho(block)
     \/ Tag(block) = "ul"
     \/ /\ Tag(block) = "table"
        /\ \E m \in Nodes : Within(n, m) /\ Tag(m) = "caption" /\ nodes[m].parent = block
        /\ RenderTable(block) # RenderInline(block)

\* The cells of a table in a cell are rendered with it and as rows of their own.
Doubled(n) == Tag(BlockOf(n)) = "table" /\ \E m \in Nodes : Tag(m) = "table" /\ Within(n, m) /\ m # BlockOf(n)

Unmarked(n) == Walked(n) \/ Overlooked(n) \/ Tag(BlockOf(n)) = "pre"

Times(items, item) == Cardinality({i \in DOMAIN items : items[i] = item})

\* Every text of a document is in one block, except for the texts above.
TextsPlaced(items) ==
  \A n \in Nodes : Tag(n) = "text" =>
    LET times == Times(items, Item("text", n))
    IN IF Overlooked(n) THEN times = 0 ELSE IF Doubled(n) THEN times > 0 ELSE times = 1

\* The blocks have the texts in the order of the document.
TextsInOrder(items) ==
  LET plain == SelectSeq(items, LAMBDA item : item.kind = "text" /\ ~Doubled(item.node))
  IN \A i \in 1 .. Len(plain) - 1 : plain[i].node < plain[i + 1].node

\* A marker for each linked document, unless the link is around blocks.
LinksMarked(items) ==
  \A n \in Nodes : Tag(n) = "link" => (Times(items, Item("doc", n)) = 0) = Unmarked(n)

\* A reader of a link within the document is led to a block: to every target but an element
\* around blocks, one without text, or an a with an id in a heading that has one too.
TargetFound(blocks, items) ==
  target # 0 /\ ~Walked(target) =>
    LET block == BlockOf(target)
    IN \/ Item("anchor", target) \in ToSet(items)
       \/ \E i \in DOMAIN blocks : blocks[i].anchor = target
       \/ Overlooked(target)
       \/ RenderBlock(block) = <<>>
       \/ Tag(target) = "heading" /\ RenderInline(target) = <<>>
       \/ Tag(target) = "link" /\ Tag(block) = "heading" /\ HeadingAnchor(block) # target

\* The blocks keep what the document holds: its texts, in their order, the markers of its links
\* and the target of a link (chunker.rs chunk_fragment_packed).
BlocksSound ==
  chunked =>
    LET blocks == Walk(0)
        items == FlattenSeq([i \in DOMAIN blocks |-> blocks[i].items])
    IN /\ TextsPlaced(items) /\ TextsInOrder(items)
       /\ LinksMarked(items) /\ TargetFound(blocks, items)
================================================================================
