------------------------------ MODULE OfficeMarkup ------------------------------
(***************************************************************************)
(* From the XML of an EPUB or a Word file to the HTML that is kept          *)
(* (src/frl.rs): a reader with a stack of open elements, and a sink that    *)
(* collapses white space as the elements are rendered.  The file is read    *)
(* before it is rendered; rendering follows the elements in their order, so *)
(* both are one pass here, and the text counts only once it is accepted.    *)
(*                                                                          *)
(* Elements are of five classes: blocks, inline elements, those that        *)
(* vanish with their content (a script, a deleted run), those that vanish   *)
(* and leave it, and breaks.                                                *)
(***************************************************************************)
EXTENDS Naturals, Sequences, SequencesExt

CONSTANTS
  Elements,   \* the classes that occur
  MaxDepth,   \* MAX_XML_DEPTH, less the place of the document itself
  MaxTokens   \* bound: tokens of a file

MarkupConstants ==
  /\ Elements \subseteq {"block", "inline", "dropped", "unwrapped", "break"}
  /\ {MaxDepth, MaxTokens} \subseteq Nat

VARIABLES
  pc,       \* "read", "accepted", "refused"
  stack,    \* the open elements
  roots,    \* elements of the document itself
  sink,     \* HtmlSink: its output, and what it remembers of it
  source,   \* what a reader of the file sees (history)
  tokens

markupVars == <<pc, stack, roots, sink, source, tokens>>

\* A text is a sequence of letters, spaces and edges of blocks.
Letter == "x"
Space == " "
Edge == "|"

MarkupInit ==
  /\ pc = "read" /\ stack = <<>> /\ roots = 0
  /\ sink = [output |-> <<>>, pendingSpace |-> FALSE, hasInlineText |-> FALSE]
  /\ source = <<>> /\ tokens = 0
-----------------------------------------------------------------------------
(* HtmlSink *)

Boundary(s) == [s EXCEPT !.pendingSpace = FALSE, !.hasInlineText = FALSE]
Emit(s, item) == [s EXCEPT !.output = Append(@, item)]
Flush(s) ==
  IF s.pendingSpace /\ s.hasInlineText THEN [Emit(s, Space) EXCEPT !.pendingSpace = FALSE] ELSE s

SinkSpace(s) == [s EXCEPT !.pendingSpace = @ \/ s.hasInlineText]
SinkLetter(s) ==
  [Emit(Flush(s), Letter) EXCEPT !.pendingSpace = FALSE, !.hasInlineText = TRUE]

\* open, close and empty
SinkOpen(s, element) ==
  CASE element = "block" -> Emit(Boundary(s), Edge)
    [] element = "inline" -> Flush(s)
    [] element = "break" -> [Emit(Flush(s), Edge) EXCEPT !.pendingSpace = FALSE]
    [] OTHER -> s
SinkCloseAny(s, element) == Boundary(IF element = "block" THEN Emit(s, Edge) ELSE s)
SinkClose(s, element) == IF element = "block" THEN Boundary(Emit(s, Edge)) ELSE s

\* What vanishes has neither text nor edges.
Visible == \A i \in DOMAIN stack : stack[i] \notin {"dropped", "break"}
-----------------------------------------------------------------------------
(* parse_xml *)

Reading == pc = "read" /\ tokens < MaxTokens /\ tokens' = tokens + 1
Refuse == pc' = "refused" /\ UNCHANGED <<stack, roots, sink, source>>
Sees(element) == IF Visible /\ element \in {"block", "break"} THEN Append(source, Edge) ELSE source

\* Text beside the root element is nobody's.
ReadText(item) ==
  /\ Reading
  /\ IF stack # <<>> /\ Visible
     THEN /\ sink' = IF item = Space THEN SinkSpace(sink) ELSE SinkLetter(sink)
          /\ source' = Append(source, item)
     ELSE UNCHANGED <<sink, source>>
  /\ UNCHANGED <<pc, stack, roots>>

\* An element that closes itself is not on the stack, and is not held to its depth.
OpenElement(element, selfClosing) ==
  /\ Reading
  /\ IF ~selfClosing /\ Len(stack) >= MaxDepth THEN Refuse
     ELSE /\ stack' = IF selfClosing THEN stack ELSE Append(stack, element)
          /\ roots' = IF stack = <<>> THEN roots + 1 ELSE roots
          /\ sink' = IF ~Visible THEN sink
                     ELSE IF selfClosing THEN SinkClose(SinkOpen(sink, element), element)
                     ELSE SinkOpen(sink, element)
          /\ source' = Sees(element)
          /\ UNCHANGED pc

CloseElement(element) ==
  /\ Reading
  /\ IF stack = <<>> \/ Last(stack) # element THEN Refuse
     ELSE /\ stack' = Front(stack)
          /\ LET outer == \A i \in DOMAIN Front(stack) : stack[i] \notin {"dropped", "break"}
             IN /\ sink' = IF outer THEN SinkClose(sink, element) ELSE sink
                /\ source' = IF outer /\ element = "block" THEN Append(source, Edge) ELSE source
          /\ UNCHANGED <<pc, roots>>

\* Every element is closed, and one of them is the document.
EndOfFile ==
  /\ pc = "read"
  /\ pc' = IF stack = <<>> /\ roots = 1 THEN "accepted" ELSE "refused"
  /\ UNCHANGED <<stack, roots, sink, source, tokens>>

MarkupNext ==
  \/ \E item \in {Letter, Space} : ReadText(item)
  \/ \E element \in Elements : (\E closing \in BOOLEAN : OpenElement(element, closing))
                               \/ CloseElement(element)
  \/ EndOfFile

MarkupSpec == MarkupInit /\ [][MarkupNext]_markupVars
-----------------------------------------------------------------------------
(* Properties *)

\* What is between one letter and the next: nothing, white space, or the edge of a block.
Joined == "joined"
Wider(gap, item) == IF item = Edge \/ gap = Edge THEN Edge ELSE Space
Reads(read, item) ==
  IF item # Letter THEN [read EXCEPT !.gap = Wider(@, item)]
  ELSE [gaps |-> IF read.begun THEN Append(read.gaps, read.gap) ELSE <<>>,
        gap |-> Joined, begun |-> TRUE]
ReadThrough(text) ==
  LET upTo[n \in 0 .. Len(text)] ==
        IF n = 0 THEN [gaps |-> <<>>, gap |-> Joined, begun |-> FALSE]
        ELSE Reads(upTo[n - 1], text[n])
  IN upTo[Len(text)]
Gaps(text) == ReadThrough(text).gaps

\* The words of a file are the words of its HTML: however white space and inline
\* elements alternate, no space is lost between two words and none appears within one
\* (frl.rs HtmlSink, render_epub_node, render_docx_inline).
WordsKept == Gaps(sink.output) = Gaps(source)
=============================================================================
