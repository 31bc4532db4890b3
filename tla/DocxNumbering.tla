------------------------------ MODULE DocxNumbering ------------------------------
(***************************************************************************)
(* The numbers that a Word file does not spell out (src/frl.rs): a          *)
(* paragraph names a numbering instance and a level, or inherits them from  *)
(* its style and the styles that one is based on; an instance takes its     *)
(* levels from an abstract numbering, directly or through a numbering       *)
(* style, and overrides some.  The counters run through the paragraphs.     *)
(***************************************************************************)
EXTENDS Integers, Sequences, FiniteSets

CONSTANTS
  Styles,         \* paragraph styles
  Instances,      \* numbering instances, from 1; 0 switches numbering off
  Abstracts,      \* abstract numberings: a sequence of levels each
  MaxParagraphs,  \* bound: paragraphs of a document
  None

Levels == 1 .. 3  \* of the nine

NumberingConstants ==
  /\ IsFiniteSet(Styles) /\ Instances \subseteq Nat \ {0} /\ MaxParagraphs \in Nat
  /\ \A a \in DOMAIN Abstracts : Abstracts[a] \in [Levels -> [start : Int, restartAfter : Nat]]

Error == [error |-> TRUE]

VARIABLES
  sheet,     \* the styles and numberings of the document
  counters,  \* DocxNumberingState
  marks      \* the counters that each numbered paragraph has shown (history)

numberingVars == <<sheet, counters, marks>>

\* A setting names an instance and a level, each or neither.
Setting == [instance : Instances \cup {0, None}, level : Levels \cup {None}]
Unset == [l \in Levels |-> None]

\* A style is based on another or on none, and has a setting or none; an abstract
\* numbering has levels, each with its start and the level that restarts it.  An
\* instance takes the levels of an abstract numbering and overrides starts.
NumberingInit ==
  /\ sheet \in [basedOn : [Styles -> Styles \cup {None}],
                setting : [Styles -> {None, [instance |-> 1, level |-> 1],
                                      [instance |-> None, level |-> 2]}],
                default : Styles \cup {None},
                abstract : [Instances -> DOMAIN Abstracts],
                start : [Instances -> {None, 3}]]
  /\ counters = [i \in Instances |-> Unset]
  /\ marks = <<>>
-----------------------------------------------------------------------------
(* Styles *)

\* resolve_docx_numbering_setting
Resolve(setting, inherited) ==
  LET instance == IF setting.instance # None THEN setting.instance
                  ELSE IF inherited # None THEN inherited.instance ELSE None
      level == IF setting.level # None THEN setting.level
               ELSE IF inherited # None THEN inherited.level ELSE 1
  IN IF setting.instance = 0 \/ instance = None THEN None
     ELSE [instance |-> instance, level |-> level]

\* resolve_docx_paragraph_style, through at most n styles: a cycle has no end.
Inherited[n \in Nat] ==
  [s \in Styles |->
     LET base == IF sheet.basedOn[s] = None THEN None
                 ELSE IF n = 0 THEN Error ELSE Inherited[n - 1][sheet.basedOn[s]]
     IN IF base = Error THEN Error
        ELSE IF sheet.setting[s] = None THEN base ELSE Resolve(sheet.setting[s], base)]
OfStyle(s) == Inherited[Cardinality(Styles)][s]
Readable == \A s \in Styles : OfStyle(s) # Error

\* paragraph_or_default_style_numbering and docx_paragraph_numbering
StyleNumbering(style) ==
  IF style # None THEN OfStyle(style)
  ELSE IF sheet.default # None THEN OfStyle(sheet.default) ELSE None
Numbering(style, setting) ==
  IF setting = None THEN StyleNumbering(style) ELSE Resolve(setting, StyleNumbering(style))
-----------------------------------------------------------------------------
(* Numbers *)

\* The levels of an instance: apply_docx_numbering_overrides.
Level(i, l) ==
  LET level == Abstracts[sheet.abstract[i]][l]
  IN IF l = 1 /\ sheet.start[i] # None THEN [level EXCEPT !.start = sheet.start[i]] ELSE level

\* paragraph_marker: the ancestors begin, the level counts, what it restarts is unset.
Begun(i, l, row) ==
  [k \in Levels |-> IF k < l /\ row[k] = None THEN Level(i, k).start ELSE row[k]]
Counted(i, l, row) ==
  [row EXCEPT ![l] = IF row[l] = None THEN Level(i, l).start ELSE row[l] + 1]
Restarted(i, l, row) ==
  [k \in Levels |-> IF k > l /\ Level(i, k).restartAfter = l THEN None ELSE row[k]]

Mark(i, l) ==
  LET row == Counted(i, l, Begun(i, l, counters[i]))
  IN /\ counters' = [counters EXCEPT ![i] = Restarted(i, l, row)]
     /\ marks' = Append(marks, [instance |-> i, number |-> SubSeq(row, 1, l)])

\* A paragraph with its style and its own setting, each or neither.  An instance or a level
\* that the document does not define ends the parse.
Paragraph(style, setting) ==
  /\ Readable
  /\ Len(marks) < MaxParagraphs
  /\ Numbering(style, setting) # None
  /\ Numbering(style, setting).instance \in Instances /\ Numbering(style, setting).level \in Levels
  /\ Mark(Numbering(style, setting).instance, Numbering(style, setting).level)
  /\ UNCHANGED sheet

NumberingNext ==
  \E style \in Styles \cup {None}, setting \in Setting \cup {None} : Paragraph(style, setting)

NumberingSpec == NumberingInit /\ [][NumberingNext]_numberingVars
-----------------------------------------------------------------------------
(* Properties *)

\* Of two numbers of a list the later one is the greater: it continues the other, or is
\* greater at the first level they differ at.  So no provision has the number of another,
\* whatever levels are skipped, restarted or never restarted (frl.rs paragraph_marker).
NumbersAscend ==
  \A m, n \in 1 .. Len(marks) :
    m < n /\ marks[m].instance = marks[n].instance =>
      LET a == marks[m].number
          b == marks[n].number
          apart == {k \in DOMAIN a \cap DOMAIN b : a[k] # b[k]}
      IN IF apart = {} THEN Len(a) < Len(b)
         ELSE \E k \in apart : a[k] < b[k] /\ \A j \in apart : k <= j
=============================================================================
