--------------------------- MODULE AdapterRenditions ---------------------------
(***************************************************************************)
(* How the court and State adapters of src/official_sources take the text  *)
(* of one document: the landing page, the renditions it offers in the      *)
(* order of the adapter's preference, and, for each, the commands that     *)
(* turn it into text, one after the other until one of them yields a text  *)
(* the adapter accepts.                                                    *)
(*                                                                         *)
(* What a command makes of the bytes is good, poor (a text that the        *)
(* validators of the Federal Court and of South Australia refuse), empty,  *)
(* or it fails: it exits with an error, is killed at its timeout, or its   *)
(* output cannot be read.  LibreOffice rendering a file to PDF is a        *)
(* command too, and running it a second time on the same bytes is not      *)
(* modelled apart.                                                         *)
(***************************************************************************)
EXTENDS Naturals, Sequences, SequencesExt

CONSTANT Adapters   \* the adapters that are checked

Courts == {"high-court", "federal-court", "nsw-caselaw"}
States == {"south-australia", "western-australia", "queensland", "nsw", "tasmania"}

ASSUME AdapterConstants == Adapters \subseteq Courts \cup States

Signatures == {"pdf", "docx", "doc", "rtf", "other"}  \* the first bytes of a file
Outcomes == {"good", "poor", "empty", "fails"}
Responses == {"ok", "missing", "refused", "aborts"}   \* 404, another status, no response

VARIABLES
  adapter,   \* the adapter at work
  offered,   \* the renditions of the document: what the entry or its page links to
  phase,     \* "landing", "choose", "convert", "taken", "missing" or "failed"
  waiting,   \* the renditions not tried yet
  unfound,   \* the renditions whose address was not found
  step,      \* the command to run next, and the file it works on
  log        \* the commands that were run

adapterVars == <<adapter, offered, phase, waiting, unfound, step, log>>
--------------------------------------------------------------------------------
\* The order of preference.  Word before RTF before PDF at the High Court, the page's own text
\* before its Word file before its PDF at the Federal Court, RTF before PDF in South Australia.
Preference(kind) ==
  CASE kind = "html" -> 0
    [] kind = "docx" -> 1
    [] kind = "rtf" -> 2
    [] kind = "pdf" -> 3
Best(kinds) == CHOOSE kind \in kinds : \A other \in kinds : Preference(kind) <= Preference(other)

\* What each adapter may find offered.  A judgment the High Court has as a page of its own has
\* its text there and nowhere else; a decision with an attached PDF has it in the PDF; and a
\* State's page that is no page, but a PDF, is one.
HighCourtOffers == {{"html"}} \cup (SUBSET {"docx", "rtf", "pdf"})
FederalOffers == {{"pdf"}} \cup {{"html"} \cup links : links \in SUBSET {"docx", "pdf"}}
CaselawOffers == {{"html"}, {"pdf"}}
SouthAustraliaOffers == (SUBSET {"rtf", "pdf"}) \ {{}}
WesternAustraliaOffers == {{"docx"}}
QueenslandOffers == {{"html"}, {"pdf"}}
NswOffers == {{"html"}, {"pdf"}}
TasmaniaOffers == {{"html"}}
Offers ==
  CASE adapter = "high-court" -> HighCourtOffers
    [] adapter = "federal-court" -> FederalOffers
    [] adapter = "nsw-caselaw" -> CaselawOffers
    [] adapter = "south-australia" -> SouthAustraliaOffers
    [] adapter = "western-australia" -> WesternAustraliaOffers
    [] adapter = "queensland" -> QueenslandOffers
    [] adapter = "nsw" -> NswOffers
    [] adapter = "tasmania" -> TasmaniaOffers

\* The ones that came with the landing page, or are what was asked for.
AtHand(kind) ==
  \/ kind = "html"
  \/ offered = {kind} /\ adapter \in {"federal-court", "western-australia", "nsw"}

\* Whether the adapter validates what a command yields before it settles for it.
Validates == adapter = "federal-court"
Accepts(outcome) == outcome = "good" \/ (outcome = "poor" /\ ~Validates)

\* Mutant: South Australia's validator is not asked.
SettledUnvalidated(outcome) == "taken"

\* South Australia's validator looks at the text only when the conversion is over.
Settled(outcome) ==
  IF adapter = "south-australia" /\ outcome = "poor" THEN "rejected" ELSE "taken"

\* The first command for a file: by its signature, and by what the link said it was when the
\* High Court's bytes do not tell.  South Australia's adapter goes by the link, and its RTF must
\* have the signature of a Word file; the other States' files are what the site says they are.
HighCourtCommand(kind, signature) ==
  CASE signature = "pdf" -> "pdftotext"
    [] signature = "docx" -> "docx"
    [] signature = "doc" -> "antiword"
    [] signature = "rtf" -> "unrtf"
    [] signature = "other" -> CASE kind = "rtf" -> "rejected" [] kind = "docx" -> "docx"
                                [] OTHER -> "pdftotext"

FederalCommand(kind, signature) ==
  IF kind = "pdf"
  THEN IF signature = "pdf" \/ AtHand(kind) THEN "pdftotext" ELSE "rejected"
  ELSE CASE signature = "pdf" -> "pdftotext"
         [] signature = "docx" -> "docx"
         [] signature \in {"doc", "rtf"} -> "convert"
         [] OTHER -> "rejected"

SouthAustraliaCommand(kind, signature) ==
  IF kind = "pdf"
  THEN "pdftotext"
  ELSE CASE signature = "doc" -> "antiword"
         [] signature = "rtf" -> "starwriter"
         [] OTHER -> "rejected"

FirstCommand(kind, signature) ==
  IF kind = "html"
  THEN "html"
  ELSE CASE adapter = "high-court" -> HighCourtCommand(kind, signature)
         [] adapter = "federal-court" -> FederalCommand(kind, signature)
         [] adapter = "south-australia" -> SouthAustraliaCommand(kind, signature)
         [] OTHER -> IF kind = "docx" THEN "docx" ELSE "pdftotext"

\* What follows a command: the next one, or the end of the conversion.  A PDF whose text layer
\* does not do is read from its images; a Word file is rendered to a PDF.
AfterPdf(outcome) == IF Accepts(outcome) THEN Settled(outcome) ELSE "ocr"
AfterRtf(outcome) == IF Accepts(outcome) THEN Settled(outcome) ELSE "render"
AfterLegacyWord(outcome) ==
  IF Accepts(outcome)
  THEN Settled(outcome)
  ELSE IF Validates \/ outcome = "empty" THEN "render" ELSE "rejected"
AfterRendering(outcome) == IF outcome = "good" THEN "pdftotext" ELSE "rejected"
AfterStarWriter(outcome) == IF outcome \in {"good", "poor"} THEN Settled(outcome) ELSE "unrtf"
AfterWord(command, signature, outcome) ==
  IF Accepts(outcome)
  THEN Settled(outcome)
  ELSE CASE command = "convert" -> IF signature = "doc" THEN "antiword" ELSE "unrtf"
         [] command = "docx" /\ Validates -> "render"
         [] OTHER -> "rejected"

FollowedBy(command, signature, outcome) ==
  CASE command = "pdftotext" -> AfterPdf(outcome)
    [] command = "unrtf" -> AfterRtf(outcome)
    [] command = "antiword" -> AfterLegacyWord(outcome)
    [] command = "render" -> AfterRendering(outcome)
    [] command = "starwriter" -> AfterStarWriter(outcome)
    [] OTHER -> AfterWord(command, signature, outcome)

\* What the adapter says when no rendition is left.
Exhausted(notFound) ==
  CASE adapter = "high-court" /\ offered = {} -> "missing"
    [] adapter = "south-australia" /\ notFound = offered -> "missing"
    [] OTHER -> "failed"

NoStep == [command |-> "none", kind |-> "none", signature |-> "none"]
--------------------------------------------------------------------------------
AdapterInit ==
  /\ adapter \in Adapters
  /\ offered \in Offers
  /\ phase = IF adapter = "south-australia" THEN "choose" ELSE "landing"
  /\ waiting = offered
  /\ unfound = {} /\ step = NoStep /\ log = <<>>

\* The rendition being tried gives way to the next one.
GiveWay(notFound) ==
  /\ waiting' = waiting \ {Best(waiting)}
  /\ unfound' = notFound
  /\ phase' = IF waiting \ {Best(waiting)} = {} THEN Exhausted(notFound) ELSE "choose"
  /\ step' = NoStep

\* The landing page: a document the site no longer has is missing, any other status or a
\* request that fails is an error.  Its own text comes with it.  The Federal Court may also
\* answer with a page that says the document could not be found, and a State with one that has
\* no content.
Landing ==
  /\ phase = "landing"
  /\ \E response \in Responses :
       phase' = CASE response = "ok" -> IF waiting = {} THEN Exhausted(unfound) ELSE "choose"
                  [] response = "missing" -> "missing"
                  [] OTHER -> "failed"
  /\ UNCHANGED <<adapter, offered, waiting, unfound, step, log>>

\* The best rendition left is fetched, unless it is at hand.  One that cannot be had, or is no
\* file the adapter knows, gives way to the next; a request without an answer ends the
\* acquisition, except the Federal Court's.
FetchRendition ==
  /\ phase = "choose"
  /\ LET kind == Best(waiting)
     IN \E response \in IF AtHand(kind) THEN {"ok"} ELSE Responses, signature \in Signatures :
          LET command == FirstCommand(kind, signature)
          IN \/ /\ response = "aborts" /\ adapter # "federal-court"
                /\ phase' = "failed" /\ UNCHANGED <<waiting, unfound, step>>
             \/ /\ response = "ok" /\ command # "rejected"
                /\ step' = [command |-> command, kind |-> kind, signature |-> signature]
                /\ phase' = "convert" /\ UNCHANGED <<waiting, unfound>>
             \/ /\ \/ response \in {"missing", "refused"}
                   \/ response = "aborts" /\ adapter = "federal-court"
                   \/ response = "ok" /\ command = "rejected"
                /\ GiveWay(unfound \cup {k \in {kind} : response = "missing"})
  /\ UNCHANGED <<adapter, offered, log>>

\* run_command_with_timeout, or a normalizer: one command and what comes after it.
Convert ==
  /\ phase = "convert"
  /\ \E outcome \in Outcomes :
       LET next == FollowedBy(step.command, step.signature, outcome)
       IN /\ log' = Append(log, [kind |-> step.kind, command |-> step.command, outcome |-> outcome])
          /\ CASE next = "taken" -> phase' = "taken" /\ UNCHANGED <<waiting, unfound, step>>
               [] next = "rejected" -> GiveWay(unfound)
               [] OTHER -> /\ step' = [step EXCEPT !.command = next]
                           /\ UNCHANGED <<phase, waiting, unfound>>
  /\ UNCHANGED <<adapter, offered>>

AdapterNext == Landing \/ FetchRendition \/ Convert

AdapterSpec == AdapterInit /\ [][AdapterNext]_adapterVars
--------------------------------------------------------------------------------
Yields(entry) == entry.command # "render" /\ entry.outcome = "good"

\* A good text, once a command yielded it, is the document: none is passed over for a later
\* command or a lesser rendition.  What the Federal Court and South Australia validate is good;
\* an OCR is only of a PDF whose own text was refused.  A document is taken for missing only
\* when the site said so, or offers nothing: never after a rendition was there to convert.
TextChosen ==
  /\ \A i \in DOMAIN log : Yields(log[i]) => i = Len(log) /\ phase = "taken"
  /\ phase = "taken" /\ adapter \in {"federal-court", "south-australia"} => Yields(Last(log))
  /\ \A i \in DOMAIN log : log[i].command = "ocr" =>
       /\ i > 1 /\ log[i - 1].command = "pdftotext" /\ log[i - 1].kind = log[i].kind
       /\ ~Accepts(log[i - 1].outcome)
  /\ phase = "missing" => log = <<>>
================================================================================
