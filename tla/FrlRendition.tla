------------------------------ MODULE FrlRendition ------------------------------
(***************************************************************************)
(* How the text of one planned version is acquired (src/frl.rs): its        *)
(* renditions are listed page by page, and those that can be normalized are *)
(* tried in the order of preference.  A request is tried again a bounded    *)
(* number of times, an EPUB or a Word file is asked for again on the public *)
(* site, and a rendition that cannot be fetched or normalized gives way to  *)
(* the next one.  FrlAcquisition!StoreText is what comes of it.              *)
(***************************************************************************)
EXTENDS Integers, FiniteSets, FiniteSetsExt

CONSTANTS
  Renditions,   \* those the register may list
  PageSize,     \* PAGE_SIZE
  MaxAttempts,  \* MAX_HTTP_ATTEMPTS
  MaxFaults     \* bound: requests that fail

Kinds == {"epub", "docx", "pdf", "other"}

ASSUME RenditionConstants ==
  /\ IsFiniteSet(Renditions) /\ Renditions # {}
  /\ Renditions \subseteq
       [rectification : Nat, primary : BOOLEAN, volume : Nat, kind : Kinds, authorised : BOOLEAN]
  /\ {PageSize, MaxAttempts} \subseteq Nat \ {0} /\ MaxFaults \in Nat

VARIABLES
  listed,   \* the Documents entity set of the version
  known,    \* what was listed when the acquisition began
  fetch     \* the acquisition: what it has listed, the candidates left, the request

renditionVars == <<listed, known, fetch>>

RenditionInit ==
  /\ listed \in SUBSET Renditions
  /\ known = listed
  /\ fetch = [pc |-> "list", seen |-> {}]
-----------------------------------------------------------------------------
(* scan_documents *)

TypeOrdinal(r) == IF r.primary THEN 0 ELSE 1
FormatOrdinal(r) == CASE r.kind = "docx" -> 1 [] r.kind = "pdf" -> 2 [] r.kind = "epub" -> 3
                      [] OTHER -> 4

\* RenditionKey: the order of the listing.
Before(a, b) ==
  LET A == <<a.rectification, TypeOrdinal(a), a.volume, FormatOrdinal(a)>>
      B == <<b.rectification, TypeOrdinal(b), b.volume, FormatOrdinal(b)>>
  IN \E i \in 1 .. 4 : A[i] < B[i] /\ \A j \in 1 .. (i - 1) : A[j] = B[j]

\* The register lists no two under one key (the code keeps what it has listed by it).
ASSUME RenditionKeys == \A a, b \in Renditions : a = b \/ Before(a, b) \/ Before(b, a)

Follows(r) == \A s \in fetch.seen : Before(s, r)

\* documents_page
NextPage ==
  LET rest == {r \in listed : Follows(r)}
  IN {r \in rest : Cardinality({s \in rest : Before(s, r)}) < PageSize}

\* rendition_kind and rendition_candidates: supported primary renditions, and their order.
Candidates(rows) == {r \in rows : r.primary /\ r.kind # "other"}
KindRank(r) == CASE r.kind = "epub" -> 0 [] r.kind = "docx" -> 1 [] OTHER -> 2

\* Mutant: the later rectification first, authorised or not.
PreferredByDate(a, b) ==
  LET A == <<KindRank(a), -a.rectification, IF a.authorised THEN 0 ELSE 1, a.volume>>
      B == <<KindRank(b), -b.rectification, IF b.authorised THEN 0 ELSE 1, b.volume>>
  IN \E i \in 1 .. 4 : A[i] < B[i] /\ \A j \in 1 .. (i - 1) : A[j] = B[j]

Preferred(a, b) ==
  LET A == <<KindRank(a), IF a.authorised THEN 0 ELSE 1, -a.rectification, a.volume>>
      B == <<KindRank(b), IF b.authorised THEN 0 ELSE 1, -b.rectification, b.volume>>
  IN \E i \in 1 .. 4 : A[i] < B[i] /\ \A j \in 1 .. (i - 1) : A[j] = B[j]
First(rows) == CHOOSE r \in rows : \A s \in rows \ {r} : Preferred(r, s)

\* fetch_preferred_normalized_document: the next candidate, or none is left.
Try(rows, failed, faults) ==
  fetch' = IF rows = {} THEN [pc |-> "refused", failed |-> failed]
           ELSE [pc |-> "get", rows |-> rows, failed |-> failed, surface |-> "api",
                 attempt |-> 1, faults |-> faults]

List ==
  /\ fetch.pc = "list"
  /\ LET page == NextPage
         seen == fetch.seen \cup page
     IN IF Cardinality(page) < PageSize
        THEN Try(Candidates(seen), {}, 0)
        ELSE fetch' = [fetch EXCEPT !.seen = seen]
  /\ UNCHANGED <<listed, known>>

\* External: a rectified version is published, after the earlier ones in the listing.
Rectify(r) ==
  /\ fetch.pc = "list"
  /\ r \notin listed /\ \A s \in listed : s.rectification < r.rectification
  /\ listed' = listed \cup {r}
  /\ UNCHANGED <<known, fetch>>
-----------------------------------------------------------------------------
(* get_bounded_from, fetch_rendition and normalize_document *)

Current == First(fetch.rows)
Getting == fetch.pc = "get"

\* A request that can be repeated: the status or the transport says so, and the delay
\* that is asked for is within MAX_RETRY_DELAY.
Retry ==
  /\ Getting /\ fetch.faults < MaxFaults
  /\ fetch.attempt < MaxAttempts
  /\ fetch' = [fetch EXCEPT !.attempt = @ + 1, !.faults = @ + 1]
  /\ UNCHANGED <<listed, known>>

GiveUp == Try(fetch.rows \ {Current}, fetch.failed \cup {Current}, fetch.faults + 1)

\* The last attempt, or an answer that is final.  fetch_binary_rendition turns to the
\* public site once.
Binary(r) == r.kind \in {"epub", "docx"}
RequestFails ==
  /\ Getting /\ fetch.faults < MaxFaults
  /\ IF Binary(Current) /\ fetch.surface = "api"
     THEN fetch' = [fetch EXCEPT !.surface = "public", !.attempt = 1, !.faults = @ + 1]
     ELSE GiveUp
  /\ UNCHANGED <<listed, known>>

Acquire(text) ==
  fetch' = [pc |-> "acquired", rendition |-> Current, text |-> text, failed |-> fetch.failed]

\* An archive that parses, or the text the register has extracted from the PDF.
Normalized ==
  /\ Getting /\ Acquire("full")
  /\ UNCHANGED <<listed, known>>

\* A PDF without such a text: the title is all there is.
Metadata ==
  /\ Getting /\ ~Binary(Current)
  /\ Acquire("metadata")
  /\ UNCHANGED <<listed, known>>

\* What came cannot be parsed.
Unreadable ==
  /\ Getting /\ fetch.faults < MaxFaults
  /\ GiveUp
  /\ UNCHANGED <<listed, known>>

\* append_low_text_image_ocr: little text and images, which are read or not.
Images ==
  /\ Getting /\ Binary(Current)
  /\ \E text \in {"ocr", "low"} : Acquire(text)
  /\ UNCHANGED <<listed, known>>

RenditionNext ==
  \/ List \/ \E r \in Renditions : Rectify(r)
  \/ Retry \/ RequestFails \/ Normalized \/ Metadata \/ Unreadable \/ Images

RenditionSpec == RenditionInit /\ [][RenditionNext]_renditionVars
-----------------------------------------------------------------------------
(* Properties *)

\* However the listing grew while it was paged through, an EPUB is passed over for a Word
\* file or a PDF, a Word file for a PDF, and an authorised rendition for another of its
\* kind, only when it was listed later or was tried and given up; a title is refused only
\* when all of what was listed was given up (frl.rs scan_documents, rendition_candidates,
\* fetch_preferred_normalized_document).
BestListed ==
  /\ fetch.pc = "acquired" =>
       \A r \in Candidates(known) \ fetch.failed :
         /\ KindRank(fetch.rendition) <= KindRank(r)
         /\ KindRank(fetch.rendition) = KindRank(r) /\ r.authorised => fetch.rendition.authorised
  /\ fetch.pc = "refused" => Candidates(known) \subseteq fetch.failed

\* MAINTENANCE.md "Genuinely textless official PDFs may retain title metadata; parser, OCR,
\* or network failures fail the record".
FailuresFailTheRecord ==
  fetch.pc = "acquired" /\ fetch.text = "metadata" => fetch.failed = {}
=============================================================================
