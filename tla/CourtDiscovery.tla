---------------------------- MODULE CourtDiscovery ----------------------------
(***************************************************************************)
(* How the adapters of src/official_sources take the inventory of a source *)
(* that is listed page by page, while the site goes on publishing and      *)
(* withdrawing documents.  The High Court refuses a page whose total is    *)
(* not the first page's; NSW Caselaw does too, and starts over up to three *)
(* times; the Federal Court asks for the count twice, and then reads       *)
(* fixed ranges without looking at their counts; Tasmania asks for the     *)
(* legislation at one point in time.  What is accepted goes through the    *)
(* duplicate check that every adapter shares.                              *)
(*                                                                         *)
(* A site lists the newest document first, so that a publication pushes    *)
(* every later row back, over the boundaries of the pages.  Each page is   *)
(* served at its own moment, in any order: parallel_map promises none.     *)
(***************************************************************************)
EXTENDS Naturals, Sequences, FiniteSets, TLC, SequencesExt

CONSTANTS
  Sites,         \* the adapters that are checked
  Judgments,     \* everything a site may ever list
  Listings,      \* what it may list at the start: sequences of some of them, newest first
  Unusable,      \* the ones an adapter passes over: restricted, repealed, without a stable link
  RowsPerPage,   \* rows of a page: 1000 and 100 on the real sites
  FederalShare,  \* the percentage of the counted records the Federal Court adapter wants: 99
  Attempts,      \* snapshots NSW Caselaw may take: 3
  MaxPublished,  \* bound: publications during a discovery
  MaxWithdrawn   \* bound: withdrawals during a discovery

\* What TLC is to assume of the constants.
CourtConstants ==
  /\ Sites \subseteq {"high-court", "federal-court", "nsw-caselaw", "tasmania"}
  /\ Unusable \subseteq Judgments
  /\ \A rows \in Listings : rows \in Seq(Judgments) /\ IsInjective(rows)
  /\ {RowsPerPage, Attempts} \subseteq Nat \ {0}
  /\ {FederalShare, MaxPublished, MaxWithdrawn} \subseteq Nat

VARIABLES
  site,       \* the adapter
  listing,    \* what the site lists now, newest first
  pinned,     \* what it listed when the discovery began: Tasmania's point in time
  shown,      \* every listing the site had since the snapshot began
  changes,    \* publications and withdrawals since the snapshot began
  counted,    \* the total the adapter goes by
  pending,    \* the pages requested and not yet answered
  answers,    \* the rows of the answered pages
  snapshot,   \* how many snapshots were begun
  inventory,  \* the documents it returned
  outcome     \* "open", "taken" or "failed"

vars ==
  <<site, listing, pinned, shown, changes, counted, pending, answers, snapshot, inventory, outcome>>
--------------------------------------------------------------------------------
\* The pages of total records, and the rows of one as the site has them.
PagesOf(total) == 0 .. ((total + RowsPerPage - 1) \div RowsPerPage) - 1
RowsOf(rows, page) ==
  SubSeq(rows, page * RowsPerPage + 1,
         IF (page + 1) * RowsPerPage < Len(rows) THEN (page + 1) * RowsPerPage ELSE Len(rows))

\* The range a page says it displays: its first and its last record.
ResultRange(page, rows) == [first |-> page * RowsPerPage + 1,
                            last |-> page * RowsPerPage + Len(rows)]

\* The rows of the pages, in the order parallel_map returns them, and the ones that become
\* documents.  The High Court's adapter passes over none.
Records == FlattenSeq([i \in 1 .. Cardinality(DOMAIN answers) |-> answers[i - 1]])
PassedOver == IF site = "high-court" THEN {} ELSE Unusable
Usable(rows) == SelectSeq(rows, LAMBDA record : record \notin PassedOver)

\* High Court: the displayed ranges partition the counted results, and every row was parsed.
RangesPartition ==
  /\ \A page \in DOMAIN answers :
       ResultRange(page, answers[page]).first
         = IF page = 0 THEN 1 ELSE ResultRange(page - 1, answers[page - 1]).last + 1
  /\ Len(Records) = counted

\* Whether an adapter takes what the pages held, and the documents it makes of it.
SnapshotHolds ==
  CASE site = "high-court" -> RangesPartition
    [] site = "federal-court" -> Len(Usable(Records)) * 100 >= counted * FederalShare
    [] OTHER -> Len(Records) = counted

\* Mutant: only an inventory without a document is refused.
NonEmptyDiscovery(documents) == documents # <<>>

\* The check every inventory goes through: something was found, and nothing twice.
ValidDiscovery(documents) == documents # <<>> /\ IsInjective(documents)
--------------------------------------------------------------------------------
Open == outcome = "open"

CourtInit ==
  /\ site \in Sites
  /\ listing \in Listings
  /\ pinned = listing
  /\ shown = {ToSet(listing)}
  /\ changes = [published |-> 0, withdrawn |-> 0]
  /\ counted = 0 /\ pending = {} /\ answers = <<>>
  /\ snapshot = 0
  /\ inventory = <<>> /\ outcome = "open"

SiteUnchanged == UNCHANGED <<site, listing, pinned, shown, changes>>

\* The site publishes a document, at the head of its list, or withdraws one.
Changed(rows, kind) ==
  /\ Open /\ snapshot > 0
  /\ listing' = rows
  /\ shown' = shown \cup {ToSet(rows)}
  /\ changes' = [changes EXCEPT ![kind] = @ + 1]
  /\ UNCHANGED <<site, pinned, counted, pending, answers, snapshot, inventory, outcome>>

Publish ==
  /\ changes.published < MaxPublished
  /\ \E new \in Judgments \ UNION shown : Changed(<<new>> \o listing, "published")

Withdraw ==
  /\ changes.withdrawn < MaxWithdrawn
  /\ \E old \in ToSet(listing) : Changed(SelectSeq(listing, LAMBDA row : row # old), "withdrawn")

\* The first request of a snapshot.  The Federal Court's adapter only takes a count from it,
\* the others their first page; a category or an index without a document ends the discovery.
Expect(total) ==
  /\ counted' = total
  /\ pending' = PagesOf(total) \ DOMAIN answers'

Begin ==
  /\ Open /\ snapshot = 0 /\ snapshot' = 1
  /\ site # "federal-court" => answers' = (0 :> RowsOf(listing, 0))
  /\ site = "federal-court" => answers' = <<>>
  /\ Expect(Len(listing))
  /\ outcome' = IF site = "high-court" /\ listing = <<>> THEN "failed" ELSE outcome
  /\ inventory' = inventory
  /\ SiteUnchanged

\* Federal Court: the last result is asked for, and the larger of the two counts is taken.
FinalCount ==
  /\ Open /\ site = "federal-court" /\ snapshot = 1 /\ snapshot' = 2
  /\ answers' = answers
  /\ Expect(IF Len(listing) > counted THEN Len(listing) ELSE counted)
  /\ UNCHANGED <<inventory, outcome>>
  /\ SiteUnchanged

Counting == site = "federal-court" /\ snapshot = 1

\* The totals a page must show: the High Court and NSW Caselaw compare them.
TotalAgrees == site \in {"high-court", "nsw-caselaw"} => Len(listing) = counted

ReadPage(page) ==
  /\ Open /\ ~Counting /\ page \in pending /\ TotalAgrees
  /\ answers' = (page :> RowsOf(IF site = "tasmania" THEN pinned ELSE listing, page)) @@ answers
  /\ pending' = pending \ {page}
  /\ UNCHANGED <<counted, snapshot, inventory, outcome>>
  /\ SiteUnchanged

\* A snapshot of which a request fails, or that does not hold together, ends the
\* discovery, except NSW Caselaw's, which begins another: its first page, its counts and its
\* rows are all taken again.
Unstable ==
  IF site = "nsw-caselaw" /\ snapshot < Attempts
    THEN /\ snapshot' = snapshot + 1
         /\ answers' = (0 :> RowsOf(listing, 0))
         /\ Expect(Len(listing))
         /\ shown' = {ToSet(listing)}
         /\ changes' = [published |-> 0, withdrawn |-> 0]
         /\ UNCHANGED <<site, listing, pinned, inventory, outcome>>
    ELSE /\ outcome' = "failed"
         /\ UNCHANGED <<counted, pending, answers, snapshot, inventory>>
         /\ SiteUnchanged

PageRefused == Open /\ snapshot > 0 /\ (pending # {} \/ Counting) /\ Unstable

Finish ==
  /\ Open /\ snapshot > 0 /\ ~Counting /\ pending = {}
  /\ SnapshotHolds
  /\ inventory' = Usable(Records)
  /\ outcome' = IF ValidDiscovery(Usable(Records)) THEN "taken" ELSE "failed"
  /\ UNCHANGED <<counted, pending, answers, snapshot>>
  /\ SiteUnchanged

SnapshotRefused == Open /\ snapshot > 0 /\ ~Counting /\ pending = {} /\ ~SnapshotHolds /\ Unstable

CourtNext ==
  \/ Publish \/ Withdraw
  \/ Begin \/ FinalCount
  \/ \E page \in pending : ReadPage(page)
  \/ PageRefused \/ Finish \/ SnapshotRefused

CourtSpec == CourtInit /\ [][CourtNext]_vars
--------------------------------------------------------------------------------
\* Was listed all along, and is not in the inventory: the store will take it for withdrawn.
Missed ==
  {record \in Judgments \ PassedOver : \A listed \in shown : record \in listed} \ ToSet(inventory)

\* An accepted inventory names nothing twice.  The High Court's is what the site listed at one
\* moment, whatever was published and withdrawn while its pages were read, and Tasmania's is
\* the point in time's.  NSW Caselaw's is a moment's unless decisions were both published and
\* withdrawn: a row it passes over can then hide a shift.  The Federal Court's may miss a
\* judgment that was listed all along, but no more than one for each page and change.
InventorySound ==
  outcome = "taken" =>
    /\ IsInjective(inventory)
    /\ site = "tasmania" => ToSet(inventory) = ToSet(pinned) \ PassedOver
    /\ \/ site = "high-court"
       \/ site = "nsw-caselaw" /\ 0 \in {changes.published, changes.withdrawn}
         => \E listed \in shown : ToSet(inventory) = listed \ PassedOver
    /\ site = "federal-court"
         => Cardinality(Missed) <= (changes.published + changes.withdrawn) * Cardinality(DOMAIN answers)
================================================================================
