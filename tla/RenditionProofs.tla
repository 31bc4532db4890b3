---------------------------- MODULE RenditionProofs ----------------------------
(***************************************************************************)
(* Proofs about the choice of a text among the renditions of a document,   *)
(* and about what is made of the text of an office file: FrlRendition for  *)
(* any register, page size and number of attempts, AdapterRenditions for   *)
(* each adapter and whatever its commands yield, OfficeMarkup for any      *)
(* file, DocxNumbering for any styles, numberings and paragraphs.          *)
(*                                                                         *)
(* RenditionInv says that while the register is paged through, what is left *)
(* of the listing follows what was read, a rectification included; and then *)
(* that a candidate is still to be tried, was given up, or is no better     *)
(* than the one that is taken.                                             *)
(***************************************************************************)
EXTENDS FrlRendition, AdapterRenditions, OfficeMarkup, DocxNumbering, FiniteSetTheorems,
        SequenceTheorems, WellFoundedInduction, TLAPS

\* A set of numbers that is not empty has a least one.
LEMMA LeastNumber ==
  ASSUME NEW S, S \subseteq Nat, S # {}
  PROVE  \E m \in S : \A k \in S : m <= k
<1>1. PICK m \in S : \A k \in S : <<k, m>> \notin OpToRel(<, Nat)
  BY NatLessThanWellFounded, WFMin
<1>2. ASSUME NEW k \in S, ~(m <= k) PROVE FALSE
  <2>1. k \in Nat /\ m \in Nat /\ k < m
    BY <1>2
  <2>2. <<k, m>> \in OpToRel(<, Nat)
    BY <2>1 DEF OpToRel
  <2>3. QED
    BY <1>1, <2>2
<1>3. QED
  BY <1>2

\* Of finitely many things, one has none before it in a strict order.
LEMMA LeastOf ==
  ASSUME NEW S, IsFiniteSet(S), S # {}, NEW R,
         \A x \in S : <<x, x>> \notin R,
         \A x, y, z \in S : <<x, y>> \in R /\ <<y, z>> \in R => <<x, z>> \in R
  PROVE  \E m \in S : \A x \in S : <<x, m>> \notin R
<1> DEFINE Below(x) == {y \in S : <<y, x>> \in R}
           count(x) == Cardinality(Below(x))
           Counts == {count(x) : x \in S}
<1>1. \A x \in S : IsFiniteSet(Below(x)) /\ Cardinality(Below(x)) \in Nat
  <2> TAKE x \in S
  <2>1. IsFiniteSet(Below(x))
    BY FS_Subset
  <2>2. QED
    BY <2>1, FS_CardinalityType
<1>2. Counts \subseteq Nat /\ Counts # {}
  <2>1. \A x \in S : count(x) \in Nat
    BY <1>1
  <2> HIDE DEF count
  <2>2. QED
    BY <2>1
<1>3. PICK n \in Counts : \A k \in Counts : <<k, n>> \notin OpToRel(<, Nat)
  BY <1>2, NatLessThanWellFounded, WFMin
<1>4. \A k \in Counts : n <= k
  <2> HIDE DEF Counts
  <2> SUFFICES ASSUME NEW k \in Counts, ~(n <= k) PROVE FALSE
    OBVIOUS
  <2>1. k \in Nat /\ n \in Nat /\ k < n
    BY <1>2
  <2>2. <<k, n>> \in OpToRel(<, Nat)
    BY <2>1 DEF OpToRel
  <2>3. QED
    BY <1>3, <2>2
<1>5. PICK m \in S : n = count(m)
  OBVIOUS
<1>6. ASSUME NEW x \in S, <<x, m>> \in R
      PROVE  FALSE
  <2>1. Below(x) \subseteq Below(m) /\ x \in Below(m) /\ x \notin Below(x)
    BY <1>6
  <2>2. /\ Cardinality(Below(x)) <= Cardinality(Below(m))
        /\ Cardinality(Below(m)) = Cardinality(Below(x)) => Below(m) = Below(x)
    BY <1>1, <2>1, FS_Subset
  <2>3. Cardinality(Below(x)) # Cardinality(Below(m))
    BY <2>1, <2>2
  <2>4. Cardinality(Below(m)) <= Cardinality(Below(x))
    <3>1. count(x) \in Counts
      OBVIOUS
    <3>2. count(m) <= count(x)
      BY <1>4, <1>5, <3>1
    <3>3. QED
      BY <3>2
  <2>5. QED
    BY <1>1, <2>2, <2>3, <2>4
<1>7. QED
  BY <1>6

\* The orders of the listing and of preference, place by place.
Lexical(A, B) ==
  \/ A[1] < B[1]
  \/ A[1] = B[1] /\ A[2] < B[2]
  \/ A[1] = B[1] /\ A[2] = B[2] /\ A[3] < B[3]
  \/ A[1] = B[1] /\ A[2] = B[2] /\ A[3] = B[3] /\ A[4] < B[4]

LEMMA FirstDifference ==
  ASSUME NEW A, NEW B
  PROVE  (\E i \in 1 .. 4 : A[i] < B[i] /\ \A j \in 1 .. (i - 1) : A[j] = B[j]) <=> Lexical(A, B)
<1> DEFINE At(i) == A[i] < B[i] /\ \A j \in 1 .. (i - 1) : A[j] = B[j]
<1>1. 1 .. 4 = {1, 2, 3, 4}
  OBVIOUS
<1>2. At(1) <=> A[1] < B[1]
  OBVIOUS
<1>3. At(2) <=> A[1] = B[1] /\ A[2] < B[2]
  <2>1. 1 .. (2 - 1) = {1}
    OBVIOUS
  <2>2. QED
    BY <2>1
<1>4. At(3) <=> A[1] = B[1] /\ A[2] = B[2] /\ A[3] < B[3]
  <2>1. 1 .. (3 - 1) = {1, 2}
    OBVIOUS
  <2>2. QED
    BY <2>1
<1>5. At(4) <=> A[1] = B[1] /\ A[2] = B[2] /\ A[3] = B[3] /\ A[4] < B[4]
  <2>1. 1 .. (4 - 1) = {1, 2, 3}
    OBVIOUS
  <2>2. QED
    BY <2>1
<1> HIDE DEF At
<1>6. (\E i \in 1 .. 4 : At(i)) <=> At(1) \/ At(2) \/ At(3) \/ At(4)
  BY <1>1
<1>7. (\E i \in 1 .. 4 : At(i)) <=> Lexical(A, B)
  BY <1>2, <1>3, <1>4, <1>5, <1>6 DEF Lexical
<1>8. QED
  BY <1>7 DEF At

Whole(A) == {A[1], A[2], A[3], A[4]} \subseteq Int
ListKey(r) == <<r.rectification, TypeOrdinal(r), r.volume, FormatOrdinal(r)>>
ChoiceKey(r) == <<KindRank(r), IF r.authorised THEN 0 ELSE 1, -r.rectification, r.volume>>

LEMMA Orders ==
  ASSUME NEW a \in Renditions, NEW b \in Renditions
  PROVE  /\ Before(a, b) <=> Lexical(ListKey(a), ListKey(b))
         /\ Preferred(a, b) <=> Lexical(ChoiceKey(a), ChoiceKey(b))
         /\ Whole(ListKey(a)) /\ Whole(ChoiceKey(a))
<1>1. Before(a, b) <=> Lexical(ListKey(a), ListKey(b))
  BY FirstDifference DEF Before, ListKey
<1>2. Preferred(a, b) <=> Lexical(ChoiceKey(a), ChoiceKey(b))
  BY FirstDifference DEF Preferred, ChoiceKey
<1>3. a.rectification \in Nat /\ a.volume \in Nat
  BY RenditionConstants DEF RenditionConstants
<1>4. TypeOrdinal(a) \in Int /\ FormatOrdinal(a) \in Int /\ KindRank(a) \in Int
  BY DEF TypeOrdinal, FormatOrdinal, KindRank
<1>5. Whole(ListKey(a)) /\ Whole(ChoiceKey(a))
  BY <1>3, <1>4 DEF Whole, ListKey, ChoiceKey
<1>6. QED
  BY <1>1, <1>2, <1>5

LEMMA LexicalOrder ==
  ASSUME NEW A, NEW B, NEW C, Whole(A), Whole(B), Whole(C)
  PROVE  /\ ~Lexical(A, A)
         /\ Lexical(A, B) /\ Lexical(B, C) => Lexical(A, C)
         /\ \/ Lexical(A, B) \/ Lexical(B, A)
            \/ A[1] = B[1] /\ A[2] = B[2] /\ A[3] = B[3] /\ A[4] = B[4]
BY DEF Whole, Lexical

\* The listing is in order, and so is the choice.
LEMMA BeforeOrders ==
  ASSUME NEW a \in Renditions, NEW b \in Renditions, NEW c \in Renditions
  PROVE  /\ ~Before(a, a)
         /\ Before(a, b) /\ Before(b, c) => Before(a, c)
         /\ ~Preferred(a, a)
         /\ Preferred(a, b) /\ Preferred(b, c) => Preferred(a, c)
<1>1. /\ Whole(ListKey(a)) /\ Whole(ListKey(b)) /\ Whole(ListKey(c))
      /\ Whole(ChoiceKey(a)) /\ Whole(ChoiceKey(b)) /\ Whole(ChoiceKey(c))
  BY Orders
<1>2. /\ ~Lexical(ListKey(a), ListKey(a)) /\ ~Lexical(ChoiceKey(a), ChoiceKey(a))
      /\ Lexical(ListKey(a), ListKey(b)) /\ Lexical(ListKey(b), ListKey(c)) =>
           Lexical(ListKey(a), ListKey(c))
      /\ Lexical(ChoiceKey(a), ChoiceKey(b)) /\ Lexical(ChoiceKey(b), ChoiceKey(c)) =>
           Lexical(ChoiceKey(a), ChoiceKey(c))
  BY <1>1, LexicalOrder
<1>3. QED
  BY <1>2, Orders

\* Of two renditions that can be normalized one is preferred, as no two are listed under one key.
LEMMA PreferredIsTotal ==
  ASSUME NEW a \in Candidates(Renditions), NEW b \in Candidates(Renditions), a # b
  PROVE  Preferred(a, b) \/ Preferred(b, a)
<1>1. /\ a \in Renditions /\ b \in Renditions /\ a.primary /\ b.primary
      /\ a.kind \in {"epub", "docx", "pdf"} /\ b.kind \in {"epub", "docx", "pdf"}
  BY RenditionConstants DEF RenditionConstants, Candidates, Kinds
<1>2. Lexical(ListKey(a), ListKey(b)) \/ Lexical(ListKey(b), ListKey(a))
  BY <1>1, RenditionKeys, Orders DEF RenditionKeys
<1>3. /\ Whole(ListKey(a)) /\ Whole(ListKey(b)) /\ Whole(ChoiceKey(a)) /\ Whole(ChoiceKey(b))
  BY <1>1, Orders
<1>4. ASSUME KindRank(a) = KindRank(b), -a.rectification = -b.rectification, a.volume = b.volume
      PROVE  FALSE
  <2>1. a.kind = b.kind
    BY <1>1, <1>4 DEF KindRank
  <2>2. a.rectification = b.rectification
    BY <1>1, <1>4, RenditionConstants DEF RenditionConstants
  <2>3. FormatOrdinal(a) = FormatOrdinal(b) /\ TypeOrdinal(a) = TypeOrdinal(b)
    BY <1>1, <2>1 DEF FormatOrdinal, TypeOrdinal
  <2>4. ListKey(a) = ListKey(b)
    BY <1>4, <2>2, <2>3 DEF ListKey
  <2>5. QED
    BY <1>2, <1>3, <2>4, LexicalOrder
<1>5. Lexical(ChoiceKey(a), ChoiceKey(b)) \/ Lexical(ChoiceKey(b), ChoiceKey(a))
  <2>1. CASE /\ ChoiceKey(a)[1] = ChoiceKey(b)[1] /\ ChoiceKey(a)[3] = ChoiceKey(b)[3]
             /\ ChoiceKey(a)[4] = ChoiceKey(b)[4]
    BY <1>4, <2>1 DEF ChoiceKey
  <2>2. QED
    BY <1>3, <2>1, LexicalOrder
<1>6. QED
  BY <1>1, <1>5, Orders

\* First is the one that is preferred to all others.
LEMMA FirstIsPreferred ==
  ASSUME NEW some, some \subseteq Candidates(Renditions), some # {}
  PROVE  First(some) \in some /\ \A r \in some \ {First(some)} : Preferred(First(some), r)
<1> DEFINE R == {p \in Renditions \X Renditions : Preferred(p[1], p[2])}
<1>1. some \subseteq Renditions /\ IsFiniteSet(some)
  BY RenditionConstants, FS_Subset DEF RenditionConstants, Candidates
<1>2. \A x, y \in some : <<x, y>> \in R <=> Preferred(x, y)
  BY <1>1
<1>3. /\ \A x \in some : <<x, x>> \notin R
      /\ \A x, y, z \in some : <<x, y>> \in R /\ <<y, z>> \in R => <<x, z>> \in R
  <2> HIDE DEF R
  <2>1. QED
    BY <1>1, <1>2, BeforeOrders
<1> HIDE DEF R
<1>4. PICK m \in some : \A x \in some : <<x, m>> \notin R
  BY <1>1, <1>3, LeastOf
<1>5. \A r \in some \ {m} : Preferred(m, r)
  BY <1>2, <1>4, PreferredIsTotal
<1>6. QED
  BY <1>5 DEF First

\* A page of the listing: what is left of the listing follows it, and a page that is not full
\* is the last.
LEMMA PageOfTheListing ==
  ASSUME NEW rest, rest \subseteq Renditions, NEW page,
         page = {r \in rest : Cardinality({s \in rest : Before(s, r)}) < PageSize}
  PROVE  /\ \A r \in rest \ page, s \in page : Before(s, r)
         /\ Cardinality(page) < PageSize => page = rest
<1> DEFINE Earlier(r) == {s \in rest : Before(s, r)}
<1>1. IsFiniteSet(rest) /\ IsFiniteSet(page) /\ PageSize \in Nat
  BY RenditionConstants, FS_Subset DEF RenditionConstants
<1>2. \A r \in rest : IsFiniteSet(Earlier(r)) /\ Cardinality(Earlier(r)) \in Nat
  <2> TAKE r \in rest
  <2>1. IsFiniteSet(Earlier(r))
    BY <1>1, FS_Subset
  <2>2. QED
    BY <2>1, FS_CardinalityType
<1>3. \A r \in rest : r \in page <=> Cardinality(Earlier(r)) < PageSize
  OBVIOUS
<1>4. ASSUME NEW r \in rest \ page, NEW s \in page, ~Before(s, r)
      PROVE  FALSE
  <2>1. r \in Renditions /\ s \in Renditions /\ s \in rest /\ r \in rest /\ r # s
    OBVIOUS
  <2>2. Before(r, s)
    BY <1>4, <2>1, RenditionKeys DEF RenditionKeys
  <2>3. Earlier(r) \subseteq Earlier(s)
    BY <2>1, <2>2, BeforeOrders
  <2>4. Cardinality(Earlier(r)) <= Cardinality(Earlier(s))
    BY <1>2, <2>1, <2>3, FS_Subset
  <2>5. Cardinality(Earlier(s)) < PageSize /\ ~(Cardinality(Earlier(r)) < PageSize)
    BY <1>3, <2>1
  <2> HIDE DEF Earlier
  <2>6. QED
    BY <1>1, <1>2, <2>1, <2>4, <2>5
<1>5. ASSUME Cardinality(page) < PageSize, rest \ page # {}
      PROVE  FALSE
  <2> DEFINE left == rest \ page
             R == {p \in Renditions \X Renditions : Before(p[1], p[2])}
  <2>1. left \subseteq Renditions /\ IsFiniteSet(left) /\ left # {}
    BY <1>1, <1>5, FS_Subset
  <2>2. \A x, y \in left : <<x, y>> \in R <=> Before(x, y)
    BY <2>1
  <2>3. /\ \A x \in left : <<x, x>> \notin R
        /\ \A x, y, z \in left : <<x, y>> \in R /\ <<y, z>> \in R => <<x, z>> \in R
    <3> HIDE DEF R, left
    <3>1. QED
      BY <2>1, <2>2, BeforeOrders
  <2> HIDE DEF R
  <2>4. PICK m \in left : \A x \in left : <<x, m>> \notin R
    BY <2>1, <2>3, LeastOf
  <2>5. Earlier(m) \subseteq page
    BY <2>2, <2>4
  <2>6. Cardinality(Earlier(m)) <= Cardinality(page)
    BY <1>1, <2>5, FS_Subset
  <2>7. ~(Cardinality(Earlier(m)) < PageSize) /\ m \in rest
    BY <1>3, <2>4
  <2>8. Cardinality(page) \in Nat
    BY <1>1, FS_CardinalityType
  <2> HIDE DEF Earlier
  <2>9. QED
    BY <1>1, <1>2, <1>5, <2>6, <2>7, <2>8
<1>6. page \subseteq rest
  OBVIOUS
<1>7. QED
  BY <1>4, <1>5, <1>6

\* While the renditions are listed, those that are left follow those that were; then what is
\* not given up is tried, and before all that it is preferred to.
RenditionInv ==
  /\ listed \subseteq Renditions /\ known \subseteq listed
  /\ \/ /\ fetch.pc = "list"
        /\ DOMAIN fetch = {"pc", "seen"}
        /\ fetch.seen \subseteq listed
        /\ \A r \in listed \ fetch.seen : Follows(r)
     \/ /\ fetch.pc = "get"
        /\ DOMAIN fetch = {"pc", "rows", "failed", "surface", "attempt", "faults"}
        /\ fetch.rows \subseteq Candidates(listed) /\ fetch.rows # {}
        /\ Candidates(known) \subseteq fetch.rows \cup fetch.failed
     \/ /\ fetch.pc = "refused"
        /\ Candidates(known) \subseteq fetch.failed
     \/ /\ fetch.pc = "acquired"
        /\ fetch.rendition \in Candidates(listed)
        /\ \A r \in Candidates(known) \ fetch.failed :
             r = fetch.rendition \/ Preferred(fetch.rendition, r)

LEMMA RenditionStarts == RenditionInit => RenditionInv
<1> SUFFICES ASSUME RenditionInit PROVE RenditionInv
  OBVIOUS
<1>1. /\ listed \subseteq Renditions /\ known = listed /\ fetch = [pc |-> "list", seen |-> {}]
  BY DEF RenditionInit
<1>2. fetch.pc = "list" /\ fetch.seen = {} /\ DOMAIN fetch = {"pc", "seen"}
  BY <1>1
<1>3. QED
  BY <1>1, <1>2 DEF RenditionInv, Follows

\* The next candidate, of those that are left.
LEMMA TryKeeps ==
  ASSUME RenditionInv, NEW some, NEW failed, NEW faults, Try(some, failed, faults),
         UNCHANGED <<listed, known>>,
         some \subseteq Candidates(listed), Candidates(known) \subseteq some \cup failed
  PROVE  RenditionInv'
<1>1. CASE some = {}
  <2>1. fetch'.pc = "refused" /\ fetch'.failed = failed
    BY <1>1 DEF Try
  <2>2. QED
    BY <1>1, <2>1 DEF RenditionInv, Candidates
<1>2. CASE some # {}
  <2>1. fetch'.pc = "get" /\ fetch'.rows = some /\ fetch'.failed = failed
        /\ DOMAIN fetch' = {"pc", "rows", "failed", "surface", "attempt", "faults"}
    BY <1>2 DEF Try
  <2>2. QED
    BY <1>2, <2>1 DEF RenditionInv, Candidates
<1>3. QED
  BY <1>1, <1>2

LEMMA ListKeeps ==
  ASSUME RenditionInv, List
  PROVE  RenditionInv'
<1> DEFINE page == NextPage
           seen == fetch.seen \cup page
           rest == {r \in listed : Follows(r)}
<1>1. /\ listed \subseteq Renditions /\ known \subseteq listed /\ fetch.pc = "list"
      /\ DOMAIN fetch = {"pc", "seen"} /\ fetch.seen \subseteq listed
      /\ \A r \in listed \ fetch.seen : Follows(r)
      /\ UNCHANGED <<listed, known>>
  BY DEF List, RenditionInv
<1>2. IF Cardinality(page) < PageSize
      THEN Try(Candidates(seen), {}, 0)
      ELSE fetch' = [fetch EXCEPT !.seen = seen]
  BY DEF List
<1>3. page = {r \in rest : Cardinality({s \in rest : Before(s, r)}) < PageSize}
  BY DEF NextPage
<1>4. rest \subseteq Renditions /\ listed \ fetch.seen \subseteq rest
  BY <1>1
<1> HIDE DEF page
<1>5. /\ \A r \in rest \ page, s \in page : Before(s, r)
      /\ Cardinality(page) < PageSize => page = rest
      /\ page \subseteq rest
  <2> HIDE DEF rest
  <2>1. QED
    BY <1>3, <1>4, PageOfTheListing
<1>6. seen \subseteq listed
  BY <1>1, <1>5
<1>7. CASE Cardinality(page) < PageSize
  <2>1. listed \subseteq seen
    BY <1>4, <1>5, <1>7
  <2>2. Candidates(seen) \subseteq Candidates(listed) /\ Candidates(known) \subseteq Candidates(seen)
    BY <1>1, <1>6, <2>1 DEF Candidates
  <2>3. Try(Candidates(seen), {}, 0)
    BY <1>2, <1>7
  <2>4. QED
    BY <1>1, <2>2, <2>3, TryKeeps
<1>8. CASE ~(Cardinality(page) < PageSize)
  <2>1. fetch' = [fetch EXCEPT !.seen = seen]
    BY <1>2, <1>8
  <2>2. fetch'.pc = "list" /\ fetch'.seen = seen /\ DOMAIN fetch' = {"pc", "seen"}
    BY <1>1, <2>1
  <2>3. \A r \in listed \ seen : \A s \in seen : Before(s, r)
    BY <1>1, <1>4, <1>5 DEF Follows
  <2>4. \A r \in listed' \ fetch'.seen : Follows(r)'
    BY <1>1, <2>2, <2>3 DEF Follows
  <2>5. QED
    BY <1>1, <1>6, <2>2, <2>4 DEF RenditionInv
<1>9. QED
  BY <1>7, <1>8

LEMMA RectifyKeeps ==
  ASSUME RenditionInv, NEW r \in Renditions, Rectify(r)
  PROVE  RenditionInv'
<1>1. /\ listed \subseteq Renditions /\ known \subseteq listed /\ fetch.pc = "list"
      /\ DOMAIN fetch = {"pc", "seen"} /\ fetch.seen \subseteq listed
      /\ \A s \in listed \ fetch.seen : Follows(s)
      /\ listed' = listed \cup {r} /\ UNCHANGED <<known, fetch>>
      /\ \A s \in listed : s.rectification < r.rectification
  BY DEF Rectify, RenditionInv
<1>2. ASSUME NEW s \in listed
      PROVE  Before(s, r)
  <2>1. Lexical(ListKey(s), ListKey(r))
    BY <1>1 DEF Lexical, ListKey
  <2>2. QED
    BY <1>1, <2>1, Orders
<1>3. \A s \in listed' \ fetch'.seen : Follows(s)'
  BY <1>1, <1>2 DEF Follows
<1>4. QED
  BY <1>1, <1>3 DEF RenditionInv

\* What a request that is answered, or given up, leaves.
LEMMA GetFacts ==
  ASSUME RenditionInv, Getting
  PROVE  /\ fetch.rows \subseteq Candidates(listed) /\ fetch.rows # {}
         /\ DOMAIN fetch = {"pc", "rows", "failed", "surface", "attempt", "faults"}
         /\ Candidates(known) \subseteq fetch.rows \cup fetch.failed
         /\ listed \subseteq Renditions /\ known \subseteq listed
         /\ Current \in fetch.rows
         /\ \A r \in fetch.rows \ {Current} : Preferred(Current, r)
<1>1. /\ fetch.rows \subseteq Candidates(listed) /\ fetch.rows # {}
      /\ DOMAIN fetch = {"pc", "rows", "failed", "surface", "attempt", "faults"}
      /\ Candidates(known) \subseteq fetch.rows \cup fetch.failed
      /\ listed \subseteq Renditions /\ known \subseteq listed
  BY DEF RenditionInv, Getting
<1>2. fetch.rows \subseteq Candidates(Renditions)
  BY <1>1 DEF Candidates
<1>3. QED
  BY <1>1, <1>2, FirstIsPreferred DEF Current

LEMMA GiveUpKeeps ==
  ASSUME RenditionInv, Getting, GiveUp, UNCHANGED <<listed, known>>
  PROVE  RenditionInv'
<1> DEFINE some == fetch.rows \ {Current}
           failed == fetch.failed \cup {Current}
<1>1. some \subseteq Candidates(listed) /\ Candidates(known) \subseteq some \cup failed
  BY GetFacts
<1>2. Try(some, failed, fetch.faults + 1)
  BY DEF GiveUp
<1> HIDE DEF some, failed
<1>3. QED
  BY <1>1, <1>2, TryKeeps

LEMMA AskedAgainKeeps ==
  ASSUME RenditionInv, Getting, UNCHANGED <<listed, known>>,
         DOMAIN fetch' = DOMAIN fetch, fetch'.pc = fetch.pc, fetch'.rows = fetch.rows,
         fetch'.failed = fetch.failed
  PROVE  RenditionInv'
BY GetFacts DEF RenditionInv, Getting, Candidates

LEMMA TextAcquiredKeeps ==
  ASSUME RenditionInv, Getting, NEW text, Acquire(text), UNCHANGED <<listed, known>>
  PROVE  RenditionInv'
<1>1. fetch'.pc = "acquired" /\ fetch'.rendition = Current /\ fetch'.failed = fetch.failed
  BY DEF Acquire
<1>2. Current \in Candidates(listed)
  BY GetFacts
<1>3. \A r \in Candidates(known) \ fetch.failed : r = Current \/ Preferred(Current, r)
  BY GetFacts
<1>4. listed \subseteq Renditions /\ known \subseteq listed
  BY GetFacts
<1> HIDE DEF Current
<1>5. QED
  BY <1>1, <1>2, <1>3, <1>4 DEF RenditionInv, Candidates

LEMMA RenditionStep == RenditionInv /\ [RenditionNext]_renditionVars => RenditionInv'
<1> SUFFICES ASSUME RenditionInv, [RenditionNext]_renditionVars PROVE RenditionInv'
  OBVIOUS
<1>1. CASE List
  BY <1>1, ListKeeps
<1>2. ASSUME NEW r \in Renditions, Rectify(r)
      PROVE  RenditionInv'
  BY <1>2, RectifyKeeps
<1>3. CASE Retry
  <2>1. /\ Getting /\ UNCHANGED <<listed, known>>
        /\ fetch' = [fetch EXCEPT !.attempt = @ + 1, !.faults = @ + 1]
    BY <1>3 DEF Retry
  <2>2. /\ DOMAIN fetch' = DOMAIN fetch /\ fetch'.pc = fetch.pc /\ fetch'.rows = fetch.rows
        /\ fetch'.failed = fetch.failed
    BY <2>1, GetFacts
  <2>3. QED
    BY <2>1, <2>2, AskedAgainKeeps
<1>4. CASE RequestFails
  <2>1. Getting /\ UNCHANGED <<listed, known>>
    BY <1>4 DEF RequestFails
  <2>2. CASE GiveUp
    BY <2>1, <2>2, GiveUpKeeps
  <2>3. CASE fetch' = [fetch EXCEPT !.surface = "public", !.attempt = 1, !.faults = @ + 1]
    <3>1. /\ DOMAIN fetch' = DOMAIN fetch /\ fetch'.pc = fetch.pc /\ fetch'.rows = fetch.rows
          /\ fetch'.failed = fetch.failed
      BY <2>1, <2>3, GetFacts
    <3>2. QED
      BY <2>1, <3>1, AskedAgainKeeps
  <2>4. QED
    BY <1>4, <2>2, <2>3 DEF RequestFails
<1>5. CASE Normalized
  BY <1>5, TextAcquiredKeeps DEF Normalized
<1>6. CASE Metadata
  BY <1>6, TextAcquiredKeeps DEF Metadata
<1>7. CASE Unreadable
  BY <1>7, GiveUpKeeps DEF Unreadable
<1>8. CASE Images
  BY <1>8, TextAcquiredKeeps DEF Images
<1>9. CASE UNCHANGED renditionVars
  BY <1>9 DEF RenditionInv, renditionVars, Follows, Candidates
<1>10. QED
  BY <1>1, <1>2, <1>3, <1>4, <1>5, <1>6, <1>7, <1>8, <1>9 DEF RenditionNext

\* What is preferred is of a kind as good, and authorised if the other is.
LEMMA PreferredIsAsGood ==
  ASSUME NEW a \in Renditions, NEW b \in Renditions, Preferred(a, b)
  PROVE  /\ KindRank(a) <= KindRank(b)
         /\ KindRank(a) = KindRank(b) /\ b.authorised => a.authorised
<1>1. Lexical(ChoiceKey(a), ChoiceKey(b)) /\ KindRank(a) \in Int /\ KindRank(b) \in Int
  BY Orders DEF KindRank
<1>2. a.authorised \in BOOLEAN /\ b.authorised \in BOOLEAN
  BY RenditionConstants DEF RenditionConstants
<1>3. KindRank(a) <= KindRank(b)
  BY <1>1 DEF Lexical, ChoiceKey
<1>4. ASSUME KindRank(a) = KindRank(b), b.authorised, ~a.authorised
      PROVE  FALSE
  BY <1>1, <1>4 DEF Lexical, ChoiceKey
<1>5. QED
  BY <1>3, <1>4

LEMMA RenditionInvChooses == RenditionInv => BestListed
<1> SUFFICES ASSUME RenditionInv PROVE BestListed
  OBVIOUS
<1>1. ASSUME fetch.pc = "acquired", NEW r \in Candidates(known) \ fetch.failed
      PROVE  /\ KindRank(fetch.rendition) <= KindRank(r)
             /\ KindRank(fetch.rendition) = KindRank(r) /\ r.authorised =>
                  fetch.rendition.authorised
  <2>1. /\ fetch.rendition \in Renditions /\ r \in Renditions
        /\ r = fetch.rendition \/ Preferred(fetch.rendition, r)
    BY <1>1 DEF RenditionInv, Candidates
  <2>2. CASE r = fetch.rendition
    BY <2>2 DEF KindRank
  <2>3. CASE Preferred(fetch.rendition, r)
    BY <2>1, <2>3, PreferredIsAsGood
  <2>4. QED
    BY <2>1, <2>2, <2>3
<1>2. fetch.pc = "refused" => Candidates(known) \subseteq fetch.failed
  BY DEF RenditionInv
<1>3. QED
  BY <1>1, <1>2 DEF BestListed

\* Whatever the register lists, in pages of any size, and however often it is rectified while it
\* is paged through: no rendition is passed over for a lesser one, and a title is refused only
\* when each was given up.
THEOREM RenditionIsBestListed == RenditionSpec => []BestListed
<1>1. RenditionInit => RenditionInv
  BY RenditionStarts
<1>2. RenditionInv /\ [RenditionNext]_renditionVars => RenditionInv'
  BY RenditionStep
<1>3. RenditionInv => BestListed
  BY RenditionInvChooses
<1>4. QED
  BY <1>1, <1>2, <1>3, PTL DEF RenditionSpec

--------------------------------------------------------------------------------
(* The adapters.  AdapterInv says that a rendition which was converted is    *)
(* neither waiting nor counted as not found, that no command has yielded a   *)
(* good text while another one is to be run, and what an OCR comes after.    *)

Offered == {"html", "docx", "rtf", "pdf"}
Conversions == {"html", "docx", "pdftotext", "antiword", "unrtf", "starwriter", "render", "ocr", "convert"}
LogRecords == [kind : Offered, command : Conversions, outcome : Outcomes]
StepRecords == [kind : Offered, command : Conversions, signature : Signatures]

\* An OCR is of a PDF whose own text the adapter did not accept.
Refused(entry, kind) ==
  entry.command = "pdftotext" /\ entry.kind = kind /\ ~Accepts(entry.outcome)

\* What was converted is no longer waiting and was found; before the document is taken no
\* command has yielded a good text.
AdapterInv ==
  /\ offered \subseteq Offered /\ waiting \subseteq offered /\ unfound \subseteq offered
  /\ log \in Seq(LogRecords)
  /\ phase \in {"landing", "choose", "convert", "taken", "missing", "failed"}
  /\ phase = "landing" => log = <<>> /\ waiting = offered
  /\ phase = "choose" => waiting # {}
  /\ phase = "convert" =>
       /\ step \in StepRecords /\ waiting # {} /\ step.kind = Best(waiting)
       /\ step.command = "starwriter" => adapter = "south-australia"
       /\ step.command = "ocr" => log # <<>> /\ Refused(log[Len(log)], step.kind)
       /\ \A i \in DOMAIN log : log[i].kind \notin waiting \ {step.kind}
  /\ phase = "choose" => \A i \in DOMAIN log : log[i].kind \notin waiting
  /\ unfound \cap waiting = {}
  /\ \A i \in DOMAIN log : log[i].kind \in offered \ unfound
  /\ phase \in {"choose", "convert"} => \A i \in DOMAIN log : ~Yields(log[i])
  /\ \A i \in DOMAIN log : Yields(log[i]) => i = Len(log) /\ phase = "taken"
  /\ phase = "taken" => log # <<>>
  /\ phase = "taken" /\ adapter \in {"federal-court", "south-australia"} => Yields(log[Len(log)])
  /\ \A i \in DOMAIN log : log[i].command = "ocr" => i > 1 /\ Refused(log[i - 1], log[i].kind)
  /\ phase = "missing" => log = <<>>

\* The best of some renditions is one of them.
LEMMA BestIsOne ==
  ASSUME NEW kinds, kinds \subseteq Offered, kinds # {}
  PROVE  Best(kinds) \in kinds
<1>1. \E kind \in kinds : \A other \in kinds : Preference(kind) <= Preference(other)
  <2>1. /\ Preference("html") = 0 /\ Preference("docx") = 1
        /\ Preference("rtf") = 2 /\ Preference("pdf") = 3
    BY DEF Preference
  <2>2. CASE "html" \in kinds
    BY <2>1, <2>2 DEF Offered
  <2>3. CASE "html" \notin kinds /\ "docx" \in kinds
    BY <2>1, <2>3 DEF Offered
  <2>4. CASE "html" \notin kinds /\ "docx" \notin kinds /\ "rtf" \in kinds
    BY <2>1, <2>4 DEF Offered
  <2>5. CASE kinds = {"pdf"}
    BY <2>1, <2>5
  <2>6. QED
    BY <2>2, <2>3, <2>4, <2>5 DEF Offered
<1>2. QED
  BY <1>1 DEF Best

\* No conversion begins with an OCR.
LEMMA FirstCommands ==
  ASSUME NEW kind \in Offered, NEW signature \in Signatures,
         NEW command, command = FirstCommand(kind, signature)
  PROVE  /\ command \in (Conversions \ {"ocr"}) \cup {"rejected"}
         /\ command = "starwriter" => adapter = "south-australia"
<1>1. HighCourtCommand(kind, signature)
        \in {"pdftotext", "docx", "antiword", "unrtf", "rejected"}
  <2>1. CASE signature = "other"
    BY <2>1 DEF HighCourtCommand
  <2>2. CASE signature # "other"
    BY <2>2 DEF HighCourtCommand, Signatures
  <2>3. QED
    BY <2>1, <2>2
<1>2. FederalCommand(kind, signature) \in {"pdftotext", "docx", "convert", "rejected"}
  BY DEF FederalCommand
<1>3. SouthAustraliaCommand(kind, signature)
        \in {"pdftotext", "antiword", "starwriter", "rejected"}
  BY DEF SouthAustraliaCommand
<1>4. CASE kind = "html"
  BY <1>4 DEF FirstCommand, Conversions
<1>5. CASE kind # "html" /\ adapter = "high-court"
  BY <1>1, <1>5 DEF FirstCommand, Conversions
<1>6. CASE kind # "html" /\ adapter = "federal-court"
  BY <1>2, <1>6 DEF FirstCommand, Conversions
<1>7. CASE kind # "html" /\ adapter = "south-australia"
  BY <1>3, <1>7 DEF FirstCommand, Conversions
<1>8. CASE kind # "html" /\ adapter \notin {"high-court", "federal-court", "south-australia"}
  BY <1>8 DEF FirstCommand, Conversions
<1>9. QED
  BY <1>4, <1>5, <1>6, <1>7, <1>8

\* What follows a command: a good text is taken, what is taken is good where the adapter looks,
\* and an OCR follows a PDF whose text is refused.
LEMMA Follow ==
  ASSUME NEW command \in Conversions, NEW signature \in Signatures, NEW outcome \in Outcomes,
         NEW next, next = FollowedBy(command, signature, outcome),
         command = "starwriter" => adapter = "south-australia"
  PROVE  /\ next \in (Conversions \ {"starwriter"}) \cup {"taken", "rejected"}
         /\ command # "render" /\ outcome = "good" => next = "taken"
         /\ next = "taken" /\ adapter \in {"federal-court", "south-australia"} =>
              command # "render" /\ outcome = "good"
         /\ next = "ocr" => command = "pdftotext" /\ ~Accepts(outcome)
<1>1. CASE command = "pdftotext"
  BY <1>1 DEF FollowedBy, AfterPdf, Accepts, Validates, Settled, Conversions, Outcomes
<1>2. CASE command = "unrtf"
  BY <1>2 DEF FollowedBy, AfterRtf, Accepts, Validates, Settled, Conversions, Outcomes
<1>3. CASE command = "antiword"
  <2>1. next = AfterLegacyWord(outcome)
    BY <1>3 DEF FollowedBy
  <2>2. CASE Accepts(outcome)
    <3>1. next = Settled(outcome)
      BY <2>1, <2>2 DEF AfterLegacyWord
    <3>2. QED
      BY <1>3, <2>2, <3>1 DEF Accepts, Validates, Settled, Conversions, Outcomes
  <2>3. CASE ~Accepts(outcome)
    <3>1. next \in {"render", "rejected"}
      BY <2>1, <2>3 DEF AfterLegacyWord
    <3>2. QED
      BY <1>3, <2>3, <3>1 DEF Accepts, Conversions, Outcomes
  <2>4. QED
    BY <2>2, <2>3
<1>4. CASE command = "render"
  BY <1>4 DEF FollowedBy, AfterRendering, Conversions, Outcomes
<1>5. CASE command = "starwriter"
  <2>1. next = AfterStarWriter(outcome)
    BY <1>5 DEF FollowedBy
  <2>2. next = IF outcome \in {"good", "poor"} THEN Settled(outcome) ELSE "unrtf"
    BY <2>1 DEF AfterStarWriter
  <2>3. QED
    BY <1>5, <2>2 DEF Settled, Conversions, Outcomes
<1>6. CASE command \in {"html", "docx", "ocr", "convert"}
  <2>1. next = AfterWord(command, signature, outcome)
    BY <1>6 DEF FollowedBy
  <2>2. CASE Accepts(outcome)
    <3>1. next = Settled(outcome)
      BY <2>1, <2>2 DEF AfterWord
    <3>2. QED
      BY <1>6, <2>2, <3>1 DEF Accepts, Validates, Settled, Conversions, Outcomes
  <2>3. CASE ~Accepts(outcome)
    <3>1. next \in {"antiword", "unrtf", "render", "rejected"}
      BY <2>1, <2>3 DEF AfterWord
    <3>2. QED
      BY <1>6, <2>3, <3>1 DEF Accepts, Conversions, Outcomes
  <2>4. QED
    BY <2>2, <2>3
<1>7. QED
  BY <1>1, <1>2, <1>3, <1>4, <1>5, <1>6 DEF Conversions

LEMMA AdapterStarts == AdapterInit => AdapterInv
<1> SUFFICES ASSUME AdapterInit PROVE AdapterInv
  OBVIOUS
<1>1. /\ waiting = offered /\ unfound = {} /\ log = <<>> /\ step = NoStep
      /\ phase = IF adapter = "south-australia" THEN "choose" ELSE "landing"
      /\ adapter \in Courts \cup States /\ offered \in Offers
  BY AdapterConstants DEF AdapterInit, AdapterConstants
<1>2. /\ offered \subseteq Offered
      /\ adapter = "south-australia" => offered # {}
  <2>1. CASE adapter = "high-court"
    BY <1>1, <2>1 DEF Offers, HighCourtOffers, Offered
  <2>2. CASE adapter = "federal-court"
    BY <1>1, <2>2 DEF Offers, FederalOffers, Offered
  <2>3. CASE adapter = "nsw-caselaw"
    BY <1>1, <2>3 DEF Offers, CaselawOffers, Offered
  <2>4. CASE adapter = "south-australia"
    BY <1>1, <2>4 DEF Offers, SouthAustraliaOffers, Offered
  <2>5. CASE adapter = "western-australia"
    BY <1>1, <2>5 DEF Offers, WesternAustraliaOffers, Offered
  <2>6. CASE adapter = "queensland"
    BY <1>1, <2>6 DEF Offers, QueenslandOffers, Offered
  <2>7. CASE adapter = "nsw"
    BY <1>1, <2>7 DEF Offers, NswOffers, Offered
  <2>8. CASE adapter = "tasmania"
    BY <1>1, <2>8 DEF Offers, TasmaniaOffers, Offered
  <2>9. adapter \in {"high-court", "federal-court", "nsw-caselaw", "south-australia",
                     "western-australia", "queensland", "nsw", "tasmania"}
    BY <1>1 DEF Courts, States
  <2>10. QED
    BY <2>9, <2>1, <2>2, <2>3, <2>4, <2>5, <2>6, <2>7, <2>8
<1>3. log \in Seq(LogRecords) /\ DOMAIN log = {}
  BY <1>1
<1>4. QED
  BY <1>1, <1>2, <1>3 DEF AdapterInv

\* A rendition gives way: the document is missing only if the site has none of its renditions,
\* so none was converted.
LEMMA GiveWayKeeps ==
  ASSUME AdapterInv, waiting # {}, NEW notFound, GiveWay(notFound),
         notFound \subseteq unfound \cup {Best(waiting)}, unfound \subseteq notFound,
         UNCHANGED <<adapter, offered>>, log' \in Seq(LogRecords),
         \A i \in DOMAIN log' : log'[i].kind \in offered \ notFound,
         \A i \in DOMAIN log' : log'[i].kind \notin waiting \ {Best(waiting)},
         \A i \in DOMAIN log' : ~Yields(log'[i]),
         \A i \in DOMAIN log' : log'[i].command = "ocr" => i > 1 /\ Refused(log'[i - 1], log'[i].kind)
  PROVE  AdapterInv'
<1>1. /\ offered \subseteq Offered /\ waiting \subseteq offered /\ unfound \subseteq offered
      /\ unfound \cap waiting = {}
  BY DEF AdapterInv
<1>2. Best(waiting) \in waiting
  BY <1>1, BestIsOne
<1>3. /\ waiting' = waiting \ {Best(waiting)} /\ unfound' = notFound
      /\ phase' = IF waiting \ {Best(waiting)} = {} THEN Exhausted(notFound) ELSE "choose"
  BY DEF GiveWay
<1>4. Exhausted(notFound) \in {"missing", "failed"}
      /\ (Exhausted(notFound) = "missing" => notFound = offered)
  BY <1>1, <1>2 DEF Exhausted
<1>5. /\ phase' \in {"choose", "missing", "failed"}
      /\ phase' = "choose" => waiting' # {}
      /\ phase' = "missing" => notFound = offered
  BY <1>3, <1>4
<1>6. phase' = "missing" => log' = <<>>
  <2>1. phase' = "missing" => DOMAIN log' = {}
    BY <1>5
  <2>2. DOMAIN log' = {} => log' = <<>>
    OBVIOUS
  <2>3. QED
    BY <2>1, <2>2
<1>7. /\ unfound' \cap waiting' = {} /\ waiting' \subseteq offered' /\ unfound' \subseteq offered'
  BY <1>1, <1>2, <1>3
<1>8. \A i \in DOMAIN log' : ~Yields(log[i])'
  BY DEF Yields
<1>9. /\ \A i \in DOMAIN log' : log'[i].kind \in offered' \ unfound'
      /\ \A i \in DOMAIN log' : log'[i].kind \notin waiting'
      /\ \A i \in DOMAIN log' : log'[i].command = "ocr" =>
           i > 1 /\ Refused(log[i - 1], log[i].kind)'
  BY <1>3 DEF Refused, Accepts, Validates
<1>10. QED
  BY <1>1, <1>5, <1>6, <1>7, <1>8, <1>9 DEF AdapterInv

LEMMA LandingKeeps ==
  ASSUME AdapterInv, Landing
  PROVE  AdapterInv'
<1>1. /\ log = <<>> /\ waiting = offered /\ UNCHANGED <<adapter, offered, waiting, unfound, step, log>>
  BY DEF Landing, AdapterInv
<1>2. PICK response \in Responses :
        phase' = CASE response = "ok" -> IF waiting = {} THEN Exhausted(unfound) ELSE "choose"
                   [] response = "missing" -> "missing"
                   [] OTHER -> "failed"
  BY DEF Landing
<1>3. Exhausted(unfound) \in {"missing", "failed"}
  BY DEF Exhausted
<1>4. /\ phase' \in {"choose", "missing", "failed"}
      /\ phase' = "choose" => waiting # {}
  BY <1>2, <1>3
<1>5. DOMAIN log' = {}
  BY <1>1
<1>6. QED
  BY <1>1, <1>4, <1>5 DEF AdapterInv

LEMMA FetchRenditionKeeps ==
  ASSUME AdapterInv, FetchRendition
  PROVE  AdapterInv'
<1> DEFINE kind == Best(waiting)
<1>1. /\ phase = "choose" /\ waiting # {} /\ waiting \subseteq Offered
      /\ \A i \in DOMAIN log : ~Yields(log[i])
      /\ UNCHANGED <<adapter, offered, log>>
  BY DEF FetchRendition, AdapterInv
<1>2. kind \in waiting /\ kind \in Offered
  BY <1>1, BestIsOne
<1>3. PICK response \in Responses, signature \in Signatures :
        LET command == FirstCommand(kind, signature)
        IN \/ /\ response = "aborts" /\ adapter # "federal-court"
              /\ phase' = "failed" /\ UNCHANGED <<waiting, unfound, step>>
           \/ /\ response = "ok" /\ command # "rejected"
              /\ step' = [command |-> command, kind |-> kind, signature |-> signature]
              /\ phase' = "convert" /\ UNCHANGED <<waiting, unfound>>
           \/ /\ \/ response \in {"missing", "refused"}
                 \/ response = "aborts" /\ adapter = "federal-court"
                 \/ response = "ok" /\ command = "rejected"
              /\ GiveWay(unfound \cup {k \in {kind} : response = "missing"})
  BY DEF FetchRendition, Responses
<1> DEFINE command == FirstCommand(kind, signature)
<1>4. CASE phase' = "failed" /\ UNCHANGED <<waiting, unfound, step>>
  BY <1>1, <1>4 DEF AdapterInv, Yields, Refused, Accepts, Validates
<1>5. CASE /\ command # "rejected"
           /\ step' = [command |-> command, kind |-> kind, signature |-> signature]
           /\ phase' = "convert" /\ UNCHANGED <<waiting, unfound>>
  <2>1. command \in Conversions \ {"ocr"} /\ (command = "starwriter" => adapter = "south-australia")
    BY <1>2, <1>5, FirstCommands
  <2>2. step' \in StepRecords /\ step'.kind = Best(waiting) /\ step'.command = command
    BY <1>2, <1>5, <2>1 DEF StepRecords
  <2>3. waiting' = waiting
    BY <1>5
  <2>4. step'.kind = Best(waiting')
    BY <2>2, <2>3
  <2> HIDE DEF command, kind
  <2>5. QED
    BY <1>1, <1>5, <2>1, <2>2, <2>4 DEF AdapterInv, Yields, Refused, Accepts, Validates
<1>6. CASE GiveWay(unfound \cup {k \in {kind} : response = "missing"})
  <2> DEFINE notFound == unfound \cup {k \in {kind} : response = "missing"}
  <2>1. notFound \subseteq unfound \cup {Best(waiting)} /\ unfound \subseteq notFound
    OBVIOUS
  <2>2. /\ \A i \in DOMAIN log : log[i].kind \in offered \ notFound
        /\ \A i \in DOMAIN log : log[i].kind \notin waiting \ {Best(waiting)}
    BY <1>1, <1>2 DEF AdapterInv
  <2>3. QED
    BY <1>1, <1>6, <2>1, <2>2, GiveWayKeeps DEF AdapterInv
<1>7. QED
  BY <1>3, <1>4, <1>5, <1>6

LEMMA ConvertKeeps ==
  ASSUME AdapterInv, Convert
  PROVE  AdapterInv'
<1>1. /\ phase = "convert" /\ step \in StepRecords /\ waiting # {} /\ step.kind = Best(waiting)
      /\ step.command = "starwriter" => adapter = "south-australia"
      /\ step.command = "ocr" => log # <<>> /\ Refused(log[Len(log)], step.kind)
      /\ log \in Seq(LogRecords) /\ waiting \subseteq offered /\ offered \subseteq Offered
      /\ unfound \cap waiting = {}
      /\ UNCHANGED <<adapter, offered>>
  BY DEF Convert, AdapterInv
<1>2. /\ \A i \in DOMAIN log : log[i].kind \in offered \ unfound
      /\ \A i \in DOMAIN log : log[i].kind \notin waiting \ {step.kind}
      /\ \A i \in DOMAIN log : ~Yields(log[i])
      /\ \A i \in DOMAIN log : log[i].command = "ocr" => i > 1 /\ Refused(log[i - 1], log[i].kind)
  BY <1>1 DEF AdapterInv
<1>3. PICK outcome \in Outcomes :
        LET next == FollowedBy(step.command, step.signature, outcome)
        IN /\ log' = Append(log, [kind |-> step.kind, command |-> step.command, outcome |-> outcome])
           /\ CASE next = "taken" -> phase' = "taken" /\ UNCHANGED <<waiting, unfound, step>>
                [] next = "rejected" -> GiveWay(unfound)
                [] OTHER -> /\ step' = [step EXCEPT !.command = next]
                            /\ UNCHANGED <<phase, waiting, unfound>>
  BY DEF Convert
<1> DEFINE next == FollowedBy(step.command, step.signature, outcome)
           entry == [kind |-> step.kind, command |-> step.command, outcome |-> outcome]
<1>4. /\ step.kind \in Offered /\ step.command \in Conversions /\ step.signature \in Signatures
  BY <1>1 DEF StepRecords
<1>5. Best(waiting) \in waiting
  BY <1>1, BestIsOne
<1>6. /\ next \in (Conversions \ {"starwriter"}) \cup {"taken", "rejected"}
      /\ step.command # "render" /\ outcome = "good" => next = "taken"
      /\ next = "taken" /\ adapter \in {"federal-court", "south-australia"} =>
           step.command # "render" /\ outcome = "good"
      /\ next = "ocr" => step.command = "pdftotext" /\ ~Accepts(outcome)
  BY <1>1, <1>4, Follow
<1>7. /\ entry \in LogRecords /\ entry.kind = step.kind /\ entry.command = step.command
      /\ entry.outcome = outcome
  BY <1>4 DEF LogRecords
<1>8. log' = Append(log, entry)
  BY <1>3
<1>9. /\ log' \in Seq(LogRecords) /\ DOMAIN log' = 1 .. Len(log) + 1 /\ Len(log') = Len(log) + 1
      /\ \A i \in DOMAIN log : log'[i] = log[i]
      /\ log'[Len(log) + 1] = entry
      /\ DOMAIN log = 1 .. Len(log) /\ Len(log) \in Nat
  <2> HIDE DEF entry
  <2>1. QED
    BY <1>1, <1>7, <1>8
<1> HIDE DEF entry, next
<1>10. \A i \in DOMAIN log' : i \in DOMAIN log \/ i = Len(log) + 1
  BY <1>9
<1>11. \A i \in DOMAIN log' : log'[i].command = "ocr" => i > 1 /\ Refused(log'[i - 1], log'[i].kind)
  <2> SUFFICES ASSUME NEW i \in DOMAIN log', log'[i].command = "ocr"
               PROVE  i > 1 /\ Refused(log'[i - 1], log'[i].kind)
    OBVIOUS
  <2>1. CASE i \in DOMAIN log
    <3>1. i > 1 /\ Refused(log[i - 1], log[i].kind)
      BY <1>2, <1>9, <2>1
    <3>2. i - 1 \in DOMAIN log
      BY <1>9, <2>1, <3>1
    <3>3. QED
      BY <1>9, <2>1, <3>1, <3>2
  <2>2. CASE i = Len(log) + 1
    <3>1. log # <<>> /\ Refused(log[Len(log)], step.kind)
      BY <1>1, <1>7, <1>9, <2>2
    <3>2. Len(log) # 0
      BY <1>1, <3>1
    <3>3. Len(log) \in DOMAIN log /\ i - 1 = Len(log) /\ i > 1
      BY <1>9, <2>2, <3>2
    <3>4. QED
      BY <1>7, <1>9, <2>2, <3>1, <3>3
  <2>3. QED
    BY <1>10, <2>1, <2>2
<1>12. /\ \A i \in DOMAIN log' : log'[i].kind \in offered \ unfound
       /\ \A i \in DOMAIN log' : log'[i].kind \notin waiting \ {step.kind}
  BY <1>1, <1>2, <1>5, <1>7, <1>9, <1>10
<1>13. \A i \in DOMAIN log : ~Yields(log'[i])
  BY <1>2, <1>9
<1>14. next # "taken" => ~Yields(entry)
  BY <1>6, <1>7 DEF Yields
<1>15. CASE next = "taken"
  <2>1. phase' = "taken" /\ UNCHANGED <<waiting, unfound, step>>
    BY <1>3, <1>15 DEF next
  <2>2. \A i \in DOMAIN log' : Yields(log'[i]) => i = Len(log')
    BY <1>9, <1>10, <1>13
  <2>3. adapter \in {"federal-court", "south-australia"} => Yields(log'[Len(log')])
    BY <1>6, <1>7, <1>9, <1>15 DEF Yields
  <2>4. log' # <<>>
    BY <1>9
  <2>5. QED
    BY <1>1, <1>9, <1>11, <1>12, <2>1, <2>2, <2>3, <2>4
       DEF AdapterInv, Yields, Refused, Accepts, Validates
<1>16. CASE next # "taken"
  <2>1. \A i \in DOMAIN log' : ~Yields(log'[i])
    BY <1>9, <1>10, <1>13, <1>14, <1>16
  <2>2. CASE next = "rejected"
    <3>1. GiveWay(unfound)
      BY <1>3, <2>2 DEF next
    <3>2. QED
      BY <1>1, <1>9, <1>11, <1>12, <2>1, <3>1, GiveWayKeeps
  <2>3. CASE next # "rejected"
    <3>1. step' = [step EXCEPT !.command = next] /\ UNCHANGED <<phase, waiting, unfound>>
      BY <1>3, <1>16, <2>3 DEF next
    <3>2. /\ step' \in StepRecords /\ step'.command = next /\ step'.kind = step.kind
          /\ next \in Conversions \ {"starwriter"}
      BY <1>1, <1>6, <1>16, <2>3, <3>1 DEF StepRecords
    <3>3. step'.command = "ocr" => log' # <<>> /\ Refused(log'[Len(log')], step'.kind)
      BY <1>6, <1>7, <1>9, <3>2 DEF Refused
    <3>4. Best(waiting') = Best(waiting)
      BY <3>1
    <3>5. QED
      BY <1>1, <1>9, <1>11, <1>12, <2>1, <3>1, <3>2, <3>3, <3>4
         DEF AdapterInv, Yields, Refused, Accepts, Validates
  <2>4. QED
    BY <2>2, <2>3
<1>17. QED
  BY <1>15, <1>16

LEMMA AdapterStep == AdapterInv /\ [AdapterNext]_adapterVars => AdapterInv'
<1> SUFFICES ASSUME AdapterInv, [AdapterNext]_adapterVars PROVE AdapterInv'
  OBVIOUS
<1>1. CASE Landing
  BY <1>1, LandingKeeps
<1>2. CASE FetchRendition
  BY <1>2, FetchRenditionKeeps
<1>3. CASE Convert
  BY <1>3, ConvertKeeps
<1>4. CASE UNCHANGED adapterVars
  BY <1>4 DEF AdapterInv, adapterVars, Yields, Refused, Accepts, Validates
<1>5. QED
  BY <1>1, <1>2, <1>3, <1>4 DEF AdapterNext

\* What TextChosen says follows.
LEMMA AdapterInvChooses == AdapterInv => TextChosen
<1> SUFFICES ASSUME AdapterInv PROVE TextChosen
  OBVIOUS
<1>1. phase = "taken" => Last(log) = log[Len(log)]
  BY DEF Last
<1>2. QED
  BY <1>1 DEF AdapterInv, TextChosen, Refused

\* Every adapter that is checked, for every document and whatever its commands make of the
\* bytes: the first good text is the document's, what is validated is good, an OCR is of a PDF
\* whose own text was refused, and a document that was there to convert is never missing.
THEOREM AdapterTakesBestText == AdapterSpec => []TextChosen
<1>1. AdapterInit => AdapterInv
  BY AdapterStarts
<1>2. AdapterInv /\ [AdapterNext]_adapterVars => AdapterInv'
  BY AdapterStep
<1>3. AdapterInv => TextChosen
  BY AdapterInvChooses
<1>4. QED
  BY <1>1, <1>2, <1>3, PTL DEF AdapterSpec
--------------------------------------------------------------------------------
(* The words of an office file.  MarkupInv says that what was read of the    *)
(* HTML and of the file has the same words so far, and that they are as far  *)
(* apart since the last letter, counting the space that the sink still       *)
(* holds back.                                                               *)

Items == {Letter, Space, Edge}
Sinks == [output : Seq(Items), pendingSpace : BOOLEAN, hasInlineText : BOOLEAN]
Widths == {Joined, Space, Edge}
ReadRecords == [gaps : Seq(Widths), gap : Widths, begun : BOOLEAN]

\* The gap a letter would close now.
Due(read, s) ==
  IF read.gap # Edge /\ s.pendingSpace /\ s.hasInlineText THEN Space ELSE read.gap

Alike(s, text) ==
  LET out == ReadThrough(s.output)
      in == ReadThrough(text)
  IN /\ out.gaps = in.gaps /\ out.begun = in.begun
     /\ out.begun => Due(out, s) = in.gap /\ (out.gap # Edge => s.hasInlineText)

MarkupInv ==
  /\ sink \in Sinks /\ source \in Seq(Items)
  /\ Alike(sink, source)

\* What a reader has seen after each item.
Unread == [gaps |-> <<>>, gap |-> Joined, begun |-> FALSE]
ReadsAlong(f, text, n) ==
  f = [k \in 0 .. n |-> IF k = 0 THEN Unread ELSE Reads(f[k - 1], text[k])]

LEMMA ReadingExists ==
  ASSUME NEW text, NEW n \in Nat
  PROVE  \E f : ReadsAlong(f, text, n)
<1> DEFINE Bad == {k \in Nat : ~\E f : ReadsAlong(f, text, k)}
<1> SUFFICES ASSUME Bad # {} PROVE FALSE
  OBVIOUS
<1>1. PICK m \in Bad : \A k \in Bad : m <= k
  BY LeastNumber
<1>2. m # 0
  <2> DEFINE f == [k \in 0 .. 0 |-> Unread]
  <2>1. ReadsAlong(f, text, 0)
    BY DEF ReadsAlong
  <2>2. QED
    BY <2>1
<1>3. m - 1 \in Nat /\ m - 1 \notin Bad
  BY <1>1, <1>2
<1>4. PICK f : ReadsAlong(f, text, m - 1)
  BY <1>3
<1> DEFINE g == [k \in 0 .. m |-> IF k = m THEN Reads(f[m - 1], text[m]) ELSE f[k]]
<1>5. \A k \in 0 .. m - 1 : f[k] = IF k = 0 THEN Unread ELSE Reads(f[k - 1], text[k])
  BY <1>4 DEF ReadsAlong
<1>6. \A k \in 0 .. m : g[k] = IF k = 0 THEN Unread ELSE Reads(g[k - 1], text[k])
  BY <1>2, <1>3, <1>5
<1>7. ReadsAlong(g, text, m)
  BY <1>6 DEF ReadsAlong
<1>8. QED
  BY <1>1, <1>7

LEMMA ReadingUnique ==
  ASSUME NEW text, NEW longer, NEW n \in Nat, NEW l \in Nat, n <= l,
         \A k \in 1 .. n : text[k] = longer[k],
         NEW f, NEW g, ReadsAlong(f, text, n), ReadsAlong(g, longer, l)
  PROVE  \A k \in 0 .. n : f[k] = g[k]
<1> DEFINE Bad == {k \in 0 .. n : f[k] # g[k]}
<1> SUFFICES ASSUME Bad # {} PROVE FALSE
  OBVIOUS
<1>1. PICK m \in Bad : \A k \in Bad : m <= k
  <2>1. Bad \subseteq Nat
    OBVIOUS
  <2> HIDE DEF Bad
  <2>2. QED
    BY <2>1, LeastNumber
<1>2. /\ \A k \in 0 .. n : f[k] = IF k = 0 THEN Unread ELSE Reads(f[k - 1], text[k])
      /\ \A k \in 0 .. n : g[k] = IF k = 0 THEN Unread ELSE Reads(g[k - 1], longer[k])
  BY DEF ReadsAlong
<1>3. m # 0
  BY <1>2
<1>4. m \in 1 .. n /\ m - 1 \in 0 .. n /\ m - 1 \notin Bad
  BY <1>1, <1>3
<1>5. f[m - 1] = g[m - 1] /\ text[m] = longer[m]
  BY <1>4
<1>6. f[m] = Reads(f[m - 1], text[m]) /\ g[m] = Reads(g[m - 1], longer[m])
  BY <1>2, <1>3, <1>4
<1>7. QED
  BY <1>1, <1>5, <1>6

LEMMA ReadThroughFollows ==
  ASSUME NEW text, Len(text) \in Nat
  PROVE  \E f : ReadsAlong(f, text, Len(text)) /\ ReadThrough(text) = f[Len(text)]
<1> DEFINE f == CHOOSE f : f = [n \in 0 .. Len(text) |->
                  IF n = 0 THEN [gaps |-> <<>>, gap |-> Joined, begun |-> FALSE]
                  ELSE Reads(f[n - 1], text[n])]
<1>1. ReadThrough(text) = f[Len(text)]
  BY DEF ReadThrough
<1>2. \E h : h = [n \in 0 .. Len(text) |->
                  IF n = 0 THEN [gaps |-> <<>>, gap |-> Joined, begun |-> FALSE]
                  ELSE Reads(h[n - 1], text[n])]
  BY ReadingExists DEF ReadsAlong, Unread
<1>3. f = [n \in 0 .. Len(text) |->
             IF n = 0 THEN [gaps |-> <<>>, gap |-> Joined, begun |-> FALSE]
             ELSE Reads(f[n - 1], text[n])]
  BY <1>2
<1> HIDE DEF f
<1>4. ReadsAlong(f, text, Len(text))
  BY <1>3 DEF ReadsAlong, Unread
<1>5. QED
  BY <1>1, <1>4

\* Item by item.
LEMMA ReadNothing == ReadThrough(<<>>) = Unread
<1>1. PICK f : ReadsAlong(f, <<>>, Len(<<>>)) /\ ReadThrough(<<>>) = f[Len(<<>>)]
  BY ReadThroughFollows
<1>2. Len(<<>>) = 0
  OBVIOUS
<1>3. f[0] = Unread
  BY <1>1, <1>2 DEF ReadsAlong
<1>4. QED
  BY <1>1, <1>2, <1>3

LEMMA ReadOn ==
  ASSUME NEW text \in Seq(Items), NEW item \in Items
  PROVE  ReadThrough(Append(text, item)) = Reads(ReadThrough(text), item)
<1> DEFINE n == Len(text)
           longer == Append(text, item)
<1>1. /\ n \in Nat /\ Len(longer) = n + 1 /\ longer[n + 1] = item
      /\ \A k \in 1 .. n : text[k] = longer[k]
  OBVIOUS
<1> HIDE DEF n, longer
<1>2. PICK f : ReadsAlong(f, text, n) /\ ReadThrough(text) = f[n]
  BY <1>1, ReadThroughFollows DEF n
<1>3. PICK g : ReadsAlong(g, longer, n + 1) /\ ReadThrough(longer) = g[n + 1]
  <2>1. n + 1 \in Nat
    BY <1>1
  <2>2. QED
    BY <1>1, <2>1, ReadThroughFollows
<1>4. f[n] = g[n]
  BY <1>1, <1>2, <1>3, ReadingUnique
<1>5. g[n + 1] = Reads(g[n + 1 - 1], longer[n + 1])
  BY <1>1, <1>3 DEF ReadsAlong
<1>6. n + 1 - 1 = n
  BY <1>1
<1>7. QED
  BY <1>1, <1>2, <1>3, <1>4, <1>5, <1>6 DEF longer

LEMMA ReadTypes ==
  ASSUME NEW read \in ReadRecords, NEW item \in Items
  PROVE  Reads(read, item) \in ReadRecords
<1>1. /\ read = [gaps |-> read.gaps, gap |-> read.gap, begun |-> read.begun]
      /\ read.gaps \in Seq(Widths) /\ read.gap \in Widths /\ read.begun \in BOOLEAN
  BY DEF ReadRecords
<1>2. CASE item = Letter
  <2>1. <<>> \in Seq(Widths) /\ Append(read.gaps, read.gap) \in Seq(Widths)
    BY <1>1
  <2>2. Joined \in Widths
    BY DEF Widths
  <2>3. QED
    BY <1>2, <2>1, <2>2 DEF Reads, ReadRecords
<1>3. CASE item # Letter
  <2>1. Wider(read.gap, item) \in Widths
    BY DEF Wider, Widths
  <2>2. Reads(read, item) = [read EXCEPT !.gap = Wider(read.gap, item)]
    BY <1>3 DEF Reads
  <2>3. QED
    BY <2>1, <2>2 DEF ReadRecords
<1>4. QED
  BY <1>2, <1>3

LEMMA ReadThroughType ==
  ASSUME NEW text \in Seq(Items)
  PROVE  ReadThrough(text) \in ReadRecords
<1>1. Len(text) \in Nat /\ \A k \in 1 .. Len(text) : text[k] \in Items
  OBVIOUS
<1>2. PICK f : ReadsAlong(f, text, Len(text)) /\ ReadThrough(text) = f[Len(text)]
  BY <1>1, ReadThroughFollows
<1> DEFINE Bad == {k \in 0 .. Len(text) : f[k] \notin ReadRecords}
<1>3. \A k \in 0 .. Len(text) : f[k] = IF k = 0 THEN Unread ELSE Reads(f[k - 1], text[k])
  BY <1>2 DEF ReadsAlong
<1>4. ASSUME Bad # {} PROVE FALSE
  <2>1. Bad \subseteq Nat
    BY <1>1
  <2>2. PICK m \in Bad : \A k \in Bad : m <= k
    BY <1>4, <2>1, LeastNumber
  <2>3. Unread \in ReadRecords
    <3>1. <<>> \in Seq(Widths) /\ Joined \in Widths
      BY DEF Widths
    <3>2. QED
      BY <3>1 DEF Unread, ReadRecords
  <2>4. m \in 1 .. Len(text) /\ m - 1 \in 0 .. Len(text) /\ m - 1 \notin Bad
    BY <1>1, <1>3, <2>2, <2>3
  <2>5. f[m] = Reads(f[m - 1], text[m]) /\ f[m - 1] \in ReadRecords /\ text[m] \in Items
    BY <1>1, <1>3, <2>4
  <2>6. QED
    BY <2>2, <2>5, ReadTypes
<1>5. QED
  BY <1>1, <1>2, <1>4

\* Two texts with the same words so far, both at the edge of a block since the last letter.
AtEdge(output, text) ==
  LET out == ReadThrough(output)
      in == ReadThrough(text)
  IN /\ out.gaps = in.gaps /\ out.begun = in.begun
     /\ out.begun => out.gap = Edge /\ in.gap = Edge

LEMMA EdgeReads ==
  ASSUME NEW read \in ReadRecords
  PROVE  /\ Reads(read, Edge).gaps = read.gaps /\ Reads(read, Edge).begun = read.begun
         /\ Reads(read, Edge).gap = Edge
         /\ Reads(read, Space).gaps = read.gaps /\ Reads(read, Space).begun = read.begun
         /\ Reads(read, Space).gap = IF read.gap = Edge THEN Edge ELSE Space
         /\ Reads(read, Letter) =
              [gaps |-> IF read.begun THEN Append(read.gaps, read.gap) ELSE <<>>,
               gap |-> Joined, begun |-> TRUE]
<1>1. Edge # Letter /\ Space # Letter /\ Space # Edge
  BY DEF Edge, Letter, Space
<1>2. Wider(read.gap, Edge) = Edge /\ Wider(read.gap, Space) = IF read.gap = Edge THEN Edge ELSE Space
  BY <1>1 DEF Wider
<1>3. /\ Reads(read, Edge) = [read EXCEPT !.gap = Wider(read.gap, Edge)]
      /\ Reads(read, Space) = [read EXCEPT !.gap = Wider(read.gap, Space)]
  BY <1>1 DEF Reads
<1>4. QED
  BY <1>2, <1>3 DEF Reads, ReadRecords

LEMMA EdgesMeet ==
  ASSUME NEW output \in Seq(Items), NEW text \in Seq(Items),
         ReadThrough(output).gaps = ReadThrough(text).gaps,
         ReadThrough(output).begun = ReadThrough(text).begun
  PROVE  AtEdge(Append(output, Edge), Append(text, Edge))
<1>1. Edge \in Items
  BY DEF Items
<1>2. /\ ReadThrough(Append(output, Edge)) = Reads(ReadThrough(output), Edge)
      /\ ReadThrough(Append(text, Edge)) = Reads(ReadThrough(text), Edge)
  BY <1>1, ReadOn
<1>3. ReadThrough(output) \in ReadRecords /\ ReadThrough(text) \in ReadRecords
  BY ReadThroughType
<1>4. QED
  BY <1>2, <1>3, EdgeReads DEF AtEdge

LEMMA EdgeAgain ==
  ASSUME NEW output \in Seq(Items), NEW text \in Seq(Items), AtEdge(output, text)
  PROVE  AtEdge(Append(output, Edge), text)
<1>1. Edge \in Items
  BY DEF Items
<1>2. ReadThrough(Append(output, Edge)) = Reads(ReadThrough(output), Edge)
  BY <1>1, ReadOn
<1>3. QED
  BY <1>2, ReadThroughType, EdgeReads DEF AtEdge

LEMMA EdgeAlike ==
  ASSUME NEW s \in Sinks, NEW text \in Seq(Items), AtEdge(s.output, text)
  PROVE  Alike(s, text)
BY DEF AtEdge, Alike, Due

\* The steps of the sink.
LEMMA EmitSink ==
  ASSUME NEW s \in Sinks, NEW item \in Items
  PROVE  /\ Emit(s, item) \in Sinks /\ Emit(s, item).output = Append(s.output, item)
         /\ Emit(s, item).pendingSpace = s.pendingSpace
         /\ Emit(s, item).hasInlineText = s.hasInlineText
<1>1. Append(s.output, item) \in Seq(Items)
  BY DEF Sinks
<1>2. QED
  BY <1>1 DEF Emit, Sinks

LEMMA SetSink ==
  ASSUME NEW s \in Sinks, NEW p \in BOOLEAN
  PROVE  LET pended == [s EXCEPT !.pendingSpace = p]
             texted == [s EXCEPT !.pendingSpace = p, !.hasInlineText = TRUE]
         IN /\ pended \in Sinks /\ pended.output = s.output
            /\ pended.pendingSpace = p /\ pended.hasInlineText = s.hasInlineText
            /\ texted \in Sinks /\ texted.output = s.output
            /\ texted.pendingSpace = p /\ texted.hasInlineText = TRUE
BY DEF Sinks

LEMMA FlushSink ==
  ASSUME NEW s \in Sinks
  PROVE  /\ Flush(s) \in Sinks /\ Flush(s).hasInlineText = s.hasInlineText
         /\ ~(Flush(s).pendingSpace /\ Flush(s).hasInlineText)
         /\ Flush(s).output = IF s.pendingSpace /\ s.hasInlineText THEN Append(s.output, Space)
                              ELSE s.output
<1>1. Space \in Items
  BY DEF Items
<1>2. CASE s.pendingSpace /\ s.hasInlineText
  <2>1. Flush(s) = [Emit(s, Space) EXCEPT !.pendingSpace = FALSE]
    BY <1>2 DEF Flush
  <2>2. QED
    <3>1. /\ Emit(s, Space) \in Sinks /\ Emit(s, Space).output = Append(s.output, Space)
          /\ Emit(s, Space).hasInlineText = s.hasInlineText
      BY <1>1, EmitSink
    <3>2. QED
      BY <1>2, <2>1, <3>1, SetSink
<1>3. CASE ~(s.pendingSpace /\ s.hasInlineText)
  BY <1>3 DEF Flush
<1>4. QED
  BY <1>2, <1>3

LEMMA FlushAlike ==
  ASSUME NEW s \in Sinks, NEW text \in Seq(Items), Alike(s, text)
  PROVE  /\ Alike(Flush(s), text)
         /\ ReadThrough(Flush(s).output).begun =>
              ReadThrough(Flush(s).output).gap = ReadThrough(text).gap
<1> DEFINE out == ReadThrough(s.output)
<1>1. s.output \in Seq(Items) /\ Space \in Items
  BY DEF Sinks, Items
<1>2. out \in ReadRecords
  BY <1>1, ReadThroughType
<1>3. CASE s.pendingSpace /\ s.hasInlineText
  <2>1. ReadThrough(Flush(s).output) = Reads(out, Space)
    BY <1>1, <1>3, FlushSink, ReadOn
  <2>2. QED
    BY <1>2, <1>3, <2>1, FlushSink, EdgeReads DEF Alike, Due
<1>4. CASE ~(s.pendingSpace /\ s.hasInlineText)
  BY <1>4, FlushSink DEF Alike, Due
<1>5. QED
  BY <1>3, <1>4

\* After a letter, two readers who agreed agree again.
LEMMA LettersAgree ==
  ASSUME NEW out \in ReadRecords, NEW in \in ReadRecords, out.gaps = in.gaps,
         out.begun = in.begun, out.begun => out.gap = in.gap
  PROVE  /\ Reads(out, Letter) = Reads(in, Letter)
         /\ Reads(out, Letter).gap = Joined
<1> DEFINE Closed(read) == IF read.begun THEN Append(read.gaps, read.gap) ELSE <<>>
<1>1. /\ Reads(out, Letter) = [gaps |-> Closed(out), gap |-> Joined, begun |-> TRUE]
      /\ Reads(in, Letter) = [gaps |-> Closed(in), gap |-> Joined, begun |-> TRUE]
  BY EdgeReads
<1>2. Closed(out) = Closed(in)
  OBVIOUS
<1> HIDE DEF Closed
<1>3. QED
  BY <1>1, <1>2

LEMMA LetterAlike ==
  ASSUME NEW s \in Sinks, NEW text \in Seq(Items), Alike(s, text)
  PROVE  SinkLetter(s) \in Sinks /\ Alike(SinkLetter(s), Append(text, Letter))
<1> DEFINE f == Flush(s)
           e == Emit(f, Letter)
           out == ReadThrough(f.output)
           in == ReadThrough(text)
<1>1. f \in Sinks /\ f.output \in Seq(Items) /\ Letter \in Items
  BY FlushSink DEF Sinks, Items
<1>2. SinkLetter(s) = [e EXCEPT !.pendingSpace = FALSE, !.hasInlineText = TRUE]
  BY DEF SinkLetter
<1>3. e \in Sinks /\ e.output = Append(f.output, Letter)
  BY <1>1, EmitSink
<1>4. /\ ReadThrough(Append(f.output, Letter)) = Reads(out, Letter)
      /\ ReadThrough(Append(text, Letter)) = Reads(in, Letter)
  BY <1>1, ReadOn
<1>5. out \in ReadRecords /\ in \in ReadRecords
  BY <1>1, ReadThroughType
<1>6. out.gaps = in.gaps /\ out.begun = in.begun /\ (out.begun => out.gap = in.gap)
  BY FlushAlike DEF Alike
<1> HIDE DEF f, e, out, in
<1>7. /\ SinkLetter(s) \in Sinks /\ SinkLetter(s).output = Append(f.output, Letter)
      /\ SinkLetter(s).pendingSpace = FALSE /\ SinkLetter(s).hasInlineText = TRUE
  BY <1>2, <1>3 DEF Sinks
<1>8. Reads(out, Letter) = Reads(in, Letter) /\ Reads(out, Letter).gap = Joined
  BY <1>5, <1>6, LettersAgree
<1>9. QED
  BY <1>4, <1>7, <1>8 DEF Alike, Due

LEMMA SpaceAlike ==
  ASSUME NEW s \in Sinks, NEW text \in Seq(Items), Alike(s, text)
  PROVE  SinkSpace(s) \in Sinks /\ Alike(SinkSpace(s), Append(text, Space))
<1>1. /\ SinkSpace(s) \in Sinks /\ SinkSpace(s).output = s.output
      /\ SinkSpace(s).pendingSpace = (s.pendingSpace \/ s.hasInlineText)
      /\ SinkSpace(s).hasInlineText = s.hasInlineText
  BY DEF SinkSpace, Sinks
<1>2. Space \in Items
  BY DEF Items
<1>3. ReadThrough(Append(text, Space)) = Reads(ReadThrough(text), Space)
  BY <1>2, ReadOn
<1>4. ReadThrough(text) \in ReadRecords
  BY ReadThroughType
<1>5. Space # Edge
  BY DEF Space, Edge
<1> DEFINE out == ReadThrough(s.output)
           in == ReadThrough(text)
           after == ReadThrough(Append(text, Space))
<1>6. /\ after.gaps = in.gaps /\ after.begun = in.begun
      /\ after.gap = IF in.gap = Edge THEN Edge ELSE Space
  BY <1>3, <1>4, EdgeReads
<1>7. /\ out.gaps = in.gaps /\ out.begun = in.begun
      /\ out.begun => Due(out, s) = in.gap /\ (out.gap # Edge => s.hasInlineText)
  BY DEF Alike
<1>8. out.begun => Due(out, SinkSpace(s)) = after.gap
  <2>1. CASE out.gap = Edge
    BY <1>1, <1>6, <1>7, <2>1 DEF Due
  <2>2. CASE out.gap # Edge /\ out.begun
    <3>1. s.hasInlineText /\ SinkSpace(s).pendingSpace /\ SinkSpace(s).hasInlineText
      BY <1>1, <1>7, <2>2
    <3>2. in.gap # Edge
      BY <1>5, <1>7, <2>2 DEF Due
    <3>3. QED
      BY <1>6, <2>2, <3>1, <3>2 DEF Due
  <2>3. QED
    BY <2>1, <2>2
<1>9. QED
  BY <1>1, <1>6, <1>7, <1>8 DEF Alike

\* What the sink makes of the edges of an element.
LEMMA BlockAlike ==
  ASSUME NEW s \in Sinks, NEW text \in Seq(Items), Alike(s, text)
  PROVE  LET opened == Emit(Boundary(s), Edge)
             closed == Boundary(Emit(s, Edge))
         IN /\ opened \in Sinks /\ AtEdge(opened.output, Append(text, Edge))
            /\ closed \in Sinks /\ AtEdge(closed.output, Append(text, Edge))
<1>1. s.output \in Seq(Items) /\ Edge \in Items
  BY DEF Sinks, Items
<1>2. Boundary(s) \in Sinks /\ Boundary(s).output = s.output
  BY DEF Boundary, Sinks
<1>3. Emit(Boundary(s), Edge) \in Sinks /\ Emit(Boundary(s), Edge).output = Append(s.output, Edge)
  BY <1>1, <1>2, EmitSink
<1>4. Boundary(Emit(s, Edge)) \in Sinks /\ Boundary(Emit(s, Edge)).output = Append(s.output, Edge)
  BY <1>1, EmitSink DEF Boundary, Sinks
<1>5. AtEdge(Append(s.output, Edge), Append(text, Edge))
  BY <1>1, EdgesMeet DEF Alike
<1>6. QED
  BY <1>3, <1>4, <1>5

LEMMA BreakAlike ==
  ASSUME NEW s \in Sinks, NEW text \in Seq(Items), Alike(s, text)
  PROVE  LET broken == [Emit(Flush(s), Edge) EXCEPT !.pendingSpace = FALSE]
         IN broken \in Sinks /\ AtEdge(broken.output, Append(text, Edge))
<1>1. Flush(s) \in Sinks /\ Flush(s).output \in Seq(Items) /\ Edge \in Items
  BY FlushSink DEF Sinks, Items
<1>2. AtEdge(Append(Flush(s).output, Edge), Append(text, Edge))
  BY <1>1, FlushAlike, EdgesMeet DEF Alike
<1>3. QED
  BY <1>1, <1>2, EmitSink DEF Sinks

\* What a reader of the file sees at the start of an element.
Shown(text, element) == IF element \in {"block", "break"} THEN Append(text, Edge) ELSE text

LEMMA OpenAlike ==
  ASSUME MarkupConstants, NEW s \in Sinks, NEW text \in Seq(Items), Alike(s, text), NEW element \in Elements
  PROVE  /\ Shown(text, element) \in Seq(Items)
         /\ SinkOpen(s, element) \in Sinks /\ Alike(SinkOpen(s, element), Shown(text, element))
         /\ LET empty == SinkClose(SinkOpen(s, element), element)
            IN empty \in Sinks /\ Alike(empty, Shown(text, element))
<1>1. element \in {"block", "inline", "dropped", "unwrapped", "break"}
  BY DEF MarkupConstants
<1>2. Edge \in Items /\ Append(text, Edge) \in Seq(Items)
  BY DEF Items
<1>3. CASE element = "block"
  <2> DEFINE opened == Emit(Boundary(s), Edge)
             empty == Boundary(Emit(opened, Edge))
  <2>1. opened \in Sinks /\ AtEdge(opened.output, Append(text, Edge))
    BY BlockAlike
  <2>2. /\ SinkOpen(s, element) = opened /\ SinkClose(opened, element) = empty
        /\ Shown(text, element) = Append(text, Edge)
    BY <1>3 DEF SinkOpen, SinkClose, Shown
  <2> HIDE DEF opened
  <2>3. empty \in Sinks /\ empty.output = Append(opened.output, Edge)
    BY <1>2, <2>1, EmitSink DEF Boundary, Sinks
  <2>4. opened.output \in Seq(Items)
    BY <2>1 DEF Sinks
  <2>5. AtEdge(empty.output, Append(text, Edge))
    BY <1>2, <2>1, <2>3, <2>4, EdgeAgain
  <2> HIDE DEF empty
  <2>6. QED
    BY <1>2, <2>1, <2>2, <2>3, <2>5, EdgeAlike
<1>4. CASE element = "break"
  <2> DEFINE broken == [Emit(Flush(s), Edge) EXCEPT !.pendingSpace = FALSE]
  <2>1. broken \in Sinks /\ AtEdge(broken.output, Append(text, Edge))
    BY BreakAlike
  <2>2. /\ SinkOpen(s, element) = broken /\ SinkClose(broken, element) = broken
        /\ Shown(text, element) = Append(text, Edge)
    BY <1>4 DEF SinkOpen, SinkClose, Shown
  <2> HIDE DEF broken
  <2>3. QED
    BY <1>2, <2>1, <2>2, EdgeAlike
<1>5. CASE element = "inline"
  <2>1. /\ SinkOpen(s, element) = Flush(s) /\ SinkClose(Flush(s), element) = Flush(s)
        /\ Shown(text, element) = text
    BY <1>5 DEF SinkOpen, SinkClose, Shown
  <2>2. QED
    BY <2>1, FlushSink, FlushAlike
<1>6. CASE element \in {"dropped", "unwrapped"}
  <2>1. /\ SinkOpen(s, element) = s /\ SinkClose(s, element) = s /\ Shown(text, element) = text
    BY <1>6 DEF SinkOpen, SinkClose, Shown
  <2>2. QED
    BY <2>1
<1>7. QED
  BY <1>1, <1>3, <1>4, <1>5, <1>6

LEMMA MarkupStarts == MarkupInit => MarkupInv
<1> SUFFICES ASSUME MarkupInit PROVE MarkupInv
  OBVIOUS
<1>1. /\ sink = [output |-> <<>>, pendingSpace |-> FALSE, hasInlineText |-> FALSE]
      /\ source = <<>>
  BY DEF MarkupInit
<1>2. <<>> \in Seq(Items)
  OBVIOUS
<1>3. sink \in Sinks
  BY <1>1, <1>2 DEF Sinks
<1>4. Alike(sink, source)
  BY <1>1, ReadNothing DEF Alike, Unread
<1>5. QED
  BY <1>1, <1>2, <1>3, <1>4 DEF MarkupInv

LEMMA MarkupStep ==
  ASSUME MarkupConstants, MarkupInv, [MarkupNext]_markupVars
  PROVE  MarkupInv'
<1>1. sink \in Sinks /\ source \in Seq(Items) /\ Alike(sink, source)
  BY DEF MarkupInv
<1>2. CASE UNCHANGED <<sink, source>>
  BY <1>1, <1>2 DEF MarkupInv
<1>3. ASSUME NEW item \in {Letter, Space}, ReadText(item) PROVE MarkupInv'
  <2>1. CASE UNCHANGED <<sink, source>>
    BY <1>2, <2>1
  <2>2. CASE item = Letter /\ sink' = SinkLetter(sink) /\ source' = Append(source, Letter)
    <3>1. Append(source, Letter) \in Seq(Items)
      BY <1>1 DEF Items
    <3>2. QED
      BY <1>1, <2>2, <3>1, LetterAlike DEF MarkupInv
  <2>3. CASE item = Space /\ sink' = SinkSpace(sink) /\ source' = Append(source, Space)
    <3>1. Append(source, Space) \in Seq(Items)
      BY <1>1 DEF Items
    <3>2. QED
      BY <1>1, <2>3, <3>1, SpaceAlike DEF MarkupInv
  <2>4. Letter # Space
    BY DEF Letter, Space
  <2>5. QED
    BY <1>3, <2>1, <2>2, <2>3, <2>4 DEF ReadText
<1>4. ASSUME NEW element \in Elements, NEW closing \in BOOLEAN, OpenElement(element, closing)
      PROVE  MarkupInv'
  <2>1. CASE UNCHANGED <<sink, source>>
    BY <1>2, <2>1
  <2>2. CASE /\ source' = Shown(source, element)
             /\ sink' \in {SinkOpen(sink, element), SinkClose(SinkOpen(sink, element), element)}
    BY <1>1, <2>2, OpenAlike DEF MarkupInv
  <2>3. QED
    BY <1>4, <2>1, <2>2 DEF OpenElement, Refuse, Sees, Shown
<1>5. ASSUME NEW element \in Elements, CloseElement(element) PROVE MarkupInv'
  <2>1. CASE UNCHANGED <<sink, source>>
    BY <1>2, <2>1
  <2>2. CASE /\ element = "block" /\ sink' = SinkClose(sink, element)
             /\ source' = Append(source, Edge)
    <3>1. SinkClose(sink, element) = Boundary(Emit(sink, Edge))
      BY <2>2 DEF SinkClose
    <3>2. sink' \in Sinks /\ AtEdge(sink'.output, source')
      BY <1>1, <2>2, <3>1, BlockAlike
    <3>3. source' \in Seq(Items)
      BY <1>1, <2>2 DEF Items
    <3>4. Alike(sink', source')
      BY <3>2, <3>3, EdgeAlike
    <3>5. QED
      BY <3>2, <3>3, <3>4 DEF MarkupInv
  <2>3. CASE element # "block" /\ sink' = SinkClose(sink, element) /\ source' = source
    BY <1>2, <2>3 DEF SinkClose
  <2>4. QED
    BY <1>5, <2>1, <2>2, <2>3 DEF CloseElement, Refuse
<1>6. CASE EndOfFile
  BY <1>2, <1>6 DEF EndOfFile
<1>7. QED
  BY <1>2, <1>3, <1>4, <1>5, <1>6 DEF MarkupNext, markupVars

\* Whatever a file contains and however deep it goes: its HTML has its words, with no space lost
\* between two of them and none within one.
THEOREM WordsAlwaysKept == ASSUME MarkupConstants PROVE MarkupSpec => []WordsKept
<1>1. MarkupInit => MarkupInv
  BY MarkupStarts
<1>2. MarkupInv /\ [MarkupNext]_markupVars => MarkupInv'
  BY MarkupStep
<1>3. MarkupInv => WordsKept
  BY DEF MarkupInv, Alike, WordsKept, Gaps
<1>4. QED
  BY <1>1, <1>2, <1>3, PTL DEF MarkupSpec
--------------------------------------------------------------------------------
(* The numbers of a Word file.  NumberingInv says that of each number shown  *)
(* so far the counters of its list are a continuation, or are ahead of it at *)
(* the first level they differ at, so that the next one comes after it.      *)

NoneApart == None \notin Int
Rows == [Levels -> Int \cup {None}]
Marked == [instance : Instances, number : Seq(Int)]

NumberingTypeOK ==
  /\ sheet.abstract \in [Instances -> DOMAIN Abstracts]
  /\ sheet.start \in [Instances -> {None, 3}]
  /\ counters \in [Instances -> Rows]
  /\ marks \in Seq(Marked)

\* A number that comes before another.
Precedes(a, b) ==
  \/ \E k \in 1 .. Len(a) : k <= Len(b) /\ a[k] < b[k] /\ \A j \in 1 .. k - 1 : a[j] = b[j]
  \/ Len(a) < Len(b) /\ \A j \in 1 .. Len(a) : a[j] = b[j]

\* A number, and the counters of its list when it has been shown.
Behind(a, row) ==
  /\ Len(a) <= 3
  /\ \/ \E k \in 1 .. Len(a) : row[k] \in Int /\ a[k] < row[k] /\ \A j \in 1 .. k - 1 : a[j] = row[j]
     \/ \A j \in 1 .. Len(a) : a[j] = row[j]

NumberingInv ==
  /\ NumberingTypeOK
  /\ \A m \in DOMAIN marks : Behind(marks[m].number, counters[marks[m].instance])
  /\ \A m, n \in DOMAIN marks :
       m < n /\ marks[m].instance = marks[n].instance => Precedes(marks[m].number, marks[n].number)

\* A function on the first numbers is a sequence.
LEMMA AsSequence ==
  ASSUME NEW S, NEW n \in Nat, NEW s \in [1 .. n -> S]
  PROVE  s \in Seq(S) /\ Len(s) = n
<1>1. s \in Seq(S)
  BY SeqDef
<1>2. QED
  BY <1>1

\* What the counters of a list are when a level of it counts.
LEMMA CountsOn ==
  ASSUME NumberingConstants, NoneApart, NumberingTypeOK, NEW i \in Instances, NEW l \in Levels, NEW row \in Rows
  PROVE  LET next == Counted(i, l, Begun(i, l, row))
         IN /\ next \in Rows
            /\ \A k \in 1 .. l : next[k] \in Int
            /\ \A k \in 1 .. l - 1 : row[k] # None => next[k] = row[k]
            /\ row[l] # None => next[l] = row[l] + 1
            /\ Restarted(i, l, next) \in Rows
            /\ \A k \in 1 .. l : Restarted(i, l, next)[k] = next[k]
<1>1. \A k \in Levels : Level(i, k).start \in Int
  <2> TAKE k \in Levels
  <2>1. Abstracts[sheet.abstract[i]] \in [Levels -> [start : Int, restartAfter : Nat]]
    BY DEF NumberingConstants, NumberingTypeOK
  <2>2. Abstracts[sheet.abstract[i]][k] \in [start : Int, restartAfter : Nat]
    BY <2>1
  <2>3. sheet.start[i] = None \/ sheet.start[i] \in Int
    BY DEF NumberingTypeOK
  <2>4. QED
    BY <2>2, <2>3 DEF Level
<1> DEFINE begun == Begun(i, l, row)
           next == Counted(i, l, begun)
<1>2. /\ begun \in Rows
      /\ \A k \in 1 .. l - 1 : begun[k] \in Int /\ (row[k] # None => begun[k] = row[k])
      /\ begun[l] = row[l]
  BY <1>1 DEF Begun, Rows, Levels
<1> HIDE DEF begun
<1>3. /\ next \in Rows
      /\ next[l] = IF begun[l] = None THEN Level(i, l).start ELSE begun[l] + 1
      /\ \A k \in Levels \ {l} : next[k] = begun[k]
  <2>1. (IF begun[l] = None THEN Level(i, l).start ELSE begun[l] + 1) \in Int
    BY <1>1, <1>2 DEF Rows
  <2>2. QED
    BY <1>2, <2>1 DEF Counted, Rows
<1> HIDE DEF next
<1>4. next[l] \in Int
  BY <1>1, <1>2, <1>3 DEF Rows
<1>5. \A k \in 1 .. l - 1 : next[k] = begun[k]
  BY <1>3 DEF Levels
<1>6. \A k \in 1 .. l : next[k] \in Int
  BY <1>2, <1>4, <1>5 DEF Levels
<1>7. /\ Restarted(i, l, next) \in Rows
      /\ \A k \in 1 .. l : Restarted(i, l, next)[k] = next[k]
  BY <1>3 DEF Restarted, Rows, Levels
<1>8. row[l] # None => next[l] = row[l] + 1
  BY <1>2, <1>3
<1>9. QED
  BY <1>2, <1>3, <1>5, <1>6, <1>7, <1>8 DEF begun, next

\* The number a level shows comes after every number that its list is behind.
LEMMA NextPrecedes ==
  ASSUME NEW l \in Levels, NEW row \in Rows, NEW next \in Rows, NoneApart,
         \A k \in 1 .. l : next[k] \in Int,
         \A k \in 1 .. l - 1 : row[k] # None => next[k] = row[k],
         row[l] # None => next[l] = row[l] + 1,
         NEW number \in Seq(Int), Len(number) = l, \A k \in 1 .. l : number[k] = next[k],
         NEW a \in Seq(Int), Behind(a, row)
  PROVE  Precedes(a, number)
<1>1. Len(a) \in Nat /\ Len(a) <= 3 /\ \A k \in 1 .. Len(a) : a[k] \in Int
  BY DEF Behind
<1>2. l \in 1 .. 3
  BY DEF Levels
<1>3. /\ \A k \in 1 .. l - 1 : row[k] \in Int => number[k] = row[k]
      /\ row[l] \in Int => number[l] = row[l] + 1
  <2>1. \A k \in 1 .. l : row[k] \in Int => row[k] # None
    BY DEF NoneApart
  <2>2. \A k \in 1 .. l - 1 : k \in 1 .. l
    BY <1>2
  <2>3. l \in 1 .. l
    BY <1>2
  <2>4. \A k \in 1 .. l - 1 : row[k] \in Int => number[k] = row[k]
    BY <2>1, <2>2
  <2>5. QED
    BY <2>1, <2>3, <2>4
<1>4. CASE \E k \in 1 .. Len(a) : row[k] \in Int /\ a[k] < row[k] /\ \A j \in 1 .. k - 1 : a[j] = row[j]
  <2>1. PICK k \in 1 .. Len(a) : row[k] \in Int /\ a[k] < row[k] /\ \A j \in 1 .. k - 1 : a[j] = row[j]
    BY <1>4
  <2>2. \A j \in 1 .. k - 1 : j \in 1 .. Len(a) /\ row[j] \in Int
    BY <1>1, <2>1
  <2>3. \A j \in 1 .. l - 1 : j < k => number[j] = a[j]
    <3> TAKE j \in 1 .. l - 1
    <3> HAVE j < k
    <3>1. j \in 1 .. k - 1
      BY <1>1, <1>2
    <3>2. QED
      BY <1>3, <2>1, <2>2, <3>1
  <2>4. CASE k <= l
    <3>1. k \in 1 .. l /\ \A j \in 1 .. k - 1 : number[j] = a[j]
      BY <1>1, <1>2, <2>3, <2>4
    <3>2. number[k] \in {row[k], row[k] + 1}
      BY <1>1, <1>2, <1>3, <2>1, <2>4
    <3>3. a[k] < number[k]
      BY <1>1, <2>1, <3>2
    <3>4. QED
      BY <3>1, <3>3, <1>2 DEF Precedes
  <2>5. CASE l < k
    <3>1. l \in 1 .. k - 1 /\ l \in 1 .. Len(a) /\ \A j \in 1 .. l - 1 : number[j] = a[j]
      BY <1>1, <1>2, <2>3, <2>5
    <3>2. number[l] = row[l] + 1 /\ a[l] = row[l]
      BY <1>3, <2>1, <2>2, <3>1
    <3>3. a[l] < number[l]
      BY <1>1, <3>1, <3>2
    <3>4. QED
      BY <3>1, <3>3, <1>2 DEF Precedes
  <2>6. QED
    BY <1>1, <1>2, <2>1, <2>4, <2>5
<1>5. CASE \A j \in 1 .. Len(a) : a[j] = row[j]
  <2>1. \A j \in 1 .. Len(a) : row[j] \in Int
    BY <1>1, <1>5
  <2>2. \A j \in 1 .. l - 1 : j \in 1 .. Len(a) => number[j] = a[j]
    BY <1>3, <1>5, <2>1
  <2>3. CASE Len(a) < l
    <3>1. \A j \in 1 .. Len(a) : number[j] = a[j]
      BY <1>1, <1>2, <2>2, <2>3
    <3>2. QED
      BY <2>3, <3>1 DEF Precedes
  <2>4. CASE l <= Len(a)
    <3>1. l \in 1 .. Len(a) /\ \A j \in 1 .. l - 1 : number[j] = a[j]
      BY <1>1, <1>2, <2>2, <2>4
    <3>2. number[l] = row[l] + 1 /\ a[l] = row[l]
      BY <1>3, <1>5, <2>1, <3>1
    <3>3. a[l] < number[l]
      BY <1>1, <3>1, <3>2
    <3>4. QED
      BY <3>1, <3>3, <1>2 DEF Precedes
  <2>5. QED
    BY <1>1, <1>2, <2>3, <2>4
<1>6. QED
  BY <1>4, <1>5 DEF Behind

\* Counters that hold a number are ahead of, or go on from, all that came before it.
LEMMA PrecedesBehind ==
  ASSUME NEW a \in Seq(Int), NEW b \in Seq(Int), Len(a) <= 3, Len(b) <= 3,
         NEW row, \A k \in 1 .. Len(b) : row[k] = b[k],
         Precedes(a, b)
  PROVE  Behind(a, row)
<1>1. /\ Len(a) \in Nat /\ Len(b) \in Nat
      /\ \A k \in 1 .. Len(a) : a[k] \in Int
      /\ \A k \in 1 .. Len(b) : b[k] \in Int /\ row[k] = b[k]
  OBVIOUS
<1>2. CASE \E k \in 1 .. Len(a) : k <= Len(b) /\ a[k] < b[k] /\ \A j \in 1 .. k - 1 : a[j] = b[j]
  <2>1. PICK k \in 1 .. Len(a) : k <= Len(b) /\ a[k] < b[k] /\ \A j \in 1 .. k - 1 : a[j] = b[j]
    BY <1>2
  <2>2. row[k] \in Int /\ a[k] < row[k] /\ \A j \in 1 .. k - 1 : a[j] = row[j]
    BY <1>1, <2>1
  <2>3. QED
    BY <2>2 DEF Behind
<1>3. CASE Len(a) < Len(b) /\ \A j \in 1 .. Len(a) : a[j] = b[j]
  <2>1. \A j \in 1 .. Len(a) : a[j] = row[j]
    BY <1>1, <1>3
  <2>2. QED
    BY <2>1 DEF Behind
<1>4. QED
  BY <1>2, <1>3 DEF Precedes

LEMMA NumberingStarts == NumberingInit => NumberingInv
<1> SUFFICES ASSUME NumberingInit PROVE NumberingInv
  OBVIOUS
<1>1. sheet.abstract \in [Instances -> DOMAIN Abstracts] /\ sheet.start \in [Instances -> {None, 3}]
  BY DEF NumberingInit
<1>2. counters \in [Instances -> Rows]
  BY DEF NumberingInit, Unset, Rows
<1>3. marks = <<>>
  BY DEF NumberingInit
<1>4. QED
  BY <1>1, <1>2, <1>3 DEF NumberingInv, NumberingTypeOK

LEMMA NumberingStep ==
  ASSUME NumberingConstants, NoneApart, NumberingInv, [NumberingNext]_numberingVars
  PROVE  NumberingInv'
<1>1. CASE UNCHANGED numberingVars
  BY <1>1 DEF NumberingInv, NumberingTypeOK, numberingVars, Behind, Precedes
<1>2. ASSUME NEW style, NEW setting, Paragraph(style, setting)
      PROVE  NumberingInv'
  <2> DEFINE i == Numbering(style, setting).instance
             l == Numbering(style, setting).level
             row == counters[i]
             next == Counted(i, l, Begun(i, l, row))
             number == SubSeq(next, 1, l)
             mark == [instance |-> i, number |-> number]
  <2>1. /\ i \in Instances /\ l \in Levels /\ sheet' = sheet
        /\ counters' = [counters EXCEPT ![i] = Restarted(i, l, next)]
        /\ marks' = Append(marks, mark)
    BY <1>2 DEF Paragraph, Mark
  <2> HIDE DEF i, l
  <2>2. row \in Rows /\ NumberingTypeOK
    BY <2>1 DEF NumberingInv, NumberingTypeOK
  <2>3. /\ next \in Rows
        /\ \A k \in 1 .. l : next[k] \in Int
        /\ \A k \in 1 .. l - 1 : row[k] # None => next[k] = row[k]
        /\ row[l] # None => next[l] = row[l] + 1
        /\ Restarted(i, l, next) \in Rows
        /\ \A k \in 1 .. l : Restarted(i, l, next)[k] = next[k]
    BY <2>1, <2>2, CountsOn
  <2> HIDE DEF next, row
  <2>4. number \in Seq(Int) /\ Len(number) = l /\ \A k \in 1 .. l : number[k] = next[k]
    <3>1. l \in 1 .. 3 /\ next \in [1 .. 3 -> Int \cup {None}]
      BY <2>1, <2>3 DEF Levels, Rows
    <3>2. next \in Seq(Int \cup {None}) /\ Len(next) = 3
      BY <3>1, AsSequence
    <3>3. number = [k \in 1 .. l |-> next[k]]
      BY <3>1, <3>2
    <3>4. QED
      BY <2>3, <3>1, <3>3
  <2> HIDE DEF number
  <2>5. mark \in Marked
    BY <2>1, <2>4 DEF Marked
  <2>6. /\ marks' \in Seq(Marked) /\ Len(marks') = Len(marks) + 1
        /\ DOMAIN marks' = DOMAIN marks \cup {Len(marks) + 1}
        /\ marks'[Len(marks) + 1] = mark
        /\ \A m \in DOMAIN marks : marks'[m] = marks[m] /\ m < Len(marks) + 1 /\ marks[m] \in Marked
        /\ Len(marks) + 1 \notin DOMAIN marks /\ Len(marks) \in Nat
    BY <2>1, <2>2, <2>5 DEF NumberingTypeOK
  <2>7. NumberingTypeOK'
    BY <2>1, <2>2, <2>3, <2>6 DEF NumberingTypeOK
  <2>8. \A m \in DOMAIN marks : marks[m].instance = i => Precedes(marks[m].number, number)
    <3> TAKE m \in DOMAIN marks
    <3> HAVE marks[m].instance = i
    <3>1. Behind(marks[m].number, row) /\ marks[m].number \in Seq(Int)
      BY <2>6 DEF NumberingInv, Marked, row
    <3>2. QED
      BY <2>1, <2>2, <2>3, <2>4, <3>1, NextPrecedes DEF row
  <2>9. ASSUME NEW m \in DOMAIN marks'
        PROVE  Behind(marks'[m].number, counters'[marks'[m].instance])
    <3>1. CASE m = Len(marks) + 1
      <4>1. marks'[m].number = number /\ counters'[marks'[m].instance] = Restarted(i, l, next)
        BY <2>1, <2>2, <2>6, <3>1 DEF NumberingTypeOK
      <4>2. \A k \in 1 .. Len(number) : number[k] = Restarted(i, l, next)[k]
        BY <2>3, <2>4
      <4>3. QED
        BY <2>1, <2>4, <4>1, <4>2 DEF Behind, Levels
    <3>2. CASE m \in DOMAIN marks /\ marks[m].instance = i
      <4>1. counters'[marks'[m].instance] = Restarted(i, l, next) /\ marks'[m].number = marks[m].number
        BY <2>1, <2>2, <2>6, <3>2 DEF NumberingTypeOK
      <4>2. /\ Precedes(marks[m].number, number) /\ marks[m].number \in Seq(Int)
            /\ Len(marks[m].number) <= 3
        BY <2>6, <2>8, <3>2 DEF Marked, NumberingInv, Behind
      <4>3. Len(number) <= 3 /\ \A k \in 1 .. Len(number) : Restarted(i, l, next)[k] = number[k]
        BY <2>1, <2>3, <2>4 DEF Levels
      <4>4. QED
        BY <2>4, <4>1, <4>2, <4>3, PrecedesBehind
    <3>3. CASE m \in DOMAIN marks /\ marks[m].instance # i
      BY <2>1, <2>2, <2>6, <3>3 DEF NumberingInv, NumberingTypeOK
    <3>4. QED
      BY <2>6, <3>1, <3>2, <3>3
  <2>10. ASSUME NEW m \in DOMAIN marks', NEW n \in DOMAIN marks', m < n,
                marks'[m].instance = marks'[n].instance
         PROVE  Precedes(marks'[m].number, marks'[n].number)
    <3>1. m \in DOMAIN marks
      BY <2>6, <2>10
    <3>2. CASE n = Len(marks) + 1
      BY <2>6, <2>8, <2>10, <3>1, <3>2
    <3>3. CASE n \in DOMAIN marks
      BY <2>6, <2>10, <3>1, <3>3 DEF NumberingInv
    <3>4. QED
      BY <2>6, <3>2, <3>3
  <2>11. QED
    BY <2>7, <2>9, <2>10 DEF NumberingInv
<1>3. QED
  BY <1>1, <1>2 DEF NumberingNext

LEMMA NumberingInvAscends == NumberingInv => NumbersAscend
<1> DEFINE Apart(a, b) == {k \in DOMAIN a \cap DOMAIN b : a[k] # b[k]}
           Ascends(a, b) ==
             IF Apart(a, b) = {} THEN Len(a) < Len(b)
             ELSE \E k \in Apart(a, b) : a[k] < b[k] /\ \A j \in Apart(a, b) : k <= j
<1> SUFFICES ASSUME NumberingInv, NEW m \in 1 .. Len(marks), NEW n \in 1 .. Len(marks),
                    m < n, marks[m].instance = marks[n].instance
             PROVE  Ascends(marks[m].number, marks[n].number)
  BY DEF NumbersAscend
<1>1. DOMAIN marks = 1 .. Len(marks) /\ marks[m] \in Marked /\ marks[n] \in Marked
  BY DEF NumberingInv, NumberingTypeOK
<1>2. ASSUME NEW a \in Seq(Int), NEW b \in Seq(Int), Precedes(a, b) PROVE Ascends(a, b)
  <2>1. /\ Len(a) \in Nat /\ DOMAIN a = 1 .. Len(a) /\ \A k \in 1 .. Len(a) : a[k] \in Int
        /\ Len(b) \in Nat /\ DOMAIN b = 1 .. Len(b) /\ \A k \in 1 .. Len(b) : b[k] \in Int
    OBVIOUS
  <2>2. CASE \E k \in 1 .. Len(a) : k <= Len(b) /\ a[k] < b[k] /\ \A j \in 1 .. k - 1 : a[j] = b[j]
    <3>1. PICK k \in 1 .. Len(a) : k <= Len(b) /\ a[k] < b[k] /\ \A j \in 1 .. k - 1 : a[j] = b[j]
      BY <2>2
    <3>2. k \in Apart(a, b)
      BY <2>1, <3>1
    <3>3. \A j \in Apart(a, b) : k <= j
      BY <2>1, <3>1
    <3> HIDE DEF Apart
    <3>4. QED
      BY <3>1, <3>2, <3>3
  <2>3. CASE Len(a) < Len(b) /\ \A j \in 1 .. Len(a) : a[j] = b[j]
    <3>1. Apart(a, b) = {}
      BY <2>1, <2>3
    <3> HIDE DEF Apart
    <3>2. QED
      BY <2>3, <3>1
  <2>4. QED
    BY <1>2, <2>2, <2>3 DEF Precedes
<1>3. /\ marks[m].number \in Seq(Int) /\ marks[n].number \in Seq(Int)
      /\ Precedes(marks[m].number, marks[n].number)
  BY <1>1 DEF NumberingInv, Marked
<1> HIDE DEF Ascends
<1>4. QED
  BY <1>2, <1>3

\* Whatever styles and numberings a Word file has, and however many paragraphs: of two
\* numbers of a list the later one is the greater, so that no two are the same.
THEOREM NumbersAlwaysAscend ==
  ASSUME NumberingConstants, NoneApart PROVE NumberingSpec => []NumbersAscend
<1>1. NumberingInit => NumberingInv
  BY NumberingStarts
<1>2. NumberingInv /\ [NumberingNext]_numberingVars => NumberingInv'
  BY NumberingStep
<1>3. NumberingInv => NumbersAscend
  BY NumberingInvAscends
<1>4. QED
  BY <1>1, <1>2, <1>3, PTL DEF NumberingSpec
================================================================================
