----------------------------- MODULE MCComponents ----------------------------
(* The components that are sequential or small, one at a time. *)
EXTENDS SigningKeys, CorpusBuild, BrowserTransport, SourceIngest, FrlRendition, AdapterRenditions

CONSTANTS
  Parts,  \* the components that are checked
  Styles, Instances, MaxParagraphs,
  Elements, MaxDepth, MaxTokens,
  Limits, Around, MaxRequested, MaxQuestions, MaxSwitches,
  Scores, BlockSize, MaxRows, MaxLimit,
  Requested, MaxPerDocument, MaxK, Widening, MinCandidates, RankConstant,
  Sites, Judgments, Unusable, RowsPerPage, FederalShare, Attempts, MaxPublished, MaxWithdrawn,
  MaxBlocks, EmbedMaxTokens, PrefixTokens,
  None

\* A version with two rectifications, two volumes of its Word file, and an explanatory
\* statement.
ARendition(rectification, primary, volume, kind) ==
  [rectification |-> rectification, primary |-> primary, volume |-> volume, kind |-> kind,
   authorised |-> rectification = 0]
TheRenditions ==
  {ARendition(0, TRUE, 0, "epub"), ARendition(0, TRUE, 0, "docx"), ARendition(0, TRUE, 1, "docx"),
   ARendition(0, TRUE, 0, "pdf"), ARendition(0, FALSE, 0, "pdf"),
   ARendition(1, TRUE, 0, "epub"), ARendition(1, TRUE, 0, "pdf"), ARendition(1, TRUE, 0, "other")}

\* Abstract numberings: levels that restart after the one above or go on.
L(start, restartAfter) == [start |-> start, restartAfter |-> restartAfter]
Abstracts == [default |-> <<L(1, 0), L(1, 1), L(0, 2)>>,
              continued |-> <<L(1, 0), L(1, 0), L(1, 1)>>]

\* The texts of a document, a cache that knows one of them, and two sources.
TheContents == {<<"t1">>, <<"t2", "t1">>}
TheSeeds == {{}, {"t1"}}
LargestFirst == <<"frl", "ato">>

\* Two generations of a source: the lengths of the chunks of its documents.
Corpora == [g1 |-> [a |-> <<3, 0, 2>>, b |-> <<1>>], g2 |-> [a |-> <<2, 1>>, b |-> <<4>>]]

\* The chunks of an old document, its intro first, and of a newer one.
AChunk(document, intro) == [document |-> document, intro |-> intro]
Catalogue == <<AChunk(1, TRUE), AChunk(1, FALSE), AChunk(1, FALSE), AChunk(2, FALSE)>>
Dates == <<1, 2>>

\* What a court lists, newest first.
Listings == {<<3, 4, 5, 6, 7>>, <<3, 5, 4, 6>>}

\* The elements of a document that interact, and how many nodes it takes.
Alphabets ==
  {[tags |-> {"text", "table", "tr", "td", "caption"}, nodes |-> 6],
   [tags |-> {"text", "table", "tr", "td"}, nodes |-> 7],
   [tags |-> {"text", "heading", "div", "link"}, nodes |-> 4],
   [tags |-> {"text", "dt", "dd", "span"}, nodes |-> 5],
   [tags |-> {"text", "ul", "li", "p"}, nodes |-> 5],
   [tags |-> {"text", "pre", "heading", "name"}, nodes |-> 4]}

\* Headings, paragraphs shorter and longer than a chunk, words that a heading leaves no room
\* for, markers of one and of several words, and a table of rows.
AWord(tokens) == [tokens |-> tokens, glued |-> FALSE, ends |-> FALSE, marker |-> FALSE, anchors |-> FALSE]
TheEnd == [AWord(1) EXCEPT !.ends = TRUE]
MarkerOf(tokens) == [AWord(tokens) EXCEPT !.marker = TRUE]
GluedTo(tokens) == [AWord(tokens) EXCEPT !.glued = TRUE]
AnchorWord == [MarkerOf(1) EXCEPT !.anchors = TRUE]
AShape(kind, anchor, words) == [kind |-> kind, anchor |-> anchor, words |-> words]
Shapes ==
  LET w == AWord(1) e == TheEnd m == MarkerOf(1) g == GluedTo(1)
  IN [title |-> AShape("heading", "unlinked", <<w, w>>),
      part |-> AShape("heading", "linked", <<w>>),
      short |-> AShape("prose", "linked", <<w, w>>),
      marked |-> AShape("prose", "marked", <<w, AnchorWord, w>>),
      cited |-> AShape("prose", "none", <<m, g, w, w, w, m, g, w, w>>),
      long |-> AShape("prose", "linked", <<w, w, e, w, w, w, e, w>>),
      citing |-> AShape("prose", "linked", <<w, w, MarkerOf(2), GluedTo(3), w>>),
      figure |-> AShape("prose", "none", <<AWord(5), w>>),
      wide |-> AShape("prose", "none", <<w, AWord(4)>>),
      rows |-> AShape("table", "marked", <<w, e, w, AnchorWord, e, w, w, e>>)]

VARIABLES
  part,
  sheet, counters, marks,
  pc, stack, roots, sink, source, tokens,
  active, question, cursor, pages, outcome, questions, switches,
  database, sidecar, damaged, eligible, limit, rows, blocks, heaps, scan, hits,
  request, rankings, ranked, deduped, answer, ranking,
  site, listing, pinned, shown, changes, counted, pending, answers, snapshot, inventory, discovery,
  alphabet, nodes, target, titled, named, chunked,
  document, stage, done, headings, units, current, packed, chunks

Numbering == INSTANCE DocxNumbering
Markup == INSTANCE OfficeMarkup
Pages == INSTANCE ChunkPages
Vectors == INSTANCE VectorScan
Ranking == INSTANCE SearchRanking
Discovery == INSTANCE CourtDiscovery WITH outcome <- discovery
Document == INSTANCE DocumentBlocks
Chunks == INSTANCE Chunker WITH MaxTokens <- EmbedMaxTokens, pending <- headings

ASSUME ComponentConstants ==
  /\ KeyConstants /\ BuildConstants
  /\ Numbering!NumberingConstants
  /\ Markup!MarkupConstants
  /\ Pages!PageConstants
  /\ Vectors!ScanConstants
  /\ Ranking!RankingConstants
  /\ Discovery!CourtConstants
  /\ Document!BlockConstants
  /\ Chunks!ChunkerConstants

ofNumbering == <<sheet, counters, marks>>
ofMarkup == <<pc, stack, roots, sink, source, tokens>>
ofPages == <<active, question, cursor, pages, outcome, questions, switches>>
ofVectors == <<database, sidecar, damaged, eligible, limit, rows, blocks, heaps, scan, hits>>
ofRanking == <<request, rankings, ranked, deduped, answer, ranking>>
ofDiscovery == <<site, listing, pinned, shown, changes, counted, pending, answers, snapshot,
                 inventory, discovery>>
ofDocument == <<alphabet, nodes, target, titled, named, chunked>>
ofChunks == <<document, stage, done, headings, units, current, packed, chunks>>
vars == <<part, keyVars, browserVars, renditionVars, ofNumbering, ofMarkup, ingestVars, buildVars,
          ofPages, ofVectors, ofRanking, ofDiscovery, adapterVars, ofDocument, ofChunks>>

\* The parts that are not under check stay in one initial state, or have no state.
NoKeys == setup = (CHOOSE mode \in Modes : TRUE) /\ published = [k \in Keys |-> 0]
NoBrowser == redirect = [url \in Urls |-> NoUrl]
NoRendition == listed = {}
NoIngest == committed = Empty({})
NoAdapter == adapter = (CHOOSE a \in Adapters : TRUE) /\ offered = (CHOOSE kinds \in Offers : TRUE)
NoNumbering == /\ sheet = None /\ counters = None /\ marks = None
NoMarkup ==
  /\ pc = None /\ stack = None /\ roots = None /\ sink = None /\ source = None
  /\ tokens = None
NoPages ==
  /\ active = None /\ question = None /\ cursor = None /\ pages = None /\ outcome = None
  /\ questions = None /\ switches = None
NoVectors ==
  /\ database = None /\ sidecar = None /\ damaged = None /\ eligible = None /\ limit = None
  /\ rows = None /\ blocks = None /\ heaps = None /\ scan = None /\ hits = None
NoRanking ==
  /\ request = None /\ rankings = None /\ ranked = None /\ deduped = None /\ answer = None
  /\ ranking = None
NoDiscovery ==
  /\ site = None /\ listing = None /\ pinned = None /\ shown = None /\ changes = None
  /\ counted = None /\ pending = None /\ answers = None /\ snapshot = None
  /\ inventory = None /\ discovery = None
NoDocument ==
  /\ alphabet = None /\ nodes = None /\ target = None /\ titled = None /\ named = None
  /\ chunked = None
NoChunks ==
  /\ document = None /\ stage = None /\ done = None /\ headings = None /\ units = None
  /\ current = None /\ packed = None /\ chunks = None

Init ==
  /\ part \in Parts
  /\ KeyInit /\ (part # "keys" => NoKeys)
  /\ BrowserInit /\ (part # "browser" => NoBrowser)
  /\ RenditionInit /\ (part # "rendition" => NoRendition)
  /\ IngestInit /\ (part # "ingest" => NoIngest)
  /\ AdapterInit /\ (part # "adapters" => NoAdapter)
  /\ BuildInit
  /\ IF part = "numbering" THEN Numbering!NumberingInit ELSE NoNumbering
  /\ IF part = "markup" THEN Markup!MarkupInit ELSE NoMarkup
  /\ IF part = "pages" THEN Pages!PageInit ELSE NoPages
  /\ IF part = "vectors" THEN Vectors!ScanInit ELSE NoVectors
  /\ IF part = "ranking" THEN Ranking!RankingInit ELSE NoRanking
  /\ IF part = "courts" THEN Discovery!CourtInit ELSE NoDiscovery
  /\ IF part = "document" THEN Document!BlockInit ELSE NoDocument
  /\ IF part = "chunker" THEN Chunks!ChunkerInit ELSE NoChunks

Next ==
  /\ UNCHANGED part
  /\ \/ part = "keys" /\ KeyNext
        /\ UNCHANGED <<browserVars, renditionVars, ofNumbering, ofMarkup, ingestVars,
                       buildVars, ofPages, ofVectors, ofRanking, ofDiscovery, adapterVars,
                       ofDocument, ofChunks>>
     \/ part = "browser" /\ BrowserNext
        /\ UNCHANGED <<keyVars, renditionVars, ofNumbering, ofMarkup, ingestVars, buildVars,
                       ofPages, ofVectors, ofRanking, ofDiscovery, adapterVars, ofDocument,
                       ofChunks>>
     \/ part = "rendition" /\ RenditionNext
        /\ UNCHANGED <<keyVars, browserVars, ofNumbering, ofMarkup, ingestVars, buildVars,
                       ofPages, ofVectors, ofRanking, ofDiscovery, adapterVars, ofDocument,
                       ofChunks>>
     \/ part = "numbering" /\ Numbering!NumberingNext
        /\ UNCHANGED <<keyVars, browserVars, renditionVars, ofMarkup, ingestVars, buildVars,
                       ofPages, ofVectors, ofRanking, ofDiscovery, adapterVars, ofDocument,
                       ofChunks>>
     \/ part = "markup" /\ Markup!MarkupNext
        /\ UNCHANGED <<keyVars, browserVars, renditionVars, ofNumbering, ingestVars, buildVars,
                       ofPages, ofVectors, ofRanking, ofDiscovery, adapterVars, ofDocument,
                       ofChunks>>
     \/ part = "ingest" /\ IngestNext
        /\ UNCHANGED <<keyVars, browserVars, renditionVars, ofNumbering, ofMarkup, buildVars,
                       ofPages, ofVectors, ofRanking, ofDiscovery, adapterVars, ofDocument,
                       ofChunks>>
     \/ part = "build" /\ BuildNext
        /\ UNCHANGED <<keyVars, browserVars, renditionVars, ofNumbering, ofMarkup, ingestVars,
                       ofPages, ofVectors, ofRanking, ofDiscovery, adapterVars, ofDocument,
                       ofChunks>>
     \/ part = "pages" /\ Pages!PageNext
        /\ UNCHANGED <<keyVars, browserVars, renditionVars, ofNumbering, ofMarkup, ingestVars,
                       buildVars, ofVectors, ofRanking, ofDiscovery, adapterVars, ofDocument,
                       ofChunks>>
     \/ part = "vectors" /\ Vectors!ScanNext
        /\ UNCHANGED <<keyVars, browserVars, renditionVars, ofNumbering, ofMarkup, ingestVars,
                       buildVars, ofPages, ofRanking, ofDiscovery, adapterVars, ofDocument,
                       ofChunks>>
     \/ part = "ranking" /\ Ranking!RankingNext
        /\ UNCHANGED <<keyVars, browserVars, renditionVars, ofNumbering, ofMarkup, ingestVars,
                       buildVars, ofPages, ofVectors, ofDiscovery, adapterVars, ofDocument,
                       ofChunks>>
     \/ part = "courts" /\ Discovery!CourtNext
        /\ UNCHANGED <<keyVars, browserVars, renditionVars, ofNumbering, ofMarkup, ingestVars,
                       buildVars, ofPages, ofVectors, ofRanking, adapterVars, ofDocument,
                       ofChunks>>
     \/ part = "adapters" /\ AdapterNext
        /\ UNCHANGED <<keyVars, browserVars, renditionVars, ofNumbering, ofMarkup, ingestVars,
                       buildVars, ofPages, ofVectors, ofRanking, ofDiscovery, ofDocument,
                       ofChunks>>
     \/ part = "document" /\ Document!BlockNext
        /\ UNCHANGED <<keyVars, browserVars, renditionVars, ofNumbering, ofMarkup, ingestVars,
                       buildVars, ofPages, ofVectors, ofRanking, ofDiscovery, adapterVars,
                       ofChunks>>
     \/ part = "chunker" /\ Chunks!ChunkerNext
        /\ UNCHANGED <<keyVars, browserVars, renditionVars, ofNumbering, ofMarkup, ingestVars,
                       buildVars, ofPages, ofVectors, ofRanking, ofDiscovery, adapterVars,
                       ofDocument>>

Spec == Init /\ [][Next]_vars

\* The words and the numbers of an office document, and the text, the markers and the anchors of
\* a document in its blocks and its chunks.
TextKept ==
  /\ part = "markup" => Markup!WordsKept
  /\ part = "numbering" => Numbering!NumbersAscend
  /\ part = "document" => Document!BlocksSound
  /\ part = "chunker" => Chunks!ChunksSound

\* What is listed and found is all of it: the inventory of a site that changes while it is read,
\* the chunks of a document page by page, the nearest vectors, and the ranking.
ListsComplete ==
  /\ part = "courts" => Discovery!InventorySound
  /\ part = "pages" => Pages!PagesComplete
  /\ part = "vectors" => Vectors!ScanExact
  /\ part = "ranking" => Ranking!RankingSound
=============================================================================
