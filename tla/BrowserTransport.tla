---------------------------- MODULE BrowserTransport ----------------------------
(***************************************************************************)
(* The Federal Court is read through a Chrome process                       *)
(* (src/browser_http.rs): a pool of tabs, each with a debugger connection   *)
(* on which Chrome pauses every request and response of the page and waits  *)
(* to be told.  A caller takes a tab, navigates it and answers the pauses   *)
(* until that of its document has come.  After an error the tab is          *)
(* replaced, if Chrome makes a new one, and goes back to the pool in any    *)
(* case, with the pauses that nobody has answered yet.                      *)
(***************************************************************************)
EXTENDS Naturals, Sequences, FiniteSets, SequencesExt

CONSTANTS
  Callers,
  Tabs,          \* SOURCE_WORKER_CEILING tabs
  Urls,          \* the documents of the court
  MaxBrowserRedirects,  \* MAX_BROWSER_REDIRECTS
  MaxPending,    \* MAX_PENDING_FETCH_EVENTS
  MaxPauses,     \* bound: pauses of a navigation
  MaxGets,       \* bound
  NoUrl

ASSUME BrowserConstants ==
  /\ IsFiniteSet(Callers) /\ IsFiniteSet(Tabs) /\ Tabs # {} /\ IsFiniteSet(Urls) /\ Urls # {}
  /\ {MaxBrowserRedirects, MaxPending, MaxPauses, MaxGets} \subseteq Nat

VARIABLES
  redirect,  \* where the court sends the reader of each url: on, nowhere or out of it
  pool,      \* the tabs that nobody holds
  events,    \* the pauses that each tab has reported and nobody has looked at
  paused,    \* those that Chrome still waits with
  page,      \* what each tab shows: the url it has come to, and how many pauses it made
  caller,
  gets

browserVars == <<redirect, pool, events, paused, page, caller, gets>>

Outside == "outside"
Unused == [pc |-> "idle"]

\* BrowserHttpTransport::new: every tab is made, and no other page is left.
BrowserInit ==
  /\ redirect \in [Urls -> Urls \cup {NoUrl, Outside}]
  /\ pool = SetToSeq(Tabs)
  /\ events = [t \in Tabs |-> <<>>] /\ paused = [t \in Tabs |-> {}]
  /\ page = [t \in Tabs |-> [url |-> NoUrl, pauses |-> 0]]
  /\ caller = [c \in Callers |-> Unused]
  /\ gets = 0
-----------------------------------------------------------------------------
(* Chrome (external) *)

\* A pause before a request, of the document or for it, or after the answer with a document,
\* the page's own or that of a frame on it.  A document may have to pass a challenge first.
Pauses(url) ==
  {[url |-> url, main |-> FALSE, stage |-> "request"],
   [url |-> Outside, main |-> FALSE, stage |-> "request"],
   [url |-> url, main |-> FALSE, stage |-> "response"]}
  \cup [url : {url}, main : {TRUE}, stage : {"response", "challenge"}]

Pause(t, e) ==
  /\ page[t].url \in Urls /\ page[t].pauses < MaxPauses
  /\ e \in Pauses(page[t].url)
  /\ events' = [events EXCEPT ![t] = Append(@, e)]
  /\ paused' = [paused EXCEPT ![t] = @ \cup {e}]
  /\ page' = [page EXCEPT ![t] =
       [url |-> IF e.main /\ e.stage = "response" /\ redirect[@.url] # NoUrl
                THEN redirect[@.url] ELSE @.url,
        pauses |-> @.pauses + 1]]
  /\ UNCHANGED <<redirect, pool, caller, gets>>
-----------------------------------------------------------------------------
(* BrowserHttpTransport::get *)

Get(c, url) ==
  /\ caller[c].pc = "idle" /\ gets < MaxGets
  /\ gets' = gets + 1
  /\ caller' = [caller EXCEPT ![c] = [pc |-> "wait", url |-> url]]
  /\ UNCHANGED <<redirect, pool, events, paused, page>>

\* The condition variable: a tab is in the pool.
Take(c) ==
  /\ caller[c].pc = "wait" /\ pool # <<>>
  /\ pool' = Front(pool)
  /\ caller' = [caller EXCEPT ![c] = [pc |-> "navigate", url |-> @.url, tab |-> Last(pool)]]
  /\ UNCHANGED <<redirect, events, paused, page, gets>>

\* ChromeTab::get: the page may go before or after its pauses are looked at.
Navigate(c) ==
  /\ caller[c].pc = "navigate"
  /\ LET t == caller[c].tab
     IN /\ page' = [page EXCEPT ![t] = [url |-> caller[c].url, pauses |-> 0]]
        /\ \E kept \in SUBSET paused[t] : paused' = [paused EXCEPT ![t] = kept]
        /\ caller' = [caller EXCEPT ![c] =
             [pc |-> "loop", url |-> @.url, tab |-> t, expected |-> @.url, redirects |-> 0,
              challenge |-> NoUrl]]
  /\ UNCHANGED <<redirect, pool, events, gets>>

Looping(c) == caller[c].pc = "loop"
Fail(c) == caller' = [caller EXCEPT ![c] = [pc |-> "failed", url |-> @.url, tab |-> @.tab]]
Settle(c, url) ==
  caller' = [caller EXCEPT ![c] = [pc |-> "give", url |-> @.url, tab |-> @.tab, answer |-> url]]

\* Each event is looked at once: a command about it fails when Chrome no longer waits, or
\* when too many other events come before its answer.
Event(c) == Head(events[caller[c].tab])
Next1(c) ==
  /\ Looping(c) /\ events[caller[c].tab] # <<>>
  /\ events' = [events EXCEPT ![caller[c].tab] = Tail(@)]
Commanded(c) ==
  Event(c) \in paused[caller[c].tab] /\ Len(events[caller[c].tab]) - 1 <= MaxPending
Told(c) == paused' = [paused EXCEPT ![caller[c].tab] = @ \ {Event(c)}]

\* Another document's, or not the page's own.
ForeignFrame(c) == ~Event(c).main
Foreign(c) == ~Event(c).main \/ Event(c).url # caller[c].expected

Pass(c) ==
  /\ Next1(c)
  /\ \/ Event(c).stage = "request" /\ Event(c).url # Outside
     \/ Event(c).stage # "request" /\ Foreign(c)
  /\ Told(c)
  /\ IF Commanded(c) THEN UNCHANGED caller ELSE Fail(c)
  /\ UNCHANGED <<redirect, pool, page, gets>>

Escape(c) ==
  /\ Next1(c)
  /\ Event(c).stage = "request" /\ Event(c).url = Outside
  /\ Told(c) /\ Fail(c)
  /\ UNCHANGED <<redirect, pool, page, gets>>

Redirected(c) == Event(c).stage = "response" /\ redirect[Event(c).url] # NoUrl
Follow(c) ==
  /\ Next1(c) /\ ~Foreign(c) /\ Redirected(c)
  /\ LET target == redirect[Event(c).url]
     IN IF caller[c].redirects < MaxBrowserRedirects /\ target # Outside /\ Commanded(c)
        THEN caller' = [caller EXCEPT ![c].expected = target, ![c].redirects = @ + 1]
        ELSE Fail(c)
  /\ Told(c)
  /\ UNCHANGED <<redirect, pool, page, gets>>

\* The body is read, within the limit; a challenge is kept and the page waited for.
Body(c, fits) ==
  /\ Next1(c) /\ Event(c).stage # "request" /\ ~Foreign(c) /\ ~Redirected(c)
  /\ Told(c)
  /\ IF ~fits \/ ~Commanded(c) THEN Fail(c)
     ELSE IF Event(c).stage = "challenge"
          THEN caller' = [caller EXCEPT ![c].challenge = Event(c).url]
          ELSE Settle(c, Event(c).url)
  /\ UNCHANGED <<redirect, pool, page, gets>>

\* The time is up, or the connection breaks.
TimeUp(c) ==
  /\ Looping(c)
  /\ \/ caller[c].challenge # NoUrl /\ Settle(c, caller[c].challenge)
     \/ Fail(c)
  /\ UNCHANGED <<redirect, pool, events, paused, page, gets>>

ReplaceTab(c) ==
  /\ caller[c].pc = "failed"
  /\ LET t == caller[c].tab
     IN /\ events' = [events EXCEPT ![t] = <<>>] /\ paused' = [paused EXCEPT ![t] = {}]
        /\ page' = [page EXCEPT ![t] = [url |-> NoUrl, pauses |-> 0]]
        /\ Settle(c, NoUrl)
  /\ UNCHANGED <<redirect, pool, gets>>

ReplaceFails(c) ==
  /\ caller[c].pc = "failed" /\ Settle(c, NoUrl)
  /\ UNCHANGED <<redirect, pool, events, paused, page, gets>>

Give(c) ==
  /\ caller[c].pc = "give"
  /\ pool' = Append(pool, caller[c].tab)
  /\ caller' = [caller EXCEPT ![c] = Unused]
  /\ UNCHANGED <<redirect, events, paused, page, gets>>

BrowserNext ==
  \/ \E t \in Tabs : \E e \in Pauses(page[t].url) : Pause(t, e)
  \/ \E c \in Callers :
       \/ \E url \in Urls : Get(c, url)
       \/ Take(c) \/ Navigate(c) \/ Pass(c) \/ Escape(c) \/ Follow(c)
       \/ \E fits \in BOOLEAN : Body(c, fits)
       \/ TimeUp(c) \/ ReplaceTab(c) \/ ReplaceFails(c) \/ Give(c)

BrowserSpec == BrowserInit /\ [][BrowserNext]_browserVars
-----------------------------------------------------------------------------
(* Properties *)

\* Where a reader of a url comes to on the way the court sends it, after so many redirects.
Way(url, n) ==
  {way \in [0 .. n -> Urls] : way[0] = url /\ \A i \in 1 .. n : way[i] = redirect[way[i - 1]]}
Led(url, n) == {way[n] : way \in Way(url, n)}

\* A caller gets the document of the url it asked for, although its tab still has pauses
\* of an earlier page whose request failed, timed out or was never waited for
\* (browser_http.rs ChromeTab::get), and no tab is lost or in two hands on any of the paths.
OwnDocument ==
  /\ \A c \in Callers :
       caller[c].pc = "give" /\ caller[c].answer # NoUrl =>
         \E n \in 0 .. MaxBrowserRedirects : caller[c].answer \in Led(caller[c].url, n)
  /\ LET held == {c \in Callers : caller[c].pc \in {"navigate", "loop", "failed", "give"}}
     IN /\ Len(pool) + Cardinality(held) = Cardinality(Tabs)
        /\ Range(pool) \cup {caller[c].tab : c \in held} = Tabs
=============================================================================
