------------------------------ MODULE SigningKeys ------------------------------
(***************************************************************************)
(* The authorization of a request to the HTTP service (src/http_auth.rs).   *)
(* It has a bearer token, an API key, both or neither, and the service is   *)
(* set up for either, for both or for none.  A token names the key that     *)
(* signed it.  The keys are fetched from the issuer, which rotates them;    *)
(* the threads of the service share what was fetched: one of them at a time *)
(* refreshes it, not more often than every RetryInterval, and the others go *)
(* on with what there is.                                                   *)
(*                                                                          *)
(* Time is counted in units that are longer than a fetch may take (10 s).   *)
(***************************************************************************)
EXTENDS Integers, FiniteSets

CONSTANTS
  Verifiers,      \* the threads that verify tokens
  Keys,           \* key ids
  Modes,          \* how the service may be set up: LEGAL_MCP_HTTP_AUTH_MODE
  Claims,         \* what tokens say of their bearer
  RefreshAfter,   \* JWKS_REFRESH_AFTER
  MaximumStale,   \* JWKS_MAXIMUM_STALE
  RetryInterval,  \* JWKS_MINIMUM_RETRY_INTERVAL
  MaxTime,        \* bound: the clock
  MaxFetchFaults, \* bound: fetches that fail
  Absent

KeyConstants ==
  /\ IsFiniteSet(Verifiers) /\ IsFiniteSet(Keys) /\ Keys # {}
  /\ {RefreshAfter, MaximumStale, RetryInterval, MaxTime, MaxFetchFaults} \subseteq Nat
  /\ Modes \subseteq {"disabled", "api-key", "entra", "entra+api-key"}
  /\ Claims \subseteq {"good", "foreign", "narrow", "stranger"}
  /\ 0 < RetryInterval /\ RetryInterval <= RefreshAfter /\ RefreshAfter <= MaximumStale

VARIABLES
  setup,
  now,
  published,  \* the issuer's keys, each with the time since which it is one, or Absent
  withdrawn,  \* the time at which each key ceased to be one (history)
  jwks,       \* JwksCache
  refresher,  \* the thread that holds jwks_refresh
  threads,    \* the threads and their last verdicts
  fetchFaults

keyVars == <<setup, now, published, withdrawn, jwks, refresher, threads, fetchFaults>>

Issued == {k \in Keys : published[k] # Absent}
Fetched(keys) == [set |-> keys, fetchedAt |-> now, nextRefreshAt |-> now + RetryInterval]
Ready == [pc |-> "ready", key |-> Absent, claims |-> Absent, cached |-> FALSE, verdict |-> "none"]
Quiet == \A t \in Verifiers : threads[t].pc = "ready"

\* prewarm: the service does not start without a set.
KeyInit ==
  /\ setup \in Modes
  /\ now = 0
  /\ published \in {f \in [Keys -> {0, Absent}] : \E k \in Keys : f[k] = 0}
  /\ withdrawn = [k \in Keys |-> Absent]
  /\ jwks = Fetched(Issued)
  /\ refresher = Absent
  /\ threads = [t \in Verifiers |-> Ready]
  /\ fetchFaults = 0
-----------------------------------------------------------------------------
(* The issuer and the clock (external) *)

\* The verdicts before a change are of no further interest.
Forget == threads' = [t \in Verifiers |-> IF threads[t].pc = "ready" THEN Ready ELSE threads[t]]

Tick ==
  /\ Quiet /\ now < MaxTime /\ now' = now + 1
  /\ Forget
  /\ UNCHANGED <<setup, published, withdrawn, jwks, refresher, fetchFaults>>

\* A key id is not used again.
Rotate(k) ==
  /\ \/ /\ published[k] = Absent /\ withdrawn[k] = Absent
        /\ published' = [published EXCEPT ![k] = now] /\ UNCHANGED withdrawn
     \/ /\ published[k] # Absent /\ Issued # {k}
        /\ published' = [published EXCEPT ![k] = Absent]
        /\ withdrawn' = [withdrawn EXCEPT ![k] = now]
  /\ Forget
  /\ UNCHANGED <<setup, now, jwks, refresher, fetchFaults>>
-----------------------------------------------------------------------------
(* HttpAuth::authorize *)

Entra == setup \in {"entra", "entra+api-key"}
ApiKeys == setup \in {"api-key", "entra+api-key"}

\* Verdicts that need no signing key.
Unsigned(credentials) ==
  CASE setup = "disabled" -> "open"
    [] setup # "disabled" /\ credentials = "none" -> "missing"
    [] setup # "disabled" /\ credentials = "api key" /\ ApiKeys -> "accepted"
    [] OTHER -> "invalid"  \* both; a kind that is not enabled; malformed or of no record

Present(t, credentials) ==
  /\ threads[t].pc = "ready"
  /\ threads' = [threads EXCEPT ![t] = [Ready EXCEPT !.verdict = Unsigned(credentials)]]
  /\ UNCHANGED <<setup, now, published, withdrawn, jwks, refresher, fetchFaults>>

\* validate_signed_token: another tenant, audience or time; the scope; the client.
Allowed(claims) ==
  CASE claims = "foreign" -> "invalid" [] claims = "narrow" -> "insufficient scope"
    [] claims = "stranger" -> "forbidden client" [] OTHER -> "accepted"
Verdict(found, claims) == IF found THEN Allowed(claims) ELSE "unknown"
Answer(t, verdict) ==
  threads' = [threads EXCEPT ![t] = [Ready EXCEPT !.key = threads[t].key, !.verdict = verdict]]
-----------------------------------------------------------------------------
(* jwk_for *)

UsableForEver == TRUE
Usable == now - jwks.fetchedAt <= MaximumStale
Cached(k) == Usable /\ k \in jwks.set
Expired == now - jwks.fetchedAt >= RefreshAfter
DueOnceOld(k) == now >= jwks.nextRefreshAt /\ Expired
Due(k) == now >= jwks.nextRefreshAt /\ (~Cached(k) \/ Expired)

\* A token: what is cached is enough, or the set has to be refreshed.
Look(t, k, claims) ==
  /\ Entra /\ threads[t].pc = "ready"
  /\ threads' = [threads EXCEPT ![t] =
       IF Due(k) THEN [Ready EXCEPT !.pc = "refresh", !.key = k, !.claims = claims,
                                    !.cached = Cached(k)]
       ELSE [Ready EXCEPT !.key = k, !.verdict = Verdict(Cached(k), claims)]]
  /\ UNCHANGED <<setup, now, published, withdrawn, jwks, refresher, fetchFaults>>

\* Another thread is at it: what was cached has to do.
Yield(t) ==
  /\ threads[t].pc = "refresh" /\ refresher # Absent
  /\ Answer(t, Verdict(threads[t].cached, threads[t].claims))
  /\ UNCHANGED <<setup, now, published, withdrawn, jwks, refresher, fetchFaults>>

\* try_lock: the set is looked at again, as it may have been refreshed meanwhile.
Refresh(t) ==
  /\ threads[t].pc = "refresh" /\ refresher = Absent
  /\ IF Due(threads[t].key)
     THEN /\ jwks' = [jwks EXCEPT !.nextRefreshAt = now + RetryInterval]
          /\ refresher' = t
          /\ threads' = [threads EXCEPT ![t].pc = "fetch"]
     ELSE /\ Answer(t, Verdict(Cached(threads[t].key), threads[t].claims))
          /\ UNCHANGED <<jwks, refresher>>
  /\ UNCHANGED <<setup, now, published, withdrawn, fetchFaults>>

\* fetch_jwks
Fetch(t) ==
  /\ threads[t].pc = "fetch"
  /\ threads' = [threads EXCEPT ![t] =
       [pc |-> "store", key |-> @.key, claims |-> @.claims, set |-> Issued]]
  /\ UNCHANGED <<setup, now, published, withdrawn, jwks, refresher, fetchFaults>>

FetchFails(t) ==
  /\ threads[t].pc = "fetch" /\ fetchFaults < MaxFetchFaults
  /\ fetchFaults' = fetchFaults + 1
  /\ Answer(t, IF threads[t].cached THEN Allowed(threads[t].claims) ELSE "unavailable")
  /\ refresher' = Absent
  /\ UNCHANGED <<setup, now, published, withdrawn, jwks>>

\* The answer is in the set that came.
Keep(t) ==
  /\ threads[t].pc = "store"
  /\ jwks' = [jwks EXCEPT !.set = threads[t].set, !.fetchedAt = now]
  /\ Answer(t, Verdict(threads[t].key \in threads[t].set, threads[t].claims))
  /\ refresher' = Absent
  /\ UNCHANGED <<setup, now, published, withdrawn, fetchFaults>>

KeyNext ==
  \/ Tick \/ \E k \in Keys : Rotate(k)
  \/ \E t \in Verifiers :
       \/ \E credentials \in {"none", "api key", "bad", "both"} : Present(t, credentials)
       \/ \E k \in Keys, claims \in Claims : Look(t, k, claims)
       \/ Yield(t) \/ Refresh(t) \/ Fetch(t) \/ FetchFails(t) \/ Keep(t)

KeySpec == KeyInit /\ [][KeyNext]_keyVars
-----------------------------------------------------------------------------
(* Properties *)

Decided(t, verdict) ==
  threads'[t] # threads[t] /\ threads'[t].key # Absent /\ threads'[t].pc = "ready" /\ threads'[t].verdict = verdict

\* A withdrawn key is accepted for MaximumStale at most, however many threads refresh,
\* fail to, or go on with what they read before (http_auth.rs jwk_for).
AcceptedWasIssued ==
  \A t \in Verifiers :
    Decided(t, "accepted") =>
      LET k == threads'[t].key
      IN published[k] # Absent \/ (withdrawn[k] # Absent /\ now - withdrawn[k] <= MaximumStale)
WithdrawnKeyEnds == [][AcceptedWasIssued]_keyVars

\* A key that was published is unknown for a RetryInterval at most, unless another thread
\* is fetching the keys at that moment or a fetch failed before (http_auth.rs jwk_for).
PublishedKeyKnown ==
  \A t \in Verifiers :
    Decided(t, "unknown") /\ refresher \in {Absent, t} /\ fetchFaults = 0 =>
      LET k == threads'[t].key
      IN published[k] = Absent \/ now - published[k] < RetryInterval

\* The issuer is asked at most once in a RetryInterval and by one thread at a time, however
\* many threads meet a token whose key they do not know (http_auth.rs jwk_for).
AskedSparingly ==
  \A t \in Verifiers :
    threads[t].pc # "fetch" /\ threads'[t].pc = "fetch" =>
      /\ now >= jwks.nextRefreshAt /\ jwks'.nextRefreshAt = now + RetryInterval
      /\ \A u \in Verifiers : threads[u].pc \notin {"fetch", "store"}

\* The issuer's keys are fetched when they are needed, and by one thread.
KeysFetched == [][PublishedKeyKnown /\ AskedSparingly]_keyVars
=============================================================================
