------------------------------ MODULE JwksCache ------------------------------
(* The signing-key cache of the administrator API: RemoteJwksProvider in       *)
(* apps/api/src/rag_api/auth.py.  Concurrent requests ask get_key for the key  *)
(* their token names; one asyncio.Lock serialises the fetches of the remote    *)
(* JWKS document, a cooldown spaces them, and a TTL expires what they return.  *)
(*                                                                             *)
(* One action is the code between two awaits.  A deadline the code keeps as an *)
(* absolute time (_expires_at, _next_refresh_attempt_at) is kept as the time   *)
(* left, because the code only ever compares it with the clock; a generation   *)
(* is kept as "has it moved since r read it", because the code only ever       *)
(* compares it for equality.                                                   *)
EXTENDS Naturals, Sequences

CONSTANTS
  Tasks,        \* requests being verified at once
  KeyIds,       \* key ids a token or a JWKS document may name
  SigningKeys,  \* those whose document entry passes every check of the validator
  TTL,          \* jwks_cache_ttl_seconds, in ticks
  Cooldown,     \* JWKS_REFRESH_COOLDOWN_SECONDS, in ticks
  MaxFetch,     \* ticks a fetch may take; more than Cooldown means "any number"
  NoTask,       \* nobody holds the lock
  NoKey         \* an idle request asks for no key

\* SupabaseAuthSettings.validate keeps the TTL in 60..3600 seconds and the
\* cooldown is 60 seconds, so the TTL is never the shorter of the two.
ASSUME TimesAssumption ==
  /\ TTL \in Nat /\ Cooldown \in Nat /\ MaxFetch \in Nat
  /\ 0 < Cooldown /\ Cooldown <= TTL

ASSUME NamesAssumption ==
  /\ SigningKeys \subseteq KeyIds
  /\ NoTask \notin Tasks
  /\ NoKey \notin KeyIds

VARIABLES
  pc,           \* where each request is in get_key
  want,         \* the key id each request asks for
  moved,        \* _refresh_generation differs from the one the request read
  queue,        \* the waiters of self._lock, first come first served
  lock,         \* the task that holds self._lock across its fetch
  keys,         \* self._keys
  ttlLeft,      \* self._expires_at, as time left
  coolLeft,     \* self._next_refresh_attempt_at, as time left
  failed,       \* self._refresh_failed
  published,    \* the key ids the endpoint serves now
  answer,       \* what the endpoint answered to the fetch in flight
  keysAge,      \* history: time since the last install, at most TTL
  sinceStart,   \* history: time since the last fetch began, at most Cooldown
  waited,       \* history: a fetch ended during this call of the request
  since         \* history: time since a key id was last added to or withdrawn
                \* from the endpoint, at most SinceMax

cacheVars == <<keys, ttlLeft, coolLeft, failed>>
remoteVars == <<published, answer, since>>
clockVars == <<keysAge, sinceStart>>
vars == <<pc, want, moved, queue, lock, cacheVars, remoteVars, clockVars, waited>>

Waiting == {"refresh", "unknown"}
Fetching == {"fetchRefresh", "fetchUnknown"}
Outcomes == {"served", "rejected", "unavailable"}

\* An answer is under way for at most MaxFetch and its keys are cached for less
\* than TTL; the history saturates there.
SinceMax == TTL + MaxFetch

\* The endpoint has not answered the fetch yet: no document.
NoAnswer == {NoKey}

Decrement(n) == IF n > 0 THEN n - 1 ELSE 0
Increment(n, bound) == IF n < bound THEN n + 1 ELSE bound

\* The entries of a JWKS document that become usable signing keys: the others
\* are skipped one by one, and a document without any is a failed fetch.
ValidatedSigningKeys(document) == document \cap SigningKeys

TypeOK ==
  /\ pc \in [Tasks -> {"idle"} \cup Waiting \cup Fetching \cup Outcomes]
  /\ want \in [Tasks -> KeyIds \cup {NoKey}]
  /\ moved \in [Tasks -> BOOLEAN]
  /\ waited \in [Tasks -> BOOLEAN]
  /\ queue \in Seq(Tasks)
  /\ lock \in Tasks \cup {NoTask}
  /\ keys \in SUBSET SigningKeys
  /\ ttlLeft \in 0..TTL
  /\ coolLeft \in 0..Cooldown
  /\ failed \in BOOLEAN
  /\ published \in SUBSET KeyIds
  /\ answer \in (SUBSET KeyIds) \cup {NoAnswer}
  /\ keysAge \in 0..TTL
  /\ sinceStart \in 0..Cooldown
  /\ since \in [KeyIds -> 0..SinceMax]

Init ==
  /\ pc = [r \in Tasks |-> "idle"]
  /\ want = [r \in Tasks |-> NoKey]
  /\ moved = [r \in Tasks |-> FALSE]
  /\ waited = [r \in Tasks |-> FALSE]
  /\ queue = << >>
  /\ lock = NoTask
  /\ keys = {}
  /\ ttlLeft = 0
  /\ coolLeft = 0
  /\ failed = FALSE
  /\ published \in SUBSET KeyIds
  /\ answer = NoAnswer
  /\ keysAge = TTL
  /\ sinceStart = Cooldown
  /\ since = [k \in KeyIds |-> SinceMax]

-----------------------------------------------------------------------------
(* get_key *)

\* The lookup that follows _refresh: serve the key, or go and wait for the lock
\* again in _refresh_for_unknown_key with the generation as it is now.
LookUp(r, k, ks, waiters) ==
  \/ /\ k \in ks
     /\ pc' = [pc EXCEPT ![r] = "served"]
     /\ queue' = waiters
  \/ /\ k \notin ks
     /\ pc' = [pc EXCEPT ![r] = "unknown"]
     /\ queue' = Append(waiters, r)

\* The lookup that follows _refresh_for_unknown_key decides the call.
LastLookUp(r, ks, waiters) ==
  /\ pc' = [pc EXCEPT ![r] = IF want[r] \in ks THEN "served" ELSE "rejected"]
  /\ queue' = waiters

\* get_key(k) up to its first await: the key, or a place among the waiters.
Request(r, k) ==
  /\ pc[r] = "idle"
  /\ want' = [want EXCEPT ![r] = k]
  /\ \/ /\ ttlLeft = 0
        /\ pc' = [pc EXCEPT ![r] = "refresh"]
        /\ queue' = Append(queue, r)
     \/ /\ ttlLeft > 0
        /\ LookUp(r, k, keys, queue)
  /\ UNCHANGED <<moved, waited, lock, cacheVars, remoteVars, clockVars>>

\* asyncio.Lock wakes its waiters in order.
HasLock(r) ==
  /\ lock = NoTask
  /\ queue # << >>
  /\ Head(queue) = r

\* Variants named Faulty... are plausible bugs: no action uses them, and the model
\* check is run with each in place of its original to see a property fail.
FaultyStartFetchKeepsCooldown(r, where) ==
  /\ coolLeft = 0
  /\ pc' = [pc EXCEPT ![r] = where]
  /\ lock' = r
  /\ queue' = Tail(queue)
  /\ sinceStart' = 0
  /\ UNCHANGED <<want, moved, waited, cacheVars, remoteVars, keysAge>>

\* The cooldown is over: the holder starts a fetch and keeps the lock.
StartFetch(r, where) ==
  /\ coolLeft = 0
  /\ pc' = [pc EXCEPT ![r] = where]
  /\ lock' = r
  /\ queue' = Tail(queue)
  /\ coolLeft' = Cooldown
  /\ sinceStart' = 0
  /\ UNCHANGED <<want, moved, waited, keys, ttlLeft, failed, remoteVars, keysAge>>

FaultyRaiseForever(r) ==
  /\ failed
  /\ pc' = [pc EXCEPT ![r] = "unavailable"]
  /\ queue' = Tail(queue)
  /\ UNCHANGED <<want, moved, waited, lock, cacheVars, remoteVars, clockVars>>

\* A failure still cooling down is raised again without a fetch.
RaiseCachedFailure(r) ==
  /\ coolLeft > 0 /\ failed
  /\ pc' = [pc EXCEPT ![r] = "unavailable"]
  /\ queue' = Tail(queue)
  /\ UNCHANGED <<want, moved, waited, lock, cacheVars, remoteVars, clockVars>>

FaultyRefreshIgnoresFailure(r) ==
  /\ ttlLeft > 0 \/ coolLeft > 0
  /\ LookUp(r, want[r], keys, Tail(queue))
  /\ moved' = [moved EXCEPT ![r] = FALSE]
  /\ UNCHANGED <<want, waited, lock, cacheVars, remoteVars, clockVars>>

\* _refresh gives the lock back without a fetch: somebody else refreshed, or the
\* cooldown runs and the last fetch did not fail.
RefreshReturns(r) ==
  /\ ttlLeft > 0 \/ (coolLeft > 0 /\ ~failed)
  /\ LookUp(r, want[r], keys, Tail(queue))
  /\ moved' = [moved EXCEPT ![r] = FALSE]
  /\ UNCHANGED <<want, waited, lock, cacheVars, remoteVars, clockVars>>

\* _refresh with the lock in hand.
AcquireRefresh(r) ==
  /\ pc[r] = "refresh" /\ HasLock(r)
  /\ \/ RefreshReturns(r)
     \/ ttlLeft = 0 /\ RaiseCachedFailure(r)
     \/ ttlLeft = 0 /\ StartFetch(r, "fetchRefresh")

\* The key arrived, or the key set was replaced, while the request waited.
Resolved(r) == want[r] \in keys \/ moved[r]

FaultyUnknownIgnoresFailure(r) ==
  /\ Resolved(r) \/ coolLeft > 0
  /\ LastLookUp(r, keys, Tail(queue))
  /\ UNCHANGED <<want, moved, waited, lock, cacheVars, remoteVars, clockVars>>

\* _refresh_for_unknown_key gives the lock back without a fetch.
UnknownReturns(r) ==
  /\ Resolved(r) \/ (coolLeft > 0 /\ ~failed)
  /\ LastLookUp(r, keys, Tail(queue))
  /\ UNCHANGED <<want, moved, waited, lock, cacheVars, remoteVars, clockVars>>

\* _refresh_for_unknown_key with the lock in hand.
AcquireUnknown(r) ==
  /\ pc[r] = "unknown" /\ HasLock(r)
  /\ \/ UnknownReturns(r)
     \/ ~Resolved(r) /\ RaiseCachedFailure(r)
     \/ ~Resolved(r) /\ StartFetch(r, "fetchUnknown")

FaultyInstall(ks, ttl, cooldown, failure) ==
  keys' = ks /\ ttlLeft' = ttl /\ coolLeft' = cooldown /\ failed' = failure /\ keysAge' = 0
FaultyInstallMergesKeys(ks) == FaultyInstall(keys \cup ks, TTL, Cooldown, FALSE)
FaultyInstallKeepsCooldown(ks) == FaultyInstall(ks, TTL, coolLeft, FALSE)
FaultyInstallKeepsFailure(ks) == FaultyInstall(ks, TTL, Cooldown, failed)

\* _install_keys: only now do the TTL and the cooldown start to run.
InstallKeys(ks) ==
  /\ keys' = ks
  /\ ttlLeft' = TTL
  /\ coolLeft' = Cooldown
  /\ failed' = FALSE
  /\ keysAge' = 0

\* The document arrived and holds a usable key: the fetcher installs the keys,
\* gives the lock back and goes on with its lookup.
FetchSucceeds(r) ==
  LET fetched == ValidatedSigningKeys(answer) IN
  /\ lock = r
  /\ answer # NoAnswer
  /\ fetched # {}
  /\ InstallKeys(fetched)
  /\ \/ pc[r] = "fetchRefresh" /\ LookUp(r, want[r], fetched, queue)
     \/ pc[r] = "fetchUnknown" /\ LastLookUp(r, fetched, queue)
  /\ lock' = NoTask
  /\ answer' = NoAnswer
  /\ moved' = [t \in Tasks |-> pc[t] \in Waiting]
  /\ waited' = [t \in Tasks |-> pc[t] \in Waiting \/ t = r]
  /\ UNCHANGED <<want, published, since, sinceStart>>

FaultyFailureForgotten(r) ==
  /\ lock = r
  /\ answer # NoAnswer => ValidatedSigningKeys(answer) = {}
  /\ pc' = [pc EXCEPT ![r] = "unavailable"]
  /\ lock' = NoTask
  /\ answer' = NoAnswer
  /\ waited' = [t \in Tasks |-> pc[t] \in Waiting \/ t = r]
  /\ UNCHANGED <<want, moved, queue, cacheVars, published, since, clockVars>>
FaultyFailureKeepsLock(r) ==
  /\ lock = r
  /\ answer # NoAnswer => ValidatedSigningKeys(answer) = {}
  /\ failed' = TRUE
  /\ pc' = [pc EXCEPT ![r] = "unavailable"]
  /\ UNCHANGED <<want, moved, waited, queue, lock, keys, ttlLeft, coolLeft, remoteVars, clockVars>>

\* Any failure of the exchange, or a document without a usable key: the error is
\* remembered for the waiters and the old keys stay where they are.
FetchFails(r) ==
  /\ lock = r
  /\ answer # NoAnswer => ValidatedSigningKeys(answer) = {}
  /\ failed' = TRUE
  /\ pc' = [pc EXCEPT ![r] = "unavailable"]
  /\ lock' = NoTask
  /\ answer' = NoAnswer
  /\ waited' = [t \in Tasks |-> pc[t] \in Waiting \/ t = r]
  /\ UNCHANGED <<want, moved, queue, keys, ttlLeft, coolLeft, published, since, clockVars>>

\* The caller of get_key takes the key or the exception.
Return(r) ==
  /\ pc[r] \in Outcomes
  /\ pc' = [pc EXCEPT ![r] = "idle"]
  /\ want' = [want EXCEPT ![r] = NoKey]
  /\ moved' = [moved EXCEPT ![r] = FALSE]
  /\ waited' = [waited EXCEPT ![r] = FALSE]
  /\ UNCHANGED <<queue, lock, cacheVars, remoteVars, clockVars>>

-----------------------------------------------------------------------------
(* The environment: the Supabase endpoint and the clock *)

\* The endpoint reads its key set for the fetch in flight; the answer may still
\* be under way when the set changes.
EndpointAnswers ==
  /\ lock # NoTask
  /\ answer = NoAnswer
  /\ answer' = published
  /\ UNCHANGED <<pc, want, moved, waited, queue, lock, cacheVars, published, since, clockVars>>

\* Supabase adds or withdraws one signing key.
Rotate(k) ==
  /\ \/ k \in published /\ published' = published \ {k}
     \/ k \notin published /\ published' = published \cup {k}
  /\ since' = [since EXCEPT ![k] = 0]
  /\ UNCHANGED <<pc, want, moved, waited, queue, lock, cacheVars, answer, clockVars>>

\* Time passes while the event loop has nothing ready to run: a lock that is
\* handed over, and the code between two awaits, take no tick.
Tick ==
  /\ lock = NoTask => queue = << >>
  /\ lock # NoTask => sinceStart < MaxFetch
  /\ ttlLeft' = Decrement(ttlLeft)
  /\ coolLeft' = Decrement(coolLeft)
  /\ keysAge' = Increment(keysAge, TTL)
  /\ sinceStart' = Increment(sinceStart, Cooldown)
  /\ since' = [k \in KeyIds |-> Increment(since[k], SinceMax)]
  /\ UNCHANGED <<pc, want, moved, waited, queue, lock, keys, failed, published, answer>>

Next ==
  \/ \E r \in Tasks, k \in KeyIds : Request(r, k)
  \/ \E r \in Tasks :
       \/ AcquireRefresh(r) \/ AcquireUnknown(r)
       \/ FetchSucceeds(r) \/ FetchFails(r)
       \/ Return(r)
  \/ EndpointAnswers
  \/ \E k \in KeyIds : Rotate(k)
  \/ Tick

Spec == Init /\ [][Next]_vars

\* The event loop runs what is ready, and an httpx exchange ends within its
\* timeouts.
FairSpec ==
  /\ Spec
  /\ \A r \in Tasks :
       /\ WF_vars(AcquireRefresh(r) \/ AcquireUnknown(r))
       /\ WF_vars(FetchSucceeds(r) \/ FetchFails(r))
       /\ WF_vars(Return(r))

-----------------------------------------------------------------------------
(* The inductive invariant behind the properties *)

\* Whoever waits is in the queue, and the lock is held exactly across a fetch.
WaitersQueued == \A r \in Tasks : pc[r] \in Waiting => \E i \in 1..Len(queue) : queue[i] = r
LockHeldByFetcher ==
  /\ \A r \in Tasks : pc[r] \in Fetching <=> lock = r
  /\ lock = NoTask => answer = NoAnswer

\* What the two deadlines say about the last install and the last fetch.
DeadlinesTrack ==
  /\ ttlLeft = TTL - keysAge
  /\ coolLeft + sinceStart >= Cooldown
  /\ coolLeft + keysAge >= Cooldown
  /\ lock # NoTask \/ failed => coolLeft = Cooldown - sinceStart
  /\ lock = NoTask /\ ~failed /\ coolLeft > 0 => coolLeft = Cooldown - keysAge
  /\ lock # NoTask => sinceStart <= MaxFetch

\* The holder of the lock fetches because the cache cannot answer it.
FetcherNeedsKey == \A r \in Tasks : lock = r => keysAge = TTL \/ want[r] \notin keys

\* A waiter whose key arrived, or whose key set was replaced, is answered before
\* any time passes and before any other fetch.
InstallReachesWaiters ==
  /\ \A r \in Tasks : pc[r] = "idle" => ~moved[r] /\ ~waited[r]
  /\ \A r \in Tasks : pc[r] = "unknown" /\ Resolved(r) =>
       lock = NoTask /\ ~failed /\ keysAge = 0

\* The end of a fetch leaves its waiters some of the cooldown.
CooldownOutlastsFetch ==
  MaxFetch < Cooldown =>
    \A r \in Tasks : pc[r] \in Waiting /\ waited[r] => lock = NoTask /\ coolLeft > 0

\* The answer under way and the cache differ from the endpoint only in keys that
\* changed since they were read.
Differs(k, document) == k \in SigningKeys /\ ~(k \in document <=> k \in published)
SnapshotsTrack ==
  MaxFetch < Cooldown =>
    \A k \in SigningKeys :
      /\ answer # NoAnswer /\ Differs(k, answer) => since[k] <= sinceStart
      /\ Differs(k, keys) => since[k] <= keysAge + MaxFetch

IInv ==
  /\ TypeOK
  /\ WaitersQueued
  /\ LockHeldByFetcher
  /\ DeadlinesTrack
  /\ FetcherNeedsKey
  /\ InstallReachesWaiters
  /\ CooldownOutlastsFetch
  /\ SnapshotsTrack

-----------------------------------------------------------------------------
(* Properties *)

Becomes(r, outcome) == pc[r] # outcome /\ pc'[r] = outcome

\* No token is verified with a key set older than the TTL: neither the answer of
\* a cooling-down _refresh, which returns without a fetch, nor a wait for the
\* lock lets an expired key through get_key.
FreshKeysOnly ==
  [][\A r \in Tasks : Becomes(r, "served") => keysAge' < TTL /\ want'[r] \in keys']_vars

\* A key the endpoint withdrew stops being accepted: once it has been gone for
\* the TTL and the longest exchange, get_key never returns it.
WithdrawnKeyExpires ==
  [][\A r \in Tasks :
       Becomes(r, "served") => \/ want'[r] \in published
                               \/ since[want'[r]] < TTL + MaxFetch]_vars

\* A 401 for an unknown key is never the answer of a stale cache: a usable key
\* the endpoint has listed for the cooldown and the longest exchange is not
\* rejected by get_key.
PublishedKeyNotRejected ==
  [][\A r \in Tasks :
       Becomes(r, "rejected") /\ want'[r] \in published \cap SigningKeys
         => since[want'[r]] < Cooldown + MaxFetch]_vars

\* get_key rejects only on a key set installed within the cooldown, however long
\* a fetch takes: never because the last refresh failed.
RejectionIsInformed ==
  [][\A r \in Tasks :
       Becomes(r, "rejected") => keysAge' < Cooldown /\ ~failed' /\ want'[r] \notin keys']_vars

\* A 503 is given only when the cache really cannot answer (expired, or without
\* the key) and a fetch failed: the caller's own, or one the cooldown still
\* covers.
UnavailableIsJustified ==
  [][\A r \in Tasks :
       Becomes(r, "unavailable") =>
         /\ failed'
         /\ keysAge' = TTL \/ want'[r] \notin keys'
         /\ pc[r] \in Fetching \/ sinceStart' < Cooldown]_vars

\* A fetch never begins within the cooldown of the beginning of the last one, nor
\* of the last install, whichever of the two refresh paths asks.
FetchesSpaced ==
  [][lock = NoTask /\ lock' # NoTask => sinceStart = Cooldown /\ keysAge >= Cooldown]_vars

\* Requests that waited for somebody's fetch share its outcome, success or
\* failure: none of them starts a fetch of its own.
FetchesCoalesced ==
  [][\A r \in Tasks : lock # r /\ lock' = r => ~waited[r]]_vars

\* Every call of get_key ends, with a key or with an exception.
EveryCallReturns == \A r \in Tasks : pc[r] # "idle" ~> pc[r] = "idle"

\* When the endpoint keeps listing a usable key and its exchanges stop failing,
\* requests for that key are refused only finitely often.  Time must go on: the
\* cooldown keeps running out.
KeyEventuallyAccepted ==
  \A k \in SigningKeys :
    []<>(coolLeft = 0) /\ <>[](k \in published) /\ <>[][\A r \in Tasks : ~FetchFails(r)]_vars
      => <>[][\A r \in Tasks : want'[r] = k => ~Becomes(r, "rejected") /\ ~Becomes(r, "unavailable")]_vars
==============================================================================
