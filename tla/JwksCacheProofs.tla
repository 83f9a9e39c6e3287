--------------------------- MODULE JwksCacheProofs ---------------------------
(* Proofs about the signing-key cache, for any number of requests and keys and *)
(* any TTL, cooldown and fetch time.                                           *)
EXTENDS JwksCache, SequenceTheorems, TLAPS

\* Leaving the queue at its head keeps it a queue of tasks, and keeps everybody
\* else in it.
LEMMA TailOfQueue ==
  ASSUME NEW q \in Seq(Tasks), q # << >>
  PROVE  /\ Tail(q) \in Seq(Tasks)
         /\ Head(q) \in Tasks
         /\ \A i \in 1..Len(q) : q[i] # Head(q) =>
              \E j \in 1..Len(Tail(q)) : Tail(q)[j] = q[i]
  <1>1. Tail(q) \in Seq(Tasks) /\ Head(q) \in Tasks
    OBVIOUS
  <1>2. ASSUME NEW i \in 1..Len(q), q[i] # Head(q)
        PROVE  \E j \in 1..Len(Tail(q)) : Tail(q)[j] = q[i]
    <2>1. i - 1 \in 1..Len(Tail(q)) /\ Tail(q)[i - 1] = q[i]
      BY <1>2
    <2>. QED  BY <2>1
  <1>. QED  BY <1>1, <1>2

\* Joining the queue keeps everybody in it.
LEMMA AppendToQueue ==
  ASSUME NEW q \in Seq(Tasks), NEW r \in Tasks
  PROVE  /\ Append(q, r) \in Seq(Tasks)
         /\ \E i \in 1..Len(Append(q, r)) : Append(q, r)[i] = r
         /\ \A i \in 1..Len(q) : i \in 1..Len(Append(q, r)) /\ Append(q, r)[i] = q[i]
  <1>1. Append(q, r) \in Seq(Tasks) /\ Len(Append(q, r)) = Len(q) + 1
    OBVIOUS
  <1>2. Append(q, r)[Len(q) + 1] = r
    OBVIOUS
  <1>. QED  BY <1>1, <1>2

\* A step keeps every variable in its type.
LEMMA TypeStep == TypeOK /\ [Next]_vars => TypeOK'
  <1>. SUFFICES ASSUME TypeOK, [Next]_vars PROVE TypeOK'
    OBVIOUS
  <1>. USE TimesAssumption, NamesAssumption
  <1>1. ASSUME NEW r \in Tasks, NEW k \in KeyIds, Request(r, k) PROVE TypeOK'
    <2>1. Append(queue, r) \in Seq(Tasks)
      BY AppendToQueue DEF TypeOK
    <2>. QED
      BY <1>1, <2>1 DEF TypeOK, Request, LookUp, cacheVars, remoteVars, clockVars, Waiting, Outcomes
  <1>2. ASSUME NEW r \in Tasks, AcquireRefresh(r) PROVE TypeOK'
    <2>0. Tail(queue) \in Seq(Tasks) /\ Append(Tail(queue), r) \in Seq(Tasks)
      BY <1>2, TailOfQueue, AppendToQueue DEF AcquireRefresh, HasLock, TypeOK
    <2>1. CASE RefreshReturns(r)
      BY <2>0, <2>1 DEF TypeOK, RefreshReturns, LookUp, cacheVars, remoteVars, clockVars, Waiting, Outcomes
    <2>2. CASE RaiseCachedFailure(r)
      BY <2>0, <2>2 DEF TypeOK, RaiseCachedFailure, cacheVars, remoteVars, clockVars, Outcomes
    <2>3. CASE StartFetch(r, "fetchRefresh")
      BY <2>0, <2>3 DEF TypeOK, StartFetch, remoteVars, Fetching
    <2>. QED  BY <1>2, <2>1, <2>2, <2>3 DEF AcquireRefresh
  <1>3. ASSUME NEW r \in Tasks, AcquireUnknown(r) PROVE TypeOK'
    <2>0. Tail(queue) \in Seq(Tasks)
      BY <1>3, TailOfQueue DEF AcquireUnknown, HasLock, TypeOK
    <2>1. CASE UnknownReturns(r)
      BY <2>0, <2>1 DEF TypeOK, UnknownReturns, LastLookUp, cacheVars, remoteVars, clockVars, Outcomes
    <2>2. CASE RaiseCachedFailure(r)
      BY <2>0, <2>2 DEF TypeOK, RaiseCachedFailure, cacheVars, remoteVars, clockVars, Outcomes
    <2>3. CASE StartFetch(r, "fetchUnknown")
      BY <2>0, <2>3 DEF TypeOK, StartFetch, remoteVars, Fetching
    <2>. QED  BY <1>3, <2>1, <2>2, <2>3 DEF AcquireUnknown
  <1>4. ASSUME NEW r \in Tasks, FetchSucceeds(r) PROVE TypeOK'
    <2>1. Append(queue, r) \in Seq(Tasks)
      BY AppendToQueue DEF TypeOK
    <2>2. queue' \in Seq(Tasks) /\ pc' \in [Tasks -> {"idle"} \cup Waiting \cup Fetching \cup Outcomes]
      BY <1>4, <2>1 DEF TypeOK, FetchSucceeds, LookUp, LastLookUp, Waiting, Outcomes
    <2>3. keys' \in SUBSET SigningKeys /\ ttlLeft' \in 0..TTL /\ coolLeft' \in 0..Cooldown
      BY <1>4 DEF TypeOK, FetchSucceeds, InstallKeys, ValidatedSigningKeys
    <2>4. moved' \in [Tasks -> BOOLEAN] /\ waited' \in [Tasks -> BOOLEAN]
      <3>1. /\ moved' = [t \in Tasks |-> pc[t] \in Waiting]
            /\ waited' = [t \in Tasks |-> pc[t] \in Waiting \/ t = r]
        BY <1>4 DEF FetchSucceeds
      <3>2. \A t \in Tasks : (pc[t] \in Waiting) \in BOOLEAN /\ (pc[t] \in Waiting \/ t = r) \in BOOLEAN
        OBVIOUS
      <3>. QED  BY <3>1, <3>2, Zenon
    <2>5. keysAge' \in 0..TTL /\ lock' \in Tasks \cup {NoTask} /\ failed' \in BOOLEAN
      <3>1. 0 \in 0..TTL
        BY TimesAssumption
      <3>. QED  BY <1>4, <3>1 DEF FetchSucceeds, InstallKeys
    <2>. QED
      BY <1>4, <2>2, <2>3, <2>4, <2>5 DEF TypeOK, FetchSucceeds, InstallKeys
  <1>5. ASSUME NEW r \in Tasks, FetchFails(r) PROVE TypeOK'
    BY <1>5 DEF TypeOK, FetchFails, clockVars, Outcomes
  <1>6. ASSUME NEW r \in Tasks, Return(r) PROVE TypeOK'
    BY <1>6 DEF TypeOK, Return, cacheVars, remoteVars, clockVars
  <1>7. CASE EndpointAnswers
    BY <1>7 DEF TypeOK, EndpointAnswers, cacheVars, clockVars
  <1>8. ASSUME NEW k \in KeyIds, Rotate(k) PROVE TypeOK'
    BY <1>8 DEF TypeOK, Rotate, cacheVars, clockVars, SinceMax
  <1>9. CASE Tick
    <2>1. ttlLeft' \in 0..TTL /\ coolLeft' \in 0..Cooldown /\ keysAge' \in 0..TTL /\ sinceStart' \in 0..Cooldown
      BY <1>9 DEF TypeOK, Tick, Decrement, Increment
    <2>2. since' \in [KeyIds -> 0..SinceMax]
      BY <1>9 DEF TypeOK, Tick, SinceMax, Increment
    <2>. QED
      BY <1>9, <2>1, <2>2 DEF TypeOK, Tick
  <1>10. CASE UNCHANGED vars
    BY <1>10 DEF TypeOK, vars, cacheVars, remoteVars, clockVars
  <1>. QED  BY <1>1, <1>2, <1>3, <1>4, <1>5, <1>6, <1>7, <1>8, <1>9, <1>10 DEF Next

\* The initial states are well typed.
LEMMA TypeInit == Init => TypeOK
  <1>. SUFFICES ASSUME Init PROVE TypeOK
    OBVIOUS
  <1>1. TTL \in 0..TTL /\ Cooldown \in 0..Cooldown /\ SinceMax \in 0..SinceMax
    BY TimesAssumption DEF SinceMax
  <1>2. 0 \in 0..TTL /\ 0 \in 0..Cooldown
    BY TimesAssumption
  <1>3. queue \in Seq(Tasks)
    BY DEF Init
  <1>. QED  BY <1>1, <1>2, <1>3 DEF Init, TypeOK

\* Every state of the specification is well typed.
THEOREM TypeCorrect == Spec => []TypeOK
  BY TypeInit, TypeStep, PTL DEF Spec

-----------------------------------------------------------------------------
(* The inductive invariant, one lemma per conjunct *)

\* The steps that touch the lock, the cache or the clocks are the beginning of a
\* fetch, its two ends, and the passing of time.
LEMMA Effects ==
  ASSUME [Next]_vars
  PROVE  \/ UNCHANGED <<lock, cacheVars, clockVars>>
         \/ \E r \in Tasks :
              HasLock(r) /\ (StartFetch(r, "fetchRefresh") \/ StartFetch(r, "fetchUnknown"))
         \/ \E r \in Tasks : FetchSucceeds(r) \/ FetchFails(r)
         \/ Tick
  <1>1. ASSUME NEW r \in Tasks, NEW k \in KeyIds, Request(r, k)
        PROVE  UNCHANGED <<lock, cacheVars, clockVars>>
    BY <1>1 DEF Request
  <1>2. ASSUME NEW r \in Tasks, AcquireRefresh(r) \/ AcquireUnknown(r)
        PROVE  \/ UNCHANGED <<lock, cacheVars, clockVars>>
               \/ HasLock(r) /\ (StartFetch(r, "fetchRefresh") \/ StartFetch(r, "fetchUnknown"))
    BY <1>2 DEF AcquireRefresh, AcquireUnknown, RefreshReturns, UnknownReturns, RaiseCachedFailure
  <1>3. ASSUME NEW r \in Tasks, Return(r)
        PROVE  UNCHANGED <<lock, cacheVars, clockVars>>
    BY <1>3 DEF Return
  <1>4. CASE EndpointAnswers
    BY <1>4 DEF EndpointAnswers
  <1>5. ASSUME NEW k \in KeyIds, Rotate(k)
        PROVE  UNCHANGED <<lock, cacheVars, clockVars>>
    BY <1>5 DEF Rotate
  <1>6. CASE UNCHANGED vars
    BY <1>6 DEF vars
  <1>. QED  BY <1>1, <1>2, <1>3, <1>4, <1>5, <1>6 DEF Next

\* The deadlines keep saying what they say about the last install and fetch.
LEMMA DeadlinesStep == TypeOK /\ LockHeldByFetcher /\ DeadlinesTrack /\ [Next]_vars => DeadlinesTrack'
  <1>. SUFFICES ASSUME TypeOK, LockHeldByFetcher, DeadlinesTrack, [Next]_vars
                PROVE  DeadlinesTrack'
    OBVIOUS
  <1>. USE TimesAssumption
  <1>0. /\ ttlLeft \in 0..TTL /\ coolLeft \in 0..Cooldown /\ keysAge \in 0..TTL
        /\ sinceStart \in 0..Cooldown /\ lock \in Tasks \cup {NoTask}
    BY DEF TypeOK
  <1>1. CASE UNCHANGED <<lock, cacheVars, clockVars>>
    BY <1>1 DEF DeadlinesTrack, cacheVars, clockVars
  <1>2. ASSUME NEW r \in Tasks, StartFetch(r, "fetchRefresh") \/ StartFetch(r, "fetchUnknown")
        PROVE  DeadlinesTrack'
    BY <1>0, <1>2, NamesAssumption DEF StartFetch, DeadlinesTrack
  <1>3. ASSUME NEW r \in Tasks, FetchSucceeds(r) PROVE DeadlinesTrack'
    BY <1>0, <1>3 DEF FetchSucceeds, InstallKeys, DeadlinesTrack
  <1>4. ASSUME NEW r \in Tasks, FetchFails(r) PROVE DeadlinesTrack'
    BY <1>0, <1>4, NamesAssumption DEF FetchFails, DeadlinesTrack, clockVars
  <1>5. CASE Tick
    BY <1>0, <1>5 DEF Tick, DeadlinesTrack, Decrement, Increment
  <1>. QED  BY <1>1, <1>2, <1>3, <1>4, <1>5, Effects

\* Everybody who waits stays in the queue until the lock is theirs.
LEMMA QueueStep == TypeOK /\ WaitersQueued /\ [Next]_vars => WaitersQueued'
  <1>. SUFFICES ASSUME TypeOK, WaitersQueued, [Next]_vars
                PROVE  WaitersQueued'
    OBVIOUS
  <1>. DEFINE In(t, q) == \E i \in 1..Len(q) : q[i] = t
  <1>0. queue \in Seq(Tasks) /\ \A t \in Tasks : pc[t] \in Waiting => In(t, queue)
    BY DEF TypeOK, WaitersQueued
  <1>a. ASSUME NEW r \in Tasks, NEW q \in Seq(Tasks)
        PROVE  In(r, Append(q, r)) /\ \A t \in Tasks : In(t, q) => In(t, Append(q, r))
    BY AppendToQueue
  <1>b. ASSUME queue # << >>
        PROVE  /\ Tail(queue) \in Seq(Tasks)
               /\ \A t \in Tasks : In(t, queue) /\ t # Head(queue) => In(t, Tail(queue))
    BY <1>0, <1>b, TailOfQueue
  <1>. HIDE DEF In
  <1>1. ASSUME NEW r \in Tasks, NEW k \in KeyIds, Request(r, k)
        PROVE  \A t \in Tasks : pc'[t] \in Waiting => In(t, queue')
    <2>1. In(r, Append(queue, r)) /\ \A t \in Tasks : In(t, queue) => In(t, Append(queue, r))
      BY <1>0, <1>a
    <2>. QED  BY <1>0, <1>1, <2>1 DEF Request, LookUp, TypeOK, Waiting
  <1>2. ASSUME NEW r \in Tasks, AcquireRefresh(r) \/ AcquireUnknown(r)
        PROVE  \A t \in Tasks : pc'[t] \in Waiting => In(t, queue')
    <2>1. queue # << >> /\ Head(queue) = r
      BY <1>2 DEF AcquireRefresh, AcquireUnknown, HasLock
    <2>2. /\ Tail(queue) \in Seq(Tasks)
          /\ \A t \in Tasks : In(t, queue) /\ t # r => In(t, Tail(queue))
      BY <1>b, <2>1
    <2>3. CASE LookUp(r, want[r], keys, Tail(queue))
      <3>1. /\ In(r, Append(Tail(queue), r))
            /\ \A t \in Tasks : In(t, Tail(queue)) => In(t, Append(Tail(queue), r))
        BY <1>a, <2>2
      <3>. QED  BY <1>0, <2>2, <2>3, <3>1 DEF LookUp, TypeOK, Waiting
    <2>4. CASE /\ queue' = Tail(queue)
               /\ \E where \in Fetching \cup Outcomes : pc' = [pc EXCEPT ![r] = where]
      BY <1>0, <2>2, <2>4 DEF TypeOK, Waiting, Fetching, Outcomes
    <2>. QED
      BY <1>2, <2>3, <2>4 DEF AcquireRefresh, AcquireUnknown, RefreshReturns, UnknownReturns,
           RaiseCachedFailure, StartFetch, LastLookUp, Fetching, Outcomes
  <1>3. ASSUME NEW r \in Tasks, FetchSucceeds(r)
        PROVE  \A t \in Tasks : pc'[t] \in Waiting => In(t, queue')
    <2>1. In(r, Append(queue, r)) /\ \A t \in Tasks : In(t, queue) => In(t, Append(queue, r))
      BY <1>0, <1>a
    <2>. QED  BY <1>0, <1>3, <2>1 DEF FetchSucceeds, LookUp, LastLookUp, TypeOK, Waiting
  <1>4. ASSUME NEW r \in Tasks, FetchFails(r) \/ Return(r)
        PROVE  \A t \in Tasks : pc'[t] \in Waiting => In(t, queue')
    BY <1>0, <1>4 DEF FetchFails, Return, TypeOK, Waiting
  <1>5. CASE UNCHANGED <<pc, queue>>
    BY <1>5 DEF WaitersQueued
  <1>. QED
    BY <1>1, <1>2, <1>3, <1>4, <1>5
       DEF Next, vars, In, WaitersQueued, EndpointAnswers, Rotate, Tick

\* The lock is taken with the beginning of a fetch and given back with its end.
LEMMA LockStep == TypeOK /\ LockHeldByFetcher /\ [Next]_vars => LockHeldByFetcher'
  <1>. SUFFICES ASSUME TypeOK, LockHeldByFetcher, [Next]_vars
                PROVE  LockHeldByFetcher'
    OBVIOUS
  <1>. USE NamesAssumption DEF LockHeldByFetcher, TypeOK, Waiting, Fetching, Outcomes
  <1>1. ASSUME NEW r \in Tasks, NEW k \in KeyIds, Request(r, k) PROVE LockHeldByFetcher'
    BY <1>1 DEF Request, LookUp, remoteVars
  <1>2. ASSUME NEW r \in Tasks, AcquireRefresh(r) PROVE LockHeldByFetcher'
    BY <1>2 DEF AcquireRefresh, HasLock, RefreshReturns, RaiseCachedFailure, StartFetch, LookUp, remoteVars
  <1>3. ASSUME NEW r \in Tasks, AcquireUnknown(r) PROVE LockHeldByFetcher'
    BY <1>3 DEF AcquireUnknown, HasLock, UnknownReturns, RaiseCachedFailure, StartFetch, LastLookUp, remoteVars
  <1>4. ASSUME NEW r \in Tasks, FetchSucceeds(r) \/ FetchFails(r) PROVE LockHeldByFetcher'
    BY <1>4 DEF FetchSucceeds, FetchFails, LookUp, LastLookUp
  <1>5. ASSUME NEW r \in Tasks, Return(r) PROVE LockHeldByFetcher'
    BY <1>5 DEF Return, remoteVars
  <1>6. CASE EndpointAnswers
    BY <1>6 DEF EndpointAnswers
  <1>7. CASE UNCHANGED <<pc, lock, answer>>
    BY <1>7
  <1>. QED
    BY <1>1, <1>2, <1>3, <1>4, <1>5, <1>6, <1>7 DEF Next, vars, remoteVars, Rotate, Tick

\* While somebody waits and the lock is free no time passes.
LEMMA NoTickWhileHandedOver ==
  ASSUME TypeOK, WaitersQueued, Tick, NEW r \in Tasks, pc[r] \in Waiting
  PROVE  lock # NoTask
  BY DEF Tick, WaitersQueued, TypeOK

\* A waiter whose key arrived is answered before time passes or a fetch begins.
LEMMA InstallStep ==
  TypeOK /\ WaitersQueued /\ LockHeldByFetcher /\ DeadlinesTrack /\ InstallReachesWaiters /\ [Next]_vars
    => InstallReachesWaiters'
  <1>. SUFFICES ASSUME TypeOK, WaitersQueued, LockHeldByFetcher, DeadlinesTrack,
                       InstallReachesWaiters, [Next]_vars
                PROVE  InstallReachesWaiters'
    OBVIOUS
  <1>. USE TimesAssumption, NamesAssumption
  <1>0. pc \in [Tasks -> {"idle"} \cup Waiting \cup Fetching \cup Outcomes]
        /\ want \in [Tasks -> KeyIds \cup {NoKey}]
        /\ moved \in [Tasks -> BOOLEAN] /\ waited \in [Tasks -> BOOLEAN]
    BY DEF TypeOK
  <1>1. ASSUME NEW r \in Tasks, NEW k \in KeyIds, Request(r, k) PROVE InstallReachesWaiters'
    BY <1>0, <1>1 DEF InstallReachesWaiters, Resolved, Request, LookUp, cacheVars, clockVars
  <1>2. ASSUME NEW r \in Tasks, AcquireRefresh(r) \/ AcquireUnknown(r) PROVE InstallReachesWaiters'
    <2>1. CASE RefreshReturns(r) /\ AcquireRefresh(r)
      BY <1>0, <2>1 DEF InstallReachesWaiters, Resolved, AcquireRefresh, RefreshReturns, LookUp,
           cacheVars, clockVars
    <2>2. CASE UnknownReturns(r) \/ RaiseCachedFailure(r)
      BY <1>0, <2>2 DEF InstallReachesWaiters, Resolved, UnknownReturns, RaiseCachedFailure, LastLookUp,
           cacheVars, clockVars
    <2>3. CASE StartFetch(r, "fetchRefresh") \/ StartFetch(r, "fetchUnknown")
      <3>1. \A t \in Tasks : pc[t] = "unknown" => ~Resolved(t)
        BY <2>3 DEF StartFetch, InstallReachesWaiters, DeadlinesTrack
      <3>. QED
        BY <1>0, <2>3, <3>1 DEF InstallReachesWaiters, Resolved, StartFetch
    <2>. QED  BY <1>2, <2>1, <2>2, <2>3 DEF AcquireRefresh, AcquireUnknown
  <1>3. ASSUME NEW r \in Tasks, FetchSucceeds(r) PROVE InstallReachesWaiters'
    <2>1. pc[r] \in Fetching /\ pc[r] \notin Waiting
      BY <1>3 DEF FetchSucceeds, LockHeldByFetcher, Waiting, Fetching
    <2>2. \A t \in Tasks : pc'[t] = "idle" => ~moved'[t] /\ ~waited'[t]
      BY <1>0, <1>3, <2>1 DEF FetchSucceeds, LookUp, LastLookUp, Waiting
    <2>3. lock' = NoTask /\ ~failed' /\ keysAge' = 0
      BY <1>3 DEF FetchSucceeds, InstallKeys
    <2>. QED  BY <2>2, <2>3 DEF InstallReachesWaiters
  <1>4. ASSUME NEW r \in Tasks, FetchFails(r) PROVE InstallReachesWaiters'
    <2>1. pc[r] \in Fetching /\ lock # NoTask
      BY <1>4 DEF FetchFails, LockHeldByFetcher
    <2>2. \A t \in Tasks : pc'[t] = "unknown" => pc[t] = "unknown" /\ ~Resolved(t)'
      BY <1>0, <1>4, <2>1 DEF FetchFails, InstallReachesWaiters, Resolved
    <2>3. \A t \in Tasks : pc'[t] = "idle" => ~moved'[t] /\ ~waited'[t]
      BY <1>0, <1>4, <2>1 DEF FetchFails, InstallReachesWaiters, Waiting
    <2>. QED  BY <2>2, <2>3 DEF InstallReachesWaiters
  <1>5. ASSUME NEW r \in Tasks, Return(r) PROVE InstallReachesWaiters'
    BY <1>0, <1>5 DEF InstallReachesWaiters, Resolved, Return, cacheVars, clockVars
  <1>6. CASE Tick
    <2>1. \A t \in Tasks : pc[t] = "unknown" => ~Resolved(t)
      BY <1>6, NoTickWhileHandedOver DEF InstallReachesWaiters, Waiting
    <2>. QED  BY <1>6, <2>1 DEF InstallReachesWaiters, Resolved, Tick
  <1>7. CASE UNCHANGED <<pc, want, moved, waited, lock, cacheVars, keysAge>>
    BY <1>7 DEF InstallReachesWaiters, Resolved, cacheVars
  <1>. QED
    BY <1>1, <1>2, <1>3, <1>4, <1>5, <1>6, <1>7
       DEF Next, vars, clockVars, EndpointAnswers, Rotate

\* A fetch shorter than the cooldown leaves its waiters some of it.
LEMMA CooldownStep ==
  TypeOK /\ WaitersQueued /\ LockHeldByFetcher /\ DeadlinesTrack /\ InstallReachesWaiters
    /\ CooldownOutlastsFetch /\ [Next]_vars => CooldownOutlastsFetch'
  <1>. SUFFICES ASSUME TypeOK, WaitersQueued, LockHeldByFetcher, DeadlinesTrack,
                       InstallReachesWaiters, CooldownOutlastsFetch, [Next]_vars, MaxFetch < Cooldown
                PROVE  \A t \in Tasks : pc'[t] \in Waiting /\ waited'[t] => lock' = NoTask /\ coolLeft' > 0
    BY DEF CooldownOutlastsFetch
  <1>. USE TimesAssumption, NamesAssumption
  <1>0. /\ pc \in [Tasks -> {"idle"} \cup Waiting \cup Fetching \cup Outcomes]
        /\ waited \in [Tasks -> BOOLEAN]
        /\ coolLeft \in 0..Cooldown /\ sinceStart \in 0..Cooldown
        /\ \A t \in Tasks : pc[t] \in Waiting /\ waited[t] => lock = NoTask /\ coolLeft > 0
    BY DEF TypeOK, CooldownOutlastsFetch
  <1>1. ASSUME NEW r \in Tasks, NEW k \in KeyIds, Request(r, k) PROVE CooldownOutlastsFetch'
    BY <1>0, <1>1 DEF InstallReachesWaiters, CooldownOutlastsFetch, Request, LookUp, cacheVars, Waiting
  <1>2. ASSUME NEW r \in Tasks, AcquireRefresh(r) \/ AcquireUnknown(r) PROVE CooldownOutlastsFetch'
    <2>1. CASE StartFetch(r, "fetchRefresh") \/ StartFetch(r, "fetchUnknown")
      <3>1. \A t \in Tasks : pc[t] \in Waiting => ~waited[t]
        BY <1>0, <2>1 DEF StartFetch
      <3>. QED  BY <1>0, <2>1, <3>1 DEF StartFetch, CooldownOutlastsFetch, Waiting
    <2>2. CASE RefreshReturns(r) /\ pc[r] = "refresh"
      BY <1>0, <2>2 DEF RefreshReturns, LookUp, CooldownOutlastsFetch, cacheVars, Waiting
    <2>3. CASE UnknownReturns(r) \/ RaiseCachedFailure(r)
      BY <1>0, <2>3 DEF UnknownReturns, RaiseCachedFailure, LastLookUp, CooldownOutlastsFetch, cacheVars, Waiting
    <2>. QED  BY <1>2, <2>1, <2>2, <2>3 DEF AcquireRefresh, AcquireUnknown
  <1>3. ASSUME NEW r \in Tasks, FetchSucceeds(r) PROVE CooldownOutlastsFetch'
    BY <1>3 DEF FetchSucceeds, InstallKeys, CooldownOutlastsFetch
  <1>4. ASSUME NEW r \in Tasks, FetchFails(r) PROVE CooldownOutlastsFetch'
    <2>1. coolLeft > 0
      BY <1>0, <1>4 DEF FetchFails, DeadlinesTrack
    <2>. QED  BY <1>4, <2>1 DEF FetchFails, CooldownOutlastsFetch
  <1>5. ASSUME NEW r \in Tasks, Return(r) PROVE CooldownOutlastsFetch'
    BY <1>0, <1>5 DEF Return, CooldownOutlastsFetch, cacheVars, Waiting
  <1>6. CASE Tick
    <2>1. \A t \in Tasks : pc[t] \in Waiting => ~waited[t]
      BY <1>0, <1>6, NoTickWhileHandedOver
    <2>. QED  BY <1>6, <2>1 DEF CooldownOutlastsFetch, Tick
  <1>7. CASE UNCHANGED <<pc, waited, lock, cacheVars>>
    BY <1>0, <1>7 DEF CooldownOutlastsFetch, cacheVars
  <1>. QED
    BY <1>1, <1>2, <1>3, <1>4, <1>5, <1>6, <1>7
       DEF Next, vars, EndpointAnswers, Rotate, CooldownOutlastsFetch

\* What the cache holds is what the endpoint served not long before the install.
LEMMA SnapshotsStep ==
  TypeOK /\ DeadlinesTrack /\ LockHeldByFetcher /\ SnapshotsTrack /\ [Next]_vars => SnapshotsTrack'
  <1>. SUFFICES ASSUME TypeOK, DeadlinesTrack, LockHeldByFetcher, SnapshotsTrack, [Next]_vars,
                       MaxFetch < Cooldown
                PROVE  SnapshotsTrack'
    BY DEF SnapshotsTrack
  <1>. USE TimesAssumption, NamesAssumption
  <1>0. /\ keysAge \in 0..TTL /\ sinceStart \in 0..Cooldown
        /\ since \in [KeyIds -> 0..(TTL + MaxFetch)]
        /\ lock \in Tasks \cup {NoTask}
        /\ published \in SUBSET KeyIds /\ SigningKeys \subseteq KeyIds
        /\ keys \in SUBSET SigningKeys
    BY DEF TypeOK, SinceMax
  <1>1. CASE UNCHANGED <<keys, remoteVars, clockVars>>
    BY <1>1 DEF SnapshotsTrack, Differs, remoteVars, clockVars
  <1>2. ASSUME NEW r \in Tasks, HasLock(r), StartFetch(r, "fetchRefresh") \/ StartFetch(r, "fetchUnknown")
        PROVE  SnapshotsTrack'
    <2>1. answer = NoAnswer /\ answer' = NoAnswer
      BY <1>2 DEF StartFetch, HasLock, LockHeldByFetcher, remoteVars
    <2>. QED  BY <1>2, <2>1 DEF StartFetch, SnapshotsTrack, Differs, remoteVars
  <1>3. ASSUME NEW r \in Tasks, FetchSucceeds(r) PROVE SnapshotsTrack'
    <2>1. sinceStart <= MaxFetch
      BY <1>3 DEF FetchSucceeds, DeadlinesTrack
    <2>. QED
      BY <1>0, <1>3, <2>1 DEF FetchSucceeds, InstallKeys, ValidatedSigningKeys, SnapshotsTrack, Differs
  <1>4. ASSUME NEW r \in Tasks, FetchFails(r) PROVE SnapshotsTrack'
    BY <1>4 DEF FetchFails, SnapshotsTrack, Differs, clockVars
  <1>5. CASE EndpointAnswers
    BY <1>5 DEF EndpointAnswers, SnapshotsTrack, Differs, cacheVars, clockVars
  <1>6. ASSUME NEW k \in KeyIds, Rotate(k) PROVE SnapshotsTrack'
    BY <1>0, <1>6 DEF Rotate, SnapshotsTrack, Differs, cacheVars, clockVars
  <1>7. CASE Tick
    <2>1. answer # NoAnswer => sinceStart < MaxFetch
      BY <1>7 DEF Tick, LockHeldByFetcher
    <2>. QED
      BY <1>0, <1>7, <2>1 DEF Tick, SnapshotsTrack, Differs, Increment, SinceMax
  <1>8. ASSUME NEW r \in Tasks, NEW k \in KeyIds, Request(r, k)
        PROVE  UNCHANGED <<keys, remoteVars, clockVars>>
    BY <1>8 DEF Request, cacheVars
  <1>9. ASSUME NEW r \in Tasks, AcquireRefresh(r) \/ AcquireUnknown(r)
        PROVE  \/ UNCHANGED <<keys, remoteVars, clockVars>>
               \/ HasLock(r) /\ (StartFetch(r, "fetchRefresh") \/ StartFetch(r, "fetchUnknown"))
    BY <1>9 DEF AcquireRefresh, AcquireUnknown, RefreshReturns, UnknownReturns, RaiseCachedFailure, cacheVars
  <1>10. ASSUME NEW r \in Tasks, Return(r) PROVE UNCHANGED <<keys, remoteVars, clockVars>>
    BY <1>10 DEF Return, cacheVars
  <1>11. CASE UNCHANGED vars
    BY <1>1, <1>11 DEF vars, cacheVars
  <1>. QED
    BY <1>1, <1>2, <1>3, <1>4, <1>5, <1>6, <1>7, <1>8, <1>9, <1>10, <1>11 DEF Next

\* A fetch is for an expired cache or a key that is not in it.
LEMMA NeedStep ==
  TypeOK /\ DeadlinesTrack /\ LockHeldByFetcher /\ FetcherNeedsKey /\ [Next]_vars => FetcherNeedsKey'
  <1>. SUFFICES ASSUME TypeOK, DeadlinesTrack, LockHeldByFetcher, FetcherNeedsKey, [Next]_vars
                PROVE  FetcherNeedsKey'
    OBVIOUS
  <1>. USE TimesAssumption, NamesAssumption
  <1>0. /\ pc \in [Tasks -> {"idle"} \cup Waiting \cup Fetching \cup Outcomes]
        /\ want \in [Tasks -> KeyIds \cup {NoKey}] /\ keysAge \in 0..TTL /\ ttlLeft \in 0..TTL
    BY DEF TypeOK
  <1>1. ASSUME NEW r \in Tasks, NEW k \in KeyIds, Request(r, k) PROVE FetcherNeedsKey'
    BY <1>0, <1>1 DEF FetcherNeedsKey, LockHeldByFetcher, Request, cacheVars, clockVars, Fetching
  <1>2. ASSUME NEW r \in Tasks, AcquireRefresh(r) \/ AcquireUnknown(r) PROVE FetcherNeedsKey'
    BY <1>0, <1>2 DEF FetcherNeedsKey, DeadlinesTrack, AcquireRefresh, AcquireUnknown, HasLock,
         RefreshReturns, UnknownReturns, RaiseCachedFailure, StartFetch, Resolved, cacheVars, clockVars
  <1>3. ASSUME NEW r \in Tasks, FetchSucceeds(r) \/ FetchFails(r) PROVE FetcherNeedsKey'
    BY <1>3 DEF FetcherNeedsKey, FetchSucceeds, FetchFails
  <1>4. ASSUME NEW r \in Tasks, Return(r) PROVE FetcherNeedsKey'
    BY <1>0, <1>4 DEF FetcherNeedsKey, Return, LockHeldByFetcher, Fetching, Outcomes, cacheVars, clockVars
  <1>5. CASE Tick
    BY <1>0, <1>5 DEF FetcherNeedsKey, Tick, Increment
  <1>6. CASE UNCHANGED <<want, lock, keys, keysAge>>
    BY <1>6 DEF FetcherNeedsKey
  <1>. QED
    BY <1>1, <1>2, <1>3, <1>4, <1>5, <1>6
       DEF Next, vars, cacheVars, clockVars, EndpointAnswers, Rotate

\* The invariant is inductive.
LEMMA InvInit == Init => IInv
  <1>. SUFFICES ASSUME Init PROVE IInv
    OBVIOUS
  <1>1. TypeOK
    BY TypeInit
  <1>2. \A r \in Tasks : pc[r] = "idle" /\ ~moved[r] /\ ~waited[r]
    BY DEF Init
  <1>3. WaitersQueued /\ InstallReachesWaiters /\ CooldownOutlastsFetch
    BY <1>2 DEF WaitersQueued, InstallReachesWaiters, CooldownOutlastsFetch, Waiting
  <1>4. LockHeldByFetcher
    BY <1>2, NamesAssumption DEF Init, LockHeldByFetcher, Fetching
  <1>5. DeadlinesTrack
    BY TimesAssumption DEF Init, DeadlinesTrack
  <1>6. SnapshotsTrack
    <2>1. \A k \in SigningKeys : since[k] <= keysAge + MaxFetch
      BY TimesAssumption, NamesAssumption DEF Init, SinceMax
    <2>. QED  BY <2>1 DEF Init, SnapshotsTrack
  <1>7. FetcherNeedsKey
    BY NamesAssumption DEF Init, FetcherNeedsKey
  <1>. QED  BY <1>1, <1>3, <1>4, <1>5, <1>6, <1>7 DEF IInv

LEMMA InvStep == IInv /\ [Next]_vars => IInv'
  BY TypeStep, QueueStep, LockStep, DeadlinesStep, NeedStep, InstallStep, CooldownStep, SnapshotsStep DEF IInv

\* Every reachable state satisfies the invariant: the two deadlines, the queue
\* and the lock relate to the last install and the last fetch as stated.
THEOREM Invariant == Spec => []IInv
  BY InvInit, InvStep, PTL DEF Spec

-----------------------------------------------------------------------------
(* What get_key promises *)

\* A request is answered in one of three places: at once, with the lock in hand,
\* or at the end of its own fetch.
LEMMA Answers ==
  ASSUME TypeOK, [Next]_vars, NEW r \in Tasks, pc'[r] # pc[r], pc'[r] \in Outcomes
  PROVE  \/ \E k \in KeyIds : Request(r, k)
         \/ AcquireRefresh(r) \/ AcquireUnknown(r)
         \/ FetchSucceeds(r) \/ FetchFails(r)
  <1>1. ASSUME NEW t \in Tasks, t # r, NEW k \in KeyIds, Request(t, k) PROVE FALSE
    BY <1>1 DEF Request, LookUp, TypeOK
  <1>2. ASSUME NEW t \in Tasks, t # r, AcquireRefresh(t) \/ AcquireUnknown(t) PROVE FALSE
    BY <1>2 DEF AcquireRefresh, AcquireUnknown, RefreshReturns, UnknownReturns, RaiseCachedFailure,
         StartFetch, LookUp, LastLookUp, TypeOK
  <1>3. ASSUME NEW t \in Tasks, t # r, FetchSucceeds(t) \/ FetchFails(t) PROVE FALSE
    BY <1>3 DEF FetchSucceeds, FetchFails, LookUp, LastLookUp, TypeOK
  <1>4. ASSUME NEW t \in Tasks, Return(t) PROVE FALSE
    BY <1>4 DEF Return, TypeOK, Outcomes
  <1>5. ASSUME UNCHANGED pc PROVE FALSE
    BY <1>5
  <1>. QED
    BY <1>1, <1>2, <1>3, <1>4, <1>5 DEF Next, vars, EndpointAnswers, Rotate, Tick

\* The endpoint does not change in the step that answers a request.
LEMMA SameRemote ==
  ASSUME TypeOK, [Next]_vars, NEW r \in Tasks, pc'[r] # pc[r], pc'[r] \in Outcomes
  PROVE  published' = published /\ since' = since
  <1>1. CASE \E k \in KeyIds : Request(r, k)
    BY <1>1 DEF Request, remoteVars
  <1>2. CASE AcquireRefresh(r) \/ AcquireUnknown(r)
    BY <1>2 DEF AcquireRefresh, AcquireUnknown, RefreshReturns, UnknownReturns, RaiseCachedFailure,
         StartFetch, remoteVars
  <1>3. CASE FetchSucceeds(r) \/ FetchFails(r)
    BY <1>3 DEF FetchSucceeds, FetchFails
  <1>. QED  BY <1>1, <1>2, <1>3, Answers

\* A served key comes from the key set in the cache, and that one has not expired.
LEMMA ServedFresh ==
  ASSUME IInv, [Next]_vars, NEW r \in Tasks, Becomes(r, "served")
  PROVE  keysAge' < TTL /\ want'[r] \in keys'
  <1>. USE TimesAssumption DEF Becomes
  <1>0. /\ TypeOK /\ TypeOK' /\ DeadlinesTrack /\ InstallReachesWaiters
        /\ ttlLeft \in 0..TTL /\ coolLeft \in 0..Cooldown /\ keysAge \in 0..TTL
        /\ want \in [Tasks -> KeyIds \cup {NoKey}]
        /\ pc \in [Tasks -> {"idle"} \cup Waiting \cup Fetching \cup Outcomes]
    BY TypeStep DEF IInv, TypeOK
  <1>1. ASSUME NEW k \in KeyIds, Request(r, k) PROVE keysAge' < TTL /\ want'[r] \in keys'
    BY <1>0, <1>1 DEF Request, LookUp, DeadlinesTrack, cacheVars, clockVars
  <1>2. CASE AcquireRefresh(r)
    BY <1>0, <1>2 DEF AcquireRefresh, HasLock, RefreshReturns, RaiseCachedFailure, StartFetch, LookUp,
         DeadlinesTrack, cacheVars, clockVars
  <1>3. CASE AcquireUnknown(r)
    <2>1. UnknownReturns(r) /\ want[r] \in keys
      BY <1>0, <1>3 DEF AcquireUnknown, UnknownReturns, RaiseCachedFailure, StartFetch, LastLookUp
    <2>2. keysAge = 0
      BY <1>0, <1>3, <2>1 DEF AcquireUnknown, InstallReachesWaiters, Resolved
    <2>. QED  BY <1>0, <2>1, <2>2 DEF UnknownReturns, cacheVars, clockVars
  <1>4. CASE FetchSucceeds(r)
    BY <1>0, <1>4 DEF FetchSucceeds, InstallKeys, LookUp, LastLookUp
  <1>5. CASE FetchFails(r)
    BY <1>0, <1>5 DEF FetchFails
  <1>. QED  BY <1>0, <1>1, <1>2, <1>3, <1>4, <1>5, Answers DEF Outcomes

\* For any sizes and times: get_key never returns a key of an expired key set.
THEOREM NeverServesExpiredKeys == Spec => FreshKeysOnly
  <1>1. IInv /\ [Next]_vars
          => [\A r \in Tasks : Becomes(r, "served") => keysAge' < TTL /\ want'[r] \in keys']_vars
    BY ServedFresh
  <1>. QED  BY <1>1, Invariant, PTL DEF Spec, FreshKeysOnly

\* A rejection is decided on a key set younger than the cooldown.
LEMMA RejectedInformed ==
  ASSUME IInv, [Next]_vars, NEW r \in Tasks, Becomes(r, "rejected")
  PROVE  keysAge' < Cooldown /\ ~failed' /\ want'[r] \notin keys'
  <1>. USE TimesAssumption DEF Becomes
  <1>0. /\ TypeOK /\ DeadlinesTrack /\ InstallReachesWaiters
        /\ coolLeft \in 0..Cooldown /\ keysAge \in 0..TTL
        /\ pc \in [Tasks -> {"idle"} \cup Waiting \cup Fetching \cup Outcomes]
    BY DEF IInv, TypeOK
  <1>1. ASSUME NEW k \in KeyIds, Request(r, k) PROVE FALSE
    BY <1>0, <1>1 DEF Request, LookUp
  <1>2. CASE AcquireRefresh(r)
    BY <1>0, <1>2 DEF AcquireRefresh, RefreshReturns, RaiseCachedFailure, StartFetch, LookUp
  <1>3. CASE AcquireUnknown(r)
    <2>1. UnknownReturns(r) /\ want[r] \notin keys
      BY <1>0, <1>3 DEF AcquireUnknown, UnknownReturns, RaiseCachedFailure, StartFetch, LastLookUp
    <2>2. ~failed /\ keysAge < Cooldown
      BY <1>0, <1>3, <2>1
         DEF AcquireUnknown, HasLock, UnknownReturns, InstallReachesWaiters, DeadlinesTrack
    <2>. QED  BY <2>1, <2>2 DEF UnknownReturns, cacheVars, clockVars
  <1>4. CASE FetchSucceeds(r)
    BY <1>0, <1>4 DEF FetchSucceeds, InstallKeys, LookUp, LastLookUp
  <1>5. CASE FetchFails(r)
    BY <1>0, <1>5 DEF FetchFails
  <1>. QED  BY <1>0, <1>1, <1>2, <1>3, <1>4, <1>5, Answers DEF Outcomes

\* For any sizes and times: a 401 for an unknown key rests on a key set installed
\* within the cooldown, never on a failed refresh.
THEOREM RejectsOnlyInformed == Spec => RejectionIsInformed
  <1>1. IInv /\ [Next]_vars
          => [\A r \in Tasks :
               Becomes(r, "rejected") => keysAge' < Cooldown /\ ~failed' /\ want'[r] \notin keys']_vars
    BY RejectedInformed
  <1>. QED  BY <1>1, Invariant, PTL DEF Spec, RejectionIsInformed

\* A 503 is given on a cache that cannot answer, and after a failed fetch that is
\* the caller's own or still within the cooldown.
LEMMA UnavailableJustified ==
  ASSUME IInv, [Next]_vars, NEW r \in Tasks, Becomes(r, "unavailable")
  PROVE  /\ failed'
         /\ keysAge' = TTL \/ want'[r] \notin keys'
         /\ pc[r] \in Fetching \/ sinceStart' < Cooldown
  <1>. USE TimesAssumption DEF Becomes
  <1>0. /\ TypeOK /\ DeadlinesTrack /\ LockHeldByFetcher
        /\ ttlLeft \in 0..TTL /\ coolLeft \in 0..Cooldown /\ keysAge \in 0..TTL /\ sinceStart \in 0..Cooldown
        /\ pc \in [Tasks -> {"idle"} \cup Waiting \cup Fetching \cup Outcomes]
    BY DEF IInv, TypeOK
  <1>1. ASSUME NEW k \in KeyIds, Request(r, k) PROVE FALSE
    BY <1>0, <1>1 DEF Request, LookUp
  <1>2. CASE AcquireRefresh(r)
    <2>1. RaiseCachedFailure(r) /\ ttlLeft = 0
      BY <1>0, <1>2 DEF AcquireRefresh, RefreshReturns, StartFetch, LookUp
    <2>. QED  BY <1>0, <2>1 DEF RaiseCachedFailure, DeadlinesTrack, cacheVars, clockVars
  <1>3. CASE AcquireUnknown(r)
    <2>1. RaiseCachedFailure(r) /\ ~Resolved(r)
      BY <1>0, <1>3 DEF AcquireUnknown, UnknownReturns, StartFetch, LastLookUp
    <2>. QED  BY <1>0, <2>1 DEF RaiseCachedFailure, Resolved, DeadlinesTrack, cacheVars, clockVars
  <1>4. CASE FetchSucceeds(r)
    BY <1>0, <1>4 DEF FetchSucceeds, LookUp, LastLookUp
  <1>5. CASE FetchFails(r)
    <2>1. keysAge = TTL \/ want[r] \notin keys
      BY <1>5 DEF IInv, FetchFails, FetcherNeedsKey
    <2>. QED  BY <1>0, <1>5, <2>1 DEF FetchFails, LockHeldByFetcher, clockVars
  <1>. QED  BY <1>0, <1>1, <1>2, <1>3, <1>4, <1>5, Answers DEF Outcomes

\* For any sizes and times: a 503 is given only when the cache cannot answer.
THEOREM UnavailableOnlyWhenNeeded == Spec => UnavailableIsJustified
  <1>1. IInv /\ [Next]_vars
          => [\A r \in Tasks :
               Becomes(r, "unavailable") =>
                 /\ failed'
                 /\ keysAge' = TTL \/ want'[r] \notin keys'
                 /\ pc[r] \in Fetching \/ sinceStart' < Cooldown]_vars
    BY UnavailableJustified
  <1>. QED  BY <1>1, Invariant, PTL DEF Spec, UnavailableIsJustified

\* The lock is taken for a fetch only when the cooldown is over.
LEMMA FetchBegins ==
  ASSUME IInv, [Next]_vars, NEW r \in Tasks, lock # r, lock' = r
  PROVE  /\ lock = NoTask /\ HasLock(r) /\ pc[r] \in Waiting /\ coolLeft = 0
         /\ sinceStart = Cooldown /\ keysAge >= Cooldown
  <1>. USE NamesAssumption, TimesAssumption
  <1>0. coolLeft \in 0..Cooldown /\ keysAge \in 0..TTL /\ sinceStart \in 0..Cooldown
    BY DEF IInv, TypeOK
  <1>1. ASSUME NEW t \in Tasks, AcquireRefresh(t) \/ AcquireUnknown(t)
        PROVE  HasLock(t) /\ pc[t] \in Waiting /\ (lock' = lock \/ (lock' = t /\ coolLeft = 0))
    BY <1>1 DEF AcquireRefresh, AcquireUnknown, RefreshReturns, UnknownReturns, RaiseCachedFailure,
         StartFetch, Waiting
  <1>2. ASSUME NEW t \in Tasks, FetchSucceeds(t) \/ FetchFails(t) PROVE lock' = NoTask
    BY <1>2 DEF FetchSucceeds, FetchFails
  <1>3. ASSUME NEW t \in Tasks, NEW k \in KeyIds, Request(t, k) PROVE lock' = lock
    BY <1>3 DEF Request
  <1>4. ASSUME NEW t \in Tasks, Return(t) PROVE lock' = lock
    BY <1>4 DEF Return
  <1>5. HasLock(r) /\ pc[r] \in Waiting /\ coolLeft = 0
    BY <1>1, <1>2, <1>3, <1>4 DEF Next, vars, EndpointAnswers, Rotate, Tick
  <1>. QED  BY <1>0, <1>5 DEF HasLock, IInv, DeadlinesTrack

\* For any sizes and times: fetches are a cooldown apart.
THEOREM FetchesAreSpaced == Spec => FetchesSpaced
  <1>1. IInv /\ [Next]_vars
          => [lock = NoTask /\ lock' # NoTask => sinceStart = Cooldown /\ keysAge >= Cooldown]_vars
    <2>1. ASSUME IInv, [Next]_vars PROVE lock' \in Tasks \cup {NoTask}
      BY <2>1, TypeStep DEF IInv, TypeOK
    <2>. QED  BY <2>1, FetchBegins, NamesAssumption
  <1>. QED  BY <1>1, Invariant, PTL DEF Spec, FetchesSpaced

\* For any sizes and times, as long as a fetch is shorter than the cooldown:
\* nobody who waited for a fetch starts another.
THEOREM FetchesAreCoalesced ==
  ASSUME MaxFetch < Cooldown
  PROVE  Spec => FetchesCoalesced
  <1>1. IInv /\ [Next]_vars => [\A r \in Tasks : lock # r /\ lock' = r => ~waited[r]]_vars
    BY FetchBegins DEF IInv, CooldownOutlastsFetch
  <1>. QED  BY <1>1, Invariant, PTL DEF Spec, FetchesCoalesced

\* For any sizes and times, as long as a fetch is shorter than the cooldown: a
\* withdrawn key is not served for longer than the TTL and the longest fetch.
THEOREM WithdrawnKeysExpire ==
  ASSUME MaxFetch < Cooldown
  PROVE  Spec => WithdrawnKeyExpires
  <1>1. ASSUME IInv, [Next]_vars, NEW r \in Tasks, Becomes(r, "served")
        PROVE  want'[r] \in published \/ since[want'[r]] < TTL + MaxFetch
    <2>1. keysAge' < TTL /\ want'[r] \in keys' /\ SnapshotsTrack'
      BY <1>1, ServedFresh, InvStep DEF IInv
    <2>2. published' = published /\ since' = since
      BY <1>1, SameRemote DEF IInv, Becomes, Outcomes
    <2>3. want'[r] \in SigningKeys /\ since[want'[r]] \in Nat /\ keysAge' \in Nat
      BY <1>1, <2>1, <2>2, TypeStep, NamesAssumption, TimesAssumption DEF IInv, TypeOK, SinceMax
    <2>. QED
      BY <2>1, <2>2, <2>3, TimesAssumption DEF SnapshotsTrack, Differs
  <1>2. IInv /\ [Next]_vars
          => [\A r \in Tasks : Becomes(r, "served") =>
                \/ want'[r] \in published
                \/ since[want'[r]] < TTL + MaxFetch]_vars
    BY <1>1
  <1>. QED  BY <1>2, Invariant, PTL DEF Spec, WithdrawnKeyExpires

\* For any sizes and times, as long as a fetch is shorter than the cooldown: a key
\* published for the cooldown and the longest fetch is not rejected.
THEOREM PublishedKeysAccepted ==
  ASSUME MaxFetch < Cooldown
  PROVE  Spec => PublishedKeyNotRejected
  <1>1. ASSUME IInv, [Next]_vars, NEW r \in Tasks, Becomes(r, "rejected"),
               want'[r] \in published \cap SigningKeys
        PROVE  since[want'[r]] < Cooldown + MaxFetch
    <2>1. keysAge' < Cooldown /\ want'[r] \notin keys' /\ SnapshotsTrack'
      BY <1>1, RejectedInformed, InvStep DEF IInv
    <2>2. published' = published /\ since' = since
      BY <1>1, SameRemote DEF IInv, Becomes, Outcomes
    <2>3. since[want'[r]] \in Nat /\ keysAge' \in Nat
      BY <1>1, TypeStep, NamesAssumption, TimesAssumption DEF IInv, TypeOK, SinceMax
    <2>. QED
      BY <1>1, <2>1, <2>2, <2>3, TimesAssumption DEF SnapshotsTrack, Differs
  <1>2. IInv /\ [Next]_vars
          => [\A r \in Tasks :
               Becomes(r, "rejected") /\ want'[r] \in published \cap SigningKeys
                 => since[want'[r]] < Cooldown + MaxFetch]_vars
    BY <1>1
  <1>. QED  BY <1>2, Invariant, PTL DEF Spec, PublishedKeyNotRejected
==============================================================================
