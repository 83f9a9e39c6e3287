-------------------------- MODULE AdminBoundaryProofs --------------------------
(* Theorems of AdminBoundary: for any number of requests, subjects and          *)
(* connections.                                                                 *)
EXTENDS AdminBoundary, FiniteSetTheorems, TLAPS

\* Where a request has its row, where it has a connection, and where it is verified.
Handling == {"handle", "stream", "leave"}
Inside == {"insert", "select"} \cup Handling
Authenticated == {"map"} \cup Inside

\* Cardinality says something of finite sets only.
PoolIsFinite == IsFiniteSet(connected)

\* Past the token check a request is of a valid token; a connection is held from the
\* first statement to the end.
Verified ==
  \A t \in Tasks :
    /\ pc[t] # "idle" => subject[t] \in Subjects
    /\ pc[t] \in Authenticated => token[t] = "valid"
    /\ pc[t] \in Inside <=> t \in connected

\* An uncommitted row is the only one of its subject: there is no committed one, and no
\* other open transaction has inserted one.
OwnRowIsTheOnlyOne ==
  \A t \in Tasks : own[t] # NoId =>
    /\ pc[t] \in Handling /\ admin[t] = own[t]
    /\ admin_user[subject[t]] = NoId
    /\ \A u \in Tasks \ {t} : own[u] # NoId => subject[u] # subject[t]

\* A handler runs for the row of its administrator, its transaction's or the committed one.
HandlersAreMapped ==
  \A t \in Tasks : pc[t] \in Handling =>
    /\ admin[t] # NoId
    /\ own[t] = NoId => admin_user[subject[t]] = admin[t]

IInv ==
  /\ TypeOK
  /\ PoolIsFinite
  /\ Verified
  /\ OwnRowIsTheOnlyOne
  /\ HandlersAreMapped
  /\ MappingIsFound
  /\ AnswersAreKept

LEMMA Initially == Init => IInv
<1>1. IsFiniteSet({}) /\ Cardinality({}) = 0
  BY FS_EmptySet
<1> SUFFICES ASSUME Init PROVE IInv
  OBVIOUS
<1>2. PoolIsFinite /\ Cardinality(connected) <= PoolSize
  BY <1>1, PoolAssumption DEF Init, PoolIsFinite
<1>3. TypeOK
  BY <1>2 DEF Init, TypeOK, Tokens
<1>4. Verified /\ OwnRowIsTheOnlyOne /\ HandlersAreMapped /\ MappingIsFound /\ AnswersAreKept
  BY DEF Init, Verified, OwnRowIsTheOnlyOne, HandlersAreMapped, MappingIsFound, AnswersAreKept, Handling,
         Inside, Authenticated
<1> QED
  BY <1>2, <1>3, <1>4 DEF IInv

\* A connection that goes back leaves the pool within its size.
LEMMA GivesBack ==
  ASSUME IInv, NEW t \in Tasks
  PROVE  /\ IsFiniteSet(connected \ {t})
         /\ Cardinality(connected \ {t}) <= PoolSize
<1>1. IsFiniteSet(connected) /\ Cardinality(connected) \in Nat /\ Cardinality(connected) <= PoolSize
  BY FS_CardinalityType DEF IInv, TypeOK, PoolIsFinite
<1>2. /\ IsFiniteSet(connected \ {t})
      /\ Cardinality(connected \ {t}) = IF t \in connected THEN Cardinality(connected) - 1 ELSE Cardinality(connected)
  BY <1>1, FS_RemoveElement
<1> QED
  BY <1>1, <1>2, PoolAssumption

\* A connection is taken only where there is one.
LEMMA Takes ==
  ASSUME IInv, NEW t \in Tasks, Cardinality(connected) < PoolSize
  PROVE  /\ IsFiniteSet(connected \cup {t})
         /\ Cardinality(connected \cup {t}) <= PoolSize
<1>1. IsFiniteSet(connected) /\ Cardinality(connected) \in Nat
  BY FS_CardinalityType DEF IInv, PoolIsFinite
<1>2. /\ IsFiniteSet(connected \cup {t})
      /\ Cardinality(connected \cup {t}) = IF t \in connected THEN Cardinality(connected) ELSE Cardinality(connected) + 1
  BY <1>1, FS_AddElement
<1> QED
  BY <1>1, <1>2, PoolAssumption

\* The steps before the first statement.
LEMMA BeforeTheTransaction ==
  ASSUME IInv, NEW t \in Tasks,
         \/ \E s \in Subjects, kind \in Tokens : Request(t, s, kind)
         \/ \E outcome \in {"served", "rejected", "unavailable"} : Verify(t, outcome)
         \/ Connect(t)
  PROVE  IInv'
<1> USE NamesAssumption
    DEF IInv, TypeOK, PoolIsFinite, Verified, OwnRowIsTheOnlyOne, HandlersAreMapped, MappingIsFound,
        AnswersAreKept, Tokens, Handling, Inside, Authenticated, Goto, Ends, requestVars, tableVars, history
<1>1. ASSUME NEW s \in Subjects, NEW kind \in Tokens, Request(t, s, kind) PROVE IInv'
  BY <1>1 DEF Request
<1>2. ASSUME NEW outcome \in {"served", "rejected", "unavailable"}, Verify(t, outcome) PROVE IInv'
  <2>1. CASE Ends(t) /\ UNCHANGED runtime
    BY <1>2, <2>1 DEF Verify
  <2>2. CASE token[t] = "valid" /\ Goto(t, "map") /\ runtime' = TRUE
    BY <1>2, <2>2 DEF Verify
  <2> QED
    BY <1>2, <2>1, <2>2 DEF Verify, OpenSession
<1>3. CASE Connect(t)
  <2>1. CASE Cardinality(connected) < PoolSize /\ connected' = connected \cup {t} /\ Goto(t, "insert")
    <3>1. IsFiniteSet(connected \cup {t}) /\ Cardinality(connected \cup {t}) <= PoolSize
      BY <2>1, Takes
    <3> QED
      BY <1>3, <2>1, <3>1 DEF Connect
  <2>2. CASE Ends(t) /\ UNCHANGED connected
    BY <1>3, <2>2 DEF Connect
  <2> QED
    BY <1>3, <2>1, <2>2 DEF Connect
<1> QED
  BY <1>1, <1>2, <1>3

\* An exception undoes the transaction, wherever it is raised, unless the client was told
\* of its row; then the id is on record as lost.
LEMMA RollsBack ==
  ASSUME IInv, NEW t \in Tasks, pc[t] \in Inside, RollBack(t),
         UNCHANGED <<settings, verifier, runtime, answered>>,
         lost' \in SUBSET AdminIds, lost \subseteq lost',
         pc[t] = "leave" /\ own[t] # NoId => own[t] \in lost'
  PROVE  IInv'
<1>1. IsFiniteSet(connected \ {t}) /\ Cardinality(connected \ {t}) <= PoolSize
  BY GivesBack
<1> USE NamesAssumption
    DEF IInv, TypeOK, PoolIsFinite, Verified, OwnRowIsTheOnlyOne, HandlersAreMapped, MappingIsFound,
        AnswersAreKept, Tokens, Handling, Inside, Authenticated, Ends, RollBack
<1>2. TypeOK' /\ PoolIsFinite' /\ Verified'
  BY <1>1
<1>3. OwnRowIsTheOnlyOne' /\ HandlersAreMapped' /\ MappingIsFound'
  OBVIOUS
<1>4. AnswersAreKept'
  <2> SUFFICES ASSUME NEW a \in answered, admin_user[a.subject] # a.id
               PROVE  a.inserted /\ (a.id \in lost' \/
                        \E u \in Tasks : own'[u] = a.id /\ subject'[u] = a.subject /\ pc'[u] = "leave")
    OBVIOUS
  <2>1. a.inserted
    OBVIOUS
  <2>2. CASE a.id \in lost
    BY <2>1, <2>2
  <2>3. ASSUME NEW u \in Tasks, own[u] = a.id, subject[u] = a.subject, pc[u] = "leave"
        PROVE  a.id \in lost' \/
                 \E w \in Tasks : own'[w] = a.id /\ subject'[w] = a.subject /\ pc'[w] = "leave"
    <3>1. CASE u = t
      BY <2>3, <3>1
    <3>2. CASE u # t
      BY <2>3, <3>2
    <3> QED
      BY <3>1, <3>2
  <2> QED
    BY <2>1, <2>2, <2>3
<1> QED
  BY <1>2, <1>3, <1>4

\* The mapping: two statements, or one that fails.
LEMMA Maps ==
  ASSUME IInv, NEW t \in Tasks, Insert(t) \/ Select(t) \/ StatementFails(t)
  PROVE  IInv'
<1> USE NamesAssumption
    DEF IInv, TypeOK, PoolIsFinite, Verified, OwnRowIsTheOnlyOne, HandlersAreMapped, MappingIsFound,
        AnswersAreKept, Tokens, Handling, Inside, Authenticated, Goto, requestVars, tableVars, history
<1>1. CASE Insert(t)
  <2>1. CASE admin_user[subject[t]] # NoId
    BY <1>1, <2>1 DEF Insert
  <2>2. CASE admin_user[subject[t]] = NoId
    <3>1. PICK id \in FreshIds : own' = [own EXCEPT ![t] = id] /\ admin' = [admin EXCEPT ![t] = id]
      BY <1>1, <2>2 DEF Insert
    <3>2. id \in AdminIds /\ id # NoId
      BY <3>1 DEF FreshIds
    <3>3. \A u \in Tasks \ {t} : own[u] # NoId => subject[u] # subject[t]
      BY <1>1 DEF Insert, Inserters
    <3>4. pc[t] = "insert" /\ pc' = [pc EXCEPT ![t] = "handle"] /\ own[t] = NoId
      BY <1>1, <2>2 DEF Insert
    <3>5. UNCHANGED <<settings, verifier, runtime, subject, token, admin_user, connected, answered, lost>>
      BY <1>1, <2>2 DEF Insert
    <3>6. OwnRowIsTheOnlyOne'
      BY <2>2, <3>1, <3>2, <3>3, <3>4, <3>5
    <3>7. AnswersAreKept'
      BY <3>1, <3>4, <3>5
    <3> QED
      BY <2>2, <3>1, <3>2, <3>4, <3>5, <3>6, <3>7
  <2> QED
    BY <2>1, <2>2
<1>2. CASE Select(t)
  <2>1. CASE RollBack(t) /\ UNCHANGED <<settings, verifier, runtime, history>>
    BY <1>2, <2>1, RollsBack DEF Select
  <2>2. CASE admin_user[subject[t]] # NoId
    BY <1>2, <2>2 DEF Select
  <2> QED
    BY <1>2, <2>1, <2>2 DEF Select
<1>3. CASE StatementFails(t)
  BY <1>3, RollsBack DEF StatementFails
<1> QED
  BY <1>1, <1>2, <1>3

\* The handlers: an answer names the row its transaction inserted or a committed one.
LEMMA Handles ==
  ASSUME IInv, NEW t \in Tasks, AuthCheck(t) \/ Smoke(t) \/ StreamEnds(t)
  PROVE  IInv'
<1> USE NamesAssumption
    DEF IInv, TypeOK, PoolIsFinite, Verified, OwnRowIsTheOnlyOne, HandlersAreMapped, MappingIsFound,
        AnswersAreKept, Tokens, Handling, Inside, Authenticated, Goto, requestVars, tableVars, history
<1>1. CASE AuthCheck(t)
  <2>1. /\ pc[t] = "handle" /\ pc' = [pc EXCEPT ![t] = "leave"]
        /\ answered' = answered \cup {[subject |-> subject[t], id |-> admin[t], inserted |-> own[t] # NoId]}
        /\ UNCHANGED <<settings, verifier, runtime, subject, token, admin, own, admin_user, connected, lost>>
    BY <1>1 DEF AuthCheck
  <2>2. subject[t] \in Subjects /\ admin[t] \in AdminIds
    BY <2>1
  <2>3. TypeOK'
    <3>1. answered' \in SUBSET [subject : Subjects, id : AdminIds, inserted : BOOLEAN]
      <4>1. \A b \in BOOLEAN : [subject |-> subject[t], id |-> admin[t], inserted |-> b]
                                \in [subject : Subjects, id : AdminIds, inserted : BOOLEAN]
        BY <2>2
      <4>2. (own[t] # NoId) \in BOOLEAN
        OBVIOUS
      <4>3. answered \in SUBSET [subject : Subjects, id : AdminIds, inserted : BOOLEAN]
        OBVIOUS
      <4> HIDE DEF IInv
      <4> QED
        BY <2>1, <4>1, <4>2, <4>3, Zenon
    <3> QED
      BY <2>1, <3>1
  <2>4. PoolIsFinite' /\ Verified' /\ OwnRowIsTheOnlyOne' /\ HandlersAreMapped' /\ MappingIsFound'
    BY <2>1
  <2>5. AnswersAreKept'
    <3> SUFFICES ASSUME NEW a \in answered', admin_user[a.subject] # a.id
                 PROVE  a.inserted /\ (a.id \in lost \/
                          \E u \in Tasks : own[u] = a.id /\ subject[u] = a.subject /\ pc'[u] = "leave")
      BY <2>1
    <3>1. CASE a \in answered
      BY <2>1, <3>1
    <3>2. CASE a = [subject |-> subject[t], id |-> admin[t], inserted |-> own[t] # NoId]
      <4>1. own[t] # NoId
        BY <2>1, <3>2
      <4> QED
        BY <2>1, <3>2, <4>1
    <3> QED
      BY <2>1, <3>1, <3>2
  <2> QED
    BY <2>3, <2>4, <2>5
<1>2. CASE Smoke(t)
  <2>1. CASE RollBack(t)
    BY <1>2, <2>1, RollsBack DEF Smoke
  <2>2. CASE (Goto(t, "leave") \/ Goto(t, "stream")) /\ UNCHANGED tableVars
    BY <1>2, <2>2 DEF Smoke
  <2> QED
    BY <1>2, <2>1, <2>2 DEF Smoke
<1>3. CASE StreamEnds(t)
  <2>1. CASE RollBack(t)
    BY <1>3, <2>1, RollsBack DEF StreamEnds
  <2>2. CASE Goto(t, "leave") /\ UNCHANGED tableVars
    BY <1>3, <2>2 DEF StreamEnds
  <2> QED
    BY <1>3, <2>1, <2>2 DEF StreamEnds
<1> QED
  BY <1>1, <1>2, <1>3

\* A commit makes the row of the transaction the row of its subject.
LEMMA Commits ==
  ASSUME IInv, NEW t \in Tasks, Commit(t)
  PROVE  IInv'
<1>1. IsFiniteSet(connected \ {t}) /\ Cardinality(connected \ {t}) <= PoolSize
  BY GivesBack
<1> USE NamesAssumption
    DEF IInv, TypeOK, PoolIsFinite, Verified, OwnRowIsTheOnlyOne, HandlersAreMapped, MappingIsFound,
        AnswersAreKept, Tokens, Handling, Inside, Authenticated, Ends, Commit, history
<1>2. subject[t] \in Subjects
  OBVIOUS
<1>3. TypeOK' /\ PoolIsFinite' /\ Verified'
  BY <1>1, <1>2
<1>4. CASE own[t] = NoId
  BY <1>3, <1>4
<1>5. CASE own[t] # NoId
  <2>1. admin_user' = [admin_user EXCEPT ![subject[t]] = own[t]] /\ admin_user[subject[t]] = NoId
    BY <1>5
  <2>2. OwnRowIsTheOnlyOne'
    BY <1>2, <1>5, <2>1
  <2>3. HandlersAreMapped' /\ MappingIsFound'
    BY <1>2, <1>5, <2>1
  <2>4. AnswersAreKept'
    <3> SUFFICES ASSUME NEW a \in answered, admin_user'[a.subject] # a.id
                 PROVE  a.inserted /\ (a.id \in lost \/
                          \E u \in Tasks : own'[u] = a.id /\ subject'[u] = a.subject /\ pc'[u] = "leave")
      OBVIOUS
    <3>1. a.subject \in Subjects /\ a.id \in AdminIds
      OBVIOUS
    <3>2. admin_user[a.subject] # a.id
      BY <1>2, <2>1, <3>1
    <3>3. ~(own[t] = a.id /\ subject[t] = a.subject)
      BY <1>2, <2>1, <3>1
    <3> QED
      BY <3>2, <3>3
  <2> QED
    BY <1>3, <2>2, <2>3, <2>4
<1> QED
  BY <1>4, <1>5

LEMMA CommitMayFail ==
  ASSUME IInv, NEW t \in Tasks, CommitFails(t)
  PROVE  IInv'
<1>1. lost' \in SUBSET AdminIds /\ lost \subseteq lost' /\ (own[t] # NoId => own[t] \in lost')
  BY DEF CommitFails, IInv, TypeOK
<1>2. pc[t] \in Inside /\ RollBack(t) /\ UNCHANGED <<settings, verifier, runtime, answered>>
  BY DEF CommitFails, Inside, Handling
<1> QED
  BY <1>1, <1>2, RollsBack

LEMMA Inductive == IInv /\ [Next]_vars => IInv'
<1> SUFFICES ASSUME IInv, [Next]_vars PROVE IInv'
  OBVIOUS
<1>1. ASSUME NEW t \in Tasks, NEW s \in Subjects, NEW kind \in Tokens, Request(t, s, kind) PROVE IInv'
  BY <1>1, BeforeTheTransaction
<1>2. ASSUME NEW t \in Tasks, Serve(t) PROVE IInv'
  BY <1>2, BeforeTheTransaction, Maps, Handles, Commits DEF Serve
<1>3. ASSUME NEW t \in Tasks, StatementFails(t) \/ CommitFails(t) PROVE IInv'
  BY <1>3, Maps, CommitMayFail
<1>4. CASE UNCHANGED vars
  BY <1>4
  DEF vars, requestVars, tableVars, history, IInv, TypeOK, PoolIsFinite, Verified, OwnRowIsTheOnlyOne,
      HandlersAreMapped, MappingIsFound, AnswersAreKept
<1> QED
  BY <1>1, <1>2, <1>3, <1>4 DEF Next

\* The inductive invariant: a subject has one row, committed or in one open transaction,
\* and a request has a connection exactly between its first statement and its end.
THEOREM Invariant == Spec => []IInv
<1> QED
  BY Initially, Inductive, PTL DEF Spec

\* The types of the boundary: the pool is never exceeded, in particular.
THEOREM TypeCorrect == Spec => []TypeOK
<1>1. IInv => TypeOK
  BY DEF IInv
<1> QED
  BY Invariant, <1>1, PTL

\* Whoever loses the race of two first requests finds the winner's row:
\* get_or_create_by_supabase_user_id never comes back empty after a conflict.
THEOREM LosersFindTheRow == Spec => []MappingIsFound
<1>1. IInv => MappingIsFound
  BY DEF IInv
<1> QED
  BY Invariant, <1>1, PTL

\* An id that a response of admin_auth_check named is the subject's for good, unless the
\* commit of the transaction that inserted it failed after the response.
THEOREM AnsweredIdsStay == Spec => []AnswersAreKept
<1>1. IInv => AnswersAreKept
  BY DEF IInv
<1> QED
  BY Invariant, <1>1, PTL

\* Only requests with a valid token hold a connection or an uncommitted row, and one that
\* has ended holds neither: current_admin verifies first, session.begin() cleans up.
THEOREM RefusedStayOutside == Spec => []OnlyAdminsConnect
<1>1. IInv => OnlyAdminsConnect
  BY DEF IInv, TypeOK, Verified, OwnRowIsTheOnlyOne, OnlyAdminsConnect, Handling, Inside, Authenticated
<1> QED
  BY Invariant, <1>1, PTL
===============================================================================
