----------------------------- MODULE AdminBoundary -----------------------------
(* Concurrent requests of the administrator API, from the bearer token to the  *)
(* end of the request's transaction: verified_supabase_identity and            *)
(* current_admin of apps/api/src/rag_api/auth.py, AdminUserRepository of       *)
(* db/repositories.py, database_session of database.py and the two handlers of *)
(* main.py.                                                                    *)
(*                                                                             *)
(* One action is the code between two awaits.  FastAPI leaves a dependency     *)
(* that yields only after the response has been sent, so the transaction that  *)
(* maps an administrator is open while the response streams, and it commits    *)
(* when the client already has its answer.  The signing-key cache is           *)
(* abstracted to the ways get_key ends (JwksCache).                            *)
EXTENDS Naturals, FiniteSets

CONSTANTS
  Tasks,       \* requests being served at once
  Subjects,    \* Supabase users
  AdminIds,    \* ids of admin_user rows
  PoolSize,    \* connections of the engine's pool, the overflow included
  MaxLost,     \* bound: rows whose commit failed after the client was told of them
  NoId, NoSubject

ASSUME PoolAssumption == PoolSize \in Nat \ {0} /\ MaxLost \in Nat
ASSUME NamesAssumption == NoId \notin AdminIds /\ NoSubject \notin Subjects

Tokens == {"absent", "invalid", "anonymous", "valid"}

VARIABLES
  settings,    \* what the environment of the process configures
  verifier, runtime,   \* app.state.auth_verifier and database_runtime are built
  pc,          \* where each request is, "idle" before and after it
  subject, token,   \* who sends it, with which token
  admin,       \* the admin_user id it was mapped to
  own,         \* the id of the row its transaction inserted
  admin_user,  \* the committed row of each subject
  connected,   \* the requests that hold a connection of the pool
  answered,    \* history: the ids that responses named, of whom, and whether the
               \* request had inserted the row itself
  lost         \* history: ids whose commit failed

requestVars == <<subject, token>>
tableVars == <<own, admin_user, connected>>
history == <<answered, lost>>
vars == <<settings, verifier, runtime, pc, requestVars, admin, tableVars, history>>

TypeOK ==
  /\ settings \in SUBSET {"auth", "database", "dev"}
  /\ verifier \in BOOLEAN /\ runtime \in BOOLEAN
  /\ pc \in [Tasks -> {"idle", "key", "map", "insert", "select", "handle", "stream", "leave"}]
  /\ subject \in [Tasks -> Subjects \cup {NoSubject}]
  /\ token \in [Tasks -> Tokens]
  /\ admin \in [Tasks -> AdminIds \cup {NoId}]
  /\ own \in [Tasks -> AdminIds \cup {NoId}]
  /\ admin_user \in [Subjects -> AdminIds \cup {NoId}]
  /\ connected \in SUBSET Tasks /\ Cardinality(connected) <= PoolSize
  /\ answered \in SUBSET [subject : Subjects, id : AdminIds, inserted : BOOLEAN]
  /\ lost \in SUBSET AdminIds

Init ==
  /\ settings \in SUBSET {"auth", "database", "dev"}
  /\ verifier = FALSE /\ runtime = FALSE
  /\ pc = [t \in Tasks |-> "idle"]
  /\ subject = [t \in Tasks |-> NoSubject]
  /\ token = [t \in Tasks |-> "absent"]
  /\ admin = [t \in Tasks |-> NoId]
  /\ own = [t \in Tasks |-> NoId]
  /\ admin_user = [s \in Subjects |-> NoId]
  /\ connected = {}
  /\ answered = {} /\ lost = {}

-----------------------------------------------------------------------------
(* The identity *)

Goto(t, where) ==
  /\ pc' = [pc EXCEPT ![t] = where]
  /\ UNCHANGED <<requestVars, admin>>

\* The response is out and the dependencies are left: nothing of the request remains.
Ends(t) ==
  /\ pc' = [pc EXCEPT ![t] = "idle"]
  /\ subject' = [subject EXCEPT ![t] = NoSubject]
  /\ token' = [token EXCEPT ![t] = "absent"]
  /\ admin' = [admin EXCEPT ![t] = NoId]

\* A request up to its first await.  It is refused without credentials (401), without
\* the settings to verify them with (503), or for the header of its token (401).  The
\* first one builds the verifier, under a lock that is never waited for because
\* nothing under it awaits.
Request(t, s, kind) ==
  /\ pc[t] = "idle"
  /\ verifier' = (verifier \/ (kind # "absent" /\ "auth" \in settings))
  /\ \/ /\ kind \in {"absent", "invalid"} \/ "auth" \notin settings
        /\ UNCHANGED <<pc, requestVars>>
     \/ /\ kind # "absent" /\ "auth" \in settings
        /\ pc' = [pc EXCEPT ![t] = "key"]
        /\ subject' = [subject EXCEPT ![t] = s]
        /\ token' = [token EXCEPT ![t] = kind]
  /\ UNCHANGED <<settings, runtime, admin, tableVars, history>>

\* database_session, once the identity is there: the first request builds the
\* runtime, the same way, or fails for want of its settings (500).
OpenSession(t) ==
  IF "database" \in settings
  THEN Goto(t, "map") /\ runtime' = TRUE
  ELSE Ends(t) /\ UNCHANGED runtime

\* (Variants named Faulty... are plausible bugs: no action uses them, and the model
\* check is run with each in place of its original to see a property fail.)
FaultyVerify(t, outcome) ==
  /\ pc[t] = "key"
  /\ IF outcome = "served" /\ token[t] # "invalid"
     THEN OpenSession(t)
     ELSE Ends(t) /\ UNCHANGED runtime
  /\ UNCHANGED <<settings, verifier, tableVars, history>>

\* get_key has ended, and the signature and the claims decide: 503 when there is no
\* answer, 401 without the key or with an invalid token, 403 for an anonymous user.
Verify(t, outcome) ==
  /\ pc[t] = "key"
  /\ IF outcome = "served" /\ token[t] = "valid"
     THEN OpenSession(t)
     ELSE Ends(t) /\ UNCHANGED runtime
  /\ UNCHANGED <<settings, verifier, tableVars, history>>

-----------------------------------------------------------------------------
(* The transaction and the mapping *)

\* The first statement takes a connection from the pool, or waits in vain for one and
\* fails (500).
Connect(t) ==
  /\ pc[t] = "map"
  /\ \/ /\ Cardinality(connected) < PoolSize
        /\ connected' = connected \cup {t}
        /\ Goto(t, "insert")
     \/ /\ Cardinality(connected) = PoolSize
        /\ Ends(t)
        /\ UNCHANGED connected
  /\ UNCHANGED <<settings, verifier, runtime, own, admin_user, history>>

FaultyRollBack(t) ==
  /\ Ends(t)
  /\ connected' = connected \ {t}
  /\ UNCHANGED <<own, admin_user>>

\* An exception leaves session.begin(): the transaction is undone, the request over.
RollBack(t) ==
  /\ Ends(t)
  /\ own' = [own EXCEPT ![t] = NoId]
  /\ connected' = connected \ {t}
  /\ UNCHANGED admin_user

\* The open transactions that inserted a row for the subject of t: the unique index
\* makes the INSERT of t wait for them.
Inserters(t) == {u \in Tasks \ {t} : own[u] # NoId /\ subject[u] = subject[t]}

\* gen_random_uuid
FreshIds ==
  AdminIds \ ({own[t] : t \in Tasks} \cup {admin_user[s] : s \in Subjects}
               \cup {a.id : a \in answered} \cup lost)

FaultyInsert(t) ==
  /\ pc[t] = "insert"
  /\ \/ /\ admin_user[subject[t]] # NoId \/ Inserters(t) # {}
        /\ Goto(t, "select")
        /\ UNCHANGED own
     \/ /\ admin_user[subject[t]] = NoId /\ Inserters(t) = {}
        /\ \E id \in FreshIds :
             /\ own' = [own EXCEPT ![t] = id]
             /\ admin' = [admin EXCEPT ![t] = id]
        /\ pc' = [pc EXCEPT ![t] = "handle"]
        /\ UNCHANGED requestVars
  /\ UNCHANGED <<settings, verifier, runtime, admin_user, connected, history>>

\* INSERT ... ON CONFLICT DO NOTHING RETURNING: a new row, or nothing.
Insert(t) ==
  /\ pc[t] = "insert" /\ Inserters(t) = {}
  /\ \/ /\ admin_user[subject[t]] # NoId
        /\ Goto(t, "select")
        /\ UNCHANGED own
     \/ /\ admin_user[subject[t]] = NoId
        /\ \E id \in FreshIds :
             /\ own' = [own EXCEPT ![t] = id]
             /\ admin' = [admin EXCEPT ![t] = id]
        /\ pc' = [pc EXCEPT ![t] = "handle"]
        /\ UNCHANGED requestVars
  /\ UNCHANGED <<settings, verifier, runtime, admin_user, connected, history>>

\* The SELECT after a conflict; RepositoryEntityNotFound when there is no row (500).
Select(t) ==
  /\ pc[t] = "select"
  /\ \/ /\ admin_user[subject[t]] # NoId
        /\ admin' = [admin EXCEPT ![t] = admin_user[subject[t]]]
        /\ pc' = [pc EXCEPT ![t] = "handle"]
        /\ UNCHANGED <<requestVars, tableVars>>
     \/ admin_user[subject[t]] = NoId /\ RollBack(t)
  /\ UNCHANGED <<settings, verifier, runtime, history>>

\* The connection is lost in a statement, or while it waits (500).
StatementFails(t) ==
  /\ pc[t] \in {"insert", "select"}
  /\ RollBack(t)
  /\ UNCHANGED <<settings, verifier, runtime, history>>

-----------------------------------------------------------------------------
(* The handlers, the response and the end of the transaction.  Both endpoints share    *)
(* the dependencies, so which one a request is for is told apart here.                 *)

\* admin_auth_check answers with the id.
AuthCheck(t) ==
  /\ pc[t] = "handle"
  /\ answered' = answered \cup
       {[subject |-> subject[t], id |-> admin[t], inserted |-> own[t] # NoId]}
  /\ Goto(t, "leave")
  /\ UNCHANGED <<settings, verifier, runtime, tableVars, lost>>

\* vertex_generation_smoke raises a 404 outside development, which rolls back; it
\* returns a 503 without an adapter; else its body streams.
Smoke(t) ==
  /\ pc[t] = "handle"
  /\ \/ "dev" \notin settings /\ RollBack(t)
     \/ "dev" \in settings /\ (Goto(t, "leave") \/ Goto(t, "stream")) /\ UNCHANGED tableVars
  /\ UNCHANGED <<settings, verifier, runtime, history>>

\* The body ends; or the client goes away, which the server may see as the end of the
\* body or as an exception that goes through the dependency.
StreamEnds(t) ==
  /\ pc[t] = "stream"
  /\ \/ Goto(t, "leave") /\ UNCHANGED tableVars
     \/ RollBack(t)
  /\ UNCHANGED <<settings, verifier, runtime, history>>

FaultyCommit(t) ==
  /\ pc[t] = "leave"
  /\ own' = [own EXCEPT ![t] = NoId]
  /\ connected' = connected \ {t}
  /\ Ends(t)
  /\ UNCHANGED <<settings, verifier, runtime, admin_user, history>>

\* The end of session.begin().
Commit(t) ==
  /\ pc[t] = "leave"
  /\ admin_user' =
       IF own[t] # NoId THEN [admin_user EXCEPT ![subject[t]] = own[t]] ELSE admin_user
  /\ own' = [own EXCEPT ![t] = NoId]
  /\ connected' = connected \ {t}
  /\ Ends(t)
  /\ UNCHANGED <<settings, verifier, runtime, history>>

\* The connection is lost at the COMMIT, and the row with it.
CommitFails(t) ==
  /\ pc[t] = "leave"
  /\ own[t] # NoId => Cardinality(lost) < MaxLost
  /\ lost' = lost \cup ({own[t]} \ {NoId})
  /\ RollBack(t)
  /\ UNCHANGED <<settings, verifier, runtime, answered>>

Serve(t) ==
  \/ \E outcome \in {"served", "rejected", "unavailable"} : Verify(t, outcome)
  \/ Connect(t) \/ Insert(t) \/ Select(t)
  \/ AuthCheck(t) \/ Smoke(t) \/ StreamEnds(t)
  \/ Commit(t)

Next ==
  \E t \in Tasks :
    \/ \E s \in Subjects, kind \in Tokens : Request(t, s, kind)
    \/ Serve(t)
    \/ StatementFails(t) \/ CommitFails(t)

Spec == Init /\ [][Next]_vars

\* The event loop runs what is ready; get_key ends and so does a body (JwksCache,
\* VertexStream); a transaction that waits for others gets its turn when they end.
FairSpec == Spec /\ \A t \in Tasks : SF_vars(Serve(t))

-----------------------------------------------------------------------------
(* Properties *)

\* Whoever loses the race of two first requests finds the winner's row: after a
\* conflict the SELECT of get_or_create_by_supabase_user_id never comes back empty,
\* although the conflicting transaction may roll back.
MappingIsFound == \A t \in Tasks : pc[t] = "select" => admin_user[subject[t]] # NoId

\* Requests are mapped idempotently: the id a response named is the one row of the
\* subject for good, unless the commit that followed the response of the request that
\* inserted it failed; an id read from the table is never taken back.
AnswersAreKept ==
  \A a \in answered :
    \/ admin_user[a.subject] = a.id
    \/ /\ a.inserted
       /\ a.id \in lost \/ \E t \in Tasks : own[t] = a.id /\ subject[t] = a.subject /\ pc[t] = "leave"

\* Only the holder of a verified, non-anonymous token reaches the database, and at
\* the end of a request its connection is back in the pool, whichever way it ended.
OnlyAdminsConnect ==
  \A t \in Tasks :
    /\ t \in connected =>
         token[t] = "valid" /\ pc[t] \in {"insert", "select", "handle", "stream", "leave"}
    /\ own[t] # NoId => t \in connected

\* Every request ends, although first requests of one administrator wait for each
\* other's transactions and all of them for the pool.
EveryRequestEnds == \A t \in Tasks : pc[t] # "idle" ~> pc[t] = "idle"
===============================================================================
