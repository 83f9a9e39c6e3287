---------------------------- MODULE SourceVersions ----------------------------
(* Concurrent transactions on the source tables: SourceRepository in           *)
(* apps/api/src/rag_api/db/repositories.py, over the constraints and triggers  *)
(* of db/models.py and migration 0002_core_schema.py.                          *)
(*                                                                             *)
(* A call of the repository is a sequence of SQL statements with an await at   *)
(* each, so other transactions run between them.  One action is one statement, *)
(* together with the Python checks that follow the one before.  The database   *)
(* is PostgreSQL at READ COMMITTED: a statement sees what is committed and     *)
(* what its own transaction wrote, row locks last until the transaction ends,  *)
(* and a statement that fails ends it.  A session is one transaction, as       *)
(* database_session and the probes use it; a session object that the caller    *)
(* still holds is then of a row its transaction created or locked, so what     *)
(* SELECT ... FOR UPDATE returns is the row as it is.                          *)
EXTENDS Naturals

CONSTANTS
  Txns,        \* transactions open at once
  Docs,        \* source documents
  Versions,    \* source versions: an id is never used again, nor is a document's
  DocOf,       \* the document of each version
  Profiles,    \* embedding profiles, one for each dimension
  Callable,    \* the repository methods the clients use
  Targets,     \* the statuses they ask for
  Hashed,      \* whether they know the content hash when they create a version
  MaxCalls,    \* calls in each transaction
  NoTxn, NoDoc, DeletedDoc, NoVersion, NoProfile, NoCall, Untouched

Methods == {"create_document", "create_version", "add_chunks", "record_embedding_profile",
            "transition_version", "set_active_version", "delete_document"}
Statuses == {"queued", "processing", "indexed", "failed", "superseded"}

ASSUME RowsAssumption ==
  /\ DocOf \in [Versions -> Docs]
  /\ Docs \cap Versions = {}
  /\ {NoDoc, DeletedDoc, NoVersion, Untouched} \cap Versions = {}
  /\ NoDoc # DeletedDoc /\ NoVersion # Untouched /\ {NoDoc, DeletedDoc} \cap {NoVersion, Untouched} = {}
  /\ NoTxn \notin Txns
  /\ NoProfile \notin Profiles
ASSUME CallsAssumption ==
  /\ Callable \subseteq Methods /\ Targets \subseteq Statuses /\ Hashed \subseteq BOOLEAN /\ MaxCalls \in [Txns -> Nat]

Rows == Docs \cup Versions

\* Variants named Faulty... are plausible bugs: no action uses them, and the model
\* check is run with each in place of its original to see a property fail.
FaultyLegal == [s \in Statuses |->
  CASE s = "queued" -> {"processing", "failed"}
    [] s = "processing" -> {"indexed", "failed"}
    [] s = "indexed" -> {"superseded", "processing"}
    [] OTHER -> {}]

\* LEGAL_SOURCE_VERSION_TRANSITIONS.
Legal == [s \in Statuses |->
            CASE s = "queued" -> {"processing", "failed"}
              [] s = "processing" -> {"indexed", "failed"}
              [] s = "indexed" -> {"superseded"}
              [] OTHER -> {}]

\* enforce_source_version_transition repeats it in the database.
TriggerAllows(before, after) == before = after \/ after \in Legal[before]

VersionRow == [status : Statuses \cup {"absent", "deleted"}, hashed : BOOLEAN, profile : Profiles \cup {NoProfile}]
Absent == [status |-> "absent", hashed |-> FALSE, profile |-> NoProfile]
Deleted == [Absent EXCEPT !.status = "deleted"]

ASSUME UntouchedAssumption == Untouched \notin VersionRow

DocRow == Versions \cup {NoVersion, NoDoc, DeletedDoc}

\* What a client asks for: the arguments a method takes, and a fixed value for
\* those it does not.
Requests == [name : Methods, doc : Docs, version : Versions \cup {NoVersion},
             target : Statuses, hash : BOOLEAN, profile : Profiles \cup {NoProfile}]
OfDocument == {"create_document", "delete_document"}
Calls ==
  {c \in Requests :
     /\ c.version = NoVersion <=> c.name \in OfDocument
     /\ c.name \notin OfDocument \cup {"set_active_version"} => c.doc = DocOf[c.version]
     /\ c.target \in (IF c.name = "transition_version" THEN Targets ELSE {"queued"})
     /\ CASE c.name = "create_version" -> c.hash \in Hashed
          [] c.name = "transition_version" -> c.hash => c.target = "indexed"
          [] OTHER -> ~c.hash
     /\ c.profile \in (CASE c.name = "record_embedding_profile" -> Profiles
                         [] c.name = "add_chunks" -> Profiles \cup {NoProfile}
                         [] OTHER -> {NoProfile})}

VARIABLES
  docs,        \* committed source_document rows: the active_version_id of each
  versions,    \* committed source_version rows
  chunks,      \* committed chunk rows: the dimensions each version has chunks of,
               \* NoProfile for chunks without an embedding
  pc,          \* the statement each transaction is about to run
  call,        \* the call it belongs to
  issued,      \* calls made in the transaction
  loaded,      \* the source version the call has read
  ownDocs, ownVersions, ownChunks,   \* what the transaction wrote
  exclusive,   \* the transaction that locked a row FOR UPDATE, or wrote it
  share,       \* those that hold FOR KEY SHARE on it, for a foreign key
  base         \* history: the committed row each locked version had

committed == <<docs, versions, chunks>>
own == <<ownDocs, ownVersions, ownChunks>>
locks == <<exclusive, share>>
vars == <<committed, pc, call, issued, loaded, own, locks, base>>

TypeOK ==
  /\ docs \in [Docs -> DocRow]
  /\ versions \in [Versions -> VersionRow]
  /\ chunks \in [Versions -> SUBSET (Profiles \cup {NoProfile})]
  /\ pc \in [Txns -> {"ready", "insert", "lock", "read", "decide", "reference", "cascade"}]
  /\ call \in [Txns -> Calls \cup {NoCall}]
  /\ issued \in [Txns -> Nat] /\ \A t \in Txns : issued[t] <= MaxCalls[t]
  /\ loaded \in [Txns -> VersionRow]
  /\ ownDocs \in [Txns -> [Docs -> DocRow \cup {Untouched}]]
  /\ ownVersions \in [Txns -> [Versions -> VersionRow \cup {Untouched}]]
  /\ ownChunks \in [Txns -> [Versions -> SUBSET (Profiles \cup {NoProfile})]]
  /\ exclusive \in [Rows -> Txns \cup {NoTxn}]
  /\ share \in [Rows -> SUBSET Txns]
  /\ base \in [Txns -> [Versions -> VersionRow]]

Nothing == [v \in Versions |-> {}]
Init ==
  /\ docs = [d \in Docs |-> NoDoc]
  /\ versions = [v \in Versions |-> Absent]
  /\ chunks = Nothing
  /\ pc = [t \in Txns |-> "ready"]
  /\ call = [t \in Txns |-> NoCall]
  /\ issued = [t \in Txns |-> 0]
  /\ loaded = [t \in Txns |-> Absent]
  /\ ownDocs = [t \in Txns |-> [d \in Docs |-> Untouched]]
  /\ ownVersions = [t \in Txns |-> [v \in Versions |-> Untouched]]
  /\ ownChunks = [t \in Txns |-> Nothing]
  /\ exclusive = [r \in Rows |-> NoTxn]
  /\ share = [r \in Rows |-> {}]
  /\ base = [t \in Txns |-> [v \in Versions |-> Absent]]

-----------------------------------------------------------------------------
(* What a statement sees, and whom it waits for *)

DocSeen(t, d) == IF ownDocs[t][d] = Untouched THEN docs[d] ELSE ownDocs[t][d]
VersionSeen(t, v) == IF ownVersions[t][v] = Untouched THEN versions[v] ELSE ownVersions[t][v]
Exists(t, row) ==
  IF row \in Docs THEN DocSeen(t, row) \notin {NoDoc, DeletedDoc}
  ELSE VersionSeen(t, row).status \in Statuses

\* The transactions whose lock on a row conflicts with FOR UPDATE, and with the
\* FOR KEY SHARE of a foreign key check.
Writers(t, row) == {exclusive[row]} \ {NoTxn, t}
Holders(t, row) == Writers(t, row) \cup (share[row] \ {t})

Siblings(v) == {w \in Versions : DocOf[w] = DocOf[v]} \ {v}

FaultyIndexWriters(t, v) == {}

\* uq_source_version_one_indexed: a version about to be indexed waits for the
\* transactions that may add or remove another indexed version of its document,
\* and fails on one that is there for certain.
IndexWriters(t, v) ==
  {u \in Txns \ {t} : \E w \in Siblings(v) :
     /\ ownVersions[u][w] # Untouched
     /\ versions[w].status = "indexed" \/ ownVersions[u][w].status = "indexed"}
IndexConflict(t, v) ==
  \E w \in Siblings(v) :
    /\ VersionSeen(t, w).status = "indexed"
    /\ \A u \in Txns \ {t} : ownVersions[u][w] = Untouched

\* The row a call locks FOR UPDATE, inserts, or references by a foreign key.
LockedRow(c) == IF c.name \in {"transition_version", "record_embedding_profile"} THEN c.version ELSE c.doc
InsertedRow(c) == IF c.name = "create_document" THEN c.doc ELSE c.version
ReferencedRow(c) == IF c.name = "create_version" THEN c.doc ELSE c.version

InsertWriters(t, row) ==
  {u \in Txns \ {t} : IF row \in Docs THEN ownDocs[u][row] # Untouched ELSE ownVersions[u][row] # Untouched}

\* The versions of a deleted document that the cascade has still to delete.
ToCascade(t) == {v \in Versions : DocOf[v] = call[t].doc /\ Exists(t, v)}

Indexes(t) == pc[t] = "decide" /\ call[t].name = "transition_version" /\ call[t].target = "indexed"

\* The transactions that t waits for at its next statement.
Blockers(t) ==
  CASE pc[t] = "insert"    -> InsertWriters(t, InsertedRow(call[t]))
    [] pc[t] = "lock"      -> IF Exists(t, LockedRow(call[t])) THEN Holders(t, LockedRow(call[t])) ELSE {}
    [] pc[t] = "reference" -> IF Exists(t, ReferencedRow(call[t])) THEN Writers(t, ReferencedRow(call[t])) ELSE {}
    [] pc[t] = "cascade"   -> IF \E v \in ToCascade(t) : Holders(t, v) = {} THEN {}
                              ELSE UNION {Holders(t, v) : v \in ToCascade(t)}
    [] Indexes(t)          -> IndexWriters(t, call[t].version)
    [] OTHER               -> {}

At(t, statement, method) == pc[t] = statement /\ call[t].name = method /\ Blockers(t) = {}

Goto(t, statement) == pc' = [pc EXCEPT ![t] = statement]

\* A call ends, by returning or by raising: the transaction goes on either way.
CallEnds(t) ==
  /\ Goto(t, "ready")
  /\ call' = [call EXCEPT ![t] = NoCall]
  /\ loaded' = [loaded EXCEPT ![t] = Absent]

FaultyDiscardKeepsShare(t) ==
  /\ CallEnds(t)
  /\ issued' = [issued EXCEPT ![t] = 0]
  /\ ownDocs' = [ownDocs EXCEPT ![t] = [d \in Docs |-> Untouched]]
  /\ ownVersions' = [ownVersions EXCEPT ![t] = [v \in Versions |-> Untouched]]
  /\ ownChunks' = [ownChunks EXCEPT ![t] = Nothing]
  /\ exclusive' = [r \in Rows |-> IF exclusive[r] = t THEN NoTxn ELSE exclusive[r]]
  /\ share' = share
  /\ base' = [base EXCEPT ![t] = [v \in Versions |-> Absent]]

\* The transaction ends: its locks and what it wrote are gone.
Discard(t) ==
  /\ CallEnds(t)
  /\ issued' = [issued EXCEPT ![t] = 0]
  /\ ownDocs' = [ownDocs EXCEPT ![t] = [d \in Docs |-> Untouched]]
  /\ ownVersions' = [ownVersions EXCEPT ![t] = [v \in Versions |-> Untouched]]
  /\ ownChunks' = [ownChunks EXCEPT ![t] = Nothing]
  /\ exclusive' = [r \in Rows |-> IF exclusive[r] = t THEN NoTxn ELSE exclusive[r]]
  /\ share' = [r \in Rows |-> share[r] \ {t}]
  /\ base' = [base EXCEPT ![t] = [v \in Versions |-> Absent]]

\* An IntegrityError ends the transaction.
Abort(t) == Discard(t) /\ UNCHANGED committed

Writes(t, v, row) == ownVersions' = [ownVersions EXCEPT ![t][v] = row]
RemembersBase(t, v) ==
  base' = IF ownVersions[t][v] = Untouched THEN [base EXCEPT ![t][v] = versions[v]] ELSE base
TakeExclusive(t, row) == exclusive' = [exclusive EXCEPT ![row] = t]

-----------------------------------------------------------------------------
(* The statements *)

FirstStatement(n) ==
  CASE n \in {"create_document", "create_version"} -> "insert"
    [] n \in {"add_chunks", "delete_document"} -> "read"
    [] OTHER -> "lock"

Issue(t, c) ==
  /\ pc[t] = "ready" /\ issued[t] < MaxCalls[t]
  /\ c.name \in Callable
  /\ Goto(t, FirstStatement(c.name))
  /\ call' = [call EXCEPT ![t] = c]
  /\ issued' = [issued EXCEPT ![t] = @ + 1]
  /\ UNCHANGED <<committed, loaded, own, locks, base>>

\* create_document: the primary key refuses a second row.
InsertDocument(t) ==
  LET d == call[t].doc IN
  /\ At(t, "insert", "create_document")
  /\ \/ DocSeen(t, d) # NoDoc /\ Abort(t)
     \/ /\ DocSeen(t, d) = NoDoc
        /\ ownDocs' = [ownDocs EXCEPT ![t][d] = NoVersion]
        /\ TakeExclusive(t, d)
        /\ CallEnds(t)
        /\ UNCHANGED <<committed, issued, ownVersions, ownChunks, share, base>>

\* create_version: uq_source_version_document_number refuses a second row; the
\* foreign key to the document is checked next.
InsertVersion(t) ==
  LET v == call[t].version IN
  /\ At(t, "insert", "create_version")
  /\ \/ VersionSeen(t, v) # Absent /\ Abort(t)
     \/ /\ VersionSeen(t, v) = Absent
        /\ Writes(t, v, [Absent EXCEPT !.status = "queued", !.hashed = call[t].hash])
        /\ TakeExclusive(t, v)
        /\ Goto(t, "reference")
        /\ UNCHANGED <<committed, call, issued, loaded, ownDocs, ownChunks, share, base>>

FaultyLockVersionWithoutLock(t) ==
  LET v == call[t].version IN
  /\ pc[t] = "lock" /\ call[t].name \in {"transition_version", "record_embedding_profile"}
  /\ loaded' = [loaded EXCEPT ![t] = VersionSeen(t, v)]
  /\ RemembersBase(t, v)
  /\ Goto(t, "decide")
  /\ UNCHANGED <<committed, call, issued, own, locks>>

\* SELECT ... FOR UPDATE of the source version; no row when it is not there.
LockVersion(t) ==
  LET v == call[t].version IN
  /\ pc[t] = "lock" /\ call[t].name \in {"transition_version", "record_embedding_profile"}
  /\ Blockers(t) = {}
  /\ loaded' = [loaded EXCEPT ![t] = VersionSeen(t, v)]
  /\ IF Exists(t, v) THEN TakeExclusive(t, v) ELSE UNCHANGED exclusive
  /\ RemembersBase(t, v)
  /\ Goto(t, "decide")
  /\ UNCHANGED <<committed, call, issued, own, share>>

\* SELECT ... FOR UPDATE of the document, in set_active_version, which gives up on
\* a document that is not there.
LockDocument(t) ==
  LET d == call[t].doc IN
  /\ At(t, "lock", "set_active_version")
  /\ \/ /\ Exists(t, d)
        /\ TakeExclusive(t, d)
        /\ Goto(t, "read")
        /\ UNCHANGED <<call, loaded>>
     \/ ~Exists(t, d) /\ CallEnds(t) /\ UNCHANGED exclusive
  /\ UNCHANGED <<committed, issued, own, share, base>>

\* session.get of the source version takes no lock.
ReadVersion(t) ==
  /\ pc[t] = "read" /\ call[t].name \in {"add_chunks", "set_active_version"}
  /\ loaded' = [loaded EXCEPT ![t] = VersionSeen(t, call[t].version)]
  /\ Goto(t, "decide")
  /\ UNCHANGED <<committed, call, issued, own, locks, base>>

\* delete_document reads the document without a lock, then deletes it.
ReadDocument(t) ==
  /\ pc[t] = "read" /\ call[t].name = "delete_document"
  /\ \/ ~Exists(t, call[t].doc) /\ CallEnds(t)
     \/ Exists(t, call[t].doc) /\ Goto(t, "lock") /\ UNCHANGED <<call, loaded>>
  /\ UNCHANGED <<committed, issued, own, locks, base>>

TransitionAllowed(row, c) ==
  /\ row.status \in Statuses
  /\ c.target \in Legal[row.status]
  /\ c.target = "indexed" => row.hashed \/ c.hash

\* The trigger and the unique index look at the row as it is.
DatabaseRefuses(t, v) ==
  \/ ~TriggerAllows(VersionSeen(t, v).status, call[t].target)
  \/ Indexes(t) /\ IndexConflict(t, v)

\* transition_version: the checks on the locked row, then the UPDATE.
Transition(t) ==
  LET v == call[t].version IN
  /\ At(t, "decide", "transition_version")
  /\ \/ /\ ~TransitionAllowed(loaded[t], call[t])
        /\ CallEnds(t)
        /\ UNCHANGED <<committed, issued, own, locks, base>>
     \/ /\ TransitionAllowed(loaded[t], call[t])
        /\ DatabaseRefuses(t, v)
        /\ Abort(t)
     \/ /\ TransitionAllowed(loaded[t], call[t])
        /\ ~DatabaseRefuses(t, v)
        /\ Writes(t, v, [loaded[t] EXCEPT !.status = call[t].target, !.hashed = @ \/ call[t].hash])
        /\ CallEnds(t)
        /\ UNCHANGED <<committed, issued, ownDocs, ownChunks, locks, base>>

\* record_embedding_profile: a recorded profile may only be repeated.
RecordProfile(t) ==
  LET v == call[t].version IN
  /\ At(t, "decide", "record_embedding_profile")
  /\ IF loaded[t].status \in Statuses /\ loaded[t].profile = NoProfile
     THEN Writes(t, v, [loaded[t] EXCEPT !.profile = call[t].profile])
     ELSE UNCHANGED ownVersions
  /\ CallEnds(t)
  /\ UNCHANGED <<committed, issued, ownDocs, ownChunks, locks, base>>

FaultySetActiveUnchecked(t) ==
  LET d == call[t].doc
      v == call[t].version
      Refused == loaded[t].status \notin Statuses
  IN
  /\ At(t, "decide", "set_active_version")
  /\ \/ /\ Refused \/ DocSeen(t, d) = v
        /\ CallEnds(t)
        /\ UNCHANGED ownDocs
     \/ /\ ~Refused /\ DocSeen(t, d) # v
        /\ ownDocs' = [ownDocs EXCEPT ![t][d] = v]
        /\ Goto(t, "reference")
        /\ UNCHANGED <<call, loaded>>
  /\ UNCHANGED <<committed, issued, ownVersions, ownChunks, locks, base>>

\* set_active_version: the version read must be an indexed one of the document.
\* An assignment of the value that is already there writes nothing.
SetActive(t) ==
  LET d == call[t].doc
      v == call[t].version
      Refused == DocOf[v] # d \/ loaded[t].status # "indexed"
  IN
  /\ At(t, "decide", "set_active_version")
  /\ \/ /\ Refused \/ DocSeen(t, d) = v
        /\ CallEnds(t)
        /\ UNCHANGED ownDocs
     \/ /\ ~Refused /\ DocSeen(t, d) # v
        /\ ownDocs' = [ownDocs EXCEPT ![t][d] = v]
        /\ Goto(t, "reference")
        /\ UNCHANGED <<call, loaded>>
  /\ UNCHANGED <<committed, issued, ownVersions, ownChunks, locks, base>>

FaultyInsertChunk(t) ==
  LET c == call[t] IN
  /\ At(t, "decide", "add_chunks")
  /\ \/ /\ loaded[t].status \notin Statuses
        /\ CallEnds(t)
        /\ UNCHANGED ownChunks
     \/ /\ loaded[t].status \in Statuses
        /\ ownChunks' = [ownChunks EXCEPT ![t][c.version] = @ \cup {c.profile}]
        /\ Goto(t, "reference")
        /\ UNCHANGED <<call, loaded>>
  /\ UNCHANGED <<committed, issued, ownDocs, ownVersions, locks, base>>

\* add_chunks: an embedded chunk needs the recorded profile and its dimension.
InsertChunk(t) ==
  LET c == call[t] IN
  /\ At(t, "decide", "add_chunks")
  /\ \/ /\ loaded[t].status \notin Statuses \/ c.profile \notin {NoProfile, loaded[t].profile}
        /\ CallEnds(t)
        /\ UNCHANGED ownChunks
     \/ /\ loaded[t].status \in Statuses /\ c.profile \in {NoProfile, loaded[t].profile}
        /\ ownChunks' = [ownChunks EXCEPT ![t][c.version] = @ \cup {c.profile}]
        /\ Goto(t, "reference")
        /\ UNCHANGED <<call, loaded>>
  /\ UNCHANGED <<committed, issued, ownDocs, ownVersions, locks, base>>

FaultyReferenceUnchecked(t) ==
  /\ pc[t] = "reference"
  /\ CallEnds(t)
  /\ UNCHANGED <<committed, issued, own, locks, base>>

\* The foreign key check of the row just written: the referenced row is locked
\* FOR KEY SHARE, or is not there.
ReferenceRow(t) ==
  LET row == ReferencedRow(call[t]) IN
  /\ pc[t] = "reference" /\ Blockers(t) = {}
  /\ \/ ~Exists(t, row) /\ Abort(t)
     \/ /\ Exists(t, row)
        /\ share' = [share EXCEPT ![row] = @ \cup {t}]
        /\ CallEnds(t)
        /\ UNCHANGED <<committed, issued, own, exclusive, base>>

\* DELETE of the document; nothing to delete when it went while t waited.
DeleteDocument(t) ==
  LET d == call[t].doc IN
  /\ At(t, "lock", "delete_document")
  /\ IF Exists(t, d)
     THEN /\ ownDocs' = [ownDocs EXCEPT ![t][d] = DeletedDoc]
          /\ TakeExclusive(t, d)
          /\ Goto(t, "cascade")
          /\ UNCHANGED <<call, loaded>>
     ELSE CallEnds(t) /\ UNCHANGED <<ownDocs, exclusive>>
  /\ UNCHANGED <<committed, issued, ownVersions, ownChunks, share, base>>

\* ON DELETE CASCADE: a version goes with its chunks, once nobody holds its row.
CascadeVersion(t, v) ==
  /\ pc[t] = "cascade" /\ v \in ToCascade(t) /\ Holders(t, v) = {}
  /\ Writes(t, v, Deleted)
  /\ RemembersBase(t, v)
  /\ ownChunks' = [ownChunks EXCEPT ![t][v] = {}]
  /\ TakeExclusive(t, v)
  /\ UNCHANGED <<committed, pc, call, issued, loaded, ownDocs, share>>

CascadeDone(t) ==
  /\ pc[t] = "cascade" /\ ToCascade(t) = {}
  /\ CallEnds(t)
  /\ UNCHANGED <<committed, issued, own, locks, base>>

-----------------------------------------------------------------------------
(* The end of a transaction *)

\* The end of session.begin(): everything the transaction wrote becomes visible.
Commit(t) ==
  /\ pc[t] = "ready" /\ issued[t] > 0
  /\ docs' = [d \in Docs |-> DocSeen(t, d)]
  /\ versions' = [v \in Versions |-> VersionSeen(t, v)]
  /\ chunks' = [v \in Versions |->
       IF ownVersions[t][v] = Deleted THEN {} ELSE chunks[v] \cup ownChunks[t][v]]
  /\ Discard(t)

\* An exception leaves session.begin(), or the client or its connection is gone.
Rollback(t) == issued[t] > 0 /\ Abort(t)

\* PostgreSQL ends one of the transactions that wait for each other in a circle.
Deadlocked(t) ==
  Blockers(t) # {} /\ \E S \in SUBSET Txns : t \in S /\ \A u \in S : Blockers(u) \cap S # {}
BreakDeadlock(t) == Deadlocked(t) /\ Abort(t)

Statement(t) ==
  \/ InsertDocument(t) \/ InsertVersion(t)
  \/ LockVersion(t) \/ LockDocument(t) \/ ReadVersion(t) \/ ReadDocument(t)
  \/ Transition(t) \/ RecordProfile(t) \/ SetActive(t) \/ InsertChunk(t)
  \/ ReferenceRow(t)
  \/ DeleteDocument(t) \/ (\E v \in Versions : CascadeVersion(t, v)) \/ CascadeDone(t)

Next ==
  \E t \in Txns :
    \/ \E c \in Calls : Issue(t, c)
    \/ Statement(t)
    \/ Commit(t) \/ Rollback(t) \/ BreakDeadlock(t)

Spec == Init /\ [][Next]_vars

\* A statement that can run does, a circle of waits is broken, and a client does
\* not leave a transaction open for ever.
FairSpec ==
  /\ Spec
  /\ \A t \in Txns : SF_vars(Statement(t)) /\ WF_vars(BreakDeadlock(t)) /\ WF_vars(Commit(t))

-----------------------------------------------------------------------------
(* Properties *)

\* At most one committed version of a document is indexed, whatever transactions
\* index and supersede versions at once.
OneIndexedPerDocument ==
  \A v \in Versions : \A w \in Siblings(v) :
    ~(versions[v].status = "indexed" /\ versions[w].status = "indexed")

\* The active version of a document is one of its own that was fully indexed, also
\* when the version was superseded or deleted while set_active_version ran.
ActiveVersionWasIndexed ==
  \A d \in Docs : docs[d] \in Versions =>
    DocOf[docs[d]] = d /\ versions[docs[d]].status \in {"indexed", "superseded"}

\* No version outlives its document and no chunk its version, also when they are
\* added while the document is being deleted.
NoOrphans ==
  \A v \in Versions :
    /\ versions[v].status \in Statuses => docs[DocOf[v]] \notin {NoDoc, DeletedDoc}
    /\ chunks[v] # {} => versions[v].status \in Statuses

\* An embedded chunk has the dimension of its version's profile, although
\* add_chunks reads the profile without a lock.
EmbeddedChunksMatchProfile ==
  \A v \in Versions : chunks[v] \subseteq {NoProfile, versions[v].profile}

\* What one commit may make of a version that was there before: it moves forward in
\* the lifecycle and out of no final state, an indexed one never fails, and a
\* recorded hash or embedding profile stays.
Order == [queued |-> 0, processing |-> 1, indexed |-> 2, failed |-> 3, superseded |-> 3]
Progresses(before, after) ==
  /\ before = after \/ Order[before] < Order[after]
  /\ before = "indexed" => after # "failed"
Moves(before, after) ==
  \/ after = Deleted
  \/ /\ Progresses(before.status, after.status)
     /\ before.hashed => after.hashed
     /\ before.profile \in {NoProfile, after.profile}
CommittedLifecycle ==
  [][\A v \in Versions : versions[v].status \in Statuses => Moves(versions[v], versions'[v])]_vars

\* Whatever the transactions do to each other, a reader sees the catalogue of
\* SourceCatalogue: each commit moves documents and versions forward, deletes nothing but
\* whole documents, takes no chunk from a version, and leaves the tables consistent.
Catalogue == INSTANCE SourceCatalogue
ImplementsCatalogue == Catalogue!Spec

\* A transaction that changes a version commits on top of the row it decided on:
\* two workers cannot both claim one version, and no update is lost.
NoLostUpdate ==
  [][\A t \in Txns : Commit(t) =>
       \A v \in Versions : ownVersions[t][v] # Untouched => versions[v] = base[t][v]]_vars

\* Every call of a repository method ends, whatever the other transactions hold.
EveryCallEnds == \A t \in Txns : pc[t] # "ready" ~> pc[t] = "ready"

\* What set_active_version says of itself, "Only an indexed source version can
\* become active.": a version is indexed when it becomes active.
ActivatedVersionIsIndexed ==
  [][\A d \in Docs : docs'[d] \in Versions /\ docs'[d] # docs[d] => versions'[docs'[d]].status = "indexed"]_vars

\* What SourceRepository says of versions, "immutable": the chunks of an indexed
\* version do not change.
IndexedContentIsImmutable ==
  [][\A v \in Versions :
       versions[v].status = "indexed" /\ versions'[v] # Deleted => chunks'[v] = chunks[v]]_vars
===============================================================================
