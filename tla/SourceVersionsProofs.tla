-------------------------- MODULE SourceVersionsProofs --------------------------
(* Proofs about SourceVersions, for any number of transactions, documents,     *)
(* versions and profiles, and calls of any number in a transaction.            *)
EXTENDS SourceVersions, TLAPS

\* A call has the arguments its method takes.
LEMMA CallFields ==
  ASSUME NEW c \in Calls
  PROVE  /\ c.name \in Methods /\ c.doc \in Docs
         /\ c.version \in Versions \cup {NoVersion}
         /\ c.target \in Statuses /\ c.hash \in BOOLEAN
         /\ c.profile \in Profiles \cup {NoProfile}
         /\ c.name \notin OfDocument => c.version \in Versions
         /\ c.name \notin OfDocument \cup {"set_active_version"} => c.doc = DocOf[c.version]
         /\ c.name = "record_embedding_profile" => c.profile \in Profiles
<1>1. c.name \in Methods /\ c.doc \in Docs /\ c.version \in Versions \cup {NoVersion} /\ c.target \in Statuses
      /\ c.hash \in BOOLEAN /\ c.profile \in Profiles \cup {NoProfile}
  <2>1. c \in Requests
    BY DEF Calls
  <2>2. c.hash \in BOOLEAN
    BY <2>1, Zenon DEF Requests
  <2> QED
    BY <2>1, <2>2 DEF Requests
<1>2. c.name \notin OfDocument => c.version \in Versions
  BY <1>1 DEF Calls
<1>3. c.name \notin OfDocument \cup {"set_active_version"} => c.doc = DocOf[c.version]
  BY DEF Calls
<1>4. c.name = "record_embedding_profile" => c.profile \in Profiles
  BY DEF Calls
<1> QED
  BY <1>1, <1>2, <1>3, <1>4

\* A transaction that is about to run a statement is in a call that has one.
InCall ==
  \A t \in Txns :
    /\ pc[t] # "ready" => call[t] \in Calls
    /\ pc[t] = "insert" => call[t].name \in {"create_document", "create_version"}
    /\ pc[t] = "reference" => call[t].name \in {"create_version", "add_chunks", "set_active_version"}
    /\ pc[t] = "cascade" => call[t].name = "delete_document"

TypeInv == TypeOK /\ InCall

LEMMA RowTypes ==
  /\ Absent \in VersionRow /\ Deleted \in VersionRow
  /\ Absent.status = "absent" /\ Deleted.status = "deleted" /\ Absent # Deleted
<1>1. Absent \in VersionRow /\ Absent.status = "absent"
  BY DEF VersionRow, Absent
<1>2. Deleted \in VersionRow /\ Deleted.status = "deleted"
  BY <1>1, Zenon DEF Deleted, VersionRow
<1> QED
  BY <1>1, <1>2

\* What Transition and RecordProfile make of a row is a row.
LEMMA StatusUpdateType ==
  ASSUME NEW row \in VersionRow, NEW s \in Statuses, NEW h \in BOOLEAN
  PROVE  /\ [row EXCEPT !.status = s, !.hashed = @ \/ h] \in VersionRow
         /\ [row EXCEPT !.status = s, !.hashed = @ \/ h].status = s
         /\ row.hashed => [row EXCEPT !.status = s, !.hashed = @ \/ h].hashed
         /\ [row EXCEPT !.status = s, !.hashed = @ \/ h].profile = row.profile
  BY Zenon DEF VersionRow
LEMMA ProfileUpdateType ==
  ASSUME NEW row \in VersionRow, NEW p \in Profiles
  PROVE  /\ [row EXCEPT !.profile = p] \in VersionRow
         /\ [row EXCEPT !.profile = p].status = row.status
         /\ row.hashed => [row EXCEPT !.profile = p].hashed
         /\ [row EXCEPT !.profile = p].profile = p
  BY Zenon DEF VersionRow
LEMMA NewRowType ==
  ASSUME NEW h \in BOOLEAN
  PROVE  /\ [Absent EXCEPT !.status = "queued", !.hashed = h] \in VersionRow
         /\ [Absent EXCEPT !.status = "queued", !.hashed = h].status = "queued"
  BY Zenon DEF VersionRow, Absent, Statuses

LEMMA SeenTypes ==
  ASSUME TypeOK, NEW t \in Txns
  PROVE  /\ \A v \in Versions : VersionSeen(t, v) \in VersionRow
         /\ \A d \in Docs : DocSeen(t, d) \in DocRow
  BY DEF TypeOK, VersionSeen, DocSeen

\* The types in two parts: where each transaction is, and what is written and locked.
ControlTypes ==
  /\ pc \in [Txns -> {"ready", "insert", "lock", "read", "decide", "reference", "cascade"}]
  /\ call \in [Txns -> Calls \cup {NoCall}]
  /\ loaded \in [Txns -> VersionRow]
  /\ InCall
RowTypesOK ==
  /\ docs \in [Docs -> DocRow]
  /\ versions \in [Versions -> VersionRow]
  /\ chunks \in [Versions -> SUBSET (Profiles \cup {NoProfile})]
OwnTypes ==
  /\ ownDocs \in [Txns -> [Docs -> DocRow \cup {Untouched}]]
  /\ ownVersions \in [Txns -> [Versions -> VersionRow \cup {Untouched}]]
  /\ ownChunks \in [Txns -> [Versions -> SUBSET (Profiles \cup {NoProfile})]]
LockTypes ==
  /\ exclusive \in [Rows -> Txns \cup {NoTxn}]
  /\ share \in [Rows -> SUBSET Txns]
  /\ base \in [Txns -> [Versions -> VersionRow]]
IssuedTypes == issued \in [Txns -> Nat] /\ \A t \in Txns : issued[t] <= MaxCalls[t]

LEMMA TypeParts == TypeInv <=> ControlTypes /\ RowTypesOK /\ OwnTypes /\ LockTypes /\ IssuedTypes
  BY DEF TypeInv, TypeOK, ControlTypes, RowTypesOK, OwnTypes, LockTypes, IssuedTypes
LEMMA TypePartsNext == ControlTypes' /\ RowTypesOK' /\ OwnTypes' /\ LockTypes' /\ IssuedTypes' => TypeInv'
  BY DEF TypeInv, TypeOK, ControlTypes, RowTypesOK, OwnTypes, LockTypes, IssuedTypes

LEMMA CallEndsTypes ==
  ASSUME TypeInv, NEW t \in Txns, CallEnds(t)
  PROVE  ControlTypes'
  BY RowTypes DEF TypeInv, TypeOK, InCall, CallEnds, Goto, ControlTypes

LEMMA GotoTypes ==
  ASSUME TypeInv, NEW t \in Txns,
         NEW s \in {"read", "decide", "reference", "cascade", "lock"},
         pc[t] # "ready", Goto(t, s), UNCHANGED call, loaded' \in [Txns -> VersionRow],
         s = "reference" => call[t].name \in {"create_version", "add_chunks", "set_active_version"},
         s = "cascade" => call[t].name = "delete_document"
  PROVE  ControlTypes'
  BY DEF TypeInv, TypeOK, InCall, Goto, ControlTypes

LEMMA DiscardTypes ==
  ASSUME TypeInv, NEW t \in Txns, Discard(t), RowTypesOK'
  PROVE  TypeInv'
<1>1. ControlTypes'
  BY CallEndsTypes DEF Discard
<1>2. IssuedTypes'
  <2>1. \A u \in Txns : MaxCalls[u] \in Nat
    BY CallsAssumption
  <2>2. issued' = [issued EXCEPT ![t] = 0]
    BY DEF Discard
  <2> QED
    BY <2>1, <2>2 DEF IssuedTypes, TypeInv, TypeOK
<1>3. OwnTypes'
  BY DEF TypeInv, TypeOK, Discard, Nothing, OwnTypes
<1>4. LockTypes'
  BY RowTypes DEF TypeInv, TypeOK, Discard, LockTypes
<1> QED
  BY <1>1, <1>2, <1>3, <1>4, TypePartsNext

LEMMA AbortTypes ==
  ASSUME TypeInv, NEW t \in Txns, Abort(t)
  PROVE  TypeInv'
<1>1. RowTypesOK'
  BY DEF Abort, committed, TypeInv, TypeOK, RowTypesOK
<1> QED
  BY <1>1, DiscardTypes DEF Abort

LEMMA TypeInit == Init => TypeInv
  BY RowTypes, CallsAssumption DEF Init, TypeInv, TypeOK, InCall, Nothing, DocRow

\* The types of single writes and locks.
LEMMA WritesType ==
  ASSUME TypeOK, NEW t \in Txns, NEW v \in Versions, NEW row \in VersionRow, Writes(t, v, row)
  PROVE  ownVersions' \in [Txns -> [Versions -> VersionRow \cup {Untouched}]]
  BY DEF TypeOK, Writes

LEMMA OwnDocType ==
  ASSUME TypeOK, NEW t \in Txns, NEW d \in Docs, NEW row \in DocRow, ownDocs' = [ownDocs EXCEPT ![t][d] = row]
  PROVE  ownDocs' \in [Txns -> [Docs -> DocRow \cup {Untouched}]]
  BY DEF TypeOK

LEMMA OwnChunksType ==
  ASSUME TypeOK, NEW t \in Txns, NEW v \in Versions, NEW p \in Profiles \cup {NoProfile},
         \/ ownChunks' = [ownChunks EXCEPT ![t][v] = @ \cup {p}]
         \/ ownChunks' = [ownChunks EXCEPT ![t][v] = {}]
  PROVE  ownChunks' \in [Txns -> [Versions -> SUBSET (Profiles \cup {NoProfile})]]
<1>1. ASSUME NEW S \in SUBSET (Profiles \cup {NoProfile}), ownChunks' = [ownChunks EXCEPT ![t][v] = S]
      PROVE  ownChunks' \in [Txns -> [Versions -> SUBSET (Profiles \cup {NoProfile})]]
  BY <1>1 DEF TypeOK
<1>2. ownChunks[t][v] \cup {p} \in SUBSET (Profiles \cup {NoProfile})
  BY DEF TypeOK
<1>3. CASE ownChunks' = [ownChunks EXCEPT ![t][v] = {}]
  BY <1>3 DEF TypeOK
<1>4. CASE ownChunks' = [ownChunks EXCEPT ![t][v] = @ \cup {p}]
  BY <1>1, <1>2, <1>4
<1> QED
  BY <1>3, <1>4

LEMMA ExclusiveType ==
  ASSUME TypeOK, NEW t \in Txns, NEW row \in Rows, TakeExclusive(t, row)
  PROVE  exclusive' \in [Rows -> Txns \cup {NoTxn}]
  BY DEF TypeOK, TakeExclusive

LEMMA ShareType ==
  ASSUME TypeOK, NEW t \in Txns, NEW row \in Rows, share' = [share EXCEPT ![row] = @ \cup {t}]
  PROVE  share' \in [Rows -> SUBSET Txns]
  BY DEF TypeOK

LEMMA BaseType ==
  ASSUME TypeOK, NEW t \in Txns, NEW v \in Versions, RemembersBase(t, v)
  PROVE  base' \in [Txns -> [Versions -> VersionRow]]
  BY DEF TypeOK, RemembersBase

LEMMA TypeStatement ==
  ASSUME TypeInv, NEW t \in Txns, Statement(t)
  PROVE  TypeInv'
<1>0. (pc[t] # "ready" => call[t] \in Calls) /\ TypeOK
  BY DEF TypeInv, InCall
<1>a. pc[t] # "ready" =>
        /\ call[t].doc \in Docs /\ call[t].profile \in Profiles \cup {NoProfile}
        /\ call[t].target \in Statuses /\ call[t].hash \in BOOLEAN
        /\ call[t].name \notin OfDocument => call[t].version \in Versions
        /\ call[t].name = "record_embedding_profile" => call[t].profile \in Profiles
        /\ call[t].doc \in Rows /\ (call[t].version \in Versions => call[t].version \in Rows)
  BY <1>0, CallFields DEF Rows
<1>1. CASE InsertDocument(t)
  <2>1. CASE Abort(t)
    BY <2>1, AbortTypes
  <2>2. CASE ~Abort(t)
    <3>1. ControlTypes'
      BY <1>1, <2>2, <1>0, CallEndsTypes DEF InsertDocument, At, TypeOK, OfDocument
    <3>2. RowTypesOK' /\ IssuedTypes'
      BY <1>1, <2>2, <1>0 DEF InsertDocument, committed, TypeOK, RowTypesOK, IssuedTypes
    <3>3. OwnTypes'
      BY <1>1, <2>2, <1>0, <1>a, OwnDocType DEF InsertDocument, At, own, TypeOK, OwnTypes, DocRow
    <3>4. LockTypes'
      BY <1>1, <2>2, <1>0, <1>a, ExclusiveType DEF InsertDocument, At, locks, TypeOK, LockTypes
    <3> QED
      BY <3>1, <3>2, <3>3, <3>4, TypePartsNext
  <2> QED
    BY <2>1, <2>2
<1>2. CASE InsertVersion(t)
  <2>1. CASE Abort(t)
    BY <2>1, AbortTypes
  <2>2. CASE ~Abort(t)
    <3>1. ControlTypes'
      BY <1>2, <2>2, <1>0, GotoTypes DEF InsertVersion, At, TypeOK, OfDocument
    <3>2. RowTypesOK' /\ IssuedTypes'
      BY <1>2, <2>2, <1>0 DEF InsertVersion, committed, TypeOK, RowTypesOK, IssuedTypes
    <3>3. OwnTypes'
      BY <1>2, <2>2, <1>0, <1>a, NewRowType, WritesType DEF InsertVersion, At, own, TypeOK, OwnTypes, OfDocument
    <3>4. LockTypes'
      BY <1>2, <2>2, <1>0, <1>a, ExclusiveType DEF InsertVersion, At, locks, TypeOK, LockTypes, OfDocument
    <3> QED
      BY <3>1, <3>2, <3>3, <3>4, TypePartsNext
  <2> QED
    BY <2>1, <2>2
<1>3. CASE LockVersion(t)
  <2>1. ControlTypes'
    BY <1>3, <1>0, GotoTypes, SeenTypes, CallFields DEF LockVersion, At, TypeOK, OfDocument
  <2>2. RowTypesOK' /\ IssuedTypes'
    BY <1>3, <1>0 DEF LockVersion, committed, TypeOK, RowTypesOK, IssuedTypes
  <2>3. OwnTypes'
    BY <1>3, <1>0 DEF LockVersion, At, own, TypeOK, OwnTypes
  <2>4. LockTypes'
    BY <1>3, <1>0, <1>a, ExclusiveType, BaseType DEF LockVersion, locks, TypeOK, LockTypes, OfDocument
  <2> QED
    BY <2>1, <2>2, <2>3, <2>4, TypePartsNext
<1>4. CASE LockDocument(t)
  <2>1. ControlTypes'
    BY <1>4, <1>0, CallEndsTypes, GotoTypes DEF LockDocument, At, TypeOK, OfDocument
  <2>2. RowTypesOK' /\ IssuedTypes'
    BY <1>4, <1>0 DEF LockDocument, committed, TypeOK, RowTypesOK, IssuedTypes
  <2>3. OwnTypes'
    BY <1>4, <1>0 DEF LockDocument, At, own, TypeOK, OwnTypes
  <2>4. LockTypes'
    BY <1>4, <1>0, <1>a, ExclusiveType DEF LockDocument, At, locks, TypeOK, LockTypes
  <2> QED
    BY <2>1, <2>2, <2>3, <2>4, TypePartsNext
<1>5. CASE ReadVersion(t)
  <2>1. ControlTypes'
    BY <1>5, <1>0, GotoTypes, SeenTypes, CallFields DEF ReadVersion, At, TypeOK, OfDocument
  <2>2. RowTypesOK' /\ IssuedTypes'
    BY <1>5, <1>0 DEF ReadVersion, committed, TypeOK, RowTypesOK, IssuedTypes
  <2>3. OwnTypes'
    BY <1>5, <1>0 DEF ReadVersion, At, own, TypeOK, OwnTypes
  <2>4. LockTypes'
    BY <1>5, <1>0 DEF ReadVersion, At, locks, TypeOK, LockTypes
  <2> QED
    BY <2>1, <2>2, <2>3, <2>4, TypePartsNext
<1>6. CASE ReadDocument(t)
  <2>1. ControlTypes'
    BY <1>6, <1>0, CallEndsTypes, GotoTypes DEF ReadDocument, At, TypeOK, OfDocument
  <2>2. RowTypesOK' /\ IssuedTypes'
    BY <1>6, <1>0 DEF ReadDocument, committed, TypeOK, RowTypesOK, IssuedTypes
  <2>3. OwnTypes'
    BY <1>6, <1>0 DEF ReadDocument, At, own, TypeOK, OwnTypes
  <2>4. LockTypes'
    BY <1>6, <1>0 DEF ReadDocument, At, locks, TypeOK, LockTypes
  <2> QED
    BY <2>1, <2>2, <2>3, <2>4, TypePartsNext
<1>7. CASE Transition(t)
  <2>1. CASE Abort(t)
    BY <2>1, AbortTypes
  <2>2. CASE ~Abort(t)
    <3>1. ControlTypes'
      BY <1>7, <2>2, <1>0, CallEndsTypes DEF Transition, At, TypeOK, OfDocument
    <3>2. RowTypesOK' /\ IssuedTypes'
      BY <1>7, <2>2, <1>0 DEF Transition, committed, TypeOK, RowTypesOK, IssuedTypes
    <3>3. OwnTypes'
      <4>1. CASE UNCHANGED own
        BY <4>1, <1>0 DEF own, TypeOK, OwnTypes
      <4>2. CASE ~UNCHANGED own
        <5>1. /\ Writes(t, call[t].version, [loaded[t] EXCEPT !.status = call[t].target, !.hashed = @ \/ call[t].hash])
              /\ UNCHANGED <<ownDocs, ownChunks>>
              /\ pc[t] = "decide" /\ call[t].name = "transition_version"
          BY <1>7, <2>2, <4>2 DEF Transition, At
        <5>2. [loaded[t] EXCEPT !.status = call[t].target, !.hashed = @ \/ call[t].hash] \in VersionRow
          BY <5>1, <1>0, <1>a, StatusUpdateType DEF TypeOK
        <5> QED
          BY <5>1, <5>2, <1>0, <1>a, WritesType DEF OfDocument, TypeOK, OwnTypes
      <4> QED
        BY <4>1, <4>2
    <3>4. LockTypes'
      BY <1>7, <2>2, <1>0 DEF Transition, At, locks, TypeOK, LockTypes
    <3> QED
      BY <3>1, <3>2, <3>3, <3>4, TypePartsNext
  <2> QED
    BY <2>1, <2>2
<1>8. CASE RecordProfile(t)
  <2>1. ControlTypes'
    BY <1>8, <1>0, CallEndsTypes DEF RecordProfile, At, TypeOK, OfDocument
  <2>2. RowTypesOK' /\ IssuedTypes'
    BY <1>8, <1>0 DEF RecordProfile, committed, TypeOK, RowTypesOK, IssuedTypes
  <2>3. OwnTypes'
    <3>1. CASE UNCHANGED ownVersions
      BY <1>8, <3>1, <1>0 DEF RecordProfile, own, TypeOK, OwnTypes
    <3>2. CASE ~UNCHANGED ownVersions
      <4>1. /\ Writes(t, call[t].version, [loaded[t] EXCEPT !.profile = call[t].profile])
            /\ UNCHANGED <<ownDocs, ownChunks>>
            /\ pc[t] = "decide" /\ call[t].name = "record_embedding_profile"
        BY <1>8, <3>2 DEF RecordProfile, At
      <4>2. [loaded[t] EXCEPT !.profile = call[t].profile] \in VersionRow
        BY <4>1, <1>0, <1>a, ProfileUpdateType DEF TypeOK
      <4> QED
        BY <4>1, <4>2, <1>0, <1>a, WritesType DEF OfDocument, TypeOK, OwnTypes
    <3> QED
      BY <3>1, <3>2
  <2>4. LockTypes'
    BY <1>8, <1>0 DEF RecordProfile, At, locks, TypeOK, LockTypes
  <2> QED
    BY <2>1, <2>2, <2>3, <2>4, TypePartsNext
<1>9. CASE SetActive(t)
  <2>1. ControlTypes'
    BY <1>9, <1>0, CallEndsTypes, GotoTypes DEF SetActive, At, TypeOK, OfDocument
  <2>2. RowTypesOK' /\ IssuedTypes'
    BY <1>9, <1>0 DEF SetActive, committed, TypeOK, RowTypesOK, IssuedTypes
  <2>3. OwnTypes'
    BY <1>9, <1>0, <1>a, OwnDocType DEF SetActive, At, TypeOK, OwnTypes, DocRow, OfDocument
  <2>4. LockTypes'
    BY <1>9, <1>0 DEF SetActive, At, locks, TypeOK, LockTypes
  <2> QED
    BY <2>1, <2>2, <2>3, <2>4, TypePartsNext
<1>10. CASE InsertChunk(t)
  <2>1. ControlTypes'
    BY <1>10, <1>0, CallEndsTypes, GotoTypes DEF InsertChunk, At, TypeOK, OfDocument
  <2>2. RowTypesOK' /\ IssuedTypes'
    BY <1>10, <1>0 DEF InsertChunk, committed, TypeOK, RowTypesOK, IssuedTypes
  <2>3. OwnTypes'
    <3>1. CASE UNCHANGED ownChunks
      BY <1>10, <3>1, <1>0 DEF InsertChunk, TypeOK, OwnTypes
    <3>2. CASE ~UNCHANGED ownChunks
      <4>1. /\ ownChunks' = [ownChunks EXCEPT ![t][call[t].version] = @ \cup {call[t].profile}]
            /\ UNCHANGED <<ownDocs, ownVersions>>
            /\ pc[t] = "decide" /\ call[t].name = "add_chunks"
        BY <1>10, <3>2 DEF InsertChunk, At
      <4> QED
        BY <4>1, <1>0, <1>a, OwnChunksType DEF TypeOK, OwnTypes, OfDocument
    <3> QED
      BY <3>1, <3>2
  <2>4. LockTypes'
    BY <1>10, <1>0 DEF InsertChunk, At, locks, TypeOK, LockTypes
  <2> QED
    BY <2>1, <2>2, <2>3, <2>4, TypePartsNext
<1>11. CASE ReferenceRow(t)
  <2>1. CASE Abort(t)
    BY <2>1, AbortTypes
  <2>2. CASE ~Abort(t)
    <3>1. ControlTypes'
      BY <1>11, <2>2, <1>0, CallEndsTypes DEF ReferenceRow, At, TypeOK, OfDocument
    <3>2. RowTypesOK' /\ IssuedTypes'
      BY <1>11, <2>2, <1>0 DEF ReferenceRow, committed, TypeOK, RowTypesOK, IssuedTypes
    <3>3. OwnTypes'
      BY <1>11, <2>2, <1>0 DEF ReferenceRow, At, own, TypeOK, OwnTypes
    <3>4. LockTypes'
      <4>1. /\ pc[t] = "reference" /\ UNCHANGED <<exclusive, base>>
              /\ share' = [share EXCEPT ![ReferencedRow(call[t])] = @ \cup {t}]
          BY <1>11, <2>2 DEF ReferenceRow
        <4>2. ReferencedRow(call[t]) \in Rows
          BY <4>1, <1>a DEF ReferencedRow, TypeInv, InCall, OfDocument
        <4> QED
          BY <4>1, <4>2, <1>0, ShareType DEF TypeOK, LockTypes
    <3> QED
      BY <3>1, <3>2, <3>3, <3>4, TypePartsNext
  <2> QED
    BY <2>1, <2>2
<1>12. CASE DeleteDocument(t)
  <2>1. ControlTypes'
    BY <1>12, <1>0, CallEndsTypes, GotoTypes DEF DeleteDocument, At, TypeOK, OfDocument
  <2>2. RowTypesOK' /\ IssuedTypes'
    BY <1>12, <1>0 DEF DeleteDocument, committed, TypeOK, RowTypesOK, IssuedTypes
  <2>3. OwnTypes'
    BY <1>12, <1>0, <1>a, OwnDocType DEF DeleteDocument, At, TypeOK, OwnTypes, DocRow
  <2>4. LockTypes'
    BY <1>12, <1>0, <1>a, ExclusiveType DEF DeleteDocument, At, TypeOK, LockTypes
  <2> QED
    BY <2>1, <2>2, <2>3, <2>4, TypePartsNext
<1>13. ASSUME NEW v \in Versions, CascadeVersion(t, v) PROVE TypeInv'
  <2>1. ControlTypes' /\ RowTypesOK' /\ IssuedTypes'
    BY <1>13 DEF CascadeVersion, committed, TypeInv, TypeOK, ControlTypes, InCall, RowTypesOK, IssuedTypes
  <2>2. OwnTypes'
    BY <1>13, <1>0, RowTypes, WritesType, OwnChunksType DEF CascadeVersion, TypeOK, OwnTypes
  <2>3. LockTypes'
    BY <1>13, <1>0, ExclusiveType, BaseType DEF CascadeVersion, TypeOK, LockTypes, Rows
  <2> QED
    BY <2>1, <2>2, <2>3, TypePartsNext
<1>14. CASE CascadeDone(t)
  <2>1. ControlTypes'
    BY <1>14, CallEndsTypes DEF CascadeDone
  <2> QED
    BY <1>14, <2>1, TypePartsNext, <1>0
    DEF CascadeDone, committed, own, locks, TypeOK, RowTypesOK, OwnTypes, LockTypes, IssuedTypes
<1> QED
  BY <1>1, <1>2, <1>3, <1>4, <1>5, <1>6, <1>7, <1>8, <1>9, <1>10, <1>11, <1>12, <1>13, <1>14 DEF Statement

LEMMA TypeNext == TypeInv /\ [Next]_vars => TypeInv'
<1> SUFFICES ASSUME TypeInv, [Next]_vars PROVE TypeInv'
  OBVIOUS
<1>1. CASE UNCHANGED vars
  BY <1>1 DEF vars, committed, own, locks, TypeInv, TypeOK, InCall
<1>2. ASSUME NEW t \in Txns, NEW c \in Calls, Issue(t, c) PROVE TypeInv'
  <2>1. /\ UNCHANGED <<committed, loaded, own, locks, base>>
        /\ call' = [call EXCEPT ![t] = c]
        /\ issued[t] < MaxCalls[t] /\ issued' = [issued EXCEPT ![t] = @ + 1]
    BY <1>2 DEF Issue
  <2>2. pc' = [pc EXCEPT ![t] = FirstStatement(c.name)]
    BY <1>2 DEF Issue, Goto
  <2>3. /\ FirstStatement(c.name) \in {"insert", "read", "lock"}
        /\ FirstStatement(c.name) = "insert" => c.name \in {"create_document", "create_version"}
    BY CallFields DEF FirstStatement, Methods
  <2>4. ControlTypes'
    BY <2>1, <2>2, <2>3 DEF ControlTypes, InCall, TypeInv, TypeOK
  <2>5. IssuedTypes'
    <3>1. \A u \in Txns : MaxCalls[u] \in Nat
      BY CallsAssumption
    <3> QED
      BY <2>1, <3>1 DEF IssuedTypes, TypeInv, TypeOK
  <2> QED
    BY <2>1, <2>4, <2>5, TypePartsNext DEF committed, own, locks, TypeInv, TypeOK, RowTypesOK, OwnTypes, LockTypes
<1>3. ASSUME NEW t \in Txns, Commit(t) PROVE TypeInv'
  <2>1. RowTypesOK'
    BY <1>3, SeenTypes DEF Commit, TypeInv, TypeOK, RowTypesOK
  <2> QED
    BY <1>3, <2>1, DiscardTypes DEF Commit
<1>4. ASSUME NEW t \in Txns, Rollback(t) \/ BreakDeadlock(t) PROVE TypeInv'
  BY <1>4, AbortTypes DEF Rollback, BreakDeadlock
<1> QED
  BY <1>1, <1>2, <1>3, <1>4, TypeStatement DEF Next

\* Every row, lock and call of every transaction keeps its type, at every statement
\* of SourceRepository.
THEOREM TypeCorrect == Spec => []TypeOK
<1>1. TypeInv => TypeOK
  BY DEF TypeInv
<1> QED
  BY <1>1, TypeInit, TypeNext, PTL DEF Spec

-----------------------------------------------------------------------------
(* Locked rows.  A transaction that wrote a version, or decides about one it   *)
(* read FOR UPDATE, holds the row, so the row is still the one it saw.         *)

OnLocked == {"transition_version", "record_embedding_profile"}
Deciding(u, v) ==
  pc[u] = "decide" /\ call[u].name \in OnLocked /\ loaded[u].status \in Statuses /\ call[u].version = v
Guarded(u, v) ==
  /\ ownVersions[u][v] # Untouched =>
       exclusive[v] = u /\ base[u][v] = versions[v] /\ ownVersions[u][v] # Absent
  /\ versions[v] = Absent => base[u][v] = Absent
  /\ Deciding(u, v) => exclusive[v] = u /\ base[u][v] = versions[v] /\ loaded[u] = VersionSeen(u, v)
LockInv == \A u \in Txns, v \in Versions : Guarded(u, v)

OthersStay(t) == \A u \in Txns \ {t} : pc'[u] = pc[u] /\ call'[u] = call[u] /\ loaded'[u] = loaded[u]

\* A step of t that may lock one version v, which no other transaction has locked to
\* write or to decide about, and writes at most that row.
LEMMA LockStep ==
  ASSUME LockInv, NEW t \in Txns, NEW v \in Versions, UNCHANGED versions, OthersStay(t),
         \A w \in Versions \ {v} : exclusive'[w] = exclusive[w] /\ ~Deciding(t, w)',
         exclusive'[v] \in {exclusive[v], t},
         \A u \in Txns, w \in Versions : u # t \/ w # v =>
           ownVersions'[u][w] = ownVersions[u][w] /\ base'[u][w] = base[u][w],
         exclusive'[v] # exclusive[v] => \A u \in Txns \ {t} : ownVersions[u][v] = Untouched /\ ~Deciding(u, v),
         Guarded(t, v)'
  PROVE  LockInv'
<1> SUFFICES ASSUME NEW u \in Txns, NEW w \in Versions PROVE Guarded(u, w)'
  BY DEF LockInv
<1>1. CASE u # t
  BY <1>1 DEF LockInv, Guarded, Deciding, OthersStay, VersionSeen
<1>2. CASE u = t /\ w # v
  BY <1>2 DEF LockInv, Guarded
<1> QED
  BY <1>1, <1>2

\* A step of t that touches no version row and decides about none.
LEMMA LockFrame ==
  ASSUME LockInv, NEW t \in Txns, UNCHANGED <<versions, ownVersions, base>>, OthersStay(t),
         \A v \in Versions : exclusive'[v] = exclusive[v] /\ ~Deciding(t, v)'
  PROVE  LockInv'
<1> SUFFICES ASSUME NEW u \in Txns, NEW w \in Versions PROVE Guarded(u, w)'
  BY DEF LockInv
<1>1. CASE u # t
  BY <1>1 DEF LockInv, Guarded, Deciding, OthersStay, VersionSeen
<1>2. CASE u = t
  BY <1>2 DEF LockInv, Guarded
<1> QED
  BY <1>1, <1>2

\* At the end of a transaction its locks go, and what others hold stays.
LEMMA LockDiscard ==
  ASSUME TypeInv, LockInv, NEW t \in Txns, Discard(t),
         \A v \in Versions : versions'[v] \in {versions[v], VersionSeen(t, v)}
  PROVE  LockInv'
<1>1. /\ \A v \in Versions : ownVersions'[t][v] = Untouched /\ base'[t][v] = Absent
      /\ \A u \in Txns \ {t} : ownVersions'[u] = ownVersions[u] /\ base'[u] = base[u]
      /\ \A v \in Versions : exclusive[v] # t => exclusive'[v] = exclusive[v]
  BY DEF Discard, TypeInv, TypeOK, Rows
<1>2. OthersStay(t) /\ pc'[t] = "ready"
  BY DEF Discard, CallEnds, Goto, OthersStay, TypeInv, TypeOK
<1>3. \A v \in Versions : exclusive[v] # t => versions'[v] = versions[v]
  BY DEF LockInv, Guarded, VersionSeen
<1>4. \A v \in Versions : versions'[v] = Absent => versions[v] = Absent
  BY DEF LockInv, Guarded, VersionSeen
<1> SUFFICES ASSUME NEW u \in Txns, NEW w \in Versions PROVE Guarded(u, w)'
  BY DEF LockInv
<1>5. CASE u = t
  BY <1>1, <1>2, <1>5 DEF Deciding, Guarded
<1>6. CASE u # t
  BY <1>1, <1>2, <1>3, <1>4, <1>6 DEF LockInv, Guarded, Deciding, OthersStay, VersionSeen
<1> QED
  BY <1>5, <1>6

LEMMA LockAbort ==
  ASSUME TypeInv, LockInv, NEW t \in Txns, Abort(t)
  PROVE  LockInv'
  BY LockDiscard DEF Abort, committed

LEMMA EndsStay ==
  ASSUME TypeInv, NEW t \in Txns, CallEnds(t)
  PROVE  OthersStay(t) /\ pc'[t] = "ready" /\ \A v \in Versions : ~Deciding(t, v)'
  BY DEF CallEnds, Goto, OthersStay, Deciding, TypeInv, TypeOK

LEMMA GotoStay ==
  ASSUME TypeInv, NEW t \in Txns, NEW s, Goto(t, s), UNCHANGED call,
         NEW row, loaded' = loaded \/ loaded' = [loaded EXCEPT ![t] = row]
  PROVE  /\ OthersStay(t) /\ pc'[t] = s /\ call'[t] = call[t]
         /\ s # "decide" \/ call[t].name \notin OnLocked => \A v \in Versions : ~Deciding(t, v)'
  BY DEF Goto, OthersStay, Deciding, TypeInv, TypeOK

\* A lock that somebody waited for was of no version that another is at work on.
LEMMA NoHolders ==
  ASSUME TypeInv, LockInv, NEW t \in Txns, NEW v \in Versions, exclusive[v] \in {NoTxn, t}
  PROVE  \A u \in Txns \ {t} : ownVersions[u][v] = Untouched /\ ~Deciding(u, v)
<1>1. \A u \in Txns \ {t} : exclusive[v] # u
  BY RowsAssumption
<1> QED
  BY <1>1 DEF LockInv, Guarded

\* What each statement waits for.
LEMMA BlockersOf ==
  ASSUME NEW t \in Txns
  PROVE  /\ pc[t] = "insert" => Blockers(t) = InsertWriters(t, InsertedRow(call[t]))
         /\ pc[t] = "lock" =>
              Blockers(t) = IF Exists(t, LockedRow(call[t])) THEN Holders(t, LockedRow(call[t])) ELSE {}
         /\ pc[t] = "reference" =>
              Blockers(t) = IF Exists(t, ReferencedRow(call[t])) THEN Writers(t, ReferencedRow(call[t])) ELSE {}
         /\ Indexes(t) => Blockers(t) = IndexWriters(t, call[t].version)
  BY DEF Blockers, Indexes

LEMMA LockDocRows ==
  ASSUME TypeInv, NEW t \in Txns, NEW d \in Docs, TakeExclusive(t, d)
  PROVE  \A v \in Versions : exclusive'[v] = exclusive[v]
  BY RowsAssumption DEF TakeExclusive, TypeInv, TypeOK, Rows

\* A decided write leaves the lock as it is.
LEMMA LockWrite ==
  ASSUME TypeInv, LockInv, NEW t \in Txns, NEW v \in Versions, NEW row,
         Deciding(t, v), Writes(t, v, row), row # Absent, row # Untouched, CallEnds(t),
         UNCHANGED <<versions, exclusive, base>>
  PROVE  LockInv'
<1>1. OthersStay(t) /\ \A w \in Versions : ~Deciding(t, w)'
  BY EndsStay
<1>2. /\ ownVersions'[t][v] = row
      /\ \A u \in Txns, w \in Versions : u # t \/ w # v => ownVersions'[u][w] = ownVersions[u][w]
  BY DEF Writes, TypeInv, TypeOK
<1>3. Guarded(t, v)
  BY DEF LockInv
<1>4. Guarded(t, v)'
  BY <1>1, <1>2, <1>3 DEF Guarded
<1> QED
  BY <1>1, <1>2, <1>4, LockStep

LEMMA LockStatement ==
  ASSUME TypeInv, TypeInv', LockInv, NEW t \in Txns, Statement(t)
  PROVE  LockInv'
<1>0. (pc[t] # "ready" => call[t] \in Calls) /\ TypeOK
  BY DEF TypeInv, InCall
<1>a. pc[t] # "ready" =>
        /\ call[t].doc \in Docs /\ call[t].profile \in Profiles \cup {NoProfile}
        /\ call[t].target \in Statuses /\ call[t].hash \in BOOLEAN
        /\ call[t].name \notin OfDocument => call[t].version \in Versions
        /\ call[t].name = "record_embedding_profile" => call[t].profile \in Profiles
  BY <1>0, CallFields
<1>1. CASE InsertDocument(t)
  <2>1. CASE Abort(t)
    BY <2>1, LockAbort
  <2>2. CASE ~Abort(t)
    BY <1>1, <2>2, <1>a, EndsStay, LockDocRows, LockFrame DEF InsertDocument, At, committed
  <2> QED
    BY <2>1, <2>2
<1>2. CASE InsertVersion(t)
  <2>1. CASE Abort(t)
    BY <2>1, LockAbort
  <2>2. CASE ~Abort(t)
    <3>0. call[t].version \in Versions
      BY <1>2, <2>2, <1>a DEF InsertVersion, At, OfDocument
    <3> PICK v \in Versions : v = call[t].version
      BY <3>0
    <3> PICK hash \in BOOLEAN : hash = call[t].hash
      BY <1>2, <2>2, <1>a DEF InsertVersion, At
    <3> DEFINE row == [Absent EXCEPT !.status = "queued", !.hashed = hash]
    <3>1. /\ Writes(t, v, row) /\ TakeExclusive(t, v) /\ Goto(t, "reference")
          /\ VersionSeen(t, v) = Absent
          /\ UNCHANGED <<versions, call, loaded, base>>
          /\ pc[t] = "insert" /\ call[t].name = "create_version" /\ Blockers(t) = {}
      BY <1>2, <2>2 DEF InsertVersion, At, committed
    <3>2. v \notin Docs /\ v \in Rows
      BY RowsAssumption DEF Rows
    <3>3. row # Absent /\ row # Untouched
      <4>1. row.status = "queued" /\ row \in VersionRow
        BY NewRowType
      <4> QED
        BY <4>1, RowTypes, UntouchedAssumption
    <3>4. \A u \in Txns \ {t} : ownVersions[u][v] = Untouched
      <4>1. InsertWriters(t, v) = {}
        BY <3>1, BlockersOf DEF InsertedRow
      <4> QED
        BY <3>2, <4>1 DEF InsertWriters
    <3>5. versions[v] = Absent /\ base[t][v] = Absent
      BY <3>1, <3>2 DEF LockInv, Guarded, VersionSeen
    <3>6. \A u \in Txns \ {t} : ~Deciding(u, v)
      BY <3>2, <3>4, <3>5, RowTypes DEF LockInv, Guarded, VersionSeen, Deciding, Statuses
    <3>7. OthersStay(t) /\ \A w \in Versions : ~Deciding(t, w)'
      BY <3>1, GotoStay
    <3>8. /\ ownVersions'[t][v] = row /\ exclusive'[v] = t
          /\ \A w \in Versions \ {v} : exclusive'[w] = exclusive[w]
          /\ \A u \in Txns, w \in Versions : u # t \/ w # v => ownVersions'[u][w] = ownVersions[u][w]
      BY <3>1, <3>2, <1>0 DEF Writes, TakeExclusive, TypeOK, Rows
    <3>9. Guarded(t, v)'
      BY <3>1, <3>2, <3>3, <3>5, <3>7, <3>8 DEF Guarded
    <3> HIDE DEF row
    <3> QED
      BY <3>1, <3>2, <3>4, <3>6, <3>7, <3>8, <3>9, LockStep
  <2> QED
    BY <2>1, <2>2
<1>3. CASE LockVersion(t)
  <2> PICK v \in Versions : v = call[t].version
    BY <1>3, <1>a DEF LockVersion, OfDocument
  <2>1. /\ pc[t] = "lock" /\ call[t].name \in OnLocked /\ Blockers(t) = {}
        /\ loaded' = [loaded EXCEPT ![t] = VersionSeen(t, v)]
        /\ (IF Exists(t, v) THEN TakeExclusive(t, v) ELSE UNCHANGED exclusive)
        /\ RemembersBase(t, v) /\ Goto(t, "decide")
        /\ UNCHANGED <<versions, call, ownVersions>>
    BY <1>3 DEF LockVersion, OnLocked, committed, own
  <2>2. v \notin Docs /\ v \in Rows
    BY RowsAssumption DEF Rows
  <2>3. OthersStay(t) /\ pc'[t] = "decide" /\ call'[t] = call[t] /\ loaded'[t] = VersionSeen(t, v)
    BY <2>1, <1>0, GotoStay DEF TypeOK
  <2>4. \A w \in Versions \ {v} : ~Deciding(t, w)'
    BY <2>3 DEF Deciding
  <2>5. Exists(t, v) <=> VersionSeen(t, v).status \in Statuses
    BY <2>2 DEF Exists
  <2>6. Exists(t, v) => exclusive[v] \in {NoTxn, t}
    <3>1. LockedRow(call[t]) = v
      BY <2>1 DEF LockedRow, OnLocked
    <3>2. Exists(t, v) => Holders(t, v) = {}
      BY <2>1, <3>1, BlockersOf
    <3> QED
      BY <3>2 DEF Holders, Writers
  <2>7. exclusive'[v] # exclusive[v] => \A u \in Txns \ {t} : ownVersions[u][v] = Untouched /\ ~Deciding(u, v)
    BY <2>1, <2>2, <2>6, NoHolders
  <2>8. /\ Exists(t, v) => exclusive'[v] = t
        /\ ~Exists(t, v) => exclusive'[v] = exclusive[v]
        /\ \A w \in Versions \ {v} : exclusive'[w] = exclusive[w]
    BY <2>1, <2>2, <1>0 DEF TakeExclusive, TypeOK, Rows
  <2>9. /\ base'[t][v] = IF ownVersions[t][v] = Untouched THEN versions[v] ELSE base[t][v]
        /\ \A u \in Txns, w \in Versions : u # t \/ w # v => base'[u][w] = base[u][w]
    BY <2>1, <2>2, <1>0 DEF RemembersBase, TypeOK
  <2>10. Guarded(t, v)'
    <3>1. Guarded(t, v)
      BY <2>2 DEF LockInv
    <3>2. base'[t][v] = versions[v]
      BY <2>9, <3>1 DEF Guarded
    <3>3. ownVersions'[t][v] # Untouched => exclusive'[v] = t /\ ownVersions'[t][v] # Absent
      BY <2>1, <2>8, <3>1 DEF Guarded
    <3>4. Deciding(t, v)' => exclusive'[v] = t /\ loaded'[t] = IF ownVersions'[t][v] = Untouched THEN versions'[v] ELSE ownVersions'[t][v]
      BY <2>1, <2>3, <2>5, <2>8 DEF Deciding, VersionSeen
    <3> QED
      BY <2>1, <3>2, <3>3, <3>4 DEF Guarded, VersionSeen
  <2> QED
    BY <2>1, <2>2, <2>3, <2>4, <2>7, <2>8, <2>9, <2>10, LockStep
<1>4. CASE LockDocument(t)
  <2>1. /\ pc[t] = "lock" /\ UNCHANGED <<versions, ownVersions, base>>
        /\ \/ CallEnds(t) /\ UNCHANGED exclusive
           \/ TakeExclusive(t, call[t].doc) /\ Goto(t, "read") /\ UNCHANGED <<call, loaded>>
    BY <1>4 DEF LockDocument, At, committed, own
  <2>2. CASE CallEnds(t) /\ UNCHANGED exclusive
    BY <2>1, <2>2, EndsStay, LockFrame
  <2>3. CASE TakeExclusive(t, call[t].doc) /\ Goto(t, "read") /\ UNCHANGED <<call, loaded>>
    BY <2>1, <2>3, <1>a, GotoStay, LockDocRows, LockFrame
  <2> QED
    BY <2>1, <2>2, <2>3
<1>5. CASE ReadVersion(t)
  BY <1>5, GotoStay, LockFrame DEF ReadVersion, committed, own, locks, OnLocked
<1>6. CASE ReadDocument(t)
  BY <1>6, EndsStay, GotoStay, LockFrame DEF ReadDocument, committed, own, locks
<1>7. CASE Transition(t)
  <2>1. CASE Abort(t)
    BY <2>1, LockAbort
  <2>2. CASE ~Abort(t) /\ UNCHANGED own
    BY <1>7, <2>2, EndsStay, LockFrame DEF Transition, committed, own, locks
  <2>3. CASE ~Abort(t) /\ ~UNCHANGED own
    <3> PICK v \in Versions : v = call[t].version
      BY <1>7, <1>a DEF Transition, At, OfDocument
    <3> DEFINE row == [loaded[t] EXCEPT !.status = call[t].target, !.hashed = @ \/ call[t].hash]
    <3>1. /\ Writes(t, v, row) /\ CallEnds(t)
          /\ TransitionAllowed(loaded[t], call[t])
          /\ UNCHANGED <<versions, exclusive, base>>
          /\ pc[t] = "decide" /\ call[t].name = "transition_version"
      BY <1>7, <2>3 DEF Transition, At, committed, own, locks
    <3>2. row \in VersionRow /\ row.status = call[t].target
      <4>1. loaded[t] \in VersionRow /\ call[t].target \in Statuses /\ call[t].hash \in BOOLEAN
        BY <3>1, <1>0, <1>a DEF TypeOK
      <4>2. row \in VersionRow
        BY <4>1, StatusUpdateType
      <4>3. row.status = call[t].target
        BY <4>1, Zenon DEF VersionRow
      <4> QED
        BY <4>2, <4>3
    <3>3. row # Absent /\ row # Untouched
      BY <3>1, <3>2, <1>a, RowTypes, UntouchedAssumption DEF Statuses
    <3>4. Deciding(t, v)
      BY <3>1 DEF Deciding, TransitionAllowed, OnLocked
    <3> HIDE DEF row
    <3> QED
      BY <3>1, <3>3, <3>4, LockWrite
  <2> QED
    BY <2>1, <2>2, <2>3
<1>8. CASE RecordProfile(t)
  <2>1. CASE UNCHANGED ownVersions
    BY <1>8, <2>1, EndsStay, LockFrame DEF RecordProfile, committed, own, locks
  <2>2. CASE ~UNCHANGED ownVersions
    <3> PICK v \in Versions : v = call[t].version
      BY <1>8, <1>a DEF RecordProfile, At, OfDocument
    <3> DEFINE row == [loaded[t] EXCEPT !.profile = call[t].profile]
    <3>1. /\ Writes(t, v, row) /\ CallEnds(t)
          /\ loaded[t].status \in Statuses
          /\ UNCHANGED <<versions, exclusive, base>>
          /\ pc[t] = "decide" /\ call[t].name = "record_embedding_profile"
      BY <1>8, <2>2 DEF RecordProfile, At, committed, own, locks
    <3>2. row \in VersionRow /\ row.status = loaded[t].status
      BY <3>1, <1>0, <1>a, ProfileUpdateType DEF TypeOK
    <3>3. row # Absent /\ row # Untouched
      BY <3>1, <3>2, RowTypes, UntouchedAssumption DEF Statuses
    <3>4. Deciding(t, v)
      BY <3>1 DEF Deciding, OnLocked
    <3> HIDE DEF row
    <3> QED
      BY <3>1, <3>3, <3>4, LockWrite
  <2> QED
    BY <2>1, <2>2
<1>9. CASE SetActive(t)
  BY <1>9, EndsStay, GotoStay, LockFrame DEF SetActive, committed, own, locks
<1>10. CASE InsertChunk(t)
  BY <1>10, EndsStay, GotoStay, LockFrame DEF InsertChunk, committed, own, locks
<1>11. CASE ReferenceRow(t)
  BY <1>11, LockAbort, EndsStay, LockFrame DEF ReferenceRow, committed, own
<1>12. CASE DeleteDocument(t)
  BY <1>12, <1>a, EndsStay, GotoStay, LockDocRows, LockFrame DEF DeleteDocument, At, committed, own, locks
<1>13. ASSUME NEW v \in Versions, CascadeVersion(t, v) PROVE LockInv'
  <2>1. /\ pc[t] = "cascade" /\ Holders(t, v) = {}
        /\ Writes(t, v, Deleted) /\ RemembersBase(t, v) /\ TakeExclusive(t, v)
        /\ UNCHANGED <<versions, pc, call, loaded>>
    BY <1>13 DEF CascadeVersion, committed
  <2>2. v \notin Docs /\ v \in Rows /\ Deleted # Absent /\ Deleted # Untouched
    BY RowsAssumption, RowTypes, UntouchedAssumption DEF Rows
  <2>3. exclusive[v] \in {NoTxn, t}
    BY <2>1 DEF Holders, Writers
  <2>4. OthersStay(t) /\ \A w \in Versions : ~Deciding(t, w)'
    BY <2>1 DEF OthersStay, Deciding
  <2>5. /\ ownVersions'[t][v] = Deleted /\ exclusive'[v] = t
        /\ \A w \in Versions \ {v} : exclusive'[w] = exclusive[w]
        /\ \A u \in Txns, w \in Versions : u # t \/ w # v => ownVersions'[u][w] = ownVersions[u][w]
    BY <2>1, <2>2, <1>0 DEF Writes, TakeExclusive, TypeOK
  <2>6. /\ base'[t][v] = IF ownVersions[t][v] = Untouched THEN versions[v] ELSE base[t][v]
        /\ \A u \in Txns, w \in Versions : u # t \/ w # v => base'[u][w] = base[u][w]
    BY <2>1, <1>0 DEF RemembersBase, TypeOK
  <2>7. Guarded(t, v)'
    <3>1. base'[t][v] = versions[v]
      BY <2>6 DEF LockInv, Guarded
    <3> QED
      BY <2>1, <2>2, <2>4, <2>5, <3>1 DEF Guarded
  <2> QED
    BY <2>1, <2>3, <2>4, <2>5, <2>6, <2>7, NoHolders, LockStep
<1>14. CASE CascadeDone(t)
  BY <1>14, EndsStay, LockFrame DEF CascadeDone, committed, own, locks
<1> QED
  BY <1>1, <1>2, <1>3, <1>4, <1>5, <1>6, <1>7, <1>8, <1>9, <1>10, <1>11, <1>12, <1>13, <1>14 DEF Statement

LEMMA LockInit == Init => LockInv
  BY RowsAssumption DEF Init, LockInv, Guarded, Deciding

LEMMA CommitSeen ==
  ASSUME TypeInv, NEW t \in Txns, Commit(t)
  PROVE  \A v \in Versions : versions'[v] = VersionSeen(t, v)
  BY DEF Commit

LEMMA LockNext == TypeInv /\ TypeInv' /\ LockInv /\ [Next]_vars => LockInv'
<1> SUFFICES ASSUME TypeInv, TypeInv', LockInv, [Next]_vars PROVE LockInv'
  OBVIOUS
<1>1. CASE UNCHANGED vars
  BY <1>1 DEF vars, committed, own, locks, LockInv, Guarded, Deciding, VersionSeen
<1>2. ASSUME NEW t \in Txns, NEW c \in Calls, Issue(t, c) PROVE LockInv'
  <2>1. pc'[t] # "decide" /\ OthersStay(t) /\ UNCHANGED <<versions, ownVersions, base, exclusive>>
    BY <1>2, CallFields DEF Issue, FirstStatement, Goto, OthersStay, committed, own, locks, TypeInv, TypeOK
  <2> QED
    BY <2>1, LockFrame DEF Deciding
<1>3. ASSUME NEW t \in Txns, Commit(t) PROVE LockInv'
  BY <1>3, CommitSeen, LockDiscard DEF Commit
<1>4. ASSUME NEW t \in Txns, Rollback(t) \/ BreakDeadlock(t) PROVE LockInv'
  BY <1>4, LockAbort DEF Rollback, BreakDeadlock
<1> QED
  BY <1>1, <1>2, <1>3, <1>4, LockStatement DEF Next

\* A transaction that changes a version commits on top of the row it decided on: the
\* row lock of transition_version and record_embedding_profile loses no update.
THEOREM UpdatesAreNotLost == Spec => NoLostUpdate
<1>1. LockInv => \A t \in Txns : Commit(t) =>
        \A v \in Versions : ownVersions[t][v] # Untouched => versions[v] = base[t][v]
  BY DEF LockInv, Guarded
<1>2. Init => TypeInv /\ LockInv
  BY TypeInit, LockInit
<1>3. TypeInv /\ LockInv /\ [Next]_vars => (TypeInv /\ LockInv)'
  BY TypeNext, LockNext
<1> QED
  BY <1>1, <1>2, <1>3, PTL DEF Spec, NoLostUpdate

-----------------------------------------------------------------------------
(* What a statement may write to a version: the cascade, a new version, or a   *)
(* decided change that keeps what is recorded and follows the lifecycle.       *)

Decided(t, v, row) ==
  /\ Deciding(t, v)
  /\ \/ row.status = loaded[t].status
     \/ /\ row.status \in Legal[loaded[t].status]
        /\ row.status = "indexed" => IndexWriters(t, v) = {} /\ ~IndexConflict(t, v)
  /\ loaded[t].hashed => row.hashed
  /\ loaded[t].profile \in {NoProfile, row.profile}
WriteOf(t, v, row) ==
  /\ UNCHANGED versions /\ Writes(t, v, row)
  /\ row = Deleted \/ (VersionSeen(t, v) = Absent /\ versions[v] = Absent /\ row.status = "queued") \/ Decided(t, v, row)

\* transition_version and record_embedding_profile, when they write.
DecidedWrite(t) ==
  /\ \E v \in Versions : \E row \in VersionRow : Decided(t, v, row) /\ Writes(t, v, row)
  /\ CallEnds(t) /\ UNCHANGED <<committed, ownDocs, ownChunks, locks>>

LEMMA TransitionDecided ==
  ASSUME TypeInv, NEW t \in Txns, Transition(t), ~Abort(t), ~UNCHANGED ownVersions
  PROVE  DecidedWrite(t)
<1> DEFINE v == call[t].version
           row == [loaded[t] EXCEPT !.status = call[t].target, !.hashed = @ \/ call[t].hash]
<1>1. /\ Writes(t, v, row) /\ CallEnds(t) /\ UNCHANGED <<committed, ownDocs, ownChunks, locks>>
      /\ TransitionAllowed(loaded[t], call[t]) /\ ~DatabaseRefuses(t, v)
      /\ pc[t] = "decide" /\ call[t].name = "transition_version" /\ Blockers(t) = {}
  BY DEF Transition, At, own
<1>2. v \in Versions /\ call[t].target \in Statuses /\ call[t].hash \in BOOLEAN
  BY <1>1, CallFields DEF TypeInv, InCall, OfDocument
<1>3. loaded[t] \in VersionRow
  BY DEF TypeInv, TypeOK
<1>4. row \in VersionRow
  BY <1>2, <1>3, StatusUpdateType
<1>5. row.status = call[t].target /\ row.profile = loaded[t].profile /\ (loaded[t].hashed => row.hashed)
  BY <1>2, <1>3, Zenon DEF VersionRow
<1>6. Deciding(t, v)
  BY <1>1 DEF Deciding, TransitionAllowed, OnLocked
<1>7. row.status = "indexed" => IndexWriters(t, v) = {} /\ ~IndexConflict(t, v)
  <2>1. row.status = "indexed" => Indexes(t)
    BY <1>1, <1>5 DEF Indexes
  <2> QED
    BY <1>1, <2>1, BlockersOf DEF DatabaseRefuses
<1>8. row.status \in Legal[loaded[t].status]
  BY <1>1, <1>5 DEF TransitionAllowed
<1> HIDE DEF v, row
<1> QED
  BY <1>1, <1>2, <1>4, <1>5, <1>6, <1>7, <1>8 DEF DecidedWrite, Decided

LEMMA ProfileDecided ==
  ASSUME TypeInv, NEW t \in Txns, RecordProfile(t), ~UNCHANGED ownVersions
  PROVE  DecidedWrite(t)
<1> DEFINE v == call[t].version
           row == [loaded[t] EXCEPT !.profile = call[t].profile]
<1>1. /\ Writes(t, v, row) /\ CallEnds(t) /\ UNCHANGED <<committed, ownDocs, ownChunks, locks>>
      /\ loaded[t].status \in Statuses /\ loaded[t].profile = NoProfile
      /\ pc[t] = "decide" /\ call[t].name = "record_embedding_profile"
  BY DEF RecordProfile, At
<1>2. v \in Versions /\ call[t].profile \in Profiles
  BY <1>1, CallFields DEF TypeInv, InCall, OfDocument
<1>3. loaded[t] \in VersionRow
  BY DEF TypeInv, TypeOK
<1>4. row \in VersionRow /\ row.status = loaded[t].status
  BY <1>2, <1>3, ProfileUpdateType
<1>5. loaded[t].hashed => row.hashed
  BY <1>3, Zenon DEF VersionRow
<1>6. Deciding(t, v)
  BY <1>1 DEF Deciding, OnLocked
<1> HIDE DEF v, row
<1> QED
  BY <1>1, <1>2, <1>4, <1>5, <1>6 DEF DecidedWrite, Decided

LEMMA StatementWrites ==
  ASSUME TypeInv, LockInv, NEW t \in Txns, Statement(t)
  PROVE  \/ Abort(t)
         \/ UNCHANGED <<versions, ownVersions>>
         \/ \E v \in Versions : \E row \in VersionRow : WriteOf(t, v, row)
<1>0. (pc[t] # "ready" => call[t] \in Calls) /\ TypeOK
  BY DEF TypeInv, InCall
<1>a. pc[t] # "ready" =>
        /\ call[t].target \in Statuses /\ call[t].hash \in BOOLEAN
        /\ call[t].name \notin OfDocument => call[t].version \in Versions
        /\ call[t].name = "record_embedding_profile" => call[t].profile \in Profiles
  BY <1>0, CallFields
<1>2. ASSUME InsertVersion(t), ~Abort(t)
      PROVE  \E v \in Versions : \E row \in VersionRow : WriteOf(t, v, row)
  <2> DEFINE v == call[t].version
             row == [Absent EXCEPT !.status = "queued", !.hashed = call[t].hash]
  <2>1. /\ Writes(t, v, row) /\ UNCHANGED versions /\ VersionSeen(t, v) = Absent
        /\ pc[t] = "insert" /\ call[t].name = "create_version"
    BY <1>2 DEF InsertVersion, At, committed
  <2>2. v \in Versions
    BY <2>1, <1>a DEF OfDocument
  <2>3. row \in VersionRow /\ row.status = "queued"
    BY <2>1, <1>a, NewRowType
  <2>4. versions[v] = Absent
    BY <2>1, <2>2 DEF LockInv, Guarded, VersionSeen
  <2> HIDE DEF v, row
  <2> QED
    BY <2>1, <2>2, <2>3, <2>4 DEF WriteOf
<1>3. ASSUME DecidedWrite(t) PROVE \E v \in Versions : \E row \in VersionRow : WriteOf(t, v, row)
  BY <1>3 DEF DecidedWrite, WriteOf, committed
<1>5. ASSUME NEW v \in Versions, CascadeVersion(t, v) PROVE \E row \in VersionRow : WriteOf(t, v, row)
  BY <1>5, RowTypes DEF CascadeVersion, committed, WriteOf
<1>6. CASE InsertDocument(t) \/ ReferenceRow(t)
  BY <1>6 DEF InsertDocument, ReferenceRow, committed, own
<1>7. CASE LockVersion(t) \/ LockDocument(t) \/ ReadVersion(t) \/ ReadDocument(t) \/ SetActive(t) \/ InsertChunk(t)
  BY <1>7 DEF LockVersion, LockDocument, ReadVersion, ReadDocument, SetActive, InsertChunk, committed, own
<1>8. CASE DeleteDocument(t) \/ CascadeDone(t)
  BY <1>8 DEF DeleteDocument, CascadeDone, committed, own
<1>9. Transition(t) \/ RecordProfile(t) => UNCHANGED versions \/ Abort(t)
  BY DEF Transition, RecordProfile, committed
<1> QED
  BY <1>2, <1>3, <1>5, <1>6, <1>7, <1>8, <1>9, TransitionDecided, ProfileDecided DEF Statement

\* Every step, by what becomes of the version rows.
Forgets(t) == ownVersions' = [ownVersions EXCEPT ![t] = [v \in Versions |-> Untouched]]
Publishes(t) == \A v \in Versions : versions'[v] = VersionSeen(t, v)
LEMMA VersionSteps ==
  ASSUME TypeInv, LockInv, [Next]_vars
  PROVE  \/ UNCHANGED <<versions, ownVersions>>
         \/ \E t \in Txns : Forgets(t) /\ (UNCHANGED versions \/ Publishes(t))
         \/ \E t \in Txns, v \in Versions, row \in VersionRow : WriteOf(t, v, row)
<1>1. CASE UNCHANGED vars
  BY <1>1 DEF vars, committed, own
<1>2. ASSUME NEW t \in Txns, NEW c \in Calls, Issue(t, c) PROVE UNCHANGED <<versions, ownVersions>>
  BY <1>2 DEF Issue, committed, own
<1>3. ASSUME NEW t \in Txns, Abort(t) PROVE Forgets(t) /\ UNCHANGED versions
  BY <1>3 DEF Abort, Discard, Forgets, committed
<1>4. ASSUME NEW t \in Txns, Commit(t) PROVE Forgets(t) /\ Publishes(t)
  BY <1>4 DEF Commit, Discard, Forgets, Publishes
<1>5. ASSUME NEW t \in Txns, Rollback(t) \/ BreakDeadlock(t) PROVE Forgets(t) /\ UNCHANGED versions
  BY <1>5, <1>3 DEF Rollback, BreakDeadlock
<1> QED
  BY <1>1, <1>2, <1>3, <1>4, <1>5, StatementWrites DEF Next

\* What is written but not committed lies ahead of the row it replaces.
MoveInv ==
  \A t \in Txns, v \in Versions :
    ownVersions[t][v] # Untouched /\ versions[v].status \in Statuses => Moves(versions[v], ownVersions[t][v])

LEMMA LegalMoves ==
  ASSUME NEW s \in Statuses, NEW x \in Legal[s]
  PROVE  x \in Statuses /\ Progresses(s, x)
  BY DEF Legal, Statuses, Progresses, Order

LEMMA ProgressesTransitive ==
  ASSUME NEW x \in Statuses, NEW y \in Statuses, NEW z \in Statuses, Progresses(x, y), Progresses(y, z)
  PROVE  Progresses(x, z)
  BY DEF Statuses, Progresses, Order

LEMMA MoveNext ==
  ASSUME TypeInv, LockInv, MoveInv, [Next]_vars
  PROVE  MoveInv'
<1>0. TypeOK
  BY DEF TypeInv
<1>1. CASE UNCHANGED <<versions, ownVersions>>
  BY <1>1 DEF MoveInv
<1>2. ASSUME NEW t \in Txns, Forgets(t), UNCHANGED versions \/ Publishes(t)
      PROVE  MoveInv'
  <2> SUFFICES ASSUME NEW u \in Txns, NEW v \in Versions,
                      ownVersions'[u][v] # Untouched, versions'[v].status \in Statuses
               PROVE  Moves(versions'[v], ownVersions'[u][v])
    BY DEF MoveInv
  <2>1. u # t /\ ownVersions'[u][v] = ownVersions[u][v]
    BY <1>2, <1>0 DEF Forgets, TypeOK
  <2>2. versions'[v] = versions[v]
    BY <1>2, <2>1 DEF Publishes, LockInv, Guarded, VersionSeen
  <2> QED
    BY <2>1, <2>2 DEF MoveInv
<1>3. ASSUME NEW t \in Txns, NEW v \in Versions, NEW row \in VersionRow, WriteOf(t, v, row)
      PROVE  MoveInv'
  <2> SUFFICES ASSUME NEW u \in Txns, NEW w \in Versions,
                      ownVersions'[u][w] # Untouched, versions[w].status \in Statuses
               PROVE  Moves(versions[w], ownVersions'[u][w])
    BY <1>3 DEF MoveInv, WriteOf
  <2>1. CASE u # t \/ w # v
    BY <1>3, <1>0, <2>1 DEF WriteOf, Writes, TypeOK, MoveInv
  <2>2. CASE u = t /\ w = v
    <3>1. ownVersions'[u][w] = row
      BY <1>3, <1>0, <2>2 DEF WriteOf, Writes, TypeOK
    <3>2. CASE row = Deleted
      BY <3>1, <3>2 DEF Moves
    <3>3. CASE versions[v] = Absent
      BY <3>3, <2>2, RowTypes DEF Statuses
    <3>4. CASE Decided(t, v, row)
      <4>1. loaded[t] = VersionSeen(t, v) /\ loaded[t].status \in Statuses
        BY <3>4 DEF Decided, Deciding, LockInv, Guarded
      <4>2. Moves(versions[v], loaded[t])
        <5>1. CASE ownVersions[t][v] = Untouched
          BY <4>1, <5>1 DEF VersionSeen, Moves, Progresses
        <5>2. CASE ownVersions[t][v] # Untouched
          BY <4>1, <5>2, <2>2 DEF VersionSeen, MoveInv
        <5> QED
          BY <5>1, <5>2
      <4>3. loaded[t] # Deleted
        BY <4>1, RowTypes DEF Statuses
      <4>4. Progresses(loaded[t].status, row.status) /\ row.status \in Statuses
        BY <3>4, <4>1, LegalMoves DEF Decided, Progresses
      <4>5. Progresses(versions[v].status, row.status)
        BY <2>2, <4>1, <4>2, <4>3, <4>4, ProgressesTransitive DEF Moves
      <4>6. versions[v].profile \in {NoProfile, row.profile}
        BY <3>4, <4>2, <4>3 DEF Moves, Decided
      <4>7. versions[v].hashed => row.hashed
        BY <3>4, <4>2, <4>3, Zenon DEF Moves, Decided
      <4> QED
        BY <2>2, <3>1, <4>5, <4>6, <4>7 DEF Moves
    <3> QED
      BY <1>3, <3>2, <3>3, <3>4 DEF WriteOf
  <2> QED
    BY <2>1, <2>2
<1> QED
  BY <1>1, <1>2, <1>3, VersionSteps

\* One commit moves a version forward in the lifecycle and keeps the hash and profile
\* recorded for it, however many transitions of how many transactions it took.
THEOREM LifecycleIsCommitted == Spec => CommittedLifecycle
<1>1. Init => TypeInv /\ LockInv /\ MoveInv
  <2>1. Init => MoveInv
    BY DEF Init, MoveInv
  <2> QED
    BY <2>1, TypeInit, LockInit
<1>2. TypeInv /\ LockInv /\ MoveInv /\ [Next]_vars => (TypeInv /\ LockInv /\ MoveInv)'
  BY TypeNext, LockNext, MoveNext
<1>3. TypeInv /\ LockInv /\ MoveInv /\ [Next]_vars =>
        [\A v \in Versions : versions[v].status \in Statuses => Moves(versions[v], versions'[v])]_vars
  <2> SUFFICES ASSUME TypeInv, LockInv, MoveInv, [Next]_vars, NEW v \in Versions, versions[v].status \in Statuses
               PROVE  Moves(versions[v], versions'[v])
    OBVIOUS
  <2>1. CASE versions'[v] = versions[v]
    BY <2>1 DEF Moves, Progresses
  <2>2. ASSUME NEW t \in Txns, Publishes(t) PROVE Moves(versions[v], versions'[v])
    BY <2>1, <2>2 DEF Publishes, VersionSeen, MoveInv
  <2> QED
    BY <2>1, <2>2, VersionSteps DEF WriteOf
<1> QED
  BY <1>1, <1>2, <1>3, PTL DEF Spec, CommittedLifecycle

\* A transaction that has an indexed version sees no other of the document, and no
\* other transaction has one.
OwnIndexed(t, v) == ownVersions[t][v] # Untouched /\ ownVersions[t][v].status = "indexed"
IndexInv ==
  /\ OneIndexedPerDocument
  /\ \A t \in Txns, v \in Versions : OwnIndexed(t, v) =>
       \A w \in Siblings(v) :
         /\ VersionSeen(t, w).status # "indexed"
         /\ \A u \in Txns \ {t} : ~OwnIndexed(u, w)

LEMMA SiblingsBothWays ==
  ASSUME NEW v \in Versions, NEW w \in Siblings(v)
  PROVE  w \in Versions /\ w # v /\ v \in Siblings(w)
  BY DEF Siblings

\* What the unique index lets through.
LEMMA IndexedAlone ==
  ASSUME TypeInv, LockInv, NEW t \in Txns, NEW v \in Versions, IndexWriters(t, v) = {}, ~IndexConflict(t, v)
  PROVE  \A w \in Siblings(v) :
           VersionSeen(t, w).status # "indexed" /\ \A u \in Txns \ {t} : ~OwnIndexed(u, w)
<1> SUFFICES ASSUME NEW w \in Siblings(v)
             PROVE  VersionSeen(t, w).status # "indexed" /\ \A u \in Txns \ {t} : ~OwnIndexed(u, w)
  OBVIOUS
<1>0. w \in Versions
  BY SiblingsBothWays
<1>1. \A u \in Txns \ {t} :
        ownVersions[u][w] # Untouched => versions[w].status # "indexed" /\ ownVersions[u][w].status # "indexed"
  BY DEF IndexWriters
<1>2. ASSUME VersionSeen(t, w).status = "indexed" PROVE FALSE
  <2>1. PICK u \in Txns \ {t} : ownVersions[u][w] # Untouched
    BY <1>2 DEF IndexConflict
  <2>2. ownVersions[t][w] = Untouched
    BY <2>1, <1>0 DEF LockInv, Guarded
  <2> QED
    BY <1>1, <1>2, <2>1, <2>2 DEF VersionSeen
<1> QED
  BY <1>1, <1>2 DEF OwnIndexed

\* A locked row that is seen indexed is alone as well, without asking the index.
LEMMA SeenAlone ==
  ASSUME TypeInv, LockInv, IndexInv, NEW t \in Txns, NEW v \in Versions, exclusive[v] = t,
         VersionSeen(t, v).status = "indexed"
  PROVE  \A w \in Siblings(v) :
           VersionSeen(t, w).status # "indexed" /\ \A u \in Txns \ {t} : ~OwnIndexed(u, w)
<1> SUFFICES ASSUME NEW w \in Siblings(v)
             PROVE  VersionSeen(t, w).status # "indexed" /\ \A u \in Txns \ {t} : ~OwnIndexed(u, w)
  OBVIOUS
<1>0. w \in Versions /\ v \in Siblings(w)
  BY SiblingsBothWays
<1>1. CASE ownVersions[t][v] # Untouched
  BY <1>1 DEF VersionSeen, OwnIndexed, IndexInv
<1>2. CASE ownVersions[t][v] = Untouched
  <2>1. versions[v].status = "indexed"
    BY <1>2 DEF VersionSeen
  <2>2. versions[w].status # "indexed"
    BY <2>1 DEF IndexInv, OneIndexedPerDocument
  <2>3. ~OwnIndexed(t, w)
    BY <1>0 DEF IndexInv
  <2>4. VersionSeen(t, w).status # "indexed"
    BY <2>2, <2>3 DEF VersionSeen, OwnIndexed
  <2>5. ASSUME NEW u \in Txns \ {t}, OwnIndexed(u, w) PROVE FALSE
    <3>1. VersionSeen(u, v).status # "indexed"
      BY <1>0, <2>5 DEF IndexInv
    <3>2. ownVersions[u][v] = Untouched
      BY DEF LockInv, Guarded
    <3> QED
      BY <2>1, <3>1, <3>2 DEF VersionSeen
  <2> QED
    BY <2>4, <2>5
<1> QED
  BY <1>1, <1>2

LEMMA IndexNext ==
  ASSUME TypeInv, LockInv, IndexInv, [Next]_vars
  PROVE  IndexInv'
<1>0. TypeOK
  BY DEF TypeInv
<1>1. CASE UNCHANGED <<versions, ownVersions>>
  BY <1>1 DEF IndexInv, OneIndexedPerDocument, OwnIndexed, VersionSeen
<1>2. ASSUME NEW t \in Txns, Forgets(t), UNCHANGED versions \/ Publishes(t)
      PROVE  IndexInv'
  <2>1. /\ \A v \in Versions : ownVersions'[t][v] = Untouched
        /\ \A u \in Txns \ {t}, v \in Versions : ownVersions'[u][v] = ownVersions[u][v]
    BY <1>2, <1>0 DEF Forgets, TypeOK
  <2>2. \A v \in Versions : versions'[v] = versions[v] \/ versions'[v] = VersionSeen(t, v)
    BY <1>2 DEF Publishes
  <2>3. OneIndexedPerDocument'
    <3> SUFFICES ASSUME NEW v \in Versions, NEW w \in Siblings(v),
                        versions'[v].status = "indexed", versions'[w].status = "indexed"
                 PROVE  FALSE
      BY DEF OneIndexedPerDocument
    <3>0. w \in Versions /\ v \in Siblings(w)
      BY SiblingsBothWays
    <3>1. CASE UNCHANGED versions
      BY <3>1 DEF IndexInv, OneIndexedPerDocument
    <3>2. CASE Publishes(t)
      BY <3>0, <3>2 DEF Publishes, VersionSeen, IndexInv, OneIndexedPerDocument, OwnIndexed
    <3> QED
      BY <1>2, <3>1, <3>2
  <2>4. ASSUME NEW u \in Txns, NEW v \in Versions, OwnIndexed(u, v)', NEW w \in Siblings(v)
        PROVE  VersionSeen(u, w)'.status # "indexed" /\ \A x \in Txns \ {u} : ~OwnIndexed(x, w)'
    <3>0. w \in Versions /\ v \in Siblings(w)
      BY SiblingsBothWays
    <3>1. u # t /\ OwnIndexed(u, v)
      BY <2>1, <2>4 DEF OwnIndexed
    <3>2. /\ VersionSeen(u, w).status # "indexed"
          /\ \A x \in Txns \ {u} : ~OwnIndexed(x, w)
      BY <3>1 DEF IndexInv
    <3>3. \A x \in Txns \ {u} : ~OwnIndexed(x, w)'
      BY <2>1, <3>0, <3>2 DEF OwnIndexed
    <3>4. VersionSeen(u, w)'.status # "indexed"
      BY <2>1, <2>2, <3>0, <3>1, <3>2 DEF VersionSeen, OwnIndexed
    <3> QED
      BY <3>3, <3>4
  <2> QED
    BY <2>3, <2>4 DEF IndexInv
<1>3. ASSUME NEW t \in Txns, NEW v \in Versions, NEW row \in VersionRow, WriteOf(t, v, row)
      PROVE  IndexInv'
  <2>1. /\ UNCHANGED versions /\ ownVersions'[t][v] = row
        /\ \A u \in Txns, w \in Versions : u # t \/ w # v => ownVersions'[u][w] = ownVersions[u][w]
    BY <1>3, <1>0 DEF WriteOf, Writes, TypeOK
  <2>2. row.status = "indexed" =>
          \A w \in Siblings(v) : VersionSeen(t, w).status # "indexed" /\ \A u \in Txns \ {t} : ~OwnIndexed(u, w)
    <3> SUFFICES ASSUME row.status = "indexed"
                 PROVE  \A w \in Siblings(v) :
                          VersionSeen(t, w).status # "indexed" /\ \A u \in Txns \ {t} : ~OwnIndexed(u, w)
      OBVIOUS
    <3>1. Decided(t, v, row)
      BY <1>3, RowTypes DEF WriteOf
    <3>2. CASE IndexWriters(t, v) = {} /\ ~IndexConflict(t, v)
      BY <3>2, IndexedAlone
    <3>3. CASE loaded[t].status = "indexed"
      <4>1. exclusive[v] = t /\ VersionSeen(t, v).status = "indexed"
        BY <3>1, <3>3 DEF Decided, LockInv, Guarded
      <4> QED
        BY <4>1, SeenAlone
    <3> QED
      BY <3>1, <3>2, <3>3 DEF Decided
  <2>3. ASSUME NEW u \in Txns, NEW x \in Versions, OwnIndexed(u, x)', NEW w \in Siblings(x)
        PROVE  VersionSeen(u, w)'.status # "indexed" /\ \A y \in Txns \ {u} : ~OwnIndexed(y, w)'
    <3>0. w \in Versions /\ w # x /\ x \in Siblings(w)
      BY SiblingsBothWays
    <3>1. CASE u = t /\ x = v
      BY <2>1, <2>2, <2>3, <3>0, <3>1 DEF OwnIndexed, VersionSeen
    <3>2. CASE u # t \/ x # v
      <4>1. OwnIndexed(u, x)
        BY <2>1, <2>3, <3>2 DEF OwnIndexed
      <4>2. VersionSeen(u, w).status # "indexed" /\ \A y \in Txns \ {u} : ~OwnIndexed(y, w)
        BY <4>1 DEF IndexInv
      <4>3. w = v => row.status # "indexed"
        <5> SUFFICES ASSUME w = v, row.status = "indexed" PROVE FALSE
          OBVIOUS
        <5>1. x \in Siblings(v)
          BY <3>0
        <5>2. VersionSeen(t, x).status # "indexed" /\ \A y \in Txns \ {t} : ~OwnIndexed(y, x)
          BY <2>2, <5>1
        <5> QED
          BY <4>1, <5>2 DEF VersionSeen, OwnIndexed
      <4>4. VersionSeen(u, w)'.status # "indexed"
        <5>1. CASE w # v \/ u # t
          BY <2>1, <3>0, <4>2, <5>1 DEF VersionSeen
        <5>2. CASE w = v /\ u = t
          BY <2>1, <4>3, <5>2, UntouchedAssumption DEF VersionSeen
        <5> QED
          BY <5>1, <5>2
      <4>5. ASSUME NEW y \in Txns \ {u} PROVE ~OwnIndexed(y, w)'
        BY <2>1, <3>0, <4>2, <4>3 DEF OwnIndexed
      <4> QED
        BY <4>4, <4>5
    <3> QED
      BY <3>1, <3>2
  <2>4. OneIndexedPerDocument'
    BY <2>1 DEF IndexInv, OneIndexedPerDocument
  <2> QED
    BY <2>3, <2>4 DEF IndexInv
<1> QED
  BY <1>1, <1>2, <1>3, VersionSteps

\* At most one committed version of a document is indexed, for any number of
\* transactions that index and supersede its versions.
THEOREM OneIndexed == Spec => []OneIndexedPerDocument
<1>1. Init => TypeInv /\ LockInv /\ IndexInv
  <2>1. Init => IndexInv
    BY RowTypes DEF Init, IndexInv, OneIndexedPerDocument, OwnIndexed
  <2> QED
    BY <2>1, TypeInit, LockInit
<1>2. TypeInv /\ LockInv /\ IndexInv /\ [Next]_vars => (TypeInv /\ LockInv /\ IndexInv)'
  BY TypeNext, LockNext, IndexNext
<1>3. IndexInv => OneIndexedPerDocument
  BY DEF IndexInv
<1> QED
  BY <1>1, <1>2, <1>3, PTL DEF Spec

-----------------------------------------------------------------------------
(* Rows that refer to each other.  What a transaction wrote and referred to is *)
(* held by its locks until it ends; what it read without a lock may only have  *)
(* moved forward or have been deleted.                                         *)

Live(row) == row.status \in Statuses
LiveDoc(x) == x \notin {NoDoc, DeletedDoc}
Follows(before, after) == after = Deleted \/ (Live(after) /\ Moves(before, after))
OwnDeleted(t, row) ==
  IF row \in Docs THEN ownDocs[t][row] = DeletedDoc ELSE ownVersions[t][row] = Deleted
Pending(t, name, v) == pc[t] = "reference" /\ call[t].name = name /\ call[t].version = v
Cascading(t, d) == pc[t] = "cascade" /\ call[t].doc = d

\* The locks of a transaction: on the documents it wrote or works on, and on the rows
\* its foreign keys name, which are there unless it deleted them itself.
DocsHeld(t) ==
  \A d \in Docs : ownDocs[t][d] # Untouched => exclusive[d] = t /\ ownDocs[t][d] # NoDoc
Choosing(t) ==
  pc[t] \in {"read", "decide"} /\ call[t].name = "set_active_version" =>
    exclusive[call[t].doc] = t /\ LiveDoc(DocSeen(t, call[t].doc))
RowsHeld(t) ==
  \A r \in Rows :
    /\ t \in share[r] => exclusive[r] \in {NoTxn, t}
    /\ t \in share[r] \/ exclusive[r] = t => Exists(t, r) \/ OwnDeleted(t, r)

\* What it wrote: rows that can be followed, and deletions that are complete.
RowsWritten(t) ==
  \A v \in Versions : ownVersions[t][v] # Untouched =>
    /\ Live(ownVersions[t][v]) \/ ownVersions[t][v] = Deleted
    /\ versions[v] # Deleted
    /\ ownVersions[t][v] = Deleted => ownDocs[t][DocOf[v]] = DeletedDoc
    /\ Live(ownVersions[t][v]) /\ ~Live(versions[v]) =>
         Pending(t, "create_version", v) \/ t \in share[DocOf[v]]
DeletionsDone(t) ==
  /\ pc[t] = "cascade" => ownDocs[t][call[t].doc] = DeletedDoc
  /\ \A v \in Versions : ownDocs[t][DocOf[v]] = DeletedDoc =>
       ~Live(VersionSeen(t, v)) \/ Cascading(t, DocOf[v]) \/ Pending(t, "create_version", v)
ReadEarlier(t) ==
  pc[t] = "decide" /\ call[t].name \in {"add_chunks", "set_active_version"} /\ Live(loaded[t]) =>
    Follows(loaded[t], VersionSeen(t, call[t].version))
ChunksWritten(t) ==
  \A v \in Versions :
    /\ ownChunks[t][v] # {} => Pending(t, "add_chunks", v) \/ t \in share[v]
    /\ VersionSeen(t, v) # Deleted => ownChunks[t][v] \subseteq {NoProfile, VersionSeen(t, v).profile}
WasIndexed(row) == row = Deleted \/ row.status \in {"indexed", "superseded"}
Activates(t) ==
  \A d \in Docs : ownDocs[t][d] \in Versions =>
    /\ DocOf[ownDocs[t][d]] = d
    /\ WasIndexed(VersionSeen(t, ownDocs[t][d]))
    /\ Pending(t, "set_active_version", ownDocs[t][d]) \/ t \in share[ownDocs[t][d]]

Kept(t) ==
  /\ DocsHeld(t) /\ Choosing(t) /\ RowsHeld(t) /\ RowsWritten(t) /\ DeletionsDone(t)
  /\ ReadEarlier(t) /\ ChunksWritten(t) /\ Activates(t)
RowShapes == \A v \in Versions : Live(versions[v]) \/ versions[v] \in {Absent, Deleted}
RowsInv ==
  /\ \A t \in Txns : Kept(t)
  /\ RowShapes /\ NoOrphans /\ EmbeddedChunksMatchProfile /\ ActiveVersionWasIndexed

LEMMA FollowsMoves ==
  ASSUME NEW x \in VersionRow, NEW y \in VersionRow, NEW z \in VersionRow, Live(x),
         Follows(x, y), y # Deleted, Follows(y, z)
  PROVE  Follows(x, z)
<1>1. CASE z = Deleted
  BY <1>1 DEF Follows
<1>2. CASE z # Deleted
  <2>1. Live(y) /\ Live(z) /\ Moves(x, y) /\ Moves(y, z)
    BY <1>2 DEF Follows
  <2>2. Progresses(x.status, y.status) /\ Progresses(y.status, z.status)
    BY <1>2, <2>1 DEF Moves
  <2>3. Progresses(x.status, z.status)
    BY <2>1, <2>2, ProgressesTransitive DEF Live
  <2>4. x.hashed => z.hashed
    BY <1>2, <2>1, Zenon DEF Moves
  <2>5. x.profile \in {NoProfile, z.profile}
    BY <1>2, <2>1 DEF Moves
  <2> QED
    BY <2>1, <2>3, <2>4, <2>5 DEF Follows, Moves
<1> QED
  BY <1>1, <1>2

LEMMA FollowsItself ==
  ASSUME NEW x \in VersionRow, Live(x) \/ x = Deleted
  PROVE  Follows(x, x)
  BY DEF Follows, Moves, Progresses

\* What was indexed stays so.
LEMMA StaysIndexed ==
  ASSUME NEW x \in VersionRow, NEW y \in VersionRow, WasIndexed(x), x # Deleted, Follows(x, y)
  PROVE  WasIndexed(y)
  BY DEF WasIndexed, Follows, Live, Moves, Progresses, Order, Statuses

-----------------------------------------------------------------------------
(* A statement of another transaction disturbs nothing a transaction relies on *)

OwnStay(t) ==
  \A u \in Txns \ {t} :
    /\ pc'[u] = pc[u] /\ call'[u] = call[u] /\ loaded'[u] = loaded[u]
    /\ ownDocs'[u] = ownDocs[u] /\ ownVersions'[u] = ownVersions[u] /\ ownChunks'[u] = ownChunks[u]
SharesStay(t) == \A r \in Rows, u \in Txns \ {t} : u \in share'[r] <=> u \in share[r]
LocksGrow(t) ==
  \A r \in Rows :
    \/ exclusive'[r] = exclusive[r]
    \/ exclusive'[r] = t /\ \A u \in Txns \ {t} : exclusive[r] # u /\ u \notin share[r]
Quiet(t) == UNCHANGED committed /\ OwnStay(t) /\ SharesStay(t) /\ LocksGrow(t)

LEMMA OthersKept ==
  ASSUME NEW t \in Txns, NEW u \in Txns \ {t}, Kept(u), Quiet(t), TypeInv
  PROVE  Kept(u)'
<1>1. (\A d \in Docs : d \in Rows) /\ \A v \in Versions : v \in Rows /\ DocOf[v] \in Docs
  BY RowsAssumption DEF Rows
<1>2. /\ \A v \in Versions : VersionSeen(u, v)' = VersionSeen(u, v)
      /\ \A d \in Docs : DocSeen(u, d)' = DocSeen(u, d)
  BY DEF Quiet, OwnStay, VersionSeen, DocSeen, committed
<1>3. /\ \A r \in Rows : exclusive[r] = u => exclusive'[r] = u
      /\ \A r \in Rows : u \in share[r] => exclusive'[r] = exclusive[r]
      /\ \A r \in Rows : u \in share'[r] <=> u \in share[r]
  BY DEF Quiet, LocksGrow, SharesStay
<1>4. pc[u] # "ready" => call[u].doc \in Docs /\ (call[u].name \notin OfDocument => call[u].version \in Versions)
  BY CallFields DEF TypeInv, InCall
<1>5. pc'[u] = pc[u] /\ call'[u] = call[u] /\ loaded'[u] = loaded[u] /\ versions' = versions
      /\ ownDocs'[u] = ownDocs[u] /\ ownVersions'[u] = ownVersions[u] /\ ownChunks'[u] = ownChunks[u]
  BY DEF Quiet, OwnStay, committed
<1>6. DocsHeld(u)' /\ Choosing(u)'
  BY <1>1, <1>2, <1>3, <1>4, <1>5 DEF Kept, DocsHeld, Choosing
<1>7. RowsHeld(u)'
  <2> SUFFICES ASSUME NEW r \in Rows
               PROVE  /\ u \in share'[r] => exclusive'[r] \in {NoTxn, u}
                      /\ u \in share'[r] \/ exclusive'[r] = u => Exists(u, r)' \/ OwnDeleted(u, r)'
    BY DEF RowsHeld
  <2>1. exclusive'[r] = u => exclusive[r] = u
    BY DEF Quiet, LocksGrow
  <2>2. Exists(u, r)' = Exists(u, r) /\ OwnDeleted(u, r)' = OwnDeleted(u, r)
    BY <1>2, <1>5 DEF Exists, OwnDeleted, Rows
  <2> QED
    BY <1>3, <2>1, <2>2 DEF Kept, RowsHeld
<1>8. RowsWritten(u)'
  <2> SUFFICES ASSUME NEW v \in Versions, ownVersions[u][v] # Untouched
               PROVE  /\ Live(ownVersions[u][v]) \/ ownVersions[u][v] = Deleted
                      /\ versions[v] # Deleted
                      /\ ownVersions[u][v] = Deleted => ownDocs[u][DocOf[v]] = DeletedDoc
                      /\ Live(ownVersions[u][v]) /\ ~Live(versions[v]) =>
                           Pending(u, "create_version", v) \/ u \in share'[DocOf[v]]
    BY <1>5, Zenon DEF RowsWritten, Pending, Live
  <2> QED
    BY <1>1, <1>3 DEF Kept, RowsWritten
<1>9. DeletionsDone(u)'
  BY <1>1, <1>2, <1>4, <1>5 DEF Kept, DeletionsDone, Cascading, Pending, Live
<1>10. ReadEarlier(u)'
  BY <1>2, <1>4, <1>5 DEF Kept, ReadEarlier, OfDocument
<1>11. ChunksWritten(u)'
  <2> SUFFICES ASSUME NEW v \in Versions
               PROVE  /\ ownChunks[u][v] # {} => Pending(u, "add_chunks", v) \/ u \in share'[v]
                      /\ VersionSeen(u, v) # Deleted =>
                           ownChunks[u][v] \subseteq {NoProfile, VersionSeen(u, v).profile}
    BY <1>2, <1>5, Zenon DEF ChunksWritten, Pending
  <2> QED
    BY <1>1, <1>3 DEF Kept, ChunksWritten
<1>12. Activates(u)'
  BY <1>1, <1>2, <1>3, <1>5 DEF Kept, Activates, Pending, Rows
<1> QED
  BY <1>6, <1>7, <1>8, <1>9, <1>10, <1>11, <1>12 DEF Kept

\* The arguments of a call that is under way.
LEMMA Arguments ==
  ASSUME TypeInv, NEW t \in Txns, pc[t] # "ready"
  PROVE  /\ call[t].doc \in Docs /\ call[t].doc \in Rows
         /\ call[t].profile \in Profiles \cup {NoProfile}
         /\ call[t].target \in Statuses /\ call[t].hash \in BOOLEAN
         /\ call[t].name \notin OfDocument => call[t].version \in Versions /\ call[t].version \in Rows
         /\ call[t].name \notin OfDocument \cup {"set_active_version"} => call[t].doc = DocOf[call[t].version]
         /\ call[t].name = "record_embedding_profile" => call[t].profile \in Profiles
  BY CallFields DEF TypeInv, InCall, Rows

LEMMA RowSets ==
  /\ \A d \in Docs : d \in Rows /\ d \notin Versions
  /\ \A v \in Versions : v \in Rows /\ v \notin Docs /\ DocOf[v] \in Docs
  BY RowsAssumption DEF Rows

\* What t wrote and referred to is as it was.
SameWritten(t) ==
  /\ ownDocs'[t] = ownDocs[t] /\ ownVersions'[t] = ownVersions[t] /\ ownChunks'[t] = ownChunks[t]
  /\ \A r \in Rows : t \in share'[r] <=> t \in share[r]

\* A statement that only reads, locks or gives up.
LEMMA PlainKept ==
  ASSUME TypeInv, NEW t \in Txns, Kept(t), Quiet(t), SameWritten(t),
         pc[t] # "reference", pc'[t] # "cascade",
         pc[t] = "cascade" => ToCascade(t) = {},
         Choosing(t)', ReadEarlier(t)',
         \A r \in Rows : exclusive'[r] # exclusive[r] => Exists(t, r)
  PROVE  Kept(t)'
<1>1. /\ \A v \in Versions : VersionSeen(t, v)' = VersionSeen(t, v)
      /\ \A d \in Docs : DocSeen(t, d)' = DocSeen(t, d)
      /\ versions' = versions
  BY DEF Quiet, SameWritten, VersionSeen, DocSeen, committed
<1>2. \A v \in Versions : \A name : ~Pending(t, name, v)
  BY DEF Pending
<1>3. \A r \in Rows : exclusive'[r] \in {exclusive[r], t} /\ (t \in share'[r] <=> t \in share[r])
  BY DEF Quiet, LocksGrow, SameWritten
<1>4. DocsHeld(t)'
  BY <1>3, RowSets DEF Kept, DocsHeld, SameWritten
<1>5. RowsHeld(t)'
  <2> SUFFICES ASSUME NEW r \in Rows
               PROVE  /\ t \in share'[r] => exclusive'[r] \in {NoTxn, t}
                      /\ t \in share'[r] \/ exclusive'[r] = t => Exists(t, r)' \/ OwnDeleted(t, r)'
    BY DEF RowsHeld
  <2>1. Exists(t, r)' = Exists(t, r) /\ OwnDeleted(t, r)' = OwnDeleted(t, r)
    BY <1>1 DEF Exists, OwnDeleted, Rows, SameWritten
  <2> QED
    BY <1>3, <2>1 DEF Kept, RowsHeld
<1>6. RowsWritten(t)'
  BY <1>1, <1>2, <1>3, RowSets DEF Kept, RowsWritten, SameWritten, Live
<1>7. DeletionsDone(t)'
  <2>1. ASSUME NEW v \in Versions, ownDocs[t][DocOf[v]] = DeletedDoc PROVE ~Live(VersionSeen(t, v))
    <3>1. Cascading(t, DocOf[v]) => ~Live(VersionSeen(t, v))
      BY RowSets DEF Cascading, ToCascade, Exists, Live
    <3> QED
      BY <1>2, <2>1, <3>1 DEF Kept, DeletionsDone
  <2> QED
    BY <1>1, <2>1 DEF DeletionsDone, SameWritten, Live
<1>8. ChunksWritten(t)'
  <2> SUFFICES ASSUME NEW v \in Versions
               PROVE  /\ ownChunks[t][v] # {} => t \in share'[v]
                      /\ VersionSeen(t, v) # Deleted =>
                           ownChunks[t][v] \subseteq {NoProfile, VersionSeen(t, v).profile}
    BY <1>1, Zenon DEF ChunksWritten, SameWritten
  <2> QED
    BY <1>2, <1>3, RowSets DEF Kept, ChunksWritten
<1>9. Activates(t)'
  BY <1>1, <1>2, <1>3, RowSets DEF Kept, Activates, SameWritten
<1> QED
  BY <1>4, <1>5, <1>6, <1>7, <1>8, <1>9 DEF Kept

\* Locks that stay, and locks of rows that nobody else holds.
LEMMA LocksStay ==
  ASSUME NEW t \in Txns, UNCHANGED locks
  PROVE  SharesStay(t) /\ LocksGrow(t) /\ \A r \in Rows : exclusive'[r] = exclusive[r] /\ (t \in share'[r] <=> t \in share[r])
  BY DEF locks, SharesStay, LocksGrow

LEMMA LockTaken ==
  ASSUME TypeInv, NEW t \in Txns, NEW r \in Rows, Holders(t, r) = {}, TakeExclusive(t, r), UNCHANGED share
  PROVE  /\ SharesStay(t) /\ LocksGrow(t) /\ exclusive'[r] = t
         /\ \A x \in Rows : x # r => exclusive'[x] = exclusive[x]
         /\ \A x \in Rows : t \in share'[x] <=> t \in share[x]
         /\ t \in share[r] => exclusive[r] \in {NoTxn, t}
<1>1. exclusive[r] \in {NoTxn, t} /\ \A u \in Txns \ {t} : u \notin share[r]
  BY DEF Holders, Writers
<1>2. /\ exclusive'[r] = t /\ \A x \in Rows : x # r => exclusive'[x] = exclusive[x]
  BY DEF TypeInv, TypeOK, TakeExclusive
<1> QED
  BY <1>1, <1>2, RowsAssumption DEF SharesStay, LocksGrow

\* A row that nobody has yet is not locked by others.
LEMMA NewRowTaken ==
  ASSUME TypeInv, RowsInv, NEW t \in Txns, NEW r \in Rows, TakeExclusive(t, r), UNCHANGED share,
         \A u \in Txns \ {t} : ~Exists(u, r) /\ ~OwnDeleted(u, r)
  PROVE  /\ SharesStay(t) /\ LocksGrow(t) /\ exclusive'[r] = t
         /\ \A x \in Rows : x # r => exclusive'[x] = exclusive[x]
         /\ \A x \in Rows : t \in share'[x] <=> t \in share[x]
<1>1. \A u \in Txns \ {t} : exclusive[r] # u /\ u \notin share[r]
  BY DEF RowsInv, Kept, RowsHeld
<1>2. /\ exclusive'[r] = t /\ \A x \in Rows : x # r => exclusive'[x] = exclusive[x]
  BY DEF TypeInv, TypeOK, TakeExclusive
<1> QED
  BY <1>1, <1>2 DEF SharesStay, LocksGrow

LEMMA InsertDocumentKept ==
  ASSUME TypeInv, RowsInv, NEW t \in Txns, InsertDocument(t), ~Abort(t)
  PROVE  Quiet(t) /\ Kept(t)'
<1> PICK d \in Docs : d = call[t].doc
  BY Arguments DEF InsertDocument, At
<1>1. /\ pc[t] = "insert" /\ call[t].name = "create_document" /\ Blockers(t) = {}
      /\ DocSeen(t, d) = NoDoc
      /\ ownDocs' = [ownDocs EXCEPT ![t][d] = NoVersion]
      /\ TakeExclusive(t, d) /\ CallEnds(t)
      /\ UNCHANGED <<committed, ownVersions, ownChunks, share>>
  BY DEF InsertDocument, At
<1>2. Kept(t) /\ TypeOK
  BY DEF RowsInv, TypeInv
<1>3. OthersStay(t) /\ pc'[t] = "ready"
  BY <1>1, EndsStay
<1>4. /\ ownDocs'[t][d] = NoVersion /\ \A e \in Docs : e # d => ownDocs'[t][e] = ownDocs[t][e]
      /\ \A u \in Txns \ {t} : ownDocs'[u] = ownDocs[u]
  BY <1>1, <1>2 DEF TypeOK
<1>5. ownDocs[t][d] = Untouched /\ docs[d] = NoDoc
  BY <1>1, <1>2 DEF Kept, DocsHeld, DocSeen
<1>6. \A u \in Txns \ {t} : ~Exists(u, d) /\ ~OwnDeleted(u, d)
  <2>1. InsertWriters(t, d) = {}
    BY <1>1, BlockersOf DEF InsertedRow
  <2>2. \A u \in Txns \ {t} : ownDocs[u][d] = Untouched
    BY <2>1 DEF InsertWriters
  <2> QED
    BY <1>5, <2>2, RowsAssumption DEF Exists, OwnDeleted, DocSeen
<1>7. /\ SharesStay(t) /\ LocksGrow(t) /\ exclusive'[d] = t
      /\ \A x \in Rows : x # d => exclusive'[x] = exclusive[x]
      /\ \A x \in Rows : t \in share'[x] <=> t \in share[x]
  BY <1>1, <1>6, NewRowTaken, RowSets
<1>8. Quiet(t)
  BY <1>1, <1>3, <1>4, <1>7 DEF Quiet, OwnStay, OthersStay
<1>9. /\ \A v \in Versions : VersionSeen(t, v)' = VersionSeen(t, v)
      /\ \A e \in Docs : e # d => DocSeen(t, e)' = DocSeen(t, e)
      /\ DocSeen(t, d)' = NoVersion /\ versions' = versions
      /\ ownVersions'[t] = ownVersions[t] /\ ownChunks'[t] = ownChunks[t]
  BY <1>1, <1>4, RowsAssumption DEF VersionSeen, DocSeen, committed
<1>10. NoVersion \notin {NoDoc, DeletedDoc, Untouched} /\ NoVersion \notin Versions /\ Untouched # DeletedDoc
  BY RowsAssumption
<1>11. DocsHeld(t)' /\ Choosing(t)' /\ ReadEarlier(t)'
  BY <1>2, <1>3, <1>4, <1>7, <1>10, RowSets DEF Kept, DocsHeld, Choosing, ReadEarlier
<1>12. RowsHeld(t)'
  <2> SUFFICES ASSUME NEW r \in Rows
               PROVE  /\ t \in share'[r] => exclusive'[r] \in {NoTxn, t}
                      /\ t \in share'[r] \/ exclusive'[r] = t => Exists(t, r)' \/ OwnDeleted(t, r)'
    BY DEF RowsHeld
  <2>1. CASE r = d
    BY <1>7, <1>9, <1>10, <2>1 DEF Exists
  <2>2. CASE r # d
    <3>1. Exists(t, r)' = Exists(t, r) /\ OwnDeleted(t, r)' = OwnDeleted(t, r)
      BY <1>4, <1>9, <2>2 DEF Exists, OwnDeleted, Rows
    <3> QED
      BY <1>2, <1>7, <2>2, <3>1 DEF Kept, RowsHeld
  <2> QED
    BY <2>1, <2>2
<1>13. \A v \in Versions : \A name : ~Pending(t, name, v)
  BY <1>1 DEF Pending
<1>14. RowsWritten(t)'
  BY <1>2, <1>4, <1>5, <1>7, <1>9, <1>10, <1>13, RowSets DEF Kept, RowsWritten, Live
<1>15. DeletionsDone(t)'
  BY <1>1, <1>2, <1>3, <1>4, <1>9, <1>10, <1>13, RowSets DEF Kept, DeletionsDone, Cascading, Live
<1>16. ChunksWritten(t)'
  <2> SUFFICES ASSUME NEW v \in Versions
               PROVE  /\ ownChunks[t][v] # {} => t \in share'[v]
                      /\ VersionSeen(t, v) # Deleted =>
                           ownChunks[t][v] \subseteq {NoProfile, VersionSeen(t, v).profile}
    BY <1>9, Zenon DEF ChunksWritten
  <2> QED
    BY <1>2, <1>7, <1>13, RowSets DEF Kept, ChunksWritten
<1>17. Activates(t)'
  BY <1>2, <1>4, <1>7, <1>9, <1>10, <1>13, RowSets DEF Kept, Activates
<1> QED
  BY <1>8, <1>11, <1>12, <1>14, <1>15, <1>16, <1>17 DEF Kept

\* A version row of t changes and its other writes stay; what each part of Kept needs.
VersionWritten(t, v, row) ==
  /\ ownVersions'[t][v] = row /\ \A w \in Versions : w # v => ownVersions'[t][w] = ownVersions[t][w]
  /\ \A u \in Txns \ {t} : ownVersions'[u] = ownVersions[u]

LEMMA WritesOne ==
  ASSUME TypeInv, NEW t \in Txns, NEW v \in Versions, NEW row \in VersionRow, Writes(t, v, row)
  PROVE  /\ VersionWritten(t, v, row)
         /\ VersionSeen(t, v)' = row
         /\ UNCHANGED versions => \A w \in Versions : w # v => VersionSeen(t, w)' = VersionSeen(t, w)
<1>1. VersionWritten(t, v, row)
  BY DEF TypeInv, TypeOK, Writes, VersionWritten
<1> QED
  BY <1>1, UntouchedAssumption DEF VersionWritten, VersionSeen

LEMMA InsertVersionKept ==
  ASSUME TypeInv, LockInv, RowsInv, NEW t \in Txns, InsertVersion(t), ~Abort(t)
  PROVE  Quiet(t) /\ Kept(t)'
<1>0. /\ pc[t] = "insert" /\ call[t].name = "create_version" /\ Blockers(t) = {}
      /\ VersionSeen(t, call[t].version) = Absent
      /\ Writes(t, call[t].version, [Absent EXCEPT !.status = "queued", !.hashed = call[t].hash])
      /\ TakeExclusive(t, call[t].version) /\ Goto(t, "reference")
      /\ UNCHANGED <<committed, call, loaded, ownDocs, ownChunks, share>>
  BY DEF InsertVersion, At
<1> PICK v \in Versions : v = call[t].version
  BY <1>0, Arguments DEF OfDocument
<1> PICK row \in VersionRow : row = [Absent EXCEPT !.status = "queued", !.hashed = call[t].hash]
  BY <1>0, Arguments, NewRowType
<1>1. row.status = "queued" /\ Live(row) /\ row.profile = NoProfile /\ row # Deleted
  <2>1. row.status = "queued"
    BY <1>0, Arguments, NewRowType
  <2>2. row.profile = NoProfile
    BY Zenon DEF Absent
  <2> QED
    BY <2>1, <2>2, RowTypes DEF Live, Statuses
<1>2. Kept(t) /\ TypeOK
  BY DEF RowsInv, TypeInv
<1>3. OthersStay(t) /\ pc'[t] = "reference" /\ call'[t] = call[t]
  BY <1>0, GotoStay
<1>4. VersionWritten(t, v, row) /\ VersionSeen(t, v)' = row
      /\ \A w \in Versions : w # v => VersionSeen(t, w)' = VersionSeen(t, w)
  BY <1>0, WritesOne DEF committed
<1>5. ownVersions[t][v] = Untouched /\ versions[v] = Absent
  BY <1>0 DEF LockInv, Guarded, VersionSeen
<1>6. \A u \in Txns \ {t} : ~Exists(u, v) /\ ~OwnDeleted(u, v)
  <2>1. InsertWriters(t, v) = {}
    BY <1>0, BlockersOf DEF InsertedRow
  <2>2. \A u \in Txns \ {t} : ownVersions[u][v] = Untouched
    BY <2>1, RowSets DEF InsertWriters
  <2> QED
    BY <1>5, <2>2, RowSets, RowTypes, UntouchedAssumption DEF Exists, OwnDeleted, VersionSeen, Statuses
<1>7. /\ SharesStay(t) /\ LocksGrow(t) /\ exclusive'[v] = t
      /\ \A x \in Rows : x # v => exclusive'[x] = exclusive[x]
      /\ \A x \in Rows : t \in share'[x] <=> t \in share[x]
  BY <1>0, <1>6, NewRowTaken, RowSets
<1>8. Quiet(t)
  BY <1>0, <1>3, <1>4, <1>7 DEF Quiet, OwnStay, OthersStay, VersionWritten
<1>9. /\ \A d \in Docs : DocSeen(t, d)' = DocSeen(t, d)
      /\ versions' = versions /\ ownDocs'[t] = ownDocs[t] /\ ownChunks'[t] = ownChunks[t]
  BY <1>0 DEF DocSeen, committed
<1>10. \A w \in Versions : \A name : ~Pending(t, name, w)
  BY <1>0 DEF Pending
<1>11. DocsHeld(t)' /\ Choosing(t)' /\ ReadEarlier(t)'
  BY <1>2, <1>3, <1>7, <1>9, RowSets DEF Kept, DocsHeld, Choosing, ReadEarlier
<1>12. RowsHeld(t)'
  <2> SUFFICES ASSUME NEW r \in Rows
               PROVE  /\ t \in share'[r] => exclusive'[r] \in {NoTxn, t}
                      /\ t \in share'[r] \/ exclusive'[r] = t => Exists(t, r)' \/ OwnDeleted(t, r)'
    BY DEF RowsHeld
  <2>1. CASE r = v
    BY <1>1, <1>4, <1>7, <2>1, RowSets DEF Exists, Live
  <2>2. CASE r # v
    <3>1. Exists(t, r)' = Exists(t, r) /\ OwnDeleted(t, r)' = OwnDeleted(t, r)
      BY <1>4, <1>9, <2>2 DEF Exists, OwnDeleted, Rows, VersionWritten
    <3> QED
      BY <1>2, <1>7, <2>2, <3>1 DEF Kept, RowsHeld
  <2> QED
    BY <2>1, <2>2
<1>14. RowsWritten(t)'
  <2>1. Pending(t, "create_version", v)' /\ versions[v] # Deleted
    BY <1>0, <1>3, <1>5, RowTypes DEF Pending
  <2> QED
    BY <1>1, <1>2, <1>4, <1>7, <1>9, <1>10, <2>1, RowSets DEF Kept, RowsWritten, Live, VersionWritten
<1>15. DeletionsDone(t)'
  <2>1. Pending(t, "create_version", v)'
    BY <1>0, <1>3 DEF Pending
  <2> QED
    BY <1>0, <1>2, <1>3, <1>4, <1>9, <1>10, <2>1, RowSets DEF Kept, DeletionsDone, Cascading, Live
<1>16. ChunksWritten(t)'
  <2> SUFFICES ASSUME NEW w \in Versions
               PROVE  /\ ownChunks[t][w] # {} => t \in share'[w]
                      /\ VersionSeen(t, w)' # Deleted =>
                           ownChunks[t][w] \subseteq {NoProfile, VersionSeen(t, w)'.profile}
    BY <1>9, Zenon DEF ChunksWritten
  <2>1. ownChunks[t][v] \subseteq {NoProfile}
    BY <1>0, <1>2, RowTypes DEF Kept, ChunksWritten, Absent
  <2> QED
    BY <1>1, <1>2, <1>4, <1>7, <1>10, <2>1, RowSets DEF Kept, ChunksWritten
<1>17. Activates(t)'
  <2>1. ~WasIndexed(VersionSeen(t, v))
    BY <1>0, RowTypes DEF WasIndexed
  <2> QED
    BY <1>2, <1>4, <1>7, <1>9, <1>10, <2>1, RowSets DEF Kept, Activates
<1> QED
  BY <1>8, <1>11, <1>12, <1>14, <1>15, <1>16, <1>17 DEF Kept

\* transition_version and record_embedding_profile write a row that follows the one
\* they locked.
LEMMA DecidedKept ==
  ASSUME TypeInv, LockInv, RowsInv, NEW t \in Txns, NEW v \in Versions, NEW row \in VersionRow,
         Decided(t, v, row), Writes(t, v, row), CallEnds(t),
         UNCHANGED <<committed, ownDocs, ownChunks, locks>>
  PROVE  Quiet(t) /\ Kept(t)'
<1>1. /\ loaded[t] = VersionSeen(t, v) /\ Live(VersionSeen(t, v)) /\ VersionSeen(t, v) \in VersionRow
      /\ pc[t] = "decide"
  BY SeenTypes DEF Decided, Deciding, LockInv, Guarded, Live, TypeInv
<1>2. Kept(t) /\ TypeOK
  BY DEF RowsInv, TypeInv
<1>3. Live(row) /\ Follows(VersionSeen(t, v), row) /\ row # Deleted
  <2>1. Live(row) /\ Progresses(loaded[t].status, row.status)
    BY <1>1, LegalMoves DEF Decided, Live, Progresses
  <2>2. loaded[t].hashed => row.hashed
    BY Zenon DEF Decided
  <2>3. loaded[t].profile \in {NoProfile, row.profile}
    BY DEF Decided
  <2>4. Moves(loaded[t], row)
    BY <2>1, <2>2, <2>3 DEF Moves
  <2> QED
    BY <1>1, <2>1, <2>4, RowTypes DEF Follows, Live, Statuses
<1>4. OthersStay(t) /\ pc'[t] = "ready"
  BY EndsStay
<1>5. VersionWritten(t, v, row) /\ VersionSeen(t, v)' = row
      /\ \A w \in Versions : w # v => VersionSeen(t, w)' = VersionSeen(t, w)
  BY WritesOne DEF committed
<1>6. SharesStay(t) /\ LocksGrow(t) /\ \A r \in Rows : exclusive'[r] = exclusive[r] /\ (t \in share'[r] <=> t \in share[r])
  BY LocksStay
<1>7. Quiet(t)
  BY <1>4, <1>5, <1>6 DEF Quiet, OwnStay, OthersStay, VersionWritten
<1>8. /\ \A d \in Docs : DocSeen(t, d)' = DocSeen(t, d)
      /\ versions' = versions /\ ownDocs'[t] = ownDocs[t] /\ ownChunks'[t] = ownChunks[t]
  BY DEF DocSeen, committed
<1>9. \A w \in Versions : \A name : ~Pending(t, name, w)
  BY <1>1 DEF Pending
<1>10. DocsHeld(t)' /\ Choosing(t)' /\ ReadEarlier(t)'
  BY <1>2, <1>4, <1>6, <1>8, RowSets DEF Kept, DocsHeld, Choosing, ReadEarlier
<1>11. RowsHeld(t)'
  <2> SUFFICES ASSUME NEW r \in Rows
               PROVE  /\ t \in share'[r] => exclusive'[r] \in {NoTxn, t}
                      /\ t \in share'[r] \/ exclusive'[r] = t => Exists(t, r)' \/ OwnDeleted(t, r)'
    BY DEF RowsHeld
  <2>1. CASE r = v
    BY <1>2, <1>3, <1>5, <1>6, <2>1, RowSets DEF Exists, Live, Kept, RowsHeld
  <2>2. CASE r # v
    <3>1. Exists(t, r)' = Exists(t, r) /\ OwnDeleted(t, r)' = OwnDeleted(t, r)
      BY <1>5, <1>8, <2>2 DEF Exists, OwnDeleted, Rows, VersionWritten
    <3> QED
      BY <1>2, <1>6, <2>2, <3>1 DEF Kept, RowsHeld
  <2> QED
    BY <2>1, <2>2
<1>12. RowsWritten(t)'
  <2>1. versions[v] # Deleted /\ (~Live(versions[v]) => t \in share[DocOf[v]])
    <3>1. CASE ownVersions[t][v] = Untouched
      BY <1>1, <3>1, RowTypes DEF VersionSeen, Live, Statuses
    <3>2. CASE ownVersions[t][v] # Untouched
      BY <1>1, <1>2, <1>9, <3>2 DEF VersionSeen, Kept, RowsWritten
    <3> QED
      BY <3>1, <3>2
  <2>2. \A w \in Versions : DocOf[w] \in Rows
    BY RowSets
  <2> QED
    BY <1>2, <1>3, <1>5, <1>6, <1>8, <1>9, <2>1, <2>2 DEF Kept, RowsWritten, Live, VersionWritten
<1>13. DeletionsDone(t)'
  <2>1. ownDocs[t][DocOf[v]] # DeletedDoc
    BY <1>1, <1>2, <1>9 DEF Kept, DeletionsDone, Cascading
  <2> QED
    BY <1>1, <1>2, <1>4, <1>5, <1>8, <1>9, <2>1, RowSets DEF Kept, DeletionsDone, Cascading, Live
<1>14. ChunksWritten(t)'
  <2> SUFFICES ASSUME NEW w \in Versions
               PROVE  /\ ownChunks[t][w] # {} => t \in share'[w]
                      /\ VersionSeen(t, w)' # Deleted =>
                           ownChunks[t][w] \subseteq {NoProfile, VersionSeen(t, w)'.profile}
    BY <1>8, Zenon DEF ChunksWritten
  <2>1. ownChunks[t][v] \subseteq {NoProfile, row.profile}
    <3>1. VersionSeen(t, v) # Deleted /\ VersionSeen(t, v).profile \in {NoProfile, row.profile}
      BY <1>1, <1>3, RowTypes DEF Live, Statuses, Follows, Moves
    <3> QED
      BY <1>2, <3>1 DEF Kept, ChunksWritten
  <2> QED
    BY <1>2, <1>5, <1>6, <1>9, <2>1, RowSets DEF Kept, ChunksWritten
<1>15. Activates(t)'
  <2>1. WasIndexed(VersionSeen(t, v)) => WasIndexed(row)
    BY <1>1, <1>3, StaysIndexed, RowTypes DEF Live, Statuses
  <2> QED
    BY <1>2, <1>5, <1>6, <1>8, <1>9, <2>1, RowSets DEF Kept, Activates
<1> QED
  BY <1>7, <1>10, <1>11, <1>12, <1>13, <1>14, <1>15 DEF Kept

LEMMA TransitionKept ==
  ASSUME TypeInv, LockInv, RowsInv, NEW t \in Txns, Transition(t) \/ RecordProfile(t), ~Abort(t)
  PROVE  Quiet(t) /\ Kept(t)'
<1>1. CASE ~UNCHANGED ownVersions
  BY <1>1, TransitionDecided, ProfileDecided, DecidedKept DEF DecidedWrite
<1>2. CASE UNCHANGED ownVersions
  <2>1. /\ CallEnds(t) /\ UNCHANGED <<committed, ownDocs, ownChunks, locks>> /\ pc[t] = "decide"
    BY <1>2 DEF Transition, RecordProfile, At, own
  <2>2. OthersStay(t) /\ pc'[t] = "ready"
    BY <2>1, EndsStay
  <2>3. Choosing(t)' /\ ReadEarlier(t)'
    BY <2>2 DEF Choosing, ReadEarlier
  <2>4. SharesStay(t) /\ LocksGrow(t) /\ \A r \in Rows : exclusive'[r] = exclusive[r] /\ (t \in share'[r] <=> t \in share[r])
    BY <2>1, LocksStay
  <2>5. Quiet(t) /\ SameWritten(t)
    BY <1>2, <2>1, <2>2, <2>4 DEF Quiet, SameWritten, OwnStay, OthersStay
  <2> QED
    BY <2>1, <2>2, <2>3, <2>4, <2>5, PlainKept DEF RowsInv
<1> QED
  BY <1>1, <1>2

\* The statements that read and lock, and those that find nothing to do.
LEMMA ReadKept ==
  ASSUME TypeInv, LockInv, RowsInv, NEW t \in Txns,
         \/ LockVersion(t) \/ LockDocument(t) \/ ReadVersion(t) \/ ReadDocument(t) \/ CascadeDone(t)
         \/ (SetActive(t) \/ InsertChunk(t) \/ DeleteDocument(t)) /\ CallEnds(t)
  PROVE  Quiet(t) /\ Kept(t)'
<1>0. Kept(t) /\ TypeOK
  BY DEF RowsInv, TypeInv
<1>1. ASSUME CallEnds(t), UNCHANGED <<committed, own, locks>>, pc[t] # "reference",
             pc[t] = "cascade" => ToCascade(t) = {}
      PROVE  Quiet(t) /\ Kept(t)'
  <2>2. OthersStay(t) /\ pc'[t] = "ready"
    BY <1>1, EndsStay
  <2>3. Choosing(t)' /\ ReadEarlier(t)'
    BY <2>2 DEF Choosing, ReadEarlier
  <2>4. SharesStay(t) /\ LocksGrow(t) /\ \A r \in Rows : exclusive'[r] = exclusive[r] /\ (t \in share'[r] <=> t \in share[r])
    BY <1>1, LocksStay
  <2>5. Quiet(t) /\ SameWritten(t)
    BY <1>1, <2>2, <2>4 DEF Quiet, SameWritten, OwnStay, OthersStay, own
  <2> QED
    BY <1>0, <1>1, <2>2, <2>3, <2>4, <2>5, PlainKept
<1>2. CASE LockVersion(t)
  <2>0. /\ pc[t] = "lock" /\ call[t].name \in OnLocked /\ Blockers(t) = {}
        /\ loaded' = [loaded EXCEPT ![t] = VersionSeen(t, call[t].version)]
        /\ (IF Exists(t, call[t].version) THEN TakeExclusive(t, call[t].version) ELSE UNCHANGED exclusive)
        /\ Goto(t, "decide")
        /\ UNCHANGED <<committed, call, own, share>>
    BY <1>2 DEF LockVersion, OnLocked
  <2> PICK v \in Versions : v = call[t].version
    BY <2>0, Arguments DEF OfDocument, OnLocked
  <2>1. OthersStay(t) /\ pc'[t] = "decide" /\ call'[t] = call[t]
    BY <2>0, GotoStay
  <2>2. Choosing(t)' /\ ReadEarlier(t)'
    BY <2>0, <2>1 DEF Choosing, ReadEarlier, OnLocked
  <2>3. /\ SharesStay(t) /\ LocksGrow(t)
        /\ \A r \in Rows : (t \in share'[r] <=> t \in share[r]) /\ (exclusive'[r] # exclusive[r] => Exists(t, r))
    <3>1. CASE Exists(t, v)
      <4>1. Holders(t, v) = {}
        BY <2>0, <3>1, BlockersOf DEF LockedRow, OnLocked
      <4> QED
        BY <2>0, <3>1, <4>1, LockTaken, RowSets
    <3>2. CASE ~Exists(t, v)
      BY <2>0, <3>2, LocksStay DEF locks
    <3> QED
      BY <3>1, <3>2
  <2>4. Quiet(t) /\ SameWritten(t)
    BY <2>0, <2>1, <2>3 DEF Quiet, SameWritten, OwnStay, OthersStay, own
  <2> QED
    BY <1>0, <2>0, <2>1, <2>2, <2>3, <2>4, PlainKept
<1>3. CASE LockDocument(t)
  <2>0. /\ pc[t] = "lock" /\ call[t].name = "set_active_version" /\ Blockers(t) = {}
        /\ UNCHANGED <<committed, own, share>>
        /\ \/ CallEnds(t) /\ UNCHANGED exclusive
           \/ Exists(t, call[t].doc) /\ TakeExclusive(t, call[t].doc) /\ Goto(t, "read") /\ UNCHANGED <<call, loaded>>
    BY <1>3 DEF LockDocument, At
  <2>1. CASE CallEnds(t) /\ UNCHANGED exclusive
    BY <1>1, <2>0, <2>1 DEF locks
  <2>2. CASE Exists(t, call[t].doc) /\ TakeExclusive(t, call[t].doc) /\ Goto(t, "read") /\ UNCHANGED <<call, loaded>>
    <3> PICK d \in Docs : d = call[t].doc
      BY <2>0, Arguments
    <3>1. OthersStay(t) /\ pc'[t] = "read" /\ call'[t] = call[t]
      BY <2>2, GotoStay
    <3>2. Holders(t, d) = {}
      BY <2>0, <2>2, BlockersOf DEF LockedRow
    <3>3. /\ SharesStay(t) /\ LocksGrow(t) /\ exclusive'[d] = t
          /\ \A x \in Rows : x # d => exclusive'[x] = exclusive[x]
          /\ \A x \in Rows : t \in share'[x] <=> t \in share[x]
      BY <2>0, <2>2, <3>2, LockTaken, RowSets
    <3>4. DocSeen(t, d)' = DocSeen(t, d) /\ LiveDoc(DocSeen(t, d))
      BY <2>0, <2>2 DEF DocSeen, committed, own, Exists, LiveDoc
    <3>5. Choosing(t)' /\ ReadEarlier(t)'
      BY <3>1, <3>3, <3>4 DEF Choosing, ReadEarlier, LiveDoc
    <3>6. Quiet(t) /\ SameWritten(t)
      BY <2>0, <3>1, <3>3 DEF Quiet, SameWritten, OwnStay, OthersStay, own
    <3> QED
      BY <1>0, <2>0, <2>2, <3>1, <3>3, <3>5, <3>6, PlainKept
  <2> QED
    BY <2>0, <2>1, <2>2
<1>4. CASE ReadVersion(t)
  <2>0. /\ pc[t] = "read" /\ call[t].name \in {"add_chunks", "set_active_version"}
        /\ loaded' = [loaded EXCEPT ![t] = VersionSeen(t, call[t].version)]
        /\ Goto(t, "decide")
        /\ UNCHANGED <<committed, call, own, locks>>
    BY <1>4 DEF ReadVersion
  <2> PICK v \in Versions : v = call[t].version
    BY <2>0, Arguments DEF OfDocument
  <2>1. OthersStay(t) /\ pc'[t] = "decide" /\ call'[t] = call[t] /\ loaded'[t] = VersionSeen(t, v)
    BY <2>0, <1>0, GotoStay DEF TypeOK
  <2>2. /\ SharesStay(t) /\ LocksGrow(t)
        /\ \A r \in Rows : exclusive'[r] = exclusive[r] /\ (t \in share'[r] <=> t \in share[r])
    BY <2>0, LocksStay
  <2>3. Choosing(t)'
    <3>1. DocSeen(t, call[t].doc)' = DocSeen(t, call[t].doc)
      BY <2>0, <2>1 DEF DocSeen, committed, own
    <3>2. call[t].doc \in Rows
      BY <2>0, Arguments
    <3> QED
      BY <1>0, <2>0, <2>1, <2>2, <3>1, <3>2 DEF Kept, Choosing, LiveDoc
  <2>4. ReadEarlier(t)'
    <3>1. VersionSeen(t, v)' = VersionSeen(t, v) /\ VersionSeen(t, v) \in VersionRow
      BY <1>0, <2>0, SeenTypes DEF VersionSeen, committed, own
    <3>2. Live(VersionSeen(t, v)) => Follows(VersionSeen(t, v), VersionSeen(t, v))
      BY <3>1, FollowsItself
    <3> QED
      BY <2>1, <3>1, <3>2 DEF ReadEarlier
  <2>5. Quiet(t) /\ SameWritten(t)
    BY <2>0, <2>1, <2>2 DEF Quiet, SameWritten, OwnStay, OthersStay, own
  <2> QED
    BY <1>0, <2>0, <2>1, <2>2, <2>3, <2>4, <2>5, PlainKept
<1>5. CASE ReadDocument(t)
  <2>0. /\ pc[t] = "read" /\ UNCHANGED <<committed, own, locks>>
        /\ CallEnds(t) \/ (Goto(t, "lock") /\ UNCHANGED <<call, loaded>>)
    BY <1>5 DEF ReadDocument
  <2>1. CASE CallEnds(t)
    BY <1>1, <2>0, <2>1
  <2>2. CASE Goto(t, "lock") /\ UNCHANGED <<call, loaded>>
    <3>1. OthersStay(t) /\ pc'[t] = "lock"
      BY <2>2, GotoStay
    <3>2. Choosing(t)' /\ ReadEarlier(t)'
      BY <3>1 DEF Choosing, ReadEarlier
    <3>3. /\ SharesStay(t) /\ LocksGrow(t)
          /\ \A r \in Rows : exclusive'[r] = exclusive[r] /\ (t \in share'[r] <=> t \in share[r])
      BY <2>0, LocksStay
    <3>4. Quiet(t) /\ SameWritten(t)
      BY <2>0, <3>1, <3>3 DEF Quiet, SameWritten, OwnStay, OthersStay, own
    <3> QED
      BY <1>0, <2>0, <3>1, <3>2, <3>3, <3>4, PlainKept
  <2> QED
    BY <2>0, <2>1, <2>2
<1>6. CASE CascadeDone(t)
  BY <1>1, <1>6 DEF CascadeDone
<1>7. CASE (SetActive(t) \/ InsertChunk(t) \/ DeleteDocument(t)) /\ CallEnds(t)
  <2>1. pc[t] \in {"decide", "lock"} /\ pc'[t] = "ready"
    BY <1>7, EndsStay DEF SetActive, InsertChunk, DeleteDocument, At
  <2>2. ~Goto(t, "reference") /\ ~Goto(t, "cascade")
    BY <1>0, <2>1 DEF Goto, TypeOK
  <2>3. UNCHANGED <<committed, own, locks>>
    BY <1>7, <2>2 DEF SetActive, InsertChunk, DeleteDocument, own, locks
  <2> QED
    BY <1>1, <1>7, <2>1, <2>3
<1> QED
  BY <1>2, <1>3, <1>4, <1>5, <1>6, <1>7

LEMMA SetActiveKept ==
  ASSUME TypeInv, LockInv, RowsInv, NEW t \in Txns, SetActive(t), ~CallEnds(t)
  PROVE  Quiet(t) /\ Kept(t)'
<1>0. /\ pc[t] = "decide" /\ call[t].name = "set_active_version"
      /\ DocOf[call[t].version] = call[t].doc /\ loaded[t].status = "indexed"
      /\ ownDocs' = [ownDocs EXCEPT ![t][call[t].doc] = call[t].version]
      /\ Goto(t, "reference")
      /\ UNCHANGED <<committed, call, loaded, ownVersions, ownChunks, locks>>
  BY DEF SetActive, At
<1> PICK v \in Versions : v = call[t].version
  BY <1>0, Arguments DEF OfDocument
<1> PICK d \in Docs : d = call[t].doc
  BY <1>0, Arguments
<1>1. Kept(t) /\ TypeOK
  BY DEF RowsInv, TypeInv
<1>2. OthersStay(t) /\ pc'[t] = "reference" /\ call'[t] = call[t]
  BY <1>0, GotoStay
<1>3. /\ ownDocs'[t][d] = v /\ \A e \in Docs : e # d => ownDocs'[t][e] = ownDocs[t][e]
      /\ \A u \in Txns \ {t} : ownDocs'[u] = ownDocs[u]
  BY <1>0, <1>1 DEF TypeOK
<1>4. /\ SharesStay(t) /\ LocksGrow(t)
      /\ \A r \in Rows : exclusive'[r] = exclusive[r] /\ (t \in share'[r] <=> t \in share[r])
  BY <1>0, LocksStay
<1>5. Quiet(t)
  BY <1>0, <1>2, <1>3, <1>4 DEF Quiet, OwnStay, OthersStay
<1>6. v \notin {NoDoc, DeletedDoc, NoVersion, Untouched} /\ Untouched # DeletedDoc
  BY RowsAssumption
<1>7. /\ \A w \in Versions : VersionSeen(t, w)' = VersionSeen(t, w)
      /\ \A e \in Docs : e # d => DocSeen(t, e)' = DocSeen(t, e)
      /\ DocSeen(t, d)' = v /\ versions' = versions
      /\ ownVersions'[t] = ownVersions[t] /\ ownChunks'[t] = ownChunks[t]
  BY <1>0, <1>3, <1>6 DEF VersionSeen, DocSeen, committed
<1>8. exclusive[d] = t /\ LiveDoc(DocSeen(t, d)) /\ ownDocs[t][d] # DeletedDoc
  BY <1>0, <1>1, <1>6 DEF Kept, Choosing, LiveDoc, DocSeen
<1>9. \A w \in Versions : \A name : ~Pending(t, name, w)
  BY <1>0 DEF Pending
<1>10. DocsHeld(t)' /\ Choosing(t)' /\ ReadEarlier(t)'
  BY <1>1, <1>2, <1>3, <1>4, <1>6, <1>8, RowSets DEF Kept, DocsHeld, Choosing, ReadEarlier
<1>11. RowsHeld(t)'
  <2> SUFFICES ASSUME NEW r \in Rows
               PROVE  /\ t \in share'[r] => exclusive'[r] \in {NoTxn, t}
                      /\ t \in share'[r] \/ exclusive'[r] = t => Exists(t, r)' \/ OwnDeleted(t, r)'
    BY DEF RowsHeld
  <2>1. CASE r = d
    BY <1>1, <1>4, <1>6, <1>7, <2>1 DEF Exists, Kept, RowsHeld
  <2>2. CASE r # d
    <3>1. Exists(t, r)' = Exists(t, r) /\ OwnDeleted(t, r)' = OwnDeleted(t, r)
      BY <1>3, <1>7, <2>2 DEF Exists, OwnDeleted, Rows
    <3> QED
      BY <1>1, <1>4, <2>2, <3>1 DEF Kept, RowsHeld
  <2> QED
    BY <2>1, <2>2
<1>12. RowsWritten(t)'
  BY <1>1, <1>3, <1>4, <1>6, <1>7, <1>8, <1>9, RowSets DEF Kept, RowsWritten, Live
<1>13. DeletionsDone(t)'
  BY <1>0, <1>1, <1>2, <1>3, <1>6, <1>7, <1>9, RowSets DEF Kept, DeletionsDone, Cascading, Live
<1>14. ChunksWritten(t)'
  <2> SUFFICES ASSUME NEW w \in Versions
               PROVE  /\ ownChunks[t][w] # {} => t \in share'[w]
                      /\ VersionSeen(t, w) # Deleted =>
                           ownChunks[t][w] \subseteq {NoProfile, VersionSeen(t, w).profile}
    BY <1>7, Zenon DEF ChunksWritten
  <2> QED
    BY <1>1, <1>4, <1>9, RowSets DEF Kept, ChunksWritten
<1>15. Activates(t)'
  <2>1. WasIndexed(VersionSeen(t, v))
    <3>1. Follows(loaded[t], VersionSeen(t, v)) /\ WasIndexed(loaded[t]) /\ loaded[t] # Deleted
      BY <1>0, <1>1, RowTypes DEF Kept, ReadEarlier, Live, Statuses, WasIndexed
    <3> QED
      BY <1>1, <3>1, SeenTypes, StaysIndexed DEF TypeOK
  <2>2. Pending(t, "set_active_version", v)'
    BY <1>0, <1>2 DEF Pending
  <2> SUFFICES ASSUME NEW e \in Docs, NEW x \in Versions, ownDocs'[t][e] = x
               PROVE  /\ DocOf[x] = e
                      /\ WasIndexed(VersionSeen(t, x))
                      /\ Pending(t, "set_active_version", x)' \/ t \in share'[x]
    BY <1>7 DEF Activates
  <2>3. CASE e = d
    BY <1>0, <1>3, <1>7, <2>1, <2>2, <2>3
  <2>4. CASE e # d
    BY <1>1, <1>3, <1>4, <1>7, <1>9, <2>4, RowSets DEF Kept, Activates
  <2> QED
    BY <2>3, <2>4
<1> QED
  BY <1>5, <1>10, <1>11, <1>12, <1>13, <1>14, <1>15 DEF Kept

LEMMA InsertChunkKept ==
  ASSUME TypeInv, LockInv, RowsInv, NEW t \in Txns, InsertChunk(t), ~CallEnds(t)
  PROVE  Quiet(t) /\ Kept(t)'
<1>0. /\ pc[t] = "decide" /\ call[t].name = "add_chunks"
      /\ Live(loaded[t]) /\ call[t].profile \in {NoProfile, loaded[t].profile}
      /\ ownChunks' = [ownChunks EXCEPT ![t][call[t].version] = @ \cup {call[t].profile}]
      /\ Goto(t, "reference")
      /\ UNCHANGED <<committed, call, loaded, ownDocs, ownVersions, locks>>
  BY DEF InsertChunk, At, Live
<1> PICK v \in Versions : v = call[t].version
  BY <1>0, Arguments DEF OfDocument
<1>1. Kept(t) /\ TypeOK
  BY DEF RowsInv, TypeInv
<1>2. OthersStay(t) /\ pc'[t] = "reference" /\ call'[t] = call[t]
  BY <1>0, GotoStay
<1>3. /\ ownChunks'[t][v] = ownChunks[t][v] \cup {call[t].profile}
      /\ \A w \in Versions : w # v => ownChunks'[t][w] = ownChunks[t][w]
      /\ \A u \in Txns \ {t} : ownChunks'[u] = ownChunks[u]
  BY <1>0, <1>1 DEF TypeOK
<1>4. /\ SharesStay(t) /\ LocksGrow(t)
      /\ \A r \in Rows : exclusive'[r] = exclusive[r] /\ (t \in share'[r] <=> t \in share[r])
  BY <1>0, LocksStay
<1>5. Quiet(t)
  BY <1>0, <1>2, <1>3, <1>4 DEF Quiet, OwnStay, OthersStay
<1>6. /\ \A w \in Versions : VersionSeen(t, w)' = VersionSeen(t, w)
      /\ \A d \in Docs : DocSeen(t, d)' = DocSeen(t, d)
      /\ versions' = versions
      /\ ownVersions'[t] = ownVersions[t] /\ ownDocs'[t] = ownDocs[t]
  BY <1>0 DEF VersionSeen, DocSeen, committed
<1>7. \A w \in Versions : \A name : ~Pending(t, name, w)
  BY <1>0 DEF Pending
<1>8. DocsHeld(t)' /\ Choosing(t)' /\ ReadEarlier(t)'
  BY <1>1, <1>2, <1>4, <1>6, RowSets DEF Kept, DocsHeld, Choosing, ReadEarlier
<1>9. RowsHeld(t)'
  <2> SUFFICES ASSUME NEW r \in Rows
               PROVE  /\ t \in share'[r] => exclusive'[r] \in {NoTxn, t}
                      /\ t \in share'[r] \/ exclusive'[r] = t => Exists(t, r)' \/ OwnDeleted(t, r)'
    BY DEF RowsHeld
  <2>1. Exists(t, r)' = Exists(t, r) /\ OwnDeleted(t, r)' = OwnDeleted(t, r)
    BY <1>6 DEF Exists, OwnDeleted, Rows
  <2> QED
    BY <1>1, <1>4, <2>1 DEF Kept, RowsHeld
<1>10. RowsWritten(t)'
  BY <1>1, <1>4, <1>6, <1>7, RowSets DEF Kept, RowsWritten, Live
<1>11. DeletionsDone(t)'
  BY <1>0, <1>1, <1>2, <1>6, <1>7, RowSets DEF Kept, DeletionsDone, Cascading, Live
<1>12. ChunksWritten(t)'
  <2> SUFFICES ASSUME NEW w \in Versions
               PROVE  /\ ownChunks'[t][w] # {} => Pending(t, "add_chunks", w)' \/ t \in share'[w]
                      /\ VersionSeen(t, w) # Deleted =>
                           ownChunks'[t][w] \subseteq {NoProfile, VersionSeen(t, w).profile}
    BY <1>6, Zenon DEF ChunksWritten
  <2>1. CASE w # v
    BY <1>1, <1>3, <1>4, <1>7, <2>1, RowSets DEF Kept, ChunksWritten
  <2>2. CASE w = v
    <3>1. Pending(t, "add_chunks", v)'
      BY <1>0, <1>2 DEF Pending
    <3>2. VersionSeen(t, v) # Deleted => loaded[t].profile \in {NoProfile, VersionSeen(t, v).profile}
      BY <1>0, <1>1, RowTypes DEF Kept, ReadEarlier, Follows, Moves
    <3>3. VersionSeen(t, v) # Deleted => ownChunks[t][v] \subseteq {NoProfile, VersionSeen(t, v).profile}
      BY <1>1 DEF Kept, ChunksWritten
    <3> QED
      BY <1>0, <1>3, <2>2, <3>1, <3>2, <3>3
  <2> QED
    BY <2>1, <2>2
<1>13. Activates(t)'
  BY <1>1, <1>4, <1>6, <1>7, RowSets DEF Kept, Activates
<1> QED
  BY <1>5, <1>8, <1>9, <1>10, <1>11, <1>12, <1>13 DEF Kept

LEMMA ReferenceKept ==
  ASSUME TypeInv, LockInv, RowsInv, NEW t \in Txns, ReferenceRow(t), ~Abort(t)
  PROVE  Quiet(t) /\ Kept(t)'
<1>0. /\ pc[t] = "reference" /\ Blockers(t) = {} /\ Exists(t, ReferencedRow(call[t]))
      /\ share' = [share EXCEPT ![ReferencedRow(call[t])] = @ \cup {t}]
      /\ CallEnds(t) /\ UNCHANGED <<committed, own, exclusive>>
  BY DEF ReferenceRow
<1>a. call[t].name \in {"create_version", "add_chunks", "set_active_version"}
  BY <1>0 DEF TypeInv, InCall
<1> PICK v \in Versions : v = call[t].version
  BY <1>0, <1>a, Arguments DEF OfDocument
<1>b. call[t].name = "create_version" => call[t].doc = DocOf[v]
  BY <1>0, Arguments DEF OfDocument
<1> PICK row \in Rows : row = ReferencedRow(call[t])
  BY <1>0, Arguments, RowSets DEF ReferencedRow
<1>1. Kept(t) /\ TypeOK
  BY DEF RowsInv, TypeInv
<1>2. OthersStay(t) /\ pc'[t] = "ready"
  BY <1>0, EndsStay
<1>3. /\ t \in share'[row]
      /\ \A r \in Rows : r # row => share'[r] = share[r]
      /\ \A u \in Txns \ {t} : u \in share'[row] <=> u \in share[row]
  BY <1>0, <1>1 DEF TypeOK
<1>4. Quiet(t)
  BY <1>0, <1>2, <1>3 DEF Quiet, OwnStay, OthersStay, SharesStay, LocksGrow, own
<1>5. exclusive[row] \in {NoTxn, t}
  <2>1. Writers(t, row) = {}
    BY <1>0, BlockersOf
  <2> QED
    BY <2>1 DEF Writers
<1>6. /\ \A w \in Versions : VersionSeen(t, w)' = VersionSeen(t, w)
      /\ \A d \in Docs : DocSeen(t, d)' = DocSeen(t, d)
      /\ versions' = versions /\ exclusive' = exclusive
      /\ ownVersions'[t] = ownVersions[t] /\ ownDocs'[t] = ownDocs[t] /\ ownChunks'[t] = ownChunks[t]
  BY <1>0 DEF VersionSeen, DocSeen, committed, own
<1>7. \A r \in Rows : t \in share[r] => t \in share'[r]
  BY <1>3
<1>8. DocsHeld(t)' /\ Choosing(t)' /\ ReadEarlier(t)'
  BY <1>1, <1>2, <1>6, RowSets DEF Kept, DocsHeld, Choosing, ReadEarlier
<1>9. RowsHeld(t)'
  <2> SUFFICES ASSUME NEW r \in Rows
               PROVE  /\ t \in share'[r] => exclusive[r] \in {NoTxn, t}
                      /\ t \in share'[r] \/ exclusive[r] = t => Exists(t, r)' \/ OwnDeleted(t, r)'
    BY <1>6 DEF RowsHeld
  <2>1. Exists(t, r)' = Exists(t, r) /\ OwnDeleted(t, r)' = OwnDeleted(t, r)
    BY <1>6 DEF Exists, OwnDeleted, Rows
  <2>2. CASE r = row
    BY <1>0, <1>5, <2>1, <2>2
  <2>3. CASE r # row
    BY <1>1, <1>3, <2>1, <2>3 DEF Kept, RowsHeld
  <2> QED
    BY <2>2, <2>3
<1>10. \A w \in Versions : Pending(t, "create_version", w) => w = v /\ row = DocOf[w]
  BY <1>b DEF Pending, ReferencedRow
<1>11. \A w \in Versions : \A name \in {"add_chunks", "set_active_version"} : Pending(t, name, w) => row = w
  BY DEF Pending, ReferencedRow
<1>12. RowsWritten(t)'
  <2> SUFFICES ASSUME NEW w \in Versions, ownVersions[t][w] # Untouched
               PROVE  /\ Live(ownVersions[t][w]) \/ ownVersions[t][w] = Deleted
                      /\ versions[w] # Deleted
                      /\ ownVersions[t][w] = Deleted => ownDocs[t][DocOf[w]] = DeletedDoc
                      /\ Live(ownVersions[t][w]) /\ ~Live(versions[w]) => t \in share'[DocOf[w]]
    BY <1>6, Zenon DEF RowsWritten, Live
  <2> QED
    BY <1>1, <1>3, <1>7, <1>10, RowSets DEF Kept, RowsWritten
<1>13. DeletionsDone(t)'
  <2>1. ASSUME NEW w \in Versions, ownDocs[t][DocOf[w]] = DeletedDoc PROVE ~Live(VersionSeen(t, w))
    <3>1. ~Cascading(t, DocOf[w])
      BY <1>0 DEF Cascading
    <3>2. ~Pending(t, "create_version", w)
      BY <1>0, <1>10, <2>1, RowSets, RowsAssumption DEF Exists, DocSeen
    <3> QED
      BY <1>1, <2>1, <3>1, <3>2 DEF Kept, DeletionsDone
  <2> QED
    BY <1>2, <1>6, <2>1 DEF DeletionsDone, Live
<1>14. ChunksWritten(t)'
  <2> SUFFICES ASSUME NEW w \in Versions
               PROVE  /\ ownChunks[t][w] # {} => t \in share'[w]
                      /\ VersionSeen(t, w) # Deleted =>
                           ownChunks[t][w] \subseteq {NoProfile, VersionSeen(t, w).profile}
    BY <1>6, Zenon DEF ChunksWritten
  <2> QED
    BY <1>1, <1>3, <1>7, <1>11, RowSets DEF Kept, ChunksWritten
<1>15. Activates(t)'
  <2> SUFFICES ASSUME NEW d \in Docs, ownDocs[t][d] \in Versions
               PROVE  /\ DocOf[ownDocs[t][d]] = d
                      /\ WasIndexed(VersionSeen(t, ownDocs[t][d]))
                      /\ t \in share'[ownDocs[t][d]]
    BY <1>6 DEF Activates
  <2> QED
    BY <1>1, <1>3, <1>7, <1>11, RowSets DEF Kept, Activates
<1> QED
  BY <1>4, <1>8, <1>9, <1>12, <1>13, <1>14, <1>15 DEF Kept

LEMMA DeleteDocumentKept ==
  ASSUME TypeInv, LockInv, RowsInv, NEW t \in Txns, DeleteDocument(t), ~CallEnds(t)
  PROVE  Quiet(t) /\ Kept(t)'
<1>0. /\ pc[t] = "lock" /\ call[t].name = "delete_document" /\ Blockers(t) = {}
      /\ Exists(t, call[t].doc)
      /\ ownDocs' = [ownDocs EXCEPT ![t][call[t].doc] = DeletedDoc]
      /\ TakeExclusive(t, call[t].doc) /\ Goto(t, "cascade")
      /\ UNCHANGED <<committed, call, loaded, ownVersions, ownChunks, share>>
  BY DEF DeleteDocument, At
<1> PICK d \in Docs : d = call[t].doc
  BY <1>0, Arguments
<1>1. Kept(t) /\ TypeOK
  BY DEF RowsInv, TypeInv
<1>2. OthersStay(t) /\ pc'[t] = "cascade" /\ call'[t] = call[t]
  BY <1>0, GotoStay
<1>3. /\ ownDocs'[t][d] = DeletedDoc /\ \A e \in Docs : e # d => ownDocs'[t][e] = ownDocs[t][e]
      /\ \A u \in Txns \ {t} : ownDocs'[u] = ownDocs[u]
  BY <1>0, <1>1 DEF TypeOK
<1>4. /\ SharesStay(t) /\ LocksGrow(t) /\ exclusive'[d] = t
      /\ \A x \in Rows : x # d => exclusive'[x] = exclusive[x]
      /\ \A x \in Rows : t \in share'[x] <=> t \in share[x]
  <2>1. Holders(t, d) = {}
    BY <1>0, BlockersOf DEF LockedRow
  <2> QED
    BY <1>0, <2>1, LockTaken, RowSets
<1>5. Quiet(t)
  BY <1>0, <1>2, <1>3, <1>4 DEF Quiet, OwnStay, OthersStay
<1>6. DeletedDoc # NoDoc /\ DeletedDoc \notin Versions
  BY RowsAssumption
<1>7. /\ \A w \in Versions : VersionSeen(t, w)' = VersionSeen(t, w)
      /\ \A e \in Docs : e # d => DocSeen(t, e)' = DocSeen(t, e)
      /\ versions' = versions
      /\ ownVersions'[t] = ownVersions[t] /\ ownChunks'[t] = ownChunks[t]
  BY <1>0, <1>3 DEF VersionSeen, DocSeen, committed
<1>8. \A w \in Versions : \A name : ~Pending(t, name, w)
  BY <1>0 DEF Pending
<1>9. DocsHeld(t)' /\ Choosing(t)' /\ ReadEarlier(t)'
  BY <1>1, <1>2, <1>3, <1>4, <1>6, RowSets DEF Kept, DocsHeld, Choosing, ReadEarlier
<1>10. RowsHeld(t)'
  <2> SUFFICES ASSUME NEW r \in Rows
               PROVE  /\ t \in share'[r] => exclusive'[r] \in {NoTxn, t}
                      /\ t \in share'[r] \/ exclusive'[r] = t => Exists(t, r)' \/ OwnDeleted(t, r)'
    BY DEF RowsHeld
  <2>1. CASE r = d
    BY <1>3, <1>4, <2>1 DEF OwnDeleted
  <2>2. CASE r # d
    <3>1. Exists(t, r)' = Exists(t, r) /\ OwnDeleted(t, r)' = OwnDeleted(t, r)
      BY <1>3, <1>7, <2>2 DEF Exists, OwnDeleted, Rows
    <3> QED
      BY <1>1, <1>4, <2>2, <3>1 DEF Kept, RowsHeld
  <2> QED
    BY <2>1, <2>2
<1>11. RowsWritten(t)'
  BY <1>1, <1>3, <1>4, <1>7, <1>8, RowSets DEF Kept, RowsWritten, Live
<1>12. DeletionsDone(t)'
  BY <1>0, <1>1, <1>2, <1>3, <1>7, <1>8, RowSets DEF Kept, DeletionsDone, Cascading, Live
<1>13. ChunksWritten(t)'
  <2> SUFFICES ASSUME NEW w \in Versions
               PROVE  /\ ownChunks[t][w] # {} => t \in share'[w]
                      /\ VersionSeen(t, w) # Deleted =>
                           ownChunks[t][w] \subseteq {NoProfile, VersionSeen(t, w).profile}
    BY <1>7, Zenon DEF ChunksWritten
  <2> QED
    BY <1>1, <1>4, <1>8, RowSets DEF Kept, ChunksWritten
<1>14. Activates(t)'
  BY <1>1, <1>3, <1>4, <1>6, <1>7, <1>8, RowSets DEF Kept, Activates
<1> QED
  BY <1>5, <1>9, <1>10, <1>11, <1>12, <1>13, <1>14 DEF Kept

LEMMA CascadeKept ==
  ASSUME TypeInv, LockInv, RowsInv, NEW t \in Txns, NEW v \in Versions, CascadeVersion(t, v)
  PROVE  Quiet(t) /\ Kept(t)'
<1>0. /\ pc[t] = "cascade" /\ DocOf[v] = call[t].doc /\ Exists(t, v) /\ Holders(t, v) = {}
      /\ Writes(t, v, Deleted) /\ TakeExclusive(t, v)
      /\ ownChunks' = [ownChunks EXCEPT ![t][v] = {}]
      /\ UNCHANGED <<committed, pc, call, loaded, ownDocs, share>>
  BY DEF CascadeVersion, ToCascade
<1>1. Kept(t) /\ TypeOK
  BY DEF RowsInv, TypeInv
<1>2. VersionWritten(t, v, Deleted) /\ VersionSeen(t, v)' = Deleted
      /\ \A w \in Versions : w # v => VersionSeen(t, w)' = VersionSeen(t, w)
  BY <1>0, WritesOne, RowTypes DEF committed
<1>3. /\ ownChunks'[t][v] = {} /\ \A w \in Versions : w # v => ownChunks'[t][w] = ownChunks[t][w]
      /\ \A u \in Txns \ {t} : ownChunks'[u] = ownChunks[u]
  BY <1>0, <1>1 DEF TypeOK
<1>4. /\ SharesStay(t) /\ LocksGrow(t) /\ exclusive'[v] = t
      /\ \A x \in Rows : x # v => exclusive'[x] = exclusive[x]
      /\ \A x \in Rows : t \in share'[x] <=> t \in share[x]
  BY <1>0, LockTaken, RowSets
<1>5. Quiet(t)
  BY <1>0, <1>2, <1>3, <1>4 DEF Quiet, OwnStay, VersionWritten
<1>6. /\ \A d \in Docs : DocSeen(t, d)' = DocSeen(t, d)
      /\ versions' = versions /\ ownDocs'[t] = ownDocs[t]
  BY <1>0 DEF DocSeen, committed
<1>7. \A w \in Versions : \A name : ~Pending(t, name, w)
  BY <1>0 DEF Pending
<1>8. DocsHeld(t)' /\ Choosing(t)' /\ ReadEarlier(t)'
  BY <1>0, <1>1, <1>4, <1>6, RowSets DEF Kept, DocsHeld, Choosing, ReadEarlier
<1>9. RowsHeld(t)'
  <2> SUFFICES ASSUME NEW r \in Rows
               PROVE  /\ t \in share'[r] => exclusive'[r] \in {NoTxn, t}
                      /\ t \in share'[r] \/ exclusive'[r] = t => Exists(t, r)' \/ OwnDeleted(t, r)'
    BY DEF RowsHeld
  <2>1. CASE r = v
    BY <1>2, <1>4, <2>1, RowSets DEF OwnDeleted, VersionWritten
  <2>2. CASE r # v
    <3>1. Exists(t, r)' = Exists(t, r) /\ OwnDeleted(t, r)' = OwnDeleted(t, r)
      BY <1>2, <1>6, <2>2 DEF Exists, OwnDeleted, Rows, VersionWritten
    <3> QED
      BY <1>1, <1>4, <2>2, <3>1 DEF Kept, RowsHeld
  <2> QED
    BY <2>1, <2>2
<1>10. RowsWritten(t)'
  <2>1. versions[v] # Deleted
    <3>1. CASE ownVersions[t][v] = Untouched
      BY <1>0, <3>1, RowSets, RowTypes DEF Exists, VersionSeen, Statuses
    <3>2. CASE ownVersions[t][v] # Untouched
      BY <1>1, <3>2 DEF Kept, RowsWritten
    <3> QED
      BY <3>1, <3>2
  <2>2. ownDocs[t][DocOf[v]] = DeletedDoc /\ ~Live(Deleted)
    BY <1>0, <1>1, RowTypes DEF Kept, DeletionsDone, Live, Statuses
  <2>3. \A w \in Versions : DocOf[w] \in Rows
    BY RowSets
  <2> QED
    BY <1>1, <1>2, <1>4, <1>6, <1>7, <2>1, <2>2, <2>3 DEF Kept, RowsWritten, Live, VersionWritten
<1>11. DeletionsDone(t)'
  <2>1. ~Live(Deleted)
    BY RowTypes DEF Live, Statuses
  <2> QED
    BY <1>0, <1>1, <1>2, <1>6, <1>7, <2>1, RowSets DEF Kept, DeletionsDone, Cascading, Live
<1>12. ChunksWritten(t)'
  <2> SUFFICES ASSUME NEW w \in Versions
               PROVE  /\ ownChunks'[t][w] # {} => t \in share'[w]
                      /\ VersionSeen(t, w)' # Deleted =>
                           ownChunks'[t][w] \subseteq {NoProfile, VersionSeen(t, w)'.profile}
    BY Zenon DEF ChunksWritten
  <2> QED
    BY <1>1, <1>2, <1>3, <1>4, <1>7, RowSets DEF Kept, ChunksWritten
<1>13. Activates(t)'
  <2>1. WasIndexed(Deleted)
    BY DEF WasIndexed
  <2> QED
    BY <1>1, <1>2, <1>4, <1>6, <1>7, <2>1, RowSets DEF Kept, Activates
<1> QED
  BY <1>5, <1>8, <1>9, <1>10, <1>11, <1>12, <1>13 DEF Kept

LEMMA StatementKept ==
  ASSUME TypeInv, LockInv, RowsInv, NEW t \in Txns, Statement(t), ~Abort(t)
  PROVE  Quiet(t) /\ Kept(t)'
<1>1. CASE InsertDocument(t)
  BY <1>1, InsertDocumentKept
<1>2. CASE InsertVersion(t)
  BY <1>2, InsertVersionKept
<1>3. CASE LockVersion(t) \/ LockDocument(t) \/ ReadVersion(t) \/ ReadDocument(t) \/ CascadeDone(t)
  BY <1>3, ReadKept
<1>4. CASE Transition(t) \/ RecordProfile(t)
  BY <1>4, TransitionKept
<1>5. CASE SetActive(t)
  BY <1>5, ReadKept, SetActiveKept
<1>6. CASE InsertChunk(t)
  BY <1>6, ReadKept, InsertChunkKept
<1>7. CASE ReferenceRow(t)
  BY <1>7, ReferenceKept
<1>8. CASE DeleteDocument(t)
  BY <1>8, ReadKept, DeleteDocumentKept
<1>9. ASSUME NEW v \in Versions, CascadeVersion(t, v) PROVE Quiet(t) /\ Kept(t)'
  BY <1>9, CascadeKept
<1> QED
  BY <1>1, <1>2, <1>3, <1>4, <1>5, <1>6, <1>7, <1>8, <1>9 DEF Statement

-----------------------------------------------------------------------------
(* The end of a transaction: what it publishes moves the rows of others only   *)
(* forward, and takes away none that they hold.                                *)

\* What t commits or discards.
Ends(t) ==
  /\ Discard(t)
  /\ UNCHANGED committed \/ pc[t] = "ready"
  /\ \A v \in Versions : versions'[v] \in {versions[v], VersionSeen(t, v)}
  /\ \A d \in Docs : docs'[d] \in {docs[d], DocSeen(t, d)}

LEMMA EndsShape ==
  ASSUME TypeInv, LockInv, RowsInv, NEW t \in Txns, Ends(t)
  PROVE  /\ \A v \in Versions : ownVersions'[t][v] = Untouched /\ ownChunks'[t][v] = {}
         /\ \A d \in Docs : ownDocs'[t][d] = Untouched
         /\ OwnStay(t) /\ pc'[t] = "ready"
         /\ \A r \in Rows : exclusive'[r] # t /\ (exclusive[r] # t => exclusive'[r] = exclusive[r])
         /\ \A r \in Rows : t \notin share'[r]
         /\ \A r \in Rows, u \in Txns \ {t} :
              (u \in share'[r] <=> u \in share[r]) /\ (exclusive'[r] = u <=> exclusive[r] = u)
         /\ \A v \in Versions : exclusive[v] # t => versions'[v] = versions[v]
         /\ \A d \in Docs : exclusive[d] # t => docs'[d] = docs[d]
<1>1. OthersStay(t) /\ pc'[t] = "ready"
  BY EndsStay DEF Ends, Discard
<1>2. /\ \A v \in Versions : ownVersions'[t][v] = Untouched /\ ownChunks'[t][v] = {}
      /\ \A d \in Docs : ownDocs'[t][d] = Untouched
      /\ \A u \in Txns \ {t} : ownDocs'[u] = ownDocs[u] /\ ownVersions'[u] = ownVersions[u] /\ ownChunks'[u] = ownChunks[u]
  BY DEF Ends, Discard, TypeInv, TypeOK, Nothing
<1>3. /\ \A r \in Rows : exclusive'[r] = IF exclusive[r] = t THEN NoTxn ELSE exclusive[r]
      /\ \A r \in Rows : share'[r] = share[r] \ {t}
  BY DEF Ends, Discard
<1>4. /\ \A v \in Versions : exclusive[v] # t => versions'[v] = versions[v]
      /\ \A d \in Docs : exclusive[d] # t => docs'[d] = docs[d]
  BY DEF Ends, LockInv, Guarded, VersionSeen, RowsInv, Kept, DocsHeld, DocSeen
<1> QED
  BY <1>1, <1>2, <1>3, <1>4, RowsAssumption DEF OwnStay, OthersStay

LEMMA EndsKept ==
  ASSUME TypeInv, LockInv, RowsInv, NEW t \in Txns, Ends(t)
  PROVE  Kept(t)'
<1>1. RowsHeld(t)'
  BY EndsShape DEF RowsHeld
<1>2. DocsHeld(t)' /\ Choosing(t)' /\ ReadEarlier(t)'
  BY EndsShape DEF DocsHeld, Choosing, ReadEarlier
<1>3. RowsWritten(t)'
  BY EndsShape DEF RowsWritten
<1>4. DeletionsDone(t)'
  <2>1. pc'[t] # "cascade"
    BY EndsShape
  <2>2. ASSUME NEW v \in Versions PROVE ownDocs'[t][DocOf[v]] = Untouched
    BY EndsShape, RowSets
  <2>3. Untouched # DeletedDoc
    BY RowsAssumption
  <2> QED
    BY <2>1, <2>2, <2>3 DEF DeletionsDone
<1>5. ChunksWritten(t)'
  BY EndsShape DEF ChunksWritten
<1>6. Activates(t)'
  BY EndsShape, RowsAssumption DEF Activates
<1> QED
  BY <1>1, <1>2, <1>3, <1>4, <1>5, <1>6 DEF Kept

\* What another transaction sees of a row.
LEMMA SeenMoves ==
  ASSUME TypeInv, LockInv, MoveInv, RowsInv, NEW t \in Txns, Ends(t), NEW u \in Txns \ {t}, NEW v \in Versions
  PROVE  /\ Live(VersionSeen(u, v)) => Follows(VersionSeen(u, v), VersionSeen(u, v)')
         /\ VersionSeen(u, v) = Deleted => VersionSeen(u, v)' = Deleted
         /\ Live(VersionSeen(u, v)) \/ VersionSeen(u, v) \in {Absent, Deleted}
<1>1. ownVersions'[u] = ownVersions[u]
  BY EndsShape DEF OwnStay
<1>2. VersionSeen(u, v) \in VersionRow
  BY SeenTypes DEF TypeInv
<1>3. CASE VersionSeen(u, v)' = VersionSeen(u, v)
  BY <1>1, <1>2, <1>3, FollowsItself DEF RowsInv, Kept, RowsWritten, RowShapes, VersionSeen
<1>4. CASE VersionSeen(u, v)' # VersionSeen(u, v)
  <2>1. /\ ownVersions[u][v] = Untouched /\ VersionSeen(u, v) = versions[v]
        /\ VersionSeen(u, v)' = versions'[v] /\ versions'[v] = ownVersions[t][v] /\ ownVersions[t][v] # Untouched
    BY <1>1, <1>4 DEF Ends, VersionSeen
  <2>2. Live(versions[v]) => Follows(versions[v], ownVersions[t][v])
    BY <2>1 DEF MoveInv, Follows, Live, RowsInv, Kept, RowsWritten
  <2>3. versions[v] # Deleted
    BY <2>1 DEF RowsInv, Kept, RowsWritten
  <2> QED
    BY <2>1, <2>2, <2>3 DEF RowsInv, RowShapes
<1> QED
  BY <1>3, <1>4

LEMMA EndsKeptOthers ==
  ASSUME TypeInv, LockInv, MoveInv, RowsInv, NEW t \in Txns, Ends(t), NEW u \in Txns \ {t}
  PROVE  Kept(u)'
<1>1. /\ pc'[u] = pc[u] /\ call'[u] = call[u] /\ loaded'[u] = loaded[u]
      /\ ownDocs'[u] = ownDocs[u] /\ ownVersions'[u] = ownVersions[u] /\ ownChunks'[u] = ownChunks[u]
  BY EndsShape DEF OwnStay
<1>2. \A r \in Rows : (u \in share'[r] <=> u \in share[r]) /\ (exclusive'[r] = u <=> exclusive[r] = u)
  BY EndsShape
<1>3. Kept(u) /\ Kept(t) /\ TypeOK
  BY DEF RowsInv, TypeInv
<1>4. /\ \A v \in Versions : exclusive[v] # t => versions'[v] = versions[v] /\ VersionSeen(u, v)' = VersionSeen(u, v)
      /\ \A d \in Docs : exclusive[d] # t => docs'[d] = docs[d] /\ DocSeen(u, d)' = DocSeen(u, d)
  BY <1>1, EndsShape DEF VersionSeen, DocSeen
<1>5. pc[u] # "ready" =>
        call[u].doc \in Docs /\ call[u].doc \in Rows /\ (call[u].name \notin OfDocument => call[u].version \in Versions)
  BY Arguments
<1>6. \A v \in Versions : \A name : Pending(u, name, v)' <=> Pending(u, name, v)
  BY <1>1 DEF Pending
<1>7. DocsHeld(u)' /\ Choosing(u)'
  <2>1. DocsHeld(u)'
    BY <1>1, <1>2, <1>3, RowSets DEF Kept, DocsHeld
  <2>2. Choosing(u)'
    BY <1>1, <1>2, <1>3, <1>4, <1>5 DEF Kept, Choosing, LiveDoc
  <2> QED
    BY <2>1, <2>2
<1>8. RowsHeld(u)'
  <2> SUFFICES ASSUME NEW r \in Rows
               PROVE  /\ u \in share'[r] => exclusive'[r] \in {NoTxn, u}
                      /\ u \in share'[r] \/ exclusive'[r] = u => Exists(u, r)' \/ OwnDeleted(u, r)'
    BY DEF RowsHeld
  <2>1. exclusive[r] # t => Exists(u, r)' = Exists(u, r)
    BY <1>4 DEF Exists, Rows
  <2>2. OwnDeleted(u, r)' = OwnDeleted(u, r)
    BY <1>1 DEF OwnDeleted
  <2>3. u \in share[r] \/ exclusive[r] = u => exclusive[r] \in {NoTxn, u} /\ exclusive[r] # t
    BY <1>3, RowsAssumption DEF Kept, RowsHeld
  <2>4. exclusive[r] \in {NoTxn, u} => exclusive'[r] = exclusive[r]
    BY EndsShape, RowsAssumption
  <2> QED
    BY <1>2, <1>3, <2>1, <2>2, <2>3, <2>4 DEF Kept, RowsHeld
<1>9. RowsWritten(u)'
  <2>1. \A v \in Versions : ownVersions[u][v] # Untouched => exclusive[v] # t
    BY DEF LockInv, Guarded
  <2> SUFFICES ASSUME NEW v \in Versions, ownVersions[u][v] # Untouched
               PROVE  /\ Live(ownVersions[u][v]) \/ ownVersions[u][v] = Deleted
                      /\ versions'[v] # Deleted
                      /\ ownVersions[u][v] = Deleted => ownDocs[u][DocOf[v]] = DeletedDoc
                      /\ Live(ownVersions[u][v]) /\ ~Live(versions'[v]) =>
                           Pending(u, "create_version", v) \/ u \in share'[DocOf[v]]
    BY <1>1, <1>6 DEF RowsWritten, Live
  <2> QED
    BY <1>2, <1>3, <1>4, <2>1, RowSets DEF Kept, RowsWritten
<1>10. DeletionsDone(u)'
  <2>1. ASSUME NEW v \in Versions, ownDocs[u][DocOf[v]] = DeletedDoc, ~Live(VersionSeen(u, v))
        PROVE  ~Live(VersionSeen(u, v)')
    <3> SUFFICES ASSUME Live(VersionSeen(u, v)') PROVE FALSE
      OBVIOUS
    <3>1. VersionSeen(u, v)' # VersionSeen(u, v)
      BY <2>1
    <3>2. /\ ownVersions[u][v] = Untouched /\ VersionSeen(u, v) = versions[v]
          /\ VersionSeen(u, v)' = ownVersions[t][v] /\ ownVersions[t][v] # Untouched
          /\ ~UNCHANGED committed
      BY <1>1, <3>1 DEF Ends, VersionSeen, committed
    <3>3. pc[t] = "ready"
      BY <3>2 DEF Ends
    <3>4. t \in share[DocOf[v]]
      BY <1>3, <2>1, <3>2, <3>3 DEF Kept, RowsWritten, Pending
    <3>5. exclusive[DocOf[v]] \in {NoTxn, t} /\ exclusive[DocOf[v]] = u
      BY <1>3, <2>1, <3>4, RowSets, RowsAssumption DEF Kept, RowsHeld, DocsHeld
    <3> QED
      BY <3>5, RowsAssumption
  <2>2. \A v \in Versions : Cascading(u, DocOf[v])' <=> Cascading(u, DocOf[v])
    BY <1>1 DEF Cascading
  <2>3. pc'[u] = "cascade" => ownDocs'[u][call'[u].doc] = DeletedDoc
    BY <1>1, <1>3 DEF Kept, DeletionsDone
  <2> SUFFICES ASSUME NEW v \in Versions, ownDocs[u][DocOf[v]] = DeletedDoc
               PROVE  ~Live(VersionSeen(u, v)') \/ Cascading(u, DocOf[v]) \/ Pending(u, "create_version", v)
    BY <1>1, <1>6, <2>2, <2>3 DEF DeletionsDone, Live
  <2> QED
    BY <1>3, <2>1 DEF Kept, DeletionsDone
<1>11. ReadEarlier(u)'
  <2> SUFFICES ASSUME pc[u] = "decide", call[u].name \in {"add_chunks", "set_active_version"}, Live(loaded[u])
               PROVE  Follows(loaded[u], VersionSeen(u, call[u].version)')
    BY <1>1 DEF ReadEarlier, Follows, Live
  <2> PICK v \in Versions : v = call[u].version
    BY <1>5 DEF OfDocument
  <2>1. Follows(loaded[u], VersionSeen(u, v))
    BY <1>3 DEF Kept, ReadEarlier
  <2>2. VersionSeen(u, v)' \in VersionRow \cup {Deleted} /\ VersionSeen(u, v) \in VersionRow /\ loaded[u] \in VersionRow
    <3>1. \A w \in Versions : VersionSeen(t, w) \in VersionRow /\ VersionSeen(u, w) \in VersionRow
      BY <1>3, SeenTypes
    <3>2. versions'[v] \in VersionRow
      BY <1>3, <3>1 DEF Ends, TypeOK
    <3> QED
      BY <1>1, <1>3, <3>1, <3>2 DEF VersionSeen, TypeOK
  <2> DEFINE y == VersionSeen(u, v)
  <2> DEFINE z == VersionSeen(u, v)'
  <2>3. Live(y) => Follows(y, z)
    BY SeenMoves
  <2>4. y = Deleted => z = Deleted
    BY SeenMoves
  <2>5. y # Deleted => Live(y)
    BY <2>1 DEF Follows
  <2>6. y \in VersionRow /\ z \in VersionRow
    BY <2>2, RowTypes
  <2>7. Follows(loaded[u], z)
    <3> HIDE DEF y, z
    <3>1. CASE y = Deleted
      BY <2>4, <3>1 DEF Follows
    <3>2. CASE y # Deleted
      BY <2>1, <2>2, <2>3, <2>5, <2>6, <3>2, FollowsMoves DEF y
    <3> QED
      BY <3>1, <3>2
  <2>8. VersionSeen(u, call[u].version)' = z
    BY <1>1 DEF VersionSeen
  <2> QED
    BY <2>7, <2>8
<1>12. ChunksWritten(u)'
  <2> SUFFICES ASSUME NEW v \in Versions
               PROVE  /\ ownChunks[u][v] # {} => Pending(u, "add_chunks", v) \/ u \in share'[v]
                      /\ VersionSeen(u, v)' # Deleted =>
                           ownChunks[u][v] \subseteq {NoProfile, VersionSeen(u, v)'.profile}
    BY <1>1, <1>6 DEF ChunksWritten
  <2>1. ownChunks[u][v] # {} => Pending(u, "add_chunks", v) \/ u \in share'[v]
    BY <1>2, <1>3, RowSets DEF Kept, ChunksWritten
  <2>2. ASSUME VersionSeen(u, v)' # Deleted
        PROVE  ownChunks[u][v] \subseteq {NoProfile, VersionSeen(u, v)'.profile}
    <3>1. VersionSeen(u, v) # Deleted
      BY <2>2, SeenMoves
    <3>2. ownChunks[u][v] \subseteq {NoProfile, VersionSeen(u, v).profile}
      BY <1>3, <3>1 DEF Kept, ChunksWritten
    <3>3. VersionSeen(u, v).profile \in {NoProfile, VersionSeen(u, v)'.profile}
      <4>1. CASE Live(VersionSeen(u, v))
        BY <2>2, <4>1, SeenMoves DEF Follows, Moves
      <4>2. CASE VersionSeen(u, v) = Absent
        BY <4>2 DEF Absent
      <4> QED
        BY <3>1, <4>1, <4>2, SeenMoves
    <3> QED
      BY <3>2, <3>3
  <2> QED
    BY <2>1, <2>2
<1>13. Activates(u)'
  <2> SUFFICES ASSUME NEW d \in Docs, NEW x \in Versions, ownDocs[u][d] = x
               PROVE  /\ DocOf[x] = d
                      /\ WasIndexed(VersionSeen(u, x)')
                      /\ Pending(u, "set_active_version", x) \/ u \in share'[x]
    BY <1>1, <1>6 DEF Activates, WasIndexed
  <2>1. /\ DocOf[x] = d /\ WasIndexed(VersionSeen(u, x))
        /\ Pending(u, "set_active_version", x) \/ u \in share[x]
    BY <1>3 DEF Kept, Activates
  <2>2. WasIndexed(VersionSeen(u, x)')
    <3>1. CASE VersionSeen(u, x) = Deleted
      BY <3>1, SeenMoves DEF WasIndexed
    <3>2. CASE VersionSeen(u, x) # Deleted
      <4>1. Live(VersionSeen(u, x))
        BY <2>1, <3>2 DEF WasIndexed, Live, Statuses
      <4>2. Follows(VersionSeen(u, x), VersionSeen(u, x)')
        BY <4>1, SeenMoves
      <4>3. VersionSeen(u, x)' \in VersionRow /\ VersionSeen(u, x) \in VersionRow
        BY <1>1, <1>3, SeenTypes DEF Ends, TypeOK, VersionSeen
      <4> QED
        BY <2>1, <3>2, <4>2, <4>3, StaysIndexed
    <3> QED
      BY <3>1, <3>2
  <2> QED
    BY <1>2, <2>1, <2>2, RowSets
<1> QED
  BY <1>7, <1>8, <1>9, <1>10, <1>11, <1>12, <1>13 DEF Kept

-----------------------------------------------------------------------------
(* A commit publishes rows that refer to each other.                           *)

LEMMA CommitEnds ==
  ASSUME TypeInv, NEW t \in Txns, Commit(t)
  PROVE  Ends(t)
  BY DEF Commit, Ends

LEMMA AbortEnds ==
  ASSUME TypeInv, NEW t \in Txns, Abort(t)
  PROVE  Ends(t)
  BY DEF Abort, Ends, committed

\* What t publishes: its own rows where it wrote any, and nothing it has still to do.
LEMMA CommitRows ==
  ASSUME TypeInv, LockInv, MoveInv, RowsInv, NEW t \in Txns, Commit(t)
  PROVE  RowShapes' /\ NoOrphans' /\ EmbeddedChunksMatchProfile' /\ ActiveVersionWasIndexed'
<1>1. /\ \A v \in Versions : versions'[v] = VersionSeen(t, v)
      /\ \A d \in Docs : docs'[d] = DocSeen(t, d)
      /\ \A v \in Versions :
           chunks'[v] = IF ownVersions[t][v] = Deleted THEN {} ELSE chunks[v] \cup ownChunks[t][v]
  BY DEF Commit
<1>2. Kept(t) /\ \A v \in Versions : \A name : ~Pending(t, name, v)
  BY DEF RowsInv, Commit, Pending
<1>3. \A v \in Versions : ownDocs[t][DocOf[v]] = DeletedDoc => ~Live(VersionSeen(t, v))
  BY <1>2 DEF Kept, DeletionsDone, Cascading, Commit
<1>4. \A v \in Versions : ownVersions[t][v] # Untouched =>
        /\ Live(ownVersions[t][v]) \/ ownVersions[t][v] = Deleted
        /\ ownVersions[t][v] = Deleted => ownDocs[t][DocOf[v]] = DeletedDoc
        /\ Live(ownVersions[t][v]) /\ ~Live(versions[v]) => t \in share[DocOf[v]]
        /\ Live(versions[v]) => Moves(versions[v], ownVersions[t][v])
  BY <1>2 DEF Kept, RowsWritten, MoveInv, Live
<1>5. ~Live(Deleted) /\ ~Live(Absent)
  BY DEF Live, Deleted, Absent, Statuses
<1>6. Untouched # Deleted
  BY RowTypes, UntouchedAssumption
<1>7. RowShapes'
  <2>1. \A v \in Versions : Live(VersionSeen(t, v)) \/ VersionSeen(t, v) \in {Absent, Deleted}
    BY <1>4 DEF VersionSeen, RowsInv, RowShapes
  <2> QED
    BY <1>1, <2>1 DEF RowShapes, Live
<1>8. ASSUME NEW v \in Versions, t \in share[v] PROVE Live(VersionSeen(t, v)) \/ ownVersions[t][v] = Deleted
  BY <1>2, <1>8, RowSets DEF Kept, RowsHeld, Exists, OwnDeleted, Live
<1>9. NoOrphans'
  <2>1. ASSUME NEW v \in Versions, Live(VersionSeen(t, v)) PROVE LiveDoc(DocSeen(t, DocOf[v]))
    <3>1. DocOf[v] \in Docs
      BY RowSets
    <3>2. ownDocs[t][DocOf[v]] # DeletedDoc
      BY <1>3, <2>1
    <3>3. ownDocs[t][DocOf[v]] # Untouched => ownDocs[t][DocOf[v]] # NoDoc
      BY <1>2, <3>1 DEF Kept, DocsHeld
    <3>4. CASE Live(versions[v])
      <4>1. LiveDoc(docs[DocOf[v]])
        BY <3>4 DEF RowsInv, NoOrphans, Live, LiveDoc
      <4> QED
        BY <3>2, <3>3, <4>1 DEF DocSeen, LiveDoc
    <3>5. CASE ~Live(versions[v])
      <4>1. t \in share[DocOf[v]]
        BY <1>4, <2>1, <3>5 DEF VersionSeen
      <4> QED
        BY <1>2, <3>1, <3>2, <4>1, RowSets DEF Kept, RowsHeld, Exists, OwnDeleted, LiveDoc
    <3> QED
      BY <3>4, <3>5
  <2>2. ASSUME NEW v \in Versions, ownVersions[t][v] # Deleted, chunks[v] \cup ownChunks[t][v] # {}
        PROVE  Live(VersionSeen(t, v))
    <3>1. CASE chunks[v] # {}
      <4>1. Live(versions[v])
        BY <3>1 DEF RowsInv, NoOrphans, Live
      <4> QED
        BY <1>4, <2>2, <4>1 DEF VersionSeen
    <3>2. CASE ownChunks[t][v] # {}
      <4>1. t \in share[v]
        BY <1>2, <3>2 DEF Kept, ChunksWritten
      <4> QED
        BY <1>8, <2>2, <4>1
    <3> QED
      BY <2>2, <3>1, <3>2
  <2>3. \A v \in Versions : docs'[DocOf[v]] = DocSeen(t, DocOf[v])
    BY <1>1, RowSets
  <2>4. \A v \in Versions : Live(versions'[v]) => LiveDoc(docs'[DocOf[v]])
    BY <1>1, <2>1, <2>3
  <2>5. \A v \in Versions : chunks'[v] # {} => Live(versions'[v])
    BY <1>1, <2>2
  <2> QED
    BY <2>4, <2>5 DEF NoOrphans, Live, LiveDoc
<1>10. EmbeddedChunksMatchProfile'
  <2>1. ASSUME NEW v \in Versions, ownVersions[t][v] # Deleted
        PROVE  chunks[v] \cup ownChunks[t][v] \subseteq {NoProfile, VersionSeen(t, v).profile}
    <3>1. chunks[v] \subseteq {NoProfile, VersionSeen(t, v).profile}
      <4>1. chunks[v] \subseteq {NoProfile, versions[v].profile}
        BY DEF RowsInv, EmbeddedChunksMatchProfile
      <4>2. chunks[v] # {} => Live(versions[v])
        BY DEF RowsInv, NoOrphans, Live
      <4>3. CASE ownVersions[t][v] = Untouched
        BY <4>1, <4>3 DEF VersionSeen
      <4>4. CASE ownVersions[t][v] # Untouched /\ chunks[v] # {}
        <5>1. versions[v].profile \in {NoProfile, ownVersions[t][v].profile}
          BY <1>4, <2>1, <4>2, <4>4 DEF Moves
        <5> QED
          BY <4>1, <4>4, <5>1 DEF VersionSeen
      <4> QED
        BY <4>3, <4>4
    <3>2. ownChunks[t][v] \subseteq {NoProfile, VersionSeen(t, v).profile}
      <4>1. CASE VersionSeen(t, v) = Deleted
        <5>1. t \notin share[v]
          BY <1>5, <1>8, <2>1, <4>1
        <5> QED
          BY <1>2, <5>1 DEF Kept, ChunksWritten
      <4>2. CASE VersionSeen(t, v) # Deleted
        BY <1>2, <4>2 DEF Kept, ChunksWritten
      <4> QED
        BY <4>1, <4>2
    <3> QED
      BY <3>1, <3>2
  <2>2. \A v \in Versions : chunks'[v] \subseteq {NoProfile, versions'[v].profile}
    BY <1>1, <2>1
  <2> QED
    BY <2>2 DEF EmbeddedChunksMatchProfile
<1>11. ActiveVersionWasIndexed'
  <2>1. ASSUME NEW d \in Docs, DocSeen(t, d) \in Versions
        PROVE  DocOf[DocSeen(t, d)] = d /\ VersionSeen(t, DocSeen(t, d)).status \in {"indexed", "superseded"}
    <3> PICK x \in Versions : x = DocSeen(t, d)
      BY <2>1
    <3> SUFFICES DocOf[x] = d /\ WasIndexed(VersionSeen(t, x)) /\ VersionSeen(t, x) # Deleted
      BY DEF WasIndexed
    <3>1. ownDocs[t][d] # DeletedDoc
      BY RowsAssumption DEF DocSeen
    <3>2. DocOf[x] = d => ownVersions[t][x] # Deleted
      BY <1>4, <1>6, <3>1
    <3>3. VersionSeen(t, x) \in VersionRow /\ versions[x] \in VersionRow
      BY SeenTypes DEF TypeInv, TypeOK
    <3>4. CASE ownDocs[t][d] = Untouched
      <4>1. x = docs[d]
        BY <3>4 DEF DocSeen
      <4>2. DocOf[x] = d /\ versions[x].status \in {"indexed", "superseded"}
        BY <4>1 DEF RowsInv, ActiveVersionWasIndexed
      <4>3. versions[x] # Deleted /\ Live(versions[x]) /\ WasIndexed(versions[x])
        BY <1>5, <4>2 DEF Live, Statuses, WasIndexed
      <4>4. CASE ownVersions[t][x] = Untouched
        BY <4>2, <4>3, <4>4 DEF VersionSeen
      <4>5. CASE ownVersions[t][x] # Untouched
        <5>1. VersionSeen(t, x) = ownVersions[t][x] /\ VersionSeen(t, x) # Deleted
          BY <3>2, <4>2, <4>5 DEF VersionSeen
        <5>2. Follows(versions[x], VersionSeen(t, x))
          BY <1>4, <4>3, <4>5, <5>1 DEF Follows
        <5> QED
          BY <3>3, <4>2, <4>3, <5>1, <5>2, StaysIndexed
      <4> QED
        BY <4>4, <4>5
    <3>5. CASE ownDocs[t][d] # Untouched
      <4>1. ownDocs[t][d] = x
        BY <3>5 DEF DocSeen
      <4>2. DocOf[x] = d /\ WasIndexed(VersionSeen(t, x)) /\ t \in share[x]
        BY <1>2, <4>1 DEF Kept, Activates
      <4>3. VersionSeen(t, x) # Deleted
        BY <1>5, <1>8, <3>2, <4>2
      <4> QED
        BY <4>2, <4>3
    <3> QED
      BY <3>4, <3>5
  <2>2. ASSUME NEW d \in Docs, docs'[d] \in Versions
        PROVE  DocOf[docs'[d]] = d /\ versions'[docs'[d]].status \in {"indexed", "superseded"}
    <3>1. docs'[d] = DocSeen(t, d) /\ versions'[docs'[d]] = VersionSeen(t, docs'[d])
      BY <1>1, <2>2
    <3> QED
      BY <2>1, <2>2, <3>1
  <2> QED
    BY <2>2 DEF ActiveVersionWasIndexed
<1> QED
  BY <1>7, <1>9, <1>10, <1>11

-----------------------------------------------------------------------------
(* Every step of every transaction *)

LEMMA IssueKept ==
  ASSUME TypeInv, RowsInv, NEW t \in Txns, NEW c \in Calls, Issue(t, c)
  PROVE  Quiet(t) /\ Kept(t)'
<1>1. /\ pc[t] = "ready" /\ UNCHANGED <<committed, loaded, own, locks>>
      /\ pc' = [pc EXCEPT ![t] = FirstStatement(c.name)] /\ call' = [call EXCEPT ![t] = c]
  BY DEF Issue, Goto
<1>2. pc'[t] = FirstStatement(c.name) /\ call'[t] = c
  BY <1>1 DEF TypeInv, TypeOK
<1>3. /\ FirstStatement(c.name) \in {"insert", "read", "lock"}
      /\ FirstStatement(c.name) = "read" => c.name \in {"add_chunks", "delete_document"}
  BY CallFields DEF FirstStatement, Methods
<1>4. Quiet(t) /\ SameWritten(t) /\ UNCHANGED exclusive
  BY <1>1 DEF Quiet, OwnStay, SharesStay, LocksGrow, SameWritten, own, locks, TypeInv, TypeOK
<1>5. Choosing(t)' /\ ReadEarlier(t)'
  BY <1>2, <1>3 DEF Choosing, ReadEarlier
<1> QED
  BY <1>1, <1>2, <1>3, <1>4, <1>5, PlainKept DEF RowsInv

LEMMA RowsInit == Init => RowsInv
<1> SUFFICES ASSUME Init PROVE RowsInv
  OBVIOUS
<1>1. \A v \in Versions : versions[v] = Absent /\ chunks[v] = {} /\ docs[DocOf[v]] = NoDoc
  BY RowSets DEF Init, Nothing
<1>2. ~Live(Absent)
  BY DEF Live, Absent, Statuses
<1>3. RowShapes /\ NoOrphans /\ EmbeddedChunksMatchProfile
  BY <1>1, <1>2 DEF RowShapes, NoOrphans, EmbeddedChunksMatchProfile, Live
<1>4. ActiveVersionWasIndexed
  BY RowsAssumption DEF Init, ActiveVersionWasIndexed
<1>5. ASSUME NEW t \in Txns PROVE Kept(t)
  <2>1. /\ pc[t] = "ready"
        /\ \A d \in Docs : ownDocs[t][d] = Untouched
        /\ \A v \in Versions : ownVersions[t][v] = Untouched /\ ownChunks[t][v] = {}
        /\ \A r \in Rows : exclusive[r] = NoTxn /\ share[r] = {}
    BY DEF Init, Nothing
  <2>2. DocsHeld(t) /\ Choosing(t) /\ RowsHeld(t)
    BY <2>1, RowsAssumption DEF DocsHeld, Choosing, RowsHeld
  <2>3. RowsWritten(t) /\ ReadEarlier(t) /\ ChunksWritten(t)
    BY <2>1 DEF RowsWritten, ReadEarlier, ChunksWritten
  <2>4. DeletionsDone(t)
    <3>1. \A v \in Versions : ownDocs[t][DocOf[v]] = Untouched /\ Untouched # DeletedDoc
      BY <2>1, RowSets, RowsAssumption
    <3> QED
      BY <2>1, <3>1 DEF DeletionsDone
  <2>5. Activates(t)
    BY <2>1, RowsAssumption DEF Activates
  <2> QED
    BY <2>2, <2>3, <2>4, <2>5 DEF Kept
<1> QED
  BY <1>3, <1>4, <1>5 DEF RowsInv

LEMMA QuietRows ==
  ASSUME TypeInv, RowsInv, NEW t \in Txns, Quiet(t), Kept(t)'
  PROVE  RowsInv'
<1>1. ASSUME NEW u \in Txns PROVE Kept(u)'
  BY <1>1, OthersKept DEF RowsInv
<1>2. RowShapes' /\ NoOrphans' /\ EmbeddedChunksMatchProfile' /\ ActiveVersionWasIndexed'
  BY DEF Quiet, committed, RowsInv, RowShapes, NoOrphans, EmbeddedChunksMatchProfile, ActiveVersionWasIndexed, Live
<1> QED
  BY <1>1, <1>2 DEF RowsInv

LEMMA EndsRows ==
  ASSUME TypeInv, LockInv, MoveInv, RowsInv, NEW t \in Txns, Abort(t) \/ Commit(t)
  PROVE  RowsInv'
<1>1. Ends(t)
  BY AbortEnds, CommitEnds
<1>2. ASSUME NEW u \in Txns PROVE Kept(u)'
  BY <1>1, <1>2, EndsKept, EndsKeptOthers
<1>3. RowShapes' /\ NoOrphans' /\ EmbeddedChunksMatchProfile' /\ ActiveVersionWasIndexed'
  <2>1. CASE Abort(t)
    BY <2>1 DEF Abort, committed, RowsInv, RowShapes, NoOrphans, EmbeddedChunksMatchProfile, ActiveVersionWasIndexed, Live
  <2>2. CASE Commit(t)
    BY <2>2, CommitRows
  <2> QED
    BY <2>1, <2>2
<1> QED
  BY <1>2, <1>3 DEF RowsInv

LEMMA RowsNext == TypeInv /\ LockInv /\ MoveInv /\ RowsInv /\ [Next]_vars => RowsInv'
<1> SUFFICES ASSUME TypeInv, LockInv, MoveInv, RowsInv, [Next]_vars PROVE RowsInv'
  OBVIOUS
<1>1. CASE UNCHANGED vars
  <2>1. /\ UNCHANGED <<docs, versions, chunks, pc, call, loaded, ownDocs, ownVersions, ownChunks, exclusive, share>>
    BY <1>1 DEF vars, committed, own, locks
  <2>2. RowShapes' /\ NoOrphans' /\ EmbeddedChunksMatchProfile' /\ ActiveVersionWasIndexed'
    BY <2>1 DEF RowsInv, RowShapes, NoOrphans, EmbeddedChunksMatchProfile, ActiveVersionWasIndexed, Live
  <2>3. ASSUME NEW t \in Txns PROVE Kept(t)'
    <3>1. Kept(t)
      BY DEF RowsInv
    <3>2. /\ DocsHeld(t)' = DocsHeld(t) /\ Choosing(t)' = Choosing(t) /\ RowsHeld(t)' = RowsHeld(t)
      BY <2>1 DEF DocsHeld, Choosing, RowsHeld, LiveDoc, DocSeen, VersionSeen, Exists, OwnDeleted
    <3>3. RowsWritten(t)' = RowsWritten(t) /\ DeletionsDone(t)' = DeletionsDone(t)
      BY <2>1 DEF RowsWritten, DeletionsDone, Live, VersionSeen, Cascading, Pending
    <3>4. ReadEarlier(t)' = ReadEarlier(t) /\ ChunksWritten(t)' = ChunksWritten(t) /\ Activates(t)' = Activates(t)
      BY <2>1 DEF ReadEarlier, ChunksWritten, Activates, Live, Follows, Moves, Progresses, WasIndexed, VersionSeen, Pending
    <3> QED
      BY <3>1, <3>2, <3>3, <3>4 DEF Kept
  <2> QED
    BY <2>2, <2>3 DEF RowsInv
<1>2. ASSUME NEW t \in Txns, NEW c \in Calls, Issue(t, c) PROVE RowsInv'
  BY <1>2, IssueKept, QuietRows
<1>3. ASSUME NEW t \in Txns, Statement(t), ~Abort(t) PROVE RowsInv'
  BY <1>3, StatementKept, QuietRows
<1>4. ASSUME NEW t \in Txns, Abort(t) \/ Commit(t) PROVE RowsInv'
  BY <1>4, EndsRows
<1> QED
  BY <1>1, <1>2, <1>3, <1>4 DEF Next, Rollback, BreakDeadlock

LEMMA RowsKept ==
  TypeInv /\ LockInv /\ MoveInv /\ RowsInv /\ [Next]_vars => (TypeInv /\ LockInv /\ MoveInv /\ RowsInv)'
  BY TypeNext, LockNext, MoveNext, RowsNext

LEMMA RowsStart == Init => TypeInv /\ LockInv /\ MoveInv /\ RowsInv
<1>1. Init => MoveInv
  BY DEF Init, MoveInv
<1> QED
  BY <1>1, TypeInit, LockInit, RowsInit

\* No version outlives its document and no chunk its version: a foreign key holds the
\* row it names until the transaction ends, so create_version and add_chunks either
\* come before delete_document's cascade or fail.
THEOREM NothingOrphaned == Spec => []NoOrphans
<1>1. RowsInv => NoOrphans
  BY DEF RowsInv
<1> QED
  BY <1>1, RowsStart, RowsKept, PTL DEF Spec

\* Every embedded chunk has the dimension of its version's profile, although add_chunks
\* reads the profile without a lock: a recorded profile is never replaced.
THEOREM ChunksMatchProfiles == Spec => []EmbeddedChunksMatchProfile
<1>1. RowsInv => EmbeddedChunksMatchProfile
  BY DEF RowsInv
<1> QED
  BY <1>1, RowsStart, RowsKept, PTL DEF Spec

\* The active version of a document is one of its own that was indexed, although
\* set_active_version reads the version without a lock: an indexed version can only be
\* superseded, or deleted with its document.
THEOREM ActiveWasIndexed == Spec => []ActiveVersionWasIndexed
<1>1. RowsInv => ActiveVersionWasIndexed
  BY DEF RowsInv
<1> QED
  BY <1>1, RowsStart, RowsKept, PTL DEF Spec

-----------------------------------------------------------------------------
(* The catalogue.  A document a transaction wrote is one it holds, so its row  *)
(* moves on from the committed one; a version goes only with its document.     *)

DocsMove ==
  \A t \in Txns, d \in Docs : ownDocs[t][d] # Untouched => Catalogue!DocMoves(docs[d], ownDocs[t][d])
DeletedWithDocument == \A v \in Versions : versions[v] = Deleted => docs[DocOf[v]] = DeletedDoc
CatalogueInv == DocsMove /\ DeletedWithDocument

\* What a statement may write to a document.
DocumentWrite(t, d, x) ==
  /\ UNCHANGED docs /\ ownDocs' = [ownDocs EXCEPT ![t][d] = x]
  /\ \/ DocSeen(t, d) = NoDoc /\ x = NoVersion
     \/ LiveDoc(DocSeen(t, d)) /\ x \in Versions \cup {DeletedDoc}

LEMMA StatementWritesDocs ==
  ASSUME TypeInv, RowsInv, NEW t \in Txns, Statement(t)
  PROVE  \/ Abort(t)
         \/ UNCHANGED <<docs, ownDocs>>
         \/ \E d \in Docs : \E x \in DocRow : DocumentWrite(t, d, x)
<1>1. pc[t] # "ready" =>
        /\ call[t].doc \in Docs /\ call[t].doc \in Rows
        /\ call[t].name \notin OfDocument => call[t].version \in Versions
  BY Arguments
<1>2. CASE InsertDocument(t)
  BY <1>1, <1>2 DEF InsertDocument, At, DocumentWrite, committed, DocRow
<1>3. CASE SetActive(t)
  <2>1. /\ pc[t] = "decide" /\ call[t].name = "set_active_version"
        /\ UNCHANGED docs
        /\ UNCHANGED ownDocs \/ ownDocs' = [ownDocs EXCEPT ![t][call[t].doc] = call[t].version]
    BY <1>3 DEF SetActive, At, committed
  <2>2. call[t].doc \in Docs /\ call[t].version \in Versions
    BY <1>1, <2>1 DEF OfDocument
  <2>3. LiveDoc(DocSeen(t, call[t].doc))
    BY <2>1 DEF RowsInv, Kept, Choosing
  <2> QED
    BY <2>1, <2>2, <2>3 DEF DocumentWrite, DocRow
<1>4. CASE DeleteDocument(t)
  <2>1. /\ pc[t] = "lock" /\ UNCHANGED docs
        /\ \/ UNCHANGED ownDocs
           \/ Exists(t, call[t].doc) /\ ownDocs' = [ownDocs EXCEPT ![t][call[t].doc] = DeletedDoc]
    BY <1>4 DEF DeleteDocument, At, committed
  <2>2. call[t].doc \in Docs
    BY <1>1, <2>1
  <2> QED
    BY <2>1, <2>2 DEF DocumentWrite, DocRow, Exists, LiveDoc
<1>5. CASE InsertVersion(t) \/ Transition(t) \/ RecordProfile(t) \/ InsertChunk(t) \/ ReferenceRow(t)
  BY <1>5 DEF InsertVersion, Transition, RecordProfile, InsertChunk, ReferenceRow, committed, own
<1>6. CASE LockVersion(t) \/ LockDocument(t) \/ ReadVersion(t) \/ ReadDocument(t) \/ CascadeDone(t)
  BY <1>6 DEF LockVersion, LockDocument, ReadVersion, ReadDocument, CascadeDone, committed, own
<1>7. CASE \E v \in Versions : CascadeVersion(t, v)
  BY <1>7 DEF CascadeVersion, committed
<1> QED
  BY <1>2, <1>3, <1>4, <1>5, <1>6, <1>7 DEF Statement

\* Nobody else has written a document that t wrote.
LEMMA OneDocumentWriter ==
  ASSUME RowsInv, NEW t \in Txns, NEW u \in Txns \ {t}, NEW d \in Docs, ownDocs[u][d] # Untouched
  PROVE  ownDocs[t][d] = Untouched
  BY DEF RowsInv, Kept, DocsHeld

\* A document that moved on may move on again.
LEMMA DocMovesOn ==
  ASSUME NEW x \in DocRow, NEW y \in DocRow, NEW z \in DocRow, Catalogue!DocMoves(x, y), y # NoDoc,
         LiveDoc(y), z \in Versions \cup {DeletedDoc}
  PROVE  Catalogue!DocMoves(x, z)
  BY DEF Catalogue!DocMoves, Catalogue!LiveDoc, LiveDoc

LEMMA DocsMoveWrite ==
  ASSUME TypeInv, RowsInv, DocsMove, NEW t \in Txns, NEW d \in Docs, NEW x \in DocRow, DocumentWrite(t, d, x)
  PROVE  DocsMove'
<1>1. /\ UNCHANGED docs /\ ownDocs'[t][d] = x
      /\ \A u \in Txns, e \in Docs : u # t \/ e # d => ownDocs'[u][e] = ownDocs[u][e]
  BY DEF DocumentWrite, TypeInv, TypeOK
<1>2. Catalogue!DocMoves(docs[d], x)
  <2>1. docs[d] \in DocRow /\ ownDocs[t][d] \in DocRow \cup {Untouched}
    BY DEF TypeInv, TypeOK
  <2>2. ownDocs[t][d] # Untouched => Catalogue!DocMoves(docs[d], ownDocs[t][d])
    BY DEF DocsMove
  <2>3. ownDocs[t][d] # NoDoc
    BY RowsAssumption DEF RowsInv, Kept, DocsHeld
  <2>4. \/ DocSeen(t, d) = NoDoc /\ x = NoVersion
        \/ LiveDoc(DocSeen(t, d)) /\ x \in Versions \cup {DeletedDoc}
    BY DEF DocumentWrite
  <2> QED
    <3>1. CASE ownDocs[t][d] = Untouched
      BY <2>4, <3>1 DEF DocSeen, Catalogue!DocMoves, Catalogue!LiveDoc, LiveDoc
    <3>2. CASE ownDocs[t][d] # Untouched
      <4>1. DocSeen(t, d) = ownDocs[t][d] /\ ownDocs[t][d] \in DocRow
        BY <2>1, <3>2 DEF DocSeen
      <4>2. LiveDoc(ownDocs[t][d]) /\ x \in Versions \cup {DeletedDoc}
        BY <2>3, <2>4, <3>2, <4>1
      <4> QED
        BY <2>1, <2>2, <2>3, <3>2, <4>1, <4>2, DocMovesOn
    <3> QED
      BY <3>1, <3>2
<1> SUFFICES ASSUME NEW u \in Txns, NEW e \in Docs, ownDocs'[u][e] # Untouched
             PROVE  Catalogue!DocMoves(docs[e], ownDocs'[u][e])
  BY <1>1 DEF DocsMove
<1>3. CASE u = t /\ e = d
  BY <1>1, <1>2, <1>3
<1>4. CASE u # t \/ e # d
  BY <1>1, <1>4 DEF DocsMove
<1> QED
  BY <1>3, <1>4

\* The end of a transaction leaves the documents that others wrote as they are.
LEMMA DocsMoveEnds ==
  ASSUME TypeInv, LockInv, RowsInv, DocsMove, NEW t \in Txns, Ends(t),
         \A d \in Docs : docs'[d] \in {docs[d], DocSeen(t, d)}
  PROVE  DocsMove'
<1> SUFFICES ASSUME NEW u \in Txns, NEW d \in Docs, ownDocs'[u][d] # Untouched
             PROVE  Catalogue!DocMoves(docs'[d], ownDocs'[u][d])
  BY DEF DocsMove
<1>1. u # t /\ ownDocs'[u][d] = ownDocs[u][d]
  BY EndsShape DEF OwnStay
<1>2. docs'[d] = docs[d]
  BY <1>1, OneDocumentWriter DEF DocSeen
<1> QED
  BY <1>1, <1>2 DEF DocsMove

\* Only a commit changes what is committed.
LEMMA OnlyCommits ==
  ASSUME TypeInv, LockInv, MoveInv, RowsInv, [Next]_vars
  PROVE  UNCHANGED committed \/ \E t \in Txns : Commit(t)
<1>1. CASE UNCHANGED vars
  BY <1>1 DEF vars
<1>2. ASSUME NEW t \in Txns, NEW c \in Calls, Issue(t, c) PROVE UNCHANGED committed
  BY <1>2 DEF Issue
<1>3. ASSUME NEW t \in Txns, Statement(t), ~Abort(t) PROVE UNCHANGED committed
  BY <1>3, StatementKept DEF Quiet
<1>4. ASSUME NEW t \in Txns, Abort(t) PROVE UNCHANGED committed
  BY <1>4 DEF Abort
<1> QED
  BY <1>1, <1>2, <1>3, <1>4 DEF Next, Rollback, BreakDeadlock

LEMMA DocsMoveNext ==
  ASSUME TypeInv, LockInv, MoveInv, RowsInv, DocsMove, [Next]_vars
  PROVE  DocsMove'
<1>1. CASE UNCHANGED vars
  BY <1>1 DEF vars, committed, own, DocsMove
<1>2. ASSUME NEW t \in Txns, NEW c \in Calls, Issue(t, c) PROVE DocsMove'
  BY <1>2 DEF Issue, committed, own, DocsMove
<1>3. ASSUME NEW t \in Txns, Abort(t) \/ Commit(t) PROVE DocsMove'
  <2>1. Ends(t)
    BY <1>3, AbortEnds, CommitEnds
  <2>2. \A d \in Docs : docs'[d] \in {docs[d], DocSeen(t, d)}
    BY <2>1 DEF Ends
  <2> QED
    BY <2>1, <2>2, DocsMoveEnds
<1>4. ASSUME NEW t \in Txns, Statement(t), ~Abort(t) PROVE DocsMove'
  <2>1. CASE UNCHANGED <<docs, ownDocs>>
    BY <2>1 DEF DocsMove
  <2>2. ASSUME NEW d \in Docs, NEW x \in DocRow, DocumentWrite(t, d, x) PROVE DocsMove'
    BY <2>2, DocsMoveWrite
  <2> QED
    BY <1>4, <2>1, <2>2, StatementWritesDocs
<1> QED
  BY <1>1, <1>2, <1>3, <1>4 DEF Next, Rollback, BreakDeadlock

\* What a commit makes of the documents and the versions.
LEMMA CommitMovesDocs ==
  ASSUME TypeInv, DocsMove, NEW t \in Txns, Commit(t), NEW d \in Docs
  PROVE  Catalogue!DocMoves(docs[d], docs'[d])
<1>1. docs'[d] = DocSeen(t, d)
  BY DEF Commit
<1> QED
  BY <1>1 DEF DocSeen, DocsMove, Catalogue!DocMoves

LEMMA DeletedNext ==
  ASSUME TypeInv, LockInv, MoveInv, RowsInv, CatalogueInv, [Next]_vars
  PROVE  DeletedWithDocument'
<1>1. CASE UNCHANGED committed
  BY <1>1 DEF committed, CatalogueInv, DeletedWithDocument
<1>2. ASSUME NEW t \in Txns, Commit(t), NEW v \in Versions, versions'[v] = Deleted
      PROVE  docs'[DocOf[v]] = DeletedDoc
  <2>1. DocOf[v] \in Docs
    BY RowSets
  <2>2. versions'[v] = VersionSeen(t, v) /\ docs'[DocOf[v]] = DocSeen(t, DocOf[v])
    BY <1>2, <2>1, CommitSeen DEF Commit
  <2>3. CASE ownVersions[t][v] = Untouched
    <3>1. docs[DocOf[v]] = DeletedDoc
      BY <1>2, <2>2, <2>3 DEF VersionSeen, CatalogueInv, DeletedWithDocument
    <3>2. Catalogue!DocMoves(docs[DocOf[v]], docs'[DocOf[v]])
      BY <1>2, <2>1, CommitMovesDocs DEF CatalogueInv
    <3> QED
      BY <3>1, <3>2, RowsAssumption DEF Catalogue!DocMoves, Catalogue!LiveDoc
  <2>4. CASE ownVersions[t][v] # Untouched
    <3>1. ownDocs[t][DocOf[v]] = DeletedDoc
      BY <1>2, <2>2, <2>4 DEF VersionSeen, RowsInv, Kept, RowsWritten
    <3>2. DeletedDoc # Untouched
      BY RowsAssumption
    <3> QED
      BY <2>2, <3>1, <3>2 DEF DocSeen
  <2> QED
    BY <2>3, <2>4
<1> QED
  BY <1>1, <1>2, OnlyCommits DEF DeletedWithDocument

LEMMA CatalogueRows ==
  /\ Catalogue!Absent = Absent /\ Catalogue!Deleted = Deleted
  /\ \A row : Catalogue!Live(row) <=> Live(row)
  /\ \A doc : Catalogue!LiveDoc(doc) <=> LiveDoc(doc)
<1>1. Catalogue!Absent = Absent
  BY DEF Catalogue!Absent, Absent
<1>2. Catalogue!Deleted = Deleted
  BY <1>1 DEF Catalogue!Deleted, Deleted
<1>3. DOMAIN Catalogue!Later = Statuses
  BY DEF Catalogue!Later, Statuses
<1> QED
  BY <1>1, <1>2, <1>3 DEF Catalogue!Live, Live, Catalogue!LiveDoc, LiveDoc

\* To move is to advance.
LEMMA MovesAdvance ==
  ASSUME NEW x \in VersionRow, NEW y \in VersionRow, Live(x), Live(y), Moves(x, y)
  PROVE  Catalogue!Advances(x, y)
<1>1. y # Deleted
  BY RowTypes DEF Live, Statuses
<1>2. Progresses(x.status, y.status) /\ x.status \in Statuses /\ y.status \in Statuses
  BY <1>1 DEF Moves, Live
<1>3. \A a, b \in Statuses : Progresses(a, b) => b \in {a} \cup Catalogue!Later[a]
  BY DEF Progresses, Order, Statuses, Catalogue!Later
<1>4. y.status \in {x.status} \cup Catalogue!Later[x.status]
  BY <1>2, <1>3
<1>5. x.hashed => y.hashed
  BY <1>1, Zenon DEF Moves
<1>6. x.profile \in {NoProfile, y.profile}
  BY <1>1 DEF Moves
<1> QED
  BY <1>4, <1>5, <1>6, Zenon DEF Catalogue!Advances

LEMMA CommitMovesVersions ==
  ASSUME TypeInv, LockInv, MoveInv, RowsInv, NEW t \in Txns, Commit(t), NEW v \in Versions
  PROVE  /\ Catalogue!VersionMoves(versions[v], versions'[v])
         /\ versions'[v] = Deleted \/ chunks[v] \subseteq chunks'[v]
<1>1. /\ versions'[v] = VersionSeen(t, v)
      /\ chunks'[v] = IF ownVersions[t][v] = Deleted THEN {} ELSE chunks[v] \cup ownChunks[t][v]
  BY CommitSeen DEF Commit
<1>2. Deleted # Untouched
  BY RowTypes, UntouchedAssumption
<1>3. versions'[v] = Deleted \/ chunks[v] \subseteq chunks'[v]
  BY <1>1, <1>2 DEF VersionSeen
<1>4. Catalogue!VersionMoves(versions[v], versions'[v])
  <2>1. CASE ownVersions[t][v] = Untouched
    BY <1>1, <2>1 DEF VersionSeen, Catalogue!VersionMoves
  <2>2. CASE ownVersions[t][v] # Untouched
    <3>1. versions'[v] = ownVersions[t][v] /\ versions[v] \in VersionRow /\ ownVersions[t][v] \in VersionRow
      BY <1>1, <2>2 DEF VersionSeen, TypeInv, TypeOK
    <3>2. (Live(ownVersions[t][v]) \/ ownVersions[t][v] = Deleted) /\ versions[v] # Deleted
      BY <2>2 DEF RowsInv, Kept, RowsWritten
    <3>3. Live(versions[v]) \/ versions[v] = Absent
      BY <3>2 DEF RowsInv, RowShapes
    <3>4. Live(versions[v]) => Moves(versions[v], ownVersions[t][v])
      BY <2>2 DEF MoveInv, Live
    <3>5. Live(versions[v]) /\ Live(ownVersions[t][v]) => Catalogue!Advances(versions[v], ownVersions[t][v])
      BY <3>1, <3>4, MovesAdvance
    <3> QED
      BY <3>1, <3>2, <3>3, <3>5, CatalogueRows DEF Catalogue!VersionMoves
  <2> QED
    BY <2>1, <2>2
<1> QED
  BY <1>3, <1>4

LEMMA CatalogueConsistent ==
  ASSUME RowsInv, IndexInv, CatalogueInv
  PROVE  Catalogue!Consistent
<1>1. ASSUME NEW v \in Versions
      PROVE  /\ Live(versions[v]) => LiveDoc(docs[DocOf[v]])
             /\ versions[v] = Deleted => docs[DocOf[v]] = DeletedDoc
             /\ chunks[v] # {} => Live(versions[v])
             /\ chunks[v] \subseteq {NoProfile, versions[v].profile}
  BY DEF RowsInv, NoOrphans, EmbeddedChunksMatchProfile, CatalogueInv, DeletedWithDocument, Live, LiveDoc
<1>2. ASSUME NEW v \in Versions, NEW w \in Versions, versions[v].status = "indexed", versions[w].status = "indexed",
             DocOf[v] = DocOf[w]
      PROVE  v = w
  BY <1>2 DEF IndexInv, OneIndexedPerDocument, Siblings
<1>3. ASSUME NEW d \in Docs, docs[d] \in Versions
      PROVE  DocOf[docs[d]] = d /\ versions[docs[d]].status \in {"indexed", "superseded"}
  BY <1>3 DEF RowsInv, ActiveVersionWasIndexed
<1> QED
  BY <1>1, <1>2, <1>3, CatalogueRows DEF Catalogue!Consistent

\* The source tables are a catalogue: whatever the transactions do to each other, a
\* commit moves documents and versions forward only, deletes whole documents, takes no
\* chunk from a version that stays, and leaves rows that are consistent.
THEOREM RefinesCatalogue == Spec => ImplementsCatalogue
<1> DEFINE AllInv == TypeInv /\ LockInv /\ MoveInv /\ RowsInv /\ IndexInv /\ CatalogueInv
<1>1. Init => AllInv
  <2>1. Init => IndexInv
    BY RowTypes DEF Init, IndexInv, OneIndexedPerDocument, OwnIndexed
  <2>2. Init => CatalogueInv
    BY RowTypes DEF Init, CatalogueInv, DocsMove, DeletedWithDocument
  <2> QED
    BY <2>1, <2>2, RowsStart
<1>2. AllInv /\ [Next]_vars => AllInv'
  <2> SUFFICES ASSUME AllInv, [Next]_vars PROVE AllInv'
    OBVIOUS
  <2>1. TypeInv' /\ LockInv' /\ MoveInv' /\ RowsInv'
    BY RowsKept
  <2>2. IndexInv'
    BY IndexNext
  <2>3. DocsMove' /\ DeletedWithDocument'
    BY DocsMoveNext, DeletedNext DEF CatalogueInv
  <2> QED
    BY <2>1, <2>2, <2>3 DEF CatalogueInv
<1>3. AllInv => Catalogue!Consistent
  BY CatalogueConsistent
<1>4. Init => Catalogue!Init
  BY CatalogueRows DEF Init, Catalogue!Init, Nothing
<1>5. AllInv /\ Catalogue!Consistent' /\ [Next]_vars => [Catalogue!Next]_(Catalogue!vars)
  <2> SUFFICES ASSUME AllInv, Catalogue!Consistent', [Next]_vars
               PROVE  [Catalogue!Next]_(Catalogue!vars)
    OBVIOUS
  <2>1. CASE UNCHANGED committed
    BY <2>1 DEF committed, Catalogue!vars
  <2>2. ASSUME NEW t \in Txns, Commit(t) PROVE Catalogue!Next
    <3>1. \A d \in Docs : Catalogue!DocMoves(docs[d], docs'[d])
      BY <2>2, CommitMovesDocs DEF CatalogueInv
    <3>2. \A v \in Versions :
            /\ Catalogue!VersionMoves(versions[v], versions'[v])
            /\ versions'[v] = Catalogue!Deleted \/ chunks[v] \subseteq chunks'[v]
      BY <2>2, CommitMovesVersions, CatalogueRows
    <3> QED
      BY <3>1, <3>2 DEF Catalogue!Next
  <2> QED
    BY <2>1, <2>2, OnlyCommits
<1> QED
  BY <1>1, <1>2, <1>3, <1>4, <1>5, PTL DEF Spec, ImplementsCatalogue, Catalogue!Spec
===============================================================================
