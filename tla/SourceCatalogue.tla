---------------------------- MODULE SourceCatalogue ----------------------------
(* What the source tables promise whoever reads them: a catalogue of documents  *)
(* and their versions in which every step is one commit.  A step may change any *)
(* number of rows, each of them only forward, and what it leaves is consistent. *)

CONSTANTS Docs, Versions, DocOf, NoDoc, DeletedDoc, NoVersion, NoProfile

VARIABLES
  docs,        \* NoDoc, then NoVersion or the active version, in the end DeletedDoc
  versions,    \* Absent, then a status with what is recorded, in the end Deleted
  chunks       \* the dimensions of its chunks

vars == <<docs, versions, chunks>>

Absent == [status |-> "absent", hashed |-> FALSE, profile |-> NoProfile]
Deleted == [Absent EXCEPT !.status = "deleted"]

\* The statuses a version may still reach.
Later == [queued     |-> {"processing", "indexed", "failed", "superseded"},
          processing |-> {"indexed", "failed", "superseded"},
          indexed    |-> {"superseded"},
          failed     |-> {},
          superseded |-> {}]

Live(row) == row.status \in DOMAIN Later
LiveDoc(doc) == doc \notin {NoDoc, DeletedDoc}

Init ==
  /\ docs = [d \in Docs |-> NoDoc]
  /\ versions = [v \in Versions |-> Absent]
  /\ chunks = [v \in Versions |-> {}]

\* A document is created, gets another active version but never none again, and is
\* deleted for good.
DocMoves(before, after) ==
  \/ after = before
  \/ before = NoDoc
  \/ LiveDoc(before) /\ after \in Versions \cup {DeletedDoc}

\* A version advances in its lifecycle, keeps the hash and the profile recorded for it,
\* and is deleted for good.
Advances(before, after) ==
  /\ after.status \in {before.status} \cup Later[before.status]
  /\ before.hashed => after.hashed
  /\ before.profile \in {NoProfile, after.profile}
VersionMoves(before, after) ==
  \/ after = before
  \/ before = Absent /\ (Live(after) \/ after = Deleted)
  \/ Live(before) /\ (after = Deleted \/ (Live(after) /\ Advances(before, after)))

\* Every row belongs to rows that are there, every chunk is searchable with its version's
\* profile, one version of a document is indexed at a time, and the active one was.
Consistent ==
  /\ \A v \in Versions :
       /\ Live(versions[v]) => LiveDoc(docs[DocOf[v]])
       /\ versions[v] = Deleted => docs[DocOf[v]] = DeletedDoc
       /\ chunks[v] # {} => Live(versions[v])
       /\ chunks[v] \subseteq {NoProfile, versions[v].profile}
  /\ \A v, w \in Versions :
       versions[v].status = "indexed" /\ versions[w].status = "indexed" /\ DocOf[v] = DocOf[w] => v = w
  /\ \A d \in Docs : docs[d] \in Versions =>
       DocOf[docs[d]] = d /\ versions[docs[d]].status \in {"indexed", "superseded"}

\* One commit.
Next ==
  /\ \A d \in Docs : DocMoves(docs[d], docs'[d])
  /\ \A v \in Versions :
       /\ VersionMoves(versions[v], versions'[v])
       /\ versions'[v] = Deleted \/ chunks[v] \subseteq chunks'[v]
  /\ Consistent'

Spec == Init /\ [][Next]_vars
===============================================================================
