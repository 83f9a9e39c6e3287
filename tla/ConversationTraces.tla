-------------------------- MODULE ConversationTraces --------------------------
(* Concurrent transactions on widgets, conversations, messages and retrieval   *)
(* traces: WidgetRepository, ConversationRepository and TraceRepository in     *)
(* apps/api/src/rag_api/db/repositories.py, over the foreign keys and unique   *)
(* keys of the schema, with the deletion of a document underneath.             *)
(*                                                                             *)
(* A call is a queue of work for PostgreSQL at READ COMMITTED: rows to insert, *)
(* the foreign key checks that follow them, a row to delete and what its       *)
(* foreign keys demand then.  Each item is a step; other transactions run in   *)
(* between.  A row is a tuple: its key is never given to another one.          *)
EXTENDS CoreSchema

CONSTANTS
  Txns,       \* transactions open at once
  Rows,       \* the rows the clients may insert, and those there from the start
  TableOf,    \* the table of each row
  ColumnsOf,  \* its columns that are in a key: a row, or any other value
  Batches,    \* the sequences of candidate links a client attaches at once
  Retirable,  \* the widgets and conversations an operator deletes
  Initial,    \* the rows that are there from the start
  MaxCalls,   \* calls in each transaction
  Null

ASSUME TablesAssumption == TableOf \in [Rows -> Tables] /\ MaxCalls \in [Txns -> Nat]
ASSUME RowsAssumption ==
  /\ Null \notin Rows /\ Initial \subseteq Rows /\ Batches \subseteq Seq(Rows)
  /\ Retirable \subseteq {r \in Rows : TableOf[r] \in {"widget", "conversation"}}

VARIABLES
  db,      \* committed rows; "detached" is a row whose key was set null
  own,     \* what each transaction made of a row
  share,   \* the transactions that hold FOR KEY SHARE on a row
  work,    \* what is left of the call of each transaction
  calls    \* calls made in the transaction

vars == <<db, own, share, work, calls>>

Live == {"live", "detached"}
Item(d, r, k) == [does |-> d, row |-> r, key |-> k]
Insertion(r) == Item("insert", r, Null)
Check(r, k) == Item("check", r, k)
Enforcement(r, k) == Item("enforce", r, k)
Items == [does : {"insert", "read", "delete", "check", "enforce"}, row : Rows, key : ForeignKeys \cup {Null}]

TypeOK ==
  /\ db \in [Rows -> Live \cup {"absent", "deleted"}]
  /\ own \in [Txns -> [Rows -> Live \cup {"untouched", "deleted"}]]
  /\ share \in [Rows -> SUBSET Txns]
  /\ work \in [Txns -> Seq(Items)]
  /\ calls \in [Txns -> Nat] /\ \A t \in Txns : calls[t] <= MaxCalls[t]

Init ==
  /\ db = [r \in Rows |-> IF r \in Initial THEN "live" ELSE "absent"]
  /\ own = [t \in Txns |-> [r \in Rows |-> "untouched"]]
  /\ share = [r \in Rows |-> {}]
  /\ work = [t \in Txns |-> << >>]
  /\ calls = [t \in Txns |-> 0]

-----------------------------------------------------------------------------
(* Rows and keys *)

Seen(t, r) == IF own[t][r] = "untouched" THEN db[r] ELSE own[t][r]
IsLive(t, r) == Seen(t, r) \in Live

KeysOf == [r \in Rows |-> {k \in ForeignKeys : k.from = TableOf[r]}]
KeysTo == [r \in Rows |-> {k \in ForeignKeys : k.to = TableOf[r]}]

\* The row that another one names by a foreign key, in the state it is in.
Referenced(r, k, state) ==
  IF state = "detached" /\ k.rule = "set null" THEN Null ELSE ColumnsOf[r][k.column]
Children(t, r, k) == {c \in Rows : k \in KeysOf[c] /\ IsLive(t, c) /\ Referenced(c, k, Seen(t, c)) = r}

\* The rows that agree with a row on the columns of a unique key.
Clashes == [r \in Rows |->
  {s \in Rows \ {r} :
     /\ TableOf[s] = TableOf[r]
     /\ \E key \in UniqueKeys[TableOf[r]] : \A column \in key : ColumnsOf[r][column] = ColumnsOf[s][column]}]

\* A key names a row of its table or nothing, and the rows there from the start keep
\* their keys.
ASSUME ColumnsAssumption ==
  \A r \in Rows : \A k \in KeysOf[r] : ColumnsOf[r][k.column] \in {s \in Rows : TableOf[s] = k.to} \cup {Null}
ASSUME InitialAssumption ==
  \A r \in Initial :
    /\ Clashes[r] \cap Initial = {}
    /\ \A k \in KeysOf[r] : ColumnsOf[r][k.column] \in Initial \cup {Null}

\* Setting a key null takes FOR NO KEY UPDATE, which leaves FOR KEY SHARE alone.
Writers(t, r) == {u \in Txns \ {t} : own[u][r] # "untouched"}
Deleters(t, r) == {u \in Txns \ {t} : own[u][r] = "deleted"}
Holders(t, r) == Writers(t, r) \cup (share[r] \ {t})

FaultyClashWriters(t, r) == {}
\* An insert waits for whoever may add or remove a row that it clashes with.
ClashWriters(t, r) == UNION {Writers(t, s) : s \in Clashes[r]}

Next1(t) == Head(work[t])
Doing(t, what) == work[t] # << >> /\ Next1(t).does = what
ParentOf(t) == Referenced(Next1(t).row, Next1(t).key, Seen(t, Next1(t).row))

\* The transactions that t waits for: all of them at one row, any of them when a
\* cascade has several rows to go on with.
ToDelete(t, c) == IF Next1(t).key.rule = "cascade" THEN Holders(t, c) ELSE Writers(t, c)
Blockers(t) ==
  CASE Doing(t, "insert")  -> ClashWriters(t, Next1(t).row)
    [] Doing(t, "check")   -> IF IsLive(t, ParentOf(t)) THEN Deleters(t, ParentOf(t)) ELSE {}
    [] Doing(t, "delete")  -> IF IsLive(t, Next1(t).row) THEN Holders(t, Next1(t).row) ELSE {}
    [] Doing(t, "enforce") ->
         LET children == Children(t, Next1(t).row, Next1(t).key) IN
         IF Next1(t).key.rule = "no action" \/ \E c \in children : ToDelete(t, c) = {} THEN {}
         ELSE UNION {ToDelete(t, c) : c \in children}
    [] OTHER -> {}
At(t, what) == Doing(t, what) /\ Blockers(t) = {}

-----------------------------------------------------------------------------
(* The end of a transaction *)

FaultyDiscard(t) ==
  /\ own' = [own EXCEPT ![t] = [r \in Rows |-> "untouched"]]
  /\ work' = [work EXCEPT ![t] = << >>]
  /\ calls' = [calls EXCEPT ![t] = 0]
  /\ UNCHANGED share

Discard(t) ==
  /\ own' = [own EXCEPT ![t] = [r \in Rows |-> "untouched"]]
  /\ share' = [r \in Rows |-> share[r] \ {t}]
  /\ work' = [work EXCEPT ![t] = << >>]
  /\ calls' = [calls EXCEPT ![t] = 0]

\* An IntegrityError leaves session.begin(), which rolls back.
Abort(t) == Discard(t) /\ UNCHANGED db

Commit(t) ==
  /\ calls[t] > 0 /\ work[t] = << >>
  /\ db' = [r \in Rows |-> Seen(t, r)]
  /\ Discard(t)

Rollback(t) == calls[t] > 0 /\ Abort(t)

\* PostgreSQL ends one of the transactions that wait for each other in a circle.
Deadlocked(t) == Blockers(t) # {} /\ \E S \in SUBSET Txns : t \in S /\ \A u \in S : Blockers(u) \cap S # {}
BreakDeadlock(t) == Deadlocked(t) /\ Abort(t)

-----------------------------------------------------------------------------
(* The work *)

Does(t, items) == work' = [work EXCEPT ![t] = items \o Tail(@)]
Becomes(t, r, state) == own' = [own EXCEPT ![t][r] = state]
EnforcementsOf == [r \in Rows |-> SetToSeq({Enforcement(r, k) : k \in KeysTo[r]})]

ChecksOf == [r \in Rows |-> SetToSeq({Check(r, k) : k \in {f \in KeysOf[r] : Referenced(r, f, "live") # Null}})]

\* INSERT: refused by a unique key, else its foreign keys are checked after the
\* other rows of the statement.
Insert(t) ==
  LET r == Next1(t).row IN
  /\ At(t, "insert")
  /\ \/ (\E s \in Clashes[r] : IsLive(t, s)) /\ Abort(t)
     \/ /\ \A s \in Clashes[r] : ~IsLive(t, s)
        /\ Becomes(t, r, "live")
        /\ work' = [work EXCEPT ![t] = Tail(@) \o ChecksOf[r]]
        /\ UNCHANGED <<db, share, calls>>

FaultyCheckKey(t) ==
  /\ At(t, "check")
  /\ \/ ~IsLive(t, ParentOf(t)) /\ Abort(t)
     \/ IsLive(t, ParentOf(t)) /\ Does(t, << >>) /\ UNCHANGED <<db, own, share, calls>>

\* The foreign key check locks the referenced row FOR KEY SHARE, or fails.
CheckKey(t) ==
  /\ At(t, "check")
  /\ \/ ~IsLive(t, ParentOf(t)) /\ Abort(t)
     \/ /\ IsLive(t, ParentOf(t))
        /\ share' = [share EXCEPT ![ParentOf(t)] = @ \cup {t}]
        /\ Does(t, << >>)
        /\ UNCHANGED <<db, own, calls>>

\* session.get, without a lock: a document that is not there ends the call.
Read(t) ==
  /\ Doing(t, "read")
  /\ Does(t, IF IsLive(t, Next1(t).row) THEN <<Item("delete", Next1(t).row, Null)>> ELSE << >>)
  /\ UNCHANGED <<db, own, share, calls>>

\* DELETE; nothing to delete when the row went while t waited.
Delete(t) ==
  LET r == Next1(t).row IN
  /\ At(t, "delete")
  /\ IF IsLive(t, r)
     THEN Becomes(t, r, "deleted") /\ Does(t, EnforcementsOf[r])
     ELSE Does(t, << >>) /\ UNCHANGED own
  /\ UNCHANGED <<db, share, calls>>

\* What ON DELETE says of the rows that name a deleted one: they go too, and so on,
\* or lose the name, or forbid the deletion.
Enforce(t) ==
  LET k == Next1(t).key IN
  /\ At(t, "enforce")
  /\ \E c \in Children(t, Next1(t).row, k) :
       \/ k.rule = "no action" /\ Abort(t)
       \/ /\ k.rule = "cascade" /\ Holders(t, c) = {}
          /\ Becomes(t, c, "deleted")
          /\ Does(t, <<Next1(t)>> \o EnforcementsOf[c])
          /\ UNCHANGED <<db, share, calls>>
       \/ /\ k.rule = "set null" /\ Writers(t, c) = {}
          /\ Becomes(t, c, "detached")
          /\ UNCHANGED <<db, share, work, calls>>

Enforced(t) ==
  /\ Doing(t, "enforce") /\ Children(t, Next1(t).row, Next1(t).key) = {}
  /\ Does(t, << >>)
  /\ UNCHANGED <<db, own, share, calls>>

-----------------------------------------------------------------------------
(* The calls *)

Unused(r) == db[r] = "absent" /\ \A u \in Txns : own[u][r] = "untouched" /\ Insertion(r) \notin Range(work[u])

Call(t, items) ==
  /\ work[t] = << >> /\ calls[t] < MaxCalls[t]
  /\ work' = [work EXCEPT ![t] = items]
  /\ calls' = [calls EXCEPT ![t] = @ + 1]
  /\ UNCHANGED <<db, own, share>>

CreateRow(t, table) == \E r \in Rows : TableOf[r] = table /\ Unused(r) /\ Call(t, <<Insertion(r)>>)

\* One row each; a retried request is another trace with the same request_id.
CreateWidget(t) == CreateRow(t, "widget")
CreateConversation(t) == CreateRow(t, "conversation")
AppendMessage(t) == CreateRow(t, "message")
CreateTrace(t) == CreateRow(t, "retrieval_trace")

\* attach_chunks: all the links in one flush.
AttachChunks(t) ==
  \E batch \in Batches :
    /\ \A i \in DOMAIN batch : Unused(batch[i])
    /\ Call(t, [i \in DOMAIN batch |-> Insertion(batch[i])])

DeleteDocument(t) == \E r \in Rows : TableOf[r] = "source_document" /\ Call(t, <<Item("read", r, Null)>>)

\* No repository deletes a widget or a conversation: an operator does.
Retire(t) == \E r \in Retirable : Call(t, <<Item("delete", r, Null)>>)

Statement(t) ==
  Insert(t) \/ CheckKey(t) \/ Read(t) \/ Delete(t) \/ Enforce(t) \/ Enforced(t)

Next ==
  \E t \in Txns :
    \/ CreateWidget(t) \/ CreateConversation(t) \/ AppendMessage(t) \/ CreateTrace(t)
    \/ AttachChunks(t) \/ DeleteDocument(t) \/ Retire(t)
    \/ Statement(t)
    \/ Commit(t) \/ Rollback(t) \/ BreakDeadlock(t)

Spec == Init /\ [][Next]_vars

\* A transaction goes on whenever it can: PostgreSQL grants a lock to those who wait
\* for it in turn and breaks a circle of waits, and no client leaves one open.
GoesOn(t) == Statement(t) \/ BreakDeadlock(t) \/ Commit(t)
FairSpec == Spec /\ \A t \in Txns : SF_vars(GoesOn(t))

-----------------------------------------------------------------------------
(* Properties *)

\* Every foreign key of a committed row names a row that is there, also when it was
\* inserted while a cascade came down from two tables above.
ReferencesHold ==
  \A r \in Rows : db[r] \in Live =>
    \A k \in KeysOf[r] : Referenced(r, k, db[r]) # Null => db[Referenced(r, k, db[r])] \in Live

\* A retried request leaves one trace, a public key hash one widget, and no two
\* candidates of a trace share a chunk or a rank.
UniqueKeysHold ==
  \A r \in Rows : \A s \in Clashes[r] : ~(db[r] \in Live /\ db[s] \in Live)

\* The evidence of a request survives what it is about: a trace never goes, and
\* forgets its conversation only when that goes; a candidate goes only with its chunk.
EvidenceIsKept ==
  [][\A r \in Rows :
       /\ TableOf[r] = "retrieval_trace" /\ db[r] \in Live =>
            /\ db'[r] \in Live
            /\ db'[r] # db[r] => db'[ColumnsOf[r].conversation_id] = "deleted"
       /\ TableOf[r] = "retrieval_trace_chunk" /\ db[r] \in Live /\ db'[r] = "deleted" =>
            db'[ColumnsOf[r].chunk_id] = "deleted"]_vars

\* Every call ends, whatever the other transactions hold.
EveryCallEnds == \A t \in Txns : work[t] # << >> ~> work[t] = << >>
===============================================================================
