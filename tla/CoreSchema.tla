------------------------------ MODULE CoreSchema ------------------------------
(* The schema rag_app as data: the tables of apps/api/migrations/versions with *)
(* their foreign keys and unique keys, and the statements each revision runs   *)
(* to create and to drop them.  Columns and checks of one row alone are left   *)
(* out: no statement of another transaction can break them.                    *)
EXTENDS Naturals, SequencesExt

\* A foreign key: rows of "from" name a row of "to" in "column"; "rule" says what
\* becomes of them when that row is deleted.  A composite key is known by its last column.
ForeignKey(from, column, to, rule) == [from |-> from, column |-> column, to |-> to, rule |-> rule]

\* fk_source_document_active_version names no ON DELETE, which is NO ACTION.
ActiveVersionKey == ForeignKey("source_document", "active_version_id", "source_version", "no action")
SourceKeys == {ForeignKey("source_version", "document_id", "source_document", "cascade")}
ChunkKeys == {
  ForeignKey("chunk", "source_version_id", "source_version", "cascade"),
  ForeignKey("chunk", "parent_chunk_id", "chunk", "cascade")}

ConversationKeys == {
  ForeignKey("conversation", "widget_id", "widget", "cascade"),
  ForeignKey("message", "conversation_id", "conversation", "cascade")}

FaultyTraceKeys == {
  ForeignKey("retrieval_trace", "conversation_id", "conversation", "cascade"),
  ForeignKey("retrieval_trace_chunk", "trace_id", "retrieval_trace", "cascade"),
  ForeignKey("retrieval_trace_chunk", "chunk_id", "chunk", "cascade")}
TraceKeys == {
  ForeignKey("retrieval_trace", "conversation_id", "conversation", "set null"),
  ForeignKey("retrieval_trace_chunk", "trace_id", "retrieval_trace", "cascade"),
  ForeignKey("retrieval_trace_chunk", "chunk_id", "chunk", "cascade")}

\* The keys that CREATE TABLE declares, and all of them.
InlineKeys == SourceKeys \cup ChunkKeys \cup ConversationKeys \cup TraceKeys
ForeignKeys == {ActiveVersionKey} \cup InlineKeys

Tables == {"widget", "source_document", "source_version", "chunk", "conversation", "message",
           "retrieval_trace", "retrieval_trace_chunk"}

\* The columns no two rows of a table agree on; those of the source tables are in
\* SourceVersions.
WidgetKeys == {{"public_key_hash"}}
UniqueKeys == [t \in Tables |->
  CASE t = "widget"                -> WidgetKeys
    [] t = "retrieval_trace"       -> {{"request_id"}}
    [] t = "retrieval_trace_chunk" -> {{"trace_id", "chunk_id"}, {"trace_id", "rank"}}
    [] OTHER                       -> {}]

-----------------------------------------------------------------------------
(* The revisions *)

\* What a statement of a script does to one object of the database.
Create(o) == [does |-> "create", object |-> o]
Ensure(o) == [does |-> "ensure", object |-> o]       \* CREATE ... IF NOT EXISTS
Drop(o) == [does |-> "drop", object |-> o]
Clear(o) == [does |-> "clear", object |-> o]         \* DROP ... IF EXISTS
ForAll(statement(_), objects) == [i \in DOMAIN objects |-> statement(objects[i])]

ActiveVersionConstraint == "fk_source_document_active_version"
Enums == <<"source_type", "source_version_status", "message_role", "retrieval_terminal_state">>
UpdatedAtTriggers == <<"trg_widget_updated_at", "trg_source_document_updated_at",
  "trg_source_version_updated_at", "trg_conversation_updated_at", "trg_retrieval_trace_updated_at">>

PgvectorUp == <<Ensure("vector")>>
PgvectorDown == <<Clear("vector")>>

\* The objects of revision 0002, block by block.
SourceObjects == <<"source_document", "source_version", ActiveVersionConstraint>>
ChatTables == <<"conversation", "message">>
TraceTables == <<"retrieval_trace", "retrieval_trace_chunk">>
TransitionTrigger == <<"enforce_source_version_transition", "trg_source_version_transition">>

CoreUp ==
  ForAll(Create, Enums \o <<"widget">> \o SourceObjects \o <<"chunk">> \o ChatTables \o TraceTables
                   \o TransitionTrigger \o <<"set_updated_at">> \o UpdatedAtTriggers)

TablesDown == <<"retrieval_trace_chunk", "retrieval_trace", "message", "conversation", "chunk",
                "source_version", "source_document", "widget">>
TriggersDown == UpdatedAtTriggers
  \o <<"set_updated_at", "trg_source_version_transition", "enforce_source_version_transition">>

FaultyCoreDown == ForAll(Clear, TriggersDown) \o ForAll(Drop, TablesDown \o Reverse(Enums))
CoreDown == ForAll(Clear, TriggersDown) \o ForAll(Drop, <<ActiveVersionConstraint>> \o TablesDown \o Reverse(Enums))

AdminUp == <<Create("admin_user")>>
AdminDown == <<Drop("admin_user")>>

Upgrade == <<PgvectorUp, CoreUp, AdminUp>>
Downgrade == <<PgvectorDown, CoreDown, AdminDown>>
Revisions == DOMAIN Upgrade

\* What exists at a revision, besides the schema and the version table.
ObjectsOf(r) == {Upgrade[r][i].object : i \in DOMAIN Upgrade[r]}
Installed == [r \in {0} \cup Revisions |-> UNION {ObjectsOf(q) : q \in 1..r}]
Baseline == {"rag_app", "alembic_version"}
Objects == Baseline \cup UNION {ObjectsOf(r) : r \in Revisions}

\* The table an object is dropped with.
TableOfTrigger == [
  trg_widget_updated_at          |-> "widget",
  trg_source_document_updated_at |-> "source_document",
  trg_source_version_updated_at  |-> "source_version",
  trg_conversation_updated_at    |-> "conversation",
  trg_retrieval_trace_updated_at |-> "retrieval_trace"]
Owner == [o \in Objects |->
  CASE o \in DOMAIN TableOfTrigger          -> TableOfTrigger[o]
    [] o = "trg_source_version_transition"  -> "source_version"
    [] o = ActiveVersionConstraint          -> ActiveVersionKey.from
    [] OTHER                                -> "rag_app"]

\* What an object is defined by, and does not let go: the tables its foreign keys
\* name, the types of its columns, its trigger function.
TypesOf(o) ==
  CASE o = "source_document" -> {"source_type"}
    [] o = "source_version"  -> {"source_version_status"}
    [] o = "chunk"           -> {"vector"}
    [] o = "message"         -> {"message_role"}
    [] o = "retrieval_trace" -> {"retrieval_terminal_state"}
    [] OTHER                 -> {}
Needs == [o \in Objects |->
  CASE o \in Tables                          -> ({k.to : k \in {f \in InlineKeys : f.from = o}} \ {o}) \cup TypesOf(o)
    [] o = ActiveVersionConstraint           -> {ActiveVersionKey.from, ActiveVersionKey.to}
    [] o = "trg_source_version_transition"   -> {"source_version", "enforce_source_version_transition"}
    [] o \in DOMAIN TableOfTrigger           -> {TableOfTrigger[o], "set_updated_at"}
    [] OTHER                                 -> {}]
===============================================================================
