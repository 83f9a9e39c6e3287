------------------------------ MODULE Migrations ------------------------------
(* Executions of the one-shot migration runner, rag_api/migrations.py with     *)
(* apps/api/migrations/env.py, on one PostgreSQL database.                      *)
(*                                                                             *)
(* An execution is one transaction: alembic reads the recorded revision, runs  *)
(* the scripts from there one statement at a time, and the grants follow; only *)
(* a second connection reads the result.  Executions overlap: nothing in the   *)
(* runner keeps a second one out, and a cancelled deployment leaves its own    *)
(* running.  A statement sees what is committed and what its own transaction   *)
(* did, and waits for whoever holds the object it touches.                     *)
EXTENDS CoreSchema

CONSTANT Executions   \* runs of the runner that may overlap

Newest == Len(Upgrade)

VARIABLES
  objects,     \* committed: what exists in the database
  revision,    \* committed: the rows of alembic_version
  grants,      \* committed: the objects APP_DB_USER may use
  appUser,     \* whether APP_DB_USER is set, once for all
  pc,          \* what each execution does next
  action, head,   \* its command, and the last revision its image knows
  at, step,    \* the revision alembic is at, and the next statement of a script
  waited,      \* whether that statement has been waiting for another execution
  made, dropped, granted, moved, origin,   \* the transaction: objects, grants,
               \* and whether it moved the version row, from which revision
  reason,      \* why an execution failed
  overtaken    \* history: another execution moved the revision after it was read

database == <<objects, revision, grants, appUser>>
transaction == <<made, dropped, granted, moved, origin>>
runner == <<pc, action, head, at, step, waited, transaction, reason, overtaken>>

RunnerTypeOK ==
  /\ objects \subseteq Objects /\ revision \subseteq Revisions /\ grants \subseteq Objects
  /\ appUser \in BOOLEAN
  /\ pc \in [Executions -> {"idle", "schema", "table", "script", "read", "done", "failed"}]
  /\ action \in [Executions -> {"upgrade", "downgrade"}]
  /\ head \in [Executions -> Revisions]
  /\ at \in [Executions -> 0..Newest]
  /\ step \in [Executions -> Nat \ {0}]
  /\ waited \in [Executions -> BOOLEAN]
  /\ made \in [Executions -> SUBSET Objects]
  /\ dropped \in [Executions -> SUBSET Objects]
  /\ granted \in [Executions -> SUBSET Objects]
  /\ moved \in [Executions -> BOOLEAN]
  /\ origin \in [Executions -> 0..Newest]
  /\ reason \in [Executions -> {"none", "exists", "missing", "needed", "unknown", "conflict", "lost"}]
  /\ overtaken \in [Executions -> BOOLEAN]

RunnerInit ==
  /\ objects = {} /\ revision = {} /\ grants = {} /\ appUser \in BOOLEAN
  /\ pc = [e \in Executions |-> "idle"]
  /\ action = [e \in Executions |-> "upgrade"]
  /\ head = [e \in Executions |-> Newest]
  /\ at = [e \in Executions |-> 0]
  /\ step = [e \in Executions |-> 1]
  /\ waited = [e \in Executions |-> FALSE]
  /\ made = [e \in Executions |-> {}]
  /\ dropped = [e \in Executions |-> {}]
  /\ granted = [e \in Executions |-> {}]
  /\ moved = [e \in Executions |-> FALSE]
  /\ origin = [e \in Executions |-> 0]
  /\ reason = [e \in Executions |-> "none"]
  /\ overtaken = [e \in Executions |-> FALSE]

Ended == {"idle", "done", "failed"}
Goto(e, place) == pc' = [pc EXCEPT ![e] = place]

\* main: the settings are complete, and the engine opens its transaction.
Start(e, command, image) ==
  /\ pc[e] \in Ended
  /\ Goto(e, "schema")
  /\ action' = [action EXCEPT ![e] = command]
  /\ head' = [head EXCEPT ![e] = image]
  /\ reason' = [reason EXCEPT ![e] = "none"]
  /\ UNCHANGED <<database, at, step, waited, transaction, overtaken>>

\* The transaction ends; what it knew is of no use any more.
EndTransaction(e) ==
  /\ at' = [at EXCEPT ![e] = 0]
  /\ step' = [step EXCEPT ![e] = 1]
  /\ waited' = [waited EXCEPT ![e] = FALSE]
  /\ made' = [made EXCEPT ![e] = {}]
  /\ dropped' = [dropped EXCEPT ![e] = {}]
  /\ granted' = [granted EXCEPT ![e] = {}]
  /\ moved' = [moved EXCEPT ![e] = FALSE]
  /\ origin' = [origin EXCEPT ![e] = 0]
  /\ UNCHANGED <<action, head>>

FaultyFails(e, why) ==
  /\ Goto(e, "failed")
  /\ reason' = [reason EXCEPT ![e] = why]
  /\ EndTransaction(e)
  /\ overtaken' = [overtaken EXCEPT ![e] = FALSE]
  /\ objects' = (objects \ dropped[e]) \cup made[e]
  /\ UNCHANGED <<revision, grants, appUser>>

\* An exception leaves engine.begin(), which rolls back.
Fails(e, why) ==
  /\ Goto(e, "failed")
  /\ reason' = [reason EXCEPT ![e] = why]
  /\ EndTransaction(e)
  /\ overtaken' = [overtaken EXCEPT ![e] = FALSE]
  /\ UNCHANGED database

-----------------------------------------------------------------------------
(* The statements of the scripts *)

FaultyScript(e) ==
  CASE pc[e] = "schema" -> <<Ensure("rag_app")>>
    [] pc[e] = "table"  -> IF at[e] = 0 THEN <<Ensure("alembic_version")>> ELSE << >>
    [] pc[e] = "script" /\ action[e] = "upgrade" /\ at[e] < head[e] /\ ~moved[e] -> Upgrade[at[e] + 1]
    [] pc[e] = "script" /\ action[e] = "downgrade" /\ at[e] > 0                     -> Downgrade[at[e]]
    [] OTHER -> << >>

\* The statement an execution is at: CREATE SCHEMA of env.py, the version table
\* of alembic, or one of the revision it is about to apply or to take back.
Script(e) ==
  CASE pc[e] = "schema" -> <<Ensure("rag_app")>>
    [] pc[e] = "table"  -> IF at[e] = 0 THEN <<Ensure("alembic_version")>> ELSE << >>
    [] pc[e] = "script" /\ action[e] = "upgrade" /\ at[e] < head[e] -> Upgrade[at[e] + 1]
    [] pc[e] = "script" /\ action[e] = "downgrade" /\ at[e] > 0     -> Downgrade[at[e]]
    [] OTHER -> << >>
InScript(e) == pc[e] \in {"schema", "table", "script"} /\ step[e] <= Len(Script(e))
Statement(e) == Script(e)[step[e]]

Seen(e) == (objects \ dropped[e]) \cup made[e]

\* An object that another transaction made, dropped or granted is locked by it; a
\* table takes a lock on those its foreign keys name.
Touched(e) == UNION {made[f] \cup dropped[f] \cup granted[f] : f \in Executions \ {e}}
Locked(s) == {s.object} \cup (IF s.does = "create" THEN Needs[s.object] \cap Tables ELSE {})

Adds(s) == s.does \in {"create", "ensure"}
MustWait(e, s) == ~(Adds(s) /\ s.object \in Seen(e)) /\ Locked(s) \cap Touched(e) # {}

Skipped(e, s) ==
  \/ s.does = "ensure" /\ s.object \in Seen(e) /\ ~waited[e]
  \/ s.does = "clear" /\ s.object \notin Seen(e)
Dependants(e, o) == {p \in Seen(e) : o \in Needs[p] /\ Owner[p] # o}

\* The errors a statement can end in.  IF NOT EXISTS does not help one that waited
\* for another transaction to create the object.
Errors(e, s) ==
  {why \in {"exists", "missing", "needed"} :
     CASE why = "exists"  -> Adds(s) /\ s.object \in Seen(e)
       [] why = "missing" -> IF Adds(s) THEN ~(Needs[s.object] \subseteq Seen(e)) ELSE s.object \notin Seen(e)
       [] why = "needed"  -> ~Adds(s) /\ Dependants(e, s.object) # {}}

Advance(e) == step' = [step EXCEPT ![e] = @ + 1] /\ waited' = [waited EXCEPT ![e] = FALSE]

Wait(e) ==
  /\ InScript(e) /\ MustWait(e, Statement(e)) /\ ~waited[e]
  /\ waited' = [waited EXCEPT ![e] = TRUE]
  /\ UNCHANGED <<database, pc, action, head, at, step, transaction, reason, overtaken>>

Run(e) ==
  LET s == Statement(e)
      gone == {s.object} \cup {o \in Objects : Owner[o] = s.object}
  IN
  /\ InScript(e) /\ ~MustWait(e, s)
  /\ \/ /\ Skipped(e, s)
        /\ UNCHANGED <<made, dropped>>
        /\ Advance(e)
        /\ UNCHANGED <<database, pc, action, head, at, granted, moved, origin, reason, overtaken>>
     \/ ~Skipped(e, s) /\ \E why \in Errors(e, s) : Fails(e, why)
     \/ /\ ~Skipped(e, s) /\ Errors(e, s) = {}
        /\ made' = [made EXCEPT ![e] = IF Adds(s) THEN @ \cup {s.object} ELSE @ \ gone]
        /\ dropped' = [dropped EXCEPT ![e] = IF Adds(s) THEN @ ELSE @ \cup (gone \cap objects)]
        /\ Advance(e)
        /\ UNCHANGED <<database, pc, action, head, at, granted, moved, origin, reason, overtaken>>

\* alembic reads the recorded revision, once; an image that does not know it
\* cannot locate it.
ReadRevision(e) ==
  /\ pc[e] = "schema" /\ ~InScript(e)
  /\ \/ /\ revision \subseteq 1..head[e]
        /\ \E r \in (IF revision = {} THEN {0} ELSE revision) :
             /\ at' = [at EXCEPT ![e] = r]
             /\ origin' = [origin EXCEPT ![e] = r]
        /\ Goto(e, "table")
        /\ step' = [step EXCEPT ![e] = 1]
        /\ overtaken' = [overtaken EXCEPT ![e] = FALSE]
        /\ UNCHANGED <<database, action, head, waited, made, dropped, granted, moved, reason>>
     \/ ~(revision \subseteq 1..head[e]) /\ Fails(e, "unknown")

BeginScripts(e) ==
  /\ pc[e] = "table" /\ ~InScript(e)
  /\ Goto(e, "script")
  /\ step' = [step EXCEPT ![e] = 1]
  /\ UNCHANGED <<database, action, head, at, waited, transaction, reason, overtaken>>

\* Whoever moved the version row holds it, or the primary key value it inserted.
RowHeld(e) == \E f \in Executions \ {e} : moved[f] /\ origin[f] = origin[e]
RowIsThere(e) == IF origin[e] = 0 THEN 1 \notin revision ELSE origin[e] \in revision

\* The script is through: alembic moves the version row, and fails when it is not
\* where it was read.
Stamp(e) ==
  /\ pc[e] = "script" /\ ~InScript(e) /\ Script(e) # << >>
  /\ moved[e] \/ ~RowHeld(e)
  /\ \/ ~moved[e] /\ ~RowIsThere(e) /\ Fails(e, "missing")
     \/ /\ moved[e] \/ RowIsThere(e)
        /\ moved' = [moved EXCEPT ![e] = TRUE]
        /\ at' = [at EXCEPT ![e] = IF action[e] = "upgrade" THEN @ + 1 ELSE @ - 1]
        /\ step' = [step EXCEPT ![e] = 1]
        /\ UNCHANGED <<database, pc, action, head, waited, made, dropped, granted, origin, reason, overtaken>>

-----------------------------------------------------------------------------
(* The grants, the commit and the result *)

ScriptsDone(e) == pc[e] = "script" /\ Script(e) = << >>

\* _grant_application_access: USAGE of the schema, then the table.  An image from
\* before the table has nothing to grant.
ToGrant(e) ==
  IF appUser /\ action[e] = "upgrade" /\ "admin_user" \in Installed[head[e]]
  THEN {"rag_app", "admin_user"} \ granted[e] ELSE {}

MayGrant(e, o) == ScriptsDone(e) /\ o \in ToGrant(e) /\ (o = "admin_user" => "rag_app" \in granted[e])

AwaitGrant(e, o) ==
  /\ MayGrant(e, o) /\ o \in Touched(e) /\ ~waited[e]
  /\ waited' = [waited EXCEPT ![e] = TRUE]
  /\ UNCHANGED <<database, pc, action, head, at, step, transaction, reason, overtaken>>

\* PostgreSQL does not repeat a GRANT that had to wait for another one on the same
\* object: when that one commits it gives up ("tuple concurrently updated").
Grant(e, o) ==
  /\ MayGrant(e, o) /\ o \notin Touched(e)
  /\ \/ o \notin Seen(e) /\ Fails(e, "missing")
     \/ waited[e] /\ Fails(e, "conflict")
     \/ /\ o \in Seen(e)
        /\ granted' = [granted EXCEPT ![e] = @ \cup {o}]
        /\ waited' = [waited EXCEPT ![e] = FALSE]
        /\ UNCHANGED <<database, pc, action, head, at, step, made, dropped, moved, origin, reason, overtaken>>

\* engine.begin() commits.
Commit(e) ==
  /\ ScriptsDone(e) /\ ToGrant(e) = {}
  /\ objects' = Seen(e)
  /\ grants' = (grants \ dropped[e]) \cup granted[e]
  /\ revision' = IF moved[e] THEN (revision \ {origin[e]}) \cup ({at[e]} \ {0}) ELSE revision
  /\ Goto(e, IF action[e] = "upgrade" THEN "read" ELSE "done")
  /\ EndTransaction(e)
  /\ overtaken' = [f \in Executions |-> f # e /\ (overtaken[f] \/ moved[e])]
  /\ UNCHANGED <<appUser, reason>>

\* _read_result, on a connection of its own: one row, and the extension.
ReadResult(e) ==
  /\ pc[e] = "read"
  /\ \/ (\E r \in revision : revision = {r}) /\ "vector" \in objects /\ Goto(e, "done") /\ UNCHANGED reason
     \/ /\ ~((\E r \in revision : revision = {r}) /\ "vector" \in objects)
        /\ Goto(e, "failed") /\ reason' = [reason EXCEPT ![e] = "missing"]
  /\ UNCHANGED <<database, action, head, at, step, waited, transaction, overtaken>>

\* The execution is killed, runs out of its 600 seconds or loses its connection.
Lost(e) == pc[e] \notin Ended /\ Fails(e, "lost")

Running(e) ==
  \/ Wait(e) \/ Run(e) \/ ReadRevision(e) \/ BeginScripts(e) \/ Stamp(e)
  \/ (\E o \in {"rag_app", "admin_user"} : AwaitGrant(e, o) \/ Grant(e, o)) \/ Commit(e) \/ ReadResult(e)
===============================================================================
