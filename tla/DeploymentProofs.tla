---------------------------- MODULE DeploymentProofs ----------------------------
(* Type correctness of Deployment and its safety properties, for any number of   *)
(* executions and any releases.  Types need that the statement an execution is   *)
(* at is one of its script and names one of Objects; the properties, that no two *)
(* executions commit the statements of one script (RunnerInv), that the workflow *)
(* moves the service only to what its execution has reached (WorkflowInv), and   *)
(* that each statement of a script finds what the ones before it and the         *)
(* revision below have left (FitsUp, FitsDown, HistoryInv).                      *)
EXTENDS Deployment, TLAPS

-----------------------------------------------------------------------------
(* The scripts as sequences *)

LEMMA Lengths == Newest = 3 /\ Revisions = 1..3 /\ DOMAIN Downgrade = 1..3
  BY DEF Newest, Revisions, Upgrade, Downgrade

LEMMA Tuples ==
  ASSUME NEW X
  PROVE  /\ \A a \in X : <<a>> \in Seq(X)
         /\ \A a, b \in X : <<a, b>> \in Seq(X)
         /\ \A a, b, c \in X : <<a, b, c>> \in Seq(X)
         /\ \A a, b, c, d \in X : <<a, b, c, d>> \in Seq(X)
         /\ \A a, b, c, d, f \in X : <<a, b, c, d, f>> \in Seq(X)
         /\ \A a, b, c, d, f, g, h, i \in X : <<a, b, c, d, f, g, h, i>> \in Seq(X)
  OBVIOUS

\* The statements of a way up, and of a way down: none of those creates anything.
Names ==
  {"trg_widget_updated_at", "trg_source_document_updated_at", "trg_source_version_updated_at",
   "trg_conversation_updated_at", "trg_retrieval_trace_updated_at", "set_updated_at",
   "trg_source_version_transition", "enforce_source_version_transition",
   "source_type", "source_version_status", "message_role", "retrieval_terminal_state",
   "retrieval_trace_chunk", "retrieval_trace", "message", "conversation", "chunk", "source_version",
   "source_document", "widget", "fk_source_document_active_version", "vector", "admin_user"}
Creation == [does : {"create", "ensure"}, object : Names]
Removal == [does : {"drop", "clear"}, object : Names]

LEMMA Removals ==
  ASSUME NEW s \in Seq(Names)
  PROVE  ForAll(Clear, s) \in Seq(Removal) /\ ForAll(Drop, s) \in Seq(Removal)
<1>1. Len(s) \in Nat /\ DOMAIN s = 1..Len(s) /\ \A i \in 1..Len(s) : s[i] \in Names
  OBVIOUS
<1>2. ForAll(Clear, s) \in [1..Len(s) -> Removal]
  BY <1>1 DEF ForAll, Clear, Removal
<1>3. ForAll(Drop, s) \in [1..Len(s) -> Removal]
  BY <1>1 DEF ForAll, Drop, Removal
<1> QED
  BY <1>1, <1>2, <1>3

LEMMA Creations ==
  ASSUME NEW s \in Seq(Names)
  PROVE  ForAll(Create, s) \in Seq(Creation)
<1>1. Len(s) \in Nat /\ DOMAIN s = 1..Len(s) /\ \A i \in 1..Len(s) : s[i] \in Names
  OBVIOUS
<1>2. ForAll(Create, s) \in [1..Len(s) -> Creation]
  BY <1>1 DEF ForAll, Create, Creation
<1> QED
  BY <1>1, <1>2

LEMMA UpdatedAtNames == UpdatedAtTriggers \in Seq(Names)
<1>1. /\ "trg_widget_updated_at" \in Names /\ "trg_source_document_updated_at" \in Names
      /\ "trg_source_version_updated_at" \in Names /\ "trg_conversation_updated_at" \in Names
      /\ "trg_retrieval_trace_updated_at" \in Names
  BY DEF Names
<1> QED
  BY <1>1, Tuples DEF UpdatedAtTriggers

LEMMA EnumNames == Enums \in Seq(Names) /\ Reverse(Enums) \in Seq(Names)
<1>1. /\ "source_type" \in Names /\ "source_version_status" \in Names
      /\ "message_role" \in Names /\ "retrieval_terminal_state" \in Names
  BY DEF Names
<1>2. Enums \in Seq(Names)
  BY <1>1, Tuples DEF Enums
<1> QED
  BY <1>2 DEF Reverse

LEMMA TableNames == TablesDown \in Seq(Names)
<1>1. /\ "retrieval_trace_chunk" \in Names /\ "retrieval_trace" \in Names /\ "message" \in Names
      /\ "conversation" \in Names /\ "chunk" \in Names /\ "source_version" \in Names
      /\ "source_document" \in Names /\ "widget" \in Names
  BY DEF Names
<1> QED
  BY <1>1, Tuples DEF TablesDown

LEMMA TriggerNames == TriggersDown \in Seq(Names)
<1> DEFINE functions == <<"set_updated_at", "trg_source_version_transition", "enforce_source_version_transition">>
<1>1. /\ "set_updated_at" \in Names /\ "trg_source_version_transition" \in Names
      /\ "enforce_source_version_transition" \in Names
  BY DEF Names
<1>2. functions \in Seq(Names)
  BY <1>1, Tuples
<1>3. TriggersDown = UpdatedAtTriggers \o functions
  BY DEF TriggersDown
<1> HIDE DEF functions
<1> QED
  BY <1>2, <1>3, UpdatedAtNames

LEMMA ConstraintName == <<ActiveVersionConstraint>> \in Seq(Names)
<1>1. ActiveVersionConstraint \in Names
  BY DEF ActiveVersionConstraint, Names
<1> QED
  BY <1>1, Tuples

LEMMA DowngradesOnlyRemove == \A r \in Revisions : Downgrade[r] \in Seq(Removal)
<1>1. Clear("vector") \in Removal /\ Drop("admin_user") \in Removal
  BY DEF Clear, Drop, Removal, Names
<1>2. PgvectorDown \in Seq(Removal) /\ AdminDown \in Seq(Removal)
  BY <1>1, Tuples DEF PgvectorDown, AdminDown
<1>3. <<ActiveVersionConstraint>> \o TablesDown \o Reverse(Enums) \in Seq(Names)
  BY ConstraintName, TableNames, EnumNames
<1>4. CoreDown \in Seq(Removal)
  <2> DEFINE rest == <<ActiveVersionConstraint>> \o TablesDown \o Reverse(Enums)
             clears == ForAll(Clear, TriggersDown)
             drops == ForAll(Drop, rest)
  <2>1. clears \in Seq(Removal)
    BY TriggerNames, Removals
  <2>2. drops \in Seq(Removal)
    <3> HIDE DEF rest
    <3>1. rest \in Seq(Names)
      BY <1>3 DEF rest
    <3> QED
      BY <3>1, Removals
  <2>3. CoreDown = clears \o drops
    BY DEF CoreDown
  <2> HIDE DEF clears, drops
  <2> QED
    BY <2>1, <2>2, <2>3
<1> QED
  BY <1>2, <1>4, Lengths DEF Downgrade

LEMMA CreatedNames ==
  /\ SourceObjects \in Seq(Names) /\ ChatTables \in Seq(Names) /\ TraceTables \in Seq(Names)
  /\ TransitionTrigger \in Seq(Names)
  /\ <<"widget">> \in Seq(Names) /\ <<"chunk">> \in Seq(Names) /\ <<"set_updated_at">> \in Seq(Names)
<1>1. /\ "source_document" \in Names /\ "source_version" \in Names /\ ActiveVersionConstraint \in Names
      /\ "conversation" \in Names /\ "message" \in Names
      /\ "retrieval_trace" \in Names /\ "retrieval_trace_chunk" \in Names
      /\ "enforce_source_version_transition" \in Names /\ "trg_source_version_transition" \in Names
      /\ "widget" \in Names /\ "chunk" \in Names /\ "set_updated_at" \in Names
  BY DEF Names, ActiveVersionConstraint
<1>2. SourceObjects \in Seq(Names)
  BY <1>1, Tuples DEF SourceObjects
<1>3. ChatTables \in Seq(Names)
  BY <1>1, Tuples DEF ChatTables
<1>4. TraceTables \in Seq(Names)
  BY <1>1, Tuples DEF TraceTables
<1>5. TransitionTrigger \in Seq(Names)
  BY <1>1, Tuples DEF TransitionTrigger
<1>6. <<"widget">> \in Seq(Names) /\ <<"chunk">> \in Seq(Names) /\ <<"set_updated_at">> \in Seq(Names)
  BY <1>1, Tuples
<1> QED
  BY <1>2, <1>3, <1>4, <1>5, <1>6

LEMMA UpgradesOnlyCreate == \A r \in Revisions : Upgrade[r] \in Seq(Creation)
<1>1. Ensure("vector") \in Creation /\ Create("admin_user") \in Creation
  BY DEF Ensure, Create, Creation, Names
<1>2. PgvectorUp \in Seq(Creation) /\ AdminUp \in Seq(Creation)
  BY <1>1, Tuples DEF PgvectorUp, AdminUp
<1> DEFINE widget == <<"widget">>
           chunk == <<"chunk">>
           function == <<"set_updated_at">>
           names == Enums \o widget \o SourceObjects \o chunk \o ChatTables \o TraceTables
                          \o TransitionTrigger \o function \o UpdatedAtTriggers
<1>3. widget \in Seq(Names) /\ chunk \in Seq(Names) /\ function \in Seq(Names)
  BY CreatedNames
<1>4. CoreUp = ForAll(Create, names)
  BY DEF CoreUp
<1> HIDE DEF widget, chunk, function
<1>5. names \in Seq(Names)
  BY <1>3, CreatedNames, EnumNames, UpdatedAtNames
<1> HIDE DEF names
<1>6. CoreUp \in Seq(Creation)
  BY <1>4, <1>5, Creations
<1> QED
  BY <1>2, <1>6, Lengths DEF Upgrade

-----------------------------------------------------------------------------
(* The statement an execution is at *)

LEMMA BaselineObjects == "rag_app" \in Objects /\ "alembic_version" \in Objects
  BY DEF Objects, Baseline

LEMMA RevisionObjects ==
  ASSUME NEW r \in Revisions, NEW i \in DOMAIN Upgrade[r]
  PROVE  Upgrade[r][i].object \in Objects
  BY DEF Objects, ObjectsOf

\* Whatever a statement creates is one of Objects.
LEMMA StatementObject ==
  ASSUME RunnerTypeOK, NEW e \in Executions, InScript(e), Adds(Statement(e))
  PROVE  Statement(e).object \in Objects
<1> DEFINE n == step[e]
<1>1. n \in Nat /\ n >= 1 /\ n <= Len(Script(e)) /\ Statement(e) = Script(e)[n]
  BY DEF RunnerTypeOK, InScript, Statement
<1>2. at[e] \in 0..3 /\ head[e] \in 1..3 /\ action[e] \in {"upgrade", "downgrade"}
  BY Lengths DEF RunnerTypeOK
<1> HIDE DEF n
<1>3. CASE Script(e) = <<Ensure("rag_app")>>
  BY <1>1, <1>3, BaselineObjects DEF Ensure
<1>4. CASE Script(e) = <<Ensure("alembic_version")>>
  BY <1>1, <1>4, BaselineObjects DEF Ensure
<1>5. CASE Script(e) = << >>
  BY <1>1, <1>5
<1>6. CASE at[e] < head[e] /\ Script(e) = Upgrade[at[e] + 1]
  <2> DEFINE r == at[e] + 1
  <2>1. r \in Revisions
    BY <1>2, <1>6, Lengths
  <2>2. Upgrade[r] \in Seq(Creation)
    BY <2>1, UpgradesOnlyCreate
  <2> HIDE DEF r
  <2>3. n \in DOMAIN Upgrade[r]
    BY <1>1, <1>6, <2>2 DEF r
  <2> QED
    BY <1>1, <1>6, <2>1, <2>3, RevisionObjects DEF r
<1>7. CASE at[e] > 0 /\ Script(e) = Downgrade[at[e]]
  <2>1. Downgrade[at[e]] \in Seq(Removal)
    BY <1>2, <1>7, Lengths, DowngradesOnlyRemove
  <2>2. Statement(e) \in Removal
    BY <1>1, <1>7, <2>1
  <2> QED
    BY <2>2 DEF Adds, Removal
<1> QED
  BY <1>2, <1>3, <1>4, <1>5, <1>6, <1>7 DEF Script

\* A script that is not through leads to a revision there is.
LEMMA StampInRange ==
  ASSUME RunnerTypeOK, NEW e \in Executions, pc[e] = "script", Script(e) # << >>
  PROVE  (IF action[e] = "upgrade" THEN at[e] + 1 ELSE at[e] - 1) \in 0..Newest
<1>1. at[e] \in 0..3 /\ head[e] \in 1..3 /\ Newest = 3
  BY Lengths DEF RunnerTypeOK
<1> QED
  BY <1>1 DEF Script

-----------------------------------------------------------------------------
(* The steps *)

LEMMA SeenObjects ==
  ASSUME RunnerTypeOK, NEW e \in Executions
  PROVE  Seen(e) \subseteq Objects
  BY DEF RunnerTypeOK, Seen

LEMMA TransactionEnds ==
  ASSUME RunnerTypeOK, NEW e \in Executions, EndTransaction(e)
  PROVE  /\ at' \in [Executions -> 0..Newest] /\ step' \in [Executions -> Nat \ {0}]
         /\ waited' \in [Executions -> BOOLEAN] /\ moved' \in [Executions -> BOOLEAN]
         /\ made' \in [Executions -> SUBSET Objects] /\ dropped' \in [Executions -> SUBSET Objects]
         /\ granted' \in [Executions -> SUBSET Objects] /\ origin' \in [Executions -> 0..Newest]
         /\ action' = action /\ head' = head
  BY Lengths DEF RunnerTypeOK, EndTransaction

Reasons == {"none", "exists", "missing", "needed", "unknown", "conflict", "lost"}

LEMMA FailureTypes ==
  ASSUME RunnerTypeOK, NEW e \in Executions, NEW why \in Reasons, Fails(e, why)
  PROVE  RunnerTypeOK'
<1>1. /\ pc' = [pc EXCEPT ![e] = "failed"] /\ reason' = [reason EXCEPT ![e] = why]
      /\ overtaken' = [overtaken EXCEPT ![e] = FALSE] /\ UNCHANGED <<objects, revision, grants, appUser>>
      /\ EndTransaction(e)
  BY DEF Fails, Goto, database
<1> QED
  BY <1>1, TransactionEnds DEF RunnerTypeOK, Reasons

LEMMA StartTypes ==
  ASSUME RunnerTypeOK, NEW e \in Executions, NEW command \in {"upgrade", "downgrade"},
         NEW image \in Revisions, Start(e, command, image)
  PROVE  RunnerTypeOK'
  BY DEF RunnerTypeOK, Start, Goto, database, transaction

LEMMA RunTypes ==
  ASSUME RunnerTypeOK, NEW e \in Executions, Run(e)
  PROVE  RunnerTypeOK'
<1> DEFINE s == Statement(e)
           gone == {s.object} \cup {o \in Objects : Owner[o] = s.object}
<1>1. InScript(e)
  BY DEF Run
<1>2. CASE \E why \in Errors(e, s) : Fails(e, why)
  <2>1. Errors(e, s) \subseteq Reasons
    BY DEF Errors, Reasons
  <2> QED
    BY <1>2, <2>1, FailureTypes
<1>3. CASE UNCHANGED <<made, dropped>> /\ Advance(e)
           /\ UNCHANGED <<database, pc, action, head, at, granted, moved, origin, reason, overtaken>>
  BY <1>3 DEF RunnerTypeOK, Advance, database
<1>4. CASE /\ made' = [made EXCEPT ![e] = IF Adds(s) THEN @ \cup {s.object} ELSE @ \ gone]
           /\ dropped' = [dropped EXCEPT ![e] = IF Adds(s) THEN @ ELSE @ \cup (gone \cap objects)]
           /\ Advance(e)
           /\ UNCHANGED <<database, pc, action, head, at, granted, moved, origin, reason, overtaken>>
  <2>1. Adds(s) => s.object \in Objects
    BY <1>1, StatementObject
  <2> HIDE DEF s, gone
  <2>2. made' \in [Executions -> SUBSET Objects] /\ dropped' \in [Executions -> SUBSET Objects]
    BY <1>4, <2>1 DEF RunnerTypeOK
  <2> QED
    BY <1>4, <2>2 DEF RunnerTypeOK, Advance, database
<1> QED
  BY <1>2, <1>3, <1>4 DEF Run

LEMMA RevisionTypes ==
  ASSUME RunnerTypeOK, NEW e \in Executions, ReadRevision(e) \/ BeginScripts(e) \/ Stamp(e)
  PROVE  RunnerTypeOK'
<1>1. CASE BeginScripts(e)
  BY <1>1 DEF RunnerTypeOK, BeginScripts, Goto, database, transaction
<1>2. CASE ReadRevision(e)
  <2>1. CASE Fails(e, "unknown")
    BY <2>1, FailureTypes DEF Reasons
  <2>2. CASE ~Fails(e, "unknown")
    <3>1. PICK r \in (IF revision = {} THEN {0} ELSE revision) :
            at' = [at EXCEPT ![e] = r] /\ origin' = [origin EXCEPT ![e] = r]
      BY <1>2, <2>2 DEF ReadRevision
    <3>2. r \in 0..Newest
      BY Lengths DEF RunnerTypeOK
    <3>3. /\ pc' = [pc EXCEPT ![e] = "table"] /\ step' = [step EXCEPT ![e] = 1]
          /\ overtaken' = [overtaken EXCEPT ![e] = FALSE]
          /\ UNCHANGED <<objects, revision, grants, appUser, action, head, waited, made, dropped, granted, moved, reason>>
      BY <1>2, <2>2 DEF ReadRevision, Goto, database
    <3>4. at' \in [Executions -> 0..Newest] /\ origin' \in [Executions -> 0..Newest]
      BY <3>1, <3>2 DEF RunnerTypeOK
    <3>5. /\ pc' \in [Executions -> {"idle", "schema", "table", "script", "read", "done", "failed"}]
          /\ step' \in [Executions -> Nat \ {0}]
          /\ overtaken' \in [Executions -> BOOLEAN]
      BY <3>3 DEF RunnerTypeOK
    <3> QED
      BY <3>3, <3>4, <3>5 DEF RunnerTypeOK
  <2> QED
    BY <2>1, <2>2
<1>3. CASE Stamp(e)
  <2>1. CASE Fails(e, "missing")
    BY <2>1, FailureTypes DEF Reasons
  <2>2. CASE ~Fails(e, "missing")
    <3>1. at' = [at EXCEPT ![e] = IF action[e] = "upgrade" THEN @ + 1 ELSE @ - 1]
      BY <1>3, <2>2 DEF Stamp
    <3>2. (IF action[e] = "upgrade" THEN at[e] + 1 ELSE at[e] - 1) \in 0..Newest
      BY <1>3, StampInRange DEF Stamp
    <3>3. at' \in [Executions -> 0..Newest]
      BY <3>1, <3>2 DEF RunnerTypeOK
    <3>4. /\ moved' = [moved EXCEPT ![e] = TRUE] /\ step' = [step EXCEPT ![e] = 1]
          /\ UNCHANGED <<objects, revision, grants, appUser, pc, action, head, waited, made, dropped,
                         granted, origin, reason, overtaken>>
      BY <1>3, <2>2 DEF Stamp, database
    <3> QED
      BY <3>3, <3>4 DEF RunnerTypeOK
  <2> QED
    BY <2>1, <2>2
<1> QED
  BY <1>1, <1>2, <1>3

LEMMA GrantTypes ==
  ASSUME RunnerTypeOK, NEW e \in Executions, NEW o \in {"rag_app", "admin_user"},
         AwaitGrant(e, o) \/ Grant(e, o)
  PROVE  RunnerTypeOK'
<1>1. CASE AwaitGrant(e, o)
  BY <1>1 DEF RunnerTypeOK, AwaitGrant, database, transaction
<1>2. CASE Fails(e, "missing") \/ Fails(e, "conflict")
  BY <1>2, FailureTypes DEF Reasons
<1>3. CASE Grant(e, o) /\ ~Fails(e, "missing") /\ ~Fails(e, "conflict")
  <2>1. o \in Objects
    BY <1>3, SeenObjects DEF Grant
  <2> QED
    <3>1. /\ granted' = [granted EXCEPT ![e] = @ \cup {o}] /\ waited' = [waited EXCEPT ![e] = FALSE]
          /\ UNCHANGED <<objects, revision, grants, appUser, pc, action, head, at, step, made, dropped,
                         moved, origin, reason, overtaken>>
      BY <1>3 DEF Grant, database
    <3> QED
      BY <2>1, <3>1 DEF RunnerTypeOK
<1> QED
  BY <1>1, <1>2, <1>3

LEMMA CommitTypes ==
  ASSUME RunnerTypeOK, NEW e \in Executions, Commit(e)
  PROVE  RunnerTypeOK'
<1>1. objects' \subseteq Objects /\ grants' \subseteq Objects
  BY SeenObjects DEF RunnerTypeOK, Commit
<1>2. revision' \subseteq Revisions
  <2>1. at[e] \in 0..3 /\ revision \subseteq 1..3
    BY Lengths DEF RunnerTypeOK
  <2>2. revision' = IF moved[e] THEN (revision \ {origin[e]}) \cup ({at[e]} \ {0}) ELSE revision
    BY DEF Commit
  <2>3. {at[e]} \ {0} \subseteq 1..3
    BY <2>1
  <2> QED
    BY <2>1, <2>2, <2>3, Lengths
<1>3. pc' \in [Executions -> {"idle", "schema", "table", "script", "read", "done", "failed"}]
  BY DEF RunnerTypeOK, Commit, Goto
<1>4. overtaken' \in [Executions -> BOOLEAN]
  BY DEF RunnerTypeOK, Commit
<1>5. EndTransaction(e) /\ UNCHANGED <<appUser, reason>>
  BY DEF Commit
<1> QED
  BY <1>1, <1>2, <1>3, <1>4, <1>5, TransactionEnds DEF RunnerTypeOK

LEMMA RunnerTypes ==
  ASSUME RunnerTypeOK, NEW e \in Executions, Running(e) \/ Lost(e)
  PROVE  RunnerTypeOK'
<1>1. CASE Wait(e)
  BY <1>1 DEF RunnerTypeOK, Wait, database, transaction
<1>2. CASE ReadResult(e)
  BY <1>2 DEF RunnerTypeOK, ReadResult, Goto, database, transaction
<1>3. CASE Lost(e)
  BY <1>3, FailureTypes DEF Lost, Reasons
<1> QED
  BY <1>1, <1>2, <1>3, RunTypes, RevisionTypes, GrantTypes, CommitTypes DEF Running

-----------------------------------------------------------------------------
(* The theorem *)

WorkflowTypeOK ==
  /\ stage \in {"idle", "update job", "execute", "wait", "deploy", "smoke test"}
  /\ target \in Releases /\ job \in Releases
  /\ mine \in Executions \cup {Nobody}
  /\ service \in Releases \cup {0}

LEMMA StepTypes ==
  ASSUME TypeOK, Next
  PROVE  TypeOK'
<1> USE DEF WorkflowTypeOK
<1>1. RunnerTypeOK /\ WorkflowTypeOK /\ Releases \subseteq Revisions
  BY ReleasesAssumption DEF TypeOK
<1>2. ASSUME UNCHANGED <<database, runner>>
      PROVE  RunnerTypeOK'
  BY <1>1, <1>2 DEF RunnerTypeOK, database, runner, transaction
<1>3. ASSUME NEW r \in Releases, Dispatch(r)
      PROVE  TypeOK'
  BY <1>1, <1>2, <1>3 DEF TypeOK, Dispatch
<1>4. ASSUME UpdateJob \/ JobEnds \/ DeployApi \/ SmokeTest \/ Cancel
      PROVE  TypeOK'
  BY <1>1, <1>2, <1>4 DEF TypeOK, UpdateJob, JobEnds, DeployApi, SmokeTest, Cancel
<1>5. ASSUME NEW e \in Executions, ExecuteJob(e)
      PROVE  TypeOK'
  BY <1>1, <1>5, StartTypes DEF TypeOK, ExecuteJob
<1>6. ASSUME NEW e \in Executions, ExecuteByHand(e) \/ ExecuteLocally(e)
      PROVE  TypeOK'
  <2>1. WorkflowTypeOK'
    BY <1>1, <1>6 DEF ExecuteByHand, ExecuteLocally, workflow
  <2>2. RunnerTypeOK'
    BY <1>1, <1>6, StartTypes DEF ExecuteByHand, ExecuteLocally
  <2> QED
    BY <2>1, <2>2 DEF TypeOK
<1>7. ASSUME NEW e \in Executions, Running(e) \/ Lost(e), UNCHANGED workflow
      PROVE  TypeOK'
  BY <1>1, <1>7, RunnerTypes DEF TypeOK, workflow
<1> QED
  BY <1>3, <1>4, <1>5, <1>6, <1>7 DEF Next, Workflow

\* Every variable keeps its type: what is committed, recorded and granted are objects
\* and revisions of the scripts, and alembic never leaves the revisions there are.
THEOREM TypeCorrect == Spec => []TypeOK
<1>1. Init => TypeOK
  BY Lengths, ReleasesAssumption DEF Init, RunnerInit, TypeOK, RunnerTypeOK
<1>2. TypeOK /\ [Next]_vars => TypeOK'
  <2> SUFFICES ASSUME TypeOK, [Next]_vars PROVE TypeOK'
    OBVIOUS
  <2>1. CASE Next
    BY <2>1, StepTypes
  <2>2. CASE UNCHANGED vars
    BY <2>2 DEF TypeOK, RunnerTypeOK, vars, database, runner, workflow, transaction
  <2> QED
    BY <2>1, <2>2
<1> QED
  BY <1>1, <1>2, PTL DEF Spec

-----------------------------------------------------------------------------
(* The revisions as sets of objects *)

CoreNames ==
  {"source_type", "source_version_status", "message_role", "retrieval_terminal_state", "widget",
   "source_document", "source_version", "fk_source_document_active_version", "chunk",
   "conversation", "message", "retrieval_trace", "retrieval_trace_chunk",
   "enforce_source_version_transition", "trg_source_version_transition", "set_updated_at",
   "trg_widget_updated_at", "trg_source_document_updated_at", "trg_source_version_updated_at",
   "trg_conversation_updated_at", "trg_retrieval_trace_updated_at"}

\* What the elements of a sequence are.
Elements(s) == {s[i] : i \in 1..Len(s)}

LEMMA ElementsOfTuples ==
  ASSUME NEW X
  PROVE  /\ \A a \in X : Elements(<<a>>) = {a}
         /\ \A a, b \in X : Elements(<<a, b>>) = {a, b}
         /\ \A a, b, c \in X : Elements(<<a, b, c>>) = {a, b, c}
         /\ \A a, b, c, d \in X : Elements(<<a, b, c, d>>) = {a, b, c, d}
         /\ \A a, b, c, d, f \in X : Elements(<<a, b, c, d, f>>) = {a, b, c, d, f}
         /\ \A a, b, c, d, f, g, h, i \in X : Elements(<<a, b, c, d, f, g, h, i>>) = {a, b, c, d, f, g, h, i}
  BY DEF Elements

LEMMA ElementsOfConcat ==
  ASSUME NEW s \in Seq(Names), NEW t \in Seq(Names)
  PROVE  /\ Elements(s \o t) = Elements(s) \cup Elements(t) /\ s \o t \in Seq(Names)
         /\ Len(s) >= 1 => Len(s \o t) >= 1 /\ (s \o t)[1] = s[1]
<1>1. /\ Len(s) \in Nat /\ Len(t) \in Nat /\ Len(s \o t) = Len(s) + Len(t)
      /\ \A i \in 1..Len(s) : (s \o t)[i] = s[i]
      /\ \A i \in 1..Len(t) : (s \o t)[Len(s) + i] = t[i]
  OBVIOUS
<1>2. ASSUME NEW i \in 1..Len(s \o t) PROVE (s \o t)[i] \in Elements(s) \cup Elements(t)
  <2>1. CASE i <= Len(s)
    BY <1>1, <2>1 DEF Elements
  <2>2. CASE i > Len(s)
    <3> DEFINE j == i - Len(s)
    <3>1. j \in 1..Len(t) /\ i = Len(s) + j
      BY <1>1, <2>2
    <3> HIDE DEF j
    <3> QED
      BY <1>1, <3>1 DEF Elements
  <2> QED
    BY <1>1, <2>1, <2>2
<1>3. ASSUME NEW i \in 1..Len(s) PROVE s[i] \in Elements(s \o t)
  BY <1>1 DEF Elements
<1>4. ASSUME NEW i \in 1..Len(t) PROVE t[i] \in Elements(s \o t)
  <2>1. Len(s) + i \in 1..Len(s \o t)
    BY <1>1
  <2> QED
    BY <1>1, <2>1 DEF Elements
<1>5. Elements(s \o t) \subseteq Elements(s) \cup Elements(t)
  BY <1>2 DEF Elements
<1>6. Elements(s) \subseteq Elements(s \o t) /\ Elements(t) \subseteq Elements(s \o t)
  BY <1>3, <1>4 DEF Elements
<1> QED
  BY <1>1, <1>5, <1>6

LEMMA ElementsOfReverse ==
  ASSUME NEW s \in Seq(Names)
  PROVE  Elements(Reverse(s)) = Elements(s) /\ Reverse(s) \in Seq(Names)
<1>1. Len(s) \in Nat /\ \A i \in 1..Len(s) : s[i] \in Names
  OBVIOUS
<1>2. Reverse(s) = [i \in 1..Len(s) |-> s[(Len(s) - i) + 1]]
  BY DEF Reverse
<1>3. \A i \in 1..Len(s) : (Len(s) - i) + 1 \in 1..Len(s) /\ (Len(s) - ((Len(s) - i) + 1)) + 1 = i
  BY <1>1
<1>4. Len(Reverse(s)) = Len(s) /\ Reverse(s) \in Seq(Names)
  BY <1>1, <1>2, <1>3
<1> QED
  BY <1>2, <1>3, <1>4 DEF Elements

\* The objects that the statements of a script name.
Named(s) == {s[i].object : i \in 1..Len(s)}

LEMMA NamedByAll ==
  ASSUME NEW s \in Seq(Names)
  PROVE  Named(ForAll(Create, s)) = Elements(s) /\ Named(ForAll(Clear, s)) = Elements(s) /\ Named(ForAll(Drop, s)) = Elements(s)
<1>1. Len(s) \in Nat /\ DOMAIN s = 1..Len(s)
  OBVIOUS
<1>2. Named(ForAll(Create, s)) = Elements(s)
  <2>1. ForAll(Create, s) = [i \in 1..Len(s) |-> [does |-> "create", object |-> s[i]]]
    BY <1>1 DEF ForAll, Create
  <2>2. Len(ForAll(Create, s)) = Len(s)
    BY <1>1, <2>1
  <2> QED
    BY <2>1, <2>2 DEF Named, Elements
<1>3. Named(ForAll(Clear, s)) = Elements(s)
  <2>1. ForAll(Clear, s) = [i \in 1..Len(s) |-> [does |-> "clear", object |-> s[i]]]
    BY <1>1 DEF ForAll, Clear
  <2>2. Len(ForAll(Clear, s)) = Len(s)
    BY <1>1, <2>1
  <2> QED
    BY <2>1, <2>2 DEF Named, Elements
<1>4. Named(ForAll(Drop, s)) = Elements(s)
  <2>1. ForAll(Drop, s) = [i \in 1..Len(s) |-> [does |-> "drop", object |-> s[i]]]
    BY <1>1 DEF ForAll, Drop
  <2>2. Len(ForAll(Drop, s)) = Len(s)
    BY <1>1, <2>1
  <2> QED
    BY <2>1, <2>2 DEF Named, Elements
<1> QED
  BY <1>2, <1>3, <1>4

LEMMA NamedByConcat ==
  ASSUME NEW s \in Seq(Removal), NEW t \in Seq(Removal)
  PROVE  Named(s \o t) = Named(s) \cup Named(t)
<1>1. /\ Len(s) \in Nat /\ Len(t) \in Nat /\ Len(s \o t) = Len(s) + Len(t)
      /\ \A i \in 1..Len(s) : (s \o t)[i] = s[i]
      /\ \A i \in 1..Len(t) : (s \o t)[Len(s) + i] = t[i]
  OBVIOUS
<1>2. ASSUME NEW i \in 1..Len(s \o t) PROVE (s \o t)[i].object \in Named(s) \cup Named(t)
  <2>1. CASE i <= Len(s)
    BY <1>1, <2>1 DEF Named
  <2>2. CASE i > Len(s)
    <3> DEFINE j == i - Len(s)
    <3>1. j \in 1..Len(t) /\ i = Len(s) + j
      BY <1>1, <2>2
    <3> HIDE DEF j
    <3> QED
      BY <1>1, <3>1 DEF Named
  <2> QED
    BY <1>1, <2>1, <2>2
<1>3. ASSUME NEW i \in 1..Len(s) PROVE s[i].object \in Named(s \o t)
  BY <1>1 DEF Named
<1>4. ASSUME NEW i \in 1..Len(t) PROVE t[i].object \in Named(s \o t)
  <2>1. Len(s) + i \in 1..Len(s \o t)
    BY <1>1
  <2> QED
    BY <1>1, <2>1 DEF Named
<1>5. Named(s \o t) \subseteq Named(s) \cup Named(t)
  BY <1>2 DEF Named
<1>6. Named(s) \subseteq Named(s \o t) /\ Named(t) \subseteq Named(s \o t)
  BY <1>3, <1>4 DEF Named
<1> QED
  BY <1>5, <1>6

Begins(s) == s \in Seq(Names) /\ Len(s) >= 1 /\ s[1] = "source_type"
LEMMA CoreUpNames ==
  \E names \in Seq(Names) : CoreUp = ForAll(Create, names) /\ Elements(names) = CoreNames /\ names[1] = "source_type"
<1> DEFINE widget == <<"widget">>
           chunk == <<"chunk">>
           function == <<"set_updated_at">>
           first == Enums \o widget
           sources == first \o SourceObjects
           chunks == sources \o chunk
           chats == chunks \o ChatTables
           traces == chats \o TraceTables
           transition == traces \o TransitionTrigger
           functions == transition \o function
           names == functions \o UpdatedAtTriggers
<1>1. widget \in Seq(Names) /\ chunk \in Seq(Names) /\ function \in Seq(Names)
  BY CreatedNames
<1>2. Elements(widget) = {"widget"} /\ Elements(chunk) = {"chunk"} /\ Elements(function) = {"set_updated_at"}
  BY DEF Elements
<1>3. Elements(SourceObjects) = {"source_document", "source_version", "fk_source_document_active_version"}
  BY DEF Elements, SourceObjects, ActiveVersionConstraint
<1>4. /\ Elements(ChatTables) = {"conversation", "message"}
      /\ Elements(TraceTables) = {"retrieval_trace", "retrieval_trace_chunk"}
      /\ Elements(TransitionTrigger) = {"enforce_source_version_transition", "trg_source_version_transition"}
  BY DEF Elements, ChatTables, TraceTables, TransitionTrigger
<1>5. Elements(UpdatedAtTriggers) =
        {"trg_widget_updated_at", "trg_source_document_updated_at", "trg_source_version_updated_at",
         "trg_conversation_updated_at", "trg_retrieval_trace_updated_at"}
  BY DEF Elements, UpdatedAtTriggers
<1>6. /\ Elements(Enums) = {"source_type", "source_version_status", "message_role", "retrieval_terminal_state"}
      /\ Len(Enums) = 4 /\ Enums[1] = "source_type"
  BY DEF Elements, Enums
<1>7. CoreUp = ForAll(Create, names)
  BY DEF CoreUp
<1> HIDE DEF widget, chunk, function
<1>8. Begins(Enums)
  BY <1>6, EnumNames DEF Begins
<1>9. Begins(first) /\ Elements(first) = Elements(Enums) \cup Elements(widget)
  BY <1>1, <1>8, CreatedNames, UpdatedAtNames, ElementsOfConcat DEF Begins
<1> HIDE DEF first
<1>10. Begins(sources) /\ Elements(sources) = Elements(first) \cup Elements(SourceObjects)
  BY <1>1, <1>9, CreatedNames, UpdatedAtNames, ElementsOfConcat DEF Begins
<1> HIDE DEF sources
<1>11. Begins(chunks) /\ Elements(chunks) = Elements(sources) \cup Elements(chunk)
  BY <1>1, <1>10, CreatedNames, UpdatedAtNames, ElementsOfConcat DEF Begins
<1> HIDE DEF chunks
<1>12. Begins(chats) /\ Elements(chats) = Elements(chunks) \cup Elements(ChatTables)
  BY <1>1, <1>11, CreatedNames, UpdatedAtNames, ElementsOfConcat DEF Begins
<1> HIDE DEF chats
<1>13. Begins(traces) /\ Elements(traces) = Elements(chats) \cup Elements(TraceTables)
  BY <1>1, <1>12, CreatedNames, UpdatedAtNames, ElementsOfConcat DEF Begins
<1> HIDE DEF traces
<1>14. Begins(transition) /\ Elements(transition) = Elements(traces) \cup Elements(TransitionTrigger)
  BY <1>1, <1>13, CreatedNames, UpdatedAtNames, ElementsOfConcat DEF Begins
<1> HIDE DEF transition
<1>15. Begins(functions) /\ Elements(functions) = Elements(transition) \cup Elements(function)
  BY <1>1, <1>14, CreatedNames, UpdatedAtNames, ElementsOfConcat DEF Begins
<1> HIDE DEF functions
<1>16. Begins(names) /\ Elements(names) = Elements(functions) \cup Elements(UpdatedAtTriggers)
  BY <1>1, <1>15, CreatedNames, UpdatedAtNames, ElementsOfConcat DEF Begins
<1> HIDE DEF names
<1>17. Elements(names) = CoreNames
  BY <1>2, <1>3, <1>4, <1>5, <1>6, <1>9, <1>10, <1>11, <1>12, <1>13, <1>14, <1>15, <1>16 DEF CoreNames
<1> QED
  BY <1>7, <1>16, <1>17 DEF Begins

LEMMA CoreDownNames == Named(CoreDown) = CoreNames
<1> DEFINE functions == <<"set_updated_at", "trg_source_version_transition", "enforce_source_version_transition">>
           constraint == <<ActiveVersionConstraint>>
           rest == constraint \o TablesDown \o Reverse(Enums)
           clears == ForAll(Clear, TriggersDown)
           drops == ForAll(Drop, rest)
<1>1. /\ Elements(functions) = {"set_updated_at", "trg_source_version_transition", "enforce_source_version_transition"}
      /\ Elements(constraint) = {"fk_source_document_active_version"}
  BY DEF Elements, ActiveVersionConstraint
<1>2. functions \in Seq(Names) /\ constraint \in Seq(Names)
  <2>1. /\ "set_updated_at" \in Names /\ "trg_source_version_transition" \in Names
        /\ "enforce_source_version_transition" \in Names
    BY DEF Names
  <2> QED
    BY <2>1, Tuples, ConstraintName
<1>3. TriggersDown = UpdatedAtTriggers \o functions
  BY DEF TriggersDown
<1>4. CoreDown = clears \o drops
  BY DEF CoreDown
<1>5. Elements(TablesDown) =
        {"retrieval_trace_chunk", "retrieval_trace", "message", "conversation", "chunk", "source_version",
         "source_document", "widget"}
  BY DEF Elements, TablesDown
<1>6. Elements(Enums) = {"source_type", "source_version_status", "message_role", "retrieval_terminal_state"}
  BY DEF Elements, Enums
<1>7. Elements(UpdatedAtTriggers) =
        {"trg_widget_updated_at", "trg_source_document_updated_at", "trg_source_version_updated_at",
         "trg_conversation_updated_at", "trg_retrieval_trace_updated_at"}
  BY DEF Elements, UpdatedAtTriggers
<1> HIDE DEF functions, constraint
<1>8. /\ rest \in Seq(Names)
      /\ Elements(rest) = Elements(constraint) \cup Elements(TablesDown) \cup Elements(Enums)
  <2> DEFINE first == constraint \o TablesDown
             enums == Reverse(Enums)
  <2>1. first \in Seq(Names) /\ Elements(first) = Elements(constraint) \cup Elements(TablesDown)
    BY <1>2, TableNames, ElementsOfConcat
  <2>2. enums \in Seq(Names) /\ Elements(enums) = Elements(Enums)
    BY EnumNames, ElementsOfReverse
  <2>3. rest = first \o enums
    OBVIOUS
  <2> HIDE DEF first, enums, rest
  <2> QED
    BY <2>1, <2>2, <2>3, ElementsOfConcat
<1>9. TriggersDown \in Seq(Names) /\ Elements(TriggersDown) = Elements(UpdatedAtTriggers) \cup Elements(functions)
  BY <1>2, <1>3, UpdatedAtNames, ElementsOfConcat
<1> HIDE DEF rest
<1>10. Named(clears) = Elements(TriggersDown) /\ Named(drops) = Elements(rest)
  BY <1>8, <1>9, NamedByAll
<1>11. clears \in Seq(Removal) /\ drops \in Seq(Removal)
  BY <1>8, <1>9, Removals
<1> HIDE DEF clears, drops
<1>12. Named(clears \o drops) = Named(clears) \cup Named(drops)
  BY <1>11, NamedByConcat
<1> QED
  BY <1>1, <1>4, <1>5, <1>6, <1>7, <1>8, <1>9, <1>10, <1>12 DEF CoreNames

\* What a revision adds, and that its way down takes all of it back.
LEMMA RevisionSets ==
  /\ ObjectsOf(1) = {"vector"} /\ ObjectsOf(2) = CoreNames /\ ObjectsOf(3) = {"admin_user"}
  /\ \A r \in 1..3 : Named(Upgrade[r]) = ObjectsOf(r) /\ Named(Downgrade[r]) = ObjectsOf(r)
  /\ \A r \in 1..3 : Len(Upgrade[r]) >= 1 /\ Len(Downgrade[r]) >= 1
  /\ Upgrade[1][1].object = "vector"
  /\ Upgrade[2][1] = Create("source_type") /\ Upgrade[3][1] = Create("admin_user")
<1>1. Upgrade[1] = PgvectorUp /\ Upgrade[2] = CoreUp /\ Upgrade[3] = AdminUp
  BY DEF Upgrade
<1>2. Downgrade[1] = PgvectorDown /\ Downgrade[2] = CoreDown /\ Downgrade[3] = AdminDown
  BY DEF Downgrade
<1>3. \A r \in 1..3 : DOMAIN Upgrade[r] = 1..Len(Upgrade[r]) /\ Len(Upgrade[r]) \in Nat /\ Len(Downgrade[r]) \in Nat
  <2>1. \A r \in 1..3 : Upgrade[r] \in Seq(Creation) /\ Downgrade[r] \in Seq(Removal)
    BY UpgradesOnlyCreate, DowngradesOnlyRemove, Lengths
  <2> QED
    BY <2>1
<1>4. \A r \in 1..3 : ObjectsOf(r) = Named(Upgrade[r])
  BY <1>3 DEF ObjectsOf, Named
<1>5. /\ Named(PgvectorUp) = {"vector"} /\ Named(PgvectorDown) = {"vector"}
      /\ Named(AdminUp) = {"admin_user"} /\ Named(AdminDown) = {"admin_user"}
      /\ Len(PgvectorUp) >= 1 /\ Len(PgvectorDown) >= 1 /\ Len(AdminUp) >= 1 /\ Len(AdminDown) >= 1
      /\ PgvectorUp[1].object = "vector" /\ AdminUp[1] = Create("admin_user")
  BY DEF Named, PgvectorUp, PgvectorDown, AdminUp, AdminDown, Ensure, Create, Clear, Drop
<1>6. Named(CoreUp) = CoreNames /\ CoreUp[1] = Create("source_type") /\ Len(CoreUp) >= 1
  <2> PICK names \in Seq(Names) : CoreUp = ForAll(Create, names) /\ Elements(names) = CoreNames /\ names[1] = "source_type"
    BY CoreUpNames
  <2>1. Named(CoreUp) = CoreNames
    BY NamedByAll
  <2>2. Len(names) >= 1
    BY DEF Elements, CoreNames
  <2>3. CoreUp = [i \in 1..Len(names) |-> Create(names[i])] /\ Len(CoreUp) = Len(names)
    BY DEF ForAll
  <2>4. CoreUp[1] = Create(names[1])
    BY <2>2, <2>3
  <2> QED
    BY <2>1, <2>2, <2>3, <2>4
<1>7. Len(CoreDown) >= 1
  <2>1. Len(CoreDown) \in Nat
    BY <1>2, <1>3
  <2> QED
    BY <2>1, CoreDownNames DEF Named, CoreNames
<1>8. Named(Upgrade[1]) = {"vector"} /\ Named(Upgrade[2]) = CoreNames /\ Named(Upgrade[3]) = {"admin_user"}
  BY <1>1, <1>5, <1>6
<1>9. Named(Downgrade[1]) = {"vector"} /\ Named(Downgrade[2]) = CoreNames /\ Named(Downgrade[3]) = {"admin_user"}
  BY <1>2, <1>5, CoreDownNames
<1>10. 1..3 = {1, 2, 3}
  OBVIOUS
<1>11. \A r \in 1..3 : Len(Upgrade[r]) >= 1 /\ Len(Downgrade[r]) >= 1
  <2> SUFFICES ASSUME NEW r \in 1..3 PROVE Len(Upgrade[r]) >= 1 /\ Len(Downgrade[r]) >= 1
    OBVIOUS
  <2>1. CASE r = 1
    BY <1>1, <1>2, <1>5, <2>1
  <2>2. CASE r = 2
    BY <1>1, <1>2, <1>6, <1>7, <2>2
  <2>3. CASE r = 3
    BY <1>1, <1>2, <1>5, <2>3
  <2> QED
    BY <2>1, <2>2, <2>3
<1> QED
  BY <1>1, <1>4, <1>5, <1>6, <1>8, <1>9, <1>10, <1>11

LEMMA InstalledSets ==
  /\ Installed[0] = {} /\ Installed[1] = {"vector"} /\ Installed[2] = {"vector"} \cup CoreNames
  /\ Installed[3] = {"vector", "admin_user"} \cup CoreNames
<1>1. \A r \in 0..3 : Installed[r] = UNION {ObjectsOf(q) : q \in 1..r}
  BY Lengths DEF Installed
<1>2. 1..0 = {} /\ 1..1 = {1} /\ 1..2 = {1, 2} /\ 1..3 = {1, 2, 3}
  OBVIOUS
<1> QED
  BY <1>1, <1>2, RevisionSets

-----------------------------------------------------------------------------
(* What the schema is at, and what each execution can rely on.  On a server    *)
(* executions only go up, and whoever has run a statement of a script holds    *)
(* its first object, so no other can commit a script meanwhile; in a local     *)
(* environment an execution is alone.                                          *)

Reached(n) == \E r \in revision : r >= n
IsAt(r) ==
  /\ revision = {r} \ {0}
  /\ objects \ Baseline = Installed[r]
  /\ r > 0 => Baseline \subseteq objects
Current(e) == IsAt(origin[e])
Begun(e) == {Script(e)[i].object : i \in {j \in 1..Len(Script(e)) : j < step[e]}}

Alone ==
  IF appUser THEN \A e \in Executions : action[e] = "upgrade"
  ELSE \A e, f \in Executions : e # f => pc[e] \in Ended \/ pc[f] \in Ended
MadeApart ==
  /\ \A e \in Executions : made[e] \cap objects = {}
  /\ \A e, f \in Executions : e # f => made[e] \cap made[f] = {}
SchemaInv ==
  /\ \E r \in 0..3 : IsAt(r)
  /\ appUser /\ revision = {} => objects = {}
  /\ appUser /\ "admin_user" \in objects => {"rag_app", "admin_user"} \subseteq grants

\* Before and after the scripts.
Outside(e) ==
  /\ pc[e] \in Ended \cup {"read"} => made[e] = {} /\ dropped[e] = {} /\ ~moved[e] /\ step[e] = 1
  /\ pc[e] = "schema" =>
       /\ dropped[e] = {} /\ ~moved[e] /\ step[e] \in 1..2 /\ made[e] \subseteq {"rag_app"}
       /\ step[e] = 2 => "rag_app" \in Seen(e)
  /\ pc[e] = "table" =>
       /\ dropped[e] = {} /\ ~moved[e] /\ step[e] \in 1..2 /\ made[e] \subseteq Baseline /\ at[e] = origin[e]
       /\ "rag_app" \in Seen(e)
       /\ step[e] = 2 => "alembic_version" \in Seen(e)

\* The revision it read: from the first one on, it is alone already by the schema.
Reads(e) == pc[e] \in {"table", "script"} =>
  /\ origin[e] = 0 \/ Reached(origin[e])
  /\ origin[e] = 0 \/ ~appUser => Current(e)
  /\ origin[e] = 0 /\ appUser => "rag_app" \in made[e]

\* The scripts it has run so far.
Scripts(e) == pc[e] = "script" =>
  /\ moved[e] \/ at[e] = origin[e]
  /\ moved[e] \/ step[e] # 1 \/ made[e] \subseteq Baseline
  /\ moved[e] \/ step[e] > 1 => Current(e)
  /\ Script(e) = << >> => step[e] = 1
GoesUp(e) == pc[e] = "script" /\ action[e] = "upgrade" =>
  /\ dropped[e] = {} /\ Baseline \subseteq Seen(e)
  /\ moved[e] => at[e] > origin[e] /\ at[e] <= head[e]
  /\ Current(e) => Seen(e) \ Baseline = Installed[at[e]] \cup Begun(e)
GoesDown(e) == pc[e] = "script" /\ action[e] = "downgrade" =>
  /\ made[e] \subseteq Baseline
  /\ Seen(e) \ Baseline \subseteq Installed[at[e]]
  /\ Begun(e) \cap Seen(e) = {}

\* What it reports.
Reports(e) == appUser /\ pc[e] \in {"read", "done"} => Reached(head[e])

Own(e) == Outside(e) /\ Reads(e) /\ Scripts(e) /\ GoesUp(e) /\ GoesDown(e) /\ Reports(e)
RunnerInv == Alone /\ MadeApart /\ SchemaInv /\ \A e \in Executions : Own(e)

\* The workflow waits for the release it deploys, and serves what was reached.
WorkflowInv ==
  /\ stage # "idle" \/ service > 0 => appUser
  /\ stage = "execute" => job = target
  /\ stage = "wait" => mine \in Executions /\ head[mine] = target
  /\ stage = "deploy" => Reached(target)
  /\ service > 0 => Reached(service)

LEMMA RevisionRange == Newest = 3 /\ Revisions = 1..3 /\ DOMAIN Installed = 0..3
  BY Lengths DEF Installed

\* The script of an execution that has come to the scripts.
LEMMA ScriptOf ==
  ASSUME RunnerTypeOK, NEW e \in Executions, pc[e] = "script"
  PROVE  /\ action[e] = "upgrade" => Script(e) = IF at[e] < head[e] THEN Upgrade[at[e] + 1] ELSE << >>
         /\ action[e] = "downgrade" => Script(e) = IF at[e] > 0 THEN Downgrade[at[e]] ELSE << >>
         /\ Len(Script(e)) \in Nat
         /\ Script(e) # << >> => Len(Script(e)) >= 1
         /\ at[e] \in 0..3 /\ head[e] \in 1..3 /\ action[e] \in {"upgrade", "downgrade"} /\ step[e] \in Nat \ {0}
         /\ action[e] = "upgrade" /\ at[e] < head[e] => at[e] + 1 \in 1..3 /\ Script(e) # << >>
         /\ action[e] = "downgrade" /\ at[e] > 0 => at[e] \in 1..3 /\ Script(e) # << >>
<1>1. at[e] \in 0..3 /\ head[e] \in 1..3 /\ action[e] \in {"upgrade", "downgrade"} /\ step[e] \in Nat \ {0}
  BY RevisionRange DEF RunnerTypeOK
<1>2. /\ action[e] = "upgrade" => Script(e) = IF at[e] < head[e] THEN Upgrade[at[e] + 1] ELSE << >>
      /\ action[e] = "downgrade" => Script(e) = IF at[e] > 0 THEN Downgrade[at[e]] ELSE << >>
  BY <1>1 DEF Script
<1>3. /\ action[e] = "upgrade" /\ at[e] < head[e] => at[e] + 1 \in 1..3
      /\ action[e] = "downgrade" /\ at[e] > 0 => at[e] \in 1..3
  BY <1>1
<1>4. \A r \in 1..3 : /\ Len(Upgrade[r]) \in Nat /\ Len(Upgrade[r]) >= 1 /\ Upgrade[r] # << >>
                      /\ Len(Downgrade[r]) \in Nat /\ Len(Downgrade[r]) >= 1 /\ Downgrade[r] # << >>
  <2> SUFFICES ASSUME NEW r \in 1..3
               PROVE  /\ Len(Upgrade[r]) \in Nat /\ Len(Upgrade[r]) >= 1 /\ Upgrade[r] # << >>
                      /\ Len(Downgrade[r]) \in Nat /\ Len(Downgrade[r]) >= 1 /\ Downgrade[r] # << >>
    OBVIOUS
  <2>1. Upgrade[r] \in Seq(Creation) /\ Downgrade[r] \in Seq(Removal)
    BY UpgradesOnlyCreate, DowngradesOnlyRemove, RevisionRange
  <2>2. Len(Upgrade[r]) >= 1 /\ Len(Downgrade[r]) >= 1
    BY RevisionSets
  <2> QED
    BY <2>1, <2>2
<1>5. Len(<< >>) = 0
  OBVIOUS
<1>6. Len(Script(e)) \in Nat /\ (Script(e) # << >> => Len(Script(e)) >= 1)
  BY <1>1, <1>2, <1>3, <1>4, <1>5
<1> QED
  BY <1>1, <1>2, <1>3, <1>4, <1>6

\* The objects of a way up, none of them there before.
LEMMA NewNames ==
  /\ \A r \in 1..3 : ObjectsOf(r) \cap Baseline = {} /\ Installed[r] = Installed[r - 1] \cup ObjectsOf(r)
  /\ \A r \in 1..3 : Upgrade[r][1].object \in ObjectsOf(r) /\ Upgrade[r][1].object \notin Installed[r - 1]
  /\ \A r, q \in 0..3 : r <= q => Installed[r] \subseteq Installed[q]
  /\ \A r \in 0..3 : Installed[r] \cap Baseline = {}
  /\ Installed[0] = {} /\ "admin_user" \notin Installed[2] /\ "admin_user" \in Installed[3]
<1>1. /\ Installed[0] = {} /\ Installed[1] = {"vector"} /\ Installed[2] = {"vector"} \cup CoreNames
      /\ Installed[3] = {"vector", "admin_user"} \cup CoreNames
      /\ ObjectsOf(1) = {"vector"} /\ ObjectsOf(2) = CoreNames /\ ObjectsOf(3) = {"admin_user"}
  BY InstalledSets, RevisionSets
<1>2. CoreNames \cap Baseline = {} /\ "vector" \notin CoreNames /\ "admin_user" \notin CoreNames
      /\ "source_type" \in CoreNames /\ "vector" \notin Baseline /\ "admin_user" \notin Baseline
  BY DEF CoreNames, Baseline
<1>3. Upgrade[1][1].object = "vector" /\ Upgrade[2][1].object = "source_type" /\ Upgrade[3][1].object = "admin_user"
  BY RevisionSets DEF Create
<1>4. 0..3 = {0, 1, 2, 3} /\ 1..3 = {1, 2, 3}
  OBVIOUS
<1>5. \A r \in 1..3 : ObjectsOf(r) \cap Baseline = {}
  BY <1>1, <1>2, <1>4
<1>6. \A r \in 1..3 : Installed[r] = Installed[r - 1] \cup ObjectsOf(r)
  BY <1>1, <1>4
<1>7. \A r \in 1..3 : Upgrade[r][1].object \in ObjectsOf(r) /\ Upgrade[r][1].object \notin Installed[r - 1]
  BY <1>1, <1>2, <1>3, <1>4
<1>8. \A r, q \in 0..3 : r <= q => Installed[r] \subseteq Installed[q]
  BY <1>1, <1>4
<1>9. \A r \in 0..3 : Installed[r] \cap Baseline = {}
  BY <1>1, <1>2, <1>4
<1> QED
  BY <1>1, <1>2, <1>5, <1>6, <1>7, <1>8, <1>9

\* Where an execution stands in its script.
LEMMA BegunAll ==
  ASSUME RunnerTypeOK, NEW e \in Executions, pc[e] = "script", ~InScript(e)
  PROVE  Begun(e) = Named(Script(e))
  BY ScriptOf DEF Begun, Named, InScript

LEMMA BegunNone ==
  ASSUME RunnerTypeOK, NEW e \in Executions, pc[e] = "script", step[e] = 1
  PROVE  Begun(e) = {}
  BY ScriptOf DEF Begun

LEMMA BegunFirst ==
  ASSUME RunnerTypeOK, NEW e \in Executions, pc[e] = "script", step[e] > 1, Script(e) # << >>
  PROVE  Script(e)[1].object \in Begun(e)
  BY ScriptOf DEF Begun

\* What one execution has and how far it is; that its step disturbs no other.
Same(e) ==
  /\ pc'[e] = pc[e] /\ action'[e] = action[e] /\ head'[e] = head[e] /\ at'[e] = at[e] /\ step'[e] = step[e]
  /\ made'[e] = made[e] /\ dropped'[e] = dropped[e] /\ moved'[e] = moved[e] /\ origin'[e] = origin[e]

LEMMA SameOwn ==
  ASSUME NEW e \in Executions, Own(e), Same(e), UNCHANGED <<objects, revision, appUser>>
  PROVE  Own(e)'
<1>1. Script(e)' = Script(e)
  BY DEF Same, Script
<1>2. Begun(e)' = Begun(e)
  BY <1>1 DEF Begun, Same
<1>3. Seen(e)' = Seen(e) /\ Current(e)' = Current(e) /\ \A n : Reached(n)' = Reached(n)
  BY DEF Seen, Current, IsAt, Reached, Same
<1>4. Outside(e)'
  BY <1>3 DEF Own, Outside, Same
<1>5. Reads(e)'
  BY <1>3 DEF Own, Reads, Same, Reached
<1>6. Scripts(e)' /\ GoesUp(e)' /\ GoesDown(e)'
  BY <1>1, <1>2, <1>3 DEF Own, Scripts, GoesUp, GoesDown, Same
<1>7. Reports(e)'
  BY <1>3 DEF Own, Reports, Same, Reached
<1> QED
  BY <1>4, <1>5, <1>6, <1>7 DEF Own

-----------------------------------------------------------------------------
(* The steps of one execution *)

Elsewhere(f) == \A e \in Executions \ {f} : Same(e)

LEMMA StepKept ==
  ASSUME RunnerInv, NEW f \in Executions, UNCHANGED <<objects, revision, appUser, grants>>, Elsewhere(f), Own(f)', Alone',
         NEW o, made'[f] \subseteq made[f] \/ (made'[f] = made[f] \cup {o} /\ o \notin objects
                  /\ \A e \in Executions \ {f} : o \notin made[e])
  PROVE  RunnerInv'
<1>1. \A e \in Executions : Own(e)'
  BY SameOwn DEF RunnerInv, Elsewhere
<1>2. MadeApart'
  <2>1. \A e \in Executions : made'[e] \cap objects = {}
    BY DEF RunnerInv, MadeApart, Elsewhere, Same
  <2>2. \A e \in Executions \ {f} : made'[e] = made[e]
    BY DEF Elsewhere, Same
  <2>3. \A e \in Executions \ {f} : made'[e] \cap made'[f] = {}
    BY <2>2 DEF RunnerInv, MadeApart
  <2>4. \A e, g \in Executions \ {f} : e # g => made'[e] \cap made'[g] = {}
    BY <2>2 DEF RunnerInv, MadeApart
  <2> QED
    BY <2>1, <2>3, <2>4 DEF MadeApart
<1>3. SchemaInv'
  BY DEF RunnerInv, SchemaInv, IsAt
<1> QED
  BY <1>1, <1>2, <1>3 DEF RunnerInv

\* An execution that goes on, or ends, is alone if it was.
LEMMA AloneStays ==
  ASSUME RunnerInv, NEW f \in Executions, Elsewhere(f), UNCHANGED appUser, action'[f] = action[f],
         pc[f] \in Ended => pc'[f] \in Ended
  PROVE  Alone'
<1>1. \A e \in Executions : action'[e] = action[e] /\ (pc[e] \in Ended => pc'[e] \in Ended)
  BY DEF Elsewhere, Same
<1> QED
  BY <1>1 DEF RunnerInv, Alone

LEMMA FailsKept ==
  ASSUME RunnerTypeOK, RunnerInv, NEW f \in Executions, NEW why, Fails(f, why)
  PROVE  RunnerInv'
<1>1. /\ UNCHANGED <<objects, revision, appUser, grants>> /\ Elsewhere(f)
      /\ pc'[f] = "failed" /\ made'[f] = {} /\ dropped'[f] = {} /\ ~moved'[f] /\ step'[f] = 1
      /\ action'[f] = action[f]
  BY DEF Fails, Goto, EndTransaction, database, RunnerTypeOK, Elsewhere, Same
<1>2. Own(f)'
  BY <1>1 DEF Own, Outside, Reads, Scripts, GoesUp, GoesDown, Reports, Ended
<1>3. Alone'
  BY <1>1, AloneStays DEF Ended
<1> QED
  BY <1>1, <1>2, <1>3, StepKept

\* A step that only waits or grants.
LEMMA WaitKept ==
  ASSUME RunnerInv, NEW f \in Executions, UNCHANGED <<objects, revision, appUser, grants>>, \A e \in Executions : Same(e)
  PROVE  RunnerInv'
<1>1. Elsewhere(f) /\ Own(f)' /\ made'[f] = made[f] /\ Alone'
  BY SameOwn, AloneStays DEF Elsewhere, RunnerInv, Same
<1> QED
  BY <1>1, StepKept

LEMMA RunShape ==
  ASSUME RunnerTypeOK, NEW f \in Executions, Run(f), \A why \in Errors(f, Statement(f)) : ~Fails(f, why)
  PROVE  /\ InScript(f) /\ UNCHANGED <<objects, revision, appUser, grants>> /\ Elsewhere(f)
         /\ pc'[f] = pc[f] /\ action'[f] = action[f] /\ head'[f] = head[f] /\ at'[f] = at[f]
         /\ moved'[f] = moved[f] /\ origin'[f] = origin[f] /\ step'[f] = step[f] + 1
         /\ Adds(Statement(f)) =>
              /\ Seen(f)' = Seen(f) \cup {Statement(f).object} /\ dropped'[f] = dropped[f]
              /\ \/ made'[f] = made[f]
                 \/ /\ made'[f] = made[f] \cup {Statement(f).object}
                    /\ Statement(f).object \notin Seen(f) /\ Statement(f).object \notin Touched(f)
         /\ ~Adds(Statement(f)) =>
              made'[f] \subseteq made[f] /\ Seen(f)' \subseteq Seen(f) /\ Statement(f).object \notin Seen(f)'
<1> DEFINE s == Statement(f)
           o == s.object
           gone == {o} \cup {p \in Objects : Owner[p] = o}
<1>1. /\ InScript(f) /\ ~MustWait(f, s) /\ Advance(f)
      /\ UNCHANGED <<database, pc, action, head, at, granted, moved, origin, reason, overtaken>>
  BY DEF Run
<1>2. step'[f] = step[f] + 1 /\ \A e \in Executions \ {f} : step'[e] = step[e]
  BY <1>1 DEF Advance, RunnerTypeOK
<1>3. \/ Skipped(f, s) /\ UNCHANGED <<made, dropped>>
      \/ /\ ~Skipped(f, s) /\ Errors(f, s) = {}
         /\ made' = [made EXCEPT ![f] = IF Adds(s) THEN @ \cup {o} ELSE @ \ gone]
         /\ dropped' = [dropped EXCEPT ![f] = IF Adds(s) THEN @ ELSE @ \cup (gone \cap objects)]
  BY DEF Run
<1> HIDE DEF gone
<1>4. \A e \in Executions \ {f} : made'[e] = made[e] /\ dropped'[e] = dropped[e]
  BY <1>3 DEF RunnerTypeOK
<1>5. Elsewhere(f)
  BY <1>1, <1>2, <1>4 DEF Elsewhere, Same
<1>6. objects' = objects
  BY <1>1 DEF database
<1>7. o \in gone
  BY DEF gone
<1>8. CASE Skipped(f, s) /\ UNCHANGED <<made, dropped>>
  <2>1. Seen(f)' = Seen(f)
    BY <1>6, <1>8 DEF Seen
  <2>2. (Adds(s) => o \in Seen(f)) /\ (~Adds(s) => o \notin Seen(f))
    BY <1>8 DEF Skipped, Adds
  <2> QED
    BY <1>1, <1>2, <1>5, <1>8, <2>1, <2>2 DEF database
<1>9. CASE /\ ~Skipped(f, s) /\ Errors(f, s) = {}
           /\ made' = [made EXCEPT ![f] = IF Adds(s) THEN @ \cup {o} ELSE @ \ gone]
           /\ dropped' = [dropped EXCEPT ![f] = IF Adds(s) THEN @ ELSE @ \cup (gone \cap objects)]
  <2>1. /\ made'[f] = IF Adds(s) THEN made[f] \cup {o} ELSE made[f] \ gone
        /\ dropped'[f] = IF Adds(s) THEN dropped[f] ELSE dropped[f] \cup (gone \cap objects)
    BY <1>9 DEF RunnerTypeOK
  <2>2. CASE Adds(s)
    <3>1. o \notin Seen(f)
      BY <1>9, <2>2 DEF Errors
    <3>2. o \notin Touched(f)
      BY <1>1, <3>1 DEF MustWait, Locked
    <3>3. Seen(f)' = Seen(f) \cup {o}
      BY <1>6, <2>1, <2>2 DEF Seen
    <3> QED
      BY <1>1, <1>2, <1>5, <2>1, <2>2, <3>1, <3>2, <3>3 DEF database
  <2>3. CASE ~Adds(s)
    <3>1. Seen(f)' = Seen(f) \ gone
      BY <1>6, <2>1, <2>3 DEF Seen
    <3> QED
      BY <1>1, <1>2, <1>5, <1>7, <2>1, <2>3, <3>1 DEF database
  <2> QED
    BY <2>2, <2>3
<1> QED
  BY <1>3, <1>8, <1>9

LEMMA BegunNext ==
  ASSUME RunnerTypeOK, NEW f \in Executions, pc[f] = "script", InScript(f), step'[f] = step[f] + 1,
         pc'[f] = pc[f], action'[f] = action[f], head'[f] = head[f], at'[f] = at[f]
  PROVE  Script(f)' = Script(f) /\ Begun(f)' = Begun(f) \cup {Statement(f).object}
<1>1. Script(f)' = Script(f)
  BY DEF Script
<1>2. step[f] \in Nat \ {0} /\ Len(Script(f)) \in Nat /\ step[f] <= Len(Script(f))
  BY ScriptOf DEF InScript
<1>3. {j \in 1..Len(Script(f)) : j < step[f] + 1} = {j \in 1..Len(Script(f)) : j < step[f]} \cup {step[f]}
  BY <1>2
<1> QED
  BY <1>1, <1>3 DEF Begun, Statement

\* A statement of a way up that takes effect is run on the revision it was read for: the
\* first object of a script that another execution has committed exists.
LEMMA RunsCurrent ==
  ASSUME RunnerTypeOK, RunnerInv, NEW f \in Executions, pc[f] = "script", Run(f),
         \A why \in Errors(f, Statement(f)) : ~Fails(f, why)
  PROVE  Current(f)
<1>1. SUFFICES ASSUME appUser, ~moved[f], step[f] = 1, ~Current(f)
               PROVE  FALSE
  <2>1. step[f] \in Nat \ {0}
    BY ScriptOf
  <2> QED
    BY <2>1 DEF RunnerInv, Own, Reads, Scripts
<1>2. action[f] = "upgrade" /\ at[f] = origin[f] /\ origin[f] # 0 /\ Reached(origin[f]) /\ dropped[f] = {}
  BY <1>1 DEF RunnerInv, Alone, Own, Reads, Scripts, GoesUp
<1>3. InScript(f)
  BY RunShape
<1>4. Script(f) = Upgrade[at[f] + 1] /\ at[f] + 1 \in 1..3 /\ at[f] \in 0..3
  BY <1>2, <1>3, <1>1, ScriptOf DEF InScript
<1>5. PICK q \in 0..3 : IsAt(q)
  BY DEF RunnerInv, SchemaInv
<1>6. q > origin[f]
  BY <1>1, <1>2, <1>4, <1>5 DEF Reached, IsAt, Current
<1>7. Statement(f).object \in Seen(f)
  <2>1. Statement(f).object \in Installed[at[f] + 1]
    BY <1>1, <1>4, NewNames DEF Statement
  <2>2. Installed[at[f] + 1] \subseteq Installed[q]
    BY <1>2, <1>4, <1>6, NewNames
  <2> QED
    BY <1>2, <1>5, <2>1, <2>2 DEF IsAt, Seen
<1>8. Statement(f).does = "create"
  <2>1. at[f] + 1 \in {2, 3}
    BY <1>2, <1>4
  <2>2. Upgrade[2][1].does = "create" /\ Upgrade[3][1].does = "create"
    BY RevisionSets DEF Create
  <2> QED
    BY <1>1, <1>4, <2>1, <2>2 DEF Statement
<1>9. ~Skipped(f, Statement(f)) /\ "exists" \in Errors(f, Statement(f))
  BY <1>7, <1>8 DEF Skipped, Errors, Adds
<1> QED
  BY <1>9 DEF Run

LEMMA RunKept ==
  ASSUME RunnerTypeOK, RunnerInv, NEW f \in Executions, Run(f)
  PROVE  RunnerInv'
<1> SUFFICES ASSUME \A why \in Errors(f, Statement(f)) : ~Fails(f, why) PROVE RunnerInv'
  BY FailsKept
<1> DEFINE s == Statement(f)
           o == s.object
<1>1. /\ InScript(f) /\ UNCHANGED <<objects, revision, appUser, grants>> /\ Elsewhere(f)
      /\ pc'[f] = pc[f] /\ action'[f] = action[f] /\ head'[f] = head[f] /\ at'[f] = at[f]
      /\ moved'[f] = moved[f] /\ origin'[f] = origin[f] /\ step'[f] = step[f] + 1
  BY RunShape
<1>2. Adds(s) =>
        /\ Seen(f)' = Seen(f) \cup {o} /\ dropped'[f] = dropped[f]
        /\ made'[f] = made[f] \/ (made'[f] = made[f] \cup {o} /\ o \notin Seen(f) /\ o \notin Touched(f))
  BY RunShape
<1>3. ~Adds(s) => made'[f] \subseteq made[f] /\ Seen(f)' \subseteq Seen(f) /\ o \notin Seen(f)'
  BY RunShape
<1>4. Own(f) /\ Alone' /\ pc[f] \in {"schema", "table", "script"}
  BY <1>1, AloneStays DEF RunnerInv, InScript
<1>5. (\A n : Reached(n)' = Reached(n)) /\ Current(f)' = Current(f)
  BY <1>1 DEF Reached, Current, IsAt
<1>6. made'[f] \subseteq made[f] \cup {o}
  BY <1>2, <1>3
<1>7. step[f] \in Nat \ {0} /\ at[f] \in 0..3
  BY RevisionRange DEF RunnerTypeOK
<1>8. dropped[f] = {} => (o \notin Seen(f) => o \notin objects)
  BY DEF Seen
<1> HIDE DEF s
<1>9. Own(f)' /\ (Adds(s) => dropped[f] = {})
  <2>1. CASE pc[f] = "schema"
    <3>1. Script(f) = <<Ensure("rag_app")>>
      BY <2>1 DEF Script
    <3>2. step[f] = 1 /\ s = Ensure("rag_app")
      BY <1>1, <1>7, <3>1 DEF InScript, s, Statement
    <3>3. Adds(s) /\ o = "rag_app"
      BY <3>2 DEF Adds, Ensure
    <3>4. Outside(f)'
      BY <1>1, <1>2, <1>4, <2>1, <3>2, <3>3 DEF Own, Outside, Ended
    <3> QED
      BY <1>1, <1>4, <2>1, <3>4 DEF Own, Outside, Reads, Scripts, GoesUp, GoesDown, Reports
  <2>2. CASE pc[f] = "table"
    <3>1. Script(f) = IF at[f] = 0 THEN <<Ensure("alembic_version")>> ELSE << >>
      BY <2>2 DEF Script
    <3>2. step[f] = 1 /\ s = Ensure("alembic_version")
      BY <1>1, <1>7, <3>1 DEF InScript, s, Statement
    <3>3. Adds(s) /\ o = "alembic_version" /\ o \in Baseline
      BY <3>2 DEF Adds, Ensure, Baseline
    <3>4. Outside(f)'
      BY <1>1, <1>2, <1>4, <2>2, <3>2, <3>3 DEF Own, Outside, Ended
    <3>5. Reads(f)'
      BY <1>1, <1>2, <1>4, <1>5, <2>2, <3>3 DEF Own, Reads
    <3> QED
      BY <1>1, <1>4, <2>2, <3>4, <3>5 DEF Own, Outside, Scripts, GoesUp, GoesDown, Reports
  <2>3. CASE pc[f] = "script"
    <3>1. Current(f)
      BY <2>3, RunsCurrent
    <3>2. Script(f)' = Script(f) /\ Begun(f)' = Begun(f) \cup {o}
      BY <1>1, <2>3, BegunNext DEF s
    <3>3. Script(f) # << >>
      BY <1>1, <1>7 DEF InScript
    <3>4. Outside(f)' /\ Reports(f)'
      BY <1>1, <2>3 DEF Outside, Reports, Ended
    <3>5. Scripts(f)'
      BY <1>1, <1>4, <1>5, <1>7, <2>3, <3>1, <3>2, <3>3 DEF Own, Scripts
    <3>6. CASE action[f] = "upgrade"
      <4>1. Script(f) = Upgrade[at[f] + 1] /\ at[f] + 1 \in 1..3
        BY <2>3, <3>3, <3>6, ScriptOf
      <4>2. s \in Creation /\ o \in ObjectsOf(at[f] + 1)
        <5>1. Upgrade[at[f] + 1] \in Seq(Creation)
          BY <4>1, UpgradesOnlyCreate, RevisionRange
        <5>2. step[f] \in 1..Len(Upgrade[at[f] + 1])
          BY <1>1, <1>7, <4>1, <5>1 DEF InScript
        <5> QED
          BY <4>1, <5>1, <5>2 DEF s, Statement, ObjectsOf
      <4>3. Adds(s)
        BY <4>2 DEF Adds, Creation
      <4>4. o \notin Baseline
        BY <4>1, <4>2, NewNames
      <4>5. Reads(f)'
        BY <1>1, <1>2, <1>4, <1>5, <2>3, <4>3 DEF Own, Reads
      <4>6. GoesUp(f)'
        <5>1. Seen(f) \ Baseline = Installed[at[f]] \cup Begun(f) /\ dropped[f] = {} /\ Baseline \subseteq Seen(f)
          BY <1>4, <2>3, <3>1, <3>6 DEF Own, GoesUp
        <5>2. Seen(f)' \ Baseline = Installed[at[f]] \cup Begun(f)' /\ dropped'[f] = {} /\ Baseline \subseteq Seen(f)'
          BY <1>2, <3>2, <4>3, <4>4, <5>1
        <5>3. moved[f] => at[f] > origin[f] /\ at[f] <= head[f]
          BY <1>4, <2>3, <3>6 DEF Own, GoesUp
        <5> QED
          BY <1>1, <5>2, <5>3 DEF GoesUp
      <4>7. dropped[f] = {}
        BY <1>4, <2>3, <3>6 DEF Own, GoesUp
      <4> QED
        BY <1>1, <3>4, <3>5, <3>6, <4>5, <4>6, <4>7 DEF Own, GoesDown
    <3>7. CASE action[f] = "downgrade"
      <4>1. Script(f) = Downgrade[at[f]] /\ at[f] \in 1..3
        BY <2>3, <3>3, <3>7, ScriptOf
      <4>2. s \in Removal
        <5>1. Downgrade[at[f]] \in Seq(Removal)
          BY <4>1, DowngradesOnlyRemove, RevisionRange
        <5> QED
          BY <1>1, <1>7, <4>1, <5>1 DEF s, Statement, InScript
      <4>3. ~Adds(s) /\ ~appUser
        BY <3>7, <4>2 DEF Adds, Removal, RunnerInv, Alone
      <4>4. Reads(f)'
        BY <1>1, <1>4, <1>5, <2>3, <4>3 DEF Own, Reads
      <4>5. GoesDown(f)'
        BY <1>1, <1>3, <1>4, <2>3, <3>2, <3>7, <4>3 DEF Own, GoesDown
      <4> QED
        BY <1>1, <3>4, <3>5, <3>7, <4>3, <4>4, <4>5 DEF Own, GoesUp
    <3> QED
      BY <2>3, <3>6, <3>7, ScriptOf
  <2> QED
    BY <1>4, <2>1, <2>2, <2>3
<1>10. CASE made'[f] = made[f] \cup {o} /\ o \notin objects /\ \A e \in Executions \ {f} : o \notin made[e]
  BY <1>1, <1>4, <1>9, <1>10, StepKept
<1>11. CASE made'[f] \subseteq made[f]
  BY <1>1, <1>4, <1>9, <1>11, StepKept
<1> QED
  BY <1>2, <1>3, <1>8, <1>9, <1>10, <1>11 DEF Touched

LEMMA ReadRevisionKept ==
  ASSUME RunnerTypeOK, RunnerInv, NEW f \in Executions, ReadRevision(f)
  PROVE  RunnerInv'
<1> SUFFICES ASSUME ~Fails(f, "unknown") PROVE RunnerInv'
  BY FailsKept
<1>1. PICK r \in (IF revision = {} THEN {0} ELSE revision) :
        at' = [at EXCEPT ![f] = r] /\ origin' = [origin EXCEPT ![f] = r]
  BY DEF ReadRevision
<1>2. /\ pc[f] = "schema" /\ ~InScript(f) /\ pc'[f] = "table" /\ at'[f] = r /\ origin'[f] = r /\ step'[f] = 1
      /\ Elsewhere(f) /\ UNCHANGED <<objects, revision, appUser, grants>>
      /\ action'[f] = action[f] /\ head'[f] = head[f] /\ made'[f] = made[f] /\ dropped'[f] = dropped[f] /\ moved'[f] = moved[f]
  BY <1>1 DEF ReadRevision, Goto, RunnerTypeOK, Elsewhere, Same, database
<1>3. Own(f) /\ Alone'
  BY <1>2, AloneStays DEF RunnerInv, Ended
<1>4. step[f] = 2
  <2>1. Script(f) = <<Ensure("rag_app")>>
    BY <1>2 DEF Script
  <2> QED
    BY <1>2, <1>3, <2>1 DEF Own, Outside, InScript
<1>5. dropped[f] = {} /\ made[f] \subseteq {"rag_app"} /\ "rag_app" \in Seen(f) /\ ~moved[f]
  BY <1>2, <1>3, <1>4 DEF Own, Outside
<1>6. IsAt(r) /\ r \in 0..3
  BY DEF RunnerInv, SchemaInv, IsAt
<1>7. Seen(f)' = Seen(f) /\ Current(f)' /\ Reached(r)' = Reached(r)
  BY <1>2, <1>6 DEF Seen, Current, IsAt, Reached
<1>8. Outside(f)'
  BY <1>2, <1>5, <1>7 DEF Outside, Ended, Baseline
<1>9. r = 0 \/ Reached(r)
  BY <1>6 DEF Reached, IsAt
<1>10. r = 0 /\ appUser => "rag_app" \in made[f]
  <2>1. r = 0 => revision = {}
    BY <1>6 DEF IsAt
  <2> QED
    BY <1>5, <2>1 DEF RunnerInv, SchemaInv, Seen
<1>11. Reads(f)'
  BY <1>2, <1>7, <1>9, <1>10 DEF Reads, Reached
<1>12. Own(f)'
  BY <1>2, <1>8, <1>11 DEF Own, Scripts, GoesUp, GoesDown, Reports
<1> QED
  BY <1>2, <1>3, <1>12, StepKept

\* Past the first revision the schema and the version table are there.
LEMMA BaselineThere ==
  ASSUME RunnerInv, NEW f \in Executions, pc[f] \in {"table", "script"}, origin[f] # 0, origin[f] \in 0..3
  PROVE  Baseline \subseteq objects
<1>1. Reached(origin[f])
  BY DEF RunnerInv, Own, Reads
<1>2. PICK q \in 0..3 : IsAt(q)
  BY DEF RunnerInv, SchemaInv
<1> QED
  BY <1>1, <1>2 DEF IsAt, Reached

LEMMA BeginScriptsKept ==
  ASSUME RunnerTypeOK, RunnerInv, NEW f \in Executions, BeginScripts(f)
  PROVE  RunnerInv'
<1>1. /\ pc[f] = "table" /\ ~InScript(f) /\ pc'[f] = "script" /\ step'[f] = 1
      /\ Elsewhere(f) /\ UNCHANGED <<objects, revision, appUser, grants>>
      /\ action'[f] = action[f] /\ head'[f] = head[f] /\ at'[f] = at[f] /\ origin'[f] = origin[f]
      /\ made'[f] = made[f] /\ dropped'[f] = dropped[f] /\ moved'[f] = moved[f]
  BY DEF BeginScripts, Goto, RunnerTypeOK, Elsewhere, Same, database, transaction
<1>2. Own(f) /\ Alone'
  BY <1>1, AloneStays DEF RunnerInv, Ended
<1>3. /\ dropped[f] = {} /\ ~moved[f] /\ made[f] \subseteq Baseline /\ at[f] = origin[f] /\ "rag_app" \in Seen(f)
      /\ step[f] \in 1..2 /\ (step[f] = 2 => "alembic_version" \in Seen(f))
  BY <1>1, <1>2 DEF Own, Outside
<1>4. at[f] \in 0..3 /\ action[f] \in {"upgrade", "downgrade"}
  BY RevisionRange DEF RunnerTypeOK
<1>5. Baseline \subseteq Seen(f)
  <2>1. CASE origin[f] = 0
    <3>1. Script(f) = <<Ensure("alembic_version")>>
      BY <1>1, <1>3, <2>1 DEF Script
    <3>2. step[f] = 2
      BY <1>1, <1>3, <3>1 DEF InScript
    <3> QED
      BY <1>3, <3>2 DEF Baseline
  <2>2. CASE origin[f] # 0
    BY <1>1, <1>3, <1>4, <2>2, BaselineThere DEF Seen
  <2> QED
    BY <2>1, <2>2
<1>6. Seen(f)' = Seen(f) /\ Current(f)' = Current(f) /\ Reached(origin[f])' = Reached(origin[f])
  BY <1>1 DEF Seen, Current, IsAt, Reached
<1>7. Begun(f)' = {}
  <2>1. Begun(f)' = {Script(f)'[i].object : i \in {j \in 1..Len(Script(f)') : j < 1}}
    BY <1>1 DEF Begun
  <2>2. \A n : {j \in 1..n : j < 1} = {}
    OBVIOUS
  <2> QED
    BY <2>1, <2>2
<1>8. Current(f) => Seen(f) \ Baseline = Installed[at[f]]
  BY <1>3 DEF Current, IsAt, Seen
<1>9. Reads(f)'
  BY <1>1, <1>2, <1>6 DEF Own, Reads, Reached
<1>10. GoesUp(f)'
  BY <1>1, <1>3, <1>5, <1>6, <1>7, <1>8 DEF GoesUp
<1>11. GoesDown(f)'
  <2>1. action[f] = "downgrade" => ~appUser
    BY DEF RunnerInv, Alone
  <2>2. action[f] = "downgrade" => Current(f)
    BY <1>1, <1>2, <2>1 DEF Own, Reads
  <2> QED
    BY <1>1, <1>3, <1>6, <1>7, <1>8, <2>2 DEF GoesDown
<1>12. Own(f)'
  BY <1>1, <1>3, <1>9, <1>10, <1>11 DEF Own, Outside, Scripts, Reports, Ended
<1> QED
  BY <1>1, <1>2, <1>12, StepKept

LEMMA StampKept ==
  ASSUME RunnerTypeOK, RunnerInv, NEW f \in Executions, Stamp(f)
  PROVE  RunnerInv'
<1> SUFFICES ASSUME ~Fails(f, "missing") PROVE RunnerInv'
  BY FailsKept
<1>1. /\ pc[f] = "script" /\ ~InScript(f) /\ Script(f) # << >>
      /\ pc'[f] = "script" /\ step'[f] = 1 /\ moved'[f]
      /\ at'[f] = IF action[f] = "upgrade" THEN at[f] + 1 ELSE at[f] - 1
      /\ Elsewhere(f) /\ UNCHANGED <<objects, revision, appUser, grants>>
      /\ action'[f] = action[f] /\ head'[f] = head[f] /\ origin'[f] = origin[f]
      /\ made'[f] = made[f] /\ dropped'[f] = dropped[f]
  BY DEF Stamp, RunnerTypeOK, Elsewhere, Same, database
<1>2. Own(f) /\ Alone'
  BY <1>1, AloneStays DEF RunnerInv, Ended
<1>3. Current(f)
  <2>1. step[f] > 1
    BY <1>1, ScriptOf DEF InScript
  <2> QED
    BY <1>1, <1>2, <2>1 DEF Own, Scripts
<1>4. Seen(f)' = Seen(f) /\ Current(f)' /\ Reached(origin[f])' = Reached(origin[f])
  BY <1>1, <1>3 DEF Seen, Current, IsAt, Reached
<1>5. Begun(f)' = {}
  <2>1. Begun(f)' = {Script(f)'[i].object : i \in {j \in 1..Len(Script(f)') : j < 1}}
    BY <1>1 DEF Begun
  <2>2. \A n : {j \in 1..n : j < 1} = {}
    OBVIOUS
  <2> QED
    BY <2>1, <2>2
<1>6. Begun(f) = Named(Script(f))
  BY <1>1, BegunAll
<1>7. Outside(f)' /\ Scripts(f)' /\ Reports(f)'
  BY <1>1, <1>4 DEF Outside, Scripts, Reports, Ended
<1>8. Reads(f)'
  BY <1>1, <1>2, <1>4 DEF Own, Reads, Reached
<1>9. CASE action[f] = "upgrade"
  <2>1. Script(f) = Upgrade[at[f] + 1] /\ at[f] < head[f] /\ at[f] + 1 \in 1..3 /\ at[f] \in 0..3 /\ head[f] \in 1..3
    BY <1>1, <1>9, ScriptOf
  <2>2. Installed[at[f] + 1] = Installed[at[f]] \cup Begun(f)
    <3>1. (at[f] + 1) - 1 = at[f]
      BY <2>1
    <3>2. Named(Upgrade[at[f] + 1]) = ObjectsOf(at[f] + 1)
      BY <2>1, RevisionSets
    <3>3. Installed[at[f] + 1] = Installed[(at[f] + 1) - 1] \cup ObjectsOf(at[f] + 1)
      BY <2>1, NewNames
    <3> QED
      BY <1>6, <2>1, <3>1, <3>2, <3>3
  <2>3. dropped[f] = {} /\ Baseline \subseteq Seen(f) /\ Seen(f) \ Baseline = Installed[at[f] + 1]
    BY <1>1, <1>2, <1>3, <1>9, <2>2 DEF Own, GoesUp
  <2>4. at[f] >= origin[f]
    <3>1. origin[f] \in 0..3
      BY RevisionRange DEF RunnerTypeOK
    <3> QED
      BY <1>1, <1>2, <1>9, <2>1, <3>1 DEF Own, GoesUp, Scripts
  <2>5. at[f] + 1 > origin[f] /\ at[f] + 1 <= head[f]
    <3>1. origin[f] \in 0..3
      BY RevisionRange DEF RunnerTypeOK
    <3> QED
      BY <2>1, <2>4, <3>1
  <2>6. GoesUp(f)'
    BY <1>1, <1>4, <1>5, <1>9, <2>3, <2>5 DEF GoesUp
  <2>7. Own(f)'
    BY <1>1, <1>7, <1>8, <1>9, <2>6 DEF Own, GoesDown
  <2> QED
    BY <1>1, <1>2, <2>7, StepKept
<1>10. CASE action[f] = "downgrade"
  <2>1. Script(f) = Downgrade[at[f]] /\ at[f] \in 1..3
    BY <1>1, <1>10, ScriptOf
  <2>2. Installed[at[f]] = Installed[at[f] - 1] \cup Begun(f)
    BY <1>6, <2>1, RevisionSets, NewNames
  <2>3. made[f] \subseteq Baseline /\ Seen(f) \ Baseline \subseteq Installed[at[f] - 1]
    BY <1>1, <1>2, <1>10, <2>2 DEF Own, GoesDown
  <2>4. GoesDown(f)'
    BY <1>1, <1>4, <1>5, <1>10, <2>3 DEF GoesDown
  <2>5. Own(f)'
    BY <1>1, <1>7, <1>8, <1>10, <2>4 DEF Own, GoesUp
  <2> QED
    BY <1>1, <1>2, <2>5, StepKept
<1> QED
  BY <1>1, <1>9, <1>10, ScriptOf

LEMMA ReadResultKept ==
  ASSUME RunnerTypeOK, RunnerInv, NEW f \in Executions, ReadResult(f)
  PROVE  RunnerInv'
<1>1. /\ pc[f] = "read" /\ pc'[f] \in {"done", "failed"} /\ Elsewhere(f)
      /\ UNCHANGED <<objects, revision, appUser, grants>>
      /\ action'[f] = action[f] /\ head'[f] = head[f] /\ step'[f] = step[f]
      /\ made'[f] = made[f] /\ dropped'[f] = dropped[f] /\ moved'[f] = moved[f]
  BY DEF ReadResult, Goto, RunnerTypeOK, Elsewhere, Same, database, transaction
<1>2. Own(f) /\ Alone'
  BY <1>1, AloneStays DEF RunnerInv, Ended
<1>3. Own(f)'
  BY <1>1, <1>2 DEF Own, Outside, Reads, Scripts, GoesUp, GoesDown, Reports, Ended, Reached
<1> QED
  BY <1>1, <1>2, <1>3, StepKept

LEMMA StartKept ==
  ASSUME RunnerTypeOK, RunnerInv, NEW f \in Executions, NEW command, NEW image, Start(f, command, image),
         appUser => command = "upgrade",
         ~appUser => \A e \in Executions : pc[e] \in Ended
  PROVE  RunnerInv'
<1>1. /\ pc[f] \in Ended /\ pc'[f] = "schema" /\ action'[f] = command /\ Elsewhere(f)
      /\ UNCHANGED <<objects, revision, appUser, grants>>
      /\ step'[f] = step[f] /\ made'[f] = made[f] /\ dropped'[f] = dropped[f] /\ moved'[f] = moved[f]
  BY DEF Start, Goto, RunnerTypeOK, Elsewhere, Same, database, transaction
<1>2. Own(f)
  BY DEF RunnerInv
<1>3. Own(f)'
  BY <1>1, <1>2 DEF Own, Outside, Reads, Scripts, GoesUp, GoesDown, Reports, Ended
<1>4. Alone'
  <2>1. \A e \in Executions \ {f} : pc'[e] = pc[e] /\ action'[e] = action[e]
    BY <1>1 DEF Elsewhere, Same
  <2> QED
    BY <1>1, <2>1 DEF RunnerInv, Alone
<1> QED
  BY <1>1, <1>3, <1>4, StepKept

\* Whoever has run a statement of a way up holds its first object.
LEMMA FirstMade ==
  ASSUME RunnerTypeOK, RunnerInv, NEW e \in Executions, pc[e] = "script", action[e] = "upgrade",
         moved[e] \/ step[e] > 1
  PROVE  Current(e) /\ origin[e] + 1 \in 1..3 /\ Upgrade[origin[e] + 1][1].object \in made[e]
<1> DEFINE first == Upgrade[origin[e] + 1][1].object
<1>1. Own(e) /\ origin[e] \in 0..3 /\ at[e] \in 0..3 /\ head[e] \in 1..3
  BY RevisionRange DEF RunnerInv, RunnerTypeOK
<1>2. Current(e) /\ dropped[e] = {} /\ Seen(e) \ Baseline = Installed[at[e]] \cup Begun(e)
      /\ (moved[e] => at[e] > origin[e]) /\ (~moved[e] => at[e] = origin[e]) /\ (Script(e) = << >> => step[e] = 1)
  BY <1>1 DEF Own, Scripts, GoesUp
<1>3. origin[e] + 1 \in 1..3 /\ first \in Seen(e)
  <2>1. CASE moved[e]
    <3>1. origin[e] + 1 \in 1..3 /\ origin[e] + 1 <= at[e]
      BY <1>1, <1>2, <2>1
    <3>2. first \in Installed[origin[e] + 1]
      BY <3>1, NewNames
    <3> QED
      BY <1>1, <1>2, <3>1, <3>2, NewNames
  <2>2. CASE ~moved[e]
    <3>1. step[e] > 1 /\ Script(e) # << >> /\ at[e] = origin[e]
      BY <1>2, <2>2
    <3>2. Script(e) = Upgrade[origin[e] + 1] /\ origin[e] + 1 \in 1..3
      BY <3>1, ScriptOf
    <3>3. first \in Begun(e)
      BY <3>1, <3>2, BegunFirst
    <3> QED
      BY <1>2, <3>2, <3>3
  <2> QED
    BY <2>1, <2>2
<1>4. first \notin objects
  <2>1. (origin[e] + 1) - 1 = origin[e]
    BY <1>1
  <2>2. first \notin Installed[origin[e]] /\ first \notin Baseline
    BY <1>3, <2>1, NewNames
  <2> QED
    BY <1>2, <2>2 DEF Current, IsAt
<1> QED
  BY <1>2, <1>3, <1>4 DEF Seen

\* So nobody else has run one when it commits.
LEMMA OthersBehind ==
  ASSUME RunnerTypeOK, RunnerInv, appUser, NEW f \in Executions, pc[f] = "script", moved[f],
         NEW e \in Executions \ {f}, pc[e] \in {"table", "script"}
  PROVE  origin[e] # 0 /\ (pc[e] = "script" => ~moved[e] /\ step[e] = 1)
<1>1. /\ action[e] = "upgrade" /\ action[f] = "upgrade" /\ made[e] \cap made[f] = {}
      /\ Own(e) /\ Own(f) /\ origin[e] \in 0..3 /\ origin[f] \in 0..3 /\ step[e] \in Nat \ {0}
  BY RevisionRange DEF RunnerInv, Alone, MadeApart, RunnerTypeOK
<1>2. Current(f) /\ Upgrade[origin[f] + 1][1].object \in made[f]
  BY <1>1, FirstMade
<1>3. Current(e) => origin[e] = origin[f]
  BY <1>1, <1>2 DEF Current, IsAt
<1>4. origin[e] # 0
  BY <1>1, <1>2, <1>3 DEF Own, Reads
<1>5. pc[e] = "script" => ~(moved[e] \/ step[e] > 1)
  BY <1>1, <1>2, <1>3, FirstMade
<1> QED
  BY <1>1, <1>4, <1>5

\* A commit leaves a schema of one revision, no lower than before on a server.
LEMMA CommitSchema ==
  ASSUME RunnerTypeOK, RunnerInv, NEW f \in Executions, Commit(f)
  PROVE  /\ SchemaInv'
         /\ appUser => \A n \in 0..3 : Reached(n) \/ n = head[f] => Reached(n)'
         /\ appUser => objects \subseteq objects' /\ objects' \subseteq objects \cup made[f]
         /\ appUser /\ moved[f] => Current(f) /\ revision' = {at[f]} /\ at[f] > origin[f]
         /\ appUser /\ ~moved[f] => UNCHANGED <<objects, revision>>
<1>1. /\ pc[f] = "script" /\ Script(f) = << >> /\ ToGrant(f) = {}
      /\ objects' = Seen(f) /\ grants' = (grants \ dropped[f]) \cup granted[f]
      /\ revision' = IF moved[f] THEN (revision \ {origin[f]}) \cup ({at[f]} \ {0}) ELSE revision
      /\ UNCHANGED appUser
  BY DEF Commit, ScriptsDone
<1>2. Own(f) /\ origin[f] \in 0..3 /\ at[f] \in 0..3 /\ head[f] \in 1..3 /\ action[f] \in {"upgrade", "downgrade"}
  BY RevisionRange DEF RunnerInv, RunnerTypeOK
<1>3. step[f] = 1 /\ Begun(f) = {}
  BY <1>1, <1>2, BegunNone DEF Own, Scripts
<1>4. CASE action[f] = "downgrade"
  <2>1. ~appUser
    BY <1>4 DEF RunnerInv, Alone
  <2>2. at[f] = 0
    BY <1>1, <1>4, ScriptOf
  <2>3. Current(f)
    BY <1>1, <1>2, <2>1 DEF Own, Reads
  <2>4. revision' = {}
    BY <1>1, <1>2, <2>2, <2>3 DEF Current, IsAt, Own, Scripts
  <2>5. objects' \ Baseline = {}
    BY <1>1, <1>2, <1>4, <2>2, NewNames DEF Own, GoesDown
  <2>6. IsAt(0)'
    BY <2>4, <2>5, NewNames DEF IsAt
  <2> QED
    BY <1>1, <2>1, <2>6 DEF SchemaInv
<1>5. CASE action[f] = "upgrade" /\ ~moved[f]
  <2>1. at[f] = origin[f] /\ at[f] >= head[f] /\ origin[f] # 0 /\ dropped[f] = {} /\ made[f] \subseteq Baseline
    BY <1>1, <1>2, <1>3, <1>5, ScriptOf DEF Own, Scripts, GoesUp
  <2>2. Baseline \subseteq objects /\ Reached(origin[f])
    BY <1>1, <1>2, <2>1, BaselineThere DEF Own, Reads
  <2>3. objects' = objects /\ revision' = revision /\ grants \subseteq grants'
    BY <1>1, <1>5, <2>1, <2>2 DEF Seen
  <2>4. Reached(head[f])
    <3>1. revision \subseteq 1..3
      BY RevisionRange DEF RunnerTypeOK
    <3> QED
      BY <1>2, <2>1, <2>2, <3>1 DEF Reached
  <2>5. SchemaInv'
    BY <1>1, <2>3 DEF RunnerInv, SchemaInv, IsAt
  <2> QED
    BY <1>5, <2>3, <2>4, <2>5, Zenon DEF Reached
<1>6. CASE action[f] = "upgrade" /\ moved[f]
  <2>1. Current(f) /\ dropped[f] = {} /\ Baseline \subseteq Seen(f) /\ at[f] > origin[f] /\ at[f] <= head[f]
        /\ Seen(f) \ Baseline = Installed[at[f]]
    BY <1>1, <1>2, <1>3, <1>6 DEF Own, Scripts, GoesUp
  <2>2. at[f] >= head[f] /\ at[f] # 0
    BY <1>1, <1>2, <1>6, ScriptOf
  <2>3. revision = {origin[f]} \ {0} /\ revision' = {at[f]}
    BY <1>1, <1>2, <1>6, <2>1, <2>2 DEF Current, IsAt
  <2>4. \E r \in 0..3 : IsAt(r)'
    <3> PICK r \in 0..3 : r = at[f]
      BY <1>2
    <3>1. revision' = {r} \ {0} /\ objects' \ Baseline = Installed[r] /\ Baseline \subseteq objects'
      BY <1>1, <2>1, <2>2, <2>3
    <3>2. IsAt(r)'
      BY <3>1 DEF IsAt
    <3> QED
      BY <3>2
  <2>5. objects \subseteq objects' /\ objects' \subseteq objects \cup made[f]
    BY <1>1, <2>1 DEF Seen
  <2>6. ASSUME NEW n \in 0..3, Reached(n) \/ n = head[f] PROVE Reached(n)'
    <3>1. at[f] >= n
      BY <1>2, <2>1, <2>2, <2>3, <2>6 DEF Reached
    <3>2. at[f] \in revision'
      BY <2>3
    <3> QED
      BY <3>1, <3>2 DEF Reached
  <2>7. "admin_user" \in objects' => {"rag_app", "admin_user"} \subseteq grants' \/ ~appUser
    <3> SUFFICES ASSUME "admin_user" \in objects', appUser PROVE {"rag_app", "admin_user"} \subseteq grants'
      OBVIOUS
    <3>1. "admin_user" \in Installed[at[f]]
      BY <1>1, <2>1 DEF Baseline
    <3>2. "admin_user" \in Installed[head[f]]
      BY <1>2, <2>1, <3>1, NewNames
    <3> QED
      BY <1>1, <1>6, <3>2 DEF ToGrant
  <2>8. SchemaInv'
    BY <1>1, <2>3, <2>4, <2>7 DEF SchemaInv
  <2> QED
    BY <1>6, <2>1, <2>3, <2>5, <2>6, <2>8
<1> QED
  BY <1>2, <1>4, <1>5, <1>6

LEMMA CommitKept ==
  ASSUME RunnerTypeOK, RunnerInv, NEW f \in Executions, Commit(f)
  PROVE  RunnerInv'
<1>1. /\ pc[f] = "script" /\ pc'[f] = (IF action[f] = "upgrade" THEN "read" ELSE "done")
      /\ step'[f] = 1 /\ made'[f] = {} /\ dropped'[f] = {} /\ ~moved'[f]
      /\ action'[f] = action[f] /\ head'[f] = head[f] /\ head[f] \in 0..3
      /\ Elsewhere(f) /\ UNCHANGED appUser /\ objects' = Seen(f)
  BY RevisionRange DEF Commit, ScriptsDone, EndTransaction, Goto, RunnerTypeOK, Elsewhere, Same
<1>2. Alone'
  BY <1>1, AloneStays DEF Ended
<1>3. Own(f)'
  <2>1. appUser => Reached(head[f])'
    <3> PICK n \in 0..3 : n = head[f]
      BY <1>1
    <3>1. appUser => Reached(n)'
      BY CommitSchema
    <3> QED
      BY <1>1, <3>1 DEF Reached
  <2>2. Reports(f)'
    BY <1>1, <2>1 DEF Reports, Reached
  <2> QED
    BY <1>1, <2>2 DEF Own, Outside, Reads, Scripts, GoesUp, GoesDown, Ended
<1>4. CASE ~appUser
  <2>1. ASSUME NEW e \in Executions \ {f} PROVE Same(e) /\ pc[e] \in Ended /\ made[e] = {} /\ Own(e)
    BY <1>1, <1>4, <2>1 DEF RunnerInv, Alone, Own, Outside, Elsewhere, Ended
  <2>2. ASSUME NEW e \in Executions \ {f} PROVE Own(e)'
    BY <1>1, <1>4, <2>1, <2>2 DEF Same, Own, Outside, Reads, Scripts, GoesUp, GoesDown, Reports, Ended
  <2>3. MadeApart'
    BY <1>1, <2>1 DEF MadeApart, Same
  <2> QED
    BY <1>2, <1>3, <2>2, <2>3, CommitSchema DEF RunnerInv
<1>5. CASE appUser
  <2>1. MadeApart'
    <3>1. \A e \in Executions \ {f} : made'[e] = made[e] /\ made[e] \cap objects = {} /\ made[e] \cap made[f] = {}
      BY <1>1 DEF RunnerInv, MadeApart, Elsewhere, Same
    <3>2. \A e, g \in Executions \ {f} : e # g => made[e] \cap made[g] = {}
      BY DEF RunnerInv, MadeApart
    <3>3. objects' \subseteq objects \cup made[f]
      BY <1>5, CommitSchema
    <3> QED
      BY <1>1, <3>1, <3>2, <3>3 DEF MadeApart
  <2>2. ASSUME NEW e \in Executions \ {f}, ~moved[f] PROVE Own(e)'
    BY <1>1, <1>5, <2>2, CommitSchema, SameOwn DEF RunnerInv, Elsewhere
  <2>3. ASSUME NEW e \in Executions \ {f}, moved[f] PROVE Own(e)'
    <3>1. /\ pc'[e] = pc[e] /\ action'[e] = action[e] /\ head'[e] = head[e] /\ at'[e] = at[e] /\ step'[e] = step[e]
          /\ made'[e] = made[e] /\ dropped'[e] = dropped[e] /\ moved'[e] = moved[e] /\ origin'[e] = origin[e]
      BY <1>1 DEF Elsewhere, Same
    <3>2. Own(e) /\ action[e] = "upgrade" /\ origin[e] \in 0..3 /\ origin[f] \in 0..3 /\ at[f] \in 0..3 /\ head[e] \in 0..3
      BY <1>5, RevisionRange DEF RunnerInv, Alone, RunnerTypeOK
    <3>3. Current(f) /\ revision' = {at[f]} /\ at[f] > origin[f] /\ objects \subseteq objects'
      BY <1>5, <2>3, CommitSchema
    <3>4. Seen(e) \subseteq Seen(e)'
      BY <3>1, <3>3 DEF Seen
    <3>5. Reached(origin[e]) => Reached(origin[e])'
      <4> PICK n \in 0..3 : n = origin[e]
        BY <3>2
      <4>1. Reached(n) => Reached(n)'
        BY <1>5, CommitSchema
      <4> QED
        BY <3>1, <4>1 DEF Reached
    <3>6. Reached(head[e]) => Reached(head[e])'
      <4> PICK n \in 0..3 : n = head[e]
        BY <3>2
      <4>1. Reached(n) => Reached(n)'
        BY <1>5, CommitSchema
      <4> QED
        BY <3>1, <4>1 DEF Reached
    <3>7. Outside(e)'
      BY <3>1, <3>2, <3>4 DEF Own, Outside
    <3>8. pc[e] \in {"table", "script"} =>
            origin[e] # 0 /\ (pc[e] = "script" => ~moved[e] /\ step[e] = 1)
      BY <1>1, <1>5, <2>3, OthersBehind
    <3>9. Reads(e)'
      BY <1>1, <1>5, <3>1, <3>2, <3>5, <3>8 DEF Own, Reads, Reached
    <3>10. Scripts(e)'
      BY <3>1, <3>2, <3>8 DEF Own, Scripts
    <3>11. pc[e] = "script" => ~Current(e)'
      <4>1. pc[e] = "script" => Reached(origin[e])
        BY <3>2, <3>8 DEF Own, Reads
      <4>2. pc[e] = "script" => origin[e] <= origin[f]
        BY <3>2, <3>3, <4>1 DEF Reached, Current, IsAt
      <4>3. pc[e] = "script" => revision' # {origin[e]} \ {0}
        BY <3>2, <3>3, <4>2
      <4> QED
        BY <3>1, <4>3 DEF Current, IsAt
    <3>12. GoesUp(e)'
      BY <3>1, <3>2, <3>4, <3>11 DEF Own, GoesUp
    <3>13. GoesDown(e)' /\ Reports(e)'
      BY <1>1, <3>1, <3>2, <3>6 DEF Own, GoesDown, Reports, Reached
    <3> QED
      BY <3>7, <3>9, <3>10, <3>12, <3>13 DEF Own
  <2> QED
    BY <1>2, <1>3, <2>1, <2>2, <2>3, CommitSchema DEF RunnerInv
<1> QED
  BY <1>4, <1>5

LEMMA RunnerStep ==
  ASSUME RunnerTypeOK, RunnerInv, NEW f \in Executions, Running(f) \/ Lost(f)
  PROVE  RunnerInv'
<1>1. CASE Wait(f)
  BY <1>1, WaitKept DEF Wait, Same, database, transaction
<1>2. ASSUME NEW o, AwaitGrant(f, o) PROVE RunnerInv'
  BY <1>2, WaitKept DEF AwaitGrant, Same, database, transaction
<1>3. ASSUME NEW o, Grant(f, o) PROVE RunnerInv'
  <2>1. CASE Fails(f, "missing") \/ Fails(f, "conflict")
    BY <2>1, FailsKept
  <2>2. CASE ~Fails(f, "missing") /\ ~Fails(f, "conflict")
    BY <1>3, <2>2, WaitKept DEF Grant, Same, database
  <2> QED
    BY <2>1, <2>2
<1>4. CASE Lost(f)
  BY <1>4, FailsKept DEF Lost
<1> QED
  BY <1>1, <1>2, <1>3, <1>4, RunKept, ReadRevisionKept, BeginScriptsKept, StampKept, CommitKept, ReadResultKept DEF Running

-----------------------------------------------------------------------------
(* The workflow *)

\* Of the steps of an execution only a commit touches the recorded revision, and none
\* changes the image it was started from.
LEMMA RunnerFrame ==
  ASSUME NEW f \in Executions, Running(f) \/ Lost(f)
  PROVE  head' = head /\ appUser' = appUser /\ (UNCHANGED revision \/ Commit(f))
<1>1. \A why : Fails(f, why) => head' = head /\ UNCHANGED database
  BY DEF Fails, EndTransaction
<1>2. Wait(f) \/ BeginScripts(f) \/ ReadResult(f) => head' = head /\ UNCHANGED database
  BY DEF Wait, BeginScripts, ReadResult
<1>3. Run(f) => head' = head /\ UNCHANGED database
  BY <1>1 DEF Run
<1>4. ReadRevision(f) => head' = head /\ UNCHANGED database
  BY <1>1 DEF ReadRevision
<1>5. Stamp(f) => head' = head /\ UNCHANGED database
  BY <1>1 DEF Stamp
<1>6. \A o : AwaitGrant(f, o) \/ Grant(f, o) => head' = head /\ UNCHANGED database
  BY <1>1 DEF AwaitGrant, Grant
<1>7. Commit(f) => head' = head /\ appUser' = appUser
  BY DEF Commit, EndTransaction
<1>8. Lost(f) => head' = head /\ UNCHANGED database
  BY <1>1 DEF Lost
<1> QED
  BY <1>2, <1>3, <1>4, <1>5, <1>6, <1>7, <1>8 DEF Running, database

LEMMA WorkflowStep ==
  ASSUME TypeOK, RunnerInv, WorkflowInv, Next
  PROVE  RunnerInv' /\ WorkflowInv'
<1>1. RunnerTypeOK /\ target \in 1..3 /\ job \in 1..3 /\ service \in 0..3 /\ \A r \in Releases : r \in Revisions
  <2>1. RunnerTypeOK /\ target \in Releases /\ job \in Releases /\ service \in Releases \cup {0}
    BY DEF TypeOK
  <2>2. Releases \subseteq 1..3 /\ Releases \subseteq Revisions
    BY ReleasesAssumption, RevisionRange
  <2>3. target \in 1..3 /\ job \in 1..3
    BY <2>1, <2>2
  <2>4. service \in 0..3
    BY <2>1, <2>2
  <2> QED
    BY <2>1, <2>2, <2>3, <2>4
<1>2. ASSUME UNCHANGED <<database, runner>> PROVE RunnerInv' /\ \A n : Reached(n)' = Reached(n)
  <2>1. UNCHANGED <<objects, revision, appUser, grants>> /\ \A e \in Executions : Same(e)
    BY <1>2 DEF database, runner, transaction, Same
  <2>2. CASE Executions = {}
    BY <2>1, <2>2 DEF RunnerInv, Alone, MadeApart, SchemaInv, IsAt, Reached
  <2>3. ASSUME NEW f \in Executions PROVE RunnerInv'
    BY <1>1, <2>1, WaitKept
  <2> QED
    BY <2>1, <2>2, <2>3 DEF Reached
<1>3. ASSUME NEW r \in Releases, Dispatch(r) PROVE RunnerInv' /\ WorkflowInv'
  BY <1>2, <1>3 DEF Dispatch, WorkflowInv, database, Reached
<1>4. CASE UpdateJob
  BY <1>2, <1>4 DEF UpdateJob, WorkflowInv, database, runner, Reached
<1>5. ASSUME NEW e \in Executions, ExecuteJob(e) PROVE RunnerInv' /\ WorkflowInv'
  <2>1. appUser /\ job = target /\ Start(e, "upgrade", job)
    BY <1>5 DEF ExecuteJob, WorkflowInv
  <2>2. RunnerInv'
    BY <1>1, <2>1, StartKept
  <2>3. head'[e] = target /\ UNCHANGED <<revision, appUser>>
    BY <1>1, <2>1 DEF Start, RunnerTypeOK, database
  <2>4. stage' = "wait" /\ mine' = e /\ UNCHANGED <<target, job, service>>
    BY <1>5 DEF ExecuteJob
  <2> QED
    BY <2>1, <2>2, <2>3, <2>4 DEF WorkflowInv, Reached
<1>6. CASE JobEnds
  <2>1. RunnerInv' /\ UNCHANGED <<database, target, job, service>> /\ appUser
    BY <1>2, <1>6 DEF JobEnds, WorkflowInv
  <2>2. stage' = "deploy" => Reached(target)
    BY <1>6, <2>1 DEF JobEnds, WorkflowInv, RunnerInv, Own, Reports
  <2>3. stage' \in {"deploy", "idle"}
    BY <1>6 DEF JobEnds
  <2> QED
    BY <2>1, <2>2, <2>3 DEF WorkflowInv, Reached, database
<1>7. CASE DeployApi \/ SmokeTest
  BY <1>1, <1>2, <1>7 DEF DeployApi, SmokeTest, WorkflowInv, database, Reached
<1>8. CASE Cancel
  BY <1>2, <1>8 DEF Cancel, WorkflowInv, database, Reached
<1>9. ASSUME NEW e \in Executions, ExecuteByHand(e) PROVE RunnerInv' /\ WorkflowInv'
  <2>1. appUser /\ e # mine /\ Start(e, "upgrade", job) /\ UNCHANGED workflow
    BY <1>9 DEF ExecuteByHand
  <2>2. RunnerInv'
    BY <1>1, <2>1, StartKept
  <2>3. UNCHANGED <<revision, appUser>> /\ \A f \in Executions \ {e} : head'[f] = head[f]
    BY <1>1, <2>1 DEF Start, RunnerTypeOK, database
  <2> QED
    BY <2>1, <2>2, <2>3 DEF WorkflowInv, Reached, workflow
<1>10. ASSUME NEW e \in Executions, ExecuteLocally(e) PROVE RunnerInv' /\ WorkflowInv'
  <2>1. ~appUser /\ (\A f \in Executions : pc[f] \in Ended) /\ UNCHANGED workflow
    BY <1>10 DEF ExecuteLocally
  <2>2. PICK command \in {"upgrade", "downgrade"} : Start(e, command, job)
    BY <1>10 DEF ExecuteLocally
  <2>3. RunnerInv'
    BY <1>1, <2>1, <2>2, StartKept
  <2>4. UNCHANGED <<revision, appUser>>
    BY <2>2 DEF Start, database
  <2> QED
    BY <2>1, <2>3, <2>4 DEF WorkflowInv, Reached, workflow
<1>11. ASSUME NEW e \in Executions, Running(e) \/ Lost(e), UNCHANGED workflow PROVE RunnerInv' /\ WorkflowInv'
  <2>1. RunnerInv'
    BY <1>1, <1>11, RunnerStep
  <2>2. head' = head /\ appUser' = appUser /\ (UNCHANGED revision \/ Commit(e))
    BY <1>11, RunnerFrame
  <2>3. ASSUME NEW n \in 0..3, appUser, Reached(n) PROVE Reached(n)'
    BY <1>1, <2>2, <2>3, CommitSchema DEF Reached
  <2>4. UNCHANGED <<stage, target, job, mine, service>>
    BY <1>11 DEF workflow
  <2>5. stage = "deploy" => Reached(target)'
    <3> PICK n \in 0..3 : n = target
      BY <1>1
    <3>1. stage = "deploy" => Reached(n)'
      BY <2>3 DEF WorkflowInv
    <3> QED
      BY <2>4, <3>1 DEF Reached
  <2>6. service > 0 => Reached(service)'
    <3> PICK n \in 0..3 : n = service
      BY <1>1
    <3>1. service > 0 => Reached(n)'
      BY <2>3 DEF WorkflowInv
    <3> QED
      BY <2>4, <3>1 DEF Reached
  <2> QED
    BY <2>1, <2>2, <2>4, <2>5, <2>6 DEF WorkflowInv
<1> QED
  BY <1>3, <1>4, <1>5, <1>6, <1>7, <1>8, <1>9, <1>10, <1>11 DEF Next, Workflow

LEMMA DeploymentStart == Init => TypeOK /\ RunnerInv /\ WorkflowInv
<1> SUFFICES ASSUME Init PROVE TypeOK /\ RunnerInv /\ WorkflowInv
  OBVIOUS
<1>1. TypeOK /\ WorkflowInv
  BY Lengths, ReleasesAssumption DEF Init, RunnerInit, TypeOK, RunnerTypeOK, WorkflowInv
<1>2. IsAt(0) /\ objects = {}
  BY NewNames DEF Init, RunnerInit, IsAt
<1>3. SchemaInv
  BY <1>2 DEF SchemaInv
<1>4. Alone /\ MadeApart
  BY DEF Init, RunnerInit, Alone, MadeApart, Ended
<1>5. \A e \in Executions : Own(e)
  BY DEF Init, RunnerInit, Own, Outside, Reads, Scripts, GoesUp, GoesDown, Reports, Ended
<1> QED
  BY <1>1, <1>3, <1>4, <1>5 DEF RunnerInv

LEMMA DeploymentKept ==
  TypeOK /\ RunnerInv /\ WorkflowInv /\ [Next]_vars => (TypeOK /\ RunnerInv /\ WorkflowInv)'
<1> SUFFICES ASSUME TypeOK, RunnerInv, WorkflowInv, [Next]_vars PROVE (TypeOK /\ RunnerInv /\ WorkflowInv)'
  OBVIOUS
<1>1. CASE Next
  BY <1>1, StepTypes, WorkflowStep
<1>2. CASE UNCHANGED vars
  <2>1. TypeOK'
    BY <1>2 DEF TypeOK, RunnerTypeOK, vars, database, runner, workflow, transaction
  <2>2. UNCHANGED <<objects, revision, appUser, grants>> /\ \A e \in Executions : Same(e)
    BY <1>2 DEF vars, database, runner, transaction, Same
  <2>3. RunnerInv'
    <3>1. ASSUME NEW f \in Executions PROVE RunnerInv'
      BY <2>2, WaitKept
    <3>2. CASE Executions = {}
      BY <2>2, <3>2 DEF RunnerInv, Alone, MadeApart, SchemaInv, IsAt
    <3> QED
      BY <3>1, <3>2
  <2>4. WorkflowInv'
    BY <1>2 DEF WorkflowInv, vars, database, runner, workflow, Reached
  <2> QED
    BY <2>1, <2>3, <2>4
<1> QED
  BY <1>1, <1>2

-----------------------------------------------------------------------------
(* The theorems *)

\* The recorded revision and the schema agree: the statements of a script become visible
\* together with the revision they lead to, and never those of two executions.
THEOREM SchemaIsRecorded == Spec => []SchemaMatchesRevision
<1>1. RunnerInv => SchemaMatchesRevision
  BY RevisionRange DEF RunnerInv, SchemaInv, IsAt, SchemaMatchesRevision
<1> QED
  BY <1>1, DeploymentStart, DeploymentKept, PTL DEF Spec

\* The report that main() logs is true: the revision an execution was to reach is recorded,
\* or a later one, although it reads the result outside its transaction.
THEOREM ReportsAreTrue == Spec => []EvidenceIsTrue
<1>1. RunnerInv => EvidenceIsTrue
  BY DEF RunnerInv, Own, Reports, Reached, EvidenceIsTrue
<1> QED
  BY <1>1, DeploymentStart, DeploymentKept, PTL DEF Spec

\* The release that serves finds its tables and may use them: the workflow deploys what its
\* execution has reached, and on a server the schema only grows.
THEOREM ServiceWorks == Spec => []ServedReleaseWorks
<1>1. TypeOK /\ RunnerInv /\ WorkflowInv => ServedReleaseWorks
  <2> SUFFICES ASSUME TypeOK, RunnerInv, WorkflowInv, service > 0
               PROVE  /\ Installed[service] \subseteq objects
                      /\ "admin_user" \in objects => {"rag_app", "admin_user"} \subseteq grants
    BY DEF ServedReleaseWorks
  <2>1. service \in 0..3 /\ Reached(service) /\ appUser
    <3>1. service \in Releases \cup {0} /\ Releases \subseteq 1..3
      BY ReleasesAssumption, RevisionRange DEF TypeOK
    <3>2. service \in 0..3
      BY <3>1
    <3>3. Reached(service)
      BY DEF WorkflowInv
    <3>4. appUser
      BY DEF WorkflowInv
    <3> QED
      BY <3>2, <3>3, <3>4
  <2>2. PICK q \in 0..3 : IsAt(q)
    BY DEF RunnerInv, SchemaInv
  <2>3. q >= service
    BY <2>1, <2>2 DEF Reached, IsAt
  <2>4. Installed[service] \subseteq Installed[q]
    BY <2>1, <2>3, NewNames
  <2> QED
    BY <2>1, <2>2, <2>4 DEF IsAt, RunnerInv, SchemaInv
<1> QED
  BY <1>1, DeploymentStart, DeploymentKept, PTL DEF Spec

-----------------------------------------------------------------------------
(* What the objects of the schema rest on, and are dropped with *)

LEMMA AllObjects == Objects = Baseline \cup {"vector", "admin_user"} \cup CoreNames
<1>1. Revisions = {1, 2, 3}
  BY Lengths
<1> QED
  BY <1>1, RevisionSets DEF Objects

LEMMA NeedsOfTypes ==
  /\ \A o \in Baseline : Needs[o] = {}
  /\ Needs["vector"] = {} /\ Needs["admin_user"] = {} /\ Needs["set_updated_at"] = {}
  /\ Needs["enforce_source_version_transition"] = {}
  /\ \A i \in 1..4 : Needs[Enums[i]] = {}
<1> DEFINE plain == Baseline \cup {"vector", "admin_user", "set_updated_at", "enforce_source_version_transition",
                      "source_type", "source_version_status", "message_role", "retrieval_terminal_state"}
<1>1. \A o \in plain : /\ o \in Objects /\ o \notin Tables /\ o # ActiveVersionConstraint
                       /\ o # "trg_source_version_transition" /\ o \notin DOMAIN TableOfTrigger
  BY AllObjects DEF CoreNames, Baseline, Tables, ActiveVersionConstraint, TableOfTrigger
<1>2. \A o \in plain : Needs[o] = {}
  BY <1>1 DEF Needs
<1>3. \A i \in 1..4 : Enums[i] \in plain
  BY DEF Enums
<1> QED
  BY <1>2, <1>3

\* The tables that the foreign keys of CREATE TABLE name.
LEMMA KeysOfTables ==
  ASSUME NEW o \in Tables
  PROVE  {k.to : k \in {f \in InlineKeys : f.from = o}} =
           CASE o = "source_version" -> {"source_document"}
             [] o = "chunk" -> {"source_version", "chunk"}
             [] o = "conversation" -> {"widget"}
             [] o = "message" -> {"conversation"}
             [] o = "retrieval_trace" -> {"conversation"}
             [] o = "retrieval_trace_chunk" -> {"retrieval_trace", "chunk"}
             [] OTHER -> {}
<1> DEFINE pairs == {<<"source_version", "source_document">>, <<"chunk", "source_version">>, <<"chunk", "chunk">>,
                     <<"conversation", "widget">>, <<"message", "conversation">>,
                     <<"retrieval_trace", "conversation">>, <<"retrieval_trace_chunk", "retrieval_trace">>,
                     <<"retrieval_trace_chunk", "chunk">>}
<1>1. {<<k.from, k.to>> : k \in InlineKeys} = pairs
  <2>1. {<<k.from, k.to>> : k \in SourceKeys} = {<<"source_version", "source_document">>}
    BY DEF SourceKeys, ForeignKey
  <2>2. {<<k.from, k.to>> : k \in ChunkKeys} = {<<"chunk", "source_version">>, <<"chunk", "chunk">>}
    BY DEF ChunkKeys, ForeignKey
  <2>3. {<<k.from, k.to>> : k \in ConversationKeys} = {<<"conversation", "widget">>, <<"message", "conversation">>}
    BY DEF ConversationKeys, ForeignKey
  <2>4. {<<k.from, k.to>> : k \in TraceKeys} =
          {<<"retrieval_trace", "conversation">>, <<"retrieval_trace_chunk", "retrieval_trace">>,
           <<"retrieval_trace_chunk", "chunk">>}
    <3> DEFINE first == ForeignKey("retrieval_trace", "conversation_id", "conversation", "set null")
               second == ForeignKey("retrieval_trace_chunk", "trace_id", "retrieval_trace", "cascade")
               third == ForeignKey("retrieval_trace_chunk", "chunk_id", "chunk", "cascade")
    <3>1. TraceKeys = {first, second, third}
      BY DEF TraceKeys
    <3>2. /\ <<first.from, first.to>> = <<"retrieval_trace", "conversation">>
          /\ <<second.from, second.to>> = <<"retrieval_trace_chunk", "retrieval_trace">>
          /\ <<third.from, third.to>> = <<"retrieval_trace_chunk", "chunk">>
      BY DEF ForeignKey
    <3> HIDE DEF first, second, third
    <3>3. {<<k.from, k.to>> : k \in {first, second, third}} =
            {<<first.from, first.to>>, <<second.from, second.to>>, <<third.from, third.to>>}
      OBVIOUS
    <3> QED
      BY <3>1, <3>2, <3>3
  <2>5. {<<k.from, k.to>> : k \in InlineKeys} =
          {<<k.from, k.to>> : k \in SourceKeys} \cup {<<k.from, k.to>> : k \in ChunkKeys}
          \cup {<<k.from, k.to>> : k \in ConversationKeys} \cup {<<k.from, k.to>> : k \in TraceKeys}
    BY DEF InlineKeys
  <2> QED
    BY <2>1, <2>2, <2>3, <2>4, <2>5
<1>2. \A t : t \in {k.to : k \in {f \in InlineKeys : f.from = o}} <=> <<o, t>> \in pairs
  <2> SUFFICES ASSUME NEW t PROVE t \in {k.to : k \in {f \in InlineKeys : f.from = o}} <=> <<o, t>> \in pairs
    OBVIOUS
  <2> HIDE DEF pairs
  <2> QED
    BY <1>1
<1> QED
  BY <1>2 DEF Tables

LEMMA NeedsOfTables ==
  /\ Needs["widget"] = {}
  /\ Needs["source_document"] = {"source_type"}
  /\ Needs["source_version"] = {"source_document", "source_version_status"}
  /\ Needs["chunk"] = {"source_version", "vector"}
  /\ Needs["conversation"] = {"widget"}
  /\ Needs["message"] = {"conversation", "message_role"}
  /\ Needs["retrieval_trace"] = {"conversation", "retrieval_terminal_state"}
  /\ Needs["retrieval_trace_chunk"] = {"retrieval_trace", "chunk"}
<1>1. Tables \subseteq Objects
  BY AllObjects DEF Tables, CoreNames
<1>2. \A o \in Tables : Needs[o] = ({k.to : k \in {f \in InlineKeys : f.from = o}} \ {o}) \cup TypesOf(o)
  BY <1>1 DEF Needs, Tables, ActiveVersionConstraint, TableOfTrigger
<1>3. \A o \in Tables : Needs[o] =
        ((CASE o = "source_version" -> {"source_document"}
             [] o = "chunk" -> {"source_version", "chunk"}
             [] o = "conversation" -> {"widget"}
             [] o = "message" -> {"conversation"}
             [] o = "retrieval_trace" -> {"conversation"}
             [] o = "retrieval_trace_chunk" -> {"retrieval_trace", "chunk"}
             [] OTHER -> {}) \ {o}) \cup TypesOf(o)
  BY <1>2, KeysOfTables
<1> QED
  BY <1>3 DEF Tables, TypesOf

UpdatedAtTables == <<"widget", "source_document", "source_version", "conversation", "retrieval_trace">>

LEMMA NeedsOfTriggers ==
  /\ Needs[ActiveVersionConstraint] = {"source_document", "source_version"}
  /\ Needs["trg_source_version_transition"] = {"source_version", "enforce_source_version_transition"}
  /\ \A i \in 1..5 : Needs[UpdatedAtTriggers[i]] = {UpdatedAtTables[i], "set_updated_at"}
<1>1. /\ ActiveVersionConstraint \in Objects /\ "trg_source_version_transition" \in Objects
      /\ \A i \in 1..5 : UpdatedAtTriggers[i] \in Objects
  BY AllObjects DEF ActiveVersionConstraint, CoreNames, UpdatedAtTriggers
<1>2. Needs[ActiveVersionConstraint] = {"source_document", "source_version"}
  BY <1>1 DEF Needs, ActiveVersionConstraint, ActiveVersionKey, ForeignKey, Tables, TableOfTrigger
<1>3. Needs["trg_source_version_transition"] = {"source_version", "enforce_source_version_transition"}
  BY <1>1 DEF Needs, ActiveVersionConstraint, Tables, TableOfTrigger
<1>4. ASSUME NEW i \in 1..5 PROVE Needs[UpdatedAtTriggers[i]] = {UpdatedAtTables[i], "set_updated_at"}
  <2>1. /\ UpdatedAtTriggers[i] \in DOMAIN TableOfTrigger /\ UpdatedAtTriggers[i] \notin Tables
        /\ UpdatedAtTriggers[i] # ActiveVersionConstraint /\ UpdatedAtTriggers[i] # "trg_source_version_transition"
    BY DEF UpdatedAtTriggers, TableOfTrigger, Tables, ActiveVersionConstraint
  <2>2. TableOfTrigger[UpdatedAtTriggers[i]] = UpdatedAtTables[i]
    BY DEF UpdatedAtTriggers, TableOfTrigger, UpdatedAtTables
  <2> QED
    BY <1>1, <2>1, <2>2 DEF Needs
<1> QED
  BY <1>2, <1>3, <1>4

LEMMA Owners ==
  /\ \A i \in 1..5 : Owner[UpdatedAtTriggers[i]] = UpdatedAtTables[i]
  /\ Owner["trg_source_version_transition"] = "source_version"
  /\ Owner[ActiveVersionConstraint] = "source_document"
  /\ \A o \in Objects \ {"trg_widget_updated_at", "trg_source_document_updated_at", "trg_source_version_updated_at",
         "trg_conversation_updated_at", "trg_retrieval_trace_updated_at", "trg_source_version_transition",
         "fk_source_document_active_version"} : Owner[o] = "rag_app"
<1>1. /\ ActiveVersionConstraint \in Objects /\ "trg_source_version_transition" \in Objects
      /\ \A i \in 1..5 : UpdatedAtTriggers[i] \in Objects
  BY AllObjects DEF ActiveVersionConstraint, CoreNames, UpdatedAtTriggers
<1>2. DOMAIN TableOfTrigger = {"trg_widget_updated_at", "trg_source_document_updated_at",
         "trg_source_version_updated_at", "trg_conversation_updated_at", "trg_retrieval_trace_updated_at"}
  BY DEF TableOfTrigger
<1>3. ASSUME NEW i \in 1..5 PROVE Owner[UpdatedAtTriggers[i]] = UpdatedAtTables[i]
  <2>1. /\ UpdatedAtTriggers[i] \in DOMAIN TableOfTrigger
        /\ UpdatedAtTriggers[i] # ActiveVersionConstraint /\ UpdatedAtTriggers[i] # "trg_source_version_transition"
    BY DEF UpdatedAtTriggers, TableOfTrigger, ActiveVersionConstraint
  <2>2. TableOfTrigger[UpdatedAtTriggers[i]] = UpdatedAtTables[i]
    BY DEF UpdatedAtTriggers, TableOfTrigger, UpdatedAtTables
  <2> QED
    BY <1>1, <2>1, <2>2 DEF Owner
<1>4. Owner["trg_source_version_transition"] = "source_version"
  BY <1>1, <1>2 DEF Owner, ActiveVersionConstraint
<1>5. Owner[ActiveVersionConstraint] = "source_document"
  BY <1>1, <1>2 DEF Owner, ActiveVersionConstraint, ActiveVersionKey, ForeignKey
<1>6. \A o \in Objects \ {"trg_widget_updated_at", "trg_source_document_updated_at", "trg_source_version_updated_at",
         "trg_conversation_updated_at", "trg_retrieval_trace_updated_at", "trg_source_version_transition",
         "fk_source_document_active_version"} : Owner[o] = "rag_app"
  BY <1>2 DEF Owner, ActiveVersionConstraint
<1> QED
  BY <1>3, <1>4, <1>5, <1>6

-----------------------------------------------------------------------------
(* The scripts, statement by statement *)

\* The objects of the statements before one.
Prior(s, i) == {s[j] : j \in {k \in 1..Len(s) : k < i}}

\* A way up that can be run where the objects of A are, and a way down from those of R
\* when those of A have gone already.
FitsUp(A, s) == \A i \in 1..Len(s) : s[i] \notin A \cup Prior(s, i) /\ Needs[s[i]] \subseteq A \cup Prior(s, i)
FitsDown(R, A, s) == \A i \in 1..Len(s) :
  /\ s[i] \in R \ (A \cup Prior(s, i)) /\ Owner[s[i]] \notin A \cup Prior(s, i)
  /\ \A p \in R : s[i] \in Needs[p] => p \in A \cup Prior(s, i)

LEMMA PriorOfConcat ==
  ASSUME NEW s \in Seq(Names), NEW t \in Seq(Names), NEW i \in 1..Len(s \o t)
  PROVE  \/ /\ i \in 1..Len(s) /\ (s \o t)[i] = s[i]
            /\ Prior(s \o t, i) = Prior(s, i)
         \/ \E j \in 1..Len(t) :
              /\ (s \o t)[i] = t[j]
              /\ Prior(s \o t, i) = Elements(s) \cup Prior(t, j)
<1>1. /\ Len(s) \in Nat /\ Len(t) \in Nat /\ Len(s \o t) = Len(s) + Len(t)
      /\ \A k \in 1..Len(s) : (s \o t)[k] = s[k]
      /\ \A k \in 1..Len(t) : (s \o t)[Len(s) + k] = t[k]
  OBVIOUS
<1>2. CASE i <= Len(s)
  <2>1. {k \in 1..Len(s \o t) : k < i} = {k \in 1..Len(s) : k < i}
    BY <1>1, <1>2
  <2>2. Prior(s \o t, i) = Prior(s, i)
    BY <1>1, <2>1 DEF Prior
  <2> QED
    BY <1>1, <1>2, <2>2
<1>3. CASE i > Len(s)
  <2> DEFINE j == i - Len(s)
  <2>1. j \in 1..Len(t) /\ i = Len(s) + j
    BY <1>1, <1>3
  <2> HIDE DEF j
  <2>2. ASSUME NEW k \in 1..Len(s \o t), k < i PROVE (s \o t)[k] \in Elements(s) \cup Prior(t, j)
    <3>1. CASE k <= Len(s)
      BY <1>1, <3>1 DEF Elements
    <3>2. CASE k > Len(s)
      <4> DEFINE m == k - Len(s)
      <4>1. m \in 1..Len(t) /\ k = Len(s) + m /\ m < j
        BY <1>1, <2>1, <2>2, <3>2
      <4> HIDE DEF m
      <4> QED
        BY <1>1, <4>1 DEF Prior
    <3> QED
      BY <1>1, <3>1, <3>2
  <2>3. ASSUME NEW k \in 1..Len(s) PROVE s[k] \in Prior(s \o t, i)
    <3>1. k \in 1..Len(s \o t) /\ k < i
      BY <1>1, <2>1
    <3> QED
      BY <1>1, <3>1 DEF Prior
  <2>4. ASSUME NEW k \in 1..Len(t), k < j PROVE t[k] \in Prior(s \o t, i)
    <3>1. Len(s) + k \in 1..Len(s \o t) /\ Len(s) + k < i
      BY <1>1, <2>1, <2>4
    <3> QED
      BY <1>1, <3>1 DEF Prior
  <2>5. Prior(s \o t, i) \subseteq Elements(s) \cup Prior(t, j)
    BY <2>2 DEF Prior
  <2>6. Elements(s) \subseteq Prior(s \o t, i)
    BY <2>3 DEF Elements
  <2>7. Prior(t, j) \subseteq Prior(s \o t, i)
    BY <2>4 DEF Prior
  <2> QED
    BY <1>1, <2>1, <2>5, <2>6, <2>7
<1> QED
  BY <1>1, <1>2, <1>3

LEMMA FitsUpConcat ==
  ASSUME NEW A, NEW s \in Seq(Names), NEW t \in Seq(Names), FitsUp(A, s), FitsUp(A \cup Elements(s), t)
  PROVE  FitsUp(A, s \o t)
<1> SUFFICES ASSUME NEW i \in 1..Len(s \o t)
             PROVE  /\ (s \o t)[i] \notin A \cup Prior(s \o t, i)
                    /\ Needs[(s \o t)[i]] \subseteq A \cup Prior(s \o t, i)
  BY DEF FitsUp
<1>1. CASE i \in 1..Len(s) /\ (s \o t)[i] = s[i] /\ Prior(s \o t, i) = Prior(s, i)
  BY <1>1 DEF FitsUp
<1>2. ASSUME NEW j \in 1..Len(t), (s \o t)[i] = t[j], Prior(s \o t, i) = Elements(s) \cup Prior(t, j)
      PROVE  /\ (s \o t)[i] \notin A \cup Prior(s \o t, i)
             /\ Needs[(s \o t)[i]] \subseteq A \cup Prior(s \o t, i)
  BY <1>2 DEF FitsUp
<1> QED
  BY <1>1, <1>2, PriorOfConcat

LEMMA FitsDownConcat ==
  ASSUME NEW R, NEW A, NEW s \in Seq(Names), NEW t \in Seq(Names),
         FitsDown(R, A, s), FitsDown(R, A \cup Elements(s), t)
  PROVE  FitsDown(R, A, s \o t)
<1> DEFINE Fits(u, gone) == u \in R \ gone /\ Owner[u] \notin gone /\ \A p \in R : u \in Needs[p] => p \in gone
<1> SUFFICES ASSUME NEW i \in 1..Len(s \o t) PROVE Fits((s \o t)[i], A \cup Prior(s \o t, i))
  BY DEF FitsDown
<1>1. CASE i \in 1..Len(s) /\ (s \o t)[i] = s[i] /\ Prior(s \o t, i) = Prior(s, i)
  <2>1. Fits(s[i], A \cup Prior(s, i))
    BY <1>1 DEF FitsDown
  <2> QED
    BY <1>1, <2>1
<1>2. ASSUME NEW j \in 1..Len(t), (s \o t)[i] = t[j], Prior(s \o t, i) = Elements(s) \cup Prior(t, j)
      PROVE  Fits((s \o t)[i], A \cup Prior(s \o t, i))
  <2>1. Fits(t[j], (A \cup Elements(s)) \cup Prior(t, j))
    BY DEF FitsDown
  <2>2. (A \cup Elements(s)) \cup Prior(t, j) = A \cup Prior(s \o t, i)
    BY <1>2
  <2> HIDE DEF Fits
  <2> QED
    BY <1>2, <2>1, <2>2
<1> QED
  BY <1>1, <1>2, PriorOfConcat

\* What is prior in the short sequences the scripts are put together from.
LEMMA PriorOfOne ==
  ASSUME NEW a
  PROVE  Prior(<<a>>, 1) = {} /\ Len(<<a>>) = 1
<1>1. {k \in 1..1 : k < 1} = {}
  OBVIOUS
<1> QED
  BY <1>1 DEF Prior

LEMMA PriorOfTwo ==
  ASSUME NEW a, NEW b
  PROVE  Prior(<<a, b>>, 1) = {} /\ Prior(<<a, b>>, 2) = {a} /\ Len(<<a, b>>) = 2
<1>1. {k \in 1..2 : k < 1} = {} /\ {k \in 1..2 : k < 2} = {1}
  OBVIOUS
<1> QED
  BY <1>1 DEF Prior

LEMMA PriorOfThree ==
  ASSUME NEW a, NEW b, NEW c
  PROVE  /\ Prior(<<a, b, c>>, 1) = {} /\ Prior(<<a, b, c>>, 2) = {a} /\ Prior(<<a, b, c>>, 3) = {a, b}
         /\ Len(<<a, b, c>>) = 3
<1>1. {k \in 1..3 : k < 1} = {} /\ {k \in 1..3 : k < 2} = {1} /\ {k \in 1..3 : k < 3} = {1, 2}
  OBVIOUS
<1>2. Len(<<a, b, c>>) = 3
  OBVIOUS
<1> QED
  BY <1>1, <1>2 DEF Prior

LEMMA FitsUpTuples ==
  ASSUME NEW A
  PROVE  /\ \A a \in Names : a \notin A /\ Needs[a] \subseteq A => FitsUp(A, <<a>>)
         /\ \A a, b \in Names :
              /\ a \notin A /\ Needs[a] \subseteq A
              /\ b \notin A \cup {a} /\ Needs[b] \subseteq A \cup {a}
              => FitsUp(A, <<a, b>>)
         /\ \A a, b, c \in Names :
              /\ a \notin A /\ Needs[a] \subseteq A
              /\ b \notin A \cup {a} /\ Needs[b] \subseteq A \cup {a}
              /\ c \notin A \cup {a, b} /\ Needs[c] \subseteq A \cup {a, b}
              => FitsUp(A, <<a, b, c>>)
<1>1. ASSUME NEW a \in Names, a \notin A /\ Needs[a] \subseteq A PROVE FitsUp(A, <<a>>)
  <2>1. Prior(<<a>>, 1) = {} /\ Len(<<a>>) = 1
    BY PriorOfOne
  <2>2. 1..1 = {1}
    OBVIOUS
  <2> QED
    BY <1>1, <2>1, <2>2 DEF FitsUp
<1>2. ASSUME NEW a \in Names, NEW b \in Names, a \notin A /\ Needs[a] \subseteq A,
             b \notin A \cup {a} /\ Needs[b] \subseteq A \cup {a}
      PROVE  FitsUp(A, <<a, b>>)
  <2>1. Prior(<<a, b>>, 1) = {} /\ Prior(<<a, b>>, 2) = {a} /\ Len(<<a, b>>) = 2
    BY PriorOfTwo
  <2>2. 1..2 = {1, 2}
    OBVIOUS
  <2> QED
    BY <1>2, <2>1, <2>2 DEF FitsUp
<1>3. ASSUME NEW a \in Names, NEW b \in Names, NEW c \in Names, a \notin A /\ Needs[a] \subseteq A,
             b \notin A \cup {a} /\ Needs[b] \subseteq A \cup {a},
             c \notin A \cup {a, b} /\ Needs[c] \subseteq A \cup {a, b}
      PROVE  FitsUp(A, <<a, b, c>>)
  <2>1. /\ Prior(<<a, b, c>>, 1) = {} /\ Prior(<<a, b, c>>, 2) = {a} /\ Prior(<<a, b, c>>, 3) = {a, b}
        /\ Len(<<a, b, c>>) = 3
    BY PriorOfThree
  <2>2. 1..3 = {1, 2, 3}
    OBVIOUS
  <2> QED
    BY <1>3, <2>1, <2>2 DEF FitsUp
<1> QED
  BY <1>1, <1>2, <1>3

\* A sequence whose objects do not rest on each other.
LEMMA FitsUpFlat ==
  ASSUME NEW A, NEW s \in Seq(Names), \A i \in 1..Len(s) : s[i] \notin A /\ Needs[s[i]] \subseteq A,
         \A i, j \in 1..Len(s) : i < j => s[i] # s[j]
  PROVE  FitsUp(A, s)
<1> SUFFICES ASSUME NEW i \in 1..Len(s) PROVE s[i] \notin A \cup Prior(s, i) /\ Needs[s[i]] \subseteq A \cup Prior(s, i)
  BY DEF FitsUp
<1>1. s[i] \notin Prior(s, i)
  BY DEF Prior
<1> QED
  BY <1>1

LEMMA FitsDownFlat ==
  ASSUME NEW R, NEW A, NEW s \in Seq(Names),
         \A i \in 1..Len(s) : s[i] \in R \ A /\ Owner[s[i]] \notin A \cup Elements(s),
         \A i \in 1..Len(s) : \A p \in R : s[i] \in Needs[p] => p \in A,
         \A i, j \in 1..Len(s) : i < j => s[i] # s[j]
  PROVE  FitsDown(R, A, s)
<1> SUFFICES ASSUME NEW i \in 1..Len(s)
             PROVE  /\ s[i] \in R \ (A \cup Prior(s, i)) /\ Owner[s[i]] \notin A \cup Prior(s, i)
                    /\ \A p \in R : s[i] \in Needs[p] => p \in A \cup Prior(s, i)
  BY DEF FitsDown
<1>1. s[i] \notin Prior(s, i)
  BY DEF Prior
<1>2. Prior(s, i) \subseteq Elements(s)
  BY DEF Prior, Elements
<1> QED
  BY <1>1, <1>2

\* What each object of the schema needs, by its name.
LEMMA NeedsByName ==
  /\ Needs["vector"] = {} /\ Needs["admin_user"] = {}
  /\ Needs["source_type"] = {} /\ Needs["source_version_status"] = {}
  /\ Needs["message_role"] = {} /\ Needs["retrieval_terminal_state"] = {}
  /\ Needs["set_updated_at"] = {} /\ Needs["enforce_source_version_transition"] = {}
  /\ Needs["widget"] = {} /\ Needs["source_document"] = {"source_type"}
  /\ Needs["source_version"] = {"source_document", "source_version_status"}
  /\ Needs["chunk"] = {"source_version", "vector"}
  /\ Needs["conversation"] = {"widget"} /\ Needs["message"] = {"conversation", "message_role"}
  /\ Needs["retrieval_trace"] = {"conversation", "retrieval_terminal_state"}
  /\ Needs["retrieval_trace_chunk"] = {"retrieval_trace", "chunk"}
  /\ Needs["fk_source_document_active_version"] = {"source_document", "source_version"}
  /\ Needs["trg_source_version_transition"] = {"source_version", "enforce_source_version_transition"}
  /\ Needs["trg_widget_updated_at"] = {"widget", "set_updated_at"}
  /\ Needs["trg_source_document_updated_at"] = {"source_document", "set_updated_at"}
  /\ Needs["trg_source_version_updated_at"] = {"source_version", "set_updated_at"}
  /\ Needs["trg_conversation_updated_at"] = {"conversation", "set_updated_at"}
  /\ Needs["trg_retrieval_trace_updated_at"] = {"retrieval_trace", "set_updated_at"}
<1>1. /\ Needs["source_type"] = {} /\ Needs["source_version_status"] = {}
      /\ Needs["message_role"] = {} /\ Needs["retrieval_terminal_state"] = {}
  <2>1. Needs[Enums[1]] = {} /\ Needs[Enums[2]] = {} /\ Needs[Enums[3]] = {} /\ Needs[Enums[4]] = {}
    BY NeedsOfTypes
  <2> QED
    BY <2>1 DEF Enums
<1>2. /\ Needs["trg_widget_updated_at"] = {"widget", "set_updated_at"}
      /\ Needs["trg_source_document_updated_at"] = {"source_document", "set_updated_at"}
      /\ Needs["trg_source_version_updated_at"] = {"source_version", "set_updated_at"}
      /\ Needs["trg_conversation_updated_at"] = {"conversation", "set_updated_at"}
      /\ Needs["trg_retrieval_trace_updated_at"] = {"retrieval_trace", "set_updated_at"}
  <2>1. /\ Needs[UpdatedAtTriggers[1]] = {UpdatedAtTables[1], "set_updated_at"}
        /\ Needs[UpdatedAtTriggers[2]] = {UpdatedAtTables[2], "set_updated_at"}
        /\ Needs[UpdatedAtTriggers[3]] = {UpdatedAtTables[3], "set_updated_at"}
        /\ Needs[UpdatedAtTriggers[4]] = {UpdatedAtTables[4], "set_updated_at"}
        /\ Needs[UpdatedAtTriggers[5]] = {UpdatedAtTables[5], "set_updated_at"}
    BY NeedsOfTriggers
  <2> QED
    BY <2>1 DEF UpdatedAtTriggers, UpdatedAtTables
<1> QED
  BY <1>1, <1>2, NeedsOfTypes, NeedsOfTables, NeedsOfTriggers DEF ActiveVersionConstraint

\* What rests on each object of revision 0002.
LEMMA Dependents ==
  LET On(o) == {p \in {"vector", "admin_user"} \cup CoreNames : o \in Needs[p]} IN
  /\ On("set_updated_at") = {"trg_widget_updated_at", "trg_source_document_updated_at",
        "trg_source_version_updated_at", "trg_conversation_updated_at", "trg_retrieval_trace_updated_at"}
  /\ On("enforce_source_version_transition") = {"trg_source_version_transition"}
  /\ On("retrieval_trace_chunk") = {} /\ On("message") = {}
  /\ On("retrieval_trace") = {"retrieval_trace_chunk", "trg_retrieval_trace_updated_at"}
  /\ On("conversation") = {"message", "retrieval_trace", "trg_conversation_updated_at"}
  /\ On("chunk") = {"retrieval_trace_chunk"}
  /\ On("source_version") = {"chunk", "fk_source_document_active_version", "trg_source_version_transition",
        "trg_source_version_updated_at"}
  /\ On("source_document") = {"source_version", "fk_source_document_active_version", "trg_source_document_updated_at"}
  /\ On("widget") = {"conversation", "trg_widget_updated_at"}
  /\ On("source_type") = {"source_document"} /\ On("source_version_status") = {"source_version"}
  /\ On("message_role") = {"message"} /\ On("retrieval_terminal_state") = {"retrieval_trace"}
  /\ On("fk_source_document_active_version") = {} /\ On("trg_source_version_transition") = {}
  /\ On("trg_widget_updated_at") = {} /\ On("trg_source_document_updated_at") = {}
  /\ On("trg_source_version_updated_at") = {} /\ On("trg_conversation_updated_at") = {}
  /\ On("trg_retrieval_trace_updated_at") = {}
  /\ On("vector") = {"chunk"} /\ On("admin_user") = {}
<1> DEFINE On(o) == {p \in {"vector", "admin_user"} \cup CoreNames : o \in Needs[p]}
<1>1. /\ On("set_updated_at") = {"trg_widget_updated_at", "trg_source_document_updated_at",
          "trg_source_version_updated_at", "trg_conversation_updated_at", "trg_retrieval_trace_updated_at"}
      /\ On("enforce_source_version_transition") = {"trg_source_version_transition"}
  BY NeedsByName DEF CoreNames
<1>2. On("retrieval_trace_chunk") = {} /\ On("message") = {}
  BY NeedsByName DEF CoreNames
<1>3. /\ On("retrieval_trace") = {"retrieval_trace_chunk", "trg_retrieval_trace_updated_at"}
      /\ On("conversation") = {"message", "retrieval_trace", "trg_conversation_updated_at"}
  BY NeedsByName DEF CoreNames
<1>4. On("chunk") = {"retrieval_trace_chunk"}
  BY NeedsByName DEF CoreNames
<1>5. On("source_version") = {"chunk", "fk_source_document_active_version", "trg_source_version_transition",
        "trg_source_version_updated_at"}
  BY NeedsByName DEF CoreNames
<1>6. /\ On("source_document") = {"source_version", "fk_source_document_active_version", "trg_source_document_updated_at"}
      /\ On("widget") = {"conversation", "trg_widget_updated_at"}
  BY NeedsByName DEF CoreNames
<1>7. /\ On("source_type") = {"source_document"} /\ On("source_version_status") = {"source_version"}
      /\ On("message_role") = {"message"} /\ On("retrieval_terminal_state") = {"retrieval_trace"}
  BY NeedsByName DEF CoreNames
<1>8. On("fk_source_document_active_version") = {} /\ On("trg_source_version_transition") = {}
  BY NeedsByName DEF CoreNames
<1>9. /\ On("trg_widget_updated_at") = {} /\ On("trg_source_document_updated_at") = {}
      /\ On("trg_source_version_updated_at") = {} /\ On("trg_conversation_updated_at") = {}
      /\ On("trg_retrieval_trace_updated_at") = {}
  BY NeedsByName DEF CoreNames
<1>10. On("vector") = {"chunk"} /\ On("admin_user") = {}
  BY NeedsByName DEF CoreNames
<1> QED
  BY <1>1, <1>2, <1>3, <1>4, <1>5, <1>6, <1>7, <1>8, <1>9, <1>10

LEMMA OwnersByName ==
  /\ Owner["vector"] = "rag_app" /\ Owner["admin_user"] = "rag_app"
  /\ Owner["source_type"] = "rag_app" /\ Owner["source_version_status"] = "rag_app"
  /\ Owner["message_role"] = "rag_app" /\ Owner["retrieval_terminal_state"] = "rag_app"
  /\ Owner["set_updated_at"] = "rag_app" /\ Owner["enforce_source_version_transition"] = "rag_app"
  /\ Owner["widget"] = "rag_app" /\ Owner["source_document"] = "rag_app" /\ Owner["source_version"] = "rag_app"
  /\ Owner["chunk"] = "rag_app" /\ Owner["conversation"] = "rag_app" /\ Owner["message"] = "rag_app"
  /\ Owner["retrieval_trace"] = "rag_app" /\ Owner["retrieval_trace_chunk"] = "rag_app"
  /\ Owner["fk_source_document_active_version"] = "source_document"
  /\ Owner["trg_source_version_transition"] = "source_version"
  /\ Owner["trg_widget_updated_at"] = "widget" /\ Owner["trg_source_document_updated_at"] = "source_document"
  /\ Owner["trg_source_version_updated_at"] = "source_version"
  /\ Owner["trg_conversation_updated_at"] = "conversation"
  /\ Owner["trg_retrieval_trace_updated_at"] = "retrieval_trace"
<1>1. \A o \in {"vector", "admin_user", "source_type", "source_version_status", "message_role",
                "retrieval_terminal_state", "set_updated_at", "enforce_source_version_transition", "widget",
                "source_document", "source_version", "chunk", "conversation", "message", "retrieval_trace",
                "retrieval_trace_chunk"} : Owner[o] = "rag_app"
  <2>1. \A o \in {"vector", "admin_user", "source_type", "source_version_status", "message_role",
                "retrieval_terminal_state", "set_updated_at", "enforce_source_version_transition", "widget",
                "source_document", "source_version", "chunk", "conversation", "message", "retrieval_trace",
                "retrieval_trace_chunk"} : o \in Objects
    BY AllObjects DEF CoreNames
  <2> QED
    BY <2>1, Owners
<1>2. /\ Owner["trg_widget_updated_at"] = "widget" /\ Owner["trg_source_document_updated_at"] = "source_document"
      /\ Owner["trg_source_version_updated_at"] = "source_version"
      /\ Owner["trg_conversation_updated_at"] = "conversation"
      /\ Owner["trg_retrieval_trace_updated_at"] = "retrieval_trace"
  <2>1. /\ Owner[UpdatedAtTriggers[1]] = UpdatedAtTables[1] /\ Owner[UpdatedAtTriggers[2]] = UpdatedAtTables[2]
        /\ Owner[UpdatedAtTriggers[3]] = UpdatedAtTables[3] /\ Owner[UpdatedAtTriggers[4]] = UpdatedAtTables[4]
        /\ Owner[UpdatedAtTriggers[5]] = UpdatedAtTables[5]
    BY Owners
  <2> QED
    BY <2>1 DEF UpdatedAtTriggers, UpdatedAtTables
<1> QED
  BY <1>1, <1>2, Owners DEF ActiveVersionConstraint

\* Revision 0002: types before the tables of their columns, tables before those that name
\* them, documents before versions before the key that closes the circle.
LEMMA CoreUpFits ==
  \E names \in Seq(Names) : CoreUp = ForAll(Create, names) /\ FitsUp({"vector"}, names)
<1> DEFINE widget == <<"widget">>
           chunk == <<"chunk">>
           function == <<"set_updated_at">>
           first == Enums \o widget
           sources == first \o SourceObjects
           chunks == sources \o chunk
           chats == chunks \o ChatTables
           traces == chats \o TraceTables
           transition == traces \o TransitionTrigger
           functions == transition \o function
           names == functions \o UpdatedAtTriggers
           Fits(s) == s \in Seq(Names) /\ FitsUp({"vector"}, s)
           types == {"vector", "source_type", "source_version_status", "message_role", "retrieval_terminal_state"}
           documents == types \cup {"widget", "source_document", "source_version", "fk_source_document_active_version"}
           tables == documents \cup {"chunk", "conversation", "message", "retrieval_trace", "retrieval_trace_chunk"}
           triggers == tables \cup {"enforce_source_version_transition", "trg_source_version_transition"}
<1>1. widget \in Seq(Names) /\ chunk \in Seq(Names) /\ function \in Seq(Names)
  BY CreatedNames
<1>2. Elements(widget) = {"widget"} /\ Elements(chunk) = {"chunk"} /\ Elements(function) = {"set_updated_at"}
  BY DEF Elements
<1>3. Elements(SourceObjects) = {"source_document", "source_version", "fk_source_document_active_version"}
  BY DEF Elements, SourceObjects, ActiveVersionConstraint
<1>4. /\ Elements(ChatTables) = {"conversation", "message"}
      /\ Elements(TraceTables) = {"retrieval_trace", "retrieval_trace_chunk"}
      /\ Elements(TransitionTrigger) = {"enforce_source_version_transition", "trg_source_version_transition"}
  BY DEF Elements, ChatTables, TraceTables, TransitionTrigger
<1>5. Elements(Enums) = {"source_type", "source_version_status", "message_role", "retrieval_terminal_state"}
  BY DEF Elements, Enums
<1>6. CoreUp = ForAll(Create, names)
  BY DEF CoreUp
<1>7. /\ "widget" \in Names /\ "chunk" \in Names /\ "set_updated_at" \in Names
      /\ "source_document" \in Names /\ "source_version" \in Names /\ ActiveVersionConstraint \in Names
      /\ "conversation" \in Names /\ "message" \in Names /\ "retrieval_trace" \in Names
      /\ "retrieval_trace_chunk" \in Names
      /\ "enforce_source_version_transition" \in Names /\ "trg_source_version_transition" \in Names
  BY DEF Names, ActiveVersionConstraint
\* The pieces, each on what the ones before it have created.
<1>8. FitsUp({"vector"}, Enums)
  <2>1. \A i \in 1..Len(Enums) : Enums[i] # "vector" /\ Needs[Enums[i]] = {}
    BY NeedsByName DEF Enums
  <2>2. \A i, j \in 1..Len(Enums) : i < j => Enums[i] # Enums[j]
    BY DEF Enums
  <2> QED
    BY <2>1, <2>2, EnumNames, FitsUpFlat
<1>9. FitsUp(types, widget)
  BY <1>7, NeedsByName, FitsUpTuples
<1>10. FitsUp(types \cup {"widget"}, SourceObjects)
  BY <1>7, NeedsByName, FitsUpTuples DEF SourceObjects, ActiveVersionConstraint
<1>11. FitsUp(documents, chunk)
  BY <1>7, NeedsByName, FitsUpTuples
<1>12. FitsUp(documents \cup {"chunk"}, ChatTables)
  BY <1>7, NeedsByName, FitsUpTuples DEF ChatTables
<1>13. FitsUp(documents \cup {"chunk", "conversation", "message"}, TraceTables)
  BY <1>7, NeedsByName, FitsUpTuples DEF TraceTables
<1>14. FitsUp(tables, TransitionTrigger)
  BY <1>7, NeedsByName, FitsUpTuples DEF TransitionTrigger
<1>15. FitsUp(triggers, function)
  BY <1>7, NeedsByName, FitsUpTuples
<1>16. FitsUp(triggers \cup {"set_updated_at"}, UpdatedAtTriggers)
  <2>1. \A i \in 1..Len(UpdatedAtTriggers) :
          /\ UpdatedAtTriggers[i] \notin triggers \cup {"set_updated_at"}
          /\ Needs[UpdatedAtTriggers[i]] \subseteq triggers \cup {"set_updated_at"}
    BY NeedsByName DEF UpdatedAtTriggers
  <2>2. \A i, j \in 1..Len(UpdatedAtTriggers) : i < j => UpdatedAtTriggers[i] # UpdatedAtTriggers[j]
    BY DEF UpdatedAtTriggers
  <2> QED
    BY <2>1, <2>2, UpdatedAtNames, FitsUpFlat
<1> HIDE DEF widget, chunk, function
\* One after the other.
<1>17. Fits(first) /\ {"vector"} \cup Elements(first) = types \cup {"widget"}
  <2>1. {"vector"} \cup Elements(Enums) = types
    BY <1>5
  <2>2. Elements(first) = Elements(Enums) \cup Elements(widget) /\ first \in Seq(Names)
    BY <1>1, EnumNames, ElementsOfConcat
  <2> QED
    BY <1>1, <1>2, <1>8, <1>9, <2>1, <2>2, EnumNames, FitsUpConcat
<1> HIDE DEF first
<1>18. Fits(sources) /\ {"vector"} \cup Elements(sources) = documents
  <2>1. Elements(sources) = Elements(first) \cup Elements(SourceObjects) /\ sources \in Seq(Names)
    BY <1>17, CreatedNames, ElementsOfConcat
  <2>2. FitsUp({"vector"} \cup Elements(first), SourceObjects)
    BY <1>10, <1>17
  <2>3. {"vector"} \cup Elements(sources) = documents
    BY <1>3, <1>17, <2>1
  <2> QED
    BY <1>17, <2>1, <2>2, <2>3, CreatedNames, FitsUpConcat
<1> HIDE DEF sources
<1>19. Fits(chunks) /\ {"vector"} \cup Elements(chunks) = documents \cup {"chunk"}
  <2>1. Elements(chunks) = Elements(sources) \cup Elements(chunk) /\ chunks \in Seq(Names)
    BY <1>1, <1>18, ElementsOfConcat
  <2>2. FitsUp({"vector"} \cup Elements(sources), chunk)
    BY <1>11, <1>18
  <2>3. {"vector"} \cup Elements(chunks) = documents \cup {"chunk"}
    BY <1>2, <1>18, <2>1
  <2> QED
    BY <1>1, <1>18, <2>1, <2>2, <2>3, FitsUpConcat
<1> HIDE DEF chunks
<1>20. Fits(chats) /\ {"vector"} \cup Elements(chats) = documents \cup {"chunk", "conversation", "message"}
  <2>1. Elements(chats) = Elements(chunks) \cup Elements(ChatTables) /\ chats \in Seq(Names)
    BY <1>19, CreatedNames, ElementsOfConcat
  <2>2. FitsUp({"vector"} \cup Elements(chunks), ChatTables)
    BY <1>12, <1>19
  <2>3. {"vector"} \cup Elements(chats) = documents \cup {"chunk", "conversation", "message"}
    BY <1>4, <1>19, <2>1
  <2> QED
    BY <1>19, <2>1, <2>2, <2>3, CreatedNames, FitsUpConcat
<1> HIDE DEF chats
<1>21. Fits(traces) /\ {"vector"} \cup Elements(traces) = tables
  <2>1. Elements(traces) = Elements(chats) \cup Elements(TraceTables) /\ traces \in Seq(Names)
    BY <1>20, CreatedNames, ElementsOfConcat
  <2>2. FitsUp({"vector"} \cup Elements(chats), TraceTables)
    BY <1>13, <1>20
  <2>3. {"vector"} \cup Elements(traces) = tables
    BY <1>4, <1>20, <2>1
  <2> QED
    BY <1>20, <2>1, <2>2, <2>3, CreatedNames, FitsUpConcat
<1> HIDE DEF traces
<1>22. Fits(transition) /\ {"vector"} \cup Elements(transition) = triggers
  <2>1. Elements(transition) = Elements(traces) \cup Elements(TransitionTrigger) /\ transition \in Seq(Names)
    BY <1>21, CreatedNames, ElementsOfConcat
  <2>2. FitsUp({"vector"} \cup Elements(traces), TransitionTrigger)
    BY <1>14, <1>21
  <2>3. {"vector"} \cup Elements(transition) = triggers
    BY <1>4, <1>21, <2>1
  <2> QED
    BY <1>21, <2>1, <2>2, <2>3, CreatedNames, FitsUpConcat
<1> HIDE DEF transition
<1>23. Fits(functions) /\ {"vector"} \cup Elements(functions) = triggers \cup {"set_updated_at"}
  <2>1. Elements(functions) = Elements(transition) \cup Elements(function) /\ functions \in Seq(Names)
    BY <1>1, <1>22, ElementsOfConcat
  <2>2. FitsUp({"vector"} \cup Elements(transition), function)
    BY <1>15, <1>22
  <2>3. {"vector"} \cup Elements(functions) = triggers \cup {"set_updated_at"}
    BY <1>2, <1>22, <2>1
  <2> QED
    BY <1>1, <1>22, <2>1, <2>2, <2>3, FitsUpConcat
<1> HIDE DEF functions
<1>24. Fits(names)
  <2>1. FitsUp({"vector"} \cup Elements(functions), UpdatedAtTriggers)
    BY <1>16, <1>23
  <2> QED
    BY <1>23, <2>1, UpdatedAtNames, ElementsOfConcat, FitsUpConcat
<1> HIDE DEF names
<1> QED
  BY <1>6, <1>24

\* The objects that the statements of a script before one name.
Before(script, n) == {script[i].object : i \in {j \in 1..Len(script) : j < n}}

LEMMA UpgradeFits ==
  ASSUME NEW r \in 1..3, NEW n \in 1..Len(Upgrade[r])
  PROVE  LET o == Upgrade[r][n].object
             there == Installed[r - 1] \cup Before(Upgrade[r], n)
         IN o \notin there /\ Needs[o] \subseteq there
<1> DEFINE o == Upgrade[r][n].object
           there == Installed[r - 1] \cup Before(Upgrade[r], n)
<1>1. r \in {1, 2, 3} /\ Upgrade[1] = PgvectorUp /\ Upgrade[2] = CoreUp /\ Upgrade[3] = AdminUp
  BY DEF Upgrade
<1>2. Installed[0] = {} /\ Installed[1] = {"vector"} /\ Installed[2] = {"vector"} \cup CoreNames
  BY InstalledSets
<1>3. CASE r = 1
  <2>1. Len(PgvectorUp) = 1 /\ PgvectorUp[1].object = "vector" /\ {j \in 1..1 : j < 1} = {}
    BY DEF PgvectorUp, Ensure
  <2>2. n = 1
    <3>1. Upgrade[r] = PgvectorUp
      BY <1>1, <1>3
    <3>2. Len(Upgrade[r]) = 1
      BY <2>1, <3>1
    <3> QED
      BY <3>2
  <2>3. o = "vector" /\ Before(Upgrade[r], n) = {}
    BY <1>1, <1>3, <2>1, <2>2 DEF Before
  <2> QED
    BY <1>2, <1>3, <2>3, NeedsByName
<1>4. CASE r = 3
  <2>1. Len(AdminUp) = 1 /\ AdminUp[1].object = "admin_user" /\ {j \in 1..1 : j < 1} = {}
    BY DEF AdminUp, Create
  <2>2. n = 1
    BY <1>1, <1>4, <2>1
  <2>3. o = "admin_user" /\ Before(Upgrade[r], n) = {}
    BY <1>1, <1>4, <2>1, <2>2 DEF Before
  <2>4. "admin_user" \notin Installed[2]
    BY NewNames
  <2> QED
    BY <1>2, <1>4, <2>3, <2>4, NeedsByName
<1>5. CASE r = 2
  <2> PICK names \in Seq(Names) : CoreUp = ForAll(Create, names) /\ FitsUp({"vector"}, names)
    BY CoreUpFits
  <2>1. DOMAIN names = 1..Len(names) /\ Len(names) \in Nat
    OBVIOUS
  <2>2. CoreUp = [i \in 1..Len(names) |-> [does |-> "create", object |-> names[i]]]
    BY <2>1 DEF ForAll, Create
  <2>3. Len(CoreUp) = Len(names) /\ \A i \in 1..Len(names) : CoreUp[i].object = names[i]
    BY <2>1, <2>2
  <2>4. n \in 1..Len(names) /\ o = names[n]
    BY <1>1, <1>5, <2>3
  <2>5. Before(CoreUp, n) = Prior(names, n)
    BY <2>3 DEF Before, Prior
  <2>6. names[n] \notin {"vector"} \cup Prior(names, n) /\ Needs[names[n]] \subseteq {"vector"} \cup Prior(names, n)
    BY <2>4 DEF FitsUp
  <2>7. there = {"vector"} \cup Prior(names, n)
    BY <1>1, <1>2, <1>5, <2>5
  <2> HIDE DEF o, there
  <2>8. o \notin there /\ Needs[o] \subseteq there
    BY <2>4, <2>6, <2>7
  <2> QED
    BY <2>8 DEF o, there
<1> QED
  BY <1>1, <1>3, <1>4, <1>5

LEMMA FitsDownOne ==
  ASSUME NEW R, NEW A, NEW a \in R \ A, Owner[a] \notin A, \A p \in R : a \in Needs[p] => p \in A
  PROVE  FitsDown(R, A, <<a>>)
<1>1. Prior(<<a>>, 1) = {} /\ Len(<<a>>) = 1
  BY PriorOfOne
<1>2. 1..1 = {1}
  OBVIOUS
<1> QED
  BY <1>1, <1>2 DEF FitsDown

\* The tables go in the order their foreign keys allow.
LEMMA TablesFit ==
  FitsDown({"vector"} \cup CoreNames, Elements(TriggersDown) \cup {ActiveVersionConstraint}, TablesDown)
<1> DEFINE R == {"vector"} \cup CoreNames
           A == Elements(TriggersDown) \cup {ActiveVersionConstraint}
           On(o) == {p \in {"vector", "admin_user"} \cup CoreNames : o \in Needs[p]}
           gone == {"trg_widget_updated_at", "trg_source_document_updated_at", "trg_source_version_updated_at",
                    "trg_conversation_updated_at", "trg_retrieval_trace_updated_at", "set_updated_at",
                    "trg_source_version_transition", "enforce_source_version_transition",
                    "fk_source_document_active_version"}
           Fits(o, there) == /\ o \in R \ there /\ Owner[o] \notin there
                             /\ \A p \in R : o \in Needs[p] => p \in there
<1>1. A = gone
  <2>1. Elements(UpdatedAtTriggers) =
          {"trg_widget_updated_at", "trg_source_document_updated_at", "trg_source_version_updated_at",
           "trg_conversation_updated_at", "trg_retrieval_trace_updated_at"}
    BY DEF Elements, UpdatedAtTriggers
  <2> DEFINE rest == <<"set_updated_at", "trg_source_version_transition", "enforce_source_version_transition">>
  <2>2. Elements(rest) = {"set_updated_at", "trg_source_version_transition", "enforce_source_version_transition"}
    BY DEF Elements
  <2>3. "set_updated_at" \in Names /\ "trg_source_version_transition" \in Names /\ "enforce_source_version_transition" \in Names
    BY DEF Names
  <2>4. rest \in Seq(Names)
    BY <2>3, Tuples
  <2>5. TriggersDown = UpdatedAtTriggers \o rest
    BY DEF TriggersDown
  <2> HIDE DEF rest
  <2>6. Elements(TriggersDown) = Elements(UpdatedAtTriggers) \cup Elements(rest)
    BY <2>4, <2>5, UpdatedAtNames, ElementsOfConcat
  <2> QED
    BY <2>1, <2>2, <2>6 DEF ActiveVersionConstraint
<1>2. /\ TablesDown[1] = "retrieval_trace_chunk" /\ TablesDown[2] = "retrieval_trace" /\ TablesDown[3] = "message"
      /\ TablesDown[4] = "conversation" /\ TablesDown[5] = "chunk" /\ TablesDown[6] = "source_version"
      /\ TablesDown[7] = "source_document" /\ TablesDown[8] = "widget" /\ Len(TablesDown) = 8
  BY DEF TablesDown
<1>3. 1..8 = {1, 2, 3, 4, 5, 6, 7, 8}
  OBVIOUS
<1>4. \A n \in 1..8 : Prior(TablesDown, n) = {TablesDown[j] : j \in {k \in 1..8 : k < n}}
  BY <1>2 DEF Prior
<1>5. ASSUME NEW o, NEW there, o \in CoreNames, o \notin there, Owner[o] \notin there, On(o) \subseteq there
      PROVE  Fits(o, there)
  BY <1>5
<1> HIDE DEF A, Fits
<1>6. Fits("retrieval_trace_chunk", A \cup Prior(TablesDown, 1))
  <2>1. {k \in 1..8 : k < 1} = {}
    OBVIOUS
  <2>2. A \cup Prior(TablesDown, 1) = gone
    BY <1>1, <1>3, <1>4, <2>1
  <2>3. "retrieval_trace_chunk" \notin gone /\ Owner["retrieval_trace_chunk"] \notin gone
    BY OwnersByName
  <2>4. On("retrieval_trace_chunk") \subseteq gone /\ "retrieval_trace_chunk" \in CoreNames
    BY Dependents DEF CoreNames
  <2> HIDE DEF gone, On
  <2> QED
    BY <1>5, <2>2, <2>3, <2>4
<1>7. Fits("retrieval_trace", A \cup Prior(TablesDown, 2))
  <2> DEFINE there == gone \cup {"retrieval_trace_chunk"}
  <2>1. {k \in 1..8 : k < 2} = {1}
    OBVIOUS
  <2>2. A \cup Prior(TablesDown, 2) = there
    BY <1>1, <1>2, <1>3, <1>4, <2>1
  <2>3. "retrieval_trace" \notin there /\ Owner["retrieval_trace"] \notin there
    BY OwnersByName
  <2>4. On("retrieval_trace") \subseteq there /\ "retrieval_trace" \in CoreNames
    BY Dependents DEF CoreNames
  <2> HIDE DEF there, On
  <2> QED
    BY <1>5, <2>2, <2>3, <2>4
<1>8. Fits("message", A \cup Prior(TablesDown, 3))
  <2> DEFINE there == gone \cup {"retrieval_trace_chunk", "retrieval_trace"}
  <2>1. {k \in 1..8 : k < 3} = {1, 2}
    OBVIOUS
  <2>2. A \cup Prior(TablesDown, 3) = there
    BY <1>1, <1>2, <1>3, <1>4, <2>1
  <2>3. "message" \notin there /\ Owner["message"] \notin there
    BY OwnersByName
  <2>4. On("message") \subseteq there /\ "message" \in CoreNames
    BY Dependents DEF CoreNames
  <2> HIDE DEF there, On
  <2> QED
    BY <1>5, <2>2, <2>3, <2>4
<1>9. Fits("conversation", A \cup Prior(TablesDown, 4))
  <2> DEFINE there == gone \cup {"retrieval_trace_chunk", "retrieval_trace", "message"}
  <2>1. {k \in 1..8 : k < 4} = {1, 2, 3}
    OBVIOUS
  <2>2. A \cup Prior(TablesDown, 4) = there
    BY <1>1, <1>2, <1>3, <1>4, <2>1
  <2>3. "conversation" \notin there /\ Owner["conversation"] \notin there
    BY OwnersByName
  <2>4. On("conversation") \subseteq there /\ "conversation" \in CoreNames
    BY Dependents DEF CoreNames
  <2> HIDE DEF there, On
  <2> QED
    BY <1>5, <2>2, <2>3, <2>4
<1>10. Fits("chunk", A \cup Prior(TablesDown, 5))
  <2> DEFINE there == gone \cup {"retrieval_trace_chunk", "retrieval_trace", "message", "conversation"}
  <2>1. {k \in 1..8 : k < 5} = {1, 2, 3, 4}
    OBVIOUS
  <2>2. A \cup Prior(TablesDown, 5) = there
    BY <1>1, <1>2, <1>3, <1>4, <2>1
  <2>3. "chunk" \notin there /\ Owner["chunk"] \notin there
    BY OwnersByName
  <2>4. On("chunk") \subseteq there /\ "chunk" \in CoreNames
    BY Dependents DEF CoreNames
  <2> HIDE DEF there, On
  <2> QED
    BY <1>5, <2>2, <2>3, <2>4
<1>11. Fits("source_version", A \cup Prior(TablesDown, 6))
  <2> DEFINE there == gone \cup {"retrieval_trace_chunk", "retrieval_trace", "message", "conversation", "chunk"}
  <2>1. {k \in 1..8 : k < 6} = {1, 2, 3, 4, 5}
    OBVIOUS
  <2>2. A \cup Prior(TablesDown, 6) = there
    BY <1>1, <1>2, <1>3, <1>4, <2>1
  <2>3. "source_version" \notin there /\ Owner["source_version"] \notin there
    BY OwnersByName
  <2>4. On("source_version") \subseteq there /\ "source_version" \in CoreNames
    BY Dependents DEF CoreNames
  <2> HIDE DEF there, On
  <2> QED
    BY <1>5, <2>2, <2>3, <2>4
<1>12. Fits("source_document", A \cup Prior(TablesDown, 7))
  <2> DEFINE there == gone \cup {"retrieval_trace_chunk", "retrieval_trace", "message", "conversation", "chunk",
                                 "source_version"}
  <2>1. {k \in 1..8 : k < 7} = {1, 2, 3, 4, 5, 6}
    OBVIOUS
  <2>2. A \cup Prior(TablesDown, 7) = there
    BY <1>1, <1>2, <1>3, <1>4, <2>1
  <2>3. "source_document" \notin there /\ Owner["source_document"] \notin there
    BY OwnersByName
  <2>4. On("source_document") \subseteq there /\ "source_document" \in CoreNames
    BY Dependents DEF CoreNames
  <2> HIDE DEF there, On
  <2> QED
    BY <1>5, <2>2, <2>3, <2>4
<1>13. Fits("widget", A \cup Prior(TablesDown, 8))
  <2> DEFINE there == gone \cup {"retrieval_trace_chunk", "retrieval_trace", "message", "conversation", "chunk",
                                 "source_version", "source_document"}
  <2>1. {k \in 1..8 : k < 8} = {1, 2, 3, 4, 5, 6, 7}
    OBVIOUS
  <2>2. A \cup Prior(TablesDown, 8) = there
    BY <1>1, <1>2, <1>3, <1>4, <2>1
  <2>3. "widget" \notin there /\ Owner["widget"] \notin there
    BY OwnersByName
  <2>4. On("widget") \subseteq there /\ "widget" \in CoreNames
    BY Dependents DEF CoreNames
  <2> HIDE DEF there, On
  <2> QED
    BY <1>5, <2>2, <2>3, <2>4
<1>14. \A n \in 1..8 : Fits(TablesDown[n], A \cup Prior(TablesDown, n))
  BY <1>2, <1>3, <1>6, <1>7, <1>8, <1>9, <1>10, <1>11, <1>12, <1>13
<1> HIDE DEF R
<1>15. FitsDown(R, A, TablesDown)
  BY <1>2, <1>14 DEF FitsDown, Fits
<1> QED
  BY <1>15 DEF A, R

\* Revision 0002 taken back: the key that closes the circle first, then tables before
\* those they name, types last.
LEMMA CoreDownFits ==
  LET rest == <<ActiveVersionConstraint>> \o TablesDown \o Reverse(Enums)
  IN  FitsDown({"vector"} \cup CoreNames, {}, TriggersDown \o rest) /\ rest \in Seq(Names)
<1> DEFINE R == {"vector"} \cup CoreNames
           On(o) == {p \in {"vector", "admin_user"} \cup CoreNames : o \in Needs[p]}
           updates == {"trg_widget_updated_at", "trg_source_document_updated_at", "trg_source_version_updated_at",
                       "trg_conversation_updated_at", "trg_retrieval_trace_updated_at"}
           function == <<"set_updated_at">>
           transition == <<"trg_source_version_transition">>
           check == <<"enforce_source_version_transition">>
           functions == <<"set_updated_at", "trg_source_version_transition", "enforce_source_version_transition">>
           constraint == <<ActiveVersionConstraint>>
           enums == Reverse(Enums)
           tables == {"retrieval_trace_chunk", "retrieval_trace", "message", "conversation", "chunk", "source_version",
                      "source_document", "widget"}
           types == {"source_type", "source_version_status", "message_role", "retrieval_terminal_state"}
           triggers == updates \cup {"set_updated_at", "trg_source_version_transition", "enforce_source_version_transition"}
           key == {"fk_source_document_active_version"}
<1>1. /\ "set_updated_at" \in Names /\ "trg_source_version_transition" \in Names
      /\ "enforce_source_version_transition" \in Names
  BY DEF Names
<1>2. /\ function \in Seq(Names) /\ transition \in Seq(Names) /\ check \in Seq(Names) /\ constraint \in Seq(Names)
      /\ functions \in Seq(Names)
  BY <1>1, Tuples, ConstraintName
<1>3. enums \in Seq(Names) /\ Elements(enums) = types
  <2>1. Elements(Enums) = types
    BY DEF Elements, Enums
  <2> QED
    BY <2>1, EnumNames, ElementsOfReverse
<1>4. Elements(UpdatedAtTriggers) = updates
  BY DEF Elements, UpdatedAtTriggers
<1>5. /\ Elements(function) = {"set_updated_at"} /\ Elements(transition) = {"trg_source_version_transition"}
      /\ Elements(check) = {"enforce_source_version_transition"} /\ Elements(constraint) = key
      /\ Elements(functions) = {"set_updated_at", "trg_source_version_transition", "enforce_source_version_transition"}
  BY DEF Elements, ActiveVersionConstraint
<1>6. Elements(TablesDown) = tables
  BY DEF Elements, TablesDown
<1>7. TriggersDown = UpdatedAtTriggers \o functions
  BY DEF TriggersDown
<1>8. functions = (function \o transition) \o check
  OBVIOUS
\* The pieces, each when the ones before it have gone.
<1>9. FitsDown(R, {}, UpdatedAtTriggers)
  <2>1. \A i \in 1..Len(UpdatedAtTriggers) : UpdatedAtTriggers[i] \in updates
    BY DEF UpdatedAtTriggers
  <2>2. \A o \in updates : o \in R /\ Owner[o] \notin updates
    BY OwnersByName DEF CoreNames
  <2>3. \A o \in updates : On(o) = {}
    BY Dependents
  <2>4. \A o \in updates : \A p \in R : o \notin Needs[p]
    BY <2>3
  <2>5. \A i, j \in 1..Len(UpdatedAtTriggers) : i < j => UpdatedAtTriggers[i] # UpdatedAtTriggers[j]
    BY DEF UpdatedAtTriggers
  <2> HIDE DEF R, updates
  <2> QED
    BY <1>4, <2>1, <2>2, <2>4, <2>5, UpdatedAtNames, FitsDownFlat
<1>10. ASSUME NEW o, NEW A, o \in CoreNames, o \notin A, Owner[o] \notin A, On(o) \subseteq A
       PROVE  FitsDown(R, A, <<o>>)
  <2>1. o \in R \ A /\ \A p \in R : o \in Needs[p] => p \in A
    BY <1>10
  <2> HIDE DEF R
  <2> QED
    BY <1>10, <2>1, FitsDownOne
<1>11. FitsDown(R, updates, function)
  <2>1. "set_updated_at" \in CoreNames /\ "set_updated_at" \notin updates /\ Owner["set_updated_at"] \notin updates
    BY OwnersByName DEF CoreNames
  <2>2. On("set_updated_at") = updates
    BY Dependents
  <2> HIDE DEF On, updates, R
  <2> QED
    BY <1>10, <2>1, <2>2
<1>12. FitsDown(R, updates \cup {"set_updated_at"}, transition)
  <2> DEFINE A == updates \cup {"set_updated_at"}
  <2>1. /\ "trg_source_version_transition" \in CoreNames /\ "trg_source_version_transition" \notin A
        /\ Owner["trg_source_version_transition"] \notin A
    BY OwnersByName DEF CoreNames
  <2>2. On("trg_source_version_transition") = {}
    BY Dependents
  <2> HIDE DEF On, A, R
  <2>3. FitsDown(R, A, transition)
    BY <1>10, <2>1, <2>2
  <2> QED
    BY <2>3 DEF A
<1>13. FitsDown(R, updates \cup {"set_updated_at", "trg_source_version_transition"}, check)
  <2> DEFINE A == updates \cup {"set_updated_at", "trg_source_version_transition"}
  <2>1. /\ "enforce_source_version_transition" \in CoreNames /\ "enforce_source_version_transition" \notin A
        /\ Owner["enforce_source_version_transition"] \notin A
    BY OwnersByName DEF CoreNames
  <2>2. On("enforce_source_version_transition") \subseteq A
    BY Dependents
  <2> HIDE DEF On, A, R
  <2>3. FitsDown(R, A, check)
    BY <1>10, <2>1, <2>2
  <2> QED
    BY <2>3 DEF A
<1>14. FitsDown(R, triggers, constraint)
  <2>1. /\ "fk_source_document_active_version" \in CoreNames /\ "fk_source_document_active_version" \notin triggers
        /\ Owner["fk_source_document_active_version"] \notin triggers
    BY OwnersByName DEF CoreNames
  <2>2. On("fk_source_document_active_version") = {}
    BY Dependents
  <2> HIDE DEF On, triggers, R
  <2> QED
    BY <1>10, <2>1, <2>2 DEF ActiveVersionConstraint
<1>15. FitsDown(R, triggers \cup key \cup tables, enums)
  <2> DEFINE A == triggers \cup key \cup tables
  <2>1. \A i \in 1..Len(enums) : enums[i] \in types
    BY <1>3 DEF Elements
  <2>2. \A o \in types : o \in R /\ o \notin A /\ Owner[o] = "rag_app"
    BY OwnersByName DEF CoreNames
  <2>3. \A o \in types : On(o) \subseteq A
    BY Dependents
  <2>4. \A o \in types : \A p \in R : o \in Needs[p] => p \in A
    BY <2>3
  <2>5. "rag_app" \notin A \cup types
    OBVIOUS
  <2>6. \A i, j \in 1..Len(enums) : i < j => enums[i] # enums[j]
    <3>1. Len(Enums) = 4 /\ \A i, j \in 1..4 : i # j => Enums[i] # Enums[j]
      BY DEF Enums
    <3>2. Len(enums) = 4 /\ \A i \in 1..4 : enums[i] = Enums[(4 - i) + 1]
      BY <3>1 DEF Reverse
    <3>3. \A i \in 1..4 : (4 - i) + 1 \in 1..4
      OBVIOUS
    <3>4. \A i, j \in 1..4 : i < j => (4 - i) + 1 # (4 - j) + 1
      OBVIOUS
    <3> HIDE DEF enums
    <3> QED
      BY <3>1, <3>2, <3>3, <3>4
  <2> HIDE DEF R, A, types, enums
  <2>7. FitsDown(R, A, enums)
    BY <1>3, <2>1, <2>2, <2>4, <2>5, <2>6, FitsDownFlat
  <2> QED
    BY <2>7 DEF A
<1>16. FitsDown(R, triggers \cup key, TablesDown)
  <2>1. Elements(TriggersDown) = triggers
    <3> HIDE DEF functions
    <3>1. Elements(TriggersDown) = Elements(UpdatedAtTriggers) \cup Elements(functions)
      BY <1>2, <1>7, UpdatedAtNames, ElementsOfConcat
    <3> QED
      BY <1>4, <1>5, <3>1
  <2>2. {ActiveVersionConstraint} = key
    BY DEF ActiveVersionConstraint
  <2> QED
    BY <2>1, <2>2, TablesFit
<1> HIDE DEF function, transition, check, functions, constraint, enums, R
\* One after the other.
<1>17. /\ FitsDown(R, updates, functions)
       /\ Elements(function \o transition) = {"set_updated_at", "trg_source_version_transition"}
  <2> DEFINE both == function \o transition
  <2>1. both \in Seq(Names) /\ Elements(both) = Elements(function) \cup Elements(transition)
    BY <1>2, ElementsOfConcat
  <2>2. FitsDown(R, updates, both)
    BY <1>2, <1>5, <1>11, <1>12, FitsDownConcat
  <2>3. updates \cup Elements(both) = updates \cup {"set_updated_at", "trg_source_version_transition"}
    BY <1>5, <2>1
  <2>4. functions = both \o check
    BY <1>8
  <2> HIDE DEF both
  <2>5. FitsDown(R, updates \cup Elements(both), check)
    BY <1>13, <2>3
  <2>6. FitsDown(R, updates, functions)
    BY <1>2, <2>1, <2>2, <2>4, <2>5, FitsDownConcat
  <2> QED
    BY <1>5, <2>1, <2>6 DEF both
<1>18. /\ TriggersDown \in Seq(Names) /\ Elements(TriggersDown) = triggers
       /\ FitsDown(R, {}, TriggersDown)
  <2>1. Elements(TriggersDown) = Elements(UpdatedAtTriggers) \cup Elements(functions)
    BY <1>2, <1>7, UpdatedAtNames, ElementsOfConcat
  <2>2. FitsDown(R, {} \cup Elements(UpdatedAtTriggers), functions)
    BY <1>4, <1>17
  <2>3. FitsDown(R, {}, TriggersDown)
    BY <1>2, <1>7, <1>9, <2>2, UpdatedAtNames, FitsDownConcat
  <2> QED
    BY <1>4, <1>5, <2>1, <2>3, TriggerNames
<1> DEFINE first == constraint \o TablesDown
           rest == first \o enums
<1>19. /\ first \in Seq(Names) /\ Elements(first) = key \cup tables
       /\ FitsDown(R, triggers, first)
  <2>1. Elements(first) = Elements(constraint) \cup Elements(TablesDown) /\ first \in Seq(Names)
    BY <1>2, TableNames, ElementsOfConcat
  <2>2. FitsDown(R, triggers \cup Elements(constraint), TablesDown)
    BY <1>5, <1>16
  <2>3. FitsDown(R, triggers, first)
    BY <1>2, <1>14, <2>2, TableNames, FitsDownConcat
  <2> QED
    BY <1>5, <1>6, <2>1, <2>3
<1> HIDE DEF first
<1>20. rest \in Seq(Names) /\ FitsDown(R, triggers, rest)
  <2>1. triggers \cup Elements(first) = triggers \cup key \cup tables
    BY <1>19
  <2>2. FitsDown(R, triggers \cup Elements(first), enums)
    BY <1>15, <2>1
  <2> QED
    BY <1>3, <1>19, <2>2, ElementsOfConcat, FitsDownConcat
<1> HIDE DEF rest
<1>21. FitsDown(R, {}, TriggersDown \o rest)
  <2>1. {} \cup Elements(TriggersDown) = triggers
    BY <1>18
  <2>2. FitsDown(R, {} \cup Elements(TriggersDown), rest)
    BY <1>20, <2>1
  <2> QED
    BY <1>18, <1>20, <2>2, FitsDownConcat
<1> QED
  BY <1>20, <1>21 DEF R, rest, first, constraint, enums

LEMMA DowngradeFits ==
  ASSUME NEW r \in 1..3, NEW n \in 1..Len(Downgrade[r])
  PROVE  LET o == Downgrade[r][n].object
             gone == Before(Downgrade[r], n)
         IN /\ o \in Installed[r] \ gone /\ Owner[o] \notin gone
            /\ \A p \in Installed[r] : o \in Needs[p] => p \in gone
<1> DEFINE o == Downgrade[r][n].object
           gone == Before(Downgrade[r], n)
           Fits(x, A) == x \in Installed[r] \ A /\ Owner[x] \notin A /\ \A p \in Installed[r] : x \in Needs[p] => p \in A
           On(x) == {p \in {"vector", "admin_user"} \cup CoreNames : x \in Needs[p]}
<1>1. r \in {1, 2, 3} /\ Downgrade[1] = PgvectorDown /\ Downgrade[2] = CoreDown /\ Downgrade[3] = AdminDown
  BY DEF Downgrade
<1>2. /\ Installed[1] = {"vector"} /\ Installed[2] = {"vector"} \cup CoreNames
      /\ Installed[3] = {"vector", "admin_user"} \cup CoreNames
  BY InstalledSets
<1>3. CASE r = 1
  <2>1. Len(PgvectorDown) = 1 /\ PgvectorDown[1].object = "vector" /\ {j \in 1..1 : j < 1} = {}
    BY DEF PgvectorDown, Clear
  <2>2. n = 1
    <3>1. Downgrade[r] = PgvectorDown
      BY <1>1, <1>3
    <3>2. Len(Downgrade[r]) = 1
      BY <2>1, <3>1
    <3> QED
      BY <3>2
  <2>3. o = "vector" /\ gone = {}
    BY <1>1, <1>3, <2>1, <2>2 DEF Before
  <2> QED
    BY <1>2, <1>3, <2>3, NeedsByName
<1>4. CASE r = 3
  <2>1. Len(AdminDown) = 1 /\ AdminDown[1].object = "admin_user" /\ {j \in 1..1 : j < 1} = {}
    BY DEF AdminDown, Drop
  <2>2. n = 1
    <3>1. Downgrade[r] = AdminDown
      BY <1>1, <1>4
    <3>2. Len(Downgrade[r]) = 1
      BY <2>1, <3>1
    <3> QED
      BY <3>2
  <2>3. o = "admin_user" /\ gone = {}
    BY <1>1, <1>4, <2>1, <2>2 DEF Before
  <2>4. On("admin_user") = {}
    BY Dependents
  <2>5. \A p \in Installed[r] : "admin_user" \notin Needs[p]
    BY <1>2, <1>4, <2>4
  <2> QED
    BY <1>2, <1>4, <2>3, <2>5
<1>5. CASE r = 2
  <2> DEFINE rest == <<ActiveVersionConstraint>> \o TablesDown \o Reverse(Enums)
             clears == ForAll(Clear, TriggersDown)
             drops == ForAll(Drop, rest)
             names == TriggersDown \o rest
  <2>1. rest \in Seq(Names) /\ FitsDown({"vector"} \cup CoreNames, {}, names)
    BY CoreDownFits
  <2>2. CoreDown = clears \o drops
    BY DEF CoreDown
  <2> HIDE DEF rest
  <2>3. /\ DOMAIN TriggersDown = 1..Len(TriggersDown) /\ Len(TriggersDown) \in Nat
        /\ DOMAIN rest = 1..Len(rest) /\ Len(rest) \in Nat
    BY <2>1, TriggerNames
  <2>4. /\ clears = [i \in 1..Len(TriggersDown) |-> [does |-> "clear", object |-> TriggersDown[i]]]
        /\ drops = [i \in 1..Len(rest) |-> [does |-> "drop", object |-> rest[i]]]
    BY <2>3 DEF ForAll, Clear, Drop
  <2>5. clears \in Seq(Removal) /\ drops \in Seq(Removal)
    BY <2>1, TriggerNames, Removals
  <2>6. /\ Len(clears) = Len(TriggersDown) /\ Len(drops) = Len(rest)
        /\ \A i \in 1..Len(TriggersDown) : clears[i].object = TriggersDown[i]
        /\ \A i \in 1..Len(rest) : drops[i].object = rest[i]
    <3>1. Len(clears) = Len(TriggersDown) /\ Len(drops) = Len(rest)
      BY <2>3, <2>4, <2>5
    <3> QED
      BY <2>4, <3>1
  <2> HIDE DEF clears, drops
  <2>7. Len(CoreDown) = Len(names) /\ Len(names) = Len(TriggersDown) + Len(rest)
    BY <2>1, <2>2, <2>5, <2>6, TriggerNames
  <2>8. ASSUME NEW i \in 1..Len(names) PROVE CoreDown[i].object = names[i]
    <3>1. CASE i <= Len(TriggersDown)
      <4>1. CoreDown[i] = clears[i] /\ names[i] = TriggersDown[i]
        BY <2>1, <2>2, <2>3, <2>5, <2>6, <2>7, <3>1, TriggerNames
      <4> QED
        BY <2>3, <2>6, <3>1, <4>1
    <3>2. CASE i > Len(TriggersDown)
      <4> DEFINE j == i - Len(TriggersDown)
      <4>1. j \in 1..Len(rest) /\ i = Len(TriggersDown) + j
        BY <2>3, <2>7, <3>2
      <4> HIDE DEF j
      <4>2. CoreDown[i] = drops[j] /\ names[i] = rest[j]
        BY <2>1, <2>2, <2>3, <2>5, <2>6, <4>1, TriggerNames
      <4> QED
        BY <2>6, <4>1, <4>2
    <3> QED
      BY <2>3, <2>7, <3>1, <3>2
  <2> HIDE DEF names
  <2>9. n \in 1..Len(names) /\ o = names[n]
    BY <1>1, <1>5, <2>7, <2>8
  <2>10. gone = Prior(names, n)
    <3> DEFINE earlier == {j \in 1..Len(names) : j < n}
    <3>1. Downgrade[r] = CoreDown
      BY <1>1, <1>5
    <3>2. gone = {CoreDown[i].object : i \in earlier}
      BY <2>7, <3>1 DEF Before
    <3>3. \A i \in earlier : CoreDown[i].object = names[i]
      BY <2>8
    <3>4. Prior(names, n) = {names[i] : i \in earlier}
      BY DEF Prior
    <3> HIDE DEF earlier, gone
    <3> QED
      BY <3>2, <3>3, <3>4
  <2>11. Fits(names[n], {} \cup Prior(names, n))
    BY <1>2, <1>5, <2>1, <2>9 DEF FitsDown
  <2> HIDE DEF Fits, o, gone
  <2>12. Fits(o, gone)
    BY <2>9, <2>10, <2>11
  <2> QED
    BY <2>12 DEF Fits, o, gone
<1> QED
  BY <1>1, <1>3, <1>4, <1>5

-----------------------------------------------------------------------------
(* The executions nobody has overtaken *)

\* It stands on the revision it read, and what it has not dropped yet is there.
Undisturbed(e) == pc[e] \in {"table", "script"} /\ ~overtaken[e] => Current(e)
Leaves(e) == pc[e] = "script" /\ action[e] = "downgrade" =>
  \A o \in Installed[at[e]] : o \notin Begun(e) /\ Owner[o] \notin Begun(e) => o \in Seen(e)
HistoryInv == \A e \in Executions : Undisturbed(e) /\ Leaves(e)

\* No statement of its script ends in an error.
LEMMA NoErrors ==
  ASSUME RunnerTypeOK, RunnerInv, HistoryInv, NEW e \in Executions, pc[e] = "script", InScript(e), ~overtaken[e]
  PROVE  Errors(e, Statement(e)) = {}
<1> DEFINE s == Statement(e)
           o == s.object
<1>1. /\ Own(e) /\ Current(e) /\ Leaves(e)
      /\ step[e] \in Nat \ {0} /\ step[e] <= Len(Script(e)) /\ Len(Script(e)) \in Nat
      /\ at[e] \in 0..3 /\ head[e] \in 1..3 /\ action[e] \in {"upgrade", "downgrade"}
  BY ScriptOf DEF RunnerInv, HistoryInv, Undisturbed, InScript
<1>2. Script(e) # << >>
  BY <1>1
<1>3. CASE action[e] = "upgrade"
  <2> DEFINE r == at[e] + 1
  <2>1. Script(e) = Upgrade[r] /\ r \in 1..3 /\ r - 1 = at[e]
    BY <1>1, <1>2, <1>3, ScriptOf
  <2> HIDE DEF r
  <2>2. Upgrade[r] \in Seq(Creation) /\ step[e] \in 1..Len(Upgrade[r]) /\ s = Upgrade[r][step[e]]
    BY <1>1, <2>1, UpgradesOnlyCreate, RevisionRange DEF Statement
  <2>3. Adds(s)
    <3>1. s \in Creation
      BY <2>2
    <3> HIDE DEF s
    <3> QED
      BY <3>1 DEF Adds, Creation
  <2>4. o \in ObjectsOf(r) /\ o \notin Baseline
    <3>1. o \in ObjectsOf(r)
      BY <2>2 DEF ObjectsOf
    <3> QED
      BY <2>1, <3>1, NewNames
  <2>5. Begun(e) = Before(Upgrade[r], step[e])
    BY <2>1 DEF Begun, Before
  <2>6. o \notin Installed[at[e]] \cup Begun(e) /\ Needs[o] \subseteq Installed[at[e]] \cup Begun(e)
    BY <2>1, <2>2, <2>5, UpgradeFits
  <2>7. Seen(e) \ Baseline = Installed[at[e]] \cup Begun(e)
    BY <1>1, <1>3 DEF Own, GoesUp
  <2>8. o \notin Seen(e) /\ Needs[o] \subseteq Seen(e)
    BY <2>4, <2>6, <2>7
  <2> QED
    BY <2>3, <2>8 DEF Errors
<1>4. CASE action[e] = "downgrade"
  <2> DEFINE r == at[e]
  <2>1. Script(e) = Downgrade[r] /\ r \in 1..3
    BY <1>1, <1>2, <1>4, ScriptOf
  <2>2. Downgrade[r] \in Seq(Removal) /\ step[e] \in 1..Len(Downgrade[r]) /\ s = Downgrade[r][step[e]]
    BY <1>1, <2>1, DowngradesOnlyRemove, RevisionRange DEF Statement
  <2>3. ~Adds(s)
    <3>1. s \in Removal
      BY <2>2
    <3> HIDE DEF s
    <3> QED
      BY <3>1 DEF Adds, Removal
  <2>4. Begun(e) = Before(Downgrade[r], step[e])
    BY <2>1 DEF Begun, Before
  <2>5. /\ o \in Installed[r] \ Begun(e) /\ Owner[o] \notin Begun(e)
        /\ \A p \in Installed[r] : o \in Needs[p] => p \in Begun(e)
    BY <2>1, <2>2, <2>4, DowngradeFits
  <2>6. o \in Seen(e)
    BY <1>1, <1>4, <2>5 DEF Leaves
  <2>7. Seen(e) \ Baseline \subseteq Installed[r] /\ Begun(e) \cap Seen(e) = {}
    BY <1>1, <1>4 DEF Own, GoesDown
  <2>8. \A p \in Baseline : Needs[p] = {}
    BY NeedsOfTypes
  <2>9. Dependants(e, o) = {}
    BY <2>5, <2>7, <2>8 DEF Dependants
  <2> QED
    BY <2>3, <2>6, <2>9 DEF Errors
<1> QED
  BY <1>1, <1>3, <1>4

\* What another execution's step leaves as it is.
LEMMA HistoryElsewhere ==
  ASSUME NEW e \in Executions, Undisturbed(e), Leaves(e), Same(e), overtaken'[e] = overtaken[e],
         UNCHANGED <<objects, revision>>
  PROVE  Undisturbed(e)' /\ Leaves(e)'
<1>1. Script(e)' = Script(e)
  BY DEF Same, Script
<1>2. Begun(e)' = Begun(e)
  BY <1>1 DEF Begun, Same
<1>3. Seen(e)' = Seen(e) /\ Current(e)' = Current(e)
  BY DEF Seen, Current, IsAt, Same
<1> QED
  BY <1>2, <1>3 DEF Undisturbed, Leaves, Same

LEMMA HistoryStep ==
  ASSUME HistoryInv, NEW f \in Executions, Elsewhere(f), \A e \in Executions \ {f} : overtaken'[e] = overtaken[e],
         UNCHANGED <<objects, revision>>, Undisturbed(f)', Leaves(f)'
  PROVE  HistoryInv'
<1>1. ASSUME NEW e \in Executions \ {f} PROVE Undisturbed(e)' /\ Leaves(e)'
  BY HistoryElsewhere DEF HistoryInv, Elsewhere
<1> QED
  BY <1>1 DEF HistoryInv

LEMMA HistoryFails ==
  ASSUME RunnerTypeOK, HistoryInv, NEW f \in Executions, NEW why, Fails(f, why)
  PROVE  HistoryInv'
<1>1. /\ UNCHANGED <<objects, revision>> /\ Elsewhere(f) /\ pc'[f] = "failed"
      /\ \A e \in Executions \ {f} : overtaken'[e] = overtaken[e]
  BY DEF Fails, Goto, EndTransaction, database, RunnerTypeOK, Elsewhere, Same
<1>2. Undisturbed(f)' /\ Leaves(f)'
  BY <1>1 DEF Undisturbed, Leaves
<1> QED
  BY <1>1, <1>2, HistoryStep

LEMMA HistoryWaits ==
  ASSUME HistoryInv, UNCHANGED <<objects, revision, overtaken>>, \A e \in Executions : Same(e)
  PROVE  HistoryInv'
BY HistoryElsewhere DEF HistoryInv

\* What a statement of a way down takes: its object, and what is dropped with it.
LEMMA RunLeaves ==
  ASSUME RunnerTypeOK, NEW f \in Executions, Run(f), \A why \in Errors(f, Statement(f)) : ~Fails(f, why),
         ~Adds(Statement(f))
  PROVE  /\ \A o \in Seen(f) : o # Statement(f).object /\ Owner[o] # Statement(f).object => o \in Seen(f)'
         /\ overtaken' = overtaken
<1> DEFINE s == Statement(f)
           gone == {s.object} \cup {o \in Objects : Owner[o] = s.object}
<1>1. overtaken' = overtaken /\ objects' = objects
  BY DEF Run, database
<1>2. \/ UNCHANGED <<made, dropped>>
      \/ /\ made' = [made EXCEPT ![f] = @ \ gone]
         /\ dropped' = [dropped EXCEPT ![f] = @ \cup (gone \cap objects)]
  BY DEF Run
<1> HIDE DEF gone
<1>3. \/ made'[f] = made[f] /\ dropped'[f] = dropped[f]
      \/ made'[f] = made[f] \ gone /\ dropped'[f] = dropped[f] \cup (gone \cap objects)
  BY <1>2 DEF RunnerTypeOK
<1>4. \A o \in Seen(f) : o \notin gone => o \in Seen(f)'
  BY <1>1, <1>3 DEF Seen
<1> QED
  BY <1>1, <1>4 DEF gone

LEMMA HistoryRun ==
  ASSUME RunnerTypeOK, RunnerInv, HistoryInv, NEW f \in Executions, Run(f)
  PROVE  HistoryInv'
<1> SUFFICES ASSUME \A why \in Errors(f, Statement(f)) : ~Fails(f, why) PROVE HistoryInv'
  BY HistoryFails
<1>1. /\ InScript(f) /\ UNCHANGED <<objects, revision>> /\ Elsewhere(f)
      /\ pc'[f] = pc[f] /\ action'[f] = action[f] /\ head'[f] = head[f] /\ at'[f] = at[f]
      /\ origin'[f] = origin[f] /\ step'[f] = step[f] + 1
  BY RunShape
<1>2. overtaken' = overtaken
  BY DEF Run
<1>3. Undisturbed(f)'
  BY <1>1, <1>2 DEF HistoryInv, Undisturbed, Current, IsAt
<1>4. Leaves(f)'
  <2> SUFFICES ASSUME pc[f] = "script", action[f] = "downgrade",
                      NEW o \in Installed[at[f]], o \notin Begun(f)', Owner[o] \notin Begun(f)'
               PROVE  o \in Seen(f)'
    BY <1>1 DEF Leaves
  <2>1. Begun(f)' = Begun(f) \cup {Statement(f).object}
    BY <1>1, BegunNext
  <2>2. o \in Seen(f) /\ o # Statement(f).object /\ Owner[o] # Statement(f).object
    BY <2>1 DEF HistoryInv, Leaves
  <2>3. ~Adds(Statement(f))
    <3>1. Script(f) = Downgrade[at[f]] /\ at[f] \in 1..3 /\ step[f] \in Nat \ {0}
      <4>1. Script(f) # << >>
        BY <1>1, ScriptOf DEF InScript
      <4> QED
        BY <4>1, ScriptOf
    <3>2. Downgrade[at[f]] \in Seq(Removal)
      BY <3>1, DowngradesOnlyRemove, RevisionRange
    <3>3. Statement(f) \in Removal
      BY <1>1, <3>1, <3>2 DEF Statement, InScript
    <3> QED
      BY <3>3 DEF Adds, Removal
  <2> QED
    BY <2>2, <2>3, RunLeaves
<1> QED
  BY <1>1, <1>2, <1>3, <1>4, HistoryStep

LEMMA HistoryReads ==
  ASSUME RunnerTypeOK, RunnerInv, HistoryInv, NEW f \in Executions, ReadRevision(f)
  PROVE  HistoryInv'
<1> SUFFICES ASSUME ~Fails(f, "unknown") PROVE HistoryInv'
  BY HistoryFails
<1>1. PICK r \in (IF revision = {} THEN {0} ELSE revision) :
        at' = [at EXCEPT ![f] = r] /\ origin' = [origin EXCEPT ![f] = r]
  BY DEF ReadRevision
<1>2. /\ pc'[f] = "table" /\ origin'[f] = r /\ Elsewhere(f) /\ UNCHANGED <<objects, revision>>
      /\ \A e \in Executions \ {f} : overtaken'[e] = overtaken[e]
  BY <1>1 DEF ReadRevision, Goto, RunnerTypeOK, Elsewhere, Same, database
<1>3. IsAt(r)
  BY DEF RunnerInv, SchemaInv, IsAt
<1>4. Current(f)'
  BY <1>2, <1>3 DEF Current, IsAt
<1> QED
  BY <1>2, <1>4, HistoryStep DEF Undisturbed, Leaves

LEMMA HistoryBegins ==
  ASSUME RunnerTypeOK, RunnerInv, HistoryInv, NEW f \in Executions, BeginScripts(f)
  PROVE  HistoryInv'
<1>1. /\ pc[f] = "table" /\ pc'[f] = "script" /\ Elsewhere(f) /\ UNCHANGED <<objects, revision, overtaken>>
      /\ action'[f] = action[f] /\ at'[f] = at[f] /\ origin'[f] = origin[f]
      /\ made'[f] = made[f] /\ dropped'[f] = dropped[f]
  BY DEF BeginScripts, Goto, RunnerTypeOK, Elsewhere, Same, database, transaction
<1>2. Undisturbed(f)'
  BY <1>1 DEF HistoryInv, Undisturbed, Current, IsAt
<1>3. Leaves(f)'
  <2> SUFFICES ASSUME action[f] = "downgrade" PROVE Installed[at[f]] \subseteq Seen(f)'
    BY <1>1 DEF Leaves
  <2>1. Current(f) /\ at[f] = origin[f] /\ dropped[f] = {}
    BY <1>1 DEF RunnerInv, Alone, Own, Outside, Reads
  <2> QED
    BY <1>1, <2>1 DEF Current, IsAt, Seen
<1> QED
  BY <1>1, <1>2, <1>3, HistoryStep

\* What is left of the revisions below when one has been taken back.
LEMMA Below ==
  ASSUME NEW r \in 1..3
  PROVE  \A o \in Installed[r - 1] : o \notin ObjectsOf(r) /\ Owner[o] \notin ObjectsOf(r)
<1>1. /\ Installed[0] = {} /\ Installed[1] = {"vector"} /\ Installed[2] = {"vector"} \cup CoreNames
      /\ ObjectsOf(2) = CoreNames /\ ObjectsOf(3) = {"admin_user"}
  BY InstalledSets, RevisionSets
<1>2. CASE r = 1
  BY <1>1, <1>2
<1>3. CASE r = 2
  <2>1. "vector" \notin CoreNames /\ "rag_app" \notin CoreNames
    BY DEF CoreNames
  <2> QED
    BY <1>1, <1>3, <2>1, OwnersByName
<1>4. CASE r = 3
  <2>1. \A o \in {"vector"} \cup CoreNames : o # "admin_user" /\ Owner[o] # "admin_user"
    BY OwnersByName DEF CoreNames
  <2>2. Installed[r - 1] = {"vector"} \cup CoreNames /\ ObjectsOf(r) = {"admin_user"}
    BY <1>1, <1>4
  <2> QED
    BY <2>1, <2>2
<1> QED
  BY <1>2, <1>3, <1>4

LEMMA HistoryStamps ==
  ASSUME RunnerTypeOK, RunnerInv, HistoryInv, NEW f \in Executions, Stamp(f)
  PROVE  HistoryInv'
<1> SUFFICES ASSUME ~Fails(f, "missing") PROVE HistoryInv'
  BY HistoryFails
<1>1. /\ pc[f] = "script" /\ ~InScript(f) /\ Script(f) # << >> /\ pc'[f] = "script"
      /\ at'[f] = IF action[f] = "upgrade" THEN at[f] + 1 ELSE at[f] - 1
      /\ Elsewhere(f) /\ UNCHANGED <<objects, revision, overtaken>>
      /\ action'[f] = action[f] /\ origin'[f] = origin[f] /\ made'[f] = made[f] /\ dropped'[f] = dropped[f]
  BY DEF Stamp, RunnerTypeOK, Elsewhere, Same, database
<1>2. Undisturbed(f)'
  BY <1>1 DEF HistoryInv, Undisturbed, Current, IsAt
<1>3. Leaves(f)'
  <2> SUFFICES ASSUME action[f] = "downgrade", NEW o \in Installed[at[f] - 1] PROVE o \in Seen(f)
    BY <1>1 DEF Leaves, Seen
  <2>1. Script(f) = Downgrade[at[f]] /\ at[f] \in 1..3
    BY <1>1, ScriptOf
  <2>2. PICK r \in 1..3 : r = at[f]
    BY <2>1
  <2>3. Begun(f) = ObjectsOf(r)
    BY <1>1, <2>1, <2>2, BegunAll, RevisionSets
  <2>4. o \notin Begun(f) /\ Owner[o] \notin Begun(f)
    BY <2>2, <2>3, Below
  <2>5. o \in Installed[r]
    BY <2>2, NewNames
  <2> QED
    BY <1>1, <2>2, <2>4, <2>5 DEF HistoryInv, Leaves
<1> QED
  BY <1>1, <1>2, <1>3, HistoryStep

LEMMA HistoryCommits ==
  ASSUME RunnerTypeOK, RunnerInv, HistoryInv, NEW f \in Executions, Commit(f)
  PROVE  HistoryInv'
<1>1. /\ pc[f] = "script" /\ pc'[f] \in {"read", "done"} /\ Elsewhere(f)
      /\ \A e \in Executions \ {f} : overtaken'[e] = (overtaken[e] \/ moved[f])
  BY DEF Commit, ScriptsDone, EndTransaction, Goto, RunnerTypeOK, Elsewhere, Same
<1>2. Undisturbed(f)' /\ Leaves(f)'
  BY <1>1 DEF Undisturbed, Leaves
<1>3. ASSUME NEW e \in Executions \ {f} PROVE Undisturbed(e)' /\ Leaves(e)'
  <2>1. Same(e)
    BY <1>1 DEF Elsewhere
  <2>2. CASE ~appUser
    <3>1. pc'[e] \notin {"table", "script"}
      BY <1>1, <2>1, <2>2 DEF Same, RunnerInv, Alone, Ended
    <3> QED
      BY <3>1 DEF Undisturbed, Leaves
  <2>3. CASE appUser /\ moved[f]
    <3>1. overtaken'[e] /\ action'[e] = "upgrade"
      BY <1>1, <2>1, <2>3 DEF Same, RunnerInv, Alone
    <3> QED
      BY <3>1 DEF Undisturbed, Leaves
  <2>4. CASE appUser /\ ~moved[f]
    <3>1. UNCHANGED <<objects, revision>>
      BY <2>4, CommitSchema
    <3>2. overtaken'[e] = overtaken[e]
      BY <1>1, <2>4 DEF RunnerTypeOK
    <3> QED
      BY <2>1, <3>1, <3>2, HistoryElsewhere DEF HistoryInv
  <2> QED
    BY <2>2, <2>3, <2>4
<1> QED
  BY <1>2, <1>3 DEF HistoryInv

LEMMA HistoryRunner ==
  ASSUME RunnerTypeOK, RunnerInv, HistoryInv, NEW f \in Executions, Running(f) \/ Lost(f)
  PROVE  HistoryInv'
<1>1. CASE Wait(f)
  BY <1>1, HistoryWaits DEF Wait, Same, database, transaction
<1>2. ASSUME NEW o, AwaitGrant(f, o) PROVE HistoryInv'
  BY <1>2, HistoryWaits DEF AwaitGrant, Same, database, transaction
<1>3. ASSUME NEW o, Grant(f, o) PROVE HistoryInv'
  <2>1. CASE Fails(f, "missing") \/ Fails(f, "conflict")
    BY <2>1, HistoryFails
  <2>2. CASE ~Fails(f, "missing") /\ ~Fails(f, "conflict")
    BY <1>3, <2>2, HistoryWaits DEF Grant, Same, database
  <2> QED
    BY <2>1, <2>2
<1>4. CASE Lost(f)
  BY <1>4, HistoryFails DEF Lost
<1>5. CASE ReadResult(f)
  <2>1. /\ pc'[f] \in {"done", "failed"} /\ Elsewhere(f) /\ UNCHANGED <<objects, revision, overtaken>>
    BY <1>5 DEF ReadResult, Goto, RunnerTypeOK, Elsewhere, Same, database, transaction
  <2> QED
    BY <2>1, HistoryStep DEF Undisturbed, Leaves
<1> QED
  BY <1>1, <1>2, <1>3, <1>4, <1>5, HistoryRun, HistoryReads, HistoryBegins, HistoryStamps, HistoryCommits DEF Running

LEMMA HistoryStarts ==
  ASSUME RunnerTypeOK, HistoryInv, NEW f \in Executions, NEW command, NEW image, Start(f, command, image)
  PROVE  HistoryInv'
<1>1. pc'[f] = "schema" /\ Elsewhere(f) /\ UNCHANGED <<objects, revision, overtaken>>
  BY DEF Start, Goto, RunnerTypeOK, Elsewhere, Same, database, transaction
<1> QED
  BY <1>1, HistoryStep DEF Undisturbed, Leaves

\* The steps of the workflow either start an execution or leave all of them alone.
LEMMA WorkflowFrame ==
  ASSUME Next
  PROVE  \/ UNCHANGED <<database, runner>>
         \/ \E e \in Executions : \E command \in {"upgrade", "downgrade"} : Start(e, command, job)
         \/ \E e \in Executions : Running(e) \/ Lost(e)
<1>1. (\E r \in Releases : Dispatch(r)) \/ UpdateJob \/ JobEnds \/ DeployApi \/ SmokeTest \/ Cancel => UNCHANGED <<database, runner>>
  BY DEF Dispatch, UpdateJob, JobEnds, DeployApi, SmokeTest, Cancel
<1>2. \A e \in Executions : ExecuteJob(e) \/ ExecuteByHand(e) => Start(e, "upgrade", job)
  BY DEF ExecuteJob, ExecuteByHand
<1>3. \A e \in Executions : ExecuteLocally(e) => \E command \in {"upgrade", "downgrade"} : Start(e, command, job)
  BY DEF ExecuteLocally
<1> QED
  BY <1>1, <1>2, <1>3 DEF Next, Workflow

LEMMA HistoryKept ==
  TypeOK /\ RunnerInv /\ HistoryInv /\ [Next]_vars => HistoryInv'
<1> SUFFICES ASSUME TypeOK, RunnerInv, HistoryInv, [Next]_vars PROVE HistoryInv'
  OBVIOUS
<1>1. RunnerTypeOK
  BY DEF TypeOK
<1>2. CASE UNCHANGED <<database, runner>>
  <2>1. UNCHANGED <<objects, revision, overtaken>> /\ \A e \in Executions : Same(e)
    BY <1>2 DEF database, runner, transaction, Same
  <2> QED
    BY <2>1, HistoryWaits
<1>3. ASSUME NEW e \in Executions, NEW command, Start(e, command, job) PROVE HistoryInv'
  BY <1>1, <1>3, HistoryStarts
<1>4. ASSUME NEW e \in Executions, Running(e) \/ Lost(e) PROVE HistoryInv'
  BY <1>1, <1>4, HistoryRunner
<1>5. UNCHANGED vars => UNCHANGED <<database, runner>>
  BY DEF vars
<1> QED
  BY <1>2, <1>3, <1>4, <1>5, WorkflowFrame

LEMMA HistoryStart == Init => HistoryInv
BY DEF Init, RunnerInit, HistoryInv, Undisturbed, Leaves

\* The errors an execution can end a script with, were it not overtaken.
LEMMA FitsStep ==
  ASSUME RunnerTypeOK, RunnerInv, HistoryInv, NEW f \in Executions, Running(f) \/ Lost(f), pc[f] = "script",
         pc'[f] = "failed", reason'[f] \in {"exists", "missing", "needed"}, ~overtaken[f]
  PROVE  FALSE
<1>1. Current(f) /\ Own(f)
  BY DEF HistoryInv, Undisturbed, RunnerInv
<1>2. ~(Wait(f) \/ BeginScripts(f) \/ ReadRevision(f) \/ ReadResult(f))
  BY DEF Wait, BeginScripts, ReadRevision, ReadResult, Goto, RunnerTypeOK
<1>3. ~Commit(f)
  BY DEF Commit, Goto, RunnerTypeOK
<1>4. \A why : Fails(f, why) => why \in {"exists", "missing", "needed"}
  BY DEF Fails, RunnerTypeOK
<1>5. ~Run(f)
  <2>1. InScript(f) => Errors(f, Statement(f)) = {}
    BY NoErrors
  <2> QED
    BY <2>1 DEF Run
<1>6. ~Stamp(f)
  <2>1. RowIsThere(f)
    BY <1>1 DEF Current, IsAt, RowIsThere
  <2> QED
    BY <2>1 DEF Stamp
<1>7. \A o \in {"rag_app", "admin_user"} : ~AwaitGrant(f, o)
  BY DEF AwaitGrant
<1>8. ASSUME NEW o \in {"rag_app", "admin_user"}, Grant(f, o) PROVE FALSE
  <2>1. /\ Script(f) = << >> /\ action[f] = "upgrade" /\ "admin_user" \in Installed[head[f]] /\ MayGrant(f, o)
    BY <1>8 DEF Grant, MayGrant, ScriptsDone, ToGrant
  <2>2. at[f] >= head[f] /\ at[f] \in 0..3 /\ head[f] \in 1..3
    BY <2>1, ScriptOf
  <2>3. "admin_user" \in Installed[at[f]]
    BY <2>1, <2>2, NewNames
  <2>4. Seen(f) \ Baseline = Installed[at[f]] \cup Begun(f) /\ Baseline \subseteq Seen(f)
    BY <1>1, <2>1 DEF Own, GoesUp
  <2>5. o \in Seen(f)
    BY <2>3, <2>4 DEF Baseline
  <2>6. ~Fails(f, "conflict")
    BY <1>4
  <2> QED
    BY <1>8, <2>5, <2>6 DEF Grant
<1>9. ~Lost(f)
  BY <1>4 DEF Lost
<1> QED
  BY <1>2, <1>3, <1>5, <1>6, <1>7, <1>8, <1>9 DEF Running

\* The steps of an execution leave the others where they are.
LEMMA StepsApart ==
  ASSUME RunnerTypeOK, NEW f \in Executions, NEW e \in Executions \ {f}, Running(f) \/ Lost(f)
  PROVE  pc'[e] = pc[e]
<1>1. \A why : Fails(f, why) => pc'[e] = pc[e]
  BY DEF Fails, Goto, RunnerTypeOK
<1>2. Wait(f) \/ BeginScripts(f) \/ ReadResult(f) \/ Commit(f) => pc'[e] = pc[e]
  BY DEF Wait, BeginScripts, ReadResult, Commit, Goto, RunnerTypeOK
<1>3. Run(f) \/ ReadRevision(f) \/ Stamp(f) => pc'[e] = pc[e]
  BY <1>1 DEF Run, ReadRevision, Stamp, Goto, RunnerTypeOK
<1>4. \A o : AwaitGrant(f, o) \/ Grant(f, o) => pc'[e] = pc[e]
  BY <1>1 DEF AwaitGrant, Grant
<1>5. Lost(f) => pc'[e] = pc[e]
  BY <1>1 DEF Lost
<1> QED
  BY <1>2, <1>3, <1>4, <1>5 DEF Running

\* The scripts fit the schema they were written for, in both directions: an execution fails
\* in one only when another one has moved the schema since it read the revision.
THEOREM ScriptsFitTheSchema == Spec => ScriptsFit
<1>1. TypeOK /\ RunnerInv /\ HistoryInv /\ [Next]_vars =>
        [\A e \in Executions :
           pc[e] = "script" /\ pc'[e] = "failed" /\ reason'[e] \in {"exists", "missing", "needed"} => overtaken[e]]_vars
  <2> SUFFICES ASSUME TypeOK, RunnerInv, HistoryInv, Next, NEW e \in Executions,
                      pc[e] = "script", pc'[e] = "failed", reason'[e] \in {"exists", "missing", "needed"}, ~overtaken[e]
               PROVE  FALSE
    OBVIOUS
  <2>1. RunnerTypeOK
    BY DEF TypeOK
  <2>2. CASE UNCHANGED <<database, runner>>
    BY <2>2 DEF runner
  <2>3. ASSUME NEW f \in Executions, NEW command, Start(f, command, job) PROVE FALSE
    BY <2>1, <2>3 DEF Start, Goto, RunnerTypeOK
  <2>4. ASSUME NEW f \in Executions, Running(f) \/ Lost(f) PROVE FALSE
    BY <2>1, <2>4, FitsStep, StepsApart
  <2> QED
    BY <2>2, <2>3, <2>4, WorkflowFrame
<1> QED
  BY <1>1, DeploymentStart, DeploymentKept, HistoryStart, HistoryKept, PTL DEF Spec, ScriptsFit

-----------------------------------------------------------------------------
(* Who holds what.  An execution that grants is through with its scripts; one  *)
(* that has made anything has made the first of it alone.                      *)

Grants(e) == granted[e] # {} =>
  /\ pc[e] = "script" /\ Script(e) = << >> /\ appUser /\ "admin_user" \in Installed[head[e]]
  /\ "rag_app" \in granted[e] /\ granted[e] \subseteq {"rag_app", "admin_user"}
GrantsInv ==
  /\ \A e \in Executions : Grants(e)
  /\ \A e, f \in Executions : e # f => granted[e] \cap granted[f] = {}

\* What has to do with an execution's grants.
Place(e) == <<pc[e], action[e], head[e], at[e]>>
GrantsStay(e) == Place(e)' = Place(e) /\ granted'[e] = granted[e]

LEMMA GrantSteps ==
  ASSUME RunnerTypeOK, GrantsInv, NEW f \in Executions, Running(f) \/ Lost(f)
  PROVE  /\ appUser' = appUser /\ \A e \in Executions \ {f} : GrantsStay(e)
         /\ \/ granted'[f] = {}
            \/ GrantsStay(f)
            \/ \E o \in {"rag_app", "admin_user"} :
                 /\ MayGrant(f, o) /\ o \notin Touched(f)
                 /\ Place(f)' = Place(f) /\ granted'[f] = granted[f] \cup {o}
<1> DEFINE Goal ==
         /\ appUser' = appUser /\ \A e \in Executions \ {f} : GrantsStay(e)
         /\ \/ granted'[f] = {}
            \/ GrantsStay(f)
            \/ \E o \in {"rag_app", "admin_user"} :
                 /\ MayGrant(f, o) /\ o \notin Touched(f)
                 /\ Place(f)' = Place(f) /\ granted'[f] = granted[f] \cup {o}
<1>1. ASSUME NEW why, Fails(f, why) PROVE Goal
  BY <1>1 DEF Fails, Goto, EndTransaction, database, RunnerTypeOK, GrantsStay, Place
<1>2. granted[f] # {} => pc[f] = "script" /\ Script(f) = << >> /\ ~InScript(f)
  <2>1. Len(<< >>) = 0
    OBVIOUS
  <2>2. step[f] \in Nat \ {0}
    BY DEF RunnerTypeOK
  <2> QED
    BY <2>1, <2>2 DEF GrantsInv, Grants, InScript
<1>3. CASE Wait(f)
  BY <1>3 DEF Wait, database, transaction, GrantsStay, Place
<1>4. CASE Run(f)
  BY <1>1, <1>4 DEF Run, database, GrantsStay, Place
<1>5. CASE ReadRevision(f)
  <2>1. CASE Fails(f, "unknown")
    BY <1>1, <2>1
  <2>2. CASE ~Fails(f, "unknown")
    <3>1. /\ granted' = granted /\ granted[f] = {} /\ appUser' = appUser
          /\ \A e \in Executions \ {f} : pc'[e] = pc[e] /\ action'[e] = action[e] /\ head'[e] = head[e] /\ at'[e] = at[e]
      BY <1>2, <1>5, <2>2 DEF ReadRevision, Goto, RunnerTypeOK, database
    <3> QED
      BY <3>1 DEF GrantsStay, Place
  <2> QED
    BY <2>1, <2>2
<1>6. CASE BeginScripts(f)
  <2>1. /\ granted' = granted /\ granted[f] = {} /\ appUser' = appUser
        /\ \A e \in Executions \ {f} : pc'[e] = pc[e] /\ action'[e] = action[e] /\ head'[e] = head[e] /\ at'[e] = at[e]
    BY <1>2, <1>6 DEF BeginScripts, Goto, RunnerTypeOK, database, transaction
  <2> QED
    BY <2>1 DEF GrantsStay, Place
<1>7. CASE Stamp(f)
  <2>1. CASE Fails(f, "missing")
    BY <1>1, <2>1
  <2>2. CASE ~Fails(f, "missing")
    <3>1. /\ granted' = granted /\ granted[f] = {} /\ appUser' = appUser
          /\ \A e \in Executions \ {f} : pc'[e] = pc[e] /\ action'[e] = action[e] /\ head'[e] = head[e] /\ at'[e] = at[e]
      BY <1>2, <1>7, <2>2 DEF Stamp, RunnerTypeOK, database
    <3> QED
      BY <3>1 DEF GrantsStay, Place
  <2> QED
    BY <2>1, <2>2
<1>8. ASSUME NEW o \in {"rag_app", "admin_user"}, AwaitGrant(f, o) PROVE Goal
  BY <1>8 DEF AwaitGrant, database, transaction, GrantsStay, Place
<1>9. ASSUME NEW o \in {"rag_app", "admin_user"}, Grant(f, o) PROVE Goal
  <2>1. CASE Fails(f, "missing") \/ Fails(f, "conflict")
    BY <1>1, <2>1
  <2>2. CASE ~(Fails(f, "missing") \/ Fails(f, "conflict"))
    <3>1. /\ MayGrant(f, o) /\ o \notin Touched(f)
          /\ granted' = [granted EXCEPT ![f] = @ \cup {o}] /\ UNCHANGED <<database, pc, action, head, at>>
      BY <1>9, <2>2 DEF Grant
    <3>2. granted'[f] = granted[f] \cup {o} /\ \A e \in Executions \ {f} : granted'[e] = granted[e]
      BY <3>1 DEF RunnerTypeOK
    <3> QED
      BY <3>1, <3>2 DEF database, GrantsStay, Place
  <2> QED
    BY <2>1, <2>2
<1>10. CASE Commit(f)
  BY <1>10 DEF Commit, Goto, EndTransaction, RunnerTypeOK, GrantsStay, Place
<1>11. CASE ReadResult(f)
  <2>1. /\ granted' = granted /\ granted[f] = {} /\ appUser' = appUser
        /\ \A e \in Executions \ {f} : pc'[e] = pc[e] /\ action'[e] = action[e] /\ head'[e] = head[e] /\ at'[e] = at[e]
    BY <1>2, <1>11 DEF ReadResult, Goto, RunnerTypeOK, database, transaction
  <2> QED
    BY <2>1 DEF GrantsStay, Place
<1>12. CASE Lost(f)
  BY <1>1, <1>12 DEF Lost
<1> QED
  BY <1>3, <1>4, <1>5, <1>6, <1>7, <1>8, <1>9, <1>10, <1>11, <1>12 DEF Running

LEMMA GrantsKeptAt ==
  ASSUME NEW e \in Executions, Grants(e), GrantsStay(e), appUser' = appUser
  PROVE  Grants(e)'
<1>1. /\ pc'[e] = pc[e] /\ action'[e] = action[e] /\ head'[e] = head[e] /\ at'[e] = at[e]
      /\ granted'[e] = granted[e]
  BY DEF GrantsStay, Place
<1>2. Script(e)' = Script(e)
  BY <1>1 DEF Script
<1> QED
  BY <1>1, <1>2 DEF Grants

LEMMA GrantsKept ==
  TypeOK /\ GrantsInv /\ [Next]_vars => GrantsInv'
<1> SUFFICES ASSUME TypeOK, GrantsInv, [Next]_vars PROVE GrantsInv'
  OBVIOUS
<1>1. RunnerTypeOK
  BY DEF TypeOK
<1>2. CASE UNCHANGED <<database, runner>>
  <2>1. appUser' = appUser /\ \A e \in Executions : GrantsStay(e) /\ granted'[e] = granted[e]
    BY <1>2 DEF database, runner, transaction, GrantsStay, Place
  <2> QED
    BY <2>1, GrantsKeptAt DEF GrantsInv
<1>3. ASSUME NEW f \in Executions, NEW command, Start(f, command, job) PROVE GrantsInv'
  <2>1. /\ appUser' = appUser /\ granted' = granted /\ pc[f] # "script"
        /\ \A e \in Executions \ {f} : pc'[e] = pc[e] /\ action'[e] = action[e] /\ head'[e] = head[e] /\ at'[e] = at[e]
    BY <1>1, <1>3 DEF Start, Goto, RunnerTypeOK, database, transaction, Ended
  <2>2. granted[f] = {}
    BY <2>1 DEF GrantsInv, Grants
  <2>3. \A e \in Executions \ {f} : Grants(e)'
    BY <2>1, GrantsKeptAt DEF GrantsInv, GrantsStay, Place
  <2>4. Grants(f)'
    BY <2>1, <2>2 DEF Grants
  <2> QED
    BY <2>1, <2>3, <2>4 DEF GrantsInv
<1>4. ASSUME NEW f \in Executions, Running(f) \/ Lost(f) PROVE GrantsInv'
  <2>1. appUser' = appUser /\ \A e \in Executions \ {f} : GrantsStay(e) /\ Grants(e)' /\ granted'[e] = granted[e]
    BY <1>1, <1>4, GrantSteps, GrantsKeptAt DEF GrantsInv, GrantsStay
  <2>2. CASE granted'[f] = {}
    BY <2>1, <2>2 DEF GrantsInv, Grants
  <2>3. CASE GrantsStay(f)
    BY <2>1, <2>3, GrantsKeptAt DEF GrantsInv, GrantsStay
  <2>4. ASSUME NEW o \in {"rag_app", "admin_user"}, MayGrant(f, o), o \notin Touched(f),
               Place(f)' = Place(f), granted'[f] = granted[f] \cup {o}
        PROVE  GrantsInv'
    <3>1. pc'[f] = pc[f] /\ action'[f] = action[f] /\ head'[f] = head[f] /\ at'[f] = at[f]
      BY <2>4 DEF Place
    <3>2. Script(f)' = Script(f)
      BY <3>1 DEF Script
    <3>3. /\ pc[f] = "script" /\ Script(f) = << >> /\ appUser /\ "admin_user" \in Installed[head[f]]
          /\ o = "admin_user" => "rag_app" \in granted[f]
      BY <2>4 DEF MayGrant, ScriptsDone, ToGrant
    <3>4. granted[f] \subseteq {"rag_app", "admin_user"}
      BY DEF GrantsInv, Grants
    <3>5. Grants(f)'
      BY <2>1, <2>4, <3>1, <3>2, <3>3, <3>4 DEF Grants
    <3>6. \A e \in Executions \ {f} : o \notin granted[e]
      BY <2>4 DEF Touched
    <3>7. ASSUME NEW e \in Executions, NEW g \in Executions, e # g PROVE granted'[e] \cap granted'[g] = {}
      <4>1. granted[e] \cap granted[g] = {}
        BY <3>7 DEF GrantsInv
      <4>2. CASE e # f /\ g # f
        BY <2>1, <4>1, <4>2
      <4>3. CASE e = f
        BY <2>1, <2>4, <3>6, <3>7, <4>1, <4>3
      <4>4. CASE g = f
        BY <2>1, <2>4, <3>6, <3>7, <4>1, <4>4
      <4> QED
        BY <4>2, <4>3, <4>4
    <3> QED
      BY <2>1, <3>5, <3>7 DEF GrantsInv
  <2> QED
    BY <1>1, <1>4, <2>2, <2>3, <2>4, GrantSteps
<1>5. UNCHANGED vars => UNCHANGED <<database, runner>>
  BY DEF vars
<1> QED
  BY <1>2, <1>3, <1>4, <1>5, WorkflowFrame

LEMMA GrantsStart == Init => GrantsInv
  BY DEF Init, RunnerInit, GrantsInv, Grants

\* What an execution holds until its transaction ends, and whom it waits for: at a
\* statement, at the version row, or at a grant.
Holds(e) == made[e] # {} \/ dropped[e] # {} \/ granted[e] # {} \/ moved[e]
OneHolds == \A e, f \in Executions : e # f => ~(Holds(e) /\ Holds(f))

Locks(f) == made[f] \cup dropped[f] \cup granted[f]
Awaits(e, f) ==
  /\ e # f
  /\ \/ InScript(e) /\ MustWait(e, Statement(e)) /\ Locked(Statement(e)) \cap Locks(f) # {}
     \/ \E o \in {"rag_app", "admin_user"} : MayGrant(e, o) /\ o \in Locks(f)
     \/ pc[e] = "script" /\ ~InScript(e) /\ Script(e) # << >> /\ ~moved[e] /\ moved[f] /\ origin[f] = origin[e]
NoCircleOfWaits ==
  \A e, f \in Executions : Awaits(e, f) => ~Holds(e) /\ \A g \in Executions : ~Awaits(f, g)

Makes(e) == made[e] # {} \/ moved[e]
Under(e) == pc[e] = "script" /\ (moved[e] \/ step[e] > 1)

\* Before its first script an execution has made no more than the baseline, and that only
\* of an empty database.
LEMMA MakesBaseline ==
  ASSUME RunnerTypeOK, RunnerInv, appUser, NEW e \in Executions, Makes(e), ~Under(e)
  PROVE  revision = {} /\ "rag_app" \in made[e]
<1>1. /\ Own(e) /\ made[e] \cap objects = {} /\ action[e] = "upgrade" /\ step[e] \in Nat \ {0}
      /\ pc[e] \in Ended \cup {"read", "schema", "table", "script"} /\ origin[e] \in 0..3
  BY RevisionRange DEF RunnerInv, MadeApart, Alone, RunnerTypeOK, Ended
<1>2. pc[e] \in {"schema", "table", "script"}
  BY <1>1 DEF Own, Outside, Makes
<1>3. ~moved[e] /\ made[e] # {} /\ made[e] \subseteq Baseline
  <2>1. ~moved[e]
    BY <1>1, <1>2 DEF Under, Own, Outside
  <2>2. CASE pc[e] = "script"
    BY <1>1, <2>1, <2>2 DEF Under, Makes, Own, Scripts
  <2>3. CASE pc[e] \in {"schema", "table"}
    BY <1>1, <2>1, <2>3 DEF Makes, Own, Outside, Baseline
  <2> QED
    BY <1>2, <2>1, <2>2, <2>3
<1>4. revision = {}
  <2>1. PICK r \in 0..3 : IsAt(r)
    BY DEF RunnerInv, SchemaInv
  <2>2. ~(Baseline \subseteq objects)
    BY <1>1, <1>3
  <2> QED
    BY <2>1, <2>2 DEF IsAt
<1>5. CASE pc[e] = "schema"
  BY <1>1, <1>3, <1>4, <1>5 DEF Own, Outside
<1>6. CASE pc[e] # "schema"
  BY <1>1, <1>2, <1>4, <1>6 DEF Own, Reads, Reached
<1> QED
  BY <1>4, <1>5, <1>6

\* Two executions never make something at once.
LEMMA OneMakes ==
  ASSUME RunnerTypeOK, RunnerInv, appUser, NEW e \in Executions, NEW f \in Executions \ {e}, Makes(e), Makes(f)
  PROVE  FALSE
<1>1. /\ made[e] \cap made[f] = {} /\ Own(e) /\ Own(f) /\ action[e] = "upgrade" /\ action[f] = "upgrade"
      /\ origin[e] \in 0..3 /\ origin[f] \in 0..3
  BY RevisionRange DEF RunnerInv, MadeApart, Alone, RunnerTypeOK
<1>2. \A x \in {e, f} : ~Under(x) => revision = {} /\ "rag_app" \in made[x]
  BY MakesBaseline
<1>3. \A x \in {e, f} : Under(x) /\ revision = {} => "rag_app" \in made[x]
  BY <1>1 DEF Under, Own, Reads, Reached
<1>4. CASE ~Under(e) \/ ~Under(f)
  BY <1>1, <1>2, <1>3, <1>4
<1>5. CASE Under(e) /\ Under(f)
  <2>1. /\ Current(e) /\ Upgrade[origin[e] + 1][1].object \in made[e]
        /\ Current(f) /\ Upgrade[origin[f] + 1][1].object \in made[f]
    BY <1>1, <1>5, FirstMade DEF Under
  <2>2. origin[e] = origin[f]
    BY <1>1, <2>1 DEF Current, IsAt
  <2> QED
    BY <1>1, <2>1, <2>2
<1> QED
  BY <1>4, <1>5

\* Nor does one make something while another grants.
LEMMA NoGrantBesideMaker ==
  ASSUME RunnerTypeOK, RunnerInv, GrantsInv, appUser, NEW e \in Executions, NEW f \in Executions \ {e},
         Makes(e), granted[f] # {}
  PROVE  FALSE
<1>1. /\ Own(e) /\ Own(f) /\ action[e] = "upgrade" /\ action[f] = "upgrade"
      /\ origin[e] \in 0..3 /\ origin[f] \in 0..3 /\ ~Makes(f)
  BY OneMakes, RevisionRange DEF RunnerInv, Alone, RunnerTypeOK
<1>2. pc[f] = "script" /\ Script(f) = << >> /\ "admin_user" \in Installed[head[f]]
  BY DEF GrantsInv, Grants
<1>3. at[f] \in 0..3 /\ head[f] \in 1..3 /\ at[f] >= head[f]
  BY <1>1, <1>2, ScriptOf
<1>4. head[f] = 3
  <2>1. head[f] \in {1, 2} => Installed[head[f]] \subseteq Installed[2]
    BY NewNames
  <2> QED
    BY <1>2, <1>3, <2>1, NewNames
<1>5. origin[f] = 3
  BY <1>1, <1>2, <1>3, <1>4 DEF Own, Scripts, Makes
<1>6. revision = {3}
  <2>1. Reached(3)
    BY <1>1, <1>2, <1>5 DEF Own, Reads
  <2>2. PICK r \in 0..3 : revision = {r} \ {0}
    BY DEF RunnerInv, SchemaInv, IsAt
  <2> QED
    BY <2>1, <2>2 DEF Reached
<1>7. CASE ~Under(e)
  BY <1>6, <1>7, MakesBaseline
<1>8. CASE Under(e)
  <2>1. Current(e) /\ origin[e] + 1 \in 1..3
    BY <1>1, <1>8, FirstMade DEF Under
  <2>2. origin[e] = 3
    BY <1>1, <1>6, <2>1 DEF Current, IsAt
  <2> QED
    BY <2>1, <2>2
<1> QED
  BY <1>7, <1>8

LEMMA OnlyOneHolds ==
  ASSUME RunnerTypeOK, RunnerInv, GrantsInv
  PROVE  OneHolds
<1> SUFFICES ASSUME NEW e \in Executions, NEW f \in Executions, e # f, Holds(e), Holds(f) PROVE FALSE
  BY DEF OneHolds
<1>1. \A x \in {e, f} : Own(x) /\ Grants(x)
  BY DEF RunnerInv, GrantsInv
<1>2. CASE ~appUser
  <2>1. PICK x \in {e, f} : pc[x] \in Ended
    BY <1>2 DEF RunnerInv, Alone
  <2>2. made[x] = {} /\ dropped[x] = {} /\ ~moved[x]
    BY <1>1, <2>1 DEF Own, Outside
  <2>3. granted[x] = {}
    BY <1>1, <1>2 DEF Grants
  <2> QED
    BY <2>2, <2>3 DEF Holds
<1>3. CASE appUser
  <2>1. \A x \in {e, f} : dropped[x] = {}
    <3> SUFFICES ASSUME NEW x \in {e, f} PROVE dropped[x] = {}
      OBVIOUS
    <3>1. action[x] = "upgrade" /\ pc[x] \in Ended \cup {"read", "schema", "table", "script"}
      BY <1>3 DEF RunnerInv, Alone, RunnerTypeOK, Ended
    <3>2. pc[x] = "script" => dropped[x] = {}
      BY <1>1, <3>1 DEF Own, GoesUp
    <3>3. pc[x] # "script" => dropped[x] = {}
      BY <1>1, <3>1 DEF Own, Outside
    <3> QED
      BY <3>2, <3>3
  <2>2. CASE Makes(e) \/ Makes(f)
    BY <1>3, <2>1, <2>2, OneMakes, NoGrantBesideMaker DEF Holds, Makes
  <2>3. CASE ~Makes(e) /\ ~Makes(f)
    <3>1. granted[e] # {} /\ granted[f] # {}
      BY <2>1, <2>3 DEF Holds, Makes
    <3>2. "rag_app" \in granted[e] \cap granted[f]
      BY <1>1, <3>1 DEF Grants
    <3> QED
      BY <3>2 DEF GrantsInv
  <2> QED
    BY <2>2, <2>3
<1> QED
  BY <1>2, <1>3

\* Of all executions of the runner that overlap at most one has locks, at any time; the
\* others can only be waiting for it.
THEOREM OneExecutionHolds == Spec => []OneHolds
<1>1. TypeOK /\ RunnerInv /\ GrantsInv => OneHolds
  BY OnlyOneHolds DEF TypeOK
<1> QED
  BY <1>1, DeploymentStart, DeploymentKept, GrantsStart, GrantsKept, PTL DEF Spec

\* Executions never wait for each other in a circle: one that waits holds nothing, and one
\* that is waited for waits for nobody.  So PostgreSQL need not break a deadlock between
\* them, and Migrations models none.
THEOREM ExecutionsDoNotDeadlock == Spec => []NoCircleOfWaits
<1>1. OneHolds => NoCircleOfWaits
  <2> SUFFICES ASSUME OneHolds, NEW e \in Executions, NEW f \in Executions, Awaits(e, f)
               PROVE  ~Holds(e) /\ \A g \in Executions : ~Awaits(f, g)
    BY DEF NoCircleOfWaits
  <2>1. \A x, y \in Executions : Awaits(x, y) => x # y /\ Holds(y)
    BY DEF Awaits, Locks, Holds
  <2> QED
    BY <2>1 DEF OneHolds
<1> QED
  BY <1>1, OneExecutionHolds, PTL
===============================================================================
