------------------------------ MODULE Deployment ------------------------------
(* The deployment workflow, .github/workflows/deploy-development.yml, and the  *)
(* operators beside it, over the executions of the migration runner.           *)
(*                                                                             *)
(* A deployment points the job at the migration image of a commit, executes it *)
(* and waits, and only then moves the service to the API image of that commit. *)
(* One workflow runs at a time; a cancelled or timed-out one leaves the        *)
(* execution it started behind.  In a local environment there is no service,   *)
(* and the runner is called by hand in both directions.                        *)
EXTENDS Migrations

CONSTANT Releases   \* the published commits, each the last revision it knows

ASSUME ReleasesAssumption == Releases \subseteq Revisions /\ Releases # {}

VARIABLES
  stage,       \* the step of the workflow
  target,      \* the release it deploys
  job,         \* the release of the image the job is set to
  mine,        \* the execution it waits for
  service      \* the release that serves, 0 before the first

workflow == <<stage, target, job, mine, service>>
vars == <<database, runner, workflow>>

Nobody == "nobody"
TypeOK ==
  /\ RunnerTypeOK
  /\ stage \in {"idle", "update job", "execute", "wait", "deploy", "smoke test"}
  /\ target \in Releases /\ job \in Releases
  /\ mine \in Executions \cup {Nobody}
  /\ service \in Releases \cup {0}

Init ==
  /\ RunnerInit
  /\ stage = "idle" /\ mine = Nobody /\ service = 0
  /\ target \in Releases /\ job = target

\* workflow_dispatch with a commit of main.
Dispatch(r) ==
  /\ appUser /\ stage = "idle"
  /\ stage' = "update job" /\ target' = r
  /\ UNCHANGED <<database, runner, job, mine, service>>

UpdateJob ==
  /\ stage = "update job"
  /\ stage' = "execute" /\ job' = target
  /\ UNCHANGED <<database, runner, target, mine, service>>

ExecuteJob(e) ==
  /\ stage = "execute" /\ Start(e, "upgrade", job)
  /\ stage' = "wait" /\ mine' = e
  /\ UNCHANGED <<target, job, service>>

FaultyJobEnds ==
  /\ stage = "wait"
  /\ stage' = "deploy" /\ mine' = Nobody
  /\ UNCHANGED <<database, runner, target, job, service>>

FaultyFailureEnds ==
  /\ stage = "wait" /\ pc[mine] = "done"
  /\ stage' = "deploy" /\ mine' = Nobody
  /\ UNCHANGED <<database, runner, target, job, service>>

\* gcloud run jobs execute --wait: a failed execution ends the workflow.
JobEnds ==
  /\ stage = "wait"
  /\ \/ pc[mine] = "done" /\ stage' = "deploy"
     \/ pc[mine] = "failed" /\ stage' = "idle"
  /\ mine' = Nobody
  /\ UNCHANGED <<database, runner, target, job, service>>

\* gcloud run services update: the new revision becomes ready and takes the
\* traffic, or the workflow ends.
DeployApi ==
  /\ stage = "deploy"
  /\ \/ stage' = "smoke test" /\ service' = target
     \/ stage' = "idle" /\ UNCHANGED service
  /\ UNCHANGED <<database, runner, target, job, mine>>

\* Twenty attempts to see the new source revision; nothing is undone after them.
SmokeTest ==
  /\ stage = "smoke test"
  /\ stage' = "idle"
  /\ UNCHANGED <<database, runner, target, job, mine, service>>

\* The workflow is cancelled or runs into its twenty minutes.
Cancel ==
  /\ stage # "idle"
  /\ stage' = "idle" /\ mine' = Nobody
  /\ UNCHANGED <<database, runner, target, job, service>>

\* The operator executes the job by hand, as the infrastructure guide says.
ExecuteByHand(e) == appUser /\ e # mine /\ Start(e, "upgrade", job) /\ UNCHANGED workflow

\* mise run db:migrate, and the downgrade of the reversibility checks: one at a time.
ExecuteLocally(e) ==
  /\ ~appUser /\ \A f \in Executions : pc[f] \in Ended
  /\ \E command \in {"upgrade", "downgrade"} : Start(e, command, job)
  /\ UNCHANGED workflow

Workflow ==
  \/ UpdateJob \/ (\E e \in Executions : ExecuteJob(e)) \/ JobEnds \/ DeployApi \/ SmokeTest

Next ==
  \/ \E r \in Releases : Dispatch(r)
  \/ Workflow \/ Cancel
  \/ \E e \in Executions :
       \/ ExecuteByHand(e) \/ ExecuteLocally(e)
       \/ (Running(e) \/ Lost(e)) /\ UNCHANGED workflow

Spec == Init /\ [][Next]_vars

\* PostgreSQL grants its locks in the order they were asked for, so new executions do
\* not starve one that waits, and the workflow goes on.  The number of executions is
\* a bound of the model: the job starts when one is free again and again.
FairSpec ==
  /\ Spec
  /\ SF_vars(Workflow)
  /\ \A e \in Executions : SF_vars(Running(e) /\ UNCHANGED workflow)

-----------------------------------------------------------------------------
(* Properties *)

\* The recorded revision and the schema agree, whatever overlaps and wherever an
\* execution dies: no half of a script is ever committed, and no script twice.
SchemaMatchesRevision ==
  \E r \in 0..Newest :
    /\ revision = {r} \ {0}
    /\ objects \ Baseline = Installed[r]
    /\ r > 0 => Baseline \subseteq objects

\* The scripts fit the schema of the revision they start from, in both directions,
\* the circle of documents and active versions included: an execution fails in one
\* only when another one has moved the schema since it read the revision.
ScriptsFit ==
  [][\A e \in Executions :
       pc[e] = "script" /\ pc'[e] = "failed" /\ reason'[e] \in {"exists", "missing", "needed"} => overtaken[e]]_vars

\* Whatever release serves, its tables are there and the API identity may use them:
\* a deployment that was cancelled, lost or overtaken leaves the service working.
ServedReleaseWorks ==
  service > 0 =>
    /\ Installed[service] \subseteq objects
    /\ "admin_user" \in objects => {"rag_app", "admin_user"} \subseteq grants

\* An execution that reports its completion has brought the schema at least as far
\* as its image goes, although it reads the result after its transaction.
EvidenceIsTrue ==
  \A e \in Executions :
    appUser /\ pc[e] = "done" => \E r \in revision : r >= head[e]

\* The workflow comes to its end, and the next one can be dispatched, also when its
\* execution waits for one a cancelled workflow left behind.
EveryDeploymentEnds == stage # "idle" ~> stage = "idle"
===============================================================================
