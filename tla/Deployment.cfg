SPECIFICATION FairSpec
CONSTANTS
  Executions = {e1, e2}
  Releases = {2, 3}
INVARIANTS
  SchemaMatchesRevision
  ServedReleaseWorks
  EvidenceIsTrue
PROPERTIES
  ScriptsFit
  EveryDeploymentEnds
