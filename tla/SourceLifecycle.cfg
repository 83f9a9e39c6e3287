SPECIFICATION Spec
CONSTANTS
  t1 = t1
  t2 = t2
  d1 = d1
  v1 = v1
  v2 = v2
  Txns = {t1, t2}
  Docs = {d1}
  Versions = {v1, v2}
  DocOf <- OneDocument
  Profiles = {p1}
  Callable = {"create_document", "create_version", "transition_version", "set_active_version", "delete_document"}
  Targets = {"processing", "indexed", "superseded"}
  Hashed = {TRUE, FALSE}
  MaxCalls <- TwoEach
  NoTxn = NoTxn
  NoDoc = NoDoc
  DeletedDoc = DeletedDoc
  NoVersion = NoVersion
  NoProfile = NoProfile
  NoCall = NoCall
  Untouched = Untouched
SYMMETRY Symmetry
INVARIANTS
  OneIndexedPerDocument
  ActiveVersionWasIndexed
PROPERTIES
  ImplementsCatalogue
