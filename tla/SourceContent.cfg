SPECIFICATION FairSpec
CONSTANTS
  t1 = t1
  t2 = t2
  d1 = d1
  v1 = v1
  v2 = v2
  Txns = {t1, t2}
  Docs = {d1}
  Versions = {v1}
  DocOf <- OneVersion
  Profiles = {p1}
  Callable = {"create_document", "create_version", "set_active_version", "transition_version", "record_embedding_profile", "add_chunks", "delete_document"}
  Targets = {"processing", "indexed"}
  Hashed = {TRUE}
  MaxCalls <- OneAndTwo
  NoTxn = NoTxn
  NoDoc = NoDoc
  DeletedDoc = DeletedDoc
  NoVersion = NoVersion
  NoProfile = NoProfile
  NoCall = NoCall
  Untouched = Untouched
INVARIANTS
  NoOrphans
  EmbeddedChunksMatchProfile
PROPERTIES
  NoLostUpdate
  EveryCallEnds
