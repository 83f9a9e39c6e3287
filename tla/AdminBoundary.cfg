SPECIFICATION FairSpec
CONSTANTS
  Tasks = {t1, t2, t3}
  Subjects = {s1}
  AdminIds = {a1, a2}
  PoolSize = 2
  MaxLost = 1
  NoId = NoId
  NoSubject = NoSubject

INVARIANTS
  MappingIsFound
  AnswersAreKept
  OnlyAdminsConnect
PROPERTIES
  EveryRequestEnds
