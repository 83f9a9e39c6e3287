SPECIFICATION FairSpec
CONSTANTS
  t1 = t1
  t2 = t2
  d1 = d1
  v1 = v1
  k1 = k1
  k2 = k2
  w1 = w1
  c1 = c1
  m1 = m1
  q1 = q1
  q2 = q2
  l1 = l1
  l2 = l2
  l3 = l3
  Null = Null
  Txns = {t1, t2}
  Rows = {d1, v1, k1, k2, w1, c1, m1, q1, q2, l1, l2, l3}
  TableOf <- AllTables
  ColumnsOf <- AllColumns
  Batches <- Links
  Retirable = {w1, c1}
  Initial = {d1, v1, k1, k2}
  MaxCalls <- OneAndTwo
INVARIANTS
  ReferencesHold
  UniqueKeysHold
PROPERTIES
  EvidenceIsKept
  EveryCallEnds
