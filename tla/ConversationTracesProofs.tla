------------------------ MODULE ConversationTracesProofs ------------------------
(* Proofs about ConversationTraces, for any number of transactions, rows, calls *)
(* and links in a flush.                                                       *)
EXTENDS ConversationTraces, FiniteSetTheorems, TLAPS

-----------------------------------------------------------------------------
(* The keys of the schema, and sequences of work *)

LEMMA KeysAreFinite == IsFiniteSet(ForeignKeys)
<1>1. \A a : IsFiniteSet({a})
  BY FS_Singleton
<1>2. \A a, b : IsFiniteSet({a, b})
  <2> TAKE a, b
  <2>1. IsFiniteSet({a} \cup {b})
    BY <1>1, FS_AddElement
  <2>2. {a, b} = {a} \cup {b}
    OBVIOUS
  <2> QED
    BY <2>1, <2>2
<1>3. \A a, b, c : IsFiniteSet({a, b, c})
  <2> TAKE a, b, c
  <2>1. IsFiniteSet({a, b} \cup {c})
    BY <1>2, FS_AddElement
  <2>2. {a, b, c} = {a, b} \cup {c}
    OBVIOUS
  <2> QED
    BY <2>1, <2>2
<1>4. IsFiniteSet(SourceKeys) /\ IsFiniteSet(ChunkKeys) /\ IsFiniteSet(ConversationKeys) /\ IsFiniteSet(TraceKeys)
  BY <1>1, <1>2, <1>3 DEF SourceKeys, ChunkKeys, ConversationKeys, TraceKeys
<1>5. IsFiniteSet(SourceKeys \cup ChunkKeys)
  BY <1>4, FS_Union
<1>6. IsFiniteSet(SourceKeys \cup ChunkKeys \cup ConversationKeys)
  BY <1>4, <1>5, FS_Union
<1>7. IsFiniteSet(InlineKeys)
  BY <1>4, <1>6, FS_Union DEF InlineKeys
<1> QED
  BY <1>1, <1>7, FS_Union DEF ForeignKeys

\* Retrieval traces have one key, which sets null; links follow their chunk or trace.
LEMMA TraceRules ==
  ASSUME NEW k \in ForeignKeys
  PROVE  /\ k.rule \in {"no action", "cascade", "set null"}
         /\ k.from = "retrieval_trace" <=> k.rule = "set null"
         /\ k.from = "retrieval_trace" => k.column = "conversation_id"
         /\ k.from = "retrieval_trace_chunk" => k.column = "chunk_id" \/ k.to = "retrieval_trace"
<1>1. \/ k = ForeignKey("source_document", "active_version_id", "source_version", "no action")
      \/ k = ForeignKey("source_version", "document_id", "source_document", "cascade")
      \/ k = ForeignKey("chunk", "source_version_id", "source_version", "cascade")
      \/ k = ForeignKey("chunk", "parent_chunk_id", "chunk", "cascade")
      \/ k = ForeignKey("conversation", "widget_id", "widget", "cascade")
      \/ k = ForeignKey("message", "conversation_id", "conversation", "cascade")
      \/ k = ForeignKey("retrieval_trace", "conversation_id", "conversation", "set null")
      \/ k = ForeignKey("retrieval_trace_chunk", "trace_id", "retrieval_trace", "cascade")
      \/ k = ForeignKey("retrieval_trace_chunk", "chunk_id", "chunk", "cascade")
  BY Zenon DEF ForeignKeys, InlineKeys, SourceKeys, ChunkKeys, ConversationKeys, TraceKeys, ActiveVersionKey
<1>2. CASE k = ForeignKey("source_document", "active_version_id", "source_version", "no action")
  BY <1>2 DEF ForeignKey
<1>3. CASE k = ForeignKey("source_version", "document_id", "source_document", "cascade")
  BY <1>3 DEF ForeignKey
<1>4. CASE k = ForeignKey("chunk", "source_version_id", "source_version", "cascade")
  BY <1>4 DEF ForeignKey
<1>5. CASE k = ForeignKey("chunk", "parent_chunk_id", "chunk", "cascade")
  BY <1>5 DEF ForeignKey
<1>6. CASE k = ForeignKey("conversation", "widget_id", "widget", "cascade")
  BY <1>6 DEF ForeignKey
<1>7. CASE k = ForeignKey("message", "conversation_id", "conversation", "cascade")
  BY <1>7 DEF ForeignKey
<1>8. CASE k = ForeignKey("retrieval_trace", "conversation_id", "conversation", "set null")
  BY <1>8 DEF ForeignKey
<1>9. CASE k = ForeignKey("retrieval_trace_chunk", "trace_id", "retrieval_trace", "cascade")
  BY <1>9 DEF ForeignKey
<1>10. CASE k = ForeignKey("retrieval_trace_chunk", "chunk_id", "chunk", "cascade")
  BY <1>10 DEF ForeignKey
<1> QED
  BY <1>1, <1>2, <1>3, <1>4, <1>5, <1>6, <1>7, <1>8, <1>9, <1>10

\* The elements of a finite set in a sequence are these.
LEMMA SetInSequence ==
  ASSUME NEW S, IsFiniteSet(S)
  PROVE  SetToSeq(S) \in Seq(S) /\ Range(SetToSeq(S)) = S
<1> DEFINE n == Cardinality(S)
           f == SetToSeq(S)
<1>1. n \in Nat /\ ExistsBijection(1..n, S)
  BY FS_CardinalityType
<1>2. PICK g : g \in Bijection(1..n, S)
  BY <1>1, Zenon DEF ExistsBijection
<1>3. g \in [1..n -> S] /\ IsInjective(g)
  BY <1>2, Zenon DEF Bijection, Injection
<1>4. f \in [1..n -> S] /\ IsInjective(f)
  BY <1>3, Zenon DEF SetToSeq
<1>5. f \in Injection(1..n, S)
  BY <1>4, Zenon DEF Injection
<1>6. Cardinality(1..n) = n
  BY <1>1, FS_Interval
<1>7. f \in Surjection(1..n, S)
  BY <1>5, <1>6, FS_Injection, Zenon
<1>8. \A x \in S : \E i \in 1..n : f[i] = x
  BY <1>7, Zenon DEF Surjection
<1>9. f \in Seq(S)
  BY <1>1, <1>4
<1>10. Range(f) = S
  BY <1>4, <1>8 DEF Range
<1> QED
  BY <1>9, <1>10

LEMMA RangeOfConcatenation ==
  ASSUME NEW T, NEW a \in Seq(T), NEW b \in Seq(T)
  PROVE  a \o b \in Seq(T) /\ Range(a \o b) = Range(a) \cup Range(b)
<1>1. /\ a \o b \in Seq(T)
      /\ DOMAIN (a \o b) = 1..(Len(a) + Len(b))
      /\ \A i \in 1..Len(a) : (a \o b)[i] = a[i]
      /\ \A i \in 1..Len(b) : (a \o b)[Len(a) + i] = b[i]
      /\ DOMAIN a = 1..Len(a) /\ DOMAIN b = 1..Len(b) /\ Len(a) \in Nat /\ Len(b) \in Nat
  OBVIOUS
<1>2. \A x \in Range(a) \cup Range(b) : x \in Range(a \o b)
  <2>1. \A i \in DOMAIN a : i \in DOMAIN (a \o b) /\ (a \o b)[i] = a[i]
    BY <1>1
  <2>2. \A i \in DOMAIN b : Len(a) + i \in DOMAIN (a \o b) /\ (a \o b)[Len(a) + i] = b[i]
    BY <1>1
  <2> HIDE DEF Range
  <2> QED
    BY <2>1, <2>2, Zenon DEF Range
<1>3. \A i \in DOMAIN (a \o b) : (a \o b)[i] \in Range(a) \cup Range(b)
  <2> TAKE i \in DOMAIN (a \o b)
  <2>1. CASE i \in DOMAIN a
    <3>1. (a \o b)[i] = a[i]
      BY <1>1, <2>1
    <3> QED
      BY <2>1, <3>1, Zenon DEF Range
  <2>2. CASE i \notin DOMAIN a
    <3>1. i - Len(a) \in DOMAIN b /\ (a \o b)[i] = b[i - Len(a)]
      BY <1>1, <2>2
    <3> QED
      BY <3>1, Zenon DEF Range
  <2> QED
    BY <2>1, <2>2
<1>4. \A x \in Range(a \o b) : x \in Range(a) \cup Range(b)
  BY <1>3, Zenon DEF Range
<1> QED
  BY <1>1, <1>2, <1>4

LEMMA RangeOfWork ==
  ASSUME NEW T, NEW s \in Seq(T), s # << >>
  PROVE  /\ Head(s) \in T /\ Tail(s) \in Seq(T)
         /\ Range(s) = {Head(s)} \cup Range(Tail(s))
<1>1. /\ Head(s) \in T /\ Tail(s) \in Seq(T) /\ Len(s) \in Nat \ {0} /\ Head(s) = s[1]
      /\ DOMAIN s = 1..Len(s) /\ DOMAIN Tail(s) = 1..(Len(s) - 1)
      /\ \A i \in DOMAIN Tail(s) : Tail(s)[i] = s[i + 1]
  OBVIOUS
<1>2. \A i \in DOMAIN s : s[i] \in {Head(s)} \cup Range(Tail(s))
  <2> TAKE i \in DOMAIN s
  <2>1. CASE i = 1
    BY <1>1, <2>1
  <2>2. CASE i # 1
    <3>1. i - 1 \in DOMAIN Tail(s) /\ Tail(s)[i - 1] = s[i]
      BY <1>1, <2>2
    <3> QED
      BY <3>1, Zenon DEF Range
  <2> QED
    BY <2>1, <2>2
<1>3. \A i \in DOMAIN Tail(s) : Tail(s)[i] \in Range(s)
  <2> TAKE i \in DOMAIN Tail(s)
  <2>1. i + 1 \in DOMAIN s /\ Tail(s)[i] = s[i + 1]
    BY <1>1
  <2> QED
    BY <2>1, Zenon DEF Range
<1>4. Head(s) \in Range(s)
  <2>1. 1 \in DOMAIN s /\ Head(s) = s[1]
    BY <1>1
  <2> QED
    BY <2>1, Zenon DEF Range
<1>5. \A x \in Range(s) : x \in {Head(s)} \cup Range(Tail(s))
  BY <1>2, Zenon DEF Range
<1>6. \A x \in Range(Tail(s)) : x \in Range(s)
  BY <1>3, Zenon DEF Range
<1> QED
  BY <1>1, <1>4, <1>5, <1>6

LEMMA EmptyRange == Range(<< >>) = {}
  BY DEF Range

-----------------------------------------------------------------------------
(* Types, and what kind of work a transaction has at once *)

Inserting == {"insert", "check"}

\* What stands in the work of a transaction: checks of keys the row has, demands of
\* keys it is named by, and never insertions and deletions at once.
WorkOK ==
  \A t \in Txns : \A i \in Range(work[t]) :
    /\ i.does = "insert" => i = Insertion(i.row)
    /\ i.does = "check" => i.key \in KeysOf[i.row]
    /\ i.does = "enforce" => i.key \in KeysTo[i.row]
    /\ i.does \in {"read", "delete"} => TableOf[i.row] \in {"source_document", "widget", "conversation"}
    /\ \A j \in Range(work[t]) : i.does \in Inserting <=> j.does \in Inserting

TypeInv == TypeOK /\ WorkOK

ChecksSet(r) == {Check(r, k) : k \in {f \in KeysOf[r] : Referenced(r, f, "live") # Null}}
EnforcementsSet(r) == {Enforcement(r, k) : k \in KeysTo[r]}

LEMMA ItemFields ==
  /\ \A d, r, k : Item(d, r, k).does = d /\ Item(d, r, k).row = r /\ Item(d, r, k).key = k
  /\ \A r : Insertion(r).does = "insert" /\ Insertion(r).row = r
  /\ \A r, k : Check(r, k).does = "check" /\ Check(r, k).row = r /\ Check(r, k).key = k
  /\ \A r, k : Enforcement(r, k).does = "enforce" /\ Enforcement(r, k).row = r /\ Enforcement(r, k).key = k
  BY Zenon DEF Item, Insertion, Check, Enforcement

LEMMA ItemTypes ==
  ASSUME NEW r \in Rows
  PROVE  /\ Insertion(r) \in Items
         /\ \A k \in ForeignKeys : Check(r, k) \in Items /\ Enforcement(r, k) \in Items
         /\ Item("read", r, Null) \in Items /\ Item("delete", r, Null) \in Items
         /\ KeysOf[r] \subseteq ForeignKeys /\ KeysTo[r] \subseteq ForeignKeys
         /\ ChecksSet(r) \subseteq Items /\ EnforcementsSet(r) \subseteq Items
<1>1. /\ Insertion(r) \in Items
      /\ \A k \in ForeignKeys : Check(r, k) \in Items /\ Enforcement(r, k) \in Items
      /\ Item("read", r, Null) \in Items /\ Item("delete", r, Null) \in Items
  BY DEF Items, Item, Insertion, Check, Enforcement
<1>2. KeysOf[r] \subseteq ForeignKeys /\ KeysTo[r] \subseteq ForeignKeys
  BY DEF KeysOf, KeysTo
<1>3. ChecksSet(r) \subseteq Items /\ EnforcementsSet(r) \subseteq Items
  BY <1>1, <1>2, Zenon DEF ChecksSet, EnforcementsSet
<1> QED
  BY <1>1, <1>2, <1>3

LEMMA ListTypes ==
  ASSUME NEW r \in Rows
  PROVE  /\ ChecksOf[r] \in Seq(Items) /\ Range(ChecksOf[r]) = ChecksSet(r)
         /\ EnforcementsOf[r] \in Seq(Items) /\ Range(EnforcementsOf[r]) = EnforcementsSet(r)
<1>1. ChecksSet(r) \subseteq Items /\ EnforcementsSet(r) \subseteq Items
  BY ItemTypes
<1>2. \A S : IsFiniteSet(S) /\ S \subseteq Items => SetToSeq(S) \in Seq(Items) /\ Range(SetToSeq(S)) = S
  <2> TAKE S
  <2> HAVE IsFiniteSet(S) /\ S \subseteq Items
  <2>1. SetToSeq(S) \in Seq(S) /\ Range(SetToSeq(S)) = S
    BY SetInSequence
  <2> QED
    BY <2>1
<1>0. \A S, f : IsFiniteSet(S) /\ DOMAIN f = S => IsFiniteSet({f[x] : x \in S})
  <2> TAKE S, f
  <2> HAVE IsFiniteSet(S) /\ DOMAIN f = S
  <2> DEFINE T == {f[x] : x \in S}
             g == [x \in S |-> f[x]]
  <2>1. g \in [S -> T] /\ \A y \in T : \E x \in S : g[x] = y
    OBVIOUS
  <2>2. g \in Surjection(S, T)
    BY <2>1, Zenon DEF Surjection
  <2> QED
    BY <2>2, FS_Surjection
<1>3. IsFiniteSet(ChecksSet(r))
  <2>1. IsFiniteSet({f \in KeysOf[r] : Referenced(r, f, "live") # Null})
    BY KeysAreFinite, ItemTypes, FS_Subset
  <2>2. \A K : IsFiniteSet(K) => IsFiniteSet({Check(r, k) : k \in K})
    <3> TAKE K
    <3> HAVE IsFiniteSet(K)
    <3> DEFINE f == [k \in K |-> Check(r, k)]
    <3>1. IsFiniteSet({f[k] : k \in K})
      BY <1>0
    <3> QED
      BY <3>1
  <2> QED
    BY <2>1, <2>2 DEF ChecksSet
<1>4. IsFiniteSet(EnforcementsSet(r))
  <2>1. IsFiniteSet(KeysTo[r])
    BY KeysAreFinite, ItemTypes, FS_Subset
  <2>2. \A K : IsFiniteSet(K) => IsFiniteSet({Enforcement(r, k) : k \in K})
    <3> TAKE K
    <3> HAVE IsFiniteSet(K)
    <3> DEFINE f == [k \in K |-> Enforcement(r, k)]
    <3>1. IsFiniteSet({f[k] : k \in K})
      BY <1>0
    <3> QED
      BY <3>1
  <2> QED
    BY <2>1, <2>2 DEF EnforcementsSet
<1>5. ChecksOf[r] = SetToSeq(ChecksSet(r)) /\ EnforcementsOf[r] = SetToSeq(EnforcementsSet(r))
  BY Zenon DEF ChecksOf, EnforcementsOf, ChecksSet, EnforcementsSet
<1> QED
  BY <1>1, <1>2, <1>3, <1>4, <1>5

-----------------------------------------------------------------------------
(* What a step does *)

Rest(t) == Range(Tail(work[t]))

\* The step of t replaces the item at the head of its work.
Replaces(t, items) ==
  /\ work[t] # << >> /\ Range(work[t]) = {Next1(t)} \cup Rest(t)
  /\ Next1(t) \in Items /\ Next1(t) \in Range(work[t])
  /\ work' \in [Txns -> Seq(Items)]
  /\ \A u \in Txns \ {t} : work'[u] = work[u]
  /\ Range(work'[t]) = Rest(t) \cup items

Written == [Txns -> [Rows -> Live \cup {"untouched", "deleted"}]]

\* The step of t writes one row.
Writes(t, r, value) ==
  /\ r \in Rows /\ own' \in Written
  /\ \A u \in Txns : \A x \in Rows : own'[u][x] = IF u = t /\ x = r THEN value ELSE own[u][x]
  /\ UNCHANGED <<db, share>>

Called(t) ==
  /\ UNCHANGED <<db, own, share>>
  /\ work[t] = << >> /\ work' \in [Txns -> Seq(Items)]
  /\ \A u \in Txns \ {t} : work'[u] = work[u]
  /\ \/ \A i \in Range(work'[t]) : i = Insertion(i.row) /\ i.row \in Rows /\ Unused(i.row)
     \/ \A i \in Range(work'[t]) :
          i.does \in {"read", "delete"} /\ TableOf[i.row] \in {"source_document", "widget", "conversation"}

Inserted(t, r) ==
  /\ Next1(t) = Insertion(r) /\ Replaces(t, ChecksSet(r))
  /\ ClashWriters(t, r) = {} /\ \A s \in Clashes[r] : ~IsLive(t, s)
  /\ Writes(t, r, "live")

Checked(t, r, k) ==
  /\ Next1(t) = Check(r, k) /\ k \in KeysOf[r] /\ r \in Rows /\ Replaces(t, {})
  /\ IsLive(t, ParentOf(t)) /\ Deleters(t, ParentOf(t)) = {}
  /\ share' = [share EXCEPT ![ParentOf(t)] = @ \cup {t}]
  /\ UNCHANGED <<db, own>>

Passed(t) ==
  /\ UNCHANGED <<db, own, share>>
  /\ Next1(t).does \notin Inserting
  /\ \E items \in SUBSET {Item("delete", Next1(t).row, Null)} :
       /\ Next1(t).does \in {"delete", "enforce"} => items = {}
       /\ Replaces(t, items)
  /\ Next1(t).does = "enforce" => Children(t, Next1(t).row, Next1(t).key) = {}

Removed(t, r) ==
  /\ Writes(t, r, "deleted") /\ IsLive(t, r) /\ Holders(t, r) = {}
  /\ \/ /\ Next1(t).does = "delete" /\ r = Next1(t).row
        /\ Replaces(t, EnforcementsSet(r))
     \/ /\ Next1(t).does = "enforce" /\ Next1(t).key.rule = "cascade"
        /\ r \in Children(t, Next1(t).row, Next1(t).key)
        /\ Replaces(t, {Next1(t)} \cup EnforcementsSet(r))

Freed(t, r) ==
  /\ Writes(t, r, "detached") /\ Writers(t, r) = {}
  /\ Next1(t).does = "enforce" /\ Next1(t).key.rule = "set null"
  /\ r \in Children(t, Next1(t).row, Next1(t).key)
  /\ Replaces(t, {Next1(t)})

\* The transaction ends, with what it wrote or without.
Leaves(t) ==
  /\ own' \in Written /\ share' \in [Rows -> SUBSET Txns]
  /\ \A u \in Txns : \A x \in Rows : own'[u][x] = IF u = t THEN "untouched" ELSE own[u][x]
  /\ \A x \in Rows : share'[x] = share[x] \ {t}
  /\ work' \in [Txns -> Seq(Items)] /\ work'[t] = << >>
  /\ \A u \in Txns \ {t} : work'[u] = work[u]
Aborted(t) == Leaves(t) /\ UNCHANGED db
Committed(t) ==
  /\ Leaves(t) /\ work[t] = << >>
  /\ db' \in [Rows -> Live \cup {"absent", "deleted"}] /\ \A x \in Rows : db'[x] = Seen(t, x)

Step(t) ==
  \/ Called(t) \/ Passed(t) \/ Aborted(t) \/ Committed(t)
  \/ \E r \in Rows : Inserted(t, r) \/ Removed(t, r) \/ Freed(t, r) \/ \E k \in ForeignKeys : Checked(t, r, k)

LEMMA AtHead ==
  ASSUME TypeOK, NEW t \in Txns, work[t] # << >>
  PROVE  /\ Next1(t) \in Items /\ Next1(t).row \in Rows /\ Next1(t) \in Range(work[t])
         /\ Range(work[t]) = {Next1(t)} \cup Rest(t)
         /\ Tail(work[t]) \in Seq(Items)
<1>1. work[t] \in Seq(Items)
  BY DEF TypeOK
<1>2. Next1(t) \in Items /\ Tail(work[t]) \in Seq(Items) /\ Range(work[t]) = {Next1(t)} \cup Rest(t)
  BY <1>1, RangeOfWork, Zenon DEF Next1, Rest
<1>3. Next1(t).row \in Rows
  BY <1>2 DEF Items
<1> QED
  BY <1>2, <1>3

LEMMA DoesReplaces ==
  ASSUME TypeOK, NEW t \in Txns, work[t] # << >>, NEW items \in Seq(Items)
  PROVE  /\ Does(t, items) => Replaces(t, Range(items))
         /\ work' = [work EXCEPT ![t] = Tail(@) \o items] => Replaces(t, Range(items))
<1>1. Tail(work[t]) \in Seq(Items) /\ work \in [Txns -> Seq(Items)]
  BY AtHead DEF TypeOK
<1>2. /\ items \o Tail(work[t]) \in Seq(Items) /\ Range(items \o Tail(work[t])) = Range(items) \cup Rest(t)
      /\ Tail(work[t]) \o items \in Seq(Items) /\ Range(Tail(work[t]) \o items) = Rest(t) \cup Range(items)
  BY <1>1, RangeOfConcatenation, Zenon DEF Rest
<1>3. \A list \in Seq(Items) : work' = [work EXCEPT ![t] = list] =>
        /\ work' \in [Txns -> Seq(Items)] /\ work'[t] = list
        /\ \A u \in Txns \ {t} : work'[u] = work[u]
  BY <1>1
<1>4. ASSUME Does(t, items) PROVE Replaces(t, Range(items))
  <2>1. work' = [work EXCEPT ![t] = items \o Tail(work[t])]
    BY <1>4, <1>1, Zenon DEF Does
  <2> QED
    BY <2>1, <1>2, <1>3, AtHead, Zenon DEF Replaces
<1>5. ASSUME work' = [work EXCEPT ![t] = Tail(@) \o items] PROVE Replaces(t, Range(items))
  <2>1. work' = [work EXCEPT ![t] = Tail(work[t]) \o items]
    BY <1>5, <1>1, Zenon
  <2> QED
    BY <2>1, <1>2, <1>3, AtHead, Zenon DEF Replaces
<1> QED
  BY <1>4, <1>5

LEMMA BecomesWrites ==
  ASSUME TypeOK, NEW t \in Txns, NEW r \in Rows, NEW value \in Live \cup {"deleted"}, Becomes(t, r, value), UNCHANGED <<db, share>>
  PROVE  Writes(t, r, value)
<1>1. own \in [Txns -> [Rows -> Live \cup {"untouched", "deleted"}]]
  BY DEF TypeOK
<1>2. \A u \in Txns : \A x \in Rows : own'[u][x] = IF u = t /\ x = r THEN value ELSE own[u][x]
  BY <1>1 DEF Becomes
<1>3. own' \in Written
  BY <1>1 DEF Becomes, Written
<1> QED
  BY <1>2, <1>3 DEF Writes

LEMMA DiscardLeaves ==
  ASSUME TypeOK, NEW t \in Txns, Discard(t)
  PROVE  Leaves(t)
<1>1. /\ own \in [Txns -> [Rows -> Live \cup {"untouched", "deleted"}]]
      /\ work \in [Txns -> Seq(Items)]
  BY DEF TypeOK
<1>2. \A u \in Txns : \A x \in Rows : own'[u][x] = IF u = t THEN "untouched" ELSE own[u][x]
  BY <1>1 DEF Discard
<1>3. \A x \in Rows : share'[x] = share[x] \ {t}
  BY DEF Discard
<1>4. << >> \in Seq(Items)
  OBVIOUS
<1>5. work' = [work EXCEPT ![t] = << >>]
  BY DEF Discard
<1>7. own' \in Written /\ share' \in [Rows -> SUBSET Txns]
  BY <1>1 DEF Discard, Written, TypeOK
<1>6. work' \in [Txns -> Seq(Items)] /\ work'[t] = << >> /\ \A u \in Txns \ {t} : work'[u] = work[u]
  BY <1>1, <1>4, <1>5
<1> QED
  BY <1>2, <1>3, <1>6, <1>7 DEF Leaves

LEMMA BlockersAt ==
  ASSUME NEW t \in Txns
  PROVE  /\ At(t, "insert") => ClashWriters(t, Next1(t).row) = {}
         /\ At(t, "check") /\ IsLive(t, ParentOf(t)) => Deleters(t, ParentOf(t)) = {}
         /\ At(t, "delete") /\ IsLive(t, Next1(t).row) => Holders(t, Next1(t).row) = {}
<1>1. ASSUME At(t, "insert") PROVE ClashWriters(t, Next1(t).row) = {}
  BY <1>1 DEF At, Doing, Blockers
<1>2. ASSUME At(t, "check"), IsLive(t, ParentOf(t)) PROVE Deleters(t, ParentOf(t)) = {}
  BY <1>2 DEF At, Doing, Blockers
<1>3. ASSUME At(t, "delete"), IsLive(t, Next1(t).row) PROVE Holders(t, Next1(t).row) = {}
  BY <1>3 DEF At, Doing, Blockers
<1> QED
  BY <1>1, <1>2, <1>3

LEMMA CallSteps ==
  ASSUME TypeOK, NEW t \in Txns, NEW items \in Seq(Items), Call(t, items),
         \/ \A i \in Range(items) : i = Insertion(i.row) /\ i.row \in Rows /\ Unused(i.row)
         \/ \A i \in Range(items) :
              i.does \in {"read", "delete"} /\ TableOf[i.row] \in {"source_document", "widget", "conversation"}
  PROVE  Called(t)
<1>1. work' = [work EXCEPT ![t] = items] /\ UNCHANGED <<db, own, share>> /\ work[t] = << >>
  BY DEF Call
<1>2. work' \in [Txns -> Seq(Items)] /\ work'[t] = items /\ \A u \in Txns \ {t} : work'[u] = work[u]
  BY <1>1 DEF TypeOK
<1> QED
  BY <1>1, <1>2, Zenon DEF Called

LEMMA OneItem ==
  ASSUME NEW i \in Items
  PROVE  <<i>> \in Seq(Items) /\ Range(<<i>>) = {i}
  BY DEF Range

LEMMA StatementSteps ==
  ASSUME TypeInv, NEW t \in Txns, Statement(t)
  PROVE  Step(t)
<1>1. TypeOK /\ WorkOK
  BY DEF TypeInv
<1> DEFINE h == Next1(t)
<1>2. work[t] # << >>
  BY DEF Statement, Insert, CheckKey, Read, Delete, Enforce, Enforced, At, Doing
<1>3. h \in Items /\ h.row \in Rows /\ h \in Range(work[t])
  BY <1>1, <1>2, AtHead
<1>4. /\ h.does = "insert" => h = Insertion(h.row)
      /\ h.does = "check" => h.key \in KeysOf[h.row]
      /\ h.does = "enforce" => h.key \in KeysTo[h.row]
  BY <1>1, <1>3 DEF WorkOK
<1>5. << >> \in Seq(Items) /\ Range(<< >>) = {}
  BY EmptyRange
<1> HIDE DEF h
<1>6. CASE Insert(t)
  <2>1. At(t, "insert") /\ h.does = "insert"
    BY <1>6 DEF Insert, At, Doing, h
  <2>2. CASE Abort(t)
    BY <2>2, <1>1, DiscardLeaves DEF Abort, Step, Aborted
  <2>3. CASE ~Abort(t)
    <3>1. /\ \A s \in Clashes[h.row] : ~IsLive(t, s)
          /\ Becomes(t, h.row, "live")
          /\ work' = [work EXCEPT ![t] = Tail(@) \o ChecksOf[h.row]]
          /\ UNCHANGED <<db, share, calls>>
      BY <1>6, <2>3 DEF Insert, h
    <3>2. ClashWriters(t, h.row) = {}
      BY <2>1, BlockersAt DEF h
    <3>3. Writes(t, h.row, "live")
      BY <1>1, <1>3, <3>1, BecomesWrites DEF Live
    <3>4. Replaces(t, ChecksSet(h.row))
      BY <1>1, <1>2, <1>3, <3>1, DoesReplaces, ListTypes
    <3>5. Next1(t) = Insertion(h.row)
      BY <1>4, <2>1 DEF h
    <3>6. Inserted(t, h.row)
      BY <3>1, <3>2, <3>3, <3>4, <3>5, Zenon DEF Inserted
    <3> QED
      BY <1>3, <3>6 DEF Step
  <2> QED
    BY <2>2, <2>3
<1>7. CASE CheckKey(t)
  <2>1. At(t, "check") /\ h.does = "check"
    BY <1>7 DEF CheckKey, At, Doing, h
  <2>2. CASE Abort(t)
    BY <2>2, <1>1, DiscardLeaves DEF Abort, Step, Aborted
  <2>3. CASE ~Abort(t)
    <3>1. /\ IsLive(t, ParentOf(t))
          /\ share' = [share EXCEPT ![ParentOf(t)] = @ \cup {t}]
          /\ Does(t, << >>)
          /\ UNCHANGED <<db, own, calls>>
      BY <1>7, <2>3 DEF CheckKey
    <3>2. Deleters(t, ParentOf(t)) = {}
      BY <2>1, <3>1, BlockersAt
    <3>3. Replaces(t, {})
      BY <1>1, <1>2, <1>5, <3>1, DoesReplaces
    <3>4. h = Check(h.row, h.key) /\ h.key \in KeysOf[h.row] /\ h.key \in ForeignKeys
      <4>1. h.key \in KeysOf[h.row] /\ h.key \in ForeignKeys
        BY <1>3, <1>4, <2>1, ItemTypes
      <4>2. h = Check(h.row, h.key)
        BY <1>3, <2>1 DEF Items, Check, Item
      <4> QED
        BY <4>1, <4>2
    <3>5. Checked(t, h.row, h.key)
      BY <1>3, <3>1, <3>2, <3>3, <3>4, Zenon DEF Checked, h
    <3> QED
      BY <1>3, <3>4, <3>5 DEF Step
  <2> QED
    BY <2>2, <2>3
<1>8. CASE Read(t)
  <2>1. h.does = "read" /\ UNCHANGED <<db, own, share>>
    BY <1>8 DEF Read, Doing, h
  <2>2. \E items \in SUBSET {Item("delete", h.row, Null)} : Replaces(t, items)
    <3>1. CASE IsLive(t, h.row)
      <4>1. <<Item("delete", h.row, Null)>> \in Seq(Items) /\ Range(<<Item("delete", h.row, Null)>>) = {Item("delete", h.row, Null)}
        BY <1>3, ItemTypes, OneItem
      <4>2. Does(t, <<Item("delete", h.row, Null)>>)
        BY <1>8, <3>1 DEF Read, h
      <4> QED
        BY <1>1, <1>2, <4>1, <4>2, DoesReplaces
    <3>2. CASE ~IsLive(t, h.row)
      <4>1. Does(t, << >>)
        BY <1>8, <3>2 DEF Read, h
      <4> QED
        BY <1>1, <1>2, <1>5, <4>1, DoesReplaces
    <3> QED
      BY <3>1, <3>2
  <2>3. Passed(t)
    BY <2>1, <2>2 DEF Passed, Inserting, h
  <2> QED
    BY <2>3 DEF Step
<1>9. CASE Delete(t)
  <2>1. At(t, "delete") /\ h.does = "delete" /\ UNCHANGED <<db, share>>
    BY <1>9 DEF Delete, At, Doing, h
  <2>2. CASE IsLive(t, h.row)
    <3>1. Becomes(t, h.row, "deleted") /\ Does(t, EnforcementsOf[h.row])
      BY <1>9, <2>2 DEF Delete, h
    <3>2. Holders(t, h.row) = {}
      BY <2>1, <2>2, BlockersAt DEF h
    <3>3. Writes(t, h.row, "deleted")
      BY <1>1, <1>3, <2>1, <3>1, BecomesWrites
    <3>4. Replaces(t, EnforcementsSet(h.row))
      BY <1>1, <1>2, <1>3, <3>1, DoesReplaces, ListTypes
    <3>5. Removed(t, h.row)
      BY <2>1, <2>2, <3>2, <3>3, <3>4 DEF Removed, h
    <3> QED
      BY <1>3, <3>5 DEF Step
  <2>3. CASE ~IsLive(t, h.row)
    <3>1. Does(t, << >>) /\ UNCHANGED own
      BY <1>9, <2>3 DEF Delete, h
    <3>2. Replaces(t, {})
      BY <1>1, <1>2, <1>5, <3>1, DoesReplaces
    <3>3. Passed(t)
      BY <2>1, <3>1, <3>2 DEF Passed, Inserting, h
    <3> QED
      BY <3>3 DEF Step
  <2> QED
    BY <2>2, <2>3
<1>10. CASE Enforced(t)
  <2>1. h.does = "enforce" /\ Children(t, h.row, h.key) = {} /\ Does(t, << >>) /\ UNCHANGED <<db, own, share>>
    BY <1>10 DEF Enforced, Doing, h
  <2>2. Replaces(t, {})
    BY <1>1, <1>2, <1>5, <2>1, DoesReplaces
  <2>3. Passed(t)
    BY <2>1, <2>2 DEF Passed, Inserting, h
  <2> QED
    BY <2>3 DEF Step
<1>11. CASE Enforce(t)
  <2>1. h.does = "enforce"
    BY <1>11 DEF Enforce, At, Doing, h
  <2>2. PICK c \in Children(t, h.row, h.key) :
       \/ h.key.rule = "no action" /\ Abort(t)
       \/ /\ h.key.rule = "cascade" /\ Holders(t, c) = {}
          /\ Becomes(t, c, "deleted")
          /\ Does(t, <<h>> \o EnforcementsOf[c])
          /\ UNCHANGED <<db, share, calls>>
       \/ /\ h.key.rule = "set null" /\ Writers(t, c) = {}
          /\ Becomes(t, c, "detached")
          /\ UNCHANGED <<db, share, work, calls>>
    BY <1>11 DEF Enforce, h
  <2>3. c \in Rows /\ IsLive(t, c)
    BY <2>2 DEF Children
  <2>4. CASE Abort(t)
    BY <2>4, <1>1, DiscardLeaves DEF Abort, Step, Aborted
  <2>5. CASE /\ h.key.rule = "cascade" /\ Holders(t, c) = {}
             /\ Becomes(t, c, "deleted")
             /\ Does(t, <<h>> \o EnforcementsOf[c])
             /\ UNCHANGED <<db, share, calls>>
    <3>1. Writes(t, c, "deleted")
      BY <1>1, <2>3, <2>5, BecomesWrites
    <3>2. <<h>> \o EnforcementsOf[c] \in Seq(Items) /\ Range(<<h>> \o EnforcementsOf[c]) = {h} \cup EnforcementsSet(c)
      <4>1. <<h>> \in Seq(Items) /\ Range(<<h>>) = {h}
        BY <1>3, OneItem
      <4>2. EnforcementsOf[c] \in Seq(Items) /\ Range(EnforcementsOf[c]) = EnforcementsSet(c)
        BY <2>3, ListTypes
      <4>3. \A a, b \in Seq(Items) : a \o b \in Seq(Items) /\ Range(a \o b) = Range(a) \cup Range(b)
        BY RangeOfConcatenation, Zenon
      <4> QED
        BY <4>1, <4>2, <4>3, Zenon
    <3>3. Replaces(t, {h} \cup EnforcementsSet(c))
      BY <1>1, <1>2, <2>5, <3>2, DoesReplaces, Zenon
    <3>4. Removed(t, c)
      BY <2>1, <2>2, <2>3, <2>5, <3>1, <3>3 DEF Removed, h
    <3> QED
      BY <2>3, <3>4 DEF Step
  <2>6. CASE /\ h.key.rule = "set null" /\ Writers(t, c) = {}
             /\ Becomes(t, c, "detached")
             /\ UNCHANGED <<db, share, work, calls>>
    <3>1. Writes(t, c, "detached")
      BY <1>1, <2>3, <2>6, BecomesWrites DEF Live
    <3>2. Replaces(t, {h})
      BY <1>1, <1>2, <2>6, AtHead DEF Replaces, TypeOK, h
    <3>3. Freed(t, c)
      BY <2>1, <2>2, <2>3, <2>6, <3>1, <3>2 DEF Freed, h
    <3> QED
      BY <2>3, <3>3 DEF Step
  <2> QED
    BY <2>2, <2>4, <2>5, <2>6
<1> QED
  BY <1>6, <1>7, <1>8, <1>9, <1>10, <1>11 DEF Statement

LEMMA InsertCalls ==
  ASSUME TypeOK, NEW t \in Txns, NEW table, CreateRow(t, table)
  PROVE  Called(t)
<1>1. PICK r \in Rows : Unused(r) /\ Call(t, <<Insertion(r)>>)
  BY DEF CreateRow
<1>2. <<Insertion(r)>> \in Seq(Items) /\ Range(<<Insertion(r)>>) = {Insertion(r)} /\ Insertion(r).row = r
  BY ItemTypes, OneItem, ItemFields
<1> QED
  BY <1>1, <1>2, CallSteps

LEMMA NextSteps ==
  ASSUME TypeInv, Next
  PROVE  \E t \in Txns : Step(t)
<1>1. TypeOK
  BY DEF TypeInv
<1>2. PICK t \in Txns :
    \/ CreateWidget(t) \/ CreateConversation(t) \/ AppendMessage(t) \/ CreateTrace(t)
    \/ AttachChunks(t) \/ DeleteDocument(t) \/ Retire(t)
    \/ Statement(t)
    \/ Commit(t) \/ Rollback(t) \/ BreakDeadlock(t)
  BY DEF Next
<1>3. CASE CreateWidget(t) \/ CreateConversation(t) \/ AppendMessage(t) \/ CreateTrace(t)
  BY <1>1, <1>3, InsertCalls DEF CreateWidget, CreateConversation, AppendMessage, CreateTrace, Step
<1>4. CASE AttachChunks(t)
  <2>1. PICK batch \in Batches :
          (\A i \in DOMAIN batch : Unused(batch[i])) /\ Call(t, [i \in DOMAIN batch |-> Insertion(batch[i])])
    BY <1>4 DEF AttachChunks
  <2> DEFINE items == [i \in DOMAIN batch |-> Insertion(batch[i])]
  <2>2. batch \in Seq(Rows)
    BY RowsAssumption
  <2>3. DOMAIN batch = 1..Len(batch) /\ Len(batch) \in Nat /\ \A i \in DOMAIN batch : batch[i] \in Rows
    BY <2>2
  <2>4. \A i \in DOMAIN items : items[i] \in Items /\ items[i] = Insertion(batch[i])
    BY <2>3, ItemTypes
  <2>5. items \in Seq(Items)
    BY <2>3, <2>4
  <2>6. \A i \in Range(items) : i = Insertion(i.row) /\ i.row \in Rows /\ Unused(i.row)
    <3> SUFFICES ASSUME NEW i \in DOMAIN items
                 PROVE  items[i] = Insertion(items[i].row) /\ items[i].row \in Rows /\ Unused(items[i].row)
      BY DEF Range
    <3>1. items[i].row = batch[i]
      BY <2>4, ItemFields
    <3> QED
      BY <2>1, <2>3, <2>4, <3>1
  <2> HIDE DEF items
  <2>7. Called(t)
    BY <1>1, <2>1, <2>5, <2>6, CallSteps DEF items
  <2> QED
    BY <2>7 DEF Step
<1>5. CASE DeleteDocument(t) \/ Retire(t)
  <2>1. \E r \in Rows : TableOf[r] \in {"source_document", "widget", "conversation"} /\
          \E does \in {"read", "delete"} : Call(t, <<Item(does, r, Null)>>)
    BY <1>5, RowsAssumption DEF DeleteDocument, Retire
  <2>2. PICK r \in Rows, does \in {"read", "delete"} :
          TableOf[r] \in {"source_document", "widget", "conversation"} /\ Call(t, <<Item(does, r, Null)>>)
    BY <2>1
  <2>3. /\ <<Item(does, r, Null)>> \in Seq(Items) /\ Range(<<Item(does, r, Null)>>) = {Item(does, r, Null)}
        /\ Item(does, r, Null).row = r /\ Item(does, r, Null).does = does
    BY ItemTypes, OneItem, ItemFields
  <2>4. Called(t)
    BY <1>1, <2>2, <2>3, CallSteps
  <2> QED
    BY <2>4 DEF Step
<1>6. CASE Commit(t)
  <2>1. Leaves(t)
    BY <1>1, <1>6, DiscardLeaves DEF Commit
  <2>2. db' \in [Rows -> Live \cup {"absent", "deleted"}]
    BY <1>1, <1>6 DEF Commit, Seen, TypeOK
  <2>3. Committed(t)
    BY <2>1, <2>2, <1>6 DEF Commit, Committed
  <2> QED
    BY <2>3 DEF Step
<1>7. CASE Rollback(t) \/ BreakDeadlock(t)
  <2>1. Discard(t) /\ UNCHANGED db
    BY <1>7 DEF Rollback, BreakDeadlock, Abort
  <2> QED
    BY <1>1, <2>1, DiscardLeaves DEF Step, Aborted
<1> QED
  BY <1>2, <1>3, <1>4, <1>5, <1>6, <1>7, StatementSteps

LEMMA StepTypes ==
  ASSUME TypeOK, NEW t \in Txns, Step(t)
  PROVE  /\ db' \in [Rows -> Live \cup {"absent", "deleted"}]
         /\ own' \in Written
         /\ share' \in [Rows -> SUBSET Txns]
         /\ work' \in [Txns -> Seq(Items)]
<1>1. db \in [Rows -> Live \cup {"absent", "deleted"}] /\ own \in Written /\ share \in [Rows -> SUBSET Txns]
  BY DEF TypeOK, Written
<1>2. CASE Called(t) \/ Passed(t)
  BY <1>1, <1>2 DEF Called, Passed, Replaces
<1>3. CASE Aborted(t) \/ Committed(t)
  BY <1>1, <1>3 DEF Aborted, Committed, Leaves
<1>4. ASSUME NEW r \in Rows, Inserted(t, r) \/ Removed(t, r) \/ Freed(t, r)
      PROVE  own' \in Written /\ UNCHANGED <<db, share>> /\ work' \in [Txns -> Seq(Items)]
  BY <1>4 DEF Inserted, Removed, Freed, Writes, Replaces
<1>5. ASSUME NEW r \in Rows, NEW k \in ForeignKeys, Checked(t, r, k)
      PROVE  UNCHANGED <<db, own>> /\ share' \in [Rows -> SUBSET Txns] /\ work' \in [Txns -> Seq(Items)]
  BY <1>1, <1>5 DEF Checked, Replaces
<1> QED
  BY <1>1, <1>2, <1>3, <1>4, <1>5 DEF Step

LEMMA CallsCounted ==
  ASSUME TypeOK, Next
  PROVE  calls' \in [Txns -> Nat] /\ \A t \in Txns : calls'[t] <= MaxCalls[t]
<1>1. PICK t \in Txns :
        \/ \E items : Call(t, items)
        \/ UNCHANGED calls
        \/ Discard(t)
  BY DEF Next, CreateWidget, CreateConversation, AppendMessage, CreateTrace, CreateRow, AttachChunks,
     DeleteDocument, Retire, Statement, Insert, CheckKey, Read, Delete, Enforce, Enforced,
     Commit, Rollback, BreakDeadlock, Abort
<1>2. calls \in [Txns -> Nat] /\ MaxCalls \in [Txns -> Nat] /\ \A u \in Txns : calls[u] <= MaxCalls[u]
  BY TablesAssumption DEF TypeOK
<1>3. CASE \E items : Call(t, items)
  BY <1>2, <1>3 DEF Call
<1>4. CASE Discard(t)
  BY <1>2, <1>4 DEF Discard
<1> QED
  BY <1>1, <1>2, <1>3, <1>4

\* The items a step adds are in order, and of the kind of those that stay.
LEMMA WorkStays ==
  ASSUME TypeInv, NEW t \in Txns, Step(t)
  PROVE  WorkOK'
<1> DEFINE OK(list) ==
      \A i \in list :
        /\ i.does = "insert" => i = Insertion(i.row)
        /\ i.does = "check" => i.key \in KeysOf[i.row]
        /\ i.does = "enforce" => i.key \in KeysTo[i.row]
        /\ i.does \in {"read", "delete"} => TableOf[i.row] \in {"source_document", "widget", "conversation"}
        /\ \A j \in list : i.does \in Inserting <=> j.does \in Inserting
<1>1. \A u \in Txns : OK(Range(work[u]))
  BY DEF TypeInv, WorkOK
<1>2. \A u \in Txns \ {t} : work'[u] = work[u]
  BY DEF Step, Called, Passed, Aborted, Committed, Inserted, Removed, Freed, Checked, Leaves, Replaces
<1> SUFFICES OK(Range(work'[t]))
  BY <1>1, <1>2, Zenon DEF WorkOK
<1>3. CASE Called(t)
  BY <1>3, ItemFields DEF Called, Inserting
<1>4. CASE Aborted(t) \/ Committed(t)
  BY <1>4, EmptyRange DEF Aborted, Committed, Leaves
<1> DEFINE h == Next1(t)
<1>5. ASSUME NEW items, Replaces(t, items), 
             \A i \in items :
               /\ i.does = "insert" => i = Insertion(i.row)
               /\ i.does = "check" => i.key \in KeysOf[i.row]
               /\ i.does = "enforce" => i.key \in KeysTo[i.row]
               /\ i.does \in {"read", "delete"} => TableOf[i.row] \in {"source_document", "widget", "conversation"}
               /\ i.does \in Inserting <=> h.does \in Inserting
      PROVE  OK(Range(work'[t]))
  <2>1. h \in Range(work[t]) /\ Rest(t) \subseteq Range(work[t]) /\ Range(work'[t]) = Rest(t) \cup items
    BY <1>5 DEF Replaces
  <2>2. OK(Range(work[t]))
    BY <1>1
  <2> HIDE DEF h
  <2> QED
    BY <1>5, <2>1, <2>2, Zenon
<1>6. CASE Passed(t)
  <2>1. PICK items \in SUBSET {Item("delete", h.row, Null)} :
          (h.does \in {"delete", "enforce"} => items = {}) /\ Replaces(t, items)
    BY <1>6 DEF Passed
  <2>2. h \in Items /\ h \in Range(work[t]) /\ h.does \notin Inserting
    BY <1>6, <2>1 DEF Passed, Replaces
  <2>3. h.does \in {"read", "delete", "enforce"}
    BY <2>2 DEF Items, Inserting
  <2>4. h.does = "read" => TableOf[h.row] \in {"source_document", "widget", "conversation"}
    BY <1>1, <2>2
  <2> HIDE DEF h
  <2>5. \A i \in items : i.does = "delete" /\ i.row = h.row /\ h.does = "read"
    BY <2>1, <2>3, ItemFields
  <2> QED
    BY <1>5, <2>1, <2>2, <2>4, <2>5 DEF Inserting, h
<1>7. ASSUME NEW r \in Rows, Inserted(t, r) PROVE OK(Range(work'[t]))
  <2>1. h.does = "insert" /\ Replaces(t, ChecksSet(r))
    BY <1>7, ItemFields DEF Inserted
  <2>2. \A i \in ChecksSet(r) : i.does = "check" /\ i.row = r /\ i.key \in KeysOf[r]
    BY ItemFields DEF ChecksSet
  <2> HIDE DEF h
  <2> QED
    BY <1>5, <2>1, <2>2 DEF Inserting, h
<1>8. ASSUME NEW r \in Rows, Removed(t, r) PROVE OK(Range(work'[t]))
  <2>1. \A i \in EnforcementsSet(r) : i.does = "enforce" /\ i.row = r /\ i.key \in KeysTo[r]
    BY ItemFields DEF EnforcementsSet
  <2>2. h.does \in {"delete", "enforce"}
    BY <1>8 DEF Removed
  <2>3. CASE Replaces(t, EnforcementsSet(r))
    BY <1>5, <2>1, <2>2, <2>3 DEF Inserting
  <2>4. CASE h.does = "enforce" /\ Replaces(t, {h} \cup EnforcementsSet(r))
    <3>1. h.key \in KeysTo[h.row]
      BY <1>1, <2>4 DEF Replaces
    <3> QED
      BY <1>5, <2>1, <2>2, <2>4, <3>1 DEF Inserting
  <2> QED
    BY <1>8, <2>3, <2>4 DEF Removed
<1>9. ASSUME NEW r \in Rows, Freed(t, r) PROVE OK(Range(work'[t]))
  <2>1. h.does = "enforce" /\ Replaces(t, {h})
    BY <1>9 DEF Freed
  <2>2. h.key \in KeysTo[h.row]
    BY <1>1, <2>1 DEF Replaces
  <2> QED
    BY <1>5, <2>1, <2>2 DEF Inserting
<1>10. ASSUME NEW r \in Rows, NEW k \in ForeignKeys, Checked(t, r, k) PROVE OK(Range(work'[t]))
  BY <1>5, <1>10 DEF Checked
<1> QED
  BY <1>3, <1>4, <1>6, <1>7, <1>8, <1>9, <1>10 DEF Step

LEMMA TypesStay ==
  ASSUME TypeInv, Next
  PROVE  TypeInv'
<1>1. PICK t \in Txns : Step(t)
  BY NextSteps
<1>2. TypeOK'
  BY <1>1, StepTypes, CallsCounted DEF TypeInv, TypeOK, Written
<1>3. WorkOK'
  BY <1>1, WorkStays
<1> QED
  BY <1>2, <1>3 DEF TypeInv

LEMMA TypesAtStart ==
  ASSUME Init
  PROVE  TypeInv
<1>1. \A t \in Txns : work[t] = << >> /\ << >> \in Seq(Items)
  BY DEF Init
<1>2. TypeOK
  BY <1>1, TablesAssumption DEF Init, TypeOK, Live
<1>3. WorkOK
  BY <1>1, EmptyRange DEF WorkOK
<1> QED
  BY <1>2, <1>3 DEF TypeInv

\* Types hold for any number of transactions and rows: every item of work is of a
\* key that its row has, or is named by.
THEOREM TypeCorrect == Spec => []TypeOK
<1>1. Init => TypeInv
  BY TypesAtStart
<1>2. TypeInv /\ [Next]_vars => TypeInv'
  <2>1. TypeInv /\ UNCHANGED vars => TypeInv'
    BY DEF TypeInv, TypeOK, WorkOK, vars
  <2> QED
    BY <2>1, TypesStay
<1>3. TypeInv => TypeOK
  BY DEF TypeInv
<1> QED
  BY <1>1, <1>2, <1>3, PTL DEF Spec

-----------------------------------------------------------------------------
(* Unique keys *)

Pending(t) == {r \in Rows : Insertion(r) \in Range(work[t])}
Fresh(t, r) == own[t][r] \in Live /\ db[r] \notin Live

\* A row that is about to be inserted is nobody else's.
PendingAlone ==
  \A t \in Txns : \A r \in Pending(t) :
    /\ db[r] = "absent" /\ own[t][r] \in {"untouched", "live"}
    /\ \A u \in Txns \ {t} : own[u][r] = "untouched" /\ r \notin Pending(u)

OneWriter ==
  \A t \in Txns : \A u \in Txns \ {t} : \A r \in Rows : own[t][r] = "untouched" \/ own[u][r] = "untouched"

InsertedIsNew == \A t \in Txns : \A r \in Rows : own[t][r] = "live" => db[r] = "absent"

\* Nobody else writes what a row clashes with before its transaction has ended.
FreshAlone ==
  \A t \in Txns : \A s \in Rows : Fresh(t, s) =>
    \A r \in Clashes[s] : \A u \in Txns \ {t} : own[u][r] = "untouched"

\* Each transaction sees unique keys.
ViewsUnique == \A t \in Txns : \A r \in Rows : \A s \in Clashes[r] : ~(IsLive(t, r) /\ IsLive(t, s))

UniqueInv == PendingAlone /\ OneWriter /\ InsertedIsNew /\ FreshAlone /\ ViewsUnique /\ UniqueKeysHold

LEMMA ClashesAreMutual ==
  /\ \A r \in Rows : Clashes[r] \subseteq Rows \ {r}
  /\ \A r \in Rows : \A s \in Clashes[r] : r \in Clashes[s]
<1>1. \A r \in Rows : Clashes[r] = {s \in Rows \ {r} :
        /\ TableOf[s] = TableOf[r]
        /\ \E key \in UniqueKeys[TableOf[r]] : \A column \in key : ColumnsOf[r][column] = ColumnsOf[s][column]}
  BY Zenon DEF Clashes
<1>2. ASSUME NEW r \in Rows, NEW s \in Clashes[r] PROVE r \in Clashes[s]
  <2>1. /\ s \in Rows \ {r} /\ TableOf[s] = TableOf[r]
        /\ \E key \in UniqueKeys[TableOf[r]] : \A column \in key : ColumnsOf[r][column] = ColumnsOf[s][column]
    BY <1>1, <1>2
  <2>2. \E key \in UniqueKeys[TableOf[s]] : \A column \in key : ColumnsOf[s][column] = ColumnsOf[r][column]
    BY <2>1
  <2> QED
    BY <1>1, <2>1, <2>2
<1> QED
  BY <1>1, <1>2

\* Which insertions are pending after a step.
LEMMA PendingSteps ==
  ASSUME TypeInv, NEW t \in Txns, Step(t)
  PROVE  /\ \A u \in Txns \ {t} : Pending(u)' = Pending(u)
         /\ \A r \in Pending(t)' : r \in Pending(t) \/ (Called(t) /\ Unused(r))
         /\ \A r \in Rows : Inserted(t, r) => r \in Pending(t)
         /\ \A r \in Rows : Removed(t, r) \/ Freed(t, r) => Pending(t) = {}
         /\ Leaves(t) => Pending(t)' = {}
<1>1. \A u \in Txns \ {t} : work'[u] = work[u]
  BY DEF Step, Called, Passed, Aborted, Committed, Inserted, Removed, Freed, Checked, Leaves, Replaces
<1>2. \A u \in Txns \ {t} : Pending(u)' = Pending(u)
  BY <1>1, Zenon DEF Pending
<1>3. ASSUME Leaves(t) PROVE Pending(t)' = {}
  BY <1>3, EmptyRange DEF Leaves, Pending
<1>4. ASSUME NEW r \in Rows, Inserted(t, r) PROVE r \in Pending(t)
  <2>1. Insertion(r) \in Range(work[t])
    BY <1>4, Zenon DEF Inserted, Replaces
  <2> QED
    BY <2>1 DEF Pending
<1>5. ASSUME NEW r \in Rows, Removed(t, r) \/ Freed(t, r) PROVE Pending(t) = {}
  <2>1. Next1(t).does \notin Inserting /\ Next1(t) \in Range(work[t])
    BY <1>5 DEF Removed, Freed, Replaces, Inserting
  <2>2. \A i \in Range(work[t]) : i.does # "insert"
    BY <2>1 DEF TypeInv, WorkOK, Inserting
  <2> QED
    BY <2>2, ItemFields, Zenon DEF Pending
<1>6. ASSUME NEW items, Replaces(t, items), \A i \in items : i \in Range(work[t]) \/ i.does # "insert"
      PROVE  \A r \in Pending(t)' : r \in Pending(t)
  <2>1. Range(work'[t]) = Rest(t) \cup items /\ Rest(t) \subseteq Range(work[t])
    BY <1>6 DEF Replaces
  <2> QED
    BY <1>6, <2>1, ItemFields, Zenon DEF Pending
<1>7. ASSUME NEW r \in Pending(t)' PROVE r \in Pending(t) \/ (Called(t) /\ Unused(r))
  <2>1. r \in Rows /\ Insertion(r) \in Range(work'[t])
    BY <1>7 DEF Pending
  <2>2. CASE Called(t)
    <3>1. Insertion(r).row = r /\ Insertion(r).does = "insert"
      BY ItemFields
    <3> QED
      BY <2>1, <2>2, <3>1 DEF Called
  <2>3. CASE Aborted(t) \/ Committed(t)
    BY <1>3, <1>7, <2>3 DEF Aborted, Committed
  <2>4. CASE Passed(t)
    <3>1. PICK items \in SUBSET {Item("delete", Next1(t).row, Null)} : Replaces(t, items)
      BY <2>4 DEF Passed
    <3>2. \A i \in items : i.does # "insert"
      BY <3>1, ItemFields
    <3> QED
      BY <1>6, <1>7, <3>1, <3>2
  <2>5. ASSUME NEW s \in Rows, Inserted(t, s) PROVE r \in Pending(t)
    <3>1. \A i \in ChecksSet(s) : i.does # "insert"
      BY ItemFields DEF ChecksSet
    <3> QED
      BY <1>6, <1>7, <2>5, <3>1 DEF Inserted
  <2>6. ASSUME NEW s \in Rows, Removed(t, s) PROVE r \in Pending(t)
    <3>1. \A i \in EnforcementsSet(s) : i.does # "insert"
      BY ItemFields DEF EnforcementsSet
    <3>2. CASE Replaces(t, EnforcementsSet(s))
      BY <1>6, <1>7, <3>1, <3>2
    <3>3. CASE Replaces(t, {Next1(t)} \cup EnforcementsSet(s))
      <4>1. \A i \in {Next1(t)} \cup EnforcementsSet(s) : i \in Range(work[t]) \/ i.does # "insert"
        BY <3>1, <3>3 DEF Replaces
      <4> QED
        BY <1>6, <1>7, <3>3, <4>1
    <3> QED
      BY <2>6, <3>2, <3>3 DEF Removed
  <2>7. ASSUME NEW s \in Rows, Freed(t, s) PROVE r \in Pending(t)
    BY <1>6, <1>7, <2>7 DEF Freed, Replaces
  <2>8. ASSUME NEW s \in Rows, NEW k \in ForeignKeys, Checked(t, s, k) PROVE r \in Pending(t)
    BY <1>6, <1>7, <2>8 DEF Checked
  <2> QED
    BY <2>2, <2>3, <2>4, <2>5, <2>6, <2>7, <2>8 DEF Step
<1> QED
  BY <1>2, <1>3, <1>4, <1>5, <1>7

\* Whoever writes a row is the only one to have written it.
LEMMA WritersAlone ==
  ASSUME TypeInv, PendingAlone, NEW t \in Txns, Step(t), NEW r \in Rows,
         Inserted(t, r) \/ Removed(t, r) \/ Freed(t, r)
  PROVE  /\ \A u \in Txns \ {t} : own[u][r] = "untouched"
         /\ Inserted(t, r) => db[r] = "absent"
         /\ ~Inserted(t, r) => IsLive(t, r)
<1>1. CASE Inserted(t, r)
  BY <1>1, PendingSteps DEF PendingAlone
<1>2. CASE Removed(t, r)
  BY <1>1, <1>2 DEF Removed, Holders, Writers
<1>3. CASE Freed(t, r)
  BY <1>1, <1>3 DEF Freed, Writers, Children
<1> QED
  BY <1>1, <1>2, <1>3

\* A step leaves the rows alone, writes one, or ends the transaction.
LEMMA Effects ==
  ASSUME TypeInv, NEW t \in Txns, Step(t)
  PROVE  \/ UNCHANGED <<db, own>>
         \/ Aborted(t) \/ Committed(t)
         \/ \E r \in Rows : /\ Inserted(t, r) \/ Removed(t, r) \/ Freed(t, r)
                            /\ \E value \in {"live", "deleted", "detached"} :
                                 /\ Writes(t, r, value)
                                 /\ Inserted(t, r) <=> value = "live"
<1>1. \A r \in Rows : ~(Inserted(t, r) /\ (Removed(t, r) \/ Freed(t, r)))
  BY ItemFields DEF Inserted, Removed, Freed
<1>2. CASE Called(t) \/ Passed(t)
  BY <1>2 DEF Called, Passed
<1>3. CASE \E r \in Rows : \E k \in ForeignKeys : Checked(t, r, k)
  BY <1>3 DEF Checked
<1>4. ASSUME NEW r \in Rows, Inserted(t, r) PROVE Writes(t, r, "live")
  BY <1>4 DEF Inserted
<1>5. ASSUME NEW r \in Rows, Removed(t, r) PROVE Writes(t, r, "deleted")
  BY <1>5 DEF Removed
<1>6. ASSUME NEW r \in Rows, Freed(t, r) PROVE Writes(t, r, "detached")
  BY <1>6 DEF Freed
<1> QED
  BY <1>1, <1>2, <1>3, <1>4, <1>5, <1>6 DEF Step

LEMMA PendingStaysAlone ==
  ASSUME TypeInv, PendingAlone, OneWriter, NEW t \in Txns, Step(t)
  PROVE  PendingAlone'
<1> SUFFICES ASSUME NEW u \in Txns, NEW r \in Pending(u)'
             PROVE  /\ db'[r] = "absent" /\ own'[u][r] \in {"untouched", "live"}
                    /\ \A v \in Txns \ {u} : own'[v][r] = "untouched" /\ r \notin Pending(v)'
  BY Zenon DEF PendingAlone
<1>0. r \in Rows
  BY DEF Pending
<1>1. CASE Called(t) /\ Unused(r)
  <2>1. UNCHANGED <<db, own>> /\ db[r] = "absent" /\ \A v \in Txns : own[v][r] = "untouched" /\ r \notin Pending(v)
    BY <1>1 DEF Called, Unused, Pending
  <2>2. u = t
    BY <2>1, PendingSteps
  <2> QED
    BY <2>1, <2>2, PendingSteps
<1>2. CASE ~(Called(t) /\ Unused(r))
  <2>1. \A v \in Txns : r \in Pending(v)' => r \in Pending(v)
    BY <1>2, PendingSteps
  <2>2. /\ db[r] = "absent" /\ own[u][r] \in {"untouched", "live"}
        /\ \A v \in Txns \ {u} : own[v][r] = "untouched" /\ r \notin Pending(v)
    BY <2>1 DEF PendingAlone
  <2>3. CASE UNCHANGED <<db, own>>
    BY <2>1, <2>2, <2>3
  <2>4. CASE Aborted(t)
    BY <1>0, <2>1, <2>2, <2>4 DEF Aborted, Leaves
  <2>5. CASE Committed(t)
    <3>1. u # t
      BY <2>5, PendingSteps DEF Committed
    <3>2. db'[r] = db[r]
      BY <1>0, <2>2, <2>5, <3>1 DEF Committed, Seen
    <3> QED
      BY <1>0, <2>1, <2>2, <2>5, <3>1, <3>2 DEF Committed, Leaves
  <2>6. ASSUME NEW s \in Rows, NEW value \in {"live", "deleted", "detached"}, Writes(t, s, value),
               Inserted(t, s) \/ Removed(t, s) \/ Freed(t, s), Inserted(t, s) <=> value = "live"
        PROVE  /\ db'[r] = "absent" /\ own'[u][r] \in {"untouched", "live"}
               /\ \A v \in Txns \ {u} : own'[v][r] = "untouched"
    <3>1. UNCHANGED db /\ \A v \in Txns : own'[v][r] = IF v = t /\ r = s THEN value ELSE own[v][r]
      BY <1>0, <2>6 DEF Writes
    <3>2. CASE r # s
      BY <2>2, <3>1, <3>2
    <3>3. CASE r = s /\ Inserted(t, s)
      <4>1. t = u
        BY <2>2, <3>3, PendingSteps
      <4> QED
        BY <2>2, <2>6, <3>1, <3>3, <4>1
    <3>4. CASE r = s /\ ~Inserted(t, s)
      <4>1. IsLive(t, r) /\ Pending(t) = {}
        BY <2>6, <3>4, WritersAlone, PendingSteps
      <4>2. t # u
        BY <2>1, <4>1
      <4>3. FALSE
        BY <2>2, <4>1, <4>2 DEF IsLive, Seen, Live
      <4> QED
        BY <4>3
    <3> QED
      BY <3>2, <3>3, <3>4
  <2>7. \A v \in Txns \ {u} : r \notin Pending(v)'
    BY <2>1, <2>2
  <2> QED
    BY <2>3, <2>4, <2>5, <2>6, <2>7, Effects
<1> QED
  BY <1>1, <1>2

LEMMA OneWriterStays ==
  ASSUME TypeInv, PendingAlone, OneWriter, NEW t \in Txns, Step(t)
  PROVE  OneWriter'
<1> SUFFICES ASSUME NEW u \in Txns, NEW v \in Txns \ {u}, NEW r \in Rows
             PROVE  own'[u][r] = "untouched" \/ own'[v][r] = "untouched"
  BY Zenon DEF OneWriter
<1>1. own[u][r] = "untouched" \/ own[v][r] = "untouched"
  BY Zenon DEF OneWriter
<1>2. CASE UNCHANGED <<db, own>>
  BY <1>1, <1>2
<1>3. CASE Aborted(t) \/ Committed(t)
  BY <1>1, <1>3 DEF Aborted, Committed, Leaves
<1>4. ASSUME NEW s \in Rows, NEW value, Writes(t, s, value), Inserted(t, s) \/ Removed(t, s) \/ Freed(t, s)
      PROVE  own'[u][r] = "untouched" \/ own'[v][r] = "untouched"
  <2>1. \A w \in Txns \ {t} : own[w][s] = "untouched"
    BY <1>4, WritersAlone
  <2>2. \A w \in Txns : own'[w][r] = IF w = t /\ r = s THEN value ELSE own[w][r]
    BY <1>4 DEF Writes
  <2> QED
    BY <1>1, <2>1, <2>2
<1> QED
  BY <1>2, <1>3, <1>4, Effects

LEMMA InsertedStaysNew ==
  ASSUME TypeInv, PendingAlone, OneWriter, InsertedIsNew, NEW t \in Txns, Step(t)
  PROVE  InsertedIsNew'
<1> SUFFICES ASSUME NEW u \in Txns, NEW r \in Rows, own'[u][r] = "live"
             PROVE  db'[r] = "absent"
  BY Zenon DEF InsertedIsNew
<1>1. own[u][r] = "live" => db[r] = "absent"
  BY Zenon DEF InsertedIsNew
<1>2. CASE UNCHANGED <<db, own>>
  BY <1>1, <1>2
<1>3. CASE Aborted(t)
  BY <1>1, <1>3 DEF Aborted, Leaves
<1>4. CASE Committed(t)
  <2>1. u # t /\ own[u][r] = "live"
    BY <1>4 DEF Committed, Leaves
  <2>2. own[t][r] = "untouched"
    BY <2>1 DEF OneWriter
  <2> QED
    BY <1>1, <1>4, <2>1, <2>2 DEF Committed, Seen
<1>5. ASSUME NEW s \in Rows, NEW value, Writes(t, s, value), Inserted(t, s) \/ Removed(t, s) \/ Freed(t, s),
             Inserted(t, s) <=> value = "live"
      PROVE  db'[r] = "absent"
  <2>1. UNCHANGED db /\ own'[u][r] = IF u = t /\ r = s THEN value ELSE own[u][r]
    BY <1>5 DEF Writes
  <2>2. Inserted(t, s) => db[s] = "absent"
    BY <1>5, WritersAlone
  <2> QED
    BY <1>1, <1>5, <2>1, <2>2
<1> QED
  BY <1>2, <1>3, <1>4, <1>5, Effects

LEMMA FreshStaysAlone ==
  ASSUME TypeInv, PendingAlone, OneWriter, InsertedIsNew, FreshAlone, ViewsUnique, NEW t \in Txns, Step(t)
  PROVE  FreshAlone'
<1> SUFFICES ASSUME NEW u \in Txns, NEW s \in Rows, own'[u][s] \in Live, db'[s] \notin Live,
                    NEW r \in Clashes[s], NEW v \in Txns \ {u}
             PROVE  own'[v][r] = "untouched"
  BY Zenon DEF FreshAlone, Fresh
<1>0. r \in Rows \ {s} /\ s \in Clashes[r]
  BY ClashesAreMutual
<1>1. Fresh(u, s) => own[v][r] = "untouched"
  BY Zenon DEF FreshAlone
<1>2. CASE UNCHANGED <<db, own>>
  BY <1>1, <1>2 DEF Fresh
<1>3. CASE Aborted(t)
  BY <1>0, <1>1, <1>3 DEF Aborted, Leaves, Fresh, Live
<1>4. CASE Committed(t)
  <2>1. u # t /\ own[u][s] = own'[u][s]
    BY <1>4 DEF Committed, Leaves, Live
  <2>2. own[t][s] = "untouched"
    BY <2>1 DEF OneWriter, Live
  <2>3. db'[s] = db[s]
    BY <1>4, <2>2 DEF Committed, Seen
  <2>4. Fresh(u, s)
    BY <2>1, <2>3 DEF Fresh
  <2> QED
    BY <1>0, <1>1, <1>4, <2>4 DEF Committed, Leaves
<1>5. ASSUME NEW x \in Rows, NEW value \in {"live", "deleted", "detached"}, Writes(t, x, value),
             Inserted(t, x) \/ Removed(t, x) \/ Freed(t, x), Inserted(t, x) <=> value = "live"
      PROVE  own'[v][r] = "untouched"
  <2>1. UNCHANGED db /\ \A w \in Txns : \A y \in Rows : own'[w][y] = IF w = t /\ y = x THEN value ELSE own[w][y]
    BY <1>5 DEF Writes
  <2>2. CASE ~(t = v /\ x = r) /\ ~(t = u /\ x = s)
    BY <1>0, <1>1, <2>1, <2>2 DEF Fresh
  <2>3. CASE t = u /\ x = s
    <3>1. own'[v][r] = own[v][r]
      BY <1>0, <2>1, <2>3
    <3>2. CASE Inserted(t, x)
      <4>1. ClashWriters(u, s) = {}
        BY <2>3, <3>2 DEF Inserted
      <4>2. Writers(u, r) = {}
        BY <4>1 DEF ClashWriters
      <4> QED
        BY <3>1, <4>2 DEF Writers
    <3>3. CASE ~Inserted(t, x)
      <4>1. IsLive(u, s)
        BY <1>5, <2>3, <3>3, WritersAlone
      <4>2. Fresh(u, s)
        BY <2>1, <4>1 DEF Fresh, IsLive, Seen
      <4> QED
        BY <1>1, <3>1, <4>2
    <3> QED
      BY <3>2, <3>3
  <2>4. CASE t = v /\ x = r
    <3>1. own[u][s] = own'[u][s] /\ Fresh(u, s)
      BY <1>0, <2>1, <2>4 DEF Fresh
    <3>2. own[u][r] = "untouched"
      BY <1>5, <2>4, WritersAlone
    <3>3. CASE Inserted(t, x)
      <4>1. ClashWriters(v, r) = {}
        BY <2>4, <3>3 DEF Inserted
      <4>2. Writers(v, s) = {}
        BY <1>0, <4>1 DEF ClashWriters
      <4>3. own[u][s] = "untouched"
        BY <4>2 DEF Writers
      <4> QED
        BY <3>1, <4>3 DEF Fresh, Live
    <3>4. CASE ~Inserted(t, x)
      <4>1. IsLive(v, r)
        BY <1>5, <2>4, <3>4, WritersAlone
      <4>2. own[v][r] = "untouched"
        BY <1>1, <3>1
      <4>3. IsLive(u, r)
        BY <3>2, <4>1, <4>2 DEF IsLive, Seen
      <4>4. IsLive(u, s)
        BY <3>1 DEF Fresh, IsLive, Seen, Live
      <4> QED
        BY <1>0, <4>3, <4>4 DEF ViewsUnique
    <3> QED
      BY <3>3, <3>4
  <2> QED
    BY <2>2, <2>3, <2>4
<1> QED
  BY <1>2, <1>3, <1>4, <1>5, Effects

LEMMA ViewsStayUnique ==
  ASSUME TypeInv, UniqueInv, NEW t \in Txns, Step(t)
  PROVE  ViewsUnique'
<1> SUFFICES ASSUME NEW u \in Txns, NEW r \in Rows, NEW s \in Clashes[r], IsLive(u, r)', IsLive(u, s)'
             PROVE  FALSE
  BY Zenon DEF ViewsUnique
<1>0. s \in Rows \ {r} /\ r \in Clashes[s]
  BY ClashesAreMutual
<1>1. ~(IsLive(u, r) /\ IsLive(u, s))
  BY DEF UniqueInv, ViewsUnique
<1>2. CASE UNCHANGED <<db, own>>
  BY <1>1, <1>2 DEF IsLive, Seen
<1>3. CASE Aborted(t)
  <2>1. u # t => FALSE
    BY <1>0, <1>1, <1>3 DEF Aborted, Leaves, IsLive, Seen
  <2>2. u = t => db[r] \in Live /\ db[s] \in Live
    BY <1>0, <1>3 DEF Aborted, Leaves, IsLive, Seen
  <2> QED
    BY <2>1, <2>2 DEF UniqueInv, UniqueKeysHold
<1>4. CASE Committed(t)
  <2>1. \A x \in Rows : IsLive(u, x)' => IF own[u][x] = "untouched" \/ u = t THEN IsLive(t, x) ELSE own[u][x] \in Live
    BY <1>4 DEF Committed, Leaves, IsLive, Seen
  <2>2. ~(IsLive(t, r) /\ IsLive(t, s))
    BY DEF UniqueInv, ViewsUnique
  <2>3. ASSUME NEW x \in Rows, NEW y \in Clashes[x], y \in Rows, u # t,
               own[u][x] \in Live, own[u][y] = "untouched", IsLive(t, y)
        PROVE  IsLive(u, x) /\ IsLive(u, y)
    <3>1. IsLive(u, x)
      BY <2>3 DEF IsLive, Seen, Live
    <3>2. CASE own[t][y] = "untouched"
      BY <2>3, <3>1, <3>2 DEF IsLive, Seen
    <3>3. CASE own[t][y] # "untouched"
      <4>1. own[t][y] \in Live
        BY <2>3, <3>3 DEF IsLive, Seen
      <4>2. x \in Clashes[y]
        BY <2>3, ClashesAreMutual
      <4>3. ~Fresh(t, y)
        BY <2>3, <4>2 DEF UniqueInv, FreshAlone, Live
      <4> QED
        BY <2>3, <3>1, <4>1, <4>3 DEF Fresh, IsLive, Seen
    <3> QED
      BY <3>2, <3>3
  <2>4. CASE u = t
    BY <1>0, <2>1, <2>2, <2>4
  <2>5. CASE u # t /\ own[u][r] = "untouched" /\ own[u][s] = "untouched"
    BY <1>0, <2>1, <2>2, <2>5
  <2>6. CASE u # t /\ own[u][r] # "untouched" /\ own[u][s] = "untouched"
    BY <1>0, <1>1, <2>1, <2>3, <2>6
  <2>7. CASE u # t /\ own[u][r] = "untouched" /\ own[u][s] # "untouched"
    BY <1>0, <1>1, <2>1, <2>3, <2>7
  <2>8. CASE u # t /\ own[u][r] # "untouched" /\ own[u][s] # "untouched"
    BY <1>0, <1>1, <2>1, <2>8 DEF IsLive, Seen
  <2> QED
    BY <2>4, <2>5, <2>6, <2>7, <2>8
<1>5. ASSUME NEW x \in Rows, NEW value \in {"live", "deleted", "detached"}, Writes(t, x, value),
             Inserted(t, x) \/ Removed(t, x) \/ Freed(t, x), Inserted(t, x) <=> value = "live"
      PROVE  FALSE
  <2>1. UNCHANGED db /\ \A w \in Txns : \A y \in Rows : own'[w][y] = IF w = t /\ y = x THEN value ELSE own[w][y]
    BY <1>5 DEF Writes
  <2>2. \A y \in Rows : ~(u = t /\ y = x) => (IsLive(u, y)' <=> IsLive(u, y))
    BY <2>1 DEF IsLive, Seen
  <2>3. CASE Inserted(t, x)
    <3>1. \A y \in Clashes[x] : ~IsLive(t, y)
      BY <2>3 DEF Inserted
    <3> QED
      BY <1>0, <1>1, <2>2, <3>1
  <2>4. CASE ~Inserted(t, x)
    <3>1. IsLive(t, x)
      BY <1>5, <2>4, WritersAlone DEF UniqueInv
    <3> QED
      BY <1>0, <1>1, <2>2, <3>1
  <2> QED
    BY <2>3, <2>4
<1> QED
  BY <1>2, <1>3, <1>4, <1>5, Effects

LEMMA KeysStayUnique ==
  ASSUME TypeInv, UniqueInv, NEW t \in Txns, Step(t)
  PROVE  UniqueKeysHold'
<1>1. CASE UNCHANGED db
  BY <1>1 DEF UniqueInv, UniqueKeysHold
<1>2. CASE Committed(t)
  <2>1. \A x \in Rows : db'[x] \in Live => IsLive(t, x)
    BY <1>2 DEF Committed, IsLive
  <2> QED
    BY <2>1, ClashesAreMutual DEF UniqueInv, ViewsUnique, UniqueKeysHold
<1>3. UNCHANGED db \/ Committed(t)
  BY Effects DEF Aborted, Writes
<1> QED
  BY <1>1, <1>2, <1>3

LEMMA StepKinds ==
  ASSUME TypeInv, NEW t \in Txns, Step(t)
  PROVE  \/ Called(t) \/ Passed(t) \/ Aborted(t) \/ Committed(t)
         \/ \E r \in Rows : \E k \in ForeignKeys : Checked(t, r, k)
         \/ \E r \in Rows : /\ Inserted(t, r) \/ Removed(t, r) \/ Freed(t, r)
                            /\ \E value \in {"live", "deleted", "detached"} :
                                 /\ Writes(t, r, value)
                                 /\ Inserted(t, r) <=> value = "live"
                                 /\ Removed(t, r) <=> value = "deleted"
<1>1. \A r \in Rows : /\ ~(Inserted(t, r) /\ (Removed(t, r) \/ Freed(t, r)))
                      /\ ~(Removed(t, r) /\ Freed(t, r))
  BY ItemFields DEF Inserted, Removed, Freed
<1>4. ASSUME NEW r \in Rows, Inserted(t, r) PROVE Writes(t, r, "live")
  BY <1>4 DEF Inserted
<1>5. ASSUME NEW r \in Rows, Removed(t, r) PROVE Writes(t, r, "deleted")
  BY <1>5 DEF Removed
<1>6. ASSUME NEW r \in Rows, Freed(t, r) PROVE Writes(t, r, "detached")
  BY <1>6 DEF Freed
<1> QED
  BY <1>1, <1>4, <1>5, <1>6 DEF Step

-----------------------------------------------------------------------------
(* Foreign keys *)

\* Nobody deletes a row that another transaction has locked for a foreign key.
ShareKeeps ==
  \A t \in Txns : \A u \in Txns : \A p \in Rows : t \in share[p] /\ own[u][p] = "deleted" => t = u

\* The rows a transaction has inserted are checked, or will be before it ends.
NewChecked ==
  \A t \in Txns : \A c \in Rows : \A k \in KeysOf[c] : \A p \in Rows :
    Fresh(t, c) /\ Referenced(c, k, own[t][c]) = p /\ Check(c, k) \notin Range(work[t]) =>
      t \in share[p] /\ (IsLive(t, p) \/ own[t][p] = "deleted")

\* What is left of the rows that name one a transaction has deleted, it will look at
\* before it ends.
DeletedEnforced ==
  \A t \in Txns : \A p \in Rows : \A k \in KeysTo[p] :
    own[t][p] = "deleted" /\ Enforcement(p, k) \notin Range(work[t]) =>
      \A c \in Children(t, p, k) : Check(c, k) \in Range(work[t])

ReferenceInv == ShareKeeps /\ NewChecked /\ DeletedEnforced /\ ReferencesHold

LEMMA ReferencedRows ==
  ASSUME NEW r \in Rows, NEW k \in KeysOf[r], NEW value
  PROVE  /\ k \in ForeignKeys /\ k.from = TableOf[r]
         /\ Referenced(r, k, value) \in Rows \cup {Null}
         /\ Referenced(r, k, value) # Null => /\ k \in KeysTo[Referenced(r, k, value)]
                                              /\ Referenced(r, k, value) = Referenced(r, k, "live")
                                              /\ Referenced(r, k, value) = ColumnsOf[r][k.column]
         /\ Referenced(r, k, "detached") # Null => Referenced(r, k, value) = Referenced(r, k, "detached")
<1>1. k \in ForeignKeys /\ k.from = TableOf[r]
  BY DEF KeysOf
<1>2. ColumnsOf[r][k.column] \in {s \in Rows : TableOf[s] = k.to} \cup {Null}
  BY ColumnsAssumption
<1>3. ColumnsOf[r][k.column] # Null => ColumnsOf[r][k.column] \in Rows /\ k \in KeysTo[ColumnsOf[r][k.column]]
  BY <1>1, <1>2 DEF KeysTo
<1> QED
  BY <1>1, <1>2, <1>3 DEF Referenced

\* A check or a demand that stands in the work is still there after the step, unless
\* it is the one the step was about.
LEMMA WorkKept ==
  ASSUME TypeInv, NEW t \in Txns, NEW items, Replaces(t, items), NEW i \in Range(work[t])
  PROVE  i \in Range(work'[t]) \/ (i = Next1(t) /\ i \notin items)
  BY DEF Replaces

LEMMA ItemsDiffer ==
  /\ \A r, k, s, j : Check(r, k) = Check(s, j) => r = s /\ k = j
  /\ \A r, k, s, j : Enforcement(r, k) = Enforcement(s, j) => r = s /\ k = j
  /\ \A r, k, s, j : Check(r, k) # Enforcement(s, j)
  /\ \A r, k, s : Check(r, k) # Insertion(s) /\ Enforcement(r, k) # Insertion(s)
<1>1. ASSUME NEW r, NEW k, NEW s, NEW j, Check(r, k) = Check(s, j) PROVE r = s /\ k = j
  BY <1>1 DEF Check, Item
<1>2. ASSUME NEW r, NEW k, NEW s, NEW j, Enforcement(r, k) = Enforcement(s, j) PROVE r = s /\ k = j
  BY <1>2 DEF Enforcement, Item
<1>3. ASSUME NEW r, NEW k, NEW s, NEW j PROVE Check(r, k) # Enforcement(s, j)
  BY ItemFields
<1>4. ASSUME NEW r, NEW k, NEW s PROVE Check(r, k) # Insertion(s) /\ Enforcement(r, k) # Insertion(s)
  BY ItemFields
<1> QED
  BY <1>1, <1>2, <1>3, <1>4, Zenon

LEMMA ShareStays ==
  ASSUME TypeInv, ShareKeeps, NEW t \in Txns, Step(t)
  PROVE  ShareKeeps'
<1> SUFFICES ASSUME NEW u \in Txns, NEW v \in Txns, NEW p \in Rows, u \in share'[p], own'[v][p] = "deleted"
             PROVE  u = v
  BY Zenon DEF ShareKeeps
<1>1. u \in share[p] /\ own[v][p] = "deleted" => u = v
  BY Zenon DEF ShareKeeps
<1>2. CASE UNCHANGED <<own, share>>
  BY <1>1, <1>2
<1>3. CASE Aborted(t) \/ Committed(t)
  BY <1>1, <1>3 DEF Aborted, Committed, Leaves
<1>4. ASSUME NEW r \in Rows, NEW k \in ForeignKeys, Checked(t, r, k) PROVE u = v
  <2>1. /\ own[v][p] = "deleted" /\ (u \in share[p] \/ (u = t /\ p = ParentOf(t)))
        /\ Deleters(t, ParentOf(t)) = {}
    BY <1>4 DEF Checked, TypeInv, TypeOK
  <2> QED
    BY <1>1, <2>1 DEF Deleters
<1>5. ASSUME NEW x \in Rows, Removed(t, x) PROVE u = v
  <2>1. /\ u \in share[p] /\ own'[v][p] = IF v = t /\ p = x THEN "deleted" ELSE own[v][p]
        /\ share[x] \ {t} = {}
    BY <1>5 DEF Removed, Writes, Holders
  <2> QED
    BY <1>1, <2>1
<1>6. ASSUME NEW x \in Rows, NEW value \in Live, Writes(t, x, value) PROVE u = v
  <2>1. u \in share[p] /\ own'[v][p] = IF v = t /\ p = x THEN value ELSE own[v][p]
    BY <1>6 DEF Writes
  <2> QED
    BY <1>1, <2>1 DEF Live
<1>7. \A x \in Rows : (Inserted(t, x) => Writes(t, x, "live")) /\ (Freed(t, x) => Writes(t, x, "detached"))
  BY DEF Inserted, Freed
<1>8. Called(t) \/ Passed(t) => UNCHANGED <<own, share>>
  BY DEF Called, Passed
<1> QED
  BY <1>2, <1>3, <1>4, <1>5, <1>6, <1>7, <1>8 DEF Step, Live

LEMMA NewStaysChecked ==
  ASSUME TypeInv, UniqueInv, ShareKeeps, NewChecked, NEW t \in Txns, Step(t)
  PROVE  NewChecked'
<1> SUFFICES ASSUME NEW u \in Txns, NEW c \in Rows, NEW k \in KeysOf[c], NEW p \in Rows, Fresh(u, c)',
                    Referenced(c, k, own'[u][c]) = p, Check(c, k) \notin Range(work'[u])
             PROVE  u \in share'[p] /\ (IsLive(u, p)' \/ own'[u][p] = "deleted")
  BY Zenon DEF NewChecked
<1>1. p # Null /\ p = Referenced(c, k, "live") /\ k \in ForeignKeys
  BY ReferencedRows, RowsAssumption
<1>2. ASSUME Fresh(u, c), Referenced(c, k, own[u][c]) = p, Check(c, k) \notin Range(work[u])
      PROVE  u \in share[p] /\ (IsLive(u, p) \/ own[u][p] = "deleted")
  BY <1>2, Zenon DEF NewChecked
<1>3. own'[u][c] = own[u][c] => Referenced(c, k, own[u][c]) = p
  OBVIOUS
<1>4. CASE Called(t)
  <2>1. Check(c, k) \notin Range(work[u])
    BY <1>4, EmptyRange DEF Called
  <2> QED
    BY <1>2, <1>3, <1>4, <2>1 DEF Called, Fresh, IsLive, Seen
<1>5. CASE Passed(t)
  <2>1. UNCHANGED <<db, own, share>>
    BY <1>5 DEF Passed
  <2>2. Check(c, k) \notin Range(work[u])
    <3>1. PICK items : Replaces(t, items)
      BY <1>5 DEF Passed
    <3>2. Next1(t) # Check(c, k)
      BY <1>5, ItemFields DEF Passed, Inserting
    <3>3. CASE u = t
      BY <3>1, <3>2, <3>3, WorkKept
    <3>4. CASE u # t
      BY <3>1, <3>4 DEF Replaces
    <3> QED
      BY <3>3, <3>4
  <2> QED
    BY <1>2, <1>3, <2>1, <2>2 DEF Fresh, IsLive, Seen
<1>6. ASSUME NEW r \in Rows, NEW j \in ForeignKeys, Checked(t, r, j)
      PROVE  u \in share'[p] /\ (IsLive(u, p)' \/ own'[u][p] = "deleted")
  <2>1. UNCHANGED <<db, own>> /\ Next1(t) = Check(r, j) /\ Replaces(t, {}) /\ IsLive(t, ParentOf(t))
        /\ share' = [share EXCEPT ![ParentOf(t)] = @ \cup {t}] /\ share \in [Rows -> SUBSET Txns]
    BY <1>6 DEF Checked, TypeInv, TypeOK
  <2>2. Fresh(u, c) /\ Referenced(c, k, own[u][c]) = p /\ Seen(u, c) = own[u][c]
    BY <1>3, <2>1 DEF Fresh, Seen, Live
  <2>3. CASE Check(c, k) \notin Range(work[u])
    <3>1. share[p] \subseteq share'[p]
      BY <1>1, <2>1
    <3> QED
      BY <1>2, <2>1, <2>2, <2>3, <3>1 DEF IsLive, Seen
  <2>4. CASE Check(c, k) \in Range(work[u])
    <3>1. u = t
      BY <2>1, <2>4 DEF Replaces
    <3>2. Check(c, k) = Check(r, j)
      BY <2>1, <2>4, <3>1, WorkKept
    <3>3. Next1(t).row = c /\ Next1(t).key = k
      BY <2>1, <3>2, ItemFields
    <3>4. ParentOf(t) = p
      BY <2>2, <3>1, <3>3 DEF ParentOf
    <3> QED
      BY <1>1, <2>1, <3>1, <3>4 DEF IsLive, Seen
  <2> QED
    BY <2>3, <2>4
<1>7. CASE Aborted(t)
  <2>1. u # t
    BY <1>7 DEF Aborted, Leaves, Fresh, Live
  <2> QED
    BY <1>1, <1>2, <1>3, <1>7, <2>1 DEF Aborted, Leaves, Fresh, IsLive, Seen
<1>8. CASE Committed(t)
  <2>1. u # t /\ own'[u][c] = own[u][c] /\ own[u][c] \in Live /\ own[u][c] # "untouched"
    BY <1>8 DEF Committed, Leaves, Fresh, Live
  <2>2. db'[c] = db[c]
    BY <1>8, <2>1 DEF UniqueInv, OneWriter, Committed, Seen
  <2>3. u \in share[p] /\ (IsLive(u, p) \/ own[u][p] = "deleted")
    BY <1>2, <1>3, <1>8, <2>1, <2>2 DEF Fresh, Committed, Leaves
  <2>4. own[t][p] # "deleted"
    BY <1>1, <2>1, <2>3 DEF ShareKeeps
  <2>5. u \in share'[p] /\ own'[u][p] = own[u][p] /\ db'[p] = Seen(t, p)
    BY <1>1, <1>8, <2>1, <2>3 DEF Committed, Leaves
  <2>6. own[t][p] \in Live \cup {"untouched", "deleted"}
    BY <1>1 DEF TypeInv, TypeOK
  <2> QED
    BY <2>3, <2>4, <2>5, <2>6 DEF IsLive, Seen
<1>9. ASSUME NEW x \in Rows, NEW value \in {"live", "deleted", "detached"}, Writes(t, x, value),
             Inserted(t, x) \/ Removed(t, x) \/ Freed(t, x), Inserted(t, x) <=> value = "live"
      PROVE  u \in share'[p] /\ (IsLive(u, p)' \/ own'[u][p] = "deleted")
  <2>1. UNCHANGED <<db, share>> /\ \A w \in Txns : \A y \in Rows : own'[w][y] = IF w = t /\ y = x THEN value ELSE own[w][y]
    BY <1>9 DEF Writes
  <2>2. Fresh(u, c) /\ Referenced(c, k, own[u][c]) = p
    <3>1. CASE ~(u = t /\ c = x)
      BY <1>3, <2>1, <3>1 DEF Fresh
    <3>2. CASE u = t /\ c = x /\ Inserted(t, x)
      <4>1. Check(c, k) \in ChecksSet(x)
        BY <1>1, <3>2 DEF ChecksSet
      <4> QED
        BY <3>2, <4>1 DEF Inserted, Replaces
    <3>3. CASE u = t /\ c = x /\ ~Inserted(t, x)
      <4>1. own'[u][c] = "detached" /\ db[c] \notin Live
        BY <1>9, <2>1, <3>3 DEF Fresh, Live
      <4>2. IsLive(u, c)
        BY <1>9, <3>3, WritersAlone DEF UniqueInv
      <4>3. Referenced(c, k, own[u][c]) = p
        BY <1>1, <4>1, ReferencedRows
      <4> QED
        BY <4>1, <4>2, <4>3 DEF IsLive, Seen, Fresh
    <3> QED
      BY <3>1, <3>2, <3>3
  <2>3. Check(c, k) \notin Range(work[u])
    <3>1. \E items : Replaces(t, items)
      BY <1>9 DEF Inserted, Removed, Freed
    <3>2. Next1(t).does # "check"
      BY <1>9, ItemFields DEF Inserted, Removed, Freed
    <3>3. Next1(t) # Check(c, k)
      BY <3>2, ItemFields
    <3>4. CASE u = t
      BY <3>1, <3>3, <3>4, WorkKept
    <3>5. CASE u # t
      BY <3>1, <3>5 DEF Replaces
    <3> QED
      BY <3>4, <3>5
  <2>4. u \in share[p] /\ (IsLive(u, p) \/ own[u][p] = "deleted")
    BY <1>2, <2>2, <2>3
  <2> QED
    BY <1>1, <2>1, <2>4 DEF IsLive, Seen, Live
<1> QED
  BY <1>4, <1>5, <1>6, <1>7, <1>8, <1>9, StepKinds

LEMMA DeletedStaysEnforced ==
  ASSUME TypeInv, UniqueInv, ShareKeeps, NewChecked, DeletedEnforced, NEW t \in Txns, Step(t)
  PROVE  DeletedEnforced'
<1> SUFFICES ASSUME NEW u \in Txns, NEW p \in Rows, NEW k \in KeysTo[p], own'[u][p] = "deleted",
                    NEW c \in Rows, k \in KeysOf[c], IsLive(u, c)', Referenced(c, k, Seen(u, c)') = p,
                    Check(c, k) \notin Range(work'[u])
             PROVE  Enforcement(p, k) \in Range(work'[u])
  BY Zenon DEF DeletedEnforced, Children
<1>1. p # Null /\ p = Referenced(c, k, "live") /\ k \in ForeignKeys
  BY ReferencedRows, RowsAssumption
<1>2. ASSUME own[u][p] = "deleted", IsLive(u, c), Referenced(c, k, Seen(u, c)) = p
      PROVE  Enforcement(p, k) \in Range(work[u]) \/ Check(c, k) \in Range(work[u])
  <2>1. c \in Children(u, p, k)
    BY <1>2, Zenon DEF Children
  <2> QED
    BY <1>2, <2>1, Zenon DEF DeletedEnforced
<1>3. CASE Called(t)
  <2>1. Enforcement(p, k) \in Range(work[u]) \/ Check(c, k) \in Range(work[u])
    BY <1>2, <1>3 DEF Called, IsLive, Seen
  <2> QED
    BY <1>3, <2>1, EmptyRange DEF Called
<1>4. CASE Passed(t)
  <2>1. UNCHANGED <<db, own>>
    BY <1>4 DEF Passed
  <2>2. IsLive(u, c) /\ Referenced(c, k, Seen(u, c)) = p
    BY <2>1 DEF IsLive, Seen
  <2>3. Enforcement(p, k) \in Range(work[u]) \/ Check(c, k) \in Range(work[u])
    BY <1>2, <2>1, <2>2
  <2>4. PICK items : Replaces(t, items)
    BY <1>4 DEF Passed
  <2>5. Next1(t) # Check(c, k)
    BY <1>4, ItemFields DEF Passed, Inserting
  <2>6. u = t => Next1(t) # Enforcement(p, k)
    <3> SUFFICES ASSUME u = t, Next1(t) = Enforcement(p, k) PROVE FALSE
      OBVIOUS
    <3>1. Children(t, p, k) = {}
      BY <1>4, ItemFields DEF Passed
    <3> QED
      BY <2>2, <3>1 DEF Children
  <2>7. CASE u = t
    BY <2>3, <2>4, <2>5, <2>6, <2>7, WorkKept
  <2>8. CASE u # t
    BY <2>3, <2>4, <2>8 DEF Replaces
  <2> QED
    BY <2>7, <2>8
<1>5. ASSUME NEW r \in Rows, NEW j \in ForeignKeys, Checked(t, r, j)
      PROVE  Enforcement(p, k) \in Range(work'[u])
  <2>1. UNCHANGED <<db, own>> /\ Next1(t) = Check(r, j) /\ Replaces(t, {}) /\ IsLive(t, ParentOf(t))
    BY <1>5 DEF Checked
  <2>2. IsLive(u, c) /\ Referenced(c, k, Seen(u, c)) = p /\ own[u][p] = "deleted"
    BY <2>1 DEF IsLive, Seen
  <2>3. Enforcement(p, k) \in Range(work[u]) \/ Check(c, k) \in Range(work[u])
    BY <1>2, <2>2
  <2>4. u = t => Next1(t) # Check(c, k)
    <3> SUFFICES ASSUME u = t, Next1(t) = Check(c, k) PROVE FALSE
      OBVIOUS
    <3>1. ParentOf(t) = p
      BY <2>2, ItemFields DEF ParentOf
    <3> QED
      BY <2>1, <2>2, <3>1 DEF IsLive, Seen, Live
  <2>5. Next1(t) # Enforcement(p, k)
    BY <2>1, ItemsDiffer
  <2>6. CASE u = t
    BY <2>1, <2>3, <2>4, <2>5, <2>6, WorkKept
  <2>7. CASE u # t
    BY <2>1, <2>3, <2>7 DEF Replaces
  <2> QED
    BY <2>6, <2>7
<1>6. CASE Aborted(t)
  <2>1. u # t
    BY <1>6 DEF Aborted, Leaves
  <2>2. Enforcement(p, k) \in Range(work[u]) \/ Check(c, k) \in Range(work[u])
    BY <1>2, <1>6, <2>1 DEF Aborted, Leaves, IsLive, Seen
  <2> QED
    BY <1>6, <2>1, <2>2 DEF Aborted, Leaves
<1>7. CASE Committed(t)
  <2>1. u # t /\ own[u][p] = "deleted" /\ own'[u][c] = own[u][c] /\ work'[u] = work[u] /\ db'[c] = Seen(t, c)
    BY <1>7 DEF Committed, Leaves
  <2>2. IsLive(u, c) /\ Referenced(c, k, Seen(u, c)) = p
    <3>1. CASE own[u][c] # "untouched"
      BY <2>1, <3>1 DEF IsLive, Seen
    <3>2. CASE own[u][c] = "untouched"
      <4>1. Seen(t, c) \in Live /\ Referenced(c, k, Seen(t, c)) = p
        BY <2>1, <3>2 DEF IsLive, Seen
      <4>2. CASE own[t][c] = "untouched"
        BY <3>2, <4>1, <4>2 DEF IsLive, Seen
      <4>3. CASE own[t][c] # "untouched" /\ db[c] \in Live
        <5>1. own[t][c] = "detached"
          BY <4>1, <4>3 DEF UniqueInv, InsertedIsNew, Seen, Live
        <5>2. Referenced(c, k, "detached") = p
          BY <4>1, <5>1 DEF Seen
        <5>3. Referenced(c, k, db[c]) = p
          BY <1>1, <5>2, ReferencedRows
        <5> QED
          BY <3>2, <4>3, <5>3 DEF IsLive, Seen
      <4>4. CASE own[t][c] # "untouched" /\ db[c] \notin Live
        <5>1. Fresh(t, c) /\ Referenced(c, k, own[t][c]) = p
          BY <4>1, <4>4 DEF Fresh, Seen
        <5>2. Check(c, k) \notin Range(work[t])
          BY <1>7, EmptyRange DEF Committed
        <5>3. t \in share[p]
          BY <5>1, <5>2 DEF NewChecked
        <5>4. t = u
          BY <2>1, <5>3 DEF ShareKeeps
        <5> QED
          BY <2>1, <5>4
      <4> QED
        BY <4>2, <4>3, <4>4
    <3> QED
      BY <3>1, <3>2
  <2> QED
    BY <1>2, <2>1, <2>2
<1>8. ASSUME NEW x \in Rows, NEW value \in {"live", "deleted", "detached"}, Writes(t, x, value),
             Inserted(t, x) \/ Removed(t, x) \/ Freed(t, x), Inserted(t, x) <=> value = "live",
             Removed(t, x) <=> value = "deleted"
      PROVE  Enforcement(p, k) \in Range(work'[u])
  <2>1. UNCHANGED db /\ \A w \in Txns : \A y \in Rows : own'[w][y] = IF w = t /\ y = x THEN value ELSE own[w][y]
    BY <1>8 DEF Writes
  <2>2. PICK items : Replaces(t, items)
    BY <1>8 DEF Inserted, Removed, Freed
  <2>3. CASE u # t
    <3>1. Seen(u, c)' = Seen(u, c) /\ IsLive(u, c) /\ own[u][p] = "deleted"
      BY <2>1, <2>3 DEF IsLive, Seen
    <3>2. work'[u] = work[u]
      BY <2>2, <2>3 DEF Replaces
    <3> QED
      BY <1>2, <3>1, <3>2
  <2>4. CASE u = t /\ p = x
    <3>1. Removed(t, x)
      BY <1>8, <2>1, <2>4
    <3>2. Enforcement(p, k) \in EnforcementsSet(x)
      BY <2>4 DEF EnforcementsSet
    <3> QED
      BY <2>4, <3>1, <3>2 DEF Removed, Replaces
  <2>5. CASE u = t /\ p # x
    <3>1. own[t][p] = "deleted"
      BY <2>1, <2>5
    <3>2. IsLive(t, c) /\ Referenced(c, k, Seen(t, c)) = p
      <4>1. CASE c # x
        BY <2>1, <2>5, <4>1 DEF IsLive, Seen
      <4>2. CASE c = x /\ Inserted(t, x)
        <5>1. Check(c, k) \in ChecksSet(x)
          BY <1>1, <4>2 DEF ChecksSet
        <5> QED
          BY <2>5, <4>2, <5>1 DEF Inserted, Replaces
      <4>3. CASE c = x /\ ~Inserted(t, x)
        <5>1. own'[t][c] = value /\ value # "live"
          BY <1>8, <2>1, <4>3
        <5>2. value = "detached" /\ Seen(t, c)' = "detached"
          BY <1>8, <2>5, <5>1 DEF IsLive, Seen, Live
        <5>3. Referenced(c, k, Seen(t, c)) = p
          BY <1>1, <2>5, <5>2, ReferencedRows
        <5> QED
          BY <1>8, <4>3, <5>3, WritersAlone DEF UniqueInv
      <4> QED
        BY <4>1, <4>2, <4>3
    <3>3. Enforcement(p, k) \in Range(work[t]) \/ Check(c, k) \in Range(work[t])
      BY <1>2, <2>5, <3>1, <3>2
    <3>4. Next1(t).does # "check"
      BY <1>8, ItemFields DEF Inserted, Removed, Freed
    <3>5. Next1(t) # Check(c, k)
      BY <3>4, ItemFields
    <3>6. Enforcement(p, k) \in Range(work[t])
      BY <2>2, <2>5, <3>3, <3>5, WorkKept
    <3>7. PICK kept : Replaces(t, kept) /\ (Next1(t).does = "enforce" => Next1(t) \in kept)
      <4>1. CASE Inserted(t, x)
        BY <4>1, ItemFields DEF Inserted
      <4>2. CASE Removed(t, x)
        BY <4>2 DEF Removed
      <4>3. CASE Freed(t, x)
        BY <4>3 DEF Freed
      <4> QED
        BY <1>8, <4>1, <4>2, <4>3
    <3>8. Next1(t) = Enforcement(p, k) => Next1(t) \in kept
      BY <3>7, ItemFields
    <3> QED
      BY <2>5, <3>6, <3>7, <3>8, WorkKept
  <2> QED
    BY <2>3, <2>4, <2>5
<1> QED
  BY <1>3, <1>4, <1>5, <1>6, <1>7, <1>8, StepKinds

LEMMA ReferencesStay ==
  ASSUME TypeInv, UniqueInv, ReferenceInv, NEW t \in Txns, Step(t)
  PROVE  ReferencesHold'
<1>1. CASE UNCHANGED db
  BY <1>1 DEF ReferenceInv, ReferencesHold
<1>2. CASE Committed(t)
  <2> SUFFICES ASSUME NEW c \in Rows, db'[c] \in Live, NEW k \in KeysOf[c], NEW p,
                      Referenced(c, k, db'[c]) = p, p # Null
               PROVE  db'[p] \in Live
    BY Zenon DEF ReferencesHold
  <2>1. p \in Rows /\ k \in KeysTo[p] /\ k \in ForeignKeys
    BY ReferencedRows
  <2>2. db'[c] = Seen(t, c) /\ db'[p] = Seen(t, p) /\ work[t] = << >>
    BY <1>2, <2>1 DEF Committed
  <2>3. Enforcement(p, k) \notin Range(work[t]) /\ Check(c, k) \notin Range(work[t])
    BY <2>2, EmptyRange
  <2>4. own[t][p] # "deleted"
    <3> SUFFICES ASSUME own[t][p] = "deleted" PROVE FALSE
      OBVIOUS
    <3>1. c \in Children(t, p, k)
      BY <2>2 DEF Children, IsLive
    <3> QED
      BY <2>1, <2>3, <3>1 DEF ReferenceInv, DeletedEnforced
  <2>5. own[t][p] \in Live \cup {"untouched", "deleted"}
    BY <2>1 DEF TypeInv, TypeOK
  <2>6. CASE own[t][p] \in Live
    BY <2>2, <2>6 DEF Seen, Live
  <2>7. CASE own[t][p] = "untouched" /\ Fresh(t, c)
    <3>1. Referenced(c, k, own[t][c]) = p
      BY <2>2, <2>7 DEF Fresh, Seen, Live
    <3>2. IsLive(t, p)
      BY <2>1, <2>3, <2>4, <2>7, <3>1, Zenon DEF ReferenceInv, NewChecked
    <3> QED
      BY <2>2, <3>2 DEF IsLive
  <2>8. CASE own[t][p] = "untouched" /\ ~Fresh(t, c)
    <3>1. db[c] \in Live /\ Referenced(c, k, db[c]) = p
      <4>1. CASE own[t][c] = "untouched"
        BY <2>2, <4>1 DEF Seen
      <4>2. CASE own[t][c] # "untouched"
        <5>1. own[t][c] \in Live /\ db[c] \in Live
          BY <2>2, <2>8, <4>2 DEF Seen, Fresh
        <5>2. own[t][c] = "detached"
          BY <5>1 DEF UniqueInv, InsertedIsNew, Live
        <5>3. Referenced(c, k, "detached") = p
          BY <2>2, <5>2 DEF Seen
        <5> QED
          BY <5>1, <5>3, ReferencedRows
      <4> QED
        BY <4>1, <4>2
    <3>2. db[p] \in Live
      BY <3>1 DEF ReferenceInv, ReferencesHold
    <3> QED
      BY <2>2, <2>8, <3>2 DEF Seen
  <2> QED
    BY <2>4, <2>5, <2>6, <2>7, <2>8
<1>3. UNCHANGED db \/ Committed(t)
  BY Effects DEF Aborted, Writes
<1> QED
  BY <1>1, <1>2, <1>3

RefInv == TypeInv /\ UniqueInv /\ ReferenceInv

LEMMA InvAtStart ==
  ASSUME Init
  PROVE  RefInv
<1>1. TypeInv
  BY TypesAtStart
<1>2. /\ \A t \in Txns : \A r \in Rows : own[t][r] = "untouched"
      /\ \A t \in Txns : Pending(t) = {}
      /\ \A r \in Rows : db[r] = "live" <=> r \in Initial
      /\ \A r \in Rows : db[r] \in Live <=> r \in Initial
  BY EmptyRange DEF Init, Pending, Live
<1>3. \A r \in Initial : Clashes[r] \cap Initial = {}
  BY InitialAssumption
<1>4. UniqueInv
  BY <1>2, <1>3, ClashesAreMutual
  DEF UniqueInv, PendingAlone, OneWriter, InsertedIsNew, FreshAlone, Fresh, ViewsUnique, UniqueKeysHold, IsLive, Seen, Live
<1>5. ReferencesHold
  <2> SUFFICES ASSUME NEW r \in Rows, db[r] \in Live, NEW k \in KeysOf[r], Referenced(r, k, db[r]) # Null
               PROVE  db[Referenced(r, k, db[r])] \in Live
    BY Zenon DEF ReferencesHold
  <2>1. r \in Initial /\ Referenced(r, k, db[r]) = ColumnsOf[r][k.column] /\ Referenced(r, k, db[r]) \in Rows
    BY <1>2, ReferencedRows
  <2>2. Referenced(r, k, db[r]) \in Initial
    BY <2>1, InitialAssumption
  <2> QED
    BY <1>2, <2>1, <2>2
<1>6. ShareKeeps /\ NewChecked /\ DeletedEnforced
  BY <1>2 DEF ShareKeeps, NewChecked, DeletedEnforced, Fresh, Live
<1> QED
  BY <1>1, <1>4, <1>5, <1>6 DEF RefInv, ReferenceInv

LEMMA InvStays ==
  ASSUME RefInv, [Next]_vars
  PROVE  RefInv'
<1>1. CASE UNCHANGED vars
  <2>1. db' = db /\ own' = own /\ share' = share /\ work' = work /\ calls' = calls
    BY <1>1 DEF vars
  <2>2. TypeInv'
    BY <2>1 DEF RefInv, TypeInv, TypeOK, WorkOK
  <2>3. PendingAlone' /\ OneWriter' /\ InsertedIsNew'
    BY <2>1 DEF RefInv, UniqueInv, PendingAlone, Pending, OneWriter, InsertedIsNew
  <2>4. FreshAlone' /\ ViewsUnique' /\ UniqueKeysHold'
    BY <2>1 DEF RefInv, UniqueInv, FreshAlone, Fresh, ViewsUnique, UniqueKeysHold, IsLive, Seen
  <2>5. ShareKeeps' /\ ReferencesHold'
    BY <2>1 DEF RefInv, ReferenceInv, ShareKeeps, ReferencesHold
  <2>6. NewChecked'
    BY <2>1 DEF RefInv, ReferenceInv, NewChecked, Fresh, IsLive, Seen
  <2>7. DeletedEnforced'
    BY <2>1 DEF RefInv, ReferenceInv, DeletedEnforced, Children, IsLive, Seen
  <2> QED
    BY <2>2, <2>3, <2>4, <2>5, <2>6, <2>7 DEF RefInv, UniqueInv, ReferenceInv
<1>2. CASE Next
  <2>1. TypeInv /\ UniqueInv /\ ReferenceInv
    BY DEF RefInv
  <2>2. PICK t \in Txns : Step(t)
    BY <1>2, <2>1, NextSteps
  <2>3. TypeInv'
    BY <1>2, <2>1, TypesStay
  <2>4. UniqueKeysHold' /\ ViewsUnique'
    BY <2>1, <2>2, KeysStayUnique, ViewsStayUnique
  <2>5. PendingAlone' /\ OneWriter' /\ InsertedIsNew' /\ FreshAlone'
    BY <2>1, <2>2, PendingStaysAlone, OneWriterStays, InsertedStaysNew, FreshStaysAlone DEF UniqueInv
  <2>6. ShareKeeps' /\ NewChecked' /\ DeletedEnforced' /\ ReferencesHold'
    BY <2>1, <2>2, ShareStays, NewStaysChecked, DeletedStaysEnforced, ReferencesStay DEF ReferenceInv
  <2> QED
    BY <2>3, <2>4, <2>5, <2>6 DEF RefInv, UniqueInv, ReferenceInv
<1> QED
  BY <1>1, <1>2

\* Unique keys hold for what is committed: each transaction sees them kept, and what
\* it inserts nobody else can clash with until it has ended.
THEOREM KeysAreUnique == Spec => []UniqueKeysHold
<1>1. RefInv => UniqueKeysHold
  BY DEF RefInv, UniqueInv
<1> QED
  BY <1>1, InvAtStart, InvStays, PTL DEF Spec

\* The foreign keys of what is committed hold: a transaction looks at the rows above
\* what it inserts and below what it deletes, and its locks keep both as it saw them.
THEOREM ReferencesAreKept == Spec => []ReferencesHold
<1>1. RefInv => ReferencesHold
  BY DEF RefInv, ReferenceInv
<1> QED
  BY <1>1, InvAtStart, InvStays, PTL DEF Spec

-----------------------------------------------------------------------------
(* Evidence *)

EnforcedIsDeleted ==
  \A t \in Txns : \A p \in Rows : \A k \in ForeignKeys : Enforcement(p, k) \in Range(work[t]) => own[t][p] = "deleted"

\* Only a trace is set free, and only when its conversation goes.
DetachedWithConversation ==
  \A t \in Txns : \A r \in Rows : own[t][r] = "detached" =>
    ColumnsOf[r].conversation_id \in Rows /\ own[t][ColumnsOf[r].conversation_id] = "deleted"

\* Nothing deletes a trace, and a link goes with its chunk.
LinksGoWithChunks ==
  \A t \in Txns : \A r \in Rows : own[t][r] = "deleted" =>
    /\ TableOf[r] # "retrieval_trace"
    /\ TableOf[r] = "retrieval_trace_chunk" =>
         ColumnsOf[r].chunk_id \in Rows /\ own[t][ColumnsOf[r].chunk_id] = "deleted"

EvidenceInv == EnforcedIsDeleted /\ DetachedWithConversation /\ LinksGoWithChunks

\* What a transaction has deleted stays deleted until it ends.
LEMMA DeletedStays ==
  ASSUME TypeInv, UniqueInv, NEW t \in Txns, Step(t), ~Leaves(t)
  PROVE  /\ \A u \in Txns : \A r \in Rows : own[u][r] = "deleted" => own'[u][r] = "deleted"
         /\ db' = db
<1>1. CASE UNCHANGED <<db, own>>
  BY <1>1
<1>2. ASSUME NEW x \in Rows, NEW value, Writes(t, x, value), Inserted(t, x) \/ Removed(t, x) \/ Freed(t, x),
             NEW u \in Txns, NEW r \in Rows, own[u][r] = "deleted"
      PROVE  own'[u][r] = "deleted"
  <2>1. own'[u][r] = IF u = t /\ r = x THEN value ELSE own[u][r]
    BY <1>2 DEF Writes
  <2>2. ~(u = t /\ r = x)
    <3> SUFFICES ASSUME u = t, r = x PROVE FALSE
      OBVIOUS
    <3>1. CASE Inserted(t, x)
      BY <1>2, <3>1, PendingSteps DEF UniqueInv, PendingAlone
    <3>2. CASE ~Inserted(t, x)
      BY <1>2, <3>2, WritersAlone DEF UniqueInv, IsLive, Seen, Live
    <3> QED
      BY <3>1, <3>2
  <2> QED
    BY <1>2, <2>1, <2>2
<1>3. \A x \in Rows : \A value : Writes(t, x, value) => db' = db
  BY DEF Writes
<1> QED
  BY <1>1, <1>2, <1>3, Effects DEF Aborted, Committed

LEMMA EnforcedStaysDeleted ==
  ASSUME TypeInv, UniqueInv, EnforcedIsDeleted, NEW t \in Txns, Step(t)
  PROVE  EnforcedIsDeleted'
<1> SUFFICES ASSUME NEW u \in Txns, NEW p \in Rows, NEW k \in ForeignKeys, Enforcement(p, k) \in Range(work'[u])
             PROVE  own'[u][p] = "deleted"
  BY Zenon DEF EnforcedIsDeleted
<1>1. Enforcement(p, k) \in Range(work[u]) => own[u][p] = "deleted"
  BY Zenon DEF EnforcedIsDeleted
<1>2. CASE Leaves(t)
  BY <1>1, <1>2, EmptyRange DEF Leaves
<1>3. CASE ~Leaves(t) /\ Enforcement(p, k) \in Range(work[u])
  BY <1>1, <1>3, DeletedStays
<1>4. CASE ~Leaves(t) /\ Enforcement(p, k) \notin Range(work[u])
  <2>1. u = t
    BY <1>4 DEF Step, Called, Passed, Aborted, Committed, Inserted, Removed, Freed, Checked, Replaces
  <2>2. ~Called(t)
    <3> SUFFICES ASSUME Called(t) PROVE FALSE
      OBVIOUS
    <3>1. Enforcement(p, k) # Insertion(Enforcement(p, k).row) /\ Enforcement(p, k).does = "enforce"
      BY ItemsDiffer, ItemFields
    <3> QED
      BY <2>1, <3>1 DEF Called
  <2>3. ~Passed(t)
    <3> SUFFICES ASSUME Passed(t) PROVE FALSE
      OBVIOUS
    <3>1. PICK items \in SUBSET {Item("delete", Next1(t).row, Null)} : Replaces(t, items)
      BY DEF Passed
    <3>2. Enforcement(p, k) \notin items
      BY <3>1, ItemFields
    <3> QED
      BY <1>4, <2>1, <3>1, <3>2 DEF Replaces
  <2>4. \A r \in Rows, j \in ForeignKeys : ~Checked(t, r, j)
    BY <1>4, <2>1 DEF Checked, Replaces
  <2>5. \A r \in Rows : ~Inserted(t, r) /\ ~Freed(t, r)
    <3>1. \A r \in Rows : Enforcement(p, k) \notin ChecksSet(r)
      BY ItemsDiffer DEF ChecksSet
    <3> QED
      BY <1>4, <2>1, <3>1 DEF Inserted, Freed, Replaces
  <2>6. PICK r \in Rows : Removed(t, r)
    BY <1>4, <2>2, <2>3, <2>4, <2>5 DEF Step, Aborted, Committed
  <2>7. Enforcement(p, k) \in EnforcementsSet(r)
    BY <1>4, <2>1, <2>6 DEF Removed, Replaces
  <2>8. p = r
    BY <2>7, ItemFields DEF EnforcementsSet
  <2> QED
    BY <2>1, <2>6, <2>8 DEF Removed, Writes
<1> QED
  BY <1>2, <1>3, <1>4

\* The row that a deletion reaches from above.
LEMMA ReachedFrom ==
  ASSUME TypeInv, EnforcedIsDeleted, NEW t \in Txns, NEW r \in Rows, NEW items, Replaces(t, items),
         Next1(t).does = "enforce", r \in Children(t, Next1(t).row, Next1(t).key)
  PROVE  /\ Next1(t).key \in KeysOf[r] /\ Next1(t).key \in ForeignKeys /\ Next1(t).key.from = TableOf[r]
         /\ ColumnsOf[r][Next1(t).key.column] = Next1(t).row /\ Next1(t).row \in Rows
         /\ own[t][Next1(t).row] = "deleted" /\ Next1(t).key.to = TableOf[Next1(t).row]
<1> DEFINE k == Next1(t).key
           p == Next1(t).row
<1>1. Next1(t) \in Items /\ Next1(t) \in Range(work[t])
  BY DEF Replaces
<1>2. p \in Rows /\ k \in KeysTo[p] /\ Next1(t) = Enforcement(p, k)
  <2>1. p \in Rows /\ Next1(t) = Enforcement(p, k)
    BY <1>1 DEF Items, Enforcement, Item
  <2>2. k \in KeysTo[p]
    BY <1>1 DEF TypeInv, WorkOK
  <2> QED
    BY <2>1, <2>2
<1>3. k \in ForeignKeys /\ k.to = TableOf[p]
  BY <1>2 DEF KeysTo
<1>4. k \in KeysOf[r] /\ Referenced(r, k, Seen(t, r)) = p
  BY DEF Children
<1>5. p # Null
  BY <1>2, RowsAssumption
<1>6. k.from = TableOf[r] /\ ColumnsOf[r][k.column] = p
  BY <1>4, <1>5, ReferencedRows
<1>7. own[t][p] = "deleted"
  BY <1>1, <1>2, <1>3 DEF EnforcedIsDeleted
<1> QED
  BY <1>2, <1>3, <1>4, <1>6, <1>7

LEMMA DetachedStays ==
  ASSUME TypeInv, UniqueInv, EnforcedIsDeleted, DetachedWithConversation, NEW t \in Txns, Step(t)
  PROVE  DetachedWithConversation'
<1> SUFFICES ASSUME NEW u \in Txns, NEW r \in Rows, own'[u][r] = "detached"
             PROVE  ColumnsOf[r].conversation_id \in Rows /\ own'[u][ColumnsOf[r].conversation_id] = "deleted"
  BY Zenon DEF DetachedWithConversation
<1>1. own[u][r] = "detached" => ColumnsOf[r].conversation_id \in Rows /\ own[u][ColumnsOf[r].conversation_id] = "deleted"
  BY Zenon DEF DetachedWithConversation
<1>2. CASE Leaves(t)
  BY <1>1, <1>2 DEF Leaves
<1>3. CASE ~Leaves(t) /\ own[u][r] = "detached"
  BY <1>1, <1>3, DeletedStays
<1>4. CASE ~Leaves(t) /\ own[u][r] # "detached"
  <2>1. u = t /\ Freed(t, r)
    <3>1. PICK x \in Rows, value \in {"live", "deleted", "detached"} :
            /\ Inserted(t, x) \/ Removed(t, x) \/ Freed(t, x)
            /\ Writes(t, x, value) /\ (Inserted(t, x) <=> value = "live") /\ (Removed(t, x) <=> value = "deleted")
      BY <1>4, StepKinds DEF Called, Passed, Aborted, Committed, Checked
    <3>2. u = t /\ r = x /\ value = "detached"
      BY <1>4, <3>1 DEF Writes
    <3> QED
      BY <3>1, <3>2
  <2>2. /\ Next1(t).does = "enforce" /\ r \in Children(t, Next1(t).row, Next1(t).key) /\ Replaces(t, {Next1(t)})
        /\ Next1(t).key.rule = "set null"
    BY <2>1 DEF Freed
  <2>3. /\ Next1(t).key \in ForeignKeys /\ ColumnsOf[r][Next1(t).key.column] = Next1(t).row
        /\ Next1(t).row \in Rows /\ own[t][Next1(t).row] = "deleted"
    BY <2>2, ReachedFrom
  <2>4. Next1(t).key.column = "conversation_id"
    BY <2>2, <2>3, TraceRules
  <2>5. ColumnsOf[r].conversation_id = Next1(t).row
    BY <2>3, <2>4
  <2> QED
    BY <1>4, <2>1, <2>3, <2>5, DeletedStays
<1> QED
  BY <1>2, <1>3, <1>4

LEMMA LinksStay ==
  ASSUME TypeInv, UniqueInv, EnforcedIsDeleted, LinksGoWithChunks, NEW t \in Txns, Step(t)
  PROVE  LinksGoWithChunks'
<1> SUFFICES ASSUME NEW u \in Txns, NEW r \in Rows, own'[u][r] = "deleted"
             PROVE  /\ TableOf[r] # "retrieval_trace"
                    /\ TableOf[r] = "retrieval_trace_chunk" =>
                         ColumnsOf[r].chunk_id \in Rows /\ own'[u][ColumnsOf[r].chunk_id] = "deleted"
  BY Zenon DEF LinksGoWithChunks
<1>1. own[u][r] = "deleted" =>
        /\ TableOf[r] # "retrieval_trace"
        /\ TableOf[r] = "retrieval_trace_chunk" =>
             ColumnsOf[r].chunk_id \in Rows /\ own[u][ColumnsOf[r].chunk_id] = "deleted"
  BY Zenon DEF LinksGoWithChunks
<1>2. CASE Leaves(t)
  BY <1>1, <1>2 DEF Leaves
<1>3. CASE ~Leaves(t) /\ own[u][r] = "deleted"
  BY <1>1, <1>3, DeletedStays
<1>4. CASE ~Leaves(t) /\ own[u][r] # "deleted"
  <2>1. u = t /\ Removed(t, r)
    <3>1. PICK x \in Rows, value \in {"live", "deleted", "detached"} :
            Writes(t, x, value) /\ (Removed(t, x) <=> value = "deleted")
      BY <1>4, StepKinds DEF Called, Passed, Aborted, Committed, Checked
    <3>2. u = t /\ r = x /\ value = "deleted"
      BY <1>4, <3>1 DEF Writes
    <3> QED
      BY <3>1, <3>2
  <2>2. CASE Next1(t).does = "delete" /\ r = Next1(t).row
    <3>1. Next1(t) \in Range(work[t])
      BY <2>1 DEF Removed, Replaces
    <3>2. TableOf[r] \in {"source_document", "widget", "conversation"}
      BY <2>2, <3>1 DEF TypeInv, WorkOK
    <3> QED
      BY <3>2
  <2>3. CASE /\ Next1(t).does = "enforce" /\ Next1(t).key.rule = "cascade"
             /\ r \in Children(t, Next1(t).row, Next1(t).key)
    <3>1. /\ Next1(t).key \in ForeignKeys /\ ColumnsOf[r][Next1(t).key.column] = Next1(t).row
          /\ Next1(t).row \in Rows /\ own[t][Next1(t).row] = "deleted"
          /\ Next1(t).key.from = TableOf[r] /\ Next1(t).key.to = TableOf[Next1(t).row]
      BY <2>1, <2>3, ReachedFrom DEF Removed
    <3>2. TableOf[r] # "retrieval_trace"
      BY <2>3, <3>1, TraceRules
    <3>3. TableOf[Next1(t).row] # "retrieval_trace"
      BY <3>1 DEF LinksGoWithChunks
    <3>4. TableOf[r] = "retrieval_trace_chunk" => Next1(t).key.column = "chunk_id"
      BY <3>1, <3>3, TraceRules
    <3>5. TableOf[r] = "retrieval_trace_chunk" => ColumnsOf[r].chunk_id = Next1(t).row
      BY <3>1, <3>4
    <3> QED
      BY <1>4, <2>1, <3>1, <3>2, <3>5, DeletedStays
  <2> QED
    BY <2>1, <2>2, <2>3 DEF Removed
<1> QED
  BY <1>2, <1>3, <1>4

\* Traces are kept, with their conversation as long as there is one, and their links
\* as long as the chunks are there.
THEOREM EvidenceStays == Spec => EvidenceIsKept
<1> DEFINE Kept == \A r \in Rows :
       /\ TableOf[r] = "retrieval_trace" /\ db[r] \in Live =>
            /\ db'[r] \in Live
            /\ db'[r] # db[r] => db'[ColumnsOf[r].conversation_id] = "deleted"
       /\ TableOf[r] = "retrieval_trace_chunk" /\ db[r] \in Live /\ db'[r] = "deleted" =>
            db'[ColumnsOf[r].chunk_id] = "deleted"
<1>1. Init => RefInv /\ EvidenceInv
  <2> SUFFICES ASSUME Init PROVE RefInv /\ EvidenceInv
    OBVIOUS
  <2>1. (\A t \in Txns : \A r \in Rows : own[t][r] = "untouched") /\ \A t \in Txns : Range(work[t]) = {}
    BY EmptyRange DEF Init
  <2> QED
    BY <2>1, InvAtStart DEF EvidenceInv, EnforcedIsDeleted, DetachedWithConversation, LinksGoWithChunks
<1>2. RefInv /\ EvidenceInv /\ [Next]_vars => RefInv' /\ EvidenceInv'
  <2> SUFFICES ASSUME RefInv, EvidenceInv, [Next]_vars PROVE EvidenceInv'
    BY InvStays
  <2>1. CASE UNCHANGED vars
    BY <2>1 DEF vars, EvidenceInv, EnforcedIsDeleted, DetachedWithConversation, LinksGoWithChunks
  <2>2. CASE Next
    <3>1. TypeInv /\ UniqueInv
      BY DEF RefInv
    <3>2. PICK t \in Txns : Step(t)
      BY <2>2, <3>1, NextSteps
    <3> QED
      BY <3>1, <3>2, EnforcedStaysDeleted, DetachedStays, LinksStay DEF EvidenceInv
  <2> QED
    BY <2>1, <2>2
<1>3. RefInv /\ EvidenceInv /\ [Next]_vars => [Kept]_vars
  <2> SUFFICES ASSUME RefInv, EvidenceInv, Next PROVE Kept
    OBVIOUS
  <2>1. TypeInv /\ UniqueInv
    BY DEF RefInv
  <2>2. PICK t \in Txns : Step(t)
    BY <2>1, NextSteps
  <2>3. CASE UNCHANGED db
    BY <2>3 DEF Live
  <2>4. CASE Committed(t)
    <3>1. \A x \in Rows : db'[x] = IF own[t][x] = "untouched" THEN db[x] ELSE own[t][x]
      BY <2>4 DEF Committed, Seen
    <3>2. \A x \in Rows : own[t][x] \in {"live", "detached", "deleted", "untouched"}
      BY <2>1 DEF TypeInv, TypeOK, Live
    <3>3. ASSUME NEW r \in Rows, TableOf[r] = "retrieval_trace", db[r] \in Live
          PROVE  db'[r] \in Live /\ (db'[r] # db[r] => db'[ColumnsOf[r].conversation_id] = "deleted")
      <4>1. own[t][r] # "deleted"
        BY <3>3 DEF EvidenceInv, LinksGoWithChunks
      <4>2. own[t][r] # "live"
        BY <3>3, <2>1 DEF UniqueInv, InsertedIsNew, Live
      <4>3. own[t][r] = "detached" =>
              ColumnsOf[r].conversation_id \in Rows /\ own[t][ColumnsOf[r].conversation_id] = "deleted"
        BY DEF EvidenceInv, DetachedWithConversation
      <4> QED
        BY <3>1, <3>2, <3>3, <4>1, <4>2, <4>3 DEF Live
    <3>4. ASSUME NEW r \in Rows, TableOf[r] = "retrieval_trace_chunk", db[r] \in Live, db'[r] = "deleted"
          PROVE  db'[ColumnsOf[r].chunk_id] = "deleted"
      <4>1. own[t][r] = "deleted"
        BY <3>1, <3>4 DEF Live
      <4>2. ColumnsOf[r].chunk_id \in Rows /\ own[t][ColumnsOf[r].chunk_id] = "deleted"
        BY <3>4, <4>1 DEF EvidenceInv, LinksGoWithChunks
      <4> QED
        BY <3>1, <4>2
    <3> QED
      BY <3>3, <3>4
  <2> QED
    BY <2>1, <2>2, <2>3, <2>4, Effects DEF Aborted, Writes
<1> HIDE DEF Kept
<1>4. Spec => [][Kept]_vars
  BY <1>1, <1>2, <1>3, PTL DEF Spec
<1> QED
  BY <1>4 DEF EvidenceIsKept, Kept
===============================================================================
