------------------------- MODULE MCConversationTraces -------------------------
(* Model checking of conversations and traces: a document with two chunks, a    *)
(* widget, a conversation with a message, a request and its retry, and links    *)
(* that clash on their rank.                                                   *)
EXTENDS ConversationTraces, TLC

CONSTANTS t1, t2, d1, v1, k1, k2, w1, c1, m1, q1, q2, l1, l2, l3

Row(table, columns) == [table |-> table, columns |-> columns]
Contents ==
  d1 :> Row("source_document", [active_version_id |-> v1])
  @@ v1 :> Row("source_version", [document_id |-> d1])
  @@ k1 :> Row("chunk", [source_version_id |-> v1, parent_chunk_id |-> Null])
  @@ k2 :> Row("chunk", [source_version_id |-> v1, parent_chunk_id |-> k1])
  @@ w1 :> Row("widget", [public_key_hash |-> "hash"])
  @@ c1 :> Row("conversation", [widget_id |-> w1])
  @@ m1 :> Row("message", [conversation_id |-> c1])
  @@ q1 :> Row("retrieval_trace", [request_id |-> "request", conversation_id |-> c1])
  @@ q2 :> Row("retrieval_trace", [request_id |-> "request", conversation_id |-> Null])
  @@ l1 :> Row("retrieval_trace_chunk", [trace_id |-> q1, chunk_id |-> k1, rank |-> 1])
  @@ l2 :> Row("retrieval_trace_chunk", [trace_id |-> q1, chunk_id |-> k2, rank |-> 2])
  @@ l3 :> Row("retrieval_trace_chunk", [trace_id |-> q1, chunk_id |-> k2, rank |-> 1])

AllTables == [r \in Rows |-> Contents[r].table]
AllColumns == [r \in Rows |-> Contents[r].columns]
OneAndTwo == t1 :> 2 @@ t2 :> 1
Links == {<<l1, l2>>, <<l3>>}
===============================================================================
