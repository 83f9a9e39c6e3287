--------------------------- MODULE VertexStreamProofs ---------------------------
(* Theorems of VertexStream, for every budget, lateness of the timers and      *)
(* number of events.  The orchestrator's part rests on GenerationStreamProofs:  *)
(* the adapter is one of the providers that module allows.                      *)
EXTENDS VertexStream, TLAPS

P == INSTANCE GenerationStreamProofs

LEMMA ErrorCodes == ASSUME NEW failure \in Failures PROVE ErrorCode(failure) \in Stream!Codes \ {"other"}
  BY DEF ErrorCode, Failures, Stream!Codes

\* Whatever adapter and endpoint do, the orchestrator makes a step of its own
\* specification or none.
LEMMA StreamStep ==
  ASSUME TypeOK, [Next]_vars
  PROVE  [Stream!Next]_(Stream!vars)
<1> USE DEF Stream!Next, Stream!Generator
<1>0. ASSUME NEW code \in Stream!Codes, Fail(code) PROVE Stream!Next
  BY <1>0 DEF Fail
<1>1. ASSUME UNCHANGED streamVars PROVE UNCHANGED Stream!vars
  BY <1>1 DEF streamVars, Stream!vars, Stream!stream, Stream!ended
<1>2. CASE Adapter
  <2>1. ASSUME NEW total \in {"omitted", "over budget", "within budget"}, CountTokens(total)
        PROVE  Stream!Next \/ UNCHANGED streamVars
    BY <2>1, <1>0 DEF CountTokens, Stream!Codes
  <2>2. ASSUME NEW text \in BOOLEAN, NEW counts \in {"none", "partial", "complete"}, Read(text, counts)
        PROVE  Stream!Next \/ UNCHANGED streamVars
    BY <2>2 DEF Read, Stream!Events
  <2>3. EndOfStream => Stream!Next
    BY <1>0 DEF EndOfStream, TokenUsageKnown, Stream!Events, Stream!Codes
  <2>4. ASSUME NEW failure \in Failures, SdkFails(failure) PROVE Stream!Next
    BY <2>4, <1>0, ErrorCodes DEF SdkFails
  <2>5. Exhausted => Stream!Next
    BY DEF Exhausted
  <2>6. OpenStream => UNCHANGED streamVars
    BY DEF OpenStream
  <2> QED
    BY <1>1, <1>2, <2>1, <2>2, <2>3, <2>4, <2>5, <2>6 DEF Adapter
<1>3. BeginBody \/ Disconnect \/ Orchestrate \/ Pause \/ Expire => Stream!Next
  BY DEF BeginBody, Disconnect, Orchestrate, Pause, Expire
<1>4. Handle \/ DropBody \/ Mark \/ Close \/ Finished \/ UNCHANGED vars => UNCHANGED streamVars
  BY DEF Handle, DropBody, Mark, Close, Finished, vars
<1> QED
  BY <1>1, <1>2, <1>3, <1>4 DEF Next

\* What the adapter's variables say about the stream: it has completed when it
\* finished without an error, and what it saw as text is what the stream passed on.
AdapterInv ==
  /\ complete_seen => adapter = "finished"
  /\ text_seen => delta_seen
  /\ adapter = "finished" /\ pc # "ended" => complete_seen /\ delta_seen

\* What the response says about the stream.
BodyInv ==
  /\ pc = "ended" => outcome \in {"returned", "abandoned"} \cup (Stream!Codes \ {"other"})
  /\ body \in {"marking", "ended"} => pc = "ended" /\ (marked <=> outcome \in Stream!Codes \ {"other"})

VInv == TypeOK /\ P!IInv /\ AdapterInv /\ BodyInv /\ VertexKeepsProtocol

LEMMA PartsAgree ==
  /\ Stream!TypeOK <=> P!TypeOK
  /\ Stream!Init <=> P!Init
  /\ [Stream!Next]_(Stream!vars) <=> [P!Next]_(P!vars)
<1>1. Stream!TypeOK <=> P!TypeOK
  BY DEF Stream!TypeOK, P!TypeOK, Stream!Codes, P!Codes
<1>2. Stream!Init <=> P!Init
  BY DEF Stream!Init, P!Init
<1>3. [Stream!Next]_(Stream!vars) <=> [P!Next]_(P!vars)
  BY Zenon
  DEF Stream!Codes, Stream!Events, Stream!stream, Stream!ended, Stream!vars, Stream!End,
      Stream!ProtocolError, Stream!Start, Stream!Wait, Stream!Charge, Stream!Yield,
      Stream!Receive, Stream!Stops, Stream!Raises, Stream!Expires, Stream!Resume,
      Stream!Abandon, Stream!WaitTick, Stream!PauseTick, Stream!Ended, Stream!Generator,
      Stream!Next,
      P!Codes, P!Events, P!stream, P!ended, P!vars, P!End, P!ProtocolError, P!Start, P!Wait,
      P!Charge, P!Yield, P!Receive, P!Stops, P!Raises, P!Expires, P!Resume, P!Abandon,
      P!WaitTick, P!PauseTick, P!Ended, P!Generator, P!Next
<1> QED
  BY <1>1, <1>2, <1>3

LEMMA Initially == Init => VInv
<1> SUFFICES ASSUME Init PROVE VInv
  OBVIOUS
<1>1. P!IInv
  BY BudgetAssumption, P!Initially, PartsAgree DEF Init
<1>2. TypeOK
  BY <1>1, PartsAgree DEF Init, TypeOK, P!IInv
<1>3. AdapterInv /\ BodyInv /\ VertexKeepsProtocol
  BY DEF Init, Stream!Init, AdapterInv, BodyInv, VertexKeepsProtocol
<1> QED
  BY <1>1, <1>2, <1>3 DEF VInv

LEMMA StreamInductive ==
  ASSUME VInv, [Next]_vars
  PROVE  P!IInv'
<1>1. [P!Next]_(P!vars)
  BY StreamStep, PartsAgree DEF VInv
<1> QED
  BY <1>1, BudgetAssumption, P!Inductive DEF VInv

\* What the step changes besides the stream keeps its type.
LocalTypes ==
  /\ adapter \in {"counting", "opening", "reading", "finished"}
  /\ text_seen \in BOOLEAN
  /\ usage \in {"none", "partial", "complete"}
  /\ body \in {"none", "refused", "created", "streaming", "marking", "ended", "dropped"}
  /\ marked \in BOOLEAN /\ closed \in BOOLEAN
LocalInv == LocalTypes /\ AdapterInv /\ BodyInv /\ VertexKeepsProtocol

LEMMA LocalInductive ==
  ASSUME VInv, [Next]_vars
  PROVE  LocalInv'
<1>0. LocalTypes /\ AdapterInv /\ BodyInv /\ VertexKeepsProtocol /\ Stream!TypeOK
  BY DEF VInv, TypeOK, LocalTypes
<1> USE DEF LocalInv, LocalTypes, AdapterInv, BodyInv, VertexKeepsProtocol, Stream!TypeOK
<1>1. ASSUME NEW code \in Stream!Codes \ {"other"}, Fail(code) PROVE LocalInv'
  BY <1>0, <1>1 DEF Fail, Stream!Raises, Stream!End, Stream!stream, bodyVars, Stream!Codes
<1>2. ASSUME NEW total \in {"omitted", "over budget", "within budget"}, CountTokens(total) PROVE LocalInv'
  <2>1. CASE Fail("invalid_response") \/ Fail("invalid_request")
    BY <1>1, <2>1 DEF Stream!Codes
  <2>2. CASE adapter' = "opening" /\ UNCHANGED <<streamVars, text_seen, usage, bodyVars>>
    BY <1>0, <1>2, <2>2 DEF CountTokens, Running, streamVars, bodyVars
  <2> QED
    BY <1>2, <2>1, <2>2 DEF CountTokens
<1>3. CASE OpenStream
  BY <1>0, <1>3 DEF OpenStream, Running, streamVars, bodyVars
<1>4. ASSUME NEW text \in BOOLEAN, NEW counts \in {"none", "partial", "complete"}, Read(text, counts)
      PROVE  LocalInv'
  <2>1. ~complete_seen /\ pc = "waiting" /\ adapter = "reading"
    BY <1>0, <1>4 DEF Read, Running
  <2>2. CASE text
    BY <1>0, <1>4, <2>1, <2>2 DEF Read, Stream!Receive, Stream!Yield, Stream!ended, bodyVars
  <2>3. CASE ~text
    BY <1>0, <1>4, <2>1, <2>3 DEF Read, streamVars, bodyVars
  <2> QED
    BY <2>2, <2>3
<1>5. CASE EndOfStream
  <2>1. CASE Fail("invalid_response")
    BY <1>1, <2>1 DEF Stream!Codes
  <2>2. CASE ~Fail("invalid_response")
    BY <1>0, <1>5, <2>2
    DEF EndOfStream, TokenUsageKnown, Running, Stream!Receive, Stream!Yield, Stream!ended, bodyVars
  <2> QED
    BY <2>1, <2>2
<1>6. ASSUME NEW failure \in Failures, SdkFails(failure) PROVE LocalInv'
  BY <1>1, <1>6, ErrorCodes DEF SdkFails
<1>7. CASE Exhausted
  BY <1>0, <1>7 DEF Exhausted, Running, Stream!Stops, Stream!End, Stream!stream, adapterVars, bodyVars
<1>8. CASE Handle \/ DropBody \/ Finished \/ UNCHANGED vars
  BY <1>0, <1>8 DEF Handle, DropBody, Finished, vars, streamVars, adapterVars, bodyVars
<1>9. CASE BeginBody
  BY <1>0, <1>9 DEF BeginBody, Stream!Start, Stream!stream, Stream!ended, adapterVars
<1>10. CASE Disconnect
  BY <1>0, <1>10 DEF Disconnect, Stream!Abandon, Stream!End, Stream!stream, bodyVars
<1>11. CASE Mark
  <2>1. marked' \in BOOLEAN /\ (marked' <=> outcome' \in Stream!Codes \ {"other"})
    <3>1. outcome' = outcome
      BY <1>11 DEF Mark, streamVars
    <3>2. marked' = (outcome \in Stream!Codes \ {"other"})
      BY <1>11, Zenon DEF Mark
    <3>3. CASE outcome \in Stream!Codes \ {"other"}
      BY <3>1, <3>2, <3>3, Zenon
    <3>4. CASE outcome \notin Stream!Codes \ {"other"}
      <4>1. (outcome \in Stream!Codes \ {"other"}) = FALSE
        BY <3>4
      <4>2. marked' = FALSE
        BY <3>2, <4>1
      <4> QED
        BY <3>1, <3>4, <4>2
    <3> QED
      BY <3>3, <3>4
  <2>2. pc' = "ended" /\ body' = "marking" /\ UNCHANGED <<streamVars, adapterVars, closed>>
    BY <1>11 DEF Mark, streamVars
  <2> QED
    BY <1>0, <2>1, <2>2 DEF streamVars, adapterVars
<1>12. CASE Close
  BY <1>0, <1>12 DEF Close, streamVars, adapterVars
<1>13. CASE Orchestrate
  BY <1>0, <1>13
  DEF Orchestrate, Stream!Wait, Stream!Resume, Stream!WaitTick, Stream!End, Stream!stream, Stream!ended,
      Stream!Codes, adapterVars, bodyVars
<1>14. CASE Pause
  BY <1>0, <1>14 DEF Pause, Stream!PauseTick, Stream!stream, Stream!ended, adapterVars, bodyVars
<1>15. CASE Expire
  BY <1>0, <1>15 DEF Expire, Stream!Expires, Stream!End, Stream!stream, Stream!Codes, bodyVars
<1> QED
  BY <1>2, <1>3, <1>4, <1>5, <1>6, <1>7, <1>8, <1>9, <1>10, <1>11, <1>12, <1>13, <1>14, <1>15
  DEF Next, Adapter

LEMMA Inductive == VInv /\ [Next]_vars => VInv'
<1> SUFFICES ASSUME VInv, [Next]_vars PROVE VInv'
  OBVIOUS
<1>1. P!IInv' /\ LocalInv'
  BY StreamInductive, LocalInductive
<1>2. Stream!TypeOK'
  BY <1>1 DEF P!IInv, P!TypeOK, P!Codes, Stream!TypeOK, Stream!Codes
<1> QED
  BY <1>1, <1>2 DEF VInv, LocalInv, LocalTypes, TypeOK

THEOREM Invariant == Spec => []VInv
  BY Initially, Inductive, PTL DEF Spec

\* Every variable of the adapter, the response and the stream between them keeps its
\* type.
THEOREM TypeCorrect == Spec => []TypeOK
<1>1. VInv => TypeOK
  BY DEF VInv
<1> QED
  BY <1>1, Invariant, PTL

\* With the Vertex adapter behind it the orchestrator never refuses a stream for what
\* was yielded to it: its own errors are timeouts only.
THEOREM AdapterKeepsProtocol == Spec => []VertexKeepsProtocol
<1>1. VInv => VertexKeepsProtocol
  BY DEF VInv
<1> QED
  BY <1>1, Invariant, PTL

\* The text of a response that the client read to its end has an error line exactly
\* when the answer is not whole.
THEOREM ErrorLineMeansTruncated == Spec => []TruncationIsMarked
<1>1. VInv => TruncationIsMarked
  BY DEF VInv, BodyInv, TruncationIsMarked, Stream!Codes
<1> QED
  BY <1>1, Invariant, PTL

\* The composition implements the orchestrator's specification: the adapter is one of
\* the providers, and the endpoint one of the consumers, that GenerationStream allows.
THEOREM ComposedStream == Spec => Stream!Spec
<1>1. Init => Stream!Init
  BY DEF Init
<1>2. VInv /\ [Next]_vars => [Stream!Next]_(Stream!vars)
  BY StreamStep DEF VInv
<1> QED
  BY <1>1, <1>2, Invariant, PTL DEF Spec, Stream!Spec
================================================================================
