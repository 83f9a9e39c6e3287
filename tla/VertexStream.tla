----------------------------- MODULE VertexStream -----------------------------
(* The smoke endpoint end to end: vertex_generation_smoke of                    *)
(* apps/api/src/rag_api/main.py consumes ProviderOrchestrator.stream_generation *)
(* (GenerationStream) over VertexGenerationAdapter.generate of                  *)
(* packages/providers/src/rag_providers/vertex.py.                              *)
(*                                                                              *)
(* The adapter is an asynchronous generator: it runs inside the orchestrator's  *)
(* wait and is suspended where it yielded between two waits.                    *)
EXTENDS Naturals

CONSTANTS Timeout, Overrun, MaxPause, MaxEvents   \* see GenerationStream
ASSUME BudgetAssumption ==
  Timeout \in Nat \ {0} /\ Overrun \in Nat /\ MaxPause \in Nat /\ MaxEvents \in Nat

VARIABLES
  pc, remaining, since, complete_seen, delta_seen, outcome, raised_by,
  deltas, completed, sent, used,   \* of GenerationStream
  adapter,    \* where generate() is: "counting", "opening", "reading", "finished"
  text_seen, usage,                \* its variables
  body,       \* the response: "none", "refused", "created", "streaming", "marking",
              \* "ended" or "dropped"
  marked,     \* the text ended in a [provider-error:...] line
  closed      \* adapter.aclose() was called

Stream == INSTANCE GenerationStream

streamVars == <<pc, remaining, since, complete_seen, delta_seen, outcome, raised_by,
                deltas, completed, sent, used>>
adapterVars == <<adapter, text_seen, usage>>
bodyVars == <<body, marked, closed>>
vars == <<streamVars, adapterVars, bodyVars>>

TypeOK ==
  /\ Stream!TypeOK
  /\ adapter \in {"counting", "opening", "reading", "finished"}
  /\ text_seen \in BOOLEAN
  /\ usage \in {"none", "partial", "complete"}
  /\ body \in {"none", "refused", "created", "streaming", "marking", "ended", "dropped"}
  /\ marked \in BOOLEAN /\ closed \in BOOLEAN

Init ==
  /\ Stream!Init
  /\ adapter = "counting" /\ text_seen = FALSE /\ usage = "none"
  /\ body = "none" /\ marked = FALSE /\ closed = FALSE

-----------------------------------------------------------------------------
(* The adapter, inside a wait of the orchestrator *)

\* What the SDK may raise, as _map_sdk_error of this adapter tells it apart.
Failures == {"408", "504", "429", "500", "400", "402", "TimeoutException",
             "TransportError", "DefaultCredentialsError", "ValueError", "RuntimeError"}
ErrorCode(failure) ==
  CASE failure \in {"408", "504", "TimeoutException"} -> "timeout"
    [] failure = "429" -> "rate_limited"
    [] failure \in {"500", "TransportError", "RuntimeError"} -> "unavailable"
    [] failure \in {"400", "DefaultCredentialsError"} -> "invalid_request"
    [] OTHER -> "invalid_response"

Running(at) == pc = "waiting" /\ adapter = at

Fail(code) ==
  /\ Stream!Raises(code)
  /\ adapter' = "finished"
  /\ UNCHANGED <<text_seen, usage, bodyVars>>

\* The prompt is counted first; without a count, or over the budget, nothing is
\* generated.
CountTokens(total) ==
  /\ Running("counting")
  /\ \/ total = "omitted" /\ Fail("invalid_response")
     \/ total = "over budget" /\ Fail("invalid_request")
     \/ /\ total = "within budget"
        /\ adapter' = "opening"
        /\ UNCHANGED <<streamVars, text_seen, usage, bodyVars>>

OpenStream ==
  /\ Running("opening")
  /\ adapter' = "reading"
  /\ UNCHANGED <<streamVars, text_seen, usage, bodyVars>>

\* A response of the SDK: its usage, if any, replaces what was known, and its text,
\* if any, is a delta.
Read(text, counts) ==
  /\ Running("reading")
  /\ usage' = IF counts # "none" THEN counts ELSE usage
  /\ text_seen' = (text_seen \/ text)
  /\ IF text THEN Stream!Receive("delta") ELSE UNCHANGED streamVars
  /\ UNCHANGED <<adapter, bodyVars>>

\* _result_metadata: Vertex reported both token counts.
TokenUsageKnown == usage = "complete"

\* (Variants named Faulty... are plausible bugs: no action uses them, and the model
\* check is run with each in place of its original to see a property fail.)
FaultyEndOfStream ==
  /\ Running("reading")
  /\ \/ ~TokenUsageKnown /\ Fail("invalid_response")
     \/ /\ TokenUsageKnown
        /\ Stream!Receive("complete")
        /\ adapter' = "finished"
        /\ UNCHANGED <<text_seen, usage, bodyVars>>

\* The end of the SDK's stream: an answer needs text and its metadata, and the
\* completion is yielded.
EndOfStream ==
  /\ Running("reading")
  /\ \/ ~(text_seen /\ TokenUsageKnown) /\ Fail("invalid_response")
     \/ /\ text_seen /\ TokenUsageKnown
        /\ Stream!Receive("complete")
        /\ adapter' = "finished"
        /\ UNCHANGED <<text_seen, usage, bodyVars>>

SdkFails(failure) ==
  /\ adapter # "finished"
  /\ Fail(ErrorCode(failure))

\* generate() returns after the completion.
Exhausted ==
  /\ Running("finished")
  /\ Stream!Stops
  /\ UNCHANGED <<adapterVars, bodyVars>>

-----------------------------------------------------------------------------
(* The endpoint *)

\* The handler: 404 outside development, 503 when the adapter cannot be built.
Handle ==
  /\ body = "none"
  /\ body' \in {"refused", "created"}
  /\ UNCHANGED <<streamVars, adapterVars, marked, closed>>

\* The server begins to iterate over the body; the adapter has the generation role.
BeginBody ==
  /\ body = "created"
  /\ body' = "streaming"
  /\ Stream!Start(TRUE)
  /\ UNCHANGED <<adapterVars, marked, closed>>

\* The client goes before that: the generator never starts, so its finally clause
\* never runs.
DropBody ==
  /\ body = "created"
  /\ body' = "dropped"
  /\ UNCHANGED <<streamVars, adapterVars, marked, closed>>

\* The client goes while the body streams: the wait is cancelled, or the generators
\* are closed where they are suspended.
Disconnect ==
  /\ body = "streaming"
  /\ Stream!Abandon
  /\ adapter' = IF pc = "waiting" THEN "finished" ELSE adapter
  /\ UNCHANGED <<text_seen, usage, bodyVars>>

FaultyMark ==
  /\ body = "streaming" /\ pc = "ended"
  /\ body' = "marking"
  /\ marked' = (deltas = 0 /\ outcome \in Stream!Codes)
  /\ UNCHANGED <<streamVars, adapterVars, closed>>

\* A ProviderAdapterError becomes the last line of the text.
Mark ==
  /\ body = "streaming" /\ pc = "ended"
  /\ body' = "marking"
  /\ marked' = (outcome \in Stream!Codes \ {"other"})
  /\ UNCHANGED <<streamVars, adapterVars, closed>>

FaultyClose ==
  /\ body = "marking"
  /\ body' = IF outcome = "abandoned" THEN body ELSE "ended"
  /\ closed' = (outcome # "abandoned")
  /\ UNCHANGED <<streamVars, adapterVars, marked>>

\* The finally clause.
Close ==
  /\ body = "marking"
  /\ body' = "ended"
  /\ closed' = TRUE
  /\ UNCHANGED <<streamVars, adapterVars, marked>>

\* The orchestrator's own steps: the loop head, its timeout, the next pull; and time.
Orchestrate ==
  /\ Stream!Wait \/ Stream!Resume \/ Stream!WaitTick
  /\ UNCHANGED <<adapterVars, bodyVars>>
Pause == Stream!PauseTick /\ UNCHANGED <<adapterVars, bodyVars>>
Expire ==
  /\ Stream!Expires
  /\ adapter' = "finished"
  /\ UNCHANGED <<text_seen, usage, bodyVars>>

Finished == body \in {"refused", "dropped", "ended"} /\ UNCHANGED vars

Adapter ==
  \/ \E total \in {"omitted", "over budget", "within budget"} : CountTokens(total)
  \/ OpenStream
  \/ \E text \in BOOLEAN, counts \in {"none", "partial", "complete"} : Read(text, counts)
  \/ EndOfStream
  \/ \E failure \in Failures : SdkFails(failure)
  \/ Exhausted

Next ==
  \/ Handle \/ BeginBody \/ DropBody \/ Disconnect \/ Mark \/ Close
  \/ Adapter
  \/ Orchestrate \/ Pause \/ Expire
  \/ Finished

Spec == Init /\ [][Next]_vars

\* The event loop runs what is ready and serves its timers, and the client reads what
\* it is sent or goes away.  Vertex owes no answer.
FairSpec ==
  /\ Spec
  /\ WF_vars(Orchestrate) /\ WF_vars(Expire)
  /\ WF_vars(Mark) /\ WF_vars(Close)

-----------------------------------------------------------------------------
(* Properties *)

\* The adapter keeps the orchestrator's protocol: with Vertex behind it a stream is
\* never refused for what the adapter yielded.
VertexKeepsProtocol == raised_by = "orchestrator" => outcome = "timeout"

\* A text that ends without an error line is a whole answer, unless the client went
\* away; one that ends with it is not.
TruncationIsMarked ==
  body = "ended" /\ outcome # "abandoned" => (marked <=> outcome # "returned")

\* A response whose body began ends, and then the adapter was closed, although Vertex
\* hangs or the client goes away.
BodyReleasesAdapter == body = "streaming" ~> closed
===============================================================================
