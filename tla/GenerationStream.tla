--------------------------- MODULE GenerationStream ---------------------------
(* ProviderOrchestrator.stream_generation of                                    *)
(* packages/providers/src/rag_providers/orchestration.py, between a provider    *)
(* adapter that may do anything and a consumer that takes its time.             *)
(*                                                                              *)
(* The generator runs only while its consumer waits for the next event.  It     *)
(* waits for the provider under a timeout of what is left of the budget, takes  *)
(* the time the wait took off the budget, checks the event and yields it.       *)
EXTENDS Naturals, Integers

CONSTANTS
  Timeout,     \* RequestBudget.timeout_seconds
  Overrun,     \* how late the event loop may serve the timer of asyncio.timeout
  MaxPause,    \* bound: how long the consumer keeps an event
  MaxEvents    \* bound: the events a provider sends

ASSUME BudgetAssumption ==
  Timeout \in Nat \ {0} /\ Overrun \in Nat /\ MaxPause \in Nat /\ MaxEvents \in Nat

\* ProviderErrorCode; "other" is an exception that is not a ProviderAdapterError.
Codes == {"invalid_request", "unsupported_role", "timeout", "rate_limited",
          "unavailable", "invalid_response", "other"}

\* What a provider may send: a delta, a completion with the metadata of this model
\* and request, one with other metadata, or something else.
Events == {"delta", "complete", "mismatched", "unknown"}

VARIABLES
  pc,            \* "start", "resumed", "waiting" for the provider, "yielded", "ended"
  remaining,     \* remaining_provider_seconds
  since,         \* loop.time() - started_at
  complete_seen, delta_seen,
  outcome,       \* "open", "returned", "abandoned" or the code of the error raised
  raised_by,     \* "none", "provider" or "orchestrator"
  deltas, completed,   \* history: what the consumer was given
  sent,          \* history: events the provider sent
  used           \* history: time spent waiting for the provider

stream == <<complete_seen, delta_seen, deltas, completed, sent>>
ended == <<outcome, raised_by>>
vars == <<pc, remaining, since, stream, ended, used>>

TypeOK ==
  /\ pc \in {"start", "resumed", "waiting", "yielded", "ended"}
  /\ remaining \in (0 - Overrun)..Timeout
  /\ since \in Nat
  /\ complete_seen \in BOOLEAN /\ delta_seen \in BOOLEAN
  /\ outcome \in {"open", "returned", "abandoned"} \cup Codes
  /\ raised_by \in {"none", "provider", "orchestrator"}
  /\ deltas \in Nat /\ completed \in BOOLEAN
  /\ sent \in 0..MaxEvents
  /\ used \in Nat

Init ==
  /\ pc = "start"
  /\ remaining = Timeout
  /\ since = 0
  /\ complete_seen = FALSE /\ delta_seen = FALSE
  /\ outcome = "open" /\ raised_by = "none"
  /\ deltas = 0 /\ completed = FALSE
  /\ sent = 0
  /\ used = 0

-----------------------------------------------------------------------------
(* The generator *)

End(result, by) ==
  /\ pc' = "ended"
  /\ outcome' = result
  /\ raised_by' = by

ProtocolError == End("invalid_response", "orchestrator")

\* The first anext(): the role is checked before the adapter is called.
Start(supported) ==
  /\ pc = "start"
  /\ IF supported THEN pc' = "resumed" /\ UNCHANGED ended
     ELSE End("unsupported_role", "orchestrator")
  /\ UNCHANGED <<remaining, since, stream, used>>

\* (Variants named Faulty... are plausible bugs: no action uses them, and the model
\* check is run with each in place of its original to see a property fail.)
FaultyWait ==
  /\ pc = "resumed"
  /\ IF remaining <= 0
     THEN End("timeout", "orchestrator") /\ UNCHANGED since
     ELSE pc' = "waiting" /\ UNCHANGED <<since, ended>>
  /\ UNCHANGED <<remaining, stream, used>>

\* The head of the loop: with nothing left of the budget it gives up, else it starts
\* the clock and waits for the provider.
Wait ==
  /\ pc = "resumed"
  /\ IF remaining <= 0
     THEN End("timeout", "orchestrator") /\ UNCHANGED since
     ELSE pc' = "waiting" /\ since' = 0 /\ UNCHANGED ended
  /\ UNCHANGED <<remaining, stream, used>>

\* The finally clause: whatever ended the wait, its time is spent.
FaultyCharge == UNCHANGED <<remaining, since>>
Charge == remaining' = remaining - since /\ UNCHANGED since

Yield(event) ==
  /\ pc' = "yielded"
  /\ complete_seen' = (complete_seen \/ event = "complete")
  /\ delta_seen' = (delta_seen \/ event = "delta")
  /\ completed' = (completed \/ event = "complete")
  /\ deltas' = IF event = "delta" THEN deltas + 1 ELSE deltas
  /\ UNCHANGED ended

\* The provider sends an event, in time or while the timer is late: one after the
\* completion, one that is no event and a completion with other metadata are errors.
Receive(event) ==
  /\ pc = "waiting" /\ sent < MaxEvents
  /\ sent' = sent + 1
  /\ Charge
  /\ IF complete_seen \/ event \in {"mismatched", "unknown"}
     THEN ProtocolError /\ UNCHANGED <<complete_seen, delta_seen, completed, deltas>>
     ELSE Yield(event)
  /\ UNCHANGED used

FaultyStops ==
  /\ pc = "waiting"
  /\ Charge
  /\ IF complete_seen THEN End("returned", "none") ELSE ProtocolError
  /\ UNCHANGED <<stream, used>>

\* StopAsyncIteration: an answer needs its completion and some text.
Stops ==
  /\ pc = "waiting"
  /\ Charge
  /\ IF complete_seen /\ delta_seen THEN End("returned", "none") ELSE ProtocolError
  /\ UNCHANGED <<stream, used>>

\* The provider raises: the error passes through, and a TimeoutError of its own
\* becomes the orchestrator's.
Raises(code) ==
  /\ pc = "waiting"
  /\ Charge
  /\ End(code, "provider")
  /\ UNCHANGED <<stream, used>>

FaultyExpires ==
  /\ pc = "waiting" /\ since >= remaining /\ sent = 0
  /\ Charge
  /\ End("timeout", "orchestrator")
  /\ UNCHANGED <<stream, used>>

\* asyncio.timeout cancels the wait.
Expires ==
  /\ pc = "waiting" /\ since >= remaining
  /\ Charge
  /\ End("timeout", "orchestrator")
  /\ UNCHANGED <<stream, used>>

-----------------------------------------------------------------------------
(* The consumer and the clock *)

\* The consumer asks for the next event.
Resume ==
  /\ pc = "yielded"
  /\ pc' = "resumed"
  /\ UNCHANGED <<remaining, since, stream, ended, used>>

\* It closes the generator, or its task is cancelled, at the yield or in the wait.
Abandon ==
  /\ pc \in {"yielded", "waiting"}
  /\ IF pc = "waiting" THEN Charge ELSE UNCHANGED <<remaining, since>>
  /\ End("abandoned", "none")
  /\ UNCHANGED <<stream, used>>

WaitTick ==
  /\ pc = "waiting" /\ since < remaining + Overrun
  /\ since' = since + 1
  /\ used' = used + 1
  /\ UNCHANGED <<pc, remaining, stream, ended>>

PauseTick ==
  /\ pc = "yielded" /\ since < Timeout + Overrun + MaxPause
  /\ since' = since + 1
  /\ UNCHANGED <<pc, remaining, stream, ended, used>>

Ended == pc = "ended" /\ UNCHANGED vars

Generator ==
  \/ \E supported \in BOOLEAN : Start(supported)
  \/ Wait
  \/ \E event \in Events : Receive(event)
  \/ Stops
  \/ \E code \in Codes : Raises(code)
  \/ Expires

Next == Generator \/ Resume \/ Abandon \/ WaitTick \/ PauseTick \/ Ended

Spec == Init /\ [][Next]_vars

\* The event loop runs what is ready and serves its timers.  Neither the provider
\* nor the consumer owes anything.
FairSpec == Spec /\ WF_vars(Wait) /\ WF_vars(WaitTick) /\ WF_vars(Expires)

-----------------------------------------------------------------------------
(* Properties *)

\* The stream keeps its contract with the consumer, whatever the provider sends.
Contract == INSTANCE StreamContract WITH
  status <- CASE outcome \in {"open", "returned", "abandoned"} -> outcome [] OTHER -> "raised"
ImplementsContract == Contract!Spec

\* All waits of one stream together take no longer than the budget, the lateness of
\* one timer aside: the budget is of the request and not of the event.
ProviderTimeIsBounded == used <= Timeout + Overrun

\* The orchestrator times a stream out only when the provider itself used up the
\* budget, however long the consumer kept an event.  (The test
\* test_consumer_backpressure_does_not_consume_provider_timeout.)
TimeoutIsTheProviders == outcome = "timeout" /\ raised_by = "orchestrator" => used >= Timeout

\* Every anext() on the stream ends, although the provider hangs.
EveryPullEnds == pc \in {"resumed", "waiting"} ~> pc \in {"yielded", "ended"}
===============================================================================
