---------------------------- MODULE VertexEmbedding ----------------------------
(* One embedding request: ProviderOrchestrator.embed of                         *)
(* packages/providers/src/rag_providers/orchestration.py over                   *)
(* VertexEmbeddingAdapter.embed of vertex_embedding.py.                         *)
(*                                                                              *)
(* The adapter splits the texts into batches, calls Vertex once a batch, and    *)
(* repeats a call that failed for a passing reason after a random pause.  The   *)
(* orchestrator's deadline runs from before the first call and cancels the      *)
(* adapter wherever it waits.  A text is its position in the request.           *)
EXTENDS Naturals, Sequences

CONSTANTS
  Requests,         \* the requests made: the number of texts and of UTF-8 bytes in them
  BatchSize, MaxAttempts, InitialDelay, MaxDelay,   \* VertexEmbeddingConfig
  MaxInputTokens, Timeout,                          \* RequestBudget
  MaxReported       \* bound: tokens Vertex reports for one batch

ASSUME ConfigAssumption ==
  /\ BatchSize \in Nat \ {0} /\ MaxAttempts \in Nat \ {0}
  /\ InitialDelay \in Nat /\ MaxDelay \in Nat /\ InitialDelay <= MaxDelay
ASSUME BudgetAssumption ==
  /\ MaxInputTokens \in Nat \ {0} /\ Timeout \in Nat \ {0}
  /\ MaxReported \in Nat
  /\ Requests \subseteq [texts : Nat \ {0}, bytes : Nat]

Codes == {"timeout", "rate_limited", "unavailable", "invalid_request", "invalid_response"}

\* RETRYABLE_PROVIDER_ERRORS
Retryable == {"timeout", "rate_limited", "unavailable"}

\* What the SDK call may raise: an HTTP status, or an exception of the transport,
\* of the credentials or of the SDK itself.
Failures == {"408", "504", "429", "500", "400", "402", "TimeoutException",
             "TransportError", "DefaultCredentialsError", "ValueError", "RuntimeError"}

\* _map_sdk_error: the gateway's 504 is a timeout although it is a server error,
\* and what is not recognised is not retried.
ErrorCode(failure) ==
  CASE failure \in {"408", "504", "TimeoutException"} -> "timeout"
    [] failure = "429" -> "rate_limited"
    [] failure \in {"500", "TransportError"} -> "unavailable"
    [] failure \in {"400", "DefaultCredentialsError"} -> "invalid_request"
    [] OTHER -> "invalid_response"

VARIABLES
  request,   \* the request
  pc,        \* "start", "calling" Vertex, "sleeping" before a retry, "done"
  vectors,   \* the texts whose vectors have been received, in order
  tokens,    \* input_tokens: what Vertex reported for them
  attempt,   \* of the batch at hand
  delay,     \* the longest the next pause may be
  nap,       \* what is left of the pause
  elapsed,   \* time since the orchestrator was called
  outcome,   \* "none", "returned", "cancelled" or the code of the error raised
  log        \* history: batch, result and delay of every call that was answered

vars == <<request, pc, vectors, tokens, attempt, delay, nap, elapsed, outcome, log>>

TypeOK ==
  /\ request \in Requests
  /\ pc \in {"start", "calling", "sleeping", "done"}
  /\ vectors \in Seq(Nat)
  /\ tokens \in Nat
  /\ attempt \in 1..MaxAttempts
  /\ delay \in 0..MaxDelay
  /\ nap \in 0..MaxDelay
  /\ elapsed \in 0..Timeout
  /\ outcome \in {"none", "returned", "cancelled"} \cup Codes
  /\ log \in Seq([first : Nat, result : {"ok", "malformed"} \cup Codes, delay : 0..MaxDelay])

Init ==
  /\ request \in Requests
  /\ pc = "start"
  /\ vectors = <<>>
  /\ tokens = 0
  /\ attempt = 1
  /\ delay = InitialDelay
  /\ nap = 0
  /\ elapsed = 0
  /\ outcome = "none"
  /\ log = <<>>

-----------------------------------------------------------------------------
(* The adapter *)

Smaller(a, b) == IF a < b THEN a ELSE b

\* _conservative_token_upper_bound: the bytes and two for the ends of each text.
UpperBound(r) == r.bytes + 2 * r.texts

\* _batches: the texts of the batch that starts after n texts.
\* (Variants named Faulty... are plausible bugs: no action uses them, and the model
\* check is run with each in place of its original to see a property fail.)
BatchAfter(n) == [i \in 1..Smaller(BatchSize, request.texts - n) |-> n + i]

Finish(result) ==
  /\ pc' = "done"
  /\ outcome' = result

Answered(result) ==
  log' = Append(log, [first |-> Len(vectors) + 1, result |-> result, delay |-> delay])

\* A request that may exceed its budget is refused before Vertex is called.
Preflight ==
  /\ pc = "start"
  /\ \/ UpperBound(request) > MaxInputTokens /\ Finish("invalid_request")
     \/ UpperBound(request) <= MaxInputTokens /\ pc' = "calling" /\ UNCHANGED outcome
  /\ UNCHANGED <<request, vectors, tokens, attempt, delay, nap, elapsed, log>>

\* The loop variables of _embed_batch start anew with each batch.
NextBatch ==
  /\ pc' = "calling"
  /\ attempt' = 1
  /\ delay' = InitialDelay
  /\ UNCHANGED outcome

FaultyReturn ==
  Finish(IF Len(vectors') # request.texts THEN "invalid_response" ELSE "returned")

\* After the last batch: what Vertex counted must be within the budget too, and the
\* orchestrator compares the number of vectors with the number of texts.
Return ==
  Finish(IF tokens' > MaxInputTokens THEN "invalid_request"
         ELSE IF Len(vectors') # request.texts THEN "invalid_response"
         ELSE "returned")

\* A well-formed answer: the vectors of the batch in its order, and a token count.
Embedded(reported) ==
  /\ pc = "calling"
  /\ vectors' = vectors \o BatchAfter(Len(vectors))
  /\ tokens' = tokens + reported
  /\ Answered("ok")
  /\ IF Len(vectors') < request.texts
     THEN NextBatch
     ELSE Return /\ UNCHANGED <<attempt, delay>>
  /\ UNCHANGED <<request, nap, elapsed>>

\* _normalize_response refuses the answer, outside the retry loop.
Malformed ==
  /\ pc = "calling"
  /\ Answered("malformed")
  /\ Finish("invalid_response")
  /\ UNCHANGED <<request, vectors, tokens, attempt, delay, nap, elapsed>>

FaultyFailsTooSoon(failure) ==
  LET code == ErrorCode(failure) IN
  /\ pc = "calling"
  /\ Answered(code)
  /\ IF code \notin Retryable \/ attempt + 1 = MaxAttempts
     THEN Finish(code) /\ UNCHANGED nap
     ELSE /\ nap' \in 0..delay
          /\ pc' = "sleeping"
          /\ UNCHANGED outcome
  /\ UNCHANGED <<request, vectors, tokens, attempt, delay, elapsed>>

FaultyFailsRetriesAll(failure) ==
  LET code == ErrorCode(failure) IN
  /\ pc = "calling"
  /\ Answered(code)
  /\ IF attempt = MaxAttempts
     THEN Finish(code) /\ UNCHANGED nap
     ELSE /\ nap' \in 0..delay
          /\ pc' = "sleeping"
          /\ UNCHANGED outcome
  /\ UNCHANGED <<request, vectors, tokens, attempt, delay, elapsed>>

\* The call raises: a passing error is retried, after a pause of any length up to
\* delay, until the attempts are spent.
Fails(failure) ==
  LET code == ErrorCode(failure) IN
  /\ pc = "calling"
  /\ Answered(code)
  /\ IF code \notin Retryable \/ attempt = MaxAttempts
     THEN Finish(code) /\ UNCHANGED nap
     ELSE /\ nap' \in 0..delay
          /\ pc' = "sleeping"
          /\ UNCHANGED outcome
  /\ UNCHANGED <<request, vectors, tokens, attempt, delay, elapsed>>

\* The pause is over: the next one may be twice as long, up to the limit.
Wakes ==
  /\ pc = "sleeping" /\ nap = 0
  /\ attempt' = attempt + 1
  /\ delay' = Smaller(2 * delay, MaxDelay)
  /\ pc' = "calling"
  /\ UNCHANGED <<request, vectors, tokens, nap, elapsed, outcome, log>>

-----------------------------------------------------------------------------
(* Time and the caller *)

FaultyExpires ==
  /\ pc = "sleeping" /\ elapsed = Timeout
  /\ Finish("timeout")
  /\ UNCHANGED <<request, vectors, tokens, attempt, delay, nap, elapsed, log>>

\* The deadline of ProviderOrchestrator.embed cancels the call or the pause.
Expires ==
  /\ pc \in {"calling", "sleeping"} /\ elapsed = Timeout
  /\ Finish("timeout")
  /\ UNCHANGED <<request, vectors, tokens, attempt, delay, nap, elapsed, log>>

\* The caller's task is cancelled: a CancelledError is not an Exception, so nothing
\* in the adapter retries it.
Cancelled ==
  /\ pc \in {"calling", "sleeping"}
  /\ Finish("cancelled")
  /\ UNCHANGED <<request, vectors, tokens, attempt, delay, nap, elapsed, log>>

\* One unit of time passes while the adapter waits; the timer of the deadline is
\* served before the next unit ends.
Tick ==
  /\ pc \in {"calling", "sleeping"} /\ elapsed < Timeout
  /\ elapsed' = elapsed + 1
  /\ nap' = IF nap > 0 THEN nap - 1 ELSE 0
  /\ UNCHANGED <<request, pc, vectors, tokens, attempt, delay, outcome, log>>

Done == pc = "done" /\ UNCHANGED vars

Next ==
  \/ Preflight
  \/ \E reported \in 0..MaxReported : Embedded(reported)
  \/ Malformed
  \/ \E failure \in Failures : Fails(failure)
  \/ Wakes
  \/ Expires \/ Cancelled \/ Tick
  \/ Done

Spec == Init /\ [][Next]_vars

\* The program runs and its timers are served.  Vertex owes no answer.
FairSpec == Spec /\ WF_vars(Preflight) /\ WF_vars(Wakes) /\ WF_vars(Expires) /\ WF_vars(Tick)

-----------------------------------------------------------------------------
(* Properties *)

\* A returned result holds the vector of every text once, at the text's place,
\* through any mix of batches and retries, and kept to the token budget.
ResultMatchesRequest ==
  outcome = "returned" =>
    /\ vectors = [i \in 1..request.texts |-> i]
    /\ tokens <= MaxInputTokens

\* Whatever Vertex answers in whatever order, the vectors received so far are those
\* of the first texts, so the orchestrator's count check never has to refuse.
VectorsAreAPrefix ==
  /\ vectors = [i \in 1..Len(vectors) |-> i]
  /\ Len(vectors) <= request.texts

\* The pause before a call is repeated may be as long as InitialDelay for the first
\* repeat of each batch, whatever the batches before it went through, and twice as
\* long as before for every further one, up to MaxDelay.
PausesGrow ==
  \A i \in 1..Len(log) :
    log[i].delay = IF i = 1 \/ log[i - 1].result = "ok"
                   THEN InitialDelay
                   ELSE Smaller(2 * log[i - 1].delay, MaxDelay)

\* Every call is paid for, so it needs a reason: its request fits the token budget,
\* and it is the first for its batch, the one before it answered, or it repeats a call
\* that failed for a passing reason, after a pause that grows with the repeats of that
\* batch, and then no more than MaxAttempts in all.
CallsAreJustified ==
  /\ log # <<>> => UpperBound(request) <= MaxInputTokens
  /\ PausesGrow
  /\ log # <<>> => log[1].first = 1
  /\ \A i \in 1..Len(log) - 1 :
       \/ log[i].result = "ok" /\ log[i + 1].first = log[i].first + BatchSize
       \/ log[i].result \in Retryable /\ log[i + 1].first = log[i].first
  /\ \A i \in 1..Len(log) : log[i].first = log[Len(log)].first => Len(log) - i < MaxAttempts

\* Nothing is sent for a request that may exceed its token budget, and one that was
\* sent is refused for its size only when Vertex counts more than the upper bound.
\* (The README of the providers: "rejects a conservative UTF-8 token upper bound
\* before billed calls".)
RefusedBeforeBilling ==
  /\ log # <<>> => UpperBound(request) <= MaxInputTokens
  /\ outcome = "invalid_request" =>
       \/ log = <<>>
       \/ log[Len(log)].result = "invalid_request"
       \/ tokens > UpperBound(request)

\* A request fails only for a reason: a passing error is given up on after
\* MaxAttempts calls for one batch or at the deadline, and never before.
FailureIsJustified ==
  /\ outcome \in Retryable =>
       \/ outcome = "timeout" /\ elapsed = Timeout
       \/ /\ Len(log) >= MaxAttempts
          /\ \A i \in 1..Len(log) : Len(log) - i < MaxAttempts =>
               log[i].result \in Retryable /\ log[i].first = Len(vectors) + 1
          /\ log[Len(log)].result = outcome
  /\ outcome = "invalid_response" => log[Len(log)].result \in {"malformed", "invalid_response"}

\* A request ends although Vertex never answers.
EveryRequestEnds == pc # "done" ~> pc = "done"
===============================================================================
