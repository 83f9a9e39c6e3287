------------------------- MODULE VertexEmbeddingProofs -------------------------
(* Theorems of VertexEmbedding: for every configuration, budget and request.    *)
EXTENDS VertexEmbedding, TLAPS

Entries == [first : Nat, result : {"ok", "malformed"} \cup Codes, delay : 0..MaxDelay]

\* How often the batch at hand has failed.
Failed == IF pc = "sleeping" THEN attempt ELSE attempt - 1

\* Only a request that is done has an outcome, and until then texts are left.
OpenUntilDone ==
  /\ outcome = "none" <=> pc # "done"
  /\ pc # "done" => Len(vectors) < request.texts
  /\ pc = "start" => log = <<>>
  /\ pc = "sleeping" => attempt < MaxAttempts

\* The log ends in the failures of the batch at hand, all retryable, and what is before
\* them is of earlier batches, of which the last was answered.
LogTracks ==
  pc # "done" =>
    /\ Failed <= Len(log)
    /\ \A i \in 1..Len(log) :
         IF i > Len(log) - Failed
         THEN log[i].result \in Retryable /\ log[i].first = Len(vectors) + 1
         ELSE log[i].first <= Len(vectors)
    /\ IF Len(log) = Failed THEN Len(vectors) = 0
       ELSE /\ log[Len(log) - Failed].result = "ok"
            /\ log[Len(log) - Failed].first + BatchSize = Len(vectors) + 1

\* Nothing is called for a request that may exceed its budget.
SentWithinBudget == pc \in {"calling", "sleeping"} \/ log # <<>> => UpperBound(request) <= MaxInputTokens

\* The longest next pause starts with the batch and follows from the last answer's.
DelayTracks ==
  /\ pc \in {"start", "calling"} =>
       delay = IF attempt = 1 THEN InitialDelay ELSE Smaller(2 * log[Len(log)].delay, MaxDelay)
  /\ pc = "start" => attempt = 1
  /\ pc = "sleeping" => delay = log[Len(log)].delay

IInv ==
  /\ TypeOK
  /\ OpenUntilDone
  /\ LogTracks
  /\ DelayTracks
  /\ SentWithinBudget
  /\ VectorsAreAPrefix
  /\ ResultMatchesRequest
  /\ CallsAreJustified
  /\ FailureIsJustified

\* The batch that starts after n texts holds the next of them, in order.
LEMMA NextTexts ==
  ASSUME NEW n \in Nat, n < request.texts, TypeOK, vectors = [i \in 1..n |-> i]
  PROVE  /\ Len(vectors) = n
         /\ vectors \o BatchAfter(n) = [i \in 1..(n + Smaller(BatchSize, request.texts - n)) |-> i]
<1> DEFINE k == Smaller(BatchSize, request.texts - n)
<1>1. k \in Nat \ {0} /\ request.texts \in Nat
  BY ConfigAssumption, BudgetAssumption DEF TypeOK, Smaller
<1> HIDE DEF k
<1>2. Len(vectors) = n /\ vectors \in Seq(Nat)
  OBVIOUS
<1>3. BatchAfter(n) = [i \in 1..k |-> n + i]
  BY DEF BatchAfter, k
<1>4. [i \in 1..k |-> n + i] \in Seq(Nat) /\ Len([i \in 1..k |-> n + i]) = k
  BY <1>1
<1>5. vectors \o [i \in 1..k |-> n + i] = [i \in 1..(n + k) |-> i]
  BY <1>1, <1>2, <1>4
<1> QED
  BY <1>2, <1>3, <1>5 DEF k

\* The log after one more entry.
LEMMA LogGrows ==
  ASSUME NEW l \in Seq(Entries), NEW e \in Entries
  PROVE  /\ Append(l, e) \in Seq(Entries)
         /\ Len(Append(l, e)) = Len(l) + 1
         /\ Len(l) \in Nat
         /\ Append(l, e)[Len(l) + 1] = e
         /\ \A i \in 1..Len(l) : Append(l, e)[i] = l[i]
  OBVIOUS

LEMMA Initially == Init => IInv
  BY ConfigAssumption, BudgetAssumption
  DEF Init, IInv, TypeOK, OpenUntilDone, Failed, LogTracks, DelayTracks, SentWithinBudget, VectorsAreAPrefix,
      ResultMatchesRequest, CallsAreJustified, PausesGrow, FailureIsJustified, Codes, Retryable

\* The steps that neither call Vertex nor hear from it.
LEMMA QuietSteps ==
  ASSUME IInv, Preflight \/ Wakes \/ Expires \/ Cancelled \/ Tick \/ UNCHANGED vars
  PROVE  IInv'
<1>0. UNCHANGED <<log, request>> /\ CallsAreJustified'
  <2>1. UNCHANGED <<log, request>>
    BY DEF Preflight, Wakes, Expires, Cancelled, Tick, vars
  <2> QED
    BY <2>1 DEF IInv, CallsAreJustified, PausesGrow, UpperBound
<1>1. Wakes => DelayTracks'
  <2> SUFFICES ASSUME Wakes PROVE DelayTracks'
    OBVIOUS
  <2>1. pc' = "calling" /\ attempt' = attempt + 1 /\ delay' = Smaller(2 * delay, MaxDelay)
    BY DEF Wakes
  <2>2. attempt \in 1..MaxAttempts /\ delay = log[Len(log)].delay /\ log' = log
    BY <1>0 DEF IInv, TypeOK, DelayTracks, Wakes
  <2>3. attempt' # 1
    BY <2>1, <2>2, ConfigAssumption
  <2> QED
    BY <2>1, <2>2, <2>3 DEF DelayTracks, Smaller
<1> USE ConfigAssumption, BudgetAssumption, <1>0
    DEF IInv, TypeOK, OpenUntilDone, Failed, LogTracks, SentWithinBudget, VectorsAreAPrefix,
        ResultMatchesRequest, FailureIsJustified, UpperBound, Finish
<1>2. CASE Preflight
  BY <1>2 DEF Preflight, DelayTracks, Codes, Retryable
<1>3. CASE Wakes
  <2>1. attempt' \in 1..MaxAttempts /\ delay' \in 0..MaxDelay
    BY <1>3 DEF Wakes, Smaller
  <2> QED
    BY <1>3, <1>1, <2>1 DEF Wakes
<1>4. CASE Expires
  BY <1>4 DEF Expires, DelayTracks, Codes
<1>5. CASE Cancelled
  BY <1>5 DEF Cancelled, DelayTracks, Codes, Retryable
<1>6. CASE Tick
  BY <1>6 DEF Tick, DelayTracks
<1>7. CASE UNCHANGED vars
  BY <1>7 DEF vars, DelayTracks
<1> QED
  BY <1>2, <1>3, <1>4, <1>5, <1>6, <1>7

\* An entry for the batch at hand keeps the log justified.
LEMMA AnswerIsJustified ==
  ASSUME IInv, pc = "calling", NEW result \in {"ok", "malformed"} \cup Codes, Answered(result),
         request' = request
  PROVE  /\ log' \in Seq(Entries)
         /\ Len(log') = Len(log) + 1
         /\ log'[Len(log')] = [first |-> Len(vectors) + 1, result |-> result, delay |-> delay]
         /\ \A i \in 1..Len(log) : log'[i] = log[i]
         /\ CallsAreJustified'
         /\ SentWithinBudget => UpperBound(request) <= MaxInputTokens
<1> DEFINE e == [first |-> Len(vectors) + 1, result |-> result, delay |-> delay]
<1> USE ConfigAssumption, BudgetAssumption
<1>1. e \in Entries /\ log \in Seq(Entries) /\ log' = Append(log, e) /\ Len(vectors) \in Nat
  BY DEF IInv, TypeOK, Entries, Answered
<1>2. /\ log' \in Seq(Entries) /\ Len(log') = Len(log) + 1 /\ Len(log) \in Nat
      /\ log'[Len(log) + 1] = e /\ \A i \in 1..Len(log) : log'[i] = log[i]
  BY <1>1, LogGrows
<1> HIDE DEF e
<1>3. e.first = Len(vectors) + 1 /\ e.delay = delay
  BY DEF e
<1>4. /\ attempt \in 1..MaxAttempts /\ attempt - 1 <= Len(log)
      /\ \A i \in 1..Len(log) :
           IF i > Len(log) - (attempt - 1)
           THEN log[i].result \in Retryable /\ log[i].first = Len(vectors) + 1
           ELSE log[i].first <= Len(vectors)
      /\ IF Len(log) = attempt - 1 THEN Len(vectors) = 0
         ELSE /\ log[Len(log) - (attempt - 1)].result = "ok"
              /\ log[Len(log) - (attempt - 1)].first + BatchSize = Len(vectors) + 1
  BY DEF IInv, TypeOK, LogTracks, Failed
<1>5. log' # <<>> => log'[1].first = 1
  <2>1. CASE Len(log) = 0
    BY <1>1, <1>2, <1>3, <1>4, <2>1
  <2>2. CASE Len(log) > 0
    <3>1. log # <<>>
      BY <2>2
    <3> QED
      BY <1>2, <2>2, <3>1 DEF IInv, CallsAreJustified
  <2> QED
    BY <1>2, <2>1, <2>2
<1>6. ASSUME NEW i \in 1..Len(log') - 1
      PROVE  \/ log'[i].result = "ok" /\ log'[i + 1].first = log'[i].first + BatchSize
             \/ log'[i].result \in Retryable /\ log'[i + 1].first = log'[i].first
  <2>1. CASE i < Len(log)
    <3>1. log'[i] = log[i] /\ log'[i + 1] = log[i + 1] /\ i \in 1..Len(log) - 1
      BY <1>2, <2>1
    <3> QED
      BY <3>1 DEF IInv, CallsAreJustified
  <2>2. CASE i = Len(log)
    <3>1. log'[i] = log[i] /\ log'[i + 1] = e /\ i \in 1..Len(log)
      BY <1>2, <2>2
    <3>2. CASE attempt = 1
      <4>1. log[i].result = "ok" /\ log[i].first + BatchSize = Len(vectors) + 1
        BY <1>2, <1>4, <2>2, <3>1, <3>2
      <4> QED
        BY <1>3, <3>1, <4>1
    <3>3. CASE attempt > 1
      <4>1. log[i].result \in Retryable /\ log[i].first = Len(vectors) + 1
        BY <1>2, <1>4, <2>2, <3>1, <3>3
      <4> QED
        BY <1>3, <3>1, <4>1
    <3> QED
      BY <1>4, <3>2, <3>3
  <2> QED
    BY <1>2, <2>1, <2>2
<1>7. ASSUME NEW i \in 1..Len(log'), log'[i].first = log'[Len(log')].first
      PROVE  Len(log') - i < MaxAttempts
  BY <1>1, <1>2, <1>3, <1>4, <1>7
<1>8. PausesGrow'
  <2> SUFFICES ASSUME NEW i \in 1..Len(log')
               PROVE  log'[i].delay = IF i = 1 \/ log'[i - 1].result = "ok" THEN InitialDelay
                                      ELSE Smaller(2 * log'[i - 1].delay, MaxDelay)
    BY DEF PausesGrow, Smaller
  <2>1. CASE i \in 1..Len(log)
    <3>1. log'[i] = log[i] /\ (i # 1 => log'[i - 1] = log[i - 1])
      BY <1>2, <2>1
    <3> QED
      BY <2>1, <3>1 DEF IInv, CallsAreJustified, PausesGrow
  <2>2. CASE i = Len(log) + 1
    <3>1. log'[i].delay = delay /\ (i # 1 => log'[i - 1] = log[Len(log)])
      BY <1>2, <1>3, <2>2
    <3>2. delay = IF attempt = 1 THEN InitialDelay ELSE Smaller(2 * log[Len(log)].delay, MaxDelay)
      BY DEF IInv, DelayTracks
    <3>3. attempt = 1 => i = 1 \/ log'[i - 1].result = "ok"
      BY <1>2, <1>4, <2>2, <3>1
    <3>4. attempt # 1 => i # 1 /\ log'[i - 1].result # "ok"
      BY <1>2, <1>4, <2>2, <3>1 DEF Retryable
    <3> QED
      BY <3>1, <3>2, <3>3, <3>4
  <2> QED
    BY <1>2, <2>1, <2>2
<1>9. UpperBound(request) <= MaxInputTokens /\ request' = request
  BY DEF IInv, SentWithinBudget
<1> QED
  BY <1>2, <1>5, <1>6, <1>7, <1>8, <1>9 DEF CallsAreJustified, UpperBound, IInv, SentWithinBudget, e

LEMMA MalformedStep == ASSUME IInv, Malformed PROVE IInv'
<1> USE ConfigAssumption, BudgetAssumption
<1>1. Answered("malformed") /\ pc = "calling" /\ UNCHANGED <<request, vectors, tokens, attempt, delay, nap, elapsed>>
      /\ pc' = "done" /\ outcome' = "invalid_response"
  BY DEF Malformed, Finish
<1>2. /\ log' \in Seq(Entries)
      /\ Len(log') = Len(log) + 1 /\ Len(log) \in Nat
      /\ log'[Len(log')].result = "malformed"
      /\ CallsAreJustified'
      /\ UpperBound(request) <= MaxInputTokens
  <2>1. /\ log' \in Seq(Entries)
        /\ Len(log') = Len(log) + 1
        /\ log'[Len(log')] = [first |-> Len(vectors) + 1, result |-> "malformed", delay |-> delay]
        /\ CallsAreJustified'
        /\ SentWithinBudget => UpperBound(request) <= MaxInputTokens
    BY <1>1, AnswerIsJustified
  <2>2. Len(log) \in Nat /\ SentWithinBudget
    BY DEF IInv, TypeOK
  <2> QED
    BY <2>1, <2>2
<1>3. TypeOK'
  BY <1>1, <1>2 DEF IInv, TypeOK, Codes, Entries
<1>4. OpenUntilDone' /\ LogTracks' /\ DelayTracks'
  BY <1>1 DEF OpenUntilDone, LogTracks, DelayTracks
<1>5. SentWithinBudget'
  BY <1>1, <1>2 DEF SentWithinBudget, UpperBound
<1>6. VectorsAreAPrefix' /\ ResultMatchesRequest'
  BY <1>1 DEF IInv, VectorsAreAPrefix, ResultMatchesRequest
<1>7. FailureIsJustified'
  BY <1>1, <1>2 DEF FailureIsJustified, Retryable
<1> QED
  BY <1>2, <1>3, <1>4, <1>5, <1>6, <1>7 DEF IInv

LEMMA FailsStep == ASSUME IInv, NEW failure \in Failures, Fails(failure) PROVE IInv'
<1> DEFINE code == ErrorCode(failure)
<1> USE ConfigAssumption, BudgetAssumption
<1>1. code \in Codes
  BY DEF ErrorCode, Codes, Failures
<1> HIDE DEF code
<1>2. /\ Answered(code) /\ pc = "calling" /\ UNCHANGED <<request, vectors, tokens, attempt, delay, elapsed>>
      /\ IF code \notin Retryable \/ attempt = MaxAttempts
         THEN pc' = "done" /\ outcome' = code /\ UNCHANGED nap
         ELSE nap' \in 0..delay /\ pc' = "sleeping" /\ UNCHANGED outcome
  BY DEF Fails, Finish, code
<1>3. /\ log' \in Seq(Entries)
      /\ Len(log') = Len(log) + 1 /\ Len(log) \in Nat
      /\ log'[Len(log')].result = code /\ log'[Len(log')].first = Len(vectors) + 1
      /\ log'[Len(log')].delay = delay
      /\ \A i \in 1..Len(log) : log'[i] = log[i]
      /\ CallsAreJustified'
      /\ UpperBound(request) <= MaxInputTokens
  <2>1. /\ log' \in Seq(Entries)
        /\ Len(log') = Len(log) + 1
        /\ log'[Len(log')] = [first |-> Len(vectors) + 1, result |-> code, delay |-> delay]
        /\ \A i \in 1..Len(log) : log'[i] = log[i]
        /\ CallsAreJustified'
        /\ SentWithinBudget => UpperBound(request) <= MaxInputTokens
    BY <1>1, <1>2, AnswerIsJustified
  <2>2. Len(log) \in Nat /\ SentWithinBudget
    BY DEF IInv, TypeOK
  <2> QED
    BY <2>1, <2>2
<1>4. TypeOK'
  BY <1>1, <1>2, <1>3 DEF IInv, TypeOK, Entries
<1>5. OpenUntilDone'
  <2>1. attempt \in 1..MaxAttempts /\ code # "none"
    BY <1>1 DEF IInv, TypeOK, Codes
  <2> QED
    BY <1>2, <2>1 DEF IInv, OpenUntilDone
<1>6. SentWithinBudget'
  BY <1>2, <1>3 DEF SentWithinBudget, UpperBound
<1>7. VectorsAreAPrefix' /\ ResultMatchesRequest'
  BY <1>1, <1>2 DEF IInv, VectorsAreAPrefix, ResultMatchesRequest, OpenUntilDone, Codes
<1>8. /\ attempt \in 1..MaxAttempts /\ attempt - 1 <= Len(log) /\ Len(vectors) \in Nat
      /\ \A i \in 1..Len(log) :
           IF i > Len(log) - (attempt - 1)
           THEN log[i].result \in Retryable /\ log[i].first = Len(vectors) + 1
           ELSE log[i].first <= Len(vectors)
      /\ IF Len(log) = attempt - 1 THEN Len(vectors) = 0
         ELSE /\ log[Len(log) - (attempt - 1)].result = "ok"
              /\ log[Len(log) - (attempt - 1)].first + BatchSize = Len(vectors) + 1
  BY <1>2 DEF IInv, TypeOK, LogTracks, Failed
<1>9. LogTracks'
  <2> SUFFICES ASSUME pc' # "done" PROVE LogTracks'
    BY DEF LogTracks
  <2>1. pc' = "sleeping" /\ code \in Retryable /\ Failed' = attempt /\ vectors' = vectors
    BY <1>2 DEF Failed
  <2>2. ASSUME NEW i \in 1..Len(log')
        PROVE  IF i > Len(log') - attempt
               THEN log'[i].result \in Retryable /\ log'[i].first = Len(vectors) + 1
               ELSE log'[i].first <= Len(vectors)
    BY <1>3, <1>8, <2>1
  <2>3. IF Len(log') = attempt THEN Len(vectors) = 0
        ELSE /\ log'[Len(log') - attempt].result = "ok"
             /\ log'[Len(log') - attempt].first + BatchSize = Len(vectors) + 1
    <3>1. Len(log') - attempt = Len(log) - (attempt - 1)
      BY <1>3, <1>8
    <3>2. Len(log') # attempt => Len(log) - (attempt - 1) \in 1..Len(log)
      BY <1>3, <1>8
    <3> QED
      BY <1>3, <1>8, <3>1, <3>2
  <2>4. attempt <= Len(log')
    BY <1>3, <1>8
  <2> QED
    BY <2>1, <2>2, <2>3, <2>4 DEF LogTracks
<1>10. DelayTracks'
  BY <1>2, <1>3 DEF DelayTracks
<1>11. FailureIsJustified'
  <2>1. CASE code \notin Retryable
    BY <1>1, <1>2, <1>3, <2>1 DEF FailureIsJustified, Codes, Retryable
  <2>2. CASE code \in Retryable /\ attempt # MaxAttempts
    BY <1>2, <2>2 DEF IInv, OpenUntilDone, FailureIsJustified, Retryable
  <2>3. CASE code \in Retryable /\ attempt = MaxAttempts
    <3>1. outcome' = code /\ vectors' = vectors
      BY <1>2, <2>3
    <3>2. Len(log') >= MaxAttempts
      BY <1>3, <1>8, <2>3
    <3>3. \A i \in 1..Len(log') : Len(log') - i < MaxAttempts =>
            log'[i].result \in Retryable /\ log'[i].first = Len(vectors) + 1
      BY <1>3, <1>8, <2>3
    <3>4. code # "invalid_response"
      BY <2>3 DEF Retryable
    <3> QED
      BY <1>3, <3>1, <3>2, <3>3, <3>4 DEF FailureIsJustified
  <2> QED
    BY <2>1, <2>2, <2>3
<1> QED
  BY <1>3, <1>4, <1>5, <1>6, <1>7, <1>9, <1>10, <1>11 DEF IInv

LEMMA EmbeddedStep == ASSUME IInv, NEW reported \in 0..MaxReported, Embedded(reported) PROVE IInv'
<1> DEFINE n == Len(vectors)
           k == Smaller(BatchSize, request.texts - n)
<1> USE ConfigAssumption, BudgetAssumption
<1>1. /\ pc = "calling" /\ UNCHANGED <<request, nap, elapsed>> /\ Answered("ok")
      /\ vectors' = vectors \o BatchAfter(n)
      /\ tokens' = tokens + reported /\ tokens' \in Nat
      /\ IF Len(vectors') < request.texts THEN NextBatch ELSE Return /\ UNCHANGED <<attempt, delay>>
  BY DEF Embedded, IInv, TypeOK
<1>2. n \in Nat /\ request.texts \in Nat /\ n < request.texts /\ vectors = [i \in 1..n |-> i] /\ Len(log) \in Nat
  BY <1>1 DEF IInv, TypeOK, OpenUntilDone, VectorsAreAPrefix
<1>3. k \in Nat \ {0} /\ n + k <= request.texts /\ (n + k < request.texts => k = BatchSize)
  BY <1>2 DEF Smaller
<1>4. vectors' = [i \in 1..(n + k) |-> i]
  <2>1. TypeOK
    BY DEF IInv
  <2> QED
    BY <1>1, <1>2, <2>1, NextTexts
<1> HIDE DEF n, k
<1>5. Len(vectors') = n + k /\ vectors' \in Seq(Nat) /\ vectors' = [i \in 1..Len(vectors') |-> i]
  BY <1>2, <1>3, <1>4
<1>6. /\ log' \in Seq(Entries)
      /\ Len(log') = Len(log) + 1
      /\ log'[Len(log')] = [first |-> n + 1, result |-> "ok", delay |-> delay]
      /\ \A i \in 1..Len(log) : log'[i] = log[i]
      /\ CallsAreJustified'
      /\ UpperBound(request) <= MaxInputTokens
  <2>1. SentWithinBudget
    BY DEF IInv
  <2> QED
    BY <1>1, <2>1, AnswerIsJustified DEF n
<1>7. SentWithinBudget'
  BY <1>1, <1>6 DEF SentWithinBudget, UpperBound
<1>8. VectorsAreAPrefix'
  BY <1>1, <1>3, <1>5 DEF VectorsAreAPrefix
<1>9. CASE Len(vectors') < request.texts
  <2>1. pc' = "calling" /\ attempt' = 1 /\ delay' = InitialDelay /\ outcome' = outcome /\ outcome = "none"
    BY <1>1, <1>9 DEF NextBatch, IInv, OpenUntilDone
  <2>2. TypeOK'
    BY <1>1, <1>5, <1>6, <2>1 DEF IInv, TypeOK, Entries
  <2>3. OpenUntilDone'
    BY <1>1, <1>9, <2>1 DEF OpenUntilDone
  <2>4. LogTracks'
    <3>1. Failed' = 0
      BY <2>1 DEF Failed
    <3>2. ASSUME NEW i \in 1..Len(log') PROVE log'[i].first <= n + k
      <4>1. CASE i \in 1..Len(log)
        <5>0. log \in Seq(Entries)
          BY DEF IInv, TypeOK, Entries
        <5>1. log[i].first \in Nat
          <6>1. log[i] \in Entries
            BY <4>1, <5>0
          <6> QED
            BY <6>1 DEF Entries
        <5>2. log[i].first = n + 1 \/ log[i].first <= n
          BY <1>1, <4>1 DEF IInv, LogTracks, Failed, n
        <5> QED
          BY <1>2, <1>3, <1>6, <4>1, <5>1, <5>2
      <4>2. CASE i = Len(log')
        BY <1>2, <1>3, <1>6, <4>2
      <4> QED
        BY <1>2, <1>6, <4>1, <4>2
    <3>3. log'[Len(log')].result = "ok" /\ log'[Len(log')].first + BatchSize = n + k + 1
      BY <1>2, <1>3, <1>5, <1>6, <1>9
    <3>4. Len(log') - 0 = Len(log') /\ Len(log') \in Nat \ {0}
      BY <1>2, <1>6
    <3> QED
      BY <1>5, <3>1, <3>2, <3>3, <3>4 DEF LogTracks
  <2>7. DelayTracks'
    BY <2>1 DEF DelayTracks
  <2>5. ResultMatchesRequest' /\ FailureIsJustified'
    BY <2>1 DEF ResultMatchesRequest, FailureIsJustified, Retryable
  <2> QED
    BY <1>6, <1>7, <1>8, <2>2, <2>3, <2>4, <2>7, <2>5 DEF IInv
<1>10. CASE ~(Len(vectors') < request.texts)
  <2>1. /\ pc' = "done" /\ UNCHANGED <<attempt, delay>>
        /\ outcome' = IF tokens' > MaxInputTokens THEN "invalid_request"
                      ELSE IF Len(vectors') # request.texts THEN "invalid_response" ELSE "returned"
    BY <1>1, <1>10 DEF Return, Finish
  <2>2. Len(vectors') = request.texts
    BY <1>2, <1>3, <1>5, <1>10
  <2>3. TypeOK'
    BY <1>1, <1>5, <1>6, <2>1 DEF IInv, TypeOK, Entries, Codes
  <2>4. OpenUntilDone' /\ LogTracks' /\ DelayTracks'
    BY <2>1 DEF OpenUntilDone, LogTracks, DelayTracks
  <2>5. ResultMatchesRequest'
    <3>1. vectors' = [i \in 1..request.texts |-> i]
      BY <1>5, <2>2
    <3>2. outcome' = "returned" => tokens' <= MaxInputTokens
      BY <1>1, <2>1
    <3> QED
      BY <1>1, <3>1, <3>2 DEF ResultMatchesRequest
  <2>6. FailureIsJustified'
    BY <2>1, <2>2 DEF FailureIsJustified, Retryable
  <2> QED
    BY <1>6, <1>7, <1>8, <2>3, <2>4, <2>5, <2>6 DEF IInv
<1> QED
  BY <1>9, <1>10

LEMMA Inductive == IInv /\ [Next]_vars => IInv'
  BY QuietSteps, EmbeddedStep, MalformedStep, FailsStep DEF Next, Done

\* The inductive invariant holds in every reachable state.
THEOREM Invariant == Spec => []IInv
  BY Initially, Inductive, PTL DEF Spec

\* Every variable keeps its type: no batch is tried more than MaxAttempts times and no
\* pause is longer than MaxDelay.
THEOREM TypeCorrect == Spec => []TypeOK
<1>1. IInv => TypeOK
  BY DEF IInv
<1> QED
  BY <1>1, Invariant, PTL

\* embed returns one vector for every text, in the order of the texts, whatever was
\* batched, retried and paused.
THEOREM ResultIsTheRequests == Spec => []ResultMatchesRequest
<1>1. IInv => ResultMatchesRequest
  BY DEF IInv
<1> QED
  BY <1>1, Invariant, PTL

\* The vectors received are always those of the first texts, so the orchestrator's
\* count check never refuses the adapter's result.
THEOREM VectorsStayAligned == Spec => []VectorsAreAPrefix
<1>1. IInv => VectorsAreAPrefix
  BY DEF IInv
<1> QED
  BY <1>1, Invariant, PTL

\* Every call to Vertex is for a request within its budget, and is the first for its
\* batch or follows a passing failure of the same batch, after a pause that starts anew
\* with the batch and doubles, MaxAttempts at most.
THEOREM CallsHaveReasons == Spec => []CallsAreJustified
<1>1. IInv => CallsAreJustified
  BY DEF IInv
<1> QED
  BY <1>1, Invariant, PTL

\* A passing failure ends the request only after MaxAttempts failures in a row of one
\* batch or at the deadline.
THEOREM FailuresHaveReasons == Spec => []FailureIsJustified
<1>1. IInv => FailureIsJustified
  BY DEF IInv
<1> QED
  BY <1>1, Invariant, PTL

LEMMA RefusalStep ==
  ASSUME IInv, RefusedBeforeBilling, [Next]_vars
  PROVE  RefusedBeforeBilling'
<1>0. IInv' /\ SentWithinBudget'
  BY Inductive DEF IInv
<1>1. request' = request
  BY DEF Next, Preflight, Embedded, Malformed, Fails, Wakes, Expires, Cancelled, Tick, Done, vars
<1>2. UpperBound(request)' = UpperBound(request) /\ UpperBound(request) \in Nat
  BY <1>1, BudgetAssumption DEF UpperBound, IInv, TypeOK
<1>3. log' # <<>> => UpperBound(request)' <= MaxInputTokens
  BY <1>0 DEF SentWithinBudget
<1>4. ASSUME outcome' = "invalid_request"
      PROVE  log' = <<>> \/ log'[Len(log')].result = "invalid_request" \/ tokens' > UpperBound(request)'
  <2>1. CASE Preflight
    BY <2>1 DEF Preflight, IInv, OpenUntilDone
  <2>2. ASSUME NEW reported \in 0..MaxReported, Embedded(reported)
        PROVE  tokens' > UpperBound(request)'
    <3>1. tokens' > MaxInputTokens /\ UpperBound(request) <= MaxInputTokens
      <4>1. outcome # "invalid_request"
        BY <2>2 DEF Embedded, IInv, OpenUntilDone
      <4>2. tokens' > MaxInputTokens
        BY <1>4, <2>2, <4>1 DEF Embedded, NextBatch, Return, Finish
      <4>3. UpperBound(request) <= MaxInputTokens
        BY <2>2 DEF Embedded, IInv, SentWithinBudget
      <4> QED
        BY <4>2, <4>3
    <3>2. tokens' \in Nat
      BY <1>0 DEF IInv, TypeOK
    <3> QED
      BY <1>2, <3>1, <3>2, BudgetAssumption
  <2>3. CASE Malformed
    BY <1>4, <2>3 DEF Malformed, Finish
  <2>4. ASSUME NEW failure \in Failures, Fails(failure)
        PROVE  log'[Len(log')].result = "invalid_request"
    <3>1. ErrorCode(failure) = "invalid_request"
      <4>1. outcome # "invalid_request"
        BY <2>4 DEF Fails, IInv, OpenUntilDone
      <4> QED
        BY <1>4, <2>4, <4>1 DEF Fails, Finish
    <3>2. Answered("invalid_request") /\ pc = "calling"
      BY <2>4, <3>1 DEF Fails
    <3> QED
      BY <1>1, <3>2, AnswerIsJustified DEF Codes
  <2>5. CASE Wakes \/ Expires \/ Cancelled
    BY <1>4, <2>5 DEF Wakes, Expires, Cancelled, Finish, IInv, OpenUntilDone
  <2>6. CASE Tick \/ Done \/ UNCHANGED vars
    BY <1>2, <1>4, <2>6 DEF Tick, Done, vars, RefusedBeforeBilling
  <2> QED
    BY <2>1, <2>2, <2>3, <2>4, <2>5, <2>6 DEF Next
<1> QED
  BY <1>3, <1>4 DEF RefusedBeforeBilling

\* No call is paid for a request whose upper bound is over its token budget, and one
\* that was called for is refused for its size only when Vertex counts more than that.
THEOREM RefusedBeforeCalls == Spec => []RefusedBeforeBilling
<1>1. Init => RefusedBeforeBilling
  BY DEF Init, RefusedBeforeBilling
<1> QED
  BY <1>1, Initially, Inductive, RefusalStep, PTL DEF Spec
================================================================================
