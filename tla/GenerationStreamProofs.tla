------------------------ MODULE GenerationStreamProofs ------------------------
(* Theorems of GenerationStream: for every budget, lateness of the timers and   *)
(* number of events.                                                            *)
EXTENDS GenerationStream, TLAPS

\* The budget is accounted for: what is left and what the provider used add up, the
\* wait under way included.
Accounted ==
  /\ pc = "waiting" =>
       used = Timeout - remaining + since /\ since <= remaining + Overrun
  /\ pc # "waiting" => used = Timeout - remaining

\* The generator's flags tell what the consumer was given.
FlagsTrack == (complete_seen <=> completed) /\ (delta_seen => deltas > 0)

\* Only an ended stream has an outcome.
OpenUntilEnded == outcome = "open" <=> pc # "ended"

IInv == TypeOK /\ Accounted /\ FlagsTrack /\ OpenUntilEnded /\ TimeoutIsTheProviders

LEMMA Initially == Init => IInv
<1> SUFFICES ASSUME Init PROVE IInv
  OBVIOUS
<1> USE BudgetAssumption DEF Init
<1>1. TypeOK
  <2>1. complete_seen \in BOOLEAN /\ delta_seen \in BOOLEAN /\ completed \in BOOLEAN
    BY Zenon
  <2>2. remaining \in (0 - Overrun)..Timeout /\ sent \in 0..MaxEvents
    OBVIOUS
  <2> QED
    BY <2>1, <2>2 DEF TypeOK
<1>2. Accounted /\ OpenUntilEnded /\ TimeoutIsTheProviders
  BY DEF Accounted, OpenUntilEnded, TimeoutIsTheProviders
<1>3. FlagsTrack
  BY Zenon DEF FlagsTrack
<1> QED
  BY <1>1, <1>2, <1>3 DEF IInv

LEMMA Inductive == IInv /\ [Next]_vars => IInv'
<1> SUFFICES ASSUME IInv, [Next]_vars PROVE IInv'
  OBVIOUS
<1> USE BudgetAssumption
    DEF IInv, TypeOK, Accounted, FlagsTrack, OpenUntilEnded, TimeoutIsTheProviders,
        stream, ended, Codes, Events, End, ProtocolError, Charge, Yield
<1>1. ASSUME NEW supported \in BOOLEAN, Start(supported) PROVE IInv'
  BY <1>1 DEF Start
<1>2. CASE Wait
  BY <1>2 DEF Wait
<1>3. ASSUME NEW event \in Events, Receive(event) PROVE IInv'
  <2>1. CASE complete_seen \/ event \in {"mismatched", "unknown"}
    BY <1>3, <2>1 DEF Receive
  <2>2. CASE ~complete_seen /\ event = "delta"
    <3>1. deltas' = deltas + 1 /\ UNCHANGED <<complete_seen, completed>>
      BY <1>3, <2>2 DEF Receive
    <3> QED
      BY <1>3, <2>2, <3>1 DEF Receive
  <2>3. CASE ~complete_seen /\ event = "complete"
    BY <1>3, <2>3 DEF Receive
  <2> QED
    BY <2>1, <2>2, <2>3
<1>4. CASE Stops
  BY <1>4 DEF Stops
<1>5. ASSUME NEW code \in Codes, Raises(code) PROVE IInv'
  BY <1>5 DEF Raises
<1>6. CASE Expires
  BY <1>6 DEF Expires
<1>7. CASE Resume
  BY <1>7 DEF Resume
<1>8. CASE Abandon
  BY <1>8 DEF Abandon
<1>9. CASE WaitTick
  BY <1>9 DEF WaitTick
<1>10. CASE PauseTick
  BY <1>10 DEF PauseTick
<1>11. CASE UNCHANGED vars
  BY <1>11 DEF vars
<1> QED
  BY <1>1, <1>2, <1>3, <1>4, <1>5, <1>6, <1>7, <1>8, <1>9, <1>10, <1>11 DEF Next, Generator, Ended

\* The inductive invariant holds in every reachable state.
THEOREM Invariant == Spec => []IInv
  BY Initially, Inductive, PTL DEF Spec

\* Every variable keeps its type; what is left of the budget in particular never
\* falls below the lateness of one timer.
THEOREM TypeCorrect == Spec => []TypeOK
<1>1. IInv => TypeOK
  BY DEF IInv
<1> QED
  BY <1>1, Invariant, PTL

\* stream_generation spends no more time on the provider than the request's budget,
\* the lateness of one timer aside, whatever events the provider sends when.
THEOREM BudgetIsOfTheRequest == Spec => []ProviderTimeIsBounded
<1>1. IInv => ProviderTimeIsBounded
  BY BudgetAssumption DEF IInv, TypeOK, Accounted, ProviderTimeIsBounded
<1> QED
  BY <1>1, Invariant, PTL

\* The orchestrator raises a timeout only when the provider used the budget up: time
\* the consumer takes is never charged.
THEOREM ConsumerTimeIsFree == Spec => []TimeoutIsTheProviders
<1>1. IInv => TimeoutIsTheProviders
  BY DEF IInv
<1> QED
  BY <1>1, Invariant, PTL

LEMMA ContractInit == Init => Contract!Init
  BY DEF Init, Contract!Init

LEMMA ContractStep == IInv /\ [Next]_vars => [Contract!Next]_(Contract!vars)
<1> SUFFICES ASSUME IInv, [Next]_vars PROVE [Contract!Next]_(Contract!vars)
  OBVIOUS
<1> USE DEF IInv, TypeOK, FlagsTrack, OpenUntilEnded, stream, ended, Codes, Events,
            End, ProtocolError, Charge, Yield,
            Contract!Next, Contract!vars, Contract!Delta, Contract!Complete, Contract!Return, Contract!Stop
<1>1. ASSUME NEW supported \in BOOLEAN, Start(supported) PROVE [Contract!Next]_(Contract!vars)
  BY <1>1 DEF Start
<1>2. CASE Wait
  BY <1>2 DEF Wait
<1>3. ASSUME NEW event \in Events, Receive(event) PROVE [Contract!Next]_(Contract!vars)
  BY <1>3 DEF Receive
<1>4. CASE Stops
  BY <1>4 DEF Stops
<1>5. ASSUME NEW code \in Codes, Raises(code) PROVE [Contract!Next]_(Contract!vars)
  BY <1>5 DEF Raises
<1>6. CASE Expires
  BY <1>6 DEF Expires
<1>7. CASE Resume
  BY <1>7 DEF Resume
<1>8. CASE Abandon
  BY <1>8 DEF Abandon
<1>9. CASE WaitTick
  BY <1>9 DEF WaitTick
<1>10. CASE PauseTick
  BY <1>10 DEF PauseTick
<1>11. CASE UNCHANGED vars
  BY <1>11 DEF vars
<1> QED
  BY <1>1, <1>2, <1>3, <1>4, <1>5, <1>6, <1>7, <1>8, <1>9, <1>10, <1>11 DEF Next, Generator, Ended

\* stream_generation implements its contract: deltas, then at most one completion,
\* nothing after it, and a normal end only after both.
THEOREM KeepsContract == Spec => ImplementsContract
  BY ContractInit, ContractStep, Invariant, PTL DEF Spec, ImplementsContract, Contract!Spec
===============================================================================
