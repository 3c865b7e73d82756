--------------------------- MODULE LlmCallsProofs ---------------------------
(***************************************************************************)
(* The properties of LlmCalls for every number of threads, attempts and    *)
(* failures.                                                               *)
(***************************************************************************)
EXTENDS LlmCalls, TLAPS

LEMMA ProvidersAreCircuits ==
    Cloud \subseteq Providers /\ Providers \subseteq Circuits /\ "reasoning" \notin Providers
BY DEF Cloud, Providers, Circuits

-----------------------------------------------------------------------------
(* Types: a loop of attempts never goes past its bound.                    *)

Bounded(place, n) ==
    /\ place \in Providers \cup {"nim", "chat"} => n < MaxAttempts
    /\ place \in {"check", "invoking"} => n < MaxInvocations
    /\ place = "idle" => n = 0

AttemptInv == \A t \in Threads : Bounded(at[t], tries[t])

BoundedInv == TypeOK /\ AttemptInv

Count == {n \in Nat : n < MaxAttempts \/ n < MaxInvocations}

LEMMA NextTierTyped ==
    ASSUME NEW t \in Threads, at[t] \in Providers, NEW end
    PROVE  NextTier(t, end) \in {"groq", "openrouter", "ollama", "unavailable"}
BY DEF NextTier, BelowNvidia, BelowGroq, Providers, Cloud

LEMMA FirstTierTyped ==
    ASSUME NEW keys PROVE FirstTier(keys) \in Providers
BY DEF FirstTier, BelowNvidia, Providers, Cloud

(* A circuit after the calls of the breaker is a circuit.                  *)
Circuit == [state : {"closed", "open", "half"}, fails : 0 .. FailMax,
            holder : Threads \cup {NoThread}]

LEMMA CircuitTyped ==
    ASSUME NEW k \in Circuit, NEW t \in Threads
    PROVE  Fresh \in Circuit /\ Entered(k, t) \in Circuit /\ Failed(k) \in Circuit
<1>1. FailMax \in Nat /\ k.fails \in 0 .. FailMax
  BY LlmConstants DEF LlmConstants, Circuit
<1>2. Fresh \in Circuit
  BY <1>1 DEF Fresh, Circuit
<1>3. Entered(k, t) \in Circuit
  BY DEF Entered, Circuit
<1>4. Failed(k) \in Circuit
  BY <1>1 DEF Failed, Circuit
<1> QED BY <1>2, <1>3, <1>4

LEMMA CircuitUpdateTyped ==
    ASSUME TypeOK, NEW c \in Circuits, NEW k \in Circuit,
           circuit' = [circuit EXCEPT ![c] = k]
    PROVE  circuit' \in [Circuits -> Circuit]
BY DEF TypeOK, Circuit

LEMMA StreakTyped ==
    ASSUME TypeOK, NEW p \in Providers
    PROVE  /\ StreakGrows(p) => streak' \in [Providers -> 0 .. FailMax * MaxAttempts]
           /\ streak' = [streak EXCEPT ![p] = 0]
                 => streak' \in [Providers -> 0 .. FailMax * MaxAttempts]
<1> DEFINE Top == FailMax * MaxAttempts
<1>1. Top \in Nat
  BY LlmConstants DEF LlmConstants
<1>2. streak \in [Providers -> 0 .. Top]
  BY DEF TypeOK
<1> HIDE DEF Top
<1>3. streak[p] \in 0 .. Top
  BY <1>2
<1>4. (IF streak[p] < Top THEN streak[p] + 1 ELSE streak[p]) \in 0 .. Top /\ 0 \in 0 .. Top
  BY <1>1, <1>3
<1> QED BY <1>2, <1>4 DEF StreakGrows, Top

LEMMA BoundedInit == Init => BoundedInv
<1> SUFFICES ASSUME Init PROVE BoundedInv
  OBVIOUS
<1>1. FailMax * MaxAttempts \in Nat /\ MaxAttempts > 0 /\ MaxInvocations > 0
  BY LlmConstants DEF LlmConstants
<1>2. circuit \in [Circuits -> Circuit]
  BY LlmConstants DEF Init, Fresh, Circuit, LlmConstants
<1>3. streak \in [Providers -> 0 .. FailMax * MaxAttempts]
  BY <1>1 DEF Init
<1>4. tries \in [Threads -> Count]
  BY <1>1 DEF Init, Count
<1>5. env \in SUBSET Cloud
  BY LlmConstants DEF Init, LlmConstants
<1>6. AttemptInv
  BY <1>1 DEF Init, AttemptInv, Bounded, Providers, Cloud
<1> QED
  BY <1>2, <1>3, <1>4, <1>5, <1>6
     DEF BoundedInv, TypeOK, Init, Circuit, Count, Places

(* Places that bound nothing, and the number that is always allowed.       *)
Loose == Outcomes \cup {"answered", "unavailable", "queued", "start", "ended"}

LEMMA LooselyBounded ==
    /\ \A place \in Loose, n \in Count : place \in Places /\ Bounded(place, n)
    /\ 0 \in Count /\ \A place : Bounded(place, 0)
<1>1. MaxAttempts > 0 /\ MaxInvocations > 0
  BY LlmConstants DEF LlmConstants
<1>2. Loose \subseteq Places
  BY DEF Loose, Places
<1>3. ASSUME NEW place \in Loose
      PROVE  /\ place \notin Providers \cup {"nim", "chat"}
             /\ place \notin {"check", "invoking"} /\ place # "idle"
  BY DEF Loose, Outcomes, Providers, Cloud
<1>4. \A place \in Loose, n \in Count : place \in Places /\ Bounded(place, n)
  BY <1>2, <1>3 DEF Bounded
<1>5. 0 \in Count /\ \A place : Bounded(place, 0)
  BY <1>1 DEF Count, Bounded
<1> QED BY <1>4, <1>5

(* A step moves one thread to a place, with a number of attempts.          *)
LEMMA MoveBounded ==
    ASSUME BoundedInv, NEW t \in Threads, NEW place \in Places, NEW n \in Count,
           Bounded(place, n),
           at' = [at EXCEPT ![t] = place], tries' = [tries EXCEPT ![t] = n]
    PROVE  at' \in [Threads -> Places] /\ tries' \in [Threads -> Count] /\ AttemptInv'
<1>1. at \in [Threads -> Places] /\ tries \in [Threads -> Count] /\ AttemptInv
  BY DEF BoundedInv, TypeOK, Count
<1>3. ASSUME NEW u \in Threads PROVE Bounded(at'[u], tries'[u])
  <2>1. CASE u = t
    BY <1>1, <2>1
  <2>2. CASE u # t
    BY <1>1, <2>2 DEF AttemptInv
  <2> QED BY <2>1, <2>2
<1> QED BY <1>1, <1>3 DEF AttemptInv

LEMMA BoundedStep == BoundedInv /\ [Next]_vars => BoundedInv'
<1> SUFFICES ASSUME BoundedInv, [Next]_vars PROVE BoundedInv'
  OBVIOUS
<1>0. /\ at \in [Threads -> Places] /\ tries \in [Threads -> Count]
      /\ circuit \in [Circuits -> Circuit]
      /\ cached \in SUBSET Providers /\ asked \in [Threads -> SUBSET Providers]
      /\ said \in [Threads -> {"none", "empty"} \cup Ends] /\ tripped \in SUBSET Threads
      /\ own \in [Threads -> SUBSET Cloud] /\ OwnKeys \in SUBSET SUBSET Cloud
      /\ job \in [Threads -> {"none", "waits"} \cup Outcomes]
      /\ cancel \in [Threads -> BOOLEAN] /\ late \in [Threads -> Nat]
  BY LlmConstants DEF BoundedInv, LlmConstants, TypeOK, Count, Circuit
<1>t. ASSUME NEW t \in Threads
      PROVE  /\ at[t] \in Places /\ tries[t] \in Count /\ tries[t] \in Nat
             /\ Bounded(at[t], tries[t])
  BY <1>0 DEF Count, BoundedInv, AttemptInv
<1>1. ASSUME NEW t \in Threads, BeginsFallback(t)
      PROVE  BoundedInv'
  <2>1. at' = [at EXCEPT ![t] = at'[t]] /\ tries' = [tries EXCEPT ![t] = tries[t]]
    BY <1>0, <1>1 DEF BeginsFallback
  <2>2. at'[t] \in Places /\ tries[t] \in Count /\ Bounded(at'[t], tries[t])
    <3>1. at'[t] \in Providers
      BY <1>0, <1>1, FirstTierTyped DEF BeginsFallback
    <3>2. tries[t] = 0
      BY <1>t, <1>1 DEF BeginsFallback, Bounded
    <3> QED BY <3>1, <3>2, LooselyBounded DEF Places
  <2>3. at' \in [Threads -> Places] /\ tries' \in [Threads -> Count] /\ AttemptInv'
    BY <2>1, <2>2, MoveBounded
  <2>4. own' \in [Threads -> SUBSET Cloud]
    BY <1>0, <1>1 DEF BeginsFallback
  <2> QED
    BY <1>1, <2>3, <2>4
    DEF BeginsFallback, BoundedInv, TypeOK, Count, Circuit, reasoningVars, requestVars
<1>2. ASSUME NEW t \in Threads, EntersCircuit(t)
      PROVE  BoundedInv'
  <2>1. at' = [at EXCEPT ![t] = at[t]] /\ tries' = [tries EXCEPT ![t] = 0]
    BY <1>0, <1>2 DEF EntersCircuit
  <2>2. at[t] \in Places /\ 0 \in Count /\ Bounded(at[t], 0)
    BY <1>t, LooselyBounded
  <2>3. at' \in [Threads -> Places] /\ tries' \in [Threads -> Count] /\ AttemptInv'
    BY <2>1, <2>2, MoveBounded
  <2>4. circuit' \in [Circuits -> Circuit]
    <3>1. at[t] \in Circuits /\ circuit[at[t]] \in Circuit
      BY <1>0, <1>2 DEF EntersCircuit, Circuits
    <3> QED BY <1>0, <1>2, <3>1, CircuitTyped DEF EntersCircuit
  <2>5. asked' \in [Threads -> SUBSET Providers]
    BY <1>0, <1>2 DEF EntersCircuit
  <2> QED
    BY <1>2, <2>3, <2>4, <2>5
    DEF EntersCircuit, BoundedInv, TypeOK, Count, Circuit, reasoningVars, requestVars
<1>3. ASSUME NEW t \in Threads, IsRefused(t)
      PROVE  BoundedInv'
  <2>1. at' = [at EXCEPT ![t] = NextTier(t, "open")] /\ tries' = [tries EXCEPT ![t] = tries[t]]
    BY <1>0, <1>3 DEF IsRefused
  <2>2. NextTier(t, "open") \in Places /\ tries[t] \in Count /\ Bounded(NextTier(t, "open"), tries[t])
    BY <1>0, <1>t, <1>3, NextTierTyped DEF IsRefused, Bounded, Places, Providers, Cloud
  <2>3. at' \in [Threads -> Places] /\ tries' \in [Threads -> Count] /\ AttemptInv'
    BY <2>1, <2>2, MoveBounded
  <2>4. asked' \in [Threads -> SUBSET Providers]
    BY <1>0, <1>3 DEF IsRefused
  <2> QED
    BY <1>3, <2>3, <2>4
    DEF IsRefused, BoundedInv, TypeOK, Count, Circuit, reasoningVars, requestVars
<1>4. ASSUME NEW t \in Threads, FindsCached(t)
      PROVE  BoundedInv'
  <2>1. at' = [at EXCEPT ![t] = "answered"] /\ tries' = [tries EXCEPT ![t] = tries[t]]
    BY <1>0, <1>4 DEF FindsCached
  <2>2. "answered" \in Places /\ tries[t] \in Count /\ Bounded("answered", tries[t])
    BY <1>t, LooselyBounded DEF Loose, Outcomes
  <2>3. at' \in [Threads -> Places] /\ tries' \in [Threads -> Count] /\ AttemptInv'
    BY <2>1, <2>2, MoveBounded
  <2>4. circuit' \in [Circuits -> Circuit]
    <3>1. at[t] \in Circuits /\ circuit[at[t]] \in Circuit
      BY <1>0, <1>4 DEF FindsCached, Circuits, Providers, Cloud
    <3> QED BY <1>0, <1>4, <3>1, CircuitTyped DEF FindsCached, LeavesCircuit
  <2>5. streak' \in [Providers -> 0 .. FailMax * MaxAttempts]
    <3>1. at[t] \in Providers
      BY <1>0, <1>4 DEF FindsCached
    <3> QED BY <1>4, <3>1, StreakTyped DEF FindsCached, BoundedInv, LeavesCircuit
  <2> QED
    BY <1>4, <2>3, <2>4, <2>5
    DEF FindsCached, BoundedInv, TypeOK, Count, Circuit, reasoningVars, requestVars
<1>5. ASSUME NEW t \in Threads, IsAnswered(t)
      PROVE  BoundedInv'
  <2>1. at' = [at EXCEPT ![t] = "answered"] /\ tries' = [tries EXCEPT ![t] = tries[t]]
    BY <1>0, <1>5 DEF IsAnswered
  <2>2. "answered" \in Places /\ tries[t] \in Count /\ Bounded("answered", tries[t])
    BY <1>t, LooselyBounded DEF Loose, Outcomes
  <2>3. at' \in [Threads -> Places] /\ tries' \in [Threads -> Count] /\ AttemptInv'
    BY <2>1, <2>2, MoveBounded
  <2>4. circuit' \in [Circuits -> Circuit]
    <3>1. at[t] \in Circuits /\ circuit[at[t]] \in Circuit
      BY <1>0, <1>5 DEF IsAnswered, Circuits, Providers, Cloud
    <3> QED BY <1>0, <1>5, <3>1, CircuitTyped DEF IsAnswered, LeavesCircuit
  <2>5. streak' \in [Providers -> 0 .. FailMax * MaxAttempts]
    <3>1. at[t] \in Providers
      BY <1>0, <1>5 DEF IsAnswered
    <3> QED BY <1>5, <3>1, StreakTyped DEF IsAnswered, BoundedInv, LeavesCircuit
  <2>6. cached' \in SUBSET Providers
    BY <1>0, <1>5 DEF IsAnswered
  <2> QED
    BY <1>5, <2>3, <2>4, <2>5, <2>6
    DEF IsAnswered, BoundedInv, TypeOK, Count, Circuit, reasoningVars, requestVars
<1>6. ASSUME NEW t \in Threads, GetsNothing(t)
      PROVE  BoundedInv'
  <2>1. at' = [at EXCEPT ![t] = NextTier(t, "empty")] /\ tries' = [tries EXCEPT ![t] = tries[t]]
    BY <1>0, <1>6 DEF GetsNothing
  <2>2. NextTier(t, "empty") \in Places /\ tries[t] \in Count /\ Bounded(NextTier(t, "empty"), tries[t])
    BY <1>0, <1>t, <1>6, NextTierTyped DEF GetsNothing, Bounded, Places, Providers, Cloud
  <2>3. at' \in [Threads -> Places] /\ tries' \in [Threads -> Count] /\ AttemptInv'
    BY <2>1, <2>2, MoveBounded
  <2>4. circuit' \in [Circuits -> Circuit]
    <3>1. at[t] \in Circuits /\ circuit[at[t]] \in Circuit
      BY <1>0, <1>6 DEF GetsNothing, Circuits, Providers, Cloud
    <3> QED BY <1>0, <1>6, <3>1, CircuitTyped DEF GetsNothing, LeavesCircuit
  <2>5. streak' \in [Providers -> 0 .. FailMax * MaxAttempts]
    <3>1. at[t] \in Providers
      BY <1>0, <1>6 DEF GetsNothing
    <3> QED BY <1>6, <3>1, StreakTyped DEF GetsNothing, BoundedInv, LeavesCircuit
  <2>6. said' \in [Threads -> {"none", "empty"} \cup Ends]
    BY <1>0, <1>6 DEF GetsNothing
  <2> QED
    BY <1>6, <2>3, <2>4, <2>5, <2>6
    DEF GetsNothing, BoundedInv, TypeOK, Count, Circuit, reasoningVars, requestVars
<1>7. ASSUME NEW t \in Threads, TriesAgain(t)
      PROVE  BoundedInv'
  <2>1. at' = [at EXCEPT ![t] = at[t]] /\ tries' = [tries EXCEPT ![t] = tries[t] + 1]
    BY <1>0, <1>7 DEF TriesAgain
  <2>2. at[t] \in Places /\ tries[t] + 1 \in Count /\ Bounded(at[t], tries[t] + 1)
    <3>1. at[t] \in Providers /\ tries[t] + 1 # MaxAttempts
      BY <1>7 DEF TriesAgain, LastAttempt
    <3>2. tries[t] < MaxAttempts
      BY <1>t, <3>1 DEF Bounded
    <3>3. tries[t] + 1 \in Nat /\ tries[t] + 1 < MaxAttempts
      BY <1>t, <3>1, <3>2, LlmConstants DEF LlmConstants
    <3>4. at[t] \notin {"check", "invoking", "idle"}
      BY <3>1 DEF Providers, Cloud
    <3> QED BY <1>t, <3>3, <3>4 DEF Bounded, Count
  <2>3. at' \in [Threads -> Places] /\ tries' \in [Threads -> Count] /\ AttemptInv'
    BY <2>1, <2>2, MoveBounded
  <2>4. streak' \in [Providers -> 0 .. FailMax * MaxAttempts]
    <3>1. at[t] \in Providers
      BY <1>0, <1>7 DEF TriesAgain
    <3> QED BY <1>7, <3>1, StreakTyped DEF TriesAgain, BoundedInv
  <2> QED
    BY <1>7, <2>3, <2>4
    DEF TriesAgain, BoundedInv, TypeOK, Count, Circuit, reasoningVars, requestVars
<1>8. ASSUME NEW t \in Threads, NEW why \in {"error", "rate"}, Fails(t, why)
      PROVE  BoundedInv'
  <2>1. at' = [at EXCEPT ![t] = at'[t]] /\ tries' = [tries EXCEPT ![t] = tries[t]]
    BY <1>0, <1>8 DEF Fails
  <2>2. at'[t] \in Places /\ tries[t] \in Count /\ Bounded(at'[t], tries[t])
    BY <1>0, <1>t, <1>8, NextTierTyped DEF Fails, Bounded, Places, Providers, Cloud
  <2>3. at' \in [Threads -> Places] /\ tries' \in [Threads -> Count] /\ AttemptInv'
    BY <2>1, <2>2, MoveBounded
  <2>4. circuit' \in [Circuits -> Circuit]
    <3>1. at[t] \in Circuits /\ circuit[at[t]] \in Circuit
      BY <1>0, <1>8 DEF Fails, Circuits
    <3> QED BY <1>0, <1>8, <3>1, CircuitTyped DEF Fails
  <2>5. streak' \in [Providers -> 0 .. FailMax * MaxAttempts]
    <3>1. at[t] \in Providers
      BY <1>0, <1>8 DEF Fails
    <3> QED BY <1>8, <3>1, StreakTyped DEF Fails, BoundedInv
  <2>6. /\ said' \in [Threads -> {"none", "empty"} \cup Ends]
        /\ tripped' \in SUBSET Threads
    BY <1>0, <1>8 DEF Fails, Ends
  <2> QED
    BY <1>8, <2>3, <2>4, <2>5, <2>6
    DEF Fails, BoundedInv, TypeOK, Count, Circuit, reasoningVars, requestVars
<1>9. ASSUME NEW t \in Threads, BeginsReasoning(t)
      PROVE  BoundedInv'
  <2>1. at' = [at EXCEPT ![t] = "queued"] /\ tries' = [tries EXCEPT ![t] = tries[t]]
    BY <1>0, <1>9 DEF BeginsReasoning
  <2>2. "queued" \in Places /\ tries[t] \in Count /\ Bounded("queued", tries[t])
    BY <1>t, LooselyBounded DEF Loose, Outcomes
  <2>3. at' \in [Threads -> Places] /\ tries' \in [Threads -> Count] /\ AttemptInv'
    BY <2>1, <2>2, MoveBounded
  <2> QED
    BY <1>9, <2>3
    DEF BeginsReasoning, BoundedInv, TypeOK, Count, Circuit, reasoningVars, requestVars
<1>10. ASSUME NEW t \in Threads, TimesOut(t)
      PROVE  BoundedInv'
  <2>1. at' = [at EXCEPT ![t] = at[t]] /\ tries' = [tries EXCEPT ![t] = tries[t]]
    BY <1>0, <1>10 DEF TimesOut
  <2>2. at[t] \in Places /\ tries[t] \in Count /\ Bounded(at[t], tries[t])
    BY <1>t
  <2>3. at' \in [Threads -> Places] /\ tries' \in [Threads -> Count] /\ AttemptInv'
    BY <2>1, <2>2, MoveBounded
  <2> QED
    BY <1>10, <2>3
    DEF TimesOut, BoundedInv, TypeOK, Count, Circuit, reasoningVars, requestVars
<1>11. ASSUME NEW t \in Threads, EntersEngine(t)
      PROVE  BoundedInv'
  <2>1. at' = [at EXCEPT ![t] = "start"] /\ tries' = [tries EXCEPT ![t] = tries[t]]
    BY <1>0, <1>11 DEF EntersEngine
  <2>2. "start" \in Places /\ tries[t] \in Count /\ Bounded("start", tries[t])
    BY <1>t, LooselyBounded DEF Loose, Outcomes
  <2>3. at' \in [Threads -> Places] /\ tries' \in [Threads -> Count] /\ AttemptInv'
    BY <2>1, <2>2, MoveBounded
  <2>4. circuit' \in [Circuits -> Circuit]
    <3>1. "reasoning" \in Circuits /\ circuit["reasoning"] \in Circuit
      BY <1>0, <1>11 DEF EntersEngine, Circuits
    <3> QED BY <1>0, <1>11, <3>1, CircuitTyped DEF EntersEngine
  <2> QED
    BY <1>11, <2>3, <2>4
    DEF EntersEngine, BoundedInv, TypeOK, Count, Circuit, reasoningVars, requestVars
<1>12. ASSUME NEW t \in Threads, Starts(t)
      PROVE  BoundedInv'
  <2>1. at' = [at EXCEPT ![t] = at'[t]] /\ tries' = [tries EXCEPT ![t] = 0]
    BY <1>0, <1>12 DEF Starts
  <2>2. at'[t] \in Places /\ 0 \in Count /\ Bounded(at'[t], 0)
    BY <1>0, <1>12, LooselyBounded DEF Starts, Places, Outcomes
  <2>3. at' \in [Threads -> Places] /\ tries' \in [Threads -> Count] /\ AttemptInv'
    BY <2>1, <2>2, MoveBounded
  <2> QED
    BY <1>12, <2>3
    DEF Starts, BoundedInv, TypeOK, Count, Circuit, reasoningVars, requestVars
<1>13. ASSUME NEW t \in Threads, NimAdvises(t)
      PROVE  BoundedInv'
  <2>1. at' = [at EXCEPT ![t] = "nvidia advice"] /\ tries' = [tries EXCEPT ![t] = tries[t]]
    BY <1>0, <1>13 DEF NimAdvises
  <2>2. "nvidia advice" \in Places /\ tries[t] \in Count /\ Bounded("nvidia advice", tries[t])
    BY <1>t, LooselyBounded DEF Loose, Outcomes
  <2>3. at' \in [Threads -> Places] /\ tries' \in [Threads -> Count] /\ AttemptInv'
    BY <2>1, <2>2, MoveBounded
  <2> QED
    BY <1>13, <2>3
    DEF NimAdvises, BoundedInv, TypeOK, Count, Circuit, reasoningVars, requestVars
<1>14. ASSUME NEW t \in Threads, NimBabbles(t)
      PROVE  BoundedInv'
  <2>1. at' = [at EXCEPT ![t] = "check"] /\ tries' = [tries EXCEPT ![t] = 0]
    BY <1>0, <1>14 DEF NimBabbles
  <2>2. "check" \in Places /\ 0 \in Count /\ Bounded("check", 0)
    BY LooselyBounded DEF Places
  <2>3. at' \in [Threads -> Places] /\ tries' \in [Threads -> Count] /\ AttemptInv'
    BY <2>1, <2>2, MoveBounded
  <2> QED
    BY <1>14, <2>3
    DEF NimBabbles, BoundedInv, TypeOK, Count, Circuit, reasoningVars, requestVars
<1>15. ASSUME NEW t \in Threads, NimIsSilent(t)
      PROVE  BoundedInv'
  <2>1. at' = [at EXCEPT ![t] = GoesOn(t)] /\ tries' = [tries EXCEPT ![t] = 0]
    BY <1>0, <1>15 DEF NimIsSilent
  <2>2. GoesOn(t) \in Places /\ 0 \in Count /\ Bounded(GoesOn(t), 0)
    BY LooselyBounded DEF GoesOn, Places
  <2>3. at' \in [Threads -> Places] /\ tries' \in [Threads -> Count] /\ AttemptInv'
    BY <2>1, <2>2, MoveBounded
  <2>4. late' \in [Threads -> Nat]
    BY <1>0, <1>15 DEF NimIsSilent, BeginsAttempt
  <2> QED
    BY <1>15, <2>3, <2>4
    DEF NimIsSilent, BoundedInv, TypeOK, Count, Circuit, reasoningVars, requestVars
<1>16. ASSUME NEW t \in Threads, NimTriesAgain(t)
      PROVE  BoundedInv'
  <2>1. at' = [at EXCEPT ![t] = at[t]] /\ tries' = [tries EXCEPT ![t] = tries[t] + 1]
    BY <1>0, <1>16 DEF NimTriesAgain
  <2>2. at[t] \in Places /\ tries[t] + 1 \in Count /\ Bounded(at[t], tries[t] + 1)
    <3>1. at[t] \in {"nim", "chat"} /\ tries[t] + 1 # MaxAttempts
      BY <1>16 DEF NimTriesAgain, LastAttempt
    <3>2. tries[t] < MaxAttempts
      BY <1>t, <3>1 DEF Bounded
    <3>3. tries[t] + 1 \in Nat /\ tries[t] + 1 < MaxAttempts
      BY <1>t, <3>1, <3>2, LlmConstants DEF LlmConstants
    <3>4. at[t] \notin {"check", "invoking", "idle"}
      BY <3>1 DEF Providers, Cloud
    <3> QED BY <1>t, <3>3, <3>4 DEF Bounded, Count
  <2>3. at' \in [Threads -> Places] /\ tries' \in [Threads -> Count] /\ AttemptInv'
    BY <2>1, <2>2, MoveBounded
  <2>4. late' \in [Threads -> Nat]
    BY <1>0, <1>16 DEF NimTriesAgain, BeginsAttempt
  <2> QED
    BY <1>16, <2>3, <2>4
    DEF NimTriesAgain, BoundedInv, TypeOK, Count, Circuit, reasoningVars, requestVars
<1>17. ASSUME NEW t \in Threads, NimFails(t)
      PROVE  BoundedInv'
  <2>1. at' = [at EXCEPT ![t] = GoesOn(t)] /\ tries' = [tries EXCEPT ![t] = 0]
    BY <1>0, <1>17 DEF NimFails, NimRaises
  <2>2. GoesOn(t) \in Places /\ 0 \in Count /\ Bounded(GoesOn(t), 0)
    BY LooselyBounded DEF GoesOn, Places
  <2>3. at' \in [Threads -> Places] /\ tries' \in [Threads -> Count] /\ AttemptInv'
    BY <2>1, <2>2, MoveBounded
  <2>4. late' \in [Threads -> Nat]
    BY <1>0, <1>17 DEF NimFails, BeginsAttempt
  <2> QED
    BY <1>17, <2>3, <2>4
    DEF NimFails, BoundedInv, TypeOK, Count, Circuit, reasoningVars, requestVars
<1>18. ASSUME NEW t \in Threads, Checks(t)
      PROVE  BoundedInv'
  <2>1. at' = [at EXCEPT ![t] = at'[t]] /\ tries' = [tries EXCEPT ![t] = tries[t]]
    BY <1>0, <1>18 DEF Checks
  <2>2. at'[t] \in Places /\ tries[t] \in Count /\ Bounded(at'[t], tries[t])
    BY <1>0, <1>t, <1>18 DEF Checks, Bounded, Places, Outcomes, Providers, Cloud
  <2>3. at' \in [Threads -> Places] /\ tries' \in [Threads -> Count] /\ AttemptInv'
    BY <2>1, <2>2, MoveBounded
  <2> QED
    BY <1>18, <2>3
    DEF Checks, BoundedInv, TypeOK, Count, Circuit, reasoningVars, requestVars
<1>19. ASSUME NEW t \in Threads, DeepSeekAdvises(t)
      PROVE  BoundedInv'
  <2>1. at' = [at EXCEPT ![t] = "deepseek advice"] /\ tries' = [tries EXCEPT ![t] = tries[t]]
    BY <1>0, <1>19 DEF DeepSeekAdvises
  <2>2. "deepseek advice" \in Places /\ tries[t] \in Count /\ Bounded("deepseek advice", tries[t])
    BY <1>t, LooselyBounded DEF Loose, Outcomes
  <2>3. at' \in [Threads -> Places] /\ tries' \in [Threads -> Count] /\ AttemptInv'
    BY <2>1, <2>2, MoveBounded
  <2> QED
    BY <1>19, <2>3
    DEF DeepSeekAdvises, BoundedInv, TypeOK, Count, Circuit, reasoningVars, requestVars
<1>20. ASSUME NEW t \in Threads, DeepSeekBabbles(t)
      PROVE  BoundedInv'
  <2>1. at' = [at EXCEPT ![t] = "rules"] /\ tries' = [tries EXCEPT ![t] = tries[t]]
    BY <1>0, <1>20 DEF DeepSeekBabbles
  <2>2. "rules" \in Places /\ tries[t] \in Count /\ Bounded("rules", tries[t])
    BY <1>t, LooselyBounded DEF Loose, Outcomes
  <2>3. at' \in [Threads -> Places] /\ tries' \in [Threads -> Count] /\ AttemptInv'
    BY <2>1, <2>2, MoveBounded
  <2> QED
    BY <1>20, <2>3
    DEF DeepSeekBabbles, BoundedInv, TypeOK, Count, Circuit, reasoningVars, requestVars
<1>21. ASSUME NEW t \in Threads, DeepSeekFails(t)
      PROVE  BoundedInv'
  <2>1. at' = [at EXCEPT ![t] = at'[t]] /\ tries' = [tries EXCEPT ![t] = tries'[t]]
    BY <1>0, <1>21 DEF DeepSeekFails
  <2>2. at'[t] \in Places /\ tries'[t] \in Count /\ Bounded(at'[t], tries'[t])
    <3>1. CASE tries[t] + 1 < MaxInvocations
      <4>1. at'[t] = "check" /\ tries'[t] = tries[t] + 1 /\ tries[t] + 1 \in Nat
        BY <1>0, <1>t, <1>21, <3>1 DEF DeepSeekFails
      <4> QED BY <3>1, <4>1 DEF Bounded, Count, Places, Providers, Cloud
    <3>2. CASE ~(tries[t] + 1 < MaxInvocations)
      <4>1. at'[t] = "rules" /\ tries'[t] = 0
        BY <1>0, <1>t, <1>21, <3>2 DEF DeepSeekFails
      <4> QED BY <4>1, LooselyBounded DEF Loose, Outcomes
    <3> QED BY <3>1, <3>2
  <2>3. at' \in [Threads -> Places] /\ tries' \in [Threads -> Count] /\ AttemptInv'
    BY <2>1, <2>2, MoveBounded
  <2> QED
    BY <1>21, <2>3
    DEF DeepSeekFails, BoundedInv, TypeOK, Count, Circuit, reasoningVars, requestVars
<1>22. ASSUME NEW t \in Threads, EndsReasoning(t)
      PROVE  BoundedInv'
  <2>1. at' = [at EXCEPT ![t] = "ended"] /\ tries' = [tries EXCEPT ![t] = tries[t]]
    BY <1>0, <1>22 DEF EndsReasoning
  <2>2. "ended" \in Places /\ tries[t] \in Count /\ Bounded("ended", tries[t])
    BY <1>t, LooselyBounded DEF Loose, Outcomes
  <2>3. at' \in [Threads -> Places] /\ tries' \in [Threads -> Count] /\ AttemptInv'
    BY <2>1, <2>2, MoveBounded
  <2>4. circuit' \in [Circuits -> Circuit]
    <3>1. "reasoning" \in Circuits /\ circuit["reasoning"] \in Circuit
      BY <1>0, <1>22 DEF EndsReasoning, Circuits
    <3> QED BY <1>0, <1>22, <3>1, CircuitTyped DEF EndsReasoning
  <2>5. job' \in [Threads -> {"none", "waits"} \cup Outcomes]
    BY <1>0, <1>22 DEF EndsReasoning
  <2> QED
    BY <1>22, <2>3, <2>4, <2>5
    DEF EndsReasoning, BoundedInv, TypeOK, Count, Circuit, reasoningVars, requestVars
<1>23. ASSUME NEW t \in Threads, Returns(t)
      PROVE  BoundedInv'
  <2>1. at' = [at EXCEPT ![t] = "idle"] /\ tries' = [tries EXCEPT ![t] = 0]
    BY <1>0, <1>23 DEF Returns
  <2>2. "idle" \in Places /\ 0 \in Count /\ Bounded("idle", 0)
    BY LooselyBounded DEF Places
  <2>3. at' \in [Threads -> Places] /\ tries' \in [Threads -> Count] /\ AttemptInv'
    BY <2>1, <2>2, MoveBounded
  <2>4. /\ own' \in [Threads -> SUBSET Cloud] /\ asked' \in [Threads -> SUBSET Providers]
        /\ said' \in [Threads -> {"none", "empty"} \cup Ends] /\ tripped' \in SUBSET Threads
        /\ job' \in [Threads -> {"none", "waits"} \cup Outcomes]
        /\ cancel' \in [Threads -> BOOLEAN] /\ late' \in [Threads -> Nat]
    BY <1>0, <1>23 DEF Returns
  <2> QED
    BY <1>23, <2>3, <2>4
    DEF Returns, BoundedInv, TypeOK, Count, Circuit, reasoningVars, requestVars
<1>24. CASE UNCHANGED vars
  BY <1>0, <1>24 DEF vars, requestVars, reasoningVars, BoundedInv, TypeOK, AttemptInv
<1> QED
  BY <1>1, <1>2, <1>3, <1>4, <1>5, <1>6, <1>7, <1>8, <1>9, <1>10, <1>11, <1>12, 
     <1>13, <1>14, <1>15, <1>16, <1>17, <1>18, <1>19, <1>20, <1>21, <1>22, <1>23, <1>24 DEF Next, Fallback, Reasoning

(* Every variable has its type, whatever the number of threads.            *)
THEOREM TypeCorrect == Spec => []TypeOK
<1>1. BoundedInv => TypeOK
  BY DEF BoundedInv
<1> QED BY <1>1, BoundedInit, BoundedStep, PTL DEF Spec

-----------------------------------------------------------------------------
(* The circuit of the reasoning engine: nothing raises through it.         *)

EngineInv == ReasoningCircuitStaysClosed /\ \A t \in Threads : at[t] # "raised"

(* A move of a thread that leaves the circuit of the engine alone.         *)
LEMMA EngineKept ==
    ASSUME BoundedInv, EngineInv, NEW t \in Threads, NEW place, place # "raised",
           at' = [at EXCEPT ![t] = place], circuit'["reasoning"] = circuit["reasoning"]
    PROVE  EngineInv'
BY DEF EngineInv, ReasoningCircuitStaysClosed, BoundedInv, TypeOK

LEMMA EngineStep == BoundedInv /\ EngineInv /\ [Next]_vars => EngineInv'
<1> SUFFICES ASSUME BoundedInv, EngineInv, [Next]_vars PROVE EngineInv'
  OBVIOUS
<1>0. /\ at \in [Threads -> Places]
      /\ DOMAIN circuit = Circuits /\ "reasoning" \in Circuits
      /\ circuit["reasoning"].state = "closed" /\ circuit["reasoning"].fails = 0
      /\ \A t \in Threads : at[t] # "raised"
  BY DEF BoundedInv, TypeOK, EngineInv, ReasoningCircuitStaysClosed, Circuits
<1>1. ASSUME NEW t \in Threads, Fallback(t) PROVE EngineInv'
  <2>1. at'[t] # "raised" /\ at' = [at EXCEPT ![t] = at'[t]]
    BY ZenonT(40), <1>0, <1>1, NextTierTyped, FirstTierTyped
       DEF Fallback, BeginsFallback, EntersCircuit, IsRefused, FindsCached, IsAnswered,
           GetsNothing, TriesAgain, Fails, Providers, Cloud
  <2>2. circuit'["reasoning"] = circuit["reasoning"]
    <3>1. CASE BeginsFallback(t) \/ IsRefused(t) \/ TriesAgain(t)
      BY <3>1 DEF BeginsFallback, IsRefused, TriesAgain
    <3>2. CASE EntersCircuit(t)
      BY <1>0, <3>2, ProvidersAreCircuits DEF EntersCircuit
    <3>3. CASE FindsCached(t) \/ IsAnswered(t) \/ GetsNothing(t)
      <4>1. "reasoning" # at[t]
        BY <3>3, <1>0 DEF FindsCached, IsAnswered, GetsNothing, BoundedInv, TypeOK, Providers, Cloud
      <4> QED BY <1>0, <3>3, <4>1 DEF FindsCached, IsAnswered, GetsNothing, LeavesCircuit
    <3>4. CASE \E why \in {"error", "rate"} : Fails(t, why)
      BY <1>0, <3>4, ProvidersAreCircuits DEF Fails
    <3> QED BY <1>1, <3>1, <3>2, <3>3, <3>4 DEF Fallback
  <2> QED BY <2>1, <2>2, EngineKept
<1>2. ASSUME NEW t \in Threads, EntersEngine(t) PROVE EngineInv'
  BY <1>0, <1>2 DEF EntersEngine, Entered, EngineInv, ReasoningCircuitStaysClosed
<1>3. ASSUME NEW t \in Threads, EndsReasoning(t) PROVE EngineInv'
  BY <1>0, <1>3 DEF EndsReasoning, Fresh, EngineInv, ReasoningCircuitStaysClosed
<1>4. ASSUME NEW t \in Threads,
             \/ BeginsReasoning(t) \/ TimesOut(t) \/ Starts(t)
             \/ NimAdvises(t) \/ NimBabbles(t) \/ NimIsSilent(t)
             \/ NimTriesAgain(t) \/ NimFails(t) \/ Checks(t) \/ Returns(t)
             \/ DeepSeekAdvises(t) \/ DeepSeekBabbles(t) \/ DeepSeekFails(t)
      PROVE  EngineInv'
  <2>1. circuit' = circuit
    BY <1>4
       DEF Returns, BeginsReasoning, TimesOut, Starts, NimAdvises, NimBabbles, NimIsSilent,
           NimTriesAgain, NimFails, Checks, DeepSeekAdvises, DeepSeekBabbles, DeepSeekFails
  <2>2. CASE BeginsReasoning(t) \/ TimesOut(t) \/ Starts(t) \/ NimAdvises(t)
             \/ NimBabbles(t) \/ NimTriesAgain(t)
    <3>1. at' = [at EXCEPT ![t] = at'[t]] /\ at'[t] # "raised"
      BY <1>0, <2>2
         DEF BeginsReasoning, TimesOut, Starts, NimAdvises, NimBabbles, NimTriesAgain
    <3> QED BY <2>1, <3>1, EngineKept
  <2>3. CASE NimIsSilent(t) \/ NimFails(t)
    <3>1. at' = [at EXCEPT ![t] = GoesOn(t)] /\ GoesOn(t) # "raised"
      BY <1>0, <2>3 DEF NimIsSilent, NimFails, NimRaises, GoesOn
    <3> QED BY <2>1, <3>1, EngineKept
  <2>4. CASE Checks(t) \/ Returns(t) \/ DeepSeekAdvises(t) \/ DeepSeekBabbles(t)
             \/ DeepSeekFails(t)
    <3>1. at' = [at EXCEPT ![t] = at'[t]] /\ at'[t] # "raised"
      BY <1>0, <2>4 DEF Checks, Returns, DeepSeekAdvises, DeepSeekBabbles, DeepSeekFails
    <3> QED BY <2>1, <3>1, EngineKept
  <2> QED BY <1>4, <2>2, <2>3, <2>4
<1>5. ASSUME NEW t \in Threads, Reasoning(t) \/ Returns(t) PROVE EngineInv'
  BY <1>2, <1>3, <1>4, <1>5 DEF Reasoning
<1>6. CASE UNCHANGED vars
  BY <1>0, <1>6 DEF vars, EngineInv, ReasoningCircuitStaysClosed
<1> QED BY <1>1, <1>5, <1>6 DEF Next

(* The breaker around generate_instruction_set never counts a failure:     *)
(* what its providers raise is caught before it reaches the breaker.  The  *)
(* documentation has it trip on repeated errors (Reasoning Engine.md:346,  *)
(* 356); this is the proof that it cannot.                                 *)
THEOREM ReasoningNeverTrips == Spec => []ReasoningCircuitStaysClosed
<1>1. Init => EngineInv
  BY DEF Init, EngineInv, ReasoningCircuitStaysClosed, Fresh, Circuits
<1>2. EngineInv => ReasoningCircuitStaysClosed
  BY DEF EngineInv
<1> QED BY <1>1, <1>2, BoundedInit, BoundedStep, EngineStep, PTL DEF Spec

-----------------------------------------------------------------------------
(* The circuits of the tiers: a closed one has counted every attempt that  *)
(* failed since the last success.                                          *)

Counted(p) ==
    /\ circuit[p].holder # NoThread => at[circuit[p].holder] = p
    /\ circuit[p].state = "closed" =>
          /\ circuit[p].fails < FailMax
          /\ streak[p] = circuit[p].fails * MaxAttempts
                         + (IF Free(p) THEN 0 ELSE tries[circuit[p].holder])
    /\ circuit[p].state # "closed" =>
          circuit[p].fails = FailMax /\ streak[p] = FailMax * MaxAttempts

CountInv == \A p \in Providers : Counted(p)

(* Room for one more request that fails.                                   *)
LEMMA Products ==
    ASSUME NEW f \in Nat, f < FailMax
    PROVE  /\ f * MaxAttempts \in Nat /\ FailMax * MaxAttempts \in Nat
           /\ (f + 1) * MaxAttempts = f * MaxAttempts + MaxAttempts
           /\ f * MaxAttempts + MaxAttempts <= FailMax * MaxAttempts
<1>1. FailMax \in Nat /\ MaxAttempts \in Nat
  BY LlmConstants DEF LlmConstants
<1>2. PICK d \in Nat : FailMax = f + 1 + d
  <2>1. FailMax - f - 1 \in Nat /\ FailMax = f + 1 + (FailMax - f - 1)
    BY <1>1
  <2> QED BY <2>1
<1>3. FailMax * MaxAttempts = f * MaxAttempts + MaxAttempts + d * MaxAttempts
  BY <1>1, <1>2
<1>4. d * MaxAttempts \in Nat /\ f * MaxAttempts \in Nat /\ FailMax * MaxAttempts \in Nat
  BY <1>1
<1>5. (f + 1) * MaxAttempts = f * MaxAttempts + MaxAttempts
  BY <1>1
<1> QED BY <1>1, <1>3, <1>4, <1>5

(* A step of a thread moves no other thread.                               *)
LEMMA OthersStay ==
    ASSUME BoundedInv, NEW t \in Threads, Fallback(t) \/ Reasoning(t) \/ Returns(t),
           NEW u \in Threads, u # t
    PROVE  at'[u] = at[u] /\ tries'[u] = tries[u]
<1>0. DOMAIN at = Threads /\ DOMAIN tries = Threads
  BY DEF BoundedInv, TypeOK
<1>1. CASE Fallback(t)
  BY <1>0, <1>1 DEF Fallback, BeginsFallback, EntersCircuit, IsRefused, FindsCached, IsAnswered,
     GetsNothing, TriesAgain, Fails
<1>2. CASE BeginsReasoning(t) \/ TimesOut(t) \/ EntersEngine(t) \/ Starts(t)
           \/ NimAdvises(t) \/ NimBabbles(t) \/ NimIsSilent(t)
  BY <1>0, <1>2 DEF BeginsReasoning, TimesOut, EntersEngine, Starts, NimAdvises, NimBabbles,
     NimIsSilent
<1>3. CASE NimTriesAgain(t) \/ NimFails(t) \/ Checks(t) \/ DeepSeekAdvises(t)
           \/ DeepSeekBabbles(t) \/ DeepSeekFails(t) \/ EndsReasoning(t) \/ Returns(t)
  BY <1>0, <1>3 DEF NimTriesAgain, NimFails, Checks, DeepSeekAdvises, DeepSeekBabbles,
     DeepSeekFails, EndsReasoning, Returns
<1> QED BY <1>1, <1>2, <1>3 DEF Reasoning

(* A circuit whose holder does not move, and that no step touches.         *)
LEMMA CountKept ==
    ASSUME BoundedInv, NEW t \in Threads, Fallback(t) \/ Reasoning(t) \/ Returns(t),
           NEW p \in Providers, Counted(p), circuit[p].holder # t,
           circuit'[p] = circuit[p], streak'[p] = streak[p]
    PROVE  Counted(p)'
<1>1. p \in Circuits /\ circuit[p].holder \in Threads \cup {NoThread}
  BY ProvidersAreCircuits DEF BoundedInv, TypeOK
<1>2. circuit[p].holder # NoThread =>
         /\ at'[circuit[p].holder] = at[circuit[p].holder]
         /\ tries'[circuit[p].holder] = tries[circuit[p].holder]
  BY <1>1, OthersStay
<1> QED BY <1>2 DEF Counted, Free

(* What a thread does outside the circuits of the tiers.                   *)
LEMMA OutsideCounts ==
    ASSUME BoundedInv, CountInv, NEW t \in Threads,
           \/ BeginsFallback(t) \/ IsRefused(t) \/ Reasoning(t) \/ Returns(t)
    PROVE  CountInv'
<1> SUFFICES ASSUME NEW p \in Providers PROVE Counted(p)'
  BY DEF CountInv
<1>0. Counted(p) /\ DOMAIN circuit = Circuits /\ NoThread \notin Threads
  BY LlmConstants DEF CountInv, BoundedInv, TypeOK, LlmConstants
<1>1. CASE TimesOut(t)
  BY <1>0, <1>1 DEF TimesOut, Counted, Free
<1>2. CASE ~TimesOut(t)
  <2>1. circuit[p].holder # t
    <3>1. CASE BeginsFallback(t) \/ Returns(t)
      BY <1>0, <3>1 DEF BeginsFallback, Returns, Counted, Providers, Cloud
    <3>2. CASE IsRefused(t)
      BY <1>0, <3>2 DEF IsRefused, Counted, Free
    <3>3. CASE EndsReasoning(t)
      BY <1>0, <3>3 DEF EndsReasoning, Outcomes, Counted, Providers, Cloud
    <3>4. CASE BeginsReasoning(t) \/ EntersEngine(t) \/ Starts(t) \/ NimAdvises(t)
               \/ NimBabbles(t) \/ NimIsSilent(t) \/ NimTriesAgain(t) \/ NimFails(t)
      BY <1>0, <3>4 DEF BeginsReasoning, EntersEngine, Starts, NimAdvises, NimBabbles,
         NimIsSilent, NimTriesAgain, NimFails, Counted, Providers, Cloud
    <3>5. CASE Checks(t) \/ DeepSeekAdvises(t) \/ DeepSeekBabbles(t) \/ DeepSeekFails(t)
      BY <1>0, <3>5 DEF Checks, DeepSeekAdvises, DeepSeekBabbles, DeepSeekFails, Counted,
         Providers, Cloud
    <3> QED BY <1>2, <3>1, <3>2, <3>3, <3>4, <3>5 DEF Reasoning
  <2>2. circuit'[p] = circuit[p] /\ streak'[p] = streak[p]
    <3>1. CASE EntersEngine(t) \/ EndsReasoning(t)
      BY <1>0, <3>1, ProvidersAreCircuits DEF EntersEngine, EndsReasoning
    <3>2. CASE ~EntersEngine(t) /\ ~EndsReasoning(t)
      BY <1>2, <3>2 DEF BeginsFallback, IsRefused, Returns, Reasoning, BeginsReasoning, Starts,
         NimAdvises, NimBabbles, NimIsSilent, NimTriesAgain, NimFails, Checks, DeepSeekAdvises,
         DeepSeekBabbles, DeepSeekFails
    <3> QED BY <3>1, <3>2
  <2> QED BY <1>0, <2>1, <2>2, CountKept DEF Fallback
<1> QED BY <1>1, <1>2

(* A thread holds no other circuit than the one it is at.                  *)
LEMMA OtherTiersCount ==
    ASSUME BoundedInv, CountInv, NEW t \in Threads, Fallback(t),
           NEW p \in Providers, at[t] # p, circuit'[p] = circuit[p], streak'[p] = streak[p]
    PROVE  Counted(p)'
<1>1. Counted(p) /\ NoThread \notin Threads
  BY LlmConstants DEF CountInv, LlmConstants
<1>2. circuit[p].holder # t
  BY <1>1 DEF Counted
<1> QED BY <1>1, <1>2, CountKept

LEMMA InsideCounts ==
    ASSUME BoundedInv, CountInv, NEW t \in Threads,
           \/ EntersCircuit(t) \/ FindsCached(t) \/ IsAnswered(t) \/ GetsNothing(t)
           \/ TriesAgain(t) \/ \E why \in {"error", "rate"} : Fails(t, why)
    PROVE  CountInv'
<1>a. at[t] \in Providers
  BY DEF EntersCircuit, FindsCached, IsAnswered, GetsNothing, TriesAgain, Fails, BoundedInv, TypeOK
<1>b. circuit[at[t]] \in Circuit /\ at[t] \in Circuits
  BY <1>a, ProvidersAreCircuits DEF BoundedInv, TypeOK, Circuit
<1>p. PICK p \in Providers : p = at[t]
  BY <1>a
<1>f. PICK f \in Nat : f = circuit[p].fails
  BY <1>b, <1>p, LlmConstants DEF Circuit, LlmConstants
<1>0. /\ Counted(p) /\ Fallback(t) /\ p \in Circuits
      /\ DOMAIN circuit = Circuits /\ DOMAIN streak = Providers
      /\ DOMAIN at = Threads /\ DOMAIN tries = Threads
      /\ NoThread \notin Threads
      /\ circuit[p] = [state |-> circuit[p].state, fails |-> f, holder |-> circuit[p].holder]
      /\ tries[t] \in Nat /\ tries[t] < MaxAttempts
      /\ FailMax \in Nat \ {0} /\ MaxAttempts \in Nat \ {0}
  BY <1>b, <1>p, <1>f, LlmConstants
     DEF BoundedInv, TypeOK, AttemptInv, Bounded, CountInv, Fallback, LlmConstants, Circuit
<1>c. Providers \subseteq Circuits
  BY ProvidersAreCircuits
<1>1. ASSUME NEW q \in Providers, q # p PROVE Counted(q)'
  <2>1. circuit'[q] = circuit[q] /\ streak'[q] = streak[q]
    <3>1. CASE EntersCircuit(t)
      BY <1>0, <1>1, <1>p, <1>c, <3>1 DEF EntersCircuit
    <3>2. CASE FindsCached(t) \/ IsAnswered(t) \/ GetsNothing(t)
      BY <1>0, <1>1, <1>p, <1>c, <3>2 DEF FindsCached, IsAnswered, GetsNothing, LeavesCircuit
    <3>3. CASE TriesAgain(t)
      BY <1>0, <1>1, <1>p, <1>c, <3>3 DEF TriesAgain, StreakGrows
    <3>4. CASE \E why \in {"error", "rate"} : Fails(t, why)
      BY <1>0, <1>1, <1>p, <1>c, <3>4 DEF Fails, StreakGrows
    <3> QED BY <3>1, <3>2, <3>3, <3>4
  <2> QED BY <1>0, <1>1, <1>p, <2>1, OtherTiersCount
<1>2. Counted(p)'
  <2>1. CASE EntersCircuit(t)
    <3>1. /\ circuit'[p].holder = t /\ circuit'[p].fails = circuit[p].fails
          /\ circuit'[p].state = IF circuit[p].state = "open" THEN "half" ELSE circuit[p].state
          /\ circuit[p].holder = NoThread
      BY <1>0, <1>p, <2>1 DEF EntersCircuit, Entered, Free
    <3>2. streak'[p] = streak[p] /\ at'[t] = p /\ tries'[t] = 0
      BY <1>0, <1>p, <2>1 DEF EntersCircuit
    <3>3. f * MaxAttempts + 0 = f * MaxAttempts
      BY <1>0
    <3> QED BY <1>f, <1>0, <3>1, <3>2, <3>3 DEF Counted, Free
  <2>2. CASE FindsCached(t) \/ IsAnswered(t) \/ GetsNothing(t)
    <3>1. circuit'[p] = Fresh /\ streak'[p] = 0
      BY <1>0, <1>p, <2>2 DEF FindsCached, IsAnswered, GetsNothing, LeavesCircuit
    <3>2. 0 * MaxAttempts + 0 = 0 /\ 0 < FailMax
      BY <1>0
    <3> QED BY <3>1, <3>2 DEF Counted, Fresh, Free
  <2>3. CASE TriesAgain(t)
    <3>1. /\ circuit'[p] = circuit[p] /\ circuit[p].holder = t /\ at'[t] = p
          /\ tries'[t] = tries[t] + 1 /\ tries[t] + 1 < MaxAttempts
          /\ streak'[p] = IF streak[p] < FailMax * MaxAttempts THEN streak[p] + 1 ELSE streak[p]
      BY <1>0, <1>p, <2>3 DEF TriesAgain, Inside, LastAttempt, StreakGrows
    <3>2. CASE circuit[p].state = "closed"
      <4>1. f < FailMax /\ streak[p] = f * MaxAttempts + tries[t]
        BY <1>f, <1>0, <3>1, <3>2 DEF Counted, Free
      <4>2. streak[p] < FailMax * MaxAttempts
        BY <1>0, <4>1, Products
      <4>3. streak'[p] = f * MaxAttempts + tries'[t]
        BY <1>0, <3>1, <4>1, <4>2, Products
      <4> QED BY <1>f, <1>0, <3>1, <3>2, <4>1, <4>3 DEF Counted, Free
    <3>3. CASE circuit[p].state # "closed"
      <4>1. f = FailMax /\ streak[p] = FailMax * MaxAttempts
        BY <1>f, <1>0, <3>3 DEF Counted
      <4>2. FailMax * MaxAttempts \in Nat
        BY <1>0
      <4>3. streak'[p] = streak[p]
        BY <3>1, <4>1, <4>2
      <4> QED BY <1>f, <3>1, <3>3, <4>1, <4>3 DEF Counted
    <3> QED BY <3>2, <3>3
  <2>4. ASSUME NEW why \in {"error", "rate"}, Fails(t, why) PROVE Counted(p)'
    <3>1. /\ circuit'[p] = Failed(circuit[p]) /\ circuit[p].holder = t
          /\ tries[t] + 1 = MaxAttempts
          /\ streak'[p] = IF streak[p] < FailMax * MaxAttempts THEN streak[p] + 1 ELSE streak[p]
      BY <1>0, <1>p, <2>4 DEF Fails, Inside, LastAttempt, StreakGrows
    <3>2. CASE circuit[p].state = "closed"
      <4>1. f < FailMax /\ streak[p] = f * MaxAttempts + tries[t]
        BY <1>f, <1>0, <3>1, <3>2 DEF Counted, Free
      <4>2. streak'[p] = (f + 1) * MaxAttempts
        <5>1. streak[p] < FailMax * MaxAttempts
          BY <1>0, <4>1, Products
        <5> QED BY <1>0, <3>1, <4>1, <5>1, Products
      <4>3. CASE f + 1 >= FailMax
        <5>1. f + 1 = FailMax
          BY <1>0, <4>1, <4>3
        <5>2. /\ circuit'[p].state = "open" /\ circuit'[p].fails = FailMax
              /\ circuit'[p].holder = NoThread
          BY <1>f, <3>1, <4>1, <5>1, <4>3 DEF Failed, Trips
        <5> QED BY <4>2, <5>1, <5>2 DEF Counted
      <4>4. CASE ~(f + 1 >= FailMax)
        <5>1. /\ circuit'[p].state = "closed" /\ circuit'[p].fails = f + 1
              /\ circuit'[p].holder = NoThread
          BY <1>f, <3>1, <3>2, <4>1, <4>4 DEF Failed, Trips
        <5>2. f + 1 < FailMax /\ (f + 1) * MaxAttempts + 0 = (f + 1) * MaxAttempts
          BY <1>0, <4>4
        <5> QED BY <4>2, <5>1, <5>2 DEF Counted, Free
      <4> QED BY <4>3, <4>4
    <3>3. CASE circuit[p].state # "closed"
      <4>1. f = FailMax /\ streak[p] = FailMax * MaxAttempts /\ FailMax * MaxAttempts \in Nat
        BY <1>f, <1>0, <3>3 DEF Counted
      <4>2. streak'[p] = FailMax * MaxAttempts
        BY <3>1, <4>1
      <4>3. /\ circuit'[p].state = "open" /\ circuit'[p].fails = FailMax
            /\ circuit'[p].holder = NoThread
        BY <1>f, <1>0, <3>1, <3>3, <4>1 DEF Failed, Trips
      <4> QED BY <4>2, <4>3 DEF Counted
    <3> QED BY <3>2, <3>3
  <2> QED BY <2>1, <2>2, <2>3, <2>4
<1> QED BY <1>1, <1>2 DEF CountInv

LEMMA CountInit == Init => CountInv
<1>1. 0 * MaxAttempts + 0 = 0 /\ 0 < FailMax
  BY LlmConstants DEF LlmConstants
<1> QED BY <1>1, ProvidersAreCircuits DEF Init, CountInv, Counted, Fresh, Free

LEMMA CountStep == BoundedInv /\ CountInv /\ [Next]_vars => CountInv'
<1> SUFFICES ASSUME BoundedInv, CountInv, [Next]_vars PROVE CountInv'
  OBVIOUS
<1>1. ASSUME NEW t \in Threads, Fallback(t) \/ Reasoning(t) \/ Returns(t) PROVE CountInv'
  BY <1>1, OutsideCounts, InsideCounts DEF Fallback
<1>2. CASE UNCHANGED vars
  BY <1>2 DEF vars, CountInv, Counted, Free
<1> QED BY <1>1, <1>2 DEF Next

(* A circuit of a tier opens only after FailMax requests in a row that     *)
(* used up their attempts, for every number of threads that fail on it.    *)
THEOREM TripsAreEarned == Spec => []TripNeedsFailures
<1>1. CountInv => TripNeedsFailures
  BY DEF CountInv, Counted, TripNeedsFailures
<1> QED BY <1>1, BoundedInit, BoundedStep, CountInit, CountStep, PTL DEF Spec

-----------------------------------------------------------------------------
(* What a reasoning may still begin once its pipeline has given it up.     *)

Late(t) ==
    /\ at[t] \in {"idle", "queued", "start"} => late[t] = 0
    /\ at[t] = "nim" => late[t] <= tries[t]
    /\ at[t] = "chat" => late[t] <= MaxAttempts + tries[t]
    /\ late[t] <= 2 * MaxAttempts - 1

LateInv == \A t \in Threads : Late(t)

(* A thread that moves to another place without a new attempt.             *)
LEMMA LateKept ==
    ASSUME BoundedInv, LateInv, NEW t \in Threads, NEW u \in Threads,
           at'[u] = at[u], tries'[u] = tries[u], late'[u] = late[u]
    PROVE  Late(u)'
BY DEF LateInv, Late

LEMMA LateStep == BoundedInv /\ LateInv /\ [Next]_vars => LateInv'
<1> SUFFICES ASSUME BoundedInv, LateInv, [Next]_vars PROVE LateInv'
  OBVIOUS
<1>0. /\ DOMAIN at = Threads /\ DOMAIN tries = Threads /\ DOMAIN late = Threads
      /\ MaxAttempts \in Nat /\ MaxAttempts > 0
  BY LlmConstants DEF BoundedInv, TypeOK, LlmConstants
<1>1. ASSUME NEW t \in Threads
      PROVE  /\ Late(t) /\ late[t] \in Nat /\ tries[t] \in Nat
             /\ at[t] \in {"nim", "chat"} => tries[t] < MaxAttempts
  BY DEF LateInv, BoundedInv, TypeOK, AttemptInv, Bounded
<1>2. ASSUME NEW t \in Threads, Fallback(t) \/ Reasoning(t) \/ Returns(t) PROVE LateInv'
  <2>1. ASSUME NEW u \in Threads, u # t PROVE Late(u)'
    <3>1. late'[u] = late[u]
      <4>1. CASE Fallback(t)
        BY <4>1 DEF Fallback, BeginsFallback, EntersCircuit, IsRefused, FindsCached, IsAnswered,
           GetsNothing, TriesAgain, Fails, reasoningVars
      <4>2. CASE Reasoning(t)
        BY <1>0, <2>1, <4>2 DEF Reasoning, BeginsReasoning, TimesOut, EntersEngine, Starts,
           NimAdvises, NimBabbles, NimIsSilent, NimTriesAgain, NimFails, BeginsAttempt, Checks,
           DeepSeekAdvises, DeepSeekBabbles, DeepSeekFails, EndsReasoning, reasoningVars
      <4>3. CASE Returns(t)
        BY <1>0, <2>1, <4>3 DEF Returns
      <4> QED BY <1>2, <4>1, <4>2, <4>3
    <3> QED BY <1>2, <2>1, <3>1, OthersStay, LateKept
  <2>2. Late(t)'
    <3>1. CASE Fallback(t)
      <4>1. late'[t] = late[t] /\ at'[t] \in Providers \cup {"answered", "unavailable"}
        <5>1. CASE BeginsFallback(t)
          BY <1>0, <5>1, FirstTierTyped DEF BeginsFallback, reasoningVars
        <5>2. CASE EntersCircuit(t) \/ FindsCached(t) \/ IsAnswered(t) \/ TriesAgain(t)
          BY <1>0, <5>2 DEF EntersCircuit, FindsCached, IsAnswered, TriesAgain, reasoningVars
        <5>3. CASE IsRefused(t) \/ GetsNothing(t) \/ \E why \in {"error", "rate"} : Fails(t, why)
          BY <1>0, <5>3, NextTierTyped DEF IsRefused, GetsNothing, Fails, reasoningVars,
             Providers, Cloud
        <5> QED BY <3>1, <5>1, <5>2, <5>3 DEF Fallback
      <4> QED BY <1>1, <4>1 DEF Late, Providers, Cloud
    <3>2. CASE Returns(t) \/ BeginsReasoning(t) \/ EntersEngine(t) \/ Starts(t)
      <4>1. late'[t] = 0 /\ (at'[t] = "nim" => tries'[t] = 0) /\ at'[t] # "chat"
        BY <1>0, <1>1, <3>2
           DEF Returns, BeginsReasoning, EntersEngine, Starts, Late, reasoningVars
      <4> QED BY <1>0, <4>1 DEF Late
    <3>3. CASE TimesOut(t)
      BY <1>1, <3>3 DEF TimesOut, Late
    <3>4. CASE NimAdvises(t) \/ NimBabbles(t) \/ Checks(t) \/ DeepSeekAdvises(t)
               \/ DeepSeekBabbles(t) \/ DeepSeekFails(t) \/ EndsReasoning(t)
      <4>1. late'[t] = late[t] /\ at'[t] \notin {"idle", "queued", "start", "nim", "chat"}
        BY <1>0, <3>4 DEF NimAdvises, NimBabbles, Checks, DeepSeekAdvises, DeepSeekBabbles,
           DeepSeekFails, EndsReasoning, reasoningVars
      <4> QED BY <1>1, <4>1 DEF Late
    <3>5. CASE NimTriesAgain(t)
      <4>1. /\ at[t] \in {"nim", "chat"} /\ at'[t] = at[t] /\ tries'[t] = tries[t] + 1
            /\ late'[t] \in {late[t], late[t] + 1} /\ tries[t] + 1 # MaxAttempts
        BY <1>0, <3>5 DEF NimTriesAgain, BeginsAttempt, LastAttempt
      <4> QED BY <1>0, <1>1, <4>1 DEF Late
    <3>6. CASE NimIsSilent(t) \/ NimFails(t)
      <4>1. /\ at[t] \in {"nim", "chat"} /\ at'[t] = GoesOn(t) /\ tries'[t] = 0
            /\ late'[t] = IF cancel[t] /\ GoesOn(t) = "chat" THEN late[t] + 1 ELSE late[t]
        BY <1>0, <3>6 DEF NimIsSilent, NimFails, NimRaises, BeginsAttempt
      <4>2. CASE at'[t] = "chat"
        <5>1. at[t] = "nim"
          BY <4>1, <4>2 DEF GoesOn
        <5>2. late[t] + 1 <= MaxAttempts
          BY <1>0, <1>1, <5>1 DEF Late
        <5>3. late'[t] \in {late[t], late[t] + 1}
          BY <4>1
        <5> QED BY <1>0, <1>1, <4>1, <4>2, <5>2, <5>3 DEF Late
      <4>3. CASE at'[t] # "chat"
        <5>1. at'[t] = "check" /\ late'[t] = late[t]
          BY <4>1, <4>3 DEF GoesOn
        <5> QED BY <1>1, <5>1 DEF Late
      <4> QED BY <4>2, <4>3
    <3> QED BY <1>2, <3>1, <3>2, <3>3, <3>4, <3>5, <3>6 DEF Reasoning
  <2> QED BY <2>1, <2>2 DEF LateInv
<1>3. CASE UNCHANGED vars
  BY <1>1, <1>3 DEF vars, reasoningVars, LateInv, Late
<1> QED BY <1>2, <1>3 DEF Next

(* A reasoning that was given up begins no more than the attempts left to  *)
(* its NVIDIA tier, for every number of attempts.                          *)
THEOREM CancellationHolds == Spec => []CancelledStops
<1>1. Init => LateInv
  <2>1. 0 <= 2 * MaxAttempts - 1
    BY LlmConstants DEF LlmConstants
  <2>2. SUFFICES ASSUME Init, NEW t \in Threads PROVE Late(t)
    BY DEF LateInv
  <2>3. at[t] = "idle" /\ late[t] = 0
    BY <2>2 DEF Init
  <2> QED BY <2>1, <2>3 DEF Late
<1>2. LateInv => CancelledStops
  BY DEF LateInv, Late, CancelledStops
<1> QED BY <1>1, <1>2, BoundedInit, BoundedStep, LateStep, PTL DEF Spec

-----------------------------------------------------------------------------
(* The order of the tiers: what a request has passed on its way down.      *)

Passed(t) ==
    IF PassesOverOpenRouter(t) THEN asked[t] \cup {"openrouter"} ELSE asked[t]

Walked(t) ==
    /\ at[t] \in Providers /\ Inside(t, at[t]) => at[t] \in asked[t]
    /\ at[t] \in {"idle", "nvidia", "groq"} => said[t] = "none"
    /\ at[t] = "groq" => Keys(t) \cap {"nvidia"} \subseteq asked[t]
    /\ at[t] = "openrouter" => Keys(t) \cap {"nvidia", "groq"} \subseteq asked[t]
    /\ at[t] \in {"ollama", "unavailable"} => Keys(t) \subseteq Passed(t)

WalkInv == \A t \in Threads : Walked(t)

(* The history of a thread changes in its own steps only.                  *)
LEMMA OthersWalk ==
    ASSUME BoundedInv, WalkInv, NEW t \in Threads, Fallback(t) \/ Reasoning(t) \/ Returns(t),
           NEW u \in Threads, u # t
    PROVE  Walked(u)'
<1>0. /\ DOMAIN circuit = Circuits /\ DOMAIN own = Threads /\ DOMAIN asked = Threads
      /\ DOMAIN said = Threads /\ NoThread \notin Threads /\ Walked(u)
      /\ Providers \subseteq Circuits
  BY LlmConstants, ProvidersAreCircuits DEF BoundedInv, TypeOK, WalkInv, LlmConstants
<1>1. at'[u] = at[u]
  BY OthersStay
<1>2. /\ own'[u] = own[u] /\ asked'[u] = asked[u] /\ said'[u] = said[u] /\ env' = env
      /\ u \in tripped' <=> u \in tripped
  <2>1. CASE BeginsFallback(t) \/ EntersCircuit(t) \/ IsRefused(t) \/ FindsCached(t)
             \/ IsAnswered(t) \/ GetsNothing(t) \/ TriesAgain(t)
    BY <1>0, <2>1 DEF BeginsFallback, EntersCircuit, IsRefused, FindsCached, IsAnswered,
       GetsNothing, TriesAgain, requestVars
  <2>2. CASE \E why \in {"error", "rate"} : Fails(t, why)
    BY <1>0, <2>2 DEF Fails
  <2>3. CASE Reasoning(t)
    BY <2>3 DEF Reasoning, BeginsReasoning, TimesOut, EntersEngine, Starts, NimAdvises,
       NimBabbles, NimIsSilent, NimTriesAgain, NimFails, Checks, DeepSeekAdvises,
       DeepSeekBabbles, DeepSeekFails, EndsReasoning, requestVars
  <2>4. CASE Returns(t)
    BY <1>0, <2>4 DEF Returns
  <2> QED BY <2>1, <2>2, <2>3, <2>4 DEF Fallback
<1>3. ASSUME NEW p \in Providers, circuit'[p].holder = u PROVE circuit[p].holder = u
  <2>1. CASE EntersCircuit(t)
    BY <1>0, <1>3, <2>1 DEF EntersCircuit, Entered
  <2>2. CASE FindsCached(t) \/ IsAnswered(t) \/ GetsNothing(t)
    BY <1>0, <1>3, <2>2 DEF FindsCached, IsAnswered, GetsNothing, LeavesCircuit, Fresh
  <2>3. CASE \E why \in {"error", "rate"} : Fails(t, why)
    BY <1>0, <1>3, <2>3 DEF Fails, Failed
  <2>4. CASE EntersEngine(t) \/ EndsReasoning(t)
    BY <1>0, <1>3, <2>4, ProvidersAreCircuits DEF EntersEngine, EndsReasoning
  <2>5. CASE ~EntersEngine(t) /\ ~EndsReasoning(t) /\ (Reasoning(t) \/ Returns(t))
    BY <1>3, <2>5 DEF Reasoning, Returns, BeginsReasoning, TimesOut, Starts, NimAdvises,
       NimBabbles, NimIsSilent, NimTriesAgain, NimFails, Checks, DeepSeekAdvises,
       DeepSeekBabbles, DeepSeekFails
  <2>6. CASE BeginsFallback(t) \/ IsRefused(t) \/ TriesAgain(t)
    BY <1>3, <2>6 DEF BeginsFallback, IsRefused, TriesAgain
  <2> QED BY <2>1, <2>2, <2>3, <2>4, <2>5, <2>6 DEF Fallback
<1>4. Keys(u)' = Keys(u) /\ Passed(u)' = Passed(u)
  BY <1>2 DEF Keys, Passed, PassesOverOpenRouter
<1> QED BY <1>0, <1>1, <1>2, <1>3, <1>4 DEF Walked, Inside

(* From a tier to the next: a request that leaves a tier it has come to,   *)
(* and passes over OpenRouter only as PassesOverOpenRouter says.           *)
LEMMA WalksDown ==
    ASSUME BoundedInv, WalkInv, NEW t \in Threads, at[t] \in Providers, NEW end,
           at'[t] = NextTier(t, end), at'[t] \in Providers => ~Inside(t, at[t])',
           env' = env, own'[t] = own[t], asked'[t] = asked[t] \cup {at[t]},
           at[t] # "groq" => said'[t] = said[t] /\ (t \in tripped' <=> t \in tripped),
           at[t] = "groq" => end = "rate" \/ said'[t] # "rate" \/ t \in tripped'
    PROVE  Walked(t)'
<1> DEFINE K == Keys(t)
<1>0. Walked(t) /\ K \subseteq Cloud /\ K' = K
  BY DEF WalkInv, BoundedInv, TypeOK, Keys
<1>1. at[t] \in asked'[t] /\ asked[t] \subseteq asked'[t]
  OBVIOUS
<1>2. asked'[t] \subseteq Passed(t)'
  BY DEF Passed
<1>3. CASE at'[t] = "groq"
  <2>1. at[t] = "nvidia"
    BY <1>3 DEF NextTier, BelowNvidia, BelowGroq, Providers, Cloud
  <2>2. said'[t] = "none" /\ "nvidia" \in asked'[t]
    BY <1>0, <1>1, <2>1 DEF Walked
  <2> QED BY <1>3, <2>2 DEF Walked, Providers, Cloud
<1>4. CASE at'[t] = "openrouter"
  <2>1. \/ at[t] = "nvidia" /\ "groq" \notin K
        \/ at[t] = "groq" /\ K \cap {"nvidia"} \subseteq asked[t]
    BY <1>0, <1>4 DEF NextTier, BelowNvidia, BelowGroq, Providers, Cloud, Walked
  <2>2. K \cap {"nvidia", "groq"} \subseteq asked'[t]
    BY <1>1, <2>1
  <2> QED BY <1>0, <1>4, <2>2 DEF Walked, Providers, Cloud
<1>5. CASE at'[t] \in {"ollama", "unavailable"}
  <2>1. CASE at[t] = "nvidia"
    <3>1. K \subseteq {"nvidia"}
      BY <1>0, <1>5, <2>1 DEF NextTier, BelowNvidia, Cloud
    <3> QED BY <1>0, <1>1, <1>2, <1>5, <2>1, <3>1 DEF Walked
  <2>2. CASE at[t] = "groq"
    <3>1. "openrouter" \notin K \/ end # "rate"
      BY <1>5, <2>2 DEF NextTier, BelowGroq
    <3>2. K \subseteq asked'[t] \cup {"openrouter"}
      BY <1>0, <1>1, <2>2 DEF Walked, Cloud
    <3>3. end # "rate" => PassesOverOpenRouter(t)'
      BY <1>1, <2>2 DEF PassesOverOpenRouter
    <3>4. K \subseteq Passed(t)'
      BY <3>1, <3>2, <3>3 DEF Passed
    <3> QED BY <1>0, <1>5, <3>4 DEF Walked
  <2>3. CASE at[t] = "openrouter"
    <3>1. K \subseteq asked'[t]
      BY <1>0, <1>1, <2>3 DEF Walked, Cloud
    <3> QED BY <1>0, <1>2, <1>5, <3>1 DEF Walked
  <2>4. CASE at[t] = "ollama"
    <3>1. PassesOverOpenRouter(t) => PassesOverOpenRouter(t)'
      BY <1>1, <2>4 DEF PassesOverOpenRouter
    <3>2. K \subseteq Passed(t)'
      BY <1>0, <1>1, <2>4, <3>1 DEF Walked, Passed
    <3> QED BY <1>0, <1>5, <3>2 DEF Walked
  <2> QED BY <2>1, <2>2, <2>3, <2>4 DEF Providers, Cloud
<1> QED BY <1>3, <1>4, <1>5, NextTierTyped

(* A thread that is not at a tier holds no circuit of a tier, and one that *)
(* moves on from a tier holds none of the others.                          *)
LEMMA HoldsNoOther ==
    ASSUME CountInv, NEW t \in Threads, NEW p \in Providers, at[t] # p
    PROVE  ~Inside(t, p)
BY LlmConstants DEF CountInv, Counted, Inside, LlmConstants

LEMMA NextTierDiffers ==
    ASSUME NEW t \in Threads, at[t] \in Providers, NEW end
    PROVE  NextTier(t, end) # at[t]
BY DEF NextTier, BelowNvidia, BelowGroq, Providers, Cloud

LEMMA WalkStep == BoundedInv /\ CountInv /\ WalkInv /\ [Next]_vars => WalkInv'
<1> SUFFICES ASSUME BoundedInv, CountInv, WalkInv, [Next]_vars PROVE WalkInv'
  OBVIOUS
<1>0. /\ DOMAIN circuit = Circuits /\ DOMAIN own = Threads /\ DOMAIN asked = Threads
      /\ DOMAIN said = Threads /\ DOMAIN at = Threads
      /\ Providers \subseteq Circuits /\ env \subseteq Cloud
  BY ProvidersAreCircuits DEF BoundedInv, TypeOK
<1>1. ASSUME NEW t \in Threads, Fallback(t) \/ Reasoning(t) \/ Returns(t) PROVE Walked(t)'
  <2>0. Walked(t) /\ at[t] \in Places
    BY DEF WalkInv, BoundedInv, TypeOK
  <2>1. CASE BeginsFallback(t)
    <3>1. PICK keys \in OwnKeys :
             /\ own' = [own EXCEPT ![t] = keys]
             /\ at' = [at EXCEPT ![t] = FirstTier(env \cup keys)]
      BY <2>1 DEF BeginsFallback
    <3>2. /\ Keys(t)' = env \cup keys /\ at'[t] = FirstTier(env \cup keys)
          /\ env \cup keys \subseteq Cloud /\ said'[t] = "none" /\ circuit' = circuit
          /\ at[t] = "idle"
      BY <1>0, <2>0, <2>1, <3>1, LlmConstants DEF BeginsFallback, Keys, Walked, LlmConstants
    <3>3. \A p \in Providers : ~Inside(t, p)'
      BY <3>2, HoldsNoOther DEF Inside, Providers, Cloud
    <3>4. at'[t] \in Providers /\ at'[t] # "unavailable"
      BY <3>2, FirstTierTyped DEF Providers, Cloud
    <3>5. at'[t] = "groq" => "nvidia" \notin env \cup keys
      BY <3>2 DEF FirstTier, BelowNvidia
    <3>6. at'[t] = "openrouter" => (env \cup keys) \cap {"nvidia", "groq"} = {}
      BY <3>2 DEF FirstTier, BelowNvidia
    <3>7. at'[t] = "ollama" => env \cup keys = {}
      BY <3>2 DEF FirstTier, BelowNvidia, Cloud
    <3> QED BY <3>2, <3>3, <3>4, <3>5, <3>6, <3>7 DEF Walked
  <2>2. CASE EntersCircuit(t)
    <3>1. /\ at'[t] = at[t] /\ asked'[t] = asked[t] \cup {at[t]} /\ said'[t] = said[t]
          /\ Keys(t)' = Keys(t) /\ tripped' = tripped
      BY <1>0, <2>2 DEF EntersCircuit, Keys
    <3>2. Passed(t) \subseteq Passed(t)'
      BY <3>1 DEF Passed, PassesOverOpenRouter
    <3> QED BY <2>0, <3>1, <3>2 DEF Walked
  <2>3. CASE FindsCached(t) \/ IsAnswered(t)
    <3>1. at'[t] = "answered"
      BY <1>0, <2>3 DEF FindsCached, IsAnswered
    <3> QED BY <3>1 DEF Walked, Providers, Cloud
  <2>4. CASE TriesAgain(t)
    BY <2>0, <2>4 DEF TriesAgain, requestVars, Walked, Inside, Keys, Passed, PassesOverOpenRouter
  <2>5. CASE IsRefused(t)
    <3>1. /\ at[t] \in Providers /\ at'[t] = NextTier(t, "open") /\ env' = env
          /\ own'[t] = own[t] /\ asked'[t] = asked[t] \cup {at[t]}
          /\ said' = said /\ tripped' = tripped /\ circuit' = circuit
      BY <1>0, <2>5 DEF IsRefused
    <3>2. at'[t] \in Providers => ~Inside(t, at[t])'
      BY <3>1, NextTierDiffers, HoldsNoOther DEF Inside
    <3>3. at[t] = "groq" => said'[t] # "rate"
      BY <2>0, <3>1 DEF Walked
    <3> QED BY <3>1, <3>2, <3>3, WalksDown
  <2>6. CASE GetsNothing(t)
    <3>1. /\ at[t] \in Providers /\ at'[t] = NextTier(t, "empty") /\ env' = env
          /\ own'[t] = own[t] /\ asked' = asked /\ tripped' = tripped
          /\ at[t] # "groq" => said'[t] = said[t]
          /\ at[t] = "groq" => said'[t] = "empty"
          /\ circuit' = [circuit EXCEPT ![at[t]] = Fresh]
      BY <1>0, <2>6 DEF GetsNothing, LeavesCircuit
    <3>2. at'[t] \in Providers => ~Inside(t, at[t])'
      BY <1>0, <3>1, NextTierDiffers, HoldsNoOther DEF Inside
    <3>3. asked'[t] = asked[t] \cup {at[t]}
      BY <2>0, <2>6, <3>1 DEF GetsNothing, Walked
    <3> QED BY <3>1, <3>2, <3>3, WalksDown
  <2>7. ASSUME NEW why \in {"error", "rate"}, Fails(t, why) PROVE Walked(t)'
    <3> DEFINE end == IF Trips(circuit[at[t]]) THEN "open" ELSE why
    <3>1. /\ at[t] \in Providers /\ at'[t] = NextTier(t, end) /\ env' = env
          /\ own'[t] = own[t] /\ asked' = asked
          /\ circuit' = [circuit EXCEPT ![at[t]] = Failed(circuit[at[t]])]
      BY <1>0, <2>7 DEF Fails
    <3>2. at[t] # "groq" => said'[t] = said[t] /\ tripped' = tripped
      BY <2>7 DEF Fails
    <3>3. at[t] = "groq" => end = "rate" \/ said'[t] # "rate" \/ t \in tripped'
      BY <1>0, <2>7 DEF Fails
    <3>4. at'[t] \in Providers => ~Inside(t, at[t])'
      BY <1>0, <3>1, NextTierDiffers, HoldsNoOther DEF Inside
    <3>5. asked'[t] = asked[t] \cup {at[t]}
      BY <2>0, <2>7, <3>1 DEF Fails, Walked
    <3> HIDE DEF end
    <3> QED BY <3>1, <3>2, <3>3, <3>4, <3>5, WalksDown
  <2>8. CASE TimesOut(t)
    BY <2>0, <2>8 DEF TimesOut, requestVars, Walked, Inside, Keys, Passed, PassesOverOpenRouter
  <2>9. CASE Returns(t)
    <3>1. at'[t] = "idle" /\ said'[t] = "none"
      BY <1>0, <2>9 DEF Returns
    <3> QED BY <3>1 DEF Walked, Providers, Cloud
  <2>10. CASE Reasoning(t) /\ ~TimesOut(t)
    <3>1. at'[t] \in Outcomes \cup {"queued", "start", "nim", "chat", "check", "invoking", "ended"}
      <4>1. CASE BeginsReasoning(t) \/ EntersEngine(t) \/ Starts(t) \/ EndsReasoning(t)
        BY <1>0, <4>1 DEF BeginsReasoning, EntersEngine, Starts, EndsReasoning, Outcomes
      <4>2. CASE NimAdvises(t) \/ NimBabbles(t) \/ NimTriesAgain(t)
        BY <1>0, <4>2 DEF NimAdvises, NimBabbles, NimTriesAgain, Outcomes
      <4>3. CASE NimIsSilent(t) \/ NimFails(t)
        BY <1>0, <4>3 DEF NimIsSilent, NimFails, NimRaises, GoesOn
      <4>4. CASE Checks(t) \/ DeepSeekAdvises(t) \/ DeepSeekBabbles(t) \/ DeepSeekFails(t)
        BY <1>0, <4>4 DEF Checks, DeepSeekAdvises, DeepSeekBabbles, DeepSeekFails, Outcomes
      <4> QED BY <2>10, <4>1, <4>2, <4>3, <4>4 DEF Reasoning
    <3> QED BY <3>1 DEF Walked, Outcomes, Providers, Cloud
  <2> QED
    BY <1>1, <2>1, <2>2, <2>3, <2>4, <2>5, <2>6, <2>7, <2>8, <2>9, <2>10 DEF Fallback
<1>2. ASSUME NEW t \in Threads, Fallback(t) \/ Reasoning(t) \/ Returns(t) PROVE WalkInv'
  BY <1>1, <1>2, OthersWalk DEF WalkInv
<1>3. CASE UNCHANGED vars
  BY <1>3 DEF vars, requestVars, WalkInv, Walked, Inside, Keys, Passed, PassesOverOpenRouter
<1> QED BY <1>2, <1>3 DEF Next

(* A request comes to Ollama or gives up only after every tier it has a    *)
(* key for, for every set of keys and every number of concurrent requests. *)
THEOREM TiersInOrder == Spec => []EveryTierAsked
<1>1. Init => WalkInv
  BY DEF Init, WalkInv, Walked, Providers, Cloud
<1>2. BoundedInv /\ WalkInv => EveryTierAsked
  BY DEF WalkInv, Walked, Passed, EveryTierAsked
<1> QED BY <1>1, <1>2, BoundedInit, BoundedStep, CountInit, CountStep, WalkStep, PTL DEF Spec

-----------------------------------------------------------------------------
(* The circuits implement CircuitBreaker.  That the abstract breaker runs  *)
(* one call and knows what failed needs two facts: the engine's breaker is *)
(* held by whoever is in the engine, and a circuit has counted what failed *)
(* at its tier (CountInv).                                                 *)

SeatInv == \A t \in Threads : InEngine(t) <=> Inside(t, "reasoning")

(* A thread enters the engine by EntersEngine, leaves it by EndsReasoning. *)
LEMMA SeatStays ==
    ASSUME BoundedInv, NEW t \in Threads, Fallback(t) \/ Reasoning(t) \/ Returns(t),
           ~EntersEngine(t), ~EndsReasoning(t)
    PROVE  /\ InEngine(t)' <=> InEngine(t)
           /\ circuit'["reasoning"] = circuit["reasoning"]
<1>0. DOMAIN at = Threads /\ DOMAIN circuit = Circuits /\ "reasoning" \in Circuits
  BY DEF BoundedInv, TypeOK, Circuits
<1>1. CASE Fallback(t)
  <2>1. at[t] \in Providers \cup {"idle"}
    BY <1>1 DEF Fallback, BeginsFallback, EntersCircuit, IsRefused, FindsCached, IsAnswered,
       GetsNothing, TriesAgain, Fails, BoundedInv, TypeOK
  <2>2. at'[t] \in Providers \cup {"answered", "unavailable"}
    <3>1. CASE BeginsFallback(t) \/ EntersCircuit(t) \/ TriesAgain(t)
      BY <1>0, <3>1, FirstTierTyped DEF BeginsFallback, EntersCircuit, TriesAgain
    <3>2. CASE FindsCached(t) \/ IsAnswered(t)
      BY <1>0, <3>2 DEF FindsCached, IsAnswered
    <3>3. CASE IsRefused(t) \/ GetsNothing(t) \/ \E why \in {"error", "rate"} : Fails(t, why)
      <4>1. at[t] \in Providers /\ \E end : at'[t] = NextTier(t, end)
        BY <1>0, <3>3 DEF IsRefused, GetsNothing, Fails
      <4> QED BY <4>1, NextTierTyped DEF Providers, Cloud
    <3> QED BY <1>1, <3>1, <3>2, <3>3 DEF Fallback
  <2>3. circuit'["reasoning"] = circuit["reasoning"]
    <3>1. CASE BeginsFallback(t) \/ IsRefused(t) \/ TriesAgain(t)
      BY <3>1 DEF BeginsFallback, IsRefused, TriesAgain
    <3>2. CASE EntersCircuit(t) \/ \E why \in {"error", "rate"} : Fails(t, why)
      BY <1>0, <3>2, ProvidersAreCircuits DEF EntersCircuit, Fails
    <3>3. CASE FindsCached(t) \/ IsAnswered(t) \/ GetsNothing(t)
      <4>1. "reasoning" # at[t]
        BY <2>1, ProvidersAreCircuits
      <4> QED BY <1>0, <3>3, <4>1 DEF FindsCached, IsAnswered, GetsNothing, LeavesCircuit
    <3> QED BY <1>1, <3>1, <3>2, <3>3 DEF Fallback
  <2> QED BY <2>1, <2>2, <2>3 DEF InEngine, Outcomes, Providers, Cloud
<1>2. CASE BeginsReasoning(t) \/ TimesOut(t) \/ Starts(t) \/ NimAdvises(t) \/ NimBabbles(t)
           \/ NimIsSilent(t) \/ NimTriesAgain(t) \/ NimFails(t)
  BY <1>0, <1>2 DEF BeginsReasoning, TimesOut, Starts, NimAdvises, NimBabbles, NimIsSilent,
     NimTriesAgain, NimFails, NimRaises, GoesOn, InEngine, Outcomes
<1>3. CASE Checks(t) \/ DeepSeekAdvises(t) \/ DeepSeekBabbles(t) \/ DeepSeekFails(t)
           \/ Returns(t)
  BY <1>0, <1>3 DEF Checks, DeepSeekAdvises, DeepSeekBabbles, DeepSeekFails, Returns,
     InEngine, Outcomes
<1> QED BY <1>1, <1>2, <1>3 DEF Reasoning

LEMMA SeatStep == BoundedInv /\ SeatInv /\ [Next]_vars => SeatInv'
<1> SUFFICES ASSUME BoundedInv, SeatInv, [Next]_vars PROVE SeatInv'
  OBVIOUS
<1>0. /\ DOMAIN at = Threads /\ DOMAIN circuit = Circuits /\ "reasoning" \in Circuits
      /\ NoThread \notin Threads
  BY LlmConstants DEF BoundedInv, TypeOK, Circuits, LlmConstants
<1>1. ASSUME NEW t \in Threads, Fallback(t) \/ Reasoning(t) \/ Returns(t) PROVE SeatInv'
  <2>1. \A u \in Threads \ {t} : InEngine(u)' <=> InEngine(u)
    BY <1>1, OthersStay DEF InEngine
  <2>2. CASE EntersEngine(t)
    <3>1. circuit["reasoning"].holder = NoThread /\ circuit'["reasoning"].holder = t
      BY <1>0, <2>2 DEF EntersEngine, Free, Entered
    <3>2. InEngine(t)'
      BY <1>0, <2>2 DEF EntersEngine, InEngine
    <3> QED BY <1>0, <2>1, <3>1, <3>2 DEF SeatInv, Inside
  <2>3. CASE EndsReasoning(t)
    <3>1. Inside(t, "reasoning")
      BY <2>3 DEF EndsReasoning, SeatInv, InEngine
    <3>2. circuit'["reasoning"].holder = NoThread
      BY <1>0, <2>3 DEF EndsReasoning, Fresh, Failed
    <3>3. ~InEngine(t)'
      BY <1>0, <2>3 DEF EndsReasoning, InEngine, Outcomes
    <3> QED BY <1>0, <2>1, <3>1, <3>2, <3>3 DEF SeatInv, Inside
  <2>4. CASE ~EntersEngine(t) /\ ~EndsReasoning(t)
    BY <1>1, <2>1, <2>4, SeatStays DEF SeatInv, Inside
  <2> QED BY <2>2, <2>3, <2>4
<1>2. CASE UNCHANGED vars
  BY <1>2 DEF vars, SeatInv, InEngine, Inside
<1> QED BY <1>1, <1>2 DEF Next

LEMMA SeatInit == Init => SeatInv
<1> SUFFICES ASSUME Init, NEW t \in Threads PROVE ~InEngine(t) /\ ~Inside(t, "reasoning")
  BY DEF SeatInv
<1>1. at[t] = "idle" /\ circuit["reasoning"] = Fresh
  BY DEF Init, Circuits
<1>2. ~InEngine(t)
  BY <1>1 DEF InEngine, Outcomes
<1>3. ~Inside(t, "reasoning")
  BY <1>1, LlmConstants DEF Inside, Fresh, LlmConstants
<1> QED BY <1>2, <1>3

(* A step leaves a circuit alone, enters it when it is free, or leaves it. *)
LEMMA CircuitMoves ==
    ASSUME BoundedInv, SeatInv, [Next]_vars, NEW c \in Circuits
    PROVE  \/ circuit'[c] = circuit[c]
           \/ Free(c) /\ \E t \in Threads : circuit'[c] = Entered(circuit[c], t)
           \/ ~Free(c) /\ circuit'[c] \in {Fresh, Failed(circuit[c])}
<1>0. DOMAIN circuit = Circuits /\ NoThread \notin Threads
  BY LlmConstants DEF BoundedInv, TypeOK, LlmConstants
<1>1. ASSUME NEW t \in Threads, EntersCircuit(t) \/ EntersEngine(t)
      PROVE  circuit'[c] = circuit[c] \/ (Free(c) /\ circuit'[c] = Entered(circuit[c], t))
  BY <1>0, <1>1 DEF EntersCircuit, EntersEngine
<1>2. ASSUME NEW t \in Threads,
             \/ FindsCached(t) \/ IsAnswered(t) \/ GetsNothing(t) \/ EndsReasoning(t)
             \/ \E why \in {"error", "rate"} : Fails(t, why)
      PROVE  \/ circuit'[c] = circuit[c]
             \/ ~Free(c) /\ circuit'[c] \in {Fresh, Failed(circuit[c])}
  <2>1. EndsReasoning(t) => Inside(t, "reasoning")
    BY DEF EndsReasoning, SeatInv, InEngine
  <2> QED BY <1>0, <1>2, <2>1 DEF FindsCached, IsAnswered, GetsNothing, LeavesCircuit, Fails,
          EndsReasoning, Inside, Free
<1>3. ASSUME NEW t \in Threads,
             \/ BeginsFallback(t) \/ IsRefused(t) \/ TriesAgain(t) \/ Returns(t)
             \/ BeginsReasoning(t) \/ TimesOut(t) \/ Starts(t) \/ NimAdvises(t)
             \/ NimBabbles(t) \/ NimIsSilent(t) \/ NimTriesAgain(t) \/ NimFails(t)
             \/ Checks(t) \/ DeepSeekAdvises(t) \/ DeepSeekBabbles(t) \/ DeepSeekFails(t)
      PROVE  circuit' = circuit
  BY <1>3 DEF BeginsFallback, IsRefused, TriesAgain, Returns, BeginsReasoning, TimesOut,
     Starts, NimAdvises, NimBabbles, NimIsSilent, NimTriesAgain, NimFails, Checks,
     DeepSeekAdvises, DeepSeekBabbles, DeepSeekFails
<1>4. CASE UNCHANGED vars
  BY <1>4 DEF vars
<1> QED BY <1>1, <1>2, <1>3, <1>4 DEF Next, Fallback, Reasoning

(* The requests in a row that failed are those the circuit has counted.    *)
LEMMA FailedIsCounted ==
    ASSUME BoundedInv, CountInv, NEW c \in Circuits
    PROVE  FailedInARow(c) = circuit[c].fails
<1>1. CASE c = "reasoning"
  BY <1>1 DEF FailedInARow
<1>2. CASE c # "reasoning"
  <2>1. c \in Providers /\ Counted(c) /\ circuit[c] \in Circuit
    BY <1>2 DEF Circuits, CountInv, BoundedInv, TypeOK, Circuit
  <2>2. MaxAttempts \in Nat \ {0} /\ FailMax \in Nat /\ circuit[c].fails \in Nat
    BY <2>1, LlmConstants DEF LlmConstants, Circuit
  <2>3. ASSUME NEW f \in Nat, NEW k \in 0 .. MaxAttempts - 1
        PROVE  (f * MaxAttempts + k) \div MaxAttempts = f
    BY <2>2, Z3
  <2>4. PICK k \in 0 .. MaxAttempts - 1 :
           streak[c] = circuit[c].fails * MaxAttempts + k
    <3>1. CASE circuit[c].state = "closed" /\ ~Free(c)
      <4> DEFINE t == circuit[c].holder
      <4>1. t \in Threads /\ at[t] = c
        BY <2>1, <3>1 DEF Counted, Circuit, Free
      <4>2. tries[t] \in Nat /\ tries[t] < MaxAttempts
        BY <2>1, <4>1 DEF BoundedInv, AttemptInv, Bounded, TypeOK
      <4>3. tries[t] \in 0 .. MaxAttempts - 1
        BY <2>2, <4>2
      <4> QED BY <2>1, <3>1, <4>3 DEF Counted
    <3>2. CASE circuit[c].state = "closed" /\ Free(c)
      BY <2>1, <2>2, <3>2 DEF Counted
    <3>3. CASE circuit[c].state # "closed"
      <4>1. streak[c] = circuit[c].fails * MaxAttempts /\ FailMax * MaxAttempts \in Nat
        BY <2>1, <2>2, <3>3 DEF Counted
      <4>2. streak[c] = circuit[c].fails * MaxAttempts + 0
        BY <2>1, <2>2, <3>3, <4>1 DEF Counted
      <4> QED BY <2>2, <4>2
    <3> QED BY <3>1, <3>2, <3>3
  <2> QED BY <1>2, <2>2, <2>3, <2>4 DEF FailedInARow
<1> QED BY <1>1, <1>2

LEMMA CallingIsHolder ==
    ASSUME SeatInv, NEW c \in Circuits
    PROVE  Calling(c) = {t \in Threads : circuit[c].holder = t}
BY DEF Calling, SeatInv, Inside

FailuresCounted == \A c \in Circuits : FailedInARow(c) = circuit[c].fails

BreakerInv == BoundedInv /\ EngineInv /\ CountInv /\ SeatInv /\ FailuresCounted

(* The engine's circuit counts like the others: not closed, it is full.    *)
LEMMA OpenIsFull ==
    ASSUME BreakerInv, NEW c \in Circuits
    PROVE  /\ circuit[c].state # "closed" => circuit[c].fails = FailMax
           /\ circuit[c].state = "closed" => circuit[c].fails < FailMax
           /\ circuit[c] \in Circuit
<1>1. CASE c = "reasoning"
  BY <1>1, LlmConstants DEF BreakerInv, EngineInv, ReasoningCircuitStaysClosed, BoundedInv,
     TypeOK, Circuit, LlmConstants
<1>2. CASE c # "reasoning"
  BY <1>2 DEF BreakerInv, CountInv, Counted, BoundedInv, TypeOK, Circuit, Circuits
<1> QED BY <1>1, <1>2

LEMMA BreakerStep ==
    ASSUME BreakerInv, BreakerInv', [Next]_vars, NEW c \in Circuits
    PROVE  UNCHANGED Breaker(c)!state \/ Breaker(c)!Next
<1> DEFINE k == circuit[c]
<1>0. k \in Circuit /\ FailMax \in Nat \ {0} /\ k.fails \in 0 .. FailMax
      /\ NoThread \notin Threads
  BY OpenIsFull, LlmConstants DEF LlmConstants, Circuit
<1>1. /\ Calling(c) = {t \in Threads : k.holder = t}
      /\ Calling(c)' = {t \in Threads : k'.holder = t}
  BY CallingIsHolder DEF BreakerInv, Calling, SeatInv, Inside
<1>2. FailedInARow(c) = k.fails /\ FailedInARow(c)' = k'.fails
  BY DEF BreakerInv, FailuresCounted
<1>3. CASE k' = k
  BY <1>1, <1>2, <1>3 DEF Breaker!state
<1>4. CASE Free(c) /\ \E t \in Threads : k' = Entered(k, t)
  <2>1. PICK t \in Threads : k' = Entered(k, t)
    BY <1>4
  <2>a. k.holder = NoThread /\ k'.holder = t
    BY <1>0, <1>4, <2>1 DEF Free, Entered, Circuit
  <2>2. Calling(c) = {} /\ Calling(c)' = {t}
    BY <1>0, <1>1, <2>a
  <2>3. k'.fails = k.fails /\ (k'.state # "closed" <=> k.state # "closed")
    BY <1>0, <2>1 DEF Entered, Circuit
  <2> QED BY <1>2, <2>2, <2>3 DEF Breaker!Next, Breaker!Begin
<1>5. CASE ~Free(c) /\ k' = Fresh
  <2>1. Calling(c) # {} /\ Calling(c)' = {}
    BY <1>0, <1>1, <1>5 DEF Free, Fresh, Circuit
  <2>2. k'.fails = 0 /\ k'.state = "closed"
    BY <1>5 DEF Fresh
  <2> QED BY <1>2, <2>1, <2>2 DEF Breaker!Next, Breaker!Succeed
<1>6. CASE ~Free(c) /\ k' = Failed(k)
  <2>1. Calling(c) # {} /\ Calling(c)' = {}
    BY <1>0, <1>1, <1>6 DEF Free, Failed, Circuit
  <2>2. k'.fails = IF k.fails < FailMax THEN k.fails + 1 ELSE k.fails
    BY <1>6 DEF Failed
  <2>3. k'.state # "closed" <=> Trips(k)
    BY <1>6 DEF Failed
  <2>4. Trips(k) <=> k'.fails = FailMax
    BY <1>0, <2>2, OpenIsFull DEF Trips
  <2> QED BY <1>2, <2>1, <2>2, <2>3, <2>4 DEF Breaker!Next, Breaker!Fail
<1> QED BY <1>3, <1>4, <1>5, <1>6, CircuitMoves DEF BreakerInv

(* Each circuit is a CircuitBreaker: one call at a time, open exactly when *)
(* the last FailMax requests that went through it failed for good, whether *)
(* they were answered late, from the cache or by nothing at all.           *)
THEOREM BreakersRefined == Spec => ImplementsBreakers
<1>1. Init => \A c \in Circuits : Breaker(c)!Init
  <2> SUFFICES ASSUME Init, NEW c \in Circuits PROVE Breaker(c)!Init
    OBVIOUS
  <2>1. BoundedInv /\ CountInv /\ SeatInv
    BY BoundedInit, CountInit, SeatInit
  <2>2. FailedInARow(c) = circuit[c].fails
    BY <2>1, FailedIsCounted
  <2>3. circuit[c] = Fresh
    BY DEF Init
  <2>4. Calling(c) = {}
    BY <2>1, <2>3, CallingIsHolder, LlmConstants DEF Fresh, LlmConstants
  <2> QED BY <2>2, <2>3, <2>4 DEF Breaker!Init, Fresh
<1>2. Spec => []BreakerInv
  <2> DEFINE I == BoundedInv /\ EngineInv /\ CountInv /\ SeatInv
  <2>1. Init => I
    BY BoundedInit, CountInit, SeatInit
       DEF Init, EngineInv, ReasoningCircuitStaysClosed, Fresh, Circuits
  <2>2. I /\ [Next]_vars => I'
    BY BoundedStep, EngineStep, CountStep, SeatStep
  <2>3. I => BreakerInv
    BY FailedIsCounted DEF BreakerInv, FailuresCounted
  <2> QED BY <2>1, <2>2, <2>3, PTL DEF Spec
<1>3. BreakerInv /\ BreakerInv' /\ [Next]_vars
         => [\A c \in Circuits : UNCHANGED Breaker(c)!state \/ Breaker(c)!Next]_vars
  BY BreakerStep
<1> QED BY <1>1, <1>2, <1>3, PTL DEF Spec, ImplementsBreakers

(* One reasoning at a time: a thread whose pipeline has given it up keeps  *)
(* the engine, and all the others wait, until its providers have answered. *)
OneReasoning ==
    \A t, u \in Threads : InEngine(t) /\ InEngine(u) => t = u

THEOREM EngineIsSerial == Spec => []OneReasoning
<1>1. SeatInv => OneReasoning
  BY DEF SeatInv, OneReasoning, Inside
<1> QED BY <1>1, BoundedInit, BoundedStep, SeatInit, SeatStep, PTL DEF Spec
=============================================================================
