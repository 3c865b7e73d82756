------------------------------ MODULE LlmCalls ------------------------------
(***************************************************************************)
(* The requests to language models in one process: generate_with_fallback, *)
(* which walks four tiers, each behind a circuit breaker of its own, and   *)
(* ReasoningEngine.generate_instruction_set, which sits behind a breaker   *)
(* of the engine, calls generate beside the breakers of the tiers, and     *)
(* runs on a thread its pipeline gives up after a timeout.                 *)
(*                                                                         *)
(* A thread serves one request after another.  A step is one attempt at a  *)
(* provider, or one move between the tiers.  Texts, prompts and metrics    *)
(* are left out; all requests that may share a cache entry share it.  The  *)
(* breakers are enabled (their default) and LiteLLM is installed.          *)
(***************************************************************************)
EXTENDS Integers

CONSTANTS
    Threads,        \* threads that make requests
    NoThread,       \* nobody
    MaxAttempts,    \* stop_after_attempt of generate (3)
    FailMax,        \* failures in a row that open a circuit (3)
    MaxInvocations, \* max_retries + 1 of the DeepSeek loop (2)
    Environments,   \* the sets of providers the settings may hold a key for
    OwnKeys         \* the sets of providers a user may have a key of their own for

Cloud == {"nvidia", "groq", "openrouter"}
Providers == Cloud \cup {"ollama"}
Circuits == Providers \cup {"reasoning"}

ASSUME LlmConstants ==
    /\ NoThread \notin Threads
    /\ MaxAttempts \in Nat \ {0} /\ FailMax \in Nat \ {0} /\ MaxInvocations \in Nat \ {0}
    /\ Environments \subseteq SUBSET Cloud
    /\ OwnKeys \subseteq SUBSET Cloud

VARIABLES
    env,      \* the providers whose key is in the settings
    circuit,  \* the circuit breakers: state, failures in a row, thread inside
    cached,   \* the tiers whose answer to the prompt is in Redis
    at,       \* where each request is
    tries,    \* failed attempts of the current generate or invocation loop
    own,      \* the keys of the user of a request
    job,      \* the pipeline behind a reasoning: its advice, or that it waits
    cancel,   \* the cancellation event of a reasoning
    streak,   \* history: failed attempts in a row at a tier, through its circuit
    asked,    \* history: tiers a request has come to
    said,     \* history: how Groq itself ended a request
    tripped,  \* history: requests whose failure opened the circuit of Groq
    late      \* history: attempts a reasoning has begun after its cancellation

requestVars == <<own, asked, said, tripped>>
reasoningVars == <<job, cancel, late>>
vars == <<env, circuit, cached, at, tries, streak, requestVars, reasoningVars>>

-----------------------------------------------------------------------------
(***************************************************************************)
(* A circuit breaker.  The library runs a call under the lock of its       *)
(* breaker, so one thread at a time is inside a circuit.                   *)
(***************************************************************************)

Fresh == [state |-> "closed", fails |-> 0, holder |-> NoThread]

Inside(t, c) == circuit[c].holder = t
Free(c) == circuit[c].holder = NoThread

\* An open circuit whose reset timeout has passed lets one call try.
Entered(k, t) == [k EXCEPT !.holder = t,
                           !.state = IF @ = "open" THEN "half" ELSE @]

Trips(k) == k.state = "half" \/ k.fails + 1 >= FailMax

Failed(k) ==
    [state  |-> IF Trips(k) THEN "open" ELSE "closed",
     fails  |-> IF k.fails < FailMax THEN k.fails + 1 ELSE k.fails,
     holder |-> NoThread]

-----------------------------------------------------------------------------
(***************************************************************************)
(* The tiers of generate_with_fallback                                     *)
(***************************************************************************)

Keys(t) == env \cup own[t]

BelowNvidia(keys) ==
    IF "groq" \in keys THEN "groq"
    ELSE IF "openrouter" \in keys THEN "openrouter" ELSE "ollama"

FirstTier(keys) == IF "nvidia" \in keys THEN "nvidia" ELSE BelowNvidia(keys)

\* Groq hands over to OpenRouter in the handler of its exception only, and
\* there only for a rate limit, unless the settings hold no key for Groq.
BelowGroqForgets(keys, end) ==  \* Wrong: a rate limit is no reason to go on.
    IF "openrouter" \in keys /\ end # "empty" /\ "groq" \notin env
    THEN "openrouter" ELSE "ollama"
BelowGroq(keys, end) ==
    IF "openrouter" \in keys /\ end # "empty" /\ (end = "rate" \/ "groq" \notin env)
    THEN "openrouter" ELSE "ollama"

NextTier(t, end) ==
    CASE at[t] = "nvidia"     -> BelowNvidia(Keys(t))
      [] at[t] = "groq"       -> BelowGroq(Keys(t), end)
      [] at[t] = "openrouter" -> "ollama"
      [] at[t] = "ollama"     -> "unavailable"

\* The key of a user is part of the cache key, except that the first tier is
\* called without it.
Shared(t, p) == p \in {"nvidia", "ollama"} \/ p \notin own[t]

BeginsFallback(t) ==
    /\ at[t] = "idle"
    /\ \E keys \in OwnKeys :
          /\ own' = [own EXCEPT ![t] = keys]
          /\ at' = [at EXCEPT ![t] = FirstTier(env \cup keys)]
    /\ UNCHANGED <<env, circuit, cached, tries, streak, asked, said, tripped, reasoningVars>>

EntersCircuit(t) ==
    /\ at[t] \in Providers
    /\ Free(at[t])
    /\ circuit' = [circuit EXCEPT ![at[t]] = Entered(@, t)]
    /\ tries' = [tries EXCEPT ![t] = 0]
    /\ asked' = [asked EXCEPT ![t] = @ \cup {at[t]}]
    /\ UNCHANGED <<env, cached, at, streak, own, said, tripped, reasoningVars>>

\* The circuit is open and its reset timeout has not passed.
IsRefused(t) ==
    /\ at[t] \in Providers
    /\ Free(at[t])
    /\ circuit[at[t]].state = "open"
    /\ at' = [at EXCEPT ![t] = NextTier(t, "open")]
    /\ asked' = [asked EXCEPT ![t] = @ \cup {at[t]}]
    /\ UNCHANGED <<env, circuit, cached, tries, streak, own, said, tripped, reasoningVars>>

\* The call at tier p returns, whatever it returns.
LeavesCircuit(p) ==
    /\ circuit' = [circuit EXCEPT ![p] = Fresh]
    /\ streak' = [streak EXCEPT ![p] = 0]

\* The lookup in the cache is part of generate, inside the circuit.
FindsCached(t) ==
    /\ at[t] \in cached
    /\ Inside(t, at[t]) /\ Shared(t, at[t])
    /\ LeavesCircuit(at[t])
    /\ at' = [at EXCEPT ![t] = "answered"]
    /\ UNCHANGED <<env, cached, tries, requestVars, reasoningVars>>

IsAnswered(t) ==
    /\ at[t] \in Providers
    /\ Inside(t, at[t])
    /\ LeavesCircuit(at[t])
    /\ cached' = IF Shared(t, at[t]) THEN cached \cup {at[t]} ELSE cached
    /\ at' = [at EXCEPT ![t] = "answered"]
    /\ UNCHANGED <<env, tries, requestVars, reasoningVars>>

\* An empty answer raises nothing: the circuit counts a success.
GetsNothing(t) ==
    /\ at[t] \in Providers
    /\ Inside(t, at[t])
    /\ LeavesCircuit(at[t])
    /\ at' = [at EXCEPT ![t] = NextTier(t, "empty")]
    /\ said' = IF at[t] = "groq" THEN [said EXCEPT ![t] = "empty"] ELSE said
    /\ UNCHANGED <<env, cached, tries, own, asked, tripped, reasoningVars>>

LastAttemptAtOnce(t) == TRUE  \* Wrong: a failure is not tried again.
LastAttemptOneMore(t) == tries[t] = MaxAttempts  \* Wrong: one attempt too many.
LastAttempt(t) == tries[t] + 1 = MaxAttempts

StreakGrows(p) ==
    streak' = [streak EXCEPT ![p] = IF @ < FailMax * MaxAttempts THEN @ + 1 ELSE @]

TriesAgain(t) ==
    /\ at[t] \in Providers
    /\ Inside(t, at[t])
    /\ ~LastAttempt(t)
    /\ tries' = [tries EXCEPT ![t] = @ + 1]
    /\ StreakGrows(at[t])
    /\ UNCHANGED <<env, circuit, cached, at, requestVars, reasoningVars>>

\* The last attempt fails for the reason why.  The failure that opens the
\* circuit is replaced by the error of the breaker, which is no rate limit.
Fails(t, why) ==
    /\ at[t] \in Providers
    /\ Inside(t, at[t])
    /\ LastAttempt(t)
    /\ circuit' = [circuit EXCEPT ![at[t]] = Failed(@)]
    /\ StreakGrows(at[t])
    /\ at' = [at EXCEPT ![t] = NextTier(t, IF Trips(circuit[at[t]]) THEN "open" ELSE why)]
    /\ said' = IF at[t] = "groq" THEN [said EXCEPT ![t] = why] ELSE said
    /\ tripped' = IF at[t] = "groq" /\ Trips(circuit["groq"]) THEN tripped \cup {t} ELSE tripped
    /\ UNCHANGED <<env, cached, tries, own, asked, reasoningVars>>

-----------------------------------------------------------------------------
(***************************************************************************)
(* ReasoningEngine.generate_instruction_set, on a thread of its own        *)
(***************************************************************************)

BeginsReasoning(t) ==
    /\ at[t] = "idle"
    /\ at' = [at EXCEPT ![t] = "queued"]
    /\ job' = [job EXCEPT ![t] = "waits"]
    /\ UNCHANGED <<env, circuit, cached, tries, streak, requestVars, cancel, late>>

\* The pipeline gives up: it goes on without advice, the thread goes on too.
TimesOut(t) ==
    /\ job[t] = "waits"
    /\ job' = [job EXCEPT ![t] = "none"]
    /\ cancel' = [cancel EXCEPT ![t] = TRUE]
    /\ UNCHANGED <<env, circuit, cached, at, tries, streak, requestVars, late>>

\* The breaker of the engine is entered for the whole of the reasoning.  Its
\* refusal is left out: this circuit never opens (ReasoningCircuitStaysClosed).
EntersEngineUnshared(t) ==  \* Wrong: each reasoning has a breaker of its own.
    /\ at[t] = "queued"
    /\ circuit' = [circuit EXCEPT !["reasoning"] = Entered(@, t)]
    /\ at' = [at EXCEPT ![t] = "start"]
    /\ UNCHANGED <<env, cached, tries, streak, requestVars, reasoningVars>>
EntersEngine(t) ==
    /\ at[t] = "queued"
    /\ Free("reasoning")
    /\ circuit' = [circuit EXCEPT !["reasoning"] = Entered(@, t)]
    /\ at' = [at EXCEPT ![t] = "start"]
    /\ UNCHANGED <<env, cached, tries, streak, requestVars, reasoningVars>>

StartsBlindly(t) ==  \* Wrong: the cancellation is not looked at.
    /\ at[t] = "start"
    /\ at' = [at EXCEPT ![t] = "nim"]
    /\ tries' = [tries EXCEPT ![t] = 0]
    /\ late' = [late EXCEPT ![t] = IF cancel[t] THEN @ + 1 ELSE @]
    /\ UNCHANGED <<env, circuit, cached, streak, requestVars, job, cancel>>
Starts(t) ==
    /\ at[t] = "start"
    /\ at' = [at EXCEPT ![t] = IF cancel[t] THEN "rules" ELSE "nim"]
    /\ tries' = [tries EXCEPT ![t] = 0]
    /\ UNCHANGED <<env, circuit, cached, streak, requestVars, reasoningVars>>

\* After llm_service the client of NVIDIA is tried, which has its attempts
\* if it has a key; nothing is asked in between.
GoesOn(t) ==
    IF at[t] = "nim" /\ "nvidia" \in env THEN "chat" ELSE "check"

NimRaises(t) == GoesOn(t)

BeginsAttempt(t, begins) ==
    late' = [late EXCEPT ![t] = IF cancel[t] /\ begins THEN @ + 1 ELSE @]

\* NVIDIA answers with something that can be parsed.
NimAdvises(t) ==
    /\ at[t] \in {"nim", "chat"}
    /\ at' = [at EXCEPT ![t] = "nvidia advice"]
    /\ UNCHANGED <<env, circuit, cached, tries, streak, requestVars, reasoningVars>>

\* It answers with something else, which ends the tier, or with nothing.
NimBabbles(t) ==
    /\ at[t] \in {"nim", "chat"}
    /\ at' = [at EXCEPT ![t] = "check"]
    /\ tries' = [tries EXCEPT ![t] = 0]
    /\ UNCHANGED <<env, circuit, cached, streak, requestVars, reasoningVars>>

NimIsSilent(t) ==
    /\ at[t] \in {"nim", "chat"}
    /\ at' = [at EXCEPT ![t] = GoesOn(t)]
    /\ tries' = [tries EXCEPT ![t] = 0]
    /\ BeginsAttempt(t, GoesOn(t) = "chat")
    /\ UNCHANGED <<env, circuit, cached, streak, requestVars, job, cancel>>

NimTriesAgain(t) ==
    /\ at[t] \in {"nim", "chat"}
    /\ ~LastAttempt(t)
    /\ tries' = [tries EXCEPT ![t] = @ + 1]
    /\ BeginsAttempt(t, TRUE)
    /\ UNCHANGED <<env, circuit, cached, at, streak, requestVars, job, cancel>>

NimFails(t) ==
    /\ at[t] \in {"nim", "chat"}
    /\ LastAttempt(t)
    /\ at' = [at EXCEPT ![t] = NimRaises(t)]
    /\ tries' = [tries EXCEPT ![t] = 0]
    /\ BeginsAttempt(t, NimRaises(t) = "chat")
    /\ UNCHANGED <<env, circuit, cached, streak, requestVars, job, cancel>>

\* Before the DeepSeek tier, and before each of its invocations.
Checks(t) ==
    /\ at[t] = "check"
    /\ at' = [at EXCEPT ![t] = IF cancel[t] THEN "rules" ELSE "invoking"]
    /\ UNCHANGED <<env, circuit, cached, tries, streak, requestVars, reasoningVars>>

DeepSeekAdvises(t) ==
    /\ at[t] = "invoking"
    /\ at' = [at EXCEPT ![t] = "deepseek advice"]
    /\ UNCHANGED <<env, circuit, cached, tries, streak, requestVars, reasoningVars>>

\* Parsed, but without a list of blocks: not tried again.
DeepSeekBabbles(t) ==
    /\ at[t] = "invoking"
    /\ at' = [at EXCEPT ![t] = "rules"]
    /\ UNCHANGED <<env, circuit, cached, tries, streak, requestVars, reasoningVars>>

DeepSeekFails(t) ==
    /\ at[t] = "invoking"
    /\ tries' = [tries EXCEPT ![t] = IF @ + 1 < MaxInvocations THEN @ + 1 ELSE 0]
    /\ at' = [at EXCEPT ![t] = IF tries[t] + 1 < MaxInvocations THEN "check" ELSE "rules"]
    /\ UNCHANGED <<env, circuit, cached, streak, requestVars, reasoningVars>>

Outcomes == {"nvidia advice", "deepseek advice", "rules", "raised"}

\* The reasoning returns through its breaker, to a pipeline that may be gone.
EndsReasoning(t) ==
    /\ at[t] \in Outcomes
    /\ circuit' = [circuit EXCEPT !["reasoning"] = IF at[t] = "raised" THEN Failed(@) ELSE Fresh]
    /\ job' = [job EXCEPT ![t] = IF @ = "waits" THEN at[t] ELSE @]
    /\ at' = [at EXCEPT ![t] = "ended"]
    /\ UNCHANGED <<env, cached, tries, streak, requestVars, cancel, late>>

-----------------------------------------------------------------------------

\* The thread is free for another request.
Returns(t) ==
    /\ at[t] \in {"answered", "unavailable", "ended"}
    /\ at' = [at EXCEPT ![t] = "idle"]
    /\ tries' = [tries EXCEPT ![t] = 0]
    /\ own' = [own EXCEPT ![t] = {}]
    /\ asked' = [asked EXCEPT ![t] = {}]
    /\ said' = [said EXCEPT ![t] = "none"]
    /\ tripped' = tripped \ {t}
    /\ job' = [job EXCEPT ![t] = "none"]
    /\ cancel' = [cancel EXCEPT ![t] = FALSE]
    /\ late' = [late EXCEPT ![t] = 0]
    /\ UNCHANGED <<env, circuit, cached, streak>>

Init ==
    /\ env \in Environments
    /\ circuit = [c \in Circuits |-> Fresh]
    /\ cached = {}
    /\ at = [t \in Threads |-> "idle"]
    /\ tries = [t \in Threads |-> 0]
    /\ own = [t \in Threads |-> {}]
    /\ job = [t \in Threads |-> "none"]
    /\ cancel = [t \in Threads |-> FALSE]
    /\ streak = [p \in Providers |-> 0]
    /\ asked = [t \in Threads |-> {}]
    /\ said = [t \in Threads |-> "none"]
    /\ tripped = {}
    /\ late = [t \in Threads |-> 0]

Fallback(t) ==
    \/ BeginsFallback(t) \/ EntersCircuit(t) \/ IsRefused(t)
    \/ FindsCached(t) \/ IsAnswered(t) \/ GetsNothing(t)
    \/ TriesAgain(t) \/ \E why \in {"error", "rate"} : Fails(t, why)

Reasoning(t) ==
    \/ BeginsReasoning(t) \/ TimesOut(t) \/ EntersEngine(t) \/ Starts(t)
    \/ NimAdvises(t) \/ NimBabbles(t) \/ NimIsSilent(t) \/ NimTriesAgain(t) \/ NimFails(t)
    \/ Checks(t) \/ DeepSeekAdvises(t) \/ DeepSeekBabbles(t) \/ DeepSeekFails(t)
    \/ EndsReasoning(t)

Next == \E t \in Threads : Fallback(t) \/ Reasoning(t) \/ Returns(t)

Spec == Init /\ [][Next]_vars

-----------------------------------------------------------------------------
(* Properties                                                              *)

Ends == {"error", "rate"}
Places ==
    Providers \cup Outcomes \cup
    {"idle", "answered", "unavailable", "queued", "start", "nim", "chat",
     "check", "invoking", "ended"}

\* Every variable has its type.
TypeOK ==
    /\ env \in SUBSET Cloud
    /\ circuit \in [Circuits -> [state  : {"closed", "open", "half"},
                                 fails  : 0 .. FailMax,
                                 holder : Threads \cup {NoThread}]]
    /\ cached \in SUBSET Providers
    /\ at \in [Threads -> Places]
    /\ tries \in [Threads -> {n \in Nat : n < MaxAttempts \/ n < MaxInvocations}]
    /\ own \in [Threads -> SUBSET Cloud]
    /\ job \in [Threads -> {"none", "waits"} \cup Outcomes]
    /\ cancel \in [Threads -> BOOLEAN]
    /\ streak \in [Providers -> 0 .. FailMax * MaxAttempts]
    /\ asked \in [Threads -> SUBSET Providers]
    /\ said \in [Threads -> {"none", "empty"} \cup Ends]
    /\ tripped \in SUBSET Threads
    /\ late \in [Threads -> Nat]

\* generate_with_fallback comes to Ollama, or gives up, only after every tier
\* it has a key for: OpenRouter alone may be passed over, below a Groq tier
\* that did not end in a rate limit, or whose circuit was open or opened just
\* then, because somebody else's failures count too.
PassesOverOpenRouter(t) ==
    "groq" \in asked[t] /\ (said[t] # "rate" \/ t \in tripped)
EveryTierAsked ==
    \A t \in Threads : at[t] \in {"ollama", "unavailable"} =>
        Keys(t) \subseteq asked[t] \cup (IF PassesOverOpenRouter(t) THEN {"openrouter"} ELSE {})

\* A circuit of a tier is open only after FailMax requests in a row, from
\* whatever threads, have each used up their attempts on that tier.
TripNeedsFailures ==
    \A p \in Providers :
        circuit[p].state # "closed" => streak[p] = FailMax * MaxAttempts

\* What the code does against its documentation, and so no aim of a run: the
\* circuit around generate_instruction_set never counts a failure, because the
\* function catches what its providers raise.  The breaker spares nobody.
ReasoningCircuitStaysClosed ==
    circuit["reasoning"].state = "closed" /\ circuit["reasoning"].fails = 0

\* A reasoning its pipeline has given up begins only the attempts that were
\* left to NVIDIA, twice over: never a tier or an invocation it had not reached.
CancelledStops ==
    \A t \in Threads : late[t] <= 2 * MaxAttempts - 1

\* The threads that a breaker runs a call of, the engine's from where the
\* reasoning is, and the requests in a row that failed, from the attempts.
InEngine(t) == at[t] \in {"start", "nim", "chat", "check", "invoking"} \cup Outcomes
Calling(c) ==
    IF c = "reasoning" THEN {t \in Threads : InEngine(t)} ELSE {t \in Threads : Inside(t, c)}
FailedInARow(c) ==
    IF c = "reasoning" THEN circuit[c].fails ELSE streak[c] \div MaxAttempts

\* The circuits implement CircuitBreaker, whatever the requests, cached answers,
\* refusals, given-up reasonings and their overlaps: a circuit is open exactly
\* when the attempts of the last FailMax requests at it were all in vain, and
\* one reasoning at a time runs in the process, given up or not.
Breaker(c) == INSTANCE CircuitBreaker WITH
    Callers <- Threads, Limit <- FailMax,
    calling <- Calling(c), failed <- FailedInARow(c), open <- circuit[c].state # "closed"
ImplementsBreakers ==
    /\ \A c \in Circuits : Breaker(c)!Init
    /\ [][\A c \in Circuits : UNCHANGED Breaker(c)!state \/ Breaker(c)!Next]_vars

=============================================================================
