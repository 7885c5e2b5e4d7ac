--------------------------- MODULE RoutingPromises ---------------------------
(***************************************************************************)
(* What LLMRouting promises, over the part of its state that says so: the  *)
(* circuit of each client, the log it is rebuilt from, the clock, and the  *)
(* requests.                                                               *)
(***************************************************************************)
EXTENDS Naturals, SequencesExt

CONSTANTS
    Threshold, \* circuit_breaker_threshold
    Cooldown,  \* circuit_breaker_cooldown_seconds, in clock ticks
    MaxTime    \* bound: where the clock stops

Never == MaxTime + Cooldown + 1     \* no date: open_until is None

VARIABLES
    clock,   \* the monotonic clock
    circuit, \* client_states: consecutive failures, open_until, measured
    health,  \* the newest provider_health_events, oldest first
    req      \* the request each thread is serving

Open(c) == circuit[c].until # Never /\ clock < circuit[c].until

-----------------------------------------------------------------------------
(* What the events say of a client.                                         *)

EventsOf(c) == {i \in DOMAIN health : health[i].client = c}

\* Mutant: a recovery does not end a run of failures.
SucceededOnly(e) == e.status = "success"
Succeeded(e) == e.status \in {"success", "circuit_recovered"}

\* Failures counted back to the newest success.
FailureRun(events) ==
    Cardinality({i \in events : /\ health[i].status = "failure"
                                /\ \A j \in events : i < j => ~Succeeded(health[j])})

\* Mutant: the logged date is taken for the time at which the circuit tripped.
OpenUntilFromTrip(events) ==
    LET opened == {i \in events : health[i].status = "circuit_open" /\ health[i].until # Never}
    IN  IF opened # {} /\ health[Max(events)].status \in {"circuit_open", "circuit_skip"}
        THEN health[Max(opened)].until + Cooldown
        ELSE Never
OpenUntil(events) ==
    LET opened == {i \in events : health[i].status = "circuit_open" /\ health[i].until # Never}
    IN  IF opened # {} /\ health[Max(events)].status \in {"circuit_open", "circuit_skip"}
        THEN health[Max(opened)].until
        ELSE Never

Hydrated(c) ==
    LET events == EventsOf(c)
        run == FailureRun(events)
        until == OpenUntil(events)
    IN  [failures |-> IF until # Never /\ run = 0 THEN 1 ELSE run,
         until |-> until,
         measured |-> \E i \in events : Succeeded(health[i]) \/ health[i].status = "failure"]

-----------------------------------------------------------------------------
(* The promises.                                                            *)

\* A circuit never stays open past one cooldown from now, also when its date
\* was read from the log of an earlier process (setup.md: "How long a tripped
\* circuit breaker stays open before retrying").  The dates
\* are of the host's monotonic clock, which every process on it shares until the
\* host is booted again.
OpenForOneCooldown ==
    \A c \in DOMAIN circuit : circuit[c].until # Never => circuit[c].until <= clock + Cooldown

\* An open circuit has the threshold's number of consecutive failures behind it,
\* whichever process counted them.
OpenAfterFailures ==
    \A c \in DOMAIN circuit : circuit[c].until # Never => circuit[c].failures >= Threshold

\* The mock answers only when every client was skipped as open or failed
\* in this very request: no candidate is lost in the ordering.
MockIsLastResort ==
    \A t \in DOMAIN req :
        req[t].answer = "mock" => req[t].skipped \cup req[t].failed = DOMAIN circuit

\* Between requests a new process would start with what this one knows: the
\* same consecutive failures and the same circuits open.
LogAgrees ==
    (\A t \in DOMAIN req : req[t].pc = "idle") =>
        \A c \in DOMAIN circuit :
            LET new == Hydrated(c)
            IN  /\ new.failures = circuit[c].failures
                /\ (new.until # Never /\ clock < new.until) = Open(c)
=============================================================================
