----------------------------- MODULE LLMRouting -----------------------------
(***************************************************************************)
(* The LLM provider: a request tries the configured clients in turn,       *)
(* retries what looks transient, and answers from the mock provider when   *)
(* every client failed.  A circuit breaker per client is kept in memory,   *)
(* shared by all request threads without a lock, and rebuilt from a log of *)
(* health events when the process starts.                                  *)
(*                                                                         *)
(* Memory is read and written between the log's INSERTs and the calls to   *)
(* the clients, so each of those is a step of its own.                     *)
(***************************************************************************)
EXTENDS Naturals, SequencesExt, RoutingPromises

CONSTANTS
    Clients,          \* the names of the configured clients, in order
    Threads,
    Strategy,         \* how available clients are ordered
    Attempts,         \* retry_attempts
    FallbackSettings, \* what llm_allow_mock_fallback may be set to
    Window,           \* how many of the newest health events a start reads
    MaxRequests, MaxRestarts  \* bounds of the model

\* What the constants must be.
RoutingAssumption ==
    /\ Clients \in Seq(STRING) /\ IsInjective(Clients)
    /\ Strategy \in {"ordered", "round_robin", "latency_aware"}
    /\ Threshold \in Nat \ {0} /\ Attempts \in Nat \ {0}
    /\ Cooldown \in Nat /\ FallbackSettings \subseteq BOOLEAN
    /\ Window \in Nat /\ MaxTime \in Nat
    /\ MaxRequests \in Nat /\ MaxRestarts \in Nat

Names == {Clients[i] : i \in DOMAIN Clients}
Mock == "mock"
Nobody == "nobody"

VARIABLES
    cursor,     \* round_robin_cursor
    descriptor, \* last_used_descriptor: the provider of the latest answer
    allowFallback, \* llm_allow_mock_fallback of this process
    begun,      \* how many requests and restarts there were
    restarts

memory == <<circuit, cursor, descriptor>>
bounds == <<begun, restarts, allowFallback>>
vars == <<clock, memory, health, req, bounds>>

Closed == [failures |-> 0, until |-> Never, measured |-> FALSE]
NoRequest == [pc |-> "idle", kind |-> "generate", todo |-> <<>>, client |-> Nobody,
              seen |-> 0, attempt |-> 0, skipped |-> {}, failed |-> {}, body |-> {},
              answer |-> "none", credited |-> Nobody]

Init ==
    /\ clock = 0
    /\ circuit = [c \in Names |-> Closed]
    /\ cursor = 0
    /\ health = <<>>
    /\ descriptor = Nobody
    /\ allowFallback \in FallbackSettings
    /\ req = [t \in Threads |-> NoRequest]
    /\ begun = 0
    /\ restarts = 0

At(t, pc) == req[t].pc = pc
Goto(t, pc) == req' = [req EXCEPT ![t].pc = pc]

\* Only the newest Window events are ever read again: the model drops the rest.
Log(c, status, until) ==
    LET events == Append(health, [client |-> c, status |-> status, until |-> until])
    IN  health' = SubSeq(events, IF Len(events) > Window THEN 2 ELSE 1, Len(events))
SetCircuit(c, state) == circuit' = [circuit EXCEPT ![c] = state]

-----------------------------------------------------------------------------
(* Choosing the candidates, once, when the request starts.                  *)

Begin(t, kind) ==
    /\ At(t, "idle") /\ begun < MaxRequests
    /\ begun' = begun + 1
    /\ req' = [req EXCEPT ![t] = [NoRequest EXCEPT !.pc = "scan", !.kind = kind]]
    /\ UNCHANGED <<clock, memory, health, restarts, allowFallback>>

\* The clients are scanned in their configured order.
Scanned(t) == Clients[req[t].seen + 1]
Scanning(t) == At(t, "scan") /\ req[t].seen < Len(Clients)
Candidate(t) ==
    req' = [req EXCEPT ![t].pc = "scan", ![t].seen = @ + 1,
                       ![t].todo = Append(@, Scanned(t))]
CheckClosed(t) ==
    /\ Scanning(t)
    /\ IF circuit[Scanned(t)].until = Never THEN Candidate(t) ELSE Goto(t, "compare")
    /\ UNCHANGED <<clock, memory, health, bounds>>

\* open_until is read again after the clock: None is not compared with a time,
\* a cooldown that is over closes the circuit, any other one skips the client.
Compare(t) ==
    LET until == circuit[Scanned(t)].until IN
    /\ At(t, "compare")
    /\ IF until = Never
       THEN /\ req' = [req EXCEPT ![t].pc = "done", ![t].answer = "raised"]
            /\ UNCHANGED circuit
       ELSE IF until <= clock
       THEN /\ SetCircuit(Scanned(t), [circuit[Scanned(t)] EXCEPT !.until = Never])
            /\ Candidate(t)
       ELSE Goto(t, "skip") /\ UNCHANGED circuit
    /\ UNCHANGED <<clock, cursor, descriptor, health, bounds>>

LogSkip(t) ==
    /\ At(t, "skip")
    /\ Log(Scanned(t), "circuit_skip", Never)
    /\ req' = [req EXCEPT ![t].pc = "scan", ![t].seen = @ + 1,
                          ![t].skipped = @ \cup {Scanned(t)}]
    /\ UNCHANGED <<clock, memory, bounds>>

\* Mutant: the client at the cursor is left out.
RotatedPastStart(available) ==
    LET start == cursor % Len(available)
    IN  SubSeq(available, start + 2, Len(available)) \o SubSeq(available, 1, start)
Rotated(available) ==
    LET start == cursor % Len(available)
    IN  SubSeq(available, start + 1, Len(available)) \o SubSeq(available, 1, start)

\* Unmeasured clients first, as they are ordered; the others in the order of
\* their observed success rates and latencies, which may be any.
ByLatency(available) ==
    LET places == DOMAIN available
        measured(i) == circuit[available[i]].measured
        ranked(p) == \A i, j \in places : i < j =>
                        /\ measured(p[i]) => measured(p[j])
                        /\ measured(p[j]) \/ p[i] < p[j]
    IN  {[i \in places |-> available[p[i]]] : p \in {q \in Bijection(places, places) : ranked(q)}}

Orders(available) ==
    IF Strategy = "latency_aware" THEN ByLatency(available)
    ELSE IF Strategy = "round_robin" /\ available # <<>> THEN {Rotated(available)}
    ELSE {available}

OrderCandidates(t) ==
    /\ At(t, "scan") /\ req[t].seen = Len(Clients)
    /\ \E order \in Orders(req[t].todo) :
         req' = [req EXCEPT ![t].pc = "next", ![t].todo = order]
    /\ cursor' = IF Strategy = "round_robin" /\ req[t].todo # <<>>
                 THEN (cursor + 1) % Len(req[t].todo) ELSE cursor
    /\ UNCHANGED <<clock, circuit, descriptor, health, bounds>>

-----------------------------------------------------------------------------
(* Calling them.                                                            *)

CallNext(t) ==
    /\ At(t, "next") /\ req[t].todo # <<>>
    /\ req' = [req EXCEPT ![t].pc = "calling", ![t].client = Head(req[t].todo),
                          ![t].todo = Tail(@), ![t].attempt = 1]
    /\ UNCHANGED <<clock, memory, health, bounds>>

\* Mutant: a retry chooses the clients again.
CallRetriedAnew(t) ==
    /\ At(t, "calling") /\ req[t].kind = "generate" /\ req[t].attempt < Attempts
    /\ req' = [req EXCEPT ![t] = [NoRequest EXCEPT !.pc = "scan"]]
    /\ UNCHANGED <<clock, memory, health, bounds>>

\* A transport failure, an overload or a 429 / 5xx status: only generate retries.
CallRetried(t) ==
    /\ At(t, "calling") /\ req[t].kind = "generate" /\ req[t].attempt < Attempts
    /\ req' = [req EXCEPT ![t].attempt = @ + 1]
    /\ UNCHANGED <<clock, memory, health, bounds>>

\* A permanent error, the last transient one, or an answer that does not parse.
CallFails(t) ==
    /\ At(t, "calling")
    /\ req' = [req EXCEPT ![t].pc = "failed", ![t].failed = @ \cup {req[t].client}]
    /\ UNCHANGED <<clock, memory, health, bounds>>

\* A streamed delta is handed on, and appended to the block, as it arrives.
StreamDelta(t) ==
    /\ At(t, "calling") /\ req[t].kind = "stream"
    /\ req[t].client \notin req[t].body
    /\ req' = [req EXCEPT ![t].body = @ \cup {req[t].client}]
    /\ UNCHANGED <<clock, memory, health, bounds>>

\* The reader of a stream goes away: the generator is closed, nothing is recorded.
Abandon(t) ==
    /\ At(t, "calling") /\ req[t].kind = "stream" /\ req[t].body # {}
    /\ req' = [req EXCEPT ![t].pc = "done", ![t].answer = "abandoned"]
    /\ UNCHANGED <<clock, memory, health, bounds>>

\* last_used_descriptor is set first, then the circuit is closed.
CallSucceeds(t) ==
    /\ At(t, "calling")
    /\ descriptor' = req[t].client
    /\ req' = [req EXCEPT ![t].pc = "succeeded", ![t].body = @ \cup {req[t].client}]
    /\ UNCHANGED <<clock, circuit, cursor, health, bounds>>

Recovering(c) == circuit[c].until # Never \/ circuit[c].failures > 0

CloseCircuit(t) ==
    /\ At(t, "succeeded")
    /\ LET c == req[t].client
       IN  /\ SetCircuit(c, [Closed EXCEPT !.measured = TRUE])
           /\ Goto(t, IF Recovering(c) THEN "logRecovered" ELSE "logSuccess")
    /\ UNCHANGED <<clock, cursor, descriptor, health, bounds>>

LogSuccess(t) ==
    /\ At(t, "logSuccess") \/ At(t, "logRecovered")
    /\ Log(req[t].client,
           IF At(t, "logSuccess") THEN "success" ELSE "circuit_recovered", Never)
    /\ req' = [req EXCEPT ![t].pc = "answered", ![t].answer = "client"]
    /\ UNCHANGED <<clock, memory, bounds>>

-----------------------------------------------------------------------------
(* _record_failure                                                          *)

CountFailure(t) ==
    /\ At(t, "failed")
    /\ SetCircuit(req[t].client, [circuit[req[t].client] EXCEPT
                                    !.failures = @ + 1, !.measured = TRUE])
    /\ Goto(t, "logFailure")
    /\ UNCHANGED <<clock, cursor, descriptor, health, bounds>>

\* Mutant: the circuit trips one failure early.
LogFailureEarly(t) ==
    /\ At(t, "logFailure")
    /\ Log(req[t].client, "failure", Never)
    /\ Goto(t, IF circuit[req[t].client].failures + 1 >= Threshold THEN "trip" ELSE "next")
    /\ UNCHANGED <<clock, memory, bounds>>
LogFailure(t) ==
    /\ At(t, "logFailure")
    /\ Log(req[t].client, "failure", Never)
    /\ Goto(t, IF circuit[req[t].client].failures >= Threshold THEN "trip" ELSE "next")
    /\ UNCHANGED <<clock, memory, bounds>>

Trip(t) ==
    /\ At(t, "trip")
    /\ SetCircuit(req[t].client, [circuit[req[t].client] EXCEPT !.until = clock + Cooldown])
    /\ Goto(t, "logOpen")
    /\ UNCHANGED <<clock, cursor, descriptor, health, bounds>>

\* The logged date is read from the circuit again.
LogOpen(t) ==
    /\ At(t, "logOpen")
    /\ Log(req[t].client, "circuit_open", circuit[req[t].client].until)
    /\ Goto(t, "next")
    /\ UNCHANGED <<clock, memory, bounds>>

-----------------------------------------------------------------------------
Exhausted(t) == At(t, "next") /\ req[t].todo = <<>>

\* The mock's own chunks are appended to the same blocks.
Fallback(t) ==
    /\ Exhausted(t) /\ allowFallback
    /\ descriptor' = Mock
    /\ req' = [req EXCEPT ![t].pc = "answered", ![t].answer = "mock",
                          ![t].body = @ \cup {Mock}]
    /\ UNCHANGED <<clock, circuit, cursor, health, bounds>>

NoFallback(t) ==
    /\ Exhausted(t) /\ ~allowFallback
    /\ req' = [req EXCEPT ![t].pc = "done", ![t].answer = "raised"]
    /\ UNCHANGED <<clock, memory, health, bounds>>

\* The engine reads the descriptor when it builds the content record; with
\* requests at once it may be the one that another request's answer left.
Credit(t) ==
    /\ At(t, "answered")
    /\ req' = [req EXCEPT ![t].pc = "done", ![t].credited = descriptor]
    /\ UNCHANGED <<clock, memory, health, bounds>>

Leave(t) ==
    /\ At(t, "done")
    /\ req' = [req EXCEPT ![t] = NoRequest]
    /\ UNCHANGED <<clock, memory, health, bounds>>

-----------------------------------------------------------------------------
(* A new process, perhaps with another setting (a changed one needs a        *)
(* restart), hydrates the circuits from the newest events of the log.        *)

Restart ==
    /\ restarts < MaxRestarts
    /\ restarts' = restarts + 1
    /\ allowFallback' \in FallbackSettings
    /\ circuit' = [c \in Names |-> Hydrated(c)]
    /\ cursor' = 0
    /\ descriptor' = Nobody
    /\ req' = [t \in Threads |-> NoRequest]
    /\ UNCHANGED <<clock, health, begun>>

Tick ==
    /\ clock < MaxTime
    /\ clock' = clock + 1
    /\ UNCHANGED <<memory, health, req, bounds>>

-----------------------------------------------------------------------------
\* A request waits on nothing but its client, whose call has a timeout.
Work(t) ==
    \/ CheckClosed(t) \/ Compare(t)
    \/ LogSkip(t) \/ OrderCandidates(t) \/ CallNext(t)
    \/ CallRetried(t) \/ CallFails(t) \/ CallSucceeds(t) \/ StreamDelta(t)
    \/ CloseCircuit(t) \/ LogSuccess(t)
    \/ CountFailure(t) \/ LogFailure(t) \/ Trip(t) \/ LogOpen(t)
    \/ Fallback(t) \/ NoFallback(t) \/ Credit(t) \/ Leave(t)

Arrive(t) == \E kind \in {"generate", "stream"} : Begin(t, kind)

Next ==
    \/ \E t \in Threads : Arrive(t) \/ Work(t) \/ Abandon(t)
    \/ Tick \/ Restart

Spec == Init /\ [][Next]_vars
FairSpec == Spec /\ \A t \in Threads : WF_vars(Work(t))

-----------------------------------------------------------------------------
(* Properties.                                                              *)

\* Every request ends, whatever its clients answer.
EveryRequestEnds == \A t \in Threads : ~At(t, "idle") ~> At(t, "idle")
=============================================================================
