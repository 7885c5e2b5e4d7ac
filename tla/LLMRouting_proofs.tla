-------------------------- MODULE LLMRouting_proofs --------------------------
(***************************************************************************)
(* Proofs about LLMRouting, for any clients, threads and settings: no      *)
(* circuit stays open past one cooldown from now, also after a restart,    *)
(* and the mock provider answers only when every client was skipped or     *)
(* failed in that request.  With requests one at a time: a circuit opens   *)
(* after that many failures only, and the log tells what memory knows.     *)
(***************************************************************************)
EXTENDS LLMRouting, WellFoundedInduction, FiniteSetTheorems,
        SequenceTheorems, TLAPS

\* A date is none, or one that a cooldown which began by now ends on.
Near(until, now) == until = Never \/ until <= now + Cooldown

Circuits == [failures : Nat, until : Nat, measured : BOOLEAN]
Events == [client : Names, until : Nat, status : {"success", "failure", "circuit_open",
                                                  "circuit_skip", "circuit_recovered"}]

IsReq(r) ==
    /\ r = [pc |-> r.pc, kind |-> r.kind, todo |-> r.todo, client |-> r.client,
            seen |-> r.seen, attempt |-> r.attempt, skipped |-> r.skipped, failed |-> r.failed,
            body |-> r.body, answer |-> r.answer, credited |-> r.credited]
    /\ r.todo \in Seq(Names) /\ r.seen \in 0 .. Len(Clients)
    /\ r.skipped \subseteq Names /\ r.failed \subseteq Names

\* The phases in which a request scans the clients, and in which it has one at hand.
Scans == {"scan", "compare", "skip"}
HasClient == {"calling", "failed", "logFailure", "trip", "logOpen", "succeeded", "logSuccess",
              "logRecovered"}
Tries == {"next", "calling", "failed", "logFailure", "trip", "logOpen"}

\* The clients a request still has, or is through with.
Accounted(r) ==
    ToSet(r.todo) \cup r.skipped \cup r.failed
        \cup (IF r.pc = "calling" THEN {r.client} ELSE {})

\* No client is lost on the way: in the scan, in the ordering and in the calls.
NoneLost(r) ==
    /\ r.pc \in {"compare", "skip"} => r.seen < Len(Clients)
    /\ r.pc \in HasClient => r.client \in Names
    /\ r.pc \in Scans => \A i \in 1 .. r.seen : Clients[i] \in Accounted(r)
    /\ r.pc \in Tries => Names \subseteq Accounted(r)
    /\ r.answer = "mock" => Names \subseteq r.skipped \cup r.failed

ReqInv(r) == IsReq(r) /\ NoneLost(r)

TypeOK ==
    /\ clock \in Nat /\ cursor \in Nat
    /\ circuit \in [Names -> Circuits] /\ health \in Seq(Events)
    /\ req = [t \in Threads |-> req[t]]

IInv ==
    /\ TypeOK
    /\ \A c \in Names : Near(circuit[c].until, clock)
    /\ \A i \in DOMAIN health : Near(health[i].until, clock)
    /\ \A t \in Threads : ReqInv(req[t])

-----------------------------------------------------------------------------
(* The newest of some events.                                               *)

LEMMA LeastExists ==
    ASSUME NEW T, T \subseteq Nat, T # {}
    PROVE  \E x \in T : \A y \in T : x <= y
<1>1. PICK R : R = {ss \in Nat \X Nat : ss[1] < ss[2]}
  OBVIOUS
<1>2. IsWellFoundedOn(R, Nat)
  <2>1. IsWellFoundedOn(OpToRel(<, Nat), Nat)
    BY NatLessThanWellFounded, Zenon
  <2>2. OpToRel(<, Nat) = R
    BY <1>1 DEF OpToRel
  <2>3. QED
    BY <2>1, <2>2
<1>3. \E x \in T : \A y \in T : ~ (<<y, x>> \in R)
  BY <1>2, WFMin
<1>4. PICK x \in T : \A y \in T : ~ (<<y, x>> \in R)
  BY <1>3
<1>5. \A y \in T : ~(y < x)
  <2> SUFFICES ASSUME NEW y \in T, y < x PROVE FALSE
    OBVIOUS
  <2>1. <<y, x>> \in R
    BY <1>1
  <2>2. QED
    BY <1>4, <2>1
<1>6. QED
  BY <1>5

\* The least upper bound of a bounded set of numbers is one of them.
LEMMA GreatestExists ==
    ASSUME NEW T, NEW n \in Nat, T \subseteq 0 .. n, T # {}
    PROVE  Max(T) \in T /\ \A y \in T : y <= Max(T)
<1>1. PICK U : U = {m \in Nat : \A y \in T : y <= m}
  OBVIOUS
<1>2. n \in U
  BY <1>1
<1>3. PICK m \in U : \A k \in U : m <= k
  BY <1>1, <1>2, LeastExists
<1>4. m \in Nat /\ \A y \in T : y <= m
  BY <1>1
<1>5. m \in T
  <2> SUFFICES ASSUME m \notin T PROVE FALSE
    OBVIOUS
  <2>1. \A y \in T : y <= m - 1
    BY <1>4
  <2>2. m - 1 \in Nat
    <3>1. PICK y : y \in T
      OBVIOUS
    <3>2. y \in Nat /\ y <= m - 1
      BY <2>1, <3>1
    <3>3. QED
      BY <1>4, <3>2
  <2>3. m - 1 \in U
    BY <1>1, <2>1, <2>2
  <2>4. QED
    BY <1>3, <1>4, <2>3
<1>6. \E x \in T : \A y \in T : x >= y
  BY <1>4, <1>5
<1>7. Max(T) \in T /\ \A y \in T : Max(T) >= y
  BY <1>6 DEF Max
<1>8. QED
  BY <1>7

\* A new process starts with dates that are in the log.
LEMMA HydratedNear ==
    ASSUME IInv, RoutingAssumption, NEW c \in Names
    PROVE  Hydrated(c) \in Circuits /\ Near(Hydrated(c).until, clock)
<1> DEFINE events == EventsOf(c)
           opened == {i \in events : health[i].status = "circuit_open" /\ health[i].until # Never}
           until == OpenUntil(events)
           run == {i \in events : /\ health[i].status = "failure"
                                  /\ \A j \in events : i < j => ~Succeeded(health[j])}
<1>1. DOMAIN health = 1 .. Len(health) /\ Len(health) \in Nat
  BY DEF IInv, TypeOK
<1>2. events \subseteq 1 .. Len(health) /\ opened \subseteq 0 .. Len(health) /\ run \subseteq 1 .. Len(health)
  BY <1>1 DEF EventsOf
<1>3. Never \in Nat
  BY DEF Never, RoutingAssumption
<1>4. until \in Nat /\ Near(until, clock)
  <2>1. CASE until = Never
    BY <1>3, <2>1 DEF Near
  <2>2. CASE until # Never
    <3>1. opened # {} /\ until = health[Max(opened)].until
      BY <2>2 DEF OpenUntil
    <3>2. Max(opened) \in opened
      BY <1>1, <1>2, <3>1, GreatestExists
    <3>3. Max(opened) \in DOMAIN health
      BY <1>1, <1>2, <3>2
    <3>4. health[Max(opened)] \in Events
      BY <3>3 DEF IInv, TypeOK
    <3> HIDE DEF opened, until
    <3>5. QED
      BY <3>1, <3>3, <3>4 DEF IInv, Events
  <2>3. QED
    BY <2>1, <2>2
<1>5. Cardinality(run) \in Nat
  <2>1. IsFiniteSet(1 .. Len(health))
    BY <1>1, FS_Interval
  <2>2. IsFiniteSet(run)
    BY <1>2, <2>1, FS_Subset
  <2>3. QED
    BY <2>2, FS_CardinalityType
<1>6. FailureRun(events) = Cardinality(run)
  BY DEF FailureRun
<1> HIDE DEF events, until, run
<1>7. PICK n \in Nat : Hydrated(c).until = until /\ Hydrated(c) =
        [failures |-> n, until |-> until,
         measured |-> \E i \in events : Succeeded(health[i]) \/ health[i].status = "failure"]
  BY <1>5, <1>6 DEF Hydrated, events, until
<1>8. QED
  BY <1>4, <1>7 DEF Circuits

-----------------------------------------------------------------------------
(* What a step changes.                                                     *)

LEMMA OneMoves ==
    ASSUME IInv, NEW t \in Threads, NEW r, req' = [req EXCEPT ![t] = r], ReqInv(r),
           clock' = clock, cursor' \in Nat,
           circuit' \in [Names -> Circuits], \A c \in Names : Near(circuit'[c].until, clock),
           health' \in Seq(Events), \A i \in DOMAIN health' : Near(health'[i].until, clock)
    PROVE  IInv'
<1>1. req' = [u \in Threads |-> IF u = t THEN r ELSE req[u]]
  BY DEF IInv, TypeOK
<1>2. \A u \in Threads : ReqInv(req'[u])
  BY <1>1 DEF IInv
<1>3. TypeOK'
  BY <1>1 DEF IInv, TypeOK
<1>4. QED
  BY <1>2, <1>3 DEF IInv

\* Only the request itself moves on.
LEMMA OnlyRequest ==
    ASSUME IInv, NEW t \in Threads, NEW r, req' = [req EXCEPT ![t] = r], ReqInv(r),
           UNCHANGED <<clock, cursor, circuit, health>>
    PROVE  IInv'
<1>1. /\ cursor' \in Nat /\ circuit' \in [Names -> Circuits]
      /\ \A c \in Names : Near(circuit'[c].until, clock)
      /\ health' \in Seq(Events) /\ \A i \in DOMAIN health' : Near(health'[i].until, clock)
  BY DEF IInv, TypeOK
<1>2. QED
  BY <1>1, OneMoves

\* What is logged is dated like what it is logged of.
LEMMA LogStep ==
    ASSUME IInv, NEW t \in Threads, NEW r, req' = [req EXCEPT ![t] = r], ReqInv(r),
           NEW c \in Names, NEW until \in Nat, Near(until, clock),
           NEW status \in {"success", "failure", "circuit_open", "circuit_skip", "circuit_recovered"},
           Log(c, status, until), UNCHANGED <<clock, cursor, circuit>>
    PROVE  IInv'
<1> DEFINE e == [client |-> c, status |-> status, until |-> until]
           events == Append(health, e)
           from == IF Len(events) > Window THEN 2 ELSE 1
<1>1. e \in Events /\ e.until = until
  BY DEF Events
<1> HIDE DEF e
<1>2. /\ events \in Seq(Events) /\ Len(events) = Len(health) + 1 /\ Len(health) \in Nat
      /\ \A i \in 1 .. Len(events) : Near(events[i].until, clock)
  <2>1. /\ events \in Seq(Events) /\ Len(events) = Len(health) + 1 /\ Len(health) \in Nat
        /\ \A i \in 1 .. Len(health) : events[i] = health[i]
        /\ events[Len(health) + 1] = e
    BY <1>1 DEF IInv, TypeOK
  <2>2. DOMAIN health = 1 .. Len(health)
    BY DEF IInv, TypeOK
  <2> HIDE DEF events
  <2>3. QED
    BY <1>1, <2>1, <2>2 DEF IInv
<1>3. health' = SubSeq(events, from, Len(events)) /\ from \in {1, 2}
  BY DEF Log, e
<1> HIDE DEF events, from
<1>4. /\ health' \in Seq(Events)
      /\ \A i \in DOMAIN health' : \E j \in 1 .. Len(events) : health'[i] = events[j]
  <2> DEFINE n == Len(events)
  <2>1. n \in Nat /\ from \in Int /\ \A i \in from .. n : events[i] \in Events
    BY <1>2, <1>3
  <2>2. /\ health' \in Seq(Events) /\ Len(health') = IF from <= n THEN n - from + 1 ELSE 0
        /\ \A i \in 1 .. n - from + 1 : health'[i] = events[from + i - 1]
    BY <1>3, <2>1, SubSeqProperties
  <2>3. \A i \in DOMAIN health' : i \in 1 .. n - from + 1 /\ from + i - 1 \in 1 .. n
    BY <1>3, <2>1, <2>2
  <2>4. QED
    BY <2>2, <2>3
<1>5. \A i \in DOMAIN health' : Near(health'[i].until, clock)
  BY <1>2, <1>4
<1>6. cursor' \in Nat /\ circuit' \in [Names -> Circuits] /\ clock' = clock
      /\ \A d \in Names : Near(circuit'[d].until, clock)
  BY DEF IInv, TypeOK
<1>7. QED
  BY <1>4, <1>5, <1>6, OneMoves

\* A circuit is set to what is dated from now.
LEMMA CircuitStep ==
    ASSUME IInv, NEW t \in Threads, NEW r, req' = [req EXCEPT ![t] = r], ReqInv(r),
           NEW c \in Names, NEW state \in Circuits, Near(state.until, clock),
           SetCircuit(c, state), UNCHANGED <<clock, cursor, health>>
    PROVE  IInv'
<1>1. circuit' = [circuit EXCEPT ![c] = state]
  BY DEF SetCircuit
<1>2. /\ circuit' \in [Names -> Circuits] /\ \A d \in Names : Near(circuit'[d].until, clock)
  BY <1>1 DEF IInv, TypeOK
<1>3. /\ cursor' \in Nat /\ clock' = clock /\ health' \in Seq(Events)
      /\ \A i \in DOMAIN health' : Near(health'[i].until, clock)
  BY DEF IInv, TypeOK
<1>4. QED
  BY <1>2, <1>3, OneMoves

LEMMA CircuitOf ==
    ASSUME IInv, RoutingAssumption, NEW c \in Names
    PROVE  /\ circuit[c] \in Circuits /\ circuit[c].until \in Nat /\ circuit[c].failures \in Nat
           /\ circuit[c] = [failures |-> circuit[c].failures, until |-> circuit[c].until,
                            measured |-> circuit[c].measured]
           /\ circuit[c].measured \in BOOLEAN
           /\ Near(circuit[c].until, clock) /\ clock \in Nat
           /\ Never \in Nat /\ Cooldown \in Nat /\ Near(Never, clock)
<1>1. circuit[c] \in Circuits /\ Near(circuit[c].until, clock) /\ clock \in Nat
  BY DEF IInv, TypeOK
<1>2. Never \in Nat /\ Cooldown \in Nat /\ Near(Never, clock)
  BY DEF Never, RoutingAssumption, Near
<1>3. QED
  BY <1>1, <1>2 DEF Circuits

LEMMA ReqOf ==
    ASSUME IInv, NEW t \in Threads
    PROVE  IsReq(req[t]) /\ NoneLost(req[t]) /\ ReqInv(req[t])
  BY DEF IInv, ReqInv

LEMMA FreshRequest ==
    ASSUME NEW kind, NEW pc \in {"idle", "scan"}, RoutingAssumption
    PROVE  /\ ReqInv([NoRequest EXCEPT !.pc = pc, !.kind = kind]) /\ ReqInv(NoRequest)
<1>1. Len(Clients) \in Nat
  BY DEF RoutingAssumption
<1>2. IsReq(NoRequest) /\ NoneLost(NoRequest)
  BY <1>1 DEF NoRequest, IsReq, NoneLost, HasClient, Scans, Tries
<1>3. PICK r : r = [NoRequest EXCEPT !.pc = pc, !.kind = kind]
  OBVIOUS
<1>4. r = [pc |-> pc, kind |-> kind, todo |-> <<>>, client |-> Nobody,
           seen |-> 0, attempt |-> 0, skipped |-> {}, failed |-> {}, body |-> {},
           answer |-> "none", credited |-> Nobody]
  BY <1>3 DEF NoRequest
<1>5. IsReq(r) /\ NoneLost(r)
  BY <1>1, <1>4 DEF IsReq, NoneLost, HasClient, Scans, Tries
<1>6. QED
  BY <1>2, <1>3, <1>5 DEF ReqInv

\* A phase that keeps what a request has gone through.
LEMMA PhaseKept ==
    ASSUME NEW r, ReqInv(r), NEW s, IsReq(s),
           s.todo = r.todo, s.client = r.client, s.seen = r.seen, s.skipped = r.skipped,
           r.failed \subseteq s.failed, s.answer = r.answer \/ s.answer # "mock",
           s.pc \in {"compare", "skip"} => s.seen < Len(Clients),
           s.pc \in HasClient => r.pc \in HasClient,
           s.pc \in Scans => r.pc \in Scans,
           s.pc \in Tries => r.pc \in Tries,
           r.pc = "calling" => s.pc = "calling" \/ s.pc \notin Scans \cup Tries \/ r.client \in s.failed
    PROVE  ReqInv(s)
<1>1. IsReq(r) /\ NoneLost(r)
  BY DEF ReqInv
<1>2. s.pc \in Scans \cup Tries => Accounted(r) \subseteq Accounted(s)
  BY DEF Accounted
<1>3. s.pc \in HasClient => s.client \in Names
  BY <1>1 DEF NoneLost
<1>4. s.pc \in Scans => \A i \in 1 .. s.seen : Clients[i] \in Accounted(s)
  BY <1>1, <1>2 DEF NoneLost
<1>5. s.pc \in Tries => Names \subseteq Accounted(s)
  BY <1>1, <1>2 DEF NoneLost
<1>6. s.answer = "mock" => Names \subseteq s.skipped \cup s.failed
  BY <1>1 DEF NoneLost
<1>7. NoneLost(s)
  BY <1>3, <1>4, <1>5, <1>6 DEF NoneLost
<1>8. QED
  BY <1>7 DEF ReqInv

-----------------------------------------------------------------------------
(* The steps of a request.                                                  *)

\* A request in another phase, with what it recorded on the way.
Changed(r, pc, attempt, failed, body, answer, credited) ==
    [r EXCEPT !.pc = pc, !.attempt = attempt, !.failed = failed, !.body = body,
              !.answer = answer, !.credited = credited]

LEMMA ChangedInv ==
    ASSUME NEW r, ReqInv(r), NEW pc, NEW attempt, NEW failed \in SUBSET Names, NEW body,
           NEW answer, NEW credited,
           r.failed \subseteq failed, answer = r.answer \/ answer # "mock",
           pc \in {"compare", "skip"} => r.seen < Len(Clients),
           pc \in HasClient => r.pc \in HasClient,
           pc \in Scans => r.pc \in Scans,
           pc \in Tries => r.pc \in Tries,
           r.pc = "calling" => pc = "calling" \/ pc \notin Scans \cup Tries \/ r.client \in failed
    PROVE  ReqInv(Changed(r, pc, attempt, failed, body, answer, credited))
<1>1. PICK s : s = Changed(r, pc, attempt, failed, body, answer, credited)
  OBVIOUS
<1>2. IsReq(r)
  BY DEF ReqInv
<1>3. s = [pc |-> pc, kind |-> r.kind, todo |-> r.todo, client |-> r.client, seen |-> r.seen,
           attempt |-> attempt, skipped |-> r.skipped, failed |-> failed, body |-> body,
           answer |-> answer, credited |-> credited]
  BY <1>1, <1>2 DEF Changed, IsReq
<1>4. IsReq(s)
  BY <1>2, <1>3 DEF IsReq
<1>5. /\ s.pc = pc /\ s.todo = r.todo /\ s.client = r.client /\ s.seen = r.seen
      /\ s.skipped = r.skipped /\ s.failed = failed /\ s.answer = answer
  BY <1>3
<1>6. ReqInv(s)
  BY <1>4, <1>5, PhaseKept
<1>7. QED
  BY <1>1, <1>6

LEMMA ToSetOfAppend ==
    ASSUME NEW S, NEW seq \in Seq(S), NEW c \in S
    PROVE  ToSet(Append(seq, c)) = ToSet(seq) \cup {c}
<1>1. PICK new : new = Append(seq, c)
  OBVIOUS
<1>2. Len(seq) \in Nat /\ DOMAIN seq = 1 .. Len(seq)
  OBVIOUS
<1>3. new \in Seq(S) /\ Len(new) = Len(seq) + 1
  BY <1>1
<1>4. (\A i \in 1 .. Len(seq) : new[i] = seq[i]) /\ new[Len(seq) + 1] = c
  BY <1>1
<1>5. DOMAIN new = 1 .. (Len(seq) + 1)
  BY <1>3
<1>6. ToSet(new) \subseteq ToSet(seq) \cup {c}
  BY <1>2, <1>4, <1>5 DEF ToSet
<1>7. ToSet(seq) \cup {c} \subseteq ToSet(new)
  BY <1>2, <1>4, <1>5 DEF ToSet
<1>8. QED
  BY <1>1, <1>6, <1>7

\* A client is put to the candidates, or was skipped.
LEMMA ScanOn ==
    ASSUME RoutingAssumption, NEW r, ReqInv(r), r.pc \in Scans, r.seen < Len(Clients), NEW s, NEW c,
           c = Clients[r.seen + 1],
           \/ s = [r EXCEPT !.pc = "scan", !.seen = r.seen + 1, !.todo = Append(r.todo, c)]
           \/ s = [r EXCEPT !.pc = "scan", !.seen = r.seen + 1, !.skipped = r.skipped \cup {c}]
    PROVE  ReqInv(s)
<1>1. /\ IsReq(r) /\ r.todo \in Seq(Names) /\ r.skipped \subseteq Names /\ r.failed \subseteq Names
      /\ r.seen \in Nat /\ Len(Clients) \in Nat /\ c \in Names
  BY DEF ReqInv, IsReq, RoutingAssumption, Names
<1>2. /\ s = [pc |-> s.pc, kind |-> s.kind, todo |-> s.todo, client |-> s.client,
              seen |-> s.seen, attempt |-> s.attempt, skipped |-> s.skipped, failed |-> s.failed,
              body |-> s.body, answer |-> s.answer, credited |-> s.credited]
      /\ s.pc = "scan" /\ s.seen = r.seen + 1 /\ s.failed = r.failed /\ s.answer = r.answer
      /\ \/ s.todo = Append(r.todo, c) /\ s.skipped = r.skipped
         \/ s.todo = r.todo /\ s.skipped = r.skipped \cup {c}
  BY <1>1 DEF IsReq
<1>3. IsReq(s)
  <2>1. Append(r.todo, c) \in Seq(Names)
    BY <1>1
  <2>2. s.todo \in Seq(Names)
    BY <1>1, <1>2, <2>1
  <2>3. s.skipped \subseteq Names
    BY <1>1, <1>2
  <2>4. s.seen \in 0 .. Len(Clients) /\ s.failed \subseteq Names
    BY <1>1, <1>2
  <2>5. QED
    BY <1>2, <2>2, <2>3, <2>4 DEF IsReq
<1>4. ToSet(Append(r.todo, c)) = ToSet(r.todo) \cup {c}
  BY <1>1, ToSetOfAppend
<1>5. Accounted(s) = Accounted(r) \cup {c}
  BY <1>2, <1>4 DEF Accounted, Scans
<1>6. \A i \in 1 .. s.seen : Clients[i] \in Accounted(s)
  <2> SUFFICES ASSUME NEW i \in 1 .. s.seen PROVE Clients[i] \in Accounted(s)
    OBVIOUS
  <2>1. CASE i = r.seen + 1
    BY <1>5, <2>1
  <2>2. CASE i \in 1 .. r.seen
    BY <1>5, <2>2 DEF ReqInv, NoneLost
  <2>3. QED
    BY <1>1, <1>2, <2>1, <2>2
<1>7. s.answer = "mock" => Names \subseteq s.skipped \cup s.failed
  BY <1>2 DEF ReqInv, NoneLost
<1>8. NoneLost(s)
  BY <1>2, <1>6, <1>7 DEF NoneLost, HasClient, Scans, Tries
<1>9. QED
  BY <1>3, <1>8 DEF ReqInv

LEMMA BeginStep == ASSUME IInv, RoutingAssumption, NEW t \in Threads, Arrive(t) PROVE IInv'
<1>1. PICK kind : Begin(t, kind)
  BY DEF Arrive
<1>2. PICK r : r = [NoRequest EXCEPT !.pc = "scan", !.kind = kind]
  OBVIOUS
<1>3. ReqInv(r)
  BY <1>2, FreshRequest
<1>4. req' = [req EXCEPT ![t] = r] /\ UNCHANGED <<clock, cursor, circuit, health>>
  BY <1>1, <1>2 DEF Begin, memory
<1>5. QED
  BY <1>3, <1>4, OnlyRequest

\* The client that is scanned is one of the configured ones.
LEMMA ScannedIs ==
    ASSUME IInv, RoutingAssumption, NEW t \in Threads, req[t].seen < Len(Clients)
    PROVE  Scanned(t) \in Names /\ Scanned(t) = Clients[req[t].seen + 1]
<1>1. Len(Clients) \in Nat /\ DOMAIN Clients = 1 .. Len(Clients)
  BY DEF RoutingAssumption
<1>2. req[t].seen \in 0 .. Len(Clients)
  BY ReqOf DEF IsReq
<1>3. req[t].seen + 1 \in DOMAIN Clients
  BY <1>1, <1>2
<1>4. QED
  BY <1>3 DEF Scanned, Names

LEMMA ScanSteps ==
    ASSUME IInv, RoutingAssumption, NEW t \in Threads, CheckClosed(t) \/ Compare(t) \/ LogSkip(t)
    PROVE  IInv'
<1> DEFINE r == req[t]
           c == Scanned(t)
           Moved(pc, answer) == Changed(r, pc, r.attempt, r.failed, r.body, answer, r.credited)
           added == [r EXCEPT !.pc = "scan", !.seen = r.seen + 1, !.todo = Append(r.todo, c)]
           passed == [r EXCEPT !.pc = "scan", !.seen = r.seen + 1, !.skipped = r.skipped \cup {c}]
<1>1. /\ IsReq(r) /\ NoneLost(r) /\ ReqInv(r) /\ r.pc \in Scans /\ r.seen < Len(Clients)
  <2>1. IsReq(r) /\ NoneLost(r) /\ ReqInv(r)
    BY ReqOf
  <2>2. r.pc \in Scans
    BY DEF CheckClosed, Compare, LogSkip, Scanning, At, Scans
  <2>3. r.seen < Len(Clients)
    BY <2>1 DEF CheckClosed, Compare, LogSkip, Scanning, At, NoneLost
  <2>4. QED
    BY <2>1, <2>2, <2>3
<1>2. c \in Names /\ c = Clients[r.seen + 1]
  BY <1>1, ScannedIs
<1>3. ReqInv(added) /\ ReqInv(passed)
  <2>1. PICK a, p : a = added /\ p = passed
    OBVIOUS
  <2>2. ReqInv(a) /\ ReqInv(p)
    BY <1>1, <1>2, <2>1, ScanOn
  <2>3. QED
    BY <2>1, <2>2
<1>4. /\ ReqInv(Moved("compare", r.answer)) /\ ReqInv(Moved("skip", r.answer))
      /\ ReqInv(Moved("done", "raised"))
  <2>1. r.failed \in SUBSET Names /\ r.pc # "calling" /\ "raised" # "mock"
    BY <1>1 DEF IsReq, Scans
  <2>2. ReqInv(Moved("compare", r.answer))
    BY <1>1, <2>1, ChangedInv DEF HasClient, Scans, Tries
  <2>3. ReqInv(Moved("skip", r.answer))
    BY <1>1, <2>1, ChangedInv DEF HasClient, Scans, Tries
  <2>4. ReqInv(Moved("done", "raised"))
    BY <1>1, <2>1, ChangedInv DEF HasClient, Scans, Tries
  <2>5. QED
    BY <2>2, <2>3, <2>4
<1>5. /\ circuit[c] \in Circuits /\ Near(Never, clock) /\ Never \in Nat
      /\ [circuit[c] EXCEPT !.until = Never] \in Circuits
      /\ [circuit[c] EXCEPT !.until = Never].until = Never
  BY <1>2, CircuitOf DEF Circuits
<1>6. req = [u \in Threads |-> req[u]]
  BY DEF IInv, TypeOK
<1>7. CASE CheckClosed(t)
  <2>1. UNCHANGED <<clock, cursor, circuit, health>>
    BY <1>7 DEF CheckClosed, memory
  <2>2. CASE circuit[c].until = Never
    <3>1. req' = [req EXCEPT ![t] = added]
      BY <1>6, <1>7, <2>2 DEF CheckClosed, Candidate
    <3> HIDE DEF added
    <3>2. QED
      BY <1>3, <2>1, <3>1, OnlyRequest
  <2>3. CASE circuit[c].until # Never
    <3>1. req' = [req EXCEPT ![t] = Moved("compare", r.answer)]
      BY <1>1, <1>6, <1>7, <2>3 DEF CheckClosed, Goto, Changed, IsReq
    <3> HIDE DEF Moved
    <3>2. QED
      BY <1>4, <2>1, <3>1, OnlyRequest
  <2>4. QED
    BY <2>2, <2>3
<1>8. CASE Compare(t)
  <2>1. UNCHANGED <<clock, cursor, health>>
    BY <1>8 DEF Compare
  <2>2. CASE circuit[c].until = Never
    <3>1. req' = [req EXCEPT ![t] = Moved("done", "raised")] /\ UNCHANGED circuit
      BY <1>1, <1>6, <1>8, <2>2 DEF Compare, Changed, IsReq
    <3> HIDE DEF Moved
    <3>2. QED
      BY <1>4, <2>1, <3>1, OnlyRequest
  <2>3. CASE circuit[c].until # Never /\ circuit[c].until <= clock
    <3>1. /\ req' = [req EXCEPT ![t] = added]
          /\ SetCircuit(c, [circuit[c] EXCEPT !.until = Never])
      BY <1>6, <1>8, <2>3 DEF Compare, Candidate
    <3> HIDE DEF added
    <3>2. QED
      BY <1>2, <1>3, <1>5, <2>1, <3>1, CircuitStep
  <2>4. CASE circuit[c].until # Never /\ ~(circuit[c].until <= clock)
    <3>1. req' = [req EXCEPT ![t] = Moved("skip", r.answer)] /\ UNCHANGED circuit
      BY <1>1, <1>6, <1>8, <2>4 DEF Compare, Goto, Changed, IsReq
    <3> HIDE DEF Moved
    <3>2. QED
      BY <1>4, <2>1, <3>1, OnlyRequest
  <2>5. QED
    BY <2>2, <2>3, <2>4
<1>9. CASE LogSkip(t)
  <2>1. req' = [req EXCEPT ![t] = passed] /\ Log(c, "circuit_skip", Never)
    BY <1>6, <1>9 DEF LogSkip
  <2>2. UNCHANGED <<clock, cursor, circuit>>
    BY <1>9 DEF LogSkip, memory
  <2> HIDE DEF passed
  <2>3. QED
    BY <1>2, <1>3, <1>5, <2>1, <2>2, LogStep
<1>10. QED
  BY <1>7, <1>8, <1>9

-----------------------------------------------------------------------------
(* Ordering the candidates.                                                 *)

\* A sequence read at other places, each of its places among them.
LEMMA ReadElsewhere ==
    ASSUME NEW seq \in Seq(Names), NEW n \in Nat, NEW other,
           Len(seq) = n, other \in Seq(Names), Len(other) = n,
           \A i \in 1 .. n : \E j \in 1 .. n : other[i] = seq[j],
           \A j \in 1 .. n : \E i \in 1 .. n : other[i] = seq[j]
    PROVE  ToSet(other) = ToSet(seq)
<1>1. DOMAIN seq = 1 .. n /\ DOMAIN other = 1 .. n
  OBVIOUS
<1>2. ASSUME NEW x \in ToSet(other) PROVE x \in ToSet(seq)
  <2>1. PICK i \in 1 .. n : x = other[i]
    BY <1>1 DEF ToSet
  <2>2. PICK j \in 1 .. n : x = seq[j]
    BY <2>1
  <2>3. QED
    BY <1>1, <2>2 DEF ToSet
<1>3. ASSUME NEW x \in ToSet(seq) PROVE x \in ToSet(other)
  <2>1. PICK j \in 1 .. n : x = seq[j]
    BY <1>1 DEF ToSet
  <2>2. PICK i \in 1 .. n : x = other[i]
    BY <2>1
  <2>3. QED
    BY <1>1, <2>2 DEF ToSet
<1>4. QED
  BY <1>2, <1>3

LEMMA LatencyKeepsAll ==
    ASSUME NEW todo \in Seq(Names), NEW order \in ByLatency(todo)
    PROVE  /\ order \in Seq(Names)
           /\ ToSet(order) = ToSet(todo)
           /\ Len(order) = Len(todo)
<1> DEFINE places == DOMAIN todo
<1>1. PICK n \in Nat : n = Len(todo) /\ places = 1 .. n
  OBVIOUS
<1>2. PICK p \in Bijection(places, places) : order = [i \in places |-> todo[p[i]]]
  BY DEF ByLatency
<1>3. p \in [places -> places] /\ \A j \in places : \E i \in places : p[i] = j
  BY DEF Bijection, Injection, Surjection
<1>4. order \in [1 .. n -> Names]
  <2>1. \A i \in places : todo[p[i]] \in Names
    BY <1>3
  <2>2. QED
    BY <1>1, <1>2, <2>1
<1>5. order \in Seq(Names) /\ Len(order) = n
  BY <1>4
<1>6. \A i \in 1 .. n : order[i] = todo[p[i]] /\ p[i] \in 1 .. n
  BY <1>1, <1>2, <1>3
<1>7. \A j \in 1 .. n : \E i \in 1 .. n : order[i] = todo[j]
  <2> SUFFICES ASSUME NEW j \in 1 .. n PROVE \E i \in 1 .. n : order[i] = todo[j]
    OBVIOUS
  <2>1. PICK i \in 1 .. n : p[i] = j
    BY <1>1, <1>3
  <2>2. order[i] = todo[j]
    BY <1>6, <2>1
  <2>3. QED
    BY <2>2
<1>8. \A i \in 1 .. n : \E j \in 1 .. n : order[i] = todo[j]
  BY <1>6
<1> HIDE DEF places
<1>9. QED
  BY <1>1, <1>5, <1>7, <1>8, ReadElsewhere

LEMMA RotationKeepsAll ==
    ASSUME NEW todo \in Seq(Names), todo # <<>>, cursor \in Nat
    PROVE  /\ Rotated(todo) \in Seq(Names)
           /\ ToSet(Rotated(todo)) = ToSet(todo)
           /\ Len(Rotated(todo)) = Len(todo)
<1>1. PICK n \in Nat \ {0} : n = Len(todo)
  OBVIOUS
<1>2. PICK start \in 0 .. n - 1 : start = cursor % n
  BY <1>1
<1>3. \A i \in 1 .. n : todo[i] \in Names
  BY <1>1
<1>4. PICK late : late = SubSeq(todo, start + 1, n)
  OBVIOUS
<1>5. PICK early : early = SubSeq(todo, 1, start)
  OBVIOUS
<1>6. /\ late \in Seq(Names) /\ Len(late) = n - start
      /\ \A i \in 1 .. n - start : late[i] = todo[start + i]
  <2>1. start + 1 \in Int /\ n \in Int /\ \A i \in start + 1 .. n : todo[i] \in Names
    BY <1>2, <1>3
  <2>a. \A a, b \in Int : (\A i \in a .. b : todo[i] \in Names) =>
          LET part == SubSeq(todo, a, b)
          IN  /\ part \in Seq(Names) /\ Len(part) = IF a <= b THEN b - a + 1 ELSE 0
              /\ \A i \in 1 .. b - a + 1 : part[i] = todo[a + i - 1]
    BY SubSeqProperties
  <2>2. /\ late \in Seq(Names) /\ Len(late) = IF start + 1 <= n THEN n - (start + 1) + 1 ELSE 0
        /\ \A i \in 1 .. n - (start + 1) + 1 : late[i] = todo[start + 1 + i - 1]
    BY <1>4, <2>1, <2>a
  <2>3. n - (start + 1) + 1 = n - start /\ start + 1 <= n
    BY <1>2
  <2>4. \A i \in 1 .. n - start : start + 1 + i - 1 = start + i
    BY <1>2
  <2>5. QED
    BY <2>2, <2>3, <2>4
<1>7. /\ early \in Seq(Names) /\ Len(early) = start
      /\ \A i \in 1 .. start : early[i] = todo[i]
  <2>1. 1 \in Int /\ start \in Int /\ \A i \in 1 .. start : todo[i] \in Names
    BY <1>2, <1>3
  <2>a. \A a, b \in Int : (\A i \in a .. b : todo[i] \in Names) =>
          LET part == SubSeq(todo, a, b)
          IN  /\ part \in Seq(Names) /\ Len(part) = IF a <= b THEN b - a + 1 ELSE 0
              /\ \A i \in 1 .. b - a + 1 : part[i] = todo[a + i - 1]
    BY SubSeqProperties
  <2>2. /\ early \in Seq(Names) /\ Len(early) = IF 1 <= start THEN start - 1 + 1 ELSE 0
        /\ \A i \in 1 .. start - 1 + 1 : early[i] = todo[1 + i - 1]
    BY <1>5, <2>1, <2>a
  <2>3. start - 1 + 1 = start /\ (1 <= start \/ start = 0)
    BY <1>2
  <2>4. \A i \in 1 .. start : 1 + i - 1 = i
    BY <1>2
  <2>5. QED
    BY <2>2, <2>3, <2>4
<1>8. PICK order : order = late \o early
  OBVIOUS
<1>9. /\ order \in Seq(Names) /\ Len(order) = n
      /\ \A i \in 1 .. n : order[i] = IF i <= n - start THEN late[i] ELSE early[i - (n - start)]
  <2>a. \A a, b \in Seq(Names) :
          /\ a \o b \in Seq(Names) /\ Len(a \o b) = Len(a) + Len(b)
          /\ \A i \in 1 .. Len(a) + Len(b) :
               (a \o b)[i] = IF i <= Len(a) THEN a[i] ELSE b[i - Len(a)]
    BY ConcatProperties
  <2>1. /\ order \in Seq(Names) /\ Len(order) = Len(late) + Len(early)
        /\ \A i \in 1 .. Len(late) + Len(early) :
              order[i] = IF i <= Len(late) THEN late[i] ELSE early[i - Len(late)]
    BY <1>6, <1>7, <1>8, <2>a
  <2>2. Len(late) + Len(early) = n
    BY <1>2, <1>6, <1>7
  <2>3. QED
    BY <1>6, <2>1, <2>2
<1>10. \A i \in 1 .. n - start : i \in 1 .. n /\ order[i] = todo[start + i] /\ start + i \in 1 .. n
  <2> SUFFICES ASSUME NEW i \in 1 .. n - start
               PROVE  i \in 1 .. n /\ order[i] = todo[start + i] /\ start + i \in 1 .. n
    OBVIOUS
  <2>1. i \in 1 .. n /\ i <= n - start /\ start + i \in 1 .. n
    BY <1>2
  <2>2. order[i] = late[i] /\ late[i] = todo[start + i]
    BY <1>6, <1>9, <2>1
  <2>3. QED
    BY <2>1, <2>2
<1>11. \A j \in 1 .. start : /\ n - start + j \in 1 .. n /\ order[n - start + j] = todo[j]
                             /\ j \in 1 .. n
  <2> SUFFICES ASSUME NEW j \in 1 .. start
               PROVE  /\ n - start + j \in 1 .. n /\ order[n - start + j] = todo[j]
                      /\ j \in 1 .. n
    OBVIOUS
  <2>1. PICK i : i = n - start + j
    OBVIOUS
  <2>2. i \in 1 .. n /\ ~(i <= n - start) /\ i - (n - start) = j /\ j \in 1 .. n
    BY <1>2, <2>1
  <2>3. order[i] = early[j] /\ early[j] = todo[j]
    BY <1>7, <1>9, <2>2
  <2>4. QED
    BY <2>1, <2>2, <2>3
<1>12. /\ \A i \in 1 .. n : \E j \in 1 .. n : order[i] = todo[j]
       /\ \A j \in 1 .. n : \E i \in 1 .. n : order[i] = todo[j]
  <2>1. ASSUME NEW i \in 1 .. n PROVE \E j \in 1 .. n : order[i] = todo[j]
    <3>1. CASE i <= n - start
      <4>1. i \in 1 .. n - start
        BY <1>2, <3>1
      <4>2. QED
        BY <1>10, <4>1
    <3>2. CASE ~(i <= n - start)
      <4>1. PICK j \in 1 .. start : i = n - start + j
        <5>1. i - (n - start) \in 1 .. start /\ i = n - start + (i - (n - start))
          BY <1>2, <3>2
        <5>2. QED
          BY <5>1
      <4>2. QED
        BY <1>11, <4>1
    <3>3. QED
      BY <3>1, <3>2
  <2>2. ASSUME NEW j \in 1 .. n PROVE \E i \in 1 .. n : order[i] = todo[j]
    <3>1. CASE j <= start
      <4>1. j \in 1 .. start
        BY <1>2, <3>1
      <4>2. QED
        BY <1>11, <4>1
    <3>2. CASE ~(j <= start)
      <4>1. PICK i \in 1 .. n - start : j = start + i
        <5>1. j - start \in 1 .. n - start /\ j = start + (j - start)
          BY <1>2, <3>2
        <5>2. QED
          BY <5>1
      <4>2. QED
        BY <1>10, <4>1
    <3>3. QED
      BY <3>1, <3>2
  <2>3. QED
    BY <2>1, <2>2
<1>13. Rotated(todo) = order
  BY <1>1, <1>2, <1>4, <1>5, <1>8 DEF Rotated
<1>14. n \in Nat /\ Len(todo) = n
  BY <1>1
<1>15. order \in Seq(Names) /\ Len(order) = n
  BY <1>9
<1>16. ToSet(order) = ToSet(todo)
  BY <1>12, <1>14, <1>15, ReadElsewhere
<1>17. QED
  BY <1>13, <1>14, <1>15, <1>16

\* Whatever the strategy, the ordering loses no candidate.
LEMMA OrderKeepsAll ==
    ASSUME NEW todo \in Seq(Names), cursor \in Nat, NEW order \in Orders(todo)
    PROVE  /\ order \in Seq(Names)
           /\ ToSet(order) = ToSet(todo)
           /\ Len(order) = Len(todo)
<1>1. CASE Strategy = "latency_aware"
  BY <1>1, LatencyKeepsAll DEF Orders
<1>2. CASE Strategy # "latency_aware" /\ Strategy = "round_robin" /\ todo # <<>>
  BY <1>2, RotationKeepsAll DEF Orders
<1>3. CASE Strategy # "latency_aware" /\ ~(Strategy = "round_robin" /\ todo # <<>>)
  BY <1>3 DEF Orders
<1>4. QED
  BY <1>1, <1>2, <1>3

LEMMA NextInTurn == ASSUME NEW i \in Nat, NEW n \in Nat \ {0} PROVE (i + 1) % n \in Nat
<1>1. i + 1 \in Int /\ n \in Int /\ n > 0
  OBVIOUS
<1>2. (i + 1) % n \in 0 .. n - 1
  BY <1>1
<1>3. QED
  BY <1>2

\* The scanned clients are all accounted for, and stay so in their new order.
LEMMA OrderStep ==
    ASSUME IInv, RoutingAssumption, NEW t \in Threads, OrderCandidates(t)
    PROVE  IInv'
<1> DEFINE r == req[t]
<1>1. /\ IsReq(r) /\ NoneLost(r) /\ r.pc = "scan" /\ r.seen = Len(Clients)
      /\ r.todo \in Seq(Names) /\ cursor \in Nat
  BY ReqOf DEF OrderCandidates, At, IsReq, IInv, TypeOK
<1>2. PICK order \in Orders(r.todo) : req' = [req EXCEPT ![t].pc = "next", ![t].todo = order]
  BY DEF OrderCandidates
<1>3. order \in Seq(Names) /\ ToSet(order) = ToSet(r.todo)
  BY <1>1, <1>2, OrderKeepsAll
<1>4. PICK s : s = [r EXCEPT !.pc = "next", !.todo = order]
  OBVIOUS
<1>5. s = [pc |-> "next", kind |-> r.kind, todo |-> order, client |-> r.client, seen |-> r.seen,
           attempt |-> r.attempt, skipped |-> r.skipped, failed |-> r.failed, body |-> r.body,
           answer |-> r.answer, credited |-> r.credited]
  BY <1>1, <1>4 DEF IsReq
<1>6. IsReq(s)
  BY <1>1, <1>3, <1>5 DEF IsReq
<1>7. Names \subseteq Accounted(r)
  <2>1. DOMAIN Clients = 1 .. Len(Clients)
    BY DEF RoutingAssumption
  <2>2. \A i \in DOMAIN Clients : Clients[i] \in Accounted(r)
    BY <1>1, <2>1 DEF NoneLost, Scans
  <2>3. QED
    BY <2>2 DEF Names
<1>8. Accounted(s) = Accounted(r)
  BY <1>1, <1>3, <1>5 DEF Accounted
<1>9. NoneLost(s)
  BY <1>1, <1>5, <1>7, <1>8 DEF NoneLost, HasClient, Scans, Tries
<1>10. cursor' \in Nat
  <2>1. CASE Strategy = "round_robin" /\ r.todo # <<>>
    <3>1. PICK n \in Nat \ {0} : n = Len(r.todo)
      BY <1>1, <2>1
    <3>2. cursor' = (cursor + 1) % n
      BY <2>1, <3>1 DEF OrderCandidates
    <3> HIDE DEF r
    <3>3. (cursor + 1) % n \in Nat
      BY <1>1, <3>1, NextInTurn
    <3>4. QED
      BY <3>2, <3>3
  <2>2. CASE ~(Strategy = "round_robin" /\ r.todo # <<>>)
    <3>1. cursor' = cursor
      BY <2>2 DEF OrderCandidates
    <3>2. QED
      BY <1>1, <3>1
  <2>3. QED
    BY <2>1, <2>2
<1>11. req' = [req EXCEPT ![t] = s] /\ UNCHANGED <<clock, circuit, health>>
  BY <1>2, <1>4 DEF OrderCandidates, IInv, TypeOK
<1>12. /\ circuit' \in [Names -> Circuits] /\ \A c \in Names : Near(circuit'[c].until, clock)
       /\ health' \in Seq(Events) /\ \A i \in DOMAIN health' : Near(health'[i].until, clock)
  BY <1>11 DEF IInv, TypeOK
<1>13. ReqInv(s)
  BY <1>6, <1>9 DEF ReqInv
<1>14. QED
  BY <1>10, <1>11, <1>12, <1>13, OneMoves

-----------------------------------------------------------------------------
(* Calling the candidates.                                                  *)

LEMMA ToSetOfTail ==
    ASSUME NEW S, NEW seq \in Seq(S), seq # <<>>
    PROVE  /\ Head(seq) \in S /\ Tail(seq) \in Seq(S)
           /\ ToSet(seq) \subseteq {Head(seq)} \cup ToSet(Tail(seq))
<1>1. PICK rest : rest = Tail(seq)
  OBVIOUS
<1>2. PICK n \in Nat \ {0} : n = Len(seq) /\ DOMAIN seq = 1 .. n
  OBVIOUS
<1>3. /\ Head(seq) \in S /\ Head(seq) = seq[1] /\ rest \in Seq(S)
      /\ Len(rest) = n - 1 /\ \A i \in 1 .. n - 1 : rest[i] = seq[i + 1]
  BY <1>1, <1>2, HeadTailProperties
<1>4. DOMAIN rest = 1 .. n - 1
  BY <1>3
<1>5. ASSUME NEW x \in ToSet(seq) PROVE x \in {Head(seq)} \cup ToSet(rest)
  <2>1. PICK i \in 1 .. n : x = seq[i]
    BY <1>2 DEF ToSet
  <2>2. CASE i = 1
    BY <1>3, <2>1, <2>2
  <2>3. CASE i # 1
    <3>1. PICK j \in 1 .. n - 1 : j + 1 = i
      <4>1. i - 1 \in 1 .. n - 1 /\ i - 1 + 1 = i
        BY <1>2, <2>3
      <4>2. QED
        BY <4>1
    <3>2. x = rest[j]
      BY <1>3, <2>1, <3>1
    <3>3. QED
      BY <1>4, <3>2 DEF ToSet
  <2>4. QED
    BY <2>2, <2>3
<1>6. QED
  BY <1>1, <1>3, <1>5

\* The candidate that is called leaves the list, and is then at hand.
LEMMA CallNextStep ==
    ASSUME IInv, NEW t \in Threads, CallNext(t)
    PROVE  IInv'
<1> DEFINE r == req[t]
<1>1. IsReq(r) /\ NoneLost(r) /\ r.pc = "next" /\ r.todo \in Seq(Names) /\ r.todo # <<>>
  BY ReqOf DEF CallNext, At, IsReq
<1>2. /\ Head(r.todo) \in Names /\ Tail(r.todo) \in Seq(Names)
      /\ ToSet(r.todo) \subseteq {Head(r.todo)} \cup ToSet(Tail(r.todo))
  BY <1>1, ToSetOfTail
<1>3. PICK c, rest : c = Head(r.todo) /\ rest = Tail(r.todo)
  OBVIOUS
<1>4. PICK s : s = [r EXCEPT !.pc = "calling", !.client = c, !.todo = rest, !.attempt = 1]
  OBVIOUS
<1>5. s = [pc |-> "calling", kind |-> r.kind, todo |-> rest, client |-> c, seen |-> r.seen,
           attempt |-> 1, skipped |-> r.skipped, failed |-> r.failed, body |-> r.body,
           answer |-> r.answer, credited |-> r.credited]
  BY <1>1, <1>4 DEF IsReq
<1>6. IsReq(s)
  BY <1>1, <1>2, <1>3, <1>5 DEF IsReq
<1>7. Accounted(r) \subseteq Accounted(s)
  BY <1>1, <1>2, <1>3, <1>5 DEF Accounted
<1>8. NoneLost(s)
  BY <1>1, <1>2, <1>3, <1>5, <1>7 DEF NoneLost, HasClient, Scans, Tries
<1>9. req' = [req EXCEPT ![t] = s] /\ UNCHANGED <<clock, cursor, circuit, health>>
  BY <1>3, <1>4 DEF CallNext, memory, IInv, TypeOK
<1>10. ReqInv(s)
  BY <1>6, <1>8 DEF ReqInv
<1>11. QED
  BY <1>9, <1>10, OnlyRequest

\* The mock answers when no candidate is left: each was skipped or failed.
LEMMA FallbackStep ==
    ASSUME IInv, NEW t \in Threads, Fallback(t)
    PROVE  IInv'
<1> DEFINE r == req[t]
<1>1. IsReq(r) /\ NoneLost(r) /\ r.pc = "next" /\ r.todo = <<>>
  BY ReqOf DEF Fallback, Exhausted, At
<1>2. PICK s : s = [r EXCEPT !.pc = "answered", !.answer = "mock", !.body = @ \cup {Mock}]
  OBVIOUS
<1>3. s = [pc |-> "answered", kind |-> r.kind, todo |-> r.todo, client |-> r.client,
           seen |-> r.seen, attempt |-> r.attempt, skipped |-> r.skipped, failed |-> r.failed,
           body |-> r.body \cup {Mock}, answer |-> "mock", credited |-> r.credited]
  BY <1>1, <1>2 DEF IsReq
<1>4. IsReq(s)
  BY <1>1, <1>3 DEF IsReq
<1>5. Names \subseteq r.skipped \cup r.failed
  <2>1. Accounted(r) = r.skipped \cup r.failed
    BY <1>1 DEF Accounted, ToSet
  <2>2. QED
    BY <1>1, <2>1 DEF NoneLost, Tries
<1>6. NoneLost(s)
  BY <1>3, <1>5 DEF NoneLost, HasClient, Scans, Tries
<1>7. req' = [req EXCEPT ![t] = s] /\ UNCHANGED <<clock, cursor, circuit, health>>
  BY <1>2 DEF Fallback, IInv, TypeOK
<1>8. ReqInv(s)
  BY <1>4, <1>6 DEF ReqInv
<1>9. QED
  BY <1>7, <1>8, OnlyRequest

LEMMA RequestSteps ==
    ASSUME IInv, RoutingAssumption, NEW t \in Threads,
           \/ CallRetried(t) \/ CallFails(t) \/ StreamDelta(t) \/ Abandon(t)
           \/ NoFallback(t) \/ Credit(t) \/ Leave(t)
    PROVE  IInv'
<1> DEFINE r == req[t]
<1>1. /\ IsReq(r) /\ NoneLost(r) /\ ReqInv(r) /\ r.failed \in SUBSET Names
      /\ "raised" # "mock" /\ "abandoned" # "mock"
  BY ReqOf DEF IsReq
<1>2. UNCHANGED <<clock, cursor, circuit, health>>
  BY DEF CallRetried, CallFails, StreamDelta, Abandon, NoFallback, Credit, Leave, memory
<1>3. req = [u \in Threads |-> req[u]]
  BY DEF IInv, TypeOK
<1>4. CASE CallRetried(t)
  <2> DEFINE s == Changed(r, "calling", r.attempt + 1, r.failed, r.body, r.answer, r.credited)
  <2>1. r.pc = "calling" /\ req' = [req EXCEPT ![t] = s]
    BY <1>1, <1>3, <1>4 DEF CallRetried, At, Changed, IsReq
  <2>2. ReqInv(s)
    BY <1>1, <2>1, ChangedInv DEF HasClient, Scans, Tries
  <2> HIDE DEF s
  <2>3. QED
    BY <1>2, <2>1, <2>2, OnlyRequest
<1>5. CASE CallFails(t)
  <2> DEFINE failed == r.failed \cup {r.client}
             s == Changed(r, "failed", r.attempt, failed, r.body, r.answer, r.credited)
  <2>1. r.pc = "calling" /\ req' = [req EXCEPT ![t] = s]
    BY <1>1, <1>3, <1>5 DEF CallFails, At, Changed, IsReq
  <2>2. failed \in SUBSET Names /\ r.failed \subseteq failed /\ r.client \in failed
    BY <1>1, <2>1 DEF NoneLost, HasClient
  <2> HIDE DEF failed
  <2>3. ReqInv(s)
    BY <1>1, <2>1, <2>2, ChangedInv DEF HasClient, Scans, Tries
  <2> HIDE DEF s
  <2>4. QED
    BY <1>2, <2>1, <2>3, OnlyRequest
<1>6. CASE StreamDelta(t)
  <2> DEFINE body == r.body \cup {r.client}
             s == Changed(r, "calling", r.attempt, r.failed, body, r.answer, r.credited)
  <2>1. r.pc = "calling" /\ req' = [req EXCEPT ![t] = s]
    BY <1>1, <1>3, <1>6 DEF StreamDelta, At, Changed, IsReq
  <2> HIDE DEF body
  <2>2. ReqInv(s)
    BY <1>1, <2>1, ChangedInv DEF HasClient, Scans, Tries
  <2> HIDE DEF s
  <2>3. QED
    BY <1>2, <2>1, <2>2, OnlyRequest
<1>7. CASE Abandon(t)
  <2> DEFINE s == Changed(r, "done", r.attempt, r.failed, r.body, "abandoned", r.credited)
  <2>1. req' = [req EXCEPT ![t] = s]
    BY <1>1, <1>3, <1>7 DEF Abandon, Changed, IsReq
  <2>2. ReqInv(s)
    BY <1>1, ChangedInv DEF HasClient, Scans, Tries
  <2> HIDE DEF s
  <2>3. QED
    BY <1>2, <2>1, <2>2, OnlyRequest
<1>8. CASE NoFallback(t)
  <2> DEFINE s == Changed(r, "done", r.attempt, r.failed, r.body, "raised", r.credited)
  <2>1. req' = [req EXCEPT ![t] = s]
    BY <1>1, <1>3, <1>8 DEF NoFallback, Changed, IsReq
  <2>2. ReqInv(s)
    BY <1>1, ChangedInv DEF HasClient, Scans, Tries
  <2> HIDE DEF s
  <2>3. QED
    BY <1>2, <2>1, <2>2, OnlyRequest
<1>9. CASE Credit(t)
  <2> DEFINE s == Changed(r, "done", r.attempt, r.failed, r.body, r.answer, descriptor)
  <2>1. req' = [req EXCEPT ![t] = s]
    BY <1>1, <1>3, <1>9 DEF Credit, Changed, IsReq
  <2>2. ReqInv(s)
    BY <1>1, ChangedInv DEF HasClient, Scans, Tries
  <2> HIDE DEF s
  <2>3. QED
    BY <1>2, <2>1, <2>2, OnlyRequest
<1>10. CASE Leave(t)
  <2>1. ReqInv(NoRequest)
    BY FreshRequest
  <2>2. req' = [req EXCEPT ![t] = NoRequest]
    BY <1>10 DEF Leave
  <2>3. QED
    BY <1>2, <2>1, <2>2, OnlyRequest
<1>11. QED
  BY <1>4, <1>5, <1>6, <1>7, <1>8, <1>9, <1>10

\* An answer: the descriptor is set, the circuit closed, the success logged.
LEMMA AnswerSteps ==
    ASSUME IInv, RoutingAssumption, NEW t \in Threads,
           CallSucceeds(t) \/ CloseCircuit(t) \/ LogSuccess(t)
    PROVE  IInv'
<1> DEFINE r == req[t]
<1>1. /\ IsReq(r) /\ NoneLost(r) /\ ReqInv(r) /\ r.failed \in SUBSET Names
      /\ "client" # "mock"
  BY ReqOf DEF IsReq
<1>2. r.pc \in HasClient /\ r.client \in Names
  <2>1. r.pc \in HasClient
    BY DEF CallSucceeds, CloseCircuit, LogSuccess, At, HasClient
  <2>2. QED
    BY <1>1, <2>1 DEF NoneLost
<1>3. req = [u \in Threads |-> req[u]]
  BY DEF IInv, TypeOK
<1>4. Near(Never, clock) /\ Never \in Nat
  BY <1>2, CircuitOf
<1>5. CASE CallSucceeds(t)
  <2> DEFINE body == r.body \cup {r.client}
             s == Changed(r, "succeeded", r.attempt, r.failed, body, r.answer, r.credited)
  <2>1. req' = [req EXCEPT ![t] = s] /\ UNCHANGED <<clock, cursor, circuit, health>>
    BY <1>1, <1>3, <1>5 DEF CallSucceeds, Changed, IsReq
  <2> HIDE DEF body
  <2>2. ReqInv(s)
    BY <1>1, <1>2, ChangedInv DEF HasClient, Scans, Tries
  <2> HIDE DEF s
  <2>3. QED
    BY <2>1, <2>2, OnlyRequest
<1>6. CASE CloseCircuit(t)
  <2>1. PICK pc \in {"logRecovered", "logSuccess"} :
          pc = IF Recovering(r.client) THEN "logRecovered" ELSE "logSuccess"
    OBVIOUS
  <2> DEFINE s == Changed(r, pc, r.attempt, r.failed, r.body, r.answer, r.credited)
  <2>2. /\ req' = [req EXCEPT ![t] = s] /\ UNCHANGED <<clock, cursor, health>>
        /\ SetCircuit(r.client, [Closed EXCEPT !.measured = TRUE])
    BY <1>1, <1>3, <1>6, <2>1 DEF CloseCircuit, Goto, Changed, IsReq
  <2>3. ReqInv(s)
    BY <1>1, <1>2, <2>1, ChangedInv DEF HasClient, Scans, Tries
  <2> HIDE DEF s
  <2>4. PICK state : state = [Closed EXCEPT !.measured = TRUE]
    OBVIOUS
  <2>5. state = [failures |-> 0, until |-> Never, measured |-> TRUE]
    BY <2>4 DEF Closed
  <2>6. state \in Circuits /\ state.until = Never
    BY <1>4, <2>5 DEF Circuits
  <2>7. QED
    BY <1>2, <1>4, <2>2, <2>3, <2>4, <2>6, CircuitStep
<1>7. CASE LogSuccess(t)
  <2>1. PICK status \in {"success", "circuit_recovered"} :
          status = IF At(t, "logSuccess") THEN "success" ELSE "circuit_recovered"
    OBVIOUS
  <2> DEFINE s == Changed(r, "answered", r.attempt, r.failed, r.body, "client", r.credited)
  <2>2. /\ req' = [req EXCEPT ![t] = s] /\ UNCHANGED <<clock, cursor, circuit>>
        /\ Log(r.client, status, Never)
    BY <1>1, <1>3, <1>7, <2>1 DEF LogSuccess, Changed, IsReq, memory
  <2>3. ReqInv(s)
    BY <1>1, <1>2, ChangedInv DEF HasClient, Scans, Tries
  <2> HIDE DEF s
  <2>4. QED
    BY <1>2, <1>4, <2>1, <2>2, <2>3, LogStep
<1>8. QED
  BY <1>5, <1>6, <1>7

\* A failure: it is counted, logged, and at the threshold opens the circuit.
LEMMA FailureSteps ==
    ASSUME IInv, RoutingAssumption, NEW t \in Threads,
           CountFailure(t) \/ LogFailure(t) \/ Trip(t) \/ LogOpen(t)
    PROVE  IInv'
<1> DEFINE r == req[t]
           Moved(pc) == Changed(r, pc, r.attempt, r.failed, r.body, r.answer, r.credited)
<1>1. /\ IsReq(r) /\ NoneLost(r) /\ ReqInv(r) /\ r.failed \in SUBSET Names
  BY ReqOf DEF IsReq
<1>2. r.pc \in {"failed", "logFailure", "trip", "logOpen"} /\ r.client \in Names
  <2>1. r.pc \in {"failed", "logFailure", "trip", "logOpen"}
    BY DEF CountFailure, LogFailure, Trip, LogOpen, At
  <2>2. QED
    BY <1>1, <2>1 DEF NoneLost, HasClient
<1>3. req = [u \in Threads |-> req[u]]
  BY DEF IInv, TypeOK
<1>4. PICK k : k = circuit[r.client]
  OBVIOUS
<1>5. /\ k \in Circuits /\ k.until \in Nat /\ k.failures \in Nat /\ k.measured \in BOOLEAN
      /\ k = [failures |-> k.failures, until |-> k.until, measured |-> k.measured]
      /\ Near(k.until, clock) /\ clock \in Nat /\ Never \in Nat /\ Cooldown \in Nat
      /\ Near(Never, clock)
  BY <1>2, <1>4, CircuitOf
<1>6. \A pc \in {"logFailure", "trip", "logOpen", "next"} : ReqInv(Moved(pc))
  <2> SUFFICES ASSUME NEW pc \in {"logFailure", "trip", "logOpen", "next"}
               PROVE  ReqInv(Moved(pc))
    OBVIOUS
  <2>1. QED
    BY <1>1, <1>2, ChangedInv DEF HasClient, Scans, Tries
<1>7. CASE CountFailure(t)
  <2>1. req' = [req EXCEPT ![t] = Moved("logFailure")] /\ UNCHANGED <<clock, cursor, health>>
    BY <1>1, <1>3, <1>7 DEF CountFailure, Goto, Changed, IsReq
  <2>2. PICK state : state = [k EXCEPT !.failures = @ + 1, !.measured = TRUE]
    OBVIOUS
  <2>3. state = [failures |-> k.failures + 1, until |-> k.until, measured |-> TRUE]
    BY <1>5, <2>2
  <2>4. state \in Circuits /\ Near(state.until, clock)
    BY <1>5, <2>3 DEF Circuits
  <2>5. SetCircuit(r.client, state)
    BY <1>4, <1>7, <2>2 DEF CountFailure
  <2>6. ReqInv(Moved("logFailure"))
    BY <1>6
  <2> HIDE DEF Moved
  <2>7. QED
    BY <1>2, <2>1, <2>4, <2>5, <2>6, CircuitStep
<1>8. CASE LogFailure(t)
  <2>1. PICK pc \in {"trip", "next"} :
          pc = IF circuit[r.client].failures >= Threshold THEN "trip" ELSE "next"
    OBVIOUS
  <2>2. /\ req' = [req EXCEPT ![t] = Moved(pc)] /\ UNCHANGED <<clock, cursor, circuit>>
        /\ Log(r.client, "failure", Never)
    BY <1>1, <1>3, <1>8, <2>1 DEF LogFailure, Goto, Changed, IsReq, memory
  <2>3. ReqInv(Moved(pc))
    BY <1>6, <2>1
  <2> HIDE DEF Moved
  <2>4. QED
    BY <1>2, <1>5, <2>2, <2>3, LogStep
<1>9. CASE Trip(t)
  <2>1. req' = [req EXCEPT ![t] = Moved("logOpen")] /\ UNCHANGED <<clock, cursor, health>>
    BY <1>1, <1>3, <1>9 DEF Trip, Goto, Changed, IsReq
  <2>2. PICK state : state = [k EXCEPT !.until = clock + Cooldown]
    OBVIOUS
  <2>3. state = [failures |-> k.failures, until |-> clock + Cooldown, measured |-> k.measured]
    BY <1>5, <2>2
  <2>4. state \in Circuits /\ Near(state.until, clock)
    BY <1>5, <2>3 DEF Circuits, Near
  <2>5. SetCircuit(r.client, state)
    BY <1>4, <1>9, <2>2 DEF Trip
  <2>6. ReqInv(Moved("logOpen"))
    BY <1>6
  <2> HIDE DEF Moved
  <2>7. QED
    BY <1>2, <2>1, <2>4, <2>5, <2>6, CircuitStep
<1>10. CASE LogOpen(t)
  <2>1. /\ req' = [req EXCEPT ![t] = Moved("next")] /\ UNCHANGED <<clock, cursor, circuit>>
        /\ Log(r.client, "circuit_open", k.until)
    BY <1>1, <1>3, <1>4, <1>10 DEF LogOpen, Goto, Changed, IsReq, memory
  <2>2. ReqInv(Moved("next"))
    BY <1>6
  <2> HIDE DEF Moved
  <2>3. QED
    BY <1>2, <1>5, <2>1, <2>2, LogStep
<1>11. QED
  BY <1>7, <1>8, <1>9, <1>10

-----------------------------------------------------------------------------
(* A new process, and time.                                                 *)

LEMMA RestartStep == ASSUME IInv, RoutingAssumption, Restart PROVE IInv'
<1>1. /\ circuit' = [c \in Names |-> Hydrated(c)] /\ cursor' = 0
      /\ req' = [t \in Threads |-> NoRequest] /\ UNCHANGED <<clock, health>>
  BY DEF Restart
<1>2. \A c \in Names : Hydrated(c) \in Circuits /\ Near(Hydrated(c).until, clock)
  BY HydratedNear
<1>3. TypeOK'
  BY <1>1, <1>2 DEF IInv, TypeOK
<1>4. \A c \in Names : Near(circuit'[c].until, clock)
  BY <1>1, <1>2
<1>5. \A t \in Threads : ReqInv(req'[t])
  BY <1>1, FreshRequest
<1>6. \A i \in DOMAIN health' : Near(health'[i].until, clock)
  BY <1>1 DEF IInv
<1>7. QED
  BY <1>1, <1>3, <1>4, <1>5, <1>6 DEF IInv

\* What was near stays near: the clock only moves towards the dates.
LEMMA TickStep == ASSUME IInv, RoutingAssumption, Tick PROVE IInv'
<1>1. clock \in Nat /\ clock' = clock + 1 /\ Cooldown \in Nat
      /\ UNCHANGED <<cursor, circuit, health, req>>
  BY DEF Tick, memory, IInv, TypeOK, RoutingAssumption
<1>2. \A until \in Nat : Near(until, clock) => Near(until, clock')
  BY <1>1 DEF Near
<1>3. \A c \in Names : circuit[c].until \in Nat /\ Near(circuit[c].until, clock)
  BY CircuitOf
<1>4. \A i \in DOMAIN health : health[i].until \in Nat /\ Near(health[i].until, clock)
  <2>1. \A i \in DOMAIN health : health[i] \in Events
    BY DEF IInv, TypeOK
  <2>2. QED
    BY <2>1 DEF IInv, Events
<1>5. TypeOK'
  BY <1>1 DEF IInv, TypeOK
<1>6. \A t \in Threads : ReqInv(req'[t])
  BY <1>1 DEF IInv
<1>7. QED
  BY <1>1, <1>2, <1>3, <1>4, <1>5, <1>6 DEF IInv

LEMMA Initially == ASSUME RoutingAssumption, Init PROVE IInv
<1>1. Never \in Nat
  BY DEF Never, RoutingAssumption
<1>2. Closed \in Circuits /\ Closed.until = Never
  BY <1>1 DEF Closed, Circuits
<1>3. /\ \A c \in Names : circuit[c] = Closed
      /\ \A t \in Threads : req[t] = NoRequest
      /\ health = <<>>
  BY DEF Init
<1>4. TypeOK
  BY <1>2 DEF Init, TypeOK
<1>5. \A t \in Threads : ReqInv(req[t])
  BY <1>3, FreshRequest
<1>6. QED
  BY <1>2, <1>3, <1>4, <1>5 DEF IInv, Near

LEMMA EveryStep == ASSUME IInv, RoutingAssumption, [Next]_vars PROVE IInv'
<1>1. CASE UNCHANGED vars
  BY <1>1 DEF vars, memory, IInv, TypeOK
<1>2. ASSUME NEW t \in Threads, Arrive(t) \/ Work(t) \/ Abandon(t) PROVE IInv'
  <2>1. CASE Arrive(t)
    BY <2>1, BeginStep
  <2>2. CASE CheckClosed(t) \/ Compare(t) \/ LogSkip(t)
    BY <2>2, ScanSteps
  <2>3. CASE OrderCandidates(t)
    BY <2>3, OrderStep
  <2>4. CASE CallNext(t)
    BY <2>4, CallNextStep
  <2>5. CASE \/ CallRetried(t) \/ CallFails(t) \/ StreamDelta(t) \/ Abandon(t)
             \/ NoFallback(t) \/ Credit(t) \/ Leave(t)
    BY <2>5, RequestSteps
  <2>6. CASE CallSucceeds(t) \/ CloseCircuit(t) \/ LogSuccess(t)
    BY <2>6, AnswerSteps
  <2>7. CASE CountFailure(t) \/ LogFailure(t) \/ Trip(t) \/ LogOpen(t)
    BY <2>7, FailureSteps
  <2>8. CASE Fallback(t)
    BY <2>8, FallbackStep
  <2>9. QED
    BY <1>2, <2>1, <2>2, <2>3, <2>4, <2>5, <2>6, <2>7, <2>8 DEF Work
<1>3. QED
  BY <1>1, <1>2, RestartStep, TickStep DEF Next

-----------------------------------------------------------------------------
\* However requests, failures and restarts interleave, an open circuit is due
\* for another try within one cooldown (_record_failure, _hydrate_client_state).
THEOREM OpenBriefly == ASSUME RoutingAssumption PROVE Spec => []OpenForOneCooldown
<1>1. Init => IInv
  BY Initially
<1>2. IInv /\ [Next]_vars => IInv'
  BY EveryStep
<1>3. IInv => OpenForOneCooldown
  <2>1. ASSUME IInv PROVE DOMAIN circuit = Names
    BY <2>1 DEF IInv, TypeOK
  <2>2. QED
    BY <2>1 DEF IInv, Near, OpenForOneCooldown
<1>4. QED
  BY <1>1, <1>2, <1>3, PTL DEF Spec

\* The mock answers only when every client was skipped as open or failed in that
\* very request, under every strategy (_candidate_clients, generate, stream).
THEOREM MockComesLast == ASSUME RoutingAssumption PROVE Spec => []MockIsLastResort
<1>1. Init => IInv
  BY Initially
<1>2. IInv /\ [Next]_vars => IInv'
  BY EveryStep
<1>3. IInv => MockIsLastResort
  <2> SUFFICES ASSUME IInv, NEW t \in Threads, req[t].answer = "mock"
               PROVE  req[t].skipped \cup req[t].failed = Names
    <3>1. ASSUME IInv PROVE DOMAIN circuit = Names /\ DOMAIN req = Threads
      BY <3>1 DEF IInv, TypeOK
    <3>2. QED
      BY <3>1 DEF MockIsLastResort
  <2>1. IsReq(req[t]) /\ NoneLost(req[t])
    BY ReqOf
  <2>2. QED
    BY <2>1 DEF IsReq, NoneLost
<1>4. QED
  BY <1>1, <1>2, <1>3, PTL DEF Spec

-----------------------------------------------------------------------------
(* The log and the memory, for requests one at a time (thread t).           *)

Run(c) == FailureRun(EventsOf(c))
Until(c) == OpenUntil(EventsOf(c))
FailuresOf(c) == {i \in EventsOf(c) : /\ health[i].status = "failure"
                                      /\ \A j \in EventsOf(c) : i < j => ~Succeeded(health[j])}
OpeningsOf(c) == {i \in EventsOf(c) : health[i].status = "circuit_open" /\ health[i].until # Never}
Opened(c) == /\ EventsOf(c) # {}
             /\ health[Max(EventsOf(c))].status \in {"circuit_open", "circuit_skip"}

Doing(t, phases, c) == req[t].pc \in phases /\ req[t].client = c

\* What memory counts is what the log says, but between an answer's two writes.
Counted(t, c) ==
    circuit[c].failures =
        IF Doing(t, {"logFailure"}, c) THEN Run(c) + 1
        ELSE IF Doing(t, {"logSuccess", "logRecovered"}, c) THEN 0
        ELSE Run(c)

\* An open circuit has its failures behind it, in memory, in the log and on the way.
Tripped(t, c) ==
    /\ circuit[c].until # Never => circuit[c].failures >= Threshold
    /\ Opened(c) => Run(c) >= Threshold
    /\ Doing(t, {"trip", "logOpen"}, c) => circuit[c].failures >= Threshold
    /\ Doing(t, {"logOpen"}, c) => circuit[c].until # Never
    /\ (req[t].pc \in {"compare", "skip"} /\ Scanned(t) = c) => circuit[c].until # Never

\* The log has the date in memory, or one that is over.
Dated(t, c) ==
    \/ Doing(t, {"logOpen"}, c)
    \/ Until(c) = circuit[c].until
    \/ circuit[c].until = Never /\ Until(c) <= clock

Tried == {"calling", "failed", "logFailure", "trip", "succeeded", "logSuccess", "logRecovered"}

\* The candidates are distinct, and their circuits closed until one fails.
Free(t) ==
    /\ clock <= MaxTime
    /\ \A c \in ToSet(req[t].todo) : circuit[c].until = Never
    /\ IsInjective(req[t].todo)
    /\ req[t].pc \in Tried => circuit[req[t].client].until = Never
    /\ req[t].pc \in Tried => req[t].client \notin ToSet(req[t].todo)
    /\ req[t].pc \in Scans => ToSet(req[t].todo) \subseteq {Clients[i] : i \in 1 .. req[t].seen}

LogInv(t) == Len(health) < Window => \A c \in Names : Counted(t, c) /\ Tripped(t, c) /\ Dated(t, c)

-----------------------------------------------------------------------------
(* One more event.                                                          *)

LEMMA GreatestIs ==
    ASSUME NEW T, T \subseteq Nat, NEW x \in T, \A y \in T : y <= x
    PROVE  Max(T) = x
<1>1. \E z \in T : \A y \in T : z >= y
  OBVIOUS
<1>2. Max(T) \in T /\ \A y \in T : Max(T) >= y
  BY <1>1 DEF Max
<1>3. PICK m : m = Max(T)
  OBVIOUS
<1>4. m \in Nat /\ x \in Nat /\ m <= x /\ x <= m
  BY <1>2, <1>3
<1>5. QED
  BY <1>3, <1>4

\* While the log is shorter than the window nothing is dropped from it.
LEMMA LogAppends ==
    ASSUME IInv, RoutingAssumption, NEW c \in Names, NEW status, NEW until \in Nat,
           status \in {"success", "failure", "circuit_open", "circuit_skip", "circuit_recovered"},
           Log(c, status, until), Len(health') < Window
    PROVE  \E n \in Nat :
             /\ n = Len(health) /\ n < Window
             /\ DOMAIN health = 1 .. n /\ DOMAIN health' = 1 .. n + 1
             /\ \A i \in 1 .. n : health'[i] = health[i]
             /\ health'[n + 1] = [client |-> c, status |-> status, until |-> until]
<1> DEFINE e == [client |-> c, status |-> status, until |-> until]
           events == Append(health, e)
           n == Len(health)
<1>1. e \in Events
  BY DEF Events
<1>2. health \in Seq(Events) /\ n \in Nat /\ DOMAIN health = 1 .. n /\ Window \in Nat
  BY DEF IInv, TypeOK, RoutingAssumption
<1> HIDE DEF e
<1>3. /\ events \in Seq(Events) /\ Len(events) = n + 1
      /\ \A i \in 1 .. n : events[i] = health[i]
      /\ events[n + 1] = e /\ DOMAIN events = 1 .. n + 1
  BY <1>1, <1>2
<1>4. health' = SubSeq(events, IF Len(events) > Window THEN 2 ELSE 1, Len(events))
  BY DEF Log, e
<1> HIDE DEF events
<1>5. CASE n + 1 <= Window
  <2>1. health' = SubSeq(events, 1, n + 1)
    BY <1>2, <1>3, <1>4, <1>5
  <2>2. \A i \in 1 .. n + 1 : events[i] \in Events
    BY <1>3
  <2>3. /\ health' \in Seq(Events) /\ Len(health') = n + 1
        /\ \A i \in 1 .. n + 1 : health'[i] = events[i]
    <3>1. 1 \in Int /\ n + 1 \in Int /\ \A i \in 1 .. n + 1 : events[i] \in Events
      BY <1>2, <2>2
    <3>2. /\ SubSeq(events, 1, n + 1) \in Seq(Events)
          /\ Len(SubSeq(events, 1, n + 1)) = IF 1 <= n + 1 THEN n + 1 - 1 + 1 ELSE 0
          /\ \A i \in 1 .. n + 1 - 1 + 1 : SubSeq(events, 1, n + 1)[i] = events[1 + i - 1]
      BY <3>1, SubSeqProperties
    <3>3. QED
      BY <1>2, <2>1, <3>2
  <2>4. DOMAIN health' = 1 .. n + 1
    BY <2>3
  <2>5. \A i \in 1 .. n : health'[i] = health[i]
    BY <1>2, <1>3, <2>3
  <2>6. health'[n + 1] = e
    BY <1>2, <1>3, <2>3
  <2>7. n < Window
    BY <1>2, <1>5
  <2> HIDE DEF n
  <2>8. QED
    BY <1>2, <2>4, <2>5, <2>6, <2>7 DEF e, n
<1>6. CASE ~(n + 1 <= Window)
  <2>1. health' = SubSeq(events, 2, n + 1)
    BY <1>2, <1>3, <1>4, <1>6
  <2>2. \A i \in 2 .. n + 1 : events[i] \in Events
    BY <1>2, <1>3
  <2>3. Len(health') = n
    <3>1. 2 \in Int /\ n + 1 \in Int
      BY <1>2
    <3>2. Len(SubSeq(events, 2, n + 1)) = IF 2 <= n + 1 THEN n + 1 - 2 + 1 ELSE 0
      BY <2>2, <3>1, SubSeqProperties
    <3>3. QED
      BY <1>2, <2>1, <3>2
  <2>4. QED
    BY <1>2, <1>6, <2>3
<1>7. QED
  BY <1>2, <1>5, <1>6

\* What the log says of the other clients stays.
LEMMA OthersKept ==
    ASSUME NEW n \in Nat, NEW c, NEW d, c # d,
           DOMAIN health = 1 .. n, DOMAIN health' = 1 .. n + 1,
           \A i \in 1 .. n : health'[i] = health[i], health'[n + 1].client = c
    PROVE  Run(d)' = Run(d) /\ Until(d)' = Until(d) /\ Opened(d)' = Opened(d)
<1>1. EventsOf(d)' = EventsOf(d) /\ EventsOf(d) \subseteq 1 .. n
  BY DEF EventsOf
<1>2. FailuresOf(d)' = FailuresOf(d)
  BY <1>1 DEF FailuresOf, Succeeded
<1>3. OpeningsOf(d)' = OpeningsOf(d) /\ OpeningsOf(d) \subseteq EventsOf(d)
  BY <1>1 DEF OpeningsOf
<1>4. Run(d)' = Run(d)
  BY <1>2 DEF Run, FailureRun, FailuresOf
<1>5. EventsOf(d) # {} => health'[Max(EventsOf(d))] = health[Max(EventsOf(d))]
  <2>1. EventsOf(d) # {} => Max(EventsOf(d)) \in EventsOf(d)
    BY <1>1, GreatestExists
  <2>2. QED
    BY <1>1, <2>1
<1>6. OpeningsOf(d) # {} => health'[Max(OpeningsOf(d))] = health[Max(OpeningsOf(d))]
  <2>1. OpeningsOf(d) # {} => Max(OpeningsOf(d)) \in OpeningsOf(d)
    BY <1>1, <1>3, GreatestExists
  <2>2. QED
    BY <1>1, <1>3, <2>1
<1>7. Opened(d)' = Opened(d)
  BY <1>1, <1>5 DEF Opened
<1>8. Until(d)' = Until(d)
  BY <1>1, <1>3, <1>5, <1>6 DEF Until, OpenUntil, OpeningsOf
<1>9. QED
  BY <1>4, <1>7, <1>8

\* What it says of the client after another event of it.
LEMMA EventAdded ==
    ASSUME NEW n \in Nat, NEW c, NEW status, NEW until,
           DOMAIN health = 1 .. n, DOMAIN health' = 1 .. n + 1,
           \A i \in 1 .. n : health'[i] = health[i],
           health'[n + 1] = [client |-> c, status |-> status, until |-> until]
    PROVE  /\ status = "failure" => Run(c)' = Run(c) + 1
           /\ status \in {"success", "circuit_recovered"} => Run(c)' = 0
           /\ status \in {"circuit_open", "circuit_skip"} => Run(c)' = Run(c)
           /\ (Opened(c)' <=> status \in {"circuit_open", "circuit_skip"})
           /\ status \notin {"circuit_open", "circuit_skip"} => Until(c)' = Never
           /\ status = "circuit_open" /\ until # Never => Until(c)' = until
           /\ status = "circuit_skip" /\ Until(c) # Never => Until(c)' = Until(c)
<1>1. EventsOf(c)' = EventsOf(c) \cup {n + 1} /\ EventsOf(c) \subseteq 1 .. n
  BY DEF EventsOf
<1>2. Max(EventsOf(c)') = n + 1
  <2>1. PICK T : T = EventsOf(c)'
    OBVIOUS
  <2>2. T \subseteq Nat /\ n + 1 \in T /\ \A y \in T : y <= n + 1
    BY <1>1, <2>1
  <2>3. Max(T) = n + 1
    BY <2>2, GreatestIs
  <2>4. QED
    BY <2>1, <2>3
<1>3. health'[n + 1].status = status /\ health'[n + 1].until = until
  OBVIOUS
<1>4. Opened(c)' <=> status \in {"circuit_open", "circuit_skip"}
  <2>1. EventsOf(c)' # {} /\ health'[Max(EventsOf(c)')].status = status
    BY <1>1, <1>2, <1>3
  <2>2. Opened(c)' <=> /\ EventsOf(c)' # {}
                      /\ health'[Max(EventsOf(c)')].status \in {"circuit_open", "circuit_skip"}
    BY DEF Opened
  <2>3. QED
    BY <2>1, <2>2
<1>5. FailuresOf(c)' = IF status = "failure" THEN FailuresOf(c) \cup {n + 1}
                       ELSE IF status \in {"success", "circuit_recovered"} THEN {}
                       ELSE FailuresOf(c)
  <2>1. \A i \in EventsOf(c) : /\ health'[i] = health[i] /\ i < n + 1 /\ ~(n + 1 < i)
                               /\ (Succeeded(health'[i]) <=> Succeeded(health[i]))
    BY <1>1 DEF Succeeded
  <2>2. Succeeded(health'[n + 1]) <=> status \in {"success", "circuit_recovered"}
    BY <1>3 DEF Succeeded
  <2>3. FailuresOf(c)' = {i \in EventsOf(c) \cup {n + 1} :
                            /\ health'[i].status = "failure"
                            /\ \A j \in EventsOf(c) \cup {n + 1} : i < j => ~Succeeded(health'[j])}
    BY <1>1 DEF FailuresOf, Succeeded
  <2>4. CASE status = "failure"
    <3>1. ~Succeeded(health'[n + 1]) /\ ~(n + 1 < n + 1)
      <4>1. status \notin {"success", "circuit_recovered"}
        BY <2>4
      <4>2. QED
        BY <2>2, <4>1
    <3>2. \A i \in EventsOf(c) : i \in FailuresOf(c)' <=> i \in FailuresOf(c)
      BY <2>1, <2>3, <3>1 DEF FailuresOf
    <3>3. n + 1 \in FailuresOf(c)'
      BY <1>3, <2>1, <2>3, <2>4, <3>1
    <3>4. FailuresOf(c) \subseteq EventsOf(c) /\ FailuresOf(c)' \subseteq EventsOf(c) \cup {n + 1}
      BY <2>3 DEF FailuresOf
    <3>5. QED
      BY <2>4, <3>2, <3>3, <3>4
  <2>5. CASE status \in {"success", "circuit_recovered"}
    <3>1. Succeeded(health'[n + 1]) /\ health'[n + 1].status # "failure"
      BY <1>3, <2>2, <2>5
    <3>2. \A i \in EventsOf(c) : i \notin FailuresOf(c)'
      BY <2>1, <2>3, <3>1
    <3>3. n + 1 \notin FailuresOf(c)' /\ FailuresOf(c)' \subseteq EventsOf(c) \cup {n + 1}
      BY <2>3, <3>1
    <3>4. QED
      BY <2>5, <3>2, <3>3
  <2>6. CASE status # "failure" /\ status \notin {"success", "circuit_recovered"}
    <3>1. ~Succeeded(health'[n + 1]) /\ health'[n + 1].status # "failure"
      BY <1>3, <2>2, <2>6
    <3>2. \A i \in EventsOf(c) : i \in FailuresOf(c)' <=> i \in FailuresOf(c)
      BY <2>1, <2>3, <3>1 DEF FailuresOf
    <3>3. n + 1 \notin FailuresOf(c)' /\ FailuresOf(c)' \subseteq EventsOf(c) \cup {n + 1}
      BY <2>3, <3>1
    <3>4. FailuresOf(c) \subseteq EventsOf(c)
      BY DEF FailuresOf
    <3>5. FailuresOf(c)' = FailuresOf(c)
      BY <3>2, <3>3, <3>4
    <3>6. QED
      BY <2>6, <3>5
  <2>7. status = "failure" => status \notin {"success", "circuit_recovered"}
    OBVIOUS
  <2>8. QED
    BY <2>4, <2>5, <2>6, <2>7
<1>6. /\ Run(c)' = Cardinality(FailuresOf(c)') /\ Run(c) = Cardinality(FailuresOf(c))
      /\ IsFiniteSet(FailuresOf(c)) /\ n + 1 \notin FailuresOf(c)
  <2>1. FailuresOf(c) \subseteq 1 .. n /\ IsFiniteSet(1 .. n)
    <3>1. FailuresOf(c) \subseteq EventsOf(c)
      BY DEF FailuresOf
    <3>2. IsFiniteSet(1 .. n)
      BY FS_Interval
    <3>3. QED
      BY <1>1, <3>1, <3>2
  <2>2. IsFiniteSet(FailuresOf(c)) /\ n + 1 \notin FailuresOf(c)
    BY <2>1, FS_Subset
  <2>3. QED
    BY <2>2 DEF Run, FailureRun, FailuresOf
<1>7. Cardinality(FailuresOf(c) \cup {n + 1}) = Cardinality(FailuresOf(c)) + 1
  BY <1>6, FS_AddElement
<1>8. Cardinality({}) = 0
  BY FS_EmptySet
<1>9. OpeningsOf(c)' = IF status = "circuit_open" /\ until # Never THEN OpeningsOf(c) \cup {n + 1}
                       ELSE OpeningsOf(c)
  BY <1>1, <1>3 DEF OpeningsOf, Never
<1>10. Until(c)' = IF OpeningsOf(c)' # {} /\ status \in {"circuit_open", "circuit_skip"}
                   THEN health'[Max(OpeningsOf(c)')].until ELSE Never
  BY <1>2, <1>3 DEF Until, OpenUntil, OpeningsOf, Never
<1>11. OpeningsOf(c) \subseteq 1 .. n
  BY <1>1 DEF OpeningsOf
<1>12. ASSUME status = "circuit_open", until # Never PROVE Until(c)' = until
  <2>1. PICK T : T = OpeningsOf(c)'
    OBVIOUS
  <2>2. T \subseteq Nat /\ n + 1 \in T /\ \A y \in T : y <= n + 1
    BY <1>9, <1>11, <1>12, <2>1
  <2>3. Max(T) = n + 1
    BY <2>2, GreatestIs
  <2>4. QED
    BY <1>3, <1>10, <1>12, <2>1, <2>2, <2>3
<1>13. ASSUME status = "circuit_skip", Until(c) # Never PROVE Until(c)' = Until(c)
  <2>1. OpeningsOf(c) # {} /\ Until(c) = health[Max(OpeningsOf(c))].until
    BY <1>13 DEF Until, OpenUntil, OpeningsOf
  <2>2. Max(OpeningsOf(c)) \in OpeningsOf(c)
    BY <1>11, <2>1, GreatestExists
  <2>3. health'[Max(OpeningsOf(c))] = health[Max(OpeningsOf(c))]
    BY <1>11, <2>2
  <2>4. QED
    BY <1>9, <1>10, <1>13, <2>1, <2>3
<1>14. status \notin {"circuit_open", "circuit_skip"} => Until(c)' = Never
  BY <1>10
<1>15. QED
  BY <1>4, <1>5, <1>6, <1>7, <1>8, <1>12, <1>13, <1>14

-----------------------------------------------------------------------------
(* The steps.                                                               *)

Between == {"logFailure", "logSuccess", "logRecovered", "trip", "logOpen"}

\* A step that neither tries another client nor opens the circuit of one in line.
LEMMA FreeKept ==
    ASSUME IInv, NEW t \in Threads, Free(t), clock' = clock,
           req'[t].todo = req[t].todo, req[t].seen <= req'[t].seen,
           req'[t].seen \in Nat, req[t].seen \in Nat,
           req'[t].pc \in Tried => req[t].pc \in Tried /\ req'[t].client = req[t].client,
           req'[t].pc \in Scans => req[t].pc \in Scans,
           \A c \in ToSet(req[t].todo) : circuit'[c].until \in {circuit[c].until, Never},
           req'[t].pc \in Tried =>
               circuit'[req[t].client].until \in {circuit[req[t].client].until, Never}
    PROVE  Free(t)'
<1>1. Never' = Never
  BY DEF Never
<1>2. clock' <= MaxTime /\ IsInjective(req'[t].todo)
  BY DEF Free
<1>3. \A c \in ToSet(req'[t].todo) : circuit'[c].until = Never
  BY DEF Free
<1>4. req'[t].pc \in Tried => circuit'[req'[t].client].until = Never
  BY DEF Free
<1>5. req'[t].pc \in Tried => req'[t].client \notin ToSet(req'[t].todo)
  BY DEF Free
<1>6. req'[t].pc \in Scans =>
        ToSet(req'[t].todo) \subseteq {Clients[i] : i \in 1 .. req'[t].seen}
  <2>1. 1 .. req[t].seen \subseteq 1 .. req'[t].seen
    OBVIOUS
  <2>2. {Clients[i] : i \in 1 .. req[t].seen} \subseteq {Clients[i] : i \in 1 .. req'[t].seen}
    BY <2>1
  <2>3. QED
    BY <2>2 DEF Free
<1>7. QED
  BY <1>1, <1>2, <1>3, <1>4, <1>5, <1>6 DEF Free

\* A step outside _record_failure and _record_success leaves memory and log alone.
LEMMA LogKept ==
    ASSUME NEW t \in Threads, LogInv(t), UNCHANGED <<clock, circuit, health>>,
           req[t].pc \notin Between, req'[t].pc \notin Between,
           req'[t].pc \in {"compare", "skip"} =>
               circuit[Clients[req'[t].seen + 1]].until # Never
    PROVE  LogInv(t)'
<1> SUFFICES ASSUME Len(health) < Window, NEW c \in Names
             PROVE  Counted(t, c)' /\ Tripped(t, c)' /\ Dated(t, c)'
  BY DEF LogInv
<1>1. Counted(t, c) /\ Tripped(t, c) /\ Dated(t, c)
  BY DEF LogInv
<1>2. Run(c)' = Run(c) /\ Until(c)' = Until(c) /\ (Opened(c)' <=> Opened(c))
  BY DEF Run, FailureRun, Until, OpenUntil, Opened, EventsOf, Succeeded, Never
<1>3. \A phases \in SUBSET Between : ~Doing(t, phases, c) /\ ~Doing(t, phases, c)'
  BY DEF Doing
<1>4. Never' = Never /\ Scanned(t)' = Clients[req'[t].seen + 1]
  BY DEF Never, Scanned
<1>5. Counted(t, c)'
  BY <1>1, <1>2, <1>3 DEF Counted, Between
<1>6. Tripped(t, c)'
  BY <1>1, <1>2, <1>3, <1>4 DEF Tripped, Between
<1>7. Dated(t, c)'
  BY <1>1, <1>2, <1>3, <1>4 DEF Dated, Between
<1>8. QED
  BY <1>5, <1>6, <1>7

\* A client is put to the candidates: it was not among them.
LEMMA FreeCandidate ==
    ASSUME IInv, RoutingAssumption, NEW t \in Threads, Free(t), clock' = clock,
           req[t].pc \in Scans, req[t].seen < Len(Clients),
           req'[t].pc = "scan", req'[t].seen = req[t].seen + 1,
           req'[t].todo = Append(req[t].todo, Scanned(t)),
           circuit'[Scanned(t)].until = Never,
           \A c \in Names : circuit'[c].until \in {circuit[c].until, Never}
    PROVE  Free(t)'
<1> DEFINE seen == req[t].seen
<1>a. DOMAIN Clients = 1 .. Len(Clients) /\ Len(Clients) \in Nat
  BY DEF RoutingAssumption
<1>b. req[t].todo \in Seq(Names) /\ seen \in Nat
  <2>1. IsReq(req[t])
    BY ReqOf
  <2>2. req[t].todo \in Seq(Names) /\ seen \in 0 .. Len(Clients)
    BY <2>1 DEF IsReq
  <2>3. QED
    BY <1>a, <2>2
<1>c. PICK todo \in Seq(Names) : todo = req[t].todo
  BY <1>b
<1>d. PICK c \in Names : c = Scanned(t) /\ c = Clients[seen + 1]
  BY ScannedIs
<1>e. PICK n \in Nat : n = Len(todo)
  OBVIOUS
<1>1. /\ todo = req[t].todo /\ c = Scanned(t) /\ n = Len(todo) /\ seen = req[t].seen
      /\ c = Clients[seen + 1] /\ DOMAIN Clients = 1 .. Len(Clients) /\ seen < Len(Clients)
      /\ Len(Clients) \in Nat /\ seen \in Nat
  BY <1>a, <1>b, <1>c, <1>d, <1>e
<1> HIDE DEF seen
<1>2. ToSet(todo) \subseteq {Clients[i] : i \in 1 .. seen} /\ IsInjective(todo)
      /\ \A d \in ToSet(todo) : circuit[d].until = Never
  BY <1>1 DEF Free
<1>3. c \notin ToSet(todo)
  <2> SUFFICES ASSUME c \in ToSet(todo) PROVE FALSE
    OBVIOUS
  <2>1. PICK i \in 1 .. seen : c = Clients[i]
    BY <1>2
  <2>2. i \in DOMAIN Clients /\ seen + 1 \in DOMAIN Clients /\ i # seen + 1
    BY <1>1
  <2>3. QED
    BY <1>1, <2>1, <2>2 DEF RoutingAssumption, IsInjective
<1>4. PICK new : new = Append(todo, c)
  OBVIOUS
<1>5. /\ new \in Seq(Names) /\ DOMAIN new = 1 .. n + 1 /\ DOMAIN todo = 1 .. n
      /\ \A i \in 1 .. n : new[i] = todo[i] /\ new[i] \in ToSet(todo)
      /\ new[n + 1] = c /\ ToSet(new) = ToSet(todo) \cup {c}
  <2>1. /\ new \in Seq(Names) /\ DOMAIN new = 1 .. n + 1 /\ DOMAIN todo = 1 .. n
        /\ \A i \in 1 .. n : new[i] = todo[i]
        /\ new[n + 1] = c
    BY <1>1, <1>4
  <2>2. ToSet(new) = ToSet(todo) \cup {c}
    BY <1>1, <1>4, ToSetOfAppend
  <2>3. \A i \in 1 .. n : todo[i] \in ToSet(todo)
    BY <2>1 DEF ToSet
  <2>4. QED
    BY <2>1, <2>2, <2>3
<1>6. IsInjective(new)
  <2> SUFFICES ASSUME NEW i \in 1 .. n + 1, NEW j \in 1 .. n + 1, new[i] = new[j] PROVE i = j
    BY <1>5 DEF IsInjective
  <2>1. CASE i \in 1 .. n /\ j \in 1 .. n
    BY <1>2, <1>5, <2>1 DEF IsInjective
  <2>2. CASE i = n + 1 \/ j = n + 1
    BY <1>3, <1>5, <2>2
  <2>3. QED
    BY <2>1, <2>2
<1>7. ToSet(new) \subseteq {Clients[i] : i \in 1 .. seen + 1}
  BY <1>1, <1>2, <1>5
<1>8. \A d \in ToSet(new) : circuit'[d].until = Never
  <2>1. ToSet(todo) \subseteq Names
    BY <1>1, <1>5 DEF ToSet
  <2>2. QED
    BY <1>1, <1>2, <1>5, <2>1
<1>9. req'[t].todo = new /\ req'[t].seen = seen + 1 /\ req'[t].pc = "scan"
  BY <1>1, <1>4
<1>10. clock' <= MaxTime /\ Never' = Never
  BY DEF Free, Never
<1>11. QED
  BY <1>6, <1>7, <1>8, <1>9, <1>10 DEF Free, Tried

LEMMA CandidateMoves ==
    ASSUME IInv, NEW t \in Threads, Candidate(t)
    PROVE  /\ req'[t].pc = "scan" /\ req'[t].seen = req[t].seen + 1
           /\ req'[t].todo = Append(req[t].todo, Scanned(t))
<1> DEFINE r == req[t]
<1>1. IsReq(r) /\ req = [u \in Threads |-> req[u]]
  BY ReqOf DEF IInv, TypeOK
<1>2. PICK s : s = [r EXCEPT !.pc = "scan", !.seen = r.seen + 1,
                           !.todo = Append(r.todo, Scanned(t))]
  OBVIOUS
<1>3. s.pc = "scan" /\ s.seen = r.seen + 1 /\ s.todo = Append(r.todo, Scanned(t))
  BY <1>1, <1>2 DEF IsReq
<1>4. req' = [req EXCEPT ![t] = s]
  BY <1>1, <1>2 DEF Candidate
<1>5. QED
  BY <1>1, <1>3, <1>4

LEMMA CheckClosedLog ==
    ASSUME IInv, RoutingAssumption, NEW t \in Threads, Free(t), LogInv(t), CheckClosed(t)
    PROVE  Free(t)' /\ LogInv(t)'
<1>1. req[t].pc = "scan" /\ req[t].seen < Len(Clients) /\ req[t].seen \in Nat /\ IsReq(req[t])
      /\ UNCHANGED <<clock, circuit, health>> /\ req = [u \in Threads |-> req[u]]
  BY ReqOf DEF CheckClosed, Scanning, At, IsReq, memory, IInv, TypeOK
<1>2. CASE circuit[Scanned(t)].until = Never
  <2>1. /\ req'[t].pc = "scan" /\ req'[t].seen = req[t].seen + 1
        /\ req'[t].todo = Append(req[t].todo, Scanned(t))
    BY <1>2, CandidateMoves DEF CheckClosed
  <2>2. Free(t)'
    BY <1>1, <1>2, <2>1, FreeCandidate DEF Scans
  <2>3. LogInv(t)'
    BY <1>1, <2>1, LogKept DEF Between
  <2>4. QED
    BY <2>2, <2>3
<1>3. CASE circuit[Scanned(t)].until # Never
  <2>1. /\ req'[t].pc = "compare" /\ req'[t].seen = req[t].seen /\ req'[t].todo = req[t].todo
        /\ Scanned(t) = Clients[req'[t].seen + 1]
    BY <1>1, <1>3 DEF CheckClosed, Goto, IsReq, Scanned
  <2>2. Free(t)'
    BY <1>1, <2>1, FreeKept DEF Scans, Tried
  <2>3. LogInv(t)'
    BY <1>1, <1>3, <2>1, LogKept DEF Between
  <2>4. QED
    BY <2>2, <2>3
<1>4. QED
  BY <1>2, <1>3

LEMMA CompareLog ==
    ASSUME IInv, RoutingAssumption, NEW t \in Threads, Free(t), LogInv(t), Compare(t)
    PROVE  Free(t)' /\ LogInv(t)'
<1> DEFINE k == Scanned(t)
<1>1. /\ req[t].pc = "compare" /\ req[t].seen < Len(Clients) /\ req[t].seen \in Nat
      /\ IsReq(req[t]) /\ UNCHANGED <<clock, health>> /\ req = [u \in Threads |-> req[u]]
  BY ReqOf DEF Compare, At, IsReq, NoneLost, IInv, TypeOK
<1>2. k \in Names /\ k = Clients[req[t].seen + 1]
  BY <1>1, ScannedIs
<1>3. CASE circuit[k].until = Never
  <2>1. /\ req'[t].pc = "done" /\ req'[t].seen = req[t].seen /\ req'[t].todo = req[t].todo
        /\ UNCHANGED circuit
    BY <1>1, <1>3 DEF Compare, IsReq
  <2>2. Free(t)'
    BY <1>1, <2>1, FreeKept DEF Scans, Tried
  <2>3. LogInv(t)'
    BY <1>1, <2>1, LogKept DEF Between
  <2>4. QED
    BY <2>2, <2>3
<1>4. CASE circuit[k].until # Never /\ ~(circuit[k].until <= clock)
  <2>1. /\ req'[t].pc = "skip" /\ req'[t].seen = req[t].seen /\ req'[t].todo = req[t].todo
        /\ UNCHANGED circuit
    BY <1>1, <1>4 DEF Compare, Goto, IsReq
  <2>2. Free(t)'
    BY <1>1, <2>1, FreeKept DEF Scans, Tried
  <2>3. LogInv(t)'
    BY <1>1, <1>2, <1>4, <2>1, LogKept DEF Between
  <2>4. QED
    BY <2>2, <2>3
<1>5. CASE circuit[k].until # Never /\ circuit[k].until <= clock
  <2>1. /\ req'[t].pc = "scan" /\ req'[t].seen = req[t].seen + 1
        /\ req'[t].todo = Append(req[t].todo, k)
        /\ circuit' = [circuit EXCEPT ![k] = [circuit[k] EXCEPT !.until = Never]]
    <3>1. Candidate(t) /\ SetCircuit(k, [circuit[k] EXCEPT !.until = Never])
      BY <1>5 DEF Compare
    <3>2. QED
      BY <3>1, CandidateMoves DEF SetCircuit
  <2>2. /\ circuit'[k].until = Never /\ circuit'[k].failures = circuit[k].failures
        /\ \A c \in Names : c # k => circuit'[c] = circuit[c]
    <3>1. circuit \in [Names -> Circuits]
      BY DEF IInv, TypeOK
    <3>2. QED
      BY <1>2, <2>1, <3>1 DEF Circuits
  <2>3. Free(t)'
    BY <1>1, <2>1, <2>2, FreeCandidate DEF Scans
  <2>4. ASSUME Len(health) < Window, NEW c \in Names
        PROVE  Counted(t, c)' /\ Tripped(t, c)' /\ Dated(t, c)'
    <3>1. Counted(t, c) /\ Tripped(t, c) /\ Dated(t, c)
      BY <2>4 DEF LogInv
    <3>2. Run(c)' = Run(c) /\ Until(c)' = Until(c) /\ (Opened(c)' <=> Opened(c)) /\ Never' = Never
      BY <1>1 DEF Run, FailureRun, Until, OpenUntil, Opened, EventsOf, Succeeded, Never
    <3>3. \A phases \in SUBSET Between : ~Doing(t, phases, c) /\ ~Doing(t, phases, c)'
      BY <1>1, <2>1 DEF Doing, Between
    <3>4. circuit'[c].failures = circuit[c].failures
          /\ (circuit'[c].until # Never => circuit'[c].until = circuit[c].until)
      BY <2>2
    <3>5. Counted(t, c)'
      BY <3>1, <3>2, <3>3, <3>4 DEF Counted, Between
    <3>6. Tripped(t, c)'
      BY <2>1, <3>1, <3>2, <3>3, <3>4 DEF Tripped, Between
    <3>7. Dated(t, c)'
      BY <1>1, <1>5, <2>2, <3>1, <3>2, <3>3 DEF Dated, Between
    <3>8. QED
      BY <3>5, <3>6, <3>7
  <2>5. LogInv(t)'
    BY <1>1, <2>4 DEF LogInv
  <2>6. QED
    BY <2>3, <2>5
<1>6. QED
  BY <1>3, <1>4, <1>5

\* What a step about one client leaves of the others.
LEMMA OtherClient ==
    ASSUME NEW t \in Threads, NEW c, Counted(t, c), Tripped(t, c), Dated(t, c),
           clock' = clock, circuit'[c] = circuit[c],
           Run(c)' = Run(c), Until(c)' = Until(c), Opened(c)' <=> Opened(c),
           \A phases \in SUBSET Between : ~Doing(t, phases, c) /\ ~Doing(t, phases, c)',
           req'[t].pc \notin {"compare", "skip"}
    PROVE  Counted(t, c)' /\ Tripped(t, c)' /\ Dated(t, c)'
<1>1. Never' = Never
  BY DEF Never
<1>2. Counted(t, c)'
  BY DEF Counted, Between
<1>3. Tripped(t, c)'
  BY <1>1 DEF Tripped, Between
<1>4. Dated(t, c)'
  BY <1>1 DEF Dated, Between
<1>5. QED
  BY <1>2, <1>3, <1>4

\* What a step that logs makes of the log's account of each client.
LEMMA Logged ==
    ASSUME IInv, RoutingAssumption, NEW c \in Names, NEW status, NEW until \in Nat,
           status \in {"success", "failure", "circuit_open", "circuit_skip", "circuit_recovered"},
           Log(c, status, until), Len(health') < Window
    PROVE  /\ Len(health) < Window
           /\ \A d \in Names \ {c} : /\ Run(d)' = Run(d) /\ Until(d)' = Until(d)
                                     /\ (Opened(d)' <=> Opened(d))
           /\ status = "failure" => Run(c)' = Run(c) + 1
           /\ status \in {"success", "circuit_recovered"} => Run(c)' = 0
           /\ status \in {"circuit_open", "circuit_skip"} => Run(c)' = Run(c)
           /\ (Opened(c)' <=> status \in {"circuit_open", "circuit_skip"})
           /\ status \notin {"circuit_open", "circuit_skip"} => Until(c)' = Never
           /\ status = "circuit_open" /\ until # Never => Until(c)' = until
           /\ status = "circuit_skip" /\ Until(c) # Never => Until(c)' = Until(c)
<1>1. PICK n \in Nat :
        /\ n = Len(health) /\ n < Window
        /\ DOMAIN health = 1 .. n /\ DOMAIN health' = 1 .. n + 1
        /\ \A i \in 1 .. n : health'[i] = health[i]
        /\ health'[n + 1] = [client |-> c, status |-> status, until |-> until]
  BY LogAppends
<1>2. \A d \in Names \ {c} : Run(d)' = Run(d) /\ Until(d)' = Until(d) /\ (Opened(d)' <=> Opened(d))
  <2> SUFFICES ASSUME NEW d \in Names \ {c}
               PROVE  Run(d)' = Run(d) /\ Until(d)' = Until(d) /\ (Opened(d)' <=> Opened(d))
    OBVIOUS
  <2>1. health'[n + 1].client = c /\ c # d
    BY <1>1
  <2>2. QED
    BY <1>1, <2>1, OthersKept
<1>3. /\ status = "failure" => Run(c)' = Run(c) + 1
      /\ status \in {"success", "circuit_recovered"} => Run(c)' = 0
      /\ status \in {"circuit_open", "circuit_skip"} => Run(c)' = Run(c)
      /\ (Opened(c)' <=> status \in {"circuit_open", "circuit_skip"})
      /\ status \notin {"circuit_open", "circuit_skip"} => Until(c)' = Never
      /\ status = "circuit_open" /\ until # Never => Until(c)' = until
      /\ status = "circuit_skip" /\ Until(c) # Never => Until(c)' = Until(c)
  BY <1>1, EventAdded
<1>4. QED
  BY <1>1, <1>2, <1>3

LEMMA LogSkipLog ==
    ASSUME IInv, RoutingAssumption, NEW t \in Threads, Free(t), LogInv(t), LogSkip(t)
    PROVE  Free(t)' /\ LogInv(t)'
<1>1. /\ req[t].pc = "skip" /\ req[t].seen < Len(Clients) /\ req[t].seen \in Nat
      /\ IsReq(req[t]) /\ UNCHANGED <<clock, circuit>> /\ req = [u \in Threads |-> req[u]]
      /\ Log(Scanned(t), "circuit_skip", Never) /\ Never \in Nat
  BY ReqOf DEF LogSkip, At, IsReq, NoneLost, IInv, TypeOK, memory, Never, RoutingAssumption
<1>2. PICK k \in Names : k = Scanned(t)
  BY <1>1, ScannedIs
<1>3. req'[t].pc = "scan" /\ req'[t].seen = req[t].seen + 1 /\ req'[t].todo = req[t].todo
  <2>1. PICK s : s = [req[t] EXCEPT !.pc = "scan", !.seen = @ + 1, !.skipped = @ \cup {k}]
    OBVIOUS
  <2>2. s.pc = "scan" /\ s.seen = req[t].seen + 1 /\ s.todo = req[t].todo
    BY <1>1, <2>1 DEF IsReq
  <2>3. req' = [req EXCEPT ![t] = s]
    BY <1>1, <1>2, <2>1 DEF LogSkip
  <2>4. QED
    BY <1>1, <2>2, <2>3
<1>4. Free(t)'
  BY <1>1, <1>3, FreeKept DEF Scans, Tried
<1>5. ASSUME Len(health') < Window, NEW c \in Names
      PROVE  Counted(t, c)' /\ Tripped(t, c)' /\ Dated(t, c)'
  <2>1. /\ Len(health) < Window
        /\ \A d \in Names \ {k} : Run(d)' = Run(d) /\ Until(d)' = Until(d) /\ (Opened(d)' <=> Opened(d))
        /\ Run(k)' = Run(k) /\ (Until(k) # Never => Until(k)' = Until(k))
    BY <1>1, <1>2, <1>5, Logged
  <2>2. Counted(t, c) /\ Tripped(t, c) /\ Dated(t, c)
    BY <2>1 DEF LogInv
  <2>3. \A phases \in SUBSET Between : ~Doing(t, phases, c) /\ ~Doing(t, phases, c)'
    BY <1>1, <1>3 DEF Doing, Between
  <2>4. CASE c # k
    BY <1>1, <1>3, <2>1, <2>2, <2>3, <2>4, OtherClient
  <2>5. CASE c = k
    <3>1. circuit[k].until # Never /\ circuit[k].failures >= Threshold /\ circuit'[k] = circuit[k]
      BY <1>1, <1>2, <2>2, <2>5 DEF Tripped
    <3>2. circuit[k].failures = Run(k) /\ Until(k) = circuit[k].until
      BY <2>2, <2>3, <2>5, <3>1 DEF Counted, Dated, Between
    <3>3. Counted(t, c)'
      BY <2>1, <2>3, <2>5, <3>1, <3>2 DEF Counted, Between
    <3>4. Tripped(t, c)'
      BY <1>3, <2>1, <2>3, <2>5, <3>1, <3>2 DEF Tripped, Between, Never
    <3>5. Dated(t, c)'
      BY <2>1, <2>5, <3>1, <3>2 DEF Dated
    <3>6. QED
      BY <3>3, <3>4, <3>5
  <2>6. QED
    BY <2>4, <2>5
<1>6. QED
  BY <1>4, <1>5 DEF LogInv

\* A sequence of as many distinct members is a reordering.
LEMMA ReorderedInjective ==
    ASSUME NEW seq \in Seq(Names), NEW other \in Seq(Names), IsInjective(seq),
           ToSet(other) = ToSet(seq), Len(other) = Len(seq)
    PROVE  IsInjective(other)
<1>1. PICK n \in Nat : n = Len(seq) /\ DOMAIN seq = 1 .. n /\ DOMAIN other = 1 .. n
  OBVIOUS
<1>2. PICK S, T : S = 1 .. n /\ T = ToSet(seq)
  OBVIOUS
<1>3. IsFiniteSet(S)
  BY <1>2, FS_Interval
<1>4. seq \in Surjection(S, T) /\ other \in Surjection(S, T)
  <2>1. seq \in [S -> T] /\ \A x \in T : \E i \in S : seq[i] = x
    BY <1>1, <1>2 DEF ToSet
  <2>2. other \in [S -> T] /\ \A x \in T : \E i \in S : other[i] = x
    <3>1. T = {other[i] : i \in S}
      BY <1>1, <1>2 DEF ToSet
    <3>2. other = [i \in S |-> other[i]]
      BY <1>1, <1>2
    <3>3. QED
      BY <3>1, <3>2
  <2>3. QED
    BY <2>1, <2>2 DEF Surjection
<1>5. seq \in Injection(S, T)
  BY <1>1, <1>2, <1>4 DEF Injection, IsInjective, Surjection
<1>6. Cardinality(S) = Cardinality(T)
  BY <1>3, <1>4, <1>5, FS_Surjection
<1>7. other \in Injection(S, T)
  BY <1>3, <1>4, <1>6, FS_SurjSameCardinalityImpliesInj
<1>8. QED
  BY <1>1, <1>2, <1>7 DEF Injection, IsInjective

LEMMA OrderLog ==
    ASSUME IInv, RoutingAssumption, NEW t \in Threads, Free(t), LogInv(t), OrderCandidates(t)
    PROVE  Free(t)' /\ LogInv(t)'
<1>1. /\ req[t].pc = "scan" /\ IsReq(req[t]) /\ req[t].todo \in Seq(Names) /\ cursor \in Nat
      /\ UNCHANGED <<clock, circuit, health>> /\ req = [u \in Threads |-> req[u]]
  BY ReqOf DEF OrderCandidates, At, IsReq, IInv, TypeOK
<1>2. PICK order \in Orders(req[t].todo) : req' = [req EXCEPT ![t].pc = "next", ![t].todo = order]
  BY DEF OrderCandidates
<1>3. /\ order \in Seq(Names) /\ ToSet(order) = ToSet(req[t].todo)
      /\ Len(order) = Len(req[t].todo)
  BY <1>1, <1>2, OrderKeepsAll
<1>4. req'[t].pc = "next" /\ req'[t].todo = order
  <2>1. PICK s : s = [req[t] EXCEPT !.pc = "next", !.todo = order]
    OBVIOUS
  <2>2. s.pc = "next" /\ s.todo = order
    BY <1>1, <2>1 DEF IsReq
  <2>3. req' = [req EXCEPT ![t] = s]
    BY <1>1, <1>2, <2>1
  <2>4. QED
    BY <1>1, <2>2, <2>3
<1>5. Free(t)'
  <2>1. IsInjective(order)
    BY <1>1, <1>3, ReorderedInjective DEF Free
  <2>2. Never' = Never
    BY DEF Never
  <2>3. QED
    BY <1>1, <1>3, <1>4, <2>1, <2>2 DEF Free, Tried, Scans
<1>6. LogInv(t)'
  BY <1>1, <1>4, LogKept DEF Between
<1>7. QED
  BY <1>5, <1>6

LEMMA CallNextLog ==
    ASSUME IInv, NEW t \in Threads, Free(t), LogInv(t), CallNext(t)
    PROVE  Free(t)' /\ LogInv(t)'
<1>1. /\ req[t].pc = "next" /\ IsReq(req[t]) /\ req[t].todo \in Seq(Names) /\ req[t].todo # <<>>
      /\ UNCHANGED <<clock, circuit, health>> /\ req = [u \in Threads |-> req[u]]
  BY ReqOf DEF CallNext, At, IsReq, memory, IInv, TypeOK
<1>2. PICK todo \in Seq(Names), n \in Nat \ {0} :
        todo = req[t].todo /\ n = Len(todo) /\ DOMAIN todo = 1 .. n
  BY <1>1
<1>3. PICK c, rest : c = Head(todo) /\ rest = Tail(todo)
  OBVIOUS
<1>4. /\ c = todo[1] /\ rest \in Seq(Names) /\ DOMAIN rest = 1 .. n - 1
      /\ \A i \in 1 .. n - 1 : rest[i] = todo[i + 1]
  BY <1>2, <1>3, HeadTailProperties
<1>5. req'[t].pc = "calling" /\ req'[t].client = c /\ req'[t].todo = rest
  <2>1. PICK s : s = [req[t] EXCEPT !.pc = "calling", !.client = c, !.todo = rest, !.attempt = 1]
    OBVIOUS
  <2>2. s.pc = "calling" /\ s.client = c /\ s.todo = rest
    BY <1>1, <2>1 DEF IsReq
  <2>3. req' = [req EXCEPT ![t] = s]
    BY <1>1, <1>2, <1>3, <2>1 DEF CallNext
  <2>4. QED
    BY <1>1, <2>2, <2>3
<1>6. IsInjective(todo) /\ \A d \in ToSet(todo) : circuit[d].until = Never
  BY <1>2 DEF Free
<1>7. c \in ToSet(todo) /\ ToSet(rest) \subseteq ToSet(todo) /\ c \notin ToSet(rest)
  <2>1. ASSUME NEW i \in 1 .. n - 1
        PROVE  rest[i] \in ToSet(todo) /\ rest[i] # c
    <3>1. i + 1 \in 1 .. n /\ 1 \in 1 .. n /\ i + 1 # 1 /\ rest[i] = todo[i + 1]
      BY <1>4
    <3>2. QED
      BY <1>2, <1>4, <1>6, <3>1 DEF IsInjective, ToSet
  <2>2. 1 \in DOMAIN todo
    BY <1>2
  <2>3. QED
    BY <1>4, <2>1, <2>2 DEF ToSet
<1>8. IsInjective(rest)
  <2> SUFFICES ASSUME NEW i \in 1 .. n - 1, NEW j \in 1 .. n - 1, rest[i] = rest[j] PROVE i = j
    BY <1>4 DEF IsInjective
  <2>1. i + 1 \in 1 .. n /\ j + 1 \in 1 .. n /\ todo[i + 1] = todo[j + 1]
    BY <1>4
  <2>2. QED
    BY <1>2, <1>6, <2>1 DEF IsInjective
<1>9. Never' = Never
  BY DEF Never
<1>10. Free(t)'
  BY <1>1, <1>5, <1>6, <1>7, <1>8, <1>9 DEF Free, Tried, Scans
<1>11. LogInv(t)'
  BY <1>1, <1>5, LogKept DEF Between
<1>12. QED
  BY <1>10, <1>11

\* The steps of a request that touch no circuit and log nothing.
LEMMA RequestLog ==
    ASSUME IInv, RoutingAssumption, NEW t \in Threads, Free(t), LogInv(t),
           \/ CallRetried(t) \/ CallFails(t) \/ StreamDelta(t) \/ Abandon(t) \/ CallSucceeds(t)
           \/ Fallback(t) \/ NoFallback(t) \/ Credit(t)
    PROVE  Free(t)' /\ LogInv(t)'
<1> DEFINE r == req[t]
<1>1. /\ IsReq(r) /\ req = [u \in Threads |-> req[u]]
      /\ UNCHANGED <<clock, circuit, health>>
  BY ReqOf DEF IInv, TypeOK, CallRetried, CallFails, StreamDelta, Abandon, CallSucceeds,
               Fallback, NoFallback, Credit, memory
<1>2. r.seen \in Nat
  <2>1. r.seen \in 0 .. Len(Clients) /\ Len(Clients) \in Nat
    BY <1>1 DEF IsReq, RoutingAssumption
  <2>2. QED
    BY <2>1
<1>3. /\ req'[t].todo = r.todo /\ req'[t].client = r.client /\ req'[t].seen = r.seen
      /\ r.pc \notin Between \cup Scans /\ req'[t].pc \notin Between \cup Scans
      /\ (req'[t].pc \in Tried => r.pc = "calling")
  <2>1. CASE CallRetried(t)
    BY <1>1, <2>1 DEF CallRetried, At, IsReq, Between, Scans, Tried
  <2>2. CASE CallFails(t)
    BY <1>1, <2>2 DEF CallFails, At, IsReq, Between, Scans, Tried
  <2>3. CASE StreamDelta(t)
    BY <1>1, <2>3 DEF StreamDelta, At, IsReq, Between, Scans, Tried
  <2>4. CASE Abandon(t)
    BY <1>1, <2>4 DEF Abandon, At, IsReq, Between, Scans, Tried
  <2>5. CASE CallSucceeds(t)
    BY <1>1, <2>5 DEF CallSucceeds, At, IsReq, Between, Scans, Tried
  <2>6. CASE Fallback(t)
    BY <1>1, <2>6 DEF Fallback, Exhausted, At, IsReq, Between, Scans, Tried
  <2>7. CASE NoFallback(t)
    BY <1>1, <2>7 DEF NoFallback, Exhausted, At, IsReq, Between, Scans, Tried
  <2>8. CASE Credit(t)
    BY <1>1, <2>8 DEF Credit, At, IsReq, Between, Scans, Tried
  <2>9. QED
    BY <2>1, <2>2, <2>3, <2>4, <2>5, <2>6, <2>7, <2>8
<1>4. Free(t)'
  BY <1>1, <1>2, <1>3, FreeKept DEF Tried
<1>5. LogInv(t)'
  BY <1>1, <1>3, LogKept DEF Scans
<1>6. QED
  BY <1>4, <1>5

\* A request that is new, or over.
LEMMA FreshLog ==
    ASSUME IInv, RoutingAssumption, NEW t \in Threads, Free(t), LogInv(t), Arrive(t) \/ Leave(t)
    PROVE  Free(t)' /\ LogInv(t)'
<1>1. req = [u \in Threads |-> req[u]] /\ UNCHANGED <<clock, circuit, health>>
  BY DEF IInv, TypeOK, Arrive, Begin, Leave, memory
<1>2. req'[t].todo = <<>> /\ req'[t].pc \in {"idle", "scan"} /\ req[t].pc \in {"idle", "done"}
  <2>1. CASE Leave(t)
    BY <1>1, <2>1 DEF Leave, At, NoRequest
  <2>2. ASSUME NEW kind, Begin(t, kind) PROVE req'[t].todo = <<>> /\ req'[t].pc = "scan" /\ req[t].pc = "idle"
    <3>1. PICK s : s = [NoRequest EXCEPT !.pc = "scan", !.kind = kind]
      OBVIOUS
    <3>2. s.todo = <<>> /\ s.pc = "scan"
      BY <3>1 DEF NoRequest
    <3>3. req' = [req EXCEPT ![t] = s] /\ req[t].pc = "idle"
      BY <2>2, <3>1 DEF Begin, At
    <3>4. QED
      BY <1>1, <3>2, <3>3
  <2>3. QED
    BY <2>1, <2>2 DEF Arrive
<1>3. ToSet(req'[t].todo) = {} /\ IsInjective(req'[t].todo)
  BY <1>2 DEF ToSet, IsInjective
<1>4. Free(t)'
  BY <1>1, <1>2, <1>3 DEF Free, Tried, Never
<1>5. LogInv(t)'
  BY <1>1, <1>2, LogKept DEF Between
<1>6. QED
  BY <1>4, <1>5

\* A step that writes one circuit, and logs nothing.
LEMMA CircuitWritten ==
    ASSUME IInv, NEW t \in Threads, LogInv(t), UNCHANGED <<clock, health>>,
           NEW k \in Names, k = req[t].client, req'[t].client = k,
           req'[t].pc \notin {"compare", "skip"},
           NEW state \in Circuits, SetCircuit(k, state),
           Len(health) < Window =>
               /\ Counted(t, k) /\ Tripped(t, k) /\ Dated(t, k)
                    => Counted(t, k)' /\ Tripped(t, k)' /\ Dated(t, k)'
    PROVE  LogInv(t)'
<1>1. circuit' = [circuit EXCEPT ![k] = state] /\ circuit \in [Names -> Circuits]
  BY DEF SetCircuit, IInv, TypeOK
<1> SUFFICES ASSUME Len(health) < Window, NEW c \in Names
             PROVE  Counted(t, c)' /\ Tripped(t, c)' /\ Dated(t, c)'
  BY DEF LogInv
<1>2. Counted(t, c) /\ Tripped(t, c) /\ Dated(t, c)
  BY DEF LogInv
<1>3. CASE c = k
  BY <1>2, <1>3
<1>4. CASE c # k
  <2>1. circuit'[c] = circuit[c]
    BY <1>1, <1>4
  <2>2. \A phases \in SUBSET Between : ~Doing(t, phases, c) /\ ~Doing(t, phases, c)'
    BY <1>4 DEF Doing
  <2>3. Run(c)' = Run(c) /\ Until(c)' = Until(c) /\ (Opened(c)' <=> Opened(c))
    BY DEF Run, FailureRun, Until, OpenUntil, Opened, EventsOf, Succeeded, Never
  <2>4. QED
    BY <1>2, <2>1, <2>2, <2>3, OtherClient
<1>5. QED
  BY <1>3, <1>4

\* A step that logs an event of the client at hand.
LEMMA EventLogged ==
    ASSUME IInv, RoutingAssumption, NEW t \in Threads, LogInv(t), UNCHANGED <<clock, circuit>>,
           NEW k \in Names, k = req[t].client, req'[t].client = k,
           req'[t].pc \notin {"compare", "skip"}, NEW status, NEW until \in Nat,
           status \in {"success", "failure", "circuit_open", "circuit_skip", "circuit_recovered"},
           Log(k, status, until),
           Len(health') < Window =>
               (Counted(t, k) /\ Tripped(t, k) /\ Dated(t, k)
                    => Counted(t, k)' /\ Tripped(t, k)' /\ Dated(t, k)')
    PROVE  LogInv(t)'
<1> SUFFICES ASSUME Len(health') < Window, NEW c \in Names
             PROVE  Counted(t, c)' /\ Tripped(t, c)' /\ Dated(t, c)'
  BY DEF LogInv
<1>1. /\ Len(health) < Window
      /\ \A d \in Names \ {k} : Run(d)' = Run(d) /\ Until(d)' = Until(d) /\ (Opened(d)' <=> Opened(d))
  BY Logged
<1>2. Counted(t, c) /\ Tripped(t, c) /\ Dated(t, c)
  BY <1>1 DEF LogInv
<1>3. CASE c = k
  BY <1>2, <1>3
<1>4. CASE c # k
  <2>1. \A phases \in SUBSET Between : ~Doing(t, phases, c) /\ ~Doing(t, phases, c)'
    BY <1>4 DEF Doing
  <2>2. QED
    BY <1>1, <1>2, <1>4, <2>1, OtherClient
<1>5. QED
  BY <1>3, <1>4

LEMMA GoesTo ==
    ASSUME IInv, RoutingAssumption, NEW t \in Threads, NEW pc, Goto(t, pc)
    PROVE  /\ req'[t].pc = pc /\ req'[t].todo = req[t].todo /\ req'[t].client = req[t].client
           /\ req'[t].seen = req[t].seen /\ req[t].seen \in Nat
<1>1. IsReq(req[t]) /\ req = [u \in Threads |-> req[u]]
  BY ReqOf DEF IInv, TypeOK
<1>2. req[t].seen \in Nat
  <2>1. req[t].seen \in 0 .. Len(Clients) /\ Len(Clients) \in Nat
    BY <1>1 DEF IsReq, RoutingAssumption
  <2>2. QED
    BY <2>1
<1>3. QED
  BY <1>1, <1>2 DEF Goto, IsReq

LEMMA TodoOf == ASSUME IInv, NEW t \in Threads PROVE ToSet(req[t].todo) \subseteq Names
<1>1. req[t].todo \in Seq(Names)
  BY ReqOf DEF IsReq
<1>2. PICK todo \in Seq(Names) : todo = req[t].todo
  BY <1>1
<1>3. ToSet(todo) \subseteq Names
  BY DEF ToSet
<1>4. QED
  BY <1>2, <1>3

\* The log as it was.
LEMMA SameLog ==
    ASSUME health' = health
    PROVE  \A c : Run(c)' = Run(c) /\ Until(c)' = Until(c) /\ (Opened(c)' <=> Opened(c))
  BY DEF Run, FailureRun, Until, OpenUntil, Opened, EventsOf, Succeeded, Never

\* _record_failure, one failure: counted, logged, and at the threshold the circuit trips.
LEMMA FailureLog ==
    ASSUME IInv, RoutingAssumption, NEW t \in Threads, Free(t), LogInv(t),
           CountFailure(t) \/ LogFailure(t) \/ Trip(t) \/ LogOpen(t)
    PROVE  Free(t)' /\ LogInv(t)'
<1>1. PICK k \in Names : k = req[t].client
  <2>1. req[t].pc \in HasClient
    BY DEF CountFailure, LogFailure, Trip, LogOpen, At, HasClient
  <2>2. QED
    BY <2>1, ReqOf DEF NoneLost
<1>2. /\ circuit[k] = [failures |-> circuit[k].failures, until |-> circuit[k].until,
                       measured |-> circuit[k].measured]
      /\ circuit[k].failures \in Nat /\ circuit[k].until \in Nat /\ circuit[k].measured \in BOOLEAN
      /\ Never \in Nat /\ clock \in Nat /\ Cooldown \in Nat
  BY CircuitOf
<1>3. circuit \in [Names -> Circuits] /\ Never' = Never /\ Threshold \in Nat /\ MaxTime \in Nat
  BY DEF IInv, TypeOK, Never, RoutingAssumption
<1>4. CASE CountFailure(t)
  <2>1. /\ req[t].pc = "failed" /\ UNCHANGED <<clock, health>> /\ Goto(t, "logFailure")
        /\ SetCircuit(k, [circuit[k] EXCEPT !.failures = @ + 1, !.measured = TRUE])
    BY <1>1, <1>4 DEF CountFailure, At
  <2>2. PICK state : state = [circuit[k] EXCEPT !.failures = @ + 1, !.measured = TRUE]
    OBVIOUS
  <2>3. /\ state \in Circuits /\ state.failures = circuit[k].failures + 1
        /\ state.until = circuit[k].until
    <3>1. state = [failures |-> circuit[k].failures + 1, until |-> circuit[k].until,
                   measured |-> TRUE]
      BY <1>2, <2>2
    <3>2. QED
      BY <1>2, <3>1 DEF Circuits
  <2>4. /\ req'[t].pc = "logFailure" /\ req'[t].todo = req[t].todo
        /\ req'[t].client = k /\ req'[t].seen = req[t].seen /\ req[t].seen \in Nat
    BY <1>1, <2>1, GoesTo
  <2>5. /\ circuit'[k] = state /\ \A c \in Names \ {k} : circuit'[c] = circuit[c]
    BY <1>3, <2>1, <2>2 DEF SetCircuit
  <2>6. ToSet(req[t].todo) \subseteq Names
    BY TodoOf
  <2>7. Free(t)'
    BY <1>1, <2>1, <2>3, <2>4, <2>5, <2>6, FreeKept DEF Tried, Scans
  <2>8. ASSUME Counted(t, k), Tripped(t, k), Dated(t, k)
        PROVE  Counted(t, k)' /\ Tripped(t, k)' /\ Dated(t, k)'
    <3>1. Run(k)' = Run(k) /\ Until(k)' = Until(k) /\ (Opened(k)' <=> Opened(k))
      BY <2>1, SameLog
    <3>2. circuit[k].failures = Run(k)
      BY <2>1, <2>8 DEF Counted, Doing
    <3>3. Counted(t, k)'
      BY <2>3, <2>4, <2>5, <3>1, <3>2 DEF Counted, Doing
    <3>4. Tripped(t, k)'
      BY <1>2, <1>3, <2>3, <2>4, <2>5, <2>8, <3>1 DEF Tripped, Doing
    <3>5. Dated(t, k)'
      BY <1>3, <2>1, <2>3, <2>4, <2>5, <2>8, <3>1 DEF Dated, Doing
    <3>6. QED
      BY <3>3, <3>4, <3>5
  <2>9. LogInv(t)'
    BY <1>1, <2>1, <2>2, <2>3, <2>4, <2>8, CircuitWritten
  <2>10. QED
    BY <2>7, <2>9
<1>5. CASE LogFailure(t)
  <2>1. PICK pc \in {"trip", "next"} :
          pc = IF circuit[k].failures >= Threshold THEN "trip" ELSE "next"
    OBVIOUS
  <2>2. /\ req[t].pc = "logFailure" /\ UNCHANGED <<clock, circuit>> /\ Goto(t, pc)
        /\ Log(k, "failure", Never)
    BY <1>1, <1>5, <2>1 DEF LogFailure, At, memory
  <2>3. /\ req'[t].pc = pc /\ req'[t].todo = req[t].todo
        /\ req'[t].client = k /\ req'[t].seen = req[t].seen /\ req[t].seen \in Nat
    BY <1>1, <2>2, GoesTo
  <2>4. Free(t)'
    BY <1>1, <2>1, <2>2, <2>3, FreeKept DEF Tried, Scans
  <2>5. ASSUME Len(health') < Window, Counted(t, k), Tripped(t, k), Dated(t, k)
        PROVE  Counted(t, k)' /\ Tripped(t, k)' /\ Dated(t, k)'
    <3>1. Run(k)' = Run(k) + 1 /\ ~Opened(k)' /\ Until(k)' = Never
      BY <1>2, <2>2, <2>5, Logged
    <3>2. circuit[k].failures = Run(k) + 1 /\ circuit[k].until = Never
      BY <1>1, <2>2, <2>5 DEF Counted, Doing, Free, Tried
    <3>3. Counted(t, k)'
      BY <2>1, <2>2, <2>3, <3>1, <3>2 DEF Counted, Doing
    <3>4. Tripped(t, k)'
      BY <1>3, <2>1, <2>2, <2>3, <3>1, <3>2 DEF Tripped, Doing
    <3>5. Dated(t, k)'
      BY <2>2, <3>1, <3>2 DEF Dated
    <3>6. QED
      BY <3>3, <3>4, <3>5
  <2>6. LogInv(t)'
    BY <1>1, <1>2, <2>1, <2>2, <2>3, <2>5, EventLogged
  <2>7. QED
    BY <2>4, <2>6
<1>6. CASE Trip(t)
  <2>1. /\ req[t].pc = "trip" /\ UNCHANGED <<clock, health>> /\ Goto(t, "logOpen")
        /\ SetCircuit(k, [circuit[k] EXCEPT !.until = clock + Cooldown])
    BY <1>1, <1>6 DEF Trip, At
  <2>2. PICK state : state = [circuit[k] EXCEPT !.until = clock + Cooldown]
    OBVIOUS
  <2>3. /\ state \in Circuits /\ state.failures = circuit[k].failures
        /\ state.until = clock + Cooldown
    BY <1>2, <2>2 DEF Circuits
  <2>4. /\ req'[t].pc = "logOpen" /\ req'[t].todo = req[t].todo
        /\ req'[t].client = k /\ req'[t].seen = req[t].seen /\ req[t].seen \in Nat
    BY <1>1, <2>1, GoesTo
  <2>5. /\ circuit'[k] = state /\ \A c \in Names \ {k} : circuit'[c] = circuit[c]
    BY <1>3, <2>1, <2>2 DEF SetCircuit
  <2>6. ToSet(req[t].todo) \subseteq Names /\ k \notin ToSet(req[t].todo)
    <3>1. ToSet(req[t].todo) \subseteq Names
      BY TodoOf
    <3>2. QED
      BY <1>1, <2>1, <3>1 DEF Free, Tried
  <2>7. Free(t)'
    BY <1>1, <2>1, <2>4, <2>5, <2>6, FreeKept DEF Tried, Scans
  <2>8. state.until # Never
    BY <1>2, <1>3, <2>3 DEF Free, Never
  <2>9. ASSUME Counted(t, k), Tripped(t, k), Dated(t, k)
        PROVE  Counted(t, k)' /\ Tripped(t, k)' /\ Dated(t, k)'
    <3>1. Run(k)' = Run(k) /\ Until(k)' = Until(k) /\ (Opened(k)' <=> Opened(k))
      BY <2>1, SameLog
    <3>2. circuit[k].failures = Run(k) /\ circuit[k].failures >= Threshold
      BY <1>1, <2>1, <2>9 DEF Counted, Tripped, Doing
    <3>3. Counted(t, k)'
      BY <2>3, <2>4, <2>5, <3>1, <3>2 DEF Counted, Doing
    <3>4. Tripped(t, k)'
      BY <1>3, <2>3, <2>4, <2>5, <2>8, <2>9, <3>1, <3>2 DEF Tripped, Doing
    <3>5. Dated(t, k)'
      BY <2>4 DEF Dated, Doing
    <3>6. QED
      BY <3>3, <3>4, <3>5
  <2>10. LogInv(t)'
    BY <1>1, <2>1, <2>2, <2>3, <2>4, <2>9, CircuitWritten
  <2>11. QED
    BY <2>7, <2>10
<1>7. CASE LogOpen(t)
  <2>1. /\ req[t].pc = "logOpen" /\ UNCHANGED <<clock, circuit>> /\ Goto(t, "next")
        /\ Log(k, "circuit_open", circuit[k].until)
    BY <1>1, <1>7 DEF LogOpen, At, memory
  <2>2. /\ req'[t].pc = "next" /\ req'[t].todo = req[t].todo
        /\ req'[t].client = k /\ req'[t].seen = req[t].seen /\ req[t].seen \in Nat
    BY <1>1, <2>1, GoesTo
  <2>3. Free(t)'
    BY <2>1, <2>2, FreeKept DEF Tried, Scans
  <2>4. ASSUME Len(health') < Window, Counted(t, k), Tripped(t, k), Dated(t, k)
        PROVE  Counted(t, k)' /\ Tripped(t, k)' /\ Dated(t, k)'
    <3>1. circuit[k].failures = Run(k) /\ circuit[k].failures >= Threshold /\ circuit[k].until # Never
      BY <1>1, <2>1, <2>4 DEF Counted, Tripped, Doing
    <3>2. Run(k)' = Run(k) /\ Until(k)' = circuit[k].until
      BY <1>2, <2>1, <2>4, <3>1, Logged
    <3>3. Counted(t, k)'
      BY <2>1, <2>2, <3>1, <3>2 DEF Counted, Doing
    <3>4. Tripped(t, k)'
      BY <1>3, <2>1, <2>2, <3>1, <3>2 DEF Tripped, Doing
    <3>5. Dated(t, k)'
      BY <2>1, <3>2 DEF Dated
    <3>6. QED
      BY <3>3, <3>4, <3>5
  <2>5. LogInv(t)'
    BY <1>1, <1>2, <2>1, <2>2, <2>4, EventLogged
  <2>6. QED
    BY <2>3, <2>5
<1>8. QED
  BY <1>4, <1>5, <1>6, <1>7

\* _record_success: the circuit is closed in memory, then in the log.
LEMMA AnswerLog ==
    ASSUME IInv, RoutingAssumption, NEW t \in Threads, Free(t), LogInv(t),
           CloseCircuit(t) \/ LogSuccess(t)
    PROVE  Free(t)' /\ LogInv(t)'
<1>1. PICK k \in Names : k = req[t].client
  <2>1. req[t].pc \in HasClient
    BY DEF CloseCircuit, LogSuccess, At, HasClient
  <2>2. QED
    BY <2>1, ReqOf DEF NoneLost
<1>2. Never \in Nat /\ Never' = Never /\ clock \in Nat /\ circuit \in [Names -> Circuits]
  BY DEF IInv, TypeOK, Never, RoutingAssumption
<1>3. CASE CloseCircuit(t)
  <2>1. PICK pc \in {"logRecovered", "logSuccess"} :
          pc = IF Recovering(k) THEN "logRecovered" ELSE "logSuccess"
    OBVIOUS
  <2>2. PICK state : state = [Closed EXCEPT !.measured = TRUE]
    OBVIOUS
  <2>3. state \in Circuits /\ state.failures = 0 /\ state.until = Never
    BY <1>2, <2>2 DEF Closed, Circuits
  <2>4. /\ req[t].pc = "succeeded" /\ UNCHANGED <<clock, health>> /\ Goto(t, pc)
        /\ SetCircuit(k, state)
    BY <1>1, <1>3, <2>1, <2>2 DEF CloseCircuit, At
  <2>5. /\ req'[t].pc = pc /\ req'[t].todo = req[t].todo
        /\ req'[t].client = k /\ req'[t].seen = req[t].seen /\ req[t].seen \in Nat
    BY <1>1, <2>4, GoesTo
  <2>6. /\ circuit'[k] = state /\ \A c \in Names \ {k} : circuit'[c] = circuit[c]
    BY <1>2, <2>4 DEF SetCircuit
  <2>7. ToSet(req[t].todo) \subseteq Names
    BY TodoOf
  <2>8. Free(t)'
    BY <1>1, <2>1, <2>3, <2>4, <2>5, <2>6, <2>7, FreeKept DEF Tried, Scans
  <2>9. ASSUME Counted(t, k), Tripped(t, k), Dated(t, k)
        PROVE  Counted(t, k)' /\ Tripped(t, k)' /\ Dated(t, k)'
    <3>1. Run(k)' = Run(k) /\ Until(k)' = Until(k) /\ (Opened(k)' <=> Opened(k))
      BY <2>4, SameLog
    <3>2. circuit[k].until = Never
      BY <1>1, <2>4 DEF Free, Tried
    <3>3. Counted(t, k)'
      BY <2>1, <2>3, <2>5, <2>6 DEF Counted, Doing
    <3>4. Tripped(t, k)'
      BY <1>2, <2>1, <2>3, <2>5, <2>6, <2>9, <3>1 DEF Tripped, Doing
    <3>5. Dated(t, k)'
      BY <1>2, <2>3, <2>4, <2>6, <2>9, <3>1, <3>2 DEF Dated, Doing
    <3>6. QED
      BY <3>3, <3>4, <3>5
  <2>10. LogInv(t)'
    BY <1>1, <2>1, <2>3, <2>4, <2>5, <2>9, CircuitWritten
  <2>11. QED
    BY <2>8, <2>10
<1>4. CASE LogSuccess(t)
  <2>1. PICK status \in {"success", "circuit_recovered"} :
          status = IF At(t, "logSuccess") THEN "success" ELSE "circuit_recovered"
    OBVIOUS
  <2>2. PICK s : s = [req[t] EXCEPT !.pc = "answered", !.answer = "client"]
    OBVIOUS
  <2>3. /\ req[t].pc \in {"logSuccess", "logRecovered"} /\ UNCHANGED <<clock, circuit>>
        /\ Log(k, status, Never) /\ IsReq(req[t]) /\ req' = [req EXCEPT ![t] = s]
        /\ req = [u \in Threads |-> req[u]]
    BY <1>1, <1>4, <2>1, <2>2, ReqOf DEF LogSuccess, At, memory, IInv, TypeOK
  <2>4. req[t].seen \in Nat
    <3>1. req[t].seen \in 0 .. Len(Clients) /\ Len(Clients) \in Nat
      BY <2>3 DEF IsReq, RoutingAssumption
    <3>2. QED
      BY <3>1
  <2>5. /\ req'[t].pc = "answered" /\ req'[t].todo = req[t].todo
        /\ req'[t].client = k /\ req'[t].seen = req[t].seen
    <3>1. /\ s.pc = "answered" /\ s.todo = req[t].todo /\ s.client = k /\ s.seen = req[t].seen
      BY <1>1, <2>2, <2>3 DEF IsReq
    <3>2. QED
      BY <2>3, <3>1
  <2>6. Free(t)'
    BY <2>3, <2>4, <2>5, FreeKept DEF Tried, Scans
  <2>7. ASSUME Len(health') < Window, Counted(t, k), Tripped(t, k), Dated(t, k)
        PROVE  Counted(t, k)' /\ Tripped(t, k)' /\ Dated(t, k)'
    <3>1. Run(k)' = 0 /\ ~Opened(k)' /\ Until(k)' = Never
      BY <1>2, <2>1, <2>3, <2>7, Logged
    <3>2. circuit[k].failures = 0 /\ circuit[k].until = Never
      BY <1>1, <2>3, <2>7 DEF Counted, Doing, Free, Tried
    <3>3. Counted(t, k)'
      BY <2>3, <2>5, <3>1, <3>2 DEF Counted, Doing
    <3>4. Tripped(t, k)'
      BY <1>2, <2>3, <2>5, <3>1, <3>2 DEF Tripped, Doing
    <3>5. Dated(t, k)'
      BY <2>3, <3>1, <3>2 DEF Dated
    <3>6. QED
      BY <3>3, <3>4, <3>5
  <2>8. LogInv(t)'
    BY <1>1, <1>2, <2>1, <2>3, <2>5, <2>7, EventLogged
  <2>9. QED
    BY <2>6, <2>8
<1>5. QED
  BY <1>3, <1>4

\* A new process knows what the log says.
LEMMA RestartLog ==
    ASSUME IInv, RoutingAssumption, NEW t \in Threads, Free(t), LogInv(t), Restart
    PROVE  Free(t)' /\ LogInv(t)'
<1>1. /\ circuit' = [c \in Names |-> Hydrated(c)] /\ UNCHANGED <<clock, health>>
      /\ req'[t] = NoRequest
  BY DEF Restart
<1>2. req'[t].pc = "idle" /\ ToSet(req'[t].todo) = {} /\ IsInjective(req'[t].todo)
  BY <1>1 DEF NoRequest, ToSet, IsInjective
<1>3. Free(t)'
  BY <1>1, <1>2 DEF Free, Tried, Scans, Never
<1>4. ASSUME Len(health) < Window, NEW c \in Names
      PROVE  Counted(t, c)' /\ Tripped(t, c)' /\ Dated(t, c)'
  <2>1. Tripped(t, c) /\ Run(c)' = Run(c) /\ Until(c)' = Until(c) /\ (Opened(c)' <=> Opened(c))
    BY <1>1, <1>4, SameLog DEF LogInv
  <2>2. circuit'[c].until = Until(c)
    BY <1>1 DEF Hydrated, Until
  <2>3. Until(c) # Never => Opened(c)
    BY DEF Until, OpenUntil, Opened
  <2>4. circuit'[c].failures = IF Until(c) # Never /\ Run(c) = 0 THEN 1 ELSE Run(c)
    BY <1>1 DEF Hydrated, Until, Run
  <2>5. Until(c) # Never => Run(c) >= Threshold /\ Run(c) # 0
    <3>1. Threshold \in Nat \ {0}
      BY DEF RoutingAssumption
    <3>2. QED
      BY <2>1, <2>3, <3>1 DEF Tripped
  <2>6. circuit'[c].failures = Run(c)
    BY <2>4, <2>5
  <2>7. Never' = Never
    BY DEF Never
  <2>8. Counted(t, c)'
    BY <1>2, <2>1, <2>6 DEF Counted, Doing
  <2>9. Tripped(t, c)'
    BY <1>2, <2>1, <2>2, <2>5, <2>6, <2>7 DEF Tripped, Doing
  <2>10. Dated(t, c)'
    BY <2>1, <2>2 DEF Dated
  <2>11. QED
    BY <2>8, <2>9, <2>10
<1>5. LogInv(t)'
  BY <1>1, <1>4 DEF LogInv
<1>6. QED
  BY <1>3, <1>5

LEMMA TickLog ==
    ASSUME IInv, RoutingAssumption, NEW t \in Threads, Free(t), LogInv(t), Tick
    PROVE  Free(t)' /\ LogInv(t)'
<1>1. /\ clock' = clock + 1 /\ clock < MaxTime /\ clock \in Nat /\ MaxTime \in Nat
      /\ UNCHANGED <<circuit, health, req>> /\ Never' = Never
  BY DEF Tick, memory, IInv, TypeOK, RoutingAssumption, Never
<1>2. Free(t)'
  BY <1>1 DEF Free
<1>3. ASSUME Len(health) < Window, NEW c \in Names
      PROVE  Counted(t, c)' /\ Tripped(t, c)' /\ Dated(t, c)'
  <2>1. Counted(t, c) /\ Tripped(t, c) /\ Dated(t, c)
    BY <1>3 DEF LogInv
  <2>2. Run(c)' = Run(c) /\ Until(c)' = Until(c) /\ (Opened(c)' <=> Opened(c))
    BY <1>1, SameLog
  <2>3. Until(c) \in Nat
    BY HydratedNear DEF Hydrated, Until, Circuits
  <2>4. Counted(t, c)'
    BY <1>1, <2>1, <2>2 DEF Counted, Doing
  <2>5. Tripped(t, c)'
    BY <1>1, <2>1, <2>2 DEF Tripped, Doing, Scanned
  <2>6. Dated(t, c)'
    BY <1>1, <2>1, <2>2, <2>3 DEF Dated, Doing
  <2>7. QED
    BY <2>4, <2>5, <2>6
<1>4. LogInv(t)'
  BY <1>1, <1>3 DEF LogInv
<1>5. QED
  BY <1>2, <1>4

-----------------------------------------------------------------------------
LEMMA LogInitially ==
    ASSUME RoutingAssumption, NEW t \in Threads, Init
    PROVE  Free(t) /\ LogInv(t)
<1>1. /\ clock = 0 /\ health = <<>> /\ req[t] = NoRequest /\ MaxTime \in Nat
      /\ \A c \in Names : circuit[c] = Closed
  BY DEF Init, RoutingAssumption
<1>2. req[t].pc = "idle" /\ ToSet(req[t].todo) = {} /\ IsInjective(req[t].todo)
  BY <1>1 DEF NoRequest, ToSet, IsInjective
<1>3. Free(t)
  BY <1>1, <1>2 DEF Free, Tried, Scans
<1>4. ASSUME NEW c \in Names PROVE Counted(t, c) /\ Tripped(t, c) /\ Dated(t, c)
  <2>1. EventsOf(c) = {}
    BY <1>1 DEF EventsOf
  <2>2. Run(c) = 0 /\ Until(c) = Never /\ ~Opened(c)
    <3>1. FailureRun({}) = Cardinality({})
      BY DEF FailureRun
    <3>2. OpenUntil({}) = Never
      BY DEF OpenUntil
    <3>3. QED
      BY <2>1, <3>1, <3>2, FS_EmptySet DEF Run, Until, Opened
  <2>3. circuit[c].failures = 0 /\ circuit[c].until = Never
    BY <1>1 DEF Closed
  <2>4. QED
    BY <1>2, <2>2, <2>3 DEF Counted, Tripped, Dated, Doing
<1>5. QED
  BY <1>3, <1>4 DEF LogInv

LEMMA LogStays ==
    ASSUME IInv, RoutingAssumption, NEW t, Threads = {t}, Free(t), LogInv(t), [Next]_vars
    PROVE  Free(t)' /\ LogInv(t)'
<1> USE t \in Threads
<1>1. CASE UNCHANGED vars
  <2>1. UNCHANGED <<clock, circuit, health, req>>
    BY <1>1 DEF vars, memory
  <2>2. Free(t)'
    BY <2>1 DEF Free, Never
  <2>3. ASSUME NEW c PROVE (Counted(t, c) /\ Tripped(t, c) /\ Dated(t, c)) =>
                           (Counted(t, c) /\ Tripped(t, c) /\ Dated(t, c))'
    <3>1. Run(c)' = Run(c) /\ Until(c)' = Until(c) /\ (Opened(c)' <=> Opened(c))
      BY <2>1, SameLog
    <3>2. QED
      BY <2>1, <3>1 DEF Counted, Tripped, Dated, Doing, Scanned, Never
  <2>4. LogInv(t)'
    BY <2>1, <2>3 DEF LogInv
  <2>5. QED
    BY <2>2, <2>4
<1>2. CASE Arrive(t) \/ Work(t) \/ Abandon(t)
  <2>1. CASE Arrive(t) \/ Leave(t)
    BY <2>1, FreshLog
  <2>2. CASE CheckClosed(t)
    BY <2>2, CheckClosedLog
  <2>3. CASE Compare(t)
    BY <2>3, CompareLog
  <2>4. CASE LogSkip(t)
    BY <2>4, LogSkipLog
  <2>5. CASE OrderCandidates(t)
    BY <2>5, OrderLog
  <2>6. CASE CallNext(t)
    BY <2>6, CallNextLog
  <2>7. CASE \/ CallRetried(t) \/ CallFails(t) \/ StreamDelta(t) \/ Abandon(t) \/ CallSucceeds(t)
             \/ Fallback(t) \/ NoFallback(t) \/ Credit(t)
    BY <2>7, RequestLog
  <2>8. CASE CloseCircuit(t) \/ LogSuccess(t)
    BY <2>8, AnswerLog
  <2>9. CASE CountFailure(t) \/ LogFailure(t) \/ Trip(t) \/ LogOpen(t)
    BY <2>9, FailureLog
  <2>10. QED
    BY <1>2, <2>1, <2>2, <2>3, <2>4, <2>5, <2>6, <2>7, <2>8, <2>9 DEF Work
<1>3. CASE Tick
  BY <1>3, TickLog
<1>4. CASE Restart
  BY <1>4, RestartLog
<1>5. QED
  BY <1>1, <1>2, <1>3, <1>4 DEF Next

\* With requests one at a time, and while the log has all its events, a circuit is
\* open only after the threshold's number of failures in a row, also in a process
\* that a crash in the middle of _record_failure brought up.
THEOREM OpensAfterFailures ==
    ASSUME RoutingAssumption, NEW CONSTANT t, Threads = {t}
    PROVE  Spec => [](Len(health) < Window => OpenAfterFailures)
<1>1. Init => IInv /\ Free(t) /\ LogInv(t)
  BY Initially, LogInitially
<1>2. IInv /\ Free(t) /\ LogInv(t) /\ [Next]_vars => (IInv /\ Free(t) /\ LogInv(t))'
  BY EveryStep, LogStays
<1>3. IInv /\ Free(t) /\ LogInv(t) => (Len(health) < Window => OpenAfterFailures)
  <2> SUFFICES ASSUME IInv, LogInv(t), Len(health) < Window PROVE OpenAfterFailures
    OBVIOUS
  <2>1. DOMAIN circuit = Names
    BY DEF IInv, TypeOK
  <2>2. QED
    BY <2>1 DEF LogInv, Tripped, OpenAfterFailures
<1>4. QED
  BY <1>1, <1>2, <1>3, PTL DEF Spec

\* Between two requests a new process would start with the failures and the open
\* circuits that this one knows: what record_failure and record_success keep in
\* memory and what hydration reads back are the same account.
THEOREM LogTellsAll ==
    ASSUME RoutingAssumption, NEW CONSTANT t, Threads = {t}
    PROVE  Spec => [](Len(health) < Window => LogAgrees)
<1>1. Init => IInv /\ Free(t) /\ LogInv(t)
  BY Initially, LogInitially
<1>2. IInv /\ Free(t) /\ LogInv(t) /\ [Next]_vars => (IInv /\ Free(t) /\ LogInv(t))'
  BY EveryStep, LogStays
<1>3. IInv /\ Free(t) /\ LogInv(t) => (Len(health) < Window => LogAgrees)
  <2> SUFFICES ASSUME IInv, LogInv(t), Len(health) < Window, req[t].pc = "idle", NEW c \in Names
               PROVE  /\ Hydrated(c).failures = circuit[c].failures
                      /\ (Hydrated(c).until # Never /\ clock < Hydrated(c).until) = Open(c)
    <3>1. ASSUME IInv PROVE DOMAIN circuit = Names /\ DOMAIN req = Threads
      BY <3>1 DEF IInv, TypeOK
    <3>2. QED
      BY <3>1 DEF LogAgrees
  <2>1. Counted(t, c) /\ Tripped(t, c) /\ Dated(t, c)
    BY DEF LogInv
  <2>2. \A phases \in SUBSET Between : ~Doing(t, phases, c)
    BY DEF Doing, Between
  <2>3. /\ Hydrated(c).until = Until(c)
        /\ Hydrated(c).failures = IF Until(c) # Never /\ Run(c) = 0 THEN 1 ELSE Run(c)
    BY DEF Hydrated, Until, Run
  <2>4. circuit[c].failures = Run(c)
    BY <2>1, <2>2 DEF Counted, Between
  <2>5. Until(c) # Never => Run(c) # 0
    <3>1. Until(c) # Never => Opened(c)
      BY DEF Until, OpenUntil, Opened
    <3>2. Threshold \in Nat \ {0}
      BY DEF RoutingAssumption
    <3>3. QED
      BY <2>1, <3>1, <3>2 DEF Tripped
  <2>6. Until(c) = circuit[c].until \/ (circuit[c].until = Never /\ Until(c) <= clock)
    BY <2>1, <2>2 DEF Dated, Between
  <2>7. Until(c) \in Nat /\ clock \in Nat /\ circuit[c].until \in Nat
    BY <2>3, HydratedNear, CircuitOf DEF Circuits
  <2>8. QED
    BY <2>3, <2>4, <2>5, <2>6, <2>7 DEF Open
<1>4. QED
  BY <1>1, <1>2, <1>3, PTL DEF Spec
=============================================================================
