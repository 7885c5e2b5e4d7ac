------------------------------ MODULE Verdicts ------------------------------
(***************************************************************************)
(* What became of it: four trackers that look back in the audit log at a   *)
(* decision about progression, a finished remediation, a prediction of the *)
(* learner's state and an outcome held by the quality gate, weigh what     *)
(* came after, and append a verdict to the same log.  What was judged is   *)
(* known only from the verdicts the log still shows.                       *)
(*                                                                         *)
(* One learner, whose work names one knowledge component or none.          *)
(* Requests run at once; each reads the newest events, decides, and        *)
(* appends one event at a time, and it may die in between.  Mastery is in  *)
(* hundredths.                                                             *)
(***************************************************************************)
EXTENDS Integers, Sequences, SequencesExt, VerdictsPromises

CONSTANTS
    Decisions,    \* decisions about progression: action and mastery they were made at
    Observations, \* observations, with the mastery they leave
    Remediated,   \* TRUE when remediation sessions are completed
    Readings,     \* what a progression may find: outcomes in order of priority
    ListLimit,    \* ACTIVE_OUTCOME_LIMIT, ready and blocked outcomes that are listed
    DecisionDays, \* days a decision is looked back at
    SessionDays,  \* days a finished remediation is looked back at
    StallDays,    \* days without improvement that make a hold a bad one
    Threads,      \* request threads
    MaxEvents,    \* bound: events and completions
    MaxDays,      \* bound: where the days stop
    MaxDeaths     \* bound: requests that die

\* What the constants must be.
VerdictsAssumption ==
    /\ ListLimit \in Nat \ {0} /\ DecisionDays \in Nat /\ SessionDays \in Nat
    /\ StallDays \in Nat \ {0} /\ MaxEvents \in Nat /\ MaxDays \in Nat /\ MaxDeaths \in Nat
    /\ Remediated \in BOOLEAN

VARIABLES
    stamp,    \* the last time stamp: of an event or of a session's completion
    today,    \* the day
    finished, \* completed remediation sessions, in their order
    deaths    \* requests that died

vars == <<log, stamp, today, finished, request, deaths, given, settled>>

\* No mastery, no quality that the gate looks at, and no reference to an event.
Unknown == -1
Nothing == "nothing"
NoReference == 0
Idle == [pc |-> "idle"]

At(t, place) == request[t].pc = place

Init ==
    /\ log = <<>> /\ stamp = 0 /\ today = 0 /\ finished = <<>>
    /\ request = [t \in Threads |-> Idle]
    /\ deaths = 0 /\ given = <<>> /\ settled = FALSE

-----------------------------------------------------------------------------
(* What the log tells.                                                      *)

\* Those observations since that name the knowledge component.
TouchingSince(when) == {e \in Since(when) : e.payload.touches}

\* The elements of a sequence that are in a set, in their order.
Kept(s, S) ==
    LET kept[i \in 0..Len(s)] ==
            IF i = 0 THEN <<>>
            ELSE IF s[i] \in S THEN Append(kept[i - 1], s[i]) ELSE kept[i - 1]
    IN  kept[Len(s)]

\* Mutant: the verdicts do not say what they are about, as those of the gate.
JudgedUnknown(kind) == {}

Judged(kind) == {e.payload.of : e \in {v \in OfType("verdict") : v.payload.kind = kind}}

Verdict(kind, of, verdict) == [kind |-> kind, of |-> of, verdict |-> verdict]

\* Trackers list what is to be judged newest first.
Newest(list, due) == Reverse(Kept(list, due))

-----------------------------------------------------------------------------
(* Decisions about progression.                                             *)

HoldActions == {"hold_target", "hold_repair_target", "hold_bridge_target"}
MinObservations(action) == IF action = "attempt_transfer" THEN 1 ELSE 2

\* The mastery is unknown when the profile has none for the component.
DecisionVerdict(d, mastery, count) ==
    LET base == IF d.mastery = Unknown THEN 0 ELSE d.mastery
        enough == IF d.action \in HoldActions THEN 4 ELSE 3
    IN  IF count < MinObservations(d.action) \/ mastery = Unknown THEN "inconclusive"
        ELSE IF d.action = "attempt_transfer"
        THEN IF mastery >= 70 THEN "positive" ELSE IF mastery < 50 THEN "negative" ELSE "inconclusive"
        ELSE IF \/ d.action \in HoldActions /\ mastery >= 70
                \/ mastery > base + 5
        THEN "positive"
        ELSE IF count >= enough /\ mastery <= base THEN "negative" ELSE "inconclusive"

JudgedDecisions(mastery) ==
    LET due == Newest(log, {e \in OfType("decision") :
                              e.day >= today - DecisionDays /\ e.stamp \notin Judged("decision")})
    IN  [i \in DOMAIN due |->
            Verdict("decision", due[i].stamp,
                    DecisionVerdict(due[i].payload, mastery, Cardinality(TouchingSince(due[i].stamp))))]

-----------------------------------------------------------------------------
(* Finished remediation sessions, which a table of their own holds.         *)

SessionVerdict(mastery, seen) ==
    LET struggles == Cardinality({e \in seen : e.payload.struggle})
        many == 2 * struggles >= Cardinality(seen)
    IN  IF Cardinality(seen) < 2 \/ mastery = Unknown THEN "inconclusive"
        ELSE IF mastery >= 68 /\ ~many THEN "resolved"
        ELSE IF mastery < 50 \/ many THEN "unresolved" ELSE "inconclusive"

JudgedSessions(mastery) ==
    LET due == Newest(finished, {s \in Range(finished) :
                              s.day >= today - SessionDays /\ s.stamp \notin Judged("session")})
    IN  [i \in DOMAIN due |->
            Verdict("session", due[i].stamp, SessionVerdict(mastery, TouchingSince(due[i].stamp)))]

-----------------------------------------------------------------------------
(* Predictions: the signal an observation was recorded with.                *)

\* Of count observations, completed ones; the mastery now less the mastery of
\* the work before the prediction, when both are known.
PredictionVerdict(signal, completed, count, known, delta) ==
    LET share(n) == 100 * completed >= n * count
        below(n) == known /\ delta < n
        atLeast(n) == known /\ delta >= n
    IN  CASE signal = "productive_struggle" ->
                IF share(55) THEN "positive" ELSE IF below(-5) THEN "negative" ELSE "inconclusive"
          [] signal = "overload" ->
                IF ~share(50) \/ below(-3) THEN "positive"
                ELSE IF share(65) THEN "negative" ELSE "inconclusive"
          [] signal = "disengagement" ->
                IF ~share(45) THEN "positive" ELSE IF share(60) THEN "negative" ELSE "inconclusive"
          [] signal = "support_dependence" ->
                IF share(70) /\ ~atLeast(5) THEN "positive"
                ELSE IF atLeast(8) THEN "negative" ELSE "inconclusive"

\* Mutant: two observations are not enough.
JudgeableLate(p) == p.payload.signal # "steady" /\ Cardinality(Since(p.stamp)) > 2

Judgeable(p) == p.payload.signal # "steady" /\ Cardinality(Since(p.stamp)) >= 2

JudgedPredictions(mastery) ==
    LET due == Kept(log, {p \in OfType("observe") :
                              p.stamp \notin Judged("prediction") /\ Judgeable(p)})
        completed(p) == Cardinality({e \in Since(p.stamp) : e.payload.completed})
        known(p) == p.payload.touches /\ mastery # Unknown
        delta(p) == IF known(p) THEN mastery - p.payload.recent ELSE 0
    IN  [i \in DOMAIN due |->
            LET p == due[i]
            IN  Verdict("prediction", p.stamp,
                        PredictionVerdict(p.payload.signal, completed(p), Cardinality(Since(p.stamp)),
                                          known(p), delta(p)))]

-----------------------------------------------------------------------------
(* Outcomes of the curriculum and the quality gate.                         *)

GateSignals == {"support_dependent", "fragile"}

\* What the route looks at of a progression: mastered outcomes are not among
\* it, and the first one that is ready is there twice.
Listed(reading) ==
    LET in(state) == Kept(reading, {o \in Range(reading) : o.state = state})
        first(seq, n) == SubSeq(seq, 1, Min({n, Len(seq)}))
    IN  first(in("ready"), ListLimit) \o first(in("blocked"), ListLimit)
        \o first(in("active"), 1) \o first(in("ready"), 1)

\* The last state that is recorded of an outcome.
LastRecorded(outcome) ==
    LET recorded == {e \in OfType("transition") : e.payload.outcome = outcome}
        last == CHOOSE e \in recorded : \A f \in recorded : f.stamp <= e.stamp
    IN  IF recorded = {} THEN [state |-> "unseen", quality |-> Nothing] ELSE last.payload

Transitions(reading) ==
    LET listed == Listed(reading)
        changed == Kept(listed, {o \in Range(listed) :
                                    \/ o.state # LastRecorded(o.outcome).state
                                    \/ o.quality # LastRecorded(o.outcome).quality})
    IN  [i \in DOMAIN changed |->
            LET o == changed[i]
            IN  [outcome |-> o.outcome, state |-> o.state, quality |-> o.quality, ratio |-> o.ratio,
                 gated |-> {o.quality, LastRecorded(o.outcome).quality} \cap GateSignals # {}]]

GateVerdict(hold, ratio, released) ==
    LET improvement == ratio - hold.payload.ratio
    IN  IF released \/ improvement >= 5 THEN "positive"
        ELSE IF today - hold.day >= StallDays THEN "negative" ELSE "inconclusive"

\* Holds made a day ago or earlier, newest first.
JudgedHolds(reading) ==
    LET listed == Listed(reading)
        now(outcome) == LET there == {i \in DOMAIN listed : listed[i].outcome = outcome}
                        IN  IF there = {} THEN 0 ELSE listed[Max(there)].ratio
        gated == {e \in OfType("transition") : e.payload.gated}
        released == {e.payload.outcome : e \in {x \in gated : x.payload.state = "mastered"}}
        due == Newest(log, {e \in gated : /\ e.payload.state \in {"ready", "active"}
                                          /\ today - e.day >= 1 /\ e.stamp \notin Judged("hold")})
    IN  [i \in DOMAIN due |->
            LET outcome == due[i].payload.outcome
            IN  Verdict("hold", due[i].stamp,
                        GateVerdict(due[i], now(outcome), outcome \in released))]

-----------------------------------------------------------------------------
(* Requests.                                                                *)

\* append: the event gets the next time stamp.  The gate's verdicts are
\* written without what they are about.
AppendEvent(type, payload) ==
    /\ stamp < MaxEvents
    /\ stamp' = stamp + 1
    /\ log' = LET written == IF type = "verdict" /\ payload.kind = "hold"
                             THEN [payload EXCEPT !.of = NoReference] ELSE payload
              IN  Append(log, [type |-> type, payload |-> written, stamp |-> stamp + 1, day |-> today])
    /\ given' = IF type = "verdict" THEN Append(given, payload) ELSE given

\* Content was generated on a decision about progression.
Generate(t) ==
    /\ At(t, "idle")
    /\ \E d \in Decisions : AppendEvent("decision", d)
    /\ UNCHANGED <<today, finished, request, deaths, settled>>

\* The last step of a remediation session was completed.
CompleteSession(t) ==
    /\ At(t, "idle") /\ Remediated /\ stamp < MaxEvents
    /\ stamp' = stamp + 1
    /\ finished' = Append(finished, [stamp |-> stamp + 1, day |-> today])
    /\ UNCHANGED <<log, today, request, deaths, given, settled>>

\* An observation is stored, and the profile it leaves is written.
BeginObservation(t) ==
    /\ At(t, "idle")
    /\ \E o \in Observations : request' = [request EXCEPT ![t] = [pc |-> "decisions", input |-> o]]
    /\ UNCHANGED <<log, stamp, today, finished, deaths, given, settled>>

\* The learner's progression is opened: its outcomes are worked out.
BeginReading(t) ==
    /\ At(t, "idle")
    /\ \E r \in Readings : request' = [request EXCEPT ![t] = [pc |-> "transitions", input |-> r]]
    /\ UNCHANGED <<log, stamp, today, finished, deaths, given, settled>>

\* What is to be appended is worked out from the log of this moment.
Judge(t, place, type, found, next) ==
    /\ At(t, place)
    /\ request' = [request EXCEPT ![t] =
                    IF found # <<>>
                    THEN [pc |-> "record", input |-> @.input, type |-> type, found |-> found,
                          next |-> next]
                    ELSE IF next = "idle" THEN Idle ELSE [pc |-> next, input |-> @.input]]
    /\ settled' = (settled \/ place = "predictions")
    /\ UNCHANGED <<log, stamp, today, finished, deaths, given>>

EvaluateDecisions(t) ==
    Judge(t, "decisions", "verdict", JudgedDecisions(request[t].input.mastery), "sessions")
EvaluateSessions(t) ==
    Judge(t, "sessions", "verdict", JudgedSessions(request[t].input.mastery), "observe")
EvaluatePredictions(t) ==
    Judge(t, "predictions", "verdict", JudgedPredictions(request[t].input.mastery), "idle")
DetectTransitions(t) ==
    Judge(t, "transitions", "transition", Transitions(request[t].input),
          IF Listed(request[t].input) = <<>> THEN "idle" ELSE "gates")
EvaluateHolds(t) ==
    Judge(t, "gates", "verdict", JudgedHolds(request[t].input), "idle")

\* The next of the events that were worked out is appended.
Record(t) ==
    LET left == Tail(request[t].found)
        next == request[t].next
    IN  /\ At(t, "record")
        /\ AppendEvent(request[t].type, Head(request[t].found))
        /\ request' = [request EXCEPT ![t] =
                        IF left # <<>> THEN [@ EXCEPT !.found = left]
                        ELSE IF next = "idle" THEN Idle ELSE [pc |-> next, input |-> @.input]]
        /\ UNCHANGED <<today, finished, deaths, settled>>

\* The observation itself is appended after the decisions and the sessions
\* were judged, and before the predictions are.
RecordObservation(t) ==
    /\ At(t, "observe")
    /\ AppendEvent("observe", request[t].input)
    /\ request' = [request EXCEPT ![t] = [@ EXCEPT !.pc = "predictions"]]
    /\ UNCHANGED <<today, finished, deaths, settled>>

\* A request dies: what it has appended stays.
Die(t) ==
    /\ ~At(t, "idle") /\ deaths < MaxDeaths
    /\ deaths' = deaths + 1
    /\ request' = [request EXCEPT ![t] = Idle]
    /\ settled' = FALSE
    /\ UNCHANGED <<log, stamp, today, finished, given>>

\* Events of all learners push the oldest one out of what is shown.  The
\* limits of the trackers, 500 to 800 events, count as one.
Forget ==
    /\ log # <<>>
    /\ log' = Tail(log)
    /\ UNCHANGED <<stamp, today, finished, request, deaths, given, settled>>

NextDay ==
    /\ today < MaxDays
    /\ today' = today + 1
    /\ UNCHANGED <<log, stamp, finished, request, deaths, given, settled>>

Step(t) ==
    \/ Generate(t) \/ CompleteSession(t)
    \/ BeginObservation(t) \/ EvaluateDecisions(t) \/ EvaluateSessions(t)
    \/ RecordObservation(t) \/ EvaluatePredictions(t)
    \/ BeginReading(t) \/ DetectTransitions(t) \/ EvaluateHolds(t)
    \/ Record(t) \/ Die(t)

Next ==
    \/ \E t \in Threads : Step(t)
    \/ Forget \/ NextDay

Spec == Init /\ [][Next]_vars

-----------------------------------------------------------------------------
\* A decision that enough observations followed, all of which left the learner
\* above 0.70, is not written off as inconclusive: what the tracker's minimum of
\* observations is for.
DecisionsAreWeighed ==
    \A d \in OfType("decision") :
        LET seen == TouchingSince(d.stamp)
        IN  /\ Cardinality(seen) >= MinObservations(d.payload.action)
            /\ \A e \in seen : e.payload.mastery # Unknown /\ e.payload.mastery >= 70
            => \A i \in DOMAIN given :
                    given[i].kind = "decision" /\ given[i].of = d.stamp => given[i].verdict = "positive"
=============================================================================
