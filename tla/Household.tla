----------------------------- MODULE Household ------------------------------
(***************************************************************************)
(* A household's overview of one learner.  Every look at it runs the       *)
(* autonomous teacher: the relationship row is read, brought up to date    *)
(* with what the learner does, saved whole, its notifications are emitted  *)
(* again under their dedupe keys, and a session may be suggested, unless a *)
(* request for the parent's approval blocks it.  What parents decide is    *)
(* written into the same row, followed by another look.  Parents look and  *)
(* decide at once, and a request may die between two statements.  Time is  *)
(* counted in days, longer than the minute a session may overlap a click.  *)
(***************************************************************************)
EXTENDS Integers, Sequences, SequencesExt, FiniteSetsExt, HouseholdPromises

CONSTANTS
    Summaries, \* what the learner's summary, plan and session may say
    Rollouts,  \* what preferences and rollout policy may switch on
    Quiet, Away,                \* days without a session: one is due, re-engage
    ApprovalLife, AutonomyLife, \* days until an approval request expires
    AcceptedLag, DeferredLag,   \* days until the parent is reminded of a suggestion
    SnoozeDays,
    MaxTime, MaxRequests, \* bounds: days, and what parents ask for
    Threads

\* What the constants must be.
HouseholdAssumption ==
    /\ Quiet \in Nat /\ Away \in Nat /\ SnoozeDays \in Nat \ {0}
    /\ ApprovalLife \in Nat \ {0} /\ AutonomyLife \in Nat \ {0}
    /\ Summaries \subseteq [mood : {"calm", "strained", "stalled"}, modality : STRING,
                            trajectory : Nat, session : BOOLEAN, good : BOOLEAN]
    /\ Rollouts \subseteq [approvals : BOOLEAN, suggestions : BOOLEAN, outbound : BOOLEAN]

VARIABLES
    notifications, \* ParentNotification rows: [status, until], by dedupe key
    thread,        \* what each request is doing
    today,
    lastEvent,     \* day of the learner's last activity
    issued,        \* the last approval id given out
    asked          \* what parents asked for, counted

histories == <<approved, lapsed, dismissed, asked, overlap>>
vars == <<row, notifications, thread, today, lastEvent, issued, suggested, shown, histories>>

Never == -1
None == [status |-> "none", until |-> Never]
NoSuggestion == [modality |-> "none", gated |-> FALSE]
NoRow == [exists |-> FALSE, last |-> Never, stalls |-> 0, episodes |-> 0, recoveries |-> 0,
          status |-> "pending", at |-> Never, until |-> Never,
          given |-> 0, accepted |-> 0, completed |-> 0, decided |-> 0, followed |-> 0,
          modalities |-> {"text"}, trajectory |-> 0, requests |-> <<>>, weekly |-> Never]
Idle == [pc |-> "idle", doc |-> NoRow, todo |-> <<>>, existing |-> None,
         suggestion |-> NoSuggestion]

Init ==
    /\ row = NoRow /\ notifications = <<>> /\ thread = [t \in Threads |-> Idle]
    /\ today = 0 /\ lastEvent = Never /\ issued = 0
    /\ suggested = NoSuggestion /\ shown = {}
    /\ approved = {} /\ lapsed = {} /\ dismissed = {} /\ asked = 0
    /\ overlap = FALSE

At(t, pc) == thread[t].pc = pc
Ask == asked < MaxRequests /\ asked' = asked + 1

-----------------------------------------------------------------------------
(* _plan_for_learner: the new row from the old one.  s.mood is calm,         *)
(* strained (a stuck loop or high frustration) or stalled (and no progress). *)

\* _active_approval_requests: pending ones whose day has come expire ...
Expired(requests) ==
    [i \in DOMAIN requests |->
        IF requests[i].status = "pending" /\ requests[i].expires <= today
        THEN [requests[i] EXCEPT !.status = "expired", !.decidedAt = today]
        ELSE requests[i]]

\* ... and approvals that a session came after are counted as followed, once.
Follows(r) == r.status = "approved" /\ lastEvent > r.decidedAt /\ ~r.followed

Noted(requests) ==
    [i \in DOMAIN requests |->
        IF Follows(requests[i]) THEN [requests[i] EXCEPT !.followed = TRUE] ELSE requests[i]]

Below(part, whole, percent) == whole <= 0 \/ 200 * part < (2 * percent - 1) * whole

Cadence(s, now) ==
    LET elapsed == today - lastEvent IN
    IF s.mood # "calm"
    THEN IF now.accepted >= 2 /\ Below(now.completed, now.accepted, 34)
         THEN "session_due" ELSE "check_in"
    ELSE IF lastEvent = Never THEN "session_due"
    ELSE IF elapsed >= Away
    THEN IF now.accepted >= 2 /\ Below(now.completed, now.given, 34)
         THEN "session_due" ELSE "reengage_now"
    ELSE IF elapsed >= Quiet
            /\ (now.accepted < 2 \/ s.good \/ ~Below(now.recoveries, now.episodes, 50))
    THEN "session_due" ELSE "watch"

\* _session_suggestion_state_for's mutant: an accepted suggestion stays accepted
\* after the session that completed it.
SuggestionKeeping(new, old) ==
    IF ~old.exists \/ old.at = Never \/ lastEvent <= old.at
    THEN new
    ELSE [new EXCEPT !.at = lastEvent, !.until = Never,
            !.completed = IF old.status = "accepted" THEN @ + 1 ELSE @]

\* A session after the parent's answer settles the suggestion.
Suggestion(new, old) ==
    IF old.exists /\ old.at # Never /\ lastEvent > old.at
    THEN [new EXCEPT !.status = "pending", !.until = Never, !.at = lastEvent,
            !.completed = IF old.status = "accepted" THEN @ + 1 ELSE @]
    ELSE IF old.status = "snoozed" /\ old.until # Never /\ old.until <= today
    THEN [new EXCEPT !.status = "pending", !.until = Never, !.at = today]
    ELSE new

\* _approval_candidates: what needs an approval, and how long it may be asked for.
Candidates(s, old, requests, cadence) ==
    LET revised == s.trajectory # old.trajectory
                   \/ \E i \in DOMAIN requests : requests[i].what = <<"trajectory", s.trajectory>>
    IN  (IF s.modality \notin old.modalities
         THEN <<[what |-> <<"modality", s.modality>>, life |-> ApprovalLife]>> ELSE <<>>)
        \o (IF old.exists /\ s.trajectory # 0 /\ revised
            THEN <<[what |-> <<"trajectory", s.trajectory>>, life |-> ApprovalLife]>> ELSE <<>>)
        \o (IF s.session /\ cadence \in {"check_in", "reengage_now"}
            THEN <<[what |-> <<cadence, s.trajectory>>, life |-> AutonomyLife]>> ELSE <<>>)

Asked(requests, what) == {i \in DOMAIN requests : requests[i].what = what}

LastAsked(requests, what) ==
    {i \in Asked(requests, what) : \A j \in Asked(requests, what) : j <= i}

\* Mutant: what was rejected does not block.
BlocksPending(requests, what) ==
    \A i \in LastAsked(requests, what) : requests[i].status = "pending"

\* _resolve_approval_requests: a new request blocks, and the last one that was
\* made for the same thing while it is pending or when it was rejected.  Approval
\* ids are given out in the order of the list.
Blocks(requests, what) ==
    \A i \in LastAsked(requests, what) : requests[i].status \in {"pending", "rejected"}

\* What was not asked for before is requested.
Resolved(requests, candidates) ==
    LET fresh == {i \in DOMAIN candidates : Asked(requests, candidates[i].what) = {}}
    IN  [id \in DOMAIN requests \cup {issued + i : i \in fresh} |->
            IF id \in DOMAIN requests THEN requests[id]
            ELSE [what |-> candidates[id - issued].what, status |-> "pending",
                  expires |-> today + candidates[id - issued].life,
                  decidedAt |-> Never, followed |-> FALSE]]

\* _adaptation_state_for, _stall_count and the weekly summary, of which the
\* bounds show the first.  Soft escalation is on.
Adapted(s, old, requests) ==
    LET stalled == s.mood = "stalled"
        followed == {i \in DOMAIN old.requests : Follows(Expired(old.requests)[i])}
    IN  [old EXCEPT
            !.exists = TRUE, !.last = lastEvent, !.trajectory = s.trajectory,
            !.requests = requests,
            !.followed = @ + Cardinality(followed),
            !.episodes = IF stalled /\ old.stalls = 0 THEN @ + 1 ELSE @,
            !.recoveries = IF ~stalled /\ old.stalls > 0 THEN @ + 1 ELSE @,
            !.stalls = IF ~stalled THEN 0
                       ELSE IF ~old.exists THEN 1
                       ELSE IF old.last = lastEvent THEN Max({1, @}) ELSE @ + 1,
            !.weekly = IF @ = Never THEN today ELSE @]

\* The rates of the decision trace, each declared to be at most 1.
Valid(doc) ==
    LET rate(part, whole) == whole <= 0 \/ part <= whole
    IN  /\ rate(doc.completed, doc.accepted) /\ rate(doc.completed, doc.given)
        /\ rate(doc.followed, doc.decided) /\ rate(doc.recoveries, doc.episodes)

\* _notifications_for: the dedupe keys.
Emitted(new, old) ==
    LET pending == {id \in DOMAIN new.requests : new.requests[id].status = "pending"}
        lag == IF new.status = "accepted" THEN AcceptedLag ELSE DeferredLag
    IN  (IF old.weekly = Never THEN <<<<"weekly", today>>>> ELSE <<>>)
        \o (IF new.stalls >= 2 THEN <<<<"stall", new.stalls>>>> ELSE <<>>)
        \o [i \in DOMAIN SetToSortSeq(pending, <) |-> <<"approval", SetToSortSeq(pending, <)[i]>>]
        \o (IF /\ new.status \in {"accepted", "deferred"} /\ new.at # Never
               /\ lastEvent <= new.at /\ today - new.at >= lag
            THEN <<<<new.status, new.at>>>> ELSE <<>>)

\* _build_session_suggestion
Offer(s, new, cadence, blocked, rollout) ==
    IF \/ ~rollout.suggestions \/ blocked
       \/ new.status = "snoozed" /\ new.until > today
       \/ new.status \notin {"accepted", "deferred"} /\ cadence = "watch"
    THEN NoSuggestion
    ELSE [modality |-> s.modality, gated |-> rollout.approvals]

\* What one look at the household works out from the row that is there.
CadenceOf(s) == Cadence(s, Adapted(s, row, Expired(row.requests)))

CandidatesOf(s, rollout) ==
    IF rollout.approvals THEN Candidates(s, row, Expired(row.requests), CadenceOf(s)) ELSE <<>>

PlannedRow(s, rollout) ==
    Suggestion(Adapted(s, row, Resolved(Noted(Expired(row.requests)), CandidatesOf(s, rollout))),
               row)

Stopped(s, rollout) ==
    \E i \in DOMAIN CandidatesOf(s, rollout) :
        Blocks(Noted(Expired(row.requests)), CandidatesOf(s, rollout)[i].what)

Planning(s, rollout) ==
    [Idle EXCEPT !.pc = "save", !.doc = PlannedRow(s, rollout),
        !.todo = IF rollout.outbound THEN Emitted(PlannedRow(s, rollout), row) ELSE <<>>,
        !.suggestion = Offer(s, PlannedRow(s, rollout), CadenceOf(s), Stopped(s, rollout), rollout)]

\* A trace that cannot be built ends the request: nothing is saved.
Overview(t) ==
    \E s \in Summaries, rollout \in Rollouts :
        LET current == Expired(row.requests)
            new == PlannedRow(s, rollout)
        IN  /\ \/ At(t, "idle") /\ Ask
               \/ At(t, "overview") /\ UNCHANGED asked
            /\ thread' = [thread EXCEPT ![t] =
                            IF ~Valid(new) THEN Idle ELSE Planning(s, rollout)]
            /\ issued' = Max({issued} \cup DOMAIN new.requests)
            /\ lapsed' = lapsed \cup {current[id].what : id \in
                                        {id \in DOMAIN current : current[id].status = "expired"}}
            /\ overlap' = (overlap \/ \E u \in Threads \ {t} : ~At(u, "idle"))
            /\ UNCHANGED <<row, notifications, today, lastEvent, suggested, shown,
                           approved, dismissed>>

Save(t) ==
    /\ At(t, "save")
    /\ row' = thread[t].doc
    /\ thread' = [thread EXCEPT ![t].pc = "notify", ![t].doc = NoRow]
    /\ UNCHANGED <<notifications, today, lastEvent, issued, suggested, shown, histories>>

-----------------------------------------------------------------------------
(* The notifications.                                                       *)

Unread == [status |-> "unread", until |-> Never]
Known(key) == key \in DOMAIN notifications
Put(key, n) == [k \in DOMAIN notifications \cup {key} |-> IF k = key THEN n ELSE notifications[k]]

\* Mutant: what is emitted replaces what is there.
UpsertedFresh(old, new) == new

\* ParentNotificationStore.upsert: an unread one keeps the status that is there,
\* but brings its own date.
Upserted(old, new) ==
    IF old # None /\ new.status = "unread" THEN [new EXCEPT !.status = old.status] ELSE new

\* The row with the dedupe key is looked up ...
NotifyRead(t) ==
    LET key == Head(thread[t].todo) IN
    /\ At(t, "notify") /\ thread[t].todo # <<>>
    /\ thread' = [thread EXCEPT ![t].pc = "upsert",
                    ![t].existing = IF Known(key) THEN notifications[key] ELSE None]
    /\ UNCHANGED <<row, notifications, today, lastEvent, issued, suggested, shown, histories>>

\* ... and written.  Another new row with that key is an error.
NotifyWrite(t) ==
    LET me == thread[t]
        key == Head(me.todo)
        twice == me.existing = None /\ Known(key)
    IN  /\ At(t, "upsert")
        /\ notifications' = IF twice THEN notifications ELSE Put(key, Upserted(me.existing, Unread))
        /\ thread' = [thread EXCEPT ![t] =
             IF twice THEN Idle ELSE [me EXCEPT !.pc = "notify", !.todo = Tail(@)]]
        /\ UNCHANGED <<row, today, lastEvent, issued, suggested, shown, histories>>

\* _active_notifications: those whose snooze is over are put back, all others
\* are shown unless they are dismissed or snoozed.
List(t) ==
    LET over == {k \in DOMAIN notifications :
                    /\ notifications[k].status = "snoozed"
                    /\ notifications[k].until # Never /\ notifications[k].until <= today}
        listed == [k \in DOMAIN notifications |->
                    IF k \in over THEN Upserted(notifications[k], Unread) ELSE notifications[k]]
    IN  /\ At(t, "notify") /\ thread[t].todo = <<>>
        /\ notifications' = listed
        /\ shown' = {k \in DOMAIN listed :
                        /\ listed[k].status # "dismissed"
                        /\ ~(listed[k].status = "snoozed" /\ listed[k].until > today)}
        /\ suggested' = thread[t].suggestion
        /\ thread' = [thread EXCEPT ![t] = Idle]
        /\ UNCHANGED <<row, today, lastEvent, issued, histories>>

\* mark_notification_read, dismiss_notification and snooze_notification.
Act(key, n) ==
    /\ Ask
    /\ notifications' = Put(key, n)
    /\ dismissed' = IF n.status = "dismissed" THEN dismissed \cup {key} ELSE dismissed \ {key}

HandleNotification(t) ==
    \E key \in DOMAIN notifications, status \in {"read", "dismissed", "snoozed"} :
        /\ At(t, "idle")
        /\ Act(key, [status |-> status,
                     until |-> IF status = "snoozed" THEN today + SnoozeDays ELSE Never])
        /\ thread' = [thread EXCEPT ![t].pc = "overview"]
        /\ shown' = {}
        /\ overlap' = (overlap \/ \E u \in Threads \ {t} : ~At(u, "idle"))
        /\ UNCHANGED <<row, today, lastEvent, issued, suggested, approved, lapsed>>

-----------------------------------------------------------------------------
(* What parents decide: the row is read, and written back whole.            *)

\* _update_session_suggestion_state
Answered(old, status) ==
    LET counts == old.status # status \/ old.at = Never
    IN  [old EXCEPT !.status = status, !.at = today,
            !.until = IF status = "snoozed" THEN today + SnoozeDays ELSE Never,
            !.given = IF counts THEN @ + 1 ELSE @,
            !.accepted = IF counts /\ status = "accepted" THEN @ + 1 ELSE @]

\* _update_parent_approval: decided or not, the request is decided anew.
Decided(old, id, status) ==
    LET its == old.requests[id]
    IN  [old EXCEPT
            !.requests = [@ EXCEPT ![id] = [its EXCEPT !.status = status, !.decidedAt = today]],
            !.decided = IF its.status = "pending" THEN @ + 1 ELSE @,
            !.modalities = IF status = "approved" /\ its.what[1] = "modality"
                           THEN @ \cup {its.what[2]} ELSE @]

Decide(t, new) ==
    /\ At(t, "idle") /\ row.exists /\ Ask
    /\ thread' = [thread EXCEPT ![t] = [Idle EXCEPT !.pc = "decide", !.doc = new]]
    /\ overlap' = (overlap \/ \E u \in Threads \ {t} : ~At(u, "idle"))
    /\ UNCHANGED <<row, notifications, today, lastEvent, issued, suggested, shown,
                   approved, lapsed, dismissed>>

AnswerSuggestion(t) ==
    \E status \in {"accepted", "deferred", "snoozed"} : Decide(t, Answered(row, status))

\* A parent's page may show a request that has been decided or has expired.
AnswerApproval(t) ==
    \E id \in DOMAIN row.requests, status \in {"approved", "rejected"} :
        Decide(t, Decided(row, id, status))

WriteDecision(t) ==
    /\ At(t, "decide")
    /\ row' = thread[t].doc
    /\ approved' = approved \cup row'.modalities
    /\ thread' = [thread EXCEPT ![t] = [Idle EXCEPT !.pc = "overview"]]
    /\ UNCHANGED <<notifications, today, lastEvent, issued, suggested, shown,
                   lapsed, dismissed, asked, overlap>>

\* The process dies, or the request is given up.
Fail(t) ==
    /\ ~At(t, "idle")
    /\ thread' = [thread EXCEPT ![t] = Idle]
    /\ UNCHANGED <<row, notifications, today, lastEvent, issued, suggested, shown, histories>>

-----------------------------------------------------------------------------
\* The learner works.
Work ==
    /\ lastEvent < today
    /\ lastEvent' = today
    /\ UNCHANGED <<row, notifications, thread, today, issued, suggested, shown, histories>>

\* A request ends in the day it began.
Tomorrow ==
    /\ today < MaxTime /\ \A t \in Threads : At(t, "idle")
    /\ today' = today + 1
    /\ shown' = {} /\ suggested' = NoSuggestion
    /\ UNCHANGED <<row, notifications, thread, lastEvent, issued, histories>>

Next ==
    \/ Work \/ Tomorrow
    \/ \E t \in Threads :
         \/ Overview(t) \/ Save(t) \/ NotifyRead(t) \/ NotifyWrite(t) \/ List(t)
         \/ HandleNotification(t) \/ AnswerSuggestion(t) \/ AnswerApproval(t)
         \/ WriteDecision(t) \/ Fail(t)

Spec == Init /\ [][Next]_vars

=============================================================================
