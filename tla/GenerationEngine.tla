--------------------------- MODULE GenerationEngine ---------------------------
(***************************************************************************)
(* How a request for content is answered: from the learner's surplus       *)
(* questions, from the curriculum library, or by the model, whose draft is *)
(* verified and moderated before it is recorded, shared through the        *)
(* library and returned.  Threads answer requests concurrently and may die *)
(* anywhere.  New evidence expires what was generated ahead for a learner. *)
(*                                                                         *)
(* SurplusPractice has the surplus statement by statement; here taking and *)
(* keeping questions are single steps.                                     *)
(***************************************************************************)
EXTENDS Naturals, Sequences, FiniteSets, EnginePromises

CONSTANTS
    Threads, Learners,
    Topics,              \* what a request asks for: one selection key each
    VerificationRetries, \* verification_retry_attempts
    MaxSurplus,          \* questions of one draft beyond the first
    MaxRows,             \* bounds: recorded contents, and evidence on one
    MaxEvidence          \* topic of one learner

EngineAssumption ==
    /\ VerificationRetries \in Nat /\ MaxSurplus \in Nat
    /\ MaxRows \in Nat /\ MaxEvidence \in Nat

Slots == 0 .. MaxSurplus - 1

\* The delivery mode is part of a content's key; a fallback changes it.
Modes == {"planned", "static_fallback"}

\* What a draft can be: verification would fail a wrong one, moderation would
\* flag an unsafe one.  They are replaced by a review and by a safe reset.
Drafts == {"good", "wrong", "unsafe"}

VARIABLES
    library,  \* curriculum_content_library: for each topic and mode an entry
    surplus,  \* generated_content: the rows "surplus:<learner>:<session>:<n>"
    evidence  \* how often evidence on a topic of a learner has come in

vars == <<library, history, surplus, evidence, thread>>

Nothing == [id |-> 0]

Idle == [pc |-> "idle"]

Init ==
    /\ library = [k \in Topics |-> [m \in Modes |-> Nothing]]
    /\ history = <<>>
    /\ surplus = [l \in Learners |-> [s \in Slots |-> Nothing]]
    /\ evidence = [l \in Learners |-> [k \in Topics |-> 0]]
    /\ thread = [t \in Threads |-> Idle]

At(t, pc) == thread[t].pc = pc
Become(t, state) == thread' = [thread EXCEPT ![t] = state]
Go(t, pc) == Become(t, [thread[t] EXCEPT !.pc = pc])
Continue(t, pc, what) == Become(t, [thread[t] EXCEPT !.pc = pc, !.what = what])
Answer(t, from, content) ==
    Become(t, [thread[t] EXCEPT !.pc = "answered", !.from = from, !.answer = content])

\* What this request makes of a draft or of a library entry.
Made(t, id, what) ==
    LET r == thread[t]
    IN  [id |-> id, learner |-> r.learner, topic |-> r.topic, warm |-> r.warm,
         what |-> what, basis |-> r.since]

Running == {t \in Threads : thread[t].pc \notin {"idle", "answered"}}

-----------------------------------------------------------------------------
\* A learner's request, or one that warms what may be asked next; the profile
\* is read now.  Warming requests carry no prompt that could be flagged.
Request(t) ==
    /\ At(t, "idle") /\ Len(history) + Cardinality(Running) < MaxRows
    /\ \E l \in Learners, k \in Topics, warm, flagged \in BOOLEAN :
         /\ warm => ~flagged
         /\ Become(t, [pc |-> "pop", learner |-> l, topic |-> k, warm |-> warm,
                       flagged |-> flagged, since |-> evidence[l][k], attempts |-> 0,
                       what |-> "good", extra |-> <<>>, from |-> "", answer |-> Nothing])
    /\ UNCHANGED <<library, history, surplus, evidence>>

\* _promote_surplus stops at the first slot that is not fresh.
Promoted(slots) ==
    LET Moves(s) == \A i \in 1 .. s + 1 : i \in Slots /\ slots[i] # Nothing
        Moved(s) == \A i \in 1 .. s : slots[i] # Nothing
    IN  [s \in Slots |-> IF Moves(s) THEN slots[s + 1]
                         ELSE IF Moved(s) THEN Nothing ELSE slots[s]]

PopSurplus(t) ==
    /\ At(t, "pop") /\ MaxSurplus > 0
    /\ LET slots == surplus[thread[t].learner]
       IN  /\ slots[0] # Nothing
           /\ surplus' = [surplus EXCEPT ![thread[t].learner] = Promoted(slots)]
           /\ Answer(t, "surplus", slots[0])
    /\ UNCHANGED <<library, history, evidence>>

NoSurplus(t) ==
    /\ At(t, "pop")
    /\ MaxSurplus > 0 => surplus[thread[t].learner][0] = Nothing
    /\ Go(t, "lookup")
    /\ UNCHANGED <<library, history, surplus, evidence>>

\* The entries with the selection key; their scores weigh quality, outcomes and
\* age, so that any of them can come first.
Candidates(k) == {library[k][m] : m \in Modes} \ {Nothing}

\* Mutant: the template's row is returned whoever it belongs to.
HitOwnUnchecked(t) ==
    /\ At(t, "lookup")
    /\ \E entry \in Candidates(thread[t].topic) : Answer(t, "library", history[entry.id])
    /\ UNCHANGED <<library, history, surplus, evidence>>

\* An entry this learner's own request made: the row itself is returned,
\* whether it has expired or not.
HitOwn(t) ==
    /\ At(t, "lookup")
    /\ \E entry \in Candidates(thread[t].topic) :
         /\ history[entry.id].learner = thread[t].learner
         /\ Answer(t, "library", history[entry.id])
    /\ UNCHANGED <<library, history, surplus, evidence>>

\* An entry made for another learner is copied and recorded as this one's.
HitOther(t) ==
    /\ At(t, "lookup")
    /\ \E entry \in Candidates(thread[t].topic) :
         /\ history[entry.id].learner # thread[t].learner
         /\ Continue(t, "copy", entry.what)
    /\ UNCHANGED <<library, history, surplus, evidence>>

StoreCopy(t) ==
    /\ At(t, "copy")
    /\ LET copy == Made(t, Len(history) + 1, thread[t].what)
       IN  history' = Append(history, copy) /\ Answer(t, "library", copy)
    /\ UNCHANGED <<library, surplus, evidence>>

Miss(t) ==
    /\ At(t, "lookup") /\ Candidates(thread[t].topic) = {}
    /\ Go(t, "moderateRequest")
    /\ UNCHANGED <<library, history, surplus, evidence>>

-----------------------------------------------------------------------------
ModerateRequest(t) ==
    /\ At(t, "moderateRequest")
    /\ IF thread[t].flagged THEN Continue(t, "record", "reset") ELSE Go(t, "generate")
    /\ UNCHANGED <<library, history, surplus, evidence>>

\* The questions after the first are split off before anything is verified.
Generate(t) ==
    /\ At(t, "generate")
    /\ \E what \in Drafts, n \in 0 .. MaxSurplus : \E extra \in [1 .. n -> Drafts] :
         Become(t, [thread[t] EXCEPT !.pc = "verify", !.what = what, !.extra = extra,
                                     !.attempts = 1])
    /\ UNCHANGED <<library, history, surplus, evidence>>

Verify(t) ==
    /\ At(t, "verify")
    /\ CASE thread[t].what # "wrong" -> Go(t, "moderate")
         [] thread[t].what = "wrong" /\ thread[t].attempts <= VerificationRetries ->
              Go(t, "regenerate")
         [] OTHER -> Continue(t, "moderate", "review")
    /\ UNCHANGED <<library, history, surplus, evidence>>

\* Mutant: the last draft the budget allows is not verified again.
RegenerateTrusted(t) ==
    /\ At(t, "regenerate")
    /\ \E what \in Drafts :
         Become(t, [thread[t] EXCEPT !.what = what, !.attempts = @ + 1,
                      !.pc = IF thread[t].attempts = VerificationRetries
                             THEN "moderate" ELSE "verify"])
    /\ UNCHANGED <<library, history, surplus, evidence>>

\* Only what is shown is replaced: the first draft's other questions stay.
Regenerate(t) ==
    /\ At(t, "regenerate")
    /\ \E what \in Drafts :
         Become(t, [thread[t] EXCEPT !.pc = "verify", !.what = what, !.attempts = @ + 1])
    /\ UNCHANGED <<library, history, surplus, evidence>>

ModerateBlocks(t) ==
    /\ At(t, "moderate")
    /\ IF thread[t].what = "unsafe" THEN Continue(t, "record", "reset") ELSE Go(t, "record")
    /\ UNCHANGED <<library, history, surplus, evidence>>

-----------------------------------------------------------------------------
(* _store_generated_content, _cache_surplus                                 *)

StoreHistory(t) ==
    /\ At(t, "record")
    /\ LET content == Made(t, Len(history) + 1, thread[t].what)
       IN  /\ history' = Append(history, content)
           /\ Become(t, [thread[t] EXCEPT !.pc = "share", !.answer = content])
    /\ UNCHANGED <<library, surplus, evidence>>

StoreLibrary(t) ==
    /\ At(t, "share")
    /\ LET content == thread[t].answer
           mode == IF content.what \in Fallbacks THEN "static_fallback" ELSE "planned"
       IN  library' = [library EXCEPT ![content.topic][mode] = content]
    /\ Go(t, "keep")
    /\ UNCHANGED <<history, surplus, evidence>>

\* Surplus questions are kept as warmed content.
CacheSurplus(t) ==
    /\ At(t, "keep")
    /\ LET r == thread[t]
           Kept(s) == [r.answer EXCEPT !.what = r.extra[s + 1], !.warm = TRUE]
       IN  surplus' = [surplus EXCEPT ![r.learner] =
                         [s \in Slots |-> IF s < Len(r.extra) THEN Kept(s) ELSE @[s]]]
    /\ Answer(t, "generation", thread[t].answer)
    /\ UNCHANGED <<library, history, evidence>>

Finish(t) ==
    /\ At(t, "answered")
    /\ Become(t, Idle)
    /\ UNCHANGED <<library, history, surplus, evidence>>

Crash(t) ==
    /\ t \in Running
    /\ Become(t, Idle)
    /\ UNCHANGED <<library, history, surplus, evidence>>

-----------------------------------------------------------------------------
\* expire_predictive_content.  It expires rows of generated_content only, and
\* of these only the surplus is ever read with its expiry date.
Evidence(l, k) ==
    /\ evidence[l][k] < MaxEvidence
    /\ evidence' = [evidence EXCEPT ![l][k] = @ + 1]
    /\ surplus' = [surplus EXCEPT ![l] = [s \in Slots |->
                     IF @[s] # Nothing /\ @[s].topic = k THEN Nothing ELSE @[s]]]
    /\ UNCHANGED <<library, history, thread>>

\* The time to live of a library entry is over.
Lapse(k, m) ==
    /\ library[k][m] # Nothing
    /\ library' = [library EXCEPT ![k][m] = Nothing]
    /\ UNCHANGED <<history, surplus, evidence, thread>>

Work(t) ==
    \/ PopSurplus(t) \/ NoSurplus(t)
    \/ HitOwn(t) \/ HitOther(t) \/ StoreCopy(t) \/ Miss(t)
    \/ ModerateRequest(t) \/ Generate(t) \/ Verify(t) \/ Regenerate(t) \/ ModerateBlocks(t)
    \/ StoreHistory(t) \/ StoreLibrary(t) \/ CacheSurplus(t)

Next ==
    \/ \E t \in Threads : Request(t) \/ Work(t) \/ Finish(t) \/ Crash(t)
    \/ \E l \in Learners, k \in Topics : Evidence(l, k)
    \/ \E k \in Topics, m \in Modes : Lapse(k, m)

Spec == Init /\ [][Next]_vars

-----------------------------------------------------------------------------
\* "A learner never places against an unverified item" (placement.py).
NeverUnverified ==
    \A t \in Threads : At(t, "answered") =>
        thread[t].answer.what \in {"good"} \cup Fallbacks

\* What was warmed for a learner does not answer a request that starts after
\* evidence on its topic (CHANGELOG: such entries "are expired").
AnswersFollowEvidence ==
    \A t \in Threads : At(t, "answered") =>
        LET content == thread[t].answer
        IN  (content.warm /\ content.topic = thread[t].topic)
              => content.basis >= thread[t].since

=============================================================================
