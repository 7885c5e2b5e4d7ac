------------------------------ MODULE Placement ------------------------------
(***************************************************************************)
(* Cold-start placement of one learner: a walk over the prerequisite graph *)
(* of the knowledge components (KCs), from the anchors of a grade band to  *)
(* the dependents of what is demonstrated and the prerequisites of what is *)
(* not, within a budget of questions.  For some KCs the generation engine  *)
(* makes no question.  The session is one row, read at the start of a call *)
(* and written back whole at its end; calls run on several threads (an     *)
(* answer sent twice) and may die anywhere.  All learners' calls share one *)
(* map of dependents, filled without a lock by those that find it empty    *)
(* and never again: a call may read it half filled, or older than the      *)
(* corpus.  (The fill appends in the order of the corpus, and one that     *)
(* lags behind another only repeats what is there: the map is a number.)   *)
(***************************************************************************)
EXTENDS Naturals, Sequences, SequencesExt, FiniteSetsExt, PlacementPromises

CONSTANTS
    Anchors,  \* the anchor KCs of the grade band, a list
    Profiles, \* the masteries (in percent) the learner may start with
    Imported, \* KCs published since an earlier learner's call filled the map
    Threads

\* What the constants must be.
PlacementAssumption ==
    /\ Corpus \in Seq(KCs) /\ IsInjective(Corpus)
    /\ Prerequisites \in [KCs -> Seq(KCs)]
    /\ \A k \in KCs : IsInjective(Prerequisites[k])
    /\ Anchors \in Seq(KCs) /\ Anchors # <<>> /\ IsInjective(Anchors)
    /\ QuestionBudget \in Nat \ {0}
    /\ Imported \subseteq KCs
    /\ Imported # {} => \E k \in KCs \ Imported : Prerequisites[k] # <<>>
    /\ \A m \in Profiles : \A k \in DOMAIN m : m[k] \in 0..100

VARIABLES
    thread, \* what each thread is doing, with its copy of the session
    mapped, \* _dependents_cache: how much of the corpus it was filled from,
    stale   \* and whether that was before the last import

vars == <<placed, mastery, skipped, missed, crossed, thread, mapped, stale>>

NoSession == [status |-> "none", queued |-> <<>>, probes |-> <<>>,
              demonstrated |-> {}, gap |-> {}]
NewSession == [NoSession EXCEPT !.status = "active", !.queued = Anchors]
Idle == [pc |-> "idle", doc |-> NoSession, seeded |-> <<>>]

Pending(doc) == doc.probes # <<>> /\ Last(doc.probes).correct = "pending"

Init ==
    /\ placed = NoSession
    /\ mastery \in Profiles
    /\ skipped = {} /\ missed = {}
    /\ crossed = FALSE
    /\ thread = [t \in Threads |-> Idle]
    /\ \/ mapped = 0 /\ stale = FALSE
       \/ mapped = Len(Corpus) /\ stale = (Imported # {})

At(t, pc) == thread[t].pc = pc
Become(t, pc, doc) == thread' = [thread EXCEPT ![t].pc = pc, ![t].doc = doc]

-----------------------------------------------------------------------------
\* One session is followed; when its first call dies, the next start is it.
Start(t) ==
    /\ placed.status = "none" /\ \A u \in Threads : At(u, "idle")
    /\ Become(t, "next", NewSession)
    /\ skipped' = {} /\ missed' = {}
    /\ UNCHANGED <<placed, mastery, crossed, mapped, stale>>

\* Mutant: the walk goes on with one KC only.
EnqueueOne(doc, list) ==
    LET new == ToSet(list) \ (Probed(doc) \cup ToSet(doc.queued))
    IN  IF new = {} THEN doc.queued ELSE <<CHOOSE k \in new : TRUE>> \o doc.queued

\* Each new KC is inserted at the front of the queue.
Enqueue(doc, list) ==
    LET queue[i \in 0..Len(list)] ==
            IF i = 0 THEN doc.queued
            ELSE IF list[i] \in Probed(doc) \cup ToSet(queue[i - 1]) THEN queue[i - 1]
            ELSE <<list[i]>> \o queue[i - 1]
    IN  queue[Len(list)]

\* The answer to the last question, and where it points.
Answered(doc, correct, near) ==
    LET probe == Last(doc.probes)
    IN  [doc EXCEPT !.probes = Front(@) \o <<[probe EXCEPT !.correct = correct]>>,
                    !.queued = Enqueue(doc, near),
                    !.demonstrated = IF correct = "yes" THEN @ \cup {probe.kc} ELSE @,
                    !.gap = IF correct = "no" THEN @ \cup {probe.kc} ELSE @]

GoOn(t, doc) ==
    Become(t, IF Len(doc.probes) >= QuestionBudget \/ doc.queued = <<>> THEN "complete" ELSE "next",
           doc)

Respond(t) ==
    /\ At(t, "idle") /\ placed.status = "active" /\ Pending(placed)
    /\ \/ Become(t, "look", placed) \* right
       \/ GoOn(t, Answered(placed, "no", Prerequisites[Last(placed.probes).kc]))
    /\ crossed' = (crossed \/ \E u \in Threads : ~At(u, "idle"))
    /\ UNCHANGED <<placed, mastery, skipped, missed, mapped, stale>>

-----------------------------------------------------------------------------
(* _dependents_of: filled if it is found empty, then read as it is.         *)

Listed(n) == {Corpus[i] : i \in 1..n} \ (IF stale THEN Imported ELSE {})

\* A component without prerequisites adds nothing: who finds no more fills the map
\* and reads it when all is there.
Readable(n) == n = Len(Corpus) \/ \E k \in Listed(n) : Prerequisites[k] # <<>>

\* By whichever call found the map empty: this learner's or another's.
Fill ==
    /\ mapped < Len(Corpus)
    /\ mapped' = mapped + 1
    /\ UNCHANGED <<placed, mastery, skipped, missed, crossed, thread, stale>>

DependentsIn(k, known) ==
    LET found[i \in 0..Len(Corpus)] ==
            IF i = 0 THEN <<>>
            ELSE IF k \in ToSet(Prerequisites[Corpus[i]]) /\ Corpus[i] \in known
                 THEN Append(found[i - 1], Corpus[i])
            ELSE found[i - 1]
    IN  found[Len(Corpus)]

LookUp(t) ==
    LET doc == thread[t].doc
        kc == Last(doc.probes).kc
    IN
    /\ At(t, "look") /\ Readable(mapped)
    /\ GoOn(t, Answered(doc, "yes", DependentsIn(kc, Listed(mapped))))
    /\ missed' = missed \cup (After({kc}) \ Listed(mapped))
    /\ UNCHANGED <<placed, mastery, skipped, crossed, mapped, stale>>

-----------------------------------------------------------------------------
(* _advance_to_next_item: KC after KC until a question can be made.         *)

\* The engine makes a question about the KC, or raises and the KC is skipped.
NextAsked(t) ==
    LET doc == thread[t].doc IN
    /\ At(t, "next") /\ doc.queued # <<>>
    /\ Become(t, "save",
              [doc EXCEPT !.queued = Tail(@),
                          !.probes = Append(@, [kc |-> Head(doc.queued),
                                                correct |-> "pending"])])
    /\ UNCHANGED <<placed, mastery, skipped, missed, crossed, mapped, stale>>

NextFailed(t) ==
    LET doc == thread[t].doc IN
    /\ At(t, "next") /\ doc.queued # <<>>
    /\ Become(t, "next", [doc EXCEPT !.queued = Tail(@)])
    /\ skipped' = skipped \cup {Head(doc.queued)}
    /\ UNCHANGED <<placed, mastery, missed, crossed, mapped, stale>>

NoneLeft(t) ==
    /\ At(t, "next") /\ thread[t].doc.queued = <<>>
    /\ Become(t, "complete", thread[t].doc)
    /\ UNCHANGED <<placed, mastery, skipped, missed, crossed, mapped, stale>>

-----------------------------------------------------------------------------
(* _complete: the profile is read, seeded, and written back whole.          *)

Known(m, ks) == DOMAIN m \cup ks
Raised(m, ks, v) ==
    [k \in Known(m, ks) |-> IF k \notin ks THEN m[k]
                            ELSE IF k \notin DOMAIN m \/ m[k] < v THEN v ELSE m[k]]
Lowered(m, ks, v) ==
    [k \in Known(m, ks) |-> IF k \notin ks THEN m[k]
                            ELSE IF k \notin DOMAIN m \/ m[k] > v THEN v ELSE m[k]]

\* Mutant: the estimates overwrite the evidence.
SeededOver(m, doc, known) ==
    LET up == Raised(Raised(m, doc.demonstrated, 70),
                     Before(doc.demonstrated), 62)
    IN  Lowered(Lowered(up, doc.gap, 30), After(doc.gap) \cap known, 38)

Seeded(m, doc, known) ==
    LET up == Raised(Raised(m, doc.demonstrated, 70),
                     Before(doc.demonstrated) \ doc.gap, 62)
    IN  Lowered(Lowered(up, doc.gap, 30),
                (After(doc.gap) \cap known) \ doc.demonstrated, 38)

\* The look-ups that follow the read find the map as it is, or further filled
\* (all of them alike: no property tells the estimates of two gaps apart).
SeedRead(t) ==
    /\ At(t, "complete")
    /\ \E n \in mapped..Len(Corpus) :
         /\ Readable(n)
         /\ thread' = [thread EXCEPT ![t].pc = "seed", ![t].doc.status = "completed",
                                     ![t].seeded = Seeded(mastery, thread[t].doc, Listed(n))]
    /\ UNCHANGED <<placed, mastery, skipped, missed, crossed, mapped, stale>>

SeedWrite(t) ==
    /\ At(t, "seed")
    /\ mastery' = thread[t].seeded
    /\ thread' = [thread EXCEPT ![t].pc = "save", ![t].seeded = <<>>]
    /\ UNCHANGED <<placed, skipped, missed, crossed, mapped, stale>>

Save(t) ==
    /\ At(t, "save")
    /\ placed' = thread[t].doc
    /\ Become(t, "idle", NoSession)
    /\ UNCHANGED <<mastery, skipped, missed, crossed, mapped, stale>>

Crash(t) ==
    /\ ~At(t, "idle")
    /\ thread' = [thread EXCEPT ![t] = Idle]
    /\ UNCHANGED <<placed, mastery, skipped, missed, crossed, mapped, stale>>

\* The process starts again, with an empty map.
Restart ==
    /\ thread' = [t \in Threads |-> Idle]
    /\ mapped' = 0 /\ stale' = FALSE
    /\ UNCHANGED <<placed, mastery, skipped, missed, crossed>>

Next ==
    \/ Fill \/ Restart
    \/ \E t \in Threads :
        \/ Start(t) \/ Respond(t) \/ LookUp(t)
        \/ NextAsked(t) \/ NextFailed(t) \/ NoneLeft(t)
        \/ SeedRead(t) \/ SeedWrite(t) \/ Save(t) \/ Crash(t)

Spec == Init /\ [][Next]_vars
==============================================================================
