--------------------------- MODULE SurplusPractice ---------------------------
(***************************************************************************)
(* The surplus cache of one learner's session.  A generated response with  *)
(* several practice questions shows the first and stores the others in     *)
(* numbered slots of the generated-content table; the next request pops    *)
(* slot 0 and moves the other slots down.  Every statement commits by      *)
(* itself, so every statement is a step, and a thread may die between any  *)
(* two.  New evidence about the learner expires what is in the slots.      *)
(***************************************************************************)
EXTENDS SequencesExt, SurplusPromises

CONSTANTS
    Threads,
    MaxSurplus,   \* questions of one response beyond the first
    MaxBatches,   \* bounds: generated responses, evidence, deaths of a thread,
    MaxEvidence,
    MaxCrashes

\* What the constants must be.
SurplusAssumption ==
    /\ MaxSurplus \in Nat /\ MaxBatches \in Nat
    /\ MaxEvidence \in Nat /\ MaxCrashes \in Nat

Slots == 0 .. MaxSurplus - 1
Batches == 1 .. MaxBatches
Items == [batch : Batches, index : 0 .. MaxSurplus]

VARIABLES
    slot,     \* the rows with the keys "surplus:<learner>:<session>:<n>"
    lapsed,   \* the batches whose time to live is over
    evidence, \* how many pieces of evidence have expired what they must
    thread,   \* what each request thread is doing
    rows,     \* generation ids given out
    crashes

table == <<slot, rows>>
vars == <<slot, lapsed, grounds, evidence, served, thread, rows, crashes>>

NoItem == [batch |-> 0, index |-> 0]
NoRow == [id |-> 0, item |-> NoItem, live |-> FALSE]
Idle == [pc |-> "idle", row |-> NoRow, popped |-> NoItem, at |-> 0, size |-> 0,
         since |-> 0, ids |-> {}]

Fresh(row) == row.live /\ row.item.batch \notin lapsed

Init ==
    /\ slot = [s \in Slots |-> NoRow]
    /\ lapsed = {}
    /\ grounds = <<>>
    /\ evidence = 0
    /\ served = <<>>
    /\ thread = [t \in Threads |-> Idle]
    /\ rows = 0
    /\ crashes = 0

At(t, pc) == thread[t].pc = pc
Become(t, state) == thread' = [thread EXCEPT ![t] = state]

\* UPDATE ... WHERE generation_id = ?: nothing happens when the row is gone.
ExpireId(id) == slot' = [s \in Slots |-> IF slot[s].id = id
                                         THEN [slot[s] EXCEPT !.live = FALSE] ELSE slot[s]]
Upsert(s, item) ==
    /\ slot' = [slot EXCEPT ![s] = [id |-> rows + 1, item |-> item, live |-> TRUE]]
    /\ rows' = rows + 1

-----------------------------------------------------------------------------
(* A request of the learner: pop_surplus, and generation when it is empty.  *)

Request(t) ==
    /\ At(t, "idle")
    /\ Become(t, [Idle EXCEPT !.pc = "pop", !.since = evidence])
    /\ UNCHANGED <<table, lapsed, grounds, evidence, served, crashes>>

PopSelect(t) ==
    /\ At(t, "pop")
    /\ Become(t, IF MaxSurplus > 0 /\ Fresh(slot[0])
                 THEN [thread[t] EXCEPT !.pc = "expire", !.row = slot[0],
                                        !.popped = slot[0].item]
                 ELSE [thread[t] EXCEPT !.pc = "generate"])
    /\ UNCHANGED <<table, lapsed, grounds, evidence, served, crashes>>

PopExpire(t) ==
    /\ At(t, "expire")
    /\ ExpireId(thread[t].row.id)
    /\ Become(t, [thread[t] EXCEPT !.pc = "promote", !.at = 1])
    /\ UNCHANGED <<rows, lapsed, grounds, evidence, served, crashes>>

\* _promote_surplus: slot after slot, until one is not fresh.
PromoteSelect(t) ==
    /\ At(t, "promote")
    /\ thread[t].at \in Slots /\ Fresh(slot[thread[t].at])
    /\ Become(t, [thread[t] EXCEPT !.pc = "promoteExpire", !.row = slot[thread[t].at]])
    /\ UNCHANGED <<table, lapsed, grounds, evidence, served, crashes>>

\* Mutant: the slot that moves down is not expired where it was.
PromoteExpireKept(t) ==
    /\ At(t, "promoteExpire")
    /\ Become(t, [thread[t] EXCEPT !.pc = "promoteStore"])
    /\ UNCHANGED <<table, lapsed, grounds, evidence, served, crashes>>

PromoteExpire(t) ==
    /\ At(t, "promoteExpire")
    /\ ExpireId(thread[t].row.id)
    /\ Become(t, [thread[t] EXCEPT !.pc = "promoteStore"])
    /\ UNCHANGED <<rows, lapsed, grounds, evidence, served, crashes>>

\* Mutant: the copy is stored under its old number.
PromoteStoreInPlace(t) ==
    /\ At(t, "promoteStore")
    /\ Upsert(thread[t].at, thread[t].row.item)
    /\ Become(t, [thread[t] EXCEPT !.pc = "promote", !.at = @ + 1])
    /\ UNCHANGED <<lapsed, grounds, evidence, served, crashes>>

\* The copy keeps the expiry date that was read, whatever happened since.
PromoteStore(t) ==
    /\ At(t, "promoteStore")
    /\ Upsert(thread[t].at - 1, thread[t].row.item)
    /\ Become(t, [thread[t] EXCEPT !.pc = "promote", !.at = @ + 1])
    /\ UNCHANGED <<lapsed, grounds, evidence, served, crashes>>

Serve(item, since) == served' = Append(served, [item |-> item, since |-> since])

ServePopped(t) ==
    /\ At(t, "promote")
    /\ ~(thread[t].at \in Slots /\ Fresh(slot[thread[t].at]))
    /\ Serve(thread[t].popped, thread[t].since)
    /\ Become(t, Idle)
    /\ UNCHANGED <<table, lapsed, grounds, evidence, crashes>>

\* The model answers with some practice questions, the first to be shown.
Generate(t) ==
    /\ At(t, "generate") /\ Len(grounds) < MaxBatches
    /\ \E n \in 0 .. MaxSurplus :
         Become(t, [thread[t] EXCEPT !.pc = "fill", !.at = 1, !.size = n,
                      !.popped = [batch |-> Len(grounds) + 1, index |-> 0]])
    /\ grounds' = Append(grounds, thread[t].since)
    /\ UNCHANGED <<table, lapsed, evidence, served, crashes>>

\* cache_surplus: one upsert for each question left over.
Fill(t) ==
    /\ At(t, "fill") /\ thread[t].at <= thread[t].size
    /\ Upsert(thread[t].at - 1, [thread[t].popped EXCEPT !.index = thread[t].at])
    /\ Become(t, [thread[t] EXCEPT !.at = @ + 1])
    /\ UNCHANGED <<lapsed, grounds, evidence, served, crashes>>

ServeGenerated(t) ==
    /\ At(t, "fill") /\ thread[t].at > thread[t].size
    /\ Serve(thread[t].popped, thread[t].since)
    /\ Become(t, Idle)
    /\ UNCHANGED <<table, lapsed, grounds, evidence, crashes>>

-----------------------------------------------------------------------------
(* expire_predictive_content, for evidence on what the session practices.   *)

\* Mutant: only the question that would be next is expired.
EvidenceSelectFirst(t) ==
    /\ At(t, "idle") /\ evidence < MaxEvidence
    /\ Become(t, [Idle EXCEPT !.pc = "invalidate",
                              !.ids = {slot[s].id : s \in {s \in Slots : s = 0 /\ Fresh(slot[s])}}])
    /\ UNCHANGED <<table, lapsed, grounds, evidence, served, crashes>>

EvidenceSelect(t) ==
    /\ At(t, "idle") /\ evidence < MaxEvidence
    /\ Become(t, [Idle EXCEPT !.pc = "invalidate",
                              !.ids = {slot[s].id : s \in {s \in Slots : Fresh(slot[s])}}])
    /\ UNCHANGED <<table, lapsed, grounds, evidence, served, crashes>>

EvidenceUpdate(t) ==
    /\ At(t, "invalidate")
    /\ slot' = [s \in Slots |-> [slot[s] EXCEPT !.live = @ /\ slot[s].id \notin thread[t].ids]]
    /\ evidence' = evidence + 1
    /\ Become(t, Idle)
    /\ UNCHANGED <<rows, lapsed, grounds, served, crashes>>

\* All rows of a batch carry one expiry date, the promoted copies too.
Lapse ==
    /\ \E b \in DOMAIN grounds \ lapsed : lapsed' = lapsed \cup {b}
    /\ UNCHANGED <<table, grounds, evidence, served, thread, crashes>>

Crash(t) ==
    /\ ~At(t, "idle") /\ crashes < MaxCrashes
    /\ crashes' = crashes + 1
    /\ Become(t, Idle)
    /\ UNCHANGED <<table, lapsed, grounds, evidence, served>>

Step(t) ==
    \/ Request(t) \/ PopSelect(t) \/ PopExpire(t)
    \/ PromoteSelect(t) \/ PromoteExpire(t) \/ PromoteStore(t) \/ ServePopped(t)
    \/ Generate(t) \/ Fill(t) \/ ServeGenerated(t)
    \/ EvidenceSelect(t) \/ EvidenceUpdate(t)

Next == Lapse \/ \E t \in Threads : Step(t) \/ Crash(t)

Spec == Init /\ [][Next]_vars

-----------------------------------------------------------------------------
(* With one thread, and until it dies, the slots are a SurplusQueue: the    *)
(* fresh ones in order, a question on its way to the slot below included.   *)

InSlot(s) ==
    LET moving == {t \in Threads : At(t, "promoteStore") /\ thread[t].at = s}
        row == IF moving = {} THEN slot[s]
               ELSE [thread[CHOOSE t \in moving : TRUE].row EXCEPT !.live = TRUE]
    IN  IF Fresh(row) THEN <<row.item>> ELSE <<>>

Waiting == FlattenSeq([i \in 1 .. MaxSurplus |-> InSlot(i - 1)])

\* Popping takes effect when the row expires, not when the answer is returned.
Leaving ==
    LET out == {t \in Threads : thread[t].pc \in {"promote", "promoteExpire", "promoteStore"}}
    IN  IF out = {} THEN <<>> ELSE <<thread[CHOOSE t \in out : TRUE].popped>>
Shown == [i \in DOMAIN served |-> served[i].item] \o Leaving

Queue == INSTANCE SurplusQueue WITH Items <- Items, queue <- Waiting, taken <- Shown

\* Until a thread dies, the slots hand every question out at most once and in
\* order, whatever expires in between.
ImplementsQueue == Queue!QueueInit /\ [][crashes' = 0 => Queue!QueueNext]_<<Waiting, Shown>>
=============================================================================
