---------------------------- MODULE Content_proofs ----------------------------
(***************************************************************************)
(* Proofs about generated content: GenerationEngine for any learners and   *)
(* topics, any number of requests at once, any budget of drafts and any    *)
(* surplus; and SurplusPractice for any number of questions in a response, *)
(* responses, pieces of evidence and deaths, while the requests of a       *)
(* session come one at a time.                                             *)
(***************************************************************************)
EXTENDS GenerationEngine, SurplusPromises, SequenceTheorems, TLAPS

CONSTANTS MaxBatches, MaxCrashes
VARIABLES slot, lapsed, rows, crashes
Extra == INSTANCE SurplusPractice

-----------------------------------------------------------------------------
(* GenerationEngine.                                                        *)

Checked == {"good"} \cup Fallbacks

\* A content; of whatever is kept as surplus, of a draft, or checked.
ContentOf(whats) ==
    [id : Nat, learner : Learners, topic : Topics, warm : BOOLEAN, what : whats, basis : Nat]
Content == ContentOf(Drafts \cup Fallbacks)

Pcs == {"pop", "lookup", "copy", "moderateRequest", "generate", "verify", "regenerate",
        "moderate", "record", "share", "keep", "answered"}
Request_ ==
    [pc : Pcs, learner : Learners, topic : Topics, warm : BOOLEAN, flagged : BOOLEAN,
     since : Nat, attempts : Nat, what : Drafts \cup Fallbacks, extra : Seq(Drafts),
     from : {"", "surplus", "library", "generation"}, answer : Content \cup {Nothing}]

TypeOK ==
    /\ library \in [Topics -> [Modes -> Content \cup {Nothing}]]
    /\ history \in Seq(Content)
    /\ surplus \in [Learners -> [Slots -> Content \cup {Nothing}]]
    /\ evidence \in [Learners -> [Topics -> Nat]]
    /\ thread \in [Threads -> Request_ \cup {Idle}]

\* A content that is on record under its own generation id.
OnRecord(content) ==
    content.id \in DOMAIN history /\ history[content.id] = content

\* Whatever is on record was checked, and is found under its id.
HistorySound ==
    \A i \in DOMAIN history : history[i].id = i /\ history[i].what \in Checked

\* The library points at rows that are still there.
LibrarySound ==
    \A k \in Topics, m \in Modes : library[k][m] # Nothing => OnRecord(library[k][m])

\* What a request holds at each point: a draft that is to be moderated has been
\* verified, what is to be recorded has passed both, and what is shared, kept or
\* answered is a row of this request's learner.
Underway(t) ==
    /\ At(t, "moderate") => thread[t].what # "wrong"
    /\ thread[t].pc \in {"record", "copy"} => thread[t].what \in Checked
    /\ \/ thread[t].pc \in {"share", "keep"}
       \/ Answered(t, {"generation", "library"})
       => /\ thread[t].answer \in Content /\ OnRecord(thread[t].answer)
          /\ thread[t].answer.learner = thread[t].learner

IInv == TypeOK /\ HistorySound /\ LibrarySound /\ (\A t \in Threads : Underway(t))

LEMMA IdleIsNoRequest == Idle \notin Request_ /\ Idle.pc = "idle"
<1>1. Idle.pc = "idle"
  BY DEF Idle
<1>2. \A r \in Request_ : r.pc # "idle"
  BY DEF Request_, Pcs
<1>3. QED
  BY <1>1, <1>2

LEMMA InitIInv == EngineAssumption /\ Init => IInv
<1> SUFFICES ASSUME EngineAssumption, Init PROVE IInv
  OBVIOUS
<1>1. TypeOK
  BY DEF Init, TypeOK
<1>2. HistorySound /\ LibrarySound
  BY DEF Init, HistorySound, LibrarySound
<1>3. \A t \in Threads : Underway(t)
  BY IdleIsNoRequest DEF Init, Underway, Answered, At
<1>4. QED
  BY <1>1, <1>2, <1>3 DEF IInv

-----------------------------------------------------------------------------
(* A request some fields of which are given new values.                     *)

Gone(r, pc) == [r EXCEPT !.pc = pc]
Continued(r, pc, what) == [r EXCEPT !.pc = pc, !.what = what]
AnsweredWith(r, from, content) ==
    [r EXCEPT !.pc = "answered", !.from = from, !.answer = content]
Drafted(r, what, extra) ==
    [r EXCEPT !.pc = "verify", !.what = what, !.extra = extra, !.attempts = 1]
Redrafted(r, what, attempts) ==
    [r EXCEPT !.pc = "verify", !.what = what, !.attempts = attempts]
Stored(r, content) == [r EXCEPT !.pc = "share", !.answer = content]

LEMMA GoneFields ==
    ASSUME NEW r \in Request_, NEW pc \in Pcs
    PROVE  /\ Gone(r, pc) \in Request_ /\ Gone(r, pc).pc = pc
           /\ Gone(r, pc).what = r.what /\ Gone(r, pc).answer = r.answer
           /\ Gone(r, pc).learner = r.learner
  BY DEF Gone, Request_

LEMMA ContinuedFields ==
    ASSUME NEW r \in Request_, NEW pc \in Pcs, NEW what \in Drafts \cup Fallbacks
    PROVE  /\ Continued(r, pc, what) \in Request_ /\ Continued(r, pc, what).pc = pc
           /\ Continued(r, pc, what).what = what
  BY DEF Continued, Request_

LEMMA AnsweredFields ==
    ASSUME NEW r \in Request_, NEW from \in {"surplus", "library", "generation"},
           NEW content \in Content \cup {Nothing}
    PROVE  /\ AnsweredWith(r, from, content) \in Request_
           /\ AnsweredWith(r, from, content).pc = "answered"
           /\ AnsweredWith(r, from, content).from = from
           /\ AnsweredWith(r, from, content).answer = content
           /\ AnsweredWith(r, from, content).learner = r.learner
  BY DEF AnsweredWith, Request_, Pcs

LEMMA DraftedFields ==
    ASSUME NEW r \in Request_, NEW what \in Drafts, NEW extra \in Seq(Drafts)
    PROVE  Drafted(r, what, extra) \in Request_ /\ Drafted(r, what, extra).pc = "verify"
  BY DEF Drafted, Request_, Pcs

LEMMA RedraftedFields ==
    ASSUME NEW r \in Request_, NEW what \in Drafts, NEW attempts \in Nat
    PROVE  /\ Redrafted(r, what, attempts) \in Request_
           /\ Redrafted(r, what, attempts).pc = "verify"
  BY DEF Redrafted, Request_, Pcs

LEMMA StoredFields ==
    ASSUME NEW r \in Request_, NEW content \in Content
    PROVE  /\ Stored(r, content) \in Request_ /\ Stored(r, content).pc = "share"
           /\ Stored(r, content).answer = content /\ Stored(r, content).learner = r.learner
  BY DEF Stored, Request_, Pcs

\* What a request makes of a draft or of a library entry is a content of its
\* learner's.
LEMMA MadeFields ==
    ASSUME NEW t \in Threads, thread[t] \in Request_,
           NEW id \in Nat, NEW what \in Drafts \cup Fallbacks
    PROVE  /\ Made(t, id, what) \in Content
           /\ Made(t, id, what).id = id /\ Made(t, id, what).what = what
           /\ Made(t, id, what).learner = thread[t].learner
  BY DEF Made, Content, ContentOf, Request_

-----------------------------------------------------------------------------
\* Rows are only added.
HistoryStays ==
    \A i \in DOMAIN history : i \in DOMAIN history' /\ history'[i] = history[i]

LEMMA RecordedStays ==
    ASSUME HistoryStays, NEW content, OnRecord(content)
    PROVE  OnRecord(content)'
  BY DEF HistoryStays, OnRecord

\* Only a content that was checked is added, under the next id.
LEMMA HistoryGrows ==
    ASSUME IInv, NEW content \in Content, content.id = Len(history) + 1,
           content.what \in Checked, history' = Append(history, content)
    PROVE  /\ history' \in Seq(Content) /\ HistorySound' /\ HistoryStays
           /\ OnRecord(content)'
<1> DEFINE S == Content
<1>1. history \in Seq(S) /\ content \in S
  BY DEF IInv, TypeOK
<1> HIDE DEF S
<1>2. /\ history' \in Seq(S) /\ Len(history') = Len(history) + 1
      /\ DOMAIN history = 1 .. Len(history) /\ DOMAIN history' = 1 .. Len(history')
      /\ \A i \in DOMAIN history : history'[i] = history[i]
      /\ history'[Len(history) + 1] = content /\ Len(history) \in Nat
  BY <1>1
<1>3. HistoryStays
  BY <1>2 DEF HistoryStays
<1>4. OnRecord(content)'
  BY <1>2 DEF OnRecord
<1>5. ASSUME NEW i \in DOMAIN history'
      PROVE  history'[i].id = i /\ history'[i].what \in Checked
  <2>1. CASE i \in DOMAIN history
    BY <2>1, <1>2 DEF IInv, HistorySound
  <2>2. CASE i = Len(history) + 1
    BY <2>2, <1>2
  <2>3. QED
    BY <2>1, <2>2, <1>2, <1>5
<1>6. HistorySound'
  BY <1>5 DEF HistorySound
<1>7. QED
  BY <1>2, <1>3, <1>4, <1>6 DEF S

\* What a request relies on stays while others go on.
LEMMA OthersUnderway ==
    ASSUME IInv, HistoryStays, NEW o \in Threads, thread'[o] = thread[o]
    PROVE  Underway(o)'
<1>1. Underway(o)
  BY DEF IInv
<1>2. OnRecord(thread[o].answer) => OnRecord(thread[o].answer)'
  BY DEF HistoryStays, OnRecord
<1>3. QED
  BY <1>1, <1>2 DEF Underway, Answered, At

\* A request goes on; the library stays and rows are at most added.
LEMMA RequestStep ==
    ASSUME IInv, NEW t \in Threads, NEW now \in Request_ \cup {Idle},
           thread' = [thread EXCEPT ![t] = now], Underway(t)',
           history' \in Seq(Content), HistorySound', HistoryStays,
           UNCHANGED library,
           surplus' \in [Learners -> [Slots -> Content \cup {Nothing}]], UNCHANGED evidence
    PROVE  IInv'
<1>1. TypeOK'
  BY DEF IInv, TypeOK
<1>2. \A o \in Threads : Underway(o)'
  <2>1. ASSUME NEW o \in Threads, o # t PROVE Underway(o)'
    <3>1. thread'[o] = thread[o]
      BY <2>1 DEF IInv, TypeOK
    <3>2. QED
      BY <3>1, OthersUnderway
  <2>2. QED
    BY <2>1
<1>3. LibrarySound'
  <2>1. ASSUME NEW k \in Topics, NEW m \in Modes, library[k][m] # Nothing
        PROVE  OnRecord(library[k][m])'
    BY <2>1, RecordedStays DEF IInv, LibrarySound
  <2>2. QED
    BY <2>1 DEF LibrarySound
<1>4. QED
  BY <1>1, <1>2, <1>3 DEF IInv

\* A request goes on and leaves the tables alone.
LEMMA QuietStep ==
    ASSUME IInv, NEW t \in Threads, NEW now \in Request_ \cup {Idle},
           thread' = [thread EXCEPT ![t] = now], Underway(t)',
           UNCHANGED <<library, history, surplus, evidence>>
    PROVE  IInv'
<1>1. HistoryStays /\ HistorySound' /\ history' \in Seq(Content)
  BY DEF HistoryStays, HistorySound, IInv, TypeOK
<1>2. surplus' \in [Learners -> [Slots -> Content \cup {Nothing}]]
  BY DEF IInv, TypeOK
<1>3. QED
  BY <1>1, <1>2, RequestStep

-----------------------------------------------------------------------------
LEMMA PromotedType ==
    ASSUME NEW slots \in [Slots -> Content \cup {Nothing}]
    PROVE  Promoted(slots) \in [Slots -> Content \cup {Nothing}]
<1>1. ASSUME NEW s \in Slots, \A i \in 1 .. s + 1 : i \in Slots /\ slots[i] # Nothing
      PROVE  slots[s + 1] \in Content \cup {Nothing}
  <2>1. s + 1 \in 1 .. s + 1
    BY DEF Slots
  <2>2. s + 1 \in Slots
    BY <1>1, <2>1
  <2>3. QED
    BY <2>2
<1>2. QED
  BY <1>1 DEF Promoted

LEMMA RequestOf ==
    ASSUME TypeOK, NEW t \in Threads, ~At(t, "idle")
    PROVE  thread[t] \in Request_
  BY IdleIsNoRequest DEF TypeOK, At

\* The answer comes from the surplus or the library.
LEMMA LookupSteps ==
    ASSUME EngineAssumption, IInv, NEW t \in Threads
    PROVE  /\ Request(t) => IInv'
           /\ PopSurplus(t) => IInv'
           /\ NoSurplus(t) => IInv'
           /\ HitOwn(t) => IInv'
           /\ HitOther(t) => IInv'
           /\ StoreCopy(t) => IInv'
           /\ Miss(t) => IInv'
<1>0. TypeOK /\ HistorySound /\ LibrarySound
  BY DEF IInv
<1>1. ASSUME Request(t) PROVE IInv'
  <2>1. PICK l \in Learners, k \in Topics, warm \in BOOLEAN, flagged \in BOOLEAN :
          Become(t, [pc |-> "pop", learner |-> l, topic |-> k, warm |-> warm,
                     flagged |-> flagged, since |-> evidence[l][k], attempts |-> 0,
                     what |-> "good", extra |-> <<>>, from |-> "", answer |-> Nothing])
    BY <1>1 DEF Request
  <2> DEFINE now == [pc |-> "pop", learner |-> l, topic |-> k, warm |-> warm,
                     flagged |-> flagged, since |-> evidence[l][k], attempts |-> 0,
                     what |-> "good", extra |-> <<>>, from |-> "", answer |-> Nothing]
  <2>2. evidence[l][k] \in Nat /\ <<>> \in Seq(Drafts)
    BY <1>0 DEF TypeOK
  <2>3. now \in Request_ /\ now.pc = "pop"
    BY <2>2 DEF Request_, Pcs, Drafts
  <2>4. thread' = [thread EXCEPT ![t] = now]
    BY <2>1 DEF Become
  <2> HIDE DEF now
  <2>5. thread'[t] = now
    BY <2>4, <1>0 DEF TypeOK
  <2>6. Underway(t)'
    BY <2>3, <2>5 DEF Underway, Answered, At
  <2>7. QED
    BY <1>1, <2>3, <2>4, <2>6, QuietStep DEF Request
<1>2. ASSUME PopSurplus(t) PROVE IInv'
  <2>1. thread[t] \in Request_ /\ thread[t].learner \in Learners
    BY <1>0, <1>2, RequestOf DEF PopSurplus, At, Request_
  <2> DEFINE slots == surplus[thread[t].learner]
  <2> DEFINE now == AnsweredWith(thread[t], "surplus", slots[0])
  <2>2. slots \in [Slots -> Content \cup {Nothing}] /\ 0 \in Slots
    BY <2>1, <1>0, <1>2 DEF TypeOK, PopSurplus, Slots, EngineAssumption
  <2>3. /\ now \in Request_ /\ now.pc = "answered" /\ now.from = "surplus"
        /\ thread' = [thread EXCEPT ![t] = now]
    <3>1. slots[0] \in Content \cup {Nothing}
      BY <2>2
    <3>2. thread' = [thread EXCEPT ![t] = now]
      BY <1>2 DEF PopSurplus, Answer, Become, AnsweredWith
    <3>3. QED
      BY <2>1, <3>1, <3>2, AnsweredFields
  <2>4. surplus' \in [Learners -> [Slots -> Content \cup {Nothing}]]
    <3>1. surplus' = [surplus EXCEPT ![thread[t].learner] = Promoted(slots)]
      BY <1>2 DEF PopSurplus
    <3>2. Promoted(slots) \in [Slots -> Content \cup {Nothing}]
      BY <2>2, PromotedType
    <3>3. QED
      BY <3>1, <3>2, <1>0 DEF TypeOK
  <2> HIDE DEF now, slots
  <2>5. thread'[t] = now
    BY <2>3, <1>0 DEF TypeOK
  <2>6. Underway(t)'
    BY <2>3, <2>5 DEF Underway, Answered, At
  <2>7. UNCHANGED <<library, history, evidence>>
    BY <1>2 DEF PopSurplus
  <2>8. HistoryStays /\ HistorySound' /\ history' \in Seq(Content)
    BY <2>7, <1>0 DEF HistoryStays, HistorySound, TypeOK
  <2>9. QED
    BY <2>3, <2>4, <2>6, <2>7, <2>8, RequestStep
<1>3. ASSUME NoSurplus(t) PROVE IInv'
  <2> DEFINE now == Gone(thread[t], "lookup")
  <2>1. /\ now \in Request_ /\ now.pc = "lookup"
        /\ thread' = [thread EXCEPT ![t] = now]
    <3>1. thread[t] \in Request_
      BY <1>0, <1>3, RequestOf DEF NoSurplus, At
    <3>2. thread' = [thread EXCEPT ![t] = now]
      BY <1>3 DEF NoSurplus, Go, Become, Gone
    <3>3. QED
      BY <3>1, <3>2, GoneFields DEF Pcs
  <2> HIDE DEF now
  <2>2. thread'[t] = now
    BY <2>1, <1>0 DEF TypeOK
  <2>3. Underway(t)'
    BY <2>1, <2>2 DEF Underway, Answered, At
  <2>4. QED
    BY <1>3, <2>1, <2>3, QuietStep DEF NoSurplus
<1>4. ASSUME HitOwn(t) PROVE IInv'
  <2>1. thread[t] \in Request_ /\ thread[t].topic \in Topics
    BY <1>0, <1>4, RequestOf DEF HitOwn, At, Request_
  <2>2. PICK entry \in Candidates(thread[t].topic) :
          /\ history[entry.id].learner = thread[t].learner
          /\ Answer(t, "library", history[entry.id])
    BY <1>4 DEF HitOwn
  <2>3. OnRecord(entry)
    BY <2>1, <2>2, <1>0 DEF Candidates, LibrarySound
  <2>4. entry \in Content /\ entry.id \in DOMAIN history /\ history[entry.id] = entry
    BY <2>3, <1>0 DEF OnRecord, TypeOK
  <2> DEFINE now == AnsweredWith(thread[t], "library", entry)
  <2>5. /\ now \in Request_ /\ now.pc = "answered" /\ now.from = "library"
        /\ now.answer = entry /\ now.learner = thread[t].learner
        /\ thread' = [thread EXCEPT ![t] = now]
    <3>1. thread' = [thread EXCEPT ![t] = now]
      BY <2>2, <2>4 DEF Answer, Become, AnsweredWith
    <3>2. QED
      BY <2>1, <2>4, <3>1, AnsweredFields
  <2> HIDE DEF now
  <2>6. thread'[t] = now /\ UNCHANGED <<library, history, surplus, evidence>>
    BY <1>4, <2>5, <1>0 DEF TypeOK, HitOwn
  <2>7. Underway(t)'
    BY <2>2, <2>4, <2>5, <2>6 DEF Underway, Answered, At, OnRecord
  <2>8. QED
    BY <2>5, <2>6, <2>7, QuietStep
<1>5. ASSUME HitOther(t) PROVE IInv'
  <2>1. thread[t] \in Request_ /\ thread[t].topic \in Topics
    BY <1>0, <1>5, RequestOf DEF HitOther, At, Request_
  <2>2. PICK entry \in Candidates(thread[t].topic) : Continue(t, "copy", entry.what)
    BY <1>5 DEF HitOther
  <2>3. OnRecord(entry)
    BY <2>1, <2>2, <1>0 DEF Candidates, LibrarySound
  <2>4. entry.what \in Checked
    BY <2>3, <1>0 DEF OnRecord, HistorySound
  <2> DEFINE now == Continued(thread[t], "copy", entry.what)
  <2>5. /\ now \in Request_ /\ now.pc = "copy" /\ now.what = entry.what
        /\ thread' = [thread EXCEPT ![t] = now]
    <3>1. thread' = [thread EXCEPT ![t] = now]
      BY <2>2 DEF Continue, Become, Continued
    <3>2. "copy" \in Pcs /\ entry.what \in Drafts \cup Fallbacks
      BY <2>4 DEF Pcs, Checked, Drafts
    <3>3. QED
      BY <2>1, <3>1, <3>2, ContinuedFields
  <2> HIDE DEF now
  <2>6. thread'[t] = now /\ UNCHANGED <<library, history, surplus, evidence>>
    BY <1>5, <2>5, <1>0 DEF TypeOK, HitOther
  <2>7. Underway(t)'
    BY <2>4, <2>5, <2>6 DEF Underway, Answered, At
  <2>8. QED
    BY <2>5, <2>6, <2>7, QuietStep
<1>6. ASSUME StoreCopy(t) PROVE IInv'
  <2>1. thread[t] \in Request_ /\ thread[t].what \in Checked
    BY <1>0, <1>6, RequestOf DEF StoreCopy, At, IInv, Underway
  <2>2. PICK copy : copy = Made(t, Len(history) + 1, thread[t].what)
    OBVIOUS
  <2>3. /\ copy \in Content /\ copy.id = Len(history) + 1 /\ copy.what \in Checked
        /\ copy.learner = thread[t].learner
    <3>1. Len(history) + 1 \in Nat /\ thread[t].what \in Drafts \cup Fallbacks
      BY <2>1, <1>0 DEF TypeOK, Checked, Drafts
    <3>2. QED
      BY <2>1, <2>2, <3>1, MadeFields
  <2>4. history' = Append(history, copy) /\ Answer(t, "library", copy)
    BY <1>6, <2>2 DEF StoreCopy
  <2>5. /\ history' \in Seq(Content) /\ HistorySound' /\ HistoryStays
        /\ OnRecord(copy)'
    BY <2>3, <2>4, HistoryGrows
  <2> DEFINE now == AnsweredWith(thread[t], "library", copy)
  <2>6. /\ now \in Request_ /\ now.pc = "answered" /\ now.answer = copy
        /\ now.learner = thread[t].learner
        /\ thread' = [thread EXCEPT ![t] = now]
    <3>1. thread' = [thread EXCEPT ![t] = now]
      BY <2>4 DEF Answer, Become, AnsweredWith
    <3>2. QED
      BY <2>1, <2>3, <3>1, AnsweredFields
  <2> HIDE DEF now
  <2>7. thread'[t] = now /\ UNCHANGED <<library, surplus, evidence>>
    BY <1>6, <2>6, <1>0 DEF TypeOK, StoreCopy
  <2>8. Underway(t)'
    BY <2>3, <2>5, <2>6, <2>7 DEF Underway, Answered, At, OnRecord
  <2>9. surplus' \in [Learners -> [Slots -> Content \cup {Nothing}]]
    BY <2>7, <1>0 DEF TypeOK
  <2>10. QED
    BY <2>5, <2>6, <2>7, <2>8, <2>9, RequestStep
<1>7. ASSUME Miss(t) PROVE IInv'
  <2> DEFINE now == Gone(thread[t], "moderateRequest")
  <2>1. /\ now \in Request_ /\ now.pc = "moderateRequest"
        /\ thread' = [thread EXCEPT ![t] = now]
    <3>1. thread[t] \in Request_
      BY <1>0, <1>7, RequestOf DEF Miss, At
    <3>2. thread' = [thread EXCEPT ![t] = now]
      BY <1>7 DEF Miss, Go, Become, Gone
    <3>3. QED
      BY <3>1, <3>2, GoneFields DEF Pcs
  <2> HIDE DEF now
  <2>2. thread'[t] = now
    BY <2>1, <1>0 DEF TypeOK
  <2>3. Underway(t)'
    BY <2>1, <2>2 DEF Underway, Answered, At
  <2>4. QED
    BY <1>7, <2>1, <2>3, QuietStep DEF Miss
<1>8. QED
  BY <1>1, <1>2, <1>3, <1>4, <1>5, <1>6, <1>7

\* What a step makes of its request has the request's new type and keeps its
\* promises; the tables stay.
LEMMA GoesOn ==
    ASSUME IInv, NEW t \in Threads, NEW now \in Request_ \cup {Idle},
           thread' = [thread EXCEPT ![t] = now],
           now.pc # "share" /\ now.pc # "keep" /\ now.pc # "answered",
           now.pc = "moderate" => now.what # "wrong",
           now.pc \in {"record", "copy"} => now.what \in Checked,
           UNCHANGED <<library, history, surplus, evidence>>
    PROVE  IInv'
<1>1. thread'[t] = now
  BY DEF IInv, TypeOK
<1>2. Underway(t)'
  BY <1>1 DEF Underway, Answered, At
<1>3. QED
  BY <1>2, QuietStep

\* The answer is made: moderated, drafted, verified and moderated again.
LEMMA GenerateSteps ==
    ASSUME IInv, NEW t \in Threads
    PROVE  /\ ModerateRequest(t) => IInv'
           /\ Generate(t) => IInv'
           /\ Verify(t) => IInv'
           /\ Regenerate(t) => IInv'
           /\ ModerateBlocks(t) => IInv'
<1>0. TypeOK
  BY DEF IInv
<1>1. ASSUME ModerateRequest(t) PROVE IInv'
  <2>1. thread[t] \in Request_ /\ UNCHANGED <<library, history, surplus, evidence>>
    BY <1>0, <1>1, RequestOf DEF ModerateRequest, At
  <2>2. CASE thread[t].flagged
    <3> DEFINE now == Continued(thread[t], "record", "reset")
    <3>1. thread' = [thread EXCEPT ![t] = now]
      BY <1>1, <2>2 DEF ModerateRequest, Continue, Become, Continued
    <3>2. now \in Request_ /\ now.pc = "record" /\ now.what = "reset"
      BY <2>1, ContinuedFields DEF Pcs, Fallbacks
    <3> HIDE DEF now
    <3>3. QED
      BY <2>1, <3>1, <3>2, GoesOn DEF Checked, Fallbacks
  <2>3. CASE ~thread[t].flagged
    <3> DEFINE now == Gone(thread[t], "generate")
    <3>1. thread' = [thread EXCEPT ![t] = now]
      BY <1>1, <2>3 DEF ModerateRequest, Go, Become, Gone
    <3>2. now \in Request_ /\ now.pc = "generate"
      BY <2>1, GoneFields DEF Pcs
    <3> HIDE DEF now
    <3>3. QED
      BY <2>1, <3>1, <3>2, GoesOn
  <2>4. QED
    BY <2>2, <2>3
<1>2. ASSUME Generate(t) PROVE IInv'
  <2>1. thread[t] \in Request_ /\ UNCHANGED <<library, history, surplus, evidence>>
    BY <1>0, <1>2, RequestOf DEF Generate, At
  <2>2. PICK what \in Drafts, n \in 0 .. MaxSurplus : \E extra \in [1 .. n -> Drafts] :
          Become(t, [thread[t] EXCEPT !.pc = "verify", !.what = what, !.extra = extra,
                                      !.attempts = 1])
    BY <1>2 DEF Generate
  <2>3. PICK extra \in [1 .. n -> Drafts] :
          Become(t, [thread[t] EXCEPT !.pc = "verify", !.what = what, !.extra = extra,
                                      !.attempts = 1])
    BY <2>2
  <2> DEFINE now == Drafted(thread[t], what, extra)
  <2>4. thread' = [thread EXCEPT ![t] = now]
    BY <2>3 DEF Become, Drafted
  <2>5. now \in Request_ /\ now.pc = "verify"
    <3>1. extra \in Seq(Drafts)
      BY <2>2, <2>3
    <3>2. QED
      BY <2>1, <3>1, DraftedFields
  <2> HIDE DEF now
  <2>6. QED
    BY <2>1, <2>4, <2>5, GoesOn
<1>3. ASSUME Verify(t) PROVE IInv'
  <2>1. thread[t] \in Request_ /\ UNCHANGED <<library, history, surplus, evidence>>
    BY <1>0, <1>3, RequestOf DEF Verify, At
  <2>2. CASE thread[t].what # "wrong"
    <3> DEFINE now == Gone(thread[t], "moderate")
    <3>1. thread' = [thread EXCEPT ![t] = now]
      BY <1>3, <2>2 DEF Verify, Go, Become, Gone
    <3>2. now \in Request_ /\ now.pc = "moderate" /\ now.what # "wrong"
      BY <2>1, <2>2, GoneFields DEF Pcs
    <3> HIDE DEF now
    <3>3. QED
      BY <2>1, <3>1, <3>2, GoesOn
  <2>3. CASE thread[t].what = "wrong" /\ thread[t].attempts <= VerificationRetries
    <3> DEFINE now == Gone(thread[t], "regenerate")
    <3>1. thread' = [thread EXCEPT ![t] = now]
      BY <1>3, <2>3 DEF Verify, Go, Become, Gone
    <3>2. now \in Request_ /\ now.pc = "regenerate"
      BY <2>1, GoneFields DEF Pcs
    <3> HIDE DEF now
    <3>3. QED
      BY <2>1, <3>1, <3>2, GoesOn
  <2>4. CASE thread[t].what = "wrong" /\ ~(thread[t].attempts <= VerificationRetries)
    <3> DEFINE now == Continued(thread[t], "moderate", "review")
    <3>1. thread' = [thread EXCEPT ![t] = now]
      BY <1>3, <2>4 DEF Verify, Continue, Become, Continued
    <3>2. now \in Request_ /\ now.pc = "moderate" /\ now.what = "review"
      BY <2>1, ContinuedFields DEF Pcs, Fallbacks
    <3> HIDE DEF now
    <3>3. QED
      BY <2>1, <3>1, <3>2, GoesOn
  <2>5. QED
    BY <2>2, <2>3, <2>4
<1>4. ASSUME Regenerate(t) PROVE IInv'
  <2>1. thread[t] \in Request_ /\ UNCHANGED <<library, history, surplus, evidence>>
    BY <1>0, <1>4, RequestOf DEF Regenerate, At
  <2>2. PICK what \in Drafts :
          Become(t, [thread[t] EXCEPT !.pc = "verify", !.what = what, !.attempts = @ + 1])
    BY <1>4 DEF Regenerate
  <2> DEFINE now == Redrafted(thread[t], what, thread[t].attempts + 1)
  <2>3. thread' = [thread EXCEPT ![t] = now]
    BY <2>2 DEF Become, Redrafted
  <2>4. now \in Request_ /\ now.pc = "verify"
    <3>1. thread[t].attempts \in Nat
      BY <2>1 DEF Request_
    <3>2. thread[t].attempts + 1 \in Nat
      BY <3>1
    <3>3. QED
      BY <2>1, <2>2, <3>2, RedraftedFields
  <2> HIDE DEF now
  <2>5. QED
    BY <2>1, <2>3, <2>4, GoesOn
<1>5. ASSUME ModerateBlocks(t) PROVE IInv'
  <2>1. /\ thread[t] \in Request_ /\ UNCHANGED <<library, history, surplus, evidence>>
        /\ thread[t].what # "wrong"
    BY <1>0, <1>5, RequestOf DEF ModerateBlocks, At, IInv, Underway
  <2>2. CASE thread[t].what = "unsafe"
    <3> DEFINE now == Continued(thread[t], "record", "reset")
    <3>1. thread' = [thread EXCEPT ![t] = now]
      BY <1>5, <2>2 DEF ModerateBlocks, Continue, Become, Continued
    <3>2. now \in Request_ /\ now.pc = "record" /\ now.what = "reset"
      BY <2>1, ContinuedFields DEF Pcs, Fallbacks
    <3> HIDE DEF now
    <3>3. QED
      BY <2>1, <3>1, <3>2, GoesOn DEF Checked, Fallbacks
  <2>3. CASE thread[t].what # "unsafe"
    <3> DEFINE now == Gone(thread[t], "record")
    <3>1. thread' = [thread EXCEPT ![t] = now]
      BY <1>5, <2>3 DEF ModerateBlocks, Go, Become, Gone
    <3>2. now \in Request_ /\ now.pc = "record" /\ now.what = thread[t].what
      BY <2>1, GoneFields DEF Pcs
    <3>3. thread[t].what \in Checked
      BY <2>1, <2>3 DEF Request_, Drafts, Fallbacks, Checked
    <3> HIDE DEF now
    <3>4. QED
      BY <2>1, <3>1, <3>2, <3>3, GoesOn
  <2>4. QED
    BY <2>2, <2>3
<1>6. QED
  BY <1>1, <1>2, <1>3, <1>4, <1>5

-----------------------------------------------------------------------------
\* What was made is recorded, shared and kept.
LEMMA StoreSteps ==
    ASSUME EngineAssumption, IInv, NEW t \in Threads
    PROVE  /\ StoreHistory(t) => IInv'
           /\ StoreLibrary(t) => IInv'
           /\ CacheSurplus(t) => IInv'
<1>0. TypeOK /\ HistorySound /\ LibrarySound /\ Underway(t)
  BY DEF IInv
<1>1. ASSUME StoreHistory(t) PROVE IInv'
  <2>1. thread[t] \in Request_ /\ thread[t].what \in Checked
    BY <1>0, <1>1, RequestOf DEF StoreHistory, At, Underway
  <2>2. PICK content : content = Made(t, Len(history) + 1, thread[t].what)
    OBVIOUS
  <2>3. /\ content \in Content /\ content.id = Len(history) + 1
        /\ content.what \in Checked /\ content.learner = thread[t].learner
    <3>1. Len(history) + 1 \in Nat /\ thread[t].what \in Drafts \cup Fallbacks
      BY <2>1, <1>0 DEF TypeOK, Checked, Drafts
    <3>2. QED
      BY <2>1, <2>2, <3>1, MadeFields
  <2> DEFINE now == Stored(thread[t], content)
  <2>4. history' = Append(history, content) /\ thread' = [thread EXCEPT ![t] = now]
    BY <1>1, <2>2 DEF StoreHistory, Become, Stored
  <2>5. /\ history' \in Seq(Content) /\ HistorySound' /\ HistoryStays
        /\ OnRecord(content)'
    BY <2>3, <2>4, HistoryGrows
  <2>6. /\ now \in Request_ /\ now.pc = "share" /\ now.answer = content
        /\ now.learner = thread[t].learner
    BY <2>1, <2>3, StoredFields
  <2> HIDE DEF now
  <2>7. thread'[t] = now /\ UNCHANGED <<library, surplus, evidence>>
    BY <1>1, <2>4, <1>0 DEF TypeOK, StoreHistory
  <2>8. Underway(t)'
    BY <2>3, <2>5, <2>6, <2>7 DEF Underway, Answered, At, OnRecord
  <2>9. surplus' \in [Learners -> [Slots -> Content \cup {Nothing}]]
    BY <2>7, <1>0 DEF TypeOK
  <2>10. QED
    BY <2>4, <2>5, <2>6, <2>7, <2>8, <2>9, RequestStep
<1>2. ASSUME StoreLibrary(t) PROVE IInv'
  <2>1. thread[t] \in Request_
    BY <1>0, <1>2, RequestOf DEF StoreLibrary, At
  <2>2. /\ thread[t].answer \in Content /\ OnRecord(thread[t].answer)
        /\ thread[t].answer.learner = thread[t].learner
    BY <1>0, <1>2 DEF StoreLibrary, At, Underway
  <2>3. PICK content : content = thread[t].answer
    OBVIOUS
  <2>4. PICK mode \in Modes : library' = [library EXCEPT ![content.topic][mode] = content]
    <3>1. library' = [library EXCEPT ![content.topic][
                        IF content.what \in Fallbacks THEN "static_fallback" ELSE "planned"]
                        = content]
      BY <1>2, <2>3 DEF StoreLibrary
    <3>2. CASE content.what \in Fallbacks
      BY <3>1, <3>2 DEF Modes
    <3>3. CASE content.what \notin Fallbacks
      BY <3>1, <3>3 DEF Modes
    <3>4. QED
      BY <3>2, <3>3
  <2>5. UNCHANGED <<history, surplus, evidence>>
    BY <1>2 DEF StoreLibrary
  <2>6. library' \in [Topics -> [Modes -> Content \cup {Nothing}]]
    BY <2>2, <2>3, <2>4, <1>0 DEF TypeOK
  <2>7. LibrarySound'
    <3>1. ASSUME NEW k \in Topics, NEW m \in Modes, library'[k][m] # Nothing
          PROVE  OnRecord(library[k][m])'
      <4>1. library'[k][m] = content \/ library'[k][m] = library[k][m]
        BY <2>4, <1>0 DEF TypeOK
      <4>2. OnRecord(content) /\ (library[k][m] # Nothing => OnRecord(library[k][m]))
        BY <2>2, <2>3, <1>0 DEF LibrarySound
      <4>3. QED
        BY <4>1, <4>2, <3>1, <2>5 DEF OnRecord
    <3>2. QED
      BY <3>1 DEF LibrarySound
  <2> DEFINE now == Gone(thread[t], "keep")
  <2>8. thread' = [thread EXCEPT ![t] = now]
    BY <1>2 DEF StoreLibrary, Go, Become, Gone
  <2>9. /\ now \in Request_ /\ now.pc = "keep" /\ now.answer = thread[t].answer
        /\ now.learner = thread[t].learner
    BY <2>1, GoneFields DEF Pcs
  <2> HIDE DEF now
  <2>10. /\ thread'[t] = now /\ \A o \in Threads \ {t} : thread'[o] = thread[o]
         /\ thread' \in [Threads -> Request_ \cup {Idle}]
    BY <2>8, <2>9, <1>0 DEF TypeOK
  <2>11. Underway(t)'
    BY <2>2, <2>5, <2>9, <2>10 DEF Underway, Answered, At, OnRecord
  <2>12. \A o \in Threads \ {t} : Underway(o)'
    <3>1. HistoryStays
      BY <2>5 DEF HistoryStays
    <3>2. QED
      BY <3>1, <2>10, OthersUnderway
  <2>13. TypeOK' /\ HistorySound'
    BY <2>5, <2>6, <2>10, <1>0 DEF TypeOK, HistorySound
  <2>14. QED
    BY <2>7, <2>11, <2>12, <2>13 DEF IInv
<1>3. ASSUME CacheSurplus(t) PROVE IInv'
  <2>1. thread[t] \in Request_
    BY <1>0, <1>3, RequestOf DEF CacheSurplus, At
  <2>2. /\ thread[t].answer \in Content /\ OnRecord(thread[t].answer)
        /\ thread[t].answer.learner = thread[t].learner
    BY <1>0, <1>3 DEF CacheSurplus, At, Underway
  <2> DEFINE Kept(s) == [thread[t].answer EXCEPT !.what = thread[t].extra[s + 1],
                                                 !.warm = TRUE]
             slots == surplus[thread[t].learner]
             kept == [s \in Slots |-> IF s < Len(thread[t].extra) THEN Kept(s) ELSE slots[s]]
             now == AnsweredWith(thread[t], "generation", thread[t].answer)
  <2>3. /\ surplus' = [surplus EXCEPT ![thread[t].learner] = kept]
        /\ thread' = [thread EXCEPT ![t] = now]
        /\ UNCHANGED <<library, history, evidence>>
    BY <1>3 DEF CacheSurplus, Answer, Become, AnsweredWith
  <2>4. kept \in [Slots -> Content \cup {Nothing}]
    <3>1. thread[t].extra \in Seq(Drafts) /\ thread[t].learner \in Learners
      BY <2>1 DEF Request_
    <3>2. slots \in [Slots -> Content \cup {Nothing}]
      BY <3>1, <1>0 DEF TypeOK
    <3>3. ASSUME NEW s \in Slots, s < Len(thread[t].extra) PROVE Kept(s) \in Content
      <4>1. s + 1 \in 1 .. Len(thread[t].extra)
        BY <3>1, <3>3 DEF Slots, EngineAssumption
      <4>2. thread[t].extra[s + 1] \in Drafts
        BY <3>1, <4>1
      <4>3. QED
        BY <2>2, <4>2 DEF Content, ContentOf
    <3> HIDE DEF Kept, slots
    <3>4. QED
      BY <3>2, <3>3
  <2>5. surplus' \in [Learners -> [Slots -> Content \cup {Nothing}]]
    BY <2>3, <2>4, <1>0 DEF TypeOK
  <2>6. /\ now \in Request_ /\ now.pc = "answered" /\ now.answer = thread[t].answer
        /\ now.learner = thread[t].learner
    BY <2>1, <2>2, AnsweredFields
  <2> HIDE DEF now, kept
  <2>7. thread'[t] = now
    BY <2>3, <1>0 DEF TypeOK
  <2>8. Underway(t)'
    BY <2>2, <2>3, <2>6, <2>7 DEF Underway, Answered, At, OnRecord
  <2>9. HistoryStays /\ HistorySound' /\ history' \in Seq(Content)
    BY <2>3, <1>0 DEF HistoryStays, HistorySound, TypeOK
  <2>10. QED
    BY <2>3, <2>5, <2>6, <2>8, <2>9, RequestStep
<1>4. QED
  BY <1>1, <1>2, <1>3

-----------------------------------------------------------------------------
\* Requests end or die, evidence comes in, entries of the library lapse.
LEMMA OtherSteps ==
    ASSUME IInv
    PROVE  /\ \A t \in Threads : Finish(t) \/ Crash(t) => IInv'
           /\ \A l \in Learners, k \in Topics : Evidence(l, k) => IInv'
           /\ \A k \in Topics, m \in Modes : Lapse(k, m) => IInv'
<1>0. TypeOK /\ HistorySound /\ LibrarySound
  BY DEF IInv
<1>1. ASSUME NEW t \in Threads, Finish(t) \/ Crash(t) PROVE IInv'
  <2>1. /\ thread' = [thread EXCEPT ![t] = Idle]
        /\ UNCHANGED <<library, history, surplus, evidence>>
    BY <1>1 DEF Finish, Crash, Become
  <2>2. QED
    BY <2>1, GoesOn, IdleIsNoRequest
<1>2. ASSUME NEW l \in Learners, NEW k \in Topics, Evidence(l, k) PROVE IInv'
  <2>1. UNCHANGED <<library, history, thread>>
    BY <1>2 DEF Evidence
  <2>2. evidence' \in [Learners -> [Topics -> Nat]]
    <3>1. evidence[l][k] + 1 \in Nat
      BY <1>0 DEF TypeOK
    <3>2. evidence' = [evidence EXCEPT ![l][k] = evidence[l][k] + 1]
      BY <1>2 DEF Evidence
    <3>3. QED
      BY <3>1, <3>2, <1>0 DEF TypeOK
  <2>3. surplus' \in [Learners -> [Slots -> Content \cup {Nothing}]]
    <3> DEFINE slots == surplus[l]
               left == [s \in Slots |-> IF slots[s] # Nothing /\ slots[s].topic = k
                                        THEN Nothing ELSE slots[s]]
    <3>1. surplus' = [surplus EXCEPT ![l] = left]
      BY <1>2 DEF Evidence
    <3>2. slots \in [Slots -> Content \cup {Nothing}]
      BY <1>0 DEF TypeOK
    <3> HIDE DEF slots
    <3>3. left \in [Slots -> Content \cup {Nothing}]
      BY <3>2
    <3> HIDE DEF left
    <3>4. QED
      BY <3>1, <3>3, <1>0 DEF TypeOK
  <2>4. HistoryStays
    BY <2>1 DEF HistoryStays
  <2>5. \A t \in Threads : Underway(t)'
    BY <2>1, <2>4, OthersUnderway
  <2>6. HistorySound' /\ LibrarySound'
    BY <2>1, <1>0 DEF HistorySound, LibrarySound, OnRecord
  <2>7. QED
    BY <2>1, <2>2, <2>3, <2>5, <2>6, <1>0 DEF IInv, TypeOK
<1>3. ASSUME NEW k \in Topics, NEW m \in Modes, Lapse(k, m) PROVE IInv'
  <2>1. /\ library' = [library EXCEPT ![k][m] = Nothing]
        /\ UNCHANGED <<history, surplus, evidence, thread>>
    BY <1>3 DEF Lapse
  <2>2. library' \in [Topics -> [Modes -> Content \cup {Nothing}]]
    BY <2>1, <1>0 DEF TypeOK
  <2>3. LibrarySound'
    <3>1. ASSUME NEW j \in Topics, NEW o \in Modes, library'[j][o] # Nothing
          PROVE  OnRecord(library[j][o])'
      <4>1. library'[j][o] = library[j][o]
        BY <2>1, <3>1, <1>0 DEF TypeOK
      <4>2. QED
        BY <4>1, <3>1, <2>1, <1>0 DEF LibrarySound, OnRecord
    <3>2. QED
      BY <3>1 DEF LibrarySound
  <2>4. HistoryStays
    BY <2>1 DEF HistoryStays
  <2>5. \A t \in Threads : Underway(t)'
    BY <2>1, <2>4, OthersUnderway
  <2>6. QED
    BY <2>1, <2>2, <2>3, <2>5, <1>0 DEF IInv, TypeOK, HistorySound
<1>4. QED
  BY <1>1, <1>2, <1>3

LEMMA NextIInv == EngineAssumption /\ IInv /\ [Next]_vars => IInv'
<1> SUFFICES ASSUME EngineAssumption, IInv, [Next]_vars PROVE IInv'
  OBVIOUS
<1>1. ASSUME NEW t \in Threads, Request(t) \/ Work(t) \/ Finish(t) \/ Crash(t) PROVE IInv'
  BY <1>1, LookupSteps, GenerateSteps, StoreSteps, OtherSteps DEF Work
<1>2. CASE UNCHANGED vars
  <2>1. HistoryStays
    BY <1>2 DEF HistoryStays, vars
  <2>2. \A t \in Threads : Underway(t)'
    BY <1>2, <2>1, OthersUnderway DEF vars
  <2>3. QED
    BY <1>2, <2>2 DEF IInv, TypeOK, HistorySound, LibrarySound, OnRecord, vars
<1>3. QED
  BY <1>1, <1>2, OtherSteps DEF Next

LEMMA IInvSuffices == IInv => CheckedBeforeServed /\ AnswerIsRecorded
<1> SUFFICES ASSUME IInv, NEW t \in Threads, Answered(t, {"generation", "library"})
             PROVE  /\ thread[t].answer.what \in {"good"} \cup Fallbacks
                    /\ thread[t].answer \in Recorded
                    /\ thread[t].answer.learner = thread[t].learner
  <2>1. ASSUME IInv PROVE DOMAIN thread = Threads
    BY <2>1 DEF IInv, TypeOK
  <2>2. QED
    BY <2>1 DEF CheckedBeforeServed, AnswerIsRecorded
<1>1. OnRecord(thread[t].answer) /\ thread[t].answer.learner = thread[t].learner
  BY DEF IInv, Underway
<1>2. thread[t].answer \in Recorded
  BY <1>1 DEF OnRecord, Recorded
<1>3. thread[t].answer.what \in Checked
  BY <1>1 DEF OnRecord, IInv, HistorySound
<1>4. QED
  BY <1>1, <1>2, <1>3 DEF Checked

\* Whatever the model drafts, however often a draft is made again and whoever
\* shares it, what is generated or found in the library has passed verification
\* and moderation, or is a fallback (content_workflow.py).
THEOREM ServedIsChecked ==
    ASSUME EngineAssumption
    PROVE  Spec => []CheckedBeforeServed
<1>1. Init => IInv
  BY InitIInv
<1>2. IInv /\ [Next]_vars => IInv'
  BY NextIInv
<1>3. IInv => CheckedBeforeServed
  BY IInvSuffices
<1>4. QED
  BY <1>1, <1>2, <1>3, PTL DEF Spec

\* What is generated or found in the library is on record as the learner's own
\* by the time it is returned: an observation that names it will find it, also
\* when the entry was made for somebody else, whatever died meanwhile.
THEOREM AnswersAreRecorded ==
    ASSUME EngineAssumption
    PROVE  Spec => []AnswerIsRecorded
<1>1. Init => IInv
  BY InitIInv
<1>2. IInv /\ [Next]_vars => IInv'
  BY NextIInv
<1>3. IInv => AnswerIsRecorded
  BY IInvSuffices
<1>4. QED
  BY <1>1, <1>2, <1>3, PTL DEF Spec

-----------------------------------------------------------------------------
(* SurplusPractice.                                                         *)

Question == [batch : Nat, index : Nat]
Row == [id : Nat, item : Question, live : BOOLEAN]
SlotPcs == {"idle", "pop", "expire", "promote", "promoteExpire", "promoteStore", "generate", "fill",
        "invalidate"}
SlotRequest == [pc : SlotPcs, row : Row, popped : Question, at : Nat, size : Nat, since : Nat,
             ids : SUBSET Nat]

SlotTypeOK ==
    /\ slot \in [Extra!Slots -> Row] /\ rows \in Nat /\ evidence \in Nat
    /\ grounds \in Seq(Nat)
    /\ served \in Seq([item : Question, since : Nat])
    /\ thread \in [Threads -> SlotRequest]

InSlots(q) == \E s \in Extra!Slots : slot[s].live /\ slot[s].item = q
WasServed(q) == \E i \in DOMAIN served : served[i].item = q

\* A question that is on its way: of a known response, not waiting and not shown.
OnItsWay(q) == q.batch \in DOMAIN grounds /\ ~InSlots(q) /\ ~WasServed(q)

\* A question is in one slot at most, and in none once it was shown; the fresh
\* ones are of responses made since the last evidence.
SlotsSound ==
    /\ \A s, u \in Extra!Slots :
         slot[s].live /\ slot[u].live /\ slot[s].item = slot[u].item => s = u
    /\ \A s \in Extra!Slots : slot[s].live =>
         slot[s].item.batch \in DOMAIN grounds /\ ~WasServed(slot[s].item)
    /\ \A s \in Extra!Slots : Extra!Fresh(slot[s]) => grounds[slot[s].item.batch] >= evidence

ServedSound ==
    /\ ServedOnce /\ EvidenceHeeded
    /\ \A i \in DOMAIN served : served[i].item.batch \in DOMAIN grounds

\* Where a request found the question that it moves down or takes.
AtSource(me, s) == s \in Extra!Slots /\ me.row = slot[s] /\ slot[s].live

\* What the request that is at work holds.
Holding(me) ==
    /\ me.pc \in {"expire", "promote", "promoteExpire", "promoteStore", "fill"} =>
         /\ me.popped.batch \in DOMAIN grounds
         /\ grounds[me.popped.batch] >= evidence
    /\ me.pc \notin {"idle", "invalidate"} => me.since = evidence
    /\ me.pc = "expire" => AtSource(me, 0) /\ me.popped = slot[0].item
    /\ me.pc \in {"promote", "promoteExpire", "promoteStore"} =>
         OnItsWay(me.popped) /\ me.at # 0
    /\ me.pc \in {"promoteExpire", "promoteStore"} =>
         me.at \in Extra!Slots /\ grounds[me.row.item.batch] >= evidence
    /\ me.pc = "promoteExpire" => AtSource(me, me.at)
    /\ me.pc = "promoteStore" => OnItsWay(me.row.item) /\ me.row.item # me.popped
    /\ me.pc = "fill" =>
         /\ me.popped = [batch |-> Len(grounds), index |-> 0] /\ Len(grounds) # 0
         /\ me.at # 0 /\ me.size <= MaxSurplus
         /\ \A s \in Extra!Slots : slot[s].live /\ slot[s].item.batch = Len(grounds) =>
              slot[s].item.index # 0 /\ slot[s].item.index < me.at
         /\ \A i \in DOMAIN served : served[i].item.batch # Len(grounds)
    /\ me.pc = "invalidate" => \A s \in Extra!Slots : Extra!Fresh(slot[s]) => slot[s].id \in me.ids

SlotInv == SlotTypeOK /\ SlotsSound /\ ServedSound /\ \A t \in Threads : Holding(thread[t])

-----------------------------------------------------------------------------
(* What a step may do, whatever the request is doing.                       *)

LEMMA ThreadBecomes ==
    ASSUME SlotTypeOK, NEW t \in Threads, NEW x \in SlotRequest, Extra!Become(t, x)
    PROVE  thread' \in [Threads -> SlotRequest] /\ thread'[t] = x
  BY DEF SlotTypeOK, Extra!Become

\* Nothing but the request moves on.
LEMMA NothingMoves ==
    ASSUME SlotInv, UNCHANGED <<slot, lapsed, grounds, evidence, served>>
    PROVE  /\ SlotsSound' /\ ServedSound'
           /\ \A q : OnItsWay(q) => OnItsWay(q)'
<1>1. \A q : InSlots(q)' <=> InSlots(q)
  BY DEF InSlots
<1>2. \A q : WasServed(q)' <=> WasServed(q)
  BY DEF WasServed
<1>3. \A s \in Extra!Slots : Extra!Fresh(slot[s])' <=> Extra!Fresh(slot[s])
  BY DEF Extra!Fresh
<1>4. SlotsSound'
  BY <1>2, <1>3 DEF SlotInv, SlotsSound
<1>5. ServedSound'
  BY DEF SlotInv, ServedSound, ServedOnce, EvidenceHeeded
<1>6. QED
  BY <1>1, <1>2, <1>4, <1>5 DEF OnItsWay

\* Slots lose their questions.
LEMMA SlotsEmpty ==
    ASSUME SlotInv, UNCHANGED <<lapsed, grounds, served>>,
           \A s \in Extra!Slots : slot'[s].live => slot[s].live /\ slot'[s].item = slot[s].item,
           \A s \in Extra!Slots : Extra!Fresh(slot[s])' => grounds[slot[s].item.batch] >= evidence'
    PROVE  /\ SlotsSound' /\ ServedSound'
           /\ \A q : OnItsWay(q) => OnItsWay(q)'
<1>1. \A q : InSlots(q)' => InSlots(q)
  BY DEF InSlots
<1>2. \A q : WasServed(q)' <=> WasServed(q)
  BY DEF WasServed
<1>3. SlotsSound'
  <2>1. ASSUME NEW s \in Extra!Slots, NEW u \in Extra!Slots, slot'[s].live, slot'[u].live,
               slot'[s].item = slot'[u].item
        PROVE  s = u
    BY <2>1 DEF SlotInv, SlotsSound
  <2>2. ASSUME NEW s \in Extra!Slots, slot'[s].live
        PROVE  slot'[s].item.batch \in DOMAIN grounds' /\ ~WasServed(slot'[s].item)
    BY <2>2 DEF SlotInv, SlotsSound
  <2>3. ASSUME NEW s \in Extra!Slots, Extra!Fresh(slot[s])'
        PROVE  grounds'[slot'[s].item.batch] >= evidence'
    BY <2>3 DEF Extra!Fresh
  <2>4. QED
    BY <2>1, <2>2, <2>3 DEF SlotsSound, WasServed
<1>4. ServedSound'
  BY DEF SlotInv, ServedSound, ServedOnce, EvidenceHeeded
<1>5. QED
  BY <1>1, <1>2, <1>3, <1>4 DEF OnItsWay

\* A question on its way is stored in a slot.
LEMMA SlotFills ==
    ASSUME SlotInv, NEW k \in Extra!Slots, NEW q \in Question, Extra!Upsert(k, q), OnItsWay(q),
           grounds[q.batch] >= evidence, UNCHANGED <<lapsed, grounds, evidence, served>>
    PROVE  /\ slot' \in [Extra!Slots -> Row] /\ rows' \in Nat
           /\ SlotsSound' /\ ServedSound'
           /\ \A p : p # q /\ OnItsWay(p) => OnItsWay(p)'
           /\ \A s \in Extra!Slots : slot'[s].live =>
                 slot'[s].item = q \/ (slot[s].live /\ slot'[s].item = slot[s].item)
<1> DEFINE row == [id |-> rows + 1, item |-> q, live |-> TRUE]
<1>1. slot \in [Extra!Slots -> Row] /\ rows \in Nat /\ SlotsSound /\ ServedSound
  BY DEF SlotInv, SlotTypeOK
<1>2. row \in Row /\ row.item = q /\ slot' = [slot EXCEPT ![k] = row] /\ rows' = rows + 1
  BY <1>1 DEF Extra!Upsert, Row
<1> HIDE DEF row
<1>3. slot'[k] = row /\ \A s \in Extra!Slots \ {k} : slot'[s] = slot[s]
  BY <1>1, <1>2
<1>4. slot' \in [Extra!Slots -> Row] /\ rows' \in Nat
  BY <1>1, <1>2
<1>5. \A p : InSlots(p)' => p = q \/ InSlots(p)
  BY <1>2, <1>3 DEF InSlots
<1>6. \A p : WasServed(p)' <=> WasServed(p)
  BY DEF WasServed
<1>7. \A s \in Extra!Slots \ {k} : slot[s].live => slot[s].item # q
  BY DEF OnItsWay, InSlots
<1>8. SlotsSound'
  <2>1. ASSUME NEW s \in Extra!Slots, NEW u \in Extra!Slots, slot'[s].live, slot'[u].live,
               slot'[s].item = slot'[u].item
        PROVE  s = u
    BY <1>1, <1>2, <1>3, <1>7, <2>1 DEF SlotsSound
  <2>2. ASSUME NEW s \in Extra!Slots, slot'[s].live
        PROVE  slot'[s].item.batch \in DOMAIN grounds' /\ ~WasServed(slot'[s].item)
    BY <1>1, <1>2, <1>3, <2>2 DEF SlotsSound, OnItsWay
  <2>3. ASSUME NEW s \in Extra!Slots, Extra!Fresh(slot[s])'
        PROVE  grounds'[slot'[s].item.batch] >= evidence'
    <3>1. CASE s = k
      BY <1>2, <1>3, <3>1
    <3>2. CASE s # k
      BY <1>1, <1>3, <2>3, <3>2 DEF SlotsSound, Extra!Fresh
    <3>3. QED
      BY <3>1, <3>2
  <2>4. QED
    BY <2>1, <2>2, <2>3 DEF SlotsSound, WasServed
<1>9. ServedSound'
  BY <1>1 DEF ServedSound, ServedOnce, EvidenceHeeded
<1>10. \A p : p # q /\ OnItsWay(p) => OnItsWay(p)'
  BY <1>5, <1>6 DEF OnItsWay
<1>11. QED
  BY <1>2, <1>3, <1>4, <1>8, <1>9, <1>10

\* A question on its way reaches the learner.
LEMMA QuestionShown ==
    ASSUME SlotInv, NEW q \in Question, NEW since \in Nat, Extra!Serve(q, since), OnItsWay(q),
           grounds[q.batch] >= since, UNCHANGED <<slot, lapsed, grounds, evidence>>
    PROVE  /\ served' \in Seq([item : Question, since : Nat])
           /\ SlotsSound' /\ ServedSound'
<1> DEFINE last == [item |-> q, since |-> since]
<1>1. served \in Seq([item : Question, since : Nat]) /\ SlotsSound /\ ServedSound
  BY DEF SlotInv, SlotTypeOK
<1>2. /\ last \in [item : Question, since : Nat] /\ last.item = q /\ last.since = since
      /\ served' = Append(served, last)
  BY DEF Extra!Serve
<1> HIDE DEF last
<1>3. PICK n \in Nat : n = Len(served) /\ DOMAIN served = 1 .. n
  BY <1>1
<1>4. /\ served' \in Seq([item : Question, since : Nat]) /\ DOMAIN served' = 1 .. n + 1
      /\ served'[n + 1] = last /\ \A i \in 1 .. n : served'[i] = served[i]
  BY <1>1, <1>2, <1>3
<1>5. \A i \in 1 .. n : served[i].item # q
  BY <1>3 DEF OnItsWay, WasServed
<1>6. \A i \in 1 .. n + 1 : i = n + 1 \/ i \in 1 .. n
  BY <1>3
<1>7. ServedSound'
  <2>1. ASSUME NEW i \in DOMAIN served', NEW j \in DOMAIN served',
               served'[i].item = served'[j].item
        PROVE  i = j
    BY <1>1, <1>2, <1>3, <1>4, <1>5, <1>6, <2>1 DEF ServedSound, ServedOnce
  <2>2. ASSUME NEW i \in DOMAIN served'
        PROVE  /\ grounds'[served'[i].item.batch] >= served'[i].since
               /\ served'[i].item.batch \in DOMAIN grounds'
    BY <1>1, <1>2, <1>3, <1>4, <1>6, <2>2 DEF ServedSound, EvidenceHeeded, OnItsWay
  <2>3. QED
    BY <2>1, <2>2 DEF ServedSound, ServedOnce, EvidenceHeeded
<1>8. \A p : WasServed(p)' => p = q \/ WasServed(p)
  BY <1>2, <1>3, <1>4, <1>6 DEF WasServed
<1>9. \A s \in Extra!Slots : slot[s].live => slot[s].item # q
  BY DEF OnItsWay, InSlots
<1>10. SlotsSound'
  <2>1. \A s \in Extra!Slots : Extra!Fresh(slot[s])' <=> Extra!Fresh(slot[s])
    BY DEF Extra!Fresh
  <2>2. QED
    BY <1>1, <1>8, <1>9, <2>1 DEF SlotsSound
<1>11. QED
  BY <1>4, <1>7, <1>10

\* What a step has to show.
LEMMA Together ==
    ASSUME SlotInv, NEW t, Threads = {t}, NEW x \in SlotRequest, Extra!Become(t, x),
           slot' \in [Extra!Slots -> Row], rows' \in Nat, evidence' \in Nat, grounds' \in Seq(Nat),
           served' \in Seq([item : Question, since : Nat]),
           SlotsSound', ServedSound', Holding(x)'
    PROVE  SlotInv'
<1>1. thread' \in [Threads -> SlotRequest] /\ thread'[t] = x
  BY ThreadBecomes DEF SlotInv
<1>2. SlotTypeOK'
  BY <1>1 DEF SlotTypeOK
<1>3. \A u \in Threads : thread'[u] = x
  BY <1>1
<1>4. \A u \in Threads : Holding(thread[u])'
  BY <1>3 DEF Holding
<1>5. QED
  BY <1>2, <1>4 DEF SlotInv

LEMMA IdleType == Extra!Idle \in SlotRequest /\ Extra!Idle.pc = "idle"
<1>1. Extra!NoItem \in Question /\ Extra!NoRow \in Row
  BY DEF Extra!NoItem, Question, Extra!NoRow, Row
<1>2. QED
  BY <1>1 DEF Extra!Idle, SlotRequest, SlotPcs

\* A request that only moves on, and holds what it may.
LEMMA OnlyThread ==
    ASSUME SlotInv, NEW t, Threads = {t}, NEW x \in SlotRequest, Extra!Become(t, x),
           UNCHANGED <<slot, rows, lapsed, grounds, evidence, served>>, Holding(x)
    PROVE  SlotInv'
<1>1. /\ slot' \in [Extra!Slots -> Row] /\ rows' \in Nat /\ evidence' \in Nat /\ grounds' \in Seq(Nat)
      /\ served' \in Seq([item : Question, since : Nat])
  BY DEF SlotInv, SlotTypeOK
<1>2. /\ SlotsSound' /\ ServedSound' /\ \A q : OnItsWay(q) => OnItsWay(q)'
  BY NothingMoves
<1>3. \A s \in Extra!Slots : Extra!Fresh(slot[s])' <=> Extra!Fresh(slot[s])
  BY DEF Extra!Fresh
<1>4. \A s : AtSource(x, s) => AtSource(x, s)'
  BY DEF AtSource
<1>5. Holding(x)'
  BY <1>2, <1>3, <1>4 DEF Holding
<1>6. QED
  BY <1>1, <1>2, <1>5, Together

-----------------------------------------------------------------------------
(* The steps of a request.                                                  *)

LEMMA SlotRequestStep == ASSUME SlotInv, NEW t, Threads = {t}, Extra!Request(t) PROVE SlotInv'
<1>1. PICK x : x = [Extra!Idle EXCEPT !.pc = "pop", !.since = evidence]
  OBVIOUS
<1>2. x \in SlotRequest /\ x.pc = "pop" /\ x.since = evidence
  BY <1>1, IdleType DEF SlotInv, SlotTypeOK, SlotRequest, SlotPcs
<1>3. /\ Extra!Become(t, x) /\ UNCHANGED <<slot, rows, lapsed, grounds, evidence, served>>
  BY <1>1 DEF Extra!Request, Extra!table
<1>4. Holding(x)
  BY <1>2 DEF Holding
<1>5. QED
  BY <1>2, <1>3, <1>4, OnlyThread

LEMMA PopSelectStep ==
    ASSUME Extra!SurplusAssumption, SlotInv, NEW t, Threads = {t}, Extra!PopSelect(t)
    PROVE  SlotInv'
<1> DEFINE me == thread[t]
<1>1. me \in SlotRequest /\ me.pc = "pop" /\ me.since = evidence /\ SlotsSound /\ SlotTypeOK
  BY DEF SlotInv, SlotTypeOK, Holding, Extra!PopSelect, Extra!At
<1> HIDE DEF me
<1>2. UNCHANGED <<slot, rows, lapsed, grounds, evidence, served>>
  BY DEF Extra!PopSelect, Extra!table
<1>3. CASE MaxSurplus > 0 /\ Extra!Fresh(slot[0])
  <2>1. PICK x : x = [me EXCEPT !.pc = "expire", !.row = slot[0], !.popped = slot[0].item]
    OBVIOUS
  <2>2. 0 \in Extra!Slots /\ slot[0] \in Row /\ slot[0].item \in Question /\ slot[0].live
    BY <1>1, <1>3 DEF Extra!SurplusAssumption, Extra!Slots, SlotTypeOK, Row, Extra!Fresh
  <2>3. x \in SlotRequest /\ x.pc = "expire" /\ x.row = slot[0] /\ x.popped = slot[0].item
        /\ x.since = evidence
    BY <1>1, <2>1, <2>2 DEF SlotRequest, SlotPcs
  <2>4. Holding(x)
    BY <1>1, <1>3, <2>2, <2>3 DEF Holding, SlotsSound, AtSource
  <2>5. Extra!Become(t, x)
    BY <1>3, <2>1 DEF Extra!PopSelect, me
  <2>6. QED
    BY <1>2, <2>3, <2>4, <2>5, OnlyThread
<1>4. CASE ~(MaxSurplus > 0 /\ Extra!Fresh(slot[0]))
  <2>1. PICK x : x = [me EXCEPT !.pc = "generate"]
    OBVIOUS
  <2>2. x \in SlotRequest /\ x.pc = "generate" /\ x.since = evidence
    BY <1>1, <2>1 DEF SlotRequest, SlotPcs
  <2>3. Holding(x)
    BY <2>2 DEF Holding
  <2>4. Extra!Become(t, x)
    BY <1>4, <2>1 DEF Extra!PopSelect, me
  <2>5. QED
    BY <1>2, <2>2, <2>3, <2>4, OnlyThread
<1>5. QED
  BY <1>3, <1>4

\* An UPDATE by the id of the row that was read takes that row's question out.
LEMMA RowExpires ==
    ASSUME SlotInv, NEW k, NEW me, AtSource(me, k), NEW id, id = me.row.id, Extra!ExpireId(id),
           UNCHANGED <<lapsed, grounds, evidence, served>>
    PROVE  /\ slot' \in [Extra!Slots -> Row] /\ SlotsSound' /\ ServedSound'
           /\ \A q : OnItsWay(q) => OnItsWay(q)'
           /\ OnItsWay(me.row.item)'
<1>1. slot \in [Extra!Slots -> Row] /\ SlotsSound
  BY DEF SlotInv, SlotTypeOK
<1>2. \A s \in Extra!Slots : slot'[s] = IF slot[s].id = id
                                        THEN [slot[s] EXCEPT !.live = FALSE] ELSE slot[s]
  BY DEF Extra!ExpireId
<1>3. \A s \in Extra!Slots : /\ slot'[s] \in Row /\ slot'[s].item = slot[s].item
                             /\ slot'[s].live => slot[s].live /\ slot[s].id # id
  BY <1>1, <1>2 DEF Row
<1>4. slot' \in [Extra!Slots -> Row]
  BY <1>3 DEF Extra!ExpireId
<1>5. \A s \in Extra!Slots : Extra!Fresh(slot[s])' => Extra!Fresh(slot[s])
  BY <1>3 DEF Extra!Fresh
<1>6. /\ SlotsSound' /\ ServedSound' /\ \A q : OnItsWay(q) => OnItsWay(q)'
  BY <1>1, <1>3, <1>5, SlotsEmpty DEF SlotsSound
<1>7. k \in Extra!Slots /\ me.row = slot[k] /\ slot[k].live
  BY DEF AtSource
<1>8. \A s \in Extra!Slots : slot'[s].live => slot'[s].item # me.row.item
  BY <1>1, <1>3, <1>7 DEF SlotsSound
<1>9. OnItsWay(me.row.item)'
  BY <1>1, <1>7, <1>8 DEF OnItsWay, InSlots, WasServed, SlotsSound
<1>10. QED
  BY <1>4, <1>6, <1>9

LEMMA PopExpireStep == ASSUME SlotInv, NEW t, Threads = {t}, Extra!PopExpire(t) PROVE SlotInv'
<1>1. PICK me \in SlotRequest : me = thread[t]
  BY DEF SlotInv, SlotTypeOK
<1>2. /\ me.pc = "expire" /\ AtSource(me, 0) /\ me.popped = slot[0].item /\ me.since = evidence
      /\ me.popped.batch \in DOMAIN grounds /\ grounds[me.popped.batch] >= evidence
  BY <1>1 DEF SlotInv, Holding, Extra!PopExpire, Extra!At
<1>3. PICK x : x = [me EXCEPT !.pc = "promote", !.at = 1]
  OBVIOUS
<1>4. /\ x \in SlotRequest /\ x.pc = "promote" /\ x.at = 1 /\ x.since = me.since
      /\ x.popped = me.popped
  BY <1>3 DEF SlotRequest, SlotPcs
<1>5. /\ Extra!Become(t, x) /\ Extra!ExpireId(me.row.id)
      /\ UNCHANGED <<rows, lapsed, grounds, evidence, served>>
  BY <1>1, <1>3 DEF Extra!PopExpire
<1>6. /\ slot' \in [Extra!Slots -> Row] /\ SlotsSound' /\ ServedSound' /\ OnItsWay(me.row.item)'
  BY <1>2, <1>5, RowExpires
<1>7. OnItsWay(x.popped)'
  BY <1>2, <1>4, <1>6 DEF AtSource
<1>8. Holding(x)'
  BY <1>2, <1>4, <1>5, <1>7 DEF Holding
<1>9. rows' \in Nat /\ evidence' \in Nat /\ grounds' \in Seq(Nat)
      /\ served' \in Seq([item : Question, since : Nat])
  BY <1>5 DEF SlotInv, SlotTypeOK
<1>10. QED
  BY <1>4, <1>5, <1>6, <1>8, <1>9, Together

LEMMA PromoteSelectStep ==
    ASSUME SlotInv, NEW t, Threads = {t}, Extra!PromoteSelect(t)
    PROVE  SlotInv'
<1>1. PICK me \in SlotRequest : me = thread[t]
  BY DEF SlotInv, SlotTypeOK
<1>2. /\ me.pc = "promote" /\ me.at # 0 /\ me.since = evidence /\ OnItsWay(me.popped)
      /\ me.popped.batch \in DOMAIN grounds /\ grounds[me.popped.batch] >= evidence
      /\ me.at \in Extra!Slots /\ Extra!Fresh(slot[me.at])
  BY <1>1 DEF SlotInv, Holding, Extra!PromoteSelect, Extra!At
<1>3. /\ slot[me.at] \in Row /\ slot[me.at].live
      /\ grounds[slot[me.at].item.batch] >= evidence
  BY <1>2 DEF SlotInv, SlotTypeOK, SlotsSound, Extra!Fresh
<1>4. PICK x : x = [me EXCEPT !.pc = "promoteExpire", !.row = slot[me.at]]
  OBVIOUS
<1>5. /\ x \in SlotRequest /\ x.pc = "promoteExpire" /\ x.at = me.at /\ x.since = me.since
      /\ x.popped = me.popped /\ x.row = slot[me.at]
  BY <1>3, <1>4 DEF SlotRequest, SlotPcs
<1>6. Extra!Become(t, x) /\ UNCHANGED <<slot, rows, lapsed, grounds, evidence, served>>
  BY <1>1, <1>4 DEF Extra!PromoteSelect, Extra!table
<1>7. Holding(x)
  BY <1>2, <1>3, <1>5 DEF Holding, AtSource
<1>8. QED
  BY <1>5, <1>6, <1>7, OnlyThread

LEMMA PromoteExpireStep ==
    ASSUME SlotInv, NEW t, Threads = {t}, Extra!PromoteExpire(t)
    PROVE  SlotInv'
<1>1. PICK me \in SlotRequest : me = thread[t]
  BY DEF SlotInv, SlotTypeOK
<1>2. /\ me.pc = "promoteExpire" /\ me.at # 0 /\ me.since = evidence /\ OnItsWay(me.popped)
      /\ me.popped.batch \in DOMAIN grounds /\ grounds[me.popped.batch] >= evidence
      /\ me.at \in Extra!Slots /\ AtSource(me, me.at) /\ grounds[me.row.item.batch] >= evidence
  BY <1>1 DEF SlotInv, Holding, Extra!PromoteExpire, Extra!At
<1>3. PICK x : x = [me EXCEPT !.pc = "promoteStore"]
  OBVIOUS
<1>4. /\ x \in SlotRequest /\ x.pc = "promoteStore" /\ x.at = me.at /\ x.since = me.since
      /\ x.popped = me.popped /\ x.row = me.row
  BY <1>3 DEF SlotRequest, SlotPcs
<1>5. /\ Extra!Become(t, x) /\ Extra!ExpireId(me.row.id)
      /\ UNCHANGED <<rows, lapsed, grounds, evidence, served>>
  BY <1>1, <1>3 DEF Extra!PromoteExpire
<1>6. /\ slot' \in [Extra!Slots -> Row] /\ SlotsSound' /\ ServedSound' /\ OnItsWay(me.row.item)'
      /\ OnItsWay(me.popped)'
  BY <1>2, <1>5, RowExpires
<1>7. me.row.item # me.popped
  BY <1>2 DEF AtSource, OnItsWay, InSlots
<1>8. Holding(x)'
  BY <1>2, <1>4, <1>5, <1>6, <1>7 DEF Holding
<1>9. rows' \in Nat /\ evidence' \in Nat /\ grounds' \in Seq(Nat)
      /\ served' \in Seq([item : Question, since : Nat])
  BY <1>5 DEF SlotInv, SlotTypeOK
<1>10. QED
  BY <1>4, <1>5, <1>6, <1>8, <1>9, Together

LEMMA PromoteStoreStep ==
    ASSUME Extra!SurplusAssumption, SlotInv, NEW t, Threads = {t}, Extra!PromoteStore(t)
    PROVE  SlotInv'
<1>1. PICK me \in SlotRequest : me = thread[t]
  BY DEF SlotInv, SlotTypeOK
<1>2. /\ me.pc = "promoteStore" /\ me.at # 0 /\ me.since = evidence /\ OnItsWay(me.popped)
      /\ me.popped.batch \in DOMAIN grounds /\ grounds[me.popped.batch] >= evidence
      /\ me.at \in Extra!Slots /\ OnItsWay(me.row.item) /\ grounds[me.row.item.batch] >= evidence
      /\ me.row.item # me.popped
  BY <1>1 DEF SlotInv, Holding, Extra!PromoteStore, Extra!At
<1>3. PICK x : x = [me EXCEPT !.pc = "promote", !.at = @ + 1]
  OBVIOUS
<1>a. me.at + 1 \in Nat \ {0}
  BY DEF SlotRequest
<1>4. /\ x \in SlotRequest /\ x.pc = "promote" /\ x.at # 0 /\ x.since = me.since
      /\ x.popped = me.popped /\ me.row.item \in Question
  BY <1>3, <1>a DEF SlotRequest, SlotPcs, Row
<1>5. /\ Extra!Become(t, x) /\ Extra!Upsert(me.at - 1, me.row.item)
      /\ UNCHANGED <<lapsed, grounds, evidence, served>>
  BY <1>1, <1>3 DEF Extra!PromoteStore
<1>6. me.at - 1 \in Extra!Slots
  BY <1>1, <1>2 DEF Extra!Slots, SlotRequest, Extra!SurplusAssumption
<1>7. /\ slot' \in [Extra!Slots -> Row] /\ rows' \in Nat /\ SlotsSound' /\ ServedSound'
      /\ OnItsWay(me.popped)'
  BY <1>2, <1>4, <1>5, <1>6, SlotFills
<1>8. Holding(x)'
  BY <1>2, <1>4, <1>5, <1>7 DEF Holding
<1>9. evidence' \in Nat /\ grounds' \in Seq(Nat)
      /\ served' \in Seq([item : Question, since : Nat])
  BY <1>5 DEF SlotInv, SlotTypeOK
<1>10. QED
  BY <1>4, <1>5, <1>7, <1>8, <1>9, Together

LEMMA ServePoppedStep == ASSUME SlotInv, NEW t, Threads = {t}, Extra!ServePopped(t) PROVE SlotInv'
<1>1. PICK me \in SlotRequest : me = thread[t]
  BY DEF SlotInv, SlotTypeOK
<1>2. /\ me.pc = "promote" /\ me.since = evidence /\ OnItsWay(me.popped)
      /\ grounds[me.popped.batch] >= evidence
  BY <1>1 DEF SlotInv, Holding, Extra!ServePopped, Extra!At
<1>3. /\ Extra!Become(t, Extra!Idle) /\ Extra!Serve(me.popped, me.since)
      /\ UNCHANGED <<slot, rows, lapsed, grounds, evidence>>
  BY <1>1 DEF Extra!ServePopped, Extra!table
<1>4. me.popped \in Question /\ me.since \in Nat
  BY DEF SlotRequest
<1>5. /\ served' \in Seq([item : Question, since : Nat])
      /\ SlotsSound' /\ ServedSound'
  BY <1>2, <1>3, <1>4, QuestionShown
<1>6. Holding(Extra!Idle)'
  BY IdleType DEF Holding
<1>7. slot' \in [Extra!Slots -> Row] /\ rows' \in Nat /\ evidence' \in Nat /\ grounds' \in Seq(Nat)
  BY <1>3 DEF SlotInv, SlotTypeOK
<1>8. QED
  BY <1>3, <1>5, <1>6, <1>7, IdleType, Together

\* A new response is like none before.
LEMMA GenerateStep ==
    ASSUME Extra!SurplusAssumption, SlotInv, NEW t, Threads = {t}, Extra!Generate(t)
    PROVE  SlotInv'
<1>1. PICK me \in SlotRequest : me = thread[t]
  BY DEF SlotInv, SlotTypeOK
<1>2. me.pc = "generate" /\ me.since = evidence /\ me.since \in Nat
  BY <1>1 DEF SlotInv, Holding, Extra!Generate, Extra!At, SlotRequest
<1>3. PICK n \in Nat : n = Len(grounds) /\ DOMAIN grounds = 1 .. n
  BY DEF SlotInv, SlotTypeOK
<1>4. PICK size \in 0 .. MaxSurplus :
        Extra!Become(t, [me EXCEPT !.pc = "fill", !.at = 1, !.size = size,
                     !.popped = [batch |-> n + 1, index |-> 0]])
  BY <1>1, <1>3 DEF Extra!Generate
<1>5. PICK x : x = [me EXCEPT !.pc = "fill", !.at = 1, !.size = size,
                              !.popped = [batch |-> n + 1, index |-> 0]]
  OBVIOUS
<1>6. size \in Nat /\ size <= MaxSurplus /\ [batch |-> n + 1, index |-> 0] \in Question
  BY <1>4 DEF Extra!SurplusAssumption, Question
<1>7. /\ x \in SlotRequest /\ x.pc = "fill" /\ x.at = 1 /\ x.since = me.since /\ x.size = size
      /\ x.popped = [batch |-> n + 1, index |-> 0] /\ x.popped.batch = n + 1
  BY <1>5, <1>6 DEF SlotRequest, SlotPcs
<1>8. /\ Extra!Become(t, x) /\ grounds' = Append(grounds, me.since)
      /\ UNCHANGED <<slot, rows, lapsed, evidence, served>>
  BY <1>1, <1>4, <1>5 DEF Extra!Generate, Extra!table
<1>9. /\ grounds' \in Seq(Nat) /\ Len(grounds') = n + 1 /\ DOMAIN grounds' = 1 .. n + 1
      /\ grounds'[n + 1] = evidence /\ \A b \in 1 .. n : grounds'[b] = grounds[b]
  BY <1>2, <1>3, <1>8 DEF SlotInv, SlotTypeOK
<1>10. /\ slot' \in [Extra!Slots -> Row] /\ rows' \in Nat /\ evidence' \in Nat
       /\ served' \in Seq([item : Question, since : Nat])
       /\ SlotsSound /\ ServedSound
  BY <1>8 DEF SlotInv, SlotTypeOK
<1>11. \A s \in Extra!Slots : slot[s].live => slot[s].item.batch \in 1 .. n
  BY <1>3, <1>10 DEF SlotsSound
<1>12. \A i \in DOMAIN served : served[i].item.batch \in 1 .. n
  BY <1>3, <1>10 DEF ServedSound
<1>13. SlotsSound'
  <2>1. \A s \in Extra!Slots : Extra!Fresh(slot[s])' => Extra!Fresh(slot[s]) /\ slot[s].live
    BY <1>8 DEF Extra!Fresh
  <2>2. \A q : WasServed(q)' <=> WasServed(q)
    BY <1>8 DEF WasServed
  <2>3. \A b \in 1 .. n : b \in DOMAIN grounds'
    BY <1>3, <1>9
  <2>4. QED
    BY <1>8, <1>9, <1>10, <1>11, <2>1, <2>2, <2>3 DEF SlotsSound
<1>14. ServedSound'
  <2>1. \A b \in 1 .. n : b \in DOMAIN grounds'
    BY <1>3, <1>9
  <2>2. QED
    BY <1>8, <1>9, <1>10, <1>12, <2>1 DEF ServedSound, ServedOnce, EvidenceHeeded
<1>15. Holding(x)'
  <2>1. \A b \in 1 .. n : b # n + 1
    BY <1>3
  <2>2. n + 1 \in DOMAIN grounds' /\ evidence >= evidence /\ n + 1 # 0 /\ 1 # 0
    BY <1>3, <1>9, <1>10
  <2>3. QED
    BY <1>2, <1>6, <1>7, <1>8, <1>9, <1>11, <1>12, <2>1, <2>2 DEF Holding
<1>16. QED
  BY <1>7, <1>8, <1>9, <1>10, <1>13, <1>14, <1>15, Together

LEMMA FillStep ==
    ASSUME Extra!SurplusAssumption, SlotInv, NEW t, Threads = {t}, Extra!Fill(t)
    PROVE  SlotInv'
<1>1. PICK me \in SlotRequest : me = thread[t]
  BY DEF SlotInv, SlotTypeOK
<1>2. PICK n \in Nat : n = Len(grounds) /\ DOMAIN grounds = 1 .. n
  BY DEF SlotInv, SlotTypeOK
<1>3. /\ me.pc = "fill" /\ me.since = evidence /\ n # 0
      /\ n \in DOMAIN grounds /\ grounds[n] >= evidence
      /\ me.popped = [batch |-> n, index |-> 0] /\ me.at # 0 /\ me.at <= me.size
      /\ me.size <= MaxSurplus
      /\ \A s \in Extra!Slots : slot[s].live /\ slot[s].item.batch = n =>
           slot[s].item.index # 0 /\ slot[s].item.index < me.at
      /\ \A i \in DOMAIN served : served[i].item.batch # n
  BY <1>1, <1>2 DEF SlotInv, Holding, Extra!Fill, Extra!At
<1>4. me.at \in Nat /\ me.size \in Nat /\ me.at + 1 \in Nat \ {0} /\ me.at < me.at + 1
  BY DEF SlotRequest
<1>5. PICK q : q = [batch |-> n, index |-> me.at]
  OBVIOUS
<1>6. q \in Question /\ q.batch = n /\ q.index = me.at
  BY <1>4, <1>5 DEF Question
<1>7. q = [me.popped EXCEPT !.index = me.at]
  BY <1>3, <1>5
<1>8. OnItsWay(q)
  <2>1. ~InSlots(q)
    BY <1>3, <1>4, <1>6 DEF InSlots
  <2>2. ~WasServed(q)
    BY <1>3, <1>6 DEF WasServed
  <2>3. QED
    BY <1>3, <1>6, <2>1, <2>2 DEF OnItsWay
<1>9. PICK x : x = [me EXCEPT !.at = @ + 1]
  OBVIOUS
<1>10. /\ x \in SlotRequest /\ x.pc = "fill" /\ x.at = me.at + 1 /\ x.since = me.since
       /\ x.size = me.size /\ x.popped = me.popped
  BY <1>3, <1>4, <1>9 DEF SlotRequest
<1>11. /\ Extra!Become(t, x) /\ Extra!Upsert(me.at - 1, q)
       /\ UNCHANGED <<lapsed, grounds, evidence, served>>
  BY <1>1, <1>7, <1>9 DEF Extra!Fill
<1>12. me.at - 1 \in Extra!Slots
  BY <1>3, <1>4 DEF Extra!Slots, Extra!SurplusAssumption
<1>13. /\ slot' \in [Extra!Slots -> Row] /\ rows' \in Nat /\ SlotsSound' /\ ServedSound'
       /\ \A s \in Extra!Slots : slot'[s].live =>
             slot'[s].item = q \/ (slot[s].live /\ slot'[s].item = slot[s].item)
  BY <1>3, <1>6, <1>8, <1>11, <1>12, SlotFills
<1>14. evidence' \in Nat /\ grounds' \in Seq(Nat)
       /\ served' \in Seq([item : Question, since : Nat])
  BY <1>11 DEF SlotInv, SlotTypeOK
<1>15. \A s \in Extra!Slots : slot'[s].live /\ slot'[s].item.batch = n =>
         slot'[s].item.index # 0 /\ slot'[s].item.index < me.at + 1
  <2>1. ASSUME NEW s \in Extra!Slots, slot'[s].live, slot'[s].item.batch = n
        PROVE  slot'[s].item.index # 0 /\ slot'[s].item.index < me.at + 1
    <3>1. CASE slot'[s].item = q
      BY <1>3, <1>4, <1>6, <3>1
    <3>2. CASE slot[s].live /\ slot'[s].item = slot[s].item
      <4>1. slot[s].item.index \in Nat
        BY DEF SlotInv, SlotTypeOK, Row, Question
      <4>2. QED
        BY <1>3, <1>4, <2>1, <3>2, <4>1
    <3>3. QED
      BY <1>13, <2>1, <3>1, <3>2
  <2>2. QED
    BY <2>1
<1>16. Holding(x)'
  <2>1. grounds' = grounds /\ evidence' = evidence /\ served' = served
    BY <1>11
  <2>2. /\ x.popped.batch = n /\ x.popped = [batch |-> n, index |-> 0]
        /\ x.at = me.at + 1 /\ x.at # 0
    BY <1>3, <1>4, <1>10
  <2>3. QED
    BY <1>2, <1>3, <1>10, <1>15, <2>1, <2>2 DEF Holding
<1>17. QED
  BY <1>10, <1>11, <1>13, <1>14, <1>16, Together

LEMMA ServeGeneratedStep ==
    ASSUME SlotInv, NEW t, Threads = {t}, Extra!ServeGenerated(t)
    PROVE  SlotInv'
<1>1. PICK me \in SlotRequest : me = thread[t]
  BY DEF SlotInv, SlotTypeOK
<1>2. /\ me.pc = "fill" /\ me.since = evidence
      /\ me.popped.batch \in DOMAIN grounds /\ grounds[me.popped.batch] >= evidence
      /\ me.popped = [batch |-> Len(grounds), index |-> 0]
      /\ \A s \in Extra!Slots : slot[s].live /\ slot[s].item.batch = Len(grounds) =>
           slot[s].item.index # 0
      /\ \A i \in DOMAIN served : served[i].item.batch # Len(grounds)
  BY <1>1 DEF SlotInv, Holding, Extra!ServeGenerated, Extra!At
<1>3. /\ Extra!Become(t, Extra!Idle) /\ Extra!Serve(me.popped, me.since)
      /\ UNCHANGED <<slot, rows, lapsed, grounds, evidence>>
  BY <1>1 DEF Extra!ServeGenerated, Extra!table
<1>4. me.popped \in Question /\ me.since \in Nat
  BY DEF SlotRequest
<1>5. OnItsWay(me.popped)
  BY <1>2 DEF OnItsWay, InSlots, WasServed
<1>6. /\ served' \in Seq([item : Question, since : Nat])
      /\ SlotsSound' /\ ServedSound'
  BY <1>2, <1>3, <1>4, <1>5, QuestionShown
<1>7. Holding(Extra!Idle)'
  BY IdleType DEF Holding
<1>8. slot' \in [Extra!Slots -> Row] /\ rows' \in Nat /\ evidence' \in Nat /\ grounds' \in Seq(Nat)
  BY <1>3 DEF SlotInv, SlotTypeOK
<1>9. QED
  BY <1>3, <1>6, <1>7, <1>8, IdleType, Together

-----------------------------------------------------------------------------
(* Evidence, time and deaths.                                               *)

LEMMA EvidenceSelectStep ==
    ASSUME SlotInv, NEW t, Threads = {t}, Extra!EvidenceSelect(t)
    PROVE  SlotInv'
<1>1. PICK ids : ids = {slot[s].id : s \in {s \in Extra!Slots : Extra!Fresh(slot[s])}}
  OBVIOUS
<1>2. ids \in SUBSET Nat
  BY <1>1 DEF SlotInv, SlotTypeOK, Row
<1>3. PICK x : x = [Extra!Idle EXCEPT !.pc = "invalidate", !.ids = ids]
  OBVIOUS
<1>4. x \in SlotRequest /\ x.pc = "invalidate" /\ x.ids = ids
  BY <1>2, <1>3, IdleType DEF SlotRequest, SlotPcs
<1>5. Extra!Become(t, x) /\ UNCHANGED <<slot, rows, lapsed, grounds, evidence, served>>
  BY <1>1, <1>3 DEF Extra!EvidenceSelect, Extra!table
<1>6. Holding(x)
  BY <1>1, <1>4 DEF Holding
<1>7. QED
  BY <1>4, <1>5, <1>6, OnlyThread

\* While nothing else is at work, what was fresh when the evidence came is what is
\* fresh when it is expired, or less.
LEMMA EvidenceUpdateStep ==
    ASSUME SlotInv, NEW t, Threads = {t}, Extra!EvidenceUpdate(t)
    PROVE  SlotInv'
<1>1. PICK me \in SlotRequest : me = thread[t]
  BY DEF SlotInv, SlotTypeOK
<1>2. me.pc = "invalidate" /\ \A s \in Extra!Slots : Extra!Fresh(slot[s]) => slot[s].id \in me.ids
  BY <1>1 DEF SlotInv, Holding, Extra!EvidenceUpdate, Extra!At
<1>3. /\ slot' = [s \in Extra!Slots |-> [slot[s] EXCEPT !.live = @ /\ slot[s].id \notin me.ids]]
      /\ evidence' = evidence + 1 /\ Extra!Become(t, Extra!Idle)
      /\ UNCHANGED <<rows, lapsed, grounds, served>>
  BY <1>1 DEF Extra!EvidenceUpdate
<1>4. slot \in [Extra!Slots -> Row]
  BY DEF SlotInv, SlotTypeOK
<1>5. ASSUME NEW s \in Extra!Slots
      PROVE  /\ slot'[s] \in Row /\ slot'[s].item = slot[s].item
             /\ slot'[s].live => slot[s].live /\ slot[s].id \notin me.ids
  <2>1. PICK r \in Row : r = slot[s]
    BY <1>4
  <2>2. slot'[s] = [r EXCEPT !.live = @ /\ r.id \notin me.ids]
    BY <1>3, <2>1
  <2>3. (r.live /\ r.id \notin me.ids) \in BOOLEAN
    OBVIOUS
  <2>4. /\ slot'[s] \in Row /\ slot'[s].item = r.item
        /\ slot'[s].live = (r.live /\ r.id \notin me.ids)
    BY <2>2, <2>3 DEF Row
  <2>5. QED
    BY <2>1, <2>4
<1>6. slot' \in [Extra!Slots -> Row]
  BY <1>3, <1>5
<1>7. \A s \in Extra!Slots : ~Extra!Fresh(slot[s])'
  BY <1>2, <1>3, <1>5 DEF Extra!Fresh
<1>8. SlotsSound' /\ ServedSound'
  BY <1>3, <1>5, <1>7, SlotsEmpty
<1>9. Holding(Extra!Idle)'
  BY IdleType DEF Holding
<1>10. rows' \in Nat /\ evidence' \in Nat /\ grounds' \in Seq(Nat)
       /\ served' \in Seq([item : Question, since : Nat])
  BY <1>3 DEF SlotInv, SlotTypeOK
<1>11. QED
  BY <1>3, <1>6, <1>8, <1>9, <1>10, IdleType, Together

LEMMA LapseStep == ASSUME SlotInv, Extra!Lapse PROVE SlotInv'
<1>1. UNCHANGED <<slot, rows, grounds, evidence, served, thread>> /\ lapsed \subseteq lapsed'
  BY DEF Extra!Lapse, Extra!table
<1>2. \A s \in Extra!Slots : Extra!Fresh(slot[s])' => Extra!Fresh(slot[s])
  BY <1>1 DEF Extra!Fresh
<1>3. SlotTypeOK'
  BY <1>1 DEF SlotInv, SlotTypeOK
<1>4. \A q : WasServed(q)' <=> WasServed(q)
  BY <1>1 DEF WasServed
<1>5. \A q : OnItsWay(q)' <=> OnItsWay(q)
  BY <1>1 DEF OnItsWay, InSlots, WasServed
<1>6. SlotsSound'
  BY <1>1, <1>2, <1>4 DEF SlotInv, SlotsSound
<1>7. ServedSound'
  BY <1>1 DEF SlotInv, ServedSound, ServedOnce, EvidenceHeeded
<1>8. ASSUME NEW t \in Threads PROVE Holding(thread[t])'
  <2>1. PICK me : me = thread[t]
    OBVIOUS
  <2>2. Holding(me) /\ thread'[t] = me
    BY <1>1, <2>1 DEF SlotInv
  <2>3. \A s : AtSource(me, s) => AtSource(me, s)'
    BY <1>1 DEF AtSource
  <2>4. Holding(me)'
    BY <1>1, <1>2, <1>5, <2>2, <2>3 DEF Holding
  <2>5. QED
    BY <2>2, <2>4 DEF Holding
<1>9. QED
  BY <1>3, <1>6, <1>7, <1>8 DEF SlotInv

LEMMA CrashStep == ASSUME SlotInv, NEW t, Threads = {t}, Extra!Crash(t) PROVE SlotInv'
<1>1. Extra!Become(t, Extra!Idle) /\ UNCHANGED <<slot, rows, lapsed, grounds, evidence, served>>
  BY DEF Extra!Crash, Extra!table
<1>2. Holding(Extra!Idle)
  BY IdleType DEF Holding
<1>3. QED
  BY <1>1, <1>2, IdleType, OnlyThread

LEMMA TheInit == Extra!Init => SlotInv
<1> SUFFICES ASSUME Extra!Init PROVE SlotInv
  OBVIOUS
<1>1. /\ slot = [s \in Extra!Slots |-> Extra!NoRow] /\ grounds = <<>> /\ evidence = 0 /\ served = <<>>
      /\ thread = [t \in Threads |-> Extra!Idle] /\ rows = 0
  BY DEF Extra!Init
<1>2. Extra!NoRow \in Row /\ Extra!NoRow.live = FALSE
  BY DEF Extra!NoRow, Row, Extra!NoItem, Question
<1>3. SlotTypeOK
  BY <1>1, <1>2, IdleType DEF SlotTypeOK
<1>4. SlotsSound
  BY <1>1, <1>2 DEF SlotsSound, Extra!Fresh
<1>5. ServedSound
  BY <1>1 DEF ServedSound, ServedOnce, EvidenceHeeded
<1>6. Holding(Extra!Idle)
  BY IdleType DEF Holding
<1>7. QED
  BY <1>1, <1>3, <1>4, <1>5, <1>6 DEF SlotInv

LEMMA NextStep ==
    ASSUME Extra!SurplusAssumption, NEW t, Threads = {t}
    PROVE  SlotInv /\ [Extra!Next]_Extra!vars => SlotInv'
<1> SUFFICES ASSUME SlotInv, [Extra!Next]_Extra!vars PROVE SlotInv'
  OBVIOUS
<1>1. CASE UNCHANGED Extra!vars
  <2>1. UNCHANGED <<slot, rows, lapsed, grounds, evidence, served, thread>>
    BY <1>1 DEF Extra!vars, Extra!table
  <2>2. SlotsSound' /\ ServedSound' /\ \A q : OnItsWay(q) => OnItsWay(q)'
    BY <2>1, NothingMoves
  <2>3. thread[t] \in SlotRequest /\ Holding(thread[t]) /\ Extra!Become(t, thread[t])
    BY <2>1 DEF SlotInv, SlotTypeOK, Extra!Become
  <2>4. QED
    BY <2>1, <2>3, OnlyThread
<1>2. CASE Extra!Lapse
  BY <1>2, LapseStep
<1>3. CASE Extra!Step(t)
  BY <1>3, SlotRequestStep, PopSelectStep, PopExpireStep, PromoteSelectStep, PromoteExpireStep,
     PromoteStoreStep, ServePoppedStep, GenerateStep, FillStep, ServeGeneratedStep,
     EvidenceSelectStep, EvidenceUpdateStep DEF Extra!Step
<1>4. CASE Extra!Crash(t)
  BY <1>4, CrashStep
<1>5. QED
  BY <1>1, <1>2, <1>3, <1>4 DEF Extra!Next

-----------------------------------------------------------------------------
\* Whatever dies, lapses or is expired in between, a question that was shown is not
\* shown again (pop_surplus expires a row before its question is returned, and
\* _promote_surplus before its copy is stored).
THEOREM ShownOnce ==
    ASSUME Extra!SurplusAssumption, NEW CONSTANT th, Threads = {th}
    PROVE  Extra!Spec => []ServedOnce
<1>1. SlotInv => ServedOnce
  BY DEF SlotInv, ServedSound
<1>2. SlotInv /\ [Extra!Next]_Extra!vars => SlotInv'
  BY NextStep
<1>3. QED
  BY <1>1, <1>2, TheInit, PTL DEF Extra!Spec

\* Whatever dies, lapses or is moved down in between, a request is not answered with
\* a question from before the last evidence (expire_predictive_content).
THEOREM ShownInTime ==
    ASSUME Extra!SurplusAssumption, NEW CONSTANT th, Threads = {th}
    PROVE  Extra!Spec => []EvidenceHeeded
<1>1. SlotInv => EvidenceHeeded
  BY DEF SlotInv, ServedSound
<1>2. SlotInv /\ [Extra!Next]_Extra!vars => SlotInv'
  BY NextStep
<1>3. QED
  BY <1>1, <1>2, TheInit, PTL DEF Extra!Spec
===============================================================================
