---------------------------- MODULE Session_proofs ----------------------------
(***************************************************************************)
(* Proofs about what happens in a learner's sessions: Remediation for any  *)
(* kinds of work, any window and any number of requests that advance one   *)
(* session at once; WithinSession for any observations and assessments;    *)
(* and Socratic for any answers and any number of requests.                *)
(***************************************************************************)
EXTENDS Remediation, WithinPromises, SocraticPromises, SequenceTheorems, TLAPS

CONSTANTS Observations, Assessments, MaxEvents, MaxGenerated, Answers, MaxTurns
VARIABLE events
Within == INSTANCE WithinSession
Talk == INSTANCE Socratic

-----------------------------------------------------------------------------
(* Remediation.                                                             *)

Phases == {"step_back", "repair", "bridge", "return"}
Decisions == {"advance", "hold_repair_target", "hold_bridge_target"}
StepRecord == [phase : Phases, status : {"pending", "active", "completed"}, content : Nat]
Doc == [steps : Seq(StepRecord), index : Nat, completed : Seq(Nat), decision : Decisions]
Request_ == [pc : {"idle", "request", "record", "write"}, decision : Decisions, at : Nat,
             rests : {"unheard", "rested", "unrested"}, step : Nat, doc : Doc]

TypeOK ==
    /\ row \in Doc
    /\ observed \in Seq([work : Work, about : Nat])
    /\ thread \in [Threads -> Request_]
    /\ offered \subseteq Nat
    /\ basis \in [DOMAIN row.steps -> {"none", "unheard", "rested", "unrested", "skipped"}]
    /\ overlap \in BOOLEAN

\* SessionAddsUp of any row.
AddsUp(doc) ==
    LET done == IF doc.index = 0 THEN Len(doc.steps) ELSE doc.index - 1
    IN  /\ doc.index <= Len(doc.steps)
        /\ \A i \in DOMAIN doc.steps :
             /\ doc.steps[i].status = IF i <= done THEN "completed"
                                      ELSE IF i = done + 1 THEN "active" ELSE "pending"
             /\ i <= done => doc.steps[i].content # 0
        /\ Len(doc.completed) = done

\* Nobody works on a session before it is there; a request asks for one of its
\* steps, and what it is about to write adds up.
Underway(t) ==
    ~At(t, "idle") =>
        /\ row.steps # <<>>
        /\ thread[t].at <= Len(row.steps)
        /\ thread[t].decision # "advance" => thread[t].at > 1
        /\ ~At(t, "request") => thread[t].step \in DOMAIN row.steps
        /\ At(t, "write") => AddsUp(thread[t].doc) /\ Len(thread[t].doc.steps) = Len(row.steps)

Sound ==
    /\ row = NoRow \/ row.steps # <<>>
    /\ AddsUp(row)
    /\ \A t \in Threads : Underway(t)

LEMMA AddsUpIsSessionAddsUp == AddsUp(row) => SessionAddsUp
  BY DEF AddsUp, SessionAddsUp

LEMMA NoRowType == NoRow \in Doc /\ AddsUp(NoRow) /\ NoRow.steps = <<>>
  BY DEF NoRow, Doc, AddsUp, Decisions

LEMMA IdleType == Idle \in Request_ /\ Idle.pc = "idle"
  BY NoRowType DEF Idle, Request_, Decisions

-----------------------------------------------------------------------------
\* A row of which some fields are given new values.
Changed(doc, steps, index, completed, decision) ==
    [doc EXCEPT !.steps = steps, !.index = index, !.completed = completed,
                !.decision = decision]
Rewritten(doc, steps, decision) == [doc EXCEPT !.steps = steps, !.decision = decision]

LEMMA DocFields ==
    ASSUME NEW doc \in Doc, NEW steps \in Seq(StepRecord), NEW index \in Nat,
           NEW completed \in Seq(Nat), NEW decision \in Decisions
    PROVE  /\ Changed(doc, steps, index, completed, decision) \in Doc
           /\ Changed(doc, steps, index, completed, decision).steps = steps
           /\ Changed(doc, steps, index, completed, decision).index = index
           /\ Changed(doc, steps, index, completed, decision).completed = completed
           /\ Changed(doc, steps, index, completed, decision).decision = decision
           /\ Rewritten(doc, steps, decision) \in Doc
           /\ Rewritten(doc, steps, decision).steps = steps
           /\ Rewritten(doc, steps, decision).index = doc.index
           /\ Rewritten(doc, steps, decision).completed = doc.completed
  BY DEF Doc, Changed, Rewritten

\* A step that is changed.
Done(step, content) == [step EXCEPT !.status = "completed", !.content = content]
Activated(step) == [step EXCEPT !.status = "active"]
Refilled(step, content) == [step EXCEPT !.content = content]

LEMMA StepFields ==
    ASSUME NEW step \in StepRecord, NEW content \in Nat
    PROVE  /\ Done(step, content) \in StepRecord
           /\ Done(step, content).status = "completed" /\ Done(step, content).content = content
           /\ Activated(step) \in StepRecord
           /\ Activated(step).status = "active" /\ Activated(step).content = step.content
           /\ Refilled(step, content) \in StepRecord
           /\ Refilled(step, content).status = step.status
           /\ Refilled(step, content).content = content
  BY DEF StepRecord, Done, Activated, Refilled

\* What completing step i makes of the k-th step.
Stepped(steps, i, content, k) ==
    IF k = i THEN Done(steps[k], content)
    ELSE IF k = i + 1 THEN Activated(steps[k]) ELSE steps[k]

LEMMA SteppedFields ==
    ASSUME NEW steps, NEW i \in Int, NEW content \in Nat, NEW k \in Int, steps[k] \in StepRecord
    PROVE  /\ Stepped(steps, i, content, k) \in StepRecord
           /\ k = i => /\ Stepped(steps, i, content, k).status = "completed"
                      /\ Stepped(steps, i, content, k).content = content
           /\ k = i + 1 => Stepped(steps, i, content, k).status = "active"
           /\ k # i /\ k # i + 1 => Stepped(steps, i, content, k) = steps[k]
<1>1. CASE k = i
  <2>1. PICK step \in StepRecord : step = steps[k]
    OBVIOUS
  <2>2. Stepped(steps, i, content, k) = Done(step, content) /\ k # i + 1
    BY <1>1, <2>1 DEF Stepped
  <2>3. /\ Done(step, content) \in StepRecord
        /\ Done(step, content).status = "completed" /\ Done(step, content).content = content
    BY <2>1, StepFields
  <2>4. PICK d : d = Done(step, content)
    OBVIOUS
  <2>5. Stepped(steps, i, content, k) = d /\ d \in StepRecord
        /\ d.status = "completed" /\ d.content = content
    BY <2>2, <2>3, <2>4
  <2>6. QED
    BY <1>1, <2>2, <2>5
<1>2. CASE k = i + 1
  <2>1. PICK step \in StepRecord : step = steps[k]
    OBVIOUS
  <2>2. Stepped(steps, i, content, k) = Activated(step) /\ k # i
    BY <1>2, <2>1 DEF Stepped
  <2>3. Activated(step) \in StepRecord /\ Activated(step).status = "active"
    BY <2>1, StepFields
  <2>4. PICK d : d = Activated(step)
    OBVIOUS
  <2>5. Stepped(steps, i, content, k) = d /\ d \in StepRecord /\ d.status = "active"
    BY <2>2, <2>3, <2>4
  <2>6. QED
    BY <1>2, <2>2, <2>5
<1>3. CASE k # i /\ k # i + 1
  BY <1>3 DEF Stepped
<1>4. QED
  BY <1>1, <1>2, <1>3

LEMMA StepSequence ==
    ASSUME NEW steps \in Seq(StepRecord), NEW new \in [DOMAIN steps -> StepRecord]
    PROVE  new \in Seq(StepRecord) /\ Len(new) = Len(steps) /\ DOMAIN new = DOMAIN steps
  OBVIOUS

\* Completing the current step keeps a row that adds up one that does.
LEMMA CompletedAddsUp ==
    ASSUME NEW doc \in Doc, AddsUp(doc), doc.index # 0, NEW content \in Nat \ {0}
    PROVE  /\ Completed(doc, content) \in Doc /\ AddsUp(Completed(doc, content))
           /\ Len(Completed(doc, content).steps) = Len(doc.steps)
           /\ Completed(doc, content).decision = "advance"
           /\ \A k \in DOMAIN doc.steps : k # doc.index =>
                (Completed(doc, content).steps[k].status = "completed"
                    <=> doc.steps[k].status = "completed")
<1> DEFINE old == doc.steps
           i == doc.index
           S(k) == Stepped(old, i, content, k)
           steps == [k \in DOMAIN old |-> S(k)]
           index == IF i < Len(old) THEN i + 1 ELSE 0
           listed == Append(doc.completed, content)
           new == Changed(doc, steps, index, listed, "advance")
<1>1. /\ old \in Seq(StepRecord) /\ Len(old) \in Nat
      /\ DOMAIN old = 1..Len(old) /\ i \in 1..Len(old)
      /\ doc.completed \in Seq(Nat)
      /\ \A k \in DOMAIN old : old[k] \in StepRecord
  BY DEF Doc, AddsUp
<1>2. Completed(doc, content) = new
  BY DEF Completed, Changed, Stepped, Done, Activated
<1>3. listed \in Seq(Nat) /\ Len(listed) = Len(doc.completed) + 1
  BY <1>1, AppendProperties
<1>4. Len(doc.completed) = i - 1
  BY <1>1 DEF AddsUp
<1>5. \A k \in DOMAIN old :
        /\ k < i => old[k].status = "completed" /\ old[k].content # 0
        /\ k > i => old[k].status = "pending"
  BY <1>1 DEF AddsUp
<1> HIDE DEF old, i, listed
<1>6. \A k \in DOMAIN old :
        /\ S(k) \in StepRecord
        /\ k = i => S(k).status = "completed" /\ S(k).content = content
        /\ k = i + 1 => S(k).status = "active"
        /\ k # i /\ k # i + 1 => S(k) = old[k]
  BY <1>1, SteppedFields
<1> HIDE DEF S
<1>7. \A k \in DOMAIN old : steps[k] = S(k)
  OBVIOUS
<1>8. /\ steps \in Seq(StepRecord) /\ Len(steps) = Len(old) /\ DOMAIN steps = DOMAIN old
  BY <1>1, <1>6, StepSequence
<1>9. index \in Nat
  BY <1>1
<1> HIDE DEF steps
<1>10. \A k \in DOMAIN steps :
         /\ k <= i => steps[k].status = "completed" /\ steps[k].content # 0
         /\ k = i + 1 => steps[k].status = "active"
         /\ k > i + 1 => steps[k].status = "pending"
  BY <1>1, <1>5, <1>6, <1>7, <1>8
<1>11. \A k \in DOMAIN old :
         k # i => (steps[k].status = "completed" <=> old[k].status = "completed")
  BY <1>1, <1>5, <1>8, <1>10
<1>12. /\ new \in Doc /\ new.steps = steps /\ new.index = index
       /\ new.completed = listed /\ new.decision = "advance"
  <2> HIDE DEF index
  <2>1. "advance" \in Decisions
    BY DEF Decisions
  <2>2. QED
    BY <1>3, <1>8, <1>9, <2>1, DocFields
<1> HIDE DEF new
<1>13. AddsUp(new)
  <2>1. /\ DOMAIN new.steps = 1..Len(old) /\ Len(new.steps) = Len(old)
        /\ Len(new.completed) = i /\ i \in Nat /\ i # 0
    BY <1>1, <1>3, <1>4, <1>8, <1>12
  <2>2. \A k \in DOMAIN new.steps :
          /\ new.steps[k].status = IF k <= i THEN "completed"
                                   ELSE IF k = i + 1 THEN "active" ELSE "pending"
          /\ k <= i => new.steps[k].content # 0
    BY <1>8, <1>10, <1>12, <2>1
  <2>3. new.index = IF i < Len(old) THEN i + 1 ELSE 0
    BY <1>12
  <2>4. i = IF new.index = 0 THEN Len(new.steps) ELSE new.index - 1
    <3>1. CASE i < Len(old)
      <4>1. new.index = i + 1 /\ new.index # 0 /\ new.index - 1 = i
        BY <2>1, <2>3, <3>1
      <4>2. QED
        BY <4>1
    <3>2. CASE ~(i < Len(old))
      <4>1. new.index = 0 /\ i = Len(new.steps)
        BY <1>1, <2>1, <2>3, <3>2
      <4>2. QED
        BY <4>1
    <3>3. QED
      BY <3>1, <3>2
  <2>5. new.index <= Len(new.steps)
    BY <1>1, <2>1, <2>3
  <2>6. QED
    BY <2>1, <2>2, <2>4, <2>5 DEF AddsUp
<1>14. QED
  BY <1>2, <1>8, <1>11, <1>12, <1>13 DEF old, i

\* So does holding the session on a step with new content.
LEMMA HeldAddsUp ==
    ASSUME NEW doc \in Doc, AddsUp(doc), NEW step \in DOMAIN doc.steps,
           NEW decision \in Decisions
    PROVE  /\ Held(doc, step, decision) \in Doc /\ AddsUp(Held(doc, step, decision))
           /\ Len(Held(doc, step, decision).steps) = Len(doc.steps)
           /\ Held(doc, step, decision).index = doc.index
           /\ \A k \in DOMAIN doc.steps :
                Held(doc, step, decision).steps[k].status = doc.steps[k].status
<1> DEFINE old == doc.steps
           steps == [old EXCEPT ![step] = Refilled(old[step], step)]
           new == Rewritten(doc, steps, decision)
<1>1. /\ old \in Seq(StepRecord) /\ Len(old) \in Nat
      /\ DOMAIN old = 1..Len(old) /\ step \in DOMAIN old /\ step \in Nat /\ step # 0
      /\ \A k \in DOMAIN old : old[k] \in StepRecord
  BY DEF Doc
<1>2. Held(doc, step, decision) = new
  BY DEF Held, Rewritten, Refilled
<1>3. doc.index \in Nat /\ doc.completed \in Seq(Nat)
  BY DEF Doc
<1>4. AddsUp(doc) /\ doc.steps = old
  OBVIOUS
<1> HIDE DEF old
<1>5. /\ Refilled(old[step], step) \in StepRecord
      /\ Refilled(old[step], step).status = old[step].status
      /\ Refilled(old[step], step).content = step
  BY <1>1, StepFields
<1>6. \A k \in DOMAIN old :
        /\ steps[k] \in StepRecord /\ steps[k].status = old[k].status
        /\ old[k].content # 0 => steps[k].content # 0
  BY <1>1, <1>5
<1>7. steps \in Seq(StepRecord) /\ Len(steps) = Len(old) /\ DOMAIN steps = DOMAIN old
  BY <1>1, <1>6, StepSequence
<1> HIDE DEF steps
<1>8. /\ new \in Doc /\ new.steps = steps /\ new.index = doc.index
      /\ new.completed = doc.completed
  BY <1>3, <1>7, DocFields
<1> HIDE DEF new
<1>9. AddsUp(new)
  BY <1>1, <1>4, <1>6, <1>7, <1>8 DEF AddsUp
<1>10. QED
  BY <1>2, <1>4, <1>6, <1>7, <1>8, <1>9

-----------------------------------------------------------------------------
\* A request that moves on while the row stays.
LEMMA ThreadMoves ==
    ASSUME thread \in [Threads -> Request_], NEW t \in Threads, NEW now \in Request_,
           thread' = [thread EXCEPT ![t] = now]
    PROVE  /\ thread' \in [Threads -> Request_]
           /\ thread'[t] = now
           /\ \A o \in Threads \ {t} : thread'[o] = thread[o]
  OBVIOUS

LEMMA RequestMoves ==
    ASSUME Sound, NEW t \in Threads, UNCHANGED row,
           \A o \in Threads \ {t} : thread'[o] = thread[o], Underway(t)'
    PROVE  Sound'
<1>1. ASSUME NEW o \in Threads \ {t} PROVE Underway(o)'
  <2>1. AddsUp(thread[o].doc)' <=> AddsUp(thread[o].doc)
    OBVIOUS
  <2>2. Underway(o)
    BY DEF Sound
  <2>3. QED
    BY <2>1, <2>2 DEF Underway, At
<1>2. AddsUp(row)' /\ (row = NoRow \/ row.steps # <<>>)'
  BY DEF Sound, AddsUp, NoRow
<1>3. QED
  BY <1>1, <1>2 DEF Sound

LEMMA ThreadIdle ==
    ASSUME TypeOK, Sound, NEW t \in Threads, thread' = [thread EXCEPT ![t] = Idle], UNCHANGED row
    PROVE  thread' \in [Threads -> Request_] /\ Sound'
<1>1. thread' \in [Threads -> Request_] /\ thread'[t] = Idle
      /\ \A o \in Threads \ {t} : thread'[o] = thread[o]
  BY IdleType, ThreadMoves DEF TypeOK
<1>2. Underway(t)'
  BY <1>1, IdleType DEF Underway, At
<1>3. QED
  BY <1>1, <1>2, RequestMoves

\* A plan has at least the return.
LEMMA BlueprintType ==
    ASSUME NEW rebuild \in BOOLEAN, NEW repair \in BOOLEAN, NEW bridge \in BOOLEAN
    PROVE  /\ Blueprint(rebuild, repair, bridge) \in Seq(Phases)
           /\ Len(Blueprint(rebuild, repair, bridge)) > 0
<1>0. /\ <<>> \in Seq(Phases) /\ <<"step_back">> \in Seq(Phases) /\ <<"repair">> \in Seq(Phases)
      /\ <<"bridge">> \in Seq(Phases) /\ <<"return">> \in Seq(Phases) /\ Len(<<"return">>) = 1
  BY DEF Phases
<1> DEFINE a == IF rebuild THEN <<"step_back">> ELSE <<>>
           b == IF repair THEN <<"repair">> ELSE <<>>
           c == IF bridge THEN <<"bridge">> ELSE <<>>
           d == <<"return">>
<1>1. a \in Seq(Phases) /\ b \in Seq(Phases) /\ c \in Seq(Phases) /\ d \in Seq(Phases) /\ Len(d) = 1
  BY <1>0
<1>2. Blueprint(rebuild, repair, bridge) = ((a \o b) \o c) \o d
  BY DEF Blueprint
<1> HIDE DEF a, b, c, d
<1>3. a \o b \in Seq(Phases)
  BY <1>1, ConcatProperties
<1>4. (a \o b) \o c \in Seq(Phases)
  BY <1>1, <1>3, ConcatProperties
<1> DEFINE e == (a \o b) \o c
<1> HIDE DEF e
<1>5. e \o d \in Seq(Phases) /\ Len(e \o d) = Len(e) + Len(d) /\ Len(e) \in Nat
  BY <1>1, <1>4, ConcatProperties, LenProperties DEF e
<1>6. QED
  BY <1>1, <1>2, <1>5 DEF e

LEMMA TriggerStep ==
    ASSUME TypeOK, Sound, NEW t \in Threads, Trigger(t)
    PROVE  TypeOK' /\ Sound' /\ row'.index = 1 /\ row'.decision = "advance"
           /\ DOMAIN basis' = DOMAIN row'.steps
           /\ \A i \in DOMAIN row'.steps : row'.steps[i].status # "completed" /\ basis'[i] = "none"
<1>1. PICK rebuild \in BOOLEAN, repair \in BOOLEAN, bridge \in BOOLEAN :
        LET phases == Blueprint(rebuild, repair, bridge)
        IN  /\ row' = [NoRow EXCEPT !.steps = [i \in DOMAIN phases |->
                                       [Step(phases[i]) EXCEPT !.status =
                                           IF i = 1 THEN "active" ELSE @]],
                                    !.index = 1]
            /\ basis' = [i \in DOMAIN phases |-> "none"]
  BY DEF Trigger
<1> DEFINE phases == Blueprint(rebuild, repair, bridge)
<1>2. phases \in Seq(Phases) /\ Len(phases) > 0 /\ Len(phases) \in Nat /\ DOMAIN phases = 1..Len(phases)
  BY BlueprintType, LenProperties
<1>3. /\ row' = [NoRow EXCEPT !.steps = [i \in DOMAIN phases |->
                      [Step(phases[i]) EXCEPT !.status = IF i = 1 THEN "active" ELSE @]],
                             !.index = 1]
      /\ basis' = [i \in DOMAIN phases |-> "none"]
  BY <1>1
<1> HIDE DEF phases
<1> DEFINE steps == [i \in DOMAIN phases |->
                       [Step(phases[i]) EXCEPT !.status = IF i = 1 THEN "active" ELSE @]]
<1>4. \A i \in DOMAIN phases : steps[i] \in StepRecord
                                 /\ steps[i].status = IF i = 1 THEN "active" ELSE "pending"
  BY <1>2 DEF Step, StepRecord
<1>5. steps \in Seq(StepRecord) /\ Len(steps) = Len(phases) /\ DOMAIN steps = 1..Len(phases)
  <2>1. steps = [i \in 1..Len(phases) |-> steps[i]]
    BY <1>2
  <2> HIDE DEF steps
  <2>2. QED
    BY <1>2, <1>4, <2>1
<1> HIDE DEF steps
<1>6. /\ row' \in Doc /\ row'.steps = steps /\ row'.index = 1 /\ row'.completed = <<>>
      /\ row'.decision = "advance"
  <2>1. row' = [NoRow EXCEPT !.steps = steps, !.index = 1]
    BY <1>3 DEF steps
  <2>2. NoRow.completed = <<>> /\ NoRow.decision = "advance"
    BY DEF NoRow
  <2> DEFINE new == [NoRow EXCEPT !.steps = steps, !.index = 1]
  <2>3. /\ new \in Doc /\ new.steps = steps /\ new.index = 1
        /\ new.completed = NoRow.completed /\ new.decision = NoRow.decision
    BY <1>5, NoRowType DEF Doc
  <2>4. QED
    BY <2>1, <2>2, <2>3
<1>7. AddsUp(row)'
  BY <1>2, <1>4, <1>5, <1>6 DEF AddsUp
<1> DEFINE now == [Idle EXCEPT !.pc = "record", !.at = 1, !.step = 1]
<1>8. now \in Request_ /\ now.pc = "record" /\ now.at = 1 /\ now.step = 1 /\ now.decision = "advance"
  BY IdleType DEF Idle, Request_, Decisions
<1>9. thread' = [thread EXCEPT ![t] = now]
  BY DEF Trigger
<1> HIDE DEF now
<1>10. thread' \in [Threads -> Request_] /\ thread'[t] = now
       /\ \A o \in Threads \ {t} : thread'[o] = thread[o]
  BY <1>8, <1>9, ThreadMoves DEF TypeOK
<1>11. TypeOK'
  BY <1>3, <1>5, <1>6, <1>10, <1>2 DEF TypeOK, Trigger
<1>12. \A o \in Threads \ {t} : At(o, "idle")
  BY NoRowType DEF Trigger, Sound, Underway
<1>13. \A o \in Threads : Underway(o)'
  BY <1>2, <1>5, <1>6, <1>8, <1>10, <1>12 DEF Underway, At
<1>14. Sound'
  BY <1>2, <1>5, <1>6, <1>7, <1>13 DEF Sound
<1>15. DOMAIN basis' = DOMAIN row'.steps /\ \A i \in DOMAIN row'.steps : basis'[i] = "none"
  BY <1>2, <1>3, <1>5, <1>6
<1>16. \A i \in DOMAIN row'.steps : row'.steps[i].status # "completed"
  BY <1>2, <1>4, <1>5, <1>6
<1>17. QED
  BY <1>6, <1>11, <1>14, <1>15, <1>16

-----------------------------------------------------------------------------
(* The gate.                                                                *)

LEMMA LatestOf ==
    ASSUME NEW n, NEW works
    PROVE  /\ DOMAIN Latest(n, works) \subseteq DOMAIN works
           /\ \A i \in DOMAIN Latest(n, works) : Latest(n, works)[i] = works[i]
  BY DEF Latest, Restrict

LEMMA MatchingOf ==
    ASSUME TypeOK, NEW doc, NEW step
    PROVE  \A i \in DOMAIN Matching(doc, step) : Matching(doc, step)[i] \in Work
<1>1. \A i \in DOMAIN observed : observed[i].work \in Work
  <2> DEFINE S == [work : Work, about : Nat]
  <2>1. observed \in Seq(S)
    BY DEF TypeOK
  <2> HIDE DEF S
  <2>2. \A i \in DOMAIN observed : observed[i] \in S
    BY <2>1
  <2>3. QED
    BY <2>2 DEF S
<1>2. QED
  BY <1>1 DEF Matching

\* The gate lets a session go on only past work that rests on the learner's own.
LEMMA GateRests ==
    ASSUME RemediationAssumption, TypeOK, NEW doc \in Doc
    PROVE  /\ ProgressDecision(doc) \in Decisions
           /\ Rests(doc) \in {"unheard", "rested", "unrested"}
           /\ ProgressDecision(doc) # "advance" => doc.index > 1
           /\ ProgressDecision(doc) = "advance" => Rests(doc) # "unrested"
<1>1. CASE doc.index = 0 \/ ~Gated(doc, doc.index)
  BY <1>1 DEF ProgressDecision, Rests, Decisions
<1>2. CASE doc.index # 0 /\ Gated(doc, doc.index)
  <2> DEFINE matched == Matching(doc, doc.index - 1)
             current == doc.steps[doc.index].phase
             prior == doc.steps[doc.index - 1].phase
             Leans(o) == o.completed /\ o.support = "high" /\ o.hints > 1
             Own(o) == o.completed /\ \/ o.support # "high"
                                      \/ current = "bridge" /\ o.errors = 0 /\ o.hints < 2
  <2>1. ProgressDecision(doc) =
          IF DOMAIN matched = {} \/ ~ShouldHold(current, prior, matched)
          THEN "advance"
          ELSE IF prior = "bridge" THEN "hold_bridge_target" ELSE "hold_repair_target"
    BY <1>2 DEF ProgressDecision
  <2>2. Rests(doc) =
          IF DOMAIN matched = {} THEN "unheard"
          ELSE IF /\ \E i \in DOMAIN matched : Own(matched[i])
                  /\ ~\E i \in DOMAIN matched : Leans(matched[i])
          THEN "rested" ELSE "unrested"
    BY <1>2 DEF Rests, Some
  <2>3. doc.index > 1 /\ current \in {"bridge", "return"}
    BY <1>2 DEF Gated
  <2>4. \A i \in DOMAIN matched : matched[i] \in Work
    BY MatchingOf
  <2> DEFINE scored == Latest(3, matched)
  <2>5. DOMAIN scored \subseteq DOMAIN matched /\ \A i \in DOMAIN scored : scored[i] = matched[i]
    BY LatestOf
  <2>6. ~ShouldHold(current, prior, matched) =>
          /\ ~Some(HighSupportSuccess, matched)
          /\ \/ Some(LowSupportSuccess, scored)
             \/ Some(GuidedSuccess, scored)
             \/ current # "return" /\ Some(LAMBDA o : Strength(o) = "demonstrated", scored)
    BY DEF ShouldHold
  <2> HIDE DEF matched, scored, current, prior
  <2>7. ~Some(HighSupportSuccess, matched) => ~\E i \in DOMAIN matched : Leans(matched[i])
    BY <2>4 DEF Some, HighSupportSuccess, RemediationAssumption
  <2>8. Some(LowSupportSuccess, scored) => \E i \in DOMAIN matched : Own(matched[i])
    BY <2>5 DEF Some, LowSupportSuccess
  <2>9. Some(GuidedSuccess, scored) => \E i \in DOMAIN matched : Own(matched[i])
    BY <2>5 DEF Some, GuidedSuccess
  <2>10. current # "return" /\ Some(LAMBDA o : Strength(o) = "demonstrated", scored) =>
           \E i \in DOMAIN matched : Own(matched[i])
    BY <2>3, <2>4, <2>5 DEF Some, Strength, RemediationAssumption
  <2>11. ProgressDecision(doc) = "advance" => Rests(doc) # "unrested"
    BY <2>1, <2>2, <2>6, <2>7, <2>8, <2>9, <2>10
  <2>12. QED
    BY <2>1, <2>2, <2>3, <2>11 DEF Decisions
<1>3. QED
  BY <1>1, <1>2

-----------------------------------------------------------------------------
(* Type and sum of the row, for any number of requests at once.             *)

LEMMA NewestType ==
    ASSUME RemediationAssumption, NEW S, NEW s \in Seq(S)
    PROVE  Newest(Window, s) \in Seq(S)
<1>1. Len(s) \in Nat /\ Window \in Nat
  BY DEF RemediationAssumption
<1>2. Min({Window, Len(s)}) \in Nat /\ Min({Window, Len(s)}) <= Len(s)
  <2>1. CASE Window <= Len(s)
    BY <1>1, <2>1 DEF Min
  <2>2. CASE Len(s) <= Window
    BY <1>1, <2>2 DEF Min
  <2>3. QED
    BY <1>1, <2>1, <2>2
<1>3. QED
  <2> DEFINE n == Min({Window, Len(s)})
  <2> HIDE DEF n
  <2>1. n \in Nat /\ n <= Len(s)
    BY <1>2 DEF n
  <2>2. \A i \in 1..n : s[i] \in S
    BY <1>1, <2>1
  <2>3. SubSeq(s, 1, n) \in Seq(S)
    BY <1>1, <2>1, <2>2
  <2>4. QED
    BY <2>3 DEF Newest, n

LEMMA Steps ==
    ASSUME RemediationAssumption, TypeOK, Sound, NEW t \in Threads
    PROVE  /\ Advance(t) => TypeOK' /\ Sound'
           /\ Request(t) => TypeOK' /\ Sound'
           /\ RecordRead(t) => TypeOK' /\ Sound'
           /\ RecordWrite(t) => TypeOK' /\ Sound'
           /\ Fail(t) => TypeOK' /\ Sound'
<1> DEFINE me == thread[t]
<1>0. /\ me \in Request_ /\ thread \in [Threads -> Request_] /\ row \in Doc
      /\ AddsUp(row) /\ Underway(t)
  BY DEF TypeOK, Sound
<1>1. ASSUME Advance(t) PROVE TypeOK' /\ Sound'
  <2> DEFINE now == [Idle EXCEPT !.pc = "request", !.decision = ProgressDecision(row),
                                 !.at = row.index, !.rests = Rests(row)]
  <2>1. thread' = [thread EXCEPT ![t] = now] /\ UNCHANGED <<row, observed, offered, basis>>
        /\ overlap' \in BOOLEAN
    BY <1>1 DEF Advance, TypeOK
  <2>2. row.steps # <<>> /\ row.index <= Len(row.steps) /\ row.index \in Nat
    BY <1>0, <1>1 DEF Advance, Sound, AddsUp, Doc
  <2>3. /\ now \in Request_ /\ now.pc = "request" /\ now.at = row.index
        /\ now.decision # "advance" => now.at > 1
    BY <1>0, <2>2, IdleType, GateRests DEF Request_
  <2> HIDE DEF now
  <2>4. thread' \in [Threads -> Request_] /\ thread'[t] = now
        /\ \A o \in Threads \ {t} : thread'[o] = thread[o]
    BY <1>0, <2>1, <2>3, ThreadMoves
  <2>5. Underway(t)'
    BY <2>1, <2>2, <2>3, <2>4 DEF Underway, At
  <2>6. QED
    BY <2>1, <2>4, <2>5, RequestMoves DEF TypeOK
<1>2. ASSUME Request(t) PROVE TypeOK' /\ Sound'
  <2>1. At(t, "request") /\ UNCHANGED <<row, observed, offered, basis, overlap>>
    BY <1>2 DEF Request
  <2>2. CASE thread' = [thread EXCEPT ![t] = Idle]
    BY <2>1, <2>2, ThreadIdle DEF TypeOK
  <2>3. CASE /\ me.decision # "advance"
             /\ thread' = [thread EXCEPT ![t] = [me EXCEPT !.pc = "record", !.step = me.at - 1]]
    <3> DEFINE now == [me EXCEPT !.pc = "record", !.step = me.at - 1]
    <3>1. me.at > 1 /\ me.at <= Len(row.steps) /\ me.at \in Nat /\ row.steps # <<>>
      BY <1>0, <2>1, <2>3 DEF Underway, At, Request_
    <3>2. /\ now \in Request_ /\ now.pc = "record" /\ now.at = me.at
          /\ now.decision = me.decision /\ now.step = me.at - 1
      <4>1. me.at - 1 \in Nat
        BY <3>1
      <4> DEFINE step == me.at - 1
      <4> HIDE DEF step
      <4>2. QED
        BY <1>0, <4>1 DEF Request_, step
    <3> HIDE DEF now
    <3>3. thread' \in [Threads -> Request_] /\ thread'[t] = now
          /\ \A o \in Threads \ {t} : thread'[o] = thread[o]
      BY <1>0, <2>3, <3>2, ThreadMoves DEF now
    <3>4. now.step \in DOMAIN row.steps
      BY <1>0, <3>1, <3>2 DEF Doc
    <3>5. Underway(t)'
      BY <2>1, <3>1, <3>2, <3>3, <3>4 DEF Underway, At
    <3>6. QED
      BY <2>1, <3>3, <3>5, RequestMoves DEF TypeOK
  <2>4. CASE /\ me.decision = "advance" /\ row.index # 0
             /\ thread' = [thread EXCEPT ![t] = [me EXCEPT !.pc = "record", !.step = row.index]]
    <3> DEFINE now == [me EXCEPT !.pc = "record", !.step = row.index]
    <3>1. me.at <= Len(row.steps) /\ row.steps # <<>> /\ row.index \in DOMAIN row.steps
          /\ row.index \in Nat
      BY <1>0, <2>1, <2>4 DEF Underway, At, AddsUp, Doc
    <3>2. /\ now \in Request_ /\ now.pc = "record" /\ now.at = me.at
          /\ now.decision = me.decision /\ now.step = row.index
      BY <1>0, <3>1 DEF Request_
    <3> HIDE DEF now
    <3>3. thread' \in [Threads -> Request_] /\ thread'[t] = now
          /\ \A o \in Threads \ {t} : thread'[o] = thread[o]
      BY <1>0, <2>4, <3>2, ThreadMoves DEF now
    <3>4. Underway(t)'
      BY <2>1, <2>4, <3>1, <3>2, <3>3 DEF Underway, At
    <3>5. QED
      BY <2>1, <3>3, <3>4, RequestMoves DEF TypeOK
  <2>5. QED
    BY <1>2, <1>0, <2>2, <2>3, <2>4 DEF Request
<1>3. ASSUME RecordRead(t) PROVE TypeOK' /\ Sound'
  <2>1. At(t, "record") /\ UNCHANGED <<row, observed, offered, basis, overlap>>
    BY <1>3 DEF RecordRead
  <2>2. /\ me.step \in DOMAIN row.steps /\ me.at <= Len(row.steps) /\ row.steps # <<>>
        /\ me.decision # "advance" => me.at > 1
        /\ me.decision \in Decisions /\ me.step \in Nat \ {0}
    BY <1>0, <2>1 DEF Underway, At, Request_, Doc
  <2>3. CASE thread' = [thread EXCEPT ![t] = Idle]
    BY <2>1, <2>3, ThreadIdle DEF TypeOK
  <2>4. ASSUME NEW new \in Doc, AddsUp(new), Len(new.steps) = Len(row.steps),
               thread' = [thread EXCEPT ![t] = [me EXCEPT !.pc = "write", !.doc = new]]
        PROVE  TypeOK' /\ Sound'
    <3> DEFINE now == [me EXCEPT !.pc = "write", !.doc = new]
    <3>1. /\ now \in Request_ /\ now.pc = "write" /\ now.at = me.at
          /\ now.decision = me.decision /\ now.step = me.step /\ now.doc = new
      BY <1>0, <2>4 DEF Request_
    <3> HIDE DEF now
    <3>2. thread' \in [Threads -> Request_] /\ thread'[t] = now
          /\ \A o \in Threads \ {t} : thread'[o] = thread[o]
      BY <1>0, <2>4, <3>1, ThreadMoves DEF now
    <3>3. Underway(t)'
      BY <2>1, <2>2, <2>4, <3>1, <3>2 DEF Underway, At, AddsUp
    <3>4. QED
      BY <2>1, <3>2, <3>3, RequestMoves DEF TypeOK
  <2>5. CASE me.decision # "advance"
    <3>1. thread' = [thread EXCEPT ![t] = [me EXCEPT !.pc = "write",
                                                     !.doc = Held(row, me.step, me.decision)]]
      BY <1>3, <1>0, <2>5 DEF RecordRead
    <3>2. /\ Held(row, me.step, me.decision) \in Doc /\ AddsUp(Held(row, me.step, me.decision))
          /\ Len(Held(row, me.step, me.decision).steps) = Len(row.steps)
      BY <1>0, <2>2, HeldAddsUp
    <3>3. QED
      BY <2>4, <3>1, <3>2
  <2>6. CASE me.decision = "advance" /\ row.index # 0
    <3>1. thread' = [thread EXCEPT ![t] = [me EXCEPT !.pc = "write",
                                                     !.doc = Completed(row, me.step)]]
      BY <1>3, <1>0, <2>6 DEF RecordRead
    <3>2. /\ Completed(row, me.step) \in Doc /\ AddsUp(Completed(row, me.step))
          /\ Len(Completed(row, me.step).steps) = Len(row.steps)
      BY <1>0, <2>2, <2>6, CompletedAddsUp
    <3>3. QED
      BY <2>4, <3>1, <3>2
  <2>7. QED
    BY <1>3, <1>0, <2>3, <2>5, <2>6 DEF RecordRead
<1>4. ASSUME RecordWrite(t) PROVE TypeOK' /\ Sound'
  <2>1. /\ At(t, "write") /\ row' = me.doc /\ offered' = offered \cup {me.step}
        /\ thread' = [thread EXCEPT ![t] = Idle] /\ UNCHANGED <<observed, overlap>>
        /\ basis' = [i \in DOMAIN basis |->
                       IF i \notin Passed(me.doc) THEN basis[i]
                       ELSE IF me.at = i THEN me.rests ELSE "skipped"]
    BY <1>4 DEF RecordWrite
  <2>2. /\ me.doc \in Doc /\ AddsUp(me.doc) /\ Len(me.doc.steps) = Len(row.steps)
        /\ row.steps # <<>> /\ me.step \in Nat /\ me.rests \in {"unheard", "rested", "unrested"}
    BY <1>0, <2>1 DEF Underway, At, Request_
  <2>3. DOMAIN row'.steps = DOMAIN row.steps /\ row'.steps # <<>> /\ Len(row'.steps) = Len(row.steps)
    BY <1>0, <2>1, <2>2 DEF Doc
  <2>4. thread' \in [Threads -> Request_] /\ thread'[t] = Idle
        /\ \A o \in Threads \ {t} : thread'[o] = thread[o]
    BY <1>0, <2>1, IdleType, ThreadMoves
  <2>5. basis' \in [DOMAIN row'.steps -> {"none", "unheard", "rested", "unrested", "skipped"}]
    BY <2>1, <2>2, <2>3 DEF TypeOK
  <2>6. TypeOK'
    BY <2>1, <2>2, <2>4, <2>5 DEF TypeOK
  <2>7. ASSUME NEW o \in Threads PROVE Underway(o)'
    <3>1. CASE o = t
      BY <2>4, <3>1, IdleType DEF Underway, At
    <3>2. CASE o # t
      <4>1. thread'[o] = thread[o] /\ Underway(o)
        BY <1>0, <2>4, <3>2 DEF Sound
      <4>2. AddsUp(thread[o].doc)' <=> AddsUp(thread[o].doc)
        BY <4>1 DEF AddsUp
      <4>3. QED
        BY <2>3, <4>1, <4>2 DEF Underway, At
    <3>3. QED
      BY <3>1, <3>2
  <2>8. AddsUp(row)'
    BY <2>1, <2>2 DEF AddsUp
  <2>9. QED
    BY <2>3, <2>6, <2>7, <2>8 DEF Sound
<1>5. ASSUME Fail(t) PROVE TypeOK' /\ Sound'
  BY <1>5, ThreadIdle DEF Fail, TypeOK
<1>6. QED
  BY <1>1, <1>2, <1>3, <1>4, <1>5

LEMMA ObserveStep ==
    ASSUME RemediationAssumption, TypeOK, Sound, Observe
    PROVE  TypeOK' /\ Sound'
<1>1. PICK work \in Work, about \in offered \cup {0} :
        observed' = Newest(Window, <<[work |-> work, about |-> about]>> \o observed)
  BY DEF Observe
<1> DEFINE S == [work : Work, about : Nat]
<1>2. [work |-> work, about |-> about] \in S
  BY DEF TypeOK
<1>3. <<[work |-> work, about |-> about]>> \in Seq(S) /\ observed \in Seq(S)
  BY <1>2 DEF TypeOK
<1>4. <<[work |-> work, about |-> about]>> \o observed \in Seq(S)
  BY <1>3, ConcatProperties
<1>5. observed' \in Seq(S)
  BY <1>1, <1>4, NewestType
<1>6. TypeOK'
  BY <1>5 DEF Observe, TypeOK
<1>7. Sound'
  BY DEF Observe, Sound, Underway, At, AddsUp
<1>8. QED
  BY <1>6, <1>7

-----------------------------------------------------------------------------
(* Requests that come one at a time.                                        *)

\* Every step passed was passed on work that is on record, none on the wrong one,
\* and a session that is complete does not hold.
Earned ==
    /\ \A i \in DOMAIN row.steps :
         /\ basis[i] \notin {"unrested", "skipped"}
         /\ row.steps[i].status = "completed" => basis[i] # "none"
    /\ row.index = 0 => row.decision = "advance"

\* A request that meets no other finds the row as it read it, up to its write.
Current(t) ==
    ~At(t, "idle") =>
        /\ thread[t].at = row.index
        /\ thread[t].decision = "advance" => thread[t].rests # "unrested"
        /\ At(t, "write") =>
             /\ row.index # 0
             /\ thread[t].doc = IF thread[t].decision = "advance"
                                THEN Completed(row, thread[t].step)
                                ELSE Held(row, thread[t].step, thread[t].decision)

Alone ==
    ~overlap => /\ \A t, u \in Threads : t # u => At(t, "idle") \/ At(u, "idle")
                /\ \A t \in Threads : Current(t)
                /\ Earned

IInv == TypeOK /\ Sound /\ Alone

LEMMA AloneMoves ==
    ASSUME IInv, NEW t \in Threads, ~At(t, "idle"), UNCHANGED <<row, basis, overlap>>,
           \A o \in Threads \ {t} : thread'[o] = thread[o], ~overlap => Current(t)'
    PROVE  Alone'
<1> SUFFICES ASSUME ~overlap' PROVE Alone'
  BY DEF Alone
<1>1. ~overlap /\ Alone
  BY DEF IInv
<1>2. \A o \in Threads \ {t} : At(o, "idle") /\ At(o, "idle")'
  BY <1>1 DEF Alone, At
<1>3. \A o \in Threads : Current(o)'
  BY <1>1, <1>2 DEF Current
<1>4. \A o, u \in Threads : o # u => At(o, "idle")' \/ At(u, "idle")'
  BY <1>2
<1>5. Earned'
  BY <1>1 DEF Alone, Earned
<1>6. QED
  BY <1>3, <1>4, <1>5 DEF Alone

LEMMA AloneIdle ==
    ASSUME IInv, NEW t \in Threads, ~At(t, "idle"), UNCHANGED <<row, basis, overlap>>,
           thread' = [thread EXCEPT ![t] = Idle]
    PROVE  Alone'
<1>1. thread'[t] = Idle /\ \A o \in Threads \ {t} : thread'[o] = thread[o]
  BY IdleType, ThreadMoves DEF IInv, TypeOK
<1>2. Current(t)'
  BY <1>1, IdleType DEF Current, At
<1>3. QED
  BY <1>1, <1>2, AloneMoves

LEMMA AloneSteps ==
    ASSUME RemediationAssumption, IInv, NEW t \in Threads
    PROVE  /\ Trigger(t) => Alone'
           /\ Advance(t) => Alone'
           /\ Request(t) => Alone'
           /\ RecordRead(t) => Alone'
           /\ Fail(t) => Alone'
<1> DEFINE me == thread[t]
<1>0. /\ me \in Request_ /\ thread \in [Threads -> Request_] /\ row \in Doc
      /\ AddsUp(row) /\ Underway(t) /\ TypeOK /\ Sound
  BY DEF IInv, TypeOK, Sound
<1>1. ASSUME Trigger(t) PROVE Alone'
  <2>1. /\ row'.index = 1 /\ row'.decision = "advance" /\ DOMAIN basis' = DOMAIN row'.steps
        /\ \A i \in DOMAIN row'.steps : row'.steps[i].status # "completed" /\ basis'[i] = "none"
    BY <1>0, <1>1, TriggerStep
  <2>2. Earned'
    BY <2>1 DEF Earned
  <2> DEFINE now == [Idle EXCEPT !.pc = "record", !.at = 1, !.step = 1]
  <2>3. now \in Request_ /\ now.pc = "record" /\ now.at = 1 /\ now.rests = "unheard"
    BY IdleType DEF Idle, Request_, Decisions
  <2>4. thread' = [thread EXCEPT ![t] = now]
    BY <1>1 DEF Trigger
  <2> HIDE DEF now
  <2>5. thread'[t] = now /\ \A o \in Threads \ {t} : thread'[o] = thread[o]
    BY <1>0, <2>3, <2>4, ThreadMoves
  <2>6. \A o \in Threads \ {t} : At(o, "idle")'
    BY <1>0, <1>1, <2>5, NoRowType DEF Trigger, Sound, Underway, At
  <2>7. \A o \in Threads : Current(o)'
    BY <2>1, <2>3, <2>5, <2>6 DEF Current, At
  <2>8. \A o, u \in Threads : o # u => At(o, "idle")' \/ At(u, "idle")'
    BY <2>6
  <2>9. QED
    BY <2>2, <2>7, <2>8 DEF Alone
<1>2. ASSUME Advance(t) PROVE Alone'
  <2> SUFFICES ASSUME ~overlap' PROVE Alone'
    BY DEF Alone
  <2>1. ~overlap /\ (\A o \in Threads : At(o, "idle")) /\ UNCHANGED <<row, basis>>
    BY <1>2 DEF Advance
  <2> DEFINE now == [Idle EXCEPT !.pc = "request", !.decision = ProgressDecision(row),
                                 !.at = row.index, !.rests = Rests(row)]
  <2>2. thread' = [thread EXCEPT ![t] = now]
    BY <1>2 DEF Advance
  <2>3. row.index \in Nat
    BY <1>0 DEF Doc
  <2>4. /\ now \in Request_ /\ now.pc = "request" /\ now.at = row.index
        /\ now.decision = "advance" => now.rests # "unrested"
    BY <1>0, <2>3, IdleType, GateRests DEF Request_
  <2> HIDE DEF now
  <2>5. thread'[t] = now /\ \A o \in Threads \ {t} : thread'[o] = thread[o]
    BY <1>0, <2>2, <2>4, ThreadMoves
  <2>6. \A o \in Threads \ {t} : At(o, "idle")'
    BY <2>1, <2>5 DEF At
  <2>7. \A o \in Threads : Current(o)'
    BY <2>1, <2>4, <2>5, <2>6 DEF Current, At
  <2>8. \A o, u \in Threads : o # u => At(o, "idle")' \/ At(u, "idle")'
    BY <2>6
  <2>9. Earned'
    BY <2>1 DEF IInv, Alone, Earned
  <2>10. QED
    BY <2>7, <2>8, <2>9 DEF Alone
<1>3. ASSUME Request(t) PROVE Alone'
  <2>1. At(t, "request") /\ ~At(t, "idle") /\ UNCHANGED <<row, basis, overlap>>
    BY <1>3 DEF Request, At
  <2>2. CASE thread' = [thread EXCEPT ![t] = Idle]
    BY <2>1, <2>2, AloneIdle
  <2>3. ASSUME NEW step \in Nat,
               thread' = [thread EXCEPT ![t] = [me EXCEPT !.pc = "record", !.step = step]]
        PROVE  Alone'
    <3> DEFINE now == [me EXCEPT !.pc = "record", !.step = step]
    <3>1. /\ now \in Request_ /\ now.pc = "record" /\ now.at = me.at
          /\ now.decision = me.decision /\ now.rests = me.rests
      BY <1>0 DEF Request_
    <3> HIDE DEF now
    <3>2. thread'[t] = now /\ \A o \in Threads \ {t} : thread'[o] = thread[o]
      BY <1>0, <2>3, <3>1, ThreadMoves DEF now
    <3>3. ~overlap => Current(t)
      BY DEF IInv, Alone
    <3>4. ~overlap => Current(t)'
      BY <2>1, <3>1, <3>2, <3>3 DEF Current, At
    <3>5. QED
      BY <2>1, <3>2, <3>4, AloneMoves
  <2>4. CASE me.decision # "advance"
    <3>1. me.at - 1 \in Nat
      BY <1>0, <2>1, <2>4 DEF Underway, At, Request_
    <3>2. thread' = [thread EXCEPT ![t] = [me EXCEPT !.pc = "record", !.step = me.at - 1]]
      BY <1>3, <1>0, <2>4 DEF Request
    <3>3. QED
      BY <2>3, <3>1, <3>2
  <2>5. CASE me.decision = "advance" /\ row.index # 0
    <3>1. row.index \in Nat
      BY <1>0 DEF Doc
    <3>2. thread' = [thread EXCEPT ![t] = [me EXCEPT !.pc = "record", !.step = row.index]]
      BY <1>3, <1>0, <2>5 DEF Request
    <3>3. QED
      BY <2>3, <3>1, <3>2
  <2>6. QED
    BY <1>3, <1>0, <2>2, <2>4, <2>5 DEF Request
<1>4. ASSUME RecordRead(t) PROVE Alone'
  <2>1. At(t, "record") /\ ~At(t, "idle") /\ UNCHANGED <<row, basis, overlap>>
    BY <1>4 DEF RecordRead, At
  <2>2. CASE thread' = [thread EXCEPT ![t] = Idle]
    BY <2>1, <2>2, AloneIdle
  <2>3. /\ me.step \in DOMAIN row.steps /\ me.decision \in Decisions /\ me.step \in Nat \ {0}
        /\ me.decision # "advance" => me.at > 1
    BY <1>0, <2>1 DEF Underway, At, Request_, Doc
  <2>4. ASSUME NEW new \in Doc, ~overlap => row.index # 0,
               new = IF me.decision = "advance" THEN Completed(row, me.step)
                     ELSE Held(row, me.step, me.decision),
               thread' = [thread EXCEPT ![t] = [me EXCEPT !.pc = "write", !.doc = new]]
        PROVE  Alone'
    <3> DEFINE now == [me EXCEPT !.pc = "write", !.doc = new]
    <3>1. /\ now \in Request_ /\ now.pc = "write" /\ now.at = me.at /\ now.step = me.step
          /\ now.decision = me.decision /\ now.rests = me.rests /\ now.doc = new
      BY <1>0, <2>4 DEF Request_
    <3> HIDE DEF now
    <3>2. thread'[t] = now /\ \A o \in Threads \ {t} : thread'[o] = thread[o]
      BY <1>0, <2>4, <3>1, ThreadMoves DEF now
    <3>3. ~overlap => Current(t)
      BY DEF IInv, Alone
    <3>4. ~overlap => Current(t)'
      BY <2>1, <2>4, <3>1, <3>2, <3>3 DEF Current, At
    <3>5. QED
      BY <2>1, <3>2, <3>4, AloneMoves
  <2>5. CASE me.decision # "advance"
    <3>1. ~overlap => row.index # 0
      BY <1>0, <2>1, <2>3, <2>5 DEF IInv, Alone, Current
    <3>2. Held(row, me.step, me.decision) \in Doc
      BY <1>0, <2>3, HeldAddsUp
    <3>3. thread' = [thread EXCEPT ![t] = [me EXCEPT !.pc = "write",
                                                     !.doc = Held(row, me.step, me.decision)]]
      BY <1>4, <1>0, <2>5 DEF RecordRead
    <3>4. QED
      BY <2>4, <2>5, <3>1, <3>2, <3>3
  <2>6. CASE me.decision = "advance" /\ row.index # 0
    <3>1. Completed(row, me.step) \in Doc
      BY <1>0, <2>3, <2>6, CompletedAddsUp
    <3>2. thread' = [thread EXCEPT ![t] = [me EXCEPT !.pc = "write",
                                                     !.doc = Completed(row, me.step)]]
      BY <1>4, <1>0, <2>6 DEF RecordRead
    <3>3. QED
      BY <2>4, <2>6, <3>1, <3>2
  <2>7. QED
    BY <1>4, <1>0, <2>2, <2>5, <2>6 DEF RecordRead
<1>5. ASSUME Fail(t) PROVE Alone'
  BY <1>5, AloneIdle DEF Fail
<1>6. QED
  BY <1>1, <1>2, <1>3, <1>4, <1>5

\* The write of a request that met no other passes at most the step the gate was
\* put to, and a session that holds is not complete.
LEMMA AloneWrite ==
    ASSUME RemediationAssumption, IInv, NEW t \in Threads, RecordWrite(t)
    PROVE  Alone'
<1> SUFFICES ASSUME ~overlap' PROVE Alone'
  BY DEF Alone
<1> DEFINE me == thread[t]
<1>1. /\ At(t, "write") /\ ~At(t, "idle") /\ row' = me.doc /\ ~overlap
      /\ thread' = [thread EXCEPT ![t] = Idle]
      /\ basis' = [i \in DOMAIN basis |->
                     IF i \notin Passed(me.doc) THEN basis[i]
                     ELSE IF me.at = i THEN me.rests ELSE "skipped"]
  BY DEF RecordWrite, At
<1>2. /\ me \in Request_ /\ row \in Doc /\ AddsUp(row) /\ Underway(t)
      /\ DOMAIN basis = DOMAIN row.steps
  BY DEF IInv, TypeOK, Sound
<1>3. /\ me.at = row.index /\ row.index # 0
      /\ me.decision = "advance" => me.rests # "unrested" /\ me.doc = Completed(row, me.step)
      /\ me.decision # "advance" => me.doc = Held(row, me.step, me.decision)
      /\ Earned
  BY <1>1 DEF IInv, Alone, Current
<1>4. /\ me.step \in DOMAIN row.steps /\ me.step \in Nat \ {0} /\ me.decision \in Decisions
      /\ me.rests \in {"unheard", "rested", "unrested"}
      /\ DOMAIN me.doc.steps = DOMAIN row.steps
  BY <1>1, <1>2 DEF Underway, At, Request_, Doc
<1>5. thread'[t] = Idle /\ \A o \in Threads \ {t} : thread'[o] = thread[o]
  BY <1>1, IdleType, ThreadMoves DEF IInv, TypeOK
<1>6. \A o \in Threads : At(o, "idle")'
  BY <1>1, <1>5, IdleType DEF IInv, Alone, At
<1>7. Earned'
  <2>1. CASE me.decision = "advance"
    <3>1. /\ me.doc.decision = "advance"
          /\ \A k \in DOMAIN row.steps : k # row.index =>
               (me.doc.steps[k].status = "completed" <=> row.steps[k].status = "completed")
      BY <1>2, <1>3, <1>4, <2>1, CompletedAddsUp
    <3>2. \A i \in DOMAIN row.steps : i \in Passed(me.doc) => i = row.index
      BY <1>3, <3>1 DEF Passed, Earned
    <3>3. \A i \in DOMAIN row.steps : me.doc.steps[i].status = "completed" /\ basis[i] = "none"
                                        => i \in Passed(me.doc)
      BY <1>4 DEF Passed
    <3>4. ASSUME NEW i \in DOMAIN row.steps
          PROVE  /\ basis'[i] \notin {"unrested", "skipped"}
                 /\ me.doc.steps[i].status = "completed" => basis'[i] # "none"
      <4>1. CASE i \in Passed(me.doc)
        BY <1>1, <1>2, <1>3, <1>4, <2>1, <3>2, <4>1
      <4>2. CASE i \notin Passed(me.doc)
        <5>1. basis'[i] = basis[i]
          BY <1>1, <1>2, <4>2
        <5>2. QED
          BY <1>3, <3>3, <4>2, <5>1 DEF Earned
      <4>3. QED
        BY <4>1, <4>2
    <3>5. QED
      BY <1>1, <1>4, <3>1, <3>4 DEF Earned
  <2>2. CASE me.decision # "advance"
    <3>1. /\ me.doc.index = row.index
          /\ \A k \in DOMAIN row.steps : me.doc.steps[k].status = row.steps[k].status
      BY <1>2, <1>3, <1>4, <2>2, HeldAddsUp
    <3>2. Passed(me.doc) = {}
      BY <1>3, <1>4, <3>1 DEF Passed, Earned
    <3>3. \A i \in DOMAIN row.steps : basis'[i] = basis[i]
      BY <1>1, <1>2, <3>2
    <3>4. DOMAIN row'.steps = DOMAIN row.steps
      BY <1>1, <1>4
    <3>5. \A i \in DOMAIN row'.steps : /\ basis'[i] = basis[i]
                                       /\ row'.steps[i].status = row.steps[i].status
      BY <1>1, <3>1, <3>3, <3>4
    <3>6. row'.index # 0
      BY <1>1, <1>3, <3>1
    <3>7. \A i \in DOMAIN row.steps :
            /\ basis[i] \notin {"unrested", "skipped"}
            /\ row.steps[i].status = "completed" => basis[i] # "none"
      BY <1>3 DEF Earned
    <3>8. QED
      BY <3>4, <3>5, <3>6, <3>7 DEF Earned
  <2>3. QED
    BY <2>1, <2>2
<1>8. \A o \in Threads : Current(o)'
  BY <1>6 DEF Current
<1>9. QED
  BY <1>6, <1>7, <1>8 DEF Alone

-----------------------------------------------------------------------------
LEMMA InitIInv == Init => IInv
<1> SUFFICES ASSUME Init PROVE IInv
  OBVIOUS
<1>1. thread \in [Threads -> Request_] /\ \A t \in Threads : At(t, "idle")
  BY IdleType DEF Init, At
<1>2. row = NoRow /\ row \in Doc /\ AddsUp(row) /\ row.steps = <<>> /\ row.decision = "advance"
  BY NoRowType DEF Init, NoRow
<1>3. TypeOK
  <2> DEFINE S == [work : Work, about : Nat]
             B == {"none", "unheard", "rested", "unrested", "skipped"}
  <2> HIDE DEF S, B
  <2>1. observed \in Seq(S)
    BY DEF Init
  <2>2. DOMAIN row.steps = {} /\ DOMAIN basis = {} /\ basis = [i \in {} |-> basis[i]]
    BY <1>2 DEF Init
  <2>3. basis \in [DOMAIN row.steps -> B]
    BY <2>2
  <2>4. QED
    BY <1>1, <1>2, <2>1, <2>3 DEF Init, TypeOK, S, B
<1>4. Sound
  BY <1>1, <1>2 DEF Sound, Underway
<1>5. Alone
  BY <1>1, <1>2 DEF Alone, Current, Earned
<1>6. QED
  BY <1>3, <1>4, <1>5 DEF IInv

LEMMA NextIInv == RemediationAssumption /\ IInv /\ [Next]_vars => IInv'
<1> SUFFICES ASSUME RemediationAssumption, IInv, [Next]_vars PROVE IInv'
  OBVIOUS
<1>0. TypeOK /\ Sound /\ Alone
  BY DEF IInv
<1>1. CASE Observe
  <2>1. TypeOK' /\ Sound'
    BY <1>0, <1>1, ObserveStep
  <2>2. Alone'
    BY <1>0, <1>1 DEF Observe, Alone, Current, Earned, At
  <2>3. QED
    BY <2>1, <2>2 DEF IInv
<1>2. ASSUME NEW t \in Threads, Trigger(t) PROVE IInv'
  BY <1>0, <1>2, TriggerStep, AloneSteps DEF IInv
<1>3. ASSUME NEW t \in Threads, Advance(t) PROVE IInv'
  BY <1>0, <1>3, Steps, AloneSteps DEF IInv
<1>4. ASSUME NEW t \in Threads, Request(t) PROVE IInv'
  BY <1>0, <1>4, Steps, AloneSteps DEF IInv
<1>5. ASSUME NEW t \in Threads, RecordRead(t) PROVE IInv'
  BY <1>0, <1>5, Steps, AloneSteps DEF IInv
<1>6. ASSUME NEW t \in Threads, RecordWrite(t) PROVE IInv'
  BY <1>0, <1>6, Steps, AloneWrite DEF IInv
<1>7. ASSUME NEW t \in Threads, Fail(t) PROVE IInv'
  BY <1>0, <1>7, Steps, AloneSteps DEF IInv
<1>8. CASE UNCHANGED vars
  <2>1. TypeOK'
    BY <1>0, <1>8 DEF vars, TypeOK
  <2>2. Sound'
    <3>1. AddsUp(row)' /\ \A t \in Threads : AddsUp(thread[t].doc)' <=> AddsUp(thread[t].doc)
      BY <1>0, <1>8 DEF vars, Sound, AddsUp
    <3>2. \A t \in Threads : Underway(t)'
      BY <1>0, <1>8, <3>1 DEF vars, Sound, Underway, At
    <3>3. QED
      BY <1>0, <1>8, <3>1, <3>2 DEF vars, Sound
  <2>3. Alone'
    BY <1>0, <1>8 DEF vars, Alone, Current, Earned, At
  <2>4. QED
    BY <2>1, <2>2, <2>3 DEF IInv
<1>9. QED
  BY <1>1, <1>2, <1>3, <1>4, <1>5, <1>6, <1>7, <1>8 DEF Next

\* A session's row adds up, whatever the work, the window and the number of
\* requests that read it, generate for long and write it back whole
\* (complete_current_step and update_progression_decision).
THEOREM RowAddsUp ==
    ASSUME RemediationAssumption
    PROVE  Spec => []SessionAddsUp
<1>1. IInv => SessionAddsUp
  BY AddsUpIsSessionAddsUp DEF IInv, Sound
<1>2. IInv /\ [Next]_vars => IInv'
  BY NextIInv
<1>3. QED
  BY InitIInv, <1>1, <1>2, PTL DEF Spec

\* While requests come one at a time, no gate is passed on work that leaned on
\* full support, for any kinds of work (evaluate_remediation_progress).
THEOREM GatesAreEarned ==
    ASSUME RemediationAssumption
    PROVE  Spec => []TransferRests
<1>1. IInv => TransferRests
  BY DEF IInv, TypeOK, Alone, Earned, TransferRests
<1>2. IInv /\ [Next]_vars => IInv'
  BY NextIInv
<1>3. QED
  BY InitIInv, <1>1, <1>2, PTL DEF Spec

\* While requests come one at a time, a session the learner is told to advance
\* has a step to advance to (_continue_action_for_summary).
THEOREM NextActionExists ==
    ASSUME RemediationAssumption
    PROVE  Spec => []ContinueCanBeDone
<1>1. IInv => ContinueCanBeDone
  BY DEF IInv, Alone, Earned, ContinueAction, ContinueCanBeDone
<1>2. IInv /\ [Next]_vars => IInv'
  BY NextIInv
<1>3. QED
  BY InitIInv, <1>1, <1>2, PTL DEF Spec

-----------------------------------------------------------------------------
(* WithinSession.                                                           *)

LEMMA LesserOf ==
    ASSUME NEW m \in Int, NEW n \in Int
    PROVE  Within!Min({m, n}) = IF m <= n THEN m ELSE n
<1> DEFINE k == IF m <= n THEN m ELSE n
<1>1. k \in {m, n} /\ \A y \in {m, n} : k <= y
  OBVIOUS
<1>2. \A x : (x \in {m, n} /\ \A y \in {m, n} : x <= y) => x = k
  OBVIOUS
<1> QED
  BY <1>1, <1>2 DEF Within!Min

Signals == {"negative", "positive", "mixed", "insufficient"}
LEMMA SummarySignal ==
    ASSUME NEW shown PROVE Within!RawSummary(shown).signal \in Signals
  BY DEF Within!RawSummary, Signals

WithinPhases == {"stabilize", "repair", "consolidate", "bridge", "transfer_check", "monitor"}

\* A row: its fields, and the phases it may be in.
Row(r) ==
    /\ r = [phase |-> r.phase, signal |-> r.signal, action |-> r.action, intent |-> r.intent,
            positive |-> r.positive, negative |-> r.negative, budget |-> r.budget,
            remaining |-> r.remaining, risk |-> r.risk, arcAction |-> r.arcAction,
            generated |-> r.generated, next |-> r.next, steering |-> r.steering]
    /\ r.remaining \in Nat /\ r.generated \in Nat
    /\ r.phase \in WithinPhases \/ r = Within!NoRow

\* How far the learner has come back, when n summaries were good since the
\* last bad one: in repair none was, after one they may consolidate or be
\* past support, and a bridge or transfer takes two.
Climbed(r, n) ==
    /\ r.action = "attempt_transfer" => r.phase = "transfer_check"
    /\ r.phase \in {"stabilize", "repair"} => r.positive = 0
    /\ r.phase \in {"consolidate", "monitor"} => n >= 1
    /\ r.phase \in {"bridge", "transfer_check"} => n >= 2
    /\ r.phase = "none" => n >= 2

\* What of the support is left, when n contents were generated in the phase.
Spent(r, n) ==
    /\ r.remaining + n <= 3 /\ n <= r.generated
    /\ Within!NoRow.phase = r.phase => n = 0
    /\ Within!TracksBudget(r.phase) /\ n >= 3 => r.arcAction = "reprobe_new_angle"

WithinInv ==
    /\ risen \in Nat /\ arc \in Nat
    /\ Row(controller) /\ Climbed(controller, risen) /\ Spent(controller, arc)

LEMMA BudgetBound ==
    ASSUME NEW phase, NEW raw PROVE Within!Budget(phase, raw) \in 0..3
  BY DEF Within!Budget

LEMMA RemainingBound ==
    ASSUME NEW phase, NEW raw, NEW old, old.remaining \in Nat
    PROVE  /\ Within!Remaining(phase, raw, old) \in 0..3
           /\ ~(phase # old.phase \/ Within!Refilled(phase, raw, old))
              => Within!Remaining(phase, raw, old) <= old.remaining
<1>1. Within!Budget(phase, raw) \in 0..3
  BY BudgetBound
<1>2. Within!Min({Within!Budget(phase, raw), old.remaining})
      = IF Within!Budget(phase, raw) <= old.remaining THEN Within!Budget(phase, raw)
        ELSE old.remaining
  BY <1>1, LesserOf
<1> QED
  BY <1>1, <1>2 DEF Within!Remaining

LEMMA PhaseClimbs ==
    ASSUME NEW raw, raw.signal \in Signals, NEW old, Row(old),
           NEW n \in Nat, Climbed(old, n),
           NEW m \in Nat,
           m = IF raw.signal = "negative" THEN 0
               ELSE IF raw.signal = "positive" /\ n < 2 THEN n + 1 ELSE n
    PROVE  /\ Within!Phase(raw, old) \in WithinPhases
           /\ Within!Phase(raw, old) \in {"consolidate", "monitor"} => m >= 1
           /\ Within!Phase(raw, old) \in {"bridge", "transfer_check"} => m >= 2
           /\ raw.signal = "positive" => Within!Phase(raw, old) \notin {"stabilize", "repair", "monitor"}
<1>1. old.phase \in WithinPhases \/ old.phase = "none"
  BY DEF Row, Within!NoRow
<1>2. CASE raw.signal = "negative"
  BY <1>2 DEF Within!Phase, WithinPhases
<1>3. CASE raw.signal = "positive"
  BY <1>1, <1>3 DEF Within!Phase, WithinPhases, Climbed, Within!InRepair
<1>4. CASE raw.signal \notin {"negative", "positive"}
  BY <1>1, <1>4 DEF Within!Phase, WithinPhases, Climbed, Within!InRepair
<1> QED
  BY <1>2, <1>3, <1>4

LEMMA ControllerClimbs ==
    ASSUME NEW raw, raw.signal \in Signals, NEW old, Row(old),
           NEW n \in Nat, Climbed(old, n),
           NEW m \in Nat,
           m = IF raw.signal = "negative" THEN 0
               ELSE IF raw.signal = "positive" /\ n < 2 THEN n + 1 ELSE n
    PROVE  Row(Within!Controller(raw, old)) /\ Climbed(Within!Controller(raw, old), m)
<1> DEFINE new == Within!Controller(raw, old)
           phase == Within!Phase(raw, old)
<1>1. /\ phase \in WithinPhases
      /\ phase \in {"consolidate", "monitor"} => m >= 1
      /\ phase \in {"bridge", "transfer_check"} => m >= 2
      /\ raw.signal = "positive" => phase \notin {"stabilize", "repair", "monitor"}
  BY PhaseClimbs
<1>2. old.remaining \in Nat /\ old.generated \in Nat
  BY DEF Row
<1>3. Within!Remaining(phase, raw, old) \in Nat
  BY <1>2, RemainingBound
<1>4. /\ new.phase = phase /\ new.generated = old.generated
      /\ new.remaining = Within!Remaining(phase, raw, old)
      /\ raw.signal # "positive" => new.positive = 0
  BY DEF Within!Controller
<1>5. new = [phase |-> new.phase, signal |-> new.signal, action |-> new.action, intent |-> new.intent,
            positive |-> new.positive, negative |-> new.negative, budget |-> new.budget,
            remaining |-> new.remaining, risk |-> new.risk, arcAction |-> new.arcAction,
            generated |-> new.generated, next |-> new.next, steering |-> new.steering]
  BY DEF Within!Controller
<1>6. \A k : /\ phase # "transfer_check"
             => Within!ControllerSignal(phase, raw, k)[2] # "attempt_transfer"
  BY <1>1 DEF Within!ControllerSignal, WithinPhases, Signals, Within!RawAction
<1>7. \E k : new.action = Within!ControllerSignal(phase, raw, k)[2]
  BY DEF Within!Controller
<1>8. new.action = "attempt_transfer" => new.phase = "transfer_check"
  BY <1>4, <1>6, <1>7
<1>9. Row(new)
  BY <1>1, <1>2, <1>3, <1>4, <1>5 DEF Row
<1>10. Climbed(new, m)
  BY <1>1, <1>4, <1>8 DEF Climbed, WithinPhases
<1> QED
  BY <1>9, <1>10

LEMMA ArcProbes ==
    ASSUME NEW phase, NEW summary, NEW risk, risk = "high"
    PROVE  Within!ArcAction(phase, summary, risk) = "reprobe_new_angle"
  BY DEF Within!ArcAction

LEMMA SpentRisks ==
    ASSUME NEW phase, NEW summary, NEW generated \in Nat, NEW negative, NEW changed,
           Within!TracksBudget(phase), generated >= 2
    PROVE  Within!Risk(phase, 0, summary, generated, negative, changed) = "high"
  BY DEF Within!Risk

\* The support of a row that an event makes of another.
LEMMA ControllerSpends ==
    ASSUME NEW raw, NEW old, Row(old), NEW n \in Nat, Spent(old, n), NEW m \in Nat,
           m = IF \/ Within!Controller(raw, old).phase # old.phase
                  \/ Within!Refilled(Within!Controller(raw, old).phase, raw, old) THEN 0 ELSE n,
           Within!Phase(raw, old) \in WithinPhases
    PROVE  Spent(Within!Controller(raw, old), m)
<1> DEFINE new == Within!Controller(raw, old)
           phase == Within!Phase(raw, old)
<1>1. old.remaining \in Nat /\ old.generated \in Nat /\ old.remaining + n <= 3 /\ n <= old.generated
  BY DEF Row, Spent
<1>2. /\ Within!Remaining(phase, raw, old) \in 0..3
      /\ ~(phase # old.phase \/ Within!Refilled(phase, raw, old))
              => Within!Remaining(phase, raw, old) <= old.remaining
  BY <1>1, RemainingBound
<1>3. /\ new.phase = phase /\ new.generated = old.generated
      /\ new.remaining = Within!Remaining(phase, raw, old)
  BY DEF Within!Controller
<1>4. \E k, changed : new.arcAction = Within!ArcAction(phase, raw, 
          Within!Risk(phase, Within!Remaining(phase, raw, old), raw, old.generated, k, changed))
  BY DEF Within!Controller
<1>5. Within!NoRow.phase # new.phase
  BY <1>3 DEF Within!NoRow, WithinPhases
<1>6. new.remaining + m <= 3 /\ m <= new.generated
  BY <1>1, <1>2, <1>3
<1>7. ASSUME Within!TracksBudget(new.phase), m >= 3 PROVE new.arcAction = "reprobe_new_angle"
  <2>1. Within!Remaining(phase, raw, old) = 0 /\ old.generated >= 2
    BY <1>1, <1>2, <1>3, <1>6, <1>7
  <2>2. \A k, changed : Within!Risk(phase, 0, raw, old.generated, k, changed) = "high"
    BY <1>1, <1>3, <1>7, <2>1, SpentRisks
  <2> QED
    BY <1>4, <2>1, <2>2, ArcProbes
<1> QED
  BY <1>5, <1>6, <1>7 DEF Spent

LEMMA WithinInit == Within!Init => WithinInv
<1> SUFFICES ASSUME Within!Init PROVE WithinInv
  OBVIOUS
<1>1. controller = Within!NoRow /\ risen = 9 /\ arc = 0
  BY DEF Within!Init, Within!Unhurt
<1>2. Row(controller) /\ Climbed(controller, 9)
  BY <1>1 DEF Row, Within!NoRow, Climbed
<1>3. Spent(controller, 0)
  BY <1>1 DEF Spent, Within!NoRow
<1> QED
  BY <1>1, <1>2, <1>3 DEF WithinInv

LEMMA EventKeepsRow ==
    ASSUME WithinInv, NEW e, Within!Event(e) PROVE WithinInv'
<1>1. PICK raw : /\ raw.signal \in Signals
                 /\ controller' = Within!Controller(raw, controller)
                 /\ Within!Weigh(raw, controller')
  BY SummarySignal DEF Within!Event
<1>2. /\ risen' = IF raw.signal = "negative" THEN 0
                  ELSE IF raw.signal = "positive" /\ risen < 2 THEN risen + 1 ELSE risen
      /\ arc' = IF controller'.phase # controller.phase
                   \/ Within!Refilled(controller'.phase, raw, controller) THEN 0 ELSE arc
  BY <1>1 DEF Within!Weigh
<1>3. /\ Row(controller) /\ Climbed(controller, risen) /\ Spent(controller, arc)
      /\ risen \in Nat /\ arc \in Nat
  BY DEF WithinInv
<1>4. risen' \in Nat /\ arc' \in Nat
  BY <1>2, <1>3
<1>5. Row(controller') /\ Climbed(controller', risen')
  BY <1>1, <1>2, <1>3, <1>4, ControllerClimbs
<1>6. Within!Phase(raw, controller) \in WithinPhases
  BY <1>1, <1>2, <1>3, <1>4, PhaseClimbs
<1>7. Spent(controller', arc')
  BY <1>1, <1>2, <1>3, <1>4, <1>6, ControllerSpends
<1> QED
  BY <1>4, <1>5, <1>7 DEF WithinInv

\* The row that a generated content makes of another.
Generated(old, remaining, risk, arcAction) ==
    [old EXCEPT !.generated = @ + 1, !.remaining = remaining, !.risk = risk, !.arcAction = arcAction]

Record(p, s, a, i, pos, neg, b, r, k, c, g, n, st) ==
    [phase |-> p, signal |-> s, action |-> a, intent |-> i, positive |-> pos, negative |-> neg,
     budget |-> b, remaining |-> r, risk |-> k, arcAction |-> c, generated |-> g, next |-> n,
     steering |-> st]

LEMMA GeneratedRecord ==
    ASSUME NEW p, NEW s, NEW a, NEW i, NEW pos, NEW neg, NEW b, NEW r, NEW k, NEW c, NEW g,
           NEW n, NEW st, NEW r1, NEW k1, NEW c1
    PROVE  Generated(Record(p, s, a, i, pos, neg, b, r, k, c, g, n, st), r1, k1, c1)
           = Record(p, s, a, i, pos, neg, b, r1, k1, c1, g + 1, n, st)
<1> DEFINE f == Record(p, s, a, i, pos, neg, b, r, k, c, g, n, st)
<1>1. [f EXCEPT !.generated = g + 1] = Record(p, s, a, i, pos, neg, b, r, k, c, g + 1, n, st)
  BY DEF Record
<1>2. [Record(p, s, a, i, pos, neg, b, r, k, c, g + 1, n, st) EXCEPT !.remaining = r1]
      = Record(p, s, a, i, pos, neg, b, r1, k, c, g + 1, n, st)
  BY DEF Record
<1>3. [Record(p, s, a, i, pos, neg, b, r1, k, c, g + 1, n, st) EXCEPT !.risk = k1]
      = Record(p, s, a, i, pos, neg, b, r1, k1, c, g + 1, n, st)
  BY DEF Record
<1>4. [Record(p, s, a, i, pos, neg, b, r1, k1, c, g + 1, n, st) EXCEPT !.arcAction = c1]
      = Record(p, s, a, i, pos, neg, b, r1, k1, c1, g + 1, n, st)
  BY DEF Record
<1>5. f.generated = g
  BY DEF Record
<1> HIDE DEF f
<1>6. Generated(f, r1, k1, c1)
      = [[[[f EXCEPT !.generated = g + 1] EXCEPT !.remaining = r1] EXCEPT !.risk = k1]
            EXCEPT !.arcAction = c1]
  BY <1>5 DEF Generated
<1> QED
  BY <1>1, <1>2, <1>3, <1>4, <1>6 DEF f

LEMMA GeneratedFields ==
    ASSUME NEW old, Row(old), NEW remaining \in Nat, NEW risk, NEW arcAction,
           NEW new, new = Generated(old, remaining, risk, arcAction)
    PROVE  /\ new.phase = old.phase /\ new.positive = old.positive /\ new.action = old.action
           /\ new.remaining = remaining /\ new.generated = old.generated + 1
           /\ new.arcAction = arcAction
           /\ old.phase \in WithinPhases => Row(new)
<1> DEFINE Kept(r, k, c, g) ==
        Record(old.phase, old.signal, old.action, old.intent, old.positive, old.negative,
               old.budget, r, k, c, g, old.next, old.steering)
<1>1. old.generated \in Nat
  BY DEF Row
<1>2. PICK f : f = old /\ f = Kept(old.remaining, old.risk, old.arcAction, old.generated)
  BY DEF Row, Record
<1>3. Generated(f, remaining, risk, arcAction) = Kept(remaining, risk, arcAction, old.generated + 1)
  BY <1>2, GeneratedRecord
<1>4. new = Kept(remaining, risk, arcAction, old.generated + 1)
  BY <1>2, <1>3
<1> QED
  BY <1>1, <1>4 DEF Row, Record

LEMMA UsedUpIs ==
    ASSUME NEW old, old.remaining \in Nat
    PROVE  /\ Within!UsedUp(old) \in Nat
           /\ Within!UsedUp(old) = 0 \/ Within!UsedUp(old) = old.remaining - 1
<1> DEFINE k == Within!Max({0, old.remaining - 1})
           w == IF old.remaining = 0 THEN 0 ELSE old.remaining - 1
<1>1. w \in {0, old.remaining - 1} /\ \A y \in {0, old.remaining - 1} : w >= y
  OBVIOUS
<1>2. k \in {0, old.remaining - 1}
  BY <1>1 DEF Within!Max
<1>3. k >= 0
  BY <1>1 DEF Within!Max
<1> QED
  BY <1>2, <1>3 DEF Within!UsedUp

LEMMA GenerationKeepsRow ==
    ASSUME WithinInv, Within!RecordGeneration PROVE WithinInv'
<1>1. PICK raw, old, risk :
        /\ raw.signal \in Signals
        /\ old = IF controller # Within!NoRow THEN controller ELSE Within!Controller(raw, Within!NoRow)
        /\ risk = Within!Risk(old.phase, Within!UsedUp(old), old, old.generated + 1,
                              old.negative, FALSE)
        /\ controller' = Generated(old, Within!UsedUp(old), risk,
                                   Within!ArcAction(old.phase, old, risk))
        /\ arc' = IF controller # Within!NoRow THEN Within!Min({3, arc + 1}) ELSE 1
        /\ risen' = IF controller = Within!NoRow /\ raw.signal = "negative" THEN 0 ELSE risen
  BY SummarySignal DEF Within!RecordGeneration, Generated
<1> DEFINE used == Within!UsedUp(old)
<1>2. /\ Row(controller) /\ Climbed(controller, risen) /\ Spent(controller, arc)
      /\ risen \in Nat /\ arc \in Nat
  BY DEF WithinInv
<1>3. arc <= 3
  BY <1>2 DEF Spent, Row
<1>4. risen' \in Nat
  BY <1>1, <1>2
<1>5. /\ arc' \in Nat
      /\ arc' = IF controller # Within!NoRow THEN (IF 3 <= arc + 1 THEN 3 ELSE arc + 1) ELSE 1
  BY <1>1, <1>2, LesserOf
\* The row it starts from, with what was generated of it.
<1>6. PICK n \in Nat : 
        /\ Row(old) /\ Climbed(old, risen') /\ Spent(old, n) /\ old.phase \in WithinPhases
        /\ arc' = IF 3 <= n + 1 THEN 3 ELSE n + 1
  <2>1. CASE controller # Within!NoRow
    <3>1. old = controller /\ risen' = risen /\ controller.phase \in WithinPhases
      BY <1>1, <1>2, <2>1 DEF Row
    <3> QED
      BY <1>2, <1>5, <2>1, <3>1
  <2>2. CASE controller = Within!NoRow
    <3>1. old = Within!Controller(raw, controller) /\ arc = 0 /\ controller.phase = "none"
      BY <1>1, <1>2, <2>2 DEF Spent, Within!NoRow
    <3>2. risen >= 2
      BY <1>2, <3>1 DEF Climbed
    <3>3. risen' = IF raw.signal = "negative" THEN 0
                   ELSE IF raw.signal = "positive" /\ risen < 2 THEN risen + 1 ELSE risen
      BY <1>1, <1>2, <2>2, <3>2
    <3>4. Row(old) /\ Climbed(old, risen')
      BY <1>1, <1>2, <1>4, <3>1, <3>3, ControllerClimbs
    <3>5. Within!Phase(raw, controller) \in WithinPhases
      BY <1>1, <1>2, <1>4, <3>3, PhaseClimbs
    <3>6. Spent(old, 0)
      BY <1>2, <3>1, <3>5, ControllerSpends
    <3>7. old.phase \in WithinPhases
      BY <3>1, <3>5 DEF Within!Controller
    <3> QED
      BY <1>5, <2>2, <3>4, <3>6, <3>7
  <2> QED
    BY <2>1, <2>2
<1>7. old.remaining \in Nat /\ old.generated \in Nat /\ old.remaining + n <= 3 /\ n <= old.generated
  BY <1>6 DEF Row, Spent
<1>8. used \in Nat /\ (used = 0 \/ used = old.remaining - 1)
  BY <1>7, UsedUpIs
<1> HIDE DEF used
<1>9. /\ controller'.phase = old.phase /\ controller'.positive = old.positive
      /\ controller'.action = old.action /\ controller'.remaining = used
      /\ controller'.generated = old.generated + 1
      /\ controller'.arcAction = Within!ArcAction(old.phase, old, risk)
      /\ Row(controller')
  <2>1. PICK new, arcAction :
            /\ new = controller' /\ new = Generated(old, used, risk, arcAction)
            /\ arcAction = Within!ArcAction(old.phase, old, risk)
    BY <1>1 DEF used
  <2>2. /\ new.phase = old.phase /\ new.positive = old.positive /\ new.action = old.action
        /\ new.remaining = used /\ new.generated = old.generated + 1
        /\ new.arcAction = arcAction /\ Row(new)
    BY <1>6, <1>8, <2>1, GeneratedFields
  <2> QED
    BY <2>1, <2>2
<1>10. Climbed(controller', risen')
  BY <1>6, <1>9 DEF Climbed
<1>11. controller'.remaining + arc' <= 3 /\ arc' <= controller'.generated
  BY <1>5, <1>6, <1>7, <1>8, <1>9
<1>12. Within!NoRow.phase # controller'.phase
  BY <1>6, <1>9 DEF Within!NoRow, WithinPhases
<1>13. ASSUME Within!TracksBudget(controller'.phase), arc' >= 3
       PROVE  controller'.arcAction = "reprobe_new_angle"
  <2>1. used = 0 /\ old.generated + 1 >= 2 /\ old.generated + 1 \in Nat
    BY <1>5, <1>7, <1>9, <1>11, <1>13, <1>8
  <2>2. risk = "high"
    <3>1. risk = Within!Risk(old.phase, 0, old, old.generated + 1, old.negative, FALSE)
      BY <1>1, <2>1 DEF used
    <3>2. \A k, changed : Within!Risk(old.phase, 0, old, old.generated + 1, k, changed) = "high"
      BY <1>9, <1>13, <2>1, SpentRisks
    <3> QED
      BY <3>1, <3>2
  <2> QED
    BY <1>9, <2>2, ArcProbes
<1>14. Spent(controller', arc')
  BY <1>11, <1>12, <1>13 DEF Spent
<1> QED
  BY <1>4, <1>5, <1>9, <1>10, <1>14 DEF WithinInv

LEMMA WithinStep == WithinInv /\ [Within!Next]_(Within!vars) => WithinInv'
<1> SUFFICES ASSUME WithinInv, [Within!Next]_(Within!vars) PROVE WithinInv'
  OBVIOUS
<1>1. CASE Within!RecordObservation
  BY <1>1, EventKeepsRow DEF Within!RecordObservation
<1>2. CASE Within!RecordAssessment
  BY <1>2, EventKeepsRow DEF Within!RecordAssessment
<1>3. CASE Within!RecordGeneration
  BY <1>3, GenerationKeepsRow
<1>4. CASE Within!Forget
  BY <1>4 DEF Within!Forget, WithinInv
<1>5. CASE UNCHANGED Within!vars
  BY <1>5 DEF Within!vars, WithinInv
<1> QED
  BY <1>1, <1>2, <1>3, <1>4, <1>5 DEF Within!Next

LEMMA WithinHolds == Within!Spec => []WithinInv
  BY WithinInit, WithinStep, PTL DEF Within!Spec

THEOREM TransferEarned == Within!Spec => []TransferIsEarned
<1>1. WithinInv => TransferIsEarned
  BY DEF WithinInv, Climbed, TransferIsEarned
<1> QED
  BY <1>1, WithinHolds, PTL

THEOREM LoopsNoticed == Within!Spec => []LoopIsNoticed
<1>1. WithinInv => LoopIsNoticed
  BY DEF WithinInv, Spent, LoopIsNoticed, Within!TracksBudget, TracksBudget
<1> QED
  BY <1>1, WithinHolds, PTL

-----------------------------------------------------------------------------
(* Socratic.                                                                *)

\* A sequence, of whatever.
Sequence(s) == \E S : s \in Seq(S)

\* StuckIsNoticed of any dialogue.
Moves(turns) ==
    \A i \in 3..Len(turns) :
        LET last == turns[i].evaluation
        IN  /\ last.answered /\ last.strength /= "demonstrated"
            /\ last.score < 60 /\ last.risk < 45
            /\ Magnitude(last.mastery - turns[i - 2].evaluation.mastery) < 5
            => ~(turns[i].style = turns[i - 1].style /\ turns[i].style = turns[i - 2].style)

LEMMA MovesIsNoticed == Moves(dialogue) => StuckIsNoticed
  BY DEF Moves, StuckIsNoticed, Stuck

LEMMA LastTwo ==
    ASSUME NEW S, NEW s \in Seq(S), Len(s) >= 2
    PROVE  Talk!Last2(s) = <<s[Len(s) - 1], s[Len(s)]>>
<1>1. Len(s) \in Nat /\ Len(s) - 1 \in 1..Len(s)
  OBVIOUS
<1>2. Talk!Max({1, Len(s) - 1}) = Len(s) - 1
  <2> DEFINE k == Len(s) - 1
  <2>1. k \in {1, k} /\ \A y \in {1, k} : k >= y
    BY <1>1
  <2>2. \A x : (x \in {1, k} /\ \A y \in {1, k} : x >= y) => x = k
    BY <1>1
  <2> QED
    BY <2>1, <2>2 DEF Talk!Max
<1>3. Talk!Last2(s) = SubSeq(s, Len(s) - 1, Len(s))
  BY <1>2 DEF Talk!Last2
<1>4. SubSeq(s, Len(s) - 1, Len(s)) = [i \in 1..2 |-> s[Len(s) - 2 + i]]
  BY <1>1
<1>5. [i \in 1..2 |-> s[Len(s) - 2 + i]] = <<s[Len(s) - 1], s[Len(s)]>>
  BY <1>1
<1> QED
  BY <1>3, <1>4, <1>5

\* What the policy asks after two turns and an answer that demonstrates nothing.
LEMMA PolicyMoves ==
    ASSUME NEW S, NEW turns \in Seq(S), Len(turns) >= 2,
           NEW answer, answer # Talk!NoAnswer, NEW ev, ev.risk \in Int,
           ev.strength \in {"emerging", "insufficient"}, ev.score < 60, ev.risk < 45,
           Magnitude(ev.mastery - turns[Len(turns) - 1].evaluation.mastery) < 5,
           turns[Len(turns) - 1].style = turns[Len(turns)].style
    PROVE  Talk!Decide(turns, answer, ev) # turns[Len(turns)].style
<1> DEFINE a == turns[Len(turns) - 1]
           b == turns[Len(turns)]
           style == b.style
           trend == Talk!Trend(turns, answer, ev)
           loops == \/ Talk!ClarificationLoop(turns, answer, ev, ev)
                    \/ Talk!StepBackLoop(turns, answer, ev, ev)
<1>1. Talk!Last2(turns) = <<a, b>> /\ turns # <<>> /\ Len(turns) \in Nat
  BY LastTwo
<1>2. \A s : /\ Talk!AskedTwice(turns, s) <=> style = s
             /\ Talk!AskedLately(turns, s) <=> style = s
             /\ Talk!AskedLast(turns, s) <=> style = s
  BY <1>1 DEF Talk!AskedTwice, Talk!AskedLately, Talk!AskedLast
<1>3. Talk!RecentMastery(turns, answer, ev)
      = <<a.evaluation.mastery, b.evaluation.mastery, ev.mastery>>
  <2>1. Talk!Masteries(<<a, b>>) = <<a.evaluation.mastery, b.evaluation.mastery>>
    BY DEF Talk!Masteries
  <2>2. Talk!RecentMastery(turns, answer, ev)
        = <<a.evaluation.mastery, b.evaluation.mastery>> \o <<ev.mastery>>
    BY <1>1, <2>1 DEF Talk!RecentMastery
  <2>3. \A x, y, z : <<x, y>> \o <<z>> = <<x, y, z>>
    <3> SUFFICES ASSUME NEW x, NEW y, NEW z PROVE <<x, y>> \o <<z>> = <<x, y, z>>
      OBVIOUS
    <3>1. <<x, y>> \in Seq({x, y, z}) /\ <<z>> \in Seq({x, y, z})
      OBVIOUS
    <3>2. Len(<<x, y>> \o <<z>>) = 3
      BY <3>1
    <3>3. /\ (<<x, y>> \o <<z>>)[1] = x /\ (<<x, y>> \o <<z>>)[2] = y
          /\ (<<x, y>> \o <<z>>)[3] = z
      BY <3>1
    <3>4. <<x, y>> \o <<z>> \in Seq({x, y, z})
      BY <3>1
    <3>5. \A s \in Seq({x, y, z}) : Len(s) = 3 => s = <<s[1], s[2], s[3]>>
      OBVIOUS
    <3> QED
      BY <3>2, <3>3, <3>4, <3>5
  <2> HIDE DEF a, b
  <2> QED
    BY <2>2, <2>3
<1>4. Talk!Trend(turns, answer, ev) = ev.mastery - a.evaluation.mastery
  BY <1>3 DEF Talk!Trend
<1>5. Talk!Stalled(turns, answer, ev)
  BY <1>3, <1>4 DEF Talk!Stalled, Magnitude, Talk!Magnitude
<1>6. loops <=> (style = "clarification" \/ (style = "step_back" /\ ev.progression < 55))
  <2>1. ev.risk < 50
    OBVIOUS
  <2> HIDE DEF style
  <2> QED
    BY <1>2, <1>5, <2>1 DEF Talk!ClarificationLoop, Talk!StepBackLoop
<1>7. Talk!Decide(turns, answer, ev)
      = IF ev.strength = "emerging" THEN Talk!AfterEmerging(turns, answer, ev, trend, loops)
        ELSE Talk!AfterInsufficient(turns, ev, loops)
  BY <1>1 DEF Talk!Decide
<1> HIDE DEF loops, trend, style
<1>8. CASE ev.strength = "emerging"
  BY <1>2, <1>6, <1>7, <1>8 DEF Talk!AfterEmerging, style
<1>9. CASE ev.strength = "insufficient"
  BY <1>2, <1>6, <1>7, <1>9 DEF Talk!AfterInsufficient, style
<1> QED
  BY <1>8, <1>9
LEMMA RiskIsInt == 
    ASSUME Talk!SocraticAssumption, NEW answer \in Answers PROVE Talk!Risk(answer) \in Int
<1>1. /\ answer.lexical \in 0..100 /\ answer.reasoning \in 0..100 /\ answer.cues \in 0..100
      /\ answer.confidence \in {-1} \cup 0..100
  BY DEF Talk!SocraticAssumption, Talk!Unsaid
<1>2. Talk!Alignment(answer) \in Int
  <2>1. Talk!Understanding(answer) \in Int
    <3>1. answer.lexical \in Int /\ answer.reasoning \in Int
      BY <1>1
    <3>2. 62 * answer.lexical \in Int /\ 38 * answer.reasoning \in Int
      BY <3>1
    <3> QED
      BY <3>2 DEF Talk!Understanding
  <2>2. CASE answer.confidence = Talk!Unsaid
    BY <2>2 DEF Talk!Alignment
  <2>3. CASE answer.confidence # Talk!Unsaid
    <3>1. answer.confidence \in 0..100
      BY <1>1, <2>3 DEF Talk!Unsaid
    <3>2. 100 * answer.confidence - Talk!Understanding(answer) \in Int
      BY <2>1, <3>1
    <3>3. Talk!Magnitude(100 * answer.confidence - Talk!Understanding(answer)) \in Int
      BY <3>2 DEF Talk!Magnitude
    <3> QED
      BY <2>3, <3>3 DEF Talk!Alignment
  <2> QED
    BY <2>2, <2>3
<1>3. PICK n \in Int : Talk!Risk(answer) = Talk!Clamp(0, 10000, n)
  <2>1. (12 * (10000 - Talk!Alignment(answer))) \div 100 \in Int
    BY <1>2
  <2> QED
    BY <1>1, <2>1 DEF Talk!Risk
<1>4. \A x, y \in Int : Talk!Min({x, y}) \in {x, y} /\ Talk!Max({x, y}) \in {x, y}
  <2> SUFFICES ASSUME NEW x \in Int, NEW y \in Int
               PROVE  Talk!Min({x, y}) \in {x, y} /\ Talk!Max({x, y}) \in {x, y}
    OBVIOUS
  <2>1. \E k \in {x, y} : \A z \in {x, y} : k <= z
    OBVIOUS
  <2>2. \E k \in {x, y} : \A z \in {x, y} : k >= z
    OBVIOUS
  <2> QED
    BY <2>1, <2>2 DEF Talk!Min, Talk!Max
<1>5. PICK m : m = Talk!Min({10000, n})
  OBVIOUS
<1>6. m \in Int
  BY <1>4, <1>5
<1>7. Talk!Max({0, m}) \in Int
  BY <1>4, <1>6
<1> QED
  BY <1>3, <1>5, <1>7 DEF Talk!Clamp

\* What is kept of an answer that was given.
LEMMA Judged ==
    ASSUME Talk!SocraticAssumption, NEW turns, NEW answer \in Answers \cup {Talk!NoAnswer},
           Talk!Evaluate(turns, answer).answered
    PROVE  /\ answer # Talk!NoAnswer
           /\ Talk!Evaluate(turns, answer).risk \in Int
           /\ Talk!Evaluate(turns, answer).strength \in {"demonstrated", "emerging", "insufficient"}
<1>1. answer # Talk!NoAnswer
  BY DEF Talk!Evaluate
<1>2. Talk!Evaluate(turns, answer).risk = Talk!Hundredths(Talk!Risk(answer), 100)
  BY <1>1 DEF Talk!Evaluate
<1>3. Talk!Risk(answer) \in Int
  BY <1>1, RiskIsInt
<1>4. Talk!Evaluate(turns, answer).strength = Talk!StrengthOf(Talk!Score(turns, answer))
  BY <1>1 DEF Talk!Evaluate
<1> QED
  BY <1>1, <1>2, <1>3, <1>4 DEF Talk!Hundredths, Talk!StrengthOf

LEMMA TurnMoves ==
    ASSUME Talk!SocraticAssumption, NEW turns, Sequence(turns), Moves(turns),
           NEW answer \in Answers \cup {Talk!NoAnswer},
           NEW longer, longer = Append(turns, Talk!Turn(turns, answer))
    PROVE  Sequence(longer) /\ Moves(longer)
<1> DEFINE turn == Talk!Turn(turns, answer)
           ev == Talk!Evaluate(turns, answer)
<1>1. PICK S : turns \in Seq(S)
  BY DEF Sequence
<1>2. longer \in Seq(S \cup {turn})
  <2>1. turns \in Seq(S \cup {turn})
    BY <1>1
  <2> HIDE DEF turn
  <2> QED
    BY <2>1 DEF turn
<1>3. /\ Len(turns) \in Nat /\ Len(longer) = Len(turns) + 1
      /\ \A i \in 1..Len(turns) : longer[i] = turns[i]
      /\ longer[Len(turns) + 1] = turn
  BY <1>1
<1>4. turn.style = Talk!Decide(turns, answer, ev) /\ turn.evaluation = ev
  BY DEF Talk!Turn
<1> HIDE DEF turn, ev
<1>5. ASSUME NEW i \in 3..Len(longer),
             longer[i].evaluation.answered, longer[i].evaluation.strength /= "demonstrated",
             longer[i].evaluation.score < 60, longer[i].evaluation.risk < 45,
             Magnitude(longer[i].evaluation.mastery - longer[i - 2].evaluation.mastery) < 5,
             longer[i].style = longer[i - 1].style, longer[i].style = longer[i - 2].style
      PROVE  FALSE
  <2>1. CASE i <= Len(turns)
    <3>1. /\ longer[i] = turns[i] /\ longer[i - 1] = turns[i - 1]
          /\ longer[i - 2] = turns[i - 2] /\ i \in 3..Len(turns)
      BY <1>3, <2>1
    <3> QED
      BY <1>5, <3>1 DEF Moves
  <2>2. CASE i = Len(turns) + 1
    <3>1. /\ longer[i] = turn /\ longer[i - 1] = turns[Len(turns)]
          /\ longer[i - 2] = turns[Len(turns) - 1] /\ Len(turns) >= 2
      BY <1>3, <2>2
    <3>2. /\ ev.answered /\ ev.strength /= "demonstrated" /\ ev.score < 60 /\ ev.risk < 45
          /\ Magnitude(ev.mastery - turns[Len(turns) - 1].evaluation.mastery) < 5
          /\ turns[Len(turns) - 1].style = turns[Len(turns)].style
          /\ Talk!Decide(turns, answer, ev) = turns[Len(turns)].style
      BY <1>4, <1>5, <3>1
    <3>3. answer # Talk!NoAnswer /\ ev.risk \in Int /\ ev.strength \in {"emerging", "insufficient"}
      BY <3>2, Judged DEF ev
    <3> QED
      BY <1>1, <3>1, <3>2, <3>3, PolicyMoves
  <2> QED
    BY <1>3, <2>1, <2>2
<1>6. Moves(longer)
  BY <1>5 DEF Moves
<1> QED
  BY <1>2, <1>6 DEF Sequence

TalkInv ==
    /\ Sequence(dialogue) /\ Moves(dialogue)
    /\ \A t \in Threads :
         /\ Sequence(thread[t].turns) /\ Moves(thread[t].turns)
         /\ thread[t].answer \in Answers \cup {Talk!NoAnswer}
    /\ DOMAIN thread = Threads

LEMMA NothingMoves == Sequence(<<>>) /\ Moves(<<>>)
<1>1. <<>> \in Seq({})
  OBVIOUS
<1>2. Len(<<>>) = 0
  OBVIOUS
<1> QED
  BY <1>1, <1>2 DEF Sequence, Moves

LEMMA TalkInit == Talk!Init => TalkInv
  BY NothingMoves DEF Talk!Init, TalkInv, Talk!Idle

LEMMA TalkStep ==
    ASSUME Talk!SocraticAssumption, TalkInv, [Talk!Next]_(Talk!vars) PROVE TalkInv'
<1>1. ASSUME NEW t \in Threads, Talk!Load(t) PROVE TalkInv'
  BY <1>1 DEF Talk!Load, TalkInv
<1>2. ASSUME NEW t \in Threads, Talk!Save(t) PROVE TalkInv'
  <2>1. dialogue' = Append(thread[t].turns, Talk!Turn(thread[t].turns, thread[t].answer))
    BY <1>2 DEF Talk!Save
  <2>2. Sequence(dialogue') /\ Moves(dialogue')
    BY <2>1, TurnMoves DEF TalkInv
  <2>3. thread' = [thread EXCEPT ![t] = Talk!Idle]
    BY <1>2 DEF Talk!Save
  <2> QED
    BY <2>2, <2>3, NothingMoves DEF TalkInv, Talk!Idle
<1>3. ASSUME NEW t \in Threads, Talk!Fail(t) PROVE TalkInv'
  BY <1>3, NothingMoves DEF Talk!Fail, TalkInv, Talk!Idle
<1>4. CASE UNCHANGED Talk!vars
  BY <1>4 DEF Talk!vars, TalkInv
<1> QED
  BY <1>1, <1>2, <1>3, <1>4 DEF Talk!Next

THEOREM LoopsAreLeft == ASSUME Talk!SocraticAssumption PROVE Talk!Spec => []StuckIsNoticed
<1>1. TalkInv => StuckIsNoticed
  BY MovesIsNoticed DEF TalkInv
<1> QED
  BY <1>1, TalkInit, TalkStep, PTL DEF Talk!Spec
=============================================================================
