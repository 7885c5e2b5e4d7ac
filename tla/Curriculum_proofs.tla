--------------------------- MODULE Curriculum_proofs ---------------------------
(***************************************************************************)
(* Proofs about curricula: that what is migrated from one snapshot to the  *)
(* next was approved and is whole (CurriculumMigration), and that what is  *)
(* published can be read (CurriculumIntake), for any snapshots, any number *)
(* of requests at once, and deaths between any two commits.                *)
(***************************************************************************)
EXTENDS CurriculumMigration, IntakePromises, SequenceTheorems, FiniteSetTheorems,
        WellFoundedInduction, TLAPS

CONSTANT Bundles
VARIABLE artifacts
Intake == INSTANCE CurriculumIntake

-----------------------------------------------------------------------------
(* Numbers.                                                                 *)

\* A set of numbers has a least one.
LEMMA LeastExists ==
    ASSUME NEW T, T \subseteq Nat, T # {}
    PROVE  \E x \in T : \A y \in T : x <= y
<1>1. PICK R : R = {ss \in Nat \X Nat : ss[1] < ss[2]}
  OBVIOUS
<1>2. IsWellFoundedOn(R, Nat)
  <2>1. IsWellFoundedOn(OpToRel(<, Nat), Nat)
    BY NatLessThanWellFounded, Zenon
  <2>2. OpToRel(<, Nat) = R
    BY <1>1 DEF OpToRel
  <2>3. QED
    BY <2>1, <2>2
<1>3. \E x \in T : \A y \in T : ~ (<<y, x>> \in R)
  BY <1>2, WFMin
<1>4. PICK x \in T : \A y \in T : ~ (<<y, x>> \in R)
  BY <1>3
<1>5. \A y \in T : ~(y < x)
  <2> SUFFICES ASSUME NEW y \in T, y < x PROVE FALSE
    OBVIOUS
  <2>1. <<y, x>> \in R
    BY <1>1
  <2>2. QED
    BY <1>4, <2>1
<1>6. QED
  BY <1>5

\* A set that has 0, and after each number below the last its successor, has them all.
LEMMA Climbing ==
    ASSUME NEW n \in Nat, NEW T, 0 \in T, \A i \in 0..(n - 1) : i \in T => i + 1 \in T
    PROVE  0..n \subseteq T
<1> DEFINE U == {i \in 0..n : i \notin T}
<1> SUFFICES ASSUME U # {} PROVE FALSE
  OBVIOUS
<1>1. PICK m \in U : \A y \in U : m <= y
  <2>1. U \subseteq Nat
    OBVIOUS
  <2> HIDE DEF U
  <2> QED
    BY <2>1, LeastExists
<1>2. m # 0 /\ m \in 1..n
  BY <1>1
<1>3. m - 1 \in 0..(n - 1) /\ m - 1 \notin U
  BY <1>1, <1>2
<1>4. m - 1 \in T
  BY <1>3
<1> QED
  BY <1>1, <1>2, <1>3, <1>4

-----------------------------------------------------------------------------
(* What is kept of a sequence.                                              *)

Longer(q, c, S) == IF c \in S THEN Append(q, c) ELSE q

IsKeeping(q, n, s, S) ==
    q = [i \in 0..n |-> IF i = 0 THEN <<>> ELSE Longer(q[i - 1], s[i], S)]

LEMMA KeepingExists ==
    ASSUME NEW n \in Nat, NEW s, NEW S
    PROVE  \E q : IsKeeping(q, n, s, S)
<1> DEFINE T == {i \in Nat : \E q : IsKeeping(q, i, s, S)}
<1>1. 0 \in T
  <2>1. IsKeeping([i \in 0..0 |-> <<>>], 0, s, S)
    BY DEF IsKeeping
  <2> QED
    BY <2>1
<1>2. ASSUME NEW i \in 0..(n - 1), i \in T PROVE i + 1 \in T
  <2>1. PICK q : IsKeeping(q, i, s, S)
    BY <1>2
  <2> DEFINE r == [j \in 0..(i + 1) |-> IF j <= i THEN q[j] ELSE Longer(q[i], s[i + 1], S)]
  <2>2. \A j \in 0..(i + 1) : r[j] = IF j = 0 THEN <<>> ELSE Longer(r[j - 1], s[j], S)
    <3> SUFFICES ASSUME NEW j \in 0..(i + 1)
                 PROVE  r[j] = IF j = 0 THEN <<>> ELSE Longer(r[j - 1], s[j], S)
      OBVIOUS
    <3>1. CASE j = 0
      BY <2>1, <3>1 DEF IsKeeping
    <3>2. CASE j \in 1..i
      <4>1. r[j] = q[j] /\ r[j - 1] = q[j - 1]
        BY <3>2
      <4>2. q[j] = Longer(q[j - 1], s[j], S)
        BY <2>1, <3>2 DEF IsKeeping
      <4> QED
        BY <3>2, <4>1, <4>2
    <3>3. CASE j = i + 1
      BY <3>3
    <3> QED
      BY <3>1, <3>2, <3>3
  <2>3. IsKeeping(r, i + 1, s, S)
    BY <2>2 DEF IsKeeping
  <2>4. i + 1 \in Nat
    OBVIOUS
  <2> QED
    BY <2>3, <2>4
<1>3. 0..n \subseteq T
  <2> HIDE DEF T
  <2> QED
    BY <1>1, <1>2, Climbing
<1> QED
  BY <1>3

\* What is kept of the first i elements.
KeepsOf(q, s, X, S, i) ==
    /\ q \in Seq(X \cap S)
    /\ \A a \in 1..i : s[a] \in S => \E j \in 1..Len(q) : q[j] = s[a]
    /\ \A j \in 1..Len(q) : \E a \in 1..i : q[j] = s[a]
    /\ (\A a, b \in 1..Len(s) : s[a] = s[b] => a = b) => \A j, k \in 1..Len(q) : q[j] = q[k] => j = k

LEMMA KeepsOneMore ==
    ASSUME NEW X, NEW s \in Seq(X), NEW S, NEW i \in Nat, i < Len(s), NEW q, KeepsOf(q, s, X, S, i)
    PROVE  KeepsOf(Longer(q, s[i + 1], S), s, X, S, i + 1)
<1>1. i + 1 \in 1..Len(s) /\ s[i + 1] \in X /\ Len(s) \in Nat
  OBVIOUS
<1>2. q \in Seq(X \cap S) /\ Len(q) \in Nat
  BY DEF KeepsOf
<1>3. CASE s[i + 1] \notin S
  BY <1>1, <1>2, <1>3 DEF KeepsOf, Longer
<1>4. CASE s[i + 1] \in S
  <2>1. PICK r : r = Append(q, s[i + 1])
    OBVIOUS
  <2>2. /\ r \in Seq(X \cap S) /\ Len(r) = Len(q) + 1
        /\ \A j \in 1..Len(q) : r[j] = q[j]
        /\ r[Len(q) + 1] = s[i + 1]
    BY <1>1, <1>2, <1>4, <2>1
  <2>3. \A a \in 1..(i + 1) : s[a] \in S => \E j \in 1..Len(r) : r[j] = s[a]
    <3> SUFFICES ASSUME NEW a \in 1..(i + 1), s[a] \in S PROVE \E j \in 1..Len(r) : r[j] = s[a]
      OBVIOUS
    <3>1. CASE a = i + 1
      BY <1>2, <2>2, <3>1
    <3>2. CASE a \in 1..i
      <4>1. PICK j \in 1..Len(q) : q[j] = s[a]
        BY <3>2 DEF KeepsOf
      <4>2. j \in 1..Len(r) /\ r[j] = s[a]
        BY <1>2, <2>2, <4>1
      <4> QED
        BY <4>2
    <3> QED
      BY <3>1, <3>2
  <2>4. \A j \in 1..Len(r) : \E a \in 1..(i + 1) : r[j] = s[a]
    <3> SUFFICES ASSUME NEW j \in 1..Len(r) PROVE \E a \in 1..(i + 1) : r[j] = s[a]
      OBVIOUS
    <3>1. CASE j = Len(q) + 1
      BY <1>2, <2>2, <3>1
    <3>2. CASE j \in 1..Len(q)
      <4>1. PICK a \in 1..i : q[j] = s[a]
        BY <3>2 DEF KeepsOf
      <4>2. a \in 1..(i + 1) /\ r[j] = s[a]
        BY <2>2, <3>2, <4>1
      <4> QED
        BY <4>2
    <3> QED
      BY <1>2, <2>2, <3>1, <3>2
  <2>5. ASSUME \A a, b \in 1..Len(s) : s[a] = s[b] => a = b
        PROVE  \A j, k \in 1..Len(r) : r[j] = r[k] => j = k
    <3>1. \A j \in 1..Len(q) : r[j] # s[i + 1]
      <4> SUFFICES ASSUME NEW j \in 1..Len(q), r[j] = s[i + 1] PROVE FALSE
        OBVIOUS
      <4>1. PICK a \in 1..i : q[j] = s[a]
        BY DEF KeepsOf
      <4>2. s[a] = s[i + 1] /\ a \in 1..Len(s)
        BY <1>1, <2>2, <4>1
      <4>3. a = i + 1
        BY <1>1, <2>5, <4>2
      <4> QED
        BY <4>1, <4>3
    <3>2. \A j, k \in 1..Len(q) : r[j] = r[k] => j = k
      BY <2>2, <2>5 DEF KeepsOf
    <3> QED
      BY <1>2, <2>2, <3>1, <3>2
  <2>6. Longer(q, s[i + 1], S) = r
    BY <1>4, <2>1 DEF Longer
  <2>7. KeepsOf(r, s, X, S, i + 1)
    BY <2>2, <2>3, <2>4, <2>5 DEF KeepsOf
  <2> QED
    BY <2>6, <2>7
<1> QED
  BY <1>3, <1>4

LEMMA KeptOf ==
    ASSUME NEW X, NEW s \in Seq(X), NEW S
    PROVE  KeepsOf(Kept(s, S), s, X, S, Len(s))
<1> DEFINE n == Len(s)
           Q == CHOOSE q : IsKeeping(q, n, s, S)
<1>1. n \in Nat
  OBVIOUS
<1>2. IsKeeping(Q, n, s, S)
  BY <1>1, KeepingExists
<1>3. Kept(s, S) = Q[n]
  <2> HIDE DEF n
  <2>1. Kept(s, S) = (CHOOSE q : q = [i \in 0..n |-> IF i = 0 THEN <<>>
          ELSE IF s[i] \in S THEN Append(q[i - 1], s[i]) ELSE q[i - 1]])[n]
    BY DEF Kept, n
  <2>2. Q = CHOOSE q : q = [i \in 0..n |-> IF i = 0 THEN <<>>
          ELSE IF s[i] \in S THEN Append(q[i - 1], s[i]) ELSE q[i - 1]]
    BY DEF IsKeeping, Longer
  <2> QED
    BY <2>1, <2>2
<1> HIDE DEF Q
<1>4. Q[0] = <<>> /\ \A i \in 0..(n - 1) : Q[i + 1] = Longer(Q[i], s[i + 1], S)
  BY <1>1, <1>2 DEF IsKeeping
<1> DEFINE T == {i \in Nat : KeepsOf(Q[i], s, X, S, i)}
<1>5. 0 \in T
  <2>1. <<>> \in Seq(X \cap S) /\ Len(<<>>) = 0
    OBVIOUS
  <2>2. KeepsOf(<<>>, s, X, S, 0)
    BY <2>1 DEF KeepsOf
  <2> QED
    BY <1>4, <2>2
<1>6. ASSUME NEW i \in 0..(n - 1), i \in T PROVE i + 1 \in T
  <2>1. i \in Nat /\ i < Len(s) /\ KeepsOf(Q[i], s, X, S, i)
    BY <1>6
  <2>2. KeepsOf(Q[i + 1], s, X, S, i + 1)
    BY <1>4, <2>1, KeepsOneMore
  <2> QED
    BY <2>1, <2>2
<1>7. n \in T
  <2> HIDE DEF T
  <2>1. 0..n \subseteq T
    BY <1>1, <1>5, <1>6, Climbing
  <2> QED
    BY <1>1, <2>1
<1> QED
  BY <1>3, <1>7
-----------------------------------------------------------------------------
(* The inductive invariant.  What it says of records, plans and entities is  *)
(* said of values, with who approved and wrote what as parameters, so that   *)
(* it can be said of what a request has read as well.                        *)

Distinct(q) == \A i, j \in 1..Len(q) : q[i] = q[j] => i = j

Types == {"remap", "swap", "replan", "invalidate", "pin"}
Changes == {"remapped", "removed", "same", "prerequisite_changed", "changed"}

EdgeRow == [from : Known, to : Known, status : {"pending", "approved", "rejected"}]
ActionRow ==
    [type : Types, sources : Seq(Source), targets : Seq(Known),
     status : {"draft", "review_required", "approved", "executed", "execution_failed"}]
ActionRows == UNION {[D -> ActionRow] : D \in SUBSET Names}
PlanRow == [status : {"none", "draft", "ready", "partial_failure", "executed"}, actions : ActionRows]
CopyRow == [refs : Seq(Known), live : BOOLEAN]
EntityRow ==
    [refs : Seq(Known), at : {"source", "target"}, live : BOOLEAN,
     replan : BOOLEAN, copy : CopyRow]
DiffRow == [Source -> [change : Changes, to : Known]] \cup {Nothing}
ImpactRow == [type : Types, matched : UNION {[S -> Changes] : S \in SUBSET Source}]
AnalysisRow == [made : BOOLEAN, impacts : UNION {[D -> ImpactRow] : D \in SUBSET Names}]
Planning == {"plan", "look", "missing", "made", "planned"}
ThreadRow ==
    [pc : {"idle", "compared", "analyzed", "approve", "run", "write", "expire"} \cup Planning,
     diff : DiffRow, analysis : AnalysisRow, plan : PlanRow, chosen : SUBSET Names,
     todo : Seq(Names), read : EntityRow \cup {Nothing}, failed : BOOLEAN]

Same(c) == c \in Target /\ Fields[c] = {}
Affected(e) == {c \in Range(Refs[e]) \cap Source : ~Same(c)}

GoodEdges(es, al) ==
    /\ es \in Seq(EdgeRow)
    /\ \A i \in 1..Len(es) : es[i].status = "approved" => <<es[i].from, es[i].to>> \in al

GoodDelta(c, d, al) ==
    /\ d.change \in Changes
    /\ d.change = "same" <=> Same(c)
    /\ c \in Target <=> d.change \notin {"remapped", "removed"}
    /\ d.change = "remapped" => <<c, d.to>> \in al /\ d.to \in Known

GoodDiff(d, al) == d \in DiffRow /\ \A c \in DOMAIN d : GoodDelta(c, d[c], al)

\* A component that an unrevised entity may refer to, and one that it may refer to
\* in the new snapshot.
Fine(e, c, al) == c \in Lineage(Range(Refs[e]), al)
Home(e, c, al) ==
    \/ c \in Target
    \/ c \in Range(Refs[e]) \ Source
    \/ \E old \in Lineage(Range(Refs[e]), al) : <<old, c>> \in al
Whole(e, refs, al) == \A c \in Range(refs) : Home(e, c, al) /\ Fine(e, c, al)

\* What is looked for in an entity that was not revised.  An assignment names no
\* snapshot and may be migrated again.
Sought(e, S, al) ==
    /\ \A c \in S : Fine(e, c, al)
    /\ Kind[e] # "assignment" => S = Affected(e)

\* An impact's type is what its changes allow.
GoodImpact(e, m, al, re) ==
    /\ m \in ImpactRow
    /\ DOMAIN m.matched \subseteq {c \in Source : ~Same(c)}
    /\ m.type = "remap" => \A c \in DOMAIN m.matched : m.matched[c] = "remapped"
    /\ m.type = "swap" => DOMAIN m.matched \subseteq Target
    /\ m.type = "replan" => Kind[e] = "trajectory" /\ \A c \in DOMAIN m.matched :
            m.matched[c] \in {"changed", "prerequisite_changed"}
    /\ m.type = "invalidate" => Kind[e] = "library"
    /\ e \notin re => Sought(e, DOMAIN m.matched, al)

GoodAnalysis(a, al, re) ==
    /\ a \in AnalysisRow
    /\ DOMAIN a.impacts \subseteq Names
    /\ \A e \in DOMAIN a.impacts : GoodImpact(e, a.impacts[e], al, re)

GoodAction(e, a, al, ra, re) ==
    /\ a.type = "pin" => a.status = "review_required"
    /\ a.status \in {"approved", "executed", "execution_failed"} => e \in ra
    /\ a.type = "invalidate" => Kind[e] = "library"
    /\ a.type = "replan" => Kind[e] = "trajectory"
    /\ a.type = "remap" => Range(a.sources) \subseteq Removed /\ Len(a.sources) = Len(a.targets)
    /\ a.type \in {"swap", "replan"} => Range(a.sources) \subseteq Target /\ a.targets = Nothing
    /\ Distinct(a.sources)
    /\ \A i \in 1..Len(a.targets) : \E j \in 1..Len(a.sources) : <<a.sources[j], a.targets[i]>> \in al
    /\ e \notin re => Sought(e, Range(a.sources), al)

GoodPlan(p, al, ra, re) ==
    /\ p \in PlanRow /\ p.status # "none"
    /\ \A e \in DOMAIN p.actions : GoodAction(e, p.actions[e], al, ra, re)

GoodVersion(e, v, al, re) ==
    /\ v \in EntityRow
    /\ e \notin re =>
        /\ \A c \in Range(v.refs) : Fine(e, c, al)
        /\ v.at = "target" => Whole(e, v.refs, al) /\ Kind[e] # "assignment"
        /\ v.at = "source" /\ Kind[e] # "assignment" => v.refs = Refs[e]
        /\ Whole(e, v.copy.refs, al)

GoodTodo(todo, p, ra) ==
    \A i \in 1..Len(todo) :
        todo[i] \in DOMAIN p.actions /\ todo[i] \in ra /\ p.actions[todo[i]].type # "pin"

GoodThread(h, al, ra, re) ==
    /\ h \in ThreadRow
    /\ GoodDiff(h.diff, al) /\ GoodAnalysis(h.analysis, al, re)
    /\ h.pc \in {"compared", "look", "missing", "made", "planned"} => DOMAIN h.diff = Source
    /\ h.pc \in {"approve", "run", "write", "expire"} => GoodPlan(h.plan, al, ra, re)
    /\ h.pc \in {"run", "write", "expire"} => GoodTodo(h.todo, h.plan, ra)
    /\ h.pc \in {"write", "expire"} => h.todo # Nothing
    /\ h.pc = "write" => GoodVersion(Head(h.todo), h.read, al, re)

Records ==
    /\ digest \in SetToSeqs(Removed)
    /\ GoodEdges(edges, aligned)
    /\ GoodDiff(diff, aligned)
    /\ GoodAnalysis(analysis, aligned, revised)
    /\ plan = NoPlan \/ GoodPlan(plan, aligned, ratified, revised)
Entitled ==
    /\ DOMAIN entity = Names
    /\ \A e \in Names : GoodVersion(e, entity[e], aligned, revised)
Working ==
    /\ DOMAIN thread = Threads
    /\ \A t \in Threads : GoodThread(thread[t], aligned, ratified, revised)
\* A plan is only asked for where there is a diff.
Compared == \A t \in Threads : thread[t].pc \in Planning => DOMAIN diff = Source
History == migrated \subseteq ratified /\ migrated \subseteq Names

IInv == Records /\ Entitled /\ Working /\ Compared /\ History

-----------------------------------------------------------------------------
(* Sequences without repetition.                                            *)

LEMMA RangeOf ==
    ASSUME NEW X, NEW q \in Seq(X)
    PROVE  /\ Range(q) = {q[i] : i \in 1..Len(q)} /\ Range(q) \subseteq X
           /\ Len(q) \in Nat /\ DOMAIN q = 1..Len(q)
  BY DEF Range

LEMMA LengthOfRange ==
    ASSUME NEW X, NEW q \in Seq(X), Distinct(q)
    PROVE  Cardinality(Range(q)) = Len(q)
<1>1. Len(q) \in Nat /\ q \in [1..Len(q) -> Range(q)]
  BY RangeOf
<1>2. q \in Injection(1..Len(q), Range(q))
  BY <1>1 DEF Injection, IsInjective, Distinct
<1>3. q \in Surjection(1..Len(q), Range(q))
  <2>1. \A x \in Range(q) : \E i \in 1..Len(q) : q[i] = x
    BY RangeOf
  <2> QED
    BY <1>1, <2>1 DEF Surjection
<1>4. IsFiniteSet(1..Len(q)) /\ Cardinality(1..Len(q)) = Len(q)
  BY <1>1, FS_Interval
<1> QED
  BY <1>2, <1>3, <1>4, FS_Surjection

LEMMA KeptAll ==
    ASSUME NEW X, NEW s \in Seq(X), Distinct(s), NEW S, S \subseteq Range(s)
    PROVE  /\ Kept(s, S) \in Seq(S) /\ Range(Kept(s, S)) = S
           /\ Distinct(Kept(s, S))
<1>1. PICK q : q = Kept(s, S)
  OBVIOUS
<1>2. KeepsOf(q, s, X, S, Len(s))
  BY <1>1, KeptOf
<1>3. q \in Seq(X \cap S) /\ Range(s) = {s[i] : i \in 1..Len(s)}
  <2>1. q \in Seq(X \cap S)
    BY <1>2 DEF KeepsOf
  <2>2. Range(s) = {s[i] : i \in 1..Len(s)}
    BY RangeOf
  <2> QED
    BY <2>1, <2>2
<1>4. q \in Seq(S) /\ Range(q) = {q[i] : i \in 1..Len(q)} /\ Range(q) \subseteq S
  <2>1. X \cap S = S
    BY RangeOf
  <2> QED
    BY <1>3, <2>1, RangeOf
<1>5. S \subseteq Range(q)
  <2> SUFFICES ASSUME NEW x \in S PROVE x \in Range(q)
    OBVIOUS
  <2>1. PICK a \in 1..Len(s) : s[a] = x
    BY <1>3
  <2>2. \E j \in 1..Len(q) : q[j] = s[a]
    BY <1>2, <2>1 DEF KeepsOf
  <2> QED
    BY <1>4, <2>1, <2>2
<1>6. Distinct(q)
  BY <1>2 DEF KeepsOf, Distinct
<1> QED
  BY <1>1, <1>4, <1>5, <1>6

\* What is kept is among what there was.
Among(q, s, S) == \A j \in 1..Len(q) : q[j] \in S /\ \E a \in 1..Len(s) : q[j] = s[a]

LEMMA KeptAmong ==
    ASSUME NEW X, NEW s \in Seq(X), NEW S
    PROVE  /\ Kept(s, S) \in Seq(X \cap S) /\ Kept(s, S) \in Seq(X)
           /\ Among(Kept(s, S), s, S)
<1>1. PICK q : q = Kept(s, S)
  OBVIOUS
<1>2. KeepsOf(q, s, X, S, Len(s))
  BY <1>1, KeptOf
<1>3. q \in Seq(X \cap S) /\ \A j \in 1..Len(q) : \E a \in 1..Len(s) : q[j] = s[a]
  BY <1>2 DEF KeepsOf
<1>4. q \in Seq(X) /\ \A j \in 1..Len(q) : q[j] \in S
  BY <1>3
<1> QED
  BY <1>1, <1>3, <1>4 DEF Among

LEMMA Snapshots ==
    ASSUME CurriculumMigrationAssumption
    PROVE  /\ Components \in Seq(Source \cup Target) /\ Range(Components) = Source \cup Target
           /\ Distinct(Components)
           /\ IsFiniteSet(Removed) /\ Removed \subseteq Source
<1>1. /\ Components \in Seq(Source \cup Target) /\ Range(Components) = Source \cup Target
      /\ Distinct(Components)
  BY DEF CurriculumMigrationAssumption, IsInjective, Distinct
<1>2. IsFiniteSet(Range(Components))
  <2>1. Len(Components) \in Nat /\ Components \in [1..Len(Components) -> Range(Components)]
    BY <1>1, RangeOf
  <2>2. \A x \in Range(Components) : \E i \in 1..Len(Components) : Components[i] = x
    BY <1>1, RangeOf
  <2>3. Components \in Surjection(1..Len(Components), Range(Components))
    BY <2>1, <2>2 DEF Surjection
  <2>4. IsFiniteSet(1..Len(Components))
    BY <2>1, FS_Interval
  <2> QED
    BY <2>3, <2>4, FS_Surjection
<1>3. Removed \in SUBSET (Source \cup Target) /\ Removed \subseteq Source
  BY DEF Removed
<1>4. IsFiniteSet(Removed)
  BY <1>1, <1>2, <1>3, FS_Subset
<1> QED
  BY <1>1, <1>3, <1>4

LEMMA Digested ==
    ASSUME CurriculumMigrationAssumption, NEW d \in SetToSeqs(Removed)
    PROVE  /\ d \in Seq(Removed) /\ Range(d) = Removed
           /\ Distinct(d)
<1> DEFINE n == Cardinality(Removed)
<1>1. IsFiniteSet(Removed) /\ n \in Nat
  BY Snapshots, FS_CardinalityType
<1>2. d \in [1..n -> Removed] /\ \A i, j \in 1..n : i # j => d[i] # d[j]
  BY DEF SetToSeqs
<1>3. d \in Injection(1..n, Removed)
  BY <1>2 DEF Injection, IsInjective
<1>4. IsFiniteSet(1..n) /\ Cardinality(1..n) = n
  BY <1>1, FS_Interval
<1>5. d \in Surjection(1..n, Removed)
  BY <1>1, <1>3, <1>4, FS_Injection
<1> HIDE DEF n
<1>6. d \in Seq(Removed) /\ Len(d) = n
  BY <1>1, <1>2
<1>7. \A x \in Removed : \E i \in 1..n : d[i] = x
  BY <1>5 DEF Surjection
<1>8. Range(d) = Removed
  BY <1>2, <1>7 DEF Range
<1> QED
  BY <1>2, <1>6, <1>8 DEF Distinct

-----------------------------------------------------------------------------
(* What was approved stays approved, and what was revised revised.          *)

LEMMA LineageHas ==
    ASSUME NEW S, NEW al
    PROVE  S \subseteq Lineage(S, al)
  BY DEF Lineage

LEMMA LineageLeads ==
    ASSUME NEW S, NEW al, NEW a, NEW b, a \in Lineage(S, al), <<a, b>> \in al
    PROVE  b \in Lineage(S, al)
<1>1. b \in {pair[2] : pair \in al}
  BY <<a, b>>[2] = b
<1>2. ASSUME NEW X \in SUBSET (S \cup {pair[2] : pair \in al}), S \subseteq X,
             \A pair \in al : pair[1] \in X => pair[2] \in X
      PROVE  b \in X
  <2>1. a \in X
    BY <1>2 DEF Lineage
  <2>2. <<a, b>>[1] \in X => <<a, b>>[2] \in X
    BY <1>2
  <2> QED
    BY <2>1, <2>2
<1> QED
  BY <1>1, <1>2 DEF Lineage

LEMMA LineageGrows ==
    ASSUME NEW S, NEW al, NEW bl, al \subseteq bl
    PROVE  Lineage(S, al) \subseteq Lineage(S, bl)
<1> DEFINE A == S \cup {pair[2] : pair \in al}
           B == S \cup {pair[2] : pair \in bl}
<1>1. A \subseteq B
  OBVIOUS
<1>2. ASSUME NEW c \in Lineage(S, al), NEW X \in SUBSET B, S \subseteq X,
             \A pair \in bl : pair[1] \in X => pair[2] \in X
      PROVE  c \in X
  <2>1. PICK Y : Y = X \cap A
    OBVIOUS
  <2>2. Y \in SUBSET A /\ S \subseteq Y
    BY <1>2, <2>1
  <2>3. \A pair \in al : pair[1] \in Y => pair[2] \in Y
    BY <1>2, <2>1
  <2>4. c \in Y
    BY <2>2, <2>3 DEF Lineage
  <2> QED
    BY <2>1, <2>4
<1>3. \A c \in Lineage(S, al) : c \in B
  BY <1>1 DEF Lineage
<1> QED
  BY <1>2, <1>3 DEF Lineage

LEMMA FineGrows ==
    ASSUME NEW e, NEW c, NEW al, NEW bl, al \subseteq bl
    PROVE  (Fine(e, c, al) => Fine(e, c, bl)) /\ (Home(e, c, al) => Home(e, c, bl))
<1>1. Lineage(Range(Refs[e]), al) \subseteq Lineage(Range(Refs[e]), bl)
  BY LineageGrows
<1> QED
  BY <1>1 DEF Fine, Home

LEMMA WholeGrows ==
    ASSUME NEW e, NEW refs, NEW al, NEW bl, al \subseteq bl, Whole(e, refs, al)
    PROVE  Whole(e, refs, bl)
  BY FineGrows DEF Whole

LEMMA SoughtGrows ==
    ASSUME NEW e, NEW S, NEW al, NEW bl, al \subseteq bl, Sought(e, S, al)
    PROVE  Sought(e, S, bl)
  BY FineGrows DEF Sought

LEMMA VersionGrows ==
    ASSUME NEW e, NEW v, NEW al, NEW bl, al \subseteq bl, NEW re, NEW rf, re \subseteq rf,
           GoodVersion(e, v, al, re)
    PROVE  GoodVersion(e, v, bl, rf)
  BY FineGrows, WholeGrows DEF GoodVersion

LEMMA EdgesGrow ==
    ASSUME NEW es, NEW al, NEW bl, al \subseteq bl, GoodEdges(es, al)
    PROVE  GoodEdges(es, bl)
  BY DEF GoodEdges

LEMMA DiffGrows ==
    ASSUME NEW d, NEW al, NEW bl, al \subseteq bl, GoodDiff(d, al)
    PROVE  GoodDiff(d, bl)
<1>1. \A c \in DOMAIN d : GoodDelta(c, d[c], al) => GoodDelta(c, d[c], bl)
  BY DEF GoodDelta
<1> QED
  BY <1>1 DEF GoodDiff

LEMMA AnalysisGrows ==
    ASSUME NEW a, NEW al, NEW bl, al \subseteq bl, NEW re, NEW rf, re \subseteq rf, GoodAnalysis(a, al, re)
    PROVE  GoodAnalysis(a, bl, rf)
<1>1. \A e \in DOMAIN a.impacts : GoodImpact(e, a.impacts[e], al, re) => GoodImpact(e, a.impacts[e], bl, rf)
  BY SoughtGrows DEF GoodImpact
<1> QED
  BY <1>1 DEF GoodAnalysis

LEMMA ActionGrows ==
    ASSUME NEW e, NEW a, NEW al, NEW bl, al \subseteq bl, NEW ra, NEW rb, ra \subseteq rb,
           NEW re, NEW rf, re \subseteq rf, GoodAction(e, a, al, ra, re)
    PROVE  GoodAction(e, a, bl, rb, rf)
<1>1. \A i \in 1..Len(a.targets) : \E j \in 1..Len(a.sources) : <<a.sources[j], a.targets[i]>> \in bl
  BY DEF GoodAction
<1> QED
  BY <1>1, SoughtGrows DEF GoodAction

LEMMA PlanGrows ==
    ASSUME NEW p, NEW al, NEW bl, al \subseteq bl, NEW ra, NEW rb, ra \subseteq rb,
           NEW re, NEW rf, re \subseteq rf, GoodPlan(p, al, ra, re)
    PROVE  GoodPlan(p, bl, rb, rf)
  BY ActionGrows DEF GoodPlan

LEMMA ThreadGrows ==
    ASSUME NEW h, NEW al, NEW bl, al \subseteq bl, NEW ra, NEW rb, ra \subseteq rb,
           NEW re, NEW rf, re \subseteq rf, GoodThread(h, al, ra, re)
    PROVE  GoodThread(h, bl, rb, rf)
<1>1. GoodTodo(h.todo, h.plan, ra) => GoodTodo(h.todo, h.plan, rb)
  BY DEF GoodTodo
<1> QED
  BY <1>1, DiffGrows, AnalysisGrows, PlanGrows, VersionGrows DEF GoodThread

-----------------------------------------------------------------------------
(* Alignments and the diff.                                                 *)

LEMMA EdgeReviewed ==
    ASSUME CurriculumMigrationAssumption, NEW al, GoodEdges(edges, al),
           NEW pair \in Alignments, NEW status \in {"pending", "approved", "rejected"},
           status = "approved" => pair \in al
    PROVE  GoodEdges(<<Edge(pair, status)>> \o Others(pair), al)
<1>1. edges \in Seq(EdgeRow)
  BY DEF GoodEdges
<1>2. PICK q : q = Others(pair)
  OBVIOUS
<1>3. q \in Seq(EdgeRow) /\ \A j \in 1..Len(q) : \E a \in 1..Len(edges) : q[j] = edges[a]
  <2>1. PICK S : S = {x \in Range(edges) : <<x.from, x.to>> # pair}
    OBVIOUS
  <2>2. q = Kept(edges, S)
    BY <1>2, <2>1 DEF Others
  <2>3. q \in Seq(EdgeRow) /\ Among(q, edges, S)
    BY <1>1, <2>2, KeptAmong
  <2> QED
    BY <2>3 DEF Among
<1>4. \A j \in 1..Len(q) : q[j].status = "approved" => <<q[j].from, q[j].to>> \in al
  <2> SUFFICES ASSUME NEW j \in 1..Len(q), q[j].status = "approved" PROVE <<q[j].from, q[j].to>> \in al
    OBVIOUS
  <2>1. PICK a \in 1..Len(edges) : q[j] = edges[a]
    BY <1>3
  <2> QED
    BY <2>1 DEF GoodEdges
<1>5. PICK from \in Known, to \in Known : pair = <<from, to>>
  BY DEF CurriculumMigrationAssumption
<1>6. PICK e \in EdgeRow : e = [from |-> from, to |-> to, status |-> status]
  BY <1>5 DEF EdgeRow
<1>7. e = Edge(pair, status)
  BY <1>5, <1>6 DEF Edge
<1>8. e.status = "approved" => <<e.from, e.to>> \in al
  BY <1>5, <1>6
<1>9. PICK r : r = <<e>> \o q
  OBVIOUS
<1>10. r \in Seq(EdgeRow) /\ Len(r) = Len(q) + 1 /\ r[1] = e /\ \A i \in 2..Len(r) : r[i] = q[i - 1]
  BY <1>3, <1>6, <1>9
<1>11. \A i \in 1..Len(r) : r[i].status = "approved" => <<r[i].from, r[i].to>> \in al
  <2> SUFFICES ASSUME NEW i \in 1..Len(r) PROVE r[i].status = "approved" => <<r[i].from, r[i].to>> \in al
    OBVIOUS
  <2>1. CASE i = 1
    BY <1>8, <1>10, <2>1
  <2>2. CASE i # 1
    <3>1. i \in 2..Len(r) /\ i - 1 \in 1..Len(q)
      BY <1>3, <1>10, <2>2
    <3> QED
      BY <1>4, <1>10, <3>1
  <2> QED
    BY <2>1, <2>2
<1> QED
  BY <1>2, <1>7, <1>9, <1>10, <1>11 DEF GoodEdges

LEMMA EquivalentIsApproved ==
    ASSUME NEW al, GoodEdges(edges, al), NEW c, Equivalents(c) # <<>>
    PROVE  <<c, Last(Equivalents(c)).to>> \in al /\ Last(Equivalents(c)).to \in Known
<1>1. edges \in Seq(EdgeRow)
  BY DEF GoodEdges
<1>2. PICK q : q = Equivalents(c)
  OBVIOUS
<1>3. /\ q \in Seq(EdgeRow)
      /\ \A j \in 1..Len(q) : q[j].from = c /\ q[j].status = "approved"
                              /\ \E a \in 1..Len(edges) : q[j] = edges[a]
  <2>1. PICK S : S = {x \in Range(edges) : x.from = c /\ x.status = "approved"}
    OBVIOUS
  <2>2. q = Kept(edges, S)
    BY <1>2, <2>1 DEF Equivalents
  <2>3. q \in Seq(EdgeRow) /\ Among(q, edges, S)
    BY <1>1, <2>2, KeptAmong
  <2> QED
    BY <2>1, <2>3 DEF Among
<1>4. Len(q) \in 1..Len(q) /\ Last(q) = q[Len(q)]
  BY <1>2, <1>3 DEF Last
<1>5. PICK a \in 1..Len(edges) : q[Len(q)] = edges[a]
  BY <1>3, <1>4
<1>6. edges[a].from = c /\ edges[a].status = "approved" /\ edges[a] \in EdgeRow
  BY <1>1, <1>3, <1>4, <1>5
<1>7. <<edges[a].from, edges[a].to>> \in al /\ edges[a].to \in Known
  BY <1>6 DEF GoodEdges, EdgeRow
<1> QED
  BY <1>2, <1>4, <1>5, <1>6, <1>7

LEMMA DeltaIsGood ==
    ASSUME NEW al, GoodEdges(edges, al), NEW c \in Source
    PROVE  GoodDelta(c, Delta(c), al) /\ Delta(c) \in [change : Changes, to : Known]
<1> c \in Known
  BY DEF Known
<1>1. CASE c \in Removed /\ Equivalents(c) # <<>>
  <2>1. PICK to : to = Last(Equivalents(c)).to
    OBVIOUS
  <2>2. Delta(c) = [change |-> "remapped", to |-> to]
    BY <1>1, <2>1 DEF Delta, Removed
  <2>3. <<c, to>> \in al /\ to \in Known /\ c \notin Target
    BY <1>1, <2>1, EquivalentIsApproved DEF Removed
  <2> QED
    BY <2>2, <2>3 DEF GoodDelta, Changes, Same
<1>2. CASE c \in Removed /\ Equivalents(c) = <<>>
  <2>1. Delta(c) = [change |-> "removed", to |-> c]
    BY <1>2 DEF Delta, Removed
  <2> QED
    BY <1>2, <2>1 DEF GoodDelta, Changes, Same, Removed
<1>3. CASE c \in Target
  <2>1. PICK change \in {"same", "prerequisite_changed", "changed"} :
            Delta(c) = [change |-> change, to |-> c] /\ (change = "same" <=> Fields[c] = {})
    <3>1. CASE Fields[c] = {}
      <4>1. Delta(c) = [change |-> "same", to |-> c]
        BY <1>3, <3>1 DEF Delta, Removed
      <4> QED
        BY <3>1, <4>1
    <3>2. CASE "prerequisites" \in Fields[c]
      <4>1. Delta(c) = [change |-> "prerequisite_changed", to |-> c]
        BY <1>3, <3>2 DEF Delta, Removed
      <4> QED
        BY <3>2, <4>1
    <3>3. CASE Fields[c] # {} /\ "prerequisites" \notin Fields[c]
      <4>1. Delta(c) = [change |-> "changed", to |-> c]
        BY <1>3, <3>3 DEF Delta, Removed
      <4> QED
        BY <3>3, <4>1
    <3> QED
      BY <3>1, <3>2, <3>3
  <2> QED
    BY <1>3, <2>1 DEF GoodDelta, Changes, Same
<1> QED
  BY <1>1, <1>2, <1>3 DEF Removed

-----------------------------------------------------------------------------
(* The analysis.                                                            *)

LEMMA EntitiesAre ==
    ASSUME CurriculumMigrationAssumption
    PROVE  Entities \in Seq(Names) /\ \A e \in Names : Refs[e] \in Seq(Known)
  BY DEF CurriculumMigrationAssumption, Names

LEMMA DiffIs ==
    ASSUME NEW d, NEW al, GoodDiff(d, al), DOMAIN d = Source
    PROVE  DOMAIN d = Source /\ \A c \in Source : GoodDelta(c, d[c], al) /\ d[c].change \in Changes
<1>1. ASSUME NEW c \in Source PROVE d[c].change \in Changes
  <2>1. d # Nothing
    BY DEF Nothing
  <2> QED
    BY <2>1 DEF GoodDiff, DiffRow
<1> QED
  BY <1>1 DEF GoodDiff

LEMMA DiffMade ==
    ASSUME NEW d, NEW al, GoodDiff(d, al), d # Nothing
    PROVE  DOMAIN d = Source
  BY DEF GoodDiff, DiffRow

LEMMA MatchedIs ==
    ASSUME CurriculumMigrationAssumption, IInv, DOMAIN diff = Source, NEW e \in Names, Listed(e)
    PROVE  /\ Matched(e) \subseteq {c \in Source : ~Same(c)}
           /\ e \notin revised => Sought(e, Matched(e), aligned)
<1>1. \A c \in Source : diff[c].change # "same" <=> ~Same(c)
  BY DiffIs DEF IInv, Records, GoodDelta
<1>2. Matched(e) = {c \in Range(entity[e].refs) \cap Source : ~Same(c)}
  BY <1>1 DEF Matched
<1>3. ASSUME e \notin revised PROVE Sought(e, Matched(e), aligned)
  <2>1. GoodVersion(e, entity[e], aligned, revised)
    BY DEF IInv, Entitled
  <2>2. \A c \in Range(entity[e].refs) : Fine(e, c, aligned)
    BY <1>3, <2>1 DEF GoodVersion
  <2>3. Kind[e] # "assignment" => entity[e].refs = Refs[e]
    BY <1>3, <2>1 DEF GoodVersion, Listed
  <2> QED
    BY <1>2, <2>2, <2>3 DEF Sought, Affected
<1> QED
  BY <1>2, <1>3

LEMMA SuggestFits ==
    ASSUME NEW kind, NEW S
    PROVE  /\ Suggest(kind, S) \in Types
           /\ Suggest(kind, S) = "remap" => \A c \in S : diff[c].change = "remapped"
           /\ Suggest(kind, S) = "swap" => S \subseteq Target
           /\ Suggest(kind, S) = "replan" => kind = "trajectory" /\ \A c \in S :
                    diff[c].change \in {"changed", "prerequisite_changed"}
           /\ Suggest(kind, S) = "invalidate" => kind = "library"
<1>1. CASE \A c \in S : diff[c].change \in {"remapped"}
  <2>1. Suggest(kind, S) = "remap"
    BY <1>1 DEF Suggest
  <2> QED
    BY <1>1, <2>1 DEF Types
<1>2. CASE ~(\A c \in S : diff[c].change \in {"remapped"}) /\ kind = "library"
  <2>1. Suggest(kind, S) = IF \A c \in S : Swappable(c) THEN "swap" ELSE "invalidate"
    BY <1>2 DEF Suggest
  <2> QED
    BY <1>2, <2>1 DEF Types, Swappable
<1>3. CASE /\ ~(\A c \in S : diff[c].change \in {"remapped"})
           /\ kind = "trajectory" /\ \A c \in S : diff[c].change \in {"changed", "prerequisite_changed"}
  <2>1. Suggest(kind, S) = "replan"
    BY <1>3 DEF Suggest
  <2> QED
    BY <1>3, <2>1 DEF Types
<1>4. CASE /\ ~(\A c \in S : diff[c].change \in {"remapped"})
           /\ kind \notin {"library", "trajectory"} /\ \A c \in S : Swappable(c)
  <2>1. Suggest(kind, S) = "swap"
    BY <1>4 DEF Suggest
  <2> QED
    BY <1>4, <2>1 DEF Types, Swappable
<1>5. CASE /\ ~(\A c \in S : diff[c].change \in {"remapped"}) /\ kind # "library"
           /\ ~(kind = "trajectory" /\ \A c \in S : diff[c].change \in {"changed", "prerequisite_changed"})
           /\ ~(kind \notin {"library", "trajectory"} /\ \A c \in S : Swappable(c))
  <2>1. Suggest(kind, S) = "pin"
    BY <1>5 DEF Suggest
  <2> QED
    BY <2>1 DEF Types
<1> QED
  BY <1>1, <1>2, <1>3, <1>4, <1>5

LEMMA MadeIsGood ==
    ASSUME CurriculumMigrationAssumption, IInv, DOMAIN diff = Source
    PROVE  GoodAnalysis(Made, aligned, revised)
<1> DEFINE D == {n \in Names : Listed(n) /\ Matched(n) # {}}
           impact(e) == [type |-> Suggest(Kind[e], Matched(e)),
                         matched |-> [c \in Matched(e) |-> diff[c].change]]
<1>1. Made = [made |-> TRUE, impacts |-> [e \in D |-> impact(e)]]
  BY DEF Made
<1>2. ASSUME NEW e \in D PROVE impact(e) \in ImpactRow /\ GoodImpact(e, impact(e), aligned, revised)
  <2>1. PICK S : S = Matched(e)
    OBVIOUS
  <2>2. PICK type : type = Suggest(Kind[e], S)
    OBVIOUS
  <2>3. PICK f : f = [c \in S |-> diff[c].change]
    OBVIOUS
  <2>4. PICK m : m = [type |-> type, matched |-> f]
    OBVIOUS
  <2>5. m = impact(e)
    BY <2>1, <2>2, <2>3, <2>4
  <2>6. m.type = type /\ m.matched = f /\ DOMAIN f = S /\ \A c \in S : f[c] = diff[c].change
    BY <2>3, <2>4
  <2>7. /\ S \subseteq {c \in Source : ~Same(c)}
        /\ e \notin revised => Sought(e, S, aligned)
    BY <2>1, MatchedIs
  <2>8. /\ type \in Types
        /\ type = "remap" => \A c \in S : diff[c].change = "remapped"
        /\ type = "swap" => S \subseteq Target
        /\ type = "replan" => Kind[e] = "trajectory" /\ \A c \in S :
                diff[c].change \in {"changed", "prerequisite_changed"}
        /\ type = "invalidate" => Kind[e] = "library"
    BY <2>2, SuggestFits
  <2>9. m \in ImpactRow
    <3>1. \A c \in S : diff[c].change \in Changes
      BY <2>7, DiffIs DEF IInv, Records
    <3>2. f \in [S -> Changes] /\ S \in SUBSET Source
      BY <2>3, <2>7, <3>1
    <3>3. f \in UNION {[T -> Changes] : T \in SUBSET Source}
      BY <3>2
    <3> QED
      BY <2>4, <2>8, <3>3 DEF ImpactRow
  <2>10. GoodImpact(e, m, aligned, revised)
    BY <2>6, <2>7, <2>8, <2>9 DEF GoodImpact
  <2> QED
    BY <2>5, <2>9, <2>10
<1> HIDE DEF impact
<1>3. PICK is : is = [e \in D |-> impact(e)]
  OBVIOUS
<1>4. is \in [D -> ImpactRow] /\ D \in SUBSET Names /\ DOMAIN is = D /\ \A e \in D : is[e] = impact(e)
  BY <1>2, <1>3
<1>5. PICK a : a = [made |-> TRUE, impacts |-> is]
  OBVIOUS
<1>6. a = Made /\ a.impacts = is
  BY <1>1, <1>3, <1>5
<1>7. a \in AnalysisRow
  BY <1>4, <1>5 DEF AnalysisRow
<1>8. GoodAnalysis(a, aligned, revised)
  BY <1>2, <1>4, <1>6, <1>7 DEF GoodAnalysis
<1> QED
  BY <1>6, <1>8

-----------------------------------------------------------------------------
(* The plan.                                                                *)

LEMMA TargetsFit ==
    ASSUME CurriculumMigrationAssumption, digest \in SetToSeqs(Removed), NEW al, NEW d0, GoodDiff(d0, al),
           DOMAIN d0 = Source, NEW S, S \subseteq Source
    PROVE  /\ Targets(d0, S) \in Seq(Known)
           /\ \A i \in 1..Len(Targets(d0, S)) : \E c \in S : <<c, Targets(d0, S)[i]>> \in al
           /\ Len(Targets(d0, S)) = Cardinality({c \in S : d0[c].change = "remapped"})
<1>1. PICK R : R = {c \in S : d0[c].change = "remapped"}
  OBVIOUS
<1>2. \A c \in R : c \in S /\ c \in Removed /\ <<c, d0[c].to>> \in al /\ d0[c].to \in Known
  <2> SUFFICES ASSUME NEW c \in R
               PROVE  c \in S /\ c \in Removed /\ <<c, d0[c].to>> \in al /\ d0[c].to \in Known
    OBVIOUS
  <2>1. c \in S /\ c \in Source /\ d0[c].change = "remapped" /\ GoodDelta(c, d0[c], al)
    BY <1>1, DiffIs
  <2> QED
    BY <2>1 DEF GoodDelta, Removed
<1>3. PICK d : d = digest
  OBVIOUS
<1>4. d \in Seq(Removed) /\ Range(d) = Removed /\ Distinct(d)
  BY <1>3, Digested
<1>5. PICK q : q = Kept(d, R)
  OBVIOUS
<1>6. q \in Seq(R) /\ Range(q) = R /\ Distinct(q)
  BY <1>2, <1>4, <1>5, KeptAll
<1>7. Len(q) = Cardinality(R)
  BY <1>6, LengthOfRange
<1>8. PICK r : r = Targets(d0, S)
  OBVIOUS
<1>9. r = [i \in 1..Len(q) |-> d0[q[i]].to]
  BY <1>1, <1>3, <1>5, <1>6, <1>8 DEF Targets
<1>10. \A i \in 1..Len(q) : q[i] \in R
  BY <1>6
<1>11. Len(q) \in Nat /\ \A i \in 1..Len(q) : r[i] = d0[q[i]].to /\ r[i] \in Known
  <2>1. \A i \in 1..Len(q) : r[i] = d0[q[i]].to
    BY <1>9
  <2>2. \A i \in 1..Len(q) : d0[q[i]].to \in Known
    BY <1>2, <1>10
  <2> QED
    BY <1>6, <2>1, <2>2
<1>12. r \in Seq(Known) /\ Len(r) = Len(q)
  BY <1>9, <1>11
<1>13. \A i \in 1..Len(r) : \E c \in S : <<c, r[i]>> \in al
  BY <1>2, <1>10, <1>11, <1>12
<1> QED
  BY <1>1, <1>7, <1>8, <1>12, <1>13

LEMMA PlannedIsGood ==
    ASSUME CurriculumMigrationAssumption, digest \in SetToSeqs(Removed), NEW al, NEW d0, GoodDiff(d0, al),
           DOMAIN d0 = Source, NEW ra, NEW re, NEW e \in Names, NEW m, GoodImpact(e, m, al, re),
           \A c \in DOMAIN m.matched : m.matched[c] = d0[c].change,
           NEW a, a = [type |-> m.type, sources |-> Kept(Components, DOMAIN m.matched),
                       targets |-> Targets(d0, DOMAIN m.matched),
                       status |-> IF m.type = "pin" THEN "review_required" ELSE "draft"]
    PROVE  a \in ActionRow /\ GoodAction(e, a, al, ra, re)
<1>1. PICK S : S = DOMAIN m.matched
  OBVIOUS
<1>2. /\ S \subseteq Source /\ m.type \in Types
      /\ m.type = "remap" => \A c \in S : d0[c].change = "remapped"
      /\ m.type = "swap" => S \subseteq Target
      /\ m.type = "replan" => Kind[e] = "trajectory" /\ \A c \in S :
            d0[c].change \in {"changed", "prerequisite_changed"}
      /\ m.type = "invalidate" => Kind[e] = "library"
      /\ e \notin re => Sought(e, S, al)
  BY <1>1 DEF GoodImpact, ImpactRow
<1>3. PICK p : p = Kept(Components, S)
  OBVIOUS
<1>4. p \in Seq(S) /\ Range(p) = S /\ Distinct(p)
  <2>1. S \subseteq Range(Components)
    BY <1>2, Snapshots
  <2> QED
    BY <1>3, <2>1, Snapshots, KeptAll
<1>5. Len(p) = Cardinality(S)
  BY <1>4, LengthOfRange
<1>6. PICK r : r = Targets(d0, S)
  OBVIOUS
<1>7. /\ r \in Seq(Known) /\ \A i \in 1..Len(r) : \E c \in S : <<c, r[i]>> \in al
      /\ Len(r) = Cardinality({c \in S : d0[c].change = "remapped"})
  <2>1. S \subseteq Source
    BY <1>2
  <2>2. /\ Targets(d0, S) \in Seq(Known)
        /\ \A i \in 1..Len(Targets(d0, S)) : \E c \in S : <<c, Targets(d0, S)[i]>> \in al
        /\ Len(Targets(d0, S)) = Cardinality({c \in S : d0[c].change = "remapped"})
    BY <2>1, TargetsFit
  <2> QED
    BY <1>6, <2>2
<1>8. \A c \in S : GoodDelta(c, d0[c], al)
  BY <1>2, DiffIs
<1>9. m.type = "remap" => Range(p) \subseteq Removed /\ Len(p) = Len(r)
  <2> SUFFICES ASSUME m.type = "remap" PROVE Range(p) \subseteq Removed /\ Len(p) = Len(r)
    OBVIOUS
  <2>1. {c \in S : d0[c].change = "remapped"} = S
    BY <1>2
  <2>2. S \subseteq Removed
    BY <1>2, <1>8 DEF GoodDelta, Removed
  <2> QED
    BY <1>4, <1>5, <1>7, <2>1, <2>2
<1>10. m.type \in {"swap", "replan"} => Range(p) \subseteq Target /\ r = Nothing
  <2> SUFFICES ASSUME m.type \in {"swap", "replan"} PROVE Range(p) \subseteq Target /\ r = Nothing
    OBVIOUS
  <2>1. S \subseteq Target
    BY <1>2, <1>8 DEF GoodDelta
  <2>2. {c \in S : d0[c].change = "remapped"} = {}
    BY <1>8, <2>1 DEF GoodDelta
  <2>3. Len(r) = 0
    BY <1>7, <2>2, FS_EmptySet
  <2> QED
    BY <1>4, <1>7, <2>1, <2>3 DEF Nothing
<1>11. \A i \in 1..Len(r) : \E j \in 1..Len(p) : <<p[j], r[i]>> \in al
  <2>1. \A c \in S : \E j \in 1..Len(p) : p[j] = c
    BY <1>4, RangeOf
  <2> QED
    BY <1>7, <2>1
<1>12. /\ a.type = m.type /\ a.sources = p /\ a.targets = r
       /\ a.status = IF m.type = "pin" THEN "review_required" ELSE "draft"
  BY <1>1, <1>3, <1>6
<1>13. p \in Seq(Source)
  BY <1>2, <1>4
<1>14. a \in ActionRow
  <2>1. PICK status \in {"review_required", "draft"} :
            a = [type |-> m.type, sources |-> p, targets |-> r, status |-> status]
    BY <1>1, <1>3, <1>6
  <2> QED
    BY <1>2, <1>7, <1>13, <2>1 DEF ActionRow
<1>15. GoodAction(e, a, al, ra, re)
  BY <1>2, <1>4, <1>9, <1>10, <1>11, <1>12 DEF GoodAction
<1> QED
  BY <1>14, <1>15

-----------------------------------------------------------------------------
(* Steps, part by part.                                                     *)

Growing == aligned \subseteq aligned' /\ ratified \subseteq ratified' /\ revised \subseteq revised'

LEMMA RecordsStay ==
    ASSUME Records, UNCHANGED <<digest, records>>, Growing
    PROVE  Records'
<1>1. digest' = digest /\ edges' = edges /\ diff' = diff /\ analysis' = analysis /\ plan' = plan
  BY DEF records
<1>2. GoodEdges(edges, aligned') /\ GoodDiff(diff, aligned')
  BY EdgesGrow, DiffGrows DEF Records, Growing
<1>3. GoodAnalysis(analysis, aligned', revised')
  BY AnalysisGrows DEF Records, Growing
<1>4. plan = NoPlan \/ GoodPlan(plan, aligned', ratified', revised')
  BY PlanGrows DEF Records, Growing
<1> QED
  BY <1>1, <1>2, <1>3, <1>4 DEF Records

LEMMA EntitledStays ==
    ASSUME Entitled, entity' = entity, Growing
    PROVE  Entitled'
<1>1. \A e \in Names : GoodVersion(e, entity[e], aligned', revised')
  BY VersionGrows DEF Entitled, Growing
<1> QED
  BY <1>1 DEF Entitled

LEMMA EntitledWrites ==
    ASSUME NEW e \in Names, NEW v, Entitled, Growing, entity' = [entity EXCEPT ![e] = v],
           GoodVersion(e, v, aligned', revised')
    PROVE  Entitled'
<1>1. \A n \in Names : GoodVersion(n, entity[n], aligned', revised')
  BY VersionGrows DEF Entitled, Growing
<1>2. DOMAIN entity' = Names /\ \A n \in Names : entity'[n] = IF n = e THEN v ELSE entity[n]
  BY DEF Entitled
<1>3. \A n \in Names : GoodVersion(n, entity'[n], aligned', revised')
  BY <1>1, <1>2
<1> QED
  BY <1>2, <1>3 DEF Entitled

LEMMA WorkingStays ==
    ASSUME Working, thread' = thread, Growing
    PROVE  Working'
<1>1. \A t \in Threads : GoodThread(thread[t], aligned', ratified', revised')
  BY ThreadGrows DEF Working, Growing
<1> QED
  BY <1>1 DEF Working

LEMMA WorkingBecomes ==
    ASSUME NEW t \in Threads, NEW h, Working, Growing, Become(t, h),
           GoodThread(h, aligned', ratified', revised')
    PROVE  Working'
<1>1. \A u \in Threads : GoodThread(thread[u], aligned', ratified', revised')
  BY ThreadGrows DEF Working, Growing
<1>2. DOMAIN thread' = Threads /\ \A u \in Threads : thread'[u] = IF u = t THEN h ELSE thread[u]
  BY DEF Working, Become
<1>3. \A u \in Threads : GoodThread(thread'[u], aligned', ratified', revised')
  BY <1>1, <1>2
<1> QED
  BY <1>2, <1>3 DEF Working

LEMMA NoPlanIsPlan == NoPlan \in PlanRow
<1>1. Nothing \in [{} -> ActionRow]
  BY DEF Nothing
<1>2. Nothing \in ActionRows
  BY <1>1 DEF ActionRows
<1> QED
  BY <1>2 DEF NoPlan, PlanRow

\* A request begins with nothing in hand.
LEMMA NothingIsGood ==
    ASSUME NEW al, NEW re
    PROVE  /\ GoodDiff(Nothing, al) /\ GoodAnalysis(NoAnalysis, al, re)
           /\ Nothing \in DiffRow /\ NoAnalysis \in AnalysisRow
           /\ Nothing \in Seq(Names) /\ Nothing \in EntityRow \cup {Nothing}
<1>1. DOMAIN Nothing = {} /\ Nothing \in Seq(Names) /\ Nothing \in [{} -> ImpactRow]
  BY DEF Nothing
<1>2. PICK is : is = Nothing
  OBVIOUS
<1>3. PICK a : a = [made |-> FALSE, impacts |-> is]
  OBVIOUS
<1>4. NoAnalysis = a /\ a.impacts = is
  BY <1>2, <1>3 DEF NoAnalysis
<1>5. is \in UNION {[D -> ImpactRow] : D \in SUBSET Names}
  BY <1>1, <1>2
<1>6. a \in AnalysisRow
  BY <1>3, <1>5 DEF AnalysisRow
<1>7. GoodAnalysis(a, al, re)
  BY <1>1, <1>2, <1>4, <1>6 DEF GoodAnalysis
<1> HIDE DEF Nothing
<1> QED
  BY <1>1, <1>4, <1>6, <1>7 DEF GoodDiff, DiffRow

LEMMA IdleIsGood ==
    ASSUME NEW al, NEW ra, NEW re
    PROVE  GoodThread(Idle, al, ra, re) /\ Idle.pc = "idle"
<1>1. PICK none : none = NoAnalysis
  OBVIOUS
<1>2. Idle = [pc |-> "idle", diff |-> Nothing, analysis |-> none, plan |-> NoPlan, chosen |-> {},
              todo |-> Nothing, read |-> Nothing, failed |-> FALSE]
  BY <1>1 DEF Idle
<1>3. Idle \in ThreadRow
  BY <1>1, <1>2, NothingIsGood, NoPlanIsPlan DEF ThreadRow
<1>4. Idle.pc = "idle" /\ Idle.diff = Nothing /\ Idle.analysis = none
  BY <1>2
<1> QED
  BY <1>1, <1>3, <1>4, NothingIsGood DEF GoodThread

\* Once there is a diff there always is one.
LEMMA ComparedStays ==
    ASSUME Compared, thread' = thread, DOMAIN diff = Source => DOMAIN diff' = Source
    PROVE  Compared'
  BY DEF Compared

LEMMA ComparedBecomes ==
    ASSUME NEW t \in Threads, NEW h, Working, Compared, Become(t, h), DOMAIN diff = Source => DOMAIN diff' = Source,
           h.pc \in Planning => DOMAIN diff' = Source
    PROVE  Compared'
<1>1. \A u \in Threads : thread'[u] = IF u = t THEN h ELSE thread[u]
  BY DEF Working, Become
<1> QED
  BY <1>1 DEF Compared

\* What a request holds, piece by piece.
LEMMA ThreadRowIs ==
    ASSUME NEW h \in ThreadRow
    PROVE  /\ h = [pc |-> h.pc, diff |-> h.diff, analysis |-> h.analysis, plan |-> h.plan,
                   chosen |-> h.chosen, todo |-> h.todo, read |-> h.read, failed |-> h.failed]
           /\ h.diff \in DiffRow /\ h.analysis \in AnalysisRow /\ h.plan \in PlanRow
           /\ h.chosen \in SUBSET Names /\ h.todo \in Seq(Names)
           /\ h.read \in EntityRow \cup {Nothing} /\ h.failed \in BOOLEAN
  BY DEF ThreadRow

LEMMA PlanRowIs ==
    ASSUME NEW p \in PlanRow
    PROVE  /\ p = [status |-> p.status, actions |-> p.actions]
           /\ p.actions = [e \in DOMAIN p.actions |-> p.actions[e]]
           /\ DOMAIN p.actions \subseteq Names /\ \A e \in DOMAIN p.actions : p.actions[e] \in ActionRow
           /\ p.status \in {"none", "draft", "ready", "partial_failure", "executed"}
<1>1. /\ p = [status |-> p.status, actions |-> p.actions] /\ p.actions \in ActionRows
      /\ p.status \in {"none", "draft", "ready", "partial_failure", "executed"}
  BY DEF PlanRow
<1>2. PICK D \in SUBSET Names : p.actions \in [D -> ActionRow]
  BY <1>1 DEF ActionRows
<1> QED
  BY <1>1, <1>2

LEMMA PlanRowOf ==
    ASSUME NEW D, D \subseteq Names, NEW as \in [D -> ActionRow],
           NEW status \in {"none", "draft", "ready", "partial_failure", "executed"}
    PROVE  [status |-> status, actions |-> as] \in PlanRow
<1>1. as \in ActionRows
  BY DEF ActionRows
<1> QED
  BY <1>1 DEF PlanRow

-----------------------------------------------------------------------------
(* Alignments, the diff, the analysis and the plan keep the invariant.      *)

LEMMA ReviewStep ==
    ASSUME CurriculumMigrationAssumption, IInv, NEW pair \in Alignments,
           NEW status \in {"pending", "approved", "rejected"},
           edges' = <<Edge(pair, status)>> \o Others(pair),
           aligned' = IF status = "approved" THEN aligned \cup {pair} ELSE aligned,
           UNCHANGED <<digest, diff, analysis, plan, entity, thread, ratified, migrated, revised>>
    PROVE  IInv'
<1>1. aligned \subseteq aligned' /\ (status = "approved" => pair \in aligned')
  OBVIOUS
<1>2. Growing
  BY <1>1 DEF Growing
<1>3. GoodEdges(edges, aligned') /\ GoodDiff(diff, aligned') /\ GoodAnalysis(analysis, aligned', revised)
  BY <1>1, EdgesGrow, DiffGrows, AnalysisGrows DEF IInv, Records
<1>4. GoodEdges(<<Edge(pair, status)>> \o Others(pair), aligned')
  BY <1>1, <1>3, EdgeReviewed
<1>5. plan = NoPlan \/ GoodPlan(plan, aligned', ratified', revised')
  BY <1>2, PlanGrows DEF IInv, Records, Growing
<1>6. Records'
  BY <1>3, <1>4, <1>5 DEF IInv, Records
<1>7. Entitled' /\ Working' /\ Compared'
  BY <1>2, EntitledStays, WorkingStays, ComparedStays DEF IInv
<1> QED
  BY <1>6, <1>7 DEF IInv, History

\* Steps of one request that leave the entities alone.
LEMMA OnlyRecords ==
    ASSUME NEW t \in Threads, NEW h, IInv, Records', GoodThread(h, aligned, ratified, revised),
           Become(t, h), UNCHANGED <<entity, history>>, DOMAIN diff = Source => DOMAIN diff' = Source,
           h.pc \in Planning => DOMAIN diff' = Source
    PROVE  IInv'
<1>1. UNCHANGED <<ratified, aligned, migrated, revised>>
  BY DEF history
<1>2. Growing
  BY <1>1 DEF Growing
<1>3. Entitled' /\ Compared'
  BY <1>2, EntitledStays, ComparedBecomes DEF IInv
<1>4. GoodThread(h, aligned', ratified', revised')
  BY <1>1
<1>5. Working'
  BY <1>2, <1>4, WorkingBecomes DEF IInv
<1> QED
  BY <1>1, <1>3, <1>5 DEF IInv, History

\* And that leave the records alone, too.
LEMMA OnlyThread ==
    ASSUME NEW t \in Threads, NEW h, IInv, GoodThread(h, aligned, ratified, revised),
           h.pc \in Planning => DOMAIN diff = Source,
           Become(t, h), UNCHANGED <<digest, records, entity, history>>
    PROVE  IInv'
<1>1. Growing /\ diff' = diff
  BY DEF Growing, history, records
<1>2. Records'
  BY <1>1, RecordsStay DEF IInv
<1> QED
  BY <1>1, <1>2, OnlyRecords

LEMMA ThreadIs ==
    ASSUME IInv, NEW t \in Threads
    PROVE  /\ GoodThread(thread[t], aligned, ratified, revised) /\ thread[t] \in ThreadRow
           /\ thread[t].pc \in Planning => DOMAIN diff = Source
  BY DEF IInv, Working, GoodThread, Compared

LEMMA CreateDiffStep ==
    ASSUME CurriculumMigrationAssumption, NEW t \in Threads, IInv, CreateDiff(t)
    PROVE  IInv'
<1>1. PICK d : d = [c \in Source |-> Delta(c)]
  OBVIOUS
<1>2. PICK none : none = NoAnalysis
  OBVIOUS
<1>3. PICK h : h = [Idle EXCEPT !.pc = "compared", !.diff = d]
  OBVIOUS
<1>4. Become(t, h) /\ UNCHANGED <<digest, records, entity, history>>
  BY <1>1, <1>3 DEF CreateDiff
<1>5. GoodDiff(d, aligned) /\ d \in DiffRow
  <2>1. \A c \in Source : GoodDelta(c, Delta(c), aligned) /\ Delta(c) \in [change : Changes, to : Known]
    BY DeltaIsGood DEF IInv, Records
  <2>2. d \in [Source -> [change : Changes, to : Known]] /\ \A c \in Source : d[c] = Delta(c)
    BY <1>1, <2>1
  <2> QED
    BY <2>1, <2>2 DEF GoodDiff, DiffRow
<1>6. h = [pc |-> "compared", diff |-> d, analysis |-> none, plan |-> NoPlan, chosen |-> {},
           todo |-> Nothing, read |-> Nothing, failed |-> FALSE]
  BY <1>2, <1>3 DEF Idle
<1>7. h \in ThreadRow
  BY <1>2, <1>5, <1>6, NothingIsGood, NoPlanIsPlan DEF ThreadRow
<1>8. DOMAIN d = Source
  BY <1>1
<1>9. GoodThread(h, aligned, ratified, revised) /\ h.pc \notin Planning
  BY <1>2, <1>5, <1>6, <1>7, <1>8, NothingIsGood DEF GoodThread, Planning
<1> QED
  BY <1>4, <1>9, OnlyThread

LEMMA StoreDiffStep ==
    ASSUME NEW t \in Threads, IInv, StoreDiff(t)
    PROVE  IInv'
<1>1. PICK h, d : h = Idle /\ d = thread[t].diff
  OBVIOUS
<1>2. thread[t].pc = "compared" /\ diff' = d /\ Become(t, h)
      /\ UNCHANGED <<digest, edges, analysis, plan, entity, counts, history>>
  BY <1>1 DEF StoreDiff, At
<1>3. GoodDiff(d, aligned) /\ DOMAIN d = Source
  BY <1>1, <1>2, ThreadIs DEF GoodThread
<1>4. Records'
  BY <1>2, <1>3 DEF IInv, Records, history
<1>5. GoodThread(h, aligned, ratified, revised) /\ h.pc \notin Planning
  BY <1>1, IdleIsGood DEF Planning
<1> QED
  BY <1>2, <1>3, <1>4, <1>5, OnlyRecords

LEMMA AnalyzeStep ==
    ASSUME CurriculumMigrationAssumption, NEW t \in Threads, IInv, Analyze(t)
    PROVE  IInv'
<1>1. PICK a : a = Made
  OBVIOUS
<1>2. PICK h : h = [Idle EXCEPT !.pc = "analyzed", !.analysis = a]
  OBVIOUS
<1>3. DOMAIN diff = Source /\ Become(t, h) /\ UNCHANGED <<digest, records, entity, history>>
  BY <1>1, <1>2, DiffMade DEF Analyze, IInv, Records
<1>4. GoodAnalysis(a, aligned, revised) /\ a \in AnalysisRow
  BY <1>1, <1>3, MadeIsGood DEF GoodAnalysis
<1>5. h = [pc |-> "analyzed", diff |-> Nothing, analysis |-> a, plan |-> NoPlan, chosen |-> {},
           todo |-> Nothing, read |-> Nothing, failed |-> FALSE]
  BY <1>2 DEF Idle
<1>6. h \in ThreadRow
  BY <1>4, <1>5, NothingIsGood, NoPlanIsPlan DEF ThreadRow
<1>7. GoodThread(h, aligned, ratified, revised) /\ h.pc \notin Planning
  BY <1>4, <1>5, <1>6, NothingIsGood DEF GoodThread, Planning
<1> QED
  BY <1>3, <1>7, OnlyThread

\* A request that goes on with another diff or analysis in hand.
LEMMA GoodAgain ==
    ASSUME NEW g, NEW al, NEW ra, NEW re, GoodThread(g, al, ra, re),
           NEW pc \in {"look", "missing", "made", "planned"},
           NEW d, GoodDiff(d, al), DOMAIN d = Source, NEW a, GoodAnalysis(a, al, re),
           NEW h, h = [pc |-> pc, diff |-> d, analysis |-> a, plan |-> g.plan, chosen |-> g.chosen,
                       todo |-> g.todo, read |-> g.read, failed |-> g.failed]
    PROVE  GoodThread(h, al, ra, re)
<1>1. g \in ThreadRow /\ d \in DiffRow /\ a \in AnalysisRow
  BY DEF GoodThread, GoodDiff, GoodAnalysis
<1>2. h \in ThreadRow
  BY <1>1, ThreadRowIs DEF ThreadRow, Planning
<1> QED
  BY <1>2 DEF GoodThread

LEMMA StoreAnalysisStep ==
    ASSUME NEW t \in Threads, IInv, StoreAnalysis(t)
    PROVE  IInv'
<1>1. PICK g, a : g = thread[t] /\ a = g.analysis
  OBVIOUS
<1>2. PICK h : h = IF g.pc = "made" THEN [g EXCEPT !.pc = "planned"] ELSE Idle
  OBVIOUS
<1>3. analysis' = a /\ Become(t, h) /\ UNCHANGED <<digest, edges, diff, plan, entity, counts, history>>
  BY <1>1, <1>2 DEF StoreAnalysis, At
<1>4. GoodThread(g, aligned, ratified, revised) /\ g \in ThreadRow /\ (g.pc \in Planning => DOMAIN diff = Source)
  BY <1>1, ThreadIs
<1>5. GoodAnalysis(a, aligned, revised)
  BY <1>1, <1>4 DEF GoodThread
<1>6. Records'
  BY <1>3, <1>5 DEF IInv, Records, history
<1>7. GoodThread(h, aligned, ratified, revised) /\ (h.pc \in Planning => DOMAIN diff = Source)
  <2>1. CASE g.pc = "made"
    <3>1. h = [g EXCEPT !.pc = "planned"]
      BY <1>2, <2>1
    <3>2. h = [pc |-> "planned", diff |-> g.diff, analysis |-> g.analysis, plan |-> g.plan,
               chosen |-> g.chosen, todo |-> g.todo, read |-> g.read, failed |-> g.failed]
      BY <1>4, <3>1, ThreadRowIs
    <3>3. GoodDiff(g.diff, aligned) /\ DOMAIN g.diff = Source /\ GoodAnalysis(g.analysis, aligned, revised)
      BY <1>4, <2>1 DEF GoodThread
    <3>4. DOMAIN diff = Source
      BY <1>4, <2>1 DEF Planning
    <3> QED
      BY <1>4, <3>2, <3>3, <3>4, GoodAgain
  <2>2. CASE g.pc # "made"
    <3>1. h = Idle
      BY <1>2, <2>2
    <3> QED
      BY <3>1, IdleIsGood DEF Planning
  <2> QED
    BY <2>1, <2>2
<1> QED
  BY <1>3, <1>6, <1>7, OnlyRecords

LEMMA CreatePlanStep ==
    ASSUME NEW t \in Threads, IInv, CreatePlan(t)
    PROVE  IInv'
<1>1. PICK none : none = NoAnalysis
  OBVIOUS
<1>2. PICK h : h = [Idle EXCEPT !.pc = "plan"]
  OBVIOUS
<1>3. DOMAIN diff = Source /\ Become(t, h) /\ UNCHANGED <<digest, records, entity, history>>
  BY <1>2, DiffMade DEF CreatePlan, IInv, Records
<1>4. h = [pc |-> "plan", diff |-> Nothing, analysis |-> none, plan |-> NoPlan, chosen |-> {},
           todo |-> Nothing, read |-> Nothing, failed |-> FALSE]
  BY <1>1, <1>2 DEF Idle
<1>5. h \in ThreadRow
  BY <1>1, <1>4, NothingIsGood, NoPlanIsPlan DEF ThreadRow, Planning
<1>6. GoodThread(h, aligned, ratified, revised)
  BY <1>1, <1>4, <1>5, NothingIsGood DEF GoodThread
<1> QED
  BY <1>3, <1>6, OnlyThread

LEMMA TakeStep ==
    ASSUME CurriculumMigrationAssumption, NEW t \in Threads, IInv,
           TakeDiff(t) \/ TakeAnalysis(t) \/ MakeAnalysis(t)
    PROVE  IInv'
<1>1. PICK g : g = thread[t]
  OBVIOUS
<1>2. GoodThread(g, aligned, ratified, revised) /\ g \in ThreadRow /\ (g.pc \in Planning => DOMAIN diff = Source)
  BY <1>1, ThreadIs
<1>3. GoodDiff(g.diff, aligned) /\ GoodAnalysis(g.analysis, aligned, revised)
  BY <1>2 DEF GoodThread
<1>4. GoodDiff(diff, aligned) /\ GoodAnalysis(analysis, aligned, revised)
  BY DEF IInv, Records
<1>5. g.pc \in {"plan", "look", "missing"} /\ UNCHANGED <<digest, records, entity, history>>
  BY <1>1 DEF TakeDiff, TakeAnalysis, MakeAnalysis, At
<1>6. DOMAIN diff = Source /\ (g.pc \in {"look", "missing"} => DOMAIN g.diff = Source)
  BY <1>2, <1>5 DEF Planning, GoodThread
<1>7. ASSUME NEW pc \in {"look", "missing", "made", "planned"}, NEW d, GoodDiff(d, aligned), DOMAIN d = Source,
             NEW a, GoodAnalysis(a, aligned, revised),
             Become(t, [g EXCEPT !.pc = pc, !.diff = d, !.analysis = a])
      PROVE  IInv'
  <2>1. PICK h : h = [g EXCEPT !.pc = pc, !.diff = d, !.analysis = a]
    OBVIOUS
  <2>2. h = [pc |-> pc, diff |-> d, analysis |-> a, plan |-> g.plan, chosen |-> g.chosen,
             todo |-> g.todo, read |-> g.read, failed |-> g.failed]
    <3>1. g = [pc |-> g.pc, diff |-> g.diff, analysis |-> g.analysis, plan |-> g.plan,
               chosen |-> g.chosen, todo |-> g.todo, read |-> g.read, failed |-> g.failed]
      BY <1>2, ThreadRowIs
    <3> QED
      BY <2>1, <3>1
  <2>3. GoodThread(h, aligned, ratified, revised)
    BY <1>2, <1>7, <2>2, GoodAgain
  <2> QED
    BY <1>5, <1>6, <1>7, <2>1, <2>3, OnlyThread
<1>8. CASE TakeDiff(t)
  <2>1. PICK pc \in {"look", "missing", "made", "planned"} : pc = "look"
    OBVIOUS
  <2>2. Become(t, [g EXCEPT !.pc = pc, !.diff = diff])
    BY <1>1, <1>8, <2>1 DEF TakeDiff
  <2>3. [g EXCEPT !.pc = pc, !.diff = diff] = [g EXCEPT !.pc = pc, !.diff = diff, !.analysis = g.analysis]
    BY <1>2, ThreadRowIs
  <2> QED
    BY <1>3, <1>4, <1>6, <1>7, <2>2, <2>3
<1>9. CASE TakeAnalysis(t)
  <2>1. PICK pc, a : /\ pc \in {"look", "missing", "made", "planned"}
                    /\ IF analysis.made THEN pc = "planned" /\ a = analysis
                       ELSE pc = "missing" /\ a = g.analysis
    <3>1. CASE analysis.made
      BY <3>1
    <3>2. CASE ~analysis.made
      BY <3>2
    <3> QED
      BY <3>1, <3>2
  <2>2. Become(t, [g EXCEPT !.pc = pc, !.diff = g.diff, !.analysis = a])
    <3>1. Become(t, IF analysis.made THEN [g EXCEPT !.pc = "planned", !.analysis = analysis]
                    ELSE [g EXCEPT !.pc = "missing"])
      BY <1>1, <1>9 DEF TakeAnalysis
    <3>2. [g EXCEPT !.pc = pc, !.diff = g.diff, !.analysis = a] =
              IF analysis.made THEN [g EXCEPT !.pc = "planned", !.analysis = analysis]
              ELSE [g EXCEPT !.pc = "missing"]
      BY <1>2, <2>1, ThreadRowIs
    <3> QED
      BY <3>1, <3>2
  <2>3. DOMAIN g.diff = Source
    BY <1>1, <1>6, <1>9 DEF TakeAnalysis, At
  <2> QED
    BY <1>3, <1>4, <1>7, <2>1, <2>2, <2>3
<1>10. CASE MakeAnalysis(t)
  <2>1. PICK pc \in {"look", "missing", "made", "planned"} : pc = "made"
    OBVIOUS
  <2>2. PICK a : a = Made
    OBVIOUS
  <2>3. Become(t, [g EXCEPT !.pc = pc, !.analysis = a])
    BY <1>1, <1>10, <2>1, <2>2 DEF MakeAnalysis
  <2>4. [g EXCEPT !.pc = pc, !.analysis = a] = [g EXCEPT !.pc = pc, !.diff = g.diff, !.analysis = a]
    BY <1>2, ThreadRowIs
  <2>5. GoodAnalysis(a, aligned, revised)
    BY <1>6, <2>2, MadeIsGood
  <2>6. DOMAIN g.diff = Source
    BY <1>1, <1>6, <1>10 DEF MakeAnalysis, At
  <2> QED
    BY <1>3, <1>7, <2>3, <2>4, <2>5, <2>6
<1> QED
  BY <1>8, <1>9, <1>10

LEMMA StorePlanStep ==
    ASSUME CurriculumMigrationAssumption, NEW t \in Threads, IInv, StorePlan(t)
    PROVE  IInv'
<1>1. PICK g, h : g = thread[t] /\ h = Idle
  OBVIOUS
<1>2. PICK d, impacts : d = g.diff /\ impacts = g.analysis.impacts
  OBVIOUS
<1>3. /\ g.pc = "planned" /\ Become(t, h)
      /\ plan' = IF \A e \in DOMAIN impacts : \A c \in DOMAIN impacts[e].matched :
                        impacts[e].matched[c] = d[c].change
                   THEN [status |-> "draft", actions |-> Planned(d, impacts)]
                   ELSE plan
      /\ UNCHANGED <<digest, edges, diff, analysis, entity, counts, history>>
  BY <1>1, <1>2 DEF StorePlan, At
<1>4. GoodThread(g, aligned, ratified, revised)
  BY <1>1, ThreadIs
<1>5. GoodDiff(d, aligned) /\ DOMAIN d = Source /\ GoodAnalysis(g.analysis, aligned, revised)
  BY <1>2, <1>3, <1>4 DEF GoodThread
<1>6. plan' = NoPlan \/ GoodPlan(plan', aligned, ratified, revised)
  <2>1. CASE ~(\A e \in DOMAIN impacts : \A c \in DOMAIN impacts[e].matched :
                    impacts[e].matched[c] = d[c].change)
    <3>1. plan' = plan
      BY <1>3, <2>1
    <3> QED
      BY <3>1 DEF IInv, Records
  <2>2. CASE \A e \in DOMAIN impacts : \A c \in DOMAIN impacts[e].matched :
                    impacts[e].matched[c] = d[c].change
    <3> DEFINE action(e) ==
          [type |-> impacts[e].type, sources |-> Kept(Components, DOMAIN impacts[e].matched),
           targets |-> Targets(d, DOMAIN impacts[e].matched),
           status |-> IF impacts[e].type = "pin" THEN "review_required" ELSE "draft"]
    <3>1. DOMAIN impacts \subseteq Names
      BY <1>2, <1>5 DEF GoodAnalysis
    <3>2. ASSUME NEW e \in DOMAIN impacts
          PROVE  action(e) \in ActionRow /\ GoodAction(e, action(e), aligned, ratified, revised)
      <4>1. PICK m : m = impacts[e]
        OBVIOUS
      <4>2. GoodImpact(e, m, aligned, revised)
        BY <1>2, <1>5, <4>1 DEF GoodAnalysis
      <4>3. \A c \in DOMAIN m.matched : m.matched[c] = d[c].change
        BY <2>2, <4>1
      <4>4. PICK a : a = [type |-> m.type, sources |-> Kept(Components, DOMAIN m.matched),
                          targets |-> Targets(d, DOMAIN m.matched),
                          status |-> IF m.type = "pin" THEN "review_required" ELSE "draft"]
        OBVIOUS
      <4>5. a = action(e)
        BY <4>1, <4>4
      <4>6. digest \in SetToSeqs(Removed)
        BY DEF IInv, Records
      <4>7. a \in ActionRow /\ GoodAction(e, a, aligned, ratified, revised)
        BY <1>5, <3>1, <4>2, <4>3, <4>4, <4>6, PlannedIsGood
      <4> QED
        BY <4>5, <4>7
    <3>3. PICK as : as = Planned(d, impacts)
      OBVIOUS
    <3>4. as = [e \in DOMAIN impacts |-> action(e)]
      BY <3>3 DEF Planned
    <3> HIDE DEF action
    <3>5. as \in [DOMAIN impacts -> ActionRow] /\ \A e \in DOMAIN impacts : as[e] = action(e)
      BY <3>2, <3>4
    <3>6. PICK p : p = [status |-> "draft", actions |-> as]
      OBVIOUS
    <3>7. p \in PlanRow
      BY <3>1, <3>5, <3>6, PlanRowOf
    <3>8. p.status = "draft" /\ p.actions = as /\ DOMAIN as = DOMAIN impacts
      BY <3>5, <3>6
    <3>9. GoodPlan(p, aligned, ratified, revised)
      BY <3>2, <3>5, <3>7, <3>8 DEF GoodPlan
    <3>10. plan' = p
      BY <1>3, <2>2, <3>3, <3>6
    <3> QED
      BY <3>9, <3>10
  <2> QED
    BY <2>1, <2>2
<1>7. Records'
  BY <1>3, <1>6 DEF IInv, Records, history
<1>8. GoodThread(h, aligned, ratified, revised) /\ h.pc \notin Planning
  BY <1>1, IdleIsGood DEF Planning
<1> QED
  BY <1>3, <1>7, <1>8, OnlyRecords

-----------------------------------------------------------------------------
(* Approval and execution.                                                  *)

LEMMA ThereIs ==
    ASSUME IInv, plan # NoPlan
    PROVE  GoodPlan(plan, aligned, ratified, revised)
  BY DEF IInv, Records

LEMMA ApproveStep ==
    ASSUME NEW t \in Threads, NEW chosen \in SUBSET DOMAIN plan.actions, IInv, Approve(t, chosen)
    PROVE  IInv'
<1>1. PICK h : h = [Idle EXCEPT !.pc = "approve", !.plan = plan, !.chosen = chosen]
  OBVIOUS
<1>2. plan # NoPlan /\ Become(t, h) /\ UNCHANGED <<digest, records, entity, history>>
  BY <1>1 DEF Approve
<1>3. GoodPlan(plan, aligned, ratified, revised)
  BY <1>2, ThereIs
<1>4. PICK p : p = plan
  OBVIOUS
<1>5. p \in PlanRow /\ chosen \in SUBSET Names
  BY <1>3, <1>4, PlanRowIs DEF GoodPlan
<1>6. PICK none : none = NoAnalysis
  OBVIOUS
<1>7. h = [pc |-> "approve", diff |-> Nothing, analysis |-> none, plan |-> p, chosen |-> chosen,
           todo |-> Nothing, read |-> Nothing, failed |-> FALSE]
  BY <1>1, <1>4, <1>6 DEF Idle
<1>8. h \in ThreadRow
  BY <1>5, <1>6, <1>7, NothingIsGood DEF ThreadRow
<1>9. GoodThread(h, aligned, ratified, revised) /\ h.pc \notin Planning
  BY <1>3, <1>4, <1>6, <1>7, <1>8, NothingIsGood DEF GoodThread, Planning
<1> QED
  BY <1>2, <1>9, OnlyThread

LEMMA ExecuteStep ==
    ASSUME CurriculumMigrationAssumption, NEW t \in Threads,
           NEW chosen \in SUBSET DOMAIN plan.actions, IInv, Execute(t, chosen)
    PROVE  IInv'
<1>1. PICK runs : runs = {e \in chosen : plan.actions[e].status = "approved"}
  OBVIOUS
<1>2. PICK td : td = Kept(Entities, runs)
  OBVIOUS
<1>3. PICK h : h = [Idle EXCEPT !.pc = "run", !.plan = plan, !.todo = td]
  OBVIOUS
<1>4. plan # NoPlan /\ Become(t, h) /\ UNCHANGED <<digest, records, entity, history>>
  BY <1>1, <1>2, <1>3 DEF Execute
<1>5. PICK p : p = plan
  OBVIOUS
<1>6. GoodPlan(p, aligned, ratified, revised) /\ p \in PlanRow
  BY <1>4, <1>5, ThereIs DEF GoodPlan
<1>7. td \in Seq(Names) /\ Among(td, Entities, runs)
  BY <1>2, EntitiesAre, KeptAmong
<1>8. PICK none : none = NoAnalysis
  OBVIOUS
<1>9. h = [pc |-> "run", diff |-> Nothing, analysis |-> none, plan |-> p, chosen |-> {},
           todo |-> td, read |-> Nothing, failed |-> FALSE]
  BY <1>3, <1>5, <1>8 DEF Idle
<1>10. \A e \in runs : e \in DOMAIN p.actions /\ e \in ratified /\ p.actions[e].type # "pin"
  BY <1>1, <1>5, <1>6 DEF GoodPlan, GoodAction
<1>11. GoodTodo(td, p, ratified)
  BY <1>7, <1>10 DEF Among, GoodTodo
<1>12. h \in ThreadRow
  BY <1>6, <1>7, <1>8, <1>9, NothingIsGood DEF ThreadRow
<1>13. GoodThread(h, aligned, ratified, revised) /\ h.pc \notin Planning
  BY <1>6, <1>8, <1>9, <1>11, <1>12, NothingIsGood DEF GoodThread, Planning
<1> QED
  BY <1>4, <1>13, OnlyThread

LEMMA DieStep ==
    ASSUME NEW t \in Threads, IInv, Die(t)
    PROVE  IInv'
<1>1. Become(t, Idle) /\ UNCHANGED <<digest, records, entity, history>>
  BY DEF Die
<1>2. PICK h : h = Idle
  OBVIOUS
<1>3. GoodThread(h, aligned, ratified, revised) /\ h.pc \notin Planning
  BY <1>2, IdleIsGood DEF Planning
<1> QED
  BY <1>1, <1>2, <1>3, OnlyThread

LEMMA ActionApproved ==
    ASSUME NEW e, NEW a \in ActionRow, NEW al, NEW ra, NEW re, GoodAction(e, a, al, ra, re),
           a.type # "pin", NEW status \in {"approved", "executed", "execution_failed"}, e \in ra,
           NEW b, b = [a EXCEPT !.status = status]
    PROVE  b \in ActionRow /\ GoodAction(e, b, al, ra, re) /\ b.type = a.type
<1>1. /\ b.type = a.type /\ b.sources = a.sources /\ b.targets = a.targets /\ b.status = status
      /\ b \in ActionRow
  BY DEF ActionRow
<1> QED
  BY <1>1 DEF GoodAction

LEMMA StoreApprovalStep ==
    ASSUME NEW t \in Threads, IInv, StoreApproval(t)
    PROVE  IInv'
<1>1. PICK p : p = thread[t].plan
  OBVIOUS
<1>2. PICK as : as = p.actions
  OBVIOUS
<1>3. PICK chosen : chosen = {e \in thread[t].chosen : as[e].status = "draft"}
  OBVIOUS
<1>4. PICK next : next = [e \in DOMAIN as |->
                    IF e \in chosen THEN [as[e] EXCEPT !.status = "approved"] ELSE as[e]]
  OBVIOUS
<1>5. PICK status : status = IF \E e \in DOMAIN next : next[e].status = "approved" THEN "ready"
                             ELSE p.status
  OBVIOUS
<1>6. /\ thread[t].pc = "approve" /\ plan' = [status |-> status, actions |-> next]
      /\ ratified' = ratified \cup chosen /\ Become(t, Idle)
      /\ UNCHANGED <<digest, edges, diff, analysis, entity, counts, aligned, migrated, revised>>
  BY <1>1, <1>2, <1>3, <1>4, <1>5 DEF StoreApproval, At
<1>7. GoodPlan(p, aligned, ratified, revised) /\ p \in PlanRow /\ p.status # "none"
      /\ thread[t].chosen \subseteq Names
  BY <1>1, <1>6 DEF IInv, Working, GoodThread, ThreadRow, GoodPlan
<1>8. PICK rb : rb = ratified \cup chosen
  OBVIOUS
<1>9. Growing /\ ratified \subseteq rb /\ chosen \subseteq Names
  BY <1>3, <1>6, <1>7, <1>8 DEF Growing
<1>10. GoodPlan(p, aligned, rb, revised)
  BY <1>7, <1>9, PlanGrows
<1>11. ASSUME NEW e \in DOMAIN as
       PROVE  next[e] \in ActionRow /\ GoodAction(e, next[e], aligned, rb, revised)
  <2>1. PICK a : a = as[e]
    OBVIOUS
  <2>2. a \in ActionRow /\ GoodAction(e, a, aligned, rb, revised)
    BY <1>2, <1>7, <1>10, <2>1, PlanRowIs DEF GoodPlan
  <2>3. CASE e \notin chosen
    BY <1>4, <2>1, <2>2, <2>3
  <2>4. CASE e \in chosen
    <3>1. PICK b : b = [a EXCEPT !.status = "approved"]
      OBVIOUS
    <3>2. next[e] = b
      BY <1>4, <2>1, <2>4, <3>1
    <3>3. a.type # "pin" /\ e \in rb
      BY <1>3, <1>8, <2>1, <2>2, <2>4 DEF GoodAction
    <3>4. b \in ActionRow /\ GoodAction(e, b, aligned, rb, revised)
      BY <2>2, <3>1, <3>3, ActionApproved
    <3> QED
      BY <3>2, <3>4
  <2> QED
    BY <2>3, <2>4
<1>12. DOMAIN next = DOMAIN as /\ DOMAIN as \subseteq Names /\ next \in [DOMAIN as -> ActionRow]
  <2>1. DOMAIN as \subseteq Names
    BY <1>2, <1>7, PlanRowIs
  <2> QED
    BY <1>4, <1>11, <2>1
<1>13. status \in {"draft", "ready", "partial_failure", "executed"}
  BY <1>5, <1>7, PlanRowIs
<1>14. PICK q : q = [status |-> status, actions |-> next]
  OBVIOUS
<1>15. q \in PlanRow /\ q.status # "none" /\ q.actions = next
  BY <1>12, <1>13, <1>14, PlanRowOf
<1>16. GoodPlan(q, aligned, rb, revised)
  BY <1>11, <1>12, <1>15 DEF GoodPlan
<1>17. plan' = q /\ ratified' = rb
  BY <1>6, <1>8, <1>14
<1>18. Records'
  BY <1>6, <1>16, <1>17 DEF IInv, Records
<1>19. Entitled'
  BY <1>6, <1>9, EntitledStays DEF IInv
<1>20. Working' /\ Compared'
  <2>1. PICK h : h = Idle
    OBVIOUS
  <2>2. GoodThread(h, aligned', ratified', revised') /\ h.pc \notin Planning
    BY <2>1, IdleIsGood DEF Planning
  <2> QED
    BY <1>6, <1>9, <2>1, <2>2, WorkingBecomes, ComparedBecomes DEF IInv
<1>21. History'
  BY <1>6, <1>17 DEF IInv, History
<1> QED
  BY <1>18, <1>19, <1>20, <1>21 DEF IInv

MarkedAs(p, e, status) == [p EXCEPT !.actions[e].status = status]

LEMMA MarkedIsGood ==
    ASSUME NEW p, NEW al, NEW ra, NEW re, GoodPlan(p, al, ra, re), NEW e \in DOMAIN p.actions,
           e \in ra, p.actions[e].type # "pin", NEW status \in {"executed", "execution_failed"},
           NEW q, q = MarkedAs(p, e, status)
    PROVE  /\ GoodPlan(q, al, ra, re) /\ DOMAIN q.actions = DOMAIN p.actions
           /\ \A n \in DOMAIN p.actions : q.actions[n].type = p.actions[n].type
<1>1. PICK as : as = p.actions
  OBVIOUS
<1>2. /\ p \in PlanRow /\ p = [status |-> p.status, actions |-> as] /\ p.status # "none"
      /\ as = [n \in DOMAIN as |-> as[n]] /\ DOMAIN as \subseteq Names
      /\ \A n \in DOMAIN as : as[n] \in ActionRow /\ GoodAction(n, as[n], al, ra, re)
      /\ p.status \in {"none", "draft", "ready", "partial_failure", "executed"}
  BY <1>1, PlanRowIs DEF GoodPlan
<1>3. PICK b : b = [as[e] EXCEPT !.status = status]
  OBVIOUS
<1>4. b \in ActionRow /\ GoodAction(e, b, al, ra, re) /\ b.type = as[e].type
  BY <1>1, <1>2, <1>3, ActionApproved
<1>5. PICK bs : bs = [as EXCEPT ![e] = b]
  OBVIOUS
<1>6. /\ DOMAIN bs = DOMAIN as /\ bs \in [DOMAIN as -> ActionRow]
      /\ \A n \in DOMAIN as : bs[n] = IF n = e THEN b ELSE as[n]
  BY <1>2, <1>4, <1>5
<1>7. q = [p EXCEPT !.actions = bs]
  BY <1>1, <1>3, <1>5 DEF MarkedAs
<1>8. q = [status |-> p.status, actions |-> bs]
  BY <1>2, <1>7
<1>9. q \in PlanRow /\ q.status # "none" /\ q.actions = bs
  <2>1. PICK st \in {"none", "draft", "ready", "partial_failure", "executed"} : st = p.status /\ st # "none"
    BY <1>2
  <2>2. q = [status |-> st, actions |-> bs]
    BY <1>8, <2>1
  <2>3. PICK D : D = DOMAIN as
    OBVIOUS
  <2>4. D \subseteq Names /\ bs \in [D -> ActionRow]
    BY <1>2, <1>6, <2>3
  <2>5. q \in PlanRow
    BY <2>1, <2>2, <2>4, PlanRowOf
  <2> QED
    BY <2>1, <2>2, <2>5
<1>10. \A n \in DOMAIN as : GoodAction(n, bs[n], al, ra, re) /\ bs[n].type = as[n].type
  BY <1>2, <1>4, <1>6
<1> QED
  BY <1>1, <1>6, <1>9, <1>10 DEF GoodPlan

LEMMA TodoIsNext ==
    ASSUME NEW todo \in Seq(Names), NEW p, NEW ra, GoodTodo(todo, p, ra), todo # Nothing
    PROVE  /\ Head(todo) \in Names /\ Head(todo) \in DOMAIN p.actions /\ Head(todo) \in ra
           /\ p.actions[Head(todo)].type # "pin"
           /\ Tail(todo) \in Seq(Names)
           /\ \A i \in 1..Len(Tail(todo)) : Tail(todo)[i] = todo[i + 1] /\ i + 1 \in 1..Len(todo)
<1>1. 1 \in 1..Len(todo) /\ Head(todo) = todo[1] /\ Len(todo) \in Nat
  BY DEF Nothing
<1>2. Tail(todo) \in Seq(Names) /\ Len(Tail(todo)) = Len(todo) - 1
      /\ \A i \in 1..Len(Tail(todo)) : Tail(todo)[i] = todo[i + 1]
  BY DEF Nothing
<1> QED
  BY <1>1, <1>2 DEF GoodTodo

\* A request goes on to the next action after it has marked one.
LEMMA NextAction ==
    ASSUME NEW g, NEW al, NEW ra, NEW re, GoodThread(g, al, ra, re),
           g.pc \in {"run", "write", "expire"}, g.todo # Nothing,
           NEW status \in {"executed", "execution_failed"}, NEW failed \in BOOLEAN,
           NEW q, q = MarkedAs(g.plan, Head(g.todo), status),
           NEW h, h = [pc |-> "run", diff |-> g.diff, analysis |-> g.analysis, plan |-> q,
                       chosen |-> g.chosen, todo |-> Tail(g.todo), read |-> g.read, failed |-> failed]
    PROVE  GoodThread(h, al, ra, re) /\ h.pc = "run"
<1>1. PICK p, td, e : p = g.plan /\ td = g.todo /\ e = Head(td)
  OBVIOUS
<1>2. /\ td \in Seq(Names) /\ GoodPlan(p, al, ra, re) /\ GoodTodo(td, p, ra) /\ td # Nothing
      /\ g.chosen \in SUBSET Names /\ g.read \in EntityRow \cup {Nothing}
      /\ GoodDiff(g.diff, al) /\ GoodAnalysis(g.analysis, al, re)
      /\ g.diff \in DiffRow /\ g.analysis \in AnalysisRow
  BY <1>1, ThreadRowIs DEF GoodThread
<1>3. /\ e \in DOMAIN p.actions /\ e \in ra /\ p.actions[e].type # "pin" /\ Tail(td) \in Seq(Names)
      /\ \A i \in 1..Len(Tail(td)) : Tail(td)[i] = td[i + 1] /\ i + 1 \in 1..Len(td)
  BY <1>1, <1>2, TodoIsNext
<1>4. /\ GoodPlan(q, al, ra, re) /\ DOMAIN q.actions = DOMAIN p.actions
      /\ \A n \in DOMAIN p.actions : q.actions[n].type = p.actions[n].type
  <2>1. q = MarkedAs(p, e, status)
    BY <1>1
  <2> QED
    BY <1>2, <1>3, <2>1, MarkedIsGood
<1>5. GoodTodo(Tail(td), q, ra)
  BY <1>2, <1>3, <1>4 DEF GoodTodo
<1>6. h \in ThreadRow
  <2>1. q \in PlanRow
    BY <1>4 DEF GoodPlan
  <2> QED
    BY <1>1, <1>2, <1>3, <2>1 DEF ThreadRow
<1>7. h.pc = "run" /\ h.plan = q /\ h.todo = Tail(td) /\ h.diff = g.diff /\ h.analysis = g.analysis
  BY <1>1
<1> QED
  BY <1>2, <1>4, <1>5, <1>6, <1>7 DEF GoodThread

LEMMA ReadEntityStep ==
    ASSUME NEW t \in Threads, IInv, ReadEntity(t)
    PROVE  IInv'
<1>1. PICK g : g = thread[t]
  OBVIOUS
<1>2. PICK e : e = Head(g.todo)
  OBVIOUS
<1>3. g.pc = "run" /\ g.todo # Nothing /\ UNCHANGED <<digest, records, entity, counts, history>>
  BY <1>1 DEF ReadEntity, At
<1>4. GoodThread(g, aligned, ratified, revised) /\ g \in ThreadRow
  BY <1>1 DEF IInv, Working, GoodThread
<1>5. g = [pc |-> g.pc, diff |-> g.diff, analysis |-> g.analysis, plan |-> g.plan,
           chosen |-> g.chosen, todo |-> g.todo, read |-> g.read, failed |-> g.failed]
  BY <1>4, ThreadRowIs
<1>6. UNCHANGED <<digest, records, entity, history>>
  BY <1>3
<1>7. CASE Kind[e] # "library" /\ ~entity[e].live
  <2>1. PICK q : q = MarkedAs(g.plan, Head(g.todo), "execution_failed")
    OBVIOUS
  <2>2. PICK h : h = [g EXCEPT !.todo = Tail(@), !.failed = TRUE, !.plan = q]
    OBVIOUS
  <2>3. Become(t, h)
    BY <1>1, <1>2, <1>7, <2>1, <2>2 DEF ReadEntity, Running, Marked, MarkedAs
  <2>4. h = [pc |-> "run", diff |-> g.diff, analysis |-> g.analysis, plan |-> q,
             chosen |-> g.chosen, todo |-> Tail(g.todo), read |-> g.read, failed |-> TRUE]
    BY <1>3, <1>5, <2>2
  <2>5. GoodThread(h, aligned, ratified, revised) /\ h.pc \notin Planning
    BY <1>3, <1>4, <2>1, <2>4, NextAction DEF Planning
  <2> QED
    BY <1>3, <1>6, <2>3, <2>5, OnlyThread
<1>8. CASE ~(Kind[e] # "library" /\ ~entity[e].live)
  <2>1. PICK v : v = entity[e]
    OBVIOUS
  <2>2. PICK h : h = [g EXCEPT !.pc = "write", !.read = v]
    OBVIOUS
  <2>3. Become(t, h)
    BY <1>1, <1>2, <1>8, <2>1, <2>2 DEF ReadEntity, Running
  <2>4. h = [pc |-> "write", diff |-> g.diff, analysis |-> g.analysis, plan |-> g.plan,
             chosen |-> g.chosen, todo |-> g.todo, read |-> v, failed |-> g.failed]
    BY <1>5, <2>2
  <2>5. /\ GoodPlan(g.plan, aligned, ratified, revised) /\ GoodTodo(g.todo, g.plan, ratified)
        /\ GoodDiff(g.diff, aligned) /\ GoodAnalysis(g.analysis, aligned, revised)
        /\ g.todo \in Seq(Names)
    BY <1>3, <1>4, ThreadRowIs DEF GoodThread
  <2>6. e \in Names
    BY <1>2, <1>3, <2>5, TodoIsNext
  <2>7. GoodVersion(e, v, aligned, revised) /\ v \in EntityRow
    BY <2>1, <2>6 DEF IInv, Entitled, GoodVersion
  <2>8. h \in ThreadRow
    BY <1>4, <2>4, <2>7, ThreadRowIs DEF ThreadRow
  <2>9. /\ h.pc = "write" /\ h.plan = g.plan /\ h.todo = g.todo /\ h.read = v
        /\ h.diff = g.diff /\ h.analysis = g.analysis
    BY <2>4
  <2>10. GoodThread(h, aligned, ratified, revised) /\ h.pc \notin Planning
    BY <1>2, <1>3, <2>5, <2>7, <2>8, <2>9 DEF GoodThread, Planning
  <2> QED
    BY <1>3, <1>6, <2>3, <2>10, OnlyThread
<1> QED
  BY <1>7, <1>8

LEMMA SavePlanStep ==
    ASSUME NEW t \in Threads, IInv, SavePlan(t)
    PROVE  IInv'
<1>1. PICK g : g = thread[t]
  OBVIOUS
<1>2. PICK p : p = g.plan
  OBVIOUS
<1>3. g.pc = "run" /\ Become(t, Idle)
      /\ UNCHANGED <<digest, edges, diff, analysis, entity, counts, history>>
  BY <1>1 DEF SavePlan, At
<1>4. UNCHANGED <<ratified, aligned, migrated, revised>>
  BY <1>3 DEF history
<1>5. GoodPlan(p, aligned, ratified, revised)
  BY <1>1, <1>2, <1>3 DEF IInv, Working, GoodThread
<1>6. /\ p = [status |-> p.status, actions |-> p.actions] /\ p.status # "none"
      /\ p.status \in {"none", "draft", "ready", "partial_failure", "executed"}
      /\ p.actions \in [DOMAIN p.actions -> ActionRow] /\ DOMAIN p.actions \subseteq Names
  <2>1. p \in PlanRow /\ p.status # "none"
    BY <1>5 DEF GoodPlan
  <2> QED
    BY <2>1, PlanRowIs
<1>7. PICK status \in {"draft", "ready", "partial_failure", "executed"} :
        plan' = [p EXCEPT !.status = status]
  <2>1. CASE g.failed
    <3>1. plan' = [p EXCEPT !.status = "partial_failure"]
      BY <1>1, <1>2, <2>1 DEF SavePlan
    <3> QED
      BY <3>1
  <2>2. CASE ~g.failed /\ \E e \in DOMAIN p.actions : p.actions[e].status = "approved"
    <3>1. plan' = [p EXCEPT !.status = @]
      BY <1>1, <1>2, <2>2 DEF SavePlan
    <3>2. plan' = [p EXCEPT !.status = p.status]
      BY <3>1
    <3> QED
      BY <1>6, <3>2
  <2>3. CASE ~g.failed /\ ~\E e \in DOMAIN p.actions : p.actions[e].status = "approved"
    <3>1. plan' = [p EXCEPT !.status = "executed"]
      BY <1>1, <1>2, <2>3 DEF SavePlan
    <3> QED
      BY <3>1
  <2> QED
    BY <2>1, <2>2, <2>3
<1>8. PICK q : q = [status |-> status, actions |-> p.actions]
  OBVIOUS
<1>9. plan' = q
  BY <1>6, <1>7, <1>8
<1>10. q \in PlanRow /\ q.status # "none" /\ q.actions = p.actions
  BY <1>6, <1>8, PlanRowOf
<1>11. GoodPlan(q, aligned, ratified, revised)
  BY <1>5, <1>10 DEF GoodPlan
<1>12. Records'
  BY <1>3, <1>4, <1>9, <1>11 DEF IInv, Records
<1>13. PICK h : h = Idle
  OBVIOUS
<1>14. GoodThread(h, aligned, ratified, revised) /\ h.pc \notin Planning
  BY <1>13, IdleIsGood DEF Planning
<1> QED
  BY <1>3, <1>12, <1>13, <1>14, OnlyRecords

-----------------------------------------------------------------------------
(* What is written.                                                         *)

\* What a plan makes of references.
LEMMA MappedIs ==
    ASSUME NEW refs \in Seq(Known), NEW e, NEW a \in ActionRow, NEW al, NEW ra, NEW re,
           GoodAction(e, a, al, ra, re), a.type \in {"remap", "swap", "replan"},
           NEW r, r = Mapped(refs, a.sources, a.targets)
    PROVE  /\ r \in Seq(Known) /\ Len(r) = Len(refs)
           /\ \A i \in 1..Len(refs) :
                \/ r[i] = refs[i] /\ (refs[i] \notin Range(a.sources) \/ a.type # "remap")
                \/ r[i] \in Range(a.targets)
<1>1. PICK p, q : p = a.sources /\ q = a.targets
  OBVIOUS
<1>2. /\ p \in Seq(Source) /\ q \in Seq(Known) /\ Distinct(p)
      /\ a.type = "remap" => Len(p) = Len(q)
      /\ a.type # "remap" => q = Nothing
  BY <1>1 DEF GoodAction, ActionRow
<1>3. /\ DOMAIN p = 1..Len(p) /\ DOMAIN q = 1..Len(q) /\ DOMAIN refs = 1..Len(refs)
      /\ Range(p) = {p[j] : j \in 1..Len(p)} /\ Range(q) \subseteq Known /\ Len(refs) \in Nat
      /\ \A j \in 1..Len(q) : q[j] \in Range(q)
  BY <1>2, RangeOf
<1>4. r = [i \in 1..Len(refs) |->
              IF \E j \in 1..Len(p) \cap 1..Len(q) : p[j] = refs[i]
              THEN q[CHOOSE i_1 \in 1..Len(p) : p[i_1] = refs[i]] ELSE refs[i]]
  BY <1>1, <1>3 DEF Mapped
<1>5. ASSUME NEW i \in 1..Len(refs)
      PROVE  \/ r[i] = refs[i] /\ (refs[i] \notin Range(p) \/ a.type # "remap")
             \/ r[i] \in Range(q)
  <2>1. CASE \E j \in 1..Len(p) \cap 1..Len(q) : p[j] = refs[i]
    <3>1. PICK j \in 1..Len(p) \cap 1..Len(q) : p[j] = refs[i]
      BY <2>1
    <3>2. PICK k : k = CHOOSE i_1 \in 1..Len(p) : p[i_1] = refs[i]
      OBVIOUS
    <3>3. k \in 1..Len(p) /\ p[k] = refs[i]
      BY <3>1, <3>2
    <3>4. k = j
      BY <1>2, <3>1, <3>3 DEF Distinct
    <3>5. r[i] = q[k]
      BY <1>4, <2>1, <3>2
    <3> QED
      BY <1>3, <3>1, <3>4, <3>5
  <2>2. CASE ~\E j \in 1..Len(p) \cap 1..Len(q) : p[j] = refs[i]
    <3>1. r[i] = refs[i]
      BY <1>4, <2>2
    <3>2. a.type = "remap" => refs[i] \notin Range(p)
      BY <1>2, <1>3, <2>2
    <3> QED
      BY <3>1, <3>2
  <2> QED
    BY <2>1, <2>2
<1>6. \A i \in 1..Len(refs) : r[i] \in Known
  BY <1>3, <1>5
<1>7. r \in Seq(Known) /\ Len(r) = Len(refs)
  BY <1>3, <1>4, <1>6
<1> QED
  BY <1>1, <1>5, <1>7

\* A reference the entity had at first, and that the plan leaves, is of the new
\* snapshot, or the old one did not have it.
LEMMA LeftIsHome ==
    ASSUME NEW e, NEW a, NEW al, NEW ra, NEW re, GoodAction(e, a, al, ra, re), e \notin re,
           a.type \in {"remap", "swap", "replan"}, Kind[e] # "assignment", NEW c \in Range(Refs[e]),
           c \notin Range(a.sources) \/ a.type # "remap"
    PROVE  Home(e, c, al)
<1> SUFFICES ASSUME c \notin Target, c \in Source PROVE FALSE
  BY DEF Home
<1>1. c \in Affected(e)
  BY DEF Affected, Same
<1>2. c \in Range(a.sources)
  BY <1>1 DEF GoodAction, Sought
<1> QED
  BY <1>2 DEF GoodAction

LEMMA TargetIsFine ==
    ASSUME NEW e, NEW a \in ActionRow, NEW al, NEW ra, NEW re, GoodAction(e, a, al, ra, re), e \notin re,
           NEW c \in Range(a.targets)
    PROVE  Home(e, c, al) /\ Fine(e, c, al)
<1>1. PICK p, q : p = a.sources /\ q = a.targets
  OBVIOUS
<1>2. p \in Seq(Source) /\ q \in Seq(Known)
  BY <1>1 DEF ActionRow
<1>3. PICK i \in 1..Len(q) : c = q[i]
  BY <1>1, <1>2, RangeOf
<1>4. PICK j \in 1..Len(p) : <<p[j], q[i]>> \in al
  BY <1>1, <1>3 DEF GoodAction
<1>5. p[j] \in Range(p)
  BY <1>2, RangeOf
<1>6. p[j] \in Lineage(Range(Refs[e]), al)
  BY <1>1, <1>5 DEF GoodAction, Sought, Fine
<1>7. q[i] \in Lineage(Range(Refs[e]), al)
  BY <1>4, <1>6, LineageLeads
<1> QED
  BY <1>3, <1>4, <1>6, <1>7 DEF Fine, Home

LEMMA MappedIsFine ==
    ASSUME NEW refs \in Seq(Known), NEW e, NEW a \in ActionRow, NEW al, NEW ra, NEW re,
           GoodAction(e, a, al, ra, re), a.type \in {"remap", "swap", "replan"}, e \notin re,
           \A c \in Range(refs) : Fine(e, c, al),
           NEW r, r = Mapped(refs, a.sources, a.targets)
    PROVE  /\ \A c \in Range(r) : Fine(e, c, al)
           /\ Whole(e, refs, al) \/ (refs = Refs[e] /\ Kind[e] # "assignment") => Whole(e, r, al)
<1>1. /\ r \in Seq(Known) /\ Len(r) = Len(refs)
      /\ \A i \in 1..Len(refs) :
           \/ r[i] = refs[i] /\ (refs[i] \notin Range(a.sources) \/ a.type # "remap")
           \/ r[i] \in Range(a.targets)
  BY MappedIs
<1>2. ASSUME NEW i \in 1..Len(refs)
      PROVE  /\ Fine(e, r[i], al)
             /\ Whole(e, refs, al) \/ (refs = Refs[e] /\ Kind[e] # "assignment") => Home(e, r[i], al)
  <2>1. CASE r[i] \in Range(a.targets)
    BY <2>1, TargetIsFine
  <2>2. CASE r[i] = refs[i] /\ (refs[i] \notin Range(a.sources) \/ a.type # "remap")
    <3>1. PICK c : c = refs[i]
      OBVIOUS
    <3>2. c \in Range(refs) /\ Fine(e, c, al)
      BY <3>1, RangeOf
    <3>3. Whole(e, refs, al) => Home(e, c, al)
      BY <3>2 DEF Whole
    <3>4. refs = Refs[e] /\ Kind[e] # "assignment" => Home(e, c, al)
      BY <2>2, <3>1, <3>2, LeftIsHome
    <3> QED
      BY <2>2, <3>1, <3>2, <3>3, <3>4
  <2> QED
    BY <1>1, <2>1, <2>2
<1>3. Range(r) = {r[i] : i \in 1..Len(r)}
  BY <1>1, RangeOf
<1> QED
  BY <1>1, <1>2, <1>3 DEF Whole

LEMMA SwappedIsWhole ==
    ASSUME NEW e, NEW a, NEW al, NEW ra, NEW re, GoodAction(e, a, al, ra, re),
           a.type \in {"swap", "replan"}, e \notin re, Kind[e] # "assignment"
    PROVE  Whole(e, Refs[e], al)
<1>1. \A c \in Range(Refs[e]) : Home(e, c, al)
  BY LeftIsHome
<1> QED
  BY <1>1, LineageHas DEF Whole, Fine

\* Written, of an action, what was read and what is there now.
WrittenOf(e, a, read, now) ==
    LET refs == Mapped(read.refs, a.sources, a.targets)
    IN  CASE Kind[e] = "library" /\ a.type = "invalidate" ->
                 [read EXCEPT !.live = FALSE, !.copy = now.copy]
          [] Kind[e] = "library" /\ a.type # "invalidate" ->
                 [now EXCEPT !.copy = [refs |-> refs, live |-> read.live]]
          [] a.type = "replan" -> [read EXCEPT !.replan = TRUE]
          [] Kind[e] = "assignment" -> [read EXCEPT !.refs = refs]
          [] OTHER -> [read EXCEPT !.refs = IF a.type = "remap" THEN refs ELSE @,
                                   !.at = "target"]

LEMMA VersionIs ==
    ASSUME NEW v \in EntityRow
    PROVE  /\ v = [refs |-> v.refs, at |-> v.at, live |-> v.live, replan |-> v.replan, copy |-> v.copy]
           /\ v.refs \in Seq(Known) /\ v.at \in {"source", "target"}
           /\ v.live \in BOOLEAN /\ v.replan \in BOOLEAN /\ v.copy \in CopyRow
           /\ v.copy.refs \in Seq(Known)
  BY DEF EntityRow, CopyRow

LEMMA WrittenIsGood ==
    ASSUME NEW e, NEW a \in ActionRow, NEW al, NEW ra, NEW re, GoodAction(e, a, al, ra, re),
           a.type # "pin", NEW read, GoodVersion(e, read, al, re), NEW now, GoodVersion(e, now, al, re),
           NEW v, v = WrittenOf(e, a, read, now)
    PROVE  GoodVersion(e, v, al, re)
<1>1. PICK refs : refs = Mapped(read.refs, a.sources, a.targets)
  OBVIOUS
<1>2. read \in EntityRow /\ now \in EntityRow
  BY DEF GoodVersion
<1>3. a.type \in Types
  BY DEF ActionRow
<1>4. CASE Kind[e] = "library" /\ a.type = "invalidate"
  <2>1. v = [read EXCEPT !.live = FALSE, !.copy = now.copy]
    BY <1>4 DEF WrittenOf
  <2>2. v = [refs |-> read.refs, at |-> read.at, live |-> FALSE, replan |-> read.replan, copy |-> now.copy]
    BY <1>2, <2>1, VersionIs
  <2>3. v \in EntityRow
    BY <1>2, <2>2, VersionIs DEF EntityRow
  <2>4. v.refs = read.refs /\ v.at = read.at /\ v.copy = now.copy
    BY <2>2
  <2> QED
    BY <2>3, <2>4 DEF GoodVersion
<1>5. CASE a.type # "invalidate"
  <2>1. a.type \in {"remap", "swap", "replan"}
    BY <1>3, <1>5 DEF Types
  <2>2. refs \in Seq(Known) /\ read.refs \in Seq(Known)
    BY <1>1, <1>2, <2>1, MappedIs, VersionIs
  <2>3. ASSUME e \notin re
        PROVE  /\ \A c \in Range(refs) : Fine(e, c, al)
               /\ Kind[e] # "assignment" => Whole(e, refs, al)
    <3>1. /\ \A c \in Range(read.refs) : Fine(e, c, al)
          /\ Kind[e] # "assignment" => Whole(e, read.refs, al) \/ read.refs = Refs[e]
      BY <1>2, <2>3, VersionIs DEF GoodVersion
    <3>2. /\ \A c \in Range(refs) : Fine(e, c, al)
          /\ Whole(e, read.refs, al) \/ (read.refs = Refs[e] /\ Kind[e] # "assignment") => Whole(e, refs, al)
      BY <1>1, <2>1, <2>2, <2>3, <3>1, MappedIsFine
    <3> QED
      BY <3>1, <3>2
  <2>4. CASE Kind[e] = "library"
    <3>1. PICK copy : copy = [refs |-> refs, live |-> read.live]
      OBVIOUS
    <3>2. v = [now EXCEPT !.copy = copy]
      <4>1. a.type # "replan"
        BY <2>4 DEF GoodAction
      <4> QED
        BY <1>1, <1>5, <2>4, <3>1, <4>1 DEF WrittenOf
    <3>3. v = [refs |-> now.refs, at |-> now.at, live |-> now.live, replan |-> now.replan, copy |-> copy]
      BY <1>2, <3>2, VersionIs
    <3>4. copy \in CopyRow /\ copy.refs = refs
      BY <1>2, <2>2, <3>1, VersionIs DEF CopyRow
    <3>5. v \in EntityRow
      BY <1>2, <3>3, <3>4, VersionIs DEF EntityRow
    <3>6. v.refs = now.refs /\ v.at = now.at /\ v.copy.refs = refs
      BY <3>3, <3>4
    <3> QED
      BY <2>3, <2>4, <3>5, <3>6 DEF GoodVersion
  <2>5. CASE Kind[e] # "library" /\ a.type = "replan"
    <3>1. v = [read EXCEPT !.replan = TRUE]
      BY <2>5 DEF WrittenOf, GoodAction
    <3>2. v = [refs |-> read.refs, at |-> read.at, live |-> read.live, replan |-> TRUE, copy |-> read.copy]
      BY <1>2, <3>1, VersionIs
    <3>3. v \in EntityRow
      BY <1>2, <3>2, VersionIs DEF EntityRow
    <3>4. v.refs = read.refs /\ v.at = read.at /\ v.copy = read.copy
      BY <3>2
    <3> QED
      BY <3>3, <3>4 DEF GoodVersion
  <2>6. CASE Kind[e] = "assignment" /\ a.type # "replan"
    <3>1. v = [read EXCEPT !.refs = refs]
      BY <1>1, <2>6 DEF WrittenOf
    <3>2. v = [refs |-> refs, at |-> read.at, live |-> read.live, replan |-> read.replan, copy |-> read.copy]
      BY <1>2, <3>1, VersionIs
    <3>3. v \in EntityRow
      BY <1>2, <2>2, <3>2, VersionIs DEF EntityRow
    <3>4. v.refs = refs /\ v.copy = read.copy /\ v.at = read.at
      BY <3>2
    <3> QED
      BY <2>3, <2>6, <3>3, <3>4 DEF GoodVersion
  <2>7. CASE Kind[e] \notin {"library", "assignment"} /\ a.type # "replan"
    <3>1. PICK rs : rs = IF a.type = "remap" THEN refs ELSE read.refs
      OBVIOUS
    <3>2. v = [read EXCEPT !.refs = rs, !.at = "target"]
      BY <1>1, <2>7, <3>1 DEF WrittenOf
    <3>3. v = [refs |-> rs, at |-> "target", live |-> read.live, replan |-> read.replan, copy |-> read.copy]
      BY <1>2, <3>2, VersionIs
    <3>4. rs \in Seq(Known)
      BY <1>2, <2>2, <3>1, VersionIs
    <3>5. v \in EntityRow
      BY <1>2, <3>3, <3>4, VersionIs DEF EntityRow
    <3>6. e \notin re => Whole(e, rs, al)
      <4>1. CASE a.type = "remap"
        BY <2>3, <2>7, <3>1, <4>1
      <4>2. CASE a.type # "remap"
        <5>1. a.type \in {"swap", "replan"} /\ rs = read.refs
          BY <2>1, <3>1, <4>2
        <5>2. e \notin re => Whole(e, read.refs, al) \/ read.refs = Refs[e]
          BY <1>2, <2>7, VersionIs DEF GoodVersion
        <5>3. e \notin re => Whole(e, Refs[e], al)
          BY <2>7, <5>1, SwappedIsWhole
        <5> QED
          BY <5>1, <5>2, <5>3
      <4> QED
        BY <4>1, <4>2
    <3>7. v.refs = rs /\ v.copy = read.copy /\ v.at = "target"
      BY <3>3
    <3> QED
      BY <2>7, <3>5, <3>6, <3>7 DEF GoodVersion, Whole
  <2> QED
    BY <2>4, <2>5, <2>6, <2>7
<1> QED
  BY <1>4, <1>5 DEF GoodAction

\* Steps that write one entity, as what one request does.
LEMMA WriteStep ==
    ASSUME NEW t \in Threads, NEW h, NEW e \in Names, NEW v, IInv, h.pc \notin Planning,
           GoodThread(h, aligned, ratified, revised), GoodVersion(e, v, aligned, revised),
           Become(t, h), entity' = [entity EXCEPT ![e] = v], e \in ratified,
           migrated' = migrated \cup {e} \/ migrated' = migrated,
           UNCHANGED <<digest, records, ratified, aligned, revised>>
    PROVE  IInv'
<1>1. Growing /\ diff' = diff
  BY DEF Growing, records
<1>2. Records'
  BY <1>1, RecordsStay DEF IInv
<1>3. Entitled'
  BY <1>1, EntitledWrites DEF IInv
<1>4. Working'
  BY <1>1, WorkingBecomes DEF IInv
<1>5. Compared'
  BY <1>1, ComparedBecomes DEF IInv
<1>6. History'
  BY DEF IInv, History
<1> QED
  BY <1>2, <1>3, <1>4, <1>5, <1>6 DEF IInv

\* A request that writes, or has written, has an action that may be taken.
LEMMA Current ==
    ASSUME NEW t \in Threads, IInv, thread[t].pc \in {"write", "expire"}
    PROVE  /\ thread[t] \in ThreadRow /\ thread[t].todo # Nothing
           /\ Running(t) \in Names /\ Running(t) \in ratified
           /\ Action(t) \in ActionRow /\ Action(t).type # "pin"
           /\ GoodAction(Running(t), Action(t), aligned, ratified, revised)
<1>1. PICK g : g = thread[t]
  OBVIOUS
<1>2. GoodThread(g, aligned, ratified, revised) /\ g \in ThreadRow
  BY <1>1 DEF IInv, Working, GoodThread
<1>3. g.todo \in Seq(Names) /\ g.plan \in PlanRow
  BY <1>2, ThreadRowIs
<1>4. PICK e : e = Head(g.todo)
  OBVIOUS
<1>5. /\ g.todo # Nothing /\ GoodTodo(g.todo, g.plan, ratified)
      /\ GoodPlan(g.plan, aligned, ratified, revised)
  BY <1>1, <1>2 DEF GoodThread
<1>6. /\ e \in Names /\ e \in ratified /\ e \in DOMAIN g.plan.actions
      /\ g.plan.actions[e].type # "pin"
  BY <1>3, <1>4, <1>5, TodoIsNext
<1>7. g.plan.actions[e] \in ActionRow
  BY <1>3, <1>6, PlanRowIs
<1>8. GoodAction(e, g.plan.actions[e], aligned, ratified, revised)
  BY <1>5, <1>6 DEF GoodPlan
<1>9. Running(t) = e /\ Action(t) = g.plan.actions[e]
  BY <1>1, <1>4 DEF Running, Action
<1> QED
  BY <1>1, <1>2, <1>5, <1>6, <1>7, <1>8, <1>9

\* Having written, a request goes on.
Onward(t) ==
    [thread[t] EXCEPT !.pc = "run", !.todo = Tail(@), !.plan = Marked(t, Running(t), "executed")]

LEMMA GoesOn ==
    ASSUME NEW t \in Threads, IInv, thread[t].pc \in {"write", "expire"}, NEW h, h = Onward(t)
    PROVE  GoodThread(h, aligned, ratified, revised) /\ h.pc \notin Planning
<1>1. PICK g : g = thread[t]
  OBVIOUS
<1>2. GoodThread(g, aligned, ratified, revised) /\ g \in ThreadRow
  BY <1>1, ThreadIs
<1>3. g.todo # Nothing /\ g.pc \in {"run", "write", "expire"} /\ g.failed \in BOOLEAN
      /\ g = [pc |-> g.pc, diff |-> g.diff, analysis |-> g.analysis, plan |-> g.plan,
              chosen |-> g.chosen, todo |-> g.todo, read |-> g.read, failed |-> g.failed]
  BY <1>1, <1>2, Current, ThreadRowIs
<1>4. PICK q : q = MarkedAs(g.plan, Head(g.todo), "executed")
  OBVIOUS
<1>5. q = Marked(t, Running(t), "executed")
  BY <1>1, <1>4 DEF Marked, MarkedAs, Running
<1>6. h = [g EXCEPT !.pc = "run", !.todo = Tail(@), !.plan = q]
  BY <1>1, <1>5 DEF Onward
<1>7. PICK failed \in BOOLEAN : failed = g.failed
  BY <1>3
<1>8. h = [pc |-> "run", diff |-> g.diff, analysis |-> g.analysis, plan |-> q, chosen |-> g.chosen,
           todo |-> Tail(g.todo), read |-> g.read, failed |-> failed]
  BY <1>3, <1>6, <1>7
<1>9. GoodThread(h, aligned, ratified, revised) /\ h.pc = "run"
  BY <1>2, <1>3, <1>4, <1>8, NextAction
<1> QED
  BY <1>9 DEF Planning

LEMMA WriteEntityStep ==
    ASSUME NEW t \in Threads, IInv, WriteEntity(t)
    PROVE  IInv'
<1>1. PICK g : g = thread[t]
  OBVIOUS
<1>2. PICK e : e = Running(t)
  OBVIOUS
<1>3. PICK v : v = Written(t)
  OBVIOUS
<1>4. /\ g.pc = "write" /\ entity' = [entity EXCEPT ![e] = v] /\ migrated' = migrated \cup {e}
      /\ UNCHANGED <<digest, records, counts, ratified, aligned, revised>>
  BY <1>1, <1>2, <1>3 DEF WriteEntity, At
<1>5. PICK a : a = Action(t)
  OBVIOUS
<1>6. /\ e \in Names /\ e \in ratified /\ a \in ActionRow /\ a.type # "pin"
      /\ GoodAction(e, a, aligned, ratified, revised) /\ g \in ThreadRow
  BY <1>1, <1>2, <1>4, <1>5, Current
<1>7. GoodThread(g, aligned, ratified, revised)
  BY <1>1 DEF IInv, Working
<1>8. PICK read, now : read = g.read /\ now = entity[e]
  OBVIOUS
<1>9. GoodVersion(e, read, aligned, revised) /\ GoodVersion(e, now, aligned, revised)
  <2>1. e = Head(g.todo)
    BY <1>1, <1>2 DEF Running
  <2> QED
    BY <1>4, <1>6, <1>7, <1>8, <2>1 DEF GoodThread, IInv, Entitled
<1>10. v = WrittenOf(e, a, read, now)
  BY <1>1, <1>2, <1>3, <1>5, <1>8 DEF Written, WrittenOf
<1>11. GoodVersion(e, v, aligned, revised)
  BY <1>6, <1>9, <1>10, WrittenIsGood
<1>12. CASE Kind[e] = "library" /\ a.type # "invalidate"
  <2>1. PICK h : h = [g EXCEPT !.pc = "expire"]
    OBVIOUS
  <2>2. Become(t, h)
    BY <1>1, <1>2, <1>5, <1>12, <2>1 DEF WriteEntity
  <2>3. h = [pc |-> "expire", diff |-> g.diff, analysis |-> g.analysis, plan |-> g.plan,
             chosen |-> g.chosen, todo |-> g.todo, read |-> g.read, failed |-> g.failed]
    BY <1>6, <2>1, ThreadRowIs
  <2>4. h \in ThreadRow
    BY <1>6, <2>3, ThreadRowIs DEF ThreadRow
  <2>5. /\ h.pc = "expire" /\ h.plan = g.plan /\ h.todo = g.todo
        /\ h.diff = g.diff /\ h.analysis = g.analysis
    BY <2>3
  <2>6. GoodThread(h, aligned, ratified, revised) /\ h.pc \notin Planning
    BY <1>4, <1>7, <2>4, <2>5 DEF GoodThread, Planning
  <2> QED
    BY <1>4, <1>6, <1>11, <2>2, <2>6, WriteStep
<1>13. CASE ~(Kind[e] = "library" /\ a.type # "invalidate")
  <2>1. PICK h : h = Onward(t)
    OBVIOUS
  <2>2. Become(t, h)
    BY <1>1, <1>2, <1>5, <1>13, <2>1 DEF WriteEntity, Onward
  <2>3. GoodThread(h, aligned, ratified, revised) /\ h.pc \notin Planning
    BY <1>1, <1>4, <2>1, GoesOn
  <2> QED
    BY <1>4, <1>6, <1>11, <2>2, <2>3, WriteStep
<1> QED
  BY <1>12, <1>13

\* An entity that is no longer live is otherwise as it was.
Ended(w) == [w EXCEPT !.live = FALSE]

LEMMA LiveNoMore ==
    ASSUME NEW e, NEW v, NEW w, NEW al, NEW re, GoodVersion(e, w, al, re), v = Ended(w)
    PROVE  GoodVersion(e, v, al, re)
<1>1. w \in EntityRow
  BY DEF GoodVersion
<1>2. v = [refs |-> w.refs, at |-> w.at, live |-> FALSE, replan |-> w.replan, copy |-> w.copy]
  <2>1. w = [refs |-> w.refs, at |-> w.at, live |-> w.live, replan |-> w.replan, copy |-> w.copy]
    BY <1>1, VersionIs
  <2> QED
    BY <2>1 DEF Ended
<1>3. v \in EntityRow
  BY <1>1, <1>2, VersionIs DEF EntityRow
<1>4. v.refs = w.refs /\ v.at = w.at /\ v.copy = w.copy
  BY <1>2
<1> QED
  BY <1>3, <1>4 DEF GoodVersion

LEMMA ExpireOriginalStep ==
    ASSUME NEW t \in Threads, IInv, ExpireOriginal(t)
    PROVE  IInv'
<1>1. PICK e : e = Running(t)
  OBVIOUS
<1>2. PICK w : w = entity[e]
  OBVIOUS
<1>3. PICK v : v = Ended(w)
  OBVIOUS
<1>4. PICK h : h = Onward(t)
  OBVIOUS
<1>5. /\ thread[t].pc = "expire" /\ Become(t, h) /\ entity' = [entity EXCEPT ![e].live = FALSE]
      /\ UNCHANGED <<digest, records, counts, history>>
  BY <1>1, <1>4 DEF ExpireOriginal, At, Onward
<1>6. entity' = [entity EXCEPT ![e] = v]
  BY <1>2, <1>3, <1>5 DEF Ended
<1>7. e \in Names /\ e \in ratified
  BY <1>1, <1>5, Current
<1>8. GoodVersion(e, v, aligned, revised)
  BY <1>2, <1>3, <1>7, LiveNoMore DEF IInv, Entitled
<1>9. GoodThread(h, aligned, ratified, revised) /\ h.pc \notin Planning
  BY <1>4, <1>5, GoesOn
<1>10. UNCHANGED <<digest, records, ratified, aligned, revised>> /\ migrated' = migrated
  BY <1>5 DEF history
<1> QED
  BY <1>5, <1>6, <1>7, <1>8, <1>9, <1>10, WriteStep

-----------------------------------------------------------------------------
(* Meanwhile.                                                               *)

\* Steps that write one entity and nothing else, of which it may be remembered.
LEMMA MeanwhileStep ==
    ASSUME NEW e \in Names, NEW v, IInv, GoodVersion(e, v, aligned, revised'),
           entity' = [entity EXCEPT ![e] = v], revised \subseteq revised',
           UNCHANGED <<digest, records, thread, ratified, aligned, migrated>>
    PROVE  IInv'
<1>1. Growing /\ diff' = diff
  BY DEF Growing, records
<1>2. Records' /\ Working' /\ Compared'
  BY <1>1, RecordsStay, WorkingStays, ComparedStays DEF IInv
<1>3. Entitled'
  BY <1>1, EntitledWrites DEF IInv
<1> QED
  BY <1>2, <1>3 DEF IInv, History

LEMMA EraseStep ==
    ASSUME NEW e \in Names, IInv, Erase(e)
    PROVE  IInv'
<1>1. /\ entity' = [entity EXCEPT ![e].live = FALSE]
      /\ UNCHANGED <<digest, records, thread, history>>
  BY DEF Erase
<1>2. UNCHANGED <<ratified, aligned, migrated, revised>>
  BY <1>1 DEF history
<1>3. PICK w : w = entity[e]
  OBVIOUS
<1>4. PICK v : v = Ended(w)
  OBVIOUS
<1>5. GoodVersion(e, v, aligned, revised)
  BY <1>3, <1>4, LiveNoMore DEF IInv, Entitled
<1>6. entity' = [entity EXCEPT ![e] = v]
  BY <1>1, <1>3, <1>4 DEF Ended
<1>7. GoodVersion(e, v, aligned, revised') /\ revised \subseteq revised'
  BY <1>2, <1>5
<1> QED
  BY <1>1, <1>2, <1>6, <1>7, MeanwhileStep

LEMMA ReviseStep ==
    ASSUME CurriculumMigrationAssumption, NEW e \in Names, NEW c \in Requested, IInv, Revise(e, c)
    PROVE  IInv'
<1>1. /\ entity' = [entity EXCEPT ![e].refs = <<c>>] /\ revised' = revised \cup {e}
      /\ UNCHANGED <<digest, records, thread, ratified, aligned, migrated>>
  BY DEF Revise
<1>2. PICK w : w = entity[e]
  OBVIOUS
<1>3. PICK rs : rs = <<c>>
  OBVIOUS
<1>4. rs \in Seq(Known)
  BY <1>3 DEF CurriculumMigrationAssumption
<1>5. PICK v : v = [w EXCEPT !.refs = rs]
  OBVIOUS
<1>6. w \in EntityRow
  BY <1>2 DEF IInv, Entitled, GoodVersion
<1>7. v = [refs |-> rs, at |-> w.at, live |-> w.live, replan |-> w.replan, copy |-> w.copy]
  BY <1>5, <1>6, VersionIs
<1>8. v \in EntityRow
  BY <1>4, <1>6, <1>7, VersionIs DEF EntityRow
<1>9. GoodVersion(e, v, aligned, revised')
  BY <1>1, <1>8 DEF GoodVersion
<1>10. entity' = [entity EXCEPT ![e] = v]
  BY <1>1, <1>2, <1>3, <1>5
<1>11. revised \subseteq revised'
  BY <1>1
<1> QED
  BY <1>1, <1>9, <1>10, <1>11, MeanwhileStep

-----------------------------------------------------------------------------
(* The invariant.                                                           *)

LEMMA InitInv ==
    ASSUME CurriculumMigrationAssumption, Init
    PROVE  IInv
<1>1. /\ digest \in SetToSeqs(Removed)
      /\ edges = Nothing /\ diff = Nothing /\ analysis = NoAnalysis /\ plan = NoPlan
      /\ entity = [e \in Names |-> [refs |-> Refs[e], at |-> "source", live |-> TRUE,
                                    replan |-> FALSE, copy |-> NoCopy]]
      /\ thread = [t \in Threads |-> Idle]
      /\ ratified = {} /\ aligned = {} /\ migrated = {} /\ revised = {}
  BY DEF Init
<1>2. Nothing \in Seq(EdgeRow) /\ Len(Nothing) = 0 /\ DOMAIN Nothing = {} /\ Range(Nothing) = {}
      /\ Nothing \in Seq(Known)
  BY DEF Nothing, Range
<1>3. GoodEdges(edges, aligned)
  BY <1>1, <1>2 DEF GoodEdges
<1>4. GoodDiff(diff, aligned)
  BY <1>1, NothingIsGood
<1>5. GoodAnalysis(analysis, aligned, revised)
  BY <1>1, NothingIsGood
<1>6. Records
  BY <1>1, <1>3, <1>4, <1>5 DEF Records
<1>7. ASSUME NEW e \in Names PROVE GoodVersion(e, entity[e], aligned, revised)
  <2>1. PICK rs : rs = Refs[e]
    OBVIOUS
  <2>2. rs \in Seq(Known)
    BY <2>1, EntitiesAre
  <2>3. PICK copy : copy = [refs |-> Nothing, live |-> FALSE]
    OBVIOUS
  <2>4. copy = NoCopy /\ copy \in CopyRow /\ copy.refs = Nothing
    BY <1>2, <2>3 DEF NoCopy, CopyRow
  <2>5. PICK v : v = [refs |-> rs, at |-> "source", live |-> TRUE, replan |-> FALSE, copy |-> copy]
    OBVIOUS
  <2>6. entity[e] = v
    BY <1>1, <2>1, <2>4, <2>5
  <2>7. v \in EntityRow
    BY <2>2, <2>4, <2>5 DEF EntityRow
  <2>8. v.refs = rs /\ v.at = "source" /\ v.copy = copy
    BY <2>5
  <2>9. GoodVersion(e, v, aligned, revised)
    BY <1>2, <2>1, <2>4, <2>7, <2>8, LineageHas DEF GoodVersion, Fine, Whole
  <2> QED
    BY <2>6, <2>9
<1>8. DOMAIN entity = Names
  BY <1>1
<1>9. Entitled
  BY <1>7, <1>8 DEF Entitled
<1>10. \A t \in Threads : thread[t] = Idle
  BY <1>1
<1>11. DOMAIN thread = Threads
  BY <1>1
<1>12. Working
  BY <1>10, <1>11, IdleIsGood DEF Working
<1>13. \A t \in Threads : thread[t].pc = "idle"
  BY <1>10, IdleIsGood
<1>14. Compared
  BY <1>13 DEF Compared, Planning
<1> QED
  BY <1>1, <1>6, <1>9, <1>12, <1>14 DEF IInv, History

LEMMA StutterStep ==
    ASSUME IInv, UNCHANGED vars
    PROVE  IInv'
<1>1. /\ UNCHANGED <<ratified, aligned, migrated, revised, entity, thread, digest, records>>
      /\ diff' = diff
  BY DEF vars, history, records
<1>2. Growing
  BY <1>1 DEF Growing
<1>3. Records' /\ Entitled' /\ Working' /\ Compared'
  BY <1>1, <1>2, RecordsStay, EntitledStays, WorkingStays, ComparedStays DEF IInv
<1> QED
  BY <1>1, <1>3 DEF IInv, History

LEMMA NextInv ==
    ASSUME CurriculumMigrationAssumption, IInv, Next
    PROVE  IInv'
<1>1. CASE \E pair \in Alignments :
            Propose(pair) \/ \E decision \in {"approved", "rejected"} : Review(pair, decision)
  <2>1. PICK pair \in Alignments :
            Propose(pair) \/ \E decision \in {"approved", "rejected"} : Review(pair, decision)
    BY <1>1
  <2>2. CASE Propose(pair)
    <3>1. PICK status \in {"pending", "approved", "rejected"} : status = "pending"
      OBVIOUS
    <3>2. /\ edges' = <<Edge(pair, status)>> \o Others(pair)
          /\ aligned' = IF status = "approved" THEN aligned \cup {pair} ELSE aligned
          /\ UNCHANGED <<digest, diff, analysis, plan, entity, thread, ratified, migrated, revised>>
      BY <2>2, <3>1 DEF Propose, history
    <3> QED
      BY <3>2, ReviewStep
  <2>3. ASSUME NEW status \in {"approved", "rejected"}, Review(pair, status) PROVE IInv'
    <3>1. /\ edges' = <<Edge(pair, status)>> \o Others(pair)
          /\ aligned' = IF status = "approved" THEN aligned \cup {pair} ELSE aligned
          /\ UNCHANGED <<digest, diff, analysis, plan, entity, thread, ratified, migrated, revised>>
      BY <2>3 DEF Review
    <3>2. status \in {"pending", "approved", "rejected"}
      OBVIOUS
    <3> QED
      BY <3>1, <3>2, ReviewStep
  <2> QED
    BY <2>1, <2>2, <2>3
<1>2. CASE \E t \in Threads :
            \/ CreateDiff(t) \/ Analyze(t) \/ CreatePlan(t) \/ Step(t)
            \/ \E chosen \in SUBSET DOMAIN plan.actions : Approve(t, chosen)
            \/ \E chosen \in SUBSET DOMAIN plan.actions \ {{}} : Execute(t, chosen)
  <2>1. PICK t \in Threads :
            \/ CreateDiff(t) \/ Analyze(t) \/ CreatePlan(t) \/ Step(t)
            \/ \E chosen \in SUBSET DOMAIN plan.actions : Approve(t, chosen)
            \/ \E chosen \in SUBSET DOMAIN plan.actions \ {{}} : Execute(t, chosen)
    BY <1>2
  <2>2. CASE Step(t)
    BY <2>2, StoreDiffStep, StoreAnalysisStep, TakeStep, StorePlanStep, StoreApprovalStep,
       ReadEntityStep, WriteEntityStep, ExpireOriginalStep, SavePlanStep, DieStep DEF Step
  <2>3. ASSUME NEW chosen \in SUBSET DOMAIN plan.actions, Approve(t, chosen) PROVE IInv'
    BY <2>3, ApproveStep
  <2>4. ASSUME NEW chosen \in SUBSET DOMAIN plan.actions \ {{}}, Execute(t, chosen) PROVE IInv'
    BY <2>4, ExecuteStep
  <2>5. CASE CreateDiff(t) \/ Analyze(t) \/ CreatePlan(t)
    BY <2>5, CreateDiffStep, AnalyzeStep, CreatePlanStep
  <2> QED
    BY <2>1, <2>2, <2>3, <2>4, <2>5
<1>3. CASE \E e \in Names : Erase(e) \/ \E c \in Requested : Revise(e, c)
  BY <1>3, EraseStep, ReviseStep
<1> QED
  BY <1>1, <1>2, <1>3 DEF Next

LEMMA Invariant ==
    ASSUME CurriculumMigrationAssumption
    PROVE  Spec => []IInv
<1>1. Init => IInv
  BY InitInv
<1>2. IInv /\ [Next]_vars => IInv'
  BY NextInv, StutterStep
<1> QED
  BY <1>1, <1>2, PTL DEF Spec

-----------------------------------------------------------------------------
\* For any snapshots, alignments, entities and requests, two administrators at once
\* and requests that die included: nothing is migrated whose action was not approved,
\* and a component that an entity has gained was approved as the equivalent of one
\* it had before.
THEOREM NothingIsUnapproved ==
    ASSUME CurriculumMigrationAssumption
    PROVE  Spec => []NothingUnapproved
<1>1. IInv => NothingUnapproved
  <2> SUFFICES ASSUME IInv PROVE NothingUnapproved
    OBVIOUS
  <2>1. migrated \subseteq ratified /\ migrated \subseteq Names
    BY DEF IInv, History
  <2>2. ASSUME NEW e \in migrated \ revised, NEW c \in RefersTo(e)
        PROVE  c \in Lineage(Range(Refs[e]), aligned)
    <3>1. GoodVersion(e, entity[e], aligned, revised)
      BY <2>1 DEF IInv, Entitled
    <3> QED
      BY <3>1 DEF GoodVersion, Whole, RefersTo, Fine
  <2> QED
    BY <2>1, <2>2 DEF NothingUnapproved
<1> QED
  BY <1>1, Invariant, PTL

\* For any snapshots, alignments, entities and requests: what a migration moved to the
\* new snapshot refers to components of the new snapshot only, whatever was reviewed,
\* analysed, planned or approved since, unless the learner's goal was revised meanwhile,
\* the old snapshot never had the component, or a reviewer approved it without its
\* being in the new one.
THEOREM WhatIsMigratedIsWhole ==
    ASSUME CurriculumMigrationAssumption
    PROVE  Spec => []MigratedIsWhole
<1>1. IInv => MigratedIsWhole
  <2> SUFFICES ASSUME IInv, NEW e \in DOMAIN entity \ revised,
                      NEW moved, moved = Range(entity[e].copy.refs)
                          \cup (IF entity[e].at = "target" THEN Range(entity[e].refs) ELSE {}),
                      NEW c \in moved \ Target
               PROVE  \/ c \in Range(Refs[e]) \ Source
                      \/ \E had \in Lineage(Range(Refs[e]), aligned) : <<had, c>> \in aligned
    BY DEF MigratedIsWhole
  <2>1. GoodVersion(e, entity[e], aligned, revised)
    BY DEF IInv, Entitled
  <2>2. Home(e, c, aligned)
    BY <2>1 DEF GoodVersion, Whole
  <2> QED
    BY <2>2 DEF Home
<1> QED
  BY <1>1, Invariant, PTL

-----------------------------------------------------------------------------
(* The intake: every request that goes on by itself leaves what the others   *)
(* rely on.                                                                 *)

IntakePcs == {"idle", "framework", "import", "artifacts", "read", "rows",
        "frameworkPublished", "importPublished"}

\* A request keeps a version while it runs, and lists keys of that version only.
IntakeThreadType ==
    /\ thread \in [Threads -> [pc : IntakePcs, version : Intake!Versions \cup {Intake!None},
                               todo : SUBSET Intake!AllKeys, read : SUBSET Intake!AllKeys]]
    /\ \A t \in Threads : ~Intake!At(t, "idle") => Intake!Version(t) \in Intake!Versions

IntakeTypeOK ==
    /\ framework \in [import : Intake!Versions \cup {Intake!None},
                      snapshot : Intake!Versions \cup {Intake!None}]
    /\ imports \in [Intake!Versions -> {Intake!None, "imported", "failed", "published"}]
    /\ artifacts \in [Intake!Versions -> SUBSET Intake!AllKeys]
    /\ runtime \in [Intake!AllKeys -> Intake!Versions \cup {Intake!None}]
    /\ snapshots \in [Intake!Versions -> SUBSET Intake!AllKeys]
    /\ IntakeThreadType

\* What a publication that has begun may rely on: of the artifacts it has read,
\* those it no longer has to write have their runtime row; once it is past the
\* snapshot, the snapshot is stored.
Underway(t) ==
    /\ Intake!At(t, "rows") =>
        /\ thread[t].read # {}
        /\ \A k \in thread[t].read \ thread[t].todo : runtime[k] # Intake!None
    /\ thread[t].pc \in {"frameworkPublished", "importPublished"} =>
        snapshots[Intake!Version(t)] # {}

IntakeInv == IntakeTypeOK /\ (\A t \in Threads : Underway(t)) /\ Intake!PublishedCanBeRead

LEMMA InitIntakeInv == Intake!Init => IntakeInv
<1> SUFFICES ASSUME Intake!Init PROVE IntakeInv
  OBVIOUS
<1>1. IntakeThreadType
  BY DEF Intake!Init, IntakeThreadType, Intake!Idle, IntakePcs, Intake!At
<1>2. IntakeTypeOK
  BY <1>1 DEF Intake!Init, IntakeTypeOK
<1>3. \A t \in Threads : Underway(t)
  BY DEF Intake!Init, Underway, Intake!Idle, Intake!At
<1>4. Intake!PublishedCanBeRead
  BY DEF Intake!Init, Intake!PublishedCanBeRead, Intake!None
<1>5. QED
  BY <1>2, <1>3, <1>4 DEF IntakeInv

-----------------------------------------------------------------------------
\* Rows are written over but never removed.
RowsStay == \A k \in Intake!AllKeys : runtime[k] # Intake!None => runtime'[k] # Intake!None

\* A snapshot that is stored stays, perhaps with other keys.
SnapshotsStay == \A v \in Intake!Versions : snapshots[v] # {} => snapshots'[v] # {}

\* A request that goes on by itself leaves what the others rely on.
LEMMA OthersUnderway ==
    ASSUME IntakeInv, IntakeTypeOK', NEW t \in Threads, RowsStay, SnapshotsStay,
           \A o \in Threads \ {t} : thread'[o] = thread[o],
           Underway(t)'
    PROVE  \A o \in Threads : Underway(o)'
<1>1. SUFFICES ASSUME NEW o \in Threads, o # t PROVE Underway(o)'
  OBVIOUS
<1>2. Underway(o) /\ thread'[o] = thread[o]
  BY <1>1 DEF IntakeInv
<1>3. ~Intake!At(o, "idle") => Intake!Version(o) \in Intake!Versions
  BY <1>1 DEF IntakeInv, IntakeTypeOK, IntakeThreadType
<1>4. thread[o].read \subseteq Intake!AllKeys
  BY <1>1 DEF IntakeInv, IntakeTypeOK, IntakeThreadType
<1>5. QED
  BY <1>2, <1>3, <1>4 DEF Underway, Intake!At, Intake!Version, RowsStay, SnapshotsStay

-----------------------------------------------------------------------------
\* The type of the requests, when one of them moves on.
LEMMA IntakeThreadMoves ==
    ASSUME IntakeThreadType, NEW t \in Threads,
           NEW now \in [pc : IntakePcs, version : Intake!Versions \cup {Intake!None},
                        todo : SUBSET Intake!AllKeys, read : SUBSET Intake!AllKeys],
           now.pc # "idle" => now.version \in Intake!Versions,
           thread' = [thread EXCEPT ![t] = now]
    PROVE  /\ IntakeThreadType'
           /\ thread'[t] = now
           /\ \A o \in Threads \ {t} : thread'[o] = thread[o]
  BY DEF IntakeThreadType, Intake!At, Intake!Version

LEMMA KeysOfVersion == \A v \in Intake!Versions : Intake!Keys(v) \subseteq Intake!AllKeys
  BY DEF Intake!AllKeys

\* A step that leaves the tables alone, but for the requests.
LEMMA RequestStep ==
    ASSUME IntakeInv, NEW t \in Threads, IntakeThreadType',
           UNCHANGED <<framework, imports, artifacts, runtime, snapshots>>,
           \A o \in Threads \ {t} : thread'[o] = thread[o],
           Underway(t)'
    PROVE  IntakeInv'
<1>1. IntakeTypeOK'
  BY DEF IntakeInv, IntakeTypeOK
<1>2. RowsStay /\ SnapshotsStay
  BY DEF RowsStay, SnapshotsStay
<1>3. Intake!PublishedCanBeRead'
  BY DEF IntakeInv, Intake!PublishedCanBeRead
<1>4. QED
  BY <1>1, <1>2, <1>3, OthersUnderway DEF IntakeInv

\* A request that ends or dies relies on nothing any more.
LEMMA StopStep ==
    ASSUME IntakeInv, NEW t \in Threads, Intake!Done(t),
           UNCHANGED <<framework, imports, artifacts, runtime, snapshots>>
    PROVE  IntakeInv'
<1>1. Intake!Idle \in [pc : IntakePcs, version : Intake!Versions \cup {Intake!None},
                todo : SUBSET Intake!AllKeys, read : SUBSET Intake!AllKeys] /\ Intake!Idle.pc = "idle"
  BY DEF Intake!Idle, IntakePcs
<1>2. IntakeThreadType' /\ thread'[t] = Intake!Idle /\ \A o \in Threads \ {t} : thread'[o] = thread[o]
  BY <1>1, IntakeThreadMoves DEF IntakeInv, IntakeTypeOK, Intake!Done
<1>3. Underway(t)'
  BY <1>1, <1>2 DEF Underway, Intake!At
<1>4. QED
  BY <1>2, <1>3, RequestStep

LEMMA ImportSteps ==
    ASSUME IntakeInv, NEW t \in Threads
    PROVE  /\ \A v \in Intake!Versions : Intake!Import(t, v) => IntakeInv'
           /\ Intake!StoreFramework(t) => IntakeInv'
           /\ Intake!StoreImport(t) => IntakeInv'
           /\ Intake!StoreArtifact(t) => IntakeInv'
           /\ Intake!EndImport(t) => IntakeInv'
<1>0. IntakeThreadType /\ thread[t] \in [pc : IntakePcs, version : Intake!Versions \cup {Intake!None},
                                   todo : SUBSET Intake!AllKeys, read : SUBSET Intake!AllKeys]
  BY DEF IntakeInv, IntakeTypeOK, IntakeThreadType
<1>1. ASSUME NEW v \in Intake!Versions, Intake!Import(t, v) PROVE IntakeInv'
  <2>1. CASE imports[v] # Intake!None
    <3>1. UNCHANGED <<framework, imports, artifacts, runtime, snapshots, thread>>
      BY <1>1, <2>1 DEF Intake!Import
    <3>2. IntakeThreadType' /\ Underway(t)'
      BY <3>1, <1>0 DEF IntakeInv, IntakeThreadType, Underway, Intake!At, Intake!Version
    <3>3. QED
      BY <3>1, <3>2, RequestStep
  <2>2. CASE imports[v] = Intake!None
    <3> DEFINE now == [pc |-> "framework", version |-> v, todo |-> Intake!Keys(v), read |-> {}]
    <3>1. /\ thread' = [thread EXCEPT ![t] = now]
          /\ UNCHANGED <<framework, imports, artifacts, runtime, snapshots>>
      BY <1>1, <2>2 DEF Intake!Import
    <3>2. now \in [pc : IntakePcs, version : Intake!Versions \cup {Intake!None},
                   todo : SUBSET Intake!AllKeys, read : SUBSET Intake!AllKeys]
      BY KeysOfVersion DEF IntakePcs
    <3>3. now.pc = "framework" /\ now.version \in Intake!Versions
      OBVIOUS
    <3> HIDE DEF now
    <3>4. IntakeThreadType' /\ thread'[t] = now /\ \A o \in Threads \ {t} : thread'[o] = thread[o]
      BY <1>0, <3>1, <3>2, <3>3, IntakeThreadMoves
    <3>5. Underway(t)'
      BY <3>3, <3>4 DEF Underway, Intake!At
    <3>6. QED
      BY <3>1, <3>4, <3>5, RequestStep
  <2>3. QED
    BY <2>1, <2>2
<1>2. ASSUME Intake!StoreFramework(t) PROVE IntakeInv'
  <2>1. Intake!At(t, "framework") /\ Intake!Version(t) \in Intake!Versions
    BY <1>2, <1>0 DEF Intake!StoreFramework, IntakeThreadType, Intake!At
  <2>2. IntakeThreadType'
    BY <1>2, <1>0, <2>1 DEF Intake!StoreFramework, Intake!Goto, IntakeThreadType, IntakePcs, Intake!At, Intake!Version
  <2>3. IntakeTypeOK'
    BY <1>2, <2>1, <2>2 DEF Intake!StoreFramework, IntakeInv, IntakeTypeOK
  <2>4. RowsStay /\ SnapshotsStay /\ Intake!PublishedCanBeRead'
    BY <1>2 DEF Intake!StoreFramework, IntakeInv, Intake!PublishedCanBeRead, RowsStay, SnapshotsStay
  <2>5. Underway(t)' /\ \A o \in Threads \ {t} : thread'[o] = thread[o]
    BY <1>2, <1>0 DEF Intake!StoreFramework, Intake!Goto, Underway, Intake!At
  <2>6. QED
    BY <2>3, <2>4, <2>5, OthersUnderway DEF IntakeInv
<1>3. ASSUME Intake!StoreImport(t) PROVE IntakeInv'
  <2>1. Intake!At(t, "import") /\ Intake!Version(t) \in Intake!Versions
    BY <1>3, <1>0 DEF Intake!StoreImport, IntakeThreadType, Intake!At
  <2>2. IntakeThreadType'
    BY <1>3, <1>0, <2>1 DEF Intake!StoreImport, Intake!Goto, IntakeThreadType, IntakePcs, Intake!At, Intake!Version
  <2>3. IntakeTypeOK'
    BY <1>3, <2>1, <2>2 DEF Intake!StoreImport, IntakeInv, IntakeTypeOK
  <2>4. RowsStay /\ SnapshotsStay /\ Intake!PublishedCanBeRead'
    BY <1>3, <2>1 DEF Intake!StoreImport, IntakeInv, IntakeTypeOK,
       Intake!PublishedCanBeRead, RowsStay, SnapshotsStay
  <2>5. Underway(t)' /\ \A o \in Threads \ {t} : thread'[o] = thread[o]
    BY <1>3, <1>0 DEF Intake!StoreImport, Intake!Goto, Underway, Intake!At
  <2>6. QED
    BY <2>3, <2>4, <2>5, OthersUnderway DEF IntakeInv
<1>4. ASSUME Intake!StoreArtifact(t) PROVE IntakeInv'
  <2>1. Intake!At(t, "artifacts") /\ Intake!Version(t) \in Intake!Versions
    BY <1>4, <1>0 DEF Intake!StoreArtifact, IntakeThreadType, Intake!At
  <2>2. PICK k \in Intake!Keys(Intake!Version(t)) :
           /\ artifacts' = [artifacts EXCEPT ![Intake!Version(t)] = @ \cup {k}]
           /\ thread' = [thread EXCEPT ![t].todo = @ \ {k}]
    BY <1>4 DEF Intake!StoreArtifact
  <2>3. UNCHANGED <<framework, imports, runtime, snapshots>>
    BY <1>4 DEF Intake!StoreArtifact
  <2>4. IntakeThreadType'
    BY <1>0, <2>1, <2>2 DEF IntakeThreadType, Intake!At, Intake!Version
  <2>5. k \in Intake!AllKeys
    BY <2>1, KeysOfVersion
  <2>6. IntakeTypeOK'
    BY <2>1, <2>2, <2>3, <2>4, <2>5 DEF IntakeInv, IntakeTypeOK
  <2>7. RowsStay /\ SnapshotsStay /\ Intake!PublishedCanBeRead'
    BY <2>3 DEF IntakeInv, Intake!PublishedCanBeRead, RowsStay, SnapshotsStay
  <2>8. Underway(t)' /\ \A o \in Threads \ {t} : thread'[o] = thread[o]
    BY <1>0, <2>1, <2>2 DEF Underway, Intake!At
  <2>9. QED
    BY <2>6, <2>7, <2>8, OthersUnderway DEF IntakeInv
<1>5. ASSUME Intake!EndImport(t) PROVE IntakeInv'
  BY <1>5, StopStep DEF Intake!EndImport
<1>6. QED
  BY <1>1, <1>2, <1>3, <1>4, <1>5

-----------------------------------------------------------------------------
LEMMA PublishSteps ==
    ASSUME Intake!CurriculumIntakeAssumption, IntakeInv, NEW t \in Threads
    PROVE  /\ \A v \in Intake!Versions, force \in BOOLEAN : Intake!Publish(t, v, force) => IntakeInv'
           /\ Intake!ReadArtifacts(t) => IntakeInv'
           /\ Intake!StoreRow(t) => IntakeInv'
           /\ Intake!StoreSnapshot(t) => IntakeInv'
           /\ Intake!PublishFramework(t) => IntakeInv'
           /\ Intake!PublishImport(t) => IntakeInv'
           /\ Intake!Fail(t) => IntakeInv'
<1>0. IntakeThreadType /\ thread[t] \in [pc : IntakePcs, version : Intake!Versions \cup {Intake!None},
                                   todo : SUBSET Intake!AllKeys, read : SUBSET Intake!AllKeys]
  BY DEF IntakeInv, IntakeTypeOK, IntakeThreadType
<1>1. ASSUME NEW v \in Intake!Versions, NEW force \in BOOLEAN, Intake!Publish(t, v, force) PROVE IntakeInv'
  <2>1. UNCHANGED <<framework, imports, artifacts, runtime, snapshots>>
    BY <1>1 DEF Intake!Publish
  <2>2. CASE UNCHANGED thread
    <3>1. IntakeThreadType' /\ Underway(t)'
      BY <2>1, <2>2, <1>0 DEF IntakeInv, IntakeThreadType, Underway, Intake!At, Intake!Version
    <3>2. QED
      BY <2>1, <2>2, <3>1, RequestStep
  <2>3. CASE thread' # thread
    <3> DEFINE now == [Intake!Idle EXCEPT !.pc = "read", !.version = v]
    <3>1. thread' = [thread EXCEPT ![t] = now]
      BY <1>1, <2>3 DEF Intake!Publish
    <3>2. /\ now \in [pc : IntakePcs, version : Intake!Versions \cup {Intake!None},
                      todo : SUBSET Intake!AllKeys, read : SUBSET Intake!AllKeys]
          /\ now.pc = "read" /\ now.version \in Intake!Versions
      BY DEF Intake!Idle, IntakePcs
    <3> HIDE DEF now
    <3>3. IntakeThreadType' /\ thread'[t] = now /\ \A o \in Threads \ {t} : thread'[o] = thread[o]
      BY <1>0, <3>1, <3>2, IntakeThreadMoves
    <3>4. Underway(t)'
      BY <3>2, <3>3 DEF Underway, Intake!At
    <3>5. QED
      BY <2>1, <3>3, <3>4, RequestStep
  <2>4. QED
    BY <2>2, <2>3
<1>2. ASSUME Intake!ReadArtifacts(t) PROVE IntakeInv'
  <2>1. /\ Intake!At(t, "read") /\ Intake!Version(t) \in Intake!Versions
        /\ UNCHANGED <<framework, imports, artifacts, runtime, snapshots>>
    BY <1>2, <1>0 DEF Intake!ReadArtifacts, IntakeThreadType, Intake!At
  <2>2. CASE artifacts[Intake!Version(t)] = {}
    BY <1>2, <2>1, <2>2, StopStep DEF Intake!ReadArtifacts
  <2>3. CASE artifacts[Intake!Version(t)] # {}
    <3> DEFINE found == artifacts[Intake!Version(t)]
               now == [thread[t] EXCEPT !.pc = "rows", !.todo = found, !.read = found]
    <3>1. thread' = [thread EXCEPT ![t].pc = "rows", ![t].todo = found, ![t].read = found]
      BY <1>2, <2>3 DEF Intake!ReadArtifacts
    <3>2. found \in SUBSET Intake!AllKeys
      BY <2>1 DEF IntakeInv, IntakeTypeOK
    <3> HIDE DEF found
    <3>3. thread' = [thread EXCEPT ![t] = now]
      BY <3>1, <1>0 DEF IntakeThreadType
    <3>4. /\ now \in [pc : IntakePcs, version : Intake!Versions \cup {Intake!None},
                      todo : SUBSET Intake!AllKeys, read : SUBSET Intake!AllKeys]
          /\ now.pc = "rows" /\ now.version \in Intake!Versions /\ now.read = found /\ now.todo = found
      BY <1>0, <2>1, <3>2 DEF IntakePcs, Intake!Version
    <3> HIDE DEF now
    <3>5. IntakeThreadType' /\ thread'[t] = now /\ \A o \in Threads \ {t} : thread'[o] = thread[o]
      BY <1>0, <3>3, <3>4, IntakeThreadMoves
    <3>6. Underway(t)'
      BY <2>3, <3>4, <3>5 DEF Underway, Intake!At, found
    <3>7. QED
      BY <2>1, <3>5, <3>6, RequestStep
  <2>4. QED
    BY <2>2, <2>3
<1>3. ASSUME Intake!StoreRow(t) PROVE IntakeInv'
  <2>1. Intake!At(t, "rows") /\ Intake!Version(t) \in Intake!Versions
    BY <1>3, <1>0 DEF Intake!StoreRow, IntakeThreadType, Intake!At
  <2>2. PICK k \in Intake!Keys(Intake!Version(t)) :
           /\ runtime' = [runtime EXCEPT ![k] = Intake!Version(t)]
           /\ thread' = [thread EXCEPT ![t].todo = @ \ {k}]
    BY <1>3 DEF Intake!StoreRow
  <2>3. UNCHANGED <<framework, imports, artifacts, snapshots>>
    BY <1>3 DEF Intake!StoreRow
  <2>4. IntakeThreadType'
    BY <1>0, <2>1, <2>2 DEF IntakeThreadType, Intake!At, Intake!Version
  <2>5. k \in Intake!AllKeys
    BY <2>1, KeysOfVersion
  <2>6. IntakeTypeOK'
    BY <2>1, <2>2, <2>3, <2>4, <2>5 DEF IntakeInv, IntakeTypeOK
  <2>7. Intake!Version(t) # Intake!None
    BY <2>1 DEF Intake!CurriculumIntakeAssumption
  <2>8. RowsStay /\ runtime'[k] # Intake!None /\ SnapshotsStay
    BY <2>2, <2>3, <2>5, <2>7 DEF IntakeInv, IntakeTypeOK, RowsStay, SnapshotsStay
  <2>9. Intake!PublishedCanBeRead'
    BY <2>3, <2>8 DEF IntakeInv, IntakeTypeOK, Intake!PublishedCanBeRead, RowsStay
  <2>10. Underway(t)' /\ \A o \in Threads \ {t} : thread'[o] = thread[o]
    <3>1. thread'[t] = [thread[t] EXCEPT !.todo = @ \ {k}] /\ \A o \in Threads \ {t} : thread'[o] = thread[o]
      BY <2>2, <1>0 DEF IntakeThreadType
    <3>2. /\ thread'[t].pc = "rows" /\ thread'[t].read = thread[t].read
          /\ thread'[t].todo = thread[t].todo \ {k}
      BY <3>1, <1>0, <2>1 DEF Intake!At
    <3>3. Underway(t)
      BY DEF IntakeInv
    <3>4. QED
      BY <3>1, <3>2, <3>3, <1>0, <2>1, <2>8 DEF Underway, Intake!At, RowsStay
  <2>11. QED
    BY <2>6, <2>8, <2>9, <2>10, OthersUnderway DEF IntakeInv
<1>4. ASSUME Intake!StoreSnapshot(t) PROVE IntakeInv'
  <2>1. /\ Intake!At(t, "rows") /\ Intake!Version(t) \in Intake!Versions /\ thread[t].todo = {}
        /\ snapshots' = [snapshots EXCEPT ![Intake!Version(t)] = thread[t].read]
        /\ Intake!Goto(t, "frameworkPublished")
        /\ UNCHANGED <<framework, imports, artifacts, runtime>>
    BY <1>4, <1>0 DEF Intake!StoreSnapshot, IntakeThreadType, Intake!At
  <2>2. thread[t].read # {} /\ \A k \in thread[t].read : runtime[k] # Intake!None
    BY <2>1 DEF IntakeInv, Underway
  <2>3. IntakeThreadType'
    BY <1>0, <2>1 DEF Intake!Goto, IntakeThreadType, IntakePcs, Intake!At, Intake!Version
  <2>4. IntakeTypeOK'
    BY <1>0, <2>1, <2>3 DEF IntakeInv, IntakeTypeOK
  <2>5. RowsStay /\ SnapshotsStay
    BY <2>1, <2>2 DEF IntakeInv, IntakeTypeOK, RowsStay, SnapshotsStay
  <2>6. Intake!PublishedCanBeRead'
    BY <2>1, <2>2 DEF IntakeInv, IntakeTypeOK, Intake!PublishedCanBeRead
  <2>7. Underway(t)' /\ \A o \in Threads \ {t} : thread'[o] = thread[o]
    BY <1>0, <2>1, <2>2 DEF IntakeInv, IntakeTypeOK, Intake!Goto, IntakeThreadType, Underway, Intake!At, Intake!Version
  <2>8. QED
    BY <2>4, <2>5, <2>6, <2>7, OthersUnderway DEF IntakeInv
<1>5. ASSUME Intake!PublishFramework(t) PROVE IntakeInv'
  <2>1. /\ Intake!At(t, "frameworkPublished") /\ Intake!Version(t) \in Intake!Versions
        /\ framework' = [import |-> Intake!Version(t), snapshot |-> Intake!Version(t)]
        /\ Intake!Goto(t, "importPublished")
        /\ UNCHANGED <<imports, artifacts, runtime, snapshots>>
    BY <1>5, <1>0 DEF Intake!PublishFramework, IntakeThreadType, Intake!At
  <2>2. snapshots[Intake!Version(t)] # {}
    BY <2>1 DEF IntakeInv, Underway, Intake!At
  <2>3. IntakeThreadType'
    BY <1>0, <2>1 DEF Intake!Goto, IntakeThreadType, IntakePcs, Intake!At, Intake!Version
  <2>4. IntakeTypeOK' /\ RowsStay /\ SnapshotsStay
    BY <2>1, <2>3 DEF IntakeInv, IntakeTypeOK, RowsStay, SnapshotsStay
  <2>5. Intake!PublishedCanBeRead'
    BY <2>1, <2>2 DEF IntakeInv, Intake!PublishedCanBeRead
  <2>6. Underway(t)' /\ \A o \in Threads \ {t} : thread'[o] = thread[o]
    BY <1>0, <2>1, <2>2 DEF Intake!Goto, IntakeThreadType, Underway, Intake!At, Intake!Version
  <2>7. QED
    BY <2>4, <2>5, <2>6, OthersUnderway DEF IntakeInv
<1>6. ASSUME Intake!PublishImport(t) PROVE IntakeInv'
  <2>1. /\ Intake!At(t, "importPublished") /\ Intake!Version(t) \in Intake!Versions
        /\ imports' = [imports EXCEPT ![Intake!Version(t)] = "published"]
        /\ Intake!Done(t)
        /\ UNCHANGED <<framework, artifacts, runtime, snapshots>>
    BY <1>6, <1>0 DEF Intake!PublishImport, IntakeThreadType, Intake!At
  <2>2. snapshots[Intake!Version(t)] # {}
    BY <2>1 DEF IntakeInv, Underway, Intake!At
  <2>3. IntakeThreadType' /\ thread'[t] = Intake!Idle /\ \A o \in Threads \ {t} : thread'[o] = thread[o]
    BY <1>0, <2>1, IntakeThreadMoves DEF Intake!Idle, IntakePcs, Intake!Done
  <2>4. IntakeTypeOK' /\ RowsStay /\ SnapshotsStay
    BY <2>1, <2>3 DEF IntakeInv, IntakeTypeOK, RowsStay, SnapshotsStay
  <2>5. Intake!PublishedCanBeRead'
    BY <2>1, <2>2 DEF IntakeInv, IntakeTypeOK, Intake!PublishedCanBeRead
  <2>6. Underway(t)'
    BY <2>3 DEF Intake!Idle, Underway, Intake!At
  <2>7. QED
    BY <2>3, <2>4, <2>5, <2>6, OthersUnderway DEF IntakeInv
<1>7. ASSUME Intake!Fail(t) PROVE IntakeInv'
  BY <1>7, StopStep DEF Intake!Fail
<1>8. QED
  BY <1>1, <1>2, <1>3, <1>4, <1>5, <1>6, <1>7

\* What is published can be read, for any frameworks and any number of requests
\* that run at once or die (publish_import's order of commits: rows, snapshot,
\* framework, import).
THEOREM PublishedIsReadable ==
    ASSUME Intake!CurriculumIntakeAssumption
    PROVE  Intake!Spec => []PublishedCanBeRead
<1>1. IntakeInv /\ [Intake!Next]_Intake!vars => IntakeInv'
  <2> SUFFICES ASSUME IntakeInv, [Intake!Next]_Intake!vars PROVE IntakeInv'
    OBVIOUS
  <2>1. ASSUME NEW t \in Threads, Intake!Step(t) PROVE IntakeInv'
    BY <2>1, ImportSteps, PublishSteps DEF Intake!Step
  <2>2. ASSUME NEW t \in Threads, NEW v \in Intake!Versions, Intake!Import(t, v) PROVE IntakeInv'
    BY <2>2, ImportSteps
  <2>3. ASSUME NEW t \in Threads, NEW v \in Intake!Versions, NEW force \in BOOLEAN, Intake!Publish(t, v, force)
        PROVE  IntakeInv'
    BY <2>3, PublishSteps
  <2>4. CASE UNCHANGED Intake!vars
    BY <2>4 DEF Intake!vars,
       IntakeInv, IntakeTypeOK, IntakeThreadType, Underway, Intake!PublishedCanBeRead, Intake!At, Intake!Version
  <2>5. QED
    BY <2>1, <2>2, <2>3, <2>4 DEF Intake!Next
<1>2. IntakeInv => PublishedCanBeRead
  BY DEF IntakeInv, PublishedCanBeRead, None, Intake!PublishedCanBeRead, Intake!None
<1>3. QED
  BY InitIntakeInv, <1>1, <1>2, PTL DEF Intake!Spec
=============================================================================
