---------------------------- MODULE Records_proofs ----------------------------
(***************************************************************************)
(* Proofs about what is remembered of a learner.  The trackers and their   *)
(* log (Verdicts), for any work of the learner and any readings: what is   *)
(* judged is judged once, and what can be judged is.  And the row a family *)
(* shares (Household), for any number of parents at once: what it counts   *)
(* stays consistent, a gated suggestion names a modality that was approved *)
(* or whose request expired, and what a parent dismissed stays away while  *)
(* requests come one at a time.                                            *)
(***************************************************************************)
EXTENDS Verdicts, HouseholdPromises, SequenceTheorems, FiniteSetTheorems, WellFoundedInduction,
        TLAPS

CONSTANTS Summaries, Rollouts, Quiet, Away, ApprovalLife, AutonomyLife, AcceptedLag, DeferredLag,
          SnoozeDays, MaxTime, MaxRequests
VARIABLES notifications, thread, lastEvent, issued, asked
Home == INSTANCE Household

-----------------------------------------------------------------------------
(* Numbers.                                                                 *)

\* A set of numbers has a least one.
LEMMA LeastExists ==
    ASSUME NEW T, T \subseteq Nat, T # {}
    PROVE  \E x \in T : \A y \in T : x <= y
<1>1. PICK R : R = {ss \in Nat \X Nat : ss[1] < ss[2]}
  OBVIOUS
<1>2. IsWellFoundedOn(R, Nat)
  <2>1. IsWellFoundedOn(OpToRel(<, Nat), Nat)
    BY NatLessThanWellFounded, Zenon
  <2>2. OpToRel(<, Nat) = R
    BY <1>1 DEF OpToRel
  <2>3. QED
    BY <2>1, <2>2
<1>3. \E x \in T : \A y \in T : ~ (<<y, x>> \in R)
  BY <1>2, WFMin
<1>4. PICK x \in T : \A y \in T : ~ (<<y, x>> \in R)
  BY <1>3
<1>5. \A y \in T : ~(y < x)
  <2> SUFFICES ASSUME NEW y \in T, y < x PROVE FALSE
    OBVIOUS
  <2>1. <<y, x>> \in R
    BY <1>1
  <2>2. QED
    BY <1>4, <2>1
<1>6. QED
  BY <1>5

\* A set that has 0, and after each number below the last its successor, has them all.
LEMMA Climbing ==
    ASSUME NEW n \in Nat, NEW T, 0 \in T, \A i \in 0..(n - 1) : i \in T => i + 1 \in T
    PROVE  0..n \subseteq T
<1> DEFINE U == {i \in 0..n : i \notin T}
<1> SUFFICES ASSUME U # {} PROVE FALSE
  OBVIOUS
<1>1. PICK m \in U : \A y \in U : m <= y
  <2>1. U \subseteq Nat
    OBVIOUS
  <2> HIDE DEF U
  <2> QED
    BY <2>1, LeastExists
<1>2. m # 0 /\ m \in 1..n
  BY <1>1
<1>3. m - 1 \in 0..(n - 1) /\ m - 1 \notin U
  BY <1>1, <1>2
<1>4. m - 1 \in T
  BY <1>3
<1> QED
  BY <1>1, <1>2, <1>3, <1>4

-----------------------------------------------------------------------------
(* What is kept of a sequence.                                              *)

Longer(q, c, S) == IF c \in S THEN Append(q, c) ELSE q

IsKeeping(q, n, s, S) ==
    q = [i \in 0..n |-> IF i = 0 THEN <<>> ELSE Longer(q[i - 1], s[i], S)]

LEMMA KeepingExists ==
    ASSUME NEW n \in Nat, NEW s, NEW S
    PROVE  \E q : IsKeeping(q, n, s, S)
<1> DEFINE T == {i \in Nat : \E q : IsKeeping(q, i, s, S)}
<1>1. 0 \in T
  <2>1. IsKeeping([i \in 0..0 |-> <<>>], 0, s, S)
    BY DEF IsKeeping
  <2> QED
    BY <2>1
<1>2. ASSUME NEW i \in 0..(n - 1), i \in T PROVE i + 1 \in T
  <2>1. PICK q : IsKeeping(q, i, s, S)
    BY <1>2
  <2> DEFINE r == [j \in 0..(i + 1) |-> IF j <= i THEN q[j] ELSE Longer(q[i], s[i + 1], S)]
  <2>2. \A j \in 0..(i + 1) : r[j] = IF j = 0 THEN <<>> ELSE Longer(r[j - 1], s[j], S)
    <3> SUFFICES ASSUME NEW j \in 0..(i + 1)
                 PROVE  r[j] = IF j = 0 THEN <<>> ELSE Longer(r[j - 1], s[j], S)
      OBVIOUS
    <3>1. CASE j = 0
      BY <2>1, <3>1 DEF IsKeeping
    <3>2. CASE j \in 1..i
      <4>1. r[j] = q[j] /\ r[j - 1] = q[j - 1]
        BY <3>2
      <4>2. q[j] = Longer(q[j - 1], s[j], S)
        BY <2>1, <3>2 DEF IsKeeping
      <4> QED
        BY <3>2, <4>1, <4>2
    <3>3. CASE j = i + 1
      BY <3>3
    <3> QED
      BY <3>1, <3>2, <3>3
  <2>3. IsKeeping(r, i + 1, s, S)
    BY <2>2 DEF IsKeeping
  <2>4. i + 1 \in Nat
    OBVIOUS
  <2> QED
    BY <2>3, <2>4
<1>3. 0..n \subseteq T
  <2> HIDE DEF T
  <2> QED
    BY <1>1, <1>2, Climbing
<1> QED
  BY <1>3

\* What is kept of the first i elements.
KeepsOf(q, s, X, S, i) ==
    /\ q \in Seq(X \cap S)
    /\ \A a \in 1..i : s[a] \in S => \E j \in 1..Len(q) : q[j] = s[a]
    /\ \A j \in 1..Len(q) : \E a \in 1..i : q[j] = s[a]
    /\ (\A a, b \in 1..Len(s) : s[a] = s[b] => a = b) => \A j, k \in 1..Len(q) : q[j] = q[k] => j = k

LEMMA KeepsOneMore ==
    ASSUME NEW X, NEW s \in Seq(X), NEW S, NEW i \in Nat, i < Len(s), NEW q, KeepsOf(q, s, X, S, i)
    PROVE  KeepsOf(Longer(q, s[i + 1], S), s, X, S, i + 1)
<1>1. i + 1 \in 1..Len(s) /\ s[i + 1] \in X /\ Len(s) \in Nat
  OBVIOUS
<1>2. q \in Seq(X \cap S) /\ Len(q) \in Nat
  BY DEF KeepsOf
<1>3. CASE s[i + 1] \notin S
  BY <1>1, <1>2, <1>3 DEF KeepsOf, Longer
<1>4. CASE s[i + 1] \in S
  <2>1. PICK r : r = Append(q, s[i + 1])
    OBVIOUS
  <2>2. /\ r \in Seq(X \cap S) /\ Len(r) = Len(q) + 1
        /\ \A j \in 1..Len(q) : r[j] = q[j]
        /\ r[Len(q) + 1] = s[i + 1]
    BY <1>1, <1>2, <1>4, <2>1
  <2>3. \A a \in 1..(i + 1) : s[a] \in S => \E j \in 1..Len(r) : r[j] = s[a]
    <3> SUFFICES ASSUME NEW a \in 1..(i + 1), s[a] \in S PROVE \E j \in 1..Len(r) : r[j] = s[a]
      OBVIOUS
    <3>1. CASE a = i + 1
      BY <1>2, <2>2, <3>1
    <3>2. CASE a \in 1..i
      <4>1. PICK j \in 1..Len(q) : q[j] = s[a]
        BY <3>2 DEF KeepsOf
      <4>2. j \in 1..Len(r) /\ r[j] = s[a]
        BY <1>2, <2>2, <4>1
      <4> QED
        BY <4>2
    <3> QED
      BY <3>1, <3>2
  <2>4. \A j \in 1..Len(r) : \E a \in 1..(i + 1) : r[j] = s[a]
    <3> SUFFICES ASSUME NEW j \in 1..Len(r) PROVE \E a \in 1..(i + 1) : r[j] = s[a]
      OBVIOUS
    <3>1. CASE j = Len(q) + 1
      BY <1>2, <2>2, <3>1
    <3>2. CASE j \in 1..Len(q)
      <4>1. PICK a \in 1..i : q[j] = s[a]
        BY <3>2 DEF KeepsOf
      <4>2. a \in 1..(i + 1) /\ r[j] = s[a]
        BY <2>2, <3>2, <4>1
      <4> QED
        BY <4>2
    <3> QED
      BY <1>2, <2>2, <3>1, <3>2
  <2>5. ASSUME \A a, b \in 1..Len(s) : s[a] = s[b] => a = b
        PROVE  \A j, k \in 1..Len(r) : r[j] = r[k] => j = k
    <3>1. \A j \in 1..Len(q) : r[j] # s[i + 1]
      <4> SUFFICES ASSUME NEW j \in 1..Len(q), r[j] = s[i + 1] PROVE FALSE
        OBVIOUS
      <4>1. PICK a \in 1..i : q[j] = s[a]
        BY DEF KeepsOf
      <4>2. s[a] = s[i + 1] /\ a \in 1..Len(s)
        BY <1>1, <2>2, <4>1
      <4>3. a = i + 1
        BY <1>1, <2>5, <4>2
      <4> QED
        BY <4>1, <4>3
    <3>2. \A j, k \in 1..Len(q) : r[j] = r[k] => j = k
      BY <2>2, <2>5 DEF KeepsOf
    <3> QED
      BY <1>2, <2>2, <3>1, <3>2
  <2>6. Longer(q, s[i + 1], S) = r
    BY <1>4, <2>1 DEF Longer
  <2>7. KeepsOf(r, s, X, S, i + 1)
    BY <2>2, <2>3, <2>4, <2>5 DEF KeepsOf
  <2> QED
    BY <2>6, <2>7
<1> QED
  BY <1>3, <1>4

LEMMA KeptOf ==
    ASSUME NEW X, NEW s \in Seq(X), NEW S
    PROVE  KeepsOf(Kept(s, S), s, X, S, Len(s))
<1> DEFINE n == Len(s)
           Q == CHOOSE q : IsKeeping(q, n, s, S)
<1>1. n \in Nat
  OBVIOUS
<1>2. IsKeeping(Q, n, s, S)
  BY <1>1, KeepingExists
<1>3. Kept(s, S) = Q[n]
  <2> HIDE DEF n
  <2>1. Kept(s, S) = (CHOOSE q : q = [i \in 0..n |-> IF i = 0 THEN <<>>
          ELSE IF s[i] \in S THEN Append(q[i - 1], s[i]) ELSE q[i - 1]])[n]
    BY DEF Kept, n
  <2>2. Q = CHOOSE q : q = [i \in 0..n |-> IF i = 0 THEN <<>>
          ELSE IF s[i] \in S THEN Append(q[i - 1], s[i]) ELSE q[i - 1]]
    BY DEF IsKeeping, Longer
  <2> QED
    BY <2>1, <2>2
<1> HIDE DEF Q
<1>4. Q[0] = <<>> /\ \A i \in 0..(n - 1) : Q[i + 1] = Longer(Q[i], s[i + 1], S)
  BY <1>1, <1>2 DEF IsKeeping
<1> DEFINE T == {i \in Nat : KeepsOf(Q[i], s, X, S, i)}
<1>5. 0 \in T
  <2>1. <<>> \in Seq(X \cap S) /\ Len(<<>>) = 0
    OBVIOUS
  <2>2. KeepsOf(<<>>, s, X, S, 0)
    BY <2>1 DEF KeepsOf
  <2> QED
    BY <1>4, <2>2
<1>6. ASSUME NEW i \in 0..(n - 1), i \in T PROVE i + 1 \in T
  <2>1. i \in Nat /\ i < Len(s) /\ KeepsOf(Q[i], s, X, S, i)
    BY <1>6
  <2>2. KeepsOf(Q[i + 1], s, X, S, i + 1)
    BY <1>4, <2>1, KeepsOneMore
  <2> QED
    BY <2>1, <2>2
<1>7. n \in T
  <2> HIDE DEF T
  <2>1. 0..n \subseteq T
    BY <1>1, <1>5, <1>6, Climbing
  <2> QED
    BY <1>1, <2>1
<1> QED
  BY <1>3, <1>7
-----------------------------------------------------------------------------
(* Sequences that grow at one end and are cut off at the other.             *)

\* The elements may be anything.
IsList(s) == s \in Seq(Range(s))

LEMMA ListOf ==
    ASSUME NEW X, NEW s \in Seq(X)
    PROVE  IsList(s) /\ Range(s) \subseteq X
<1>1. s = [i \in 1..Len(s) |-> s[i]] /\ Len(s) \in Nat /\ DOMAIN s = 1..Len(s)
  OBVIOUS
<1>2. Range(s) \subseteq X
  BY <1>1 DEF Range
<1>3. s \in [1..Len(s) -> Range(s)]
  BY <1>1 DEF Range
<1>4. s \in Seq(Range(s))
  BY <1>1, <1>3
<1> QED
  BY <1>2, <1>4 DEF IsList

LEMMA ListIs ==
    ASSUME NEW s, IsList(s)
    PROVE  Len(s) \in Nat /\ DOMAIN s = 1..Len(s) /\ IsFiniteSet(Range(s))
<1>1. s \in Seq(Range(s))
  BY DEF IsList
<1>2. Len(s) \in Nat /\ DOMAIN s = 1..Len(s)
  BY <1>1
<1>3. IsFiniteSet(1..Len(s))
  BY <1>2, FS_Interval
<1>4. IsFiniteSet(Range(s))
  <2>1. s \in Surjection(1..Len(s), Range(s))
    BY <1>1, <1>2 DEF Range, Surjection
  <2> QED
    BY <1>3, <2>1, FS_Surjection
<1> QED
  BY <1>2, <1>4

\* The first n of a list, and then one more.
Follows(r, s, e) ==
    /\ IsList(r) /\ Len(r) = Len(s) + 1
    /\ \A k \in 1..Len(s) : r[k] = s[k]
    /\ r[Len(s) + 1] = e
    /\ Range(r) = Range(s) \cup {e}

LEMMA AppendFollows ==
    ASSUME NEW s, IsList(s), NEW e
    PROVE  Follows(Append(s, e), s, e)
<1> DEFINE X == Range(s) \cup {e}
           r == Append(s, e)
<1>1. s \in Seq(X) /\ e \in X
  <2>1. s \in Seq(Range(s)) /\ Range(s) \subseteq X
    BY DEF IsList
  <2> QED
    BY <2>1
<1> HIDE DEF X
<1>2. /\ r \in Seq(X) /\ Len(r) = Len(s) + 1 /\ Len(s) \in Nat
      /\ \A k \in 1..Len(s) : r[k] = s[k]
      /\ r[Len(s) + 1] = e /\ DOMAIN s = 1..Len(s) /\ DOMAIN r = 1..(Len(s) + 1)
  BY <1>1
<1> HIDE DEF r
<1>3. IsList(r)
  BY <1>2, ListOf
<1>4. Range(r) = Range(s) \cup {e}
  <2>1. Range(r) \subseteq X
    BY <1>2, ListOf
  <2>2. ASSUME NEW x \in Range(s) PROVE x \in Range(r)
    <3>1. PICK k \in 1..Len(s) : s[k] = x
      BY <1>2 DEF Range
    <3>2. k \in DOMAIN r /\ r[k] = x
      BY <1>2, <3>1
    <3> QED
      BY <3>2 DEF Range
  <2>3. e \in Range(r)
    <3>1. Len(s) + 1 \in DOMAIN r
      BY <1>2
    <3> QED
      BY <1>2, <3>1 DEF Range
  <2> QED
    BY <2>1, <2>2, <2>3 DEF X
<1> QED
  BY <1>2, <1>3, <1>4 DEF Follows, r

LEMMA TailIs ==
    ASSUME NEW s, IsList(s), s # <<>>
    PROVE  /\ IsList(Tail(s)) /\ Len(s) \in Nat \ {0} /\ Len(Tail(s)) = Len(s) - 1
           /\ \A k \in 1..(Len(s) - 1) : Tail(s)[k] = s[k + 1]
           /\ Range(Tail(s)) \subseteq Range(s)
           /\ Head(s) = s[1] /\ Head(s) \in Range(s)
<1>1. s \in Seq(Range(s))
  BY DEF IsList
<1>2. /\ Tail(s) \in Seq(Range(s)) /\ Len(s) \in Nat \ {0} /\ Len(Tail(s)) = Len(s) - 1
      /\ \A k \in 1..(Len(s) - 1) : Tail(s)[k] = s[k + 1]
      /\ Head(s) = s[1] /\ Head(s) \in Range(s)
  BY <1>1
<1>3. IsList(Tail(s)) /\ Range(Tail(s)) \subseteq Range(s)
  BY <1>2, ListOf
<1> QED
  BY <1>2, <1>3

-----------------------------------------------------------------------------
(* What the trackers find.                                                  *)

IsVerdict(v) == v = [kind |-> v.kind, of |-> v.of, verdict |-> v.verdict]

\* A list of verdicts of one kind about what is in a set, one each if their
\* stamps tell the members of the set apart.
Judges(f, kind, S) ==
    /\ IsList(f)
    /\ \A i \in DOMAIN f : IsVerdict(f[i]) /\ f[i].kind = kind
    /\ \A i \in DOMAIN f : \E e \in S : f[i].of = e.stamp
    /\ \A e \in S : \E i \in DOMAIN f : f[i].of = e.stamp

Apart(f) == \A i, j \in DOMAIN f : f[i].of = f[j].of => i = j
Dated(s) == \A i, j \in DOMAIN s : s[i].stamp = s[j].stamp => i = j

\* A list of what a list and a set have in common.
Common(q, s, S) ==
    /\ IsList(q)
    /\ \A i \in DOMAIN q : q[i] \in Range(s) \cap S
    /\ \A e \in Range(s) \cap S : \E i \in DOMAIN q : q[i] = e
    /\ Dated(s) => Dated(q)

LEMMA KeptIsCommon ==
    ASSUME NEW s, IsList(s), NEW S
    PROVE  Common(Kept(s, S), s, S)
<1> DEFINE q == Kept(s, S)
           X == Range(s)
<1>1. s \in Seq(X) /\ Len(s) \in Nat /\ DOMAIN s = 1..Len(s)
  BY DEF IsList
<1>2. KeepsOf(q, s, X, S, Len(s))
  <2> HIDE DEF q, X
  <2> QED
    BY <1>1, KeptOf DEF q
<1> HIDE DEF q
<1>3. q \in Seq(X \cap S) /\ DOMAIN q = 1..Len(q)
  BY <1>2 DEF KeepsOf
<1>4. IsList(q) /\ Range(q) \subseteq X \cap S
  BY <1>3, ListOf
<1>5. \A i \in DOMAIN q : q[i] \in X \cap S
  BY <1>4 DEF Range
<1>6. ASSUME NEW e \in X \cap S PROVE \E i \in DOMAIN q : q[i] = e
  <2>1. PICK a \in 1..Len(s) : s[a] = e
    BY <1>1, <1>6 DEF Range
  <2>2. PICK j \in 1..Len(q) : q[j] = s[a]
    BY <1>2, <1>6, <2>1 DEF KeepsOf
  <2> QED
    BY <1>3, <2>1, <2>2
<1>7. ASSUME Dated(s) PROVE Dated(q)
  <2>1. \A a, b \in 1..Len(s) : s[a] = s[b] => a = b
    BY <1>1, <1>7 DEF Dated
  <2>2. \A j, k \in 1..Len(q) : q[j] = q[k] => j = k
    BY <1>2, <2>1 DEF KeepsOf
  <2> SUFFICES ASSUME NEW i \in DOMAIN q, NEW j \in DOMAIN q, q[i].stamp = q[j].stamp PROVE i = j
    BY DEF Dated
  <2>3. PICK a \in 1..Len(s) : q[i] = s[a]
    BY <1>2, <1>3 DEF KeepsOf
  <2>4. PICK b \in 1..Len(s) : q[j] = s[b]
    BY <1>2, <1>3 DEF KeepsOf
  <2>5. a = b
    BY <1>1, <1>7, <2>3, <2>4 DEF Dated
  <2> QED
    BY <1>3, <2>2, <2>3, <2>4, <2>5
<1> QED
  BY <1>4, <1>5, <1>6, <1>7 DEF Common, q

LEMMA NewestIsCommon ==
    ASSUME NEW s, IsList(s), NEW S
    PROVE  Common(Newest(s, S), s, S)
<1>1. PICK q : q = Kept(s, S)
  OBVIOUS
<1>2. Common(q, s, S)
  BY <1>1, KeptIsCommon
<1>3. IsList(q) /\ Len(q) \in Nat /\ DOMAIN q = 1..Len(q)
  BY <1>2, ListIs DEF Common
<1>4. PICK r : r = [i \in 1..Len(q) |-> q[(Len(q) - i) + 1]]
  OBVIOUS
<1>5. Newest(s, S) = r
  BY <1>1, <1>4 DEF Newest, Reverse
<1>6. DOMAIN r = 1..Len(q) /\ \A i \in 1..Len(q) : (Len(q) - i) + 1 \in DOMAIN q /\ r[i] = q[(Len(q) - i) + 1]
  BY <1>3, <1>4
<1>7. \A i \in DOMAIN r : r[i] \in Range(q)
  BY <1>6 DEF Range
<1>8. IsList(r)
  <2>1. r \in Seq(Range(q))
    BY <1>3, <1>4, <1>6, <1>7
  <2> QED
    BY <2>1, ListOf
<1>9. \A i \in DOMAIN r : r[i] \in Range(s) \cap S
  BY <1>2, <1>6 DEF Common
<1>10. ASSUME NEW e \in Range(s) \cap S PROVE \E i \in DOMAIN r : r[i] = e
  <2>1. PICK i \in DOMAIN q : q[i] = e
    BY <1>2 DEF Common
  <2>2. (Len(q) - i) + 1 \in DOMAIN r /\ r[(Len(q) - i) + 1] = q[i]
    BY <1>3, <1>6, <2>1
  <2> QED
    BY <2>1, <2>2
<1>11. ASSUME Dated(s) PROVE Dated(r)
  <2> SUFFICES ASSUME NEW i \in DOMAIN r, NEW j \in DOMAIN r, r[i].stamp = r[j].stamp PROVE i = j
    BY DEF Dated
  <2>1. Dated(q)
    BY <1>2, <1>11 DEF Common
  <2>2. (Len(q) - i) + 1 = (Len(q) - j) + 1
    BY <1>6, <2>1 DEF Dated
  <2> QED
    BY <1>3, <1>6, <2>2
<1> QED
  BY <1>5, <1>8, <1>9, <1>10, <1>11 DEF Common

LEMMA JudgesCommon ==
    ASSUME NEW s, NEW S, S \subseteq Range(s), NEW q, Common(q, s, S), NEW kind, NEW f,
           f = [i \in DOMAIN q |-> f[i]],
           \A i \in DOMAIN q : IsVerdict(f[i]) /\ f[i].kind = kind /\ f[i].of = q[i].stamp
    PROVE  Judges(f, kind, S) /\ (Dated(s) => Apart(f))
<1>1. IsList(q) /\ Len(q) \in Nat /\ DOMAIN q = 1..Len(q) /\ DOMAIN f = DOMAIN q
  BY ListIs DEF Common
<1>2. IsList(f)
  <2>1. f \in Seq(Range(f))
    <3>1. f \in [1..Len(q) -> Range(f)]
      BY <1>1 DEF Range
    <3> QED
      BY <1>1, <3>1
  <2> QED
    BY <2>1 DEF IsList
<1>3. \A i \in DOMAIN f : \E e \in S : f[i].of = e.stamp
  BY <1>1 DEF Common
<1>4. \A e \in S : \E i \in DOMAIN f : f[i].of = e.stamp
  BY <1>1 DEF Common
<1>5. Dated(s) => Apart(f)
  BY <1>1 DEF Common, Dated, Apart
<1> QED
  BY <1>1, <1>2, <1>3, <1>4, <1>5 DEF Judges

LEMMA VerdictIs ==
    ASSUME NEW kind, NEW of, NEW verdict
    PROVE  /\ IsVerdict(Verdict(kind, of, verdict))
           /\ Verdict(kind, of, verdict).kind = kind /\ Verdict(kind, of, verdict).of = of
BY DEF IsVerdict, Verdict

\* What each tracker is to judge.
DueDecisions == {e \in OfType("decision") :
                    e.day >= today - DecisionDays /\ e.stamp \notin Judged("decision")}
DueSessions == {s \in Range(finished) :
                    s.day >= today - SessionDays /\ s.stamp \notin Judged("session")}
DuePredictions == {p \in OfType("observe") : p.stamp \notin Judged("prediction") /\ Judgeable(p)}
Gated == {e \in OfType("transition") : e.payload.gated}
DueHolds == {e \in Gated : /\ e.payload.state \in {"ready", "active"}
                           /\ today - e.day >= 1 /\ e.stamp \notin Judged("hold")}

LEMMA DecisionsAreJudged ==
    ASSUME IsList(log), NEW mastery
    PROVE  /\ Judges(JudgedDecisions(mastery), "decision", DueDecisions)
           /\ Dated(log) => Apart(JudgedDecisions(mastery))
<1>1. PICK q : q = Newest(log, DueDecisions)
  OBVIOUS
<1>2. PICK f : f = [i \in DOMAIN q |->
            Verdict("decision", q[i].stamp,
                    DecisionVerdict(q[i].payload, mastery, Cardinality(TouchingSince(q[i].stamp))))]
  OBVIOUS
<1>3. JudgedDecisions(mastery) = f
  BY <1>1, <1>2 DEF JudgedDecisions, DueDecisions
<1>4. f = [i \in DOMAIN q |-> f[i]]
  BY <1>2
<1>5. \A i \in DOMAIN q : IsVerdict(f[i]) /\ f[i].kind = "decision" /\ f[i].of = q[i].stamp
  BY <1>2, VerdictIs
<1>6. Common(q, log, DueDecisions)
  BY <1>1, NewestIsCommon
<1>7. DueDecisions \subseteq Range(log)
  BY DEF DueDecisions, OfType
<1> QED
  BY <1>3, <1>4, <1>5, <1>6, <1>7, JudgesCommon

LEMMA SessionsAreJudged ==
    ASSUME IsList(finished), NEW mastery
    PROVE  Judges(JudgedSessions(mastery), "session", DueSessions)
<1>1. PICK q : q = Newest(finished, DueSessions)
  OBVIOUS
<1>2. PICK f : f = [i \in DOMAIN q |->
            Verdict("session", q[i].stamp, SessionVerdict(mastery, TouchingSince(q[i].stamp)))]
  OBVIOUS
<1>3. JudgedSessions(mastery) = f
  BY <1>1, <1>2 DEF JudgedSessions, DueSessions
<1>4. f = [i \in DOMAIN q |-> f[i]]
  BY <1>2
<1>5. \A i \in DOMAIN q : IsVerdict(f[i]) /\ f[i].kind = "session" /\ f[i].of = q[i].stamp
  BY <1>2, VerdictIs
<1>6. Common(q, finished, DueSessions)
  BY <1>1, NewestIsCommon
<1>7. DueSessions \subseteq Range(finished)
  BY DEF DueSessions
<1> QED
  BY <1>3, <1>4, <1>5, <1>6, <1>7, JudgesCommon

LEMMA PredictionsAreFound ==
    ASSUME IsList(log), NEW mastery
    PROVE  /\ Judges(JudgedPredictions(mastery), "prediction", DuePredictions)
           /\ Dated(log) => Apart(JudgedPredictions(mastery))
<1>1. PICK q : q = Kept(log, DuePredictions)
  OBVIOUS
<1>2. PICK f : f = JudgedPredictions(mastery)
  OBVIOUS
<1>3. DOMAIN f = DOMAIN q /\ f = [i \in DOMAIN q |-> f[i]]
  BY <1>1, <1>2 DEF JudgedPredictions, DuePredictions
<1>4. \A i \in DOMAIN q : \E v : f[i] = Verdict("prediction", q[i].stamp, v)
  BY <1>1, <1>2 DEF JudgedPredictions, DuePredictions
<1>5. \A i \in DOMAIN q : IsVerdict(f[i]) /\ f[i].kind = "prediction" /\ f[i].of = q[i].stamp
  BY <1>4, VerdictIs
<1>6. Common(q, log, DuePredictions)
  BY <1>1, KeptIsCommon
<1>7. DuePredictions \subseteq Range(log)
  BY DEF DuePredictions, OfType
<1> QED
  BY <1>2, <1>3, <1>5, <1>6, <1>7, JudgesCommon

LEMMA HoldsAreJudged ==
    ASSUME IsList(log), NEW reading
    PROVE  Judges(JudgedHolds(reading), "hold", DueHolds)
<1>1. PICK q : q = Newest(log, DueHolds)
  OBVIOUS
<1>2. PICK f : f = JudgedHolds(reading)
  OBVIOUS
<1>3. DOMAIN f = DOMAIN q /\ f = [i \in DOMAIN q |-> f[i]]
  BY <1>1, <1>2 DEF JudgedHolds, DueHolds, Gated
<1>4. \A i \in DOMAIN q : \E v : f[i] = Verdict("hold", q[i].stamp, v)
  BY <1>1, <1>2 DEF JudgedHolds, DueHolds, Gated
<1>5. \A i \in DOMAIN q : IsVerdict(f[i]) /\ f[i].kind = "hold" /\ f[i].of = q[i].stamp
  BY <1>4, VerdictIs
<1>6. Common(q, log, DueHolds)
  BY <1>1, NewestIsCommon
<1>7. DueHolds \subseteq Range(log)
  BY DEF DueHolds, Gated, OfType
<1> QED
  BY <1>2, <1>3, <1>5, <1>6, <1>7, JudgesCommon

-----------------------------------------------------------------------------
(* What is appended.                                                        *)

Entry(e, type, payload) ==
    /\ e.type = type /\ e.stamp = stamp + 1
    /\ type # "verdict" => e.payload = payload
    /\ type = "verdict" /\ payload.kind # "hold" => e.payload = payload
    /\ type = "verdict" /\ payload.kind = "hold" /\ IsVerdict(payload) => e.payload.kind = "hold"

LEMMA AppendIs ==
    ASSUME IsList(log), IsList(given), NEW type, NEW payload, AppendEvent(type, payload)
    PROVE  /\ \E e : Entry(e, type, payload) /\ Follows(log', log, e)
           /\ type = "verdict" => Follows(given', given, payload)
           /\ type # "verdict" => given' = given
           /\ stamp' = stamp + 1
<1>1. PICK written : written = IF type = "verdict" /\ payload.kind = "hold"
                               THEN [payload EXCEPT !.of = NoReference] ELSE payload
  OBVIOUS
<1>2. PICK e : e = [type |-> type, payload |-> written, stamp |-> stamp + 1, day |-> today]
  OBVIOUS
<1>3. log' = Append(log, e) /\ stamp' = stamp + 1
      /\ given' = IF type = "verdict" THEN Append(given, payload) ELSE given
  BY <1>1, <1>2 DEF AppendEvent
<1>4. Entry(e, type, payload)
  <2>1. e.type = type /\ e.stamp = stamp + 1 /\ e.payload = written
    BY <1>2
  <2>2. ASSUME type = "verdict", payload.kind = "hold", IsVerdict(payload) PROVE written.kind = "hold"
    <3>1. PICK k : k = payload.kind
      OBVIOUS
    <3>2. PICK of : of = payload.of
      OBVIOUS
    <3>3. PICK x : x = payload.verdict
      OBVIOUS
    <3>4. payload = [kind |-> k, of |-> of, verdict |-> x]
      BY <2>2, <3>1, <3>2, <3>3 DEF IsVerdict
    <3>5. written = [[kind |-> k, of |-> of, verdict |-> x] EXCEPT !.of = NoReference]
      BY <1>1, <2>2, <3>4
    <3>6. written.kind = k
      BY <3>5
    <3> QED
      BY <2>2, <3>1, <3>6
  <2> QED
    BY <1>1, <2>1, <2>2 DEF Entry
<1>5. Follows(log', log, e)
  BY <1>3, AppendFollows
<1>6. type = "verdict" => Follows(given', given, payload)
  BY <1>3, AppendFollows
<1> QED
  BY <1>3, <1>4, <1>5, <1>6

LEMMA RequestBecomes ==
    ASSUME NEW t \in Threads, NEW h, DOMAIN request = Threads, request' = [request EXCEPT ![t] = h]
    PROVE  DOMAIN request' = Threads /\ request'[t] = h
           /\ \A u \in Threads \ {t} : request'[u] = request[u]
OBVIOUS

-----------------------------------------------------------------------------
(* Whatever requests do at once, what can be judged is told, or about to be *)
(* told, or about to be looked at.                                          *)

Nexts == {"sessions", "observe", "gates", "idle"}

Sound(h) ==
    /\ "pc" \in DOMAIN h
    /\ h.pc = "record" =>
        /\ h = [pc |-> "record", input |-> h.input, type |-> h.type, found |-> h.found, next |-> h.next]
        /\ h.type \in {"verdict", "transition"} /\ h.next \in Nexts
        /\ h.type = "verdict" =>
            IsList(h.found) /\ h.found # <<>> /\ \A v \in Range(h.found) : IsVerdict(v)

Books ==
    /\ IsList(log) /\ IsList(given) /\ IsList(finished) /\ DOMAIN request = Threads
    /\ \A t \in Threads : Sound(request[t])

Told(of) == \E i \in DOMAIN given : given[i].kind = "prediction" /\ given[i].of = of
Carries(h, of) ==
    /\ h.pc = "record" /\ h.type = "verdict"
    /\ \E i \in DOMAIN h.found : h.found[i].kind = "prediction" /\ h.found[i].of = of

LogIsTold == \A e \in OfType("verdict") : e.payload.kind = "prediction" => Told(e.payload.of)

UnderControl(of) ==
    \/ Told(of)
    \/ \E t \in Threads : Carries(request[t], of) \/ At(t, "predictions")

Covered == settled => \A p \in OfType("observe") : Judgeable(p) => UnderControl(p.stamp)

CoverInv == Books /\ LogIsTold /\ Covered

LEMMA ToldStays ==
    ASSUME IsList(given), NEW of, Told(of),
           given' = given \/ (\E v : Follows(given', given, v))
    PROVE  Told(of)'
<1>1. PICK i \in DOMAIN given : given[i].kind = "prediction" /\ given[i].of = of
  BY DEF Told
<1>2. CASE given' = given
  BY <1>1, <1>2 DEF Told
<1>3. ASSUME NEW v, Follows(given', given, v) PROVE Told(of)'
  <2>1. Len(given) \in Nat /\ DOMAIN given = 1..Len(given)
    BY ListIs
  <2>2. IsList(given') /\ Len(given') = Len(given) + 1 /\ given'[i] = given[i]
    BY <1>1, <1>3, <2>1 DEF Follows
  <2>3. DOMAIN given' = 1..Len(given')
    BY <2>2, ListIs
  <2>4. i \in DOMAIN given'
    BY <1>1, <2>1, <2>2, <2>3
  <2> QED
    BY <1>1, <2>2, <2>4 DEF Told
<1> QED
  BY <1>2, <1>3

LEMMA ToldNow ==
    ASSUME NEW v, IsList(given), Follows(given', given, v), v.kind = "prediction"
    PROVE  Told(v.of)'
<1>1. Len(given) \in Nat
  BY ListIs
<1>2. IsList(given') /\ Len(given') = Len(given) + 1 /\ given'[Len(given) + 1] = v
  BY DEF Follows
<1>3. DOMAIN given' = 1..Len(given')
  BY <1>2, ListIs
<1>4. Len(given) + 1 \in DOMAIN given'
  BY <1>1, <1>2, <1>3
<1> QED
  BY <1>2, <1>4 DEF Told

\* A step that leaves log and verdicts alone and takes neither a prediction's
\* verdict nor an evaluation from the request that makes it.
LEMMA QuietStep ==
    ASSUME CoverInv, NEW t \in Threads, NEW h, request' = [request EXCEPT ![t] = h], Sound(h),
           UNCHANGED <<log, given, finished>>, settled' => settled, ~At(t, "predictions"), ~At(t, "record")
    PROVE  CoverInv'
<1>1. DOMAIN request' = Threads /\ request'[t] = h /\ \A u \in Threads \ {t} : request'[u] = request[u]
  BY RequestBecomes DEF CoverInv, Books
<1>2. Books'
  BY <1>1 DEF CoverInv, Books, IsList
<1>3. LogIsTold'
  BY DEF CoverInv, LogIsTold, OfType, Told
<1>4. Covered'
  <2> SUFFICES ASSUME settled', NEW p \in OfType("observe")', Judgeable(p)' PROVE UnderControl(p.stamp)'
    BY DEF Covered
  <2>1. UnderControl(p.stamp)
    BY DEF CoverInv, Covered, OfType, Judgeable, Since
  <2>2. CASE Told(p.stamp)
    BY <2>2 DEF Told, UnderControl
  <2>3. ASSUME NEW u \in Threads, Carries(request[u], p.stamp) \/ At(u, "predictions")
        PROVE  UnderControl(p.stamp)'
    <3>1. u # t
      BY <2>3 DEF Carries, At
    <3>2. request'[u] = request[u]
      BY <1>1, <3>1
    <3> QED
      BY <2>3, <3>2 DEF UnderControl, Carries, At
  <2> QED
    BY <2>1, <2>2, <2>3 DEF UnderControl
<1> QED
  BY <1>2, <1>3, <1>4 DEF CoverInv

\* What can be judged and is not in the log of verdicts is due.
LEMMA JudgedOrTold ==
    ASSUME CoverInv, NEW p \in OfType("observe"), Judgeable(p)
    PROVE  Told(p.stamp) \/ p \in DuePredictions
<1>1. CASE p.stamp \in Judged("prediction")
  <2>1. PICK e \in OfType("verdict") : e.payload.kind = "prediction" /\ p.stamp = e.payload.of
    BY <1>1 DEF Judged
  <2> QED
    BY <2>1 DEF CoverInv, LogIsTold
<1> QED
  BY <1>1 DEF DuePredictions

\* What a request is about to do with what was found.
Waiting(h, type, input, found, next) ==
    h = IF found # <<>>
        THEN [pc |-> "record", input |-> input, type |-> type, found |-> found, next |-> next]
        ELSE IF next = "idle" THEN Idle ELSE [pc |-> next, input |-> input]

LEMMA FoundWaits ==
    ASSUME NEW type \in {"verdict", "transition"}, NEW input, NEW found, NEW next \in Nexts, NEW kind, NEW S,
           type = "verdict" => Judges(found, kind, S), NEW h, Waiting(h, type, input, found, next)
    PROVE  Sound(h)
<1> USE DEF Waiting
<1>1. CASE found # <<>>
  <2>1. h.pc = "record" /\ h.input = input /\ h.type = type /\ h.found = found /\ h.next = next
    BY <1>1
  <2>3. h = [pc |-> "record", input |-> h.input, type |-> h.type, found |-> h.found, next |-> h.next]
        /\ "pc" \in DOMAIN h
    BY <1>1, <2>1
  <2>2. type = "verdict" => IsList(found) /\ \A v \in Range(found) : IsVerdict(v)
    BY DEF Judges, Range
  <2> QED
    BY <1>1, <2>1, <2>2, <2>3 DEF Sound
<1>2. CASE found = <<>>
  <2>1. h.pc = next /\ "pc" \in DOMAIN h
    BY <1>2 DEF Idle
  <2>2. h.pc # "record"
    BY <2>1 DEF Nexts
  <2> QED
    BY <2>1, <2>2 DEF Sound
<1> QED
  BY <1>1, <1>2

JudgeTo(h, t, type, found, next) ==
    h = IF found # <<>>
        THEN [pc |-> "record", input |-> request[t].input, type |-> type, found |-> found, next |-> next]
        ELSE IF next = "idle" THEN Idle ELSE [pc |-> next, input |-> request[t].input]

LEMMA JudgeIs ==
    ASSUME NEW t \in Threads, DOMAIN request = Threads, NEW place, NEW type, NEW found, NEW next,
           Judge(t, place, type, found, next)
    PROVE  \E h : JudgeTo(h, t, type, found, next) /\ request' = [request EXCEPT ![t] = h]
<1>1. PICK h : h = IF found # <<>>
        THEN [pc |-> "record", input |-> request[t].input, type |-> type, found |-> found, next |-> next]
        ELSE IF next = "idle" THEN Idle ELSE [pc |-> next, input |-> request[t].input]
  OBVIOUS
<1>2. request' = [request EXCEPT ![t] = h]
  BY <1>1 DEF Judge
<1> QED
  BY <1>1, <1>2 DEF JudgeTo

LEMMA OtherJudgeStep ==
    ASSUME CoverInv, NEW t \in Threads, NEW place \in {"decisions", "sessions", "transitions", "gates"},
           NEW type \in {"verdict", "transition"}, NEW found, NEW next \in Nexts,
           Judge(t, place, type, found, next), NEW kind, NEW S,
           type = "verdict" => Judges(found, kind, S)
    PROVE  CoverInv'
<1>1. PICK h : JudgeTo(h, t, type, found, next) /\ request' = [request EXCEPT ![t] = h]
  BY JudgeIs DEF CoverInv, Books
<1>2. PICK input : input = request[t].input
  OBVIOUS
<1>3. h = IF found # <<>>
          THEN [pc |-> "record", input |-> input, type |-> type, found |-> found, next |-> next]
          ELSE IF next = "idle" THEN Idle ELSE [pc |-> next, input |-> input]
  BY <1>1, <1>2 DEF JudgeTo
<1>4. Sound(h)
  <2>1. Waiting(h, type, input, found, next)
    BY <1>3 DEF Waiting
  <2> QED
    BY <2>1, FoundWaits
<1>5. UNCHANGED <<log, given, finished>> /\ (settled' => settled) /\ ~At(t, "predictions") /\ ~At(t, "record")
  BY DEF Judge, At
<1> QED
  BY <1>1, <1>4, <1>5, QuietStep

LEMMA PredictionStep ==
    ASSUME CoverInv, NEW t \in Threads, EvaluatePredictions(t)
    PROVE  CoverInv'
<1>1. PICK found : found = JudgedPredictions(request[t].input.mastery)
  OBVIOUS
<1>2. Judge(t, "predictions", "verdict", found, "idle")
  BY <1>1 DEF EvaluatePredictions
<1>3. Judges(found, "prediction", DuePredictions)
  BY <1>1, PredictionsAreFound DEF CoverInv, Books
<1>4. PICK h : JudgeTo(h, t, "verdict", found, "idle") /\ request' = [request EXCEPT ![t] = h]
  BY <1>2, JudgeIs DEF CoverInv, Books
<1>5. DOMAIN request' = Threads /\ request'[t] = h /\ \A u \in Threads \ {t} : request'[u] = request[u]
  BY <1>4, RequestBecomes DEF CoverInv, Books
<1>6. UNCHANGED <<log, given, finished>>
  BY <1>2 DEF Judge
<1>7. Sound(h)
  <2>1. PICK input : input = request[t].input
    OBVIOUS
  <2>2. h = IF found # <<>>
            THEN [pc |-> "record", input |-> input, type |-> "verdict", found |-> found, next |-> "idle"]
            ELSE IF "idle" = "idle" THEN Idle ELSE [pc |-> "idle", input |-> input]
    BY <1>4, <2>1 DEF JudgeTo
  <2>3. "idle" \in Nexts
    BY DEF Nexts
  <2>4. Waiting(h, "verdict", input, found, "idle")
    BY <2>2 DEF Waiting
  <2> QED
    BY <1>3, <2>3, <2>4, FoundWaits
<1>8. Books'
  BY <1>5, <1>6, <1>7 DEF CoverInv, Books, IsList
<1>9. LogIsTold'
  BY <1>6 DEF CoverInv, LogIsTold, OfType, Told
<1>10. Covered'
  <2> SUFFICES ASSUME NEW p \in OfType("observe")', Judgeable(p)' PROVE UnderControl(p.stamp)'
    BY DEF Covered
  <2>1. p \in OfType("observe") /\ Judgeable(p)
    BY <1>6 DEF OfType, Judgeable, Since
  <2>2. CASE Told(p.stamp)
    BY <1>6, <2>2 DEF UnderControl, Told
  <2>3. CASE p \in DuePredictions
    <3>1. PICK i \in DOMAIN found : found[i].of = p.stamp
      BY <1>3, <2>3 DEF Judges
    <3>2. found[i].kind = "prediction"
      BY <1>3 DEF Judges
    <3>3. found # <<>>
      BY <3>1
    <3>4. h.pc = "record" /\ h.type = "verdict" /\ h.found = found
      BY <1>4, <3>3 DEF JudgeTo
    <3>5. Carries(request'[t], p.stamp)
      BY <1>5, <3>1, <3>2, <3>4 DEF Carries
    <3> QED
      BY <3>5 DEF UnderControl
  <2> QED
    BY <2>1, <2>2, <2>3, JudgedOrTold
<1> QED
  BY <1>8, <1>9, <1>10 DEF CoverInv

LEMMA ObservationsStay ==
    ASSUME NEW e, Follows(log', log, e), e.type # "observe"
    PROVE  /\ OfType("observe")' = OfType("observe")
           /\ \A p : Judgeable(p)' <=> Judgeable(p)
<1>1. OfType("observe")' = OfType("observe")
  BY DEF Follows, OfType
<1>2. \A when : Since(when)' = Since(when)
  BY <1>1 DEF Since
<1> QED
  BY <1>1, <1>2 DEF Judgeable

LEMMA LogStaysTold ==
    ASSUME IsList(log), IsList(given), LogIsTold, NEW type, NEW payload, AppendEvent(type, payload),
           type = "verdict" => IsVerdict(payload)
    PROVE  LogIsTold'
<1>1. PICK e : Entry(e, type, payload) /\ Follows(log', log, e)
  BY AppendIs
<1>2. given' = given \/ (\E v : Follows(given', given, v))
  BY AppendIs
<1> SUFFICES ASSUME NEW x \in OfType("verdict")', x.payload.kind = "prediction"
             PROVE  Told(x.payload.of)'
  BY DEF LogIsTold
<1>3. x \in OfType("verdict") \/ (x = e /\ type = "verdict")
  BY <1>1 DEF OfType, Follows, Entry
<1>4. CASE x \in OfType("verdict")
  <2>1. Told(x.payload.of)
    BY <1>4 DEF LogIsTold
  <2> QED
    BY <1>2, <2>1, ToldStays
<1>5. CASE x = e /\ type = "verdict"
  <2>1. payload.kind # "hold" /\ x.payload = payload
    BY <1>1, <1>5 DEF Entry
  <2>2. Follows(given', given, payload)
    BY <1>5, AppendIs
  <2> QED
    BY <2>1, <2>2, ToldNow
<1> QED
  BY <1>3, <1>4, <1>5

LEMMA ListsStay ==
    ASSUME IsList(log), IsList(given), NEW type, NEW payload, AppendEvent(type, payload)
    PROVE  IsList(log)' /\ IsList(given)'
<1>1. IsList(log')
  BY AppendIs DEF Follows
<1>2. IsList(given')
  BY AppendIs DEF Follows
<1> QED
  BY <1>1, <1>2 DEF IsList

LEMMA GenerateStep ==
    ASSUME CoverInv, NEW t \in Threads, Generate(t)
    PROVE  CoverInv'
<1>1. PICK d \in Decisions : AppendEvent("decision", d)
  BY DEF Generate
<1>2. UNCHANGED <<request, settled, finished>>
  BY DEF Generate
<1>3. IsList(log) /\ IsList(given) /\ LogIsTold
  BY DEF CoverInv, Books
<1>4. LogIsTold'
  BY <1>1, <1>3, LogStaysTold
<1>5. Books'
  BY <1>1, <1>2, <1>3, ListsStay DEF CoverInv, Books, IsList
<1>6. PICK e : Entry(e, "decision", d) /\ Follows(log', log, e)
  BY <1>1, <1>3, AppendIs
<1>7. given' = given
  BY <1>1, <1>3, AppendIs
<1>8. Covered'
  <2>1. e.type # "observe"
    BY <1>6 DEF Entry
  <2>2. OfType("observe")' = OfType("observe") /\ \A p : Judgeable(p)' <=> Judgeable(p)
    BY <1>6, <2>1, ObservationsStay
  <2> SUFFICES ASSUME settled', NEW p \in OfType("observe")', Judgeable(p)' PROVE UnderControl(p.stamp)'
    BY DEF Covered
  <2>3. UnderControl(p.stamp)
    BY <1>2, <2>2 DEF CoverInv, Covered
  <2> QED
    BY <1>2, <1>7, <2>3 DEF UnderControl, Told, At
<1> QED
  BY <1>4, <1>5, <1>8 DEF CoverInv

LEMMA ObservationStep ==
    ASSUME CoverInv, NEW t \in Threads, RecordObservation(t)
    PROVE  CoverInv'
<1>1. PICK o : o = request[t].input
  OBVIOUS
<1>2. AppendEvent("observe", o)
  BY <1>1 DEF RecordObservation
<1>3. IsList(log) /\ IsList(given) /\ LogIsTold
  BY DEF CoverInv, Books
<1>4. LogIsTold'
  BY <1>2, <1>3, LogStaysTold
<1>5. PICK h : h = [request[t] EXCEPT !.pc = "predictions"]
  OBVIOUS
<1>6. request' = [request EXCEPT ![t] = h] /\ finished' = finished
  BY <1>5 DEF RecordObservation
<1>7. DOMAIN request' = Threads /\ request'[t] = h /\ \A u \in Threads \ {t} : request'[u] = request[u]
  BY <1>6, RequestBecomes DEF CoverInv, Books
<1>8. h.pc = "predictions" /\ "pc" \in DOMAIN h
  BY <1>5 DEF CoverInv, Books, Sound
<1>9. Books'
  <2>1. Sound(h)
    BY <1>8 DEF Sound
  <2> QED
    BY <1>2, <1>3, <1>6, <1>7, <2>1, ListsStay DEF CoverInv, Books, IsList
<1>10. Covered'
  <2>1. At(t, "predictions")'
    BY <1>7, <1>8 DEF At
  <2> QED
    BY <2>1 DEF Covered, UnderControl
<1> QED
  BY <1>4, <1>9, <1>10 DEF CoverInv

\* What is left of a request's verdicts, and what it goes on with.
RecordTo(h, t) ==
    h = IF Tail(request[t].found) # <<>> THEN [request[t] EXCEPT !.found = Tail(request[t].found)]
        ELSE IF request[t].next = "idle" THEN Idle ELSE [pc |-> request[t].next, input |-> request[t].input]

LEMMA OthersKept ==
    ASSUME NEW input, NEW type, NEW found, NEW next, NEW left, NEW r,
           r = [pc |-> "record", input |-> input, type |-> type, found |-> found, next |-> next]
    PROVE  [r EXCEPT !.found = left]
            = [pc |-> "record", input |-> input, type |-> type, found |-> left, next |-> next]
OBVIOUS

LEMMA RecordIs ==
    ASSUME NEW t \in Threads, DOMAIN request = Threads, Sound(request[t]), Record(t)
    PROVE  /\ \E h : RecordTo(h, t) /\ Sound(h) /\ request' = [request EXCEPT ![t] = h]
           /\ request[t].type = "verdict" => IsVerdict(Head(request[t].found))
<1>1. At(t, "record") /\ request[t].pc = "record"
  BY DEF Record, At
<1>2. PICK r : r = request[t]
  OBVIOUS
<1>3. /\ r = [pc |-> "record", input |-> r.input, type |-> r.type, found |-> r.found, next |-> r.next]
      /\ r.type \in {"verdict", "transition"} /\ r.next \in Nexts
      /\ r.type = "verdict" => IsList(r.found) /\ r.found # <<>> /\ \A v \in Range(r.found) : IsVerdict(v)
  BY <1>1, <1>2 DEF Sound
<1>4. PICK h : RecordTo(h, t)
  BY DEF RecordTo
<1>5. request' = [request EXCEPT ![t] = h]
  BY <1>4 DEF Record, RecordTo
<1>6. r.type = "verdict" => /\ IsVerdict(Head(r.found)) /\ IsList(Tail(r.found))
                            /\ \A v \in Range(Tail(r.found)) : IsVerdict(v)
  BY <1>3, TailIs
<1>7. Sound(h)
  <2>1. CASE Tail(r.found) # <<>>
    <3>1. h = [r EXCEPT !.found = Tail(r.found)]
      BY <1>2, <1>4, <2>1 DEF RecordTo
    <3>2. h = [pc |-> "record", input |-> r.input, type |-> r.type, found |-> Tail(r.found), next |-> r.next]
      <4>1. PICK input : input = r.input
        OBVIOUS
      <4>2. PICK type : type = r.type
        OBVIOUS
      <4>3. PICK found : found = r.found
        OBVIOUS
      <4>4. PICK next : next = r.next
        OBVIOUS
      <4>5. r = [pc |-> "record", input |-> input, type |-> type, found |-> found, next |-> next]
        BY <1>3, <4>1, <4>2, <4>3, <4>4
      <4>6. h = [pc |-> "record", input |-> input, type |-> type, found |-> Tail(found), next |-> next]
        <5>1. PICK left : left = Tail(found)
          OBVIOUS
        <5>2. h = [r EXCEPT !.found = left]
          BY <3>1, <4>3, <5>1
        <5>3. [r EXCEPT !.found = left]
                = [pc |-> "record", input |-> input, type |-> type, found |-> left, next |-> next]
          BY <4>5, OthersKept
        <5> QED
          BY <5>1, <5>2, <5>3
      <4> QED
        BY <4>1, <4>2, <4>3, <4>4, <4>6
    <3>3. "pc" \in DOMAIN h /\ h.pc = "record" /\ h.input = r.input /\ h.type = r.type
          /\ h.found = Tail(r.found) /\ h.next = r.next
      BY <3>2
    <3> QED
      BY <1>3, <1>6, <2>1, <3>2, <3>3 DEF Sound
  <2>2. CASE Tail(r.found) = <<>>
    <3>1. h = IF r.next = "idle" THEN Idle ELSE [pc |-> r.next, input |-> r.input]
      BY <1>2, <1>4, <2>2 DEF RecordTo
    <3>2. h.pc = r.next /\ "pc" \in DOMAIN h
      BY <3>1 DEF Idle
    <3>3. h.pc # "record"
      BY <1>3, <3>2 DEF Nexts
    <3> QED
      BY <3>2, <3>3 DEF Sound
  <2> QED
    BY <2>1, <2>2
<1> QED
  BY <1>2, <1>4, <1>5, <1>6, <1>7

\* A verdict that was carried is told or still carried.
LEMMA CarriedOn ==
    ASSUME NEW t \in Threads, Sound(request[t]), IsList(given), request[t].pc = "record",
           NEW h, RecordTo(h, t), NEW of, Carries(request[t], of),
           request[t].type = "verdict" => Follows(given', given, Head(request[t].found))
    PROVE  Told(of)' \/ Carries(h, of)
<1>1. PICK r : r = request[t]
  OBVIOUS
<1>2. /\ r = [pc |-> "record", input |-> r.input, type |-> "verdict", found |-> r.found, next |-> r.next]
      /\ r.type = "verdict" /\ IsList(r.found) /\ r.found # <<>>
  BY <1>1 DEF Sound, Carries
<1>3. PICK i \in DOMAIN r.found : r.found[i].kind = "prediction" /\ r.found[i].of = of
  BY <1>1 DEF Carries
<1>4. PICK left : left = Tail(r.found)
  OBVIOUS
<1>5. /\ IsList(left) /\ Len(r.found) \in Nat \ {0} /\ Len(left) = Len(r.found) - 1
      /\ \A k \in 1..(Len(r.found) - 1) : left[k] = r.found[k + 1]
      /\ Head(r.found) = r.found[1]
  BY <1>2, <1>4, TailIs
<1>6. i \in 1..Len(r.found) /\ DOMAIN left = 1..Len(left)
  BY <1>2, <1>3, <1>5, ListIs
<1>7. CASE i = 1
  <2>1. Follows(given', given, Head(r.found)) /\ Head(r.found).kind = "prediction" /\ Head(r.found).of = of
    BY <1>1, <1>2, <1>3, <1>5, <1>7
  <2> QED
    BY <2>1, ToldNow
<1>8. CASE i # 1
  <2>1. i - 1 \in DOMAIN left /\ left[i - 1] = r.found[i]
    BY <1>5, <1>6, <1>8
  <2>2. left # <<>>
    BY <2>1
  <2>3. h = [r EXCEPT !.found = left]
    BY <1>1, <1>4, <2>2 DEF RecordTo
  <2>4. h = [pc |-> "record", input |-> r.input, type |-> "verdict", found |-> left, next |-> r.next]
    BY <1>2, <2>3
  <2>5. h.pc = "record" /\ h.type = "verdict" /\ h.found = left
    BY <2>4
  <2> QED
    BY <1>3, <2>1, <2>5 DEF Carries
<1> QED
  BY <1>7, <1>8

LEMMA RecordStep ==
    ASSUME CoverInv, NEW t \in Threads, Record(t)
    PROVE  CoverInv'
<1>1. PICK type : type = request[t].type
  OBVIOUS
<1>2. PICK payload : payload = Head(request[t].found)
  OBVIOUS
<1>3. AppendEvent(type, payload) /\ request[t].pc = "record" /\ settled' = settled /\ finished' = finished
  BY <1>1, <1>2 DEF Record, At
<1>4. IsList(log) /\ IsList(given) /\ LogIsTold /\ DOMAIN request = Threads /\ Sound(request[t])
  BY DEF CoverInv, Books
<1>5. PICK h : RecordTo(h, t) /\ Sound(h) /\ request' = [request EXCEPT ![t] = h]
  BY <1>4, RecordIs
<1>6. type = "verdict" => IsVerdict(payload)
  BY <1>1, <1>2, <1>4, RecordIs
<1>7. type \in {"verdict", "transition"}
  BY <1>1, <1>3, <1>4 DEF Sound
<1>8. LogIsTold'
  BY <1>3, <1>4, <1>6, LogStaysTold
<1>9. DOMAIN request' = Threads /\ request'[t] = h /\ \A u \in Threads \ {t} : request'[u] = request[u]
  BY <1>4, <1>5, RequestBecomes
<1>10. Books'
  BY <1>3, <1>4, <1>5, <1>9, ListsStay DEF CoverInv, Books, IsList
<1>11. Covered'
  <2>1. PICK e : Entry(e, type, payload) /\ Follows(log', log, e)
    BY <1>3, <1>4, AppendIs
  <2>2. e.type # "observe"
    BY <1>7, <2>1 DEF Entry
  <2>3. OfType("observe")' = OfType("observe") /\ \A p : Judgeable(p)' <=> Judgeable(p)
    BY <2>1, <2>2, ObservationsStay
  <2>4. given' = given \/ (\E v : Follows(given', given, v))
    BY <1>3, <1>4, AppendIs
  <2>5. type = "verdict" => Follows(given', given, payload)
    BY <1>3, <1>4, AppendIs
  <2> SUFFICES ASSUME settled', NEW p \in OfType("observe")', Judgeable(p)' PROVE UnderControl(p.stamp)'
    BY DEF Covered
  <2>6. UnderControl(p.stamp)
    BY <1>3, <2>3 DEF CoverInv, Covered
  <2>7. CASE Told(p.stamp)
    BY <1>4, <2>4, <2>7, ToldStays DEF UnderControl
  <2>8. ASSUME NEW u \in Threads, Carries(request[u], p.stamp) \/ At(u, "predictions")
        PROVE  UnderControl(p.stamp)'
    <3>1. CASE u # t
      <4>1. request'[u] = request[u]
        BY <1>9, <3>1
      <4> QED
        BY <2>8, <4>1 DEF UnderControl, Carries, At
    <3>2. CASE u = t
      <4>1. Carries(request[t], p.stamp)
        BY <1>3, <2>8, <3>2 DEF At
      <4>2. request[t].type = "verdict" => Follows(given', given, Head(request[t].found))
        BY <1>1, <1>2, <2>5
      <4>3. Told(p.stamp)' \/ Carries(h, p.stamp)
        BY <1>3, <1>4, <1>5, <4>1, <4>2, CarriedOn
      <4>4. Carries(h, p.stamp) => Carries(request'[t], p.stamp)
        BY <1>9
      <4> QED
        BY <4>3, <4>4 DEF UnderControl
    <3> QED
      BY <3>1, <3>2
  <2> QED
    BY <2>6, <2>7, <2>8 DEF UnderControl
<1> QED
  BY <1>8, <1>10, <1>11 DEF CoverInv

\* What the log forgets need not be judged any more.
LEMMA ForgetStep ==
    ASSUME CoverInv, Forget
    PROVE  CoverInv'
<1>1. log # <<>> /\ log' = Tail(log) /\ UNCHANGED <<request, given, settled, finished>> /\ IsList(log)
  BY DEF Forget, CoverInv, Books
<1>2. IsList(log') /\ Range(log') \subseteq Range(log)
  BY <1>1, TailIs
<1>3. Books'
  BY <1>1, <1>2 DEF CoverInv, Books, IsList
<1>4. \A type : OfType(type)' \subseteq OfType(type)
  BY <1>2 DEF OfType
<1>5. LogIsTold'
  BY <1>1, <1>4 DEF CoverInv, LogIsTold, Told
<1>6. Covered'
  <2> SUFFICES ASSUME settled', NEW p \in OfType("observe")', Judgeable(p)' PROVE UnderControl(p.stamp)'
    BY DEF Covered
  <2>1. Since(p.stamp)' \subseteq Since(p.stamp)
    BY <1>4 DEF Since
  <2>2. IsFiniteSet(Since(p.stamp))
    <3>1. Since(p.stamp) \subseteq Range(log) /\ IsFiniteSet(Range(log))
      BY <1>1, ListIs DEF Since, OfType
    <3> QED
      BY <3>1, FS_Subset
  <2>3. Cardinality(Since(p.stamp)') <= Cardinality(Since(p.stamp))
        /\ Cardinality(Since(p.stamp)') \in Nat /\ Cardinality(Since(p.stamp)) \in Nat
    <3>1. IsFiniteSet(Since(p.stamp)') /\ Cardinality(Since(p.stamp)') <= Cardinality(Since(p.stamp))
      BY <2>1, <2>2, FS_Subset
    <3> QED
      BY <2>2, <3>1, FS_CardinalityType
  <2>4. p \in OfType("observe") /\ Judgeable(p)
    BY <1>4, <2>3 DEF Judgeable
  <2>5. UnderControl(p.stamp)
    BY <1>1, <2>4 DEF CoverInv, Covered
  <2> QED
    BY <1>1, <2>5 DEF UnderControl, Told, At
<1> QED
  BY <1>3, <1>5, <1>6 DEF CoverInv

LEMMA BeginStep ==
    ASSUME CoverInv, NEW t \in Threads, BeginObservation(t) \/ BeginReading(t)
    PROVE  CoverInv'
<1>1. PICK h : request' = [request EXCEPT ![t] = h] /\ "pc" \in DOMAIN h /\ h.pc \in {"decisions", "transitions"}
  <2>1. CASE BeginObservation(t)
    <3>1. PICK o \in Observations : request' = [request EXCEPT ![t] = [pc |-> "decisions", input |-> o]]
      BY <2>1 DEF BeginObservation
    <3>2. PICK h : h = [pc |-> "decisions", input |-> o]
      OBVIOUS
    <3>3. request' = [request EXCEPT ![t] = h] /\ "pc" \in DOMAIN h /\ h.pc = "decisions"
      BY <3>1, <3>2
    <3> QED
      BY <3>3
  <2>2. CASE BeginReading(t)
    <3>1. PICK o \in Readings : request' = [request EXCEPT ![t] = [pc |-> "transitions", input |-> o]]
      BY <2>2 DEF BeginReading
    <3>2. PICK h : h = [pc |-> "transitions", input |-> o]
      OBVIOUS
    <3>3. request' = [request EXCEPT ![t] = h] /\ "pc" \in DOMAIN h /\ h.pc = "transitions"
      BY <3>1, <3>2
    <3> QED
      BY <3>3
  <2> QED
    BY <2>1, <2>2
<1>2. Sound(h)
  BY <1>1 DEF Sound
<1>3. UNCHANGED <<log, given, finished, settled>> /\ ~At(t, "predictions") /\ ~At(t, "record")
  BY DEF BeginObservation, BeginReading, At
<1> QED
  BY <1>1, <1>2, <1>3, QuietStep

LEMMA DyingStep ==
    ASSUME CoverInv, NEW t \in Threads, Die(t)
    PROVE  CoverInv'
<1>1. request' = [request EXCEPT ![t] = Idle] /\ settled' = FALSE /\ UNCHANGED <<log, given, finished>>
  BY DEF Die
<1>2. DOMAIN request' = Threads /\ request'[t] = Idle /\ \A u \in Threads \ {t} : request'[u] = request[u]
  BY <1>1, RequestBecomes DEF CoverInv, Books
<1>3. Sound(Idle)
  BY DEF Sound, Idle
<1>4. Books'
  BY <1>1, <1>2, <1>3 DEF CoverInv, Books
<1>5. LogIsTold'
  BY <1>1 DEF CoverInv, LogIsTold, OfType, Told
<1> QED
  BY <1>1, <1>4, <1>5 DEF CoverInv, Covered

LEMMA RestStep ==
    ASSUME CoverInv, UNCHANGED <<log, request, given, settled>>, IsList(finished)'
    PROVE  CoverInv'
<1>1. Books' /\ LogIsTold'
  BY DEF CoverInv, Books, LogIsTold, OfType, Told, IsList
<1>2. Covered'
  <2> SUFFICES ASSUME settled', NEW p \in OfType("observe")', Judgeable(p)' PROVE UnderControl(p.stamp)'
    BY DEF Covered
  <2>1. UnderControl(p.stamp)
    BY DEF CoverInv, Covered, OfType, Judgeable, Since
  <2> QED
    BY <2>1 DEF UnderControl, Told, At
<1> QED
  BY <1>1, <1>2 DEF CoverInv

LEMMA InitCoverInv == Init => CoverInv
<1> SUFFICES ASSUME Init PROVE CoverInv
  OBVIOUS
<1>1. log = <<>> /\ given = <<>> /\ request = [t \in Threads |-> Idle] /\ settled = FALSE /\ finished = <<>>
  BY DEF Init
<1>2. IsList(<<>>)
  <2>1. <<>> \in Seq({})
    OBVIOUS
  <2> QED
    BY <2>1, ListOf
<1>3. OfType("verdict") = {}
  BY <1>1 DEF OfType, Range
<1>4. Sound(Idle)
  BY DEF Sound, Idle
<1> QED
  BY <1>1, <1>2, <1>3, <1>4 DEF CoverInv, Books, LogIsTold, Covered

LEMMA NextCoverInv == CoverInv /\ [Next]_vars => CoverInv'
<1> SUFFICES ASSUME CoverInv, [Next]_vars PROVE CoverInv'
  OBVIOUS
<1>1. ASSUME NEW t \in Threads, Step(t) PROVE CoverInv'
  <2>1. CASE Generate(t)
    BY <2>1, GenerateStep
  <2>2. CASE CompleteSession(t)
    <3>1. finished' = Append(finished, [stamp |-> stamp + 1, day |-> today])
          /\ UNCHANGED <<log, request, given, settled>>
      BY <2>2 DEF CompleteSession
    <3>2. IsList(finished')
      BY <3>1, AppendFollows DEF CoverInv, Books, Follows
    <3> QED
      BY <3>1, <3>2, RestStep DEF IsList
  <2>3. CASE BeginObservation(t) \/ BeginReading(t)
    BY <2>3, BeginStep
  <2>4. CASE EvaluateDecisions(t)
    <3>1. PICK found : found = JudgedDecisions(request[t].input.mastery)
      OBVIOUS
    <3>2. Judge(t, "decisions", "verdict", found, "sessions")
      BY <2>4, <3>1 DEF EvaluateDecisions
    <3>3. Judges(found, "decision", DueDecisions)
      BY <3>1, DecisionsAreJudged DEF CoverInv, Books
    <3>4. "sessions" \in Nexts
      BY DEF Nexts
    <3> QED
      BY <3>2, <3>3, <3>4, OtherJudgeStep
  <2>5. CASE EvaluateSessions(t)
    <3>1. PICK found : found = JudgedSessions(request[t].input.mastery)
      OBVIOUS
    <3>2. Judge(t, "sessions", "verdict", found, "observe")
      BY <2>5, <3>1 DEF EvaluateSessions
    <3>3. Judges(found, "session", DueSessions)
      BY <3>1, SessionsAreJudged DEF CoverInv, Books
    <3>4. "observe" \in Nexts
      BY DEF Nexts
    <3> QED
      BY <3>2, <3>3, <3>4, OtherJudgeStep
  <2>6. CASE RecordObservation(t)
    BY <2>6, ObservationStep
  <2>7. CASE EvaluatePredictions(t)
    BY <2>7, PredictionStep
  <2>8. CASE DetectTransitions(t)
    <3>1. PICK next : next = IF Listed(request[t].input) = <<>> THEN "idle" ELSE "gates"
      OBVIOUS
    <3>2. PICK found : found = Transitions(request[t].input)
      OBVIOUS
    <3>3. Judge(t, "transitions", "transition", found, next)
      BY <2>8, <3>1, <3>2 DEF DetectTransitions
    <3>4. next \in Nexts
      BY <3>1 DEF Nexts
    <3> QED
      BY <3>3, <3>4, OtherJudgeStep
  <2>9. CASE EvaluateHolds(t)
    <3>1. PICK found : found = JudgedHolds(request[t].input)
      OBVIOUS
    <3>2. Judge(t, "gates", "verdict", found, "idle")
      BY <2>9, <3>1 DEF EvaluateHolds
    <3>3. Judges(found, "hold", DueHolds)
      BY <3>1, HoldsAreJudged DEF CoverInv, Books
    <3>4. "idle" \in Nexts
      BY DEF Nexts
    <3> QED
      BY <3>2, <3>3, <3>4, OtherJudgeStep
  <2>10. CASE Record(t)
    BY <2>10, RecordStep
  <2>11. CASE Die(t)
    BY <2>11, DyingStep
  <2> QED
    BY <1>1, <2>1, <2>2, <2>3, <2>4, <2>5, <2>6, <2>7, <2>8, <2>9, <2>10, <2>11 DEF Step
<1>2. CASE Forget
  BY <1>2, ForgetStep
<1>3. CASE NextDay
  BY <1>3, RestStep DEF NextDay, CoverInv, Books, IsList
<1>4. CASE UNCHANGED vars
  BY <1>4, RestStep DEF vars, CoverInv, Books, IsList
<1> QED
  BY <1>1, <1>2, <1>3, <1>4 DEF Next

\* Once all requests have ended after predictions were looked at, a prediction
\* that two later observations of the log followed has its verdict, however many
\* requests judged at once: whoever left it out saw another about to give it.
THEOREM PredictionsJudged == Spec => []PredictionsAreJudged
<1>1. CoverInv => PredictionsAreJudged
  <2> SUFFICES ASSUME CoverInv, settled, \A t \in DOMAIN request : request[t].pc = "idle",
                      NEW p \in OfType("observe"), p.payload.signal # "steady",
                      Cardinality(Since(p.stamp)) >= 2
               PROVE  \E i \in DOMAIN given : given[i].kind = "prediction" /\ given[i].of = p.stamp
    BY DEF PredictionsAreJudged
  <2>1. UnderControl(p.stamp)
    BY DEF CoverInv, Covered, Judgeable
  <2>2. \A t \in Threads : ~Carries(request[t], p.stamp) /\ ~At(t, "predictions")
    BY DEF CoverInv, Books, Carries, At
  <2> QED
    BY <2>1, <2>2 DEF UnderControl, Told
<1> QED
  BY <1>1, InitCoverInv, NextCoverInv, PTL DEF Spec

-----------------------------------------------------------------------------
(* While requests come one at a time, nothing is judged twice: the verdict  *)
(* is in the log after what it is about, and so is not cut off before it.   *)

Finals == {"decision", "prediction"}
Kinds == {"decision", "prediction", "session", "hold"}

\* What a verdict is about.
Subject(kind) ==
    CASE kind = "decision" -> "decision"
      [] kind = "prediction" -> "observe"
      [] kind = "hold" -> "transition"
      [] kind = "session" -> "session"

Stamps ==
    /\ stamp \in Nat
    /\ \A i \in DOMAIN log : log[i].stamp \in 1..stamp
    /\ \A e \in Range(log) : e.type \in {"decision", "observe", "transition", "verdict"}
    /\ \A i, j \in DOMAIN log : i < j => log[i].stamp < log[j].stamp
    /\ \A s \in Range(finished) : s.stamp \in 1..stamp
    /\ \A s \in Range(finished) : \A e \in Range(log) : s.stamp # e.stamp

About(v) ==
    /\ v.kind \in Kinds /\ v.of \in 1..stamp
    /\ \A e \in Range(log) : e.stamp = v.of => e.type = Subject(v.kind)
    /\ \A s \in Range(finished) : s.stamp = v.of => v.kind = "session"

\* A verdict on what the log shows is shown after it.
Shown(v) ==
    \A k \in DOMAIN log : v.kind \in Finals /\ v.of = log[k].stamp =>
        \E j \in DOMAIN log : /\ j > k /\ log[j].type = "verdict"
                              /\ log[j].payload.kind = v.kind /\ log[j].payload.of = v.of

\* What a request is about to append is about something else than all that was
\* said before, and than what it appends next.
Unheard(f) ==
    /\ \A v \in Range(f) : About(v)
    /\ \A v \in Range(f) : \A w \in Range(given) :
            v.kind \in Finals \/ w.kind \in Finals => v.of # w.of
    /\ \A i, j \in DOMAIN f : f[i].kind = f[j].kind
    /\ \A i, j \in DOMAIN f : f[i].kind \in Finals /\ f[i].of = f[j].of => i = j

\* The verdicts that a request is about to append were not given yet.
Unsaid(t) ==
    request[t].pc = "record" /\ request[t].type = "verdict" => Unheard(request[t].found)

OnceInv ==
    /\ Books /\ Stamps /\ JudgedOnce
    /\ \A v \in Range(given) : About(v) /\ Shown(v)
    /\ \A t \in Threads : Unsaid(t)

LEMMA SubjectIs ==
    ASSUME NEW kind \in Kinds
    PROVE  /\ Subject(kind) = "decision" <=> kind = "decision"
           /\ Subject(kind) = "observe" <=> kind = "prediction"
           /\ Subject(kind) = "transition" <=> kind = "hold"
BY DEF Kinds, Subject

LEMMA StampsTellApart == ASSUME IsList(log), Stamps PROVE Dated(log)
<1>1. Len(log) \in Nat /\ DOMAIN log = 1..Len(log)
  BY ListIs
<1> SUFFICES ASSUME NEW i \in DOMAIN log, NEW j \in DOMAIN log, log[i].stamp = log[j].stamp PROVE i = j
  BY DEF Dated
<1>2. log[i].stamp \in Nat
  BY DEF Stamps
<1>3. ~(i < j) /\ ~(j < i)
  BY <1>2 DEF Stamps
<1> QED
  BY <1>1, <1>3

\* Nothing was said yet of what a tracker finds in the log.
LEMMA FoundInLog ==
    ASSUME OnceInv, NEW kind \in {"decision", "prediction", "hold"}, NEW S, NEW f, Judges(f, kind, S),
           \A e \in S : e \in OfType(Subject(kind)) /\ (kind \in Finals => e.stamp \notin Judged(kind)),
           kind \in Finals => Apart(f)
    PROVE  Unheard(f)
<1>1. kind \in Kinds
  BY DEF Kinds
<1>2. ASSUME NEW v \in Range(f) PROVE v.kind = kind /\ \E e \in S : v.of = e.stamp
  BY <1>2 DEF Judges, Range
<1>3. ASSUME NEW v \in Range(f) PROVE About(v)
  <2>1. PICK e \in S : v.of = e.stamp
    BY <1>2, <1>3
  <2>2. e \in Range(log) /\ e.type = Subject(kind)
    BY DEF OfType
  <2>3. PICK k \in DOMAIN log : log[k] = e
    BY <2>2 DEF Range
  <2>4. v.of \in 1..stamp
    BY <2>1, <2>3 DEF OnceInv, Stamps
  <2>5. \A x \in Range(log) : x.stamp = v.of => x = e
    <3> SUFFICES ASSUME NEW x \in Range(log), x.stamp = v.of PROVE x = e
      OBVIOUS
    <3>1. PICK l \in DOMAIN log : log[l] = x
      BY DEF Range
    <3>2. Dated(log)
      BY StampsTellApart DEF OnceInv, Books
    <3>3. l = k
      BY <2>1, <2>3, <3>1, <3>2 DEF Dated
    <3> QED
      BY <2>3, <3>1, <3>3
  <2>6. \A s \in Range(finished) : s.stamp # v.of
    BY <2>1, <2>2 DEF OnceInv, Stamps
  <2> QED
    BY <1>1, <1>2, <1>3, <2>2, <2>4, <2>5, <2>6 DEF About
<1>4. ASSUME NEW v \in Range(f), NEW w \in Range(given), v.kind \in Finals \/ w.kind \in Finals, v.of = w.of
      PROVE  FALSE
  <2>1. v.kind = kind /\ \E e \in S : v.of = e.stamp
    BY <1>2
  <2>2. PICK e \in S : v.of = e.stamp
    BY <2>1
  <2>3. e \in Range(log) /\ e.type = Subject(kind)
    BY DEF OfType
  <2>4. About(w) /\ Shown(w)
    BY DEF OnceInv
  <2>5. w.kind \in Kinds /\ Subject(w.kind) = Subject(kind)
    BY <1>4, <2>2, <2>3, <2>4 DEF About
  <2>6. w.kind = kind
    BY <1>1, <2>5, SubjectIs
  <2>7. kind \in Finals
    BY <1>4, <2>1, <2>6
  <2>8. PICK k \in DOMAIN log : log[k] = e
    BY <2>3 DEF Range
  <2>9. PICK j \in DOMAIN log : /\ log[j].type = "verdict" /\ log[j].payload.kind = w.kind
                                /\ log[j].payload.of = w.of
    BY <1>4, <2>2, <2>4, <2>6, <2>7, <2>8 DEF Shown
  <2>10. log[j] \in OfType("verdict")
    BY <2>9 DEF OfType, Range
  <2>11. e.stamp \in Judged(kind)
    BY <1>4, <2>2, <2>6, <2>9, <2>10 DEF Judged
  <2> QED
    BY <2>7, <2>11
<1>5. \A i, j \in DOMAIN f : f[i].kind = f[j].kind
  BY DEF Judges
<1>6. \A i, j \in DOMAIN f : f[i].kind \in Finals /\ f[i].of = f[j].of => i = j
  BY DEF Judges, Apart
<1> QED
  BY <1>3, <1>4, <1>5, <1>6 DEF Unheard

\* Verdicts on sessions are no decisions' and no predictions'.
LEMMA FoundOfSessions ==
    ASSUME OnceInv, NEW f, Judges(f, "session", DueSessions)
    PROVE  Unheard(f)
<1>1. ASSUME NEW v \in Range(f) PROVE v.kind = "session" /\ \E s \in Range(finished) : v.of = s.stamp
  BY <1>1 DEF Judges, Range, DueSessions
<1>2. "session" \in Kinds /\ "session" \notin Finals
  BY DEF Kinds, Finals
<1>3. ASSUME NEW v \in Range(f) PROVE About(v)
  <2>1. PICK s \in Range(finished) : v.of = s.stamp
    BY <1>1, <1>3
  <2>2. v.of \in 1..stamp /\ \A e \in Range(log) : e.stamp # v.of
    BY <2>1 DEF OnceInv, Stamps
  <2> QED
    BY <1>1, <1>2, <1>3, <2>2 DEF About
<1>4. ASSUME NEW v \in Range(f), NEW w \in Range(given), v.kind \in Finals \/ w.kind \in Finals
      PROVE  v.of # w.of
  <2>1. v.kind = "session" /\ \E s \in Range(finished) : v.of = s.stamp
    BY <1>1
  <2>2. w.kind \in Finals
    BY <1>2, <1>4, <2>1
  <2>3. About(w)
    BY DEF OnceInv
  <2> QED
    BY <1>2, <2>1, <2>2, <2>3 DEF About
<1>5. \A i, j \in DOMAIN f : f[i].kind = f[j].kind /\ f[i].kind \notin Finals
  BY <1>2 DEF Judges
<1> QED
  BY <1>3, <1>4, <1>5 DEF Unheard

\* An entry of the log that was not there before.
LEMMA StampedNext ==
    ASSUME OnceInv, NEW e, Follows(log', log, e), e.stamp = stamp + 1, stamp' = stamp + 1,
           e.type \in {"decision", "observe", "transition", "verdict"}, finished' = finished
    PROVE  /\ Stamps'
           /\ \A v : About(v) => About(v)'
           /\ \A v : About(v) /\ Shown(v) => Shown(v)'
<1>1. IsList(log) /\ Stamps
  BY DEF OnceInv, Books
<1>2. stamp \in Nat /\ Len(log) \in Nat /\ DOMAIN log = 1..Len(log)
  BY <1>1, ListIs DEF Stamps
<1>3. /\ IsList(log') /\ Len(log') = Len(log) + 1 /\ log'[Len(log) + 1] = e
      /\ \A k \in 1..Len(log) : log'[k] = log[k]
      /\ Range(log') = Range(log) \cup {e}
  BY DEF Follows
<1>4. DOMAIN log' = 1..(Len(log) + 1)
  BY <1>3, ListIs
<1>5. Stamps'
  <2>1. \A i \in DOMAIN log' : log'[i].stamp \in 1..stamp'
    BY <1>1, <1>2, <1>3, <1>4 DEF Stamps
  <2>2. ASSUME NEW i \in DOMAIN log', NEW j \in DOMAIN log', i < j PROVE log'[i].stamp < log'[j].stamp
    <3>1. i \in 1..Len(log) /\ log'[i] = log[i] /\ log[i].stamp \in 1..stamp
      BY <1>1, <1>2, <1>3, <1>4, <2>2 DEF Stamps
    <3>2. CASE j = Len(log) + 1
      BY <1>2, <1>3, <3>1, <3>2
    <3>3. CASE j \in 1..Len(log)
      BY <1>1, <1>2, <1>3, <2>2, <3>1, <3>3 DEF Stamps
    <3> QED
      BY <1>2, <1>4, <3>2, <3>3
  <2>3. \A s \in Range(finished) : s.stamp \in 1..stamp' /\ s.stamp # e.stamp
    BY <1>1, <1>2 DEF Stamps
  <2>4. \A x \in Range(log') : x.type \in {"decision", "observe", "transition", "verdict"}
    BY <1>1, <1>3 DEF Stamps
  <2>5. \A s \in Range(finished) : \A x \in Range(log') : s.stamp # x.stamp
    BY <1>1, <1>3, <2>3 DEF Stamps
  <2>6. stamp' \in Nat
    BY <1>2
  <2> QED
    BY <2>1, <2>2, <2>3, <2>4, <2>5, <2>6 DEF Stamps
<1>6. ASSUME NEW v, About(v) PROVE About(v)'
  <2>1. v.of \in 1..stamp
    BY <1>6 DEF About
  <2>2. e.stamp # v.of /\ v.of \in 1..stamp'
    BY <1>2, <2>1
  <2> QED
    BY <1>3, <1>6, <2>2 DEF About
<1>7. ASSUME NEW v, About(v), Shown(v) PROVE Shown(v)'
  <2> SUFFICES ASSUME NEW k \in DOMAIN log', v.kind \in Finals, v.of = log'[k].stamp
               PROVE  \E j \in DOMAIN log' : /\ j > k /\ log'[j].type = "verdict"
                              /\ log'[j].payload.kind = v.kind /\ log'[j].payload.of = v.of
    BY DEF Shown
  <2>1. v.of \in 1..stamp
    BY <1>7 DEF About
  <2>2. k \in 1..Len(log)
    BY <1>2, <1>3, <1>4, <2>1
  <2>3. PICK j \in DOMAIN log : /\ j > k /\ log[j].type = "verdict"
                              /\ log[j].payload.kind = v.kind /\ log[j].payload.of = v.of
    BY <1>2, <1>3, <1>7, <2>2 DEF Shown
  <2> QED
    BY <1>2, <1>3, <1>4, <2>3
<1> QED
  BY <1>5, <1>6, <1>7

\* A request that appends what is no verdict.
LEMMA OnceNoVerdict ==
    ASSUME OnceInv, NEW t \in Threads, Threads = {t}, NEW type \in {"decision", "observe", "transition"},
           NEW payload, AppendEvent(type, payload), finished' = finished, DOMAIN request' = Threads,
           NEW h, request'[t] = h, Sound(h), ~(h.pc = "record" /\ h.type = "verdict")
    PROVE  OnceInv'
<1>1. IsList(log) /\ IsList(given) /\ DOMAIN request = Threads
  BY DEF OnceInv, Books
<1>2. PICK e : Entry(e, type, payload) /\ Follows(log', log, e)
  BY <1>1, AppendIs
<1>3. given' = given /\ stamp' = stamp + 1
  BY <1>1, AppendIs
<1>4. e.stamp = stamp + 1 /\ e.type = type
  BY <1>2 DEF Entry
<1>5. /\ Stamps' /\ \A v : About(v) => About(v)'
      /\ \A v : About(v) /\ Shown(v) => Shown(v)'
  BY <1>2, <1>3, <1>4, StampedNext
<1>6. DOMAIN request' = Threads /\ request'[t] = h
  OBVIOUS
<1>7. Books'
  BY <1>1, <1>6, ListsStay DEF OnceInv, Books, IsList
<1>8. JudgedOnce'
  BY <1>3 DEF OnceInv, JudgedOnce
<1>9. \A v \in Range(given') : About(v)' /\ Shown(v)'
  BY <1>3, <1>5 DEF OnceInv
<1>10. \A u \in Threads : Unsaid(u)'
  BY <1>6 DEF Unsaid
<1> QED
  BY <1>5, <1>7, <1>8, <1>9, <1>10 DEF OnceInv

\* A request that changes nothing but itself.
LEMMA OnceQuiet ==
    ASSUME OnceInv, NEW t \in Threads, Threads = {t}, UNCHANGED <<log, given, stamp, finished>>, NEW h,
           request' = [request EXCEPT ![t] = h], Sound(h),
           h.pc = "record" /\ h.type = "verdict" => Unheard(h.found)
    PROVE  OnceInv'
<1>1. DOMAIN request' = Threads /\ request'[t] = h
  BY RequestBecomes DEF OnceInv, Books
<1>2. Books'
  BY <1>1 DEF OnceInv, Books, IsList
<1>3. Stamps' /\ JudgedOnce'
  BY DEF OnceInv, Stamps, JudgedOnce
<1>4. \A v : (About(v) <=> About(v)') /\ (Shown(v) <=> Shown(v)')
  BY DEF About, Shown
<1>5. \A f : Unheard(f) => Unheard(f)'
  BY <1>4 DEF Unheard
<1>6. \A v \in Range(given') : About(v)' /\ Shown(v)'
  BY <1>4 DEF OnceInv
<1>7. \A u \in Threads : Unsaid(u)'
  <2>1. h.pc = "record" /\ h.type = "verdict" => Unheard(h.found)'
    BY <1>5
  <2> QED
    BY <1>1, <2>1 DEF Unsaid, Unheard
<1> QED
  BY <1>2, <1>3, <1>6, <1>7 DEF OnceInv

LEMMA OnceJudge ==
    ASSUME OnceInv, NEW t \in Threads, Threads = {t}, NEW place, NEW type \in {"verdict", "transition"},
           NEW found, NEW next \in Nexts, Judge(t, place, type, found, next), NEW kind, NEW S,
           type = "verdict" => Judges(found, kind, S) /\ Unheard(found)
    PROVE  OnceInv'
<1>1. PICK h : JudgeTo(h, t, type, found, next) /\ request' = [request EXCEPT ![t] = h]
  BY JudgeIs DEF OnceInv, Books
<1>2. PICK input : input = request[t].input
  OBVIOUS
<1>3. h = IF found # <<>>
          THEN [pc |-> "record", input |-> input, type |-> type, found |-> found, next |-> next]
          ELSE IF next = "idle" THEN Idle ELSE [pc |-> next, input |-> input]
  BY <1>1, <1>2 DEF JudgeTo
<1>4. Sound(h)
  <2>1. Waiting(h, type, input, found, next)
    BY <1>3 DEF Waiting
  <2> QED
    BY <2>1, FoundWaits
<1>5. h.pc = "record" /\ h.type = "verdict" => Unheard(h.found)
  <2>1. CASE found # <<>>
    BY <1>3, <2>1
  <2>2. CASE found = <<>>
    <3>1. h.pc = next
      BY <1>3, <2>2 DEF Idle
    <3> QED
      BY <3>1 DEF Nexts
  <2> QED
    BY <2>1, <2>2
<1>6. UNCHANGED <<log, given, stamp, finished>>
  BY DEF Judge
<1> QED
  BY <1>1, <1>4, <1>5, <1>6, OnceQuiet

\* A verdict that is appended is given for the first time, and is shown last.
LEMMA OnceVerdict ==
    ASSUME OnceInv, NEW t \in Threads, Threads = {t}, Record(t), request[t].type = "verdict"
    PROVE  OnceInv'
<1>1. PICK r : r = request[t]
  OBVIOUS
<1>2. PICK v : v = Head(r.found)
  OBVIOUS
<1>3. AppendEvent("verdict", v) /\ r.pc = "record" /\ finished' = finished
  BY <1>1, <1>2 DEF Record, At
<1>4. IsList(log) /\ IsList(given) /\ DOMAIN request = Threads /\ Sound(r)
  BY <1>1 DEF OnceInv, Books
<1>5. PICK h : RecordTo(h, t) /\ Sound(h) /\ request' = [request EXCEPT ![t] = h]
  BY <1>1, <1>4, RecordIs
<1>6. IsVerdict(v)
  BY <1>1, <1>2, <1>4, RecordIs
<1>7. PICK e : Entry(e, "verdict", v) /\ Follows(log', log, e)
  BY <1>3, <1>4, AppendIs
<1>8. Follows(given', given, v) /\ stamp' = stamp + 1
  BY <1>3, <1>4, AppendIs
<1>9. e.stamp = stamp + 1 /\ e.type = "verdict"
  BY <1>7 DEF Entry
<1>10. /\ Stamps' /\ \A w : About(w) => About(w)'
       /\ \A w : About(w) /\ Shown(w) => Shown(w)'
  BY <1>3, <1>7, <1>8, <1>9, StampedNext
<1>11. DOMAIN request' = Threads /\ request'[t] = h
  BY <1>4, <1>5, RequestBecomes
<1>12. Books'
  BY <1>3, <1>4, <1>5, <1>11, ListsStay DEF OnceInv, Books, IsList
<1>13. Unheard(r.found) /\ IsList(r.found) /\ r.found # <<>>
  BY <1>1, <1>3, <1>4 DEF OnceInv, Unsaid, Sound
<1>14. v \in Range(r.found) /\ v = r.found[1] /\ Len(r.found) \in Nat \ {0} /\ DOMAIN r.found = 1..Len(r.found)
  BY <1>2, <1>13, TailIs, ListIs
<1>15. Range(given') = Range(given) \cup {v}
  BY <1>8 DEF Follows
<1>16. About(v)' /\ Shown(v)'
  <2>1. About(v)
    BY <1>13, <1>14 DEF Unheard
  <2>2. Shown(v)'
    <3>1. Len(log) \in Nat /\ IsList(log') /\ Len(log') = Len(log) + 1 /\ log'[Len(log) + 1] = e
      BY <1>4, <1>7, ListIs DEF Follows
    <3>2. DOMAIN log' = 1..(Len(log) + 1)
      BY <3>1, ListIs
    <3> SUFFICES ASSUME NEW k \in DOMAIN log', v.kind \in Finals, v.of = log'[k].stamp
                 PROVE  \E j \in DOMAIN log' : /\ j > k /\ log'[j].type = "verdict"
                              /\ log'[j].payload.kind = v.kind /\ log'[j].payload.of = v.of
      BY DEF Shown
    <3>3. v.of \in 1..stamp /\ stamp \in Nat
      BY <2>1 DEF About, OnceInv, Stamps
    <3>4. k # Len(log) + 1
      BY <1>9, <3>1, <3>3
    <3>5. e.payload = v
      BY <1>7 DEF Entry, Finals
    <3> QED
      BY <1>9, <3>1, <3>2, <3>4, <3>5
  <2> QED
    BY <1>10, <2>1, <2>2
<1>17. JudgedOnce'
  <2>1. Len(given) \in Nat /\ DOMAIN given = 1..Len(given)
    BY <1>4, ListIs
  <2>2. /\ IsList(given') /\ Len(given') = Len(given) + 1 /\ given'[Len(given) + 1] = v
        /\ \A k \in 1..Len(given) : given'[k] = given[k]
    BY <1>8 DEF Follows
  <2>3. DOMAIN given' = 1..(Len(given) + 1)
    BY <2>2, ListIs
  <2>4. \A i \in 1..Len(given) : v.kind \in Finals \/ given[i].kind \in Finals => v.of # given[i].of
    BY <1>13, <1>14, <2>1 DEF Unheard, Range
  <2>5. \A i, j \in 1..Len(given) : given[i].kind \in Finals /\ given[i].of = given[j].of => i = j
    BY <2>1 DEF OnceInv, JudgedOnce, Finals
  <2> SUFFICES ASSUME NEW i \in DOMAIN given', NEW j \in DOMAIN given', given'[i].kind \in Finals,
                      given'[i].of = given'[j].of
               PROVE  i = j
    BY DEF JudgedOnce, Finals
  <2>6. CASE i \in 1..Len(given) /\ j \in 1..Len(given)
    BY <2>2, <2>5, <2>6
  <2>7. CASE i = Len(given) + 1 /\ j \in 1..Len(given)
    BY <2>2, <2>4, <2>7
  <2>8. CASE i \in 1..Len(given) /\ j = Len(given) + 1
    BY <2>2, <2>4, <2>8
  <2> QED
    BY <2>1, <2>3, <2>6, <2>7, <2>8
<1>18. ASSUME h.pc = "record", h.type = "verdict" PROVE Unheard(h.found)'
  <2>1. PICK left : left = Tail(r.found)
    OBVIOUS
  <2>2. /\ IsList(left) /\ Len(left) = Len(r.found) - 1 /\ Range(left) \subseteq Range(r.found)
        /\ \A k \in 1..(Len(r.found) - 1) : left[k] = r.found[k + 1]
    BY <1>13, <2>1, TailIs
  <2>3. DOMAIN left = 1..(Len(r.found) - 1)
    BY <2>2, ListIs
  <2>4. h.found = left
    <3>1. CASE left # <<>>
      <4>1. h = [r EXCEPT !.found = left]
        BY <1>1, <1>5, <2>1, <3>1 DEF RecordTo
      <4>2. "found" \in DOMAIN r
        BY <1>3, <1>4 DEF Sound
      <4> QED
        BY <4>1, <4>2
    <3>2. CASE left = <<>>
      <4>1. h = IF r.next = "idle" THEN Idle ELSE [pc |-> r.next, input |-> r.input]
        BY <1>1, <1>5, <2>1, <3>2 DEF RecordTo
      <4>2. h.pc = r.next
        BY <4>1 DEF Idle
      <4> QED
        BY <1>3, <1>4, <1>18, <4>2 DEF Sound, Nexts
    <3> QED
      BY <3>1, <3>2
  <2>5. \A w \in Range(left) : About(w)'
    BY <1>10, <1>13, <2>2 DEF Unheard
  <2>6. ASSUME NEW i \in DOMAIN left, NEW j \in DOMAIN left PROVE left[i].kind = left[j].kind
    <3>1. i + 1 \in DOMAIN r.found /\ j + 1 \in DOMAIN r.found /\ left[i] = r.found[i + 1] /\ left[j] = r.found[j + 1]
      BY <1>14, <2>2, <2>3
    <3> QED
      BY <1>13, <3>1 DEF Unheard
  <2>7. ASSUME NEW i \in DOMAIN left, NEW j \in DOMAIN left, left[i].kind \in Finals, left[i].of = left[j].of
        PROVE  i = j
    <3>1. i + 1 \in DOMAIN r.found /\ j + 1 \in DOMAIN r.found /\ left[i] = r.found[i + 1] /\ left[j] = r.found[j + 1]
      BY <1>14, <2>2, <2>3
    <3>2. i + 1 = j + 1
      BY <1>13, <2>7, <3>1 DEF Unheard
    <3> QED
      BY <1>14, <2>3, <3>2
  <2>8. ASSUME NEW w \in Range(left), NEW x \in Range(given'), w.kind \in Finals \/ x.kind \in Finals
        PROVE  w.of # x.of
    <3>1. CASE x \in Range(given)
      BY <1>13, <2>2, <2>8, <3>1 DEF Unheard
    <3>2. CASE x = v
      <4>1. PICK k \in DOMAIN left : left[k] = w
        BY DEF Range
      <4>2. k + 1 \in DOMAIN r.found /\ w = r.found[k + 1] /\ k + 1 # 1 /\ 1 \in DOMAIN r.found
        BY <1>14, <2>2, <2>3, <4>1
      <4>3. w.kind = v.kind
        BY <1>13, <1>14, <4>2 DEF Unheard
      <4>4. w.kind \in Finals
        BY <2>8, <3>2, <4>3
      <4> QED
        BY <1>13, <1>14, <3>2, <4>2, <4>4 DEF Unheard
    <3> QED
      BY <1>15, <3>1, <3>2
  <2> QED
    BY <2>4, <2>5, <2>6, <2>7, <2>8 DEF Unheard
<1>19. \A w \in Range(given') : About(w)' /\ Shown(w)'
  BY <1>10, <1>15, <1>16 DEF OnceInv
<1>20. \A u \in Threads : Unsaid(u)'
  BY <1>11, <1>18 DEF Unsaid, Unheard
<1> QED
  BY <1>10, <1>12, <1>17, <1>19, <1>20 DEF OnceInv

LEMMA OnceRecorded ==
    ASSUME OnceInv, NEW t \in Threads, Threads = {t}, Record(t), request[t].type # "verdict"
    PROVE  OnceInv'
<1>1. PICK type : type = request[t].type
  OBVIOUS
<1>2. PICK payload : payload = Head(request[t].found)
  OBVIOUS
<1>3. AppendEvent(type, payload) /\ request[t].pc = "record" /\ finished' = finished
  BY <1>1, <1>2 DEF Record, At
<1>4. DOMAIN request = Threads /\ Sound(request[t])
  BY DEF OnceInv, Books
<1>5. PICK h : RecordTo(h, t) /\ Sound(h) /\ request' = [request EXCEPT ![t] = h]
  BY <1>4, RecordIs
<1>6. DOMAIN request' = Threads /\ request'[t] = h
  BY <1>4, <1>5, RequestBecomes
<1>7. type = "transition"
  BY <1>1, <1>3, <1>4 DEF Sound
<1>8. ~(h.pc = "record" /\ h.type = "verdict")
  <2>1. PICK r : r = request[t]
    OBVIOUS
  <2>2. PICK left : left = Tail(r.found)
    OBVIOUS
  <2>3. CASE left # <<>>
    <3>1. h = [r EXCEPT !.found = left]
      BY <1>5, <2>1, <2>2, <2>3 DEF RecordTo
    <3>2. r = [pc |-> "record", input |-> r.input, type |-> r.type, found |-> r.found, next |-> r.next]
      BY <1>3, <1>4, <2>1 DEF Sound
    <3>3. PICK input : input = r.input
      OBVIOUS
    <3>4. PICK found : found = r.found
      OBVIOUS
    <3>5. PICK next : next = r.next
      OBVIOUS
    <3>6. r = [pc |-> "record", input |-> input, type |-> type, found |-> found, next |-> next]
      BY <1>1, <2>1, <3>2, <3>3, <3>4, <3>5
    <3>7. h = [pc |-> "record", input |-> input, type |-> type, found |-> left, next |-> next]
      BY <3>1, <3>6, OthersKept
    <3> QED
      BY <1>7, <3>7
  <2>4. CASE left = <<>>
    <3>1. h = IF r.next = "idle" THEN Idle ELSE [pc |-> r.next, input |-> r.input]
      BY <1>5, <2>1, <2>2, <2>4 DEF RecordTo
    <3>2. h.pc = r.next
      BY <3>1 DEF Idle
    <3> QED
      BY <1>3, <1>4, <2>1, <3>2 DEF Sound, Nexts
  <2> QED
    BY <2>3, <2>4
<1> QED
  BY <1>3, <1>5, <1>6, <1>7, <1>8, OnceNoVerdict

LEMMA OnceAppended ==
    ASSUME OnceInv, NEW t \in Threads, Threads = {t}, Generate(t) \/ RecordObservation(t)
    PROVE  OnceInv'
<1>1. DOMAIN request = Threads /\ Sound(request[t])
  BY DEF OnceInv, Books
<1>2. CASE Generate(t)
  <2>1. PICK d \in Decisions : AppendEvent("decision", d)
    BY <1>2 DEF Generate
  <2>2. request' = request /\ finished' = finished /\ request[t].pc = "idle"
    BY <1>2 DEF Generate, At
  <2>3. PICK h : h = request[t]
    OBVIOUS
  <2>4. DOMAIN request' = Threads /\ request'[t] = h /\ Sound(h) /\ h.pc # "record"
    BY <1>1, <2>2, <2>3
  <2> QED
    BY <2>1, <2>2, <2>4, OnceNoVerdict
<1>3. CASE RecordObservation(t)
  <2>1. PICK o : o = request[t].input
    OBVIOUS
  <2>2. PICK h : h = [request[t] EXCEPT !.pc = "predictions"]
    OBVIOUS
  <2>3. AppendEvent("observe", o) /\ request' = [request EXCEPT ![t] = h] /\ finished' = finished
    BY <1>3, <2>1, <2>2 DEF RecordObservation
  <2>4. DOMAIN request' = Threads /\ request'[t] = h
    BY <1>1, <2>3, RequestBecomes
  <2>5. h.pc = "predictions" /\ "pc" \in DOMAIN h
    BY <1>1, <2>2 DEF Sound
  <2>6. Sound(h)
    BY <2>5 DEF Sound
  <2> QED
    BY <2>3, <2>4, <2>5, <2>6, OnceNoVerdict
<1> QED
  BY <1>2, <1>3

\* A session's completion has a stamp that no verdict and no event has.
LEMMA OnceCompleted ==
    ASSUME OnceInv, NEW t \in Threads, Threads = {t}, CompleteSession(t)
    PROVE  OnceInv'
<1>1. PICK s : s = [stamp |-> stamp + 1, day |-> today]
  OBVIOUS
<1>2. finished' = Append(finished, s) /\ stamp' = stamp + 1 /\ UNCHANGED <<log, request, given>>
      /\ request[t].pc = "idle"
  BY <1>1 DEF CompleteSession, At
<1>3. IsList(log) /\ IsList(finished) /\ Stamps
  BY DEF OnceInv, Books
<1>4. Follows(finished', finished, s)
  BY <1>2, <1>3, AppendFollows
<1>5. IsList(finished') /\ Range(finished') = Range(finished) \cup {s}
  BY <1>4 DEF Follows
<1>6. s.stamp = stamp + 1 /\ stamp \in Nat
  BY <1>1, <1>3 DEF Stamps
<1>7. \A e \in Range(log) : e.stamp \in 1..stamp
  BY <1>3 DEF Stamps, Range
<1>8. Stamps'
  <2>1. \A i \in DOMAIN log : log[i].stamp \in 1..stamp'
    BY <1>2, <1>3, <1>6 DEF Stamps
  <2>2. \A x \in Range(finished') : x.stamp \in 1..stamp'
    BY <1>2, <1>3, <1>5, <1>6 DEF Stamps
  <2>3. \A x \in Range(finished') : \A e \in Range(log) : x.stamp # e.stamp
    BY <1>3, <1>5, <1>6, <1>7 DEF Stamps
  <2> QED
    BY <1>2, <1>3, <1>6, <2>1, <2>2, <2>3 DEF Stamps
<1>9. ASSUME NEW v, About(v) PROVE About(v)'
  <2>1. v.of \in 1..stamp
    BY <1>9 DEF About
  <2>2. v.of \in 1..stamp' /\ s.stamp # v.of
    BY <1>2, <1>6, <2>1
  <2> QED
    BY <1>2, <1>5, <1>9, <2>2 DEF About
<1>10. \A v : Shown(v) => Shown(v)'
  BY <1>2 DEF Shown
<1>11. Books'
  BY <1>2, <1>5 DEF OnceInv, Books, IsList
<1>12. \A v \in Range(given') : About(v)' /\ Shown(v)'
  BY <1>2, <1>9, <1>10 DEF OnceInv
<1>13. JudgedOnce'
  BY <1>2 DEF OnceInv, JudgedOnce
<1>14. \A u \in Threads : Unsaid(u)'
  BY <1>2 DEF Unsaid
<1> QED
  BY <1>8, <1>11, <1>12, <1>13, <1>14 DEF OnceInv

\* The log is cut off at its old end, where what is judged is before its verdict.
LEMMA OnceForgotten ==
    ASSUME OnceInv, Forget
    PROVE  OnceInv'
<1>1. log # <<>> /\ log' = Tail(log) /\ UNCHANGED <<stamp, request, given, finished>>
  BY DEF Forget
<1>2. IsList(log) /\ Stamps
  BY DEF OnceInv, Books
<1>3. /\ IsList(log') /\ Len(log) \in Nat \ {0} /\ Len(log') = Len(log) - 1
      /\ \A k \in 1..(Len(log) - 1) : log'[k] = log[k + 1]
      /\ Range(log') \subseteq Range(log)
  BY <1>1, <1>2, TailIs
<1>4. DOMAIN log = 1..Len(log) /\ DOMAIN log' = 1..(Len(log) - 1)
  BY <1>2, <1>3, ListIs
<1>5. Stamps'
  <2>1. \A i \in DOMAIN log' : i + 1 \in DOMAIN log /\ log'[i] = log[i + 1]
    BY <1>3, <1>4
  <2>2. \A i \in DOMAIN log' : log'[i].stamp \in 1..stamp
    BY <1>2, <2>1 DEF Stamps
  <2>3. ASSUME NEW i \in DOMAIN log', NEW j \in DOMAIN log', i < j PROVE log'[i].stamp < log'[j].stamp
    <3>1. i + 1 < j + 1
      BY <1>3, <1>4, <2>3
    <3> QED
      BY <1>2, <2>1, <3>1 DEF Stamps
  <2>4. \A e \in Range(log') : e.type \in {"decision", "observe", "transition", "verdict"}
    BY <1>2, <1>3 DEF Stamps
  <2>5. \A s \in Range(finished) : \A e \in Range(log') : s.stamp # e.stamp
    BY <1>2, <1>3 DEF Stamps
  <2>6. stamp \in Nat /\ \A s \in Range(finished) : s.stamp \in 1..stamp
    BY <1>2 DEF Stamps
  <2> QED
    BY <1>1, <2>2, <2>3, <2>4, <2>5, <2>6 DEF Stamps
<1>6. \A v : About(v) => About(v)'
  BY <1>1, <1>3 DEF About
<1>7. ASSUME NEW v, Shown(v) PROVE Shown(v)'
  <2> SUFFICES ASSUME NEW k \in DOMAIN log', v.kind \in Finals, v.of = log'[k].stamp
               PROVE  \E j \in DOMAIN log' : /\ j > k /\ log'[j].type = "verdict"
                              /\ log'[j].payload.kind = v.kind /\ log'[j].payload.of = v.of
    BY DEF Shown
  <2>1. k + 1 \in DOMAIN log /\ log'[k] = log[k + 1]
    BY <1>3, <1>4
  <2>2. PICK j \in DOMAIN log : /\ j > k + 1 /\ log[j].type = "verdict"
                              /\ log[j].payload.kind = v.kind /\ log[j].payload.of = v.of
    BY <1>7, <2>1 DEF Shown
  <2>3. j - 1 \in DOMAIN log' /\ j - 1 > k /\ log'[j - 1] = log[(j - 1) + 1] /\ (j - 1) + 1 = j
    BY <1>3, <1>4, <2>2
  <2> QED
    BY <2>2, <2>3
<1>8. ASSUME NEW f, Unheard(f) PROVE Unheard(f)'
  BY <1>1, <1>6, <1>8 DEF Unheard
<1>9. \A u \in Threads : Unsaid(u)'
  <2>1. \A u \in Threads : request[u].pc = "record" /\ request[u].type = "verdict" => Unheard(request[u].found)
    BY DEF OnceInv, Unsaid
  <2>2. \A u \in Threads : Unsaid(u) => Unsaid(u)'
    BY <1>1, <1>6 DEF Unsaid, Unheard
  <2> QED
    BY <2>2 DEF OnceInv
<1>10. Books'
  BY <1>1, <1>3 DEF OnceInv, Books, IsList
<1>11. \A v \in Range(given') : About(v)' /\ Shown(v)'
  BY <1>1, <1>6, <1>7 DEF OnceInv
<1>12. JudgedOnce'
  BY <1>1 DEF OnceInv, JudgedOnce
<1> QED
  BY <1>5, <1>9, <1>10, <1>11, <1>12 DEF OnceInv

LEMMA OnceBegun ==
    ASSUME OnceInv, NEW t \in Threads, Threads = {t}, BeginObservation(t) \/ BeginReading(t) \/ Die(t)
    PROVE  OnceInv'
<1>1. UNCHANGED <<log, given, stamp, finished>>
  BY DEF BeginObservation, BeginReading, Die
<1>2. CASE BeginObservation(t)
  <2>1. PICK o \in Observations : request' = [request EXCEPT ![t] = [pc |-> "decisions", input |-> o]]
    BY <1>2 DEF BeginObservation
  <2>2. PICK h : h = [pc |-> "decisions", input |-> o]
    OBVIOUS
  <2>3. request' = [request EXCEPT ![t] = h] /\ "pc" \in DOMAIN h /\ h.pc = "decisions"
    BY <2>1, <2>2
  <2>4. Sound(h) /\ h.pc # "record"
    BY <2>3 DEF Sound
  <2> QED
    BY <1>1, <2>3, <2>4, OnceQuiet
<1>3. CASE BeginReading(t)
  <2>1. PICK o \in Readings : request' = [request EXCEPT ![t] = [pc |-> "transitions", input |-> o]]
    BY <1>3 DEF BeginReading
  <2>2. PICK h : h = [pc |-> "transitions", input |-> o]
    OBVIOUS
  <2>3. request' = [request EXCEPT ![t] = h] /\ "pc" \in DOMAIN h /\ h.pc = "transitions"
    BY <2>1, <2>2
  <2>4. Sound(h) /\ h.pc # "record"
    BY <2>3 DEF Sound
  <2> QED
    BY <1>1, <2>3, <2>4, OnceQuiet
<1>4. CASE Die(t)
  <2>1. PICK h : h = Idle
    OBVIOUS
  <2>2. request' = [request EXCEPT ![t] = h]
    BY <1>4, <2>1 DEF Die
  <2>3. Sound(h) /\ h.pc # "record"
    BY <2>1 DEF Sound, Idle
  <2> QED
    BY <1>1, <2>2, <2>3, OnceQuiet
<1> QED
  BY <1>2, <1>3, <1>4

LEMMA OnceEvaluated ==
    ASSUME OnceInv, NEW t \in Threads, Threads = {t},
           \/ EvaluateDecisions(t) \/ EvaluateSessions(t) \/ EvaluatePredictions(t)
           \/ DetectTransitions(t) \/ EvaluateHolds(t)
    PROVE  OnceInv'
<1>1. IsList(log) /\ IsList(finished) /\ Dated(log)
  BY StampsTellApart DEF OnceInv, Books
<1>2. CASE EvaluateDecisions(t)
  <2>1. PICK found : found = JudgedDecisions(request[t].input.mastery)
    OBVIOUS
  <2>2. Judge(t, "decisions", "verdict", found, "sessions")
    BY <1>2, <2>1 DEF EvaluateDecisions
  <2>3. Judges(found, "decision", DueDecisions) /\ Apart(found)
    BY <1>1, <2>1, DecisionsAreJudged
  <2>4. \A e \in DueDecisions : e \in OfType(Subject("decision")) /\ e.stamp \notin Judged("decision")
    BY DEF DueDecisions, Subject
  <2>5. Unheard(found)
    BY <2>3, <2>4, FoundInLog
  <2>6. "sessions" \in Nexts
    BY DEF Nexts
  <2> QED
    BY <2>2, <2>3, <2>5, <2>6, OnceJudge
<1>3. CASE EvaluateSessions(t)
  <2>1. PICK found : found = JudgedSessions(request[t].input.mastery)
    OBVIOUS
  <2>2. Judge(t, "sessions", "verdict", found, "observe")
    BY <1>3, <2>1 DEF EvaluateSessions
  <2>3. Judges(found, "session", DueSessions)
    BY <1>1, <2>1, SessionsAreJudged
  <2>4. Unheard(found)
    BY <2>3, FoundOfSessions
  <2>5. "observe" \in Nexts
    BY DEF Nexts
  <2> QED
    BY <2>2, <2>3, <2>4, <2>5, OnceJudge
<1>4. CASE EvaluatePredictions(t)
  <2>1. PICK found : found = JudgedPredictions(request[t].input.mastery)
    OBVIOUS
  <2>2. Judge(t, "predictions", "verdict", found, "idle")
    BY <1>4, <2>1 DEF EvaluatePredictions
  <2>3. Judges(found, "prediction", DuePredictions) /\ Apart(found)
    BY <1>1, <2>1, PredictionsAreFound
  <2>4. \A e \in DuePredictions : e \in OfType(Subject("prediction")) /\ e.stamp \notin Judged("prediction")
    BY DEF DuePredictions, Subject
  <2>5. Unheard(found)
    BY <2>3, <2>4, FoundInLog
  <2>6. "idle" \in Nexts
    BY DEF Nexts
  <2> QED
    BY <2>2, <2>3, <2>5, <2>6, OnceJudge
<1>5. CASE DetectTransitions(t)
  <2>1. PICK next : next = IF Listed(request[t].input) = <<>> THEN "idle" ELSE "gates"
    OBVIOUS
  <2>2. PICK found : found = Transitions(request[t].input)
    OBVIOUS
  <2>3. Judge(t, "transitions", "transition", found, next)
    BY <1>5, <2>1, <2>2 DEF DetectTransitions
  <2>4. next \in Nexts
    BY <2>1 DEF Nexts
  <2> QED
    BY <2>3, <2>4, OnceJudge
<1>6. CASE EvaluateHolds(t)
  <2>1. PICK found : found = JudgedHolds(request[t].input)
    OBVIOUS
  <2>2. Judge(t, "gates", "verdict", found, "idle")
    BY <1>6, <2>1 DEF EvaluateHolds
  <2>3. Judges(found, "hold", DueHolds)
    BY <1>1, <2>1, HoldsAreJudged
  <2>4. "hold" \notin Finals /\ \A e \in DueHolds : e \in OfType(Subject("hold"))
    BY DEF DueHolds, Gated, Subject, Finals
  <2>5. Unheard(found)
    BY <2>3, <2>4, FoundInLog
  <2>6. "idle" \in Nexts
    BY DEF Nexts
  <2> QED
    BY <2>2, <2>3, <2>5, <2>6, OnceJudge
<1> QED
  BY <1>2, <1>3, <1>4, <1>5, <1>6

LEMMA InitOnceInv == Init => OnceInv
<1> SUFFICES ASSUME Init PROVE OnceInv
  OBVIOUS
<1>1. /\ log = <<>> /\ given = <<>> /\ request = [t \in Threads |-> Idle] /\ stamp = 0
      /\ finished = <<>>
  BY DEF Init
<1>2. Books
  BY <1>1, InitCoverInv DEF CoverInv
<1>3. Stamps
  BY <1>1 DEF Stamps, Range
<1>4. JudgedOnce /\ Range(given) = {}
  BY <1>1 DEF JudgedOnce, Range
<1>5. \A t \in Threads : Unsaid(t)
  BY <1>1 DEF Unsaid, Idle
<1> QED
  BY <1>2, <1>3, <1>4, <1>5 DEF OnceInv

LEMMA NextOnceInv ==
    ASSUME NEW t, Threads = {t}
    PROVE  OnceInv /\ [Next]_vars => OnceInv'
<1> SUFFICES ASSUME OnceInv, [Next]_vars PROVE OnceInv'
  OBVIOUS
<1>1. t \in Threads
  OBVIOUS
<1>2. CASE Step(t)
  <2>1. CASE Record(t)
    BY <1>1, <2>1, OnceVerdict, OnceRecorded
  <2>2. CASE ~Record(t)
    BY <1>1, <1>2, <2>2, OnceAppended, OnceCompleted, OnceBegun, OnceEvaluated DEF Step
  <2> QED
    BY <2>1, <2>2
<1>3. CASE Forget
  BY <1>3, OnceForgotten
<1>4. ASSUME UNCHANGED <<log, stamp, finished, request, given>> PROVE OnceInv'
  BY <1>4 DEF OnceInv, Books, IsList, Sound, Stamps, JudgedOnce, About, Shown, Unsaid, Unheard
<1>5. CASE NextDay
  BY <1>4, <1>5 DEF NextDay
<1>6. CASE UNCHANGED vars
  BY <1>4, <1>6 DEF vars
<1> QED
  BY <1>2, <1>3, <1>5, <1>6 DEF Next

\* While the learner's requests come one at a time, each decision and each
\* prediction is judged at most once: its verdict stays in the log for as long
\* as it does, wherever a request died and however the log was cut off.
THEOREM DecisionsJudgedOnce ==
    ASSUME NEW t, Threads = {t}
    PROVE  Spec => []JudgedOnce
<1>1. OnceInv => JudgedOnce
  BY DEF OnceInv
<1> QED
  BY <1>1, InitOnceInv, NextOnceInv, PTL DEF Spec

-----------------------------------------------------------------------------
(* The household.                                                           *)

\* What was asked of parents has these fields, in every version of the row.
IsRequest(r) ==
    /\ r = [what |-> r.what, status |-> r.status, expires |-> r.expires,
            decidedAt |-> r.decidedAt, followed |-> r.followed]
    /\ r.status \in {"pending", "approved", "rejected", "expired"}

AreRequests(requests) ==
    /\ requests = [id \in DOMAIN requests |-> requests[id]]
    /\ \A id \in DOMAIN requests : IsRequest(requests[id])

IsDoc(doc) ==
    /\ doc = [exists |-> doc.exists, last |-> doc.last, stalls |-> doc.stalls,
              episodes |-> doc.episodes, recoveries |-> doc.recoveries, status |-> doc.status,
              at |-> doc.at, until |-> doc.until, given |-> doc.given, accepted |-> doc.accepted,
              completed |-> doc.completed, decided |-> doc.decided, followed |-> doc.followed,
              modalities |-> doc.modalities, trajectory |-> doc.trajectory,
              requests |-> doc.requests, weekly |-> doc.weekly]
    /\ doc.stalls \in Nat /\ doc.episodes \in Nat /\ doc.recoveries \in Nat
    /\ doc.given \in Nat /\ doc.accepted \in Nat /\ doc.completed \in Nat
    /\ AreRequests(doc.requests)

\* What CountsAddUp says of the row, said of any version of it.
CountsSound(doc) ==
    /\ doc.completed + (IF doc.status = "accepted" THEN 1 ELSE 0) <= doc.accepted
    /\ doc.accepted <= doc.given
    /\ doc.episodes = doc.recoveries + (IF doc.stalls > 0 THEN 1 ELSE 0)

\* A modality whose request was approved is among the approved ones.
RowKept(requests, modalities) ==
    \A id \in DOMAIN requests :
        requests[id].status = "approved" /\ requests[id].what[1] = "modality"
            => requests[id].what[2] \in modalities

HouseholdSound(doc) == IsDoc(doc) /\ CountsSound(doc) /\ RowKept(doc.requests, doc.modalities)

\* What ApprovalOrExpiry says of the suggestion shown, said of any suggestion:
\* ok is what parents approved, gone what expired.
Justified(x, ok, gone) ==
    x.gated => x.modality \in ok \cup {"text"} \/ <<"modality", x.modality>> \in gone

IsThread(me) ==
    me = [pc |-> me.pc, doc |-> me.doc, todo |-> me.todo, existing |-> me.existing,
          suggestion |-> me.suggestion]

\* No request's version of the row has a modality that no parent approved, unless
\* the request is about to record the approval.
ThreadSound(me, ok, gone) ==
    /\ IsThread(me) /\ HouseholdSound(me.doc)
    /\ me.pc # "decide" => me.doc.modalities \subseteq ok \cup {"text"}
    /\ Justified(me.suggestion, ok, gone)

HouseholdInv ==
    /\ HouseholdSound(row) /\ row.modalities \subseteq approved \cup {"text"}
    /\ Justified(suggested, approved, lapsed)
    /\ thread = [t \in Threads |-> thread[t]]
    /\ \A t \in Threads : ThreadSound(thread[t], approved, lapsed)

-----------------------------------------------------------------------------
(* The row before anything is known, and an idle request.                   *)

LEMMA EmptyRow ==
    /\ HouseholdSound(Home!NoRow) /\ Home!NoRow.modalities = {"text"}
    /\ IsThread(Home!Idle) /\ Home!Idle.doc = Home!NoRow /\ Home!Idle.suggestion = Home!NoSuggestion /\ Home!Idle.pc = "idle"
    /\ ~Home!NoSuggestion.gated
  BY DEF HouseholdSound, IsDoc, CountsSound, RowKept, AreRequests, Home!NoRow, IsThread, Home!Idle, Home!NoSuggestion

LEMMA IdleSound == \A ok, gone : ThreadSound(Home!Idle, ok, gone)
  BY EmptyRow DEF ThreadSound, Justified

LEMMA TheInit == Home!Init => HouseholdInv
  BY EmptyRow, IdleSound DEF Home!Init, HouseholdInv, Justified

-----------------------------------------------------------------------------
(* The new row from the old one.                                            *)

LEMMA MaxOfTwo == \A n \in Nat : Home!Max({1, n}) \in Nat /\ Home!Max({1, n}) >= 1
<1> SUFFICES ASSUME NEW n \in Nat PROVE Home!Max({1, n}) \in Nat /\ Home!Max({1, n}) >= 1
  OBVIOUS
<1>1. \E x \in {1, n} : \A y \in {1, n} : x >= y
  OBVIOUS
<1>2. Home!Max({1, n}) \in {1, n} /\ \A y \in {1, n} : Home!Max({1, n}) >= y
  BY <1>1 DEF Home!Max
<1>3. QED
  BY <1>2

\* What _plan_for_learner makes of the counts.
LEMMA AdaptedSound ==
    ASSUME NEW s, NEW old, IsDoc(old), CountsSound(old), NEW requests, AreRequests(requests)
    PROVE  /\ IsDoc(Home!Adapted(s, old, requests))
           /\ CountsSound(Home!Adapted(s, old, requests))
           /\ Home!Adapted(s, old, requests).requests = requests
           /\ Home!Adapted(s, old, requests).modalities = old.modalities
           /\ Home!Adapted(s, old, requests).status = old.status
<1> DEFINE more == Home!Cardinality({i \in DOMAIN old.requests : Home!Follows(Home!Expired(old.requests)[i])})
           stalled == s.mood = "stalled"
           new == Home!Adapted(s, old, requests)
<1>1. new = [old EXCEPT
            !.exists = TRUE, !.last = lastEvent, !.trajectory = s.trajectory,
            !.requests = requests,
            !.followed = old.followed + more,
            !.episodes = IF stalled /\ old.stalls = 0 THEN old.episodes + 1 ELSE old.episodes,
            !.recoveries = IF ~stalled /\ old.stalls > 0 THEN old.recoveries + 1 ELSE old.recoveries,
            !.stalls = IF ~stalled THEN 0
                       ELSE IF ~old.exists THEN 1
                       ELSE IF old.last = lastEvent THEN Home!Max({1, old.stalls}) ELSE old.stalls + 1,
            !.weekly = IF old.weekly = Home!Never THEN today ELSE old.weekly]
  BY DEF Home!Adapted
<1> HIDE DEF more, new
<1>2. /\ new.episodes = IF stalled /\ old.stalls = 0 THEN old.episodes + 1 ELSE old.episodes
      /\ new.recoveries = IF ~stalled /\ old.stalls > 0 THEN old.recoveries + 1 ELSE old.recoveries
      /\ new.stalls = IF ~stalled THEN 0
                      ELSE IF ~old.exists THEN 1
                      ELSE IF old.last = lastEvent THEN Home!Max({1, old.stalls}) ELSE old.stalls + 1
      /\ new.completed = old.completed /\ new.status = old.status
      /\ new.accepted = old.accepted /\ new.given = old.given
      /\ new.requests = requests /\ new.modalities = old.modalities
  BY <1>1 DEF IsDoc
<1>3. /\ new = [exists |-> new.exists, last |-> new.last, stalls |-> new.stalls,
              episodes |-> new.episodes, recoveries |-> new.recoveries, status |-> new.status,
              at |-> new.at, until |-> new.until, given |-> new.given, accepted |-> new.accepted,
              completed |-> new.completed, decided |-> new.decided, followed |-> new.followed,
              modalities |-> new.modalities, trajectory |-> new.trajectory,
              requests |-> new.requests, weekly |-> new.weekly]
  BY <1>1 DEF IsDoc
<1>4. Home!Max({1, old.stalls}) \in Nat /\ Home!Max({1, old.stalls}) >= 1
  BY MaxOfTwo DEF IsDoc
<1>5. /\ old.stalls \in Nat /\ old.episodes \in Nat /\ old.recoveries \in Nat
      /\ old.given \in Nat /\ old.accepted \in Nat /\ old.completed \in Nat
  BY DEF IsDoc
<1>6. new.stalls \in Nat /\ new.episodes \in Nat /\ new.recoveries \in Nat
  BY <1>2, <1>4, <1>5
<1>7. IsDoc(new)
  BY <1>2, <1>3, <1>5, <1>6 DEF IsDoc
<1>8. new.stalls > 0 <=> stalled
  BY <1>2, <1>4, <1>5
<1>9. CountsSound(new)
  BY <1>2, <1>5, <1>8 DEF CountsSound
<1>10. QED
  BY <1>2, <1>7, <1>9 DEF new

\* An answer is settled: what it does to the counts.
Settled(new, status, until, at, completed) ==
    [new EXCEPT !.status = status, !.until = until, !.at = at, !.completed = completed]

LEMMA SettledSound ==
    ASSUME NEW new, IsDoc(new), CountsSound(new), NEW status, NEW until, NEW at,
           NEW completed \in Nat, completed <= new.accepted,
           status = "accepted" => completed + 1 <= new.accepted
    PROVE  /\ IsDoc(Settled(new, status, until, at, completed))
           /\ CountsSound(Settled(new, status, until, at, completed))
           /\ Settled(new, status, until, at, completed).requests = new.requests
           /\ Settled(new, status, until, at, completed).modalities = new.modalities
<1>0. PICK out : out = Settled(new, status, until, at, completed)
  OBVIOUS
<1>1. /\ out.completed = completed /\ out.status = status
      /\ out.stalls = new.stalls /\ out.episodes = new.episodes
      /\ out.recoveries = new.recoveries /\ out.given = new.given
      /\ out.accepted = new.accepted /\ out.requests = new.requests
      /\ out.modalities = new.modalities
  BY <1>0 DEF IsDoc, Settled
<1>2. out = [exists |-> out.exists, last |-> out.last, stalls |-> out.stalls,
            episodes |-> out.episodes, recoveries |-> out.recoveries, status |-> out.status,
            at |-> out.at, until |-> out.until, given |-> out.given, accepted |-> out.accepted,
            completed |-> out.completed, decided |-> out.decided, followed |-> out.followed,
            modalities |-> out.modalities, trajectory |-> out.trajectory,
            requests |-> out.requests, weekly |-> out.weekly]
  BY <1>0 DEF IsDoc, Settled
<1>3. IsDoc(out)
  BY <1>1, <1>2 DEF IsDoc
<1>4. CountsSound(out)
  BY <1>1 DEF CountsSound, IsDoc
<1>5. QED
  BY <1>0, <1>1, <1>3, <1>4

\* A session settles an accepted suggestion, once.
LEMMA SuggestionSound ==
    ASSUME NEW new, NEW old, IsDoc(new), CountsSound(new), new.status = old.status
    PROVE  /\ IsDoc(Home!Suggestion(new, old)) /\ CountsSound(Home!Suggestion(new, old))
           /\ Home!Suggestion(new, old).requests = new.requests
           /\ Home!Suggestion(new, old).modalities = new.modalities
<1> DEFINE out == Home!Suggestion(new, old)
<1>0. /\ new.completed \in Nat /\ new.accepted \in Nat /\ new.completed <= new.accepted
      /\ new.status = "accepted" => new.completed + 1 <= new.accepted
  BY DEF IsDoc, CountsSound
<1>1. PICK pending : pending = "pending"
  OBVIOUS
<1>2. CASE old.exists /\ old.at # Home!Never /\ lastEvent > old.at
  <2> DEFINE completed == IF old.status = "accepted" THEN new.completed + 1 ELSE new.completed
  <2>1. out = Settled(new, pending, Home!Never, lastEvent, completed)
    BY <1>1, <1>2 DEF Home!Suggestion, Settled
  <2>2. completed \in Nat /\ completed <= new.accepted
    BY <1>0
  <2> HIDE DEF out, completed
  <2>3. pending = "accepted" => completed + 1 <= new.accepted
    BY <1>1
  <2>4. QED
    BY <2>1, <2>2, <2>3, SettledSound DEF out
<1>3. CASE /\ ~(old.exists /\ old.at # Home!Never /\ lastEvent > old.at)
           /\ old.status = "snoozed" /\ old.until # Home!Never /\ old.until <= today
  <2>1. out = [new EXCEPT !.status = pending, !.until = Home!Never, !.at = today]
    BY <1>1, <1>3 DEF Home!Suggestion
  <2> HIDE DEF out
  <2>2. out = Settled(new, pending, Home!Never, today, new.completed)
    BY <2>1 DEF IsDoc, Settled
  <2>3. pending = "accepted" => new.completed + 1 <= new.accepted
    BY <1>1
  <2>4. QED
    BY <1>0, <2>2, <2>3, SettledSound DEF out
<1>4. CASE /\ ~(old.exists /\ old.at # Home!Never /\ lastEvent > old.at)
           /\ ~(old.status = "snoozed" /\ old.until # Home!Never /\ old.until <= today)
  BY <1>4 DEF Home!Suggestion
<1>5. QED
  BY <1>2, <1>3, <1>4

\* What a parent answers to a suggestion.
LEMMA AnsweredSound ==
    ASSUME NEW old, HouseholdSound(old), NEW status \in {"accepted", "deferred", "snoozed"}
    PROVE  HouseholdSound(Home!Answered(old, status))
<1> DEFINE counts == old.status # status \/ old.at = Home!Never
           new == Home!Answered(old, status)
<1>1. new = [old EXCEPT !.status = status, !.at = today,
                !.until = IF status = "snoozed" THEN today + SnoozeDays ELSE Home!Never,
                !.given = IF counts THEN old.given + 1 ELSE old.given,
                !.accepted = IF counts /\ status = "accepted" THEN old.accepted + 1
                             ELSE old.accepted]
  BY DEF Home!Answered
<1> HIDE DEF new
<1>2. /\ new.completed = old.completed /\ new.status = status
      /\ new.given = IF counts THEN old.given + 1 ELSE old.given
      /\ new.accepted = IF counts /\ status = "accepted" THEN old.accepted + 1 ELSE old.accepted
      /\ new.episodes = old.episodes /\ new.recoveries = old.recoveries /\ new.stalls = old.stalls
      /\ new.requests = old.requests /\ new.modalities = old.modalities
  BY <1>1 DEF IsDoc, HouseholdSound
<1>3. new = [exists |-> new.exists, last |-> new.last, stalls |-> new.stalls,
              episodes |-> new.episodes, recoveries |-> new.recoveries, status |-> new.status,
              at |-> new.at, until |-> new.until, given |-> new.given, accepted |-> new.accepted,
              completed |-> new.completed, decided |-> new.decided, followed |-> new.followed,
              modalities |-> new.modalities, trajectory |-> new.trajectory,
              requests |-> new.requests, weekly |-> new.weekly]
  BY <1>1 DEF IsDoc, HouseholdSound
<1>4. /\ old.completed \in Nat /\ old.given \in Nat /\ old.accepted \in Nat
      /\ old.stalls \in Nat /\ old.episodes \in Nat /\ old.recoveries \in Nat
      /\ AreRequests(old.requests)
  BY DEF HouseholdSound, IsDoc
<1>5. IsDoc(new)
  BY <1>2, <1>3, <1>4 DEF IsDoc
<1>6. CountsSound(new)
  BY <1>2, <1>4 DEF HouseholdSound, CountsSound
<1>7. RowKept(new.requests, new.modalities)
  BY <1>2 DEF HouseholdSound
<1>8. QED
  BY <1>5, <1>6, <1>7 DEF HouseholdSound, new

\* What a parent decides about a request, whatever became of it meanwhile.
LEMMA DecidedSound ==
    ASSUME NEW old, HouseholdSound(old), NEW id \in DOMAIN old.requests,
           NEW status \in {"approved", "rejected"}
    PROVE  HouseholdSound(Home!Decided(old, id, status))
<1> DEFINE its == old.requests[id]
           requests == [old.requests EXCEPT ![id] = [its EXCEPT !.status = status, !.decidedAt = today]]
           modalities == IF status = "approved" /\ its.what[1] = "modality"
                         THEN old.modalities \cup {its.what[2]} ELSE old.modalities
           new == Home!Decided(old, id, status)
<1>1. new = [old EXCEPT !.requests = requests,
                !.decided = IF its.status = "pending" THEN old.decided + 1 ELSE old.decided,
                !.modalities = modalities]
  BY DEF Home!Decided
<1>2. /\ old.requests = [i \in DOMAIN old.requests |-> old.requests[i]]
      /\ \A i \in DOMAIN old.requests : IsRequest(old.requests[i])
  BY DEF HouseholdSound, IsDoc, AreRequests
<1>3. /\ DOMAIN requests = DOMAIN old.requests
      /\ \A i \in DOMAIN requests \ {id} : requests[i] = old.requests[i]
      /\ requests[id] = [its EXCEPT !.status = status, !.decidedAt = today]
  BY <1>2
<1>4. /\ requests[id] = [what |-> its.what, status |-> status, expires |-> its.expires,
                        decidedAt |-> today, followed |-> its.followed]
  <2>1. its = [what |-> its.what, status |-> its.status, expires |-> its.expires,
               decidedAt |-> its.decidedAt, followed |-> its.followed]
    BY <1>2 DEF IsRequest
  <2> HIDE DEF its, requests
  <2>2. QED
    BY <1>3, <2>1
<1>5. AreRequests(requests)
  <2>1. requests = [i \in DOMAIN requests |-> requests[i]]
    OBVIOUS
  <2> HIDE DEF requests
  <2>2. QED
    BY <1>2, <1>3, <1>4, <2>1 DEF AreRequests, IsRequest
<1>6. RowKept(requests, modalities)
  <2>1. RowKept(old.requests, old.modalities)
    BY DEF HouseholdSound
  <2>2. old.modalities \subseteq modalities
    OBVIOUS
  <2>3. status = "approved" /\ its.what[1] = "modality" => its.what[2] \in modalities
    OBVIOUS
  <2> HIDE DEF requests, modalities
  <2>4. QED
    BY <1>3, <1>4, <2>1, <2>2, <2>3 DEF RowKept
<1> HIDE DEF new, requests, modalities
<1>7. /\ new.completed = old.completed /\ new.status = old.status
      /\ new.given = old.given /\ new.accepted = old.accepted
      /\ new.episodes = old.episodes /\ new.recoveries = old.recoveries /\ new.stalls = old.stalls
      /\ new.requests = requests /\ new.modalities = modalities
  BY <1>1 DEF IsDoc, HouseholdSound
<1>8. new = [exists |-> new.exists, last |-> new.last, stalls |-> new.stalls,
              episodes |-> new.episodes, recoveries |-> new.recoveries, status |-> new.status,
              at |-> new.at, until |-> new.until, given |-> new.given, accepted |-> new.accepted,
              completed |-> new.completed, decided |-> new.decided, followed |-> new.followed,
              modalities |-> new.modalities, trajectory |-> new.trajectory,
              requests |-> new.requests, weekly |-> new.weekly]
  BY <1>1 DEF IsDoc, HouseholdSound
<1>9. IsDoc(new) /\ CountsSound(new)
  BY <1>5, <1>7, <1>8 DEF IsDoc, HouseholdSound, CountsSound
<1>10. QED
  BY <1>6, <1>7, <1>9 DEF HouseholdSound, new

-----------------------------------------------------------------------------
(* The requests the overview goes on with.                                  *)

LEMMA NotedRequests ==
    ASSUME NEW requests, AreRequests(requests)
    PROVE  /\ AreRequests(Home!Expired(requests)) /\ AreRequests(Home!Noted(requests))
           /\ DOMAIN Home!Expired(requests) = DOMAIN requests /\ DOMAIN Home!Noted(requests) = DOMAIN requests
           /\ \A id \in DOMAIN requests :
                /\ Home!Expired(requests)[id].what = requests[id].what
                /\ Home!Expired(requests)[id].status \in {requests[id].status, "expired"}
                /\ Home!Noted(requests)[id].what = requests[id].what
                /\ Home!Noted(requests)[id].status = requests[id].status
<1>1. /\ Home!Expired(requests) = [id \in DOMAIN requests |-> Home!Expired(requests)[id]]
      /\ Home!Noted(requests) = [id \in DOMAIN requests |-> Home!Noted(requests)[id]]
  BY DEF Home!Expired, Home!Noted
<1>2. ASSUME NEW id \in DOMAIN requests
      PROVE  /\ IsRequest(Home!Expired(requests)[id]) /\ IsRequest(Home!Noted(requests)[id])
             /\ Home!Expired(requests)[id].what = requests[id].what
             /\ Home!Expired(requests)[id].status \in {requests[id].status, "expired"}
             /\ Home!Noted(requests)[id].what = requests[id].what
             /\ Home!Noted(requests)[id].status = requests[id].status
  <2> DEFINE r == requests[id]
  <2>1. /\ r = [what |-> r.what, status |-> r.status, expires |-> r.expires,
                decidedAt |-> r.decidedAt, followed |-> r.followed]
        /\ r.status \in {"pending", "approved", "rejected", "expired"}
    BY DEF AreRequests, IsRequest
  <2>2. \/ Home!Expired(requests)[id] = r
        \/ Home!Expired(requests)[id] = [r EXCEPT !.status = "expired", !.decidedAt = today]
    BY DEF Home!Expired
  <2>3. \/ Home!Noted(requests)[id] = r \/ Home!Noted(requests)[id] = [r EXCEPT !.followed = TRUE]
    BY DEF Home!Noted
  <2> HIDE DEF r
  <2>4. /\ IsRequest(Home!Expired(requests)[id]) /\ Home!Expired(requests)[id].what = r.what
        /\ Home!Expired(requests)[id].status \in {r.status, "expired"}
    BY <2>1, <2>2 DEF IsRequest
  <2>5. /\ IsRequest(Home!Noted(requests)[id]) /\ Home!Noted(requests)[id].what = r.what
        /\ Home!Noted(requests)[id].status = r.status
    BY <2>1, <2>3 DEF IsRequest
  <2>6. QED
    BY <2>4, <2>5 DEF r
<1>3. DOMAIN Home!Expired(requests) = DOMAIN requests /\ DOMAIN Home!Noted(requests) = DOMAIN requests
  BY DEF Home!Expired, Home!Noted
<1>4. QED
  BY <1>1, <1>2, <1>3 DEF AreRequests

\* A new request is pending, and takes the place of none.
LEMMA ResolvedRequests ==
    ASSUME NEW requests, AreRequests(requests), NEW candidates
    PROVE  /\ AreRequests(Home!Resolved(requests, candidates))
           /\ \A id \in DOMAIN Home!Resolved(requests, candidates) :
                \/ id \in DOMAIN requests /\ Home!Resolved(requests, candidates)[id] = requests[id]
                \/ Home!Resolved(requests, candidates)[id].status = "pending"
<1> DEFINE fresh == {i \in DOMAIN candidates : Home!Asked(requests, candidates[i].what) = {}}
           ids == DOMAIN requests \cup {issued + i : i \in fresh}
           New(id) == [what |-> candidates[id - issued].what, status |-> "pending",
                       expires |-> today + candidates[id - issued].life,
                       decidedAt |-> Home!Never, followed |-> FALSE]
           out == Home!Resolved(requests, candidates)
<1>1. out = [id \in ids |-> IF id \in DOMAIN requests THEN requests[id] ELSE New(id)]
  BY DEF Home!Resolved
<1>2. DOMAIN out = ids /\ \A id \in ids : out[id] = IF id \in DOMAIN requests THEN requests[id] ELSE New(id)
  BY <1>1
<1>3. out = [id \in DOMAIN out |-> out[id]]
  BY <1>1
<1> HIDE DEF ids, out
<1>4. ASSUME NEW id \in DOMAIN out
      PROVE  /\ IsRequest(out[id])
             /\ \/ id \in DOMAIN requests /\ out[id] = requests[id]
                \/ out[id].status = "pending"
  <2>1. CASE id \in DOMAIN requests
    BY <1>2, <2>1 DEF AreRequests
  <2>2. CASE id \notin DOMAIN requests
    BY <1>2, <2>2 DEF IsRequest
  <2>3. QED
    BY <2>1, <2>2
<1>5. QED
  BY <1>3, <1>4 DEF AreRequests, out

\* While approvals are required, what is offered is approved, or the request for it
\* expired: a request that is pending or was rejected blocks it, one that is new too.
LEMMA OfferJustified ==
    ASSUME NEW s, NEW rollout, NEW old, HouseholdSound(old), NEW new, NEW cadence,
           NEW gone, NEW blocked, NEW candidates,
           candidates = IF rollout.approvals
                        THEN Home!Candidates(s, old, Home!Expired(old.requests), cadence) ELSE <<>>,
           blocked <=> \E i \in DOMAIN candidates :
                         Home!Blocks(Home!Noted(Home!Expired(old.requests)), candidates[i].what),
           \A id \in DOMAIN old.requests :
             Home!Expired(old.requests)[id].status = "expired"
               => Home!Expired(old.requests)[id].what \in gone
    PROVE  Justified(Home!Offer(s, new, cadence, blocked, rollout), old.modalities, gone)
<1> DEFINE current == Home!Expired(old.requests)
           noted == Home!Noted(current)
           what == <<"modality", s.modality>>
<1> SUFFICES ASSUME rollout.approvals, ~blocked, s.modality \notin old.modalities
             PROVE  what \in gone
  BY EmptyRow DEF Home!Offer, Justified
<1>1. \E i \in DOMAIN candidates : candidates[i].what = what
  <2> DEFINE first == [what |-> what, life |-> ApprovalLife]
             second == [what |-> <<"trajectory", s.trajectory>>, life |-> ApprovalLife]
             third == [what |-> <<cadence, s.trajectory>>, life |-> AutonomyLife]
             all == {first, second, third}
  <2>1. PICK A, B, C : /\ A = <<first>> /\ B \in {<<second>>, <<>>} /\ C \in {<<third>>, <<>>}
                       /\ candidates = A \o B \o C
    BY DEF Home!Candidates
  <2>2. A \in Seq(all) /\ B \in Seq(all) /\ C \in Seq(all) /\ Len(A) = 1 /\ A[1] = first
    <3>1. PICK x, y, z, S : x = first /\ y = second /\ z = third /\ S = all
      OBVIOUS
    <3>2. x \in S /\ y \in S /\ z \in S
      BY <3>1
    <3>3. A = <<x>> /\ (B = <<y>> \/ B = <<>>) /\ (C = <<z>> \/ C = <<>>)
      BY <2>1, <3>1
    <3> HIDE DEF all, first, second, third
    <3>4. A \in Seq(S) /\ Len(A) = 1 /\ A[1] = x
      BY <3>2, <3>3
    <3>5. B \in Seq(S)
      <4>1. CASE B = <<y>>
        BY <3>2, <4>1
      <4>2. CASE B = <<>>
        BY <4>2
      <4>3. QED
        BY <3>3, <4>1, <4>2
    <3>6. C \in Seq(S)
      <4>1. CASE C = <<z>>
        BY <3>2, <4>1
      <4>2. CASE C = <<>>
        BY <4>2
      <4>3. QED
        BY <3>3, <4>1, <4>2
    <3>7. QED
      BY <3>1, <3>4, <3>5, <3>6
  <2> HIDE DEF all, first
  <2>3. 1 \in DOMAIN candidates /\ candidates[1] = first
    BY <2>1, <2>2
  <2>4. QED
    BY <2>3 DEF first
<1>2. ~Home!Blocks(noted, what)
  BY <1>1
<1>3. /\ AreRequests(old.requests) /\ RowKept(old.requests, old.modalities)
  BY DEF HouseholdSound, IsDoc
<1>4. AreRequests(current)
  BY <1>3, NotedRequests
<1> HIDE DEF what
<1>5. PICK id \in DOMAIN noted : noted[id].what = what /\ noted[id].status \notin {"pending", "rejected"}
  BY <1>2 DEF Home!Blocks, Home!LastAsked, Home!Asked
<1> HIDE DEF current, noted
<1>6. /\ id \in DOMAIN current /\ current[id].what = what
      /\ current[id].status \in {"approved", "expired"}
  <2>1. /\ DOMAIN noted = DOMAIN current /\ noted[id].what = current[id].what
        /\ noted[id].status = current[id].status
    BY <1>4, <1>5, NotedRequests DEF noted
  <2>2. current[id].status \in {"pending", "approved", "rejected", "expired"}
    BY <1>4, <1>5, <2>1 DEF AreRequests, IsRequest
  <2>3. QED
    BY <1>5, <2>1, <2>2
<1>7. /\ id \in DOMAIN old.requests /\ old.requests[id].what = what
      /\ current[id].status \in {old.requests[id].status, "expired"}
  BY <1>3, <1>6, NotedRequests DEF current
<1>8. current[id].status = "expired" => what \in gone
  BY <1>6, <1>7 DEF current
<1>9. CASE current[id].status = "approved"
  <2>1. old.requests[id].status = "approved"
    BY <1>7, <1>9
  <2>2. s.modality \in old.modalities
    BY <1>3, <1>7, <2>1 DEF RowKept, what
  <2>3. QED
    BY <2>2
<1>10. QED
  BY <1>6, <1>8, <1>9

-----------------------------------------------------------------------------
(* What one look at the household works out from the row.                   *)

LEMMA OverviewPlans ==
    ASSUME NEW t \in Threads, Home!Overview(t)
    PROVE  \E s \in Summaries, rollout \in Rollouts :
             thread' = [thread EXCEPT ![t] =
                IF ~Home!Valid(Home!PlannedRow(s, rollout)) THEN Home!Idle ELSE Home!Planning(s, rollout)]
  BY DEF Home!Overview

-----------------------------------------------------------------------------
(* The steps of a request.                                                  *)

\* What parents approved, and what expired, stays so.
LEMMA StaysSound ==
    ASSUME NEW me, NEW ok, NEW gone, ThreadSound(me, ok, gone),
           NEW ok2, NEW gone2, ok \subseteq ok2, gone \subseteq gone2
    PROVE  ThreadSound(me, ok2, gone2)
  BY DEF ThreadSound, Justified

LEMMA OneMoves ==
    ASSUME HouseholdInv, NEW t \in Threads, NEW me, thread' = [thread EXCEPT ![t] = me],
           approved \subseteq approved', lapsed \subseteq lapsed',
           ThreadSound(me, approved', lapsed'),
           HouseholdSound(row'), row'.modalities \subseteq approved' \cup {"text"},
           Justified(suggested', approved', lapsed')
    PROVE  HouseholdInv'
<1>1. thread' = [u \in Threads |-> IF u = t THEN me ELSE thread[u]]
  BY DEF HouseholdInv
<1>2. \A u \in Threads : ThreadSound(thread'[u], approved', lapsed')
  BY <1>1, StaysSound DEF HouseholdInv
<1>3. QED
  BY <1>1, <1>2 DEF HouseholdInv

LEMMA NothingMoves ==
    ASSUME HouseholdInv, UNCHANGED <<row, thread, approved, lapsed>>,
           suggested' \in {suggested, Home!NoSuggestion}
    PROVE  HouseholdInv'
  BY EmptyRow DEF HouseholdInv, Justified

\* Between the database's statements only the request itself moves on.
LEMMA OnlyThread ==
    ASSUME HouseholdInv, NEW t \in Threads, NEW me, thread' = [thread EXCEPT ![t] = me],
           UNCHANGED <<row, suggested, approved, lapsed>>,
           ThreadSound(me, approved, lapsed)
    PROVE  HouseholdInv'
<1>1. /\ ThreadSound(me, approved', lapsed') /\ HouseholdSound(row')
      /\ row'.modalities \subseteq approved' \cup {"text"}
      /\ Justified(suggested', approved', lapsed')
      /\ approved \subseteq approved' /\ lapsed \subseteq lapsed'
  BY DEF HouseholdInv
<1>2. QED
  BY <1>1, OneMoves

LEMMA OverviewStep == ASSUME HouseholdInv, NEW t \in Threads, Home!Overview(t) PROVE HouseholdInv'
<1>1. PICK s \in Summaries, rollout \in Rollouts :
        thread' = [thread EXCEPT ![t] =
            IF ~Home!Valid(Home!PlannedRow(s, rollout)) THEN Home!Idle ELSE Home!Planning(s, rollout)]
  BY OverviewPlans
<1>2. /\ lapsed' = lapsed \cup {Home!Expired(row.requests)[id].what : id \in
                        {id \in DOMAIN Home!Expired(row.requests) :
                            Home!Expired(row.requests)[id].status = "expired"}}
      /\ UNCHANGED <<row, suggested, approved>>
  BY DEF Home!Overview
<1>3. PICK current, cadence, candidates :
        /\ current = Home!Expired(row.requests) /\ cadence = Home!CadenceOf(s)
        /\ candidates = Home!CandidatesOf(s, rollout)
  OBVIOUS
<1>4. PICK noted, new, blocked :
        noted = Home!Noted(current) /\ new = Home!PlannedRow(s, rollout) /\ blocked = Home!Stopped(s, rollout)
  OBVIOUS
<1>5. /\ current = Home!Expired(row.requests) /\ noted = Home!Noted(current)
      /\ candidates = IF rollout.approvals
                      THEN Home!Candidates(s, row, current, cadence) ELSE <<>>
      /\ new = Home!Suggestion(Home!Adapted(s, row, Home!Resolved(noted, candidates)), row)
      /\ blocked = \E i \in DOMAIN candidates : Home!Blocks(noted, candidates[i].what)
      /\ thread' = [thread EXCEPT ![t] =
             IF ~Home!Valid(new) THEN Home!Idle
             ELSE [Home!Idle EXCEPT !.pc = "save", !.doc = new,
                     !.todo = IF rollout.outbound THEN Home!Emitted(new, row) ELSE <<>>,
                     !.suggestion = Home!Offer(s, new, cadence, blocked, rollout)]]
      /\ lapsed' = lapsed \cup {current[id].what : id \in
                                    {id \in DOMAIN current : current[id].status = "expired"}}
      /\ UNCHANGED <<row, suggested, approved>>
  BY <1>1, <1>2, <1>3, <1>4 DEF Home!CadenceOf, Home!CandidatesOf, Home!PlannedRow, Home!Stopped, Home!Planning
<1>6. /\ HouseholdSound(row) /\ IsDoc(row) /\ CountsSound(row)
      /\ AreRequests(row.requests) /\ RowKept(row.requests, row.modalities)
  BY DEF HouseholdInv, HouseholdSound, IsDoc
<1>7. /\ AreRequests(current) /\ AreRequests(noted) /\ DOMAIN noted = DOMAIN row.requests
      /\ DOMAIN current = DOMAIN row.requests
      /\ \A id \in DOMAIN row.requests :
           /\ noted[id].what = row.requests[id].what
           /\ noted[id].status \in {row.requests[id].status, "expired"}
  <2>1. /\ AreRequests(current) /\ DOMAIN current = DOMAIN row.requests
        /\ \A id \in DOMAIN row.requests :
             /\ current[id].what = row.requests[id].what
             /\ current[id].status \in {row.requests[id].status, "expired"}
    BY <1>5, <1>6, NotedRequests
  <2>2. /\ AreRequests(noted) /\ DOMAIN noted = DOMAIN current
        /\ \A id \in DOMAIN current :
             noted[id].what = current[id].what /\ noted[id].status = current[id].status
    BY <1>5, <2>1, NotedRequests
  <2>3. QED
    BY <2>1, <2>2
<1>8. HouseholdSound(new) /\ new.modalities = row.modalities
  <2>1. PICK requests, mid : /\ requests = Home!Resolved(noted, candidates)
                             /\ mid = Home!Adapted(s, row, requests)
    OBVIOUS
  <2>2. /\ AreRequests(requests)
        /\ \A id \in DOMAIN requests :
             \/ id \in DOMAIN noted /\ requests[id] = noted[id]
             \/ requests[id].status = "pending"
    BY <1>7, <2>1, ResolvedRequests
  <2>3. /\ IsDoc(mid) /\ CountsSound(mid) /\ mid.requests = requests
        /\ mid.modalities = row.modalities /\ mid.status = row.status
    BY <1>6, <2>1, <2>2, AdaptedSound
  <2>4. /\ IsDoc(new) /\ CountsSound(new) /\ new.requests = requests
        /\ new.modalities = row.modalities
    BY <1>5, <2>1, <2>3, SuggestionSound
  <2>5. RowKept(requests, row.modalities)
    <3> SUFFICES ASSUME NEW id \in DOMAIN requests,
                        requests[id].status = "approved", requests[id].what[1] = "modality"
                 PROVE  requests[id].what[2] \in row.modalities
      BY DEF RowKept
    <3>1. id \in DOMAIN row.requests /\ requests[id] = noted[id]
      BY <1>7, <2>2
    <3>2. row.requests[id].status = "approved" /\ row.requests[id].what = requests[id].what
      BY <1>7, <3>1
    <3>3. QED
      BY <1>6, <3>1, <3>2 DEF RowKept
  <2>6. QED
    BY <2>4, <2>5 DEF HouseholdSound
<1>9. PICK offer : offer = Home!Offer(s, new, cadence, blocked, rollout)
  OBVIOUS
<1>10. Justified(offer, row.modalities, lapsed')
  <2>1. \A id \in DOMAIN row.requests : current[id].status = "expired" => current[id].what \in lapsed'
    BY <1>5, <1>7
  <2>2. QED
    BY <1>5, <1>6, <1>9, <2>1, OfferJustified
<1>11. Justified(offer, approved', lapsed')
  BY <1>5, <1>10 DEF HouseholdInv, Justified
<1>12. lapsed \subseteq lapsed'
  BY <1>5
<1>13. PICK me : /\ thread' = [thread EXCEPT ![t] = me]
                 /\ \/ me = Home!Idle
                    \/ \E todo : me = [Home!Idle EXCEPT !.pc = "save", !.doc = new, !.todo = todo,
                                                   !.suggestion = offer]
  BY <1>5, <1>9
<1>14. ThreadSound(me, approved', lapsed')
  <2>1. CASE me = Home!Idle
    BY <2>1, IdleSound
  <2>2. CASE \E todo : me = [Home!Idle EXCEPT !.pc = "save", !.doc = new, !.todo = todo,
                                         !.suggestion = offer]
    <3>1. IsThread(me) /\ me.pc = "save" /\ me.doc = new /\ me.suggestion = offer
      BY <2>2 DEF IsThread, Home!Idle
    <3>2. new.modalities \subseteq approved' \cup {"text"}
      BY <1>5, <1>8 DEF HouseholdInv
    <3>3. QED
      BY <1>8, <1>11, <3>1, <3>2 DEF ThreadSound
  <2>3. QED
    BY <1>13, <2>1, <2>2
<1>15. /\ HouseholdSound(row') /\ row'.modalities \subseteq approved' \cup {"text"}
       /\ Justified(suggested', approved', lapsed')
  BY <1>5, <1>12 DEF HouseholdInv, Justified
<1>16. QED
  BY <1>5, <1>12, <1>13, <1>14, <1>15, OneMoves

LEMMA SaveStep == ASSUME HouseholdInv, NEW t \in Threads, Home!Save(t) PROVE HouseholdInv'
<1>1. PICK me : me = [thread[t] EXCEPT !.pc = "notify", !.doc = Home!NoRow]
  OBVIOUS
<1>2. ThreadSound(thread[t], approved, lapsed) /\ thread[t].pc = "save"
  BY DEF HouseholdInv, Home!Save, Home!At
<1>3. thread' = [thread EXCEPT ![t] = me]
  BY <1>1 DEF Home!Save, HouseholdInv
<1>4. ThreadSound(me, approved, lapsed)
  <2>1. /\ IsThread(me) /\ me.doc = Home!NoRow /\ me.suggestion = thread[t].suggestion
    BY <1>1, <1>2 DEF IsThread, ThreadSound
  <2>2. QED
    BY <1>2, <2>1, EmptyRow DEF ThreadSound
<1>5. /\ row' = thread[t].doc /\ UNCHANGED <<suggested, approved, lapsed>>
  BY DEF Home!Save, Home!histories
<1>6. /\ HouseholdSound(row') /\ row'.modalities \subseteq approved' \cup {"text"}
      /\ Justified(suggested', approved', lapsed')
  BY <1>2, <1>5 DEF ThreadSound, HouseholdInv
<1>7. QED
  BY <1>3, <1>4, <1>5, <1>6, OneMoves

\* A request that goes on with its notifications keeps its suggestion.
LEMMA NotifyStep ==
    ASSUME HouseholdInv, NEW t \in Threads, Home!NotifyRead(t) \/ Home!NotifyWrite(t) PROVE HouseholdInv'
<1>1. ThreadSound(thread[t], approved, lapsed) /\ thread[t].pc # "decide"
  BY DEF HouseholdInv, Home!NotifyRead, Home!NotifyWrite, Home!At
<1>2. PICK me : /\ thread' = [thread EXCEPT ![t] = me]
                /\ \/ me = Home!Idle
                   \/ \E x : me = [thread[t] EXCEPT !.pc = "upsert", !.existing = x]
                   \/ \E x : me = [thread[t] EXCEPT !.pc = "notify", !.todo = x]
  <2>1. CASE Home!NotifyRead(t)
    <3>1. thread' = [thread EXCEPT ![t] = [thread[t] EXCEPT !.pc = "upsert",
            !.existing = IF Home!Known(Head(thread[t].todo)) THEN notifications[Head(thread[t].todo)]
                         ELSE Home!None]]
      BY <2>1 DEF Home!NotifyRead, HouseholdInv
    <3>2. QED
      BY <3>1
  <2>2. CASE Home!NotifyWrite(t)
    BY <2>2 DEF Home!NotifyWrite
  <2>3. QED
    BY <2>1, <2>2
<1>3. ThreadSound(me, approved, lapsed)
  <2>1. CASE me = Home!Idle
    BY <2>1, IdleSound
  <2>2. CASE me # Home!Idle
    <3>1. /\ IsThread(me) /\ me.doc = thread[t].doc /\ me.suggestion = thread[t].suggestion
      BY <1>1, <1>2, <2>2 DEF IsThread, ThreadSound
    <3>2. QED
      BY <1>1, <3>1 DEF ThreadSound
  <2>3. QED
    BY <2>1, <2>2
<1>4. UNCHANGED <<row, suggested, approved, lapsed>>
  BY DEF Home!NotifyRead, Home!NotifyWrite, Home!histories
<1>5. QED
  BY <1>2, <1>3, <1>4, OnlyThread

LEMMA ListStep == ASSUME HouseholdInv, NEW t \in Threads, Home!List(t) PROVE HouseholdInv'
<1>1. /\ thread' = [thread EXCEPT ![t] = Home!Idle] /\ suggested' = thread[t].suggestion
      /\ UNCHANGED <<row, approved, lapsed>>
  BY DEF Home!List, Home!histories
<1>2. /\ Justified(suggested', approved', lapsed') /\ ThreadSound(Home!Idle, approved', lapsed')
      /\ HouseholdSound(row') /\ row'.modalities \subseteq approved' \cup {"text"}
  BY <1>1, IdleSound DEF HouseholdInv, ThreadSound
<1>3. QED
  BY <1>1, <1>2, OneMoves

\* What a parent does to a notification, or a request that dies.
LEMMA HandleOrFail ==
    ASSUME HouseholdInv, NEW t \in Threads, Home!HandleNotification(t) \/ Home!Fail(t) PROVE HouseholdInv'
<1>1. ThreadSound(thread[t], approved, lapsed)
  BY DEF HouseholdInv
<1>2. PICK me : /\ thread' = [thread EXCEPT ![t] = me]
                /\ \/ me = Home!Idle
                   \/ thread[t].pc = "idle" /\ me = [thread[t] EXCEPT !.pc = "overview"]
  <2>1. CASE Home!HandleNotification(t)
    <3>1. /\ thread' = [thread EXCEPT ![t] = [thread[t] EXCEPT !.pc = "overview"]]
          /\ thread[t].pc = "idle"
      BY <2>1 DEF Home!HandleNotification, Home!At, HouseholdInv
    <3>2. QED
      BY <3>1
  <2>2. CASE Home!Fail(t)
    BY <2>2 DEF Home!Fail
  <2>3. QED
    BY <2>1, <2>2
<1>3. ThreadSound(me, approved, lapsed)
  <2>1. CASE me = Home!Idle
    BY <2>1, IdleSound
  <2>2. CASE thread[t].pc = "idle" /\ me = [thread[t] EXCEPT !.pc = "overview"]
    <3>1. /\ IsThread(me) /\ me.doc = thread[t].doc /\ me.suggestion = thread[t].suggestion
      BY <1>1, <2>2 DEF IsThread, ThreadSound
    <3>2. QED
      BY <1>1, <2>2, <3>1 DEF ThreadSound
  <2>3. QED
    BY <1>2, <2>1, <2>2
<1>4. UNCHANGED <<row, suggested, approved, lapsed>>
  BY DEF Home!HandleNotification, Home!Fail, Home!histories
<1>5. QED
  BY <1>2, <1>3, <1>4, OnlyThread

LEMMA DecideStep ==
    ASSUME HouseholdInv, NEW t \in Threads, Home!AnswerSuggestion(t) \/ Home!AnswerApproval(t) PROVE HouseholdInv'
<1>1. HouseholdSound(row)
  BY DEF HouseholdInv
<1>2. PICK new : HouseholdSound(new) /\ Home!Decide(t, new)
  <2>1. CASE Home!AnswerSuggestion(t)
    BY <1>1, <2>1, AnsweredSound DEF Home!AnswerSuggestion
  <2>2. CASE Home!AnswerApproval(t)
    BY <1>1, <2>2, DecidedSound DEF Home!AnswerApproval
  <2>3. QED
    BY <2>1, <2>2
<1>3. PICK me : me = [Home!Idle EXCEPT !.pc = "decide", !.doc = new]
  OBVIOUS
<1>4. thread' = [thread EXCEPT ![t] = me] /\ UNCHANGED <<row, suggested, approved, lapsed>>
  BY <1>2, <1>3 DEF Home!Decide
<1>5. ThreadSound(me, approved, lapsed)
  <2>1. IsThread(me) /\ me.pc = "decide" /\ me.doc = new /\ me.suggestion = Home!NoSuggestion
    BY <1>3 DEF IsThread, Home!Idle
  <2>2. QED
    BY <1>2, <2>1, EmptyRow DEF ThreadSound, Justified
<1>6. QED
  BY <1>4, <1>5, OnlyThread

LEMMA WriteStep == ASSUME HouseholdInv, NEW t \in Threads, Home!WriteDecision(t) PROVE HouseholdInv'
<1>1. PICK me : me = [Home!Idle EXCEPT !.pc = "overview"]
  OBVIOUS
<1>2. /\ thread' = [thread EXCEPT ![t] = me] /\ row' = thread[t].doc
      /\ approved' = approved \cup row'.modalities /\ lapsed' = lapsed
      /\ suggested' = suggested
  BY <1>1 DEF Home!WriteDecision
<1>3. \A ok, gone : ThreadSound(me, ok, gone)
  <2>1. IsThread(me) /\ me.doc = Home!NoRow /\ me.suggestion = Home!NoSuggestion
    BY <1>1, EmptyRow DEF IsThread, Home!Idle
  <2>2. QED
    BY <2>1, EmptyRow DEF ThreadSound, Justified
<1>4. HouseholdSound(row') /\ row'.modalities \subseteq approved' \cup {"text"}
  BY <1>2 DEF HouseholdInv, ThreadSound
<1>5. Justified(suggested', approved', lapsed') /\ approved \subseteq approved'
  BY <1>2 DEF HouseholdInv, Justified
<1>6. QED
  BY <1>2, <1>3, <1>4, <1>5, OneMoves

LEMMA EveryStep == HouseholdInv /\ [Home!Next]_Home!vars => HouseholdInv'
<1> SUFFICES ASSUME HouseholdInv, [Home!Next]_Home!vars PROVE HouseholdInv'
  OBVIOUS
<1>1. CASE Home!Work
  BY <1>1, NothingMoves DEF Home!Work, Home!histories
<1>2. CASE Home!Tomorrow
  BY <1>2, NothingMoves DEF Home!Tomorrow, Home!histories
<1>3. CASE UNCHANGED Home!vars
  BY <1>3, NothingMoves DEF Home!vars, Home!histories
<1>4. ASSUME NEW t \in Threads,
             \/ Home!Overview(t) \/ Home!Save(t) \/ Home!NotifyRead(t) \/ Home!NotifyWrite(t) \/ Home!List(t)
             \/ Home!HandleNotification(t) \/ Home!AnswerSuggestion(t) \/ Home!AnswerApproval(t)
             \/ Home!WriteDecision(t) \/ Home!Fail(t)
      PROVE  HouseholdInv'
  BY <1>4, OverviewStep, SaveStep, NotifyStep, ListStep, HandleOrFail, DecideStep, WriteStep
<1>5. QED
  BY <1>1, <1>2, <1>3, <1>4 DEF Home!Next

-----------------------------------------------------------------------------
\* Whatever requests overlap, fail or write the row over each other, a suggestion
\* is completed at most once for each time it was accepted, and the learner has
\* recovered from every stall but the last.
THEOREM CountsStaySound == Home!Spec => []CountsAddUp
<1>1. HouseholdInv => CountsAddUp
  BY DEF HouseholdInv, HouseholdSound, CountsSound, CountsAddUp
<1>2. QED
  BY <1>1, TheInit, EveryStep, PTL DEF Home!Spec

\* A session in a modality that needs an approval is offered only when it was
\* approved, or when the request for it expired unanswered.
THEOREM OffersAreJustified == Home!Spec => []ApprovalOrExpiry
<1>1. HouseholdInv => ApprovalOrExpiry
  BY DEF HouseholdInv, Justified, ApprovalOrExpiry
<1>2. QED
  BY <1>1, TheInit, EveryStep, PTL DEF Home!Spec

-----------------------------------------------------------------------------
(* What a parent dismissed stays away.                                      *)

OneAtATime == \A t \in Threads : ~Home!At(t, "idle") => \A u \in Threads \ {t} : Home!At(u, "idle")

DismissedIsKept ==
    \A key \in dismissed : Home!Known(key) /\ notifications[key].status = "dismissed"

\* What was read before a notification is written is still true when it is.
LookIsFresh ==
    \A t \in Threads : Home!At(t, "upsert") =>
        thread[t].existing = IF Home!Known(Head(thread[t].todo))
                             THEN notifications[Head(thread[t].todo)] ELSE Home!None

StaysInv ==
    ~overlap => OneAtATime /\ DismissedIsKept /\ LookIsFresh /\ dismissed \cap shown = {}

\* While requests come one at a time, the others are idle when one moves.
LEMMA AloneMoves ==
    ASSUME HouseholdInv, StaysInv, NEW t \in Threads, NEW me, thread' = [thread EXCEPT ![t] = me],
           ~overlap', overlap => overlap',
           Home!At(t, "idle") => overlap' = (overlap \/ \E u \in Threads \ {t} : ~Home!At(u, "idle"))
    PROVE  /\ ~overlap /\ OneAtATime' /\ DismissedIsKept /\ LookIsFresh
           /\ dismissed \cap shown = {}
           /\ thread'[t] = me /\ \A u \in Threads \ {t} : thread'[u].pc = "idle"
<1>1. ~overlap /\ OneAtATime /\ DismissedIsKept /\ LookIsFresh /\ dismissed \cap shown = {}
  BY DEF StaysInv
<1>2. thread'[t] = me /\ \A u \in Threads \ {t} : thread'[u] = thread[u]
  BY DEF HouseholdInv
<1>3. \A u \in Threads \ {t} : thread[u].pc = "idle"
  BY <1>1 DEF OneAtATime, Home!At
<1>4. OneAtATime'
  BY <1>2, <1>3 DEF OneAtATime, Home!At
<1>5. QED
  BY <1>1, <1>2, <1>3, <1>4

\* A step that leaves the notifications alone, and no request about to write one.
LEMMA HouseholdQuietStep ==
    ASSUME HouseholdInv, StaysInv, NEW t \in Threads, NEW me, thread' = [thread EXCEPT ![t] = me],
           overlap => overlap',
           Home!At(t, "idle") => overlap' = (overlap \/ \E u \in Threads \ {t} : ~Home!At(u, "idle")),
           UNCHANGED <<notifications, dismissed, shown>>, me.pc # "upsert"
    PROVE  StaysInv'
<1> SUFFICES ASSUME ~overlap'
             PROVE  (OneAtATime /\ DismissedIsKept /\ LookIsFresh /\ dismissed \cap shown = {})'
  BY DEF StaysInv
<1>1. /\ OneAtATime' /\ DismissedIsKept /\ dismissed \cap shown = {}
      /\ thread'[t] = me /\ \A u \in Threads \ {t} : thread'[u].pc = "idle"
  BY AloneMoves
<1>2. LookIsFresh'
  BY <1>1 DEF LookIsFresh, Home!At
<1>3. DismissedIsKept' /\ (dismissed \cap shown = {})'
  BY <1>1 DEF DismissedIsKept, Home!Known
<1>4. QED
  BY <1>1, <1>2, <1>3

LEMMA OtherSteps ==
    ASSUME HouseholdInv, StaysInv, NEW t \in Threads,
           \/ Home!Overview(t) \/ Home!Save(t) \/ Home!AnswerSuggestion(t) \/ Home!AnswerApproval(t)
           \/ Home!WriteDecision(t) \/ Home!Fail(t)
    PROVE  StaysInv'
<1>1. IsThread(thread[t])
  BY DEF HouseholdInv, ThreadSound
<1>2. IsThread(Home!Idle) /\ Home!Idle.pc = "idle"
  BY EmptyRow
<1>3. CASE Home!Overview(t)
  <2>1. PICK me : thread' = [thread EXCEPT ![t] = me] /\ me.pc # "upsert"
    <3>1. PICK s \in Summaries, rollout \in Rollouts :
            thread' = [thread EXCEPT ![t] =
                IF ~Home!Valid(Home!PlannedRow(s, rollout)) THEN Home!Idle ELSE Home!Planning(s, rollout)]
      BY <1>3, OverviewPlans
    <3>2. Home!Idle.pc # "upsert" /\ Home!Planning(s, rollout).pc # "upsert"
      BY <1>2 DEF Home!Planning, Home!Idle
    <3>3. QED
      BY <3>1, <3>2
  <2>2. /\ overlap' = (overlap \/ \E u \in Threads \ {t} : ~Home!At(u, "idle"))
        /\ UNCHANGED <<notifications, dismissed, shown>>
    BY <1>3 DEF Home!Overview
  <2>3. QED
    BY <2>1, <2>2, HouseholdQuietStep
<1>4. CASE Home!Save(t)
  <2>1. PICK me : me = [thread[t] EXCEPT !.pc = "notify", !.doc = Home!NoRow]
    OBVIOUS
  <2>2. thread' = [thread EXCEPT ![t] = me]
    BY <1>4, <2>1 DEF Home!Save, HouseholdInv
  <2>3. me.pc = "notify"
    BY <1>1, <2>1 DEF IsThread
  <2>4. ~Home!At(t, "idle") /\ UNCHANGED <<notifications, dismissed, shown, overlap>>
    BY <1>4 DEF Home!Save, Home!At, Home!histories
  <2>5. QED
    BY <2>2, <2>3, <2>4, HouseholdQuietStep
<1>5. CASE Home!AnswerSuggestion(t) \/ Home!AnswerApproval(t)
  <2>1. PICK new : Home!Decide(t, new)
    BY <1>5 DEF Home!AnswerSuggestion, Home!AnswerApproval
  <2>2. PICK me : me = [Home!Idle EXCEPT !.pc = "decide", !.doc = new]
    OBVIOUS
  <2>3. /\ thread' = [thread EXCEPT ![t] = me]
        /\ overlap' = (overlap \/ \E u \in Threads \ {t} : ~Home!At(u, "idle"))
        /\ UNCHANGED <<notifications, dismissed, shown>>
    BY <2>1, <2>2 DEF Home!Decide
  <2>4. me.pc = "decide"
    BY <2>2 DEF Home!Idle
  <2>5. QED
    BY <2>3, <2>4, HouseholdQuietStep
<1>6. CASE Home!WriteDecision(t)
  <2>1. PICK me : me = [Home!Idle EXCEPT !.pc = "overview"]
    OBVIOUS
  <2>2. /\ thread' = [thread EXCEPT ![t] = me] /\ ~Home!At(t, "idle")
        /\ UNCHANGED <<notifications, dismissed, shown, overlap>>
    BY <1>6, <2>1 DEF Home!WriteDecision, Home!At
  <2>3. me.pc = "overview"
    BY <2>1 DEF Home!Idle
  <2>4. QED
    BY <2>2, <2>3, HouseholdQuietStep
<1>7. CASE Home!Fail(t)
  <2>1. /\ thread' = [thread EXCEPT ![t] = Home!Idle] /\ ~Home!At(t, "idle")
        /\ UNCHANGED <<notifications, dismissed, shown, overlap>>
    BY <1>7 DEF Home!Fail, Home!histories
  <2>2. QED
    BY <1>2, <2>1, HouseholdQuietStep
<1>8. QED
  BY <1>3, <1>4, <1>5, <1>6, <1>7

LEMMA ReadStays == ASSUME HouseholdInv, StaysInv, NEW t \in Threads, Home!NotifyRead(t) PROVE StaysInv'
<1> SUFFICES ASSUME ~overlap'
             PROVE  (OneAtATime /\ DismissedIsKept /\ LookIsFresh /\ dismissed \cap shown = {})'
  BY DEF StaysInv
<1> DEFINE key == Head(thread[t].todo)
<1>1. PICK me : me = [thread[t] EXCEPT !.pc = "upsert",
                        !.existing = IF Home!Known(key) THEN notifications[key] ELSE Home!None]
  OBVIOUS
<1>2. /\ thread' = [thread EXCEPT ![t] = me] /\ ~Home!At(t, "idle")
      /\ UNCHANGED <<notifications, dismissed, shown, overlap>>
  BY <1>1 DEF Home!NotifyRead, HouseholdInv, Home!histories, Home!At
<1>3. /\ OneAtATime' /\ DismissedIsKept /\ dismissed \cap shown = {}
      /\ thread'[t] = me /\ \A u \in Threads \ {t} : thread'[u].pc = "idle"
  BY <1>2, AloneMoves
<1>4. me.existing = (IF Home!Known(key) THEN notifications[key] ELSE Home!None) /\ me.todo = thread[t].todo
  BY <1>1 DEF HouseholdInv, ThreadSound, IsThread
<1>5. LookIsFresh'
  BY <1>2, <1>3, <1>4 DEF LookIsFresh, Home!At, Home!Known
<1>6. DismissedIsKept' /\ (dismissed \cap shown = {})'
  BY <1>2, <1>3 DEF DismissedIsKept, Home!Known
<1>7. QED
  BY <1>3, <1>5, <1>6

\* What is emitted again under a key that was dismissed stays dismissed.
LEMMA WriteStays == ASSUME HouseholdInv, StaysInv, NEW t \in Threads, Home!NotifyWrite(t) PROVE StaysInv'
<1> SUFFICES ASSUME ~overlap'
             PROVE  (OneAtATime /\ DismissedIsKept /\ LookIsFresh /\ dismissed \cap shown = {})'
  BY DEF StaysInv
<1> DEFINE key == Head(thread[t].todo)
           old == thread[t].existing
           twice == old = Home!None /\ Home!Known(key)
<1>1. PICK me : /\ thread' = [thread EXCEPT ![t] = me]
                /\ me = IF twice THEN Home!Idle
                        ELSE [thread[t] EXCEPT !.pc = "notify", !.todo = Tail(@)]
  BY DEF Home!NotifyWrite
<1>2. /\ Home!At(t, "upsert") /\ ~Home!At(t, "idle") /\ UNCHANGED <<dismissed, shown, overlap>>
      /\ notifications' = IF twice THEN notifications ELSE Home!Put(key, Home!Upserted(old, Home!Unread))
  BY DEF Home!NotifyWrite, Home!histories, Home!At
<1>3. /\ OneAtATime' /\ DismissedIsKept /\ LookIsFresh /\ dismissed \cap shown = {}
      /\ thread'[t] = me /\ \A u \in Threads \ {t} : thread'[u].pc = "idle"
  BY <1>1, <1>2, AloneMoves
<1>4. me.pc # "upsert"
  BY <1>1 DEF HouseholdInv, ThreadSound, IsThread, Home!Idle
<1>5. LookIsFresh'
  BY <1>3, <1>4 DEF LookIsFresh, Home!At
<1>6. DismissedIsKept'
  <2> SUFFICES ASSUME NEW k \in dismissed
               PROVE  k \in DOMAIN notifications' /\ notifications'[k].status = "dismissed"
    BY <1>2 DEF DismissedIsKept, Home!Known
  <2>1. k \in DOMAIN notifications /\ notifications[k].status = "dismissed"
    BY <1>3 DEF DismissedIsKept, Home!Known
  <2>2. CASE twice
    BY <1>2, <2>1, <2>2
  <2>3. CASE ~twice /\ k # key
    BY <1>2, <2>1, <2>3 DEF Home!Put
  <2>4. CASE ~twice /\ k = key
    <3>1. old = notifications[k]
      BY <1>2, <1>3, <2>1, <2>4 DEF LookIsFresh, Home!Known
    <3>2. old # Home!None
      BY <2>1, <3>1 DEF Home!None
    <3>3. Home!Upserted(old, Home!Unread).status = "dismissed"
      BY <2>1, <3>1, <3>2 DEF Home!Upserted, Home!Unread
    <3>4. notifications' = Home!Put(key, Home!Upserted(old, Home!Unread))
      BY <1>2, <2>4
    <3> HIDE DEF old, key, twice
    <3>5. QED
      BY <2>4, <3>3, <3>4 DEF Home!Put
  <2>5. QED
    BY <2>2, <2>3, <2>4
<1>7. (dismissed \cap shown = {})'
  BY <1>2, <1>3
<1>8. QED
  BY <1>3, <1>5, <1>6, <1>7

LEMMA ListStays == ASSUME HouseholdInv, StaysInv, NEW t \in Threads, Home!List(t) PROVE StaysInv'
<1> SUFFICES ASSUME ~overlap'
             PROVE  (OneAtATime /\ DismissedIsKept /\ LookIsFresh /\ dismissed \cap shown = {})'
  BY DEF StaysInv
<1>1. PICK over :
        /\ over = {k \in DOMAIN notifications :
                    /\ notifications[k].status = "snoozed"
                    /\ notifications[k].until # Home!Never /\ notifications[k].until <= today}
        /\ notifications' = [k \in DOMAIN notifications |->
                    IF k \in over THEN Home!Upserted(notifications[k], Home!Unread) ELSE notifications[k]]
        /\ shown' = {k \in DOMAIN notifications' :
                        /\ notifications'[k].status # "dismissed"
                        /\ ~(notifications'[k].status = "snoozed" /\ notifications'[k].until > today)}
  BY DEF Home!List
<1>2. /\ thread' = [thread EXCEPT ![t] = Home!Idle] /\ ~Home!At(t, "idle") /\ UNCHANGED <<dismissed, overlap>>
  BY DEF Home!List, Home!At, Home!histories
<1>3. /\ OneAtATime' /\ DismissedIsKept
      /\ thread'[t] = Home!Idle /\ \A u \in Threads \ {t} : thread'[u].pc = "idle"
  BY <1>2, AloneMoves
<1>4. LookIsFresh'
  BY <1>3, EmptyRow DEF LookIsFresh, Home!At
<1>5. \A k \in dismissed : k \in DOMAIN notifications' /\ notifications'[k].status = "dismissed"
  BY <1>1, <1>3 DEF DismissedIsKept, Home!Known
<1>6. DismissedIsKept' /\ (dismissed \cap shown = {})'
  BY <1>1, <1>2, <1>5 DEF DismissedIsKept, Home!Known
<1>7. QED
  BY <1>3, <1>4, <1>6

LEMMA HandleStays == ASSUME HouseholdInv, StaysInv, NEW t \in Threads, Home!HandleNotification(t) PROVE StaysInv'
<1> SUFFICES ASSUME ~overlap'
             PROVE  (OneAtATime /\ DismissedIsKept /\ LookIsFresh /\ dismissed \cap shown = {})'
  BY DEF StaysInv
<1>1. PICK key, n :
        /\ key \in DOMAIN notifications
        /\ notifications' = Home!Put(key, n)
        /\ dismissed' = IF n.status = "dismissed" THEN dismissed \cup {key} ELSE dismissed \ {key}
  BY DEF Home!HandleNotification, Home!Act
<1>2. PICK me : me = [thread[t] EXCEPT !.pc = "overview"]
  OBVIOUS
<1>3. /\ thread' = [thread EXCEPT ![t] = me] /\ Home!At(t, "idle") /\ shown' = {}
      /\ overlap' = (overlap \/ \E u \in Threads \ {t} : ~Home!At(u, "idle"))
  BY <1>2 DEF Home!HandleNotification, HouseholdInv
<1>4. /\ OneAtATime' /\ DismissedIsKept
      /\ thread'[t] = me /\ \A u \in Threads \ {t} : thread'[u].pc = "idle"
  BY <1>3, AloneMoves
<1>5. me.pc = "overview"
  BY <1>2 DEF HouseholdInv, ThreadSound, IsThread
<1>6. LookIsFresh'
  BY <1>4, <1>5 DEF LookIsFresh, Home!At
<1>7. DismissedIsKept'
  BY <1>1, <1>4 DEF DismissedIsKept, Home!Known, Home!Put
<1>8. (dismissed \cap shown = {})'
  BY <1>3
<1>9. QED
  BY <1>4, <1>6, <1>7, <1>8

LEMMA StaysStep == HouseholdInv /\ StaysInv /\ [Home!Next]_Home!vars => StaysInv'
<1> SUFFICES ASSUME HouseholdInv, StaysInv, [Home!Next]_Home!vars PROVE StaysInv'
  OBVIOUS
<1>1. CASE Home!Work \/ Home!Tomorrow \/ UNCHANGED Home!vars
  <2>1. UNCHANGED <<thread, notifications, dismissed, overlap>> /\ shown' \subseteq shown
    BY <1>1 DEF Home!Work, Home!Tomorrow, Home!vars, Home!histories
  <2>2. QED
    BY <2>1 DEF StaysInv, OneAtATime, DismissedIsKept, LookIsFresh, Home!Known, Home!At
<1>2. ASSUME NEW t \in Threads,
             \/ Home!Overview(t) \/ Home!Save(t) \/ Home!NotifyRead(t) \/ Home!NotifyWrite(t) \/ Home!List(t)
             \/ Home!HandleNotification(t) \/ Home!AnswerSuggestion(t) \/ Home!AnswerApproval(t)
             \/ Home!WriteDecision(t) \/ Home!Fail(t)
      PROVE  StaysInv'
  BY <1>2, OtherSteps, ReadStays, WriteStays, ListStays, HandleStays
<1>3. QED
  BY <1>1, <1>2 DEF Home!Next

\* What a parent dismissed is not shown again, however often it is emitted and
\* whichever requests fail, while they come one at a time.
THEOREM DismissedIsNotShown == Home!Spec => []DismissedStays
<1>1. Home!Init => StaysInv
  BY EmptyRow DEF Home!Init, StaysInv, OneAtATime, DismissedIsKept, LookIsFresh, Home!At
<1>2. StaysInv => DismissedStays
  BY DEF StaysInv, DismissedStays
<1>3. QED
  BY <1>1, <1>2, TheInit, EveryStep, StaysStep, PTL DEF Home!Spec
===============================================================================
