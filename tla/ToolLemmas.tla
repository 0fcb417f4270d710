------------------------------- MODULE ToolLemmas -------------------------------
(***************************************************************************)
(* Lemmas about the operators the tools' modules are built from: what the  *)
(* handlers' loops over a list compute, for a list of any length.  A loop  *)
(* is a fold, and what a fold returns is shown by induction.               *)
(***************************************************************************)
EXTENDS ToolServer, SequenceTheorems, FiniteSetTheorems, WellFoundedInduction, TLAPS

-------------------------------------------------------------------------------
(* Induction and folds in general.                                         *)

(***************************************************************************)
(* Induction over the natural numbers, for a set instead of a predicate.   *)
(***************************************************************************)
LEMMA SetInduction ==
  ASSUME NEW T \in SUBSET Nat, 0 \in T, \A n \in T : n + 1 \in T
  PROVE  T = Nat
<1> DEFINE R == OpToRel(<, Nat)
           U == Nat \ T
<1>1. IsWellFoundedOn(R, Nat)
  BY NatLessThanWellFounded
<1>2. SUFFICES ASSUME U # {} PROVE FALSE
  OBVIOUS
<1>3. PICK m \in U : \A y \in U : <<y, m>> \notin R
  <2> HIDE DEF R, U
  <2> U \subseteq Nat
    BY DEF U
  <2> QED
    BY <1>1, <1>2, WFMin
<1>4. m # 0 /\ m - 1 \in Nat /\ m - 1 < m
  OBVIOUS
<1>5. m - 1 \in T
  BY <1>3, <1>4 DEF OpToRel
<1> QED
  BY <1>4, <1>5

LEMMA MaxOfInterval == ASSUME NEW k \in Nat PROVE Max(1..(k + 1)) = k + 1
  BY DEF Max

LEMMA MaxIsLast ==
  ASSUME NEW k \in Nat, NEW t \in SUBSET (1..(k + 1)), k + 1 \in t
  PROVE  Max(t) = k + 1
<1>1. \A y \in t : y \in Int /\ k + 1 >= y
  OBVIOUS
<1>2. \A x \in t : (\A y \in t : x >= y) => x = k + 1
  BY <1>1
<1> QED
  BY <1>1, <1>2 DEF Max

LEMMA MaxOfSubset ==
  ASSUME NEW n \in Nat, NEW t \in SUBSET (1..n), t # {}
  PROVE  Max(t) \in t /\ \A y \in t : y <= Max(t)
<1>1. PICK m \in t : \A y \in t : m >= y
  <2> DEFINE R == OpToRel(<, Nat)
             U == {n - y : y \in t}
  <2>1. IsWellFoundedOn(R, Nat)
    BY NatLessThanWellFounded
  <2>2. U \subseteq Nat /\ U # {}
    <3>1. \A y \in t : n - y \in Nat
      OBVIOUS
    <3>2. PICK y \in t : TRUE
      OBVIOUS
    <3>3. n - y \in U
      OBVIOUS
    <3>4. ASSUME NEW u \in U PROVE u \in Nat
      BY <3>1
    <3> HIDE DEF U
    <3> QED
      BY <3>3, <3>4
  <2>3. PICK u \in U : \A y \in U : <<y, u>> \notin R
    <3> HIDE DEF R, U
    <3> QED
      BY <2>1, <2>2, WFMin
  <2>4. PICK m \in t : u = n - m
    OBVIOUS
  <2>5. ASSUME NEW y \in t PROVE m >= y
    <3>1. n - y \in U
      OBVIOUS
    <3>2. <<n - y, n - m>> \notin R
      <4> HIDE DEF R, U
      <4> QED
        BY <3>1, <2>3, <2>4
    <3>3. y \in 1..n /\ m \in 1..n /\ n - y \in Nat /\ n - m \in Nat
      OBVIOUS
    <3>4. ~ (n - y < n - m)
      BY <3>2, <3>3 DEF OpToRel
    <3> QED
      BY <3>3, <3>4
  <2> QED
    BY <2>5
<1> QED
  BY <1>1 DEF Max

LEMMA MinOfSubset ==
  ASSUME NEW n \in Nat, NEW t \in SUBSET (1..n), t # {}
  PROVE  Min(t) \in t /\ \A y \in t : Min(t) <= y
<1>1. PICK m \in t : \A y \in t : m <= y
  <2> DEFINE R == OpToRel(<, Nat)
  <2>1. IsWellFoundedOn(R, Nat)
    BY NatLessThanWellFounded
  <2>2. t \subseteq Nat
    OBVIOUS
  <2>3. PICK u \in t : \A y \in t : <<y, u>> \notin R
    <3> HIDE DEF R
    <3> QED
      BY <2>1, <2>2, WFMin
  <2>4. \A y \in t : y \in Nat /\ u \in Nat /\ ~ (y < u)
    BY <2>2, <2>3 DEF OpToRel
  <2> QED
    BY <2>4
<1> QED
  BY <1>1 DEF Min

(***************************************************************************)
(* The value v is what step makes of the elements of s, one after another. *)
(***************************************************************************)
IsRun(r, step, base, s) ==
  /\ r[0] = base
  /\ \A k \in 0..(Len(s) - 1) : r[k + 1] = step[<<r[k], s[k + 1]>>]

Reaches(v, step, base, s) == \E r : IsRun(r, step, base, s) /\ v = r[Len(s)]

(***************************************************************************)
(* What a fold of a step is: the function of SequencesExt exists.          *)
(***************************************************************************)
IsFold(f, step, base, s) ==
  f = [t \in SUBSET (1..Len(s)) |->
        IF t = {} THEN base ELSE step[<<f[t \ {Max(t)}], s[Max(t)]>>]]

LEMMA FoldExists ==
  ASSUME NEW Acc, NEW E, NEW base \in Acc, NEW step \in [Acc \X E -> Acc], NEW s \in Seq(E)
  PROVE  \E f \in [SUBSET (1..Len(s)) -> Acc] : IsFold(f, step, base, s)
<1> DEFINE P(n) ==
      \E f \in [SUBSET (1..n) -> Acc] :
        f = [t \in SUBSET (1..n) |->
              IF t = {} THEN base ELSE step[<<f[t \ {Max(t)}], s[Max(t)]>>]]
    T == {n \in Nat : n <= Len(s) => P(n)}
<1>1. 0 \in T
  <2> DEFINE f == [t \in SUBSET (1..0) |-> base]
  <2>1. \A t \in SUBSET (1..0) : t = {}
    OBVIOUS
  <2>2. f \in [SUBSET (1..0) -> Acc]
    OBVIOUS
  <2>3. f = [t \in SUBSET (1..0) |->
              IF t = {} THEN base ELSE step[<<f[t \ {Max(t)}], s[Max(t)]>>]]
    BY <2>1
  <2>4. P(0)
    BY <2>2, <2>3
  <2> QED
    BY <2>4
<1>2. ASSUME NEW n \in T PROVE n + 1 \in T
  <2>1. SUFFICES ASSUME n + 1 <= Len(s) PROVE P(n + 1)
    <3> HIDE DEF P
    <3> QED
      OBVIOUS
  <2>2. n \in Nat /\ Len(s) \in Nat /\ n <= Len(s) /\ n + 1 \in 1..Len(s) /\ s[n + 1] \in E
    BY <2>1
  <2>3. PICK f \in [SUBSET (1..n) -> Acc] :
          f = [t \in SUBSET (1..n) |->
                IF t = {} THEN base ELSE step[<<f[t \ {Max(t)}], s[Max(t)]>>]]
    BY <2>2
  <2> DEFINE g == [t \in SUBSET (1..(n + 1)) |->
                    IF n + 1 \in t THEN step[<<f[t \ {n + 1}], s[n + 1]>>] ELSE f[t]]
  <2>4. ASSUME NEW t \in SUBSET (1..(n + 1)), n + 1 \in t
        PROVE  /\ t \ {n + 1} \in SUBSET (1..n) /\ f[t \ {n + 1}] \in Acc
               /\ g[t] = step[<<f[t \ {n + 1}], s[n + 1]>>] /\ g[t] \in Acc
               /\ Max(t) = n + 1 /\ g[t \ {n + 1}] = f[t \ {n + 1}]
    <3>1. t \ {n + 1} \in SUBSET (1..n) /\ t \ {n + 1} \in SUBSET (1..(n + 1))
      BY <2>2, <2>4
    <3>2. f[t \ {n + 1}] \in Acc
      BY <3>1
    <3>3. <<f[t \ {n + 1}], s[n + 1]>> \in Acc \X E
      BY <2>2, <3>2
    <3>4. Max(t) = n + 1
      BY <2>2, <2>4, MaxIsLast
    <3> QED
      BY <2>4, <3>1, <3>2, <3>3, <3>4
  <2>5. ASSUME NEW t \in SUBSET (1..(n + 1)), n + 1 \notin t
        PROVE  /\ t \in SUBSET (1..n) /\ g[t] = f[t] /\ g[t] \in Acc
               /\ t \ {Max(t)} \in SUBSET (1..n) /\ g[t \ {Max(t)}] = f[t \ {Max(t)}]
    <3>1. t \in SUBSET (1..n)
      BY <2>2, <2>5
    <3>2. t \ {Max(t)} \in SUBSET (1..n) /\ t \ {Max(t)} \in SUBSET (1..(n + 1))
          /\ n + 1 \notin t \ {Max(t)}
      BY <2>5, <3>1
    <3> QED
      BY <2>5, <3>1, <3>2
  <2>6. g \in [SUBSET (1..(n + 1)) -> Acc]
    <3>1. \A t \in SUBSET (1..(n + 1)) : g[t] \in Acc
      BY <2>4, <2>5
    <3> QED
      BY <3>1
  <2>7. ASSUME NEW t \in SUBSET (1..(n + 1))
        PROVE  g[t] = IF t = {} THEN base ELSE step[<<g[t \ {Max(t)}], s[Max(t)]>>]
    <3>1. CASE n + 1 \in t
      <4> HIDE DEF g
      <4> QED
        BY <2>4, <3>1
    <3>2. CASE n + 1 \notin t
      <4> HIDE DEF g
      <4>1. f[t] = IF t = {} THEN base ELSE step[<<f[t \ {Max(t)}], s[Max(t)]>>]
        BY <2>3, <2>5, <3>2
      <4> QED
        BY <2>5, <3>2, <4>1
    <3> QED
      BY <3>1, <3>2
  <2>8. g = [t \in SUBSET (1..(n + 1)) |->
              IF t = {} THEN base ELSE step[<<g[t \ {Max(t)}], s[Max(t)]>>]]
    <3>1. g = [t \in SUBSET (1..(n + 1)) |-> g[t]]
      OBVIOUS
    <3> HIDE DEF g
    <3> QED
      BY <2>7, <3>1
  <2> HIDE DEF g
  <2> QED
    BY <2>6, <2>8
<1>3. T = Nat
  <2> HIDE DEF P
  <2>1. T \in SUBSET Nat
    OBVIOUS
  <2> HIDE DEF T
  <2> QED
    BY <1>1, <1>2, <2>1, SetInduction
<1>4. P(Len(s))
  <2> HIDE DEF P
  <2>1. Len(s) \in Nat
    OBVIOUS
  <2> QED
    BY <1>3, <2>1
<1> QED
  BY <1>4 DEF IsFold

(***************************************************************************)
(* A sequence of values that starts at base and keeps to the step while it *)
(* is in Acc stays there.                                                  *)
(***************************************************************************)
KeepsTo(r, Acc, step, base, s) ==
  /\ r[0] = base
  /\ \A k \in 0..(Len(s) - 1) : r[k] \in Acc => r[k + 1] = step[<<r[k], s[k + 1]>>]

LEMMA RunTyped ==
  ASSUME NEW Acc, NEW E, NEW base \in Acc, NEW step \in [Acc \X E -> Acc], NEW s \in Seq(E),
         NEW r, KeepsTo(r, Acc, step, base, s)
  PROVE  IsRun(r, step, base, s) /\ \A k \in 0..Len(s) : r[k] \in Acc
<1> USE DEF KeepsTo
<1> DEFINE T == {n \in Nat : n <= Len(s) => r[n] \in Acc}
<1>1. 0 \in T
  OBVIOUS
<1>2. ASSUME NEW n \in T PROVE n + 1 \in T
  <2>1. SUFFICES ASSUME n + 1 <= Len(s) PROVE r[n + 1] \in Acc
    OBVIOUS
  <2>2. n \in 0..(Len(s) - 1) /\ r[n] \in Acc /\ s[n + 1] \in E
    BY <2>1
  <2> QED
    BY <2>2
<1>3. T = Nat
  <2>1. T \in SUBSET Nat
    OBVIOUS
  <2> HIDE DEF T
  <2> QED
    BY <1>1, <1>2, <2>1, SetInduction
<1>4. \A k \in 0..Len(s) : r[k] \in Acc
  BY <1>3
<1> QED
  BY <1>4 DEF IsRun

(***************************************************************************)
(* Two runs agree as long as their elements do.                            *)
(***************************************************************************)
LEMMA RunsAgree ==
  ASSUME NEW E, NEW base, NEW step, NEW s \in Seq(E), NEW z \in Seq(E),
         Len(s) <= Len(z), \A k \in 1..Len(s) : s[k] = z[k],
         NEW r, NEW q, IsRun(r, step, base, s), IsRun(q, step, base, z)
  PROVE  q[Len(s)] = r[Len(s)]
<1> DEFINE T == {n \in Nat : n <= Len(s) => q[n] = r[n]}
<1>1. 0 \in T
  BY DEF IsRun
<1>2. ASSUME NEW n \in T PROVE n + 1 \in T
  <2>1. SUFFICES ASSUME n + 1 <= Len(s) PROVE q[n + 1] = r[n + 1]
    OBVIOUS
  <2>2. n \in 0..(Len(s) - 1) /\ n \in 0..(Len(z) - 1) /\ n + 1 \in 1..Len(s) /\ q[n] = r[n]
    BY <2>1
  <2>3. s[n + 1] = z[n + 1]
    BY <2>2
  <2>4. r[n + 1] = step[<<r[n], s[n + 1]>>] /\ q[n + 1] = step[<<q[n], z[n + 1]>>]
    BY <2>2 DEF IsRun
  <2> QED
    BY <2>2, <2>3, <2>4
<1>3. T = Nat
  <2>1. T \in SUBSET Nat
    OBVIOUS
  <2> HIDE DEF T
  <2> QED
    BY <1>1, <1>2, <2>1, SetInduction
<1> QED
  BY <1>3

LEMMA ReachAppend ==
  ASSUME NEW E, NEW base, NEW step, NEW s \in Seq(E), NEW e \in E, NEW v, NEW w,
         Reaches(v, step, base, s), Reaches(w, step, base, Append(s, e))
  PROVE  w = step[<<v, e>>]
<1>1. PICK r : IsRun(r, step, base, s) /\ v = r[Len(s)]
  BY DEF Reaches
<1>2. PICK q : IsRun(q, step, base, Append(s, e)) /\ w = q[Len(Append(s, e))]
  BY DEF Reaches
<1>3. /\ Append(s, e) \in Seq(E) /\ Len(Append(s, e)) = Len(s) + 1 /\ Len(s) \in Nat
      /\ \A k \in 1..Len(s) : s[k] = Append(s, e)[k]
      /\ Append(s, e)[Len(s) + 1] = e
  OBVIOUS
<1>4. q[Len(s)] = v
  <2> DEFINE z == Append(s, e)
  <2>1. /\ z \in Seq(E) /\ Len(s) <= Len(z) /\ \A k \in 1..Len(s) : s[k] = z[k]
        /\ IsRun(q, step, base, z)
    BY <1>2, <1>3
  <2> HIDE DEF z
  <2> QED
    BY <1>1, <2>1, RunsAgree
<1>5. q[Len(s) + 1] = step[<<q[Len(s)], Append(s, e)[Len(s) + 1]>>]
  BY <1>2, <1>3 DEF IsRun
<1> QED
  BY <1>2, <1>3, <1>4, <1>5

LEMMA ReachEmpty ==
  ASSUME NEW base, NEW step, NEW v, Reaches(v, step, base, <<>>)
  PROVE  v = base
  BY DEF Reaches, IsRun

(***************************************************************************)
(* The sets that a fold of a sequence passes through.                      *)
(***************************************************************************)
LEMMA Intervals ==
  ASSUME NEW n \in Nat
  PROVE  /\ 1..0 = {}
         /\ \A k \in 0..n : 1..k \in SUBSET (1..n)
         /\ \A k \in 0..(n - 1) : /\ 1..(k + 1) # {} /\ Max(1..(k + 1)) = k + 1
                                 /\ (1..(k + 1)) \ {k + 1} = 1..k
<1>1. 1..0 = {} /\ \A k \in 0..n : 1..k \in SUBSET (1..n)
  OBVIOUS
<1>2. ASSUME NEW k \in 0..(n - 1)
      PROVE  /\ 1..(k + 1) # {} /\ Max(1..(k + 1)) = k + 1
             /\ (1..(k + 1)) \ {k + 1} = 1..k
  <2>1. k \in Nat
    OBVIOUS
  <2>2. Max(1..(k + 1)) = k + 1
    BY <2>1, MaxOfInterval
  <2>3. 1..(k + 1) # {} /\ (1..(k + 1)) \ {k + 1} = 1..k
    BY <2>1
  <2> QED
    BY <2>2, <2>3
<1> QED
  BY <1>1, <1>2

(***************************************************************************)
(* What the function that a fold is defined by takes the whole list to.    *)
(***************************************************************************)
FoldsTo(g, Acc, step, base, s) ==
  /\ g[{}] = base
  /\ \A t \in SUBSET (1..Len(s)) :
       t # {} /\ g[t \ {Max(t)}] \in Acc => g[t] = step[<<g[t \ {Max(t)}], s[Max(t)]>>]

LEMMA FoldReaches ==
  ASSUME NEW Acc, NEW E, NEW base \in Acc, NEW step \in [Acc \X E -> Acc], NEW s \in Seq(E),
         NEW g, FoldsTo(g, Acc, step, base, s)
  PROVE  Reaches(g[1..Len(s)], step, base, s) /\ g[1..Len(s)] \in Acc
<1> USE DEF FoldsTo
<1> DEFINE n == Len(s)
           r == [k \in 0..n |-> g[1..k]]
<1>1. n \in Nat
  OBVIOUS
<1>2. r[0] = base
  <2>1. r[0] = g[1..0] /\ 1..0 = {}
    BY <1>1
  <2> QED
    BY <2>1
<1>3. ASSUME NEW k \in 0..(n - 1), r[k] \in Acc PROVE r[k + 1] = step[<<r[k], s[k + 1]>>]
  <2>1. k \in 0..n /\ k + 1 \in 0..n
    BY <1>1
  <2>2. r[k] = g[1..k] /\ r[k + 1] = g[1..(k + 1)]
    BY <2>1
  <2> HIDE DEF r
  <2>3. /\ 1..(k + 1) \in SUBSET (1..n) /\ 1..(k + 1) # {} /\ Max(1..(k + 1)) = k + 1
        /\ (1..(k + 1)) \ {k + 1} = 1..k
    <3> HIDE DEF n
    <3> QED
      BY <1>1, <2>1, Intervals
  <2> QED
    BY <1>3, <2>2, <2>3
<1>4. r[n] = g[1..n] /\ n \in 0..n
  BY <1>1
<1> HIDE DEF r
<1>5. KeepsTo(r, Acc, step, base, s)
  BY <1>2, <1>3 DEF KeepsTo
<1>6. IsRun(r, step, base, s) /\ \A k \in 0..n : r[k] \in Acc
  BY <1>5, RunTyped
<1> QED
  BY <1>4, <1>6 DEF Reaches

LEMMA LastInSeq ==
  ASSUME NEW E, NEW s \in Seq(E), NEW t \in SUBSET (1..Len(s)), t # {}
  PROVE  s[Max(t)] \in E
<1>1. Len(s) \in Nat
  OBVIOUS
<1>2. Max(t) \in t
  BY <1>1, MaxOfSubset
<1>3. Max(t) \in 1..Len(s)
  BY <1>2
<1> QED
  BY <1>3

LEMMA PrefixGrows ==
  ASSUME NEW E, NEW s \in Seq(E), NEW n \in 0..(Len(s) - 1)
  PROVE  /\ SubSeq(s, 1, n) \in Seq(E) /\ s[n + 1] \in E
         /\ SubSeq(s, 1, n + 1) \in Seq(E)
         /\ SubSeq(s, 1, n + 1) = Append(SubSeq(s, 1, n), s[n + 1])
<1>1. n \in Nat /\ Len(s) \in Nat /\ n + 1 \in 1..Len(s) /\ s[n + 1] \in E
  OBVIOUS
<1>2. /\ SubSeq(s, 1, n) \in Seq(E) /\ Len(SubSeq(s, 1, n)) = n
      /\ \A i \in 1..n : SubSeq(s, 1, n)[i] = s[i]
  BY <1>1
<1>3. /\ SubSeq(s, 1, n + 1) \in Seq(E) /\ Len(SubSeq(s, 1, n + 1)) = n + 1
      /\ \A i \in 1..(n + 1) : SubSeq(s, 1, n + 1)[i] = s[i]
  BY <1>1
<1> DEFINE p == SubSeq(s, 1, n)
           a == Append(p, s[n + 1])
<1> HIDE DEF p
<1>4. a \in Seq(E) /\ Len(a) = n + 1 /\ (\A i \in 1..n : a[i] = p[i]) /\ a[n + 1] = s[n + 1]
  BY <1>1, <1>2 DEF p
<1> HIDE DEF a
<1>5. \A i \in 1..(n + 1) : a[i] = SubSeq(s, 1, n + 1)[i]
  BY <1>1, <1>2, <1>3, <1>4 DEF p
<1>6. a = SubSeq(s, 1, n + 1)
  BY <1>3, <1>4, <1>5, SeqEqual
<1> QED
  BY <1>1, <1>2, <1>3, <1>6 DEF a, p

-------------------------------------------------------------------------------
(* Totals.                                                                 *)

Plus == [p \in Int \X Int |-> p[1] + p[2]]

LEMMA SumReaches ==
  ASSUME NEW s \in Seq(Int)
  PROVE  Reaches(SumOf(s), Plus, 0, s) /\ SumOf(s) \in Int
<1>1. DOMAIN s = 1..Len(s) /\ Len(s) \in Nat /\ Plus \in [Int \X Int -> Int] /\ 0 \in Int
  BY DEF Plus
<1>2. \A a, b \in Int : Plus[<<a, b>>] = a + b
  BY DEF Plus
<1> HIDE DEF Plus
<1>3. \A t \in SUBSET (1..Len(s)) : t # {} => s[Max(t)] \in Int
  BY LastInSeq
<1>4. PICK f \in [SUBSET (1..Len(s)) -> Int] : IsFold(f, Plus, 0, s)
  BY <1>1, FoldExists
<1>5. \A t \in SUBSET (1..Len(s)) : f[t \ {Max(t)}] \in Int
  OBVIOUS
<1>6. f = [t \in SUBSET (1..Len(s)) |-> IF t = {} THEN 0 ELSE f[t \ {Max(t)}] + s[Max(t)]]
  <2>1. \A t \in SUBSET (1..Len(s)) :
          t # {} => Plus[<<f[t \ {Max(t)}], s[Max(t)]>>] = f[t \ {Max(t)}] + s[Max(t)]
    BY <1>2, <1>3, <1>5
  <2> QED
    BY <1>4, <2>1 DEF IsFold
<1>7. PICK g : /\ g = [t \in SUBSET (1..Len(s)) |->
                         IF t = {} THEN 0 ELSE g[t \ {Max(t)}] + s[Max(t)]]
               /\ SumOf(s) = g[1..Len(s)]
  BY <1>1, <1>6 DEF SumOf, FoldLeft, MapThenFoldSet
<1>8. FoldsTo(g, Int, Plus, 0, s)
  BY <1>2, <1>3, <1>7 DEF FoldsTo
<1>9. Reaches(g[1..Len(s)], Plus, 0, s) /\ g[1..Len(s)] \in Int
  BY <1>1, <1>8, FoldReaches
<1> QED
  BY <1>7, <1>9

(***************************************************************************)
(* A sum grows by the number that is appended.                             *)
(***************************************************************************)
LEMMA SumEmpty == SumOf(<<>>) = 0
<1>1. <<>> \in Seq(Int)
  OBVIOUS
<1> QED
  BY <1>1, SumReaches, ReachEmpty

LEMMA SumAppend ==
  ASSUME NEW s \in Seq(Int), NEW e \in Int
  PROVE  SumOf(Append(s, e)) = SumOf(s) + e /\ SumOf(s) \in Int
<1>1. Append(s, e) \in Seq(Int)
  OBVIOUS
<1>2. /\ Reaches(SumOf(s), Plus, 0, s) /\ SumOf(s) \in Int
      /\ Reaches(SumOf(Append(s, e)), Plus, 0, Append(s, e))
  BY <1>1, SumReaches
<1>3. SumOf(Append(s, e)) = Plus[<<SumOf(s), e>>]
  BY <1>2, ReachAppend
<1> QED
  BY <1>2, <1>3 DEF Plus

(***************************************************************************)
(* The totals on the way: r[k] is the sum of the first k numbers.          *)
(***************************************************************************)
AddsUp(r, s) ==
  /\ r[0] = 0
  /\ \A k \in 0..(Len(s) - 1) : r[k + 1] = r[k] + s[k + 1]

LEMMA SumRun ==
  ASSUME NEW s \in Seq(Int)
  PROVE  \E r : AddsUp(r, s) /\ SumOf(s) = r[Len(s)] /\ \A k \in 0..Len(s) : r[k] \in Int
<1>1. Plus \in [Int \X Int -> Int] /\ 0 \in Int /\ \A a, b \in Int : Plus[<<a, b>>] = a + b
  BY DEF Plus
<1>2. PICK r : IsRun(r, Plus, 0, s) /\ SumOf(s) = r[Len(s)]
  BY SumReaches DEF Reaches
<1>3. KeepsTo(r, Int, Plus, 0, s)
  BY <1>2 DEF KeepsTo, IsRun
<1>4. \A k \in 0..Len(s) : r[k] \in Int
  BY <1>1, <1>3, RunTyped
<1>5. ASSUME NEW k \in 0..(Len(s) - 1) PROVE r[k + 1] = r[k] + s[k + 1]
  <2>1. k \in 0..Len(s) /\ k + 1 \in 1..Len(s)
    OBVIOUS
  <2>2. r[k] \in Int /\ s[k + 1] \in Int
    BY <1>4, <2>1
  <2>3. r[k + 1] = Plus[<<r[k], s[k + 1]>>]
    BY <1>2 DEF IsRun
  <2> QED
    BY <1>1, <2>2, <2>3
<1> QED
  BY <1>2, <1>4, <1>5 DEF AddsUp, IsRun

LEMMA RunIsSum ==
  ASSUME NEW s \in Seq(Int), NEW r, AddsUp(r, s)
  PROVE  SumOf(s) = r[Len(s)]
<1>1. Plus \in [Int \X Int -> Int] /\ 0 \in Int /\ \A a, b \in Int : Plus[<<a, b>>] = a + b
  BY DEF Plus
<1>2. ASSUME NEW k \in 0..(Len(s) - 1), r[k] \in Int PROVE r[k + 1] = Plus[<<r[k], s[k + 1]>>]
  <2>1. s[k + 1] \in Int
    OBVIOUS
  <2>2. r[k + 1] = r[k] + s[k + 1]
    BY DEF AddsUp
  <2> QED
    BY <1>1, <1>2, <2>1, <2>2
<1>3. KeepsTo(r, Int, Plus, 0, s)
  BY <1>2 DEF KeepsTo, AddsUp
<1>4. IsRun(r, Plus, 0, s)
  BY <1>1, <1>3, RunTyped
<1>5. PICK q : IsRun(q, Plus, 0, s) /\ SumOf(s) = q[Len(s)]
  BY SumReaches DEF Reaches
<1>6. q[Len(s)] = r[Len(s)]
  <2>1. Len(s) <= Len(s) /\ \A k \in 1..Len(s) : s[k] = s[k]
    OBVIOUS
  <2> QED
    BY <1>4, <1>5, <2>1, RunsAgree
<1> QED
  BY <1>5, <1>6

(***************************************************************************)
(* The sum of differences is the difference of the sums.                   *)
(***************************************************************************)
LEMMA SumOfDifferences ==
  ASSUME NEW s \in Seq(Int), NEW t \in Seq(Int), NEW u \in Seq(Int),
         Len(t) = Len(s), Len(u) = Len(s), \A i \in 1..Len(s) : u[i] = s[i] - t[i]
  PROVE  SumOf(u) = SumOf(s) - SumOf(t)
<1>1. PICK r : AddsUp(r, s) /\ SumOf(s) = r[Len(s)] /\ \A k \in 0..Len(s) : r[k] \in Int
  BY SumRun
<1>2. PICK q : AddsUp(q, t) /\ SumOf(t) = q[Len(t)] /\ \A k \in 0..Len(t) : q[k] \in Int
  BY SumRun
<1> DEFINE d == [k \in 0..Len(s) |-> r[k] - q[k]]
<1>3. d[0] = 0 /\ d[Len(s)] = r[Len(s)] - q[Len(s)]
  BY <1>1, <1>2 DEF AddsUp
<1>4. ASSUME NEW k \in 0..(Len(s) - 1) PROVE d[k + 1] = d[k] + u[k + 1]
  <2>1. k \in 0..Len(s) /\ k + 1 \in 0..Len(s) /\ k + 1 \in 1..Len(s)
    OBVIOUS
  <2>2. d[k] = r[k] - q[k] /\ d[k + 1] = r[k + 1] - q[k + 1]
    BY <2>1
  <2> HIDE DEF d
  <2>3. r[k + 1] = r[k] + s[k + 1] /\ q[k + 1] = q[k] + t[k + 1]
    BY <1>1, <1>2 DEF AddsUp
  <2>4. r[k] \in Int /\ q[k] \in Int /\ s[k + 1] \in Int /\ t[k + 1] \in Int
        /\ u[k + 1] = s[k + 1] - t[k + 1]
    BY <1>1, <1>2, <2>1
  <2>5. PICK a \in Int, b \in Int, c \in Int, e \in Int :
          r[k] = a /\ q[k] = b /\ s[k + 1] = c /\ t[k + 1] = e
    BY <2>4
  <2>6. d[k + 1] = (a + c) - (b + e) /\ d[k] = a - b /\ u[k + 1] = c - e
    BY <2>2, <2>3, <2>4, <2>5
  <2> QED
    BY <2>6
<1> HIDE DEF d
<1>5. AddsUp(d, u)
  BY <1>3, <1>4 DEF AddsUp
<1>6. SumOf(u) = d[Len(u)]
  BY <1>5, RunIsSum
<1> QED
  BY <1>1, <1>2, <1>3, <1>6

(***************************************************************************)
(* A sum lies between 0 and that of larger numbers.                        *)
(***************************************************************************)
LEMMA SumBetween ==
  ASSUME NEW s \in Seq(Int), NEW t \in Seq(Int), Len(t) = Len(s),
         \A i \in 1..Len(s) : 0 <= s[i] /\ s[i] <= t[i]
  PROVE  SumOf(s) \in Int /\ SumOf(t) \in Int /\ 0 <= SumOf(s) /\ SumOf(s) <= SumOf(t)
<1>1. PICK r : AddsUp(r, s) /\ SumOf(s) = r[Len(s)] /\ \A k \in 0..Len(s) : r[k] \in Int
  BY SumRun
<1>2. PICK q : AddsUp(q, t) /\ SumOf(t) = q[Len(t)] /\ \A k \in 0..Len(t) : q[k] \in Int
  BY SumRun
<1> DEFINE T == {k \in Nat : k <= Len(s) => 0 <= r[k] /\ r[k] <= q[k]}
<1>3. 0 \in T
  BY <1>1, <1>2 DEF AddsUp
<1>4. ASSUME NEW k \in T PROVE k + 1 \in T
  <2>1. SUFFICES ASSUME k + 1 <= Len(s) PROVE 0 <= r[k + 1] /\ r[k + 1] <= q[k + 1]
    OBVIOUS
  <2>2. k \in 0..(Len(s) - 1) /\ k \in 0..Len(s) /\ k + 1 \in 1..Len(s)
        /\ 0 <= r[k] /\ r[k] <= q[k]
    BY <2>1
  <2>3. r[k + 1] = r[k] + s[k + 1] /\ q[k + 1] = q[k] + t[k + 1]
    BY <1>1, <1>2, <2>2 DEF AddsUp
  <2>4. r[k] \in Int /\ q[k] \in Int /\ s[k + 1] \in Int /\ t[k + 1] \in Int
        /\ 0 <= s[k + 1] /\ s[k + 1] <= t[k + 1]
    BY <1>1, <1>2, <2>2
  <2> QED
    BY <2>2, <2>3, <2>4
<1>5. T = Nat
  <2>1. T \in SUBSET Nat
    OBVIOUS
  <2> HIDE DEF T
  <2> QED
    BY <1>3, <1>4, <2>1, SetInduction
<1>6. Len(s) \in Nat /\ Len(s) \in 0..Len(s)
  OBVIOUS
<1>7. 0 <= r[Len(s)] /\ r[Len(s)] <= q[Len(s)]
  BY <1>5, <1>6
<1> QED
  BY <1>1, <1>2, <1>6, <1>7

-------------------------------------------------------------------------------
(* The calls of an agent: the pauses between the attempts.                 *)

LEMMA PowersAreNatural == ASSUME NEW k \in Nat PROVE 2^k \in Nat
<1>1. IsFiniteSet(1..k) /\ Cardinality(1..k) = k
  BY FS_Interval
<1>2. IsFiniteSet(SUBSET (1..k)) /\ Cardinality(SUBSET (1..k)) = 2^k
  BY <1>1, FS_SUBSET
<1> QED
  BY <1>2, FS_CardinalityType

LEMMA BackoffIsNatural ==
  ASSUME NEW n \in Nat, n > 0
  PROVE  CalculateBackoff(n) \in Nat
<1> DEFINE p == 2^(n - 1)
<1>1. n - 1 \in Nat
  OBVIOUS
<1>2. p \in Nat
  BY <1>1, PowersAreNatural
<1> HIDE DEF p
<1>3. BaseDelay * p \in Nat /\ MaxDelay \in Nat
  BY <1>2, AgentCallAssumption DEF AgentCallAssumption
<1>4. CalculateBackoff(n) = IF BaseDelay * p > MaxDelay THEN MaxDelay ELSE BaseDelay * p
  BY DEF CalculateBackoff, p
<1> QED
  BY <1>3, <1>4

\* The first k pauses.
Pauses(k) == SumOf([n \in 1..k |-> CalculateBackoff(n)])

LEMMA PausesAddUp ==
  /\ Pauses(0) = 0
  /\ \A k \in Nat : Pauses(k + 1) = Pauses(k) + CalculateBackoff(k + 1) /\ Pauses(k) \in Int
<1> DEFINE s(k) == [n \in 1..k |-> CalculateBackoff(n)]
<1>1. s(0) = <<>>
  OBVIOUS
<1>2. ASSUME NEW k \in Nat
      PROVE  Pauses(k + 1) = Pauses(k) + CalculateBackoff(k + 1) /\ Pauses(k) \in Int
  <2>1. \A n \in 1..(k + 1) : CalculateBackoff(n) \in Int
    BY BackoffIsNatural
  <2>2. s(k) \in Seq(Int) /\ Len(s(k)) = k /\ s(k + 1) \in Seq(Int) /\ Len(s(k + 1)) = k + 1
    BY <2>1
  <2>3. s(k + 1) = Append(s(k), CalculateBackoff(k + 1))
    <3>1. Append(s(k), CalculateBackoff(k + 1)) \in Seq(Int)
      BY <2>1, <2>2
    <3>2. Len(Append(s(k), CalculateBackoff(k + 1))) = k + 1
      BY <2>2
    <3>3. \A n \in 1..(k + 1) : Append(s(k), CalculateBackoff(k + 1))[n] = s(k + 1)[n]
      BY <2>2
    <3> HIDE DEF s
    <3> QED
      BY <2>2, <3>1, <3>2, <3>3, SeqEqual
  <2>4. CalculateBackoff(k + 1) \in Int
    BY <2>1
  <2> HIDE DEF s
  <2>5. SumOf(s(k + 1)) = SumOf(s(k)) + CalculateBackoff(k + 1) /\ SumOf(s(k)) \in Int
    BY <2>2, <2>3, <2>4, SumAppend
  <2> QED
    BY <2>5 DEF Pauses, s
<1> QED
  BY <1>1, <1>2, SumEmpty DEF Pauses

LEMMA PausesGrow ==
  \A j, k \in Nat : j <= k => Pauses(j) \in Nat /\ Pauses(k) \in Nat /\ Pauses(j) <= Pauses(k)
<1> DEFINE T == {k \in Nat : Pauses(k) \in Nat /\ \A j \in 0..k : Pauses(j) <= Pauses(k)}
<1>1. 0 \in T
  BY PausesAddUp
<1>2. ASSUME NEW k \in T PROVE k + 1 \in T
  <2>1. k \in Nat /\ Pauses(k) \in Nat /\ \A j \in 0..k : Pauses(j) <= Pauses(k)
    OBVIOUS
  <2>2. Pauses(k + 1) = Pauses(k) + CalculateBackoff(k + 1) /\ CalculateBackoff(k + 1) \in Nat
    BY <2>1, PausesAddUp, BackoffIsNatural
  <2>3. \A j \in 0..k : Pauses(j) \in Int
    BY PausesAddUp
  <2>4. \A j \in 0..(k + 1) : j \in 0..k \/ j = k + 1
    BY <2>1
  <2>5. Pauses(k + 1) \in Nat /\ \A j \in 0..(k + 1) : Pauses(j) <= Pauses(k + 1)
    BY <2>1, <2>2, <2>3, <2>4
  <2> QED
    BY <2>1, <2>5
<1>3. T = Nat
  <2>1. T \in SUBSET Nat
    OBVIOUS
  <2> HIDE DEF T
  <2> QED
    BY <1>1, <1>2, <2>1, SetInduction
<1>4. ASSUME NEW j \in Nat, NEW k \in Nat, j <= k
      PROVE  Pauses(j) \in Nat /\ Pauses(k) \in Nat /\ Pauses(j) <= Pauses(k)
  <2>1. j \in T /\ k \in T /\ j \in 0..k
    BY <1>3, <1>4
  <2> QED
    BY <2>1
<1> QED
  BY <1>4

-------------------------------------------------------------------------------
(* The pods of a node.                                                     *)

LEMMA RequestedIsInt == ASSUME NEW pod \in Pods PROVE Requested(pod) \in Int
<1> DEFINE list == [i \in DOMAIN pod.containers |-> Named(pod.containers[i].request)]
<1>1. pod.containers \in Seq([request : Quantities, limit : Quantities])
  BY DEF Pods
<1>2. ASSUME NEW i \in DOMAIN pod.containers PROVE pod.containers[i].request \in Int
  <2> DEFINE all == pod.containers
             C == [request : Quantities, limit : Quantities]
  <2>1. all \in Seq(C) /\ i \in DOMAIN all
    BY <1>1
  <2> HIDE DEF all, C
  <2>2. all[i] \in C
    BY <2>1
  <2> QED
    BY <2>2 DEF all, C, Quantities, Absent
<1>3. list \in Seq(Int)
  <2>1. \A i \in DOMAIN pod.containers : Named(pod.containers[i].request) \in Int
    BY <1>2 DEF Named
  <2> QED
    BY <1>1, <2>1
<1> HIDE DEF list
<1>4. SumOf(list) \in Int
  BY <1>3, SumReaches
<1> QED
  BY <1>4 DEF Requested, list

\* What a pod adds to the answer.
PodStep(which) ==
  [p \in Seq(Int) \X Pods |->
    IF p[2].here /\ IsListed(which, p[2]) THEN Append(p[1], Requested(p[2])) ELSE p[1]]

LEMMA PodStepType ==
  ASSUME NEW which
  PROVE  /\ PodStep(which) \in [Seq(Int) \X Pods -> Seq(Int)]
         /\ \A all \in Seq(Int), pod \in Pods :
              PodStep(which)[<<all, pod>>] =
                IF pod.here /\ IsListed(which, pod) THEN Append(all, Requested(pod)) ELSE all
<1>1. \A all \in Seq(Int), pod \in Pods : Append(all, Requested(pod)) \in Seq(Int)
  BY RequestedIsInt
<1>2. \A p \in Seq(Int) \X Pods : p[1] \in Seq(Int) /\ p[2] \in Pods
  OBVIOUS
<1> QED
  BY <1>1, <1>2 DEF PodStep

LEMMA PodsReach ==
  ASSUME NEW which, NEW s \in Seq(Pods)
  PROVE  /\ Reaches(GPUsOfPods(which, s), PodStep(which), <<>>, s)
         /\ GPUsOfPods(which, s) \in Seq(Int)
<1> DEFINE step == PodStep(which)
           body(all, pod) == IF pod.here /\ IsListed(which, pod)
                             THEN Append(all, Requested(pod)) ELSE all
<1>1. DOMAIN s = 1..Len(s) /\ step \in [Seq(Int) \X Pods -> Seq(Int)] /\ <<>> \in Seq(Int)
  <2>1. step \in [Seq(Int) \X Pods -> Seq(Int)]
    BY PodStepType
  <2> HIDE DEF step
  <2> QED
    BY <2>1
<1>2. \A all \in Seq(Int), pod \in Pods : step[<<all, pod>>] = body(all, pod)
  BY PodStepType
<1>3. \A t \in SUBSET (1..Len(s)) : t # {} => s[Max(t)] \in Pods
  BY LastInSeq
<1>4. PICK f \in [SUBSET (1..Len(s)) -> Seq(Int)] : IsFold(f, step, <<>>, s)
  <2> HIDE DEF step
  <2> QED
    BY <1>1, FoldExists
<1>5. \A t \in SUBSET (1..Len(s)) : f[t \ {Max(t)}] \in Seq(Int)
  OBVIOUS
<1>6. f = [t \in SUBSET (1..Len(s)) |->
            IF t = {} THEN <<>> ELSE body(f[t \ {Max(t)}], s[Max(t)])]
  <2> HIDE DEF step, body
  <2>1. \A t \in SUBSET (1..Len(s)) :
          t # {} => step[<<f[t \ {Max(t)}], s[Max(t)]>>] = body(f[t \ {Max(t)}], s[Max(t)])
    BY <1>2, <1>3, <1>5
  <2> QED
    BY <1>4, <2>1 DEF IsFold
<1>7. PICK g : /\ g = [t \in SUBSET (1..Len(s)) |->
                         IF t = {} THEN <<>> ELSE body(g[t \ {Max(t)}], s[Max(t)])]
               /\ GPUsOfPods(which, s) = g[1..Len(s)]
  BY <1>1, <1>6 DEF GPUsOfPods, FoldLeft, MapThenFoldSet
<1> HIDE DEF step, body
<1>8. FoldsTo(g, Seq(Int), step, <<>>, s)
  BY <1>2, <1>3, <1>7 DEF FoldsTo
<1>9. Reaches(g[1..Len(s)], step, <<>>, s) /\ g[1..Len(s)] \in Seq(Int)
  BY <1>1, <1>8, FoldReaches
<1> QED
  BY <1>7, <1>9 DEF step

(***************************************************************************)
(* The pods of a list that is one pod longer.                              *)
(***************************************************************************)
LEMMA PodsOfPrefix ==
  ASSUME NEW which, NEW s \in Seq(Pods)
  PROVE  /\ GPUsOfPods(which, SubSeq(s, 1, 0)) = <<>>
         /\ GPUsOfPods(which, SubSeq(s, 1, Len(s))) = GPUsOfPods(which, s)
         /\ \A n \in 0..(Len(s) - 1) :
              /\ GPUsOfPods(which, SubSeq(s, 1, n)) \in Seq(Int)
              /\ GPUsOfPods(which, SubSeq(s, 1, n + 1)) =
                   IF s[n + 1].here /\ IsListed(which, s[n + 1])
                   THEN Append(GPUsOfPods(which, SubSeq(s, 1, n)), Requested(s[n + 1]))
                   ELSE GPUsOfPods(which, SubSeq(s, 1, n))
<1>1. SubSeq(s, 1, 0) = <<>> /\ SubSeq(s, 1, Len(s)) = s /\ <<>> \in Seq(Pods)
  OBVIOUS
<1>2. GPUsOfPods(which, <<>>) = <<>>
  BY <1>1, PodsReach, ReachEmpty
<1>3. ASSUME NEW n \in 0..(Len(s) - 1)
      PROVE  /\ GPUsOfPods(which, SubSeq(s, 1, n)) \in Seq(Int)
             /\ GPUsOfPods(which, SubSeq(s, 1, n + 1)) =
                  PodStep(which)[<<GPUsOfPods(which, SubSeq(s, 1, n)), s[n + 1]>>]
             /\ s[n + 1] \in Pods
  <2>1. /\ SubSeq(s, 1, n) \in Seq(Pods) /\ s[n + 1] \in Pods
        /\ SubSeq(s, 1, n + 1) \in Seq(Pods)
        /\ SubSeq(s, 1, n + 1) = Append(SubSeq(s, 1, n), s[n + 1])
    BY PrefixGrows
  <2>2. /\ Reaches(GPUsOfPods(which, SubSeq(s, 1, n)), PodStep(which), <<>>, SubSeq(s, 1, n))
        /\ Reaches(GPUsOfPods(which, SubSeq(s, 1, n + 1)), PodStep(which), <<>>,
                   Append(SubSeq(s, 1, n), s[n + 1]))
        /\ GPUsOfPods(which, SubSeq(s, 1, n)) \in Seq(Int)
    BY <2>1, PodsReach
  <2> QED
    BY <2>1, <2>2, ReachAppend
<1> QED
  BY <1>1, <1>2, <1>3, PodStepType

-------------------------------------------------------------------------------
(* The records of a kernel log.                                            *)

XidEvents == {ParseXid(r) : r \in {q \in Records : q.text = "xid"}}

LEMMA EventSeverity == \A event \in XidEvents : event.severity \in XidSeverities
<1> SUFFICES ASSUME NEW r \in Records, r.text = "xid"
             PROVE  ParseXid(r).severity \in XidSeverities
  BY DEF XidEvents
<1> DEFINE Others == [text : {"malformed", "other", "nvrm"}, severity : {""}, bus : {<<>>}]
           Xids == [text : {"xid"}, severity : XidSeverities, bus : Seq(STRING)]
<1>1. r \notin Others
  <2>1. \A o \in Others : o.text \in {"malformed", "other", "nvrm"}
    OBVIOUS
  <2> HIDE DEF Others
  <2> QED
    BY <2>1
<1>2. r \in Xids
  <2>1. Records = Others \cup Xids
    BY DEF Records
  <2> HIDE DEF Others, Xids
  <2> QED
    BY <1>1, <2>1
<1>3. r.severity \in XidSeverities
  BY <1>2
<1> QED
  BY <1>3 DEF ParseXid

\* What a record adds to the events.
EventStep ==
  [p \in Seq(XidEvents) \X Records |->
    IF p[2].text = "xid" THEN Append(p[1], ParseXid(p[2])) ELSE p[1]]

LEMMA EventStepType ==
  /\ EventStep \in [Seq(XidEvents) \X Records -> Seq(XidEvents)]
  /\ \A found \in Seq(XidEvents), r \in Records :
       EventStep[<<found, r>>] =
         IF r.text = "xid" THEN Append(found, ParseXid(r)) ELSE found
<1>1. \A found \in Seq(XidEvents), r \in Records :
        r.text = "xid" => Append(found, ParseXid(r)) \in Seq(XidEvents)
  <2>1. \A r \in Records : r.text = "xid" => ParseXid(r) \in XidEvents
    BY DEF XidEvents
  <2> HIDE DEF XidEvents
  <2> QED
    BY <2>1
<1>2. \A p \in Seq(XidEvents) \X Records : p[1] \in Seq(XidEvents) /\ p[2] \in Records
  OBVIOUS
<1> HIDE DEF XidEvents
<1> QED
  BY <1>1, <1>2 DEF EventStep

LEMMA EventsReach ==
  ASSUME NEW s \in Seq(Records)
  PROVE  /\ Reaches(ParseMessages(s), EventStep, <<>>, s)
         /\ ParseMessages(s) \in Seq(XidEvents)
<1> DEFINE Acc == Seq(XidEvents)
           step == EventStep
           body(found, r) == IF r.text = "xid" THEN Append(found, ParseXid(r)) ELSE found
<1>1. DOMAIN s = 1..Len(s) /\ step \in [Acc \X Records -> Acc] /\ <<>> \in Acc
  <2>1. step \in [Acc \X Records -> Acc]
    BY EventStepType
  <2> HIDE DEF step
  <2> QED
    BY <2>1
<1>2. \A found \in Acc, r \in Records : step[<<found, r>>] = body(found, r)
  BY EventStepType
<1>3. \A t \in SUBSET (1..Len(s)) : t # {} => s[Max(t)] \in Records
  BY LastInSeq
<1> HIDE DEF Acc
<1>4. PICK f \in [SUBSET (1..Len(s)) -> Acc] : IsFold(f, step, <<>>, s)
  <2> HIDE DEF step
  <2> QED
    BY <1>1, FoldExists
<1>5. \A t \in SUBSET (1..Len(s)) : f[t \ {Max(t)}] \in Acc
  OBVIOUS
<1>6. f = [t \in SUBSET (1..Len(s)) |->
            IF t = {} THEN <<>> ELSE body(f[t \ {Max(t)}], s[Max(t)])]
  <2> HIDE DEF step, body
  <2>1. \A t \in SUBSET (1..Len(s)) :
          t # {} => step[<<f[t \ {Max(t)}], s[Max(t)]>>] = body(f[t \ {Max(t)}], s[Max(t)])
    BY <1>2, <1>3, <1>5
  <2> QED
    BY <1>4, <2>1 DEF IsFold
<1>7. PICK g : /\ g = [t \in SUBSET (1..Len(s)) |->
                         IF t = {} THEN <<>> ELSE body(g[t \ {Max(t)}], s[Max(t)])]
               /\ ParseMessages(s) = g[1..Len(s)]
  BY <1>1, <1>6 DEF ParseMessages, FoldLeft, MapThenFoldSet
<1> HIDE DEF step, body
<1>8. FoldsTo(g, Acc, step, <<>>, s)
  BY <1>2, <1>3, <1>7 DEF FoldsTo
<1>9. Reaches(g[1..Len(s)], step, <<>>, s) /\ g[1..Len(s)] \in Acc
  BY <1>1, <1>8, FoldReaches
<1> QED
  BY <1>7, <1>9 DEF step, Acc

(***************************************************************************)
(* The events of a log that is one record longer.                          *)
(***************************************************************************)
LEMMA EventsAppend ==
  /\ ParseMessages(<<>>) = <<>>
  /\ \A s \in Seq(Records), r \in Records :
       ParseMessages(Append(s, r)) =
         IF r.text = "xid" THEN Append(ParseMessages(s), ParseXid(r)) ELSE ParseMessages(s)
<1>1. ParseMessages(<<>>) = <<>>
  <2>1. <<>> \in Seq(Records)
    OBVIOUS
  <2> QED
    BY <2>1, EventsReach, ReachEmpty
<1>2. ASSUME NEW s \in Seq(Records), NEW r \in Records
      PROVE  ParseMessages(Append(s, r)) =
               IF r.text = "xid" THEN Append(ParseMessages(s), ParseXid(r))
               ELSE ParseMessages(s)
  <2>1. Append(s, r) \in Seq(Records)
    OBVIOUS
  <2>2. /\ Reaches(ParseMessages(s), EventStep, <<>>, s)
        /\ Reaches(ParseMessages(Append(s, r)), EventStep, <<>>, Append(s, r))
        /\ ParseMessages(s) \in Seq(XidEvents)
    BY <2>1, EventsReach
  <2>3. ParseMessages(Append(s, r)) = EventStep[<<ParseMessages(s), r>>]
    BY <2>2, ReachAppend
  <2> QED
    BY <2>2, <2>3, EventStepType
<1> QED
  BY <1>1, <1>2

-------------------------------------------------------------------------------
(* The GPUs that the pods of a node hold.                                  *)

PodSpecs == [gpus : Nat, ended : BOOLEAN]

\* What a pod adds to the allocation.
AllocationStep == [p \in Int \X PodSpecs |-> IF p[2].ended THEN p[1] ELSE p[1] + p[2].gpus]

LEMMA AllocationStepType ==
  /\ AllocationStep \in [Int \X PodSpecs -> Int]
  /\ \A sum \in Int, pod \in PodSpecs :
       AllocationStep[<<sum, pod>>] = IF pod.ended THEN sum ELSE sum + pod.gpus
<1>1. \A sum \in Int, pod \in PodSpecs : sum + pod.gpus \in Int
  BY DEF PodSpecs
<1>2. \A p \in Int \X PodSpecs : p[1] \in Int /\ p[2] \in PodSpecs
  OBVIOUS
<1> HIDE DEF PodSpecs
<1> QED
  BY <1>1, <1>2 DEF AllocationStep

LEMMA AllocationReaches ==
  ASSUME NEW s \in Seq(PodSpecs)
  PROVE  Reaches(NodeGPUAllocation(s), AllocationStep, 0, s)
<1> DEFINE step == AllocationStep
           body(sum, p) == IF p.ended THEN sum ELSE sum + p.gpus
<1>1. DOMAIN s = 1..Len(s) /\ step \in [Int \X PodSpecs -> Int] /\ 0 \in Int
  <2>1. step \in [Int \X PodSpecs -> Int]
    BY AllocationStepType
  <2> HIDE DEF step
  <2> QED
    BY <2>1
<1>2. \A sum \in Int, pod \in PodSpecs : step[<<sum, pod>>] = body(sum, pod)
  BY AllocationStepType
<1>3. \A t \in SUBSET (1..Len(s)) : t # {} => s[Max(t)] \in PodSpecs
  BY LastInSeq
<1>4. PICK f \in [SUBSET (1..Len(s)) -> Int] : IsFold(f, step, 0, s)
  <2> HIDE DEF step
  <2> QED
    BY <1>1, FoldExists
<1>5. \A t \in SUBSET (1..Len(s)) : f[t \ {Max(t)}] \in Int
  OBVIOUS
<1>6. f = [t \in SUBSET (1..Len(s)) |->
            IF t = {} THEN 0 ELSE body(f[t \ {Max(t)}], s[Max(t)])]
  <2> HIDE DEF step, body
  <2>1. \A t \in SUBSET (1..Len(s)) :
          t # {} => step[<<f[t \ {Max(t)}], s[Max(t)]>>] = body(f[t \ {Max(t)}], s[Max(t)])
    BY <1>2, <1>3, <1>5
  <2> QED
    BY <1>4, <2>1 DEF IsFold
<1>7. PICK g : /\ g = [t \in SUBSET (1..Len(s)) |->
                         IF t = {} THEN 0 ELSE body(g[t \ {Max(t)}], s[Max(t)])]
               /\ NodeGPUAllocation(s) = g[1..Len(s)]
  BY <1>1, <1>6 DEF NodeGPUAllocation, FoldLeft, MapThenFoldSet
<1> HIDE DEF step, body
<1>8. FoldsTo(g, Int, step, 0, s)
  BY <1>2, <1>3, <1>7 DEF FoldsTo
<1>9. Reaches(g[1..Len(s)], step, 0, s)
  BY <1>1, <1>8, FoldReaches
<1> QED
  BY <1>7, <1>9 DEF step

(***************************************************************************)
(* The loop over the pods finds what those that have not ended hold.       *)
(***************************************************************************)
LEMMA AllocationIsHeld ==
  ASSUME NEW s \in Seq(PodSpecs)
  PROVE  NodeGPUAllocation(s) = Held(s) /\ Held(s) \in Nat
<1> DEFINE h == [i \in DOMAIN s |-> IF s[i].ended THEN 0 ELSE s[i].gpus]
<1>1. Len(s) \in Nat /\ DOMAIN s = 1..Len(s) /\ \A i \in 1..Len(s) : s[i] \in PodSpecs
  OBVIOUS
<1>2. \A pod \in PodSpecs : pod.ended \in BOOLEAN /\ pod.gpus \in Nat
  BY DEF PodSpecs
<1>3. /\ h \in Seq(Int) /\ Len(h) = Len(s)
      /\ \A i \in 1..Len(s) : h[i] = IF s[i].ended THEN 0 ELSE s[i].gpus
      /\ \A i \in 1..Len(s) : h[i] \in Nat
  <2>1. \A i \in 1..Len(s) : (IF s[i].ended THEN 0 ELSE s[i].gpus) \in Nat
    BY <1>1, <1>2
  <2>2. h = [i \in 1..Len(s) |-> IF s[i].ended THEN 0 ELSE s[i].gpus]
    BY <1>1
  <2> QED
    BY <1>1, <2>1, <2>2
<1> HIDE DEF h
<1>4. PICK r : IsRun(r, AllocationStep, 0, s) /\ NodeGPUAllocation(s) = r[Len(s)]
  BY AllocationReaches DEF Reaches
<1>5. \A k \in 0..Len(s) : r[k] \in Int
  <2>1. KeepsTo(r, Int, AllocationStep, 0, s)
    BY <1>4 DEF KeepsTo, IsRun
  <2>2. AllocationStep \in [Int \X PodSpecs -> Int] /\ 0 \in Int
    BY AllocationStepType
  <2> HIDE DEF PodSpecs
  <2> QED
    BY <2>1, <2>2, RunTyped
<1>6. ASSUME NEW k \in 0..(Len(s) - 1) PROVE r[k + 1] = r[k] + h[k + 1]
  <2>1. k \in 0..Len(s) /\ k + 1 \in 1..Len(s)
    BY <1>1
  <2>2. r[k] \in Int /\ s[k + 1] \in PodSpecs
    BY <1>1, <1>5, <2>1
  <2>3. r[k + 1] = AllocationStep[<<r[k], s[k + 1]>>]
    BY <1>4 DEF IsRun
  <2>4. r[k + 1] = IF s[k + 1].ended THEN r[k] ELSE r[k] + s[k + 1].gpus
    BY <2>2, <2>3, AllocationStepType
  <2> QED
    BY <1>3, <2>1, <2>2, <2>4
<1>7. AddsUp(r, h)
  BY <1>3, <1>4, <1>6 DEF AddsUp, IsRun
<1>8. SumOf(h) = r[Len(s)]
  BY <1>3, <1>7, RunIsSum
<1>9. 0 <= SumOf(h) /\ SumOf(h) \in Int
  <2>1. \A i \in 1..Len(h) : 0 <= h[i] /\ h[i] <= h[i]
    BY <1>3
  <2> QED
    BY <1>3, <2>1, SumBetween
<1> QED
  BY <1>4, <1>8, <1>9 DEF Held, h

-------------------------------------------------------------------------------
(* What the gateway makes of the responses that an agent wrote.            *)

(***************************************************************************)
(* The bytes of the model, and the texts of the kinds of responses.        *)
(***************************************************************************)
Chars == {"open", "close", "quote", "back", "x", "end"}

LEMMA BytesAre ==
  /\ Kinds = {"init", "data", "text", "toolError", "rpcError"}
  /\ Bytes["init"] = <<"open", "x", "open", "close", "close">>
  /\ Bytes["data"] = <<"open", "quote", "open", "back", "quote", "close", "quote", "close">>
  /\ Bytes["text"] = <<"open", "quote", "open", "quote", "close">>
  /\ Bytes["toolError"] = <<"open", "quote", "back", "back", "quote", "close">>
  /\ Bytes["rpcError"] = <<"open", "x", "close">>
  BY DEF Bytes, Kinds

\* A text of a response, from its first brace to its last.
IsResponse(b) ==
  /\ b \in Seq(Chars) /\ Len(b) \in 3..8
  /\ \A i \in 1..Len(b) : b[i] # "end"
  /\ b[1] = "open" /\ b[Len(b)] = "close"

LEMMA ResponseBytes == \A kind \in Kinds : IsResponse(Bytes[kind])
<1>1. IsResponse(Bytes["init"])
  <2> DEFINE b == <<"open", "x", "open", "close", "close">>
  <2>1. b \in Seq(Chars) /\ Len(b) = 5
    BY DEF Chars
  <2>2. b[1] = "open" /\ b[2] = "x" /\ b[3] = "open" /\ b[4] = "close" /\ b[5] = "close"
    OBVIOUS
  <2>3. Bytes["init"] = b
    BY BytesAre
  <2> HIDE DEF b
  <2>4. \A i \in 1..5 : b[i] # "end"
    BY <2>2
  <2>5. IsResponse(b)
    BY <2>1, <2>2, <2>4 DEF IsResponse
  <2> QED
    BY <2>3, <2>5, Zenon
<1>2. IsResponse(Bytes["data"])
  <2> DEFINE b == <<"open", "quote", "open", "back", "quote", "close", "quote", "close">>
  <2>1. b \in Seq(Chars) /\ Len(b) = 8
    BY DEF Chars
  <2>2. /\ b[1] = "open" /\ b[2] = "quote" /\ b[3] = "open" /\ b[4] = "back"
        /\ b[5] = "quote" /\ b[6] = "close" /\ b[7] = "quote" /\ b[8] = "close"
    OBVIOUS
  <2>3. Bytes["data"] = b
    BY BytesAre
  <2> HIDE DEF b
  <2>4. \A i \in 1..8 : b[i] # "end"
    BY <2>2
  <2>5. IsResponse(b)
    BY <2>1, <2>2, <2>4 DEF IsResponse
  <2> QED
    BY <2>3, <2>5, Zenon
<1>3. IsResponse(Bytes["text"])
  <2> DEFINE b == <<"open", "quote", "open", "quote", "close">>
  <2>1. b \in Seq(Chars) /\ Len(b) = 5
    BY DEF Chars
  <2>2. b[1] = "open" /\ b[2] = "quote" /\ b[3] = "open" /\ b[4] = "quote" /\ b[5] = "close"
    OBVIOUS
  <2>3. Bytes["text"] = b
    BY BytesAre
  <2> HIDE DEF b
  <2>4. \A i \in 1..5 : b[i] # "end"
    BY <2>2
  <2>5. IsResponse(b)
    BY <2>1, <2>2, <2>4 DEF IsResponse
  <2> QED
    BY <2>3, <2>5, Zenon
<1>4. IsResponse(Bytes["toolError"])
  <2> DEFINE b == <<"open", "quote", "back", "back", "quote", "close">>
  <2>1. b \in Seq(Chars) /\ Len(b) = 6
    BY DEF Chars
  <2>2. /\ b[1] = "open" /\ b[2] = "quote" /\ b[3] = "back" /\ b[4] = "back"
        /\ b[5] = "quote" /\ b[6] = "close"
    OBVIOUS
  <2>3. Bytes["toolError"] = b
    BY BytesAre
  <2> HIDE DEF b
  <2>4. \A i \in 1..6 : b[i] # "end"
    BY <2>2
  <2>5. IsResponse(b)
    BY <2>1, <2>2, <2>4 DEF IsResponse
  <2> QED
    BY <2>3, <2>5, Zenon
<1>5. IsResponse(Bytes["rpcError"])
  <2> DEFINE b == <<"open", "x", "close">>
  <2>1. b \in Seq(Chars) /\ Len(b) = 3
    BY DEF Chars
  <2>2. b[1] = "open" /\ b[2] = "x" /\ b[3] = "close"
    OBVIOUS
  <2>3. Bytes["rpcError"] = b
    BY BytesAre
  <2> HIDE DEF b
  <2>4. \A i \in 1..3 : b[i] # "end"
    BY <2>2
  <2>5. IsResponse(b)
    BY <2>1, <2>2, <2>4 DEF IsResponse
  <2> QED
    BY <2>3, <2>5, Zenon
<1> QED
  BY <1>1, <1>2, <1>3, <1>4, <1>5, BytesAre, Zenon

LEMMA DecodeBytes == \A kind \in Kinds : Decode(Bytes[kind]) = Meaning(kind)
<1>1. \A k, l \in Kinds : Bytes[k] = Bytes[l] => k = l
  <2>1. /\ Len(Bytes["init"]) = 5 /\ Len(Bytes["data"]) = 8 /\ Len(Bytes["text"]) = 5
        /\ Len(Bytes["toolError"]) = 6 /\ Len(Bytes["rpcError"]) = 3
        /\ Bytes["init"][2] = "x" /\ Bytes["text"][2] = "quote"
    BY BytesAre
  <2> QED
    BY <2>1, BytesAre
<1>2. ASSUME NEW kind \in Kinds PROVE Decode(Bytes[kind]) = Meaning(kind)
  <2>1. (CHOOSE k \in Kinds : Bytes[k] = Bytes[kind]) = kind
    BY <1>1
  <2> QED
    BY <2>1, Zenon DEF Decode
<1> QED
  BY <1>2

LEMMA NotDecoded ==
  ASSUME NEW object, \A kind \in Kinds : Bytes[kind] # object
  PROVE  Decode(object) = "error"
  BY DEF Decode

LEMMA TrimSpaceType == ASSUME NEW b \in Seq(Chars) PROVE TrimSpace(b) \in Seq(Chars)
<1> DEFINE kept == {i \in DOMAIN b : b[i] # "end"}
<1>1. CASE kept = {}
  BY <1>1 DEF TrimSpace
<1>2. CASE kept # {}
  <2>1. Len(b) \in Nat /\ kept \in SUBSET (1..Len(b))
    OBVIOUS
  <2>2. TrimSpace(b) = SubSeq(b, Min(kept), Max(kept))
    BY <1>2 DEF TrimSpace
  <2> HIDE DEF kept
  <2>3. Min(kept) \in kept /\ Max(kept) \in kept
    BY <1>2, <2>1, MinOfSubset, MaxOfSubset
  <2>4. Min(kept) \in 1..Len(b) /\ Max(kept) \in 1..Len(b)
    BY <2>1, <2>3
  <2>5. SubSeq(b, Min(kept), Max(kept)) \in Seq(Chars)
    <3> HIDE DEF Chars
    <3> QED
      BY <2>1, <2>4
  <2> QED
    BY <2>2, <2>5
<1> QED
  BY <1>1, <1>2

Scans == [objects : Seq(Seq(Chars)), current : Seq(Chars), depth : Int,
          inString : BOOLEAN, escaped : BOOLEAN]

Scan(objects, current, depth, inString, escaped) ==
  [objects |-> objects, current |-> current, depth |-> depth,
   inString |-> inString, escaped |-> escaped]

\* What a byte does, by where it is.
LEMMA ScanRules ==
  ASSUME NEW s \in Scans, NEW c \in Chars
  PROVE  LET next == Append(s.current, c)
         IN /\ s.escaped =>
                 ScanByte(s, c) = Scan(s.objects, next, s.depth, s.inString, FALSE)
            /\ ~ s.escaped /\ s.inString =>
                 /\ c = "back" => ScanByte(s, c) = Scan(s.objects, next, s.depth, TRUE, TRUE)
                 /\ c = "quote" => ScanByte(s, c) = Scan(s.objects, next, s.depth, FALSE, FALSE)
                 /\ c \notin {"back", "quote"} =>
                      ScanByte(s, c) = Scan(s.objects, next, s.depth, TRUE, FALSE)
            /\ ~ s.escaped /\ ~ s.inString =>
                 /\ c = "quote" => ScanByte(s, c) = Scan(s.objects, next, s.depth, TRUE, FALSE)
                 /\ c = "open" =>
                      ScanByte(s, c) = Scan(s.objects, next, s.depth + 1, FALSE, FALSE)
                 /\ c = "close" /\ s.depth = 1 =>
                      ScanByte(s, c) =
                        Scan(Append(s.objects, TrimSpace(next)), <<>>, 0, FALSE, FALSE)
                 /\ c = "close" /\ s.depth # 1 =>
                      ScanByte(s, c) = Scan(s.objects, next, s.depth - 1, FALSE, FALSE)
                 /\ c \notin {"quote", "open", "close"} =>
                      ScanByte(s, c) = Scan(s.objects, next, s.depth, FALSE, FALSE)
<1> USE DEF ScanByte, Scans, Scan, Chars
<1>1. CASE s.escaped
  BY <1>1
<1>2. CASE ~ s.escaped /\ s.inString
  BY <1>2
<1>3. CASE ~ s.escaped /\ ~ s.inString
  BY <1>3
<1> QED
  BY <1>1, <1>2, <1>3

LEMMA ScanByteType == ASSUME NEW s \in Scans, NEW c \in Chars PROVE ScanByte(s, c) \in Scans
<1>1. /\ s.objects \in Seq(Seq(Chars)) /\ s.current \in Seq(Chars) /\ s.depth \in Int
      /\ s.inString \in BOOLEAN /\ s.escaped \in BOOLEAN
  BY DEF Scans
<1> DEFINE next == Append(s.current, c)
<1>2. next \in Seq(Chars) /\ TrimSpace(next) \in Seq(Chars)
  <2>1. next \in Seq(Chars)
    <3> HIDE DEF Chars
    <3> QED
      BY <1>1
  <2> QED
    BY <2>1, TrimSpaceType
<1>3. Append(s.objects, TrimSpace(next)) \in Seq(Seq(Chars))
  <2> HIDE DEF next, Chars
  <2> QED
    BY <1>1, <1>2
<1>4. \A o \in Seq(Seq(Chars)), cur \in Seq(Chars), d \in Int, q, e \in BOOLEAN :
        Scan(o, cur, d, q, e) \in Scans
  BY DEF Scan, Scans
<1>5. s.depth + 1 \in Int /\ s.depth - 1 \in Int /\ <<>> \in Seq(Chars)
  BY <1>1
<1>6. CASE s.escaped
  <2>1. ScanByte(s, c) = Scan(s.objects, next, s.depth, s.inString, FALSE)
    BY <1>6, ScanRules
  <2> HIDE DEF next
  <2>2. FALSE \in BOOLEAN
    OBVIOUS
  <2>3. Scan(s.objects, next, s.depth, s.inString, FALSE) \in Scans
    BY <1>1, <1>2, <1>4, <2>2, Zenon
  <2> QED
    BY <2>1, <2>3, Zenon
<1>7. CASE ~ s.escaped /\ s.inString
  <2>1. PICK q \in BOOLEAN, e \in BOOLEAN :
          ScanByte(s, c) = Scan(s.objects, next, s.depth, q, e)
    BY <1>7, ScanRules
  <2> HIDE DEF next
  <2>2. Scan(s.objects, next, s.depth, q, e) \in Scans
    BY <1>1, <1>2, <1>4, Zenon
  <2> QED
    BY <2>1, <2>2, Zenon
<1>8. CASE ~ s.escaped /\ ~ s.inString
  <2>1. \/ \E d \in {s.depth, s.depth + 1, s.depth - 1}, q \in BOOLEAN :
             ScanByte(s, c) = Scan(s.objects, next, d, q, FALSE)
        \/ ScanByte(s, c) = Scan(Append(s.objects, TrimSpace(next)), <<>>, 0, FALSE, FALSE)
    BY <1>8, ScanRules
  <2> HIDE DEF next
  <2>2. {s.depth, s.depth + 1, s.depth - 1} \subseteq Int /\ 0 \in Int
    BY <1>1, <1>5
  <2>3. CASE ScanByte(s, c) = Scan(Append(s.objects, TrimSpace(next)), <<>>, 0, FALSE, FALSE)
    <3>1. FALSE \in BOOLEAN
      OBVIOUS
    <3>2. Scan(Append(s.objects, TrimSpace(next)), <<>>, 0, FALSE, FALSE) \in Scans
      BY <1>3, <1>4, <1>5, <2>2, <3>1, Zenon
    <3> QED
      BY <2>3, <3>2, Zenon
  <2>4. ASSUME NEW d \in {s.depth, s.depth + 1, s.depth - 1}, NEW q \in BOOLEAN,
               ScanByte(s, c) = Scan(s.objects, next, d, q, FALSE)
        PROVE  ScanByte(s, c) \in Scans
    <3>1. d \in Int /\ FALSE \in BOOLEAN
      BY <2>2
    <3>2. Scan(s.objects, next, d, q, FALSE) \in Scans
      BY <1>1, <1>2, <1>4, <3>1, Zenon
    <3> QED
      BY <2>4, <3>2, Zenon
  <2> QED
    BY <2>1, <2>3, <2>4, Zenon
<1> QED
  BY <1>6, <1>7, <1>8

ScanStep == [p \in Scans \X Chars |-> ScanByte(p[1], p[2])]

LEMMA ScanStepType ==
  /\ ScanStep \in [Scans \X Chars -> Scans]
  /\ \A s \in Scans, c \in Chars : ScanStep[<<s, c>>] = ScanByte(s, c)
<1>1. ASSUME NEW p \in Scans \X Chars PROVE ScanByte(p[1], p[2]) \in Scans
  <2>1. p[1] \in Scans /\ p[2] \in Chars
    <3> HIDE DEF Chars
    <3> QED
      OBVIOUS
  <2> QED
    BY <2>1, ScanByteType
<1>2. \A s \in Scans, c \in Chars :
        <<s, c>> \in Scans \X Chars /\ <<s, c>>[1] = s /\ <<s, c>>[2] = c
  OBVIOUS
<1> QED
  BY <1>1, <1>2 DEF ScanStep

LEMMA ScanStartType == ScanStart \in Scans /\ ScanStart = Scan(<<>>, <<>>, 0, FALSE, FALSE)
<1>1. ScanStart = Scan(<<>>, <<>>, 0, FALSE, FALSE)
  BY DEF ScanStart, Scan
<1>2. <<>> \in Seq(Seq(Chars)) /\ <<>> \in Seq(Chars) /\ 0 \in Int
  OBVIOUS
<1> QED
  BY <1>1, <1>2 DEF Scan, Scans

ScanOf(bytes) == FoldLeft(ScanByte, ScanStart, bytes)

LEMMA ScanReaches ==
  ASSUME NEW s \in Seq(Chars)
  PROVE  Reaches(ScanOf(s), ScanStep, ScanStart, s) /\ ScanOf(s) \in Scans
<1> DEFINE Acc == Scans
           step == ScanStep
<1>1. DOMAIN s = 1..Len(s) /\ step \in [Acc \X Chars -> Acc] /\ ScanStart \in Acc
  <2>1. step \in [Acc \X Chars -> Acc] /\ ScanStart \in Acc
    BY ScanStepType, ScanStartType
  <2> HIDE DEF step
  <2> QED
    BY <2>1
<1>2. \A a \in Acc, c \in Chars : step[<<a, c>>] = ScanByte(a, c)
  BY ScanStepType
<1>3. \A t \in SUBSET (1..Len(s)) : t # {} => s[Max(t)] \in Chars
  BY LastInSeq
<1> HIDE DEF Acc
<1>4. PICK f \in [SUBSET (1..Len(s)) -> Acc] : IsFold(f, step, ScanStart, s)
  <2> HIDE DEF step
  <2> QED
    BY <1>1, FoldExists
<1>5. \A t \in SUBSET (1..Len(s)) : f[t \ {Max(t)}] \in Acc
  OBVIOUS
<1>6. f = [t \in SUBSET (1..Len(s)) |->
            IF t = {} THEN ScanStart ELSE ScanByte(f[t \ {Max(t)}], s[Max(t)])]
  <2> HIDE DEF step
  <2>1. \A t \in SUBSET (1..Len(s)) :
          t # {} => step[<<f[t \ {Max(t)}], s[Max(t)]>>] = ScanByte(f[t \ {Max(t)}], s[Max(t)])
    BY <1>2, <1>3, <1>5
  <2> QED
    BY <1>4, <2>1 DEF IsFold
<1>7. PICK g : /\ g = [t \in SUBSET (1..Len(s)) |->
                         IF t = {} THEN ScanStart ELSE ScanByte(g[t \ {Max(t)}], s[Max(t)])]
               /\ ScanOf(s) = g[1..Len(s)]
  BY <1>1, <1>6 DEF ScanOf, FoldLeft, MapThenFoldSet
<1> HIDE DEF step
<1>8. FoldsTo(g, Acc, step, ScanStart, s)
  BY <1>2, <1>3, <1>7 DEF FoldsTo
<1>9. Reaches(g[1..Len(s)], step, ScanStart, s) /\ g[1..Len(s)] \in Acc
  BY <1>1, <1>8, FoldReaches
<1> QED
  BY <1>7, <1>9 DEF step, Acc

LEMMA ScanAppend ==
  /\ ScanOf(<<>>) = ScanStart
  /\ \A s \in Seq(Chars), c \in Chars :
       ScanOf(s) \in Scans /\ ScanOf(Append(s, c)) = ScanByte(ScanOf(s), c)
<1>1. ScanOf(<<>>) = ScanStart
  <2>1. <<>> \in Seq(Chars)
    OBVIOUS
  <2> QED
    BY <2>1, ScanReaches, ReachEmpty
<1>2. ASSUME NEW s \in Seq(Chars), NEW c \in Chars
      PROVE  ScanOf(s) \in Scans /\ ScanOf(Append(s, c)) = ScanByte(ScanOf(s), c)
  <2>1. Append(s, c) \in Seq(Chars)
    <3> HIDE DEF Chars
    <3> QED
      OBVIOUS
  <2>2. /\ Reaches(ScanOf(s), ScanStep, ScanStart, s)
        /\ Reaches(ScanOf(Append(s, c)), ScanStep, ScanStart, Append(s, c))
        /\ ScanOf(s) \in Scans
    BY <2>1, ScanReaches
  <2>3. ScanOf(Append(s, c)) = ScanStep[<<ScanOf(s), c>>]
    BY <2>2, ReachAppend
  <2> QED
    BY <2>2, <2>3, ScanStepType
<1> QED
  BY <1>1, <1>2

Line(kind) == Append(Bytes[kind], "end")

LEMMA LineType == \A kind \in Kinds : Line(kind) \in Seq(Chars)
<1> SUFFICES ASSUME NEW kind \in Kinds PROVE Line(kind) \in Seq(Chars)
  OBVIOUS
<1>1. Bytes[kind] \in Seq(Chars)
  BY ResponseBytes DEF IsResponse
<1>2. "end" \in Chars
  BY DEF Chars
<1> HIDE DEF Chars
<1> QED
  BY <1>1, <1>2 DEF Line

OutputStep == [p \in Seq(Chars) \X Kinds |-> p[1] \o Line(p[2])]

LEMMA OutputStepType ==
  /\ OutputStep \in [Seq(Chars) \X Kinds -> Seq(Chars)]
  /\ \A s \in Seq(Chars), k \in Kinds : OutputStep[<<s, k>>] = s \o Line(k)
<1>1. ASSUME NEW p \in Seq(Chars) \X Kinds PROVE p[1] \o Line(p[2]) \in Seq(Chars)
  <2>1. p[1] \in Seq(Chars) /\ Line(p[2]) \in Seq(Chars)
    BY LineType
  <2> QED
    BY <2>1
<1>2. \A s \in Seq(Chars), k \in Kinds :
        <<s, k>> \in Seq(Chars) \X Kinds /\ <<s, k>>[1] = s /\ <<s, k>>[2] = k
  OBVIOUS
<1> QED
  BY <1>1, <1>2 DEF OutputStep

LEMMA OutputReaches ==
  ASSUME NEW s \in Seq(Kinds)
  PROVE  Reaches(Output(s), OutputStep, <<>>, s) /\ Output(s) \in Seq(Chars)
<1> DEFINE Acc == Seq(Chars)
           step == OutputStep
           body(bytes, kind) == bytes \o Append(Bytes[kind], "end")
<1>1. DOMAIN s = 1..Len(s) /\ step \in [Acc \X Kinds -> Acc] /\ <<>> \in Acc
  <2>1. step \in [Acc \X Kinds -> Acc]
    BY OutputStepType
  <2> HIDE DEF step
  <2> QED
    BY <2>1
<1>2. \A a \in Acc, k \in Kinds : step[<<a, k>>] = body(a, k)
  BY OutputStepType DEF Line
<1>3. \A t \in SUBSET (1..Len(s)) : t # {} => s[Max(t)] \in Kinds
  BY LastInSeq
<1> HIDE DEF Acc
<1>4. PICK f \in [SUBSET (1..Len(s)) -> Acc] : IsFold(f, step, <<>>, s)
  <2> HIDE DEF step
  <2> QED
    BY <1>1, FoldExists
<1>5. \A t \in SUBSET (1..Len(s)) : f[t \ {Max(t)}] \in Acc
  OBVIOUS
<1>6. f = [t \in SUBSET (1..Len(s)) |->
            IF t = {} THEN <<>> ELSE body(f[t \ {Max(t)}], s[Max(t)])]
  <2> HIDE DEF step, body
  <2>1. \A t \in SUBSET (1..Len(s)) :
          t # {} => step[<<f[t \ {Max(t)}], s[Max(t)]>>] = body(f[t \ {Max(t)}], s[Max(t)])
    BY <1>2, <1>3, <1>5
  <2> QED
    BY <1>4, <2>1 DEF IsFold
<1>7. PICK g : /\ g = [t \in SUBSET (1..Len(s)) |->
                         IF t = {} THEN <<>> ELSE body(g[t \ {Max(t)}], s[Max(t)])]
               /\ Output(s) = g[1..Len(s)]
  BY <1>1, <1>6 DEF Output, FoldLeft, MapThenFoldSet
<1> HIDE DEF step, body
<1>8. FoldsTo(g, Acc, step, <<>>, s)
  BY <1>2, <1>3, <1>7 DEF FoldsTo
<1>9. Reaches(g[1..Len(s)], step, <<>>, s) /\ g[1..Len(s)] \in Acc
  BY <1>1, <1>8, FoldReaches
<1> QED
  BY <1>7, <1>9 DEF step, Acc

LEMMA OutputAppend ==
  /\ Output(<<>>) = <<>>
  /\ \A s \in Seq(Kinds), k \in Kinds :
       Output(s) \in Seq(Chars) /\ Output(Append(s, k)) = Output(s) \o Line(k)
<1>1. Output(<<>>) = <<>>
  <2>1. <<>> \in Seq(Kinds)
    OBVIOUS
  <2> QED
    BY <2>1, OutputReaches, ReachEmpty
<1>2. ASSUME NEW s \in Seq(Kinds), NEW k \in Kinds
      PROVE  Output(s) \in Seq(Chars) /\ Output(Append(s, k)) = Output(s) \o Line(k)
  <2>1. Append(s, k) \in Seq(Kinds)
    OBVIOUS
  <2>2. /\ Reaches(Output(s), OutputStep, <<>>, s)
        /\ Reaches(Output(Append(s, k)), OutputStep, <<>>, Append(s, k))
        /\ Output(s) \in Seq(Chars)
    BY <2>1, OutputReaches
  <2>3. Output(Append(s, k)) = OutputStep[<<Output(s), k>>]
    BY <2>2, ReachAppend
  <2> QED
    BY <2>2, <2>3, OutputStepType
<1> QED
  BY <1>1, <1>2

(***************************************************************************)
(* Where the scan is after the first i bytes of a response b that follows  *)
(* x, when objects were found in x and the bytes c are left of it.         *)
(***************************************************************************)
At(x, objects, c, b, i, depth, mode) ==
  ScanOf(x \o SubSeq(b, 1, i)) =
    Scan(objects, c \o SubSeq(b, 1, i), depth, mode # "bare", mode = "escaped")

Found(x, objects, c, b, i) ==
  ScanOf(x \o SubSeq(b, 1, i)) =
    Scan(Append(objects, TrimSpace(c \o SubSeq(b, 1, i))), <<>>, 0, FALSE, FALSE)

LEMMA OneByteLonger ==
  ASSUME NEW E, NEW x \in Seq(E), NEW b \in Seq(E), NEW i \in 0..(Len(b) - 1)
  PROVE  /\ x \o SubSeq(b, 1, i) \in Seq(E) /\ b[i + 1] \in E
         /\ x \o SubSeq(b, 1, i + 1) = Append(x \o SubSeq(b, 1, i), b[i + 1])
<1>1. /\ SubSeq(b, 1, i) \in Seq(E) /\ b[i + 1] \in E
      /\ SubSeq(b, 1, i + 1) = Append(SubSeq(b, 1, i), b[i + 1])
  BY PrefixGrows
<1>2. ASSUME NEW t \in Seq(E), NEW e \in E PROVE x \o Append(t, e) = Append(x \o t, e)
  OBVIOUS
<1> QED
  BY <1>1, <1>2

LEMMA AtStep ==
  ASSUME NEW x \in Seq(Chars), NEW objects \in Seq(Seq(Chars)), NEW c \in Seq(Chars),
         NEW b \in Seq(Chars), NEW i \in 0..(Len(b) - 1), NEW depth \in Int, NEW mode,
         At(x, objects, c, b, i, depth, mode)
  PROVE  /\ mode = "escaped" => At(x, objects, c, b, i + 1, depth, "string")
         /\ mode = "string" =>
              /\ b[i + 1] = "back" => At(x, objects, c, b, i + 1, depth, "escaped")
              /\ b[i + 1] = "quote" => At(x, objects, c, b, i + 1, depth, "bare")
              /\ b[i + 1] \notin {"back", "quote"} =>
                   At(x, objects, c, b, i + 1, depth, "string")
         /\ mode = "bare" =>
              /\ b[i + 1] = "quote" => At(x, objects, c, b, i + 1, depth, "string")
              /\ b[i + 1] = "open" => At(x, objects, c, b, i + 1, depth + 1, "bare")
              /\ b[i + 1] = "close" /\ depth = 1 => Found(x, objects, c, b, i + 1)
              /\ b[i + 1] = "close" /\ depth # 1 =>
                   At(x, objects, c, b, i + 1, depth - 1, "bare")
              /\ b[i + 1] \notin {"quote", "open", "close"} =>
                   At(x, objects, c, b, i + 1, depth, "bare")
<1> DEFINE read == x \o SubSeq(b, 1, i)
           left == c \o SubSeq(b, 1, i)
           byte == b[i + 1]
           inString == mode # "bare"
           escaped == mode = "escaped"
           s == Scan(objects, left, depth, inString, escaped)
<1>1. /\ read \in Seq(Chars) /\ byte \in Chars
      /\ x \o SubSeq(b, 1, i + 1) = Append(read, byte)
      /\ c \o SubSeq(b, 1, i + 1) = Append(left, byte)
  <2> HIDE DEF Chars
  <2> QED
    BY OneByteLonger
<1>2. ScanOf(read) = s
  BY Zenon DEF At
<1>3. ScanOf(read) \in Scans /\ ScanOf(Append(read, byte)) = ScanByte(ScanOf(read), byte)
  <2> HIDE DEF read, byte
  <2> QED
    BY <1>1, ScanAppend
<1>4. s \in Scans /\ ScanOf(Append(read, byte)) = ScanByte(s, byte)
  <2> HIDE DEF read, byte, s
  <2> QED
    BY <1>2, <1>3, Zenon
<1>5. /\ s.objects = objects /\ s.current = left /\ s.depth = depth
      /\ s.inString = inString /\ s.escaped = escaped
  BY Zenon DEF Scan
<1> HIDE DEF s, read, left, byte
<1> DEFINE next == Append(left, byte)
<1>6. /\ escaped => ScanByte(s, byte) = Scan(objects, next, depth, inString, FALSE)
      /\ ~ escaped /\ inString =>
           /\ byte = "back" => ScanByte(s, byte) = Scan(objects, next, depth, TRUE, TRUE)
           /\ byte = "quote" => ScanByte(s, byte) = Scan(objects, next, depth, FALSE, FALSE)
           /\ byte \notin {"back", "quote"} =>
                ScanByte(s, byte) = Scan(objects, next, depth, TRUE, FALSE)
      /\ ~ escaped /\ ~ inString =>
           /\ byte = "quote" => ScanByte(s, byte) = Scan(objects, next, depth, TRUE, FALSE)
           /\ byte = "open" => ScanByte(s, byte) = Scan(objects, next, depth + 1, FALSE, FALSE)
           /\ byte = "close" /\ depth = 1 =>
                ScanByte(s, byte) = Scan(Append(objects, TrimSpace(next)), <<>>, 0, FALSE, FALSE)
           /\ byte = "close" /\ depth # 1 =>
                ScanByte(s, byte) = Scan(objects, next, depth - 1, FALSE, FALSE)
           /\ byte \notin {"quote", "open", "close"} =>
                ScanByte(s, byte) = Scan(objects, next, depth, FALSE, FALSE)
  <2> HIDE DEF inString, escaped
  <2> QED
    BY <1>1, <1>4, <1>5, ScanRules, Zenon
<1>7. ScanOf(x \o SubSeq(b, 1, i + 1)) = ScanByte(s, byte) /\ c \o SubSeq(b, 1, i + 1) = next
  BY <1>1, <1>4
<1> HIDE DEF next
<1>8. /\ ("bare" # "bare") = FALSE /\ ("bare" = "escaped") = FALSE
      /\ ("string" # "bare") = TRUE /\ ("string" = "escaped") = FALSE
      /\ ("escaped" # "bare") = TRUE /\ ("escaped" = "escaped") = TRUE
  OBVIOUS
<1>9. CASE mode = "escaped"
  BY <1>6, <1>7, <1>8, <1>9, Zenon DEF At, Found, byte
<1>10. CASE mode = "string"
  BY <1>6, <1>7, <1>8, <1>10, Zenon DEF At, Found, byte
<1>11. CASE mode = "bare"
  BY <1>6, <1>7, <1>8, <1>11, Zenon DEF At, Found, byte
<1> QED
  BY <1>9, <1>10, <1>11, Zenon

\* The same with the place and the depth after the byte given.
LEMMA AtByte ==
  ASSUME NEW x \in Seq(Chars), NEW objects \in Seq(Seq(Chars)), NEW c \in Seq(Chars),
         NEW b \in Seq(Chars), NEW i \in Nat, NEW j \in 1..Len(b), j = i + 1,
         NEW depth \in Int, NEW mode, At(x, objects, c, b, i, depth, mode)
  PROVE  /\ mode = "escaped" => At(x, objects, c, b, j, depth, "string")
         /\ mode = "string" /\ b[j] = "back" => At(x, objects, c, b, j, depth, "escaped")
         /\ mode = "string" /\ b[j] = "quote" => At(x, objects, c, b, j, depth, "bare")
         /\ mode = "string" /\ b[j] \notin {"back", "quote"} =>
              At(x, objects, c, b, j, depth, "string")
         /\ mode = "bare" /\ b[j] = "quote" => At(x, objects, c, b, j, depth, "string")
         /\ mode = "bare" /\ b[j] = "open" =>
              \A deeper : deeper = depth + 1 => At(x, objects, c, b, j, deeper, "bare")
         /\ mode = "bare" /\ b[j] = "close" /\ depth = 1 => Found(x, objects, c, b, j)
         /\ mode = "bare" /\ b[j] = "close" /\ depth # 1 =>
              \A outer : outer = depth - 1 => At(x, objects, c, b, j, outer, "bare")
         /\ mode = "bare" /\ b[j] \notin {"quote", "open", "close"} =>
              At(x, objects, c, b, j, depth, "bare")
<1>1. i \in 0..(Len(b) - 1)
  OBVIOUS
<1> QED
  BY <1>1, AtStep, Zenon

LEMMA LastByte ==
  ASSUME NEW x \in Seq(Chars), NEW objects \in Seq(Seq(Chars)), NEW c \in Seq(Chars),
         NEW b \in Seq(Chars), NEW i \in Nat, NEW j \in 1..Len(b), j = i + 1,
         At(x, objects, c, b, i, 1, "bare"), b[j] = "close"
  PROVE  Found(x, objects, c, b, j)
<1>1. 1 \in Int
  OBVIOUS
<1> QED
  BY <1>1, AtByte

(***************************************************************************)
(* The scan of a response ends with it, and finds it.                      *)
(***************************************************************************)
LEMMA ResponseFound ==
  ASSUME NEW x \in Seq(Chars), NEW objects \in Seq(Seq(Chars)), NEW c \in Seq(Chars),
         ScanOf(x) = Scan(objects, c, 0, FALSE, FALSE), NEW kind \in Kinds
  PROVE  Found(x, objects, c, Bytes[kind], Len(Bytes[kind]))
<1> DEFINE b(k) == Bytes[k]
           at(k, i, depth, mode) == At(x, objects, c, b(k), i, depth, mode)
<1>1. \A k \in Kinds : b(k) \in Seq(Chars)
  BY ResponseBytes DEF IsResponse
<1>2. ASSUME NEW k \in Kinds PROVE at(k, 0, 0, "bare")
  <2>1. SubSeq(b(k), 1, 0) = <<>> /\ x \o <<>> = x /\ c \o <<>> = c
    <3> HIDE DEF Chars
    <3> QED
      BY <1>1
  <2> QED
    BY <2>1 DEF At
<1>3. /\ 0 \in Nat /\ 1 \in Nat /\ 2 \in Nat /\ 3 \in Nat /\ 4 \in Nat
      /\ 5 \in Nat /\ 6 \in Nat /\ 7 \in Nat
      /\ 0 \in Int /\ 1 \in Int /\ 2 \in Int /\ 2 # 1
      /\ 1 = 0 + 1 /\ 2 = 1 + 1 /\ 3 = 2 + 1 /\ 4 = 3 + 1 /\ 5 = 4 + 1
      /\ 6 = 5 + 1 /\ 7 = 6 + 1 /\ 8 = 7 + 1 /\ 1 = 2 - 1
  OBVIOUS
<1>4. Found(x, objects, c, Bytes["init"], Len(Bytes["init"]))
  <2> DEFINE t == Bytes["init"]
  <2>1. t \in Seq(Chars) /\ at("init", 0, 0, "bare") /\ Len(t) = 5
    <3>1. Len(t) = 5
      BY BytesAre
    <3> QED
      BY <1>1, <1>2, <3>1, BytesAre, Zenon
  <2>2. /\ t[1] = "open" /\ t[2] = "x" /\ t[3] = "open" /\ t[4] = "close" /\ t[5] = "close"
    BY BytesAre
  <2> HIDE DEF t
  <2>3. 1 \in 1..Len(t) /\ 2 \in 1..Len(t) /\ 3 \in 1..Len(t) /\ 4 \in 1..Len(t) /\ 5 \in 1..Len(t)
    BY <2>1
  <2>4. At(x, objects, c, t, 1, 1, "bare")
    BY <2>1, <2>2, <2>3, <1>3, AtByte, Zenon DEF t
  <2>5. At(x, objects, c, t, 2, 1, "bare")
    BY <2>1, <2>2, <2>3, <1>3, <2>4, AtByte, Zenon
  <2>6. At(x, objects, c, t, 3, 2, "bare")
    BY <2>1, <2>2, <2>3, <1>3, <2>5, AtByte, Zenon
  <2>7. At(x, objects, c, t, 4, 1, "bare")
    BY <2>1, <2>2, <2>3, <1>3, <2>6, AtByte, Zenon
  <2>8. Found(x, objects, c, t, 5)
    BY <2>1, <2>2, <2>3, <1>3, <2>7, LastByte, Zenon
  <2> QED
    BY <2>1, <2>8 DEF t
<1>5. Found(x, objects, c, Bytes["data"], Len(Bytes["data"]))
  <2> DEFINE t == Bytes["data"]
  <2>1. t \in Seq(Chars) /\ at("data", 0, 0, "bare") /\ Len(t) = 8
    <3>1. Len(t) = 8
      BY BytesAre
    <3> QED
      BY <1>1, <1>2, <3>1, BytesAre, Zenon
  <2>2. /\ t[1] = "open" /\ t[2] = "quote" /\ t[3] = "open" /\ t[4] = "back" /\ t[5] = "quote"
        /\ t[6] = "close" /\ t[7] = "quote" /\ t[8] = "close"
    BY BytesAre
  <2> HIDE DEF t
  <2>3. /\ 1 \in 1..Len(t) /\ 2 \in 1..Len(t) /\ 3 \in 1..Len(t) /\ 4 \in 1..Len(t)
        /\ 5 \in 1..Len(t) /\ 6 \in 1..Len(t) /\ 7 \in 1..Len(t) /\ 8 \in 1..Len(t)
    BY <2>1
  <2>4. At(x, objects, c, t, 1, 1, "bare")
    BY <2>1, <2>2, <2>3, <1>3, AtByte, Zenon DEF t
  <2>5. At(x, objects, c, t, 2, 1, "string")
    BY <2>1, <2>2, <2>3, <1>3, <2>4, AtByte, Zenon
  <2>6. At(x, objects, c, t, 3, 1, "string")
    BY <2>1, <2>2, <2>3, <1>3, <2>5, AtByte, Zenon
  <2>7. At(x, objects, c, t, 4, 1, "escaped")
    BY <2>1, <2>2, <2>3, <1>3, <2>6, AtByte, Zenon
  <2>8. At(x, objects, c, t, 5, 1, "string")
    BY <2>1, <2>3, <1>3, <2>7, AtByte, Zenon
  <2>9. At(x, objects, c, t, 6, 1, "string")
    BY <2>1, <2>2, <2>3, <1>3, <2>8, AtByte, Zenon
  <2>10. At(x, objects, c, t, 7, 1, "bare")
    BY <2>1, <2>2, <2>3, <1>3, <2>9, AtByte, Zenon
  <2>11. Found(x, objects, c, t, 8)
    BY <2>1, <2>2, <2>3, <1>3, <2>10, LastByte, Zenon
  <2> QED
    BY <2>1, <2>11 DEF t
<1>6. Found(x, objects, c, Bytes["text"], Len(Bytes["text"]))
  <2> DEFINE t == Bytes["text"]
  <2>1. t \in Seq(Chars) /\ at("text", 0, 0, "bare") /\ Len(t) = 5
    <3>1. Len(t) = 5
      BY BytesAre
    <3> QED
      BY <1>1, <1>2, <3>1, BytesAre, Zenon
  <2>2. /\ t[1] = "open" /\ t[2] = "quote" /\ t[3] = "open" /\ t[4] = "quote" /\ t[5] = "close"
    BY BytesAre
  <2> HIDE DEF t
  <2>3. 1 \in 1..Len(t) /\ 2 \in 1..Len(t) /\ 3 \in 1..Len(t) /\ 4 \in 1..Len(t) /\ 5 \in 1..Len(t)
    BY <2>1
  <2>4. At(x, objects, c, t, 1, 1, "bare")
    BY <2>1, <2>2, <2>3, <1>3, AtByte, Zenon DEF t
  <2>5. At(x, objects, c, t, 2, 1, "string")
    BY <2>1, <2>2, <2>3, <1>3, <2>4, AtByte, Zenon
  <2>6. At(x, objects, c, t, 3, 1, "string")
    BY <2>1, <2>2, <2>3, <1>3, <2>5, AtByte, Zenon
  <2>7. At(x, objects, c, t, 4, 1, "bare")
    BY <2>1, <2>2, <2>3, <1>3, <2>6, AtByte, Zenon
  <2>8. Found(x, objects, c, t, 5)
    BY <2>1, <2>2, <2>3, <1>3, <2>7, LastByte, Zenon
  <2> QED
    BY <2>1, <2>8 DEF t
<1>7. Found(x, objects, c, Bytes["toolError"], Len(Bytes["toolError"]))
  <2> DEFINE t == Bytes["toolError"]
  <2>1. t \in Seq(Chars) /\ at("toolError", 0, 0, "bare") /\ Len(t) = 6
    <3>1. Len(t) = 6
      BY BytesAre
    <3> QED
      BY <1>1, <1>2, <3>1, BytesAre, Zenon
  <2>2. /\ t[1] = "open" /\ t[2] = "quote" /\ t[3] = "back" /\ t[4] = "back" /\ t[5] = "quote"
        /\ t[6] = "close"
    BY BytesAre
  <2> HIDE DEF t
  <2>3. /\ 1 \in 1..Len(t) /\ 2 \in 1..Len(t) /\ 3 \in 1..Len(t) /\ 4 \in 1..Len(t)
        /\ 5 \in 1..Len(t) /\ 6 \in 1..Len(t)
    BY <2>1
  <2>4. At(x, objects, c, t, 1, 1, "bare")
    BY <2>1, <2>2, <2>3, <1>3, AtByte, Zenon DEF t
  <2>5. At(x, objects, c, t, 2, 1, "string")
    BY <2>1, <2>2, <2>3, <1>3, <2>4, AtByte, Zenon
  <2>6. At(x, objects, c, t, 3, 1, "escaped")
    BY <2>1, <2>2, <2>3, <1>3, <2>5, AtByte, Zenon
  <2>7. At(x, objects, c, t, 4, 1, "string")
    BY <2>1, <2>3, <1>3, <2>6, AtByte, Zenon
  <2>8. At(x, objects, c, t, 5, 1, "bare")
    BY <2>1, <2>2, <2>3, <1>3, <2>7, AtByte, Zenon
  <2>9. Found(x, objects, c, t, 6)
    BY <2>1, <2>2, <2>3, <1>3, <2>8, LastByte, Zenon
  <2> QED
    BY <2>1, <2>9 DEF t
<1>8. Found(x, objects, c, Bytes["rpcError"], Len(Bytes["rpcError"]))
  <2> DEFINE t == Bytes["rpcError"]
  <2>1. t \in Seq(Chars) /\ at("rpcError", 0, 0, "bare") /\ Len(t) = 3
    <3>1. Len(t) = 3
      BY BytesAre
    <3> QED
      BY <1>1, <1>2, <3>1, BytesAre, Zenon
  <2>2. /\ t[1] = "open" /\ t[2] = "x" /\ t[3] = "close"
    BY BytesAre
  <2> HIDE DEF t
  <2>3. 1 \in 1..Len(t) /\ 2 \in 1..Len(t) /\ 3 \in 1..Len(t)
    BY <2>1
  <2>4. At(x, objects, c, t, 1, 1, "bare")
    BY <2>1, <2>2, <2>3, <1>3, AtByte, Zenon DEF t
  <2>5. At(x, objects, c, t, 2, 1, "bare")
    BY <2>1, <2>2, <2>3, <1>3, <2>4, AtByte, Zenon
  <2>6. Found(x, objects, c, t, 3)
    BY <2>1, <2>2, <2>3, <1>3, <2>5, LastByte, Zenon
  <2> QED
    BY <2>1, <2>6 DEF t
<1> QED
  BY <1>4, <1>5, <1>6, <1>7, <1>8, BytesAre, Zenon

(***************************************************************************)
(* Trimming cuts before the first and after the last byte that is no line  *)
(* end.                                                                    *)
(***************************************************************************)
LEMMA TrimmedTo ==
  ASSUME NEW b \in Seq(Chars), NEW i \in 1..Len(b), NEW j \in 1..Len(b),
         b[i] # "end", b[j] # "end",
         \A k \in 1..Len(b) : b[k] # "end" => i <= k /\ k <= j
  PROVE  TrimSpace(b) = SubSeq(b, i, j)
<1> DEFINE kept == {k \in DOMAIN b : b[k] # "end"}
<1>1. Len(b) \in Nat /\ kept \in SUBSET (1..Len(b)) /\ i \in kept /\ j \in kept
  OBVIOUS
<1>2. \A k \in kept : k \in Nat /\ i <= k /\ k <= j
  OBVIOUS
<1>3. TrimSpace(b) = SubSeq(b, Min(kept), Max(kept))
  BY <1>1 DEF TrimSpace
<1> HIDE DEF kept
<1>4. /\ Min(kept) \in kept /\ \A y \in kept : Min(kept) <= y
      /\ Max(kept) \in kept /\ \A y \in kept : y <= Max(kept)
  BY <1>1, MinOfSubset, MaxOfSubset
<1>5. PICK first \in kept, last \in kept :
        /\ first = Min(kept) /\ last = Max(kept)
        /\ first <= i /\ j <= last
  BY <1>1, <1>4
<1>6. Min(kept) = i /\ Max(kept) = j
  BY <1>1, <1>2, <1>5
<1> QED
  BY <1>3, <1>6

LEMMA TrimKeepsInside ==
  ASSUME NEW b \in Seq(Chars), NEW m \in 1..Len(b), NEW j \in 1..Len(b),
         b[1] # "end", b[m] = "end", b[j] # "end", m < j
  PROVE  \E l \in 1..Len(TrimSpace(b)) : TrimSpace(b)[l] = "end"
<1> DEFINE kept == {k \in DOMAIN b : b[k] # "end"}
<1>1. Len(b) \in Nat /\ kept \in SUBSET (1..Len(b)) /\ 1 \in kept /\ j \in kept
  OBVIOUS
<1>2. TrimSpace(b) = SubSeq(b, Min(kept), Max(kept))
  BY <1>1 DEF TrimSpace
<1> HIDE DEF kept
<1>3. /\ Min(kept) \in kept /\ \A y \in kept : Min(kept) <= y
      /\ Max(kept) \in kept /\ \A y \in kept : y <= Max(kept)
  BY <1>1, MinOfSubset, MaxOfSubset
<1>4. PICK first \in kept, last \in kept :
        /\ first = Min(kept) /\ last = Max(kept)
        /\ first <= 1 /\ j <= last
  BY <1>1, <1>3
<1>5. first = 1 /\ last \in 1..Len(b) /\ TrimSpace(b) = SubSeq(b, 1, last)
  <2>1. first \in 1..Len(b) /\ last \in 1..Len(b)
    BY <1>1
  <2>2. first = 1
    BY <1>1, <1>4, <2>1
  <2> QED
    BY <1>2, <1>4, <2>1, <2>2
<1>6. m \in 1..Len(SubSeq(b, 1, last)) /\ SubSeq(b, 1, last)[m] = "end"
  BY <1>1, <1>4, <1>5
<1> QED
  BY <1>5, <1>6

LEMMA TrimResponse ==
  ASSUME NEW kind \in Kinds, NEW c \in {<<>>, <<"end">>}
  PROVE  /\ c \in Seq(Chars) /\ TrimSpace(c \o Bytes[kind]) = Bytes[kind]
         /\ TrimSpace(Line(kind)) = Bytes[kind]
<1> DEFINE b == Bytes[kind]
           n == Len(b)
<1>1. /\ b \in Seq(Chars) /\ n \in 3..8 /\ \A i \in 1..n : b[i] # "end"
  BY ResponseBytes DEF IsResponse
<1>2. "end" \in Chars
  BY DEF Chars
<1> HIDE DEF b, Chars
<1>3. TrimSpace(<<>> \o b) = b
  <2>1. <<>> \o b = b /\ SubSeq(b, 1, n) = b
    <3> HIDE DEF n
    <3> QED
      BY <1>1 DEF n
  <2>2. 1 \in 1..n /\ n \in 1..n /\ \A k \in 1..n : 1 <= k /\ k <= n
    BY <1>1
  <2>3. TrimSpace(b) = SubSeq(b, 1, n)
    BY <1>1, <2>2, TrimmedTo
  <2> QED
    BY <2>1, <2>3
<1>4. TrimSpace(<<"end">> \o b) = b
  <2> DEFINE t == <<"end">> \o b
  <2>1. /\ t \in Seq(Chars) /\ Len(t) = n + 1 /\ t[1] = "end"
        /\ \A i \in 2..(n + 1) : t[i] = b[i - 1]
    BY <1>1, <1>2
  <2>2. SubSeq(t, 2, n + 1) = b
    <3>1. /\ SubSeq(t, 2, n + 1) \in Seq(Chars) /\ Len(SubSeq(t, 2, n + 1)) = n
          /\ \A i \in 1..n : SubSeq(t, 2, n + 1)[i] = t[i + 1]
      <4> HIDE DEF t
      <4> QED
        BY <1>1, <2>1
    <3> DEFINE u == SubSeq(t, 2, n + 1)
    <3>2. \A i \in 1..n : u[i] = b[i]
      <4> HIDE DEF t
      <4> QED
        BY <1>1, <2>1, <3>1
    <3> HIDE DEF u
    <3> QED
      BY <1>1, <3>1, <3>2 DEF u
  <2> HIDE DEF t
  <2>3. /\ 2 \in 1..Len(t) /\ n + 1 \in 1..Len(t) /\ t[2] # "end" /\ t[n + 1] # "end"
        /\ \A k \in 1..Len(t) : t[k] # "end" => 2 <= k /\ k <= n + 1
    BY <1>1, <2>1
  <2>4. TrimSpace(t) = SubSeq(t, 2, n + 1)
    BY <2>1, <2>3, TrimmedTo
  <2> QED
    BY <2>2, <2>4 DEF t
<1>5. TrimSpace(Append(b, "end")) = b
  <2> DEFINE t == Append(b, "end")
  <2>1. /\ t \in Seq(Chars) /\ Len(t) = n + 1 /\ t[n + 1] = "end"
        /\ \A i \in 1..n : t[i] = b[i]
    BY <1>1, <1>2
  <2>2. SubSeq(t, 1, n) = b
    <3> DEFINE u == SubSeq(t, 1, n)
    <3>1. u \in Seq(Chars) /\ Len(u) = n /\ \A i \in 1..n : u[i] = t[i]
      <4> HIDE DEF t
      <4> QED
        BY <1>1, <2>1
    <3>2. \A i \in 1..n : u[i] = b[i]
      <4> HIDE DEF t
      <4> QED
        BY <1>1, <2>1, <3>1
    <3> HIDE DEF u
    <3> QED
      BY <1>1, <3>1, <3>2 DEF u
  <2> HIDE DEF t
  <2>3. /\ 1 \in 1..Len(t) /\ n \in 1..Len(t) /\ t[1] # "end" /\ t[n] # "end"
        /\ \A k \in 1..Len(t) : t[k] # "end" => 1 <= k /\ k <= n
    BY <1>1, <2>1
  <2>4. TrimSpace(t) = SubSeq(t, 1, n)
    BY <2>1, <2>3, TrimmedTo
  <2> QED
    BY <2>2, <2>4 DEF t
<1>6. <<>> \in Seq(Chars) /\ <<"end">> \in Seq(Chars)
  BY <1>2
<1> QED
  BY <1>3, <1>4, <1>5, <1>6 DEF b, Line

(***************************************************************************)
(* After the output of whole lines the scan is outside of any object, and  *)
(* the last object found is the last response.                             *)
(***************************************************************************)
Scanned(lines) ==
  \E objects \in Seq(Seq(Chars)), c \in {<<>>, <<"end">>} :
    /\ ScanOf(Output(lines)) = Scan(objects, c, 0, FALSE, FALSE)
    /\ IF lines = <<>> THEN objects = <<>>
       ELSE objects # <<>> /\ objects[Len(objects)] = Bytes[lines[Len(lines)]]

LEMMA ScannedEmpty == Scanned(<<>>)
<1>1. ScanOf(Output(<<>>)) = Scan(<<>>, <<>>, 0, FALSE, FALSE)
  BY ScanAppend, OutputAppend, ScanStartType, Zenon
<1>2. <<>> \in Seq(Seq(Chars)) /\ <<>> \in {<<>>, <<"end">>}
  OBVIOUS
<1> QED
  BY <1>1, <1>2, Zenon DEF Scanned

LEMMA ScannedAppend ==
  ASSUME NEW lines \in Seq(Kinds), Scanned(lines), NEW kind \in Kinds
  PROVE  Scanned(Append(lines, kind))
<1> DEFINE x == Output(lines)
           b == Bytes[kind]
<1>1. PICK objects \in Seq(Seq(Chars)), c \in {<<>>, <<"end">>} :
        ScanOf(x) = Scan(objects, c, 0, FALSE, FALSE)
  BY Zenon DEF Scanned
<1>2. x \in Seq(Chars) /\ b \in Seq(Chars) /\ Output(Append(lines, kind)) = x \o Line(kind)
  BY OutputAppend, ResponseBytes DEF IsResponse
<1>3. c \in Seq(Chars) /\ TrimSpace(c \o b) = b
  BY TrimResponse
<1>4. "end" \in Chars
  BY DEF Chars
<1>5. /\ SubSeq(b, 1, Len(b)) = b /\ x \o b \in Seq(Chars)
      /\ x \o Append(b, "end") = Append(x \o b, "end")
      /\ Append(objects, b) \in Seq(Seq(Chars)) /\ Append(objects, b) # <<>>
      /\ Append(objects, b)[Len(Append(objects, b))] = b
  <2> HIDE DEF x, b, Chars
  <2>1. SubSeq(b, 1, Len(b)) = b
    BY <1>2
  <2>2. x \o b \in Seq(Chars) /\ x \o Append(b, "end") = Append(x \o b, "end")
    BY <1>2, <1>4
  <2>3. /\ Append(objects, b) \in Seq(Seq(Chars)) /\ Append(objects, b) # <<>>
        /\ Append(objects, b)[Len(Append(objects, b))] = b
    <3> DEFINE E == Seq(Chars)
    <3>1. b \in E /\ objects \in Seq(E)
      BY <1>2
    <3> HIDE DEF E
    <3>2. /\ Append(objects, b) \in Seq(E) /\ Append(objects, b) # <<>>
          /\ Append(objects, b)[Len(Append(objects, b))] = b
      BY <3>1
    <3> QED
      BY <3>2 DEF E
  <2> QED
    BY <2>1, <2>2, <2>3
<1>6. Found(x, objects, c, b, Len(b))
  BY <1>1, <1>2, <1>3, ResponseFound
<1>7. ScanOf(x \o b) = Scan(Append(objects, b), <<>>, 0, FALSE, FALSE)
  BY <1>3, <1>5, <1>6, Zenon DEF Found
<1>8. ScanOf(x \o Line(kind)) = Scan(Append(objects, b), <<"end">>, 0, FALSE, FALSE)
  <2> DEFINE s == Scan(Append(objects, b), <<>>, 0, FALSE, FALSE)
  <2>1. ScanOf(x \o b) \in Scans /\ ScanOf(Append(x \o b, "end")) = ScanByte(ScanOf(x \o b), "end")
    <3> HIDE DEF x, b
    <3> QED
      BY <1>4, <1>5, ScanAppend, Zenon
  <2>2. s \in Scans /\ ScanOf(Append(x \o b, "end")) = ScanByte(s, "end")
    BY <1>7, <2>1, Zenon
  <2>3. /\ s.objects = Append(objects, b) /\ s.current = <<>> /\ s.depth = 0
        /\ s.inString = FALSE /\ s.escaped = FALSE
    BY Zenon DEF Scan
  <2> HIDE DEF s, x, b
  <2>4. "end" \notin {"quote", "open", "close"} /\ Append(<<>>, "end") = <<"end">>
    OBVIOUS
  <2>5. ScanByte(s, "end") = Scan(s.objects, Append(s.current, "end"), s.depth, FALSE, FALSE)
    BY <1>4, <2>2, <2>3, <2>4, ScanRules, Zenon
  <2>6. ScanByte(s, "end") = Scan(Append(objects, b), <<"end">>, 0, FALSE, FALSE)
    BY <2>3, <2>4, <2>5, Zenon
  <2> QED
    BY <1>5, <2>2, <2>6, Zenon DEF Line, b
<1>9. /\ Append(lines, kind) # <<>>
      /\ Append(lines, kind)[Len(Append(lines, kind))] = kind
  OBVIOUS
<1>10. <<"end">> \in {<<>>, <<"end">>}
  OBVIOUS
<1> QED
  BY <1>2, <1>5, <1>8, <1>9, <1>10, Zenon DEF Scanned

(***************************************************************************)
(* An output of one line is a response, one of several is none.            *)
(***************************************************************************)
Ended(lines) ==
  LET bytes == Output(lines)
  IN /\ bytes \in Seq(Chars)
     /\ lines # <<>> => Len(bytes) > 0 /\ bytes[1] # "end" /\ bytes[Len(bytes)] = "end"

LEMMA LineEnds ==
  ASSUME NEW kind \in Kinds
  PROVE  /\ Line(kind) \in Seq(Chars) /\ Len(Line(kind)) \in 4..9
         /\ Line(kind)[1] # "end" /\ Line(kind)[Len(Line(kind))] = "end"
<1> DEFINE b == Bytes[kind]
<1>1. b \in Seq(Chars) /\ Len(b) \in 3..8 /\ \A i \in 1..Len(b) : b[i] # "end"
  BY ResponseBytes DEF IsResponse
<1>2. Line(kind) \in Seq(Chars)
  BY LineType
<1> HIDE DEF b, Chars
<1>3. /\ Len(Append(b, "end")) = Len(b) + 1 /\ Append(b, "end")[1] = b[1]
      /\ Append(b, "end")[Len(b) + 1] = "end" /\ b[1] # "end"
  BY <1>1
<1> DEFINE l == Append(b, "end")
<1>4. Line(kind) = l
  BY DEF Line, b
<1>5. l[Len(l)] = "end" /\ Len(l) \in 4..9 /\ l[1] # "end"
  <2>1. Len(l) \in 4..9
    <3>1. ASSUME NEW p \in 3..8 PROVE p + 1 \in 4..9
      OBVIOUS
    <3> QED
      BY <1>1, <1>3, <3>1
  <2>2. l[Len(l)] = "end"
    BY <1>3
  <2> QED
    BY <1>3, <2>1, <2>2
<1> HIDE DEF l
<1> QED
  BY <1>2, <1>4, <1>5

LEMMA InsideSum ==
  ASSUME NEW p \in Nat, NEW q \in 4..9, p > 0
  PROVE  p \in 1..(p + q) /\ p + 1 \in 1..(p + q)
  OBVIOUS

LEMMA EndedAppend ==
  ASSUME NEW lines \in Seq(Kinds), Ended(lines), NEW kind \in Kinds
  PROVE  /\ Ended(Append(lines, kind))
         /\ lines # <<>> =>
              \A k \in Kinds : TrimSpace(Output(Append(lines, kind))) # Bytes[k]
<1> DEFINE x == Output(lines)
           l == Line(kind)
           t == x \o l
<1>1. /\ x \in Seq(Chars) /\ Output(Append(lines, kind)) = t
      /\ lines # <<>> => Len(x) > 0 /\ x[1] # "end" /\ x[Len(x)] = "end"
  BY OutputAppend DEF Ended
<1>2. l \in Seq(Chars) /\ Len(l) \in 4..9 /\ l[1] # "end" /\ l[Len(l)] = "end"
  BY LineEnds
<1> HIDE DEF x, l, Chars
<1>3. /\ t \in Seq(Chars) /\ Len(t) = Len(x) + Len(l) /\ Len(x) \in Nat
      /\ \A i \in 1..Len(x) : t[i] = x[i]
      /\ \A i \in 1..Len(l) : t[Len(x) + i] = l[i]
  BY <1>1, <1>2
<1>4. t[Len(x) + 1] # "end" /\ t[Len(t)] = "end" /\ Len(t) > 0
  BY <1>2, <1>3
<1>5. t[1] # "end"
  <2>1. CASE lines = <<>>
    <3>1. x = <<>>
      BY <2>1, OutputAppend DEF x
    <3>2. Len(x) = 0
      BY <3>1
    <3> QED
      BY <1>2, <1>3, <3>2
  <2>2. CASE lines # <<>>
    BY <1>1, <1>3, <2>2
  <2> QED
    BY <2>1, <2>2
<1> HIDE DEF t
<1>6. Ended(Append(lines, kind))
  BY <1>1, <1>3, <1>4, <1>5 DEF Ended
<1>7. ASSUME lines # <<>>, NEW k \in Kinds, TrimSpace(t) = Bytes[k] PROVE FALSE
  <2> DEFINE m == Len(x)
             j == Len(x) + 1
  <2>1. /\ m \in 1..Len(t) /\ j \in 1..Len(t) /\ m < j
        /\ t[m] = "end" /\ t[j] # "end"
    <3>1. Len(x) > 0 /\ x[m] = "end" /\ Len(x) \in 1..Len(x) /\ Len(l) \in 4..9
      BY <1>1, <1>2, <1>3, <1>7
    <3>2. t[m] = "end" /\ t[j] # "end" /\ m < j
      BY <1>3, <1>4, <3>1
    <3>3. m \in 1..Len(t) /\ j \in 1..Len(t)
      <4>1. Len(t) \in Nat /\ Len(t) = Len(x) + Len(l) /\ Len(x) \in Nat
        BY <1>3, <3>1
      <4> QED
        BY <3>1, <4>1, InsideSum
    <3> QED
      BY <3>2, <3>3
  <2> HIDE DEF m, j
  <2>2. \E i \in 1..Len(TrimSpace(t)) : TrimSpace(t)[i] = "end"
    BY <1>3, <1>5, <2>1, TrimKeepsInside
  <2>3. \A i \in 1..Len(Bytes[k]) : Bytes[k][i] # "end"
    BY ResponseBytes DEF IsResponse
  <2> QED
    BY <1>7, <2>2, <2>3
<1> QED
  BY <1>1, <1>6, <1>7

LEMMA SplitIsScan == ASSUME NEW bytes PROVE SplitJSONObjects(bytes) = ScanOf(bytes).objects
  BY DEF SplitJSONObjects, ScanOf

LEMMA OutputScanned == \A lines \in Seq(Kinds) : Scanned(lines) /\ Ended(lines)
<1> DEFINE P(n) == \A lines \in Seq(Kinds) : Len(lines) = n => Scanned(lines) /\ Ended(lines)
           T == {n \in Nat : P(n)}
<1>1. 0 \in T
  <2>1. ASSUME NEW lines \in Seq(Kinds), Len(lines) = 0 PROVE lines = <<>>
    BY <2>1
  <2>2. Ended(<<>>)
    <3>1. <<>> \in Seq(Chars)
      OBVIOUS
    <3> QED
      BY <3>1, OutputAppend, Zenon DEF Ended
  <2> QED
    BY <2>1, <2>2, ScannedEmpty
<1>2. ASSUME NEW n \in T PROVE n + 1 \in T
  <2>1. SUFFICES ASSUME NEW lines \in Seq(Kinds), Len(lines) = n + 1
                 PROVE  Scanned(lines) /\ Ended(lines)
    OBVIOUS
  <2> DEFINE before == SubSeq(lines, 1, n)
             kind == lines[n + 1]
  <2>2. /\ n \in 0..(Len(lines) - 1) /\ n \in Nat
        /\ SubSeq(lines, 1, n + 1) = lines /\ Len(before) = n
    BY <2>1
  <2>3. /\ before \in Seq(Kinds) /\ kind \in Kinds
        /\ SubSeq(lines, 1, n + 1) = Append(before, kind)
    BY <2>2, PrefixGrows
  <2>4. Scanned(before) /\ Ended(before)
    BY <2>2, <2>3
  <2> HIDE DEF before, kind
  <2>5. Scanned(Append(before, kind)) /\ Ended(Append(before, kind))
    BY <2>3, <2>4, ScannedAppend, EndedAppend
  <2> QED
    BY <2>2, <2>3, <2>5
<1>3. T = Nat
  <2> HIDE DEF P
  <2>1. T \in SUBSET Nat
    OBVIOUS
  <2> HIDE DEF T
  <2> QED
    BY <1>1, <1>2, <2>1, SetInduction
<1> QED
  BY <1>3

(***************************************************************************)
(* However many responses an agent wrote, one per line, the gateway takes  *)
(* the last for its answer (ParseToolResponse of proxy.go).                *)
(***************************************************************************)
LEMMA LastResponseParsed ==
  ASSUME NEW lines \in Seq(Kinds)
  PROVE  ParseToolResponse(Output(lines)) =
           IF lines = <<>> THEN "error" ELSE Meaning(lines[Len(lines)])
<1>1. CASE lines = <<>>
  <2>1. Output(lines) = <<>> /\ TrimSpace(<<>>) = <<>>
    BY <1>1, OutputAppend DEF TrimSpace
  <2>2. \A kind \in Kinds : Bytes[kind] # <<>>
    <3>1. \A kind \in Kinds : Len(Bytes[kind]) \in 3..8
      BY ResponseBytes DEF IsResponse
    <3>2. Len(<<>>) = 0 /\ 0 \notin 3..8
      OBVIOUS
    <3> QED
      BY <3>1, <3>2, Zenon
  <2>3. Decode(<<>>) = "error"
    BY <2>2, NotDecoded
  <2>4. SplitJSONObjects(<<>>) = <<>>
    <3>1. ScanStart.objects = <<>>
      BY DEF ScanStart
    <3> QED
      BY <3>1, SplitIsScan, ScanAppend
  <2> QED
    BY <1>1, <2>1, <2>3, <2>4 DEF ParseToolResponse, ParseHTTPResponse, ParseStdioResponse
<1>2. CASE lines # <<>>
  <2> DEFINE n == Len(lines)
             kind == lines[n]
             before == SubSeq(lines, 1, n - 1)
  <2>1. n \in Nat /\ n > 0 /\ kind \in Kinds
    BY <1>2
  <2>2. /\ before \in Seq(Kinds) /\ lines = Append(before, kind)
    <3>1. n - 1 \in 0..(Len(lines) - 1) /\ (n - 1) + 1 = n /\ SubSeq(lines, 1, n) = lines
      BY <2>1
    <3> HIDE DEF n
    <3> QED
      BY <3>1, PrefixGrows
  <2>3. ParseStdioResponse(Output(lines)) = Meaning(kind)
    <3>1. PICK objects \in Seq(Seq(Chars)), c \in {<<>>, <<"end">>} :
            /\ ScanOf(Output(lines)) = Scan(objects, c, 0, FALSE, FALSE)
            /\ objects # <<>> /\ objects[Len(objects)] = Bytes[kind]
      BY <1>2, OutputScanned, Zenon DEF Scanned
    <3>2. SplitJSONObjects(Output(lines)) = objects
      <4>1. Scan(objects, c, 0, FALSE, FALSE).objects = objects
        BY Zenon DEF Scan
      <4> QED
        BY <3>1, <4>1, SplitIsScan, Zenon
    <3> HIDE DEF kind
    <3> QED
      BY <2>1, <3>1, <3>2, DecodeBytes, Zenon DEF ParseStdioResponse
  <2>4. ParseHTTPResponse(Output(lines)) \in {"error", Meaning(kind)}
    <3>1. CASE before = <<>>
      <4>1. Output(lines) = <<>> \o Line(kind) /\ <<>> \o Line(kind) = Line(kind)
        <5>1. Line(kind) \in Seq(Chars)
          BY <2>1, LineType
        <5>2. Output(lines) = Output(before) \o Line(kind)
          BY <2>1, <2>2, OutputAppend
        <5>3. <<>> \o Line(kind) = Line(kind)
          <6> HIDE DEF kind, Chars
          <6> QED
            BY <5>1
        <5>4. Output(before) = <<>>
          BY <3>1, OutputAppend
        <5> HIDE DEF before, kind
        <5> QED
          BY <5>2, <5>3, <5>4
      <4>2. TrimSpace(Output(lines)) = Bytes[kind]
        <5>1. TrimSpace(Line(kind)) = Bytes[kind]
          BY <2>1, TrimResponse
        <5> QED
          BY <4>1, <5>1
      <4> QED
        BY <2>1, <4>2, DecodeBytes DEF ParseHTTPResponse
    <3>2. CASE before # <<>>
      <4>1. Ended(before)
        BY <2>2, OutputScanned
      <4>2. \A k \in Kinds : Bytes[k] # TrimSpace(Output(lines))
        <5> HIDE DEF before, kind
        <5> QED
          BY <2>1, <2>2, <3>2, <4>1, EndedAppend
      <4> QED
        BY <4>2, NotDecoded DEF ParseHTTPResponse
    <3> QED
      BY <3>1, <3>2
  <2> HIDE DEF kind
  <2>5. ParseToolResponse(Output(lines)) = Meaning(kind)
    BY <2>3, <2>4 DEF ParseToolResponse
  <2> QED
    BY <1>2, <2>5 DEF kind
<1> QED
  BY <1>1, <1>2

================================================================================
