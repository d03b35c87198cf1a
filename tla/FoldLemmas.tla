----------------------------- MODULE FoldLemmas -----------------------------
(***************************************************************************)
(* What a fold of the community modules computes.  They are defined by a   *)
(* recursion over sets of positions, chosen by CHOOSE; here is that there  *)
(* is such a function and that it takes one step for each element, by      *)
(* induction over a set instead of an operator.  And what sequences put    *)
(* together of others, or selected of one, contain, and in which order.    *)
(***************************************************************************)
EXTENDS Naturals, Sequences, SequencesExt, SequenceTheorems, FiniteSetTheorems,
        WellFoundedInduction, TLAPS

(* Any set of natural numbers that is not empty has a least one.           *)
LEMMA LeastNatural ==
  ASSUME NEW S, S \subseteq Nat, S # {}
  PROVE  \E n \in S : \A m \in S : n <= m
<1> DEFINE R == OpToRel(<, Nat)
<1>1. \E n \in S : \A m \in S : ~(<<m, n>> \in R)
  <2>1. IsWellFoundedOn(R, Nat)
    BY NatLessThanWellFounded
  <2> HIDE DEF R
  <2> QED
    BY <2>1, WFMin
<1>2. \A m, n \in Nat : m < n => <<m, n>> \in R
  BY DEF OpToRel
<1> HIDE DEF R
<1>3. PICK n \in S : \A m \in S : ~(<<m, n>> \in R)
  BY <1>1
<1>4. ASSUME NEW m \in S PROVE n <= m
  <2>1. m \in Nat /\ n \in Nat
    OBVIOUS
  <2>2. ~(m < n)
    BY <1>2, <1>3, <2>1
  <2> QED
    BY <2>1, <2>2
<1> QED
  BY <1>3, <1>4

(* Induction up to L, over a set instead of an operator.                   *)
LEMMA UpTo ==
  ASSUME NEW L \in Nat, NEW S, 0 \in S, \A n \in 1..L : n - 1 \in S => n \in S
  PROVE  \A n \in 0..L : n \in S
<1> DEFINE bad == {n \in 0..L : n \notin S}
<1> SUFFICES ASSUME bad # {} PROVE FALSE
  OBVIOUS
<1>1. bad \subseteq Nat /\ bad # {}
  OBVIOUS
<1> HIDE DEF bad
<1>4. PICK n \in bad : \A m \in bad : n <= m
  BY <1>1, LeastNatural
<1>2. n \in 1..L /\ n - 1 \in 0..L /\ n \notin S
  BY DEF bad
<1>3. n - 1 \in S
  <2>1. n - 1 \notin bad
    BY <1>4, <1>2
  <2> QED
    BY <1>2, <2>1 DEF bad
<1> QED
  BY <1>2, <1>3

(* The largest number of an interval that starts at 1 *)
LEMMA MaxUpTo ==
  ASSUME NEW n \in Nat, n > 0
  PROVE  /\ Max(1..n) = n
         /\ (1..n) \ {n} = 1..(n - 1)
<1>1. n \in 1..n /\ \A y \in 1..n : n >= y
  OBVIOUS
<1>2. \A x \in 1..n : (\A y \in 1..n : x >= y) => x = n
  BY <1>1
<1>3. Max(1..n) = n
  BY <1>1, <1>2 DEF Max
<1>4. (1..n) \ {n} = 1..(n - 1)
  OBVIOUS
<1> QED
  BY <1>3, <1>4

(* A set of positions that is not empty has a greatest one.                *)
LEMMA MaxOfSome ==
  ASSUME NEW L \in Nat, NEW t \in SUBSET (1..L), t # {}
  PROVE  Max(t) \in t /\ \A y \in t : Max(t) >= y
<1> DEFINE down == {L - y : y \in t}
<1>1. down \subseteq Nat /\ down # {}
  <2>1. \A y \in t : L - y \in Nat
    OBVIOUS
  <2> QED
    BY <2>1
<1> HIDE DEF down
<1>2. PICK d \in down : \A m \in down : d <= m
  BY <1>1, LeastNatural
<1>3. PICK x \in t : d = L - x
  BY DEF down
<1>4. ASSUME NEW y \in t PROVE x >= y
  <2>1. x \in Nat /\ y \in Nat /\ L \in Nat
    OBVIOUS
  <2>2. L - y \in down
    BY DEF down
  <2>3. L - x <= L - y
    BY <1>2, <1>3, <2>2
  <2> QED
    BY <2>1, <2>3
<1>5. \E z \in t : \A y \in t : z >= y
  BY <1>4
<1> QED
  BY <1>5 DEF Max

(* The steps of a fold: step[n][v] is what the n-th element makes of v.    *)
Closed(step, L, V) == \A n \in 1..L : \A v \in V : step[n][v] \in V

(* The recursion that FoldLeft and its kin are defined by, over sets of    *)
(* numbers, and what it says of the intervals 1..n.                        *)
Solves(it, step, L, V, base) ==
  /\ it = [t \in SUBSET (1..L) |-> it[t]]
  /\ \A t \in SUBSET (1..L) : it[t] \in V
  /\ \A t \in SUBSET (1..L) :
       it[t] = IF t = {} THEN base ELSE step[Max(t)][it[t \ {Max(t)}]]

(* What is needed of c, the function that the definition chooses.          *)
StepsAs(c, step, L, V, base) ==
  /\ c[{}] = base
  /\ \A t \in SUBSET (1..L) : t # {} /\ c[t \ {Max(t)}] \in V
       => c[t] = step[Max(t)][c[t \ {Max(t)}]]

(* f[n] is what the fold makes of the first n elements.                    *)
Traces(f, step, L, V, base) ==
  /\ \A n \in 0..L : f[n] \in V
  /\ f[0] = base
  /\ \A n \in 1..L : f[n] = step[n][f[n - 1]]

(* The recursion has a solution.                                           *)
LEMMA FoldExists ==
  ASSUME NEW L \in Nat, NEW V, NEW base \in V, NEW step, Closed(step, L, V)
  PROVE  \E it : Solves(it, step, L, V, base)
<1> USE DEF Closed
<1> DEFINE S == {n \in 0..L : \E it : Solves(it, step, n, V, base)}
<1>1. 0 \in S
  <2> DEFINE it == [t \in SUBSET (1..0) |-> base]
  <2>1. \A t \in SUBSET (1..0) : t = {}
    OBVIOUS
  <2>0. it = [t \in SUBSET (1..0) |-> it[t]]
    OBVIOUS
  <2>2. Solves(it, step, 0, V, base)
    BY <2>0, <2>1 DEF Solves
  <2>3. \E i : Solves(i, step, 0, V, base)
    <3> HIDE DEF it
    <3> QED
      BY <2>2
  <2> HIDE DEF it
  <2> QED
    BY <2>3
<1>2. ASSUME NEW n \in 1..L, n - 1 \in S PROVE n \in S
  <2>1. PICK g : Solves(g, step, n - 1, V, base)
    BY <1>2
  <2> DEFINE it == [t \in SUBSET (1..n) |->
                      IF t \subseteq 1..(n - 1) THEN g[t]
                      ELSE step[n][g[t \ {n}]]]
  <2>2. \A t \in SUBSET (1..n) : t \ {n} \in SUBSET (1..(n - 1))
    OBVIOUS
  <2>3. \A t \in SUBSET (1..n) : it[t] \in V
    <3>1. \A t \in SUBSET (1..(n - 1)) : g[t] \in V
      BY <2>1 DEF Solves
    <3>2. \A t \in SUBSET (1..n) : g[t \ {n}] \in V
      BY <2>2, <3>1
    <3>3. \A v \in V : step[n][v] \in V
      OBVIOUS
    <3> QED
      BY <3>1, <3>2, <3>3
  <2>4. ASSUME NEW t \in SUBSET (1..n), t # {}
        PROVE  it[t] = step[Max(t)][it[t \ {Max(t)}]]
    <3>0. n \in Nat
      OBVIOUS
    <3>1. Max(t) \in t /\ \A y \in t : Max(t) >= y
      BY <2>4, <3>0, MaxOfSome
    <3>a. \A y \in t : y \in 1..n /\ y <= n
      OBVIOUS
    <3>2. ASSUME t \subseteq 1..(n - 1) PROVE it[t] = step[Max(t)][it[t \ {Max(t)}]]
      <4>1. t \ {Max(t)} \in SUBSET (1..(n - 1)) /\ t \in SUBSET (1..n)
        BY <3>2
      <4>2. it[t] = g[t] /\ it[t \ {Max(t)}] = g[t \ {Max(t)}]
        BY <3>2, <4>1
      <4>3. g[t] = step[Max(t)][g[t \ {Max(t)}]]
        BY <2>1, <2>4, <3>2 DEF Solves
      <4> QED
        BY <4>2, <4>3
    <3>3. ASSUME ~(t \subseteq 1..(n - 1)) PROVE it[t] = step[Max(t)][it[t \ {Max(t)}]]
      <4>1. n \in t
        BY <3>3
      <4>2. Max(t) = n
        <5>1. Max(t) \in 1..n /\ Max(t) <= n /\ Max(t) >= n
          BY <3>1, <3>a, <4>1
        <5> QED
          BY <3>0, <5>1
      <4>3. t \ {n} \in SUBSET (1..(n - 1)) /\ t \ {n} \in SUBSET (1..n)
        OBVIOUS
      <4>4. it[t \ {n}] = g[t \ {n}]
        BY <4>3
      <4>5. it[t] = step[n][g[t \ {n}]]
        BY <3>3
      <4> QED
        BY <4>2, <4>4, <4>5
    <3> QED
      BY <3>2, <3>3
  <2>5. it[{}] = base
    <3>1. {} \in SUBSET (1..(n - 1)) /\ {} \in SUBSET (1..n)
      OBVIOUS
    <3> QED
      BY <2>1, <3>1 DEF Solves
  <2>6. it = [t \in SUBSET (1..n) |-> it[t]]
    OBVIOUS
  <2>8. Solves(it, step, n, V, base)
    <3> HIDE DEF it
    <3> QED
      BY <2>3, <2>4, <2>5, <2>6 DEF Solves
  <2>7. \E i : Solves(i, step, n, V, base)
    <3> HIDE DEF it
    <3> QED
      BY <2>8
  <2> HIDE DEF it
  <2> QED
    BY <2>7
<1>3. L \in S
  <2> HIDE DEF S
  <2>1. \A n \in 1..L : n - 1 \in S => n \in S
    BY <1>2
  <2>2. \A n \in 0..L : n \in S
    BY <1>1, <2>1, UpTo
  <2> QED
    BY <2>2
<1> QED
  BY <1>3

(* What solves it is a trace of the fold.                                  *)
LEMMA FoldTrace ==
  ASSUME NEW L \in Nat, NEW V, NEW base \in V, NEW step, Closed(step, L, V),
         NEW c, StepsAs(c, step, L, V, base)
  PROVE  \E f : Traces(f, step, L, V, base) /\ f[L] = c[1..L]
<1> DEFINE f == [n \in 0..L |-> c[1..n]]
           S == {n \in 0..L : c[1..n] \in V}
<1>1. c[1..0] = base
  <2>1. 1..0 = {}
    OBVIOUS
  <2> QED
    BY <2>1 DEF StepsAs
<1>2. ASSUME NEW n \in 1..L, c[1..(n - 1)] \in V PROVE c[1..n] = step[n][c[1..(n - 1)]]
  <2>0. n \in Nat /\ n > 0 /\ n \in 1..n
    OBVIOUS
  <2>1. Max(1..n) = n /\ (1..n) \ {n} = 1..(n - 1)
    BY <2>0, MaxUpTo
  <2>2. 1..n \in SUBSET (1..L) /\ 1..n # {}
    BY <2>0
  <2> QED
    BY <1>2, <2>1, <2>2 DEF StepsAs
<1>3. \A n \in 0..L : n \in S
  <2>1. 0 \in S
    BY <1>1
  <2>2. ASSUME NEW n \in 1..L, n - 1 \in S PROVE n \in S
    <3>1. c[1..(n - 1)] \in V
      BY <2>2
    <3>2. c[1..n] \in V
      BY <1>2, <3>1 DEF Closed
    <3> QED
      BY <3>2
  <2> HIDE DEF S
  <2> QED
    BY <2>1, <2>2, UpTo
<1>4. (\A n \in 0..L : f[n] \in V) /\ f[0] = base /\ f[L] = c[1..L]
  BY <1>1, <1>3
<1>5. \A n \in 1..L : f[n] = step[n][f[n - 1]]
  BY <1>2, <1>3
<1>6. Traces(f, step, L, V, base) /\ f[L] = c[1..L]
  <2> HIDE DEF f
  <2> QED
    BY <1>4, <1>5 DEF Traces
<1> HIDE DEF f
<1> QED
  BY <1>6

(* The steps can be traced whatever they are.                              *)
LEMMA FoldBySteps ==
  ASSUME NEW L \in Nat, NEW V, NEW base \in V, NEW step, Closed(step, L, V)
  PROVE  \E f : Traces(f, step, L, V, base)
<1>1. PICK it : Solves(it, step, L, V, base)
  BY FoldExists
<1>2. it[{}] = base
  <2>1. {} \in SUBSET (1..L)
    OBVIOUS
  <2> QED
    BY <1>1, <2>1 DEF Solves
<1>3. StepsAs(it, step, L, V, base)
  BY <1>1, <1>2 DEF StepsAs, Solves
<1> QED
  BY <1>3, FoldTrace

(* The elements of a sequence and of its parts.  *)
LEMMA ElementsConcat ==
  ASSUME NEW S, NEW s \in Seq(S), NEW t \in Seq(S)
  PROVE  s \o t \in Seq(S) /\ ToSet(s \o t) = ToSet(s) \cup ToSet(t)
<1>1. /\ s \o t \in Seq(S) /\ Len(s \o t) = Len(s) + Len(t)
      /\ \A i \in 1..(Len(s) + Len(t)) :
            (s \o t)[i] = IF i <= Len(s) THEN s[i] ELSE t[i - Len(s)]
  BY ConcatProperties
<1> DEFINE u == s \o t
<1>2. /\ Len(s) \in Nat /\ Len(t) \in Nat
      /\ DOMAIN s = 1..Len(s) /\ DOMAIN t = 1..Len(t) /\ DOMAIN u = 1..(Len(s) + Len(t))
  BY <1>1, LenProperties
<1> HIDE DEF u
<1>3. \A i \in DOMAIN s : i \in DOMAIN u /\ u[i] = s[i]
  BY <1>1, <1>2 DEF u
<1>4. \A i \in DOMAIN t : i + Len(s) \in DOMAIN u /\ u[i + Len(s)] = t[i]
  <2> TAKE i \in DOMAIN t
  <2>1. /\ i + Len(s) \in 1..(Len(s) + Len(t))
        /\ ~(i + Len(s) <= Len(s)) /\ i + Len(s) - Len(s) = i
    BY <1>2
  <2> QED
    BY <1>1, <1>2, <2>1 DEF u
<1>5. \A i \in DOMAIN u : (i \in DOMAIN s /\ u[i] = s[i])
                          \/ (i - Len(s) \in DOMAIN t /\ u[i] = t[i - Len(s)])
  BY <1>1, <1>2 DEF u
<1>6. ToSet(u) = ToSet(s) \cup ToSet(t)
  BY <1>3, <1>4, <1>5 DEF ToSet
<1> QED
  BY <1>1, <1>6 DEF u

(* A sequence of sequences is flattened by appending one after the other.  *)
LEMMA FlatTrace ==
  ASSUME NEW S, NEW ss, DOMAIN ss = 1..Len(ss), Len(ss) \in Nat, Len(ss) = 0 => ss = <<>>,
         \A i \in 1..Len(ss) : ss[i] \in Seq(S)
  PROVE  \E g : /\ g[0] = <<>> /\ g[Len(ss)] = FlattenSeq(ss)
                /\ \A n \in 0..Len(ss) : g[n] \in Seq(S)
                /\ \A n \in 1..Len(ss) : g[n] = g[n - 1] \o ss[n] /\ g[n - 1] \in Seq(S)
<1> DEFINE L == Len(ss)
           V == Seq(S)
           none == <<>>
           joined == [n \in 1..L |-> [v \in V |-> v \o ss[n]]]
<1>a. ASSUME NEW n \in 1..L, NEW v \in V
      PROVE  joined[n][v] = v \o ss[n] /\ joined[n][v] \in V
  <2>1. v \o ss[n] \in V
    BY ElementsConcat
  <2> QED
    BY <2>1
<1>2. none \in V
  OBVIOUS
<1> HIDE DEF joined, V, L, none
<1>1. PICK step : \A n \in 1..L : \A v \in V : step[n][v] = v \o ss[n] /\ step[n][v] \in V
  BY <1>a
<1>b. L \in Nat
  BY DEF L
<1>c. Closed(step, L, V)
  BY <1>1 DEF Closed
<1>d. PICK g : Traces(g, step, L, V, none)
  BY <1>2, <1>b, <1>c, FoldBySteps
<1>3. /\ g[0] = none
      /\ \A n \in 1..L : g[n] = step[n][g[n - 1]]
      /\ \A n \in 0..L : g[n] \in V
  BY <1>d DEF Traces
<1>4. \A n \in 1..L : g[n] = g[n - 1] \o ss[n] /\ g[n - 1] \in Seq(S)
  <2> TAKE n \in 1..L
  <2>1. n - 1 \in 0..L
    BY <1>b
  <2> QED
    BY <1>1, <1>3, <2>1 DEF V
<1>6. ASSUME L = 0 PROVE g[L] = FlattenSeq(ss)
  <2>1. FlattenSeq(ss) = <<>>
    BY <1>6 DEF FlattenSeq, L
  <2> QED
    BY <1>3, <1>6, <2>1 DEF none
<1>7. ASSUME L > 0 PROVE g[L] = FlattenSeq(ss)
  <2> DEFINE body(it) == [i \in 1..L |-> IF i = 1 THEN ss[i] ELSE it[i - 1] \o ss[i]]
             c == CHOOSE it : it = body(it)
             h == [i \in 1..L |-> g[i]]
  <2>6. g[1] = ss[1]
    <3>1. 1 \in 1..L /\ g[1 - 1] = <<>> /\ ss[1] \in Seq(S)
      BY <1>3, <1>7, <1>b DEF L, none
    <3>2. g[1] = <<>> \o ss[1]
      BY <1>4, <3>1
    <3> QED
      BY <3>1, <3>2, ConcatEmptySeq
  <2>1. h = body(h)
    <3>2. \A i \in 1..L : i # 1 => i - 1 \in 1..L /\ g[i] = h[i - 1] \o ss[i]
      <4> TAKE i \in 1..L
      <4> HAVE i # 1
      <4>1. i - 1 \in 1..L
        BY <1>b
      <4>2. g[i] = g[i - 1] \o ss[i]
        BY <1>4
      <4> QED
        BY <4>1, <4>2
    <3> QED
      BY <2>6, <3>2
  <2>2. c = body(c)
    <3> HIDE DEF body, h
    <3> QED
      BY <2>1
  <2>3. FlattenSeq(ss) = c[L]
    BY <1>7, <1>b DEF FlattenSeq, L
  <2>4. \A n \in 0..L : n \in {m \in 0..L : m = 0 \/ c[m] = g[m]}
    <3> DEFINE U == {m \in 0..L : m = 0 \/ c[m] = g[m]}
    <3> HIDE DEF c
    <3>1. 0 \in U
      BY <1>b
    <3>0. \A i \in 1..L : c[i] = IF i = 1 THEN ss[i] ELSE c[i - 1] \o ss[i]
      BY <2>2
    <3>2. ASSUME NEW n \in 1..L, n - 1 \in U PROVE n \in U
      <4>0. n \in 0..L /\ n \in Nat
        BY <1>b
      <4>1. CASE n = 1
        <5>1. c[n] = ss[n] /\ g[n] = ss[n]
          BY <2>6, <3>0, <4>1
        <5> QED
          BY <4>0, <5>1
      <4>2. CASE n # 1
        <5>1. n - 1 # 0 /\ c[n - 1] = g[n - 1]
          BY <3>2, <4>0, <4>2
        <5>2. c[n] = g[n]
          BY <1>4, <3>0, <4>2, <5>1
        <5> QED
          BY <4>0, <5>2
      <4> QED
        BY <4>1, <4>2
    <3>3. \A n \in 1..L : n - 1 \in U => n \in U
      BY <3>2
    <3> HIDE DEF U
    <3>4. \A n \in 0..L : n \in U
      BY <1>b, <3>1, <3>3, UpTo
    <3> QED
      BY <3>4 DEF U
  <2>5. FlattenSeq(ss) = g[L]
    <3> HIDE DEF c
    <3> QED
      BY <1>7, <1>b, <2>3, <2>4
  <2> QED
    BY <2>5
<1>8. g[L] = FlattenSeq(ss)
  BY <1>b, <1>6, <1>7
<1> QED
  BY <1>3, <1>4, <1>8 DEF L, V, none

(* The elements of a sequence of sequences, one after the other.           *)
LEMMA ElementsFlat ==
  ASSUME NEW S, NEW ss, DOMAIN ss = 1..Len(ss), Len(ss) \in Nat, Len(ss) = 0 => ss = <<>>,
         \A i \in 1..Len(ss) : ss[i] \in Seq(S)
  PROVE  /\ FlattenSeq(ss) \in Seq(S)
         /\ ToSet(FlattenSeq(ss)) = UNION {ToSet(ss[i]) : i \in 1..Len(ss)}
<1> DEFINE L == Len(ss)
<1> HIDE DEF L
<1>b. L \in Nat
  BY DEF L
<1>d. PICK g : /\ g[0] = <<>> /\ g[L] = FlattenSeq(ss)
               /\ \A n \in 0..L : g[n] \in Seq(S)
               /\ \A n \in 1..L : g[n] = g[n - 1] \o ss[n] /\ g[n - 1] \in Seq(S)
  BY FlatTrace DEF L
<1> DEFINE all(n) == UNION {ToSet(ss[i]) : i \in 1..n}
           T == {n \in 0..L : ToSet(g[n]) = all(n)}
<1>5. \A n \in 0..L : n \in T
  <2>1. 0 \in T
    <3>1. ToSet(g[0]) = {} /\ all(0) = {} /\ 0 \in 0..L
      BY <1>b, <1>d DEF ToSet
    <3> HIDE DEF all
    <3> QED
      BY <3>1
  <2>2. ASSUME NEW n \in 1..L, n - 1 \in T PROVE n \in T
    <3>0. ss[n] \in Seq(S)
      BY DEF L
    <3>1. ToSet(g[n]) = ToSet(g[n - 1]) \cup ToSet(ss[n])
      <4>1. g[n - 1] \in Seq(S) /\ g[n] = g[n - 1] \o ss[n]
        BY <1>d
      <4> QED
        BY <3>0, <4>1, ElementsConcat
    <3>2. all(n) = all(n - 1) \cup ToSet(ss[n])
      <4>1. 1..n = (1..(n - 1)) \cup {n}
        BY <1>b
      <4> QED
        BY <4>1
    <3>3. ToSet(g[n - 1]) = all(n - 1) /\ n \in 0..L
      BY <1>b, <2>2
    <3> HIDE DEF all
    <3> QED
      BY <3>1, <3>2, <3>3
  <2>3. \A n \in 1..L : n - 1 \in T => n \in T
    BY <2>2
  <2> HIDE DEF T
  <2> QED
    BY <1>b, <2>1, <2>3, UpTo
<1>6. L \in 0..L
  BY <1>b
<1> HIDE DEF all
<1>7. g[L] \in Seq(S) /\ ToSet(g[L]) = all(L)
  BY <1>5, <1>6, <1>d
<1> QED
  BY <1>7, <1>d DEF L, all

(* All elements of a sequence are in the order R.                          *)
InPairs(s, R) == \A i, j \in 1..Len(s) : i < j => <<s[i], s[j]>> \in R

(* Two sequences in order, one of which belongs before the other.          *)
LEMMA PairsConcat ==
  ASSUME NEW S, NEW s \in Seq(S), NEW t \in Seq(S), NEW R, InPairs(s, R), InPairs(t, R),
         \A a \in ToSet(s), b \in ToSet(t) : <<a, b>> \in R
  PROVE  InPairs(s \o t, R)
<1> DEFINE u == s \o t
<1>1. /\ Len(u) = Len(s) + Len(t) /\ Len(s) \in Nat /\ Len(t) \in Nat
      /\ \A i \in 1..(Len(s) + Len(t)) :
            u[i] = IF i <= Len(s) THEN s[i] ELSE t[i - Len(s)]
  BY ConcatProperties, LenProperties
<1> HIDE DEF u
<1>2. (\A i \in 1..Len(s) : s[i] \in ToSet(s)) /\ (\A i \in 1..Len(t) : t[i] \in ToSet(t))
  BY LenProperties DEF ToSet
<1> SUFFICES ASSUME NEW i \in 1..Len(u), NEW j \in 1..Len(u), i < j
             PROVE  <<u[i], u[j]>> \in R
  BY DEF InPairs, u
<1>3. CASE j <= Len(s)
  <2>1. i \in 1..Len(s) /\ j \in 1..Len(s) /\ u[i] = s[i] /\ u[j] = s[j]
    BY <1>1, <1>3
  <2> QED
    BY <2>1 DEF InPairs
<1>4. CASE i <= Len(s) /\ ~(j <= Len(s))
  <2>1. i \in 1..Len(s) /\ j - Len(s) \in 1..Len(t) /\ u[i] = s[i] /\ u[j] = t[j - Len(s)]
    BY <1>1, <1>4
  <2> QED
    BY <1>2, <2>1
<1>5. CASE ~(i <= Len(s))
  <2>1. /\ i - Len(s) \in 1..Len(t) /\ j - Len(s) \in 1..Len(t)
        /\ i - Len(s) < j - Len(s) /\ ~(j <= Len(s))
    BY <1>1, <1>5
  <2>2. u[i] = t[i - Len(s)] /\ u[j] = t[j - Len(s)]
    BY <1>1, <1>5, <2>1
  <2> QED
    BY <2>1, <2>2 DEF InPairs
<1> QED
  BY <1>3, <1>4, <1>5, <1>1

(* A flattened sequence is in order when each of its parts is, and the     *)
(* parts are.                                                              *)
LEMMA PairsFlat ==
  ASSUME NEW S, NEW ss, DOMAIN ss = 1..Len(ss), Len(ss) \in Nat, Len(ss) = 0 => ss = <<>>,
         \A i \in 1..Len(ss) : ss[i] \in Seq(S),
         NEW R, \A i \in 1..Len(ss) : InPairs(ss[i], R),
         \A i, j \in 1..Len(ss) : i < j =>
             \A a \in ToSet(ss[i]), b \in ToSet(ss[j]) : <<a, b>> \in R
  PROVE  InPairs(FlattenSeq(ss), R)
<1> DEFINE L == Len(ss)
<1> HIDE DEF L
<1>1. L \in Nat
  BY DEF L
<1>2. PICK g : /\ g[0] = <<>> /\ g[L] = FlattenSeq(ss)
               /\ \A n \in 0..L : g[n] \in Seq(S)
               /\ \A n \in 1..L : g[n] = g[n - 1] \o ss[n] /\ g[n - 1] \in Seq(S)
  BY FlatTrace DEF L
<1> DEFINE sound(n) == /\ InPairs(g[n], R)
                       /\ \A a \in ToSet(g[n]) : \E i \in 1..n : a \in ToSet(ss[i])
           T == {n \in 0..L : sound(n)}
<1>3. 0 \in T
  <2>1. InPairs(<<>>, R) /\ ToSet(<<>>) = {} /\ 0 \in 0..L
    BY <1>1 DEF InPairs, ToSet
  <2> QED
    BY <1>2, <2>1
<1>4. ASSUME NEW n \in 1..L, n - 1 \in T PROVE n \in T
  <2>1. /\ g[n] = g[n - 1] \o ss[n] /\ g[n - 1] \in Seq(S) /\ ss[n] \in Seq(S)
        /\ InPairs(ss[n], R)
    BY <1>2 DEF L
  <2>2. sound(n - 1)
    BY <1>4
  <2>3. \A a \in ToSet(g[n - 1]), b \in ToSet(ss[n]) : <<a, b>> \in R
    <3> TAKE a \in ToSet(g[n - 1]), b \in ToSet(ss[n])
    <3>1. PICK i \in 1..(n - 1) : a \in ToSet(ss[i])
      BY <2>2
    <3>2. i \in 1..L /\ i < n
      BY <1>1
    <3> QED
      BY <3>1, <3>2 DEF L
  <2>4. InPairs(g[n], R)
    BY <2>1, <2>2, <2>3, PairsConcat
  <2>5. \A a \in ToSet(g[n]) : \E i \in 1..n : a \in ToSet(ss[i])
    <3>1. ToSet(g[n]) = ToSet(g[n - 1]) \cup ToSet(ss[n])
      BY <2>1, ElementsConcat
    <3>2. 1..(n - 1) \subseteq 1..n /\ n \in 1..n
      BY <1>1
    <3> QED
      BY <2>2, <3>1, <3>2
  <2>6. n \in 0..L
    BY <1>1
  <2> QED
    BY <2>4, <2>5, <2>6
<1>5. \A n \in 1..L : n - 1 \in T => n \in T
  BY <1>4
<1>6. L \in 0..L
  BY <1>1
<1> HIDE DEF T
<1>7. L \in T
  BY <1>1, <1>3, <1>5, <1>6, UpTo
<1> QED
  BY <1>2, <1>7 DEF T

----------------------------------------------------------------------------
(* Sequences. *)

(* A sequence of one element. *)
LEMMA SingletonSeq ==
  ASSUME NEW S, NEW x \in S
  PROVE  <<x>> \in Seq(S) /\ Len(<<x>>) = 1
  OBVIOUS

(* A sequence is its head, then its tail. *)
LEMMA HeadThenTail ==
  ASSUME NEW S, NEW s \in Seq(S), s # <<>>
  PROVE  <<Head(s)>> \o Tail(s) = s
<1>1. Head(s) \in S /\ Tail(s) \in Seq(S) /\ Len(Tail(s)) = Len(s) - 1
      /\ \A i \in 1..Len(Tail(s)) : Tail(s)[i] = s[i + 1]
  BY HeadTailProperties
<1>2. <<Head(s)>> \in Seq(S) /\ Len(<<Head(s)>>) = 1 /\ <<Head(s)>>[1] = Head(s)
  BY <1>1, SingletonSeq
<1>3. Head(s) = s[1] /\ Len(s) \in Nat /\ Len(s) > 0
  BY EmptySeq, LenProperties
<1> DEFINE t == <<Head(s)>> \o Tail(s)
<1>4. /\ t \in Seq(S) /\ Len(t) = Len(s)
      /\ \A i \in 1..Len(t) : t[i] = IF i <= 1 THEN s[1] ELSE Tail(s)[i - 1]
  BY <1>1, <1>2, <1>3, ConcatProperties
<1> HIDE DEF t
<1>5. \A i \in 1..Len(t) : t[i] = s[i]
  BY <1>1, <1>3, <1>4
<1> QED
  BY <1>4, <1>5, SeqEqual DEF t

(* The elements of a sequence are a finite set, no larger than it. *)
LEMMA ElementsOfSeq ==
  ASSUME NEW S, NEW s \in Seq(S)
  PROVE  /\ IsFiniteSet(ToSet(s)) /\ ToSet(s) \subseteq S
         /\ Cardinality(ToSet(s)) \in Nat /\ Cardinality(ToSet(s)) <= Len(s)
<1>1. Len(s) \in Nat /\ DOMAIN s = 1..Len(s) /\ s \in [1..Len(s) -> S]
  BY LenProperties
<1>2. s \in Surjection(1..Len(s), ToSet(s))
  BY <1>1 DEF Surjection, ToSet
<1>3. IsFiniteSet(1..Len(s)) /\ Cardinality(1..Len(s)) = Len(s)
  BY <1>1, FS_Interval
<1>4. IsFiniteSet(ToSet(s)) /\ Cardinality(ToSet(s)) <= Len(s)
  BY <1>2, <1>3, FS_Surjection
<1> QED
  BY <1>1, <1>4, FS_CardinalityType DEF ToSet

(* An element more. *)
LEMMA ElementsOfAppend ==
  ASSUME NEW S, NEW s \in Seq(S), NEW x \in S
  PROVE  ToSet(Append(s, x)) = ToSet(s) \cup {x}
<1>1. /\ Len(s) \in Nat /\ DOMAIN s = 1..Len(s)
      /\ DOMAIN Append(s, x) = 1..(Len(s) + 1)
      /\ \A i \in 1..Len(s) : Append(s, x)[i] = s[i]
      /\ Append(s, x)[Len(s) + 1] = x
  BY LenProperties, AppendProperties
<1> QED
  BY <1>1 DEF ToSet

(* A sequence of something, whatever that is, can be continued.            *)
LEMMA AppendTyped ==
  ASSUME NEW S, NEW s \in Seq(S), NEW x
  PROVE  Append(s, x) \in Seq(S \cup {x})
<1>1. s \in Seq(S \cup {x})
  BY LenProperties, SeqDef
<1> QED
  BY <1>1

(* Pairs of numbers in their order. *)
Rising == {p \in Nat \X Nat : p[1] < p[2]}

(* The positions of an element. *)
Places(kinds, k) ==
    FlattenSeq([i \in DOMAIN kinds |-> IF kinds[i] = k THEN <<i>> ELSE <<>>])

LEMMA PlacesAre ==
  ASSUME NEW S, NEW kinds \in Seq(S), NEW k
  PROVE  /\ Places(kinds, k) \in Seq(Nat)
         /\ ToSet(Places(kinds, k)) = {i \in 1..Len(kinds) : kinds[i] = k}
         /\ InPairs(Places(kinds, k), Rising)
<1> DEFINE L == Len(kinds)
           ss == [i \in DOMAIN kinds |-> IF kinds[i] = k THEN <<i>> ELSE <<>>]
<1>1. L \in Nat /\ DOMAIN kinds = 1..L
  BY LenProperties
<1>2. ASSUME NEW i \in 1..L
      PROVE  /\ ss[i] \in Seq(Nat) /\ InPairs(ss[i], Rising)
             /\ kinds[i] = k => ToSet(ss[i]) = {i}
             /\ kinds[i] # k => ToSet(ss[i]) = {}
  <2>1. CASE kinds[i] = k
    <3>1. ss[i] = <<i>>
      BY <1>1, <2>1
    <3>2. i \in Nat
      BY <1>1
    <3> DEFINE one == <<i>>
    <3>3. /\ one \in Seq(Nat) /\ DOMAIN one = {1} /\ one[1] = i
          /\ ~\E a, b \in 1..Len(one) : a < b
      BY <3>2
    <3> HIDE DEF one
    <3>4. ToSet(one) = {i}
      BY <3>3 DEF ToSet
    <3>5. InPairs(one, Rising)
      BY <3>3 DEF InPairs
    <3> QED
      BY <2>1, <3>1, <3>3, <3>4, <3>5 DEF one
  <2>2. CASE kinds[i] # k
    <3>1. ss[i] = <<>>
      BY <1>1, <2>2
    <3>2. <<>> \in Seq(Nat) /\ InPairs(<<>>, Rising)
      BY DEF InPairs
    <3>3. ToSet(<<>>) = {}
      BY DEF ToSet
    <3> QED
      BY <2>2, <3>1, <3>2, <3>3
  <2> QED
    BY <2>1, <2>2
<1>3. Len(ss) = L /\ DOMAIN ss = 1..L /\ (L = 0 => ss = <<>>)
  BY <1>1
<1>4. Places(kinds, k) = FlattenSeq(ss)
  BY DEF Places
<1>5. ASSUME NEW i \in 1..L, NEW j \in 1..L, i < j, NEW a \in ToSet(ss[i]), NEW b \in ToSet(ss[j])
      PROVE  <<a, b>> \in Rising
  <2>1. a = i /\ b = j
    BY <1>2
  <2> QED
    BY <1>1, <1>5, <2>1 DEF Rising
<1> HIDE DEF ss
<1>6. FlattenSeq(ss) \in Seq(Nat) /\ ToSet(FlattenSeq(ss)) = UNION {ToSet(ss[i]) : i \in 1..L}
  BY <1>1, <1>2, <1>3, ElementsFlat
<1>7. InPairs(FlattenSeq(ss), Rising)
  <2>1. /\ DOMAIN ss = 1..Len(ss) /\ Len(ss) \in Nat /\ (Len(ss) = 0 => ss = <<>>)
        /\ \A i \in 1..Len(ss) : ss[i] \in Seq(Nat)
        /\ \A i \in 1..Len(ss) : InPairs(ss[i], Rising)
    BY <1>1, <1>2, <1>3
  <2>2. \A i, j \in 1..Len(ss) : i < j =>
           \A a \in ToSet(ss[i]), b \in ToSet(ss[j]) : <<a, b>> \in Rising
    BY <1>3, <1>5
  <2> QED
    BY <2>1, <2>2, PairsFlat
<1>8. UNION {ToSet(ss[i]) : i \in 1..L} = {i \in 1..L : kinds[i] = k}
  <2>1. ASSUME NEW x \in UNION {ToSet(ss[i]) : i \in 1..L}
        PROVE  x \in {i \in 1..L : kinds[i] = k}
    <3>1. PICK i \in 1..L : x \in ToSet(ss[i])
      OBVIOUS
    <3>2. kinds[i] = k /\ x = i
      BY <1>2, <3>1
    <3> QED
      BY <3>2
  <2>2. ASSUME NEW i \in 1..L, kinds[i] = k PROVE i \in UNION {ToSet(ss[j]) : j \in 1..L}
    <3>1. i \in ToSet(ss[i])
      BY <1>2, <2>2
    <3> QED
      BY <3>1
  <2> QED
    BY <2>1, <2>2
<1> QED
  BY <1>4, <1>6, <1>7, <1>8

(* s is a sequence, whatever its elements. *)
IsSeq(s) == s \in Seq(ToSet(s))

(* A sequence is a function of its positions, and its set is what is at    *)
(* them.                                                                   *)
LEMMA SeqIs ==
  ASSUME NEW s, IsSeq(s)
  PROVE  /\ Len(s) \in Nat /\ DOMAIN s = 1..Len(s) /\ (Len(s) = 0 <=> s = <<>>)
         /\ \A i \in 1..Len(s) : s[i] \in ToSet(s)
         /\ \A x \in ToSet(s) : \E i \in 1..Len(s) : s[i] = x
<1>1. s \in Seq(ToSet(s))
  BY DEF IsSeq
<1> DEFINE S == ToSet(s)
<1>2. s \in Seq(S)
  BY <1>1
<1> HIDE DEF S
<1>3. /\ Len(s) \in Nat /\ DOMAIN s = 1..Len(s) /\ (Len(s) = 0 <=> s = <<>>)
      /\ \A i \in 1..Len(s) : s[i] \in S
  BY <1>2
<1>4. \A x \in ToSet(s) : \E i \in 1..Len(s) : s[i] = x
  BY <1>3 DEF ToSet
<1> QED
  BY <1>3, <1>4 DEF S

(* A function of 1..n is a sequence. *)
LEMMA IsSeqBy ==
  ASSUME NEW n \in Nat, NEW s, s = [i \in 1..n |-> s[i]]
  PROVE  /\ IsSeq(s) /\ Len(s) = n /\ DOMAIN s = 1..n
         /\ ToSet(s) = {s[i] : i \in 1..n}
<1>1. DOMAIN s = 1..n
  OBVIOUS
<1>2. ToSet(s) = {s[i] : i \in 1..n}
  BY <1>1 DEF ToSet
<1> DEFINE S == ToSet(s)
<1>3. \A i \in 1..n : s[i] \in S
  BY <1>1 DEF ToSet
<1> HIDE DEF S
<1>4. s \in [1..n -> S]
  BY <1>3
<1>5. s \in Seq(S)
  BY <1>4, SeqDef
<1>6. Len(s) = n
  BY <1>1, <1>5
<1> QED
  BY <1>1, <1>2, <1>5, <1>6 DEF S, IsSeq

(* A sequence over a set is a sequence, of elements of the set. *)
LEMMA IsSeqFrom ==
  ASSUME NEW S, NEW s \in Seq(S)
  PROVE  IsSeq(s) /\ ToSet(s) \subseteq S
<1>1. Len(s) \in Nat /\ s = [i \in 1..Len(s) |-> s[i]]
  OBVIOUS
<1>2. IsSeq(s)
  BY <1>1, IsSeqBy
<1>3. DOMAIN s = 1..Len(s) /\ \A i \in 1..Len(s) : s[i] \in S
  OBVIOUS
<1> QED
  BY <1>2, <1>3 DEF ToSet

(* The empty sequence has no elements. *)
LEMMA IsSeqNone == IsSeq(<<>>) /\ ToSet(<<>>) = {}
<1>1. <<>> \in Seq({})
  OBVIOUS
<1>2. ToSet(<<>>) = {}
  BY DEF ToSet
<1> QED
  BY <1>1, <1>2 DEF IsSeq

(* A sequence of one element. *)
LEMMA IsSeqOne == ASSUME NEW x PROVE IsSeq(<<x>>) /\ ToSet(<<x>>) = {x} /\ <<x>> # <<>>
<1> DEFINE s == <<x>>
<1>1. s \in Seq({x}) /\ Len(s) = 1 /\ DOMAIN s = 1..1 /\ s[1] = x
  OBVIOUS
<1> HIDE DEF s
<1>2. ToSet(s) = {x}
  BY <1>1 DEF ToSet
<1>3. IsSeq(s) /\ s # <<>>
  BY <1>1, <1>2 DEF IsSeq
<1> QED
  BY <1>2, <1>3 DEF s

(* A concatenation has the elements of both. *)
LEMMA IsSeqConcat ==
  ASSUME NEW s, NEW t, IsSeq(s), IsSeq(t)
  PROVE  IsSeq(s \o t) /\ ToSet(s \o t) = ToSet(s) \cup ToSet(t)
<1> DEFINE S == ToSet(s) \cup ToSet(t)
<1>1. s \in Seq(ToSet(s)) /\ t \in Seq(ToSet(t))
  BY DEF IsSeq
<1>2. s \in Seq(S) /\ t \in Seq(S)
  <2> DEFINE A == ToSet(s)
             B == ToSet(t)
  <2>1. s \in Seq(A) /\ t \in Seq(B) /\ A \subseteq S /\ B \subseteq S
    BY <1>1
  <2> HIDE DEF A, B, S
  <2> QED
    BY <2>1, SeqDef, LenProperties
<1> HIDE DEF S
<1>3. s \o t \in Seq(S) /\ ToSet(s \o t) = ToSet(s) \cup ToSet(t)
  BY <1>2, ElementsConcat
<1> QED
  BY <1>3, IsSeqFrom

(* What is flattened of sequences is a sequence of their elements. *)
LEMMA IsSeqFlat ==
  ASSUME NEW ss, IsSeq(ss), \A s \in ToSet(ss) : IsSeq(s)
  PROVE  /\ IsSeq(FlattenSeq(ss))
         /\ ToSet(FlattenSeq(ss)) = UNION {ToSet(ss[i]) : i \in 1..Len(ss)}
<1> DEFINE S == UNION {ToSet(ss[i]) : i \in 1..Len(ss)}
<1>1. /\ Len(ss) \in Nat /\ DOMAIN ss = 1..Len(ss) /\ (Len(ss) = 0 => ss = <<>>)
      /\ \A i \in 1..Len(ss) : ss[i] \in ToSet(ss)
  BY SeqIs
<1>2. ASSUME NEW i \in 1..Len(ss) PROVE ss[i] \in Seq(S)
  <2> DEFINE s == ss[i]
             A == ToSet(s)
  <2>1. s \in Seq(A)
    BY <1>1 DEF IsSeq
  <2>2. A \subseteq S
    OBVIOUS
  <2> HIDE DEF A, S, s
  <2>3. s \in Seq(S)
    BY <2>1, <2>2, SeqDef, LenProperties
  <2> QED
    BY <2>3 DEF s
<1> HIDE DEF S
<1>3. FlattenSeq(ss) \in Seq(S)
      /\ ToSet(FlattenSeq(ss)) = UNION {ToSet(ss[i]) : i \in 1..Len(ss)}
  BY <1>1, <1>2, ElementsFlat
<1> QED
  BY <1>3, IsSeqFrom

(* Pairs of a flattened sequence are of one part or of two, and related    *)
(* when the pairs of each part and of any two parts are.                   *)
LEMMA PairsInFlat ==
  ASSUME NEW ss, IsSeq(ss), \A s \in ToSet(ss) : IsSeq(s),
         NEW R, \A s \in ToSet(ss) : InPairs(s, R),
         \A i, j \in 1..Len(ss) : i < j =>
             \A a \in ToSet(ss[i]), b \in ToSet(ss[j]) : <<a, b>> \in R
  PROVE  InPairs(FlattenSeq(ss), R)
<1> DEFINE S == UNION {ToSet(ss[i]) : i \in 1..Len(ss)}
<1>1. /\ Len(ss) \in Nat /\ DOMAIN ss = 1..Len(ss) /\ (Len(ss) = 0 => ss = <<>>)
      /\ \A i \in 1..Len(ss) : ss[i] \in ToSet(ss)
  BY SeqIs
<1>2. ASSUME NEW i \in 1..Len(ss) PROVE ss[i] \in Seq(S)
  <2> DEFINE s == ss[i]
             A == ToSet(s)
  <2>1. s \in Seq(A)
    BY <1>1 DEF IsSeq
  <2>2. A \subseteq S
    OBVIOUS
  <2> HIDE DEF A, S, s
  <2>3. s \in Seq(S)
    BY <2>1, <2>2, SeqDef, LenProperties
  <2> QED
    BY <2>3 DEF s
<1> HIDE DEF S
<1>3. \A i \in 1..Len(ss) : InPairs(ss[i], R)
  BY <1>1
<1> QED
  BY <1>1, <1>2, <1>3, PairsFlat

(* What is selected of a sequence stays in its order. *)
LEMMA Selected ==
  ASSUME NEW s, IsSeq(s), NEW P, NEW sel,
         sel = FlattenSeq([i \in DOMAIN s |-> IF s[i] \in P THEN <<s[i]>> ELSE <<>>])
  PROVE  /\ IsSeq(sel) /\ ToSet(sel) = {x \in ToSet(s) : x \in P}
         /\ \A R : InPairs(s, R) => InPairs(sel, R)
<1> DEFINE ss == [i \in DOMAIN s |-> IF s[i] \in P THEN <<s[i]>> ELSE <<>>]
<1>1. Len(s) \in Nat /\ DOMAIN s = 1..Len(s)
      /\ \A x : x \in ToSet(s) <=> \E i \in 1..Len(s) : s[i] = x
  BY SeqIs
<1>2. ss = [i \in 1..Len(s) |-> ss[i]]
  BY <1>1
<1>3. \A i \in 1..Len(s) : /\ (s[i] \in P => ss[i] = <<s[i]>>)
                             /\ (s[i] \notin P => ss[i] = <<>>)
  BY <1>1
<1>4. sel = FlattenSeq(ss)
  OBVIOUS
<1> HIDE DEF ss
<1>5. IsSeq(ss) /\ Len(ss) = Len(s) /\ ToSet(ss) = {ss[i] : i \in 1..Len(s)}
  BY <1>1, <1>2, IsSeqBy
<1>6. \A i \in 1..Len(s) : /\ IsSeq(ss[i])
                             /\ (s[i] \in P => ToSet(ss[i]) = {s[i]})
                             /\ (s[i] \notin P => ToSet(ss[i]) = {})
  BY <1>3, IsSeqOne, IsSeqNone, Zenon
<1>7. \A q \in ToSet(ss) : IsSeq(q)
  BY <1>5, <1>6
<1>8. IsSeq(sel) /\ ToSet(sel) = UNION {ToSet(ss[i]) : i \in 1..Len(s)}
  BY <1>4, <1>5, <1>7, IsSeqFlat
<1>9. ToSet(sel) = {x \in ToSet(s) : x \in P}
  <2>1. \A i \in 1..Len(s) : \A x : x \in ToSet(ss[i]) <=> s[i] \in P /\ x = s[i]
    BY <1>6
  <2>2. \A x : x \in ToSet(sel) <=> \E i \in 1..Len(s) : x \in ToSet(ss[i])
    BY <1>8
  <2>3. \A x : x \in ToSet(sel) <=> x \in ToSet(s) /\ x \in P
    <3> TAKE x
    <3>1. ASSUME x \in ToSet(sel) PROVE x \in ToSet(s) /\ x \in P
      <4>1. PICK i \in 1..Len(s) : x \in ToSet(ss[i])
        BY <2>2, <3>1
      <4>2. s[i] \in P /\ x = s[i]
        BY <2>1, <4>1
      <4>3. s[i] \in ToSet(s)
        BY <1>1
      <4> QED
        BY <4>2, <4>3
    <3>2. ASSUME x \in ToSet(s), x \in P PROVE x \in ToSet(sel)
      <4>1. PICK i \in 1..Len(s) : s[i] = x
        BY <1>1, <3>2
      <4>2. x \in ToSet(ss[i])
        BY <2>1, <3>2, <4>1
      <4> QED
        BY <2>2, <4>2
    <3> QED
      BY <3>1, <3>2
  <2> QED
    BY <2>3
<1>10. ASSUME NEW R, InPairs(s, R) PROVE InPairs(sel, R)
  <2>1. \A q \in ToSet(ss) : InPairs(q, R)
    <3>1. \A x : InPairs(<<x>>, R)
      BY DEF InPairs
    <3>2. InPairs(<<>>, R)
      BY DEF InPairs
    <3> QED
      BY <1>3, <1>5, <3>1, <3>2
  <2>2. \A i, j \in 1..Len(ss) : i < j =>
           \A a \in ToSet(ss[i]), b \in ToSet(ss[j]) : <<a, b>> \in R
    <3>1. \A i \in 1..Len(s) : \A x : x \in ToSet(ss[i]) => x = s[i]
      BY <1>6
    <3>2. \A i, j \in 1..Len(s) : i < j => <<s[i], s[j]>> \in R
      BY <1>10 DEF InPairs
    <3> SUFFICES ASSUME NEW i \in 1..Len(s), NEW j \in 1..Len(s), i < j,
                        NEW a \in ToSet(ss[i]), NEW b \in ToSet(ss[j])
                 PROVE  <<a, b>> \in R
      BY <1>5
    <3>3. a = s[i] /\ b = s[j]
      BY <3>1
    <3> QED
      BY <3>2, <3>3
  <2> QED
    BY <1>4, <1>5, <1>7, <2>1, <2>2, PairsInFlat
<1> QED
  BY <1>8, <1>9, <1>10

(* A sequence of two elements. *)
LEMMA SetOfTwo == ASSUME NEW x, NEW y PROVE ToSet(<<x, y>>) = {x, y}
<1> DEFINE s == <<x, y>>
<1>1. DOMAIN s = 1..2 /\ s[1] = x /\ s[2] = y
  OBVIOUS
<1> HIDE DEF s
<1>2. ToSet(s) = {x, y}
  <2>1. 1..2 = {1, 2}
    OBVIOUS
  <2>2. ToSet(s) = {s[i] : i \in {1, 2}}
    BY <1>1, <2>1 DEF ToSet
  <2> QED
    BY <1>1, <2>2
<1> QED
  BY <1>2 DEF s

(* A sequence is empty when its set is. *)
LEMMA SomeIn ==
  ASSUME NEW s, IsSeq(s)
  PROVE  s = <<>> <=> ToSet(s) = {}
<1>1. /\ Len(s) \in Nat /\ (Len(s) = 0 <=> s = <<>>)
      /\ \A i \in 1..Len(s) : s[i] \in ToSet(s)
      /\ \A x \in ToSet(s) : \E i \in 1..Len(s) : s[i] = x
  BY SeqIs
<1>2. CASE s = <<>>
  BY <1>1, <1>2
<1>3. CASE s # <<>>
  <2>1. 1 \in 1..Len(s)
    BY <1>1, <1>3
  <2> QED
    BY <1>1, <1>3, <2>1
<1> QED
  BY <1>2, <1>3

(* A set of three or less. *)
LEMMA AtMostThree ==
  ASSUME NEW S, NEW x, NEW y, NEW z, S \subseteq {x, y, z}
  PROVE  Cardinality(S) <= 3
<1> DEFINE A == {x}
           B == A \cup {y}
           C == B \cup {z}
<1>1. IsFiniteSet({}) /\ Cardinality({}) = 0
  BY FS_EmptySet
<1>2. IsFiniteSet(A) /\ Cardinality(A) <= 1 /\ Cardinality(A) \in Nat
  BY <1>1, FS_Singleton
<1> HIDE DEF A
<1>3. IsFiniteSet(B) /\ Cardinality(B) <= 2 /\ Cardinality(B) \in Nat
  BY <1>2, FS_AddElement
<1> HIDE DEF B
<1>4. IsFiniteSet(C) /\ Cardinality(C) <= 3 /\ Cardinality(C) \in Nat
  BY <1>3, FS_AddElement
<1>5. S \subseteq C
  BY DEF A, B
<1> HIDE DEF C
<1>6. Cardinality(S) <= Cardinality(C) /\ Cardinality(S) \in Nat
  BY <1>4, <1>5, FS_Subset, FS_CardinalityType
<1> QED
  BY <1>4, <1>6
=============================================================================
