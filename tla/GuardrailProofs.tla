-------------------------- MODULE GuardrailProofs --------------------------
(***************************************************************************)
(* Proofs about Guardrail, for texts and lists of messages of any length,  *)
(* any settings, any number of administrators and requests, and any number *)
(* of edits and of failed queries.  First what the detectors find, what    *)
(* is redacted and which rules fire, from the folds they are written with; *)
(* then the inductive invariant, action by action; then the properties.    *)
(***************************************************************************)
EXTENDS Guardrail, FoldLemmas, FiniteSetTheorems

(* The places in a text that a match may be. *)
Spans(text) == {m \in [start : Nat, end : Nat] : m.start < m.end /\ m.end <= Len(text)}

(***************************************************************************)
(* The steps of the folds.                                                 *)
(***************************************************************************)

StartingAt(matches, i) == {m \in matches : m.start = i - 1}

LongestOf(matches) == CHOOSE m \in matches : \A o \in matches : o.end <= m.end

Swept(kept, matches, i) ==
  IF StartingAt(matches, i) # {} /\ (kept = <<>> \/ i - 1 >= Last(kept).end)
  THEN Append(kept, LongestOf(StartingAt(matches, i))) ELSE kept

Between(text, b, m) ==
  IF m.start > b.cursor THEN SubSeq(text, b.cursor + 1, m.start) ELSE <<>>

Replaced(b, text, m) ==
  [out |-> b.out \o Between(text, b, m) \o <<"[REDACTED]">>, cursor |-> m.end]

Built(text) == [out : Seq(Unit), cursor : 0..Len(text)]

TextAdded(texts, m) == IF m = Parts THEN texts ELSE Append(texts, m)

FoldedRedactions(text, matches) ==
  LET Replace(b, m) == Replaced(b, text, m)
  IN  FoldLeft(Replace, [out |-> <<>>, cursor |-> 0], matches)

(* Of some matches one is the longest. *)
LEMMA LongestIs ==
  ASSUME NEW text \in Seq(Unit), NEW matches, matches \subseteq Spans(text), matches # {}
  PROVE  LongestOf(matches) \in matches /\ \A o \in matches : o.end <= LongestOf(matches).end
<1> DEFINE ends == {m.end : m \in matches}
<1>1. Len(text) \in Nat
  BY LenProperties
<1>2. ends \in SUBSET (1..Len(text)) /\ ends # {}
  BY <1>1 DEF Spans
<1> HIDE DEF ends
<1>3. Max(ends) \in ends /\ \A e \in ends : Max(ends) >= e
  BY <1>1, <1>2, MaxOfSome
<1>4. PICK m \in matches : m.end = Max(ends)
  BY <1>3 DEF ends
<1>5. \A o \in matches : o.end <= m.end
  <2> TAKE o \in matches
  <2>1. o.end \in ends
    BY DEF ends
  <2>2. m.end >= o.end
    BY <1>3, <1>4, <2>1
  <2>3. o.end \in Nat /\ m.end \in Nat
    BY DEF Spans
  <2> QED
    BY <2>2, <2>3
<1> QED
  BY <1>5 DEF LongestOf

(* DeduplicateMatches keeps a match or none at every position.             *)
LEMMA DeduplicateTrace ==
  ASSUME NEW text \in Seq(Unit), NEW matches, matches \subseteq Spans(text)
  PROVE  \E f : /\ f[0] = <<>>
                /\ \A n \in 0..Len(text) : f[n] \in Seq(matches)
                /\ \A n \in 1..Len(text) : f[n] = Swept(f[n - 1], matches, n)
                /\ f[Len(text)] = DeduplicateMatches(text, matches)
<1> DEFINE L == Len(text)
           V == Seq(matches)
           none == <<>>
           step == [n \in 1..L |-> [v \in V |-> Swept(v, matches, n)]]
           body(it) == [t \in SUBSET (1..L) |-> IF t = {} THEN none
                          ELSE Swept(it[t \ {Max(t)}], matches, [i \in 1..L |-> i][Max(t)])]
           c == CHOOSE it : it = body(it)
<1>1. L \in Nat /\ DOMAIN text = 1..L
  BY LenProperties
<1>2. DeduplicateMatches(text, matches) = c[1..L]
  BY <1>1
     DEF DeduplicateMatches, FoldLeftDomain, FoldLeft, MapThenFoldSet, Swept, StartingAt, LongestOf
<1>3. ASSUME NEW n \in 1..L, NEW v \in V
      PROVE  Swept(v, matches, n) \in V
  <2>1. CASE StartingAt(matches, n) # {}
    <3>1. LongestOf(StartingAt(matches, n)) \in StartingAt(matches, n)
      <4>1. StartingAt(matches, n) \subseteq Spans(text)
        BY DEF StartingAt
      <4> QED
        BY <2>1, <4>1, LongestIs
    <3>2. LongestOf(StartingAt(matches, n)) \in matches
      BY <3>1 DEF StartingAt
    <3> QED
      BY <3>2, AppendProperties DEF Swept
  <2>2. CASE StartingAt(matches, n) = {}
    BY <2>2 DEF Swept
  <2> QED
    BY <2>1, <2>2
<1>4. Closed(step, L, V) /\ none \in V
  BY <1>3 DEF Closed
<1>5. PICK g : Solves(g, step, L, V, none)
  <2> HIDE DEF L, V, none, step
  <2> QED
    BY <1>1, <1>4, FoldExists
<1>6. \A t \in SUBSET (1..L) : t # {} => Max(t) \in 1..L /\ t \ {Max(t)} \in SUBSET (1..L)
  BY <1>1, MaxOfSome
<1> HIDE DEF V, none
<1>7. c = body(c)
  <2>1. ASSUME NEW t \in SUBSET (1..L)
        PROVE  g[t] = body(g)[t]
    <3>1. CASE t = {}
      BY <1>5, <3>1 DEF Solves
    <3>2. CASE t # {}
      <4>1. Max(t) \in 1..L /\ t \ {Max(t)} \in SUBSET (1..L)
        BY <1>6, <3>2
      <4>2. g[t] = step[Max(t)][g[t \ {Max(t)}]] /\ g[t \ {Max(t)}] \in V
        BY <1>5, <3>2, <4>1 DEF Solves
      <4> QED
        BY <3>2, <4>1, <4>2
    <3> QED
      BY <3>1, <3>2
  <2>2. g = body(g)
    BY <1>5, <2>1 DEF Solves
  <2> HIDE DEF body
  <2> QED
    BY <2>2
<1>8. StepsAs(c, step, L, V, none)
  <2> HIDE DEF c
  <2> QED
    BY <1>6, <1>7 DEF StepsAs
<1>9. PICK f : Traces(f, step, L, V, none) /\ f[L] = c[1..L]
  <2> HIDE DEF L, c, step
  <2> QED
    BY <1>1, <1>4, <1>8, FoldTrace
<1>10. \A n \in 1..L : f[n] = Swept(f[n - 1], matches, n)
  <2> TAKE n \in 1..L
  <2>1. n - 1 \in 0..L
    BY <1>1
  <2>2. f[n - 1] \in V /\ f[n] = step[n][f[n - 1]]
    BY <1>9, <2>1 DEF Traces
  <2> QED
    BY <2>2
<1>11. f[0] = none /\ (\A n \in 0..L : f[n] \in V) /\ f[L] = DeduplicateMatches(text, matches)
  <2> HIDE DEF c, step
  <2> QED
    BY <1>2, <1>9 DEF Traces
<1> QED
  BY <1>10, <1>11 DEF V, none

(* ApplyRedactions replaces one match after the other. *)
LEMMA ReplaceTrace ==
  ASSUME NEW text \in Seq(Unit), NEW matches \in Seq(Spans(text))
  PROVE  \E f : /\ f[0] = [out |-> <<>>, cursor |-> 0]
                /\ \A n \in 0..Len(matches) : f[n] \in Built(text)
                /\ \A n \in 1..Len(matches) : f[n] = Replaced(f[n - 1], text, matches[n])
                /\ f[Len(matches)] = FoldedRedactions(text, matches)
<1> DEFINE L == Len(matches)
           V == Built(text)
           none == [out |-> <<>>, cursor |-> 0]
           step == [n \in 1..L |-> [v \in V |-> Replaced(v, text, matches[n])]]
           body(it) == [t \in SUBSET (1..L) |-> IF t = {} THEN none
                          ELSE Replaced(it[t \ {Max(t)}], text, matches[Max(t)])]
           c == CHOOSE it : it = body(it)
<1>1. L \in Nat /\ DOMAIN matches = 1..L
  BY LenProperties
<1>2. FoldedRedactions(text, matches) = c[1..L]
  BY <1>1 DEF FoldedRedactions, FoldLeft, MapThenFoldSet, Replaced, Between
<1>3. ASSUME NEW n \in 1..L, NEW v \in V
      PROVE  Replaced(v, text, matches[n]) \in V
  <2>0. L \in Nat /\ Len(text) \in Nat /\ matches[n] \in Spans(text)
    BY <1>1, LenProperties
  <2>1. /\ v.out \in Seq(Unit) /\ v.cursor \in 0..Len(text)
        /\ matches[n].start \in Nat /\ matches[n].end \in 0..Len(text)
        /\ matches[n].start < matches[n].end
    BY <2>0 DEF Built, Spans
  <2>2. Between(text, v, matches[n]) \in Seq(Unit)
    <3>1. CASE matches[n].start > v.cursor
      <4>1. v.cursor + 1 \in 1..(Len(text) + 1) /\ matches[n].start \in 0..Len(text)
        BY <2>0, <2>1, <3>1
      <4>2. SubSeq(text, v.cursor + 1, matches[n].start) \in Seq(Unit)
        BY <4>1, SubSeqProperties
      <4> QED
        BY <3>1, <4>2 DEF Between
    <3>2. CASE ~(matches[n].start > v.cursor)
      BY <3>2 DEF Between
    <3> QED
      BY <3>1, <3>2
  <2>3. "[REDACTED]" \in Unit
    BY DEF Unit
  <2>4. v.out \o Between(text, v, matches[n]) \o <<"[REDACTED]">> \in Seq(Unit)
    BY <2>1, <2>2, <2>3, ConcatProperties
  <2> QED
    BY <2>1, <2>4 DEF Built, Replaced
<1>a. none \in V
  <2>1. Len(text) \in Nat
    BY LenProperties
  <2> QED
    BY <2>1 DEF Built
<1>4. Closed(step, L, V) /\ none \in V
  <2> HIDE DEF none, V
  <2> QED
    BY <1>3, <1>a DEF Closed
<1>5. PICK g : Solves(g, step, L, V, none)
  <2> HIDE DEF L, V, none, step
  <2> QED
    BY <1>1, <1>4, FoldExists
<1>6. \A t \in SUBSET (1..L) : t # {} => Max(t) \in 1..L /\ t \ {Max(t)} \in SUBSET (1..L)
  BY <1>1, MaxOfSome
<1> HIDE DEF V, none
<1>7. c = body(c)
  <2>1. ASSUME NEW t \in SUBSET (1..L)
        PROVE  g[t] = body(g)[t]
    <3>1. CASE t = {}
      BY <1>5, <3>1 DEF Solves
    <3>2. CASE t # {}
      <4>1. Max(t) \in 1..L /\ t \ {Max(t)} \in SUBSET (1..L)
        BY <1>6, <3>2
      <4>2. g[t] = step[Max(t)][g[t \ {Max(t)}]] /\ g[t \ {Max(t)}] \in V
        BY <1>5, <3>2, <4>1 DEF Solves
      <4> QED
        BY <3>2, <4>1, <4>2
    <3> QED
      BY <3>1, <3>2
  <2>2. g = body(g)
    BY <1>5, <2>1 DEF Solves
  <2> HIDE DEF body
  <2> QED
    BY <2>2
<1>8. StepsAs(c, step, L, V, none)
  <2> HIDE DEF c
  <2> QED
    BY <1>6, <1>7 DEF StepsAs
<1>9. PICK f : Traces(f, step, L, V, none) /\ f[L] = c[1..L]
  <2> HIDE DEF L, c, step
  <2> QED
    BY <1>1, <1>4, <1>8, FoldTrace
<1>10. \A n \in 1..L : f[n] = Replaced(f[n - 1], text, matches[n])
  <2> TAKE n \in 1..L
  <2>1. n - 1 \in 0..L
    BY <1>1
  <2>2. f[n - 1] \in V /\ f[n] = step[n][f[n - 1]]
    BY <1>9, <2>1 DEF Traces
  <2> QED
    BY <2>2
<1>11. f[0] = none /\ (\A n \in 0..L : f[n] \in V) /\ f[L] = FoldedRedactions(text, matches)
  <2> HIDE DEF c, step
  <2> QED
    BY <1>2, <1>9 DEF Traces
<1> QED
  BY <1>10, <1>11 DEF V, none

(* Texts takes the messages one by one. *)
LEMMA TextsTrace ==
  ASSUME NEW messages \in Seq({Parts} \cup Seq(Unit))
  PROVE  \E f : /\ f[0] = <<>>
                /\ \A n \in 0..Len(messages) : f[n] \in Seq(Seq(Unit))
                /\ \A n \in 1..Len(messages) : f[n] = TextAdded(f[n - 1], messages[n])
                /\ f[Len(messages)] = Texts(messages)
<1> DEFINE L == Len(messages)
           V == Seq(Seq(Unit))
           none == <<>>
           step == [n \in 1..L |-> [v \in V |-> TextAdded(v, messages[n])]]
           body(it) == [t \in SUBSET (1..L) |-> IF t = {} THEN none
                          ELSE TextAdded(it[t \ {Max(t)}], messages[Max(t)])]
           c == CHOOSE it : it = body(it)
<1>1. L \in Nat /\ DOMAIN messages = 1..L
  BY LenProperties
<1>2. Texts(messages) = c[1..L]
  BY <1>1 DEF Texts, FoldLeft, MapThenFoldSet, TextAdded
<1>3. ASSUME NEW n \in 1..L, NEW v \in V
      PROVE  TextAdded(v, messages[n]) \in V
  <2>1. messages[n] = Parts \/ messages[n] \in Seq(Unit)
    BY <1>1
  <2> QED
    BY <2>1, AppendProperties DEF TextAdded
<1>4. Closed(step, L, V) /\ none \in V
  BY <1>3 DEF Closed
<1>5. PICK g : Solves(g, step, L, V, none)
  <2> HIDE DEF L, V, none, step
  <2> QED
    BY <1>1, <1>4, FoldExists
<1>6. \A t \in SUBSET (1..L) : t # {} => Max(t) \in 1..L /\ t \ {Max(t)} \in SUBSET (1..L)
  BY <1>1, MaxOfSome
<1> HIDE DEF V, none
<1>7. c = body(c)
  <2>1. ASSUME NEW t \in SUBSET (1..L)
        PROVE  g[t] = body(g)[t]
    <3>1. CASE t = {}
      BY <1>5, <3>1 DEF Solves
    <3>2. CASE t # {}
      <4>1. Max(t) \in 1..L /\ t \ {Max(t)} \in SUBSET (1..L)
        BY <1>6, <3>2
      <4>2. g[t] = step[Max(t)][g[t \ {Max(t)}]] /\ g[t \ {Max(t)}] \in V
        BY <1>5, <3>2, <4>1 DEF Solves
      <4> QED
        BY <3>2, <4>1, <4>2
    <3> QED
      BY <3>1, <3>2
  <2>2. g = body(g)
    BY <1>5, <2>1 DEF Solves
  <2> HIDE DEF body
  <2> QED
    BY <2>2
<1>8. StepsAs(c, step, L, V, none)
  <2> HIDE DEF c
  <2> QED
    BY <1>6, <1>7 DEF StepsAs
<1>9. PICK f : Traces(f, step, L, V, none) /\ f[L] = c[1..L]
  <2> HIDE DEF L, c, step
  <2> QED
    BY <1>1, <1>4, <1>8, FoldTrace
<1>10. \A n \in 1..L : f[n] = TextAdded(f[n - 1], messages[n])
  <2> TAKE n \in 1..L
  <2>1. n - 1 \in 0..L
    BY <1>1
  <2>2. f[n - 1] \in V /\ f[n] = step[n][f[n - 1]]
    BY <1>9, <2>1 DEF Traces
  <2> QED
    BY <2>2
<1>11. f[0] = none /\ (\A n \in 0..L : f[n] \in V) /\ f[L] = Texts(messages)
  <2> HIDE DEF c, step
  <2> QED
    BY <1>2, <1>9 DEF Traces
<1> QED
  BY <1>10, <1>11 DEF V, none

(***************************************************************************)
(* The detectors.                                                          *)
(***************************************************************************)

(* Where FindAll may find a match, and the match it finds there.           *)
Here(text, kind, w, i) ==
  i - 1 + w <= Len(text) /\ \A k \in i..(i - 1 + w) : Finds(kind, text[k])

Match(w, i) == [start |-> i - 1, end |-> i - 1 + w]

MatchesOf(text, kind, w) ==
  {Match(w, i) : i \in {j \in DOMAIN text : Here(text, kind, w, j)}}

Added(found, text, kind, w, i) ==
  IF Here(text, kind, w, i) /\ (found = <<>> \/ Last(found).end < i)
  THEN Append(found, Match(w, i)) ELSE found

(* FindAll goes over the positions one by one.                             *)
LEMMA FindAllTrace ==
  ASSUME NEW text \in Seq(Unit), NEW kind, NEW w \in 1..2
  PROVE  \E f : /\ f[0] = <<>>
                /\ \A n \in 0..Len(text) : f[n] \in Seq(MatchesOf(text, kind, w))
                /\ \A n \in 1..Len(text) : f[n] = Added(f[n - 1], text, kind, w, n)
                /\ f[Len(text)] = FindAll(text, kind, w)
<1> DEFINE L == Len(text)
           V == Seq(MatchesOf(text, kind, w))
           none == <<>>
           step == [n \in 1..L |-> [v \in V |-> Added(v, text, kind, w, n)]]
           body(it) == [t \in SUBSET (1..L) |-> IF t = {} THEN none
                          ELSE Added(it[t \ {Max(t)}], text, kind, w,
                                     [i \in 1..L |-> i][Max(t)])]
           c == CHOOSE it : it = body(it)
<1>1. L \in Nat /\ DOMAIN text = 1..L
  BY LenProperties
<1>2. FindAll(text, kind, w) = c[1..L]
  BY <1>1 DEF FindAll, FoldLeftDomain, FoldLeft, MapThenFoldSet, Added, Here, Match
<1>3. ASSUME NEW n \in 1..L, NEW v \in V
      PROVE  Added(v, text, kind, w, n) \in V
  <2>1. CASE Here(text, kind, w, n)
    <3>1. Match(w, n) \in MatchesOf(text, kind, w)
      BY <1>1, <2>1 DEF MatchesOf
    <3> QED
      BY <3>1, AppendProperties DEF Added
  <2>2. CASE ~Here(text, kind, w, n)
    BY <2>2 DEF Added
  <2> QED
    BY <2>1, <2>2
<1>4. Closed(step, L, V) /\ none \in V
  BY <1>3 DEF Closed
<1>5. PICK g : Solves(g, step, L, V, none)
  <2> HIDE DEF L, V, none, step
  <2> QED
    BY <1>1, <1>4, FoldExists
<1>6. \A t \in SUBSET (1..L) : t # {} => Max(t) \in 1..L /\ t \ {Max(t)} \in SUBSET (1..L)
  BY <1>1, MaxOfSome
<1> HIDE DEF V, none
<1>7. c = body(c)
  <2>1. ASSUME NEW t \in SUBSET (1..L)
        PROVE  g[t] = body(g)[t]
    <3>1. CASE t = {}
      BY <1>5, <3>1 DEF Solves
    <3>2. CASE t # {}
      <4>1. Max(t) \in 1..L /\ t \ {Max(t)} \in SUBSET (1..L)
        BY <1>6, <3>2
      <4>2. g[t] = step[Max(t)][g[t \ {Max(t)}]] /\ g[t \ {Max(t)}] \in V
        BY <1>5, <3>2, <4>1 DEF Solves
      <4> QED
        BY <3>2, <4>1, <4>2
    <3> QED
      BY <3>1, <3>2
  <2>2. g = body(g)
    BY <1>5, <2>1 DEF Solves
  <2> HIDE DEF body
  <2> QED
    BY <2>2
<1>8. StepsAs(c, step, L, V, none)
  <2> HIDE DEF c
  <2> QED
    BY <1>6, <1>7 DEF StepsAs
<1>9. PICK f : Traces(f, step, L, V, none) /\ f[L] = c[1..L]
  <2> HIDE DEF L, c, step
  <2> QED
    BY <1>1, <1>4, <1>8, FoldTrace
<1>10. \A n \in 1..L : f[n] = Added(f[n - 1], text, kind, w, n)
  <2> TAKE n \in 1..L
  <2>1. n - 1 \in 0..L
    BY <1>1
  <2>2. f[n - 1] \in V /\ f[n] = step[n][f[n - 1]]
    BY <1>9, <2>1 DEF Traces
  <2> QED
    BY <2>2
<1>11. f[0] = none /\ (\A n \in 0..L : f[n] \in V) /\ f[L] = FindAll(text, kind, w)
  <2> HIDE DEF c, step
  <2> QED
    BY <1>2, <1>9 DEF Traces
<1> QED
  BY <1>10, <1>11 DEF V, none

(* The elements of a sequence with one more. *)
LEMMA ElementsAppend ==
  ASSUME NEW S, NEW s \in Seq(S), NEW e \in S
  PROVE  /\ Append(s, e) \in Seq(S) /\ Append(s, e) # <<>>
         /\ ToSet(Append(s, e)) = ToSet(s) \cup {e}
<1> DEFINE u == Append(s, e)
<1>1. /\ u \in Seq(S) /\ Len(u) = Len(s) + 1 /\ Len(s) \in Nat
      /\ \A i \in 1..Len(s) : u[i] = s[i]
      /\ u[Len(s) + 1] = e
  BY AppendProperties, LenProperties
<1> HIDE DEF u
<1>2. DOMAIN u = 1..(Len(s) + 1) /\ DOMAIN s = 1..Len(s)
  BY <1>1, LenProperties
<1>3. \A i \in DOMAIN u : u[i] \in ToSet(s) \cup {e}
  BY <1>1, <1>2 DEF ToSet
<1>4. \A i \in DOMAIN s : s[i] \in ToSet(u)
  BY <1>1, <1>2 DEF ToSet
<1>5. e \in ToSet(u) /\ u # <<>>
  BY <1>1, <1>2 DEF ToSet
<1>6. ToSet(u) = ToSet(s) \cup {e}
  BY <1>3, <1>4, <1>5 DEF ToSet
<1> QED
  BY <1>1, <1>5, <1>6 DEF u

(* The last element of a list that is not empty is one of its elements. *)
LEMMA LastIs ==
  ASSUME NEW S, NEW s \in Seq(S), s # <<>>
  PROVE  /\ Len(s) \in DOMAIN s /\ Last(s) = s[Len(s)]
         /\ Last(s) \in S /\ Last(s) \in ToSet(s)
<1>1. Len(s) \in DOMAIN s
  BY LenProperties, EmptySeq
<1> QED
  BY <1>1 DEF Last, ToSet

(* The elements of a list are of its type. *)
LEMMA ElementsIn ==
  ASSUME NEW S, NEW s \in Seq(S)
  PROVE  ToSet(s) \subseteq S /\ \A i \in DOMAIN s : s[i] \in ToSet(s)
BY DEF ToSet

(* FindAll finds what matches, and every single unit that does. *)
LEMMA FindAllFinds ==
  ASSUME NEW text \in Seq(Unit), NEW kind
  PROVE  /\ \A w \in 1..2 : ToSet(FindAll(text, kind, w)) \subseteq MatchesOf(text, kind, w)
         /\ \A k \in DOMAIN text : Finds(kind, text[k])
              => Match(1, k) \in ToSet(FindAll(text, kind, 1))
<1> DEFINE L == Len(text)
<1>0. L \in Nat /\ DOMAIN text = 1..L
  BY LenProperties
<1>1. ASSUME NEW w \in 1..2
      PROVE  ToSet(FindAll(text, kind, w)) \subseteq MatchesOf(text, kind, w)
  <2>1. PICK f : (\A n \in 0..L : f[n] \in Seq(MatchesOf(text, kind, w)))
                 /\ f[L] = FindAll(text, kind, w)
    BY FindAllTrace
  <2>2. FindAll(text, kind, w) \in Seq(MatchesOf(text, kind, w))
    BY <1>0, <2>1
  <2> QED
    BY <2>2, ElementsIn
<1>2. ASSUME NEW k \in DOMAIN text, Finds(kind, text[k])
      PROVE  Match(1, k) \in ToSet(FindAll(text, kind, 1))
  <2> DEFINE M == MatchesOf(text, kind, 1)
  <2>1. PICK f : /\ f[0] = <<>>
                 /\ \A n \in 0..L : f[n] \in Seq(M)
                 /\ \A n \in 1..L : f[n] = Added(f[n - 1], text, kind, 1, n)
                 /\ f[L] = FindAll(text, kind, 1)
    <3>1. 1 \in 1..2
      OBVIOUS
    <3> QED
      BY <3>1, FindAllTrace
  <2> DEFINE T == {n \in 0..L : /\ \A m \in ToSet(f[n]) : m.end <= n
                                /\ k <= n => Match(1, k) \in ToSet(f[n])}
  <2>2. 0 \in T
    BY <1>0, <2>1 DEF ToSet
  <2>3. ASSUME NEW n \in 1..L, n - 1 \in T PROVE n \in T
    <3> DEFINE found == f[n - 1]
    <3>1. /\ found \in Seq(M) /\ f[n] = Added(found, text, kind, 1, n)
          /\ \A m \in ToSet(found) : m.end <= n - 1
          /\ k <= n - 1 => Match(1, k) \in ToSet(found)
          /\ n \in Nat /\ n \in DOMAIN text /\ n \in 0..L
      BY <1>0, <2>1, <2>3
    <3>a. \A m \in M : m.end \in Nat
      BY <1>0 DEF MatchesOf, Match
    <3>2. ToSet(found) \subseteq M /\ \A m \in ToSet(found) : m.end \in Nat
      BY <3>1, <3>a, ElementsIn
    <3> HIDE DEF M, found, T
    <3>3. CASE Here(text, kind, 1, n)
      <4>1. found = <<>> \/ Last(found).end < n
        <5>1. ASSUME found # <<>> PROVE Last(found).end < n
          <6>1. Last(found) \in ToSet(found)
            BY <3>1, <5>1, LastIs
          <6>2. Last(found).end <= n - 1 /\ Last(found).end \in Nat
            BY <3>1, <3>2, <6>1
          <6> QED
            BY <3>1, <6>2
        <5> QED
          BY <5>1
      <4>2. f[n] = Append(found, Match(1, n)) /\ Match(1, n) \in M
        BY <3>1, <3>3, <4>1 DEF Added, M, MatchesOf
      <4>3. ToSet(f[n]) = ToSet(found) \cup {Match(1, n)}
        <5>1. found \in Seq(M) /\ Match(1, n) \in M
          BY <3>1, <4>2
        <5>2. ToSet(Append(found, Match(1, n))) = ToSet(found) \cup {Match(1, n)}
          BY <5>1, ElementsAppend
        <5> QED
          BY <4>2, <5>2
      <4>4. Match(1, n).end = n
        BY <3>1 DEF Match
      <4>5. \A m \in ToSet(f[n]) : m.end <= n
        BY <3>1, <3>2, <4>3, <4>4
      <4>6. k <= n => k <= n - 1 \/ k = n
        BY <1>0, <3>1
      <4> QED
        BY <3>1, <4>3, <4>5, <4>6 DEF T
    <3>4. CASE ~Here(text, kind, 1, n)
      <4>1. f[n] = found
        BY <3>1, <3>4 DEF Added
      <4>2. n # k
        <5>1. ASSUME n = k PROVE Here(text, kind, 1, n)
          <6>1. n - 1 + 1 = n /\ n <= L /\ \A i \in n..n : i = n
            BY <1>0, <3>1
          <6> QED
            BY <1>2, <5>1, <6>1 DEF Here
        <5> QED
          BY <3>4, <5>1
      <4>3. k <= n => k <= n - 1
        BY <1>0, <3>1, <4>2
      <4>4. \A m \in ToSet(found) : m.end <= n
        BY <3>1, <3>2
      <4> QED
        BY <3>1, <4>1, <4>3, <4>4 DEF T
    <3> QED
      BY <3>3, <3>4
  <2>4. L \in T
    <3> HIDE DEF T
    <3>1. \A n \in 1..L : n - 1 \in T => n \in T
      BY <2>3
    <3> HIDE DEF L
    <3>2. \A n \in 0..L : n \in T
      BY <1>0, <2>2, <3>1, UpTo
    <3> QED
      BY <1>0, <3>2
  <2> QED
    BY <1>0, <2>1, <2>4
<1> QED
  BY <1>1, <1>2

(* What DeduplicateMatches keeps does not overlap and covers every match.  *)
Disjoint(list) == \A i, j \in DOMAIN list : i < j => list[i].end <= list[j].start

(* DeduplicateMatches: the matches it keeps do not overlap, and every      *)
(* match that it drops begins within one that it keeps.                    *)
LEMMA DeduplicateKeeps ==
  ASSUME NEW text \in Seq(Unit), NEW matches, matches \subseteq Spans(text)
  PROVE  /\ DeduplicateMatches(text, matches) \in Seq(matches)
         /\ Disjoint(DeduplicateMatches(text, matches))
         /\ \A m \in matches : \E o \in ToSet(DeduplicateMatches(text, matches)) :
              o.start <= m.start /\ m.start < o.end
<1> DEFINE L == Len(text)
<1>0. L \in Nat /\ DOMAIN text = 1..L
  BY LenProperties
<1>1. PICK f : /\ f[0] = <<>>
               /\ \A n \in 0..L : f[n] \in Seq(matches)
               /\ \A n \in 1..L : f[n] = Swept(f[n - 1], matches, n)
               /\ f[L] = DeduplicateMatches(text, matches)
  BY DeduplicateTrace
<1>2. \A m \in matches : m.start \in Nat /\ m.end \in Nat /\ m.start < m.end /\ m.end <= L
  BY DEF Spans
<1> DEFINE Covers(list, m) == \E o \in ToSet(list) : o.start <= m.start /\ m.start < o.end
           T == {n \in 0..L : /\ Disjoint(f[n])
                              /\ \A o \in ToSet(f[n]) : o.start < n
                              /\ \A m \in matches : m.start < n => Covers(f[n], m)}
<1>3. 0 \in T
  BY <1>0, <1>1, <1>2 DEF ToSet, Disjoint
<1>4. ASSUME NEW n \in 1..L, n - 1 \in T PROVE n \in T
  <2> DEFINE kept == f[n - 1]
             At == StartingAt(matches, n)
  <2>1. /\ kept \in Seq(matches) /\ f[n] = Swept(kept, matches, n)
        /\ n \in Nat /\ n \in 0..L /\ n > 0
    BY <1>0, <1>1
  <2>2. /\ Disjoint(kept) /\ \A o \in ToSet(kept) : o.start < n - 1
        /\ \A m \in matches : m.start < n - 1 => Covers(kept, m)
    BY <1>4
  <2>3. ToSet(kept) \subseteq matches
    BY <2>1, ElementsIn
  <2>4. \A m \in matches : m.start < n => m.start < n - 1 \/ m \in At
    BY <1>2, <2>1 DEF StartingAt
  <2>5. \A o \in ToSet(kept) : o.start < n
    BY <1>2, <2>1, <2>2, <2>3
  <2> HIDE DEF kept
  <2>6. ASSUME At = {} PROVE n \in T
    <3>1. f[n] = kept
      BY <2>1, <2>6 DEF Swept
    <3> QED
      BY <2>1, <2>2, <2>4, <2>5, <2>6, <3>1
  <2>7. ASSUME At # {}, kept # <<>>, ~(n - 1 >= Last(kept).end) PROVE n \in T
    <3>1. f[n] = kept
      BY <2>1, <2>7 DEF Swept
    <3>2. Last(kept) \in ToSet(kept)
      BY <2>1, <2>7, LastIs
    <3>3. Last(kept).start < n - 1 /\ n - 1 < Last(kept).end
      <4>1. Last(kept).end \in Nat
        BY <1>2, <2>3, <3>2
      <4> QED
        BY <2>1, <2>2, <2>7, <3>2, <4>1
    <3>4. ASSUME NEW m \in At PROVE Covers(kept, m)
      <4>1. m.start = n - 1 /\ Last(kept).start \in Nat
        BY <1>2, <2>3, <3>2 DEF StartingAt
      <4> QED
        BY <2>1, <3>2, <3>3, <4>1
    <3> QED
      BY <2>1, <2>2, <2>4, <2>5, <3>1, <3>4
  <2>8. ASSUME At # {}, kept = <<>> \/ n - 1 >= Last(kept).end PROVE n \in T
    <3> DEFINE e == LongestOf(At)
    <3>1. e \in matches /\ e.start = n - 1
      <4>1. At \subseteq Spans(text)
        BY DEF StartingAt
      <4>2. LongestOf(At) \in At
        <5> HIDE DEF At
        <5> QED
          BY <2>8, <4>1, LongestIs
      <4> QED
        BY <4>2 DEF StartingAt
    <3>2. f[n] = Append(kept, e)
      BY <2>1, <2>8 DEF Swept
    <3> HIDE DEF e, At
    <3>3. ToSet(f[n]) = ToSet(kept) \cup {e}
      BY <2>1, <3>1, <3>2, ElementsAppend
    <3>4. Disjoint(f[n])
      <4>1. /\ Len(kept) \in Nat /\ DOMAIN kept = 1..Len(kept)
            /\ DOMAIN f[n] = 1..(Len(kept) + 1) /\ f[n][Len(kept) + 1] = e
            /\ \A i \in 1..Len(kept) : f[n][i] = kept[i]
        BY <2>1, <3>1, <3>2, AppendProperties, LenProperties
      <4>2. ASSUME NEW i \in 1..Len(kept) PROVE kept[i].end <= e.start
        <5>1. kept # <<>>
          BY <4>1
        <5>2. Last(kept) = kept[Len(kept)] /\ Len(kept) \in DOMAIN kept /\ Last(kept) \in matches
          BY <2>1, <5>1, LastIs
        <5>3. kept[i] \in matches
          BY <2>1, <4>1, ElementsIn
        <5>a. i < Len(kept) => kept[i].end <= kept[Len(kept)].start
          BY <2>2, <4>1, <5>2 DEF Disjoint
        <5>4. i = Len(kept) \/ (i < Len(kept) /\ kept[i].end <= Last(kept).start)
          <6>0. Len(kept) \in Nat
            BY <4>1
          <6>1. i = Len(kept) \/ i < Len(kept)
            BY <6>0
          <6> QED
            BY <5>2, <5>a, <6>1
        <5>5. n - 1 >= Last(kept).end
          BY <2>8, <5>1
        <5>6. /\ kept[i].end \in Nat /\ Last(kept).end \in Nat
              /\ Last(kept).start \in Nat /\ Last(kept).start < Last(kept).end
          BY <1>2, <5>2, <5>3
        <5>7. i = Len(kept) => kept[i] = Last(kept)
          BY <5>2
        <5> QED
          BY <2>1, <3>1, <5>4, <5>5, <5>6, <5>7
      <4>3. ASSUME NEW i \in DOMAIN f[n], NEW j \in DOMAIN f[n], i < j
            PROVE  f[n][i].end <= f[n][j].start
        <5>1. i \in 1..Len(kept)
          BY <4>1, <4>3
        <5>2. CASE j = Len(kept) + 1
          BY <4>1, <4>2, <5>1, <5>2
        <5>3. CASE j # Len(kept) + 1
          <6>1. j \in 1..Len(kept)
            BY <4>1, <5>3
          <6> QED
            BY <2>2, <4>1, <4>3, <5>1, <6>1 DEF Disjoint
        <5> QED
          BY <5>2, <5>3
      <4> QED
        BY <4>3 DEF Disjoint
    <3>5. \A o \in ToSet(f[n]) : o.start < n
      <4>1. e.start < n
        BY <2>1, <3>1
      <4> QED
        BY <2>5, <3>3, <4>1
    <3>6. ASSUME NEW m \in matches, m.start < n PROVE Covers(f[n], m)
      <4>1. CASE m.start < n - 1
        BY <2>2, <3>3, <4>1
      <4>2. CASE m \in At
        <5>1. e \in ToSet(f[n])
          BY <3>3
        <5>2. e.start <= m.start /\ m.start < e.end
          <6>1. m.start = n - 1 /\ e.start = n - 1
            BY <3>1, <4>2 DEF At, StartingAt
          <6>2. e.start \in Nat /\ e.start < e.end
            BY <1>2, <3>1
          <6> QED
            BY <6>1, <6>2
        <5> QED
          BY <5>1, <5>2
      <4> QED
        BY <2>4, <3>6, <4>1, <4>2
    <3> QED
      BY <2>1, <3>4, <3>5, <3>6
  <2> QED
    BY <2>6, <2>7, <2>8
<1>5. L \in T
  <2> HIDE DEF T
  <2>1. \A n \in 1..L : n - 1 \in T => n \in T
    BY <1>4
  <2> HIDE DEF L
  <2>2. \A n \in 0..L : n \in T
    BY <1>0, <1>3, <2>1, UpTo
  <2> QED
    BY <1>0, <2>2
<1>6. \A m \in matches : m.start < L
  BY <1>0, <1>2
<1> QED
  BY <1>0, <1>1, <1>5, <1>6

(* A detector's matches: they do not overlap, begin and end with a unit    *)
(* that it finds, and cover every such unit.                               *)
LEMMA DetectorFinds ==
  ASSUME NEW text \in Seq(Unit), NEW kind
  PROVE  /\ RunDetectors(text, kind) \in Seq(Spans(text))
         /\ Disjoint(RunDetectors(text, kind))
         /\ \A m \in ToSet(RunDetectors(text, kind)) :
              Finds(kind, text[m.start + 1]) /\ Finds(kind, text[m.end])
         /\ \A k \in DOMAIN text : Finds(kind, text[k]) =>
              \E o \in ToSet(RunDetectors(text, kind)) : o.start < k /\ k <= o.end
<1> DEFINE L == Len(text)
           found == UNION {ToSet(FindAll(text, kind, w)) : w \in 1..2}
           list == DeduplicateMatches(text, found)
<1>0. L \in Nat /\ DOMAIN text = 1..L /\ RunDetectors(text, kind) = list
  BY LenProperties DEF RunDetectors
<1>1. ASSUME NEW w \in 1..2, NEW m \in MatchesOf(text, kind, w)
      PROVE  m \in Spans(text) /\ Finds(kind, text[m.start + 1]) /\ Finds(kind, text[m.end])
  <2>1. PICK i \in DOMAIN text : m = Match(w, i) /\ Here(text, kind, w, i)
    BY DEF MatchesOf
  <2>2. /\ i \in Nat /\ i > 0 /\ w \in Nat /\ w > 0
        /\ i - 1 + w <= L /\ \A k \in i..(i - 1 + w) : Finds(kind, text[k])
    BY <1>0, <2>1 DEF Here
  <2>3. /\ i - 1 \in Nat /\ i - 1 + w \in Nat /\ i - 1 < i - 1 + w /\ i - 1 + 1 = i
        /\ i \in i..(i - 1 + w) /\ i - 1 + w \in i..(i - 1 + w)
    BY <1>0, <2>2
  <2>4. m.start = i - 1 /\ m.end = i - 1 + w
    BY <2>1 DEF Match
  <2>5. m \in Spans(text)
    BY <2>1, <2>2, <2>3 DEF Match, Spans
  <2> QED
    BY <2>2, <2>3, <2>4, <2>5
<1>2. \A m \in found : /\ m \in Spans(text)
                       /\ Finds(kind, text[m.start + 1]) /\ Finds(kind, text[m.end])
  BY <1>1, FindAllFinds
<1>3. ASSUME NEW k \in DOMAIN text, Finds(kind, text[k]) PROVE Match(1, k) \in found
  <2>1. Match(1, k) \in ToSet(FindAll(text, kind, 1))
    BY <1>3, FindAllFinds
  <2>2. 1 \in 1..2
    OBVIOUS
  <2> QED
    BY <2>1, <2>2
<1> HIDE DEF found
<1>4. /\ list \in Seq(found) /\ Disjoint(list)
      /\ \A m \in found : \E o \in ToSet(list) : o.start <= m.start /\ m.start < o.end
  <2>1. found \subseteq Spans(text)
    BY <1>2
  <2> QED
    BY <2>1, DeduplicateKeeps
<1> HIDE DEF list
<1>5. ToSet(list) \subseteq found
  BY <1>4, ElementsIn
<1>6. list \in Seq(Spans(text))
  BY <1>2, <1>4
<1>7. ASSUME NEW k \in DOMAIN text, Finds(kind, text[k])
      PROVE  \E o \in ToSet(list) : o.start < k /\ k <= o.end
  <2>1. Match(1, k) \in found /\ Match(1, k).start = k - 1
    BY <1>3, <1>7 DEF Match
  <2>2. PICK o \in ToSet(list) : o.start <= k - 1 /\ k - 1 < o.end
    BY <1>4, <2>1
  <2>3. o.start \in Nat /\ o.end \in Nat /\ k \in Nat
    BY <1>0, <1>2, <1>5 DEF Spans
  <2> QED
    BY <2>2, <2>3
<1> QED
  BY <1>0, <1>2, <1>4, <1>5, <1>6, <1>7

(* A detector fires on a text if and only if it finds something in it. *)
LEMMA DetectorFires ==
  ASSUME NEW text \in Seq(Unit), NEW kind
  PROVE  RunDetectors(text, kind) # <<>> <=> \E k \in DOMAIN text : Finds(kind, text[k])
<1> DEFINE list == RunDetectors(text, kind)
<1>1. ASSUME list # <<>> PROVE \E k \in DOMAIN text : Finds(kind, text[k])
  <2>1. Last(list) \in ToSet(list) /\ Last(list) \in Spans(text)
    BY <1>1, DetectorFinds, LastIs
  <2>2. Finds(kind, text[Last(list).end])
    BY <2>1, DetectorFinds
  <2>3. Last(list).end \in DOMAIN text
    <3>1. Len(text) \in Nat /\ DOMAIN text = 1..Len(text)
      BY LenProperties
    <3> QED
      BY <2>1, <3>1 DEF Spans
  <2> QED
    BY <2>2, <2>3
<1>2. ASSUME NEW k \in DOMAIN text, Finds(kind, text[k]) PROVE list # <<>>
  <2>1. \E o \in ToSet(list) : o.start < k
    BY <1>2, DetectorFinds
  <2>2. ToSet(<<>>) = {}
    BY DEF ToSet
  <2> QED
    BY <2>1, <2>2
<1> QED
  BY <1>1, <1>2

(* A check detects a kind where one of the units of the text is found.     *)
LEMMA DetectedIs ==
  ASSUME NEW text \in Seq(Unit), NEW c \in Category
  PROVE  Detected(text, c) <=> \E k \in DOMAIN text : Finds(c, text[k])
<1>1. CASE c = "pii"
  BY <1>1, DetectorFires DEF Detected, CheckPII
<1>2. CASE c = "secret"
  BY <1>2, DetectorFires DEF Detected, CheckSecrets
<1>3. CASE c \notin {"pii", "secret"}
  BY <1>3 DEF Detected, CheckPattern, Finds
<1> QED
  BY <1>1, <1>2, <1>3

(***************************************************************************)
(* What is redacted.                                                       *)
(***************************************************************************)

Clean == {u \in Unit : ~Finds("pii", u) /\ ~Finds("secret", u)}

Ascending(list) ==
  \A i, j \in DOMAIN list : i < j => /\ list[i].start <= list[j].start
                                     /\ list[i].end <= list[j].end

Covered(text, list) ==
  \A k \in DOMAIN text : text[k] \notin Clean =>
     \E j \in DOMAIN list : list[j].start < k /\ k <= list[j].end

(* ApplyRedactions by the fold and what follows the last match. *)
LEMMA ApplyRedactionsIs ==
  ASSUME NEW text, NEW matches
  PROVE  LET b == FoldedRedactions(text, matches)
         IN  ApplyRedactions(text, matches) = b.out \o SubSeq(text, b.cursor + 1, Len(text))
BY DEF ApplyRedactions, FoldedRedactions, Replaced, Between

(* A part of a text in which every unit is clean.                          *)
LEMMA CleanPart ==
  ASSUME NEW text \in Seq(Unit), NEW a \in 0..Len(text), NEW b \in 0..Len(text),
         \A k \in DOMAIN text : a < k /\ k <= b => text[k] \in Clean
  PROVE  SubSeq(text, a + 1, b) \in Seq(Clean)
<1> DEFINE s == SubSeq(text, a + 1, b)
<1>0. Len(text) \in Nat /\ DOMAIN text = 1..Len(text)
  BY LenProperties
<1>1. a + 1 \in 1..(Len(text) + 1)
  BY <1>0
<1>2. /\ s \in Seq(Unit) /\ Len(s) = IF a + 1 <= b THEN b - (a + 1) + 1 ELSE 0
      /\ \A i \in 1..(b - (a + 1) + 1) : s[i] = text[a + 1 + i - 1]
  BY <1>1, SubSeqProperties
<1>3. \A i \in 1..Len(s) : s[i] \in Clean
  <2> TAKE i \in 1..Len(s)
  <2> HIDE DEF s
  <2>1. a + 1 <= b /\ i \in 1..(b - (a + 1) + 1)
    BY <1>0, <1>2
  <2>2. a + 1 + i - 1 \in DOMAIN text /\ a < a + 1 + i - 1 /\ a + 1 + i - 1 <= b
    BY <1>0, <2>1
  <2>3. s[i] = text[a + 1 + i - 1]
    BY <1>2, <2>1
  <2> QED
    BY <2>2, <2>3
<1> HIDE DEF s
<1>4. s \in Seq(Clean)
  <2>1. s = [i \in 1..Len(s) |-> s[i]] /\ Len(s) \in Nat
    BY <1>2, LenProperties
  <2> QED
    BY <1>3, <2>1
<1> QED
  BY <1>4 DEF s

(* A list in ascending order that covers all there is to find leaves none. *)
LEMMA RedactionLeavesNone ==
  ASSUME NEW text \in Seq(Unit), NEW list \in Seq(Spans(text)),
         Ascending(list), Covered(text, list)
  PROVE  ApplyRedactions(text, list) \in Seq(Clean)
<1> DEFINE L == Len(list)
           end(n) == IF n = 0 THEN 0 ELSE list[n].end
<1>0. /\ Len(text) \in Nat /\ DOMAIN text = 1..Len(text)
      /\ L \in Nat /\ DOMAIN list = 1..L
  BY LenProperties
<1>1. PICK f : /\ f[0] = [out |-> <<>>, cursor |-> 0]
               /\ \A n \in 0..L : f[n] \in Built(text)
               /\ \A n \in 1..L : f[n] = Replaced(f[n - 1], text, list[n])
               /\ f[L] = FoldedRedactions(text, list)
  BY ReplaceTrace
<1>2. \A n \in 1..L : /\ list[n].start \in Nat /\ list[n].end \in Nat
                      /\ list[n].start < list[n].end /\ list[n].end <= Len(text)
  <2>1. \A n \in 1..L : list[n] \in Spans(text)
    BY <1>0
  <2> QED
    BY <2>1 DEF Spans
<1>3. \A n \in 0..L : end(n) \in 0..Len(text)
  BY <1>0, <1>2
<1>4. ASSUME NEW n \in 1..L, NEW k \in DOMAIN text, end(n - 1) < k, k <= list[n].start
      PROVE  text[k] \in Clean
  <2> SUFFICES ASSUME text[k] \notin Clean PROVE FALSE
    OBVIOUS
  <2>1. PICK j \in DOMAIN list : list[j].start < k /\ k <= list[j].end
    BY DEF Covered
  <2>2. j \in Nat /\ n \in Nat /\ k \in Nat /\ n > 0 /\ j > 0 /\ j \in 1..L
    BY <1>0
  <2>3. CASE j >= n
    <3>1. list[n].start <= list[j].start
      BY <1>0, <1>2, <2>2, <2>3 DEF Ascending
    <3> QED
      BY <1>2, <1>4, <2>1, <2>2, <3>1
  <2>4. CASE j < n
    <3>1. n - 1 \in 1..L /\ n - 1 # 0 /\ (j = n - 1 \/ j < n - 1)
      BY <1>0, <2>2, <2>4
    <3>2. list[j].end <= list[n - 1].end
      BY <1>0, <1>2, <2>2, <3>1 DEF Ascending
    <3>3. list[n - 1].end < k
      BY <1>4, <3>1
    <3> QED
      BY <1>2, <2>1, <2>2, <3>1, <3>2, <3>3
  <2> QED
    BY <2>2, <2>3, <2>4
<1>5. ASSUME NEW k \in DOMAIN text, end(L) < k
      PROVE  text[k] \in Clean
  <2> SUFFICES ASSUME text[k] \notin Clean PROVE FALSE
    OBVIOUS
  <2>1. PICK j \in DOMAIN list : list[j].start < k /\ k <= list[j].end
    BY DEF Covered
  <2>2. j \in Nat /\ k \in Nat /\ j \in 1..L /\ L \in 1..L /\ L # 0 /\ (j = L \/ j < L)
    BY <1>0
  <2>3. list[j].end <= list[L].end
    BY <1>0, <1>2, <2>2 DEF Ascending
  <2>4. list[L].end < k
    BY <1>5, <2>2
  <2> QED
    BY <1>2, <2>1, <2>2, <2>3, <2>4
<1> DEFINE T == {n \in 0..L : f[n].out \in Seq(Clean) /\ f[n].cursor = end(n)}
<1>6. 0 \in T
  <2>1. <<>> \in Seq(Clean) /\ 0 \in 0..L
    BY <1>0
  <2>2. f[0].out = <<>> /\ f[0].cursor = 0 /\ end(0) = 0
    BY <1>1
  <2> HIDE DEF end
  <2> QED
    BY <2>1, <2>2
<1>7. ASSUME NEW n \in 1..L, n - 1 \in T PROVE n \in T
  <2>1. /\ f[n - 1].out \in Seq(Clean) /\ f[n - 1].cursor = end(n - 1)
        /\ f[n] = Replaced(f[n - 1], text, list[n])
        /\ n \in Nat /\ n # 0 /\ n \in 0..L /\ n - 1 \in 0..L
    BY <1>0, <1>1, <1>7
  <2>2. end(n - 1) \in 0..Len(text) /\ list[n].start \in 0..Len(text) /\ end(n) = list[n].end
    BY <1>0, <1>2, <1>3, <2>1
  <2>3. Between(text, f[n - 1], list[n]) \in Seq(Clean)
    <3> HIDE DEF end
    <3>1. SubSeq(text, end(n - 1) + 1, list[n].start) \in Seq(Clean)
      <4>1. \A k \in DOMAIN text : end(n - 1) < k /\ k <= list[n].start => text[k] \in Clean
        BY <1>4
      <4> QED
        BY <2>2, <4>1, CleanPart
    <3>2. <<>> \in Seq(Clean)
      OBVIOUS
    <3> QED
      BY <2>1, <3>1, <3>2 DEF Between
  <2>4. "[REDACTED]" \in Clean
    BY DEF Clean, Unit, Finds
  <2>5. f[n - 1].out \o Between(text, f[n - 1], list[n]) \o <<"[REDACTED]">> \in Seq(Clean)
    BY <2>1, <2>3, <2>4, ConcatProperties
  <2>6. f[n].out \in Seq(Clean) /\ f[n].cursor = list[n].end
    BY <2>1, <2>5 DEF Replaced
  <2> QED
    BY <2>1, <2>2, <2>6
<1>8. L \in T
  <2> HIDE DEF T
  <2>1. \A n \in 1..L : n - 1 \in T => n \in T
    BY <1>7
  <2> HIDE DEF L
  <2>2. \A n \in 0..L : n \in T
    BY <1>0, <1>6, <2>1, UpTo
  <2> QED
    BY <1>0, <2>2
<1>9. SubSeq(text, end(L) + 1, Len(text)) \in Seq(Clean)
  <2>1. end(L) \in 0..Len(text) /\ Len(text) \in 0..Len(text)
    BY <1>0, <1>3
  <2>2. \A k \in DOMAIN text : end(L) < k /\ k <= Len(text) => text[k] \in Clean
    BY <1>5
  <2> HIDE DEF end
  <2> QED
    BY <2>1, <2>2, CleanPart
<1>10. f[L].out \o SubSeq(text, f[L].cursor + 1, Len(text)) \in Seq(Clean)
  <2>1. f[L].out \in Seq(Clean) /\ f[L].cursor = end(L)
    BY <1>8
  <2> HIDE DEF end
  <2> QED
    BY <1>9, <2>1, ConcatProperties
<1> QED
  BY <1>1, <1>10, ApplyRedactionsIs

(* ApplyRedactions answers a text whatever the order of the matches.       *)
LEMMA RedactionIsText ==
  ASSUME NEW text \in Seq(Unit), NEW list \in Seq(Spans(text))
  PROVE  ApplyRedactions(text, list) \in Seq(Unit)
<1> DEFINE b == FoldedRedactions(text, list)
<1>0. Len(text) \in Nat /\ Len(list) \in Nat
  BY LenProperties
<1>1. b \in Built(text)
  <2>1. PICK f : (\A n \in 0..Len(list) : f[n] \in Built(text)) /\ f[Len(list)] = b
    BY ReplaceTrace
  <2> QED
    BY <1>0, <2>1
<1>2. b.out \in Seq(Unit) /\ b.cursor + 1 \in 1..(Len(text) + 1) /\ Len(text) \in 0..Len(text)
  BY <1>0, <1>1 DEF Built
<1> HIDE DEF b
<1>3. SubSeq(text, b.cursor + 1, Len(text)) \in Seq(Unit)
  BY <1>0, <1>2, SubSeqProperties
<1>4. b.out \o SubSeq(text, b.cursor + 1, Len(text)) \in Seq(Unit)
  BY <1>2, <1>3, ConcatProperties
<1> QED
  BY <1>4, ApplyRedactionsIs DEF b

(* The handler's list of matches. *)
Both(text) == CheckPII(text) \o CheckSecrets(text)

Redacted(text) == ApplyRedactions(text, Both(text))

(* The matches of the PII and those of the secrets, one after the other,   *)
(* cover what either finds; unless a secret stands before some PII, they   *)
(* are in order.                                                           *)
LEMMA BothIs ==
  ASSUME NEW text \in Seq(Unit)
  PROVE  /\ Both(text) \in Seq(Spans(text)) /\ Covered(text, Both(text))
         /\ ~Unsorted(text) => Ascending(Both(text))
<1> DEFINE p == CheckPII(text)
           s == CheckSecrets(text)
           list == Both(text)
<1>0. Len(text) \in Nat /\ DOMAIN text = 1..Len(text)
  BY LenProperties
<1>1. /\ p \in Seq(Spans(text)) /\ Disjoint(p)
      /\ \A m \in ToSet(p) : Finds("pii", text[m.start + 1]) /\ Finds("pii", text[m.end])
      /\ \A k \in DOMAIN text : Finds("pii", text[k]) =>
              \E o \in ToSet(p) : o.start < k /\ k <= o.end
  BY DetectorFinds DEF CheckPII
<1>2. /\ s \in Seq(Spans(text)) /\ Disjoint(s)
      /\ \A m \in ToSet(s) : Finds("secret", text[m.start + 1]) /\ Finds("secret", text[m.end])
      /\ \A k \in DOMAIN text : Finds("secret", text[k]) =>
              \E o \in ToSet(s) : o.start < k /\ k <= o.end
  BY DetectorFinds DEF CheckSecrets
<1>3. list \in Seq(Spans(text)) /\ ToSet(list) = ToSet(p) \cup ToSet(s)
  BY <1>1, <1>2, ElementsConcat DEF Both
<1>4. /\ Len(p) \in Nat /\ DOMAIN p = 1..Len(p) /\ Len(s) \in Nat /\ DOMAIN s = 1..Len(s)
      /\ DOMAIN list = 1..(Len(p) + Len(s))
      /\ \A i \in 1..(Len(p) + Len(s)) : list[i] = IF i <= Len(p) THEN p[i] ELSE s[i - Len(p)]
  BY <1>1, <1>2, ConcatProperties, LenProperties DEF Both
<1> HIDE DEF p, s, list
<1>5. Covered(text, list)
  <2>1. ASSUME NEW k \in DOMAIN text, text[k] \notin Clean
        PROVE  \E j \in DOMAIN list : list[j].start < k /\ k <= list[j].end
    <3>1. text[k] \in Unit
      BY <1>0
    <3>2. Finds("pii", text[k]) \/ Finds("secret", text[k])
      BY <2>1, <3>1 DEF Clean
    <3>3. \E o \in ToSet(list) : o.start < k /\ k <= o.end
      BY <1>1, <1>2, <1>3, <3>2
    <3> QED
      BY <3>3 DEF ToSet
  <2> QED
    BY <2>1 DEF Covered
<1>6. \A m \in Spans(text) : /\ m.start \in Nat /\ m.end \in Nat /\ m.start < m.end
                             /\ m.start + 1 \in DOMAIN text /\ m.end \in DOMAIN text
  BY <1>0 DEF Spans
<1>7. ASSUME ~Unsorted(text) PROVE Ascending(list)
  <2>1. ASSUME NEW l \in Seq(Spans(text)), Disjoint(l),
               NEW i \in DOMAIN l, NEW j \in DOMAIN l, i < j
        PROVE  l[i].start <= l[j].start /\ l[i].end <= l[j].end
    <3>1. l[i].end <= l[j].start
      BY <2>1 DEF Disjoint
    <3>2. l[i] \in Spans(text) /\ l[j] \in Spans(text)
      BY <2>1, LenProperties
    <3>3. /\ l[i].start \in Nat /\ l[i].end \in Nat /\ l[i].start < l[i].end
          /\ l[j].start \in Nat /\ l[j].end \in Nat /\ l[j].start < l[j].end
      BY <1>6, <3>2
    <3> QED
      BY <3>1, <3>3
  <2>2. ASSUME NEW m \in ToSet(p), NEW o \in ToSet(s)
        PROVE  m.start <= o.start /\ m.end <= o.end
    <3>1. m \in Spans(text) /\ o \in Spans(text)
      BY <1>1, <1>2, ElementsIn
    <3>2. /\ m.start \in Nat /\ m.end \in Nat /\ o.start \in Nat /\ o.end \in Nat
          /\ m.start + 1 \in DOMAIN text /\ m.end \in DOMAIN text
          /\ o.start + 1 \in DOMAIN text /\ o.end \in DOMAIN text
      BY <1>6, <3>1
    <3>3. /\ Finds("pii", text[m.start + 1]) /\ Finds("pii", text[m.end])
          /\ Finds("secret", text[o.start + 1]) /\ Finds("secret", text[o.end])
      BY <1>1, <1>2
    <3>4. ~(o.start + 1 < m.start + 1) /\ ~(o.end < m.end)
      BY <1>7, <3>2, <3>3 DEF Unsorted
    <3> QED
      BY <3>2, <3>4
  <2>3. ASSUME NEW i \in DOMAIN list, NEW j \in DOMAIN list, i < j
        PROVE  list[i].start <= list[j].start /\ list[i].end <= list[j].end
    <3>0. /\ i \in Nat /\ j \in Nat /\ i > 0 /\ j > 0
          /\ i <= Len(p) + Len(s) /\ j <= Len(p) + Len(s)
      BY <1>4
    <3>1. CASE j <= Len(p)
      <4>1. i \in DOMAIN p /\ j \in DOMAIN p
        BY <1>4, <2>3, <3>0, <3>1
      <4>2. list[i] = p[i] /\ list[j] = p[j]
        BY <1>4, <4>1
      <4> QED
        BY <1>1, <2>1, <2>3, <4>1, <4>2
    <3>2. CASE i > Len(p)
      <4>1. i - Len(p) \in DOMAIN s /\ j - Len(p) \in DOMAIN s /\ i - Len(p) < j - Len(p)
        BY <1>4, <2>3, <3>0, <3>2
      <4>2. ~(i <= Len(p)) /\ ~(j <= Len(p))
        BY <1>4, <2>3, <3>0, <3>2
      <4>3. list[i] = s[i - Len(p)] /\ list[j] = s[j - Len(p)]
        BY <1>4, <4>2
      <4> QED
        BY <1>2, <2>1, <4>1, <4>3
    <3>3. CASE i <= Len(p) /\ ~(j <= Len(p))
      <4>1. i \in DOMAIN p /\ j - Len(p) \in DOMAIN s
        BY <1>4, <3>0, <3>3
      <4>2. list[i] = p[i] /\ list[j] = s[j - Len(p)]
        BY <1>4, <3>3
      <4>3. list[i] \in ToSet(p) /\ list[j] \in ToSet(s)
        BY <4>1, <4>2 DEF ToSet
      <4> QED
        BY <2>2, <4>3
    <3> QED
      BY <1>4, <3>0, <3>1, <3>2, <3>3
  <2> QED
    BY <2>3 DEF Ascending
<1> QED
  BY <1>3, <1>5, <1>7 DEF list

(* Redacting a text leaves none of what is to be redacted, unless it is    *)
(* Unsorted.                                                               *)
LEMMA RedactedIs ==
  ASSUME NEW text \in Seq(Unit)
  PROVE  Redacted(text) \in Seq(Unit) /\ (~Unsorted(text) => Redacted(text) \in Seq(Clean))
BY BothIs, RedactionIsText, RedactionLeavesNone DEF Redacted

(* A text that was redacted once is in order the next time. *)
LEMMA CleanIsSorted ==
  ASSUME NEW text \in Seq(Clean)
  PROVE  text \in Seq(Unit) /\ ~Unsorted(text)
<1>1. Clean \subseteq Unit
  BY DEF Clean
<1>2. text \in Seq(Unit)
  BY <1>1
<1>3. \A i \in DOMAIN text : text[i] \in Clean
  BY ElementsIn DEF ToSet
<1> QED
  BY <1>2, <1>3 DEF Unsorted, Clean

Content == {Parts} \cup Seq(Unit)

(* A list of parts is no text. *)
LEMMA PartsAreNoText ==
  Parts \notin Seq(Unit) /\ ~Unsorted(Parts)
<1>1. Parts[1] = "parts" /\ DOMAIN Parts = 1..1
  BY DEF Parts
<1>2. "parts" \notin Unit /\ ~Finds("pii", "parts")
  BY DEF Unit, Category, Pattern, Finds
<1>3. 1 \in DOMAIN Parts
  BY <1>1
<1>4. Parts \notin Seq(Unit)
  BY <1>1, <1>2, <1>3, ElementsIn DEF ToSet
<1>5. \A i \in DOMAIN Parts : Parts[i] = "parts"
  BY <1>1
<1> QED
  BY <1>2, <1>4, <1>5 DEF Unsorted

(* One entry of the redactions. *)
LEMMA RedactMessageIs ==
  ASSUME NEW messages \in Seq(Content), NEW n \in Nat \ {0}
  PROVE  /\ RedactMessage(messages, n) \in Seq(Content)
         /\ Len(RedactMessage(messages, n)) = Len(messages)
         /\ \A i \in 1..Len(messages) :
              RedactMessage(messages, n)[i] =
                 IF i = n /\ messages[i] # Parts THEN Redacted(messages[i]) ELSE messages[i]
<1> DEFINE L == Len(messages)
<1>0. L \in Nat /\ DOMAIN messages = 1..L
  BY LenProperties
<1>1. CASE n > L \/ messages[n] = Parts
  <2>1. RedactMessage(messages, n) = messages
    BY <1>1 DEF RedactMessage
  <2>2. \A i \in 1..L : i = n => messages[i] = Parts
    BY <1>0, <1>1
  <2> QED
    BY <2>1, <2>2
<1>2. CASE ~(n > L \/ messages[n] = Parts)
  <2>1. n \in 1..L /\ messages[n] # Parts
    BY <1>0, <1>2
  <2>2. messages[n] \in Seq(Unit)
    BY <2>1 DEF Content
  <2> DEFINE new == [messages EXCEPT ![n] = Redacted(messages[n])]
  <2>3. RedactMessage(messages, n) = new
    BY <1>2 DEF RedactMessage, Redacted, Both
  <2>4. Redacted(messages[n]) \in Content
    BY <2>2, RedactedIs DEF Content
  <2>5. new \in Seq(Content) /\ Len(new) = L
    BY <2>1, <2>4, ExceptSeq
  <2>6. \A i \in 1..L : new[i] = IF i = n THEN Redacted(messages[n]) ELSE messages[i]
    BY <1>0
  <2> HIDE DEF new
  <2> QED
    BY <2>1, <2>3, <2>5, <2>6
<1> QED
  BY <1>1, <1>2

(* RedactAll takes the entries one by one. *)
LEMMA RedactAllTrace ==
  ASSUME NEW messages \in Seq(Content), NEW redactions \in Seq(Nat \ {0})
  PROVE  \E f : /\ f[0] = messages
                /\ \A n \in 0..Len(redactions) : f[n] \in Seq(Content)
                /\ \A n \in 1..Len(redactions) : f[n] = RedactMessage(f[n - 1], redactions[n])
                /\ f[Len(redactions)] = RedactAll(messages, redactions)
<1> DEFINE L == Len(redactions)
           V == Seq(Content)
           none == messages
           step == [n \in 1..L |-> [v \in V |-> RedactMessage(v, redactions[n])]]
           body(it) == [t \in SUBSET (1..L) |-> IF t = {} THEN none
                          ELSE RedactMessage(it[t \ {Max(t)}], redactions[Max(t)])]
           c == CHOOSE it : it = body(it)
<1>1. L \in Nat /\ DOMAIN redactions = 1..L
  BY LenProperties
<1>2. RedactAll(messages, redactions) = c[1..L]
  BY <1>1 DEF RedactAll, FoldLeft, MapThenFoldSet
<1>3. ASSUME NEW n \in 1..L, NEW v \in V
      PROVE  RedactMessage(v, redactions[n]) \in V
  <2>1. redactions[n] \in Nat \ {0}
    BY <1>1
  <2> QED
    BY <2>1, RedactMessageIs
<1>4. Closed(step, L, V) /\ none \in V
  BY <1>3 DEF Closed
<1>5. PICK g : Solves(g, step, L, V, none)
  <2> HIDE DEF L, V, none, step
  <2> QED
    BY <1>1, <1>4, FoldExists
<1>6. \A t \in SUBSET (1..L) : t # {} => Max(t) \in 1..L /\ t \ {Max(t)} \in SUBSET (1..L)
  BY <1>1, MaxOfSome
<1> HIDE DEF V, none
<1>7. c = body(c)
  <2>1. ASSUME NEW t \in SUBSET (1..L)
        PROVE  g[t] = body(g)[t]
    <3>1. CASE t = {}
      BY <1>5, <3>1 DEF Solves
    <3>2. CASE t # {}
      <4>1. Max(t) \in 1..L /\ t \ {Max(t)} \in SUBSET (1..L)
        BY <1>6, <3>2
      <4>2. g[t] = step[Max(t)][g[t \ {Max(t)}]] /\ g[t \ {Max(t)}] \in V
        BY <1>5, <3>2, <4>1 DEF Solves
      <4> QED
        BY <3>2, <4>1, <4>2
    <3> QED
      BY <3>1, <3>2
  <2>2. g = body(g)
    BY <1>5, <2>1 DEF Solves
  <2> HIDE DEF body
  <2> QED
    BY <2>2
<1>8. StepsAs(c, step, L, V, none)
  <2> HIDE DEF c
  <2> QED
    BY <1>6, <1>7 DEF StepsAs
<1>9. PICK f : Traces(f, step, L, V, none) /\ f[L] = c[1..L]
  <2> HIDE DEF L, c, step
  <2> QED
    BY <1>1, <1>4, <1>8, FoldTrace
<1>10. \A n \in 1..L : f[n] = RedactMessage(f[n - 1], redactions[n])
  <2> TAKE n \in 1..L
  <2>1. n - 1 \in 0..L
    BY <1>1
  <2>2. f[n - 1] \in V /\ f[n] = step[n][f[n - 1]]
    BY <1>9, <2>1 DEF Traces
  <2> QED
    BY <2>2
<1>11. f[0] = none /\ (\A n \in 0..L : f[n] \in V) /\ f[L] = RedactAll(messages, redactions)
  <2> HIDE DEF c, step
  <2> QED
    BY <1>2, <1>9 DEF Traces
<1> QED
  BY <1>10, <1>11 DEF V, none

(* After the redactions: every message that is no text is as it was, and   *)
(* every text is as it was or redacted, and redacted if an entry is its.   *)
Treated(new, old) == new = old \/ new \in Seq(Clean)

(* Messages that are in order are redacted once, or again, each as its     *)
(* text says: those that the redactions name hold nothing to redact.       *)
LEMMA RedactAllIs ==
  ASSUME NEW messages \in Seq(Content), NEW redactions \in Seq(Nat \ {0}),
         \A i \in DOMAIN messages : ~Unsorted(messages[i])
  PROVE  /\ RedactAll(messages, redactions) \in Seq(Content)
         /\ Len(RedactAll(messages, redactions)) = Len(messages)
         /\ \A i \in 1..Len(messages) :
              IF messages[i] = Parts THEN RedactAll(messages, redactions)[i] = Parts
              ELSE /\ Treated(RedactAll(messages, redactions)[i], messages[i])
                   /\ i \in ToSet(redactions)
                        => RedactAll(messages, redactions)[i] \in Seq(Clean)
<1> DEFINE L == Len(redactions)
           N == Len(messages)
<1>0. /\ L \in Nat /\ DOMAIN redactions = 1..L
      /\ N \in Nat /\ DOMAIN messages = 1..N
  BY LenProperties
<1>1. PICK f : /\ f[0] = messages
               /\ \A n \in 0..L : f[n] \in Seq(Content)
               /\ \A n \in 1..L : f[n] = RedactMessage(f[n - 1], redactions[n])
               /\ f[L] = RedactAll(messages, redactions)
  BY RedactAllTrace
<1>2. \A n \in 1..L : redactions[n] \in Nat \ {0}
  BY <1>0
<1> DEFINE Right(n, i) ==
             IF messages[i] = Parts THEN f[n][i] = Parts
             ELSE /\ Treated(f[n][i], messages[i])
                  /\ (\E k \in 1..n : redactions[k] = i) => f[n][i] \in Seq(Clean)
           T == {n \in 0..L : Len(f[n]) = N /\ \A i \in 1..N : Right(n, i)}
<1>3. 0 \in T
  <2>1. 0 \in 0..L /\ Len(f[0]) = N
    BY <1>0, <1>1
  <2>2. \A i \in 1..N : Right(0, i)
    BY <1>1 DEF Treated
  <2> HIDE DEF Right
  <2> QED
    BY <2>1, <2>2
<1>4. ASSUME NEW n \in 1..L, n - 1 \in T PROVE n \in T
  <2> DEFINE old == f[n - 1]
             new == f[n]
             r == redactions[n]
  <2>1. /\ old \in Seq(Content) /\ Len(old) = N /\ \A i \in 1..N : Right(n - 1, i)
        /\ new = RedactMessage(old, r) /\ n \in 0..L /\ n \in Nat
        /\ r \in Nat \ {0}
    BY <1>0, <1>1, <1>2, <1>4
  <2>2. /\ Len(new) = N
        /\ \A i \in 1..N : new[i] = IF i = r /\ old[i] # Parts THEN Redacted(old[i]) ELSE old[i]
    <3> HIDE DEF old, new, r
    <3> QED
      BY <2>1, RedactMessageIs
  <2>3. ASSUME NEW i \in 1..N PROVE Right(n, i)
    <3>0. i \in DOMAIN old
      BY <1>0, <2>1, LenProperties
    <3>1. CASE messages[i] = Parts
      <4>1. old[i] = Parts
        BY <2>1, <3>1
      <4> QED
        BY <2>2, <3>1, <4>1
    <3>2. CASE messages[i] # Parts
      <4>1. /\ Treated(old[i], messages[i])
            /\ (\E k \in 1..(n - 1) : redactions[k] = i) => old[i] \in Seq(Clean)
        BY <2>1, <3>2
      <4>2. messages[i] \in Seq(Unit) /\ ~Unsorted(messages[i])
        BY <1>0, <3>2, ElementsIn DEF Content, ToSet
      <4>3. old[i] \in Seq(Unit) /\ ~Unsorted(old[i])
        BY <4>1, <4>2, CleanIsSorted DEF Treated
      <4>4. old[i] # Parts
        BY <4>3, PartsAreNoText
      <4>5. CASE i = r
        <5>1. new[i] = Redacted(old[i])
          BY <2>2, <4>4, <4>5
        <5>2. new[i] \in Seq(Clean)
          BY <4>3, <5>1, RedactedIs
        <5> QED
          BY <3>2, <5>2 DEF Treated
      <4>6. CASE i # r
        <5>1. new[i] = old[i]
          BY <2>2, <4>6
        <5>2. \A k \in 1..n : redactions[k] = i => k \in 1..(n - 1)
          BY <2>1, <4>6
        <5>3. (\E k \in 1..n : redactions[k] = i) => new[i] \in Seq(Clean)
          BY <4>1, <5>1, <5>2
        <5>4. Treated(new[i], messages[i])
          BY <4>1, <5>1
        <5> QED
          BY <3>2, <5>3, <5>4
      <4> QED
        BY <4>5, <4>6
    <3> QED
      BY <3>1, <3>2
  <2> HIDE DEF Right
  <2> QED
    BY <2>1, <2>2, <2>3
<1>5. L \in T
  <2> HIDE DEF T
  <2>1. \A n \in 1..L : n - 1 \in T => n \in T
    BY <1>4
  <2> HIDE DEF L
  <2>2. \A n \in 0..L : n \in T
    BY <1>0, <1>3, <2>1, UpTo
  <2> QED
    BY <1>0, <2>2
<1> DEFINE out == RedactAll(messages, redactions)
<1>6. out \in Seq(Content) /\ Len(out) = N /\ \A i \in 1..N : Right(L, i)
  BY <1>0, <1>1, <1>5
<1>7. \A i \in ToSet(redactions) : \E k \in 1..L : redactions[k] = i
  BY <1>0 DEF ToSet
<1>8. ASSUME NEW i \in 1..N
      PROVE  IF messages[i] = Parts THEN out[i] = Parts
             ELSE Treated(out[i], messages[i]) /\ (i \in ToSet(redactions) => out[i] \in Seq(Clean))
  <2>1. Right(L, i) /\ out = f[L]
    BY <1>1, <1>6
  <2> QED
    BY <1>7, <2>1
<1> QED
  BY <1>6, <1>8

(* Redaction changes neither the number of messages nor what is not text. *)
LEMMA RedactAllShape ==
  ASSUME NEW messages \in Seq(Content), NEW redactions \in Seq(Nat \ {0})
  PROVE  /\ RedactAll(messages, redactions) \in Seq(Content)
         /\ Len(RedactAll(messages, redactions)) = Len(messages)
<1> DEFINE L == Len(redactions)
           N == Len(messages)
<1>0. L \in Nat /\ DOMAIN redactions = 1..L
  BY LenProperties
<1>1. PICK f : /\ f[0] = messages
               /\ \A n \in 0..L : f[n] \in Seq(Content)
               /\ \A n \in 1..L : f[n] = RedactMessage(f[n - 1], redactions[n])
               /\ f[L] = RedactAll(messages, redactions)
  BY RedactAllTrace
<1> DEFINE T == {n \in 0..L : Len(f[n]) = N}
<1>2. 0 \in T
  BY <1>0, <1>1
<1>3. ASSUME NEW n \in 1..L, n - 1 \in T PROVE n \in T
  <2>1. /\ f[n - 1] \in Seq(Content) /\ Len(f[n - 1]) = N /\ redactions[n] \in Nat \ {0}
        /\ f[n] = RedactMessage(f[n - 1], redactions[n]) /\ n \in 0..L
    BY <1>0, <1>1, <1>3
  <2>2. Len(f[n]) = N
    BY <2>1, RedactMessageIs
  <2> QED
    BY <2>1, <2>2
<1>4. L \in T
  <2> HIDE DEF T
  <2>1. \A n \in 1..L : n - 1 \in T => n \in T
    BY <1>3
  <2> HIDE DEF L
  <2>2. \A n \in 0..L : n \in T
    BY <1>0, <1>2, <2>1, UpTo
  <2> QED
    BY <1>0, <2>2
<1> QED
  BY <1>0, <1>1, <1>4

(* Without an entry nothing changes. *)
LEMMA RedactNone ==
  ASSUME NEW messages \in Seq(Content)
  PROVE  RedactAll(messages, <<>>) = messages
<1> DEFINE none == <<>>
<1>1. none \in Seq(Nat \ {0}) /\ Len(none) = 0
  OBVIOUS
<1> HIDE DEF none
<1>2. PICK f : /\ f[0] = messages
               /\ \A n \in 0..Len(none) : f[n] \in Seq(Content)
               /\ \A n \in 1..Len(none) : f[n] = RedactMessage(f[n - 1], none[n])
               /\ f[Len(none)] = RedactAll(messages, none)
  BY <1>1, RedactAllTrace
<1> QED
  BY <1>1, <1>2 DEF none

(* The texts of some messages: those of them that are texts, and the first *)
(* ones if what is no text comes last.                                     *)
LEMMA TextsAre ==
  ASSUME NEW messages \in Seq(Content)
  PROVE  /\ Texts(messages) \in Seq(Seq(Unit)) /\ Len(Texts(messages)) <= Len(messages)
         /\ ToSet(Texts(messages)) = ToSet(messages) \ {Parts}
         /\ ~Misnumbered(messages) =>
              \A i \in DOMAIN messages :
                 IF messages[i] = Parts THEN i \notin DOMAIN Texts(messages)
                 ELSE i \in DOMAIN Texts(messages) /\ Texts(messages)[i] = messages[i]
<1> DEFINE L == Len(messages)
<1>0. L \in Nat /\ DOMAIN messages = 1..L
  BY LenProperties
<1>1. PICK f : /\ f[0] = <<>>
               /\ \A n \in 0..L : f[n] \in Seq(Seq(Unit))
               /\ \A n \in 1..L : f[n] = TextAdded(f[n - 1], messages[n])
               /\ f[L] = Texts(messages)
  BY TextsTrace DEF Content
<1>a. \A n \in 1..L : messages[n] \in Content
  BY <1>0
<1> DEFINE seen(n) == {messages[i] : i \in 1..n}
           Numbered(n) == \A i \in 1..n :
                             IF messages[i] = Parts THEN i > Len(f[n])
                             ELSE i <= Len(f[n]) /\ f[n][i] = messages[i]
           T == {n \in 0..L : /\ Len(f[n]) <= n
                              /\ ToSet(f[n]) = seen(n) \ {Parts}
                              /\ ~Misnumbered(messages) => Numbered(n)}
<1>2. 0 \in T
  <2>1. Len(f[0]) = 0 /\ ToSet(f[0]) = {} /\ seen(0) = {} /\ Numbered(0) /\ 0 \in 0..L
    BY <1>0, <1>1 DEF ToSet
  <2> HIDE DEF seen, Numbered
  <2> QED
    BY <2>1
<1>3. ASSUME NEW n \in 1..L, n - 1 \in T PROVE n \in T
  <2> DEFINE old == f[n - 1]
             m == messages[n]
  <2>1. /\ old \in Seq(Seq(Unit)) /\ f[n] = TextAdded(old, m)
        /\ n \in Nat /\ n > 0 /\ n \in 0..L /\ n - 1 \in Nat
    BY <1>0, <1>1
  <2>2. /\ Len(old) <= n - 1 /\ ToSet(old) = seen(n - 1) \ {Parts}
        /\ ~Misnumbered(messages) => Numbered(n - 1)
    BY <1>3
  <2>3. Len(old) \in Nat
    BY <2>1, LenProperties
  <2>4. seen(n) = seen(n - 1) \cup {m}
    <3>1. 1..n = (1..(n - 1)) \cup {n}
      BY <2>1
    <3> QED
      BY <3>1
  <2>5. CASE m = Parts
    <3>1. f[n] = old
      BY <2>1, <2>5 DEF TextAdded
    <3>2. Len(f[n]) <= n
      BY <2>1, <2>2, <2>3, <3>1
    <3>3. ToSet(f[n]) = seen(n) \ {Parts}
      <4> HIDE DEF seen
      <4> QED
        BY <2>2, <2>4, <2>5, <3>1
    <3>4. ASSUME ~Misnumbered(messages) PROVE Numbered(n)
      <4> TAKE i \in 1..n
      <4>1. CASE i = n
        BY <2>1, <2>2, <2>3, <2>5, <3>1, <4>1
      <4>2. CASE i # n
        <5>1. i \in 1..(n - 1)
          BY <2>1, <4>2
        <5> QED
          BY <2>2, <3>1, <3>4, <5>1
      <4> QED
        BY <4>1, <4>2
    <3> HIDE DEF seen, Numbered
    <3> QED
      BY <2>1, <3>2, <3>3, <3>4
  <2>6. CASE m # Parts
    <3>0. m \in Seq(Unit)
      BY <1>a, <2>6 DEF Content
    <3>1. f[n] = Append(old, m)
      BY <2>1, <2>6 DEF TextAdded
    <3>2. /\ Len(f[n]) = Len(old) + 1 /\ f[n][Len(old) + 1] = m
          /\ \A i \in 1..Len(old) : f[n][i] = old[i]
      BY <2>1, <3>0, <3>1, AppendProperties
    <3>3. ToSet(f[n]) = seen(n) \ {Parts}
      <4>1. ToSet(f[n]) = ToSet(old) \cup {m}
        BY <2>1, <3>0, <3>1, ElementsAppend
      <4> HIDE DEF seen
      <4> QED
        BY <2>2, <2>4, <2>6, <4>1
    <3>4. ASSUME ~Misnumbered(messages) PROVE Numbered(n)
      <4>1. \A i \in 1..(n - 1) : messages[i] # Parts
        <5> TAKE i \in 1..(n - 1)
        <5>1. i \in DOMAIN messages /\ n \in DOMAIN messages /\ i < n
          BY <1>0, <2>1
        <5> QED
          BY <2>6, <3>4, <5>1 DEF Misnumbered
      <4>2. \A i \in 1..(n - 1) : i <= Len(old) /\ old[i] = messages[i]
        BY <2>2, <3>4, <4>1
      <4>3. Len(old) = n - 1
        <5>1. n - 1 = 0 \/ n - 1 \in 1..(n - 1)
          BY <2>1
        <5> HIDE DEF old
        <5>2. n - 1 <= Len(old)
          BY <2>1, <2>3, <4>2, <5>1
        <5> QED
          BY <2>1, <2>2, <2>3, <5>2
      <4> TAKE i \in 1..n
      <4>4. CASE i = n
        <5>1. Len(old) + 1 = n
          BY <2>1, <4>3
        <5>2. Len(f[n]) = n /\ f[n][n] = m
          BY <3>2, <5>1
        <5> QED
          BY <2>1, <2>6, <4>4, <5>2
      <4>5. CASE i # n
        <5>1. i \in 1..(n - 1) /\ i \in 1..Len(old)
          BY <2>1, <4>3, <4>5
        <5>2. i <= Len(f[n])
          BY <2>3, <3>2, <5>1
        <5> QED
          BY <3>2, <4>1, <4>2, <5>1, <5>2
      <4> QED
        BY <4>4, <4>5
    <3>5. Len(f[n]) <= n
      BY <2>1, <2>2, <2>3, <3>2
    <3> HIDE DEF seen, Numbered
    <3> QED
      BY <2>1, <3>3, <3>4, <3>5
  <2> QED
    BY <2>5, <2>6
<1>4. L \in T
  <2> HIDE DEF T
  <2>1. \A n \in 1..L : n - 1 \in T => n \in T
    BY <1>3
  <2> HIDE DEF L
  <2>2. \A n \in 0..L : n \in T
    BY <1>0, <1>2, <2>1, UpTo
  <2> QED
    BY <1>0, <2>2
<1> DEFINE texts == Texts(messages)
<1>5. /\ texts \in Seq(Seq(Unit)) /\ Len(texts) <= L /\ ToSet(texts) = seen(L) \ {Parts}
      /\ DOMAIN texts = 1..Len(texts) /\ Len(texts) \in Nat
  <2>1. texts \in Seq(Seq(Unit)) /\ f[L] = texts
    BY <1>0, <1>1
  <2> QED
    BY <1>4, <2>1, LenProperties
<1>6. seen(L) = ToSet(messages)
  BY <1>0 DEF ToSet
<1>7. ASSUME ~Misnumbered(messages), NEW i \in DOMAIN messages
      PROVE  IF messages[i] = Parts THEN i \notin DOMAIN texts
             ELSE i \in DOMAIN texts /\ texts[i] = messages[i]
  <2>1. IF messages[i] = Parts THEN i > Len(texts)
        ELSE i <= Len(texts) /\ texts[i] = messages[i]
    BY <1>0, <1>1, <1>4, <1>7
  <2> QED
    BY <1>0, <1>5, <2>1
<1> HIDE DEF seen, texts
<1> QED
  BY <1>5, <1>6, <1>7 DEF texts

(***************************************************************************)
(* The rules.                                                              *)
(***************************************************************************)

Redactable == {"pii", "secret", "mark"}

(* There is an entry for a text if one of the rules that redact detects    *)
(* something in it.                                                        *)
LEMMA RedactionsAre ==
  ASSUME NEW texts \in Seq(Seq(Unit)), NEW s
  PROVE  /\ SystemRedactions(texts, s) \in Seq(DOMAIN texts)
         /\ ToSet(SystemRedactions(texts, s)) =
              {i \in DOMAIN texts : \E c \in Redactable :
                                       s[c] = "redact" /\ Detected(texts[i], c)}
<1> DEFINE L == Len(texts)
           Redacts(i, c) == s[c] = "redact" /\ Detected(texts[i], c)
           Entry(i, c) == IF Redacts(i, c) THEN <<i>> ELSE <<>>
           ss == [i \in DOMAIN texts |-> Entry(i, "pii") \o Entry(i, "secret") \o Entry(i, "mark")]
           D == DOMAIN texts
<1>0. L \in Nat /\ D = 1..L /\ (L = 0 => texts = <<>>)
  BY LenProperties, EmptySeq
<1>1. SystemRedactions(texts, s) = FlattenSeq(ss)
  BY DEF SystemRedactions
<1>2. ASSUME NEW i \in D, NEW c \in Redactable
      PROVE  /\ Entry(i, c) \in Seq(D)
             /\ ToSet(Entry(i, c)) = IF Redacts(i, c) THEN {i} ELSE {}
  <2> HIDE DEF D, Redacts
  <2>1. <<i>> \in Seq(D) /\ <<>> \in Seq(D)
    OBVIOUS
  <2>2. ToSet(<<i>>) = {i} /\ ToSet(<<>>) = {}
    BY DEF ToSet
  <2> QED
    BY <2>1, <2>2
<1> HIDE DEF D, Redacts, Entry
<1>3. ASSUME NEW i \in D
      PROVE  /\ ss[i] \in Seq(D)
             /\ ToSet(ss[i]) = IF \E c \in Redactable : Redacts(i, c) THEN {i} ELSE {}
  <2>1. ss[i] = Entry(i, "pii") \o Entry(i, "secret") \o Entry(i, "mark")
    BY DEF D
  <2>2. "pii" \in Redactable /\ "secret" \in Redactable /\ "mark" \in Redactable
    BY DEF Redactable
  <2>3. /\ Entry(i, "pii") \o Entry(i, "secret") \in Seq(D)
        /\ ToSet(Entry(i, "pii") \o Entry(i, "secret"))
             = ToSet(Entry(i, "pii")) \cup ToSet(Entry(i, "secret"))
    BY <1>2, <2>2, ElementsConcat
  <2>4. /\ ss[i] \in Seq(D)
        /\ ToSet(ss[i]) = ToSet(Entry(i, "pii")) \cup ToSet(Entry(i, "secret"))
                            \cup ToSet(Entry(i, "mark"))
    <3> DEFINE a == Entry(i, "pii") \o Entry(i, "secret")
               b == Entry(i, "mark")
    <3>1. a \in Seq(D) /\ b \in Seq(D) /\ ss[i] = a \o b
      BY <1>2, <2>1, <2>2, <2>3
    <3> HIDE DEF a, b, ss
    <3>2. ss[i] \in Seq(D) /\ ToSet(ss[i]) = ToSet(a) \cup ToSet(b)
      BY <3>1, ElementsConcat
    <3> QED
      BY <2>3, <3>2 DEF a, b
  <2>5. /\ ToSet(Entry(i, "pii")) = IF Redacts(i, "pii") THEN {i} ELSE {}
        /\ ToSet(Entry(i, "secret")) = IF Redacts(i, "secret") THEN {i} ELSE {}
        /\ ToSet(Entry(i, "mark")) = IF Redacts(i, "mark") THEN {i} ELSE {}
    BY <1>2, <2>2
  <2> QED
    BY <2>4, <2>5 DEF Redactable
<1>4. /\ DOMAIN ss = 1..Len(ss) /\ Len(ss) = L /\ Len(ss) \in Nat
      /\ Len(ss) = 0 => ss = <<>>
  <2>1. DOMAIN ss = 1..L
    BY <1>0 DEF D
  <2>2. Len(ss) = L
    BY <1>0, <2>1
  <2>3. L = 0 => ss = <<>>
    <3>1. L = 0 => D = {}
      BY <1>0
    <3> QED
      BY <3>1 DEF D
  <2> QED
    BY <1>0, <2>1, <2>2, <2>3
<1> HIDE DEF ss, L
<1>5. \A i \in 1..Len(ss) : ss[i] \in Seq(D)
  BY <1>0, <1>3, <1>4
<1>6. /\ FlattenSeq(ss) \in Seq(D)
      /\ ToSet(FlattenSeq(ss)) = UNION {ToSet(ss[i]) : i \in 1..Len(ss)}
  BY <1>4, <1>5, ElementsFlat
<1>7. UNION {ToSet(ss[i]) : i \in 1..Len(ss)} = {i \in D : \E c \in Redactable : Redacts(i, c)}
  <2> DEFINE R(i) == \E c \in Redactable : Redacts(i, c)
  <2>1. 1..Len(ss) = D
    BY <1>0, <1>4
  <2>2. \A i \in D : ToSet(ss[i]) = IF R(i) THEN {i} ELSE {}
    BY <1>3
  <2> HIDE DEF R
  <2>3. UNION {ToSet(ss[i]) : i \in D} = {i \in D : R(i)}
    BY <2>2
  <2> QED
    BY <2>1, <2>3 DEF R
<1> QED
  BY <1>1, <1>6, <1>7 DEF D, Redacts

(* A kind is found in the texts of some messages if the messages carry it. *)
LEMMA CarriesIs ==
  ASSUME NEW messages \in Seq(Content), NEW kind
  PROVE  Carries(messages, kind) <=>
           \E i \in DOMAIN Texts(messages) : \E k \in DOMAIN Texts(messages)[i] :
              Finds(kind, Texts(messages)[i][k])
<1>1. ToSet(Texts(messages)) = ToSet(messages) \ {Parts}
  BY TextsAre
<1>2. Carries(messages, kind) <=>
        \E t \in ToSet(messages) \ {Parts} : \E k \in DOMAIN t : Finds(kind, t[k])
  BY DEF Carries, ToSet
<1>3. (\E t \in ToSet(Texts(messages)) : \E k \in DOMAIN t : Finds(kind, t[k])) <=>
        \E i \in DOMAIN Texts(messages) : \E k \in DOMAIN Texts(messages)[i] :
              Finds(kind, Texts(messages)[i][k])
  BY DEF ToSet
<1> QED
  BY <1>1, <1>2, <1>3

(* The system rules fire for what the messages carry.                      *)
LEMMA SystemViolationsAre ==
  ASSUME NEW messages \in Seq(Content), NEW s
  PROVE  SystemViolations(Texts(messages), s) =
           {Violation(c, s[c]) : c \in {d \in Category : s[d] # "off" /\ Carries(messages, d)}}
<1> DEFINE texts == Texts(messages)
<1>1. texts \in Seq(Seq(Unit))
  BY TextsAre
<1>2. ASSUME NEW d \in Category
      PROVE  (\E i \in DOMAIN texts : Detected(texts[i], d)) <=> Carries(messages, d)
  <2>1. \A i \in DOMAIN texts : texts[i] \in Seq(Unit)
    BY <1>1
  <2> HIDE DEF texts
  <2>2. \A i \in DOMAIN texts :
          Detected(texts[i], d) <=> \E k \in DOMAIN texts[i] : Finds(d, texts[i][k])
    BY <2>1, DetectedIs
  <2> QED
    BY <2>2, CarriesIs DEF texts
<1>3. {d \in Category : s[d] # "off" /\ \E i \in DOMAIN texts : Detected(texts[i], d)}
        = {d \in Category : s[d] # "off" /\ Carries(messages, d)}
  BY <1>2
<1> QED
  BY <1>3 DEF SystemViolations

(* The custom rules, likewise. *)
LEMMA PatternOccurs ==
  ASSUME NEW messages \in Seq(Content), NEW p \in Pattern
  PROVE  (\E i \in DOMAIN Texts(messages) : CheckPattern(Texts(messages)[i], p))
            <=> Carries(messages, p)
<1>1. \A u : Finds(p, u) <=> u = p
  BY DEF Finds, Pattern
<1> QED
  BY <1>1, CarriesIs DEF CheckPattern

(* What a request that is to be redacted is forwarded as.                  *)
LEMMA RedactionIs ==
  ASSUME NEW messages \in Seq(Content), NEW s, NEW kind \in {"pii", "secret"},
         s[kind] = "redact", ~Misnumbered(messages),
         \A i \in DOMAIN messages : ~Unsorted(messages[i])
  PROVE  ~Carries(RedactAll(messages, SystemRedactions(Texts(messages), s)), kind)
<1> DEFINE texts == Texts(messages)
           redactions == SystemRedactions(texts, s)
           out == RedactAll(messages, redactions)
<1>0. Len(messages) \in Nat /\ DOMAIN messages = 1..Len(messages)
  BY LenProperties
<1>1. texts \in Seq(Seq(Unit)) /\ DOMAIN texts = 1..Len(texts) /\ Len(texts) \in Nat
  BY TextsAre, LenProperties
<1>2. /\ redactions \in Seq(Nat \ {0})
      /\ ToSet(redactions) = {i \in DOMAIN texts : \E c \in Redactable :
                                       s[c] = "redact" /\ Detected(texts[i], c)}
  <2>1. redactions \in Seq(DOMAIN texts)
    BY <1>1, RedactionsAre
  <2>2. DOMAIN texts \subseteq Nat \ {0}
    BY <1>1
  <2>3. redactions \in Seq(Nat \ {0})
    <3> HIDE DEF redactions, texts
    <3> QED
      BY <2>1, <2>2
  <2> QED
    BY <1>1, <2>3, RedactionsAre
<1>3. \A i \in DOMAIN messages :
        IF messages[i] = Parts THEN i \notin DOMAIN texts
        ELSE i \in DOMAIN texts /\ texts[i] = messages[i]
  BY TextsAre
<1> HIDE DEF texts, redactions
<1>4. /\ out \in Seq(Content) /\ Len(out) = Len(messages)
      /\ \A i \in 1..Len(messages) :
              IF messages[i] = Parts THEN out[i] = Parts
              ELSE /\ Treated(out[i], messages[i])
                   /\ i \in ToSet(redactions) => out[i] \in Seq(Clean)
  BY <1>2, RedactAllIs
<1> HIDE DEF out
<1> SUFFICES ASSUME NEW i \in DOMAIN out, out[i] # Parts,
                    NEW k \in DOMAIN out[i], Finds(kind, out[i][k])
             PROVE  FALSE
  BY DEF Carries, out, redactions, texts
<1>5. i \in 1..Len(messages) /\ messages[i] # Parts
  BY <1>4, LenProperties
<1>6. out[i] \notin Seq(Clean)
  <2>1. ASSUME out[i] \in Seq(Clean) PROVE FALSE
    <3>1. out[i][k] \in Clean
      BY <2>1, ElementsIn
    <3> QED
      BY <3>1 DEF Clean
  <2> QED
    BY <2>1
<1>7. out[i] = messages[i] /\ i \notin ToSet(redactions)
  BY <1>4, <1>5, <1>6 DEF Treated
<1>8. i \in DOMAIN texts /\ texts[i] = out[i]
  BY <1>0, <1>3, <1>5, <1>7
<1>9. Detected(texts[i], kind)
  <2>1. texts[i] \in Seq(Unit) /\ kind \in Category
    BY <1>1, <1>8 DEF Category
  <2> QED
    BY <1>8, <2>1, DetectedIs
<1> QED
  BY <1>2, <1>7, <1>8, <1>9 DEF Redactable

(***************************************************************************)
(* The inductive invariant.                                                *)
(***************************************************************************)

ConfigRow == [id : 1..clock, enabled : {"yes", "no"}, sys : Setting]

ConfigEdit == [op : {"config"}, cmd : Commands, row : ConfigRow, blind : BOOLEAN]
RuleEdit   == [op : {"rule"}, id : Rule, row : RuleRow]

Violations == [rule : Category \cup Pattern, action : Action]

TablesTyped ==
    /\ clock \in Nat /\ configs \subseteq ConfigRow
    /\ rules \in [Rule -> RuleRow \cup {Unborn, Deleted}]
    /\ admin \in [Admin -> {NoEdit} \cup ConfigEdit \cup RuleEdit]
    /\ writes \in 0..MaxWrites /\ faults \in 0..MaxFaults

RequestsTyped ==
    /\ pc \in [Request -> {"idle", "config", "rules", "passed", "refused"}]
    /\ ep \in [Request -> Endpoint]
    /\ msgs \in [Request -> Seq(Content)] /\ sent \in [Request -> Seq(Content)]
    /\ setting \in [Request -> Setting]
    /\ fired \in [Request -> SUBSET Violations]
    /\ redact \in [Request -> Seq(Nat \ {0})]
    /\ DOMAIN logs = Request /\ DOMAIN logged = Request
    /\ DOMAIN always = Request /\ DOMAIN ever = Request

(* The rows of the configuration differ in their ids.                      *)
UniqueIds == \A p, q \in configs : p.id = q.id => p = q

(* Unless excused, there is at most one row, which is what the updates add *)
(* up to, and every edit that read the table is of that row.               *)
RowKept ==
    \/ configs = {} /\ promise = [enabled |-> "yes", sys |-> DefaultSystemRules]
    \/ \E row \in configs : /\ configs = {row}
                            /\ promise = [enabled |-> row.enabled, sys |-> row.sys]

EditKept(e, rows) ==
    e.op = "config" /\ ~e.blind =>
        IF rows = {} THEN e.row = FirstConfig(e.row.id) ELSE rows = {e.row}

ConfigKept == ~excused => RowKept /\ \A a \in Admin : EditKept(admin[a], configs)

(* What a request is, has caused and is forwarded as, by what it does.     *)
Unchecked(r) == /\ fired[r] = {} /\ logs[r] = {} /\ logged[r] = {}
                /\ redact[r] = <<>> /\ msgs[r] = sent[r]

BySystem(r) == SystemViolations(Texts(sent[r]), setting[r])

Checked(r) == /\ redact[r] = SystemRedactions(Texts(sent[r]), setting[r])
              /\ BySystem(r) \subseteq fired[r]
              /\ \A v \in fired[r] : v \in BySystem(r) \/ v.rule \in Pattern

Forwarded(r) == IF ep[r] = "chat" THEN RedactAll(sent[r], redact[r]) ELSE sent[r]

Phase(r) ==
    /\ pc[r] \in {"idle", "config"} => Unchecked(r)
    /\ pc[r] = "rules" => /\ logs[r] = {} /\ logged[r] = {} /\ msgs[r] = sent[r]
                          /\ Checked(r) /\ fired[r] = BySystem(r)
    /\ pc[r] = "refused" => Blocking(fired[r]) /\ Checked(r) /\ msgs[r] = sent[r]
    /\ pc[r] = "passed" => /\ ~Blocking(fired[r])
                           /\ \/ fired[r] = {} /\ redact[r] = <<>> /\ msgs[r] = sent[r]
                              \/ Checked(r) /\ msgs[r] = Forwarded(r)

(* The row of a violation in the log.                                      *)
LogRow(v) == [rule |-> v.rule, taken |-> Taken(v.action)]

LogKept(r) ==
    /\ logs[r] \subseteq fired[r]
    /\ \A v \in logged[r] : \E u \in fired[r] : v = LogRow(u)
    /\ pc[r] \in {"passed", "refused"} =>
         \A u \in fired[r] : u \in logs[r] \/ LogRow(u) \in logged[r] \/ r \in broken

(* What was read of the configuration was in force during the check.       *)
Met(r, kinds) == \E k \in kinds \ {"enabled"} : Carries(sent[r], k)

Witnessed(r) ==
    /\ Checking(r) => /\ always[r] \subseteq InForce(configs, rules)
                      /\ InForce(configs, rules) \subseteq ever[r]
    /\ pc[r] = "rules" =>
         /\ "enabled" \in ever[r]
         /\ \A c \in Category : /\ setting[r][c] = "block" => c \in ever[r]
                                /\ c \in always[r] => setting[r][c] = "block"
    /\ pc[r] = "passed" /\ r \notin broken => ~("enabled" \in always[r] /\ Met(r, always[r]))
    /\ pc[r] = "refused" => "enabled" \in ever[r] /\ Met(r, ever[r])

Inv == /\ TablesTyped /\ RequestsTyped /\ UniqueIds /\ ConfigKept
       /\ \A r \in Request : Phase(r) /\ LogKept(r) /\ Witnessed(r)

(***************************************************************************)
(* The tables.                                                             *)
(***************************************************************************)

(* The configuration that is read is a row of the table. *)
LEMMA ConfigIs ==
  ASSUME TablesTyped, configs # {}
  PROVE  Config \in configs /\ Config \in ConfigRow /\ Config.sys \in Setting
<1> DEFINE ids == {q.id : q \in configs}
<1>1. \A q \in configs : q \in ConfigRow /\ q.id \in Nat
  BY DEF TablesTyped, ConfigRow
<1>2. ids \subseteq Nat /\ ids # {}
  BY <1>1
<1> HIDE DEF ids
<1>3. PICK n \in ids : \A m \in ids : n <= m
  BY <1>2, LeastNatural
<1>4. PICK r \in configs : r.id = n
  BY DEF ids
<1>5. \A q \in configs : q.id \in ids
  BY DEF ids
<1>6. \A q \in configs : r.id <= q.id
  BY <1>3, <1>4, <1>5
<1>7. Config \in configs
  BY <1>6 DEF Config
<1> QED
  BY <1>1, <1>7 DEF ConfigRow

(* A table with one row is read as that row. *)
LEMMA ConfigOfOne ==
  ASSUME NEW row, configs = {row}, row \in ConfigRow, clock \in Nat
  PROVE  Config = row
<1>1. row.id <= row.id
  <2>1. row.id \in Nat
    BY DEF ConfigRow
  <2> QED
    BY <2>1
<1> QED
  BY <1>1 DEF Config

(* The default rules are settings. *)
LEMMA DefaultsAreSettings == DefaultSystemRules \in Setting
BY DEF DefaultSystemRules, Setting, Category, Action

(* A row stays one when another is given an id. *)
LEMMA RowsGrow ==
  ASSUME clock \in Nat, clock' \in Nat, clock <= clock'
  PROVE  ConfigRow \subseteq ConfigRow' /\ ConfigEdit \subseteq ConfigEdit'
<1>1. 1..clock \subseteq 1..clock'
  OBVIOUS
<1> QED
  BY <1>1 DEF ConfigRow, ConfigEdit

(* An update overrides the fields it has. *)
LEMMA OverrideIs ==
  ASSUME NEW row \in ConfigRow, NEW cmd \in Commands
  PROVE  /\ Override(row, cmd) \in ConfigRow /\ Override(row, cmd).id = row.id
         /\ Override(row, cmd).enabled
               = IF cmd.enabled = Keep THEN row.enabled ELSE cmd.enabled
         /\ Override(row, cmd).sys = IF cmd.sys = Keep THEN row.sys ELSE cmd.sys
<1> DEFINE on == IF cmd.enabled = Keep THEN row.enabled ELSE cmd.enabled
           s  == IF cmd.sys = Keep THEN row.sys ELSE cmd.sys
<1>1. row = [id |-> row.id, enabled |-> row.enabled, sys |-> row.sys]
      /\ row.id \in 1..clock /\ row.enabled \in {"yes", "no"} /\ row.sys \in Setting
  BY DEF ConfigRow
<1>2. cmd.enabled \in {"yes", "no", Keep} /\ cmd.sys \in Setting \cup {Keep}
  BY GuardrailAssumption
<1>3. on \in {"yes", "no"} /\ s \in Setting
  BY <1>1, <1>2
<1>4. Override(row, cmd) = [row EXCEPT !.enabled = on, !.sys = s]
  BY DEF Override
<1> HIDE DEF on, s
<1>5. Override(row, cmd) = [id |-> row.id, enabled |-> on, sys |-> s]
  BY <1>1, <1>4
<1> QED
  BY <1>1, <1>3, <1>5 DEF ConfigRow, on, s

(* The tables are empty at first, and nothing was promised. *)
LEMMA InitTables ==
  ASSUME Init
  PROVE  TablesTyped /\ UniqueIds /\ ConfigKept
<1>1. TablesTyped
  BY GuardrailAssumption DEF Init, TablesTyped
<1>2. UniqueIds /\ RowKept
  BY DEF Init, UniqueIds, RowKept
<1>3. \A a \in Admin : EditKept(admin[a], configs)
  BY DEF Init, EditKept, NoEdit
<1> QED
  BY <1>1, <1>2, <1>3 DEF ConfigKept

(* No more queries fail than MaxFaults. *)
LEMMA FaultCounts ==
  ASSUME TablesTyped, Fault
  PROVE  faults' \in 0..MaxFaults
BY GuardrailAssumption DEF TablesTyped, Fault

(* Administrators call no more often than MaxWrites. *)
LEMMA CallCounts ==
  ASSUME TablesTyped, Call
  PROVE  writes' \in 0..MaxWrites
BY GuardrailAssumption DEF TablesTyped, Call

(* The edits change one by one. *)
LEMMA EditIs ==
  ASSUME TablesTyped, NEW a \in Admin, NEW e, Edit(a, e)
  PROVE  \A b \in Admin : admin'[b] = IF b = a THEN e ELSE admin[b]
BY DEF Edit, Set, TablesTyped

(* UpsertConfig reads the row, or makes up a new one with a new id. *)
LEMMA StartUpsertTables ==
  ASSUME TablesTyped, UniqueIds, ConfigKept, NEW a \in Admin, StartUpsert(a)
  PROVE  TablesTyped' /\ UniqueIds' /\ ConfigKept'
<1>0. /\ clock \in Nat /\ UNCHANGED <<configs, rules, excused, promise>>
      /\ writes' \in 0..MaxWrites
  BY CallCounts DEF StartUpsert, TablesTyped, history
<1>1. PICK cmd \in Commands :
        \/ /\ configs # {}
           /\ Edit(a, [op |-> "config", cmd |-> cmd, row |-> Config, blind |-> FALSE])
           /\ UNCHANGED <<clock, faults>>
        \/ /\ \/ configs = {} /\ UNCHANGED faults
              \/ configs # {} /\ Fault
           /\ clock' = clock + 1
           /\ Edit(a, [op |-> "config", cmd |-> cmd, row |-> FirstConfig(clock + 1),
                       blind |-> configs # {}])
  BY DEF StartUpsert
<1>2. faults' \in 0..MaxFaults /\ clock' \in Nat /\ clock <= clock'
  BY <1>0, <1>1, FaultCounts DEF TablesTyped
<1>3. ConfigRow \subseteq ConfigRow' /\ ConfigEdit \subseteq ConfigEdit'
  BY <1>0, <1>2, RowsGrow
<1>4. PICK e : Edit(a, e) /\ e \in ConfigEdit' /\ (~excused => EditKept(e, configs'))
  <2>1. ASSUME configs # {},
               Edit(a, [op |-> "config", cmd |-> cmd, row |-> Config, blind |-> FALSE])
        PROVE  \E e : Edit(a, e) /\ e \in ConfigEdit' /\ (~excused => EditKept(e, configs'))
    <3> DEFINE e == [op |-> "config", cmd |-> cmd, row |-> Config, blind |-> FALSE]
    <3>1. Config \in ConfigRow
      BY <2>1, ConfigIs
    <3>2. e \in ConfigEdit'
      BY <1>3, <3>1 DEF ConfigEdit
    <3>3. ASSUME ~excused PROVE configs' = {e.row}
      <4>1. PICK row \in configs : configs = {row}
        BY <2>1, <3>3 DEF ConfigKept, RowKept
      <4>2. Config = row
        BY <1>0, <4>1, ConfigOfOne DEF TablesTyped
      <4> QED
        BY <1>0, <4>1, <4>2
    <3>4. ~excused => EditKept(e, configs')
      BY <1>0, <2>1, <3>3 DEF EditKept
    <3>5. Edit(a, e)
      BY <2>1
    <3> HIDE DEF e
    <3> QED
      BY <3>2, <3>4, <3>5
  <2>2. ASSUME clock' = clock + 1,
               Edit(a, [op |-> "config", cmd |-> cmd, row |-> FirstConfig(clock + 1),
                        blind |-> configs # {}])
        PROVE  \E e : Edit(a, e) /\ e \in ConfigEdit' /\ (~excused => EditKept(e, configs'))
    <3> DEFINE e == [op |-> "config", cmd |-> cmd, row |-> FirstConfig(clock + 1),
                     blind |-> configs # {}]
    <3>1. FirstConfig(clock + 1) \in ConfigRow'
      <4>1. clock + 1 \in 1..clock'
        BY <1>0, <2>2
      <4> QED
        BY <4>1, DefaultsAreSettings DEF FirstConfig, ConfigRow
    <3>a. (configs # {}) \in BOOLEAN
      OBVIOUS
    <3>2. e \in ConfigEdit'
      BY <3>1, <3>a DEF ConfigEdit
    <3>3. e.blind \/ (configs' = {} /\ e.row = FirstConfig(e.row.id))
      BY <1>0 DEF FirstConfig
    <3>4. EditKept(e, configs')
      <4> HIDE DEF e
      <4> QED
        BY <3>3 DEF EditKept
    <3>5. Edit(a, e)
      BY <2>2
    <3> HIDE DEF e
    <3> QED
      BY <3>2, <3>4, <3>5
  <2> QED
    BY <1>1, <2>1, <2>2
<1>5. \A b \in Admin : admin'[b] = IF b = a THEN e ELSE admin[b]
  BY <1>4, EditIs
<1>6. admin' \in [Admin -> ({NoEdit} \cup ConfigEdit \cup RuleEdit)']
  <2>1. \A b \in Admin : admin'[b] \in {NoEdit} \cup ConfigEdit' \cup RuleEdit
    BY <1>3, <1>4, <1>5 DEF TablesTyped
  <2>2. admin' = [admin EXCEPT ![a] = e] /\ DOMAIN admin' = Admin
    BY <1>4 DEF Edit, Set, TablesTyped
  <2>3. admin' \in [Admin -> {NoEdit} \cup ConfigEdit' \cup RuleEdit]
    BY <2>1, <2>2 DEF TablesTyped
  <2> QED
    BY <2>3 DEF NoEdit, RuleEdit, RuleRow
<1>7. TablesTyped'
  BY <1>0, <1>2, <1>3, <1>6 DEF TablesTyped
<1>8. UniqueIds'
  BY <1>0 DEF UniqueIds
<1>9. ConfigKept'
  <2> SUFFICES ASSUME ~excused PROVE RowKept' /\ \A b \in Admin : EditKept(admin'[b], configs')
    BY <1>0 DEF ConfigKept
  <2>1. RowKept'
    BY <1>0 DEF ConfigKept, RowKept
  <2>2. ASSUME NEW b \in Admin PROVE EditKept(admin'[b], configs')
    <3>1. CASE b = a
      <4>1. admin'[b] = e
        BY <1>5, <3>1
      <4> QED
        BY <1>4, <4>1 DEF EditKept
    <3>2. CASE b # a
      <4>1. admin'[b] = admin[b] /\ EditKept(admin[b], configs)
        BY <1>5, <3>2 DEF ConfigKept
      <4> QED
        BY <1>0, <4>1 DEF EditKept
    <3> QED
      BY <3>1, <3>2
  <2> QED
    BY <2>1, <2>2
<1> QED
  BY <1>7, <1>8, <1>9

(* UpsertConfig writes its row: it replaces the one that it read, which no *)
(* other update changed meanwhile unless they overlapped.                  *)
LEMMA WriteConfigTables ==
  ASSUME TablesTyped, UniqueIds, ConfigKept, NEW a \in Admin, WriteConfig(a)
  PROVE  TablesTyped' /\ UniqueIds' /\ ConfigKept'
<1> DEFINE e == admin[a]
           row == Override(e.row, e.cmd)
<1>1. /\ e.op = "config" /\ Edit(a, NoEdit)
      /\ UNCHANGED <<clock, rules, writes, faults>>
      /\ configs' = {q \in configs : q.id # row.id} \cup {row}
      /\ promise' = [enabled |-> IF e.cmd.enabled = Keep THEN promise.enabled
                                 ELSE e.cmd.enabled,
                     sys |-> IF e.cmd.sys = Keep THEN promise.sys ELSE e.cmd.sys]
      /\ excused' = (\/ excused \/ e.blind
                     \/ \E b \in Admin \ {a} : admin[b].op = "config")
  BY DEF WriteConfig
<1>2. e.cmd \in Commands /\ e.row \in ConfigRow
  <2>1. e \in {NoEdit} \cup ConfigEdit \cup RuleEdit
    BY DEF TablesTyped
  <2>2. e \in ConfigEdit
    BY <1>1, <2>1 DEF NoEdit, RuleEdit
  <2> HIDE DEF e
  <2> QED
    BY <2>2 DEF ConfigEdit
<1> DEFINE on == IF e.cmd.enabled = Keep THEN e.row.enabled ELSE e.cmd.enabled
           s  == IF e.cmd.sys = Keep THEN e.row.sys ELSE e.cmd.sys
<1>3. row \in ConfigRow /\ row.id = e.row.id /\ row.enabled = on /\ row.sys = s
  <2> HIDE DEF e
  <2> QED
    BY <1>2, OverrideIs
<1>4. \A b \in Admin : admin'[b] = IF b = a THEN NoEdit ELSE admin[b]
  BY <1>1, EditIs
<1> HIDE DEF row
<1>5. configs' \subseteq ConfigRow
  BY <1>1, <1>3 DEF TablesTyped
<1>6. admin' \in [Admin -> {NoEdit} \cup ConfigEdit \cup RuleEdit]
  BY <1>1 DEF Edit, Set, TablesTyped
<1>7. TablesTyped'
  BY <1>1, <1>5, <1>6 DEF TablesTyped, ConfigRow, ConfigEdit, RuleEdit, RuleRow, NoEdit
<1>8. UniqueIds'
  BY <1>1 DEF UniqueIds
<1>9. ConfigKept'
  <2> SUFFICES ASSUME ~excused' PROVE RowKept' /\ \A b \in Admin : EditKept(admin'[b], configs')
    BY DEF ConfigKept
  <2>1. ~excused /\ ~e.blind /\ \A b \in Admin \ {a} : admin[b].op # "config"
    BY <1>1
  <2>2. \A b \in Admin : EditKept(admin'[b], configs')
    <3>1. \A b \in Admin : admin'[b].op # "config"
      BY <1>4, <2>1 DEF NoEdit
    <3> QED
      BY <3>1 DEF EditKept
  <2>3. EditKept(e, configs) /\ RowKept
    BY <2>1 DEF ConfigKept
  <2>4. CASE configs = {}
    <3>1. /\ promise = [enabled |-> "yes", sys |-> DefaultSystemRules]
          /\ e.row = FirstConfig(e.row.id)
      BY <1>1, <2>1, <2>3, <2>4 DEF EditKept, RowKept
    <3>2. e.row.enabled = promise.enabled /\ e.row.sys = promise.sys
      BY <3>1 DEF FirstConfig
    <3>3. promise' = [enabled |-> row.enabled, sys |-> row.sys]
      BY <1>1, <1>3, <3>2
    <3>4. configs' = {row}
      BY <1>1, <2>4
    <3> QED
      BY <2>2, <3>3, <3>4 DEF RowKept
  <2>5. CASE configs # {}
    <3>1. configs = {e.row}
      BY <1>1, <2>1, <2>3, <2>5 DEF EditKept
    <3>2. e.row.enabled = promise.enabled /\ e.row.sys = promise.sys
      BY <2>3, <2>5, <3>1 DEF RowKept
    <3>3. promise' = [enabled |-> row.enabled, sys |-> row.sys]
      BY <1>1, <1>3, <3>2
    <3>4. configs' = {row}
      BY <1>1, <1>3, <3>1
    <3> QED
      BY <2>2, <3>3, <3>4 DEF RowKept
  <2> QED
    BY <2>4, <2>5
<1> QED
  BY <1>7, <1>8, <1>9

(* Every other step leaves the configuration alone, and edits at most one  *)
(* row of a rule.                                                          *)
LEMMA OtherTables ==
  ASSUME TablesTyped, UniqueIds, ConfigKept, UNCHANGED <<configs, clock, promise, excused>>,
         \A b \in Admin : admin'[b] = admin[b] \/ admin'[b] \in {NoEdit} \cup RuleEdit,
         admin' = [b \in Admin |-> admin'[b]],
         rules' \in [Rule -> RuleRow \cup {Unborn, Deleted}],
         writes' \in 0..MaxWrites, faults' \in 0..MaxFaults
  PROVE  TablesTyped' /\ UniqueIds' /\ ConfigKept'
<1>1. \A b \in Admin : admin'[b] \in {NoEdit} \cup ConfigEdit \cup RuleEdit
  BY DEF TablesTyped
<1>2. admin' \in [Admin -> {NoEdit} \cup ConfigEdit \cup RuleEdit]
  BY <1>1
<1>3. TablesTyped'
  BY <1>2 DEF TablesTyped, ConfigRow, ConfigEdit, RuleEdit, RuleRow, NoEdit
<1>4. UniqueIds'
  BY DEF UniqueIds
<1>5. ASSUME ~excused PROVE RowKept' /\ \A b \in Admin : EditKept(admin'[b], configs')
  <2>1. RowKept'
    BY <1>5 DEF ConfigKept, RowKept
  <2>2. ASSUME NEW b \in Admin PROVE EditKept(admin'[b], configs')
    <3>1. CASE admin'[b] = admin[b]
      BY <1>5, <3>1 DEF ConfigKept, EditKept
    <3>2. CASE admin'[b] \in {NoEdit} \cup RuleEdit
      <4>1. admin'[b].op # "config"
        BY <3>2 DEF NoEdit, RuleEdit
      <4> QED
        BY <4>1 DEF EditKept
    <3> QED
      BY <3>1, <3>2
  <2> QED
    BY <2>1, <2>2
<1> QED
  BY <1>3, <1>4, <1>5 DEF ConfigKept

(* CreateRule leaves the configuration alone. *)
LEMMA CreateRuleTables ==
  ASSUME TablesTyped, UniqueIds, ConfigKept, NEW c \in Rule, CreateRule(c)
  PROVE  TablesTyped' /\ UniqueIds' /\ ConfigKept'
<1>1. UNCHANGED <<configs, clock, promise, excused, admin, faults>> /\ writes' \in 0..MaxWrites
  BY CallCounts DEF CreateRule
<1>2. PICK p \in Pattern, act \in Action :
        rules' = Set(rules, c, [pattern |-> p, enabled |-> TRUE, action |-> act])
  BY DEF CreateRule
<1>3. [pattern |-> p, enabled |-> TRUE, action |-> act] \in RuleRow
  BY DEF RuleRow
<1>4. rules' \in [Rule -> RuleRow \cup {Unborn, Deleted}]
  BY <1>2, <1>3 DEF Set, TablesTyped
<1>5. faults' \in 0..MaxFaults /\ admin' = [b \in Admin |-> admin'[b]]
  BY <1>1 DEF TablesTyped
<1> QED
  BY <1>1, <1>4, <1>5, OtherTables

(* DeleteRule leaves the configuration alone. *)
LEMMA DeleteRuleTables ==
  ASSUME TablesTyped, UniqueIds, ConfigKept, NEW c \in Rule, DeleteRule(c)
  PROVE  TablesTyped' /\ UniqueIds' /\ ConfigKept'
<1>1. UNCHANGED <<configs, clock, promise, excused, admin, faults>> /\ writes' \in 0..MaxWrites
  BY CallCounts DEF DeleteRule
<1>2. rules' \in [Rule -> RuleRow \cup {Unborn, Deleted}]
  BY DEF DeleteRule, Set, TablesTyped
<1>3. faults' \in 0..MaxFaults /\ admin' = [b \in Admin |-> admin'[b]]
  BY <1>1 DEF TablesTyped
<1> QED
  BY <1>1, <1>2, <1>3, OtherTables

(* UpdateRule reads a rule. *)
LEMMA StartUpdateRuleTables ==
  ASSUME TablesTyped, UniqueIds, ConfigKept, NEW a \in Admin, NEW c \in Rule,
         StartUpdateRule(a, c)
  PROVE  TablesTyped' /\ UniqueIds' /\ ConfigKept'
<1>1. /\ UNCHANGED <<configs, clock, rules, promise, excused, faults>>
      /\ writes' \in 0..MaxWrites /\ rules[c] \in RuleRow
  BY CallCounts DEF StartUpdateRule, TablesTyped, store, history
<1>2. PICK on \in BOOLEAN, act \in Action :
        Edit(a, [op |-> "rule", id |-> c,
                 row |-> [rules[c] EXCEPT !.enabled = on, !.action = act]])
  BY DEF StartUpdateRule
<1> DEFINE row == [rules[c] EXCEPT !.enabled = on, !.action = act]
           e == [op |-> "rule", id |-> c, row |-> row]
<1>3. row \in RuleRow
  <2> DEFINE old == rules[c]
  <2>1. /\ old = [pattern |-> old.pattern, enabled |-> old.enabled, action |-> old.action]
        /\ old.pattern \in Pattern
    BY <1>1 DEF RuleRow
  <2> HIDE DEF old
  <2>2. row = [old EXCEPT !.enabled = on, !.action = act]
    BY DEF old
  <2> HIDE DEF row
  <2>3. row = [pattern |-> old.pattern, enabled |-> on, action |-> act]
    BY <2>1, <2>2
  <2> QED
    BY <2>1, <2>3 DEF RuleRow
<1> HIDE DEF row
<1>4. e \in RuleEdit
  BY <1>3 DEF RuleEdit
<1>5. Edit(a, e)
  BY <1>2 DEF row
<1> HIDE DEF e
<1>6. \A b \in Admin : admin'[b] = IF b = a THEN e ELSE admin[b]
  BY <1>5, EditIs
<1>7. \A b \in Admin : admin'[b] = admin[b] \/ admin'[b] \in {NoEdit} \cup RuleEdit
  BY <1>4, <1>6
<1>8. /\ admin' = [b \in Admin |-> admin'[b]] /\ faults' \in 0..MaxFaults
      /\ rules' \in [Rule -> RuleRow \cup {Unborn, Deleted}]
  BY <1>1, <1>5 DEF Edit, Set, TablesTyped
<1> QED
  BY <1>1, <1>7, <1>8, OtherTables

(* UpdateRule writes a rule, and leaves the configuration alone. *)
LEMMA WriteRuleTables ==
  ASSUME TablesTyped, UniqueIds, ConfigKept, NEW a \in Admin, WriteRule(a)
  PROVE  TablesTyped' /\ UniqueIds' /\ ConfigKept'
<1> DEFINE e == admin[a]
<1>1. /\ e.op = "rule" /\ Edit(a, NoEdit)
      /\ rules' = IF rules[e.id] = Deleted THEN rules ELSE Set(rules, e.id, e.row)
      /\ UNCHANGED <<configs, clock, promise, excused, writes, faults>>
  BY DEF WriteRule
<1>2. e.id \in Rule /\ e.row \in RuleRow
  <2>1. e \in {NoEdit} \cup ConfigEdit \cup RuleEdit
    BY DEF TablesTyped
  <2>2. e \in RuleEdit
    BY <1>1, <2>1 DEF NoEdit, ConfigEdit
  <2> HIDE DEF e
  <2> QED
    BY <2>2 DEF RuleEdit
<1> HIDE DEF e
<1>3. rules' \in [Rule -> RuleRow \cup {Unborn, Deleted}]
  BY <1>1, <1>2 DEF Set, TablesTyped
<1>4. \A b \in Admin : admin'[b] = IF b = a THEN NoEdit ELSE admin[b]
  BY <1>1, EditIs
<1>5. /\ admin' = [b \in Admin |-> admin'[b]]
      /\ writes' \in 0..MaxWrites /\ faults' \in 0..MaxFaults
  BY <1>1 DEF Edit, Set, TablesTyped
<1>6. \A b \in Admin : admin'[b] = admin[b] \/ admin'[b] \in {NoEdit} \cup RuleEdit
  BY <1>4
<1> QED
  BY <1>1, <1>3, <1>5, <1>6, OtherTables

(* An edit that fails is forgotten. *)
LEMMA EditFailsTables ==
  ASSUME TablesTyped, UniqueIds, ConfigKept, NEW a \in Admin, EditFails(a)
  PROVE  TablesTyped' /\ UniqueIds' /\ ConfigKept'
<1>1. /\ UNCHANGED <<configs, clock, rules, promise, excused, writes>>
      /\ faults' \in 0..MaxFaults /\ Edit(a, NoEdit)
  BY FaultCounts DEF EditFails, store, history
<1>2. \A b \in Admin : admin'[b] = IF b = a THEN NoEdit ELSE admin[b]
  BY <1>1, EditIs
<1>3. /\ admin' = [b \in Admin |-> admin'[b]] /\ writes' \in 0..MaxWrites
      /\ rules' \in [Rule -> RuleRow \cup {Unborn, Deleted}]
  BY <1>1 DEF Edit, Set, TablesTyped
<1>4. \A b \in Admin : admin'[b] = admin[b] \/ admin'[b] \in {NoEdit} \cup RuleEdit
  BY <1>2
<1> QED
  BY <1>1, <1>3, <1>4, OtherTables

(* The steps of the requests. *)
LEMMA SameTables ==
  ASSUME TablesTyped, UniqueIds, ConfigKept,
         UNCHANGED <<store, admin, promise, excused, writes>>,
         UNCHANGED faults \/ Fault
  PROVE  TablesTyped' /\ UniqueIds' /\ ConfigKept'
<1>1. /\ faults' \in 0..MaxFaults /\ admin' = [b \in Admin |-> admin'[b]]
      /\ writes' \in 0..MaxWrites /\ rules' \in [Rule -> RuleRow \cup {Unborn, Deleted}]
  BY FaultCounts DEF TablesTyped, store
<1> QED
  BY <1>1, OtherTables DEF store

(***************************************************************************)
(* The requests, while the tables change.                                  *)
(***************************************************************************)

RequestsKept == \A r \in Request : Phase(r) /\ LogKept(r) /\ Witnessed(r)

(* What a step leaves alone of a request. *)
Alone(r) ==
  /\ pc'[r] = pc[r] /\ ep'[r] = ep[r] /\ msgs'[r] = msgs[r] /\ sent'[r] = sent[r]
  /\ setting'[r] = setting[r] /\ fired'[r] = fired[r] /\ redact'[r] = redact[r]
  /\ logs'[r] = logs[r] /\ logged'[r] = logged[r]

(* A request to which nothing happens stays what it is, has caused and is  *)
(* forwarded as.                                                           *)
LEMMA AloneKept ==
  ASSUME NEW r \in Request, Alone(r), r \in broken <=> r \in broken', Phase(r), LogKept(r)
  PROVE  Phase(r)' /\ LogKept(r)'
<1>1. Phase(r)'
  BY DEF Alone, Phase, Unchecked, Checked, BySystem, Forwarded
<1>2. LogKept(r)'
  BY DEF Alone, LogKept, LogRow
<1> QED
  BY <1>1, <1>2

(* What was in force during a check stays so while the tables do. *)
LEMMA SameWitnessed ==
  ASSUME NEW r \in Request, Alone(r), r \in broken <=> r \in broken', Witnessed(r),
         UNCHANGED <<configs, rules>>, always'[r] = always[r], ever'[r] = ever[r]
  PROVE  Witnessed(r)'
<1>1. Checking(r)' <=> Checking(r)
  BY DEF Alone, Checking
<1>2. \A kinds : Met(r, kinds)' <=> Met(r, kinds)
  BY DEF Alone, Met
<1> QED
  BY <1>1, <1>2 DEF Alone, Witnessed, Met, Carries

(* What was in force during a check stays so when the tables change, since *)
(* the change is noted.                                                    *)
LEMMA NoteWitnessed ==
  ASSUME NEW r \in Request, Alone(r), r \in broken <=> r \in broken', Witnessed(r),
         UNCHANGED pc, Note
  PROVE  Witnessed(r)'
<1> DEFINE now == InForce(configs', rules')
<1>1. /\ always'[r] = IF Checking(r) THEN always[r] \cap now ELSE always[r]
      /\ ever'[r] = IF Checking(r) THEN ever[r] \cup now ELSE ever[r]
  BY DEF Note
<1>2. Checking(r)' <=> Checking(r)
  BY DEF Checking
<1> HIDE DEF now
<1>3. Checking(r)' => always'[r] \subseteq now /\ now \subseteq ever'[r]
  BY <1>1, <1>2
<1>4. pc'[r] = "rules" => /\ "enabled" \in ever'[r]
                          /\ \A c \in Category : /\ setting'[r][c] = "block" => c \in ever'[r]
                                                 /\ c \in always'[r] => setting'[r][c] = "block"
  BY <1>1 DEF Alone, Witnessed
<1>5. pc'[r] \in {"passed", "refused"} => always'[r] = always[r] /\ ever'[r] = ever[r]
  BY <1>1 DEF Checking
<1>6. pc'[r] = "passed" /\ r \notin broken' => ~("enabled" \in always'[r] /\ Met(r, always[r]))
  BY <1>5 DEF Alone, Witnessed
<1>7. pc'[r] = "refused" => "enabled" \in ever'[r] /\ Met(r, ever[r])
  BY <1>5 DEF Alone, Witnessed
<1>8. sent'[r] = sent[r]
  BY DEF Alone
<1> QED
  BY <1>3, <1>4, <1>5, <1>6, <1>7, <1>8 DEF now, Witnessed, Met

(* What administrators do leaves the requests alone. *)
LEMMA EditRequests ==
  ASSUME RequestsTyped, RequestsKept, UNCHANGED <<request, broken>>,
         Note \/ UNCHANGED <<configs, rules, always, ever>>
  PROVE  RequestsTyped' /\ RequestsKept'
<1>1. RequestsTyped'
  <2>1. DOMAIN always' = Request /\ DOMAIN ever' = Request
    BY DEF RequestsTyped, Note
  <2> QED
    BY <2>1 DEF RequestsTyped, request
<1>2. ASSUME NEW r \in Request PROVE (Phase(r) /\ LogKept(r) /\ Witnessed(r))'
  <2>1. Alone(r) /\ UNCHANGED <<pc, broken>>
    BY DEF request, Alone
  <2>2. Phase(r) /\ LogKept(r) /\ Witnessed(r)
    BY DEF RequestsKept
  <2>3. Phase(r)' /\ LogKept(r)'
    BY <2>1, <2>2, AloneKept
  <2>4. CASE Note
    BY <2>1, <2>2, <2>3, <2>4, NoteWitnessed
  <2>5. CASE UNCHANGED <<configs, rules, always, ever>>
    BY <2>1, <2>2, <2>3, <2>5, SameWitnessed
  <2> QED
    BY <2>4, <2>5
<1> QED
  BY <1>1, <1>2 DEF RequestsKept

(* What an administrator does keeps the invariant.                         *)
LEMMA AdminInv ==
  ASSUME TablesTyped, RequestsTyped, UniqueIds, ConfigKept, RequestsKept, NEW a \in Admin,
         \/ StartUpsert(a) \/ WriteConfig(a) \/ WriteRule(a) \/ EditFails(a)
         \/ \E c \in Rule : StartUpdateRule(a, c)
  PROVE  (TablesTyped /\ RequestsTyped /\ UniqueIds /\ ConfigKept /\ RequestsKept)'
<1>1. CASE StartUpsert(a)
  <2>1. UNCHANGED <<request, broken, configs, rules, always, ever>>
    BY <1>1 DEF StartUpsert, history
  <2> QED
    BY <1>1, <2>1, StartUpsertTables, EditRequests
<1>2. CASE WriteConfig(a)
  <2>1. UNCHANGED <<request, broken>> /\ Note
    BY <1>2 DEF WriteConfig
  <2> QED
    BY <1>2, <2>1, WriteConfigTables, EditRequests
<1>3. CASE WriteRule(a)
  <2>1. UNCHANGED <<request, broken>> /\ Note
    BY <1>3 DEF WriteRule
  <2> QED
    BY <1>3, <2>1, WriteRuleTables, EditRequests
<1>4. CASE EditFails(a)
  <2>1. UNCHANGED <<request, broken, configs, rules, always, ever>>
    BY <1>4 DEF EditFails, history, store
  <2> QED
    BY <1>4, <2>1, EditFailsTables, EditRequests
<1>5. ASSUME NEW c \in Rule, StartUpdateRule(a, c)
      PROVE  (TablesTyped /\ RequestsTyped /\ UniqueIds /\ ConfigKept /\ RequestsKept)'
  <2>1. UNCHANGED <<request, broken, configs, rules, always, ever>>
    BY <1>5 DEF StartUpdateRule, history, store
  <2> QED
    BY <1>5, <2>1, StartUpdateRuleTables, EditRequests
<1> QED
  BY <1>1, <1>2, <1>3, <1>4, <1>5

(* A rule is created or deleted. *)
LEMMA RuleInv ==
  ASSUME TablesTyped, RequestsTyped, UniqueIds, ConfigKept, RequestsKept, NEW c \in Rule,
         CreateRule(c) \/ DeleteRule(c)
  PROVE  (TablesTyped /\ RequestsTyped /\ UniqueIds /\ ConfigKept /\ RequestsKept)'
<1>1. UNCHANGED <<request, broken>> /\ Note
  BY DEF CreateRule, DeleteRule
<1> QED
  BY <1>1, CreateRuleTables, DeleteRuleTables, EditRequests

(***************************************************************************)
(* The requests.                                                           *)
(***************************************************************************)

(* A step of one request leaves the others alone.                          *)
LEMMA OthersKept ==
  ASSUME RequestsKept, NEW r \in Request,
         \A q \in Request \ {r} : /\ Alone(q) /\ (q \in broken <=> q \in broken')
                                  /\ always'[q] = always[q] /\ ever'[q] = ever[q],
         UNCHANGED <<configs, rules>>,
         Phase(r)' /\ LogKept(r)' /\ Witnessed(r)'
  PROVE  RequestsKept'
<1>1. ASSUME NEW q \in Request \ {r} PROVE (Phase(q) /\ LogKept(q) /\ Witnessed(q))'
  <2>1. Phase(q) /\ LogKept(q) /\ Witnessed(q)
    BY DEF RequestsKept
  <2>2. Phase(q)' /\ LogKept(q)'
    BY <2>1, AloneKept
  <2>3. Witnessed(q)'
    BY <2>1, SameWitnessed
  <2> QED
    BY <2>2, <2>3
<1>2. ASSUME NEW q \in Request PROVE (Phase(q) /\ LogKept(q) /\ Witnessed(q))'
  BY <1>1
<1> QED
  BY <1>2 DEF RequestsKept

(* What clients send are lists of contents. *)
LEMMA ContentIs == ASSUME NEW i \in Inputs PROVE i \in Seq(Content)
BY GuardrailAssumption DEF Content

(* A request arrives. *)
LEMMA ArriveInv ==
  ASSUME RequestsTyped, RequestsKept, NEW r \in Request, Arrive(r)
  PROVE  RequestsTyped' /\ RequestsKept'
<1>1. PICK e \in Endpoint, i \in Inputs :
        ep' = Set(ep, r, e) /\ msgs' = Set(msgs, r, i) /\ sent' = Set(sent, r, i)
  BY DEF Arrive
<1>2. /\ pc[r] = "idle" /\ pc' = Set(pc, r, "config")
      /\ always' = Set(always, r, InForce(configs, rules))
      /\ ever' = Set(ever, r, InForce(configs, rules))
      /\ broken' = broken \ {r}
      /\ UNCHANGED <<configs, rules, setting, fired, redact, logs, logged>>
  BY DEF Arrive, store
<1>3. RequestsTyped'
  <2>1. i \in Seq(Content)
    BY ContentIs
  <2> QED
    BY <1>1, <1>2, <2>1 DEF RequestsTyped, Set
<1>4. \A q \in Request \ {r} : /\ Alone(q) /\ (q \in broken <=> q \in broken')
                               /\ always'[q] = always[q] /\ ever'[q] = ever[q]
  BY <1>1, <1>2 DEF Alone, Set, RequestsTyped
<1>5. /\ pc'[r] = "config" /\ msgs'[r] = i /\ sent'[r] = i
      /\ always'[r] = InForce(configs, rules) /\ ever'[r] = InForce(configs, rules)
  BY <1>1, <1>2 DEF Set, RequestsTyped
<1>6. Phase(r) /\ LogKept(r)
  BY DEF RequestsKept
<1>7. Phase(r)'
  BY <1>2, <1>5, <1>6 DEF Phase, Unchecked
<1>8. LogKept(r)'
  BY <1>2, <1>5, <1>6 DEF LogKept, LogRow
<1>9. Witnessed(r)'
  BY <1>2, <1>5 DEF Witnessed, Checking
<1> QED
  BY <1>2, <1>3, <1>4, <1>7, <1>8, <1>9, OthersKept

(* Without an enabled configuration no rule is in force.                   *)
LEMMA ForceIs ==
  ASSUME TablesTyped
  PROVE  /\ "enabled" \in InForce(configs, rules) <=> Active
         /\ Active => \A c \in Category :
                        c \in InForce(configs, rules) <=> Config.sys[c] = "block"
         /\ \A p \in Pattern : p \in InForce(configs, rules) <=>
              \E d \in Rows : /\ rules[d].enabled /\ rules[d].action = "block"
                              /\ rules[d].pattern = p
         /\ InForce(configs, rules) \subseteq {"enabled"} \cup Category \cup Pattern
<1> DEFINE custom == {rules[c].pattern : c \in
            {d \in Rule : /\ rules[d] \notin {Unborn, Deleted}
                          /\ rules[d].enabled /\ rules[d].action = "block"}}
           blocked == {c \in Category : Config.sys[c] = "block"}
<1>1. InForce(configs, rules) =
        custom \cup IF configs = {} \/ Config.enabled = "no" THEN {} ELSE {"enabled"} \cup blocked
  BY DEF InForce, Config
<1>2. custom \subseteq Pattern
  BY DEF TablesTyped, RuleRow
<1>3. configs # {} => Config.enabled \in {"yes", "no"}
  BY ConfigIs DEF ConfigRow
<1>4. /\ "enabled" \notin Pattern /\ "enabled" \notin Category
      /\ \A c \in Category : c \notin Pattern /\ c # "enabled"
  BY DEF Pattern, Category
<1>5. \A p : p \in custom <=> \E d \in Rows : /\ rules[d].enabled /\ rules[d].action = "block"
                                              /\ rules[d].pattern = p
  BY DEF Rows
<1> HIDE DEF custom
<1>6. Active <=> ~(configs = {} \/ Config.enabled = "no")
  BY <1>3 DEF Active
<1>7. "enabled" \in InForce(configs, rules) <=> Active
  BY <1>1, <1>2, <1>4, <1>6
<1>8. Active => \A c \in Category : c \in InForce(configs, rules) <=> Config.sys[c] = "block"
  BY <1>1, <1>2, <1>4, <1>6
<1>9. \A p \in Pattern : p \in InForce(configs, rules) <=> p \in custom
  BY <1>1, <1>4
<1> QED
  BY <1>1, <1>2, <1>5, <1>7, <1>8, <1>9

(* A request passes unchecked: nothing is in force, or a query failed. *)
LEMMA PassUncheckedInv ==
  ASSUME TablesTyped, RequestsTyped, RequestsKept, NEW r \in Request, PassUnchecked(r)
  PROVE  RequestsTyped' /\ RequestsKept'
<1>1. /\ pc[r] = "config" /\ pc' = Set(pc, r, "passed")
      /\ UNCHANGED <<configs, rules, ep, msgs, sent, setting, fired, redact, logs, logged,
                     always, ever>>
      /\ \/ ~Active /\ broken' = broken
         \/ broken' = broken \cup {r}
  BY DEF PassUnchecked, store
<1>2. RequestsTyped'
  BY <1>1 DEF RequestsTyped, Set
<1>3. \A q \in Request \ {r} : /\ Alone(q) /\ (q \in broken <=> q \in broken')
                               /\ always'[q] = always[q] /\ ever'[q] = ever[q]
  BY <1>1 DEF Alone, Set, RequestsTyped
<1>4. pc'[r] = "passed"
  BY <1>1 DEF Set, RequestsTyped
<1>5. Phase(r) /\ LogKept(r) /\ Witnessed(r)
  BY DEF RequestsKept
<1>6. Unchecked(r)
  BY <1>1, <1>5 DEF Phase
<1>7. Phase(r)'
  BY <1>1, <1>4, <1>6 DEF Phase, Unchecked, Blocking
<1>8. LogKept(r)'
  BY <1>1, <1>6 DEF LogKept, Unchecked, LogRow
<1>9. Witnessed(r)'
  <2>1. r \notin broken' => "enabled" \notin always'[r]
    <3>1. always[r] \subseteq InForce(configs, rules)
      BY <1>1, <1>5 DEF Witnessed, Checking
    <3>2. r \notin broken' => "enabled" \notin InForce(configs, rules)
      BY <1>1, ForceIs
    <3> QED
      BY <1>1, <3>1, <3>2
  <2> QED
    BY <1>4, <2>1 DEF Witnessed, Checking
<1> QED
  BY <1>1, <1>2, <1>3, <1>7, <1>8, <1>9, OthersKept

(* The results of the checks. *)
LEMMA SystemViolationsTyped ==
  ASSUME NEW messages \in Seq(Content), NEW s \in Setting
  PROVE  SystemViolations(Texts(messages), s) \subseteq Violations
<1>1. \A c \in Category : s[c] # "off" => s[c] \in Action
  BY DEF Setting
<1>2. \A c \in Category : s[c] # "off" => Violation(c, s[c]) \in Violations
  BY <1>1 DEF Violation, Violations
<1> QED
  BY <1>2, SystemViolationsAre

(* The redactions are numbers of texts. *)
LEMMA RedactionsTyped ==
  ASSUME NEW messages \in Seq(Content), NEW s
  PROVE  SystemRedactions(Texts(messages), s) \in Seq(Nat \ {0})
<1>1. Texts(messages) \in Seq(Seq(Unit))
  BY TextsAre
<1> DEFINE texts == Texts(messages)
           list == SystemRedactions(texts, s)
<1>2. list \in Seq(DOMAIN texts)
  BY <1>1, RedactionsAre
<1>3. DOMAIN texts \subseteq Nat \ {0}
  BY <1>1, LenProperties
<1> HIDE DEF list, texts
<1>4. list \in Seq(Nat \ {0})
  BY <1>2, <1>3
<1> QED
  BY <1>4 DEF list, texts

(* The system rules of the configuration that was read are those in force. *)
LEMMA CheckSystemRulesInv ==
  ASSUME TablesTyped, RequestsTyped, RequestsKept, NEW r \in Request, CheckSystemRules(r)
  PROVE  RequestsTyped' /\ RequestsKept'
<1> DEFINE s == Config.sys
           sv == SystemViolations(Texts(msgs[r]), s)
           sr == SystemRedactions(Texts(msgs[r]), s)
<1>1. /\ pc[r] = "config" /\ Active /\ pc' = Set(pc, r, "rules")
      /\ setting' = Set(setting, r, s) /\ fired' = Set(fired, r, sv)
      /\ redact' = Set(redact, r, sr)
      /\ UNCHANGED <<configs, rules, ep, msgs, sent, logs, logged, always, ever, broken>>
  BY DEF CheckSystemRules, store, history
<1>2. msgs[r] \in Seq(Content) /\ s \in Setting
  BY <1>1, ConfigIs DEF RequestsTyped, Active
<1> HIDE DEF s
<1>3. sv \in SUBSET Violations /\ sr \in Seq(Nat \ {0})
  BY <1>2, SystemViolationsTyped, RedactionsTyped
<1>a. Phase(r) /\ LogKept(r) /\ Witnessed(r)
  BY DEF RequestsKept
<1>b. Unchecked(r)
  BY <1>1, <1>a DEF Phase
<1>c. sv = SystemViolations(Texts(sent[r]), s) /\ sr = SystemRedactions(Texts(sent[r]), s)
  BY <1>b DEF Unchecked
<1> HIDE DEF sv, sr
<1>4. RequestsTyped'
  BY <1>1, <1>2, <1>3 DEF RequestsTyped, Set
<1>5. \A q \in Request \ {r} : /\ Alone(q) /\ (q \in broken <=> q \in broken')
                               /\ always'[q] = always[q] /\ ever'[q] = ever[q]
  BY <1>1 DEF Alone, Set, RequestsTyped
<1>6. pc'[r] = "rules" /\ setting'[r] = s /\ fired'[r] = sv /\ redact'[r] = sr
  BY <1>1 DEF Set, RequestsTyped
<1>7. Phase(r)'
  <2>1. Checked(r)' /\ (fired[r] = BySystem(r))'
    BY <1>1, <1>6, <1>c DEF Checked, BySystem
  <2>2. logs'[r] = {} /\ logged'[r] = {} /\ msgs'[r] = sent'[r]
    BY <1>1, <1>b DEF Unchecked
  <2> QED
    BY <1>6, <2>1, <2>2 DEF Phase
<1>8. LogKept(r)'
  BY <1>1, <1>6, <1>b DEF LogKept, Unchecked, LogRow
<1>9. Witnessed(r)'
  <2>1. /\ always[r] \subseteq InForce(configs, rules)
        /\ InForce(configs, rules) \subseteq ever[r]
    BY <1>1, <1>a DEF Witnessed, Checking
  <2>2. /\ "enabled" \in InForce(configs, rules)
        /\ \A c \in Category : c \in InForce(configs, rules) <=> s[c] = "block"
    BY <1>1, ForceIs DEF s
  <2> QED
    BY <1>1, <1>6, <2>1, <2>2 DEF Witnessed, Checking
<1> QED
  BY <1>1, <1>4, <1>5, <1>7, <1>8, <1>9, OthersKept

(* What a custom rule finds is a violation of its pattern. *)
LEMMA CustomViolationsTyped ==
  ASSUME TablesTyped, NEW texts
  PROVE  /\ CustomViolations(texts, Rows) \subseteq Violations
         /\ \A v \in CustomViolations(texts, Rows) : v.rule \in Pattern
<1>1. \A c \in Rows : rules[c].pattern \in Pattern /\ rules[c].action \in Action
  BY DEF TablesTyped, Rows, RuleRow
<1> QED
  BY <1>1 DEF CustomViolations, Violation, Violations

(* A custom rule that fires blocks a pattern in force, and the other way.  *)
LEMMA CustomBlocks ==
  ASSUME TablesTyped, NEW messages \in Seq(Content)
  PROVE  Blocking(CustomViolations(Texts(messages), Rows)) <=>
           \E p \in Pattern : p \in InForce(configs, rules) /\ Carries(messages, p)
<1> DEFINE texts == Texts(messages)
           Fires(d) == \E i \in DOMAIN texts : CheckPattern(texts[i], rules[d].pattern)
<1>1. \A d \in Rows : rules[d].pattern \in Pattern
  BY DEF TablesTyped, Rows, RuleRow
<1>2. \A d \in Rows : Fires(d) <=> Carries(messages, rules[d].pattern)
  BY <1>1, PatternOccurs
<1>3. Blocking(CustomViolations(texts, Rows)) <=>
        \E d \in Rows : rules[d].enabled /\ Fires(d) /\ rules[d].action = "block"
  <2> HIDE DEF Fires
  <2>1. CustomViolations(texts, Rows) =
          {Violation(rules[c].pattern, rules[c].action) : c \in
              {d \in Rows : rules[d].enabled /\ Fires(d)}}
    BY DEF CustomViolations, Fires
  <2>2. \A p, a : Violation(p, a).action = a
    BY DEF Violation
  <2> QED
    BY <2>1, <2>2 DEF Blocking
<1> HIDE DEF Fires, texts
<1>4. \A p \in Pattern : p \in InForce(configs, rules) <=>
        \E d \in Rows : rules[d].enabled /\ rules[d].action = "block" /\ rules[d].pattern = p
  BY ForceIs
<1> QED
  BY <1>1, <1>2, <1>3, <1>4 DEF texts

(* The system rules refuse messages that carry what a rule blocks, and     *)
(* only those.                                                             *)
LEMMA SystemBlocks ==
  ASSUME NEW messages \in Seq(Content), NEW s
  PROVE  Blocking(SystemViolations(Texts(messages), s)) <=>
           \E c \in Category : s[c] = "block" /\ Carries(messages, c)
<1>1. SystemViolations(Texts(messages), s) =
        {Violation(c, s[c]) : c \in {d \in Category : s[d] # "off" /\ Carries(messages, d)}}
  BY SystemViolationsAre
<1>2. \A p, a : Violation(p, a).action = a
  BY DEF Violation
<1> QED
  BY <1>1, <1>2 DEF Blocking

(* The custom rules are read and the request is refused, redacted or       *)
(* forwarded.                                                              *)
LEMMA CheckCustomRulesInv ==
  ASSUME TablesTyped, RequestsTyped, RequestsKept, NEW r \in Request, CheckCustomRules(r)
  PROVE  RequestsTyped' /\ RequestsKept'
<1>1. PICK listed \in BOOLEAN :
        LET all == fired[r] \cup IF listed THEN CustomViolations(Texts(msgs[r]), Rows)
                                 ELSE {}
        IN  /\ IF listed THEN UNCHANGED <<faults, broken>>
               ELSE Fault /\ broken' = broken \cup {r}
            /\ fired' = Set(fired, r, all) /\ logs' = Set(logs, r, all)
            /\ pc' = Set(pc, r, IF Blocking(all) THEN "refused" ELSE "passed")
            /\ msgs' = IF Blocking(all) \/ ep[r] # "chat" THEN msgs
                       ELSE Set(msgs, r, RedactAll(msgs[r], redact[r]))
  BY DEF CheckCustomRules
<1> DEFINE cv == IF listed THEN CustomViolations(Texts(msgs[r]), Rows) ELSE {}
           all == fired[r] \cup cv
<1>2. /\ pc[r] = "rules"
      /\ UNCHANGED <<configs, rules, ep, sent, setting, redact, logged, always, ever>>
  BY DEF CheckCustomRules, store
<1>3. /\ broken' = IF listed THEN broken ELSE broken \cup {r}
      /\ fired' = Set(fired, r, all) /\ logs' = Set(logs, r, all)
      /\ pc' = Set(pc, r, IF Blocking(all) THEN "refused" ELSE "passed")
      /\ msgs' = IF Blocking(all) \/ ep[r] # "chat" THEN msgs
                 ELSE Set(msgs, r, RedactAll(msgs[r], redact[r]))
  BY <1>1
<1>4. /\ Phase(r) /\ LogKept(r) /\ Witnessed(r)
      /\ sent[r] \in Seq(Content) /\ redact[r] \in Seq(Nat \ {0}) /\ fired[r] \subseteq Violations
  BY DEF RequestsKept, RequestsTyped
<1>5. /\ logged[r] = {} /\ msgs[r] = sent[r] /\ Checked(r) /\ fired[r] = BySystem(r)
  BY <1>2, <1>4 DEF Phase
<1>6. cv \subseteq Violations /\ \A v \in cv : v.rule \in Pattern
  BY CustomViolationsTyped
<1>7. Blocking(all) <=>
        \/ \E c \in Category : setting[r][c] = "block" /\ Carries(sent[r], c)
        \/ listed /\ \E p \in Pattern : p \in InForce(configs, rules) /\ Carries(sent[r], p)
  <2>1. Blocking(all) <=> Blocking(fired[r]) \/ Blocking(cv)
    BY DEF Blocking
  <2>2. Blocking(fired[r]) <=>
          \E c \in Category : setting[r][c] = "block" /\ Carries(sent[r], c)
    BY <1>4, <1>5, SystemBlocks DEF BySystem
  <2>3. Blocking(cv) <=>
          listed /\ \E p \in Pattern : p \in InForce(configs, rules) /\ Carries(sent[r], p)
    <3>1. CASE listed
      BY <1>4, <1>5, <3>1, CustomBlocks
    <3>2. CASE ~listed
      BY <3>2 DEF Blocking
    <3> QED
      BY <3>1, <3>2
  <2> QED
    BY <2>1, <2>2, <2>3
<1> HIDE DEF cv
<1>8. RedactAll(msgs[r], redact[r]) \in Seq(Content)
  BY <1>4, <1>5, RedactAllShape
<1>9. RequestsTyped'
  <2>1. all \in SUBSET Violations
    BY <1>4, <1>6
  <2>2. msgs' \in [Request -> Seq(Content)]
    <3>1. Set(msgs, r, RedactAll(msgs[r], redact[r])) \in [Request -> Seq(Content)]
      BY <1>8 DEF Set, RequestsTyped
    <3> QED
      BY <1>3, <3>1 DEF RequestsTyped
  <2> HIDE DEF all
  <2>3. fired' \in [Request -> SUBSET Violations] /\ DOMAIN logs' = Request
    BY <1>3, <2>1 DEF RequestsTyped, Set
  <2>4. pc' \in [Request -> {"idle", "config", "rules", "passed", "refused"}]
    BY <1>3 DEF RequestsTyped, Set
  <2> QED
    BY <1>2, <2>2, <2>3, <2>4 DEF RequestsTyped
<1> HIDE DEF all
<1>10. \A q \in Request \ {r} : /\ Alone(q) /\ (q \in broken <=> q \in broken')
                                /\ always'[q] = always[q] /\ ever'[q] = ever[q]
  BY <1>2, <1>3 DEF Alone, Set, RequestsTyped
<1>11. /\ fired'[r] = all /\ logs'[r] = all
       /\ pc'[r] = IF Blocking(all) THEN "refused" ELSE "passed"
       /\ msgs'[r] = IF Blocking(all) \/ ep[r] # "chat" THEN msgs[r]
                     ELSE RedactAll(msgs[r], redact[r])
  BY <1>3 DEF Set, RequestsTyped
<1>12. Phase(r)'
  <2>1. Checked(r)'
    <3>1. /\ BySystem(r)' = BySystem(r) /\ redact'[r] = redact[r]
          /\ sent'[r] = sent[r] /\ setting'[r] = setting[r]
      BY <1>2 DEF BySystem
    <3>2. BySystem(r) \subseteq all /\ \A v \in all : v \in BySystem(r) \/ v.rule \in Pattern
      BY <1>5, <1>6 DEF all
    <3> QED
      BY <1>5, <1>11, <3>1, <3>2 DEF Checked
  <2>2. CASE Blocking(all)
    BY <1>2, <1>5, <1>11, <2>1, <2>2 DEF Phase
  <2>3. CASE ~Blocking(all)
    <3>1. msgs'[r] = Forwarded(r)'
      BY <1>2, <1>5, <1>11, <2>3 DEF Forwarded
    <3> QED
      BY <1>11, <2>1, <2>3, <3>1 DEF Phase
  <2> QED
    BY <2>2, <2>3
<1>13. LogKept(r)'
  BY <1>2, <1>5, <1>11 DEF LogKept, LogRow
<1>14. Witnessed(r)'
  <2>1. /\ always[r] \subseteq InForce(configs, rules)
        /\ InForce(configs, rules) \subseteq ever[r]
        /\ "enabled" \in ever[r]
        /\ \A c \in Category : /\ setting[r][c] = "block" => c \in ever[r]
                               /\ c \in always[r] => setting[r][c] = "block"
    BY <1>2, <1>4 DEF Witnessed, Checking
  <2>2. "enabled" \notin Category /\ "enabled" \notin Pattern
    BY DEF Category, Pattern
  <2>3. ASSUME Blocking(all) PROVE Met(r, ever[r])
    <3>1. \E k \in Category \cup Pattern : k \in ever[r] /\ Carries(sent[r], k)
      BY <1>7, <2>1, <2>3
    <3> QED
      BY <2>2, <3>1 DEF Met
  <2>4. ASSUME ~Blocking(all), r \notin broken', Met(r, always[r]) PROVE FALSE
    <3>1. listed
      BY <1>3, <2>4
    <3>2. PICK k \in always[r] \ {"enabled"} : Carries(sent[r], k)
      BY <2>4 DEF Met
    <3>3. k \in Category \/ k \in Pattern
      BY <2>1, <3>2, ForceIs
    <3> QED
      BY <1>7, <2>1, <2>4, <3>1, <3>2, <3>3
  <2> QED
    BY <1>2, <1>11, <2>1, <2>3, <2>4 DEF Witnessed, Checking, Met
<1> QED
  BY <1>2, <1>9, <1>10, <1>12, <1>13, <1>14, OthersKept

(* A set of rows with one choice for each field has one row. *)
LEMMA OneRow ==
  ASSUME NEW a, NEW b
  PROVE  [rule : {a}, taken : {b}] = {[rule |-> a, taken |-> b]}
<1>1. \A x \in [rule : {a}, taken : {b}] : x = [rule |-> a, taken |-> b]
  OBVIOUS
<1>2. [rule |-> a, taken |-> b] \in [rule : {a}, taken : {b}]
  OBVIOUS
<1> QED
  BY <1>1, <1>2

(* A violation is logged, or its insert fails. *)
LEMMA LogViolationInv ==
  ASSUME TablesTyped, RequestsTyped, RequestsKept, NEW r \in Request, LogViolation(r)
  PROVE  RequestsTyped' /\ RequestsKept'
<1>1. PICK v \in logs[r] :
        /\ logs' = Set(logs, r, logs[r] \ {v})
        /\ \/ /\ logged' = Set(logged, r, logged[r] \cup
                                [rule : {v.rule}, taken : {Taken(v.action)}])
              /\ UNCHANGED <<faults, broken>>
           \/ Fault /\ broken' = broken \cup {r} /\ UNCHANGED logged
  BY DEF LogViolation
<1>2. /\ pc[r] \in {"passed", "refused"}
      /\ UNCHANGED <<configs, rules, pc, ep, msgs, sent, setting, fired, redact, always, ever>>
  BY DEF LogViolation, store
<1>3. RequestsTyped'
  BY <1>1, <1>2 DEF RequestsTyped, Set
<1>4. \A q \in Request \ {r} : /\ Alone(q) /\ (q \in broken <=> q \in broken')
                               /\ always'[q] = always[q] /\ ever'[q] = ever[q]
  BY <1>1, <1>2 DEF Alone, Set, RequestsTyped
<1>5. Phase(r) /\ LogKept(r) /\ Witnessed(r)
  BY DEF RequestsKept
<1>6. Phase(r)'
  BY <1>2, <1>5 DEF Phase, Checked, BySystem, Forwarded
<1>7. logs'[r] = logs[r] \ {v}
  BY <1>1 DEF Set, RequestsTyped
<1>8. LogKept(r)'
  <2>0. /\ v \in fired[r] /\ logs[r] \subseteq fired[r]
        /\ \A w \in logged[r] : \E u \in fired[r] : w = LogRow(u)
        /\ \A u \in fired[r] : u \in logs[r] \/ LogRow(u) \in logged[r] \/ r \in broken
    BY <1>2, <1>5 DEF LogKept
  <2>1. CASE /\ logged' = Set(logged, r, logged[r] \cup
                                [rule : {v.rule}, taken : {Taken(v.action)}])
             /\ broken' = broken
    <3>1. [rule : {v.rule}, taken : {Taken(v.action)}] = {LogRow(v)}
      BY OneRow DEF LogRow
    <3>2. logged'[r] = logged[r] \cup {LogRow(v)}
      BY <2>1, <3>1 DEF Set, RequestsTyped
    <3>3. \A w \in logged'[r] : \E u \in fired[r] : w = LogRow(u)
      BY <2>0, <3>2
    <3>4. \A u \in fired[r] : u \in logs'[r] \/ LogRow(u) \in logged'[r] \/ r \in broken'
      BY <1>7, <2>0, <2>1, <3>2
    <3> QED
      BY <1>2, <1>7, <2>0, <3>3, <3>4 DEF LogKept, LogRow
  <2>2. CASE broken' = broken \cup {r} /\ UNCHANGED logged
    BY <1>2, <1>7, <2>0, <2>2 DEF LogKept, LogRow
  <2> QED
    BY <1>1, <2>1, <2>2
<1>9. Witnessed(r)'
  <2>1. r \notin broken' => r \notin broken
    BY <1>1
  <2> QED
    BY <1>2, <1>5, <2>1 DEF Witnessed, Checking, Met
<1> QED
  BY <1>2, <1>3, <1>4, <1>6, <1>8, <1>9, OthersKept

(* A request leaves, and its slot is as new. *)
LEMMA LeaveInv ==
  ASSUME TablesTyped, RequestsTyped, RequestsKept, NEW r \in Request, Leave(r)
  PROVE  RequestsTyped' /\ RequestsKept'
<1>1. /\ logs[r] = {}
      /\ pc' = Set(pc, r, "idle") /\ ep' = Set(ep, r, "chat")
      /\ msgs' = Set(msgs, r, <<>>) /\ sent' = Set(sent, r, <<>>)
      /\ setting' = Set(setting, r, DefaultSystemRules)
      /\ fired' = Set(fired, r, {}) /\ redact' = Set(redact, r, <<>>)
      /\ logged' = Set(logged, r, {})
      /\ always' = Set(always, r, {}) /\ ever' = Set(ever, r, {})
      /\ broken' = broken \ {r}
      /\ UNCHANGED <<configs, rules, logs>>
  BY DEF Leave, store
<1>2. <<>> \in Seq(Content) /\ <<>> \in Seq(Nat \ {0})
  OBVIOUS
<1>3. RequestsTyped'
  BY <1>1, <1>2, DefaultsAreSettings DEF RequestsTyped, Set, Endpoint
<1>4. \A q \in Request \ {r} : /\ Alone(q) /\ (q \in broken <=> q \in broken')
                               /\ always'[q] = always[q] /\ ever'[q] = ever[q]
  BY <1>1 DEF Alone, Set, RequestsTyped
<1>5. /\ pc'[r] = "idle" /\ msgs'[r] = <<>> /\ sent'[r] = <<>> /\ fired'[r] = {}
      /\ redact'[r] = <<>> /\ logged'[r] = {} /\ logs'[r] = {}
  BY <1>1 DEF Set, RequestsTyped
<1>6. Phase(r)' /\ LogKept(r)' /\ Witnessed(r)'
  BY <1>5 DEF Phase, Unchecked, LogKept, Witnessed, Checking
<1> QED
  BY <1>1, <1>3, <1>4, <1>6, OthersKept

(* No request is checked at first. *)
LEMMA InitRequests ==
  ASSUME Init
  PROVE  RequestsTyped /\ RequestsKept
<1>1. RequestsTyped
  <2>1. <<>> \in Seq(Content) /\ <<>> \in Seq(Nat \ {0})
    OBVIOUS
  <2> QED
    BY <2>1, DefaultsAreSettings DEF Init, RequestsTyped, Endpoint
<1>2. \A r \in Request : Phase(r) /\ LogKept(r) /\ Witnessed(r)
  BY DEF Init, Phase, Unchecked, LogKept, Witnessed, Checking
<1> QED
  BY <1>1, <1>2 DEF RequestsKept

(* A step of a request keeps the invariant. *)
LEMMA RequestInv ==
  ASSUME TablesTyped, RequestsTyped, UniqueIds, ConfigKept, RequestsKept, NEW r \in Request,
         \/ Arrive(r) \/ PassUnchecked(r) \/ CheckSystemRules(r) \/ CheckCustomRules(r)
         \/ LogViolation(r) \/ Leave(r)
  PROVE  (TablesTyped /\ RequestsTyped /\ UniqueIds /\ ConfigKept /\ RequestsKept)'
<1>1. UNCHANGED <<store, admin, promise, excused, writes>> /\ (UNCHANGED faults \/ Fault)
  BY DEF Arrive, PassUnchecked, CheckSystemRules, CheckCustomRules, LogViolation, Leave, history
<1>2. (TablesTyped /\ UniqueIds /\ ConfigKept)'
  BY <1>1, SameTables
<1>3. (RequestsTyped /\ RequestsKept)'
  BY ArriveInv, PassUncheckedInv, CheckSystemRulesInv, CheckCustomRulesInv, LogViolationInv,
     LeaveInv
<1> QED
  BY <1>2, <1>3

(* The parts of the invariant. *)
LEMMA InvIs ==
  Inv <=> TablesTyped /\ RequestsTyped /\ UniqueIds /\ ConfigKept /\ RequestsKept
BY DEF Inv, RequestsKept

(* Every step keeps the invariant. *)
LEMMA NextInv ==
  ASSUME Inv, [Next]_vars
  PROVE  Inv'
<1>0. TablesTyped /\ RequestsTyped /\ UniqueIds /\ ConfigKept /\ RequestsKept
  BY InvIs
<1>1. CASE Next
  <2>1. \/ \E a \in Admin : \/ StartUpsert(a) \/ WriteConfig(a) \/ WriteRule(a) \/ EditFails(a)
                            \/ \E c \in Rule : StartUpdateRule(a, c)
        \/ \E c \in Rule : CreateRule(c) \/ DeleteRule(c)
        \/ \E r \in Request : \/ Arrive(r) \/ PassUnchecked(r) \/ CheckSystemRules(r)
                              \/ CheckCustomRules(r) \/ LogViolation(r) \/ Leave(r)
    BY <1>1 DEF Next
  <2>2. (TablesTyped /\ RequestsTyped /\ UniqueIds /\ ConfigKept /\ RequestsKept)'
    BY <1>0, <2>1, AdminInv, RuleInv, RequestInv
  <2> QED
    BY <2>2 DEF Inv, RequestsKept
<1>2. CASE UNCHANGED vars
  <2>1. UNCHANGED <<configs, clock, promise, excused, rules, admin, writes, faults>>
    BY <1>2 DEF vars, store, history
  <2>2. (TablesTyped /\ UniqueIds /\ ConfigKept)'
    BY <1>0, <2>1, SameTables DEF store
  <2>3. UNCHANGED <<request, broken, configs, rules, always, ever>>
    BY <1>2 DEF vars, store, history
  <2>4. (RequestsTyped /\ RequestsKept)'
    BY <1>0, <2>3, EditRequests
  <2> QED
    BY <2>2, <2>4 DEF Inv, RequestsKept
<1> QED
  BY <1>1, <1>2

(* What the tables, the requests and the record of what was in force have  *)
(* to do with each other, whatever requests and administrators do          *)
(* meanwhile.                                                              *)
THEOREM GuardrailInv == Spec => []Inv
<1>1. Init => Inv
  BY InitTables, InitRequests, InvIs
<1>2. Inv /\ [Next]_vars => Inv'
  BY NextInv
<1> QED
  BY <1>1, <1>2, PTL DEF Spec

(* There are not more rows than ids were given. *)
LEMMA FewRows ==
  ASSUME TablesTyped, UniqueIds
  PROVE  Cardinality(configs) <= clock
<1>0. clock \in Nat /\ \A q \in configs : q.id \in 1..clock
  BY DEF TablesTyped, ConfigRow
<1> DEFINE f == [q \in configs |-> q.id]
<1>1. f \in Injection(configs, 1..clock)
  BY <1>0 DEF UniqueIds, Injection, IsInjective
<1>2. IsFiniteSet(1..clock) /\ Cardinality(1..clock) = clock
  BY <1>0, FS_Interval
<1> HIDE DEF f
<1>3. Cardinality(configs) <= Cardinality(1..clock)
  BY <1>1, <1>2, FS_Injection
<1> QED
  BY <1>2, <1>3

(* The invariant has the type invariant that the runs check. *)
LEMMA InvTypeOK ==
  ASSUME Inv
  PROVE  TypeOK
<1>0. TablesTyped /\ RequestsTyped /\ UniqueIds /\ \A r \in Request : Phase(r) /\ LogKept(r)
  BY DEF Inv
<1>1. ASSUME NEW r \in Request
      PROVE  /\ Len(msgs[r]) = Len(sent[r])
             /\ \A i \in DOMAIN redact[r] : redact[r][i] <= Len(sent[r])
             /\ fired[r] \subseteq [rule : Category \cup Pattern, action : Action]
             /\ logs[r] \subseteq fired[r]
  <2>0. /\ Phase(r) /\ LogKept(r) /\ redact[r] \in Seq(Nat \ {0})
        /\ sent[r] \in Seq(Content) /\ fired[r] \subseteq Violations
        /\ pc[r] \in {"idle", "config", "rules", "passed", "refused"}
    BY <1>0 DEF RequestsTyped
  <2>1. msgs[r] = sent[r] \/ msgs[r] = RedactAll(sent[r], redact[r])
    BY <2>0 DEF Phase, Unchecked, Forwarded
  <2>2. Len(msgs[r]) = Len(sent[r])
    BY <2>0, <2>1, RedactAllShape
  <2>3. redact[r] = <<>> \/ redact[r] = SystemRedactions(Texts(sent[r]), setting[r])
    BY <2>0 DEF Phase, Unchecked, Checked
  <2>4. ASSUME NEW i \in DOMAIN redact[r] PROVE redact[r][i] <= Len(sent[r])
    <3> DEFINE texts == Texts(sent[r])
    <3>1. texts \in Seq(Seq(Unit)) /\ Len(texts) <= Len(sent[r])
      BY <2>0, TextsAre
    <3>2. redact[r] = SystemRedactions(texts, setting[r])
      BY <2>3
    <3>3. redact[r] \in Seq(DOMAIN texts)
      <4> HIDE DEF texts
      <4> QED
        BY <3>1, <3>2, RedactionsAre
    <3>4. redact[r][i] \in DOMAIN texts
      BY <3>3
    <3>5. DOMAIN texts = 1..Len(texts) /\ Len(texts) \in Nat /\ Len(sent[r]) \in Nat
      BY <2>0, <3>1, LenProperties
    <3> HIDE DEF texts
    <3> QED
      BY <3>1, <3>4, <3>5
  <2> QED
    BY <2>0, <2>2, <2>4 DEF LogKept, Violations
<1>2. Cardinality(configs) <= clock
  BY <1>0, FewRows
<1>3. writes <= MaxWrites /\ faults <= MaxFaults
  BY <1>0, GuardrailAssumption DEF TablesTyped
<1> QED
  BY <1>0, <1>1, <1>2, <1>3 DEF TypeOK, TablesTyped, RequestsTyped, ConfigRow

(* What a request was redacted for is not in what is forwarded. *)
LEMMA RedactedWhenPassed ==
  ASSUME Inv, NEW r \in Request, NEW kind \in {"pii", "secret"},
         pc[r] = "passed", redact[r] # <<>>, setting[r][kind] = "redact", ~RedactsLess(r)
  PROVE  ~Carries(msgs[r], kind)
<1>1. Phase(r) /\ sent[r] \in Seq(Content) /\ ep[r] = "chat"
  BY DEF Inv, RequestsTyped, RedactsLess
<1>2. /\ redact[r] = SystemRedactions(Texts(sent[r]), setting[r])
      /\ msgs[r] = RedactAll(sent[r], redact[r])
  BY <1>1 DEF Phase, Checked, Forwarded
<1>3. ~Misnumbered(sent[r]) /\ \A i \in DOMAIN sent[r] : ~Unsorted(sent[r][i])
  BY DEF RedactsLess
<1> QED
  BY <1>1, <1>2, <1>3, RedactionIs

(* A chat request whose settings redact PII, or secrets, is forwarded      *)
(* without any (but for RedactsLess), for texts of any length with any     *)
(* number of matches: the detectors, deduplicateMatches and the cursor of  *)
(* applyRedactions (detector.go:343, handler.go:743) agree.                *)
THEOREM RedactionHolding == Spec => []RedactionHolds
<1>1. Inv => RedactionHolds
  BY InvTypeOK, RedactedWhenPassed DEF RedactionHolds
<1> QED
  BY <1>1, GuardrailInv, PTL

(* The configuration in force is what the acknowledged calls of            *)
(* UpsertConfig add up to (service.go:40), for any number of them that do  *)
(* not overlap.                                                            *)
THEOREM UpdatesKeeping == Spec => []UpdatesKept
<1>1. Inv => UpdatesKept
  <2> SUFFICES ASSUME Inv, configs # {}, ~excused
               PROVE  promise = [enabled |-> Config.enabled, sys |-> Config.sys]
    BY DEF UpdatesKept
  <2>1. PICK row \in configs :
          configs = {row} /\ promise = [enabled |-> row.enabled, sys |-> row.sys]
    BY DEF Inv, ConfigKept, RowKept
  <2>2. Config = row
    BY <2>1, ConfigOfOne DEF Inv, TablesTyped
  <2> QED
    BY <2>1, <2>2
<1> QED
  BY <1>1, GuardrailInv, PTL

(* Whatever administrators change between the two reads of CheckMessages:  *)
(* what a rule blocked throughout the check is not forwarded, and what is  *)
(* refused was blocked by some rule during it.                             *)
THEOREM VerdictJustifying == Spec => []VerdictJustified
<1>1. Inv => VerdictJustified
  BY DEF Inv, Witnessed, Met, VerdictJustified
<1> QED
  BY <1>1, GuardrailInv, PTL

(* Something is redacted where a rule that redacts finds something.        *)
LEMMA SomethingRedacted ==
  ASSUME NEW messages \in Seq(Content), NEW s
  PROVE  SystemRedactions(Texts(messages), s) # <<>> <=>
           \E c \in Redactable : s[c] = "redact" /\ Carries(messages, c)
<1> DEFINE texts == Texts(messages)
           list  == SystemRedactions(texts, s)
<1>1. texts \in Seq(Seq(Unit))
  BY TextsAre
<1>2. list \in Seq(DOMAIN texts) /\ ToSet(list) =
        {i \in DOMAIN texts : \E c \in Redactable : s[c] = "redact" /\ Detected(texts[i], c)}
  <2> HIDE DEF texts
  <2> QED
    BY <1>1, RedactionsAre
<1>3. \A i \in DOMAIN texts, c \in Redactable :
        Detected(texts[i], c) <=> \E k \in DOMAIN texts[i] : Finds(c, texts[i][k])
  <2> TAKE i \in DOMAIN texts
  <2> TAKE c \in Redactable
  <2>1. texts[i] \in Seq(Unit) /\ c \in Category
    <3> HIDE DEF texts
    <3> QED
      BY <1>1 DEF Redactable, Category
  <2> HIDE DEF texts
  <2> QED
    BY <2>1, DetectedIs
<1>4. \A c : Carries(messages, c) <=>
        \E i \in DOMAIN texts : \E k \in DOMAIN texts[i] : Finds(c, texts[i][k])
  BY CarriesIs
<1> HIDE DEF texts, list
<1>5. ToSet(list) # {} <=> list # <<>>
  <2>1. ASSUME list # <<>> PROVE ToSet(list) # {}
    BY <1>2, <2>1, LastIs
  <2>2. ASSUME list = <<>> PROVE ToSet(list) = {}
    BY <2>2 DEF ToSet
  <2> QED
    BY <2>1, <2>2
<1>6. ToSet(list) # {} <=> \E c \in Redactable : s[c] = "redact" /\ Carries(messages, c)
  BY <1>2, <1>3, <1>4
<1> QED
  BY <1>5, <1>6 DEF texts, list

(* What the log says of a violation was done. *)
LEMMA LogRowsTrue ==
  ASSUME Inv, NEW r \in Request, NEW v \in logged[r]
  PROVE  /\ v.taken = "blocked" => pc[r] = "refused"
         /\ /\ v.taken = "redacted" /\ v.rule \in {"pii", "secret"}
            /\ pc[r] = "passed" /\ ~RedactsLess(r)
            => ~Carries(msgs[r], v.rule)
<1>1. Phase(r) /\ LogKept(r) /\ sent[r] \in Seq(Content) /\ fired[r] \subseteq Violations
      /\ pc[r] \in {"idle", "config", "rules", "passed", "refused"}
  BY DEF Inv, RequestsTyped
<1>2. PICK u \in fired[r] : v = LogRow(u)
  BY <1>1 DEF LogKept
<1>3. v.rule = u.rule /\ v.taken = Taken(u.action) /\ u.action \in Action
  BY <1>1, <1>2 DEF LogRow, Violations
<1>4. /\ v.taken = "blocked" => u.action = "block"
      /\ v.taken = "redacted" => u.action = "redact"
  BY <1>3 DEF Taken, Action
<1>5. pc[r] \in {"passed", "refused"}
  BY <1>1 DEF Phase, Unchecked
<1>6. v.taken = "blocked" => pc[r] = "refused"
  BY <1>1, <1>2, <1>4, <1>5 DEF Phase, Blocking
<1>7. ASSUME v.taken = "redacted", v.rule \in {"pii", "secret"},
             pc[r] = "passed", ~RedactsLess(r)
      PROVE  ~Carries(msgs[r], v.rule)
  <2>1. Checked(r)
    BY <1>1, <1>2, <1>7 DEF Phase
  <2>2. u \in BySystem(r)
    BY <1>2, <1>3, <1>7, <2>1 DEF Checked, Pattern
  <2>3. PICK c \in Category : u = Violation(c, setting[r][c]) /\ Carries(sent[r], c)
    BY <1>1, <2>2, SystemViolationsAre DEF BySystem
  <2>4. c = v.rule /\ setting[r][c] = "redact" /\ c \in Redactable
    BY <1>3, <1>4, <1>7, <2>3 DEF Violation, Redactable
  <2>5. redact[r] # <<>>
    BY <1>1, <2>1, <2>3, <2>4, SomethingRedacted DEF Checked
  <2> QED
    BY <1>7, <2>4, <2>5, RedactedWhenPassed
<1> QED
  BY <1>6, <1>7

(* Once the log is complete, what was done is in it. *)
LEMMA LoggedTrue ==
  ASSUME Inv, NEW r \in Request, pc[r] # "idle", ~Checking(r), logs[r] = {}, r \notin broken
  PROVE  /\ pc[r] = "refused" => \E v \in logged[r] : v.taken = "blocked"
         /\ \A c \in {"pii", "secret"} :
               Carries(sent[r], c) /\ ~Carries(msgs[r], c)
                 => \E v \in logged[r] : v.taken = "redacted"
<1>1. /\ Phase(r) /\ LogKept(r) /\ sent[r] \in Seq(Content)
      /\ pc[r] \in {"idle", "config", "rules", "passed", "refused"}
  BY DEF Inv, RequestsTyped
<1>2. pc[r] \in {"passed", "refused"}
  BY <1>1 DEF Checking
<1>3. \A u \in fired[r] : LogRow(u) \in logged[r]
  BY <1>1, <1>2 DEF LogKept
<1>4. \A u : LogRow(u).taken = Taken(u.action)
  BY DEF LogRow
<1>5. ASSUME pc[r] = "refused" PROVE \E v \in logged[r] : v.taken = "blocked"
  <2>1. PICK u \in fired[r] : u.action = "block"
    BY <1>1, <1>5 DEF Phase, Blocking
  <2> QED
    BY <1>3, <1>4, <2>1 DEF Taken
<1>6. ASSUME NEW c \in {"pii", "secret"}, Carries(sent[r], c), ~Carries(msgs[r], c)
      PROVE  \E v \in logged[r] : v.taken = "redacted"
  <2>1. msgs[r] # sent[r]
    BY <1>6
  <2>2. Checked(r) /\ msgs[r] = RedactAll(sent[r], redact[r])
    BY <1>1, <1>2, <2>1 DEF Phase, Forwarded
  <2>3. redact[r] # <<>>
    BY <1>1, <2>1, <2>2, RedactNone
  <2>4. PICK d \in Redactable : setting[r][d] = "redact" /\ Carries(sent[r], d)
    BY <1>1, <2>2, <2>3, SomethingRedacted DEF Checked
  <2>5. d \in Category /\ setting[r][d] # "off"
    BY <2>4 DEF Redactable, Category
  <2>6. Violation(d, setting[r][d]) \in BySystem(r)
    BY <1>1, <2>4, <2>5, SystemViolationsAre DEF BySystem
  <2>7. Violation(d, setting[r][d]) \in fired[r]
    BY <2>2, <2>6 DEF Checked
  <2>8. Violation(d, setting[r][d]).action = "redact"
    BY <2>4 DEF Violation
  <2> QED
    BY <1>3, <1>4, <2>7, <2>8 DEF Taken
<1> QED
  BY <1>5, <1>6

(* The rows of guardrail_violations and what was done agree                *)
(* (service.go:268 and 299), for any messages and rules.                   *)
THEOREM LogTelling == Spec => []LogTruthful
<1>1. Inv => LogTruthful
  BY LogRowsTrue, LoggedTrue DEF LogTruthful
<1> QED
  BY <1>1, GuardrailInv, PTL
=============================================================================
