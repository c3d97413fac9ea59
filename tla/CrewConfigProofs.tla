---------------------------- MODULE CrewConfigProofs ----------------------------
(***************************************************************************)
(* Theorems about CrewConfig: what the interpolation of a template gives,  *)
(* for all templates and values, and what a crew makes of an input.        *)
(*                                                                         *)
(* Texts are sequences and interpolation is recursive.  What holds of all  *)
(* is proved from the shortest for which it would not, as statements about *)
(* sets.                                                                   *)
(***************************************************************************)
EXTENDS CrewConfig, SequenceTheorems, WellFoundedInduction, TLAPS

-----------------------------------------------------------------------------
(* Induction                                                               *)

\* A set of numbers has a least one.
LEMMA LeastNumber ==
  ASSUME NEW T \in SUBSET Nat, T # {}
  PROVE  \E n \in T : \A m \in T : n <= m
  <1> DEFINE R == {ss \in Nat \X Nat : ss[1] < ss[2]}
  <1>1. IsWellFoundedOn(R, Nat)
    BY NatLessThanWellFounded DEF OpToRel
  <1>2. \A m, n \in Nat : m < n => <<m, n>> \in R
    OBVIOUS
  <1> HIDE DEF R
  <1>3. PICK n \in T : \A m \in T : ~(<<m, n>> \in R)
    BY <1>1, WFMin
  <1>4. ASSUME NEW m \in T
        PROVE  n <= m
    <2>1. m \in Nat /\ n \in Nat
      OBVIOUS
    <2>2. ~(m < n)
      BY <1>2, <1>3, <2>1
    <2> QED
      BY <2>1, <2>2
  <1> QED
    BY <1>4

\* What holds for 0 and for the next number up to L holds for all up to L,
\* stated of the set of the numbers for which it holds.
LEMMA UpTo ==
  ASSUME NEW L \in Nat, NEW S, 0 \in S,
         \A k \in 1..L : k - 1 \in S => k \in S
  PROVE  0..L \subseteq S
  <1> DEFINE T == {k \in 0..L : k \notin S}
  <1>1. SUFFICES ASSUME T # {}
                 PROVE  FALSE
    OBVIOUS
  <1>2. PICK n \in T : \A m \in T : n <= m
    <2>1. T \in SUBSET Nat
      OBVIOUS
    <2> HIDE DEF T
    <2> QED
      BY <1>1, <2>1, LeastNumber
  <1>3. n \in 1..L /\ n - 1 \in 0..L
    BY <1>2
  <1>4. n - 1 \notin T
    BY <1>2, <1>3
  <1> QED
    BY <1>2, <1>3, <1>4

\* What holds of the empty sequence, and of a sequence with one element more,
\* holds of all.
LEMMA SequencesFrom ==
  ASSUME NEW X, NEW P, <<>> \in P,
         \A s \in Seq(X) : \A x \in X : s \in P => Append(s, x) \in P
  PROVE  Seq(X) \subseteq P
  <1>1. SUFFICES ASSUME NEW s \in Seq(X)
                 PROVE  s \in P
    OBVIOUS
  <1> DEFINE L == Len(s)
             prefix == [n \in 0..L |-> [i \in 1..n |-> s[i]]]
             S == {n \in 0..L : prefix[n] \in P}
  <1>2. L \in Nat /\ s = [i \in 1..L |-> s[i]] /\ \A i \in 1..L : s[i] \in X
    OBVIOUS
  <1> HIDE DEF L
  <1>3. \A n \in 0..L : prefix[n] \in [1..n -> X]
    <2>1. ASSUME NEW n \in 0..L
          PROVE  prefix[n] \in [1..n -> X]
      <3>1. \A i \in 1..n : i \in 1..L
        BY <1>2
      <3> QED
        BY <1>2, <3>1
    <2> QED
      BY <2>1
  <1>4. 0 \in S
    <2>1. 0 \in 0..L /\ 1..0 = {}
      BY <1>2
    <2>2. prefix[0] = <<>>
      BY <2>1
    <2> QED
      BY <2>1, <2>2
  <1>5. ASSUME NEW n \in 1..L, n - 1 \in S
        PROVE  n \in S
    <2>1. n \in 0..L /\ n \in Nat /\ n - 1 \in 0..L /\ n - 1 \in Nat /\ (n - 1) + 1 = n
      BY <1>2
    <2>2. prefix[n - 1] \in [1..(n - 1) -> X]
      BY <1>3, <2>1
    <2>3. prefix[n - 1] \in Seq(X) /\ Len(prefix[n - 1]) = n - 1
      <3> HIDE DEF prefix
      <3> QED
        BY <2>1, <2>2, SeqDef
    <2>4. prefix[n] = Append(prefix[n - 1], s[n])
      <3> DEFINE q == Append(prefix[n - 1], s[n])
      <3>1. /\ q \in Seq(X) /\ Len(q) = n
            /\ q[n] = s[n] /\ \A i \in 1..(n - 1) : q[i] = prefix[n - 1][i]
        <4> HIDE DEF prefix
        <4> QED
          BY <1>2, <2>1, <2>3, AppendProperties
      <3> HIDE DEF q
      <3>2. \A i \in 1..(n - 1) : prefix[n - 1][i] = s[i]
        BY <2>1
      <3>3. \A i \in 1..n : i = n \/ i \in 1..(n - 1)
        BY <2>1
      <3>4. \A i \in 1..n : q[i] = s[i]
        BY <3>1, <3>2, <3>3
      <3>5. DOMAIN q = 1..n /\ q = [i \in 1..n |-> q[i]]
        BY <3>1
      <3>6. q = [i \in 1..n |-> s[i]]
        BY <3>4, <3>5
      <3>7. prefix[n] = q
        BY <2>1, <3>6
      <3> QED
        BY <3>7 DEF q
    <2>5. prefix[n - 1] \in P /\ s[n] \in X
      BY <1>2, <1>5
    <2> HIDE DEF prefix
    <2>6. prefix[n] \in P
      BY <2>3, <2>4, <2>5
    <2> QED
      BY <2>1, <2>6
  <1>6. L \in 0..L /\ prefix[L] = s
    BY <1>2
  <1> HIDE DEF S
  <1>7. L \in S
    BY <1>2, <1>4, <1>5, <1>6, UpTo
  <1> HIDE DEF prefix
  <1> QED
    BY <1>6, <1>7 DEF S

-----------------------------------------------------------------------------
(* FlattenSeq                                                              *)

LEMMA FlattenEmpty == Ext!FlattenSeq(<<>>) = <<>>
  BY DEF Ext!FlattenSeq

\* FlattenSeq is the last value of a function that satisfies its recursion.
LEMMA FlattenRecursion ==
  ASSUME NEW ss, Len(ss) \in Nat, Len(ss) # 0
  PROVE  \E flatten :
           /\ flatten = [i \in 1..Len(ss) |->
                           IF i = 1 THEN ss[i] ELSE flatten[i - 1] \o ss[i]]
           /\ Ext!FlattenSeq(ss) = flatten[Len(ss)]
  <1> DEFINE L == Len(ss)
             Is(g, n) == g = [i \in 1..n |-> IF i = 1 THEN ss[i] ELSE g[i - 1] \o ss[i]]
             S == {n \in 0..L : \E g : Is(g, n)}
             flatten == CHOOSE g : Is(g, L)
  <1>1. Ext!FlattenSeq(ss) = flatten[L]
    BY DEF Ext!FlattenSeq
  <1>2. 0 \in S
    <2> DEFINE g == [i \in 1..0 |-> <<>>]
    <2>1. Is(g, 0)
      OBVIOUS
    <2> HIDE DEF Is, g
    <2> QED
      BY <2>1
  <1>3. ASSUME NEW k \in 1..L, k - 1 \in S
        PROVE  k \in S
    <2>1. PICK g : Is(g, k - 1)
      BY <1>3
    <2> DEFINE h == [i \in 1..k |-> IF i = k THEN IF k = 1 THEN ss[k] ELSE g[k - 1] \o ss[k]
                                    ELSE g[i]]
    <2>2. \A i \in 1..(k - 1) : g[i] = IF i = 1 THEN ss[i] ELSE g[i - 1] \o ss[i]
      BY <2>1
    <2>3. \A i \in 1..(k - 1) : h[i] = g[i] /\ i # k
      OBVIOUS
    <2>4. h[k] = IF k = 1 THEN ss[k] ELSE g[k - 1] \o ss[k]
      OBVIOUS
    <2>5. ASSUME NEW i \in 1..k
          PROVE  h[i] = IF i = 1 THEN ss[i] ELSE h[i - 1] \o ss[i]
      <3>1. i # 1 => i - 1 \in 1..(k - 1)
        OBVIOUS
      <3>2. CASE i = k
        BY <2>3, <2>4, <3>1, <3>2
      <3>3. CASE i # k
        <4>1. i \in 1..(k - 1)
          BY <3>3
        <4> QED
          BY <2>2, <2>3, <3>1, <4>1
      <3> QED
        BY <3>2, <3>3
    <2>6. h = [i \in 1..k |-> h[i]]
      OBVIOUS
    <2> HIDE DEF h
    <2>7. Is(h, k)
      BY <2>5, <2>6
    <2> HIDE DEF Is
    <2> QED
      BY <2>7
  <1>4. L \in S
    <2>1. L \in Nat /\ L \in 0..L
      OBVIOUS
    <2> HIDE DEF S, L
    <2> QED
      BY <1>2, <1>3, <2>1, UpTo
  <1>5. Is(flatten, L)
    <2> HIDE DEF Is
    <2> QED
      BY <1>4
  <1> QED
    BY <1>1, <1>5

\* One more sequence is put at the end.
LEMMA FlattenAppend ==
  ASSUME NEW X, NEW ss \in Seq(Seq(X)), NEW s \in Seq(X)
  PROVE  Ext!FlattenSeq(Append(ss, s)) = Ext!FlattenSeq(ss) \o s
  <1> DEFINE L == Len(ss)
             tt == Append(ss, s)
  <1>1. /\ L \in Nat /\ Len(tt) = L + 1 /\ tt[L + 1] = s
        /\ \A i \in 1..L : tt[i] = ss[i]
    OBVIOUS
  <1> HIDE DEF tt
  <1>2. PICK g : /\ g = [i \in 1..(L + 1) |-> IF i = 1 THEN tt[i] ELSE g[i - 1] \o tt[i]]
                 /\ Ext!FlattenSeq(tt) = g[L + 1]
    <2>1. Len(tt) \in Nat /\ Len(tt) # 0
      BY <1>1
    <2> QED
      BY <1>1, <2>1, FlattenRecursion
  <1>3. CASE L = 0
    <2>1. ss = <<>> /\ Ext!FlattenSeq(ss) = <<>>
      BY <1>3, FlattenEmpty
    <2>2. g[1] = tt[1] /\ tt[1] = s
      BY <1>1, <1>2, <1>3
    <2>3. <<>> \o s = s
      BY ConcatEmptySeq
    <2> QED
      BY <1>2, <1>3, <2>1, <2>2, <2>3 DEF tt
  <1>4. CASE L # 0
    <2>1. PICK f : /\ f = [i \in 1..L |-> IF i = 1 THEN ss[i] ELSE f[i - 1] \o ss[i]]
                   /\ Ext!FlattenSeq(ss) = f[L]
      BY <1>1, <1>4, FlattenRecursion
    <2> HIDE DEF L
    <2> DEFINE S == {0} \cup {i \in 1..L : g[i] = f[i]}
    <2>2. ASSUME NEW k \in 1..L, k - 1 \in S
          PROVE  k \in S
      <3>1. k \in 1..(L + 1) /\ k \in Nat /\ tt[k] = ss[k]
        BY <1>1
      <3>2. /\ g[k] = IF k = 1 THEN tt[k] ELSE g[k - 1] \o tt[k]
            /\ f[k] = IF k = 1 THEN ss[k] ELSE f[k - 1] \o ss[k]
        BY <1>2, <2>1, <3>1
      <3>3. k # 1 => g[k - 1] = f[k - 1]
        BY <2>2, <3>1
      <3>4. g[k] = f[k]
        BY <3>1, <3>2, <3>3
      <3> QED
        BY <3>4
    <2>3. L \in 0..L /\ L \in 1..L /\ L # 0 /\ 0 \in S
      BY <1>1, <1>4
    <2>4. L \in S
      <3> HIDE DEF S
      <3> QED
        BY <1>1, <2>2, <2>3, UpTo
    <2>5. g[L] = f[L]
      BY <2>3, <2>4
    <2>6. g[L + 1] = g[L] \o tt[L + 1]
      <3>1. L + 1 \in 1..(L + 1) /\ L + 1 # 1 /\ (L + 1) - 1 = L
        BY <1>1, <2>3
      <3> QED
        BY <1>2, <3>1
    <2> QED
      BY <1>1, <1>2, <2>1, <2>5, <2>6 DEF tt
  <1> QED
    BY <1>3, <1>4
-----------------------------------------------------------------------------
(* Substitution                                                            *)

\* What Replace and Simultaneous have in common: every element x of text gives
\* way to by[x].
Substitute(text, by) == Ext!FlattenSeq([i \in DOMAIN text |-> by[text[i]]])

LEMMA SubstituteEmpty ==
  ASSUME NEW by
  PROVE  Substitute(<<>>, by) = <<>>
  <1>1. [i \in DOMAIN <<>> |-> by[<<>>[i]]] = <<>>
    OBVIOUS
  <1> QED
    BY <1>1, FlattenEmpty DEF Substitute

LEMMA SubstituteAppend ==
  ASSUME NEW X, NEW by \in [X -> Seq(X)], NEW text \in Seq(X), NEW x \in X
  PROVE  Substitute(Append(text, x), by) = Substitute(text, by) \o by[x]
  <1> DEFINE L == Len(text)
             longer == Append(text, x)
             ss == [i \in 1..L |-> by[text[i]]]
             tt == [i \in 1..(L + 1) |-> by[longer[i]]]
  <1>1. /\ L \in Nat /\ DOMAIN text = 1..L /\ \A i \in 1..L : text[i] \in X
        /\ DOMAIN longer = 1..(L + 1) /\ longer[L + 1] = x
        /\ \A i \in 1..L : longer[i] = text[i]
    OBVIOUS
  <1> HIDE DEF L, longer
  <1>2. ss \in [1..L -> Seq(X)]
    BY <1>1
  <1>3. ss \in Seq(Seq(X)) /\ Len(ss) = L /\ by[x] \in Seq(X)
    <2>1. \A i \in 1..L : ss[i] = by[text[i]]
      OBVIOUS
    <2> HIDE DEF ss
    <2> QED
      BY <1>1, <1>2, SeqDef
  <1>4. tt = Append(ss, by[x])
    <2> DEFINE q == Append(ss, by[x])
    <2>1. /\ DOMAIN q = 1..(L + 1) /\ q[L + 1] = by[x]
          /\ \A i \in 1..L : q[i] = ss[i]
          /\ q \in Seq(Seq(X)) /\ Len(q) = L + 1
      <3> HIDE DEF ss
      <3> QED
        BY <1>1, <1>3, AppendProperties
    <2> HIDE DEF q
    <2>2. q = [i \in 1..(L + 1) |-> q[i]]
      BY <2>1
    <2>3. \A i \in 1..(L + 1) : i = L + 1 \/ i \in 1..L
      BY <1>1
    <2>4. \A i \in 1..(L + 1) : q[i] = by[longer[i]]
      BY <1>1, <2>1, <2>3
    <2>5. q = tt
      BY <2>2, <2>4
    <2> QED
      BY <2>5 DEF q
  <1>5. Substitute(text, by) = Ext!FlattenSeq(ss)
    BY <1>1 DEF Substitute
  <1>6. Substitute(longer, by) = Ext!FlattenSeq(tt)
    BY <1>1 DEF Substitute
  <1> HIDE DEF ss, tt
  <1>7. Ext!FlattenSeq(tt) = Ext!FlattenSeq(ss) \o by[x]
    BY <1>3, <1>4, FlattenAppend
  <1> QED
    BY <1>5, <1>6, <1>7 DEF longer

LEMMA SubstituteIsSequence ==
  ASSUME NEW X, NEW by \in [X -> Seq(X)], NEW text \in Seq(X)
  PROVE  Substitute(text, by) \in Seq(X)
  <1> DEFINE P == {s \in Seq(X) : Substitute(s, by) \in Seq(X)}
  <1>1. <<>> \in P
    <2>1. Substitute(<<>>, by) = <<>> /\ <<>> \in Seq(X)
      BY SubstituteEmpty
    <2> QED
      BY <2>1
  <1>2. ASSUME NEW s \in Seq(X), NEW x \in X, s \in P
        PROVE  Append(s, x) \in P
    <2>1. by[x] \in Seq(X) /\ Append(s, x) \in Seq(X) /\ Substitute(s, by) \in Seq(X)
      BY <1>2
    <2>2. Substitute(s, by) \o by[x] \in Seq(X)
      BY <2>1, ConcatProperties
    <2> QED
      BY <2>1, <2>2, SubstituteAppend
  <1> HIDE DEF P
  <1>3. Seq(X) \subseteq P
    BY <1>1, <1>2, SequencesFrom
  <1> QED
    BY <1>3 DEF P

LEMMA SubstituteConcat ==
  ASSUME NEW X, NEW by \in [X -> Seq(X)], NEW text \in Seq(X), NEW more \in Seq(X)
  PROVE  Substitute(text \o more, by) = Substitute(text, by) \o Substitute(more, by)
  <1>A. \A a, b, c \in Seq(X) : (a \o b) \o c = a \o (b \o c)
    OBVIOUS
  <1> DEFINE P == {s \in Seq(X) : Substitute(text \o s, by)
                                    = Substitute(text, by) \o Substitute(s, by)}
  <1>0. Substitute(text, by) \in Seq(X)
    BY SubstituteIsSequence
  <1>1. <<>> \in P
    <2>1. text \o <<>> = text /\ Substitute(text, by) \o <<>> = Substitute(text, by)
      BY <1>0, ConcatEmptySeq
    <2>2. Substitute(<<>>, by) = <<>> /\ <<>> \in Seq(X)
      BY SubstituteEmpty
    <2> QED
      BY <2>1, <2>2
  <1>2. ASSUME NEW s \in Seq(X), NEW x \in X, s \in P
        PROVE  Append(s, x) \in P
    <2>1. /\ text \o s \in Seq(X) /\ Append(s, x) \in Seq(X)
          /\ text \o Append(s, x) = Append(text \o s, x)
      BY ConcatProperties
    <2>2. Substitute(text \o Append(s, x), by) = Substitute(text \o s, by) \o by[x]
      BY <2>1, SubstituteAppend
    <2>3. Substitute(text \o s, by) = Substitute(text, by) \o Substitute(s, by)
      BY <1>2
    <2>4. Substitute(Append(s, x), by) = Substitute(s, by) \o by[x]
      BY SubstituteAppend
    <2>5. Substitute(s, by) \in Seq(X) /\ by[x] \in Seq(X)
      BY SubstituteIsSequence
    <2>6. (Substitute(text, by) \o Substitute(s, by)) \o by[x]
            = Substitute(text, by) \o (Substitute(s, by) \o by[x])
      <3> DEFINE a == Substitute(text, by)
                 b == Substitute(s, by)
                 c == by[x]
      <3>1. a \in Seq(X) /\ b \in Seq(X) /\ c \in Seq(X)
        BY <1>0, <2>5
      <3> HIDE DEF a, b, c
      <3>2. (a \o b) \o c = a \o (b \o c)
        BY <3>1, <1>A
      <3> QED
        BY <3>2 DEF a, b, c
    <2> QED
      BY <2>1, <2>2, <2>3, <2>4, <2>6
  <1> HIDE DEF P
  <1>3. Seq(X) \subseteq P
    BY <1>1, <1>2, SequencesFrom
  <1> QED
    BY <1>3 DEF P

\* One substitution after another is one that substitutes in what is put in.
Composed(X, by, then) == [x \in X |-> Substitute(by[x], then)]

LEMMA SubstituteTwice ==
  ASSUME NEW X, NEW by \in [X -> Seq(X)], NEW then \in [X -> Seq(X)],
         NEW text \in Seq(X)
  PROVE  Substitute(Substitute(text, by), then)
           = Substitute(text, Composed(X, by, then))
  <1> DEFINE both == Composed(X, by, then)
             P == {s \in Seq(X) : Substitute(Substitute(s, by), then)
                                    = Substitute(s, both)}
  <1>0. both \in [X -> Seq(X)]
    BY SubstituteIsSequence DEF Composed
  <1>1. <<>> \in P
    BY SubstituteEmpty
  <1>2. ASSUME NEW s \in Seq(X), NEW x \in X, s \in P
        PROVE  Append(s, x) \in P
    <2>0. Append(s, x) \in Seq(X) /\ by[x] \in Seq(X)
      OBVIOUS
    <2>1. Append(s, x) \in Seq(X) /\ Substitute(s, by) \in Seq(X) /\ by[x] \in Seq(X)
      BY <2>0, SubstituteIsSequence
    <2>2. Substitute(Append(s, x), by) = Substitute(s, by) \o by[x]
      BY SubstituteAppend
    <2>3. Substitute(Substitute(s, by) \o by[x], then)
            = Substitute(Substitute(s, by), then) \o Substitute(by[x], then)
      BY <2>1, SubstituteConcat
    <2>4. Substitute(Substitute(s, by), then) = Substitute(s, both)
      BY <1>2
    <2>5. both[x] = Substitute(by[x], then)
      BY DEF Composed
    <2> HIDE DEF both
    <2>6. Substitute(Append(s, x), both) = Substitute(s, both) \o both[x]
      BY <1>0, SubstituteAppend
    <2> QED
      BY <2>1, <2>2, <2>3, <2>4, <2>5, <2>6
  <1> HIDE DEF P
  <1>3. Seq(X) \subseteq P
    BY <1>1, <1>2, SequencesFrom
  <1> QED
    BY <1>3 DEF P

\* A text of which every element gives way to itself.
Untouched(text, by) == \A i \in DOMAIN text : by[text[i]] = <<text[i]>>

LEMMA SubstituteNothing ==
  ASSUME NEW X, NEW by \in [X -> Seq(X)], NEW text \in Seq(X),
         Untouched(text, by)
  PROVE  Substitute(text, by) = text
  <1> DEFINE P == {s \in Seq(X) : Untouched(s, by) => Substitute(s, by) = s}
  <1>1. <<>> \in P
    BY SubstituteEmpty
  <1>2. ASSUME NEW s \in Seq(X), NEW x \in X, s \in P
        PROVE  Append(s, x) \in P
    <2> DEFINE longer == Append(s, x)
    <2>1. /\ longer \in Seq(X) /\ DOMAIN longer = 1..(Len(s) + 1)
          /\ DOMAIN s = 1..Len(s) /\ Len(s) \in Nat
          /\ longer[Len(s) + 1] = x /\ \A i \in 1..Len(s) : longer[i] = s[i]
          /\ longer = s \o <<x>>
      OBVIOUS
    <2>2. Substitute(longer, by) = Substitute(s, by) \o by[x]
      BY SubstituteAppend
    <2> HIDE DEF longer
    <2>3. ASSUME Untouched(longer, by)
          PROVE  Substitute(longer, by) = longer
      <3>1. \A i \in 1..Len(s) : i \in 1..(Len(s) + 1)
        BY <2>1
      <3>2. Len(s) + 1 \in 1..(Len(s) + 1)
        BY <2>1
      <3>3. Untouched(s, by) /\ by[x] = <<x>>
        BY <2>1, <2>3, <3>1, <3>2 DEF Untouched
      <3> QED
        BY <1>2, <2>1, <2>2, <3>3
    <2> QED
      BY <2>1, <2>3 DEF longer
  <1> HIDE DEF P
  <1>3. Seq(X) \subseteq P
    BY <1>1, <1>2, SequencesFrom
  <1> QED
    BY <1>3 DEF P

-----------------------------------------------------------------------------
(* Interpolation                                                           *)

\* What is put for the token x when text gets value for key.
PutOne(key, value) == [x \in 0..Keys |-> IF x = key THEN value ELSE <<x>>]

\* What is put for it when all keys up to k are replaced at once.
PutAll(values, k) ==
  [x \in 0..Keys |-> IF x \in DOMAIN values /\ x <= k THEN values[x] ELSE <<x>>]

\* A table of the texts to put in: its keys are keys, its values texts.
IsTable(values) ==
  /\ DOMAIN values \subseteq 1..Keys
  /\ \A k \in DOMAIN values : values[k] \in Text

LEMMA TokensAreTexts ==
  ASSUME NEW x \in 0..Keys
  PROVE  <<x>> \in Text
  BY DEF Text

\* A text that has nothing to put in.
LEMMA NothingToPut ==
  ASSUME NEW text \in Text, NEW by \in [0..Keys -> Text],
         Untouched(text, by)
  PROVE  Substitute(text, by) = text
  <1> DEFINE X == 0..Keys
  <1>1. by \in [X -> Seq(X)] /\ text \in Seq(X)
    BY DEF Text
  <1> HIDE DEF X
  <1> QED
    BY <1>1, SubstituteNothing

LEMMA PutOneType ==
  ASSUME NEW key, NEW value \in Text
  PROVE  PutOne(key, value) \in [0..Keys -> Text]
  BY TokensAreTexts DEF PutOne

LEMMA PutAllType ==
  ASSUME NEW values, NEW k, IsTable(values)
  PROVE  PutAll(values, k) \in [0..Keys -> Text]
  BY TokensAreTexts DEF PutAll, IsTable

LEMMA ReplaceSubstitutes ==
  ASSUME Keys \in Nat, NEW text \in Text, NEW key, NEW value
  PROVE  Replace(text, key, value) = Substitute(text, PutOne(key, value))
  <1>1. \A i \in DOMAIN text : text[i] \in 0..Keys
    BY SMTT(30) DEF Text
  <1>2. [i \in DOMAIN text |-> IF text[i] = key THEN value ELSE <<text[i]>>]
          = [i \in DOMAIN text |-> PutOne(key, value)[text[i]]]
    BY <1>1 DEF PutOne
  <1> QED
    BY <1>2 DEF Replace, Substitute

LEMMA SimultaneousSubstitutes ==
  ASSUME Keys \in Nat, NEW text \in Text, NEW values, IsTable(values)
  PROVE  Simultaneous(text, values) = Substitute(text, PutAll(values, Keys))
  <1>1. \A i \in DOMAIN text : text[i] \in 0..Keys /\ text[i] <= Keys
    BY DEF Text
  <1>2. \A i \in DOMAIN text :
          PutAll(values, Keys)[text[i]]
            = IF text[i] \in DOMAIN values THEN values[text[i]] ELSE <<text[i]>>
    BY <1>1 DEF PutAll
  <1>3. [i \in DOMAIN text |-> IF text[i] \in DOMAIN values THEN values[text[i]]
                               ELSE <<text[i]>>]
          = [i \in DOMAIN text |-> PutAll(values, Keys)[text[i]]]
    BY <1>2
  <1> QED
    BY <1>3 DEF Simultaneous, Substitute

\* Interpolate is the last value of a function that satisfies its recursion.
LEMMA InterpolateRecursion ==
  ASSUME Keys \in Nat, NEW template, NEW values
  PROVE  \E upTo :
           /\ upTo = [k \in 0..Keys |->
                        IF k = 0 THEN template
                        ELSE IF k \in DOMAIN values
                             THEN Replace(upTo[k - 1], k, values[k])
                             ELSE upTo[k - 1]]
           /\ Interpolate(template, values) = upTo[Keys]
  <1> DEFINE Step(k, text) == IF k \in DOMAIN values
                              THEN Replace(text, k, values[k]) ELSE text
             Is(g, n) == g = [k \in 0..n |-> IF k = 0 THEN template
                                             ELSE IF k \in DOMAIN values
                                             THEN Replace(g[k - 1], k, values[k])
                                             ELSE g[k - 1]]
             S == {n \in 0..Keys : \E g : Is(g, n)}
             upTo == CHOOSE g : Is(g, Keys)
  <1>1. Interpolate(template, values) = upTo[Keys]
    BY DEF Interpolate
  <1>2. 0 \in S
    <2> DEFINE g == [k \in 0..0 |-> template]
    <2>1. \A k \in 0..0 : k = 0
      OBVIOUS
    <2>2. Is(g, 0)
      BY <2>1
    <2>3. 0 \in 0..Keys
      OBVIOUS
    <2> HIDE DEF Is, g
    <2> QED
      BY <2>2, <2>3
  <1>3. ASSUME NEW n \in 1..Keys, n - 1 \in S
        PROVE  n \in S
    <2>1. PICK g : Is(g, n - 1)
      BY <1>3
    <2> DEFINE h == [k \in 0..n |-> IF k = n THEN Step(k, g[k - 1]) ELSE g[k]]
    <2>2. \A k \in 0..(n - 1) : g[k] = IF k = 0 THEN template ELSE Step(k, g[k - 1])
      BY <2>1
    <2> HIDE DEF Step
    <2>3. \A k \in 0..(n - 1) : h[k] = g[k] /\ k # n
      OBVIOUS
    <2>4. h[n] = Step(n, g[n - 1])
      OBVIOUS
    <2>5. ASSUME NEW k \in 0..n
          PROVE  h[k] = IF k = 0 THEN template ELSE Step(k, h[k - 1])
      <3>1. k # 0 => k - 1 \in 0..(n - 1)
        OBVIOUS
      <3>2. CASE k = n
        <4>1. k # 0
          BY <3>2
        <4> QED
          BY <2>3, <2>4, <3>1, <3>2, <4>1
      <3>3. CASE k # n
        <4>1. k \in 0..(n - 1)
          BY <3>3
        <4> QED
          BY <2>2, <2>3, <3>1, <4>1
      <3> QED
        BY <3>2, <3>3
    <2>6. h = [k \in 0..n |-> h[k]]
      OBVIOUS
    <2> HIDE DEF h
    <2>7. Is(h, n)
      BY <2>5, <2>6 DEF Step
    <2> HIDE DEF Is
    <2>8. n \in 0..Keys
      OBVIOUS
    <2> QED
      BY <2>7, <2>8
  <1>4. Keys \in S
    <2>1. Keys \in 0..Keys
      OBVIOUS
    <2> HIDE DEF S
    <2> QED
      BY <1>2, <1>3, <2>1, UpTo
  <1>5. Is(upTo, Keys)
    <2> HIDE DEF Is
    <2> QED
      BY <1>4
  <1> QED
    BY <1>1, <1>5

\* The next key is put into what the keys before have given: into the template
\* alone, because no value holds a key that comes after it.
LEMMA NextKey ==
  ASSUME Keys \in Nat, NEW values, IsTable(values), Independent(values),
         NEW k \in 1..Keys, k \in DOMAIN values, NEW x \in 0..Keys
  PROVE  Substitute(PutAll(values, k - 1)[x], PutOne(k, values[k]))
           = PutAll(values, k)[x]
  <1> DEFINE put == PutOne(k, values[k])
             before == PutAll(values, k - 1)[x]
  <1>1. values[k] \in Text /\ put \in [0..Keys -> Text]
    BY PutOneType DEF IsTable
  <1>2. \A y \in 0..Keys : y # k => put[y] = <<y>>
    BY DEF PutOne
  <1>3. put[k] = values[k]
    BY DEF PutOne
  <1>4. before \in Text
    BY PutAllType
  <1>5. CASE x = k
    <2>1. ~(k <= k - 1) /\ k <= k
      OBVIOUS
    <2>2. before = <<k>> /\ PutAll(values, k)[x] = values[k]
      BY <1>5, <2>1 DEF PutAll
    <2>3. <<k>> = Append(<<>>, k) /\ <<>> \in Text /\ k \in 0..Keys
      BY DEF Text
    <2> HIDE DEF put, before
    <2>4. Substitute(<<k>>, put) = Substitute(<<>>, put) \o put[k]
      BY <1>1, <2>3, SubstituteAppend DEF Text
    <2>5. Substitute(<<>>, put) = <<>>
      BY SubstituteEmpty
    <2>6. <<>> \o put[k] = values[k]
      BY <1>1, <1>3, ConcatEmptySeq DEF Text
    <2>7. Substitute(before, put) = PutAll(values, k)[x]
      BY <2>2, <2>4, <2>5, <2>6
    <2> QED
      BY <2>7 DEF put, before
  <1>6. CASE x # k
    <2>1. x <= k - 1 <=> x <= k
      BY <1>6
    <2>2. before = PutAll(values, k)[x]
      BY <2>1 DEF PutAll
    <2>3. \A i \in DOMAIN before : before[i] # k
      <3>1. CASE x \in DOMAIN values /\ x <= k - 1
        <4>1. before = values[x]
          BY <3>1 DEF PutAll
        <4>2. \A i \in DOMAIN values[x] : values[x][i] \in DOMAIN values => values[x][i] <= x
          BY <3>1 DEF Independent
        <4>3. ~(k <= x)
          BY <3>1
        <4> HIDE DEF before
        <4> QED
          BY <4>1, <4>2, <4>3
      <3>2. CASE ~(x \in DOMAIN values /\ x <= k - 1)
        <4>1. before = <<x>>
          BY <3>2 DEF PutAll
        <4> HIDE DEF before
        <4> QED
          BY <1>6, <4>1
      <3> QED
        BY <3>1, <3>2
    <2> HIDE DEF put, before
    <2>4. \A i \in DOMAIN before : before[i] \in 0..Keys
      BY <1>4 DEF Text
    <2>5. \A i \in DOMAIN before : put[before[i]] = <<before[i]>>
      BY <1>2, <2>3, <2>4
    <2>6. Substitute(before, put) = before
      BY <1>1, <1>4, <2>5, NothingToPut DEF Untouched
    <2> QED
      BY <2>2, <2>6 DEF put, before
  <1> QED
    BY <1>5, <1>6

\* Unless a value holds a placeholder that is replaced after it, one key after
\* the other gives what all at once give (interpolate in config_loader.rs).
THEOREM InterpolationIsSimultaneous ==
  ASSUME NEW template \in Text, NEW values,
         IsTable(values), Independent(values)
  PROVE  Interpolate(template, values) = Simultaneous(template, values)
  <1>0. Keys \in Nat
    BY CrewAssumption
  <1> USE <1>0
  <1>1. PICK upTo :
          /\ upTo = [k \in 0..Keys |->
                       IF k = 0 THEN template
                       ELSE IF k \in DOMAIN values
                            THEN Replace(upTo[k - 1], k, values[k])
                            ELSE upTo[k - 1]]
          /\ Interpolate(template, values) = upTo[Keys]
    BY InterpolateRecursion
  <1>2. \A k \in 0..Keys :
          upTo[k] = IF k = 0 THEN template
                    ELSE IF k \in DOMAIN values
                         THEN Replace(upTo[k - 1], k, values[k])
                         ELSE upTo[k - 1]
    BY <1>1
  <1> DEFINE S == {k \in 0..Keys : upTo[k] = Substitute(template, PutAll(values, k))}
  <1>3. 0 \in S
    <2>1. 0 \in 0..Keys /\ upTo[0] = template
      BY <1>2
    <2>2. \A x \in 0..Keys : ~(x \in DOMAIN values /\ x <= 0)
      BY DEF IsTable
    <2>3. \A i \in DOMAIN template : PutAll(values, 0)[template[i]] = <<template[i]>>
      BY <2>2 DEF PutAll, Text
    <2>4. PutAll(values, 0) \in [0..Keys -> Text]
      BY PutAllType
    <2>5. Substitute(template, PutAll(values, 0)) = template
      BY <2>3, <2>4, NothingToPut DEF Untouched
    <2> QED
      BY <2>1, <2>5
  <1>4. ASSUME NEW k \in 1..Keys, k - 1 \in S
        PROVE  k \in S
    <2>1. k \in 0..Keys /\ k # 0 /\ k - 1 \in 0..Keys
      OBVIOUS
    <2>2. upTo[k - 1] = Substitute(template, PutAll(values, k - 1))
      BY <1>4
    <2>3. PutAll(values, k - 1) \in [0..Keys -> Text]
      BY PutAllType
    <2>4. CASE k \in DOMAIN values
      <3>1. upTo[k] = Replace(upTo[k - 1], k, values[k])
        BY <1>2, <2>1, <2>4
      <3>2. upTo[k - 1] \in Text
        BY <2>2, <2>3, SubstituteIsSequence DEF Text
      <3>3. upTo[k] = Substitute(upTo[k - 1], PutOne(k, values[k]))
        BY <3>1, <3>2, ReplaceSubstitutes
      <3>4. PutOne(k, values[k]) \in [0..Keys -> Text]
        BY <2>4, PutOneType DEF IsTable
      <3>5. upTo[k] = Substitute(template,
                                 [x \in 0..Keys |->
                                    Substitute(PutAll(values, k - 1)[x],
                                               PutOne(k, values[k]))])
        <4> DEFINE X == 0..Keys
                   first == PutAll(values, k - 1)
                   put == PutOne(k, values[k])
        <4>1. upTo[k] = Substitute(Substitute(template, first), put)
          BY <2>2, <3>3
        <4>2. first \in [X -> Seq(X)] /\ put \in [X -> Seq(X)] /\ template \in Seq(X)
          BY <2>3, <3>4 DEF Text
        <4> HIDE DEF first, put, X, S
        <4>3. Substitute(Substitute(template, first), put)
                = Substitute(template, Composed(X, first, put))
          BY <4>2, SubstituteTwice
        <4>4. upTo[k] = Substitute(template, Composed(X, first, put))
          BY <4>1, <4>3
        <4> QED
          BY <4>4 DEF first, put, X, Composed
      <3>6. [x \in 0..Keys |-> Substitute(PutAll(values, k - 1)[x], PutOne(k, values[k]))]
              = [x \in 0..Keys |-> PutAll(values, k)[x]]
        BY <2>4, NextKey
      <3>7. [x \in 0..Keys |-> PutAll(values, k)[x]] = PutAll(values, k)
        BY DEF PutAll
      <3> QED
        BY <2>1, <3>5, <3>6, <3>7
    <2>5. CASE k \notin DOMAIN values
      <3>1. upTo[k] = upTo[k - 1]
        BY <1>2, <2>1, <2>5
      <3>2. \A x \in 0..Keys : x \in DOMAIN values /\ x <= k - 1
                               <=> x \in DOMAIN values /\ x <= k
        BY <2>5
      <3>3. PutAll(values, k - 1) = PutAll(values, k)
        BY <3>2 DEF PutAll
      <3> QED
        BY <2>1, <2>2, <3>1, <3>3
    <2> QED
      BY <2>4, <2>5
  <1>5. Keys \in 0..Keys
    OBVIOUS
  <1>6. Keys \in S
    <2> HIDE DEF S
    <2> QED
      BY <1>3, <1>4, <1>5, UpTo
  <1>7. upTo[Keys] = Substitute(template, PutAll(values, Keys))
    BY <1>6
  <1> QED
    BY <1>1, <1>7, SimultaneousSubstitutes

-----------------------------------------------------------------------------
(* Crews                                                                   *)

\* The fields of an input that a crew or the environment changes.
HasInputFields(input) ==
  DOMAIN input = {"model", "approval_policy", "web_search_mode", "instructions",
                  "user_message", "crew_agents"}

LEMMA BaseInputFields ==
  ASSUME NEW model, NEW policy, NEW web
  PROVE  /\ HasInputFields(BaseInput(model, policy, web))
         /\ BaseInput(model, policy, web).approval_policy = policy
         /\ Members(DefaultCrew) \subseteq
              DOMAIN BaseInput(model, policy, web).crew_agents
  <1> DEFINE agents == [a \in Members(DefaultCrew) |-> DefaultCrew.agents[a]]
  <1>1. BaseInput(model, policy, web)
          = [model |-> model, approval_policy |-> policy, web_search_mode |-> web,
             instructions |-> <<Literal>>, user_message |-> <<>>,
             crew_agents |-> agents]
    BY DEF BaseInput
  <1>2. Members(DefaultCrew) \subseteq DOMAIN agents
    OBVIOUS
  <1> HIDE DEF agents
  <1> QED
    BY <1>1, <1>2 DEF HasInputFields

LEMMA ApplyEnvFields ==
  ASSUME NEW input, NEW env, HasInputFields(input)
  PROVE  /\ HasInputFields(ApplyEnv(input, env))
         /\ ApplyEnv(input, env).approval_policy =
              IF env.approval_policy \in {"never", "untrusted", "on-failure"}
              THEN env.approval_policy ELSE input.approval_policy
         /\ ApplyEnv(input, env).crew_agents = input.crew_agents
  BY DEF HasInputFields, ApplyEnv

LEMMA CrewsAreCrews ==
  ASSUME NEW name, LoadCrew(name) # NONE
  PROVE  IsCrew(LoadCrew(name))
  <1>1. CASE name \in DOMAIN CrewFiles
    BY <1>1, CrewAssumption DEF LoadCrew
  <1>2. CASE name \notin DOMAIN CrewFiles
    <2>1. LoadCrew(name) = DefaultCrew
      BY <1>2 DEF LoadCrew
    <2>2. \A m, i : DOMAIN Agent(m, i) = {"model", "instructions"}
                    /\ Agent(m, i).instructions = i
      BY DEF Agent
    <2>3. /\ DefaultCrew.inputs = <<>>
          /\ DefaultCrew.initial_prompt = NONE
          /\ \A a \in DOMAIN DefaultCrew.agents :
               DefaultCrew.agents[a] = Agent(NONE, NONE)
      BY DEF DefaultCrew
    <2>4. DOMAIN DefaultCrew.inputs = {}
      BY <2>3
    <2> QED
      BY <2>1, <2>2, <2>3, <2>4 DEF IsCrew, IsTextOrNone
  <1> QED
    BY <1>1, <1>2

LEMMA ValuesAreTexts ==
  ASSUME NEW crew, NEW given, IsCrew(crew),
         \A k \in DOMAIN given : given[k] \in Text
  PROVE  IsTable(Values(crew, given))
  <1> DEFINE known == {k \in DOMAIN crew.inputs :
                         k \in DOMAIN given \/ crew.inputs[k].default # NONE}
             values == [k \in known |-> IF k \in DOMAIN given THEN given[k]
                                        ELSE crew.inputs[k].default]
  <1>1. known \subseteq 1..Keys
    BY DEF IsCrew
  <1>2. \A k \in known : values[k] \in Text
    BY DEF IsCrew, IsTextOrNone
  <1>3. Values(crew, given) = values
    BY DEF Values
  <1>4. DOMAIN values = known
    OBVIOUS
  <1> HIDE DEF values, known
  <1> QED
    BY <1>1, <1>2, <1>3, <1>4 DEF IsTable

\* What apply_crew_type makes of an input.
LEMMA ApplyCrewFields ==
  ASSUME NEW crew, NEW given, NEW input, IsCrew(crew), HasInputFields(input),
         NEW result, result = ApplyCrew(crew, given, input), result # NONE
  PROVE  /\ Missing(crew, given) = {}
         /\ result.approval_policy = IF crew.approval_policy # NONE
                                     THEN crew.approval_policy
                                     ELSE input.approval_policy
         /\ crew.mode = "autonomous" /\ crew.initial_prompt # NONE =>
              result.user_message = Interpolate(crew.initial_prompt, Values(crew, given))
         /\ crew.main_agent \in DOMAIN crew.agents =>
              LET main == crew.agents[crew.main_agent]
              IN /\ main.model \in {NONE, result.model}
                 /\ main.instructions # NONE =>
                      result.instructions =
                        Interpolate(main.instructions, Values(crew, given))
         /\ \A a \in Members(crew) :
              /\ result.crew_agents[a].model = crew.agents[a].model
              /\ result.crew_agents[a].instructions =
                   Interpolated(crew.agents[a].instructions, Values(crew, given))
         /\ DOMAIN input.crew_agents \subseteq DOMAIN result.crew_agents
  <1> DEFINE values == Values(crew, given)
             main == IF crew.main_agent \in DOMAIN crew.agents
                     THEN crew.agents[crew.main_agent] ELSE Agent(NONE, NONE)
             members == [a \in Members(crew) |->
                           [crew.agents[a] EXCEPT
                              !.instructions = Interpolated(@, values)]]
             policy == IF crew.approval_policy # NONE THEN crew.approval_policy
                       ELSE input.approval_policy
             model == IF main.model # NONE THEN main.model ELSE input.model
             instructions == IF main.instructions # NONE
                             THEN Interpolate(main.instructions, values)
                             ELSE input.instructions
             message == IF crew.mode = "autonomous" /\ crew.initial_prompt # NONE
                        THEN Interpolate(crew.initial_prompt, values)
                        ELSE input.user_message
             agents == [a \in Members(crew) \cup DOMAIN input.crew_agents |->
                          IF a \in Members(crew) THEN members[a]
                          ELSE input.crew_agents[a]]
  <1>1. Missing(crew, given) = {}
    BY DEF ApplyCrew
  <1>2. result = [input EXCEPT !.approval_policy = policy, !.model = model,
                               !.instructions = instructions,
                               !.user_message = message, !.crew_agents = agents]
    BY <1>1 DEF ApplyCrew
  <1>3. ASSUME NEW a \in Members(crew)
        PROVE  /\ agents[a].model = crew.agents[a].model
               /\ agents[a].instructions
                    = Interpolated(crew.agents[a].instructions, values)
    <2>1. agents[a] = [crew.agents[a] EXCEPT
                         !.instructions = Interpolated(@, values)]
      OBVIOUS
    <2>2. DOMAIN crew.agents[a] = {"model", "instructions"}
      BY DEF IsCrew, Members
    <2> HIDE DEF agents, values
    <2> QED
      BY <2>1, <2>2
  <1>4. DOMAIN input.crew_agents \subseteq DOMAIN agents
    OBVIOUS
  <1>5. crew.main_agent \in DOMAIN crew.agents =>
          /\ crew.agents[crew.main_agent].model \in {NONE, model}
          /\ crew.agents[crew.main_agent].instructions # NONE =>
               instructions = Interpolate(crew.agents[crew.main_agent].instructions,
                                          values)
    OBVIOUS
  <1>6. crew.mode = "autonomous" /\ crew.initial_prompt # NONE =>
          message = Interpolate(crew.initial_prompt, values)
    OBVIOUS
  <1> HIDE DEF agents, message, instructions, model, policy, members, main, values
  <1>7. /\ result.approval_policy = policy
        /\ result.model = model
        /\ result.instructions = instructions
        /\ result.user_message = message
        /\ result.crew_agents = agents
    BY <1>2 DEF HasInputFields
  <1> QED
    BY <1>1, <1>3, <1>4, <1>5, <1>6, <1>7 DEF policy, values
=============================================================================
