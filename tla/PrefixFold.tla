----------------------------- MODULE PrefixFold -----------------------------
(***************************************************************************)
(* A loop over a sequence: the prefixes of the sequence are what the loop   *)
(* has seen, a state is carried from one to the next.  Every use is an      *)
(* instance with the body of its loop as Step, so that what holds of any    *)
(* loop can be proved here once, by induction on the prefix, for every Step. *)
(***************************************************************************)
EXTENDS Naturals, Sequences, WellFoundedInduction, TLAPS

CONSTANT Step(_, _)     \* the state after one more element

\* The state after the last element.
Fold(base, seq) ==
    LET after[i \in 0..Len(seq)] == IF i = 0 THEN base ELSE Step(after[i - 1], seq[i])
    IN after[Len(seq)]

-----------------------------------------------------------------------------
\* The states after the first n elements.
States(base, seq, n, f) ==
    f = [i \in 0..n |-> IF i = 0 THEN base ELSE Step(f[i - 1], seq[i])]

\* Some naturals have a least one.
LEMMA LeastNat ==
    ASSUME NEW S \in SUBSET Nat, S # {}
    PROVE  \E x \in S : \A y \in S : x <= y
  <1> DEFINE R == OpToRel(<, Nat)
  <1>1. IsWellFoundedOn(R, Nat)
    BY NatLessThanWellFounded
  <1>2. \A x, y \in Nat : x < y => <<x, y>> \in R
    BY DEF OpToRel
  <1> HIDE DEF R
  <1>3. PICK x \in S : \A y \in S : ~ (<<y, x>> \in R)
    BY <1>1, WFMin
  <1>4. ASSUME NEW y \in S PROVE x <= y
    <2>1. x \in Nat /\ y \in Nat /\ ~(y < x)
      BY <1>2, <1>3
    <2> QED
      BY <2>1
  <1> QED
    BY <1>4

\* Induction over the naturals, for sets: the least number outside has a
\* predecessor inside.
LEMMA NatSets ==
    ASSUME NEW S, 0 \in S, \A n \in Nat : n \in S => n + 1 \in S
    PROVE  Nat \subseteq S
  <1> SUFFICES ASSUME Nat \ S # {} PROVE FALSE
    OBVIOUS
  <1>1. PICK x \in Nat \ S : \A y \in Nat \ S : x <= y
    <2> DEFINE T == Nat \ S
    <2>1. T \in SUBSET Nat /\ T # {}
      OBVIOUS
    <2> HIDE DEF T
    <2>2. \E x \in T : \A y \in T : x <= y
      BY <2>1, LeastNat
    <2> QED
      BY <2>2 DEF T
  <1>2. x # 0 /\ x - 1 \in Nat /\ ~(x <= x - 1) /\ (x - 1) + 1 = x
    OBVIOUS
  <1>3. x - 1 \in S
    BY <1>1, <1>2
  <1> QED
    BY <1>2, <1>3

\* Induction over the sequences, for sets.
LEMMA SeqSets ==
    ASSUME NEW A, NEW P, <<>> \in P,
           \A s \in Seq(A) : \A c \in A : s \in P => Append(s, c) \in P
    PROVE  Seq(A) \subseteq P
  <1> DEFINE S == {n \in Nat : \A s \in Seq(A) : Len(s) = n => s \in P}
  <1>1. 0 \in S
    <2>1. ASSUME NEW s \in Seq(A), Len(s) = 0 PROVE s = <<>>
      BY <2>1
    <2> QED
      BY <2>1
  <1>2. ASSUME NEW n \in Nat, n \in S PROVE n + 1 \in S
    <2> SUFFICES ASSUME NEW s \in Seq(A), Len(s) = n + 1 PROVE s \in P
      OBVIOUS
    <2> DEFINE t == SubSeq(s, 1, n)
               c == s[n + 1]
    <2>1. t \in Seq(A) /\ Len(t) = n /\ c \in A
      OBVIOUS
    <2>2. s = Append(t, c)
      OBVIOUS
    <2>3. t \in P
      BY <1>2, <2>1
    <2> HIDE DEF t, c
    <2> QED
      BY <2>1, <2>2, <2>3
  <1> HIDE DEF S
  <1>3. Nat \subseteq S
    BY <1>1, <1>2, NatSets
  <1>4. ASSUME NEW s \in Seq(A) PROVE s \in P
    <2>1. Len(s) \in S
      BY <1>3
    <2> QED
      BY <2>1 DEF S
  <1> QED
    BY <1>4

\* There is a sequence of states for every number of elements.
LEMMA StatesExist ==
    ASSUME NEW base, NEW seq, NEW n \in Nat
    PROVE  \E f : States(base, seq, n, f)
  <1> DEFINE S == {k \in Nat : \E f : States(base, seq, k, f)}
  <1>1. 0 \in S
    <2>1. States(base, seq, 0, [i \in 0..0 |-> base])
      BY DEF States
    <2> QED
      BY <2>1
  <1>2. ASSUME NEW k \in Nat, k \in S PROVE k + 1 \in S
    <2>1. PICK f : States(base, seq, k, f)
      BY <1>2
    <2> DEFINE g == [i \in 0..(k + 1) |-> IF i = k + 1 THEN Step(f[k], seq[k + 1]) ELSE f[i]]
    <2>2. \A i \in 0..k : f[i] = IF i = 0 THEN base ELSE Step(f[i - 1], seq[i])
      BY <2>1 DEF States
    <2>3. \A i \in 0..(k + 1) : g[i] = IF i = 0 THEN base ELSE Step(g[i - 1], seq[i])
      BY <2>2
    <2>4. States(base, seq, k + 1, g)
      BY <2>3 DEF States
    <2> QED
      BY <2>4
  <1> HIDE DEF S
  <1>3. n \in S
    BY <1>1, <1>2, NatSets
  <1> QED
    BY <1>3 DEF S

\* Sequences with a common prefix have the same states there.
LEMMA StatesAgree ==
    ASSUME NEW base, NEW s, NEW t, NEW m \in Nat, NEW n \in Nat, m <= n,
           \A i \in 1..m : s[i] = t[i],
           NEW f, States(base, s, m, f), NEW g, States(base, t, n, g)
    PROVE  f[m] = g[m]
  <1> DEFINE S == {k \in Nat : k <= m => f[k] = g[k]}
  <1>1. \A i \in 0..m : f[i] = IF i = 0 THEN base ELSE Step(f[i - 1], s[i])
    BY DEF States
  <1>2. \A i \in 0..n : g[i] = IF i = 0 THEN base ELSE Step(g[i - 1], t[i])
    BY DEF States
  <1>3. 0 \in S
    BY <1>1, <1>2
  <1>4. ASSUME NEW k \in Nat, k \in S PROVE k + 1 \in S
    <2> SUFFICES ASSUME k + 1 <= m PROVE f[k + 1] = g[k + 1]
      OBVIOUS
    <2>1. f[k] = g[k] /\ s[k + 1] = t[k + 1]
      BY <1>4
    <2>2. f[k + 1] = Step(f[k], s[k + 1])
      <3>1. k + 1 \in 0..m /\ k + 1 # 0 /\ (k + 1) - 1 = k
        OBVIOUS
      <3> QED
        BY <1>1, <3>1
    <2>3. g[k + 1] = Step(g[k], t[k + 1])
      <3>1. k + 1 \in 0..n /\ k + 1 # 0 /\ (k + 1) - 1 = k
        OBVIOUS
      <3> QED
        BY <1>2, <3>1
    <2> QED
      BY <2>1, <2>2, <2>3
  <1> HIDE DEF S
  <1>5. m \in S
    BY <1>3, <1>4, NatSets
  <1> QED
    BY <1>5 DEF S

\* Fold is the last of the states.
LEMMA FoldIsLast ==
    ASSUME NEW base, NEW seq, Len(seq) \in Nat, NEW f, States(base, seq, Len(seq), f)
    PROVE  Fold(base, seq) = f[Len(seq)]
  <1> DEFINE g == CHOOSE h : States(base, seq, Len(seq), h)
  <1>1. Fold(base, seq) = g[Len(seq)]
    BY DEF Fold, States
  <1>2. States(base, seq, Len(seq), g)
    OBVIOUS
  <1> HIDE DEF g
  <1>3. Len(seq) <= Len(seq)
    OBVIOUS
  <1>4. f[Len(seq)] = g[Len(seq)]
    BY <1>2, <1>3, StatesAgree
  <1> QED
    BY <1>1, <1>4

\* A loop over nothing leaves the state as it was.
LEMMA FoldEmpty ==
    ASSUME NEW base
    PROVE  Fold(base, <<>>) = base
  <1>1. PICK f : States(base, <<>>, 0, f)
    BY StatesExist
  <1>2. Len(<<>>) = 0
    OBVIOUS
  <1>3. Fold(base, <<>>) = f[0]
    BY <1>1, <1>2, FoldIsLast
  <1>4. f[0] = base
    BY <1>1 DEF States
  <1> QED
    BY <1>3, <1>4

\* One more element is one more step.
LEMMA FoldAppend ==
    ASSUME NEW S, NEW base, NEW s \in Seq(S), NEW c \in S
    PROVE  Fold(base, Append(s, c)) = Step(Fold(base, s), c)
  <1> DEFINE n == Len(s)
             t == Append(s, c)
  <1>1. n \in Nat /\ n + 1 \in Nat /\ Len(t) = n + 1 /\ t[n + 1] = c /\ \A i \in 1..n : s[i] = t[i]
    OBVIOUS
  <1> HIDE DEF t
  <1>2. PICK f : States(base, s, n, f)
    BY <1>1, StatesExist
  <1>3. PICK g : States(base, t, n + 1, g)
    BY <1>1, StatesExist
  <1>4. Fold(base, s) = f[n]
    BY <1>1, <1>2, FoldIsLast
  <1>5. Fold(base, t) = g[n + 1]
    BY <1>1, <1>3, FoldIsLast
  <1>6. f[n] = g[n]
    <2>1. n <= n + 1 /\ n + 1 \in Nat
      BY <1>1
    <2> QED
      BY <1>1, <1>2, <1>3, <2>1, StatesAgree
  <1>7. g[n + 1] = Step(g[n], c)
    <2>1. n + 1 \in 0..(n + 1) /\ n + 1 # 0 /\ (n + 1) - 1 = n
      BY <1>1
    <2>2. \A i \in 0..(n + 1) : g[i] = IF i = 0 THEN base ELSE Step(g[i - 1], t[i])
      BY <1>3 DEF States
    <2> QED
      BY <1>1, <2>1, <2>2
  <1> QED
    BY <1>4, <1>5, <1>6, <1>7 DEF t

\* A loop may pause between two stretches of its sequence.
LEMMA FoldConcat ==
    ASSUME NEW S, NEW base, NEW s \in Seq(S), NEW t \in Seq(S)
    PROVE  Fold(base, s \o t) = Fold(Fold(base, s), t)
  <1> DEFINE P == {u \in Seq(S) : Fold(base, s \o u) = Fold(Fold(base, s), u)}
  <1>1. <<>> \in P
    <2>1. s \o <<>> = s
      OBVIOUS
    <2>2. Fold(Fold(base, s), <<>>) = Fold(base, s)
      BY FoldEmpty
    <2> QED
      BY <2>1, <2>2
  <1>2. ASSUME NEW u \in Seq(S), NEW c \in S, u \in P PROVE Append(u, c) \in P
    <2> DEFINE v == s \o u
    <2>1. s \o Append(u, c) = Append(v, c) /\ v \in Seq(S) /\ Append(u, c) \in Seq(S)
      OBVIOUS
    <2>2. Fold(base, v) = Fold(Fold(base, s), u)
      BY <1>2
    <2> HIDE DEF v
    <2>3. Fold(base, Append(v, c)) = Step(Fold(base, v), c)
      BY <2>1, FoldAppend
    <2>4. Fold(Fold(base, s), Append(u, c)) = Step(Fold(Fold(base, s), u), c)
      BY FoldAppend
    <2> QED
      BY <2>1, <2>2, <2>3, <2>4
  <1> HIDE DEF P
  <1>3. Seq(S) \subseteq P
    BY <1>1, <1>2, SeqSets
  <1> QED
    BY <1>3 DEF P
=============================================================================
