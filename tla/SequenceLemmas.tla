--------------------------- MODULE SequenceLemmas ---------------------------
(***************************************************************************)
(* What the proofs need to know of sequences, and induction.  The provers  *)
(* cannot be given a fact about any operator, so the lemmas on folds are   *)
(* about a constant operator Op, and those on maps about Image: they are   *)
(* instantiated for the operator that a fold or a map is made with.        *)
(***************************************************************************)
EXTENDS Integers, Sequences, WellFoundedInduction, TLAPS

CONSTANTS Op(_, _),    \* what is done with a result so far and an element
          Image(_)     \* what an element is replaced by

(* Sequences of the same length with the same elements are the same.       *)
LEMMA SameSequence ==
    ASSUME NEW S, NEW T, NEW a \in Seq(S), NEW b \in Seq(T),
           Len(a) = Len(b), \A n \in 1..Len(a) : a[n] = b[n]
    PROVE  a = b
  <1>1. a = [n \in 1..Len(a) |-> a[n]] /\ b = [n \in 1..Len(b) |-> b[n]]
    OBVIOUS
  <1> QED
    BY <1>1

----------------------------------------------------------------------------
(* Induction on the natural numbers for a set of numbers: the library's    *)
(* rule is about an operator, which no prover here can be given.           *)
LEMMA LessWellFounded == IsWellFoundedOn({ss \in Nat \X Nat : ss[1] < ss[2]}, Nat)
  BY NatLessThanWellFounded DEF OpToRel

LEMMA SetInduction ==
    ASSUME NEW S, 0 \in S, \A n \in Nat : n \in S => n + 1 \in S
    PROVE  Nat \subseteq S
  <1> DEFINE R == {ss \in Nat \X Nat : ss[1] < ss[2]}
             T == {n \in Nat : n \notin S}
  <1> SUFFICES ASSUME T # {} PROVE FALSE
    OBVIOUS
  <1>1. PICK x \in T : \A y \in T : ~ (<<y, x>> \in R)
    <2> HIDE DEF R
    <2>1. IsWellFoundedOn(R, Nat)
      BY LessWellFounded DEF R
    <2>2. T \subseteq Nat
      OBVIOUS
    <2> HIDE DEF T
    <2> QED
      BY <2>1, <2>2, WFMin
  <1>2. x - 1 \in Nat /\ x - 1 < x
    OBVIOUS
  <1>3. x - 1 \notin T
    BY <1>1, <1>2
  <1> QED
    BY <1>2, <1>3

LEMMA EmptyConcat ==
    ASSUME NEW S, NEW q \in Seq(S)
    PROVE  <<>> \o q = q /\ q \o <<>> = q
  OBVIOUS

LEMMA ConcatConcat ==
    ASSUME NEW S, NEW p \in Seq(S), NEW q \in Seq(S), NEW r \in Seq(S)
    PROVE  (p \o q) \o r = p \o (q \o r)
  <1> DEFINE a == (p \o q) \o r
             b == p \o (q \o r)
  <1>1. a \in Seq(S) /\ b \in Seq(S) /\ Len(a) = Len(b)
    OBVIOUS
  <1>2. \A n \in 1..Len(a) : a[n] = b[n]
    OBVIOUS
  <1> HIDE DEF a, b
  <1>3. a = b
    BY <1>1, <1>2, SameSequence
  <1> QED
    BY <1>3 DEF a, b

LEMMA LastAppended ==
    ASSUME NEW S, NEW q \in Seq(S), q # <<>>
    PROVE  \E r \in Seq(S), x \in S : q = Append(r, x)
  <1> DEFINE n == Len(q) - 1
             r == SubSeq(q, 1, n)
             x == q[n + 1]
             t == Append(r, x)
  <1>1. n \in Nat /\ Len(q) = n + 1 /\ x \in S
    OBVIOUS
  <1> HIDE DEF n
  <1>2. r \in Seq(S) /\ Len(r) = n /\ \A k \in 1..n : r[k] = q[k]
    BY <1>1
  <1> HIDE DEF r, x
  <1>3. t \in Seq(S) /\ Len(t) = n + 1 /\ t[n + 1] = x /\ \A k \in 1..n : t[k] = r[k]
    BY <1>1, <1>2
  <1> HIDE DEF t
  <1>4. q = t
    <2>1. \A k \in 1..(n + 1) : k \in 1..n \/ k = n + 1
      BY <1>1
    <2>2. \A k \in 1..(n + 1) : q[k] = t[k]
      BY <1>2, <1>3, <2>1 DEF x
    <2> QED
      BY <1>1, <1>3, <2>2, SameSequence
  <1> QED
    BY <1>1, <1>2, <1>4 DEF t

(* Induction on sequences, for a set of them.                              *)
LEMMA SequenceInduction ==
    ASSUME NEW S, NEW T, <<>> \in T,
           \A q \in Seq(S) : \A x \in S : q \in T => Append(q, x) \in T
    PROVE  Seq(S) \subseteq T
  <1> DEFINE N == {n \in Nat : \A q \in Seq(S) : Len(q) = n => q \in T}
  <1>1. 0 \in N
    OBVIOUS
  <1>2. ASSUME NEW n \in Nat, n \in N
        PROVE  n + 1 \in N
    <2> SUFFICES ASSUME NEW q \in Seq(S), Len(q) = n + 1
                 PROVE  q \in T
      OBVIOUS
    <2>1. q # <<>>
      OBVIOUS
    <2>2. PICK r \in Seq(S), x \in S : q = Append(r, x)
      BY <2>1, LastAppended
    <2>3. Len(r) = n
      BY <2>2
    <2> QED
      BY <1>2, <2>2, <2>3
  <1> HIDE DEF N
  <1>3. Nat \subseteq N
    BY <1>1, <1>2, SetInduction
  <1> QED
    BY <1>3 DEF N

LEMMA ConcatAppend ==
    ASSUME NEW S, NEW p \in Seq(S), NEW q \in Seq(S), NEW x \in S
    PROVE  p \o Append(q, x) = Append(p \o q, x)
  OBVIOUS

(* The first n + 1 elements.                                               *)
LEMMA FirstAppend ==
    ASSUME NEW S, NEW q \in Seq(S), NEW n \in Nat, n < Len(q)
    PROVE  /\ SubSeq(q, 1, n) \in Seq(S) /\ q[n + 1] \in S
           /\ SubSeq(q, 1, n + 1) = Append(SubSeq(q, 1, n), q[n + 1])
  <1>1. /\ SubSeq(q, 1, n) \in Seq(S) /\ Len(SubSeq(q, 1, n)) = n
        /\ \A k \in 1..n : SubSeq(q, 1, n)[k] = q[k]
    OBVIOUS
  <1>2. /\ SubSeq(q, 1, n + 1) \in Seq(S) /\ Len(SubSeq(q, 1, n + 1)) = n + 1
        /\ \A k \in 1..(n + 1) : SubSeq(q, 1, n + 1)[k] = q[k]
    OBVIOUS
  <1> DEFINE a == SubSeq(q, 1, n)
             b == SubSeq(q, 1, n + 1)
             c == Append(a, q[n + 1])
  <1>3. q[n + 1] \in S
    OBVIOUS
  <1> HIDE DEF a, b
  <1>4. c \in Seq(S) /\ Len(c) = n + 1 /\ c[n + 1] = q[n + 1] /\ \A k \in 1..n : c[k] = a[k]
    BY <1>1, <1>3 DEF a
  <1> HIDE DEF c
  <1>5. b = c
    BY <1>1, <1>2, <1>4, SameSequence DEF a, b
  <1> QED
    BY <1>1, <1>3, <1>5 DEF a, b, c

----------------------------------------------------------------------------
(* Sequences in a row: FlattenSeq of SequencesExt, which a module that is   *)
(* instantiated several times should not bring in.  It is the last value   *)
(* of a recursive function; that there is one is proved step by step.      *)
Flatten(seqs) ==
    IF Len(seqs) = 0 THEN seqs ELSE
      LET flatten[i \in 1..Len(seqs)] == IF i = 1 THEN seqs[i] ELSE flatten[i - 1] \o seqs[i]
      IN  flatten[Len(seqs)]

(* f[n] is what the first n sequences of ss make.                          *)
FlattensTo(f, ss, n) ==
    \A k \in 1..n : f[k] = IF k = 1 THEN ss[1] ELSE f[k - 1] \o ss[k]

LEMMA FlattensToExists ==
    ASSUME NEW ss, NEW n \in Nat
    PROVE  \E f : f = [k \in 1..n |-> f[k]] /\ FlattensTo(f, ss, n)
  <1> DEFINE S == {m \in Nat : \E f : f = [k \in 1..m |-> f[k]] /\ FlattensTo(f, ss, m)}
  <1>1. 0 \in S
    <2> DEFINE f == [k \in 1..0 |-> ss]
    <2>1. f = [k \in 1..0 |-> f[k]] /\ FlattensTo(f, ss, 0)
      BY DEF FlattensTo
    <2> QED
      BY <2>1
  <1>2. ASSUME NEW m \in Nat, m \in S
        PROVE  m + 1 \in S
    <2>1. PICK f : f = [k \in 1..m |-> f[k]] /\ FlattensTo(f, ss, m)
      BY <1>2
    <2> DEFINE g == [k \in 1..(m + 1) |-> IF k <= m THEN f[k]
                                          ELSE IF k = 1 THEN ss[1] ELSE f[m] \o ss[k]]
    <2>2. g = [k \in 1..(m + 1) |-> g[k]]
      OBVIOUS
    <2>3. \A k \in 1..(m + 1) : g[k] = IF k = 1 THEN ss[1] ELSE g[k - 1] \o ss[k]
      <3> TAKE k \in 1..(m + 1)
      <3>1. CASE k <= m
        <4>1. f[k] = IF k = 1 THEN ss[1] ELSE f[k - 1] \o ss[k]
          <5>1. FlattensTo(f, ss, m) /\ k \in 1..m
            BY <2>1, <3>1
          <5> QED
            BY <5>1, Zenon DEF FlattensTo
        <4>2. g[k] = f[k] /\ k # 1 => g[k - 1] = f[k - 1]
          BY <3>1
        <4> QED
          BY <4>1, <4>2
      <3>2. CASE k = m + 1
        <4>1. g[k] = IF k = 1 THEN ss[1] ELSE f[m] \o ss[k]
          BY <3>2
        <4>2. k # 1 => g[k - 1] = f[m]
          BY <3>2
        <4> QED
          BY <4>1, <4>2
      <3> QED
        BY <3>1, <3>2
    <2>4. FlattensTo(g, ss, m + 1)
      <3> HIDE DEF g
      <3> QED
        BY <2>3 DEF FlattensTo
    <2> HIDE DEF g
    <2> QED
      BY <2>2, <2>4
  <1> HIDE DEF S
  <1>3. Nat \subseteq S
    BY <1>1, <1>2, SetInduction
  <1> QED
    BY <1>3 DEF S

LEMMA FlattenSteps ==
    ASSUME NEW ss, Len(ss) \in Nat, Len(ss) # 0
    PROVE  \E f : FlattensTo(f, ss, Len(ss)) /\ Flatten(ss) = f[Len(ss)]
  <1> DEFINE n == Len(ss)
             Solves(f) == f = [k \in 1..n |-> IF k = 1 THEN ss[k] ELSE f[k - 1] \o ss[k]]
  <1>1. PICK f : f = [k \in 1..n |-> f[k]] /\ FlattensTo(f, ss, n)
    BY FlattensToExists
  <1>2. Solves(f)
    BY <1>1 DEF FlattensTo
  <1> DEFINE g == CHOOSE h : Solves(h)
  <1>3. Flatten(ss) = g[n]
    BY DEF Flatten
  <1>4. Solves(g)
    <2> HIDE DEF Solves
    <2> QED
      BY <1>2
  <1> HIDE DEF g
  <1>5. FlattensTo(g, ss, n)
    BY <1>4 DEF FlattensTo
  <1> QED
    BY <1>3, <1>5

LEMMA FlattenEmpty == Flatten(<<>>) = <<>>
  BY DEF Flatten

LEMMA FlattenAppend ==
    ASSUME NEW S, NEW ss \in Seq(Seq(S)), NEW s \in Seq(S)
    PROVE  Flatten(Append(ss, s)) = Flatten(ss) \o s
  <1> DEFINE n == Len(ss)
             tt == Append(ss, s)
  <1>1. /\ n \in Nat /\ Len(tt) = n + 1 /\ tt[n + 1] = s
        /\ \A k \in 1..n : tt[k] = ss[k]
    OBVIOUS
  <1> HIDE DEF tt
  <1>2. PICK g : FlattensTo(g, tt, n + 1) /\ Flatten(tt) = g[n + 1]
    <2>1. Len(tt) \in Nat /\ Len(tt) # 0
      BY <1>1
    <2> QED
      BY <1>1, <2>1, FlattenSteps
  <1>3. CASE n = 0
    <2>1. ss = <<>>
      BY <1>3
    <2>2. Flatten(tt) = s
      BY <1>1, <1>2, <1>3 DEF FlattensTo
    <2>3. <<>> \o s = s
      BY EmptyConcat
    <2> QED
      BY <2>1, <2>2, <2>3, FlattenEmpty DEF tt
  <1>4. CASE n # 0
    <2>1. PICK f : FlattensTo(f, ss, n) /\ Flatten(ss) = f[n]
      BY <1>1, <1>4, FlattenSteps
    <2> DEFINE T == {k \in Nat : k \in 1..n => f[k] = g[k]}
    <2>2. 0 \in T
      OBVIOUS
    <2>3. ASSUME NEW k \in Nat, k \in T
          PROVE  k + 1 \in T
      <3> SUFFICES ASSUME k + 1 \in 1..n PROVE f[k + 1] = g[k + 1]
        OBVIOUS
      <3>1. f[k + 1] = IF k + 1 = 1 THEN ss[1] ELSE f[k + 1 - 1] \o ss[k + 1]
        BY <2>1 DEF FlattensTo
      <3>2. g[k + 1] = IF k + 1 = 1 THEN tt[1] ELSE g[k + 1 - 1] \o tt[k + 1]
        BY <1>1, <1>2 DEF FlattensTo
      <3>3. tt[k + 1] = ss[k + 1] /\ k + 1 - 1 = k
        BY <1>1
      <3> QED
        BY <2>3, <3>1, <3>2, <3>3
    <2> HIDE DEF T
    <2>4. Nat \subseteq T
      BY <2>2, <2>3, SetInduction
    <2>5. f[n] = g[n]
      BY <1>1, <1>4, <2>4 DEF T
    <2>6. g[n + 1] = g[n] \o tt[n + 1]
      <3> DEFINE m == n + 1
      <3>1. m \in 1..m /\ m # 1 /\ m - 1 = n
        BY <1>1, <1>4
      <3>2. FlattensTo(g, tt, m)
        BY <1>2
      <3> HIDE DEF m
      <3>3. g[m] = IF m = 1 THEN tt[1] ELSE g[m - 1] \o tt[m]
        BY <3>1, <3>2, Zenon DEF FlattensTo
      <3> QED
        BY <3>1, <3>3 DEF m
    <2> QED
      BY <1>1, <1>2, <2>1, <2>5, <2>6 DEF tt
  <1> QED
    BY <1>3, <1>4

LEMMA FlattenSequence ==
    ASSUME NEW S, NEW ss \in Seq(Seq(S))
    PROVE  Flatten(ss) \in Seq(S)
  <1> DEFINE T == {tt \in Seq(Seq(S)) : Flatten(tt) \in Seq(S)}
  <1>1. <<>> \in T
    <2>1. <<>> \in Seq(Seq(S)) /\ <<>> \in Seq(S)
      OBVIOUS
    <2> QED
      BY <2>1, FlattenEmpty, Zenon
  <1>2. ASSUME NEW tt \in Seq(Seq(S)), NEW s \in Seq(S), tt \in T
        PROVE  Append(tt, s) \in T
    <2>1. Flatten(Append(tt, s)) = Flatten(tt) \o s
      BY FlattenAppend
    <2>2. Flatten(tt) \o s \in Seq(S)
      BY <1>2
    <2>3. Append(tt, s) \in Seq(Seq(S))
      OBVIOUS
    <2> QED
      BY <2>1, <2>2, <2>3
  <1> HIDE DEF T
  <1>3. Seq(Seq(S)) \subseteq T
    BY <1>1, <1>2, SequenceInduction
  <1> QED
    BY <1>3 DEF T

LEMMA FlattenOne ==
    ASSUME NEW S, NEW s \in Seq(S)
    PROVE  Flatten(<<s>>) = s
  <1>1. Append(<<>>, s) = <<s>> /\ <<>> \in Seq(Seq(S))
    OBVIOUS
  <1>2. <<>> \o s = s
    BY EmptyConcat
  <1> QED
    BY <1>1, <1>2, FlattenAppend, FlattenEmpty

LEMMA FlattenConcat ==
    ASSUME NEW S, NEW ss \in Seq(Seq(S)), NEW tt \in Seq(Seq(S))
    PROVE  Flatten(ss \o tt) = Flatten(ss) \o Flatten(tt)
  <1> DEFINE T == {uu \in Seq(Seq(S)) : Flatten(ss \o uu) = Flatten(ss) \o Flatten(uu)}
  <1>1. <<>> \in T
    <2>1. ss \o <<>> = ss
      BY EmptyConcat
    <2>2. Flatten(ss) \o <<>> = Flatten(ss)
      BY FlattenSequence, EmptyConcat
    <2>3. <<>> \in Seq(Seq(S))
      OBVIOUS
    <2> QED
      BY <2>1, <2>2, <2>3, FlattenEmpty, Zenon
  <1>2. ASSUME NEW uu \in Seq(Seq(S)), NEW s \in Seq(S), uu \in T
        PROVE  Append(uu, s) \in T
    <2>1. ss \o Append(uu, s) = Append(ss \o uu, s)
      BY ConcatAppend
    <2>2. Flatten(Append(ss \o uu, s)) = Flatten(ss \o uu) \o s
      <3>1. ss \o uu \in Seq(Seq(S))
        OBVIOUS
      <3> QED
        BY <3>1, FlattenAppend
    <2>3. (Flatten(ss) \o Flatten(uu)) \o s = Flatten(ss) \o (Flatten(uu) \o s)
      <3>1. Flatten(ss) \in Seq(S) /\ Flatten(uu) \in Seq(S)
        BY FlattenSequence
      <3> QED
        BY <3>1, ConcatConcat
    <2>4. Flatten(Append(uu, s)) = Flatten(uu) \o s
      BY FlattenAppend
    <2>5. Append(uu, s) \in Seq(Seq(S))
      OBVIOUS
    <2> QED
      BY <1>2, <2>1, <2>2, <2>3, <2>4, <2>5
  <1> HIDE DEF T
  <1>3. Seq(Seq(S)) \subseteq T
    BY <1>1, <1>2, SequenceInduction
  <1> QED
    BY <1>3 DEF T

----------------------------------------------------------------------------
(* Folds: FoldLeft of SequencesExt is the value, at the domain of the      *)
(* sequence, of a recursive function on sets of indexes that takes out the *)
(* largest one.                                                            *)
Largest(s) == CHOOSE m \in s : \A k \in s : m >= k

Fold(base, q) ==
    LET fold[s \in SUBSET (DOMAIN q)] ==
            IF s = {} THEN base ELSE Op(fold[s \ {Largest(s)}], q[Largest(s)])
    IN  fold[DOMAIN q]

FoldsTo(g, base, q, n) ==
    \A s \in SUBSET (1..n) :
        g[s] = IF s = {} THEN base ELSE Op(g[s \ {Largest(s)}], q[Largest(s)])

LEMMA LargestIndex ==
    ASSUME NEW n \in Nat, NEW s \in SUBSET (1..(n + 1)), n + 1 \in s
    PROVE  /\ Largest(s) = n + 1 /\ s # {}
           /\ s \ {n + 1} \in SUBSET (1..n)
           /\ s \notin SUBSET (1..n)
  <1>1. \A k \in s : k \in Nat /\ k <= n + 1
    OBVIOUS
  <1>2. Largest(s) \in s /\ \A k \in s : Largest(s) >= k
    <2>1. \E m \in s : \A k \in s : m >= k
      BY <1>1
    <2> QED
      BY <2>1 DEF Largest
  <1>3. Largest(s) = n + 1
    <2> DEFINE m == Largest(s)
    <2>1. m \in Nat /\ m <= n + 1 /\ m >= n + 1
      <3> HIDE DEF m
      <3>1. m \in s /\ m >= n + 1
        BY <1>2 DEF m
      <3> QED
        BY <1>1, <3>1
    <2> HIDE DEF m
    <2>2. m = n + 1
      BY <2>1
    <2> QED
      BY <2>2 DEF m
  <1> QED
    BY <1>3

LEMMA LessIndexes ==
    ASSUME NEW n \in Nat, NEW s \in SUBSET (1..n), s # {}
    PROVE  Largest(s) \in s /\ s \ {Largest(s)} \in SUBSET (1..n)
  <1> DEFINE S == {k \in Nat : \A u \in SUBSET (1..k) : u # {} => \E m \in u : \A j \in u : m >= j}
  <1>1. 0 \in S
    <2>1. 1..0 = {}
      OBVIOUS
    <2> QED
      BY <2>1
  <1>2. ASSUME NEW k \in Nat, k \in S
        PROVE  k + 1 \in S
    <2> SUFFICES ASSUME NEW u \in SUBSET (1..(k + 1)), u # {}
                 PROVE  \E m \in u : \A j \in u : m >= j
      OBVIOUS
    <2>1. CASE k + 1 \in u
      BY <2>1
    <2>2. CASE k + 1 \notin u
      BY <1>2, <2>2
    <2> QED
      BY <2>1, <2>2
  <1> HIDE DEF S
  <1>3. Nat \subseteq S
    BY <1>1, <1>2, SetInduction
  <1>4. \E m \in s : \A j \in s : m >= j
    BY <1>3 DEF S
  <1> QED
    BY <1>4 DEF Largest

LEMMA FoldsToExists ==
    ASSUME NEW base, NEW q, NEW n \in Nat
    PROVE  \E g : g = [s \in SUBSET (1..n) |-> g[s]] /\ FoldsTo(g, base, q, n)
  <1> DEFINE P(g, m) == g = [s \in SUBSET (1..m) |-> g[s]] /\ FoldsTo(g, base, q, m)
             S == {m \in Nat : \E g : P(g, m)}
  <1>1. 0 \in S
    <2> DEFINE g == [s \in SUBSET (1..0) |-> base]
    <2>1. g = [s \in SUBSET (1..0) |-> g[s]]
      OBVIOUS
    <2>2. FoldsTo(g, base, q, 0)
      BY DEF FoldsTo
    <2> QED
      BY <2>1, <2>2
  <1>2. ASSUME NEW m \in Nat, m \in S
        PROVE  m + 1 \in S
    <2>1. PICK g : P(g, m)
      BY <1>2
    <2>2. FoldsTo(g, base, q, m)
      BY <2>1
    <2> DEFINE h == [s \in SUBSET (1..(m + 1)) |->
                        IF s \in SUBSET (1..m) THEN g[s] ELSE Op(g[s \ {m + 1}], q[m + 1])]
    <2>3. h = [s \in SUBSET (1..(m + 1)) |-> h[s]]
      OBVIOUS
    <2>4. ASSUME NEW s \in SUBSET (1..(m + 1))
          PROVE  h[s] = IF s = {} THEN base ELSE Op(h[s \ {Largest(s)}], q[Largest(s)])
      <3>1. CASE m + 1 \in s
        <4> DEFINE r == s \ {m + 1}
        <4>1. Largest(s) = m + 1 /\ s # {} /\ r \in SUBSET (1..m) /\ s \notin SUBSET (1..m)
          BY <3>1, LargestIndex
        <4>2. h[s] = Op(g[r], q[m + 1])
          BY <4>1
        <4>3. r \in SUBSET (1..(m + 1))
          BY <4>1
        <4>4. h[r] = g[r]
          <5> HIDE DEF r
          <5> QED
            BY <4>1, <4>3
        <4> HIDE DEF h
        <4> QED
          BY <4>1, <4>2, <4>4
      <3>2. CASE m + 1 \notin s
        <4>1. s \in SUBSET (1..m)
          BY <3>2
        <4>2. h[s] = g[s]
          BY <4>1
        <4>3. g[s] = IF s = {} THEN base ELSE Op(g[s \ {Largest(s)}], q[Largest(s)])
          BY <2>2, <4>1, Zenon DEF FoldsTo
        <4>4. CASE s = {}
          BY <4>2, <4>3, <4>4
        <4>5. CASE s # {}
          <5> DEFINE r == s \ {Largest(s)}
          <5>1. r \in SUBSET (1..m)
            BY <4>1, <4>5, LessIndexes
          <5>2. r \in SUBSET (1..(m + 1))
            BY <5>1
          <5>3. h[r] = g[r]
            <6> HIDE DEF r
            <6> QED
              BY <5>1, <5>2
          <5> HIDE DEF h
          <5> QED
            BY <4>2, <4>3, <4>5, <5>3
        <4> QED
          BY <4>4, <4>5
      <3> QED
        BY <3>1, <3>2
    <2> HIDE DEF h
    <2>5. FoldsTo(h, base, q, m + 1)
      BY <2>4 DEF FoldsTo
    <2>6. P(h, m + 1)
      BY <2>3, <2>5
    <2> HIDE DEF P
    <2> QED
      BY <2>6
  <1> HIDE DEF S
  <1>3. Nat \subseteq S
    BY <1>1, <1>2, SetInduction
  <1> QED
    BY <1>3 DEF S

LEMMA FoldSteps ==
    ASSUME NEW base, NEW q, NEW n \in Nat, DOMAIN q = 1..n
    PROVE  \E g : FoldsTo(g, base, q, n) /\ Fold(base, q) = g[1..n]
  <1> DEFINE Solves(f) == f = [s \in SUBSET (1..n) |->
                                 IF s = {} THEN base ELSE Op(f[s \ {Largest(s)}], q[Largest(s)])]
             h == CHOOSE f : Solves(f)
  <1>1. PICK g : g = [s \in SUBSET (1..n) |-> g[s]] /\ FoldsTo(g, base, q, n)
    BY FoldsToExists
  <1>2. Solves(g)
    <2>1. FoldsTo(g, base, q, n)
      BY <1>1
    <2>2. [s \in SUBSET (1..n) |-> g[s]]
            = [s \in SUBSET (1..n) |->
                  IF s = {} THEN base ELSE Op(g[s \ {Largest(s)}], q[Largest(s)])]
      BY <2>1, Zenon DEF FoldsTo
    <2> QED
      BY <1>1, <2>2, Zenon
  <1>3. Fold(base, q) = h[1..n]
    BY DEF Fold
  <1>4. Solves(h)
    <2> HIDE DEF Solves
    <2> QED
      BY <1>2
  <1> HIDE DEF h
  <1>5. FoldsTo(h, base, q, n)
    BY <1>4 DEF FoldsTo
  <1> QED
    BY <1>3, <1>5

LEMMA FoldEmpty == ASSUME NEW base PROVE Fold(base, <<>>) = base
  <1>1. DOMAIN <<>> = 1..0
    OBVIOUS
  <1>2. PICK g : FoldsTo(g, base, <<>>, 0) /\ Fold(base, <<>>) = g[1..0]
    BY <1>1, FoldSteps
  <1>3. 1..0 = {} /\ 1..0 \in SUBSET (1..0)
    OBVIOUS
  <1> QED
    BY <1>2, <1>3, Zenon DEF FoldsTo

(* The values of the recursive function for the first indexes.             *)
LEMMA FoldPrefix ==
    ASSUME NEW g, NEW base, NEW q, NEW n \in Nat, FoldsTo(g, base, q, n)
    PROVE  g[1..0] = base /\ \A k \in 0..(n - 1) : g[1..(k + 1)] = Op(g[1..k], q[k + 1])
  <1>1. g[1..0] = base
    BY DEF FoldsTo
  <1>2. ASSUME NEW k \in 0..(n - 1)
        PROVE  g[1..(k + 1)] = Op(g[1..k], q[k + 1])
    <2> DEFINE s == 1..(k + 1)
    <2>1. k \in Nat /\ s \in SUBSET (1..(k + 1)) /\ k + 1 \in s /\ s \in SUBSET (1..n)
      OBVIOUS
    <2>2. s \ {k + 1} = 1..k
      OBVIOUS
    <2> HIDE DEF s
    <2>3. Largest(s) = k + 1 /\ s # {}
      BY <2>1, LargestIndex
    <2>4. g[s] = Op(g[s \ {Largest(s)}], q[Largest(s)])
      BY <2>1, <2>3, Zenon DEF FoldsTo
    <2> QED
      BY <2>2, <2>3, <2>4 DEF s
  <1> QED
    BY <1>1, <1>2

(* One more element is one more step.                                      *)
LEMMA FoldAppend ==
    ASSUME NEW base, NEW S, NEW q \in Seq(S), NEW x \in S
    PROVE  Fold(base, Append(q, x)) = Op(Fold(base, q), x)
  <1> DEFINE n == Len(q)
             r == Append(q, x)
  <1>1. /\ n \in Nat /\ DOMAIN q = 1..n /\ DOMAIN r = 1..(n + 1)
        /\ r[n + 1] = x /\ \A k \in 1..n : r[k] = q[k]
    <2>1. r \in Seq(S) /\ Len(r) = n + 1
      OBVIOUS
    <2> QED
      BY <2>1
  <1> HIDE DEF n, r
  <1>2. PICK f : FoldsTo(f, base, q, n) /\ Fold(base, q) = f[1..n]
    BY <1>1, FoldSteps
  <1>3. PICK g : FoldsTo(g, base, r, n + 1) /\ Fold(base, r) = g[1..(n + 1)]
    <2>1. n + 1 \in Nat
      BY <1>1
    <2> QED
      BY <1>1, <2>1, FoldSteps
  <1>4. f[1..0] = base /\ \A k \in 0..(n - 1) : f[1..(k + 1)] = Op(f[1..k], q[k + 1])
    BY <1>1, <1>2, FoldPrefix
  <1>5. g[1..0] = base /\ \A k \in 0..n : g[1..(k + 1)] = Op(g[1..k], r[k + 1])
    <2> DEFINE m == n + 1
    <2>1. m \in Nat /\ m - 1 = n
      BY <1>1
    <2>2. FoldsTo(g, base, r, m)
      BY <1>3
    <2> HIDE DEF m
    <2> QED
      BY <2>1, <2>2, FoldPrefix
  <1> DEFINE T == {k \in Nat : k <= n => f[1..k] = g[1..k]}
  <1>6. 0 \in T
    BY <1>4, <1>5
  <1>7. ASSUME NEW k \in Nat, k \in T
        PROVE  k + 1 \in T
    <2> SUFFICES ASSUME k + 1 <= n PROVE f[1..(k + 1)] = g[1..(k + 1)]
      OBVIOUS
    <2>1. k \in 0..(n - 1) /\ k \in 0..n /\ k + 1 \in 1..n /\ k <= n
      BY <1>1
    <2> QED
      BY <1>1, <1>4, <1>5, <1>7, <2>1
  <1> HIDE DEF T
  <1>8. Nat \subseteq T
    BY <1>6, <1>7, SetInduction
  <1>9. f[1..n] = g[1..n] /\ n \in 0..n
    BY <1>1, <1>8 DEF T
  <1> QED
    BY <1>1, <1>2, <1>3, <1>5, <1>9 DEF r

(* What comes later starts from the result so far.                         *)
LEMMA FoldConcat ==
    ASSUME NEW base, NEW S, NEW p \in Seq(S), NEW q \in Seq(S)
    PROVE  Fold(base, p \o q) = Fold(Fold(base, p), q)
  <1> DEFINE T == {r \in Seq(S) : Fold(base, p \o r) = Fold(Fold(base, p), r)}
  <1>1. <<>> \in T
    BY FoldEmpty, EmptyConcat
  <1>2. ASSUME NEW r \in Seq(S), NEW x \in S, r \in T
        PROVE  Append(r, x) \in T
    <2>1. p \o Append(r, x) = Append(p \o r, x) /\ p \o r \in Seq(S)
      BY ConcatAppend
    <2>2. Fold(base, Append(p \o r, x)) = Op(Fold(base, p \o r), x)
      BY <2>1, FoldAppend
    <2>3. Fold(Fold(base, p), Append(r, x)) = Op(Fold(Fold(base, p), r), x)
      BY FoldAppend
    <2>4. Append(r, x) \in Seq(S)
      OBVIOUS
    <2> QED
      BY <1>2, <2>1, <2>2, <2>3, <2>4
  <1> HIDE DEF T
  <1>3. Seq(S) \subseteq T
    BY <1>1, <1>2, SequenceInduction
  <1> QED
    BY <1>3 DEF T

LEMMA FoldOne ==
    ASSUME NEW base, NEW x
    PROVE  Fold(base, <<x>>) = Op(base, x)
  <1>1. Append(<<>>, x) = <<x>> /\ <<>> \in Seq({x}) /\ x \in {x}
    OBVIOUS
  <1>2. Fold(base, Append(<<>>, x)) = Op(Fold(base, <<>>), x)
    BY <1>1, FoldAppend
  <1> QED
    BY <1>1, <1>2, FoldEmpty

----------------------------------------------------------------------------
(* The elements of a sequence, replaced.                                   *)

Mapped(q) == [n \in DOMAIN q |-> Image(q[n])]

LEMMA MappedSequence ==
    ASSUME NEW S, NEW T, \A x \in S : Image(x) \in T, NEW q \in Seq(S)
    PROVE  Mapped(q) \in Seq(T) /\ Len(Mapped(q)) = Len(q)
  <1>1. Len(q) \in Nat /\ DOMAIN q = 1..Len(q) /\ \A n \in 1..Len(q) : q[n] \in S
    OBVIOUS
  <1>2. Mapped(q) = [n \in 1..Len(q) |-> Image(q[n])]
    BY <1>1 DEF Mapped
  <1>3. \A n \in 1..Len(q) : Image(q[n]) \in T
    BY <1>1
  <1> QED
    BY <1>1, <1>2, <1>3

LEMMA MappedConcat ==
    ASSUME NEW S, NEW T, \A x \in S : Image(x) \in T, NEW p \in Seq(S), NEW q \in Seq(S)
    PROVE  Mapped(p \o q) = Mapped(p) \o Mapped(q)
  <1> DEFINE m == Len(p)
             n == Len(q)
             r == p \o q
             a == Mapped(p)
             b == Mapped(q)
             c == Mapped(r)
             d == a \o b
  <1>1. m \in Nat /\ n \in Nat /\ DOMAIN p = 1..m /\ DOMAIN q = 1..n
    OBVIOUS
  <1>2. /\ r \in Seq(S) /\ Len(r) = m + n
        /\ \A k \in 1..(m + n) : r[k] = IF k <= m THEN p[k] ELSE q[k - m]
    OBVIOUS
  <1>3. /\ a \in Seq(T) /\ Len(a) = m /\ b \in Seq(T) /\ Len(b) = n
        /\ c \in Seq(T) /\ Len(c) = m + n
    BY <1>2, MappedSequence
  <1>4. DOMAIN r = 1..(m + n)
    BY <1>2
  <1>5. /\ \A k \in 1..m : a[k] = Image(p[k])
        /\ \A k \in 1..n : b[k] = Image(q[k])
        /\ \A k \in 1..(m + n) : c[k] = Image(r[k])
    BY <1>1, <1>4 DEF Mapped
  <1> HIDE DEF m, n, r, a, b, c
  <1>6. /\ d \in Seq(T) /\ Len(d) = m + n
        /\ \A k \in 1..(m + n) : d[k] = IF k <= m THEN a[k] ELSE b[k - m]
    BY <1>3
  <1> HIDE DEF d
  <1>7. \A k \in 1..(m + n) : c[k] = d[k]
    <2> TAKE k \in 1..(m + n)
    <2>1. CASE k <= m
      <3>1. k \in 1..m
        BY <1>1, <2>1
      <3> QED
        BY <1>2, <1>5, <1>6, <2>1, <3>1
    <2>2. CASE ~(k <= m)
      <3>1. k - m \in 1..n
        BY <1>1, <2>2
      <3> QED
        BY <1>2, <1>5, <1>6, <2>2, <3>1
    <2> QED
      BY <2>1, <2>2
  <1>8. c = d
    BY <1>3, <1>6, <1>7, SameSequence
  <1> QED
    BY <1>8 DEF a, b, c, d, r

(* The elements of a sequence, each replaced by a sequence.                *)
Flatmap(q) == Flatten([n \in DOMAIN q |-> Image(q[n])])

LEMMA FlatmapSequence ==
    ASSUME NEW S, NEW T, \A x \in S : Image(x) \in Seq(T), NEW q \in Seq(S)
    PROVE  Flatmap(q) \in Seq(T)
  <1>1. Mapped(q) \in Seq(Seq(T))
    BY MappedSequence
  <1> QED
    BY <1>1, FlattenSequence DEF Flatmap, Mapped

LEMMA FlatmapConcat ==
    ASSUME NEW S, NEW T, \A x \in S : Image(x) \in Seq(T), NEW p \in Seq(S), NEW q \in Seq(S)
    PROVE  Flatmap(p \o q) = Flatmap(p) \o Flatmap(q)
  <1>1. Mapped(p \o q) = Mapped(p) \o Mapped(q)
    BY MappedConcat
  <1>2. Mapped(p) \in Seq(Seq(T)) /\ Mapped(q) \in Seq(Seq(T))
    BY MappedSequence
  <1> QED
    BY <1>1, <1>2, FlattenConcat DEF Flatmap, Mapped

LEMMA FlatmapEmpty == Flatmap(<<>>) = <<>>
  <1>1. [n \in DOMAIN <<>> |-> Image(<<>>[n])] = <<>>
    OBVIOUS
  <1> QED
    BY <1>1, FlattenEmpty DEF Flatmap

LEMMA FlatmapOne ==
    ASSUME NEW x, NEW T, Image(x) \in Seq(T)
    PROVE  Flatmap(<<x>>) = Image(x)
  <1> DEFINE q == <<x>>
  <1>1. DOMAIN q = {1} /\ q[1] = x
    OBVIOUS
  <1>2. [n \in DOMAIN q |-> Image(q[n])] = [n \in {1} |-> Image(x)]
    BY <1>1
  <1>3. [n \in {1} |-> Image(x)] = <<Image(x)>>
    OBVIOUS
  <1> QED
    BY <1>2, <1>3, FlattenOne DEF Flatmap

(* The first n + 1 of a family of sequences, flattened.                    *)
LEMMA FlattenPrefix ==
    ASSUME NEW S, NEW m, NEW n \in Nat, \A k \in 1..(n + 1) : m[k] \in Seq(S)
    PROVE  /\ Flatten([k \in 1..(n + 1) |-> m[k]])
                = Flatten([k \in 1..n |-> m[k]]) \o m[n + 1]
           /\ Flatten([k \in 1..n |-> m[k]]) \in Seq(S)
  <1> DEFINE a == [k \in 1..n |-> m[k]]
             b == [k \in 1..(n + 1) |-> m[k]]
             x == m[n + 1]
             c == Append(a, x)
  <1>1. a \in Seq(Seq(S)) /\ Len(a) = n /\ \A k \in 1..n : a[k] = m[k]
    OBVIOUS
  <1>2. x \in Seq(S)
    OBVIOUS
  <1>3. b \in Seq(Seq(S)) /\ Len(b) = n + 1 /\ \A k \in 1..(n + 1) : b[k] = m[k]
    OBVIOUS
  <1> HIDE DEF a, b, x
  <1>4. /\ c \in Seq(Seq(S)) /\ Len(c) = n + 1 /\ c[n + 1] = x
        /\ \A k \in 1..n : c[k] = a[k]
    BY <1>1, <1>2
  <1> HIDE DEF c
  <1>5. \A k \in 1..(n + 1) : b[k] = c[k]
    <2> TAKE k \in 1..(n + 1)
    <2>1. k \in 1..n \/ k = n + 1
      OBVIOUS
    <2> QED
      BY <1>1, <1>3, <1>4, <2>1 DEF x
  <1>6. b = c
    BY <1>3, <1>4, <1>5, SameSequence
  <1>7. Flatten(b) = Flatten(a) \o x
    BY <1>1, <1>2, <1>6, FlattenAppend DEF c
  <1>8. Flatten(a) \in Seq(S)
    BY <1>1, FlattenSequence
  <1> QED
    BY <1>7, <1>8 DEF a, b, x
=============================================================================
