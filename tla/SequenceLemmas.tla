---------------------------- MODULE SequenceLemmas ----------------------------
(***************************************************************************)
(* Lemmas about sequences that the proofs of other modules share: the      *)
(* members of sequences that are joined or flattened.  Induction takes the *)
(* form of a least counterexample, since the library's theorems on         *)
(* induction have a parameter the provers cannot instantiate.              *)
(***************************************************************************)
EXTENDS Integers, Sequences, SequencesExt, SequenceTheorems, WellFoundedInduction, TLAPS

\* A nonempty set of naturals has a least element: what stands for induction
\* where the library's induction theorems cannot be used.
LEMMA NatLeast ==
  ASSUME NEW S \in SUBSET Nat, S # {}
  PROVE  \E n \in S : \A m \in S : n <= m
<1> DEFINE R == OpToRel(<, Nat)
<1>1. \A x, y \in Nat : <<x, y>> \in R <=> x < y
  BY DEF OpToRel
<1>2. IsWellFoundedOn(R, Nat)
  BY NatLessThanWellFounded
<1> HIDE DEF R
<1>3. PICK n \in S : \A m \in S : ~(<<m, n>> \in R)
  BY <1>2, WFMin
<1>4. \A m \in S : ~(m < n)
  BY <1>1, <1>3
<1> QED BY <1>3, <1>4

\* f is the function FlattenSeq chooses for n sequences; there is one.
Flattens(f, seqs, n) ==
  f = [i \in 1 .. n |-> IF i = 1 THEN seqs[i] ELSE f[i-1] \o seqs[i]]

LEMMA FlattenExists ==
  ASSUME NEW seqs, NEW n \in Nat
  PROVE  \E f : Flattens(f, seqs, n)
<1> DEFINE Bad == {k \in Nat : ~\E f : Flattens(f, seqs, k)}
<1> SUFFICES ASSUME Bad # {} PROVE FALSE
  OBVIOUS
<1>1. PICK k \in Bad : \A m \in Bad : k <= m
  BY NatLeast
<1>2. k # 0
  <2>1. Flattens([i \in 1 .. 0 |-> 0], seqs, 0)
    BY DEF Flattens
  <2> QED BY <2>1
<1>3. k - 1 \in Nat /\ k - 1 \notin Bad
  BY <1>1, <1>2
<1>4. PICK f : Flattens(f, seqs, k - 1)
  BY <1>3
<1> DEFINE g == [i \in 1 .. k |-> IF i = 1 THEN seqs[i] ELSE f[i-1] \o seqs[i]]
<1>5. f = [i \in 1 .. k - 1 |-> IF i = 1 THEN seqs[i] ELSE f[i-1] \o seqs[i]]
  BY <1>4 DEF Flattens
<1>6. \A i \in 1 .. k - 1 : f[i] = IF i = 1 THEN seqs[i] ELSE f[i-1] \o seqs[i]
  BY <1>5
<1>7. \A i \in 1 .. k : g[i] = IF i = 1 THEN seqs[i] ELSE f[i-1] \o seqs[i]
  OBVIOUS
<1>8. \A i \in 1 .. k : i # 1 => g[i-1] = f[i-1]
  BY <1>6, <1>7, <1>1
<1>9. \A i \in 1 .. k : (IF i = 1 THEN seqs[i] ELSE f[i-1] \o seqs[i]) = (IF i = 1 THEN seqs[i] ELSE g[i-1] \o seqs[i])
  BY <1>8
<1>10. Flattens(g, seqs, k)
  BY <1>9 DEF Flattens
<1> QED BY <1>1, <1>10

\* The members of sequences joined, of two and of any number.
LEMMA ConcatMembers ==
  ASSUME NEW M, NEW s \in Seq(M), NEW t \in Seq(M)
  PROVE  /\ s \o t \in Seq(M)
         /\ ToSet(s \o t) = ToSet(s) \cup ToSet(t)
<1>1. \A i \in DOMAIN s : i \in DOMAIN (s \o t) /\ (s \o t)[i] = s[i]
  OBVIOUS
<1>2. \A i \in DOMAIN t : Len(s) + i \in DOMAIN (s \o t) /\ (s \o t)[Len(s) + i] = t[i]
  OBVIOUS
<1>3. \A i \in DOMAIN (s \o t) : \/ i \in DOMAIN s /\ (s \o t)[i] = s[i]
                                 \/ i - Len(s) \in DOMAIN t /\ (s \o t)[i] = t[i - Len(s)]
  OBVIOUS
<1>4. ToSet(s) \subseteq ToSet(s \o t)
  BY <1>1 DEF ToSet
<1>5. ToSet(t) \subseteq ToSet(s \o t)
  BY <1>2 DEF ToSet
<1>6. ASSUME NEW x \in ToSet(s \o t) PROVE x \in ToSet(s) \cup ToSet(t)
  <2>1. PICK i \in DOMAIN (s \o t) : x = (s \o t)[i]
    BY <1>6, Zenon DEF ToSet
  <2>2. CASE i \in DOMAIN s /\ (s \o t)[i] = s[i]
    BY <2>1, <2>2, Zenon DEF ToSet
  <2>3. CASE i - Len(s) \in DOMAIN t /\ (s \o t)[i] = t[i - Len(s)]
    BY <2>1, <2>3, Zenon DEF ToSet
  <2> QED BY <1>3, <2>2, <2>3
<1>7. s \o t \in Seq(M)
  OBVIOUS
<1> QED BY <1>4, <1>5, <1>6, <1>7

LEMMA FlattenMembers ==
  ASSUME NEW M, NEW seqs \in Seq(Seq(M))
  PROVE  /\ FlattenSeq(seqs) \in Seq(M)
         /\ \A m \in M : m \in ToSet(FlattenSeq(seqs)) <=> \E i \in DOMAIN seqs : m \in ToSet(seqs[i])
<1>1. CASE Len(seqs) = 0
  <2>1. FlattenSeq(seqs) = <<>> /\ seqs = <<>>
    BY <1>1 DEF FlattenSeq
  <2> QED BY <2>1 DEF ToSet
<1>2. CASE Len(seqs) # 0
  <2> DEFINE n == Len(seqs)
             h == CHOOSE f : f = [i \in 1 .. n |-> IF i = 1 THEN seqs[i] ELSE f[i-1] \o seqs[i]]
  <2>0. n \in Nat \ {0}
    BY <1>2
  <2>1. FlattenSeq(seqs) = h[n]
    BY <1>2 DEF FlattenSeq
  <2>2. h = [i \in 1 .. n |-> IF i = 1 THEN seqs[i] ELSE h[i-1] \o seqs[i]]
    <3>1. \E f : f = [i \in 1 .. n |-> IF i = 1 THEN seqs[i] ELSE f[i-1] \o seqs[i]]
      BY <2>0, FlattenExists DEF Flattens
    <3> QED BY <3>1
  <2> HIDE DEF h
  <2> DEFINE Covers(k) == \A m \in M : m \in ToSet(h[k]) <=> \E i \in 1 .. k : m \in ToSet(seqs[i])
             Bad == {k \in 1 .. n : ~(h[k] \in Seq(M) /\ Covers(k))}
  <2>3. Bad = {}
    <3> SUFFICES ASSUME Bad # {} PROVE FALSE
      OBVIOUS
    <3>1. PICK k \in Bad : \A m \in Bad : k <= m
      <4>1. Bad \in SUBSET Nat
        OBVIOUS
      <4> HIDE DEF Bad
      <4> QED BY <4>1, NatLeast
    <3>2. k \in 1 .. n /\ h[k] = IF k = 1 THEN seqs[k] ELSE h[k-1] \o seqs[k]
      BY <2>2, <3>1
    <3>3. seqs[k] \in Seq(M)
      BY <3>2
    <3>4. CASE k = 1
      <4>1. h[k] = seqs[k]
        BY <3>2, <3>4
      <4>2. Covers(k)
        BY <3>4, <4>1
      <4> QED BY <3>1, <3>3, <4>1, <4>2
    <3>5. CASE k # 1
      <4>1. k - 1 \in 1 .. n /\ k - 1 \notin Bad
        BY <3>1, <3>5
      <4>2. h[k-1] \in Seq(M) /\ Covers(k-1)
        BY <4>1
      <4>3. h[k] = h[k-1] \o seqs[k]
        BY <3>2, <3>5
      <4>4. h[k] \in Seq(M) /\ ToSet(h[k]) = ToSet(h[k-1]) \cup ToSet(seqs[k])
        BY <3>3, <4>2, <4>3, ConcatMembers
      <4>5. 1 .. k = (1 .. k - 1) \cup {k}
        BY <4>1
      <4>6. Covers(k)
        BY <4>2, <4>4, <4>5
      <4> QED BY <3>1, <4>4, <4>6
    <3> QED BY <3>4, <3>5
  <2>4. h[n] \in Seq(M) /\ Covers(n)
    <3>1. n \in 1 .. n
      BY <2>0
    <3>2. n \notin Bad
      BY <2>3
    <3> HIDE DEF n, Covers
    <3> QED BY <3>1, <3>2
  <2>5. DOMAIN seqs = 1 .. n
    OBVIOUS
  <2> SUFFICES /\ h[n] \in Seq(M)
               /\ \A m \in M : m \in ToSet(h[n]) <=> \E i \in 1 .. n : m \in ToSet(seqs[i])
    BY <2>1, <2>5, Zenon
  <2> QED BY <2>4, Zenon
<1> QED BY <1>1, <1>2

\* What is left of a sequence when its first member is taken off.
LEMMA HeadTail ==
  ASSUME NEW M, NEW s \in Seq(M), s # <<>>
  PROVE  /\ Head(s) \in M /\ Tail(s) \in Seq(M)
         /\ Tail(s) = <<>> => Head(s) = s[Len(s)]
         /\ Tail(s) # <<>> => Tail(s)[Len(Tail(s))] = s[Len(s)]
<1>1. /\ Head(s) \in M /\ Tail(s) \in Seq(M) /\ Len(Tail(s)) = Len(s) - 1
      /\ \A i \in 1 .. Len(Tail(s)) : Tail(s)[i] = s[i + 1]
  BY HeadTailProperties
<1>2. Head(s) = s[1] /\ Len(s) \in Nat
  OBVIOUS
<1>3. ASSUME Tail(s) = <<>> PROVE Head(s) = s[Len(s)]
  <2>1. Len(Tail(s)) = 0
    BY <1>3, EmptySeq
  <2>2. Len(Tail(s)) = Len(s) - 1
    BY <1>1
  <2>3. Len(s) = 1
    BY <1>2, <2>1, <2>2
  <2> QED BY <1>2, <2>3
<1>4. ASSUME Tail(s) # <<>> PROVE Tail(s)[Len(Tail(s))] = s[Len(s)]
  <2>1. Len(Tail(s)) \in Nat \ {0}
    BY <1>1, <1>4, EmptySeq
  <2>2. Len(Tail(s)) \in 1 .. Len(Tail(s)) /\ Len(Tail(s)) + 1 = Len(s)
    BY <1>1, <1>2, <2>1
  <2>3. Tail(s)[Len(Tail(s))] = s[Len(Tail(s)) + 1]
    BY <1>1, <2>2, Zenon
  <2> QED BY <2>2, <2>3, Zenon
<1> QED BY <1>1, <1>3, <1>4
=============================================================================
