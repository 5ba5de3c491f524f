-------------------------- MODULE Templates_proofs --------------------------
(***************************************************************************)
(* Proofs about Templates: what ChannelTemplate::render makes of a message *)
(* whose templates are proper trees is what the trees mean, for every      *)
(* vocabulary, every context and every template.                           *)
(*                                                                         *)
(*   1. FlattenSeq and str::replace: both take concatenations to           *)
(*      concatenations.                                                    *)
(*   2. EngineInv, the inductive invariant of the scanning itself.         *)
(*   3. What a pass (expand_each, eval_if) makes of a text: the least      *)
(*      relation closed under three rules, and that a text determines its  *)
(*      reading from the front.                                            *)
(*   4. Each step of a pass keeps what it will have made in the end.       *)
(*   5. Meanings go from words to parts to nodes to trees, because the     *)
(*      relations between a text and its meaning are multiplicative.       *)
(*   6. RenderInv: the first k pieces are done, the next is on its way.    *)
(***************************************************************************)
EXTENDS Templates, Integers, FiniteSetTheorems, SequenceTheorems, TLAPS

\* A set that holds 0 and, with a number, the next one, holds every number. (The
\* library's induction theorem takes an operator as a parameter; this form is proved by
\* counting: what is missing would make a finite set inject into a smaller one.)
LEMMA Induction ==
  ASSUME NEW T, 0 \in T, \A n \in Nat : n \in T => n + 1 \in T
  PROVE  Nat \subseteq T
<1>1. SUFFICES ASSUME NEW n \in Nat, n \notin T PROVE FALSE
  OBVIOUS
<1> DEFINE A == {k \in 0..n : k \in T}
           f == [k \in A |-> k + 1]
<1>2. IsFiniteSet(A) /\ IsFiniteSet(A \ {0})
  <2>1. IsFiniteSet(0..n)
    BY FS_Interval
  <2>2. A \subseteq 0..n
    OBVIOUS
  <2>3. IsFiniteSet(A)
    BY <2>1, <2>2, FS_Subset
  <2>4. QED
    BY <2>3, FS_RemoveElement
<1>3. f \in [A -> A \ {0}]
  BY <1>1
<1>4. Cardinality(A \ {0}) < Cardinality(A)
  <2>1. 0 \in A
    BY <1>1
  <2> HIDE DEF A
  <2>2. Cardinality(A) \in Nat
    BY <1>2, FS_CardinalityType
  <2>3. QED
    BY <1>2, <2>1, <2>2, FS_RemoveElement
<1>5. \E x, y \in A : x # y /\ f[x] = f[y]
  <2> HIDE DEF f, A
  <2> QED
    BY <1>2, <1>3, <1>4, FS_PigeonHole
<1>6. QED
  BY <1>5

\* Induction over the length of a sequence.
LEMMA SeqInduction ==
  ASSUME NEW S, NEW T, <<>> \in T,
         \A s \in Seq(S), e \in S : s \in T => Append(s, e) \in T
  PROVE  Seq(S) \subseteq T
<1> DEFINE N == {n \in Nat : \A s \in Seq(S) : Len(s) = n => s \in T}
<1>1. 0 \in N
  OBVIOUS
<1>2. ASSUME NEW n \in Nat, n \in N PROVE n + 1 \in N
  <2>1. SUFFICES ASSUME NEW s \in Seq(S), Len(s) = n + 1 PROVE s \in T
    OBVIOUS
  <2>2. s # <<>>
    BY <2>1
  <2>3. PICK t \in Seq(S), e \in S : s = Append(t, e)
    BY <2>2, SequenceEmptyOrAppend
  <2>4. Len(t) = n
    BY <2>1, <2>3
  <2> QED
    BY <1>2, <2>3, <2>4
<1>3. Nat \subseteq N
  <2> HIDE DEF N
  <2> QED
    BY <1>1, <1>2, Induction
<1> QED
  BY <1>3


\* g is the function of FlattenSeq's definition, up to n.
Flattens(g, seqs, n) ==
  g = [i \in 1..n |-> IF i = 1 THEN seqs[i] ELSE g[i-1] \o seqs[i]]

\* What the function of FlattenSeq's definition is at i.
LEMMA FlattensAt ==
  ASSUME NEW g, NEW seqs, NEW n, Flattens(g, seqs, n), NEW i \in 1..n
  PROVE  g[i] = IF i = 1 THEN seqs[i] ELSE g[i-1] \o seqs[i]
<1> DEFINE e(k) == IF k = 1 THEN seqs[k] ELSE g[k-1] \o seqs[k]
<1>1. g = [k \in 1..n |-> e(k)]
  BY Zenon DEF Flattens
<1> HIDE DEF e
<1>2. g[i] = e(i)
  BY <1>1, Zenon
<1> QED
  BY <1>2, Zenon DEF e

\* There is such a function for every length.
LEMMA FlattenFunction ==
  ASSUME NEW seqs, NEW n \in Nat
  PROVE  \E g : Flattens(g, seqs, n)
<1> DEFINE N == {m \in Nat : \E g : Flattens(g, seqs, m)}
<1>1. 0 \in N
  <2>1. Flattens(<<>>, seqs, 0)
    BY DEF Flattens
  <2> QED
    BY <2>1
<1>2. ASSUME NEW m \in Nat, m \in N PROVE m + 1 \in N
  <2>1. PICK g : Flattens(g, seqs, m)
    BY <1>2
  <2> DEFINE h == [i \in 1..(m + 1) |-> IF i <= m THEN g[i] ELSE IF i = 1 THEN seqs[i] ELSE g[i-1] \o seqs[i]]
  <2>2. ASSUME NEW i \in 1..(m + 1)
        PROVE  h[i] = IF i = 1 THEN seqs[i] ELSE h[i-1] \o seqs[i]
    <3>1. CASE i <= m
      <4>1. g[i] = IF i = 1 THEN seqs[i] ELSE g[i-1] \o seqs[i]
        BY <2>1, <3>1, FlattensAt
      <4>2. i = 1 \/ h[i-1] = g[i-1]
        BY <3>1
      <4> QED
        BY <3>1, <4>1, <4>2
    <3>2. CASE i = m + 1
      <4>1. i = 1 \/ h[i-1] = g[i-1]
        BY <3>2
      <4> QED
        BY <3>2, <4>1
    <3> QED
      BY <3>1, <3>2
  <2>3. h = [i \in 1..(m + 1) |-> h[i]]
    OBVIOUS
  <2> HIDE DEF h
  <2>4. Flattens(h, seqs, m + 1)
    BY <2>2, <2>3 DEF Flattens
  <2> QED
    BY <2>4
<1>3. Nat \subseteq N
  <2> HIDE DEF N
  <2> QED
    BY <1>1, <1>2, Induction
<1> QED
  BY <1>3

\* FlattenSeq is the last value of such a function.
LEMMA FlattenIsLast ==
  ASSUME NEW seqs, Len(seqs) \in Nat, Len(seqs) # 0
  PROVE  \E g : Flattens(g, seqs, Len(seqs)) /\ FlattenSeq(seqs) = g[Len(seqs)]
<1> DEFINE c == CHOOSE g : Flattens(g, seqs, Len(seqs))
<1>1. Flattens(c, seqs, Len(seqs))
  BY FlattenFunction
<1>2. FlattenSeq(seqs) = c[Len(seqs)]
  BY DEF FlattenSeq, Flattens
<1> HIDE DEF c
<1> QED
  BY <1>1, <1>2

\* A flattening up to n says what a shorter one says.
LEMMA FlattenUnique ==
  ASSUME NEW s, NEW t, NEW m \in Nat, NEW n \in Nat, m <= n,
         \A i \in 1..m : s[i] = t[i],
         NEW f, NEW g, Flattens(f, s, m), Flattens(g, t, n)
  PROVE  \A i \in 1..m : f[i] = g[i]
<1> DEFINE N == {k \in Nat : k \in 1..m => f[k] = g[k]}
<1>1. 0 \in N
  OBVIOUS
<1>2. ASSUME NEW k \in Nat, k \in N PROVE k + 1 \in N
  <2>1. SUFFICES ASSUME k + 1 \in 1..m PROVE f[k + 1] = g[k + 1]
    OBVIOUS
  <2>2. f[k + 1] = IF k + 1 = 1 THEN s[k + 1] ELSE f[k] \o s[k + 1]
    BY <2>1, FlattensAt
  <2>3. g[k + 1] = IF k + 1 = 1 THEN t[k + 1] ELSE g[k] \o t[k + 1]
    BY <2>1, FlattensAt
  <2>4. s[k + 1] = t[k + 1]
    BY <2>1
  <2>5. k = 0 \/ f[k] = g[k]
    BY <1>2, <2>1
  <2> QED
    BY <2>2, <2>3, <2>4, <2>5
<1>3. Nat \subseteq N
  <2> HIDE DEF N
  <2> QED
    BY <1>1, <1>2, Induction
<1> QED
  BY <1>3

\* Flattening nothing.
LEMMA FlattenEmpty == FlattenSeq(<<>>) = <<>>
  BY DEF FlattenSeq

\* Flattening one sequence.
LEMMA FlattenOne ==
  ASSUME NEW a
  PROVE  FlattenSeq(<<a>>) = a
<1>0. Len(<<a>>) = 1 /\ 1 \in Nat /\ 1 # 0 /\ 1 \in 1..1
  OBVIOUS
<1>1. PICK g : Flattens(g, <<a>>, 1) /\ FlattenSeq(<<a>>) = g[1]
  BY <1>0, FlattenIsLast, Zenon
<1>2. g[1] = <<a>>[1]
  BY <1>0, <1>1, FlattensAt, Zenon
<1> QED
  BY <1>1, <1>2


\* One sequence more is one concatenation more.
LEMMA FlattenStep ==
  ASSUME NEW s, NEW a, NEW n \in Nat, n # 0, Len(s) = n, Len(a) = n + 1,
         \A i \in 1..n : s[i] = a[i]
  PROVE  FlattenSeq(a) = FlattenSeq(s) \o a[n + 1]
<1>1. PICK f : Flattens(f, s, n) /\ FlattenSeq(s) = f[n]
  BY FlattenIsLast
<1>2. PICK g : Flattens(g, a, n + 1) /\ FlattenSeq(a) = g[n + 1]
  <2>1. Len(a) \in Nat /\ Len(a) # 0
    OBVIOUS
  <2> QED
    BY <2>1, FlattenIsLast
<1>3. f[n] = g[n]
  BY <1>1, <1>2, FlattenUnique
<1>4. n + 1 \in 1..(n + 1)
  OBVIOUS
<1>5. g[n + 1] = IF n + 1 = 1 THEN a[n + 1] ELSE g[(n + 1) - 1] \o a[n + 1]
  BY <1>2, <1>4, FlattensAt
<1>6. g[n + 1] = g[n] \o a[n + 1]
  <2>1. n + 1 # 1 /\ (n + 1) - 1 = n
    OBVIOUS
  <2>2. PICK x : x = (n + 1) - 1
    OBVIOUS
  <2>3. g[n + 1] = g[x] \o a[n + 1]
    BY <1>5, <2>1, <2>2, Zenon
  <2> QED
    BY <2>1, <2>2, <2>3
<1> QED
  BY <1>1, <1>2, <1>3, <1>6

\* One more sequence at the end.
LEMMA FlattenAppend ==
  ASSUME NEW S, NEW s \in Seq(S), NEW e \in S
  PROVE  FlattenSeq(Append(s, e)) = IF s = <<>> THEN e ELSE FlattenSeq(s) \o e
<1>1. CASE s = <<>>
  <2>1. Append(s, e) = <<e>>
    BY <1>1
  <2> QED
    BY <1>1, <2>1, FlattenOne
<1>2. CASE s # <<>>
  <2>1. /\ Len(s) \in Nat /\ Len(s) # 0 /\ Len(Append(s, e)) = Len(s) + 1
        /\ \A i \in 1..Len(s) : s[i] = Append(s, e)[i]
        /\ Append(s, e)[Len(s) + 1] = e
    BY <1>2
  <2>2. FlattenSeq(Append(s, e)) = FlattenSeq(s) \o Append(s, e)[Len(s) + 1]
    BY <2>1, FlattenStep
  <2> QED
    BY <1>2, <2>1, <2>2
<1> QED
  BY <1>1, <1>2

\* The same, for sequences of sequences over one set.
LEMMA FlattenAppendSeq ==
  ASSUME NEW S, NEW s \in Seq(Seq(S)), NEW e \in Seq(S)
  PROVE  FlattenSeq(Append(s, e)) = FlattenSeq(s) \o e
<1>1. FlattenSeq(Append(s, e)) = IF s = <<>> THEN e ELSE FlattenSeq(s) \o e
  BY FlattenAppend
<1>2. <<>> \o e = e
  OBVIOUS
<1> QED
  BY <1>1, <1>2, FlattenEmpty

\* Flattening sequences over S gives a sequence over S.
LEMMA FlattenType ==
  ASSUME NEW S
  PROVE  \A s \in Seq(Seq(S)) : FlattenSeq(s) \in Seq(S)
<1> DEFINE T == {s \in Seq(Seq(S)) : FlattenSeq(s) \in Seq(S)}
<1>1. <<>> \in T
  <2>1. <<>> \in Seq(Seq(S)) /\ <<>> \in Seq(S)
    OBVIOUS
  <2>2. FlattenSeq(<<>>) \in Seq(S)
    BY <2>1, FlattenEmpty, Zenon
  <2> QED
    BY <2>1, <2>2, Zenon
<1>2. ASSUME NEW s \in Seq(Seq(S)), NEW e \in Seq(S), s \in T
      PROVE  Append(s, e) \in T
  <2>1. FlattenSeq(Append(s, e)) = FlattenSeq(s) \o e
    BY FlattenAppendSeq
  <2>2. FlattenSeq(s) \in Seq(S)
    BY <1>2
  <2>3. FlattenSeq(s) \o e \in Seq(S) /\ Append(s, e) \in Seq(Seq(S))
    BY <2>2
  <2> QED
    BY <2>1, <2>3, Zenon
<1>3. Seq(Seq(S)) \subseteq T
  <2> HIDE DEF T
  <2> QED
    BY <1>1, <1>2, SeqInduction
<1> QED
  BY <1>3

\* Flattening takes concatenations to concatenations.
LEMMA FlattenConcat ==
  ASSUME NEW S, NEW s \in Seq(Seq(S))
  PROVE  \A t \in Seq(Seq(S)) : FlattenSeq(s \o t) = FlattenSeq(s) \o FlattenSeq(t)
<1> DEFINE T == {t \in Seq(Seq(S)) : FlattenSeq(s \o t) = FlattenSeq(s) \o FlattenSeq(t)}
<1>0. FlattenSeq(s) \in Seq(S)
  BY FlattenType
<1>1. <<>> \in T
  <2>1. s \o <<>> = s /\ FlattenSeq(s) \o <<>> = FlattenSeq(s)
    BY <1>0
  <2>2. FlattenSeq(s \o <<>>) = FlattenSeq(s) \o FlattenSeq(<<>>)
    BY <2>1, FlattenEmpty, Zenon
  <2>3. <<>> \in Seq(Seq(S))
    OBVIOUS
  <2> QED
    BY <2>2, <2>3, Zenon
<1>2. ASSUME NEW t \in Seq(Seq(S)), NEW e \in Seq(S), t \in T
      PROVE  Append(t, e) \in T
  <2>1. s \o Append(t, e) = Append(s \o t, e) /\ s \o t \in Seq(Seq(S))
    OBVIOUS
  <2>2. FlattenSeq(s \o Append(t, e)) = FlattenSeq(s \o t) \o e
    BY <2>1, FlattenAppendSeq
  <2>3. FlattenSeq(Append(t, e)) = FlattenSeq(t) \o e
    BY FlattenAppendSeq
  <2>4. FlattenSeq(t) \in Seq(S)
    BY FlattenType
  <2>5. (FlattenSeq(s) \o FlattenSeq(t)) \o e = FlattenSeq(s) \o (FlattenSeq(t) \o e)
    BY <1>0, <2>4, ConcatAssociative
  <2>6. Append(t, e) \in Seq(Seq(S))
    OBVIOUS
  <2> QED
    BY <1>2, <2>2, <2>3, <2>5, <2>6
<1>3. Seq(Seq(S)) \subseteq T
  <2> HIDE DEF T
  <2> QED
    BY <1>1, <1>2, SeqInduction
<1> QED
  BY <1>3

\* A function on 1..n is a sequence of length n.
LEMMA IsSequence ==
  ASSUME NEW S, NEW n \in Nat, NEW f \in [1..n -> S]
  PROVE  f \in Seq(S) /\ Len(f) = n /\ DOMAIN f = 1..n
  OBVIOUS

\* Equal sequences flatten to the same; cited where the provers must not look inside.
LEMMA FlattenEqual ==
  ASSUME NEW f, NEW g, f = g
  PROVE  FlattenSeq(f) = FlattenSeq(g)
  OBVIOUS

\* What a flattening of sequences of sequences is.
LEMMA FlattenTwice ==
  ASSUME NEW S
  PROVE  \A s \in Seq(Seq(Seq(S))) :
           FlattenSeq(FlattenSeq(s)) = FlattenSeq([i \in DOMAIN s |-> FlattenSeq(s[i])])
<1> DEFINE m(s) == [i \in DOMAIN s |-> FlattenSeq(s[i])]
           T == {s \in Seq(Seq(Seq(S))) : FlattenSeq(FlattenSeq(s)) = FlattenSeq(m(s))}
<1>1. <<>> \in T
  <2>1. m(<<>>) = <<>> /\ <<>> \in Seq(Seq(Seq(S)))
    OBVIOUS
  <2>2. FlattenSeq(FlattenSeq(<<>>)) = FlattenSeq(m(<<>>))
    BY <2>1, FlattenEmpty, Zenon
  <2> QED
    BY <2>1, <2>2, Zenon
<1>2. ASSUME NEW s \in Seq(Seq(Seq(S))), NEW e \in Seq(Seq(S)), s \in T
      PROVE  Append(s, e) \in T
  <2>1. FlattenSeq(Append(s, e)) = FlattenSeq(s) \o e
    BY FlattenAppendSeq
  <2>2. FlattenSeq(s) \in Seq(Seq(S))
    BY FlattenType
  <2>3. FlattenSeq(FlattenSeq(s) \o e) = FlattenSeq(FlattenSeq(s)) \o FlattenSeq(e)
    BY <2>2, FlattenConcat
  <2>4. FlattenSeq(e) \in Seq(S)
    BY FlattenType
  <2>5. \A i \in 1..Len(s) : FlattenSeq(s[i]) \in Seq(S)
    BY FlattenType
  <2>6. m(s) \in Seq(Seq(S))
    <3>1. DOMAIN s = 1..Len(s) /\ Len(s) \in Nat
      OBVIOUS
    <3>2. m(s) \in [1..Len(s) -> Seq(S)]
      BY <2>5, <3>1
    <3> QED
      BY <3>1, <3>2, IsSequence
  <2>7. m(Append(s, e)) = Append(m(s), FlattenSeq(e))
    OBVIOUS
  <2>8. FlattenSeq(m(Append(s, e))) = FlattenSeq(m(s)) \o FlattenSeq(e)
    BY <2>4, <2>6, <2>7, FlattenAppendSeq
  <2>9. FlattenSeq(FlattenSeq(s)) = FlattenSeq(m(s))
    BY <1>2
  <2>10. Append(s, e) \in Seq(Seq(Seq(S)))
    OBVIOUS
  <2>11. FlattenSeq(FlattenSeq(Append(s, e))) = FlattenSeq(m(Append(s, e)))
    BY <2>1, <2>3, <2>8, <2>9, Zenon
  <2> QED
    BY <2>10, <2>11, Zenon
<1>3. Seq(Seq(Seq(S))) \subseteq T
  <2> HIDE DEF T
  <2> QED
    BY <1>1, <1>2, SeqInduction
<1> QED
  BY <1>3

-----------------------------------------------------------------------------
(* ---- str::replace ---- *)

\* Concatenation under a name of its own, for reasoning by equations alone.
Cat(s, t) == s \o t

\* Concatenation stays in Seq(S), has the empty sequence as its unit, and associates.
LEMMA CatFacts ==
  ASSUME NEW S, NEW s \in Seq(S), NEW t \in Seq(S)
  PROVE  /\ Cat(s, t) \in Seq(S)
         /\ Cat(s, <<>>) = s
         /\ Cat(<<>>, s) = s
         /\ \A u \in Seq(S) : Cat(Cat(s, t), u) = Cat(s, Cat(t, u))
  BY ConcatAssociative DEF Cat

\* FlattenConcat under the name Cat.
LEMMA FlattenCat ==
  ASSUME NEW S, NEW s \in Seq(Seq(S)), NEW t \in Seq(Seq(S))
  PROVE  FlattenSeq(Cat(s, t)) = Cat(FlattenSeq(s), FlattenSeq(t))
  BY FlattenConcat DEF Cat

Put(e, token, with) == IF e = token THEN with ELSE <<e>>

\* str::replace in an empty text.
LEMMA ReplaceEmpty ==
  ASSUME NEW token, NEW with
  PROVE  Replace(<<>>, token, with) = <<>>
<1>1. [i \in DOMAIN <<>> |-> IF <<>>[i] = token THEN with ELSE << <<>>[i] >>] = <<>>
  OBVIOUS
<1> QED
  BY <1>1, FlattenEmpty, Zenon DEF Replace

\* str::replace goes token by token.
LEMMA ReplaceAppend ==
  ASSUME NEW S, NEW s \in Seq(S), NEW e \in S, NEW token, NEW with \in Seq(S)
  PROVE  Replace(Append(s, e), token, with) = Replace(s, token, with) \o Put(e, token, with)
<1> DEFINE m(x) == [i \in DOMAIN x |-> Put(x[i], token, with)]
<1>1. \A x : Replace(x, token, with) = FlattenSeq(m(x))
  BY Zenon DEF Replace, Put
<1>2. \A x \in S : Put(x, token, with) \in Seq(S)
  BY DEF Put
<1>3. m(s) \in Seq(Seq(S))
  <2>1. DOMAIN s = 1..Len(s) /\ Len(s) \in Nat /\ \A i \in 1..Len(s) : s[i] \in S
    OBVIOUS
  <2>2. m(s) \in [1..Len(s) -> Seq(S)]
    BY <1>2, <2>1
  <2> QED
    BY <2>1, <2>2, IsSequence
<1>4. m(Append(s, e)) = Append(m(s), Put(e, token, with))
  OBVIOUS
<1>5. FlattenSeq(m(Append(s, e))) = FlattenSeq(m(s)) \o Put(e, token, with)
  BY <1>2, <1>3, <1>4, FlattenAppendSeq
<1> QED
  BY <1>1, <1>5, Zenon

\* What is replaced is gone, when what is put in has none of it.
LEMMA ReplaceType ==
  ASSUME NEW S, NEW U, NEW token, NEW with \in Seq(U), S \ {token} \subseteq U
  PROVE  \A s \in Seq(S) : Replace(s, token, with) \in Seq(U)
<1> DEFINE m(x) == [i \in DOMAIN x |-> Put(x[i], token, with)]
<1>1. \A x : Replace(x, token, with) = FlattenSeq(m(x))
  BY Zenon DEF Replace, Put
<1>2. \A x \in S : Put(x, token, with) \in Seq(U)
  BY DEF Put
<1>3. TAKE s \in Seq(S)
<1>4. m(s) \in Seq(Seq(U))
  <2>1. DOMAIN s = 1..Len(s) /\ Len(s) \in Nat /\ \A i \in 1..Len(s) : s[i] \in S
    OBVIOUS
  <2>2. m(s) \in [1..Len(s) -> Seq(U)]
    BY <1>2, <2>1
  <2> QED
    BY <2>1, <2>2, IsSequence
<1>5. FlattenSeq(m(s)) \in Seq(U)
  BY <1>4, FlattenType
<1> QED
  BY <1>1, <1>5, Zenon

\* str::replace takes concatenations to concatenations: a placeholder never spans two
\* tokens.
LEMMA ReplaceConcat ==
  ASSUME NEW S, NEW token, NEW with \in Seq(S), NEW s \in Seq(S)
  PROVE  \A t \in Seq(S) :
           Replace(Cat(s, t), token, with) = Cat(Replace(s, token, with), Replace(t, token, with))
<1> DEFINE R(x) == Replace(x, token, with)
           T == {t \in Seq(S) : R(s \o t) = R(s) \o R(t)}
<1>0. \A x \in Seq(S) : R(x) \in Seq(S)
  BY ReplaceType
<1>1. <<>> \in T
  <2>1. s \o <<>> = s /\ R(s) \o <<>> = R(s) /\ <<>> \in Seq(S)
    BY <1>0
  <2>2. R(s \o <<>>) = R(s) \o R(<<>>)
    BY <2>1, ReplaceEmpty, Zenon
  <2> QED
    BY <2>1, <2>2, Zenon
<1>2. ASSUME NEW t \in Seq(S), NEW e \in S, t \in T
      PROVE  Append(t, e) \in T
  <2>1. s \o Append(t, e) = Append(s \o t, e) /\ s \o t \in Seq(S) /\ Append(t, e) \in Seq(S)
    OBVIOUS
  <2>2. R(Append(s \o t, e)) = R(s \o t) \o Put(e, token, with)
    <3>1. \A x \in Seq(S) : R(Append(x, e)) = R(x) \o Put(e, token, with)
      BY ReplaceAppend
    <3> QED
      BY <2>1, <3>1, Zenon
  <2>3. R(Append(t, e)) = R(t) \o Put(e, token, with)
    BY ReplaceAppend
  <2>4. R(s \o t) = R(s) \o R(t)
    BY <1>2
  <2>5. Put(e, token, with) \in Seq(S)
    BY DEF Put
  <2>6. R(s) \in Seq(S) /\ R(t) \in Seq(S)
    BY <1>0
  <2>7. (R(s) \o R(t)) \o Put(e, token, with) = R(s) \o (R(t) \o Put(e, token, with))
    <3>1. \A x, y, z \in Seq(S) : (x \o y) \o z = x \o (y \o z)
      BY ConcatAssociative, SMTT(30)
    <3> QED
      BY <2>5, <2>6, <3>1, SMTT(30)
  <2>8. R(s \o Append(t, e)) = R(s) \o R(Append(t, e))
    <3>1. R(s \o Append(t, e)) = R(Append(s \o t, e))
      BY <2>1, Zenon
    <3>2. R(Append(s \o t, e)) = (R(s) \o R(t)) \o Put(e, token, with)
      BY <2>2, <2>4, Zenon
    <3> QED
      BY <2>3, <2>7, <3>1, <3>2, Zenon
  <2> QED
    BY <2>1, <2>8, Zenon
<1>3. Seq(S) \subseteq T
  <2> HIDE DEF T
  <2> QED
    BY <1>1, <1>2, SeqInduction
<1> QED
  <2>1. \A t \in Seq(S) : R(s \o t) = R(s) \o R(t)
    BY <1>3
  <2> QED
    BY <2>1, Zenon DEF Cat

\* A text without the placeholder stays as it is.
LEMMA ReplaceFree ==
  ASSUME NEW S, NEW token, token \notin S, NEW with \in Seq(S)
  PROVE  \A s \in Seq(S) : Replace(s, token, with) = s
<1> DEFINE T == {s \in Seq(S) : Replace(s, token, with) = s}
<1>1. <<>> \in T
  <2>1. <<>> \in Seq(S)
    OBVIOUS
  <2>2. Replace(<<>>, token, with) = <<>>
    BY ReplaceEmpty
  <2> QED
    BY <2>1, <2>2, Zenon
<1>2. ASSUME NEW s \in Seq(S), NEW e \in S, s \in T
      PROVE  Append(s, e) \in T
  <2>1. Replace(Append(s, e), token, with) = Replace(s, token, with) \o Put(e, token, with)
    BY ReplaceAppend
  <2>2. Put(e, token, with) = <<e>>
    BY DEF Put
  <2>3. Append(s, e) = s \o <<e>> /\ Append(s, e) \in Seq(S)
    OBVIOUS
  <2>4. Replace(s, token, with) = s
    BY <1>2
  <2>5. Replace(Append(s, e), token, with) = Append(s, e)
    BY <2>1, <2>2, <2>3, <2>4, Zenon
  <2> QED
    BY <2>3, <2>5, Zenon
<1>3. Seq(S) \subseteq T
  <2> HIDE DEF T
  <2> QED
    BY <1>1, <1>2, SeqInduction
<1> QED
  BY <1>3

\* str::replace in a text of one token.
LEMMA ReplaceOne ==
  ASSUME NEW S, NEW e \in S, NEW token, NEW with \in Seq(S)
  PROVE  Replace(<<e>>, token, with) = Put(e, token, with)
<1>1. <<e>> = Append(<<>>, e) /\ <<>> \in Seq(S)
  OBVIOUS
<1>2. Replace(Append(<<>>, e), token, with) = Replace(<<>>, token, with) \o Put(e, token, with)
  <2>1. \A x \in Seq(S) : Replace(Append(x, e), token, with) = Replace(x, token, with) \o Put(e, token, with)
    BY ReplaceAppend
  <2> QED
    BY <1>1, <2>1, Zenon
<1>3. Put(e, token, with) \in Seq(S)
  BY DEF Put
<1>4. <<>> \o Put(e, token, with) = Put(e, token, with)
  BY <1>3
<1> QED
  BY <1>1, <1>2, <1>4, ReplaceEmpty, Zenon

\* str::replace in a flattened sequence is str::replace in each of its members.
LEMMA ReplaceFlatten ==
  ASSUME NEW S, NEW token, NEW with \in Seq(S)
  PROVE  \A s \in Seq(Seq(S)) :
           Replace(FlattenSeq(s), token, with) = FlattenSeq([i \in DOMAIN s |-> Replace(s[i], token, with)])
<1> DEFINE R(x) == Replace(x, token, with)
           m(s) == [i \in DOMAIN s |-> R(s[i])]
           T == {s \in Seq(Seq(S)) : R(FlattenSeq(s)) = FlattenSeq(m(s))}
<1>0. \A x \in Seq(S) : R(x) \in Seq(S)
  BY ReplaceType
<1>1. <<>> \in T
  <2>1. m(<<>>) = <<>> /\ <<>> \in Seq(Seq(S))
    OBVIOUS
  <2>2. R(FlattenSeq(<<>>)) = FlattenSeq(m(<<>>))
    BY <2>1, FlattenEmpty, ReplaceEmpty, Zenon
  <2> QED
    BY <2>1, <2>2, Zenon
<1>2. ASSUME NEW s \in Seq(Seq(S)), NEW e \in Seq(S), s \in T
      PROVE  Append(s, e) \in T
  <2> HIDE DEF R
  <2>1. FlattenSeq(Append(s, e)) = FlattenSeq(s) \o e
    BY FlattenAppendSeq
  <2>2. FlattenSeq(s) \in Seq(S)
    BY FlattenType
  <2>3. R(FlattenSeq(s) \o e) = R(FlattenSeq(s)) \o R(e)
    <3>1. Replace(Cat(FlattenSeq(s), e), token, with)
            = Cat(Replace(FlattenSeq(s), token, with), Replace(e, token, with))
      BY <2>2, ReplaceConcat
    <3> QED
      BY <3>1, Zenon DEF R, Cat
  <2>4. R(e) \in Seq(S)
    BY <1>0
  <2>5. m(s) \in Seq(Seq(S))
    <3>1. DOMAIN s = 1..Len(s) /\ Len(s) \in Nat /\ \A i \in 1..Len(s) : s[i] \in Seq(S)
      OBVIOUS
    <3>2. m(s) \in [1..Len(s) -> Seq(S)]
      BY <1>0, <3>1
    <3> QED
      BY <3>1, <3>2, IsSequence
  <2>6. m(Append(s, e)) = Append(m(s), R(e))
    OBVIOUS
  <2>7. FlattenSeq(m(Append(s, e))) = FlattenSeq(m(s)) \o R(e)
    BY <2>4, <2>5, <2>6, FlattenAppendSeq
  <2>8. R(FlattenSeq(s)) = FlattenSeq(m(s))
    BY <1>2
  <2>9. Append(s, e) \in Seq(Seq(S))
    OBVIOUS
  <2>10. R(FlattenSeq(Append(s, e))) = FlattenSeq(m(Append(s, e)))
    BY <2>1, <2>3, <2>7, <2>8, Zenon
  <2> QED
    BY <2>9, <2>10, Zenon
<1>3. Seq(Seq(S)) \subseteq T
  <2> HIDE DEF T
  <2> QED
    BY <1>1, <1>2, SeqInduction
<1> QED
  BY <1>3

\* What a cut of a sequence is.
LEMMA CutIs ==
  ASSUME NEW S, NEW s \in Seq(S), NEW m \in Nat, NEW n \in Nat, m <= n, n <= Len(s)
  PROVE  /\ SubSeq(s, m + 1, n) \in Seq(S)
         /\ Len(SubSeq(s, m + 1, n)) = n - m
         /\ \A h \in 1..(n - m) : SubSeq(s, m + 1, n)[h] = s[m + h]
<1>1. \A i \in 1..Len(s) : s[i] \in S
  OBVIOUS
<1>2. \A i \in (m + 1)..n : s[i] \in S
  BY <1>1
<1> QED
  BY <1>2

\* A cut without the elements of A.
LEMMA CutFree ==
  ASSUME NEW S, NEW s \in Seq(S), NEW m \in Nat, NEW n \in Nat, m <= n, n <= Len(s),
         NEW A, \A h \in (m + 1)..n : s[h] \notin A
  PROVE  SubSeq(s, m + 1, n) \in Seq(S \ A)
<1> DEFINE c == SubSeq(s, m + 1, n)
<1>1. c \in Seq(S) /\ Len(c) = n - m /\ \A h \in 1..(n - m) : c[h] = s[m + h]
  BY CutIs
<1> HIDE DEF c
<1>2. ASSUME NEW h \in 1..Len(c) PROVE c[h] \in S \ A
  BY <1>1
<1> QED
  BY <1>1, <1>2 DEF c

\* What is behind m, cut at a position i.
LEMMA CutAt ==
  ASSUME NEW S, NEW s \in Seq(S), NEW m \in Nat, NEW i \in (m + 1)..Len(s)
  PROVE  SubSeq(s, m + 1, Len(s)) = Cat(SubSeq(s, m + 1, i - 1), Cat(<<s[i]>>, SubSeq(s, i + 1, Len(s))))
<1> DEFINE n == Len(s)
           l == m + 1
<1>1. n \in Nat /\ i \in 1..n /\ l \in 1..(n + 1) /\ i - 1 \in (l - 1)..n /\ n \in (i - 1)..n /\ (i - 1) + 1 = i /\ n \in i..n
  OBVIOUS
<1>2. SubSeq(s, l, i - 1) \o SubSeq(s, (i - 1) + 1, n) = SubSeq(s, l, n)
  <2> HIDE DEF n, l
  <2>1. \A x \in 1..(Len(s) + 1) : \A k \in x-1..Len(s) : \A z \in k..Len(s) :
          SubSeq(s, x, k) \o SubSeq(s, k+1, z) = SubSeq(s, x, z)
    BY ConcatAdjacentSubSeq
  <2> QED
    BY <1>1, <2>1, Zenon DEF n
<1>3. SubSeq(s, i, n) = <<s[i]>> \o SubSeq(s, i + 1, n)
  BY <1>1, SubSeqRecursiveFirst
<1> QED
  BY <1>1, <1>2, <1>3, Zenon DEF Cat

\* All of it, cut at a position.
LEMMA WholeCutAt ==
  ASSUME NEW S, NEW s \in Seq(S), NEW i \in 1..Len(s)
  PROVE  s = Cat(SubSeq(s, 1, i - 1), Cat(<<s[i]>>, SubSeq(s, i + 1, Len(s))))
<1>1. 0 \in Nat /\ 0 + 1 = 1 /\ i \in (0 + 1)..Len(s)
  OBVIOUS
<1>2. SubSeq(s, 0 + 1, Len(s)) = Cat(SubSeq(s, 0 + 1, i - 1), Cat(<<s[i]>>, SubSeq(s, i + 1, Len(s))))
  <2>1. \A m \in Nat : \A x \in (m + 1)..Len(s) :
    SubSeq(s, m + 1, Len(s)) = Cat(SubSeq(s, m + 1, x - 1), Cat(<<s[x]>>, SubSeq(s, x + 1, Len(s))))
    BY CutAt
  <2> QED
    BY <1>1, <2>1, Zenon
<1>3. SubSeq(s, 1, Len(s)) = s
  BY SubSeqFull
<1> QED
  BY <1>1, <1>2, <1>3, Zenon

\* The cuts are text.
LEMMA Cuts ==
  ASSUME NEW S, NEW s \in Seq(S), NEW i \in Nat, NEW j \in Nat, i <= Len(s), j <= Len(s)
  PROVE  SubSeq(s, 1, i) \in Seq(S) /\ SubSeq(s, i + 1, j - 1) \in Seq(S) /\ SubSeq(s, j + 1, Len(s)) \in Seq(S)
  OBVIOUS

\* A sequence over S that has no element of A is one over what S has besides A.
LEMMA IsFree ==
  ASSUME NEW S, NEW s \in Seq(S), NEW A, \A i \in 1..Len(s) : s[i] \notin A
  PROVE  s \in Seq(S \ A)
  OBVIOUS

USE DEF Texts

Job == [slot : Slots, cond : Conditions, text : Texts]
Shown == [slot : Slots, text : Texts]
Frame == [result : Texts, rest : Texts]
\* The variables of simple_sub, in its order.
Vars == {"title", "body", "status_emoji", "status_color", "timestamp", "url"}
Phases == {"next", "each", "if", "done"} \cup Vars

\* The inductive invariant of the engine: the types; a pass that is not running has
\* left nothing behind; a call inside eval_if reads no closer, so there is only one.
EngineInv ==
  /\ message \in Messages
  /\ jobs \in Seq(Job)
  /\ phase \in Phases
  /\ rest \in Texts /\ result \in Texts
  /\ stack \in Seq(Frame)
  /\ out \in Seq(Shown)
  /\ phase \notin {"each", "if"} => result = <<>>
  /\ phase \in {"next", "done"} => rest = <<>>
  /\ phase \notin {"next", "done"} => jobs # <<>>
  /\ Len(stack) <= 1
  /\ stack # <<>> => phase = "if" /\ rest \in Seq(Tokens \ {EndIf})
  /\ Len(out) + Len(jobs) <= Len(Pieces(message))


\* The tokens the engine's own texts are made of.
LEMMA OwnTokens ==
  /\ Each \in Tokens /\ EndEach \in Tokens /\ EndIf \in Tokens /\ IfPrefix \in Tokens
  /\ IfField.url \in Tokens
  /\ "{{title}}" \in Tokens /\ "{{body}}" \in Tokens /\ "{{url}}" \in Tokens
  /\ "{{status_emoji}}" \in Tokens /\ "{{status_color}}" \in Tokens /\ "{{timestamp}}" \in Tokens
  /\ "{{key}}" \in Tokens /\ "{{value}}" \in Tokens
  /\ "nl" \in Tokens /\ "**" \in Tokens /\ "-" \in Tokens /\ ":" \in Tokens
  /\ "link" \in Tokens /\ "footer" \in Tokens /\ "label" \in Tokens
<1>1. {Each, EndEach, EndIf, IfPrefix, IfField.url, Placeholder.title, Placeholder.body,
       Placeholder.status_emoji, Placeholder.status_color, Placeholder.timestamp,
       Placeholder.url, Placeholder.key, Placeholder.value} \subseteq Braced \cup Openers
  BY ZenonT(30) DEF Braced, Openers, IfOpeners, Fields, IfField, Placeholder
<1>2. Braced \cup Openers \cup {"nl", "**", "-", ":", "link", "footer", "label"} \subseteq Tokens
  BY TokensConstant
<1>3. {Each, EndEach, EndIf, IfPrefix, IfField.url, Placeholder.title, Placeholder.body,
       Placeholder.status_emoji, Placeholder.status_color, Placeholder.timestamp,
       Placeholder.url, Placeholder.key, Placeholder.value} \subseteq Tokens
  BY <1>1, <1>2, Zenon
<1> QED
  BY <1>2, <1>3 DEF Placeholder

\* What a message's context holds.
LEMMA ContextType ==
  ASSUME message \in Messages
  PROVE  /\ ctx \in Contexts
         /\ ctx.title \in Texts /\ ctx.body \in Texts
         /\ ctx.url \in Seq(Texts) /\ Len(ctx.url) <= 1
         /\ ctx.status \in Seq(Statuses) /\ Len(ctx.status) <= 1
         /\ ctx.fields \in Seq([key : Texts, value : Texts])
         /\ \A i \in DOMAIN ctx.fields : ctx.fields[i].key \in Texts /\ ctx.fields[i].value \in Texts
<1>1. ctx \in Contexts /\ Len(ctx.url) <= 1 /\ Len(ctx.status) <= 1
  BY MessagesConstant DEF ctx
<1> HIDE DEF ctx
<1>2. ctx.fields \in Seq([key : Texts, value : Texts])
  BY <1>1 DEF Contexts
<1>3. \A i \in DOMAIN ctx.fields : ctx.fields[i] \in [key : Texts, value : Texts]
  BY <1>2, ElementOfSeq, LenProperties
<1> QED
  BY <1>1, <1>2, <1>3 DEF Contexts

\* The emoji and the colour of a status, and the time.
LEMMA StatusTokens ==
  ASSUME message \in Messages
  PROVE  /\ Status \in Statuses
         /\ \A e \in {Emoji[Status], Color[Status], Timestamp} : e \in Tokens /\ e \notin Braced \cup Directives
<1>1. Status \in Statuses
  <2>1. ctx.status # <<>> => ctx.status[1] \in Statuses
    BY ContextType
  <2> QED
    BY <2>1 DEF Status, Statuses, Emoji
<1>2. {Emoji[s] : s \in Statuses} \cup {Color[s] : s \in Statuses} \cup {Timestamp} \subseteq Tokens
  BY TokensConstant
<1>3. Emoji[Status] \in Tokens /\ Color[Status] \in Tokens /\ Timestamp \in Tokens
  BY <1>1, <1>2
<1>4. \A s \in Statuses : /\ Emoji[s] \in {"check", "cross", "sign", "i"}
                         /\ Color[s] \in {"green", "red", "orange", "blue"}
  BY DEF Statuses, Emoji, Color
<1>5. \A e \in {"check", "cross", "sign", "i", "green", "red", "orange", "blue", "now"} :
        e \notin Braced \cup Directives
  <2>1. /\ IfField["body"] = "{{#if body}}" /\ IfField["url"] = "{{#if url}}"
        /\ IfField["fields"] = "{{#if fields}}" /\ IfField["title"] = "{{#if title}}"
        /\ IfField["other"] = "{{#if other}}"
    BY DEF IfField
  <2>2. Fields = {"body", "url", "fields", "title", "other"}
    BY DEF Fields, IfField
  <2>3. DOMAIN Placeholder =
          {"title", "body", "status_emoji", "status_color", "timestamp", "url", "key", "value"}
    BY DEF Placeholder
  <2>4. /\ Placeholder["title"] = "{{title}}" /\ Placeholder["body"] = "{{body}}"
        /\ Placeholder["status_emoji"] = "{{status_emoji}}"
        /\ Placeholder["status_color"] = "{{status_color}}"
        /\ Placeholder["timestamp"] = "{{timestamp}}" /\ Placeholder["url"] = "{{url}}"
        /\ Placeholder["key"] = "{{key}}" /\ Placeholder["value"] = "{{value}}"
    BY DEF Placeholder
  <2> DEFINE plain == {"check", "cross", "sign", "i", "green", "red", "orange", "blue", "now"}
  <2>5. \A e \in plain : \A f \in Fields : e # IfField[f]
    BY <2>1, <2>2
  <2>6. \A e \in plain : \A p \in DOMAIN Placeholder : e # Placeholder[p]
    BY <2>3, <2>4
  <2>7. \A e \in plain : e \notin {Each, EndEach, EndIf, IfPrefix}
    BY DEF Each, EndEach, EndIf, IfPrefix
  <2> HIDE DEF plain
  <2>8. \A e \in plain : e \notin Braced \cup Directives
    BY <2>5, <2>6, <2>7 DEF Braced, Directives, Openers, IfOpeners
  <2> QED
    BY <2>8 DEF plain
<1>6. Timestamp = "now"
  BY DEF Timestamp
<1> QED
  BY <1>1, <1>3, <1>4, <1>5, <1>6

\* The pieces of a message are jobs of the engine.
LEMMA PiecesType ==
  ASSUME NEW m \in Messages
  PROVE  Pieces(m) \in Seq(Job)
<1>1. m.pieces \in Seq(Job)
  BY MessagesConstant DEF Job
<1>2. ASSUME NEW slot \in Slots, NEW text \in Texts
      PROVE  Piece(slot, text) \in Job
  BY DEF Piece, Job, Conditions
<1>3. TextFallback \in Texts
  <2>1. \A a, b, c, d \in Tokens : <<a, b, c, d>> \in Texts
    OBVIOUS
  <2> QED
    BY <2>1, OwnTokens, Zenon DEF TextFallback
<1>4. MarkdownFallback \in Texts
  <2>1. \A a, b \in Tokens : <<a>> \in Texts /\ <<a, b>> \in Texts
    OBVIOUS
  <2>2. \A a, b, c, d, e \in Tokens : <<a, b, c, d>> \in Texts /\ <<a, b, c, d, e>> \in Texts
    OBVIOUS
  <2>3. \A s, t \in Texts : s \o t \in Texts
    OBVIOUS
  <2>4. /\ <<"**", "{{status_emoji}}", "{{title}}", "**", "{{body}}">> \in Texts
        /\ <<"-", "{{key}}", ":", "{{value}}">> \in Texts
        /\ <<"link", "{{url}}">> \in Texts /\ <<"footer", "{{timestamp}}">> \in Texts
        /\ <<Each>> \in Texts /\ <<EndEach>> \in Texts /\ <<EndIf>> \in Texts /\ <<IfField.url>> \in Texts
    BY <2>1, <2>2, OwnTokens
  <2> QED
    BY <2>3, <2>4, Zenon DEF MarkdownFallback
<1>5. "text" \in Slots /\ "markdown" \in Slots
  BY DEF Slots
<1>6. Piece("text", TextFallback) \in Job /\ Piece("markdown", MarkdownFallback) \in Job
  BY <1>2, <1>3, <1>4, <1>5
<1>7. /\ <<Piece("text", TextFallback)>> \in Seq(Job)
      /\ <<Piece("text", TextFallback), Piece("markdown", MarkdownFallback)>> \in Seq(Job)
  BY <1>6
<1> QED
  BY <1>1, <1>7 DEF Pieces

\* What simple_sub puts in is a text.
LEMMA SubstituteType ==
  ASSUME message \in Messages, NEW var \in Vars
  PROVE  Substitute(var) \in Texts
<1>1. FlattenSeq(ctx.url) \in Texts
  BY ContextType, FlattenType
<1>2. <<Emoji[Status]>> \in Texts /\ <<Color[Status]>> \in Texts /\ <<Timestamp>> \in Texts
  <2>1. \A e \in Tokens : <<e>> \in Texts
    OBVIOUS
  <2> QED
    BY <2>1, StatusTokens
<1>3. ctx.title \in Texts /\ ctx.body \in Texts
  BY ContextType
<1>4. /\ Substitute("title") = ctx.title /\ Substitute("body") = ctx.body
      /\ Substitute("status_emoji") = <<Emoji[Status]>> /\ Substitute("status_color") = <<Color[Status]>>
      /\ Substitute("timestamp") = <<Timestamp>> /\ Substitute("url") = FlattenSeq(ctx.url)
  BY DEF Substitute
<1> QED
  BY <1>1, <1>2, <1>3, <1>4 DEF Vars

\* What expand_each makes of a block is a text.
LEMMA ExpandedType ==
  ASSUME message \in Messages
  PROVE  \A inner \in Texts : Expanded(inner) \in Texts
<1>1. TAKE inner \in Texts
<1> DEFINE n == Len(ctx.fields)
           f == [i \in DOMAIN ctx.fields |->
                  Replace(Replace(inner, Placeholder.key, ctx.fields[i].key),
                          Placeholder.value, ctx.fields[i].value)]
<1>2. DOMAIN ctx.fields = 1..n /\ n \in Nat
  BY ContextType
<1>3. ASSUME NEW i \in DOMAIN ctx.fields
      PROVE  Replace(Replace(inner, Placeholder.key, ctx.fields[i].key),
                     Placeholder.value, ctx.fields[i].value) \in Texts
  <2>1. ctx.fields[i].key \in Texts /\ ctx.fields[i].value \in Texts
    BY ContextType
  <2>2. Replace(inner, Placeholder.key, ctx.fields[i].key) \in Texts
    BY <2>1, ReplaceType
  <2> QED
    BY <2>1, <2>2, ReplaceType
<1>4. f \in [1..n -> Texts]
  BY <1>2, <1>3
<1>5. f \in Seq(Texts)
  BY <1>2, <1>4, IsSequence
<1>6. FlattenSeq(f) \in Texts
  BY <1>5, FlattenType
<1> QED
  BY <1>6, Zenon DEF Expanded

\* The grid of the fields is a text.
LEMMA GridType ==
  ASSUME message \in Messages
  PROVE  Grid \in Texts
<1> DEFINE n == Len(ctx.fields)
           f == [i \in DOMAIN ctx.fields |-> ctx.fields[i].key \o ctx.fields[i].value]
<1>1. DOMAIN ctx.fields = 1..n /\ n \in Nat
  BY ContextType
<1>2. ASSUME NEW i \in DOMAIN ctx.fields
      PROVE  ctx.fields[i].key \o ctx.fields[i].value \in Texts
  BY ContextType
<1>3. f \in [1..n -> Texts]
  BY <1>1, <1>2
<1>4. f \in Seq(Texts)
  BY <1>1, <1>3, IsSequence
<1>5. FlattenSeq(f) \in Texts
  BY <1>4, FlattenType
<1> QED
  BY <1>5, Zenon DEF Grid

\* Head and Tail of the pieces still to be rendered.
LEMMA NextJob ==
  ASSUME EngineInv, jobs # <<>>
  PROVE  /\ Head(jobs) \in Job /\ Head(jobs).slot \in Slots /\ Head(jobs).text \in Texts
         /\ Tail(jobs) \in Seq(Job) /\ Len(jobs) \in Nat \ {0} /\ Len(Tail(jobs)) = Len(jobs) - 1
<1>1. jobs \in Seq(Job)
  BY DEF EngineInv
<1>2. Head(jobs) \in Job /\ Tail(jobs) \in Seq(Job) /\ Len(Tail(jobs)) = Len(jobs) - 1
  BY <1>1, HeadTailProperties
<1>3. Len(jobs) \in Nat \ {0}
  BY <1>1
<1> QED
  BY <1>2, <1>3 DEF Job

\* What lies behind a position has the elements of the whole.
LEMMA CutFacts ==
  ASSUME NEW S, NEW s \in Seq(S), NEW e \in Nat, e <= Len(s)
  PROVE  SubSeq(s, e + 1, Len(s)) \in Seq(S)
  OBVIOUS

\* The cuts of what is left.
LEMMA CutTypes ==
  ASSUME EngineInv, NEW i \in Nat, NEW j \in Nat, i <= Len(rest), j <= Len(rest)
  PROVE  Upto(i) \in Texts /\ Between(i, j) \in Texts /\ After(i) \in Texts
<1>1. rest \in Texts
  BY DEF EngineInv
<1> QED
  BY <1>1 DEF Upto, Between, After

\* Positions in what is left to read.
LEMMA RestDomain ==
  ASSUME EngineInv
  PROVE  DOMAIN rest = 1..Len(rest) /\ Len(rest) \in Nat
  BY DEF EngineInv

\* The engine's invariant holds when render is called.
LEMMA InitEngine == Init => EngineInv
<1> SUFFICES ASSUME Init PROVE EngineInv
  OBVIOUS
<1>1. message \in Messages /\ Pieces(message) \in Seq(Job)
  BY PiecesType DEF Init
<1>2. <<>> \in Texts /\ <<>> \in Seq(Frame) /\ <<>> \in Seq(Shown) /\ Len(<<>>) = 0
  OBVIOUS
<1>3. Len(Pieces(message)) \in Nat
  BY <1>1
<1> QED
  BY <1>1, <1>2, <1>3 DEF Init, EngineInv, Phases

\* A skipped element keeps the engine's invariant.
LEMMA SkipEngine == EngineInv /\ Skip => EngineInv'
<1> SUFFICES ASSUME EngineInv, Skip PROVE EngineInv'
  OBVIOUS
<1>1. Tail(jobs) \in Seq(Job) /\ Len(Tail(jobs)) = Len(jobs) - 1
  BY NextJob DEF Skip
<1>2. Len(jobs) \in Nat /\ Len(out) \in Nat /\ Len(Pieces(message)) \in Nat
  BY PiecesType DEF EngineInv
<1> QED
  BY <1>1, <1>2 DEF EngineInv, Skip, None, Pieces

\* A rule or a grid keeps it.
LEMMA FixedEngine == EngineInv /\ Fixed => EngineInv'
<1> SUFFICES ASSUME EngineInv, Fixed PROVE EngineInv'
  OBVIOUS
<1>1. Tail(jobs) \in Seq(Job) /\ Len(Tail(jobs)) = Len(jobs) - 1
  BY NextJob DEF Fixed
<1>2. Len(jobs) \in Nat /\ Len(out) \in Nat /\ Len(Pieces(message)) \in Nat
  BY PiecesType DEF EngineInv
<1>3. PICK text \in Texts : out' = Append(out, [slot |-> Head(jobs).slot, text |-> text])
  <2>1. Grid \in Texts
    BY GridType DEF EngineInv
  <2>2. <<>> \in Texts
    OBVIOUS
  <2> QED
    BY <2>1, <2>2 DEF Fixed, Emit
<1>4. [slot |-> Head(jobs).slot, text |-> text] \in Shown
  BY NextJob DEF Shown, Fixed
<1>5. out' \in Seq(Shown) /\ Len(out') = Len(out) + 1
  BY <1>3, <1>4 DEF EngineInv
<1> QED
  BY <1>1, <1>2, <1>5 DEF EngineInv, Fixed, None, Pieces

\* Starting on a piece keeps it.
LEMMA StartEngine == EngineInv /\ Start => EngineInv'
  BY NextJob DEF EngineInv, Start, None, Pieces, Phases, Vars

\* The end of render keeps it.
LEMMA FinishEngine == EngineInv /\ Finish => EngineInv'
  BY DEF EngineInv, Finish, None, Pieces, Phases

\* A block for each field that is expanded keeps it.
LEMMA ExpandEachEngine == EngineInv /\ ExpandEach => EngineInv'
<1> SUFFICES ASSUME EngineInv, ExpandEach PROVE EngineInv'
  OBVIOUS
<1>1. PICK i, j \in DOMAIN rest :
        result' = result \o Upto(i - 1) \o Expanded(Between(i, j)) /\ rest' = After(j)
  BY DEF ExpandEach
<1>2. i \in Nat /\ j \in Nat /\ i - 1 \in Nat /\ i <= Len(rest) /\ j <= Len(rest) /\ i - 1 <= Len(rest)
  BY <1>1, RestDomain
<1>3. Upto(i - 1) \in Texts /\ Between(i, j) \in Texts /\ After(j) \in Texts
  BY <1>2, CutTypes
<1>4. Expanded(Between(i, j)) \in Texts
  BY <1>3, ExpandedType DEF EngineInv
<1>5. result' \in Texts /\ rest' \in Texts
  BY <1>1, <1>3, <1>4 DEF EngineInv
<1> QED
  BY <1>5 DEF EngineInv, ExpandEach, Pieces

\* A block for each field that is not closed keeps it.
LEMMA EachUnclosedEngine == EngineInv /\ EachUnclosed => EngineInv'
<1> SUFFICES ASSUME EngineInv, EachUnclosed PROVE EngineInv'
  OBVIOUS
<1>1. PICK i \in DOMAIN rest : result' = result \o Upto(i) /\ rest' = After(i)
  BY DEF EachUnclosed
<1>2. i \in Nat /\ i <= Len(rest)
  BY <1>1 DEF EngineInv
<1>3. Upto(i) \in Texts /\ After(i) \in Texts
  BY <1>2, CutTypes
<1>4. result' \in Texts /\ rest' \in Texts
  BY <1>1, <1>3 DEF EngineInv
<1> QED
  BY <1>4 DEF EngineInv, EachUnclosed, Pieces

\* The end of expand_each keeps it.
LEMMA EachEndEngine == EngineInv /\ EachEnd => EngineInv'
<1> SUFFICES ASSUME EngineInv, EachEnd PROVE EngineInv'
  OBVIOUS
<1>1. rest' \in Texts /\ result' \in Texts
  BY DEF EngineInv, EachEnd
<1> QED
  BY <1>1 DEF EngineInv, EachEnd, Pieces, Phases

\* What an opener reaches to is in the text, and not before the opener.
LEMMA OpenerReach ==
  ASSUME EngineInv, NEW i \in DOMAIN rest, NEW e \in DOMAIN rest, Opener(i, e)
  PROVE  i \in Nat /\ e \in Nat /\ 1 <= i /\ i <= e /\ e <= Len(rest) /\ rest[i] \in Openers
  BY RestDomain DEF Opener, First

\* While a call is on the stack there is no closer to be found.
LEMMA NoneIsClosed ==
  ASSUME EngineInv, stack # <<>>, NEW e \in Nat, NEW c \in DOMAIN rest
  PROVE  ~First(c, e + 1, {EndIf})
<1>1. rest \in Seq(Tokens \ {EndIf}) /\ c \in 1..Len(rest)
  BY RestDomain DEF EngineInv
<1>2. rest[c] # EndIf
  BY <1>1
<1> QED
  BY <1>2 DEF First

\* eval_if calling itself keeps it: the body ends before the first closer, so the call
\* finds no block to call itself for again.
LEMMA IfEnterEngine == EngineInv /\ IfEnter => EngineInv'
<1> SUFFICES ASSUME EngineInv, IfEnter PROVE EngineInv'
  OBVIOUS
<1>1. PICK i, e, c \in DOMAIN rest :
        /\ Opener(i, e) /\ First(c, e + 1, {EndIf})
        /\ stack' = Append(stack, [result |-> result \o Upto(i - 1), rest |-> After(c)])
        /\ rest' = Between(e, c)
  BY DEF IfEnter
<1>2. i \in Nat /\ e \in Nat /\ c \in Nat /\ 1 <= i /\ i <= e /\ e < c /\ c <= Len(rest)
  <2>1. e + 1 <= c /\ c \in 1..Len(rest)
    BY <1>1, RestDomain DEF First
  <2> QED
    BY <1>1, <2>1, OpenerReach, RestDomain
<1>3. stack = <<>>
  BY <1>1, <1>2, NoneIsClosed
<1>4. Upto(i - 1) \in Texts /\ Between(e, c) \in Texts /\ After(c) \in Texts
  <2>1. i - 1 \in Nat /\ i - 1 <= Len(rest) /\ e <= Len(rest)
    BY <1>2, RestDomain
  <2> QED
    BY <1>2, <2>1, CutTypes
<1>5. [result |-> result \o Upto(i - 1), rest |-> After(c)] \in Frame
  BY <1>4 DEF EngineInv, Frame
<1>6. stack' \in Seq(Frame) /\ Len(stack') = 1
  BY <1>1, <1>3, <1>5
<1>7. rest' \in Texts /\ result' \in Texts
  BY <1>1, <1>4 DEF IfEnter
<1>8. rest' \in Seq(Tokens \ {EndIf})
  <2>1. \A h \in (e + 1)..(c - 1) : rest[h] \notin {EndIf}
    BY <1>1 DEF First
  <2>2. e <= c - 1 /\ c - 1 <= Len(rest) /\ c - 1 \in Nat /\ rest \in Seq(Tokens)
    <3>1. rest \in Seq(Tokens)
      BY DEF EngineInv
    <3>2. c \in 1..Len(rest) /\ Len(rest) \in Nat
      BY <3>1, RestDomain
    <3> QED
      BY <1>2, <3>1, <3>2
  <2>3. SubSeq(rest, e + 1, c - 1) \in Seq(Tokens \ {EndIf})
    BY <1>2, <2>1, <2>2, CutFree
  <2> QED
    BY <1>1, <2>3 DEF Between
<1> QED
  BY <1>6, <1>7, <1>8 DEF EngineInv, IfEnter, Pieces

\* A block whose condition does not hold keeps it.
LEMMA IfSkipEngine == EngineInv /\ IfSkip => EngineInv'
<1> SUFFICES ASSUME EngineInv, IfSkip PROVE EngineInv'
  OBVIOUS
<1>1. PICK i, e, c \in DOMAIN rest :
        /\ Opener(i, e) /\ First(c, e + 1, {EndIf})
        /\ result' = result \o Upto(i - 1) /\ rest' = After(c)
  BY DEF IfSkip
<1>2. i \in Nat /\ e \in Nat /\ c \in Nat /\ 1 <= i /\ i <= Len(rest) /\ c <= Len(rest)
  BY <1>1, OpenerReach, RestDomain
<1>3. stack = <<>>
  BY <1>1, <1>2, NoneIsClosed
<1>4. Upto(i - 1) \in Texts /\ After(c) \in Texts
  <2>1. i - 1 \in Nat /\ i - 1 <= Len(rest)
    BY <1>2, RestDomain
  <2> QED
    BY <1>2, <2>1, CutTypes
<1>5. rest' \in Texts /\ result' \in Texts
  BY <1>1, <1>4 DEF EngineInv
<1> QED
  BY <1>3, <1>5 DEF EngineInv, IfSkip, Pieces

\* An opener that is not closed keeps it.
LEMMA IfUnclosedEngine == EngineInv /\ IfUnclosed => EngineInv'
<1> SUFFICES ASSUME EngineInv, IfUnclosed PROVE EngineInv'
  OBVIOUS
<1>1. PICK e \in DOMAIN rest : result' = result \o Upto(e) /\ rest' = After(e)
  BY DEF IfUnclosed
<1>2. e \in Nat /\ e <= Len(rest)
  BY <1>1, RestDomain
<1>3. Upto(e) \in Texts /\ After(e) \in Texts
  BY <1>2, CutTypes
<1>4. rest' \in Texts /\ result' \in Texts
  BY <1>1, <1>3 DEF EngineInv
<1>5. rest \in Seq(Tokens \ {EndIf}) => rest' \in Seq(Tokens \ {EndIf})
  BY <1>1, <1>2, CutFacts DEF After
<1> QED
  BY <1>4, <1>5 DEF EngineInv, IfUnclosed, Pieces

\* The return of the inner eval_if keeps it.
LEMMA IfReturnEngine == EngineInv /\ IfReturn => EngineInv'
<1> SUFFICES ASSUME EngineInv, IfReturn PROVE EngineInv'
  OBVIOUS
<1>1. stack \in Seq(Frame) /\ Len(stack) = 1
  <2>1. stack \in Seq(Frame) /\ Len(stack) <= 1
    BY DEF EngineInv
  <2>2. stack # <<>>
    BY DEF IfReturn
  <2>3. Len(stack) \in Nat
    BY <2>1
  <2>4. Len(stack) # 0
    BY <2>1, <2>2, EmptySeq
  <2>5. Len(stack) = 1
    <3>1. \A n \in Nat : n <= 1 /\ n # 0 => n = 1
      OBVIOUS
    <3> QED
      BY <2>1, <2>3, <2>4, <3>1, Zenon
  <2> QED
    BY <2>1, <2>5
<1>2. Last(stack) \in Frame /\ Front(stack) = <<>>
  BY <1>1 DEF Last, Front
<1>3. rest' \in Texts /\ result' \in Texts
  BY <1>2 DEF EngineInv, IfReturn, Frame
<1>4. stack' = <<>>
  BY <1>2 DEF IfReturn
<1> QED
  BY <1>3, <1>4 DEF EngineInv, IfReturn, Pieces

\* The end of eval_if keeps it.
LEMMA IfEndEngine == EngineInv /\ IfEnd => EngineInv'
<1> SUFFICES ASSUME EngineInv, IfEnd PROVE EngineInv'
  OBVIOUS
<1>1. rest' \in Texts /\ result' \in Texts
  BY DEF EngineInv, IfEnd
<1> QED
  BY <1>1 DEF EngineInv, IfEnd, Pieces, Phases, Vars

\* A pass of simple_sub keeps it.
LEMMA SubEngine ==
  ASSUME EngineInv, NEW var \in Vars, NEW next \in Vars, Sub(var, next)
  PROVE  EngineInv'
<1>1. Replace(rest, Placeholder[var], Substitute(var)) \in Texts
  <2>1. Substitute(var) \in Texts /\ rest \in Texts
    BY SubstituteType DEF EngineInv
  <2> QED
    BY <2>1, ReplaceType
<1>2. rest' \in Texts
  BY <1>1 DEF Sub
<1>3. next \notin {"next", "done", "each", "if"} /\ var \notin {"next", "done", "each", "if"}
  BY DEF Vars
<1> QED
  BY <1>2, <1>3 DEF EngineInv, Sub, Pieces, Phases

\* The last pass, which finishes the piece, keeps it.
LEMMA SubLastEngine == EngineInv /\ SubLast => EngineInv'
<1> SUFFICES ASSUME EngineInv, SubLast PROVE EngineInv'
  OBVIOUS
<1>1. Replace(rest, Placeholder.url, Substitute("url")) \in Texts
  <2>1. Substitute("url") \in Texts /\ rest \in Texts
    BY SubstituteType DEF EngineInv, Vars
  <2> QED
    BY <2>1, ReplaceType
<1>2. jobs # <<>>
  BY DEF EngineInv, SubLast
<1>3. [slot |-> Head(jobs).slot, text |-> Replace(rest, Placeholder.url, Substitute("url"))] \in Shown
  BY <1>1, <1>2, NextJob DEF Shown
<1>4. out' \in Seq(Shown) /\ Len(out') = Len(out) + 1
  BY <1>3 DEF EngineInv, SubLast, Emit
<1>5. Tail(jobs) \in Seq(Job) /\ Len(Tail(jobs)) = Len(jobs) - 1
  BY <1>2, NextJob
<1>6. Len(jobs) \in Nat /\ Len(out) \in Nat /\ Len(Pieces(message)) \in Nat
  BY PiecesType DEF EngineInv
<1> QED
  BY <1>4, <1>5, <1>6 DEF EngineInv, SubLast, Pieces, Phases, Vars

\* Every step keeps the engine's invariant.
LEMMA EngineStep == EngineInv /\ [Next]_vars => EngineInv'
<1> SUFFICES ASSUME EngineInv, [Next]_vars PROVE EngineInv'
  OBVIOUS
<1>1. CASE UNCHANGED vars
  BY <1>1 DEF EngineInv, vars, None, Pieces
<1>2. CASE Next
  BY <1>2, SkipEngine, FixedEngine, StartEngine, FinishEngine, ExpandEachEngine, EachUnclosedEngine,
     EachEndEngine, IfEnterEngine, IfSkipEngine, IfUnclosedEngine, IfReturnEngine, IfEndEngine,
     SubEngine, SubLastEngine DEF Next, Vars
<1> QED
  BY <1>1, <1>2

\* What the engine works on is text, its passes leave nothing behind, it calls itself
\* at most once, and it makes at most one piece of each that it was given.
THEOREM EngineTypeCorrect == Spec => []TypeOK
<1>1. EngineInv => TypeOK
  <2>1. rest \in Seq(Tokens \ {EndIf}) => None(1, {EndIf})
    BY DEF None
  <2> QED
    BY <2>1 DEF EngineInv, TypeOK, Phases, Vars
<1> QED
  BY <1>1, InitEngine, EngineStep, PTL DEF Spec

(* ---- what a pass makes of a text ---- *)

\* Texts in which nothing opens that is closed later.
Stays(opens, close) ==
  {x \in Texts : \A i, j \in 1..Len(x) : i < j => ~(x[i] \in opens /\ x[j] = close)}

\* A pass: what opens a block, what closes one, and what its blocks become.
Pass(opens, close, blocks) ==
  /\ opens \subseteq Tokens
  /\ close \in Tokens \ opens
  /\ blocks \subseteq [open : opens, body : Seq(Tokens \ {close}), done : Texts]

Closed(opens, close, blocks, Q) ==
  /\ \A x \in Stays(opens, close) : <<x, x>> \in Q
  /\ \A e \in Tokens \ opens : \A r, t \in Texts :
       <<r, t>> \in Q => <<Cat(<<e>>, r), Cat(<<e>>, t)>> \in Q
  /\ \A k \in blocks : \A r, t \in Texts :
       <<r, t>> \in Q => <<Cat(<<k.open>>, Cat(k.body, Cat(<<close>>, r))), Cat(k.done, t)>> \in Q

\* The least such relation between a text and what the pass makes of it.
Readings(opens, close, blocks) ==
  {z \in Texts \X Texts :
     \A Q \in SUBSET (Texts \X Texts) : Closed(opens, close, blocks, Q) => z \in Q}

\* CatFacts, quantified: the type.
LEMMA CatTypes ==
  ASSUME NEW S
  PROVE  \A s, t \in Seq(S) : Cat(s, t) \in Seq(S)
  BY DEF Cat

\* CatFacts, quantified: associativity.
LEMMA CatAssociates ==
  ASSUME NEW S
  PROVE  \A s, t, u \in Seq(S) : Cat(Cat(s, t), u) = Cat(s, Cat(t, u))
  BY ConcatAssociative DEF Cat

\* Four texts, associated to the right.
LEMMA CatFour ==
  ASSUME NEW S, NEW a \in Seq(S), NEW b \in Seq(S), NEW c \in Seq(S), NEW d \in Seq(S)
  PROVE  Cat(Cat(Cat(a, b), c), d) = Cat(a, Cat(b, Cat(c, d)))
<1>1. \A x, y, z \in Seq(S) : Cat(Cat(x, y), z) = Cat(x, Cat(y, z))
  BY CatAssociates
<1>2. Cat(a, b) \in Seq(S) /\ Cat(c, d) \in Seq(S)
  BY CatTypes
<1>3. Cat(Cat(Cat(a, b), c), d) = Cat(Cat(a, b), Cat(c, d))
  BY <1>1, <1>2
<1>4. Cat(Cat(a, b), Cat(c, d)) = Cat(a, Cat(b, Cat(c, d)))
  BY <1>1, <1>2
<1> QED
  BY <1>3, <1>4

\* CatFacts, quantified: the unit.
LEMMA CatNone ==
  ASSUME NEW S
  PROVE  \A s \in Seq(S) : Cat(<<>>, s) = s /\ Cat(s, <<>>) = s
  BY DEF Cat

\* One element is a sequence.
LEMMA OneType ==
  ASSUME NEW S, NEW e \in S
  PROVE  <<e>> \in Seq(S)
  OBVIOUS

\* A sequence without the elements of A is a sequence.
LEMMA FewerType ==
  ASSUME NEW S, NEW A
  PROVE  Seq(S \ A) \subseteq Seq(S)
  OBVIOUS

\* Pieces around a block are text.
LEMMA BlockType ==
  ASSUME NEW o \in Tokens, NEW q \in Texts, NEW c \in Tokens, NEW s \in Texts
  PROVE  /\ <<o>> \in Texts /\ <<c>> \in Texts
         /\ Cat(<<c>>, s) \in Texts
         /\ Cat(q, Cat(<<c>>, s)) \in Texts
         /\ Cat(<<o>>, Cat(q, Cat(<<c>>, s))) \in Texts
<1>1. <<o>> \in Texts /\ <<c>> \in Texts
  OBVIOUS
<1>2. Cat(<<c>>, s) \in Texts
  BY <1>1, CatTypes
<1>3. Cat(q, Cat(<<c>>, s)) \in Texts
  BY <1>2, CatTypes
<1> QED
  BY <1>1, <1>2, <1>3, CatTypes

\* Texts that are equal have equal first tokens and equal remainders.
LEMMA HeadCut ==
  ASSUME NEW S, NEW e \in S, NEW f \in S, NEW s \in Seq(S), NEW t \in Seq(S),
         Cat(<<e>>, s) = Cat(<<f>>, t)
  PROVE  e = f /\ s = t
<1>1. <<e>> \o s = <<f>> \o t
  BY DEF Cat
<1>2. Head(<<e>> \o s) = e /\ Tail(<<e>> \o s) = s
  OBVIOUS
<1>3. Head(<<f>> \o t) = f /\ Tail(<<f>> \o t) = t
  OBVIOUS
<1> QED
  BY <1>1, <1>2, <1>3, Zenon

\* A text that is not empty has a first token and a remainder.
LEMMA SplitHead ==
  ASSUME NEW S, NEW p \in Seq(S), p # <<>>
  PROVE  \E e \in S, r \in Seq(S) : p = Cat(<<e>>, r)
<1>1. Head(p) \in S /\ Tail(p) \in Seq(S) /\ p = <<Head(p)>> \o Tail(p)
  OBVIOUS
<1> QED
  BY <1>1, Zenon DEF Cat

\* The elements of p, then o, then s.
LEMMA CatAt ==
  ASSUME NEW S, NEW p \in Seq(S), NEW o \in S, NEW s \in Seq(S)
  PROVE  /\ Len(Cat(p, Cat(<<o>>, s))) = Len(p) + 1 + Len(s)
         /\ Cat(p, Cat(<<o>>, s))[Len(p) + 1] = o
         /\ \A i \in 1..Len(p) : Cat(p, Cat(<<o>>, s))[i] = p[i]
         /\ \A i \in 1..Len(s) : Cat(p, Cat(<<o>>, s))[Len(p) + 1 + i] = s[i]
  BY DEF Cat

\* The same for all texts around an o.
AroundFacts(S, o) ==
  /\ \A u, v \in Seq(S) : Len(Cat(u, Cat(<<o>>, v))) = Len(u) + 1 + Len(v)
  /\ \A u, v \in Seq(S) : Cat(u, Cat(<<o>>, v))[Len(u) + 1] = o
  /\ \A u, v \in Seq(S) : \A i \in 1..Len(u) : Cat(u, Cat(<<o>>, v))[i] = u[i]
  /\ \A u, v \in Seq(S) : \A i \in 1..Len(v) : Cat(u, Cat(<<o>>, v))[Len(u) + 1 + i] = v[i]

\* They are as they should be: CatAt, quantified.
LEMMA AroundAt ==
  ASSUME NEW S, NEW o \in S
  PROVE  AroundFacts(S, o)
<1>1. \A u, v \in Seq(S) : Len(Cat(u, Cat(<<o>>, v))) = Len(u) + 1 + Len(v)
  BY CatAt
<1>2. \A u, v \in Seq(S) : Cat(u, Cat(<<o>>, v))[Len(u) + 1] = o
  BY CatAt
<1>3. \A u, v \in Seq(S) : \A i \in 1..Len(u) : Cat(u, Cat(<<o>>, v))[i] = u[i]
  BY CatAt
<1>4. \A u, v \in Seq(S) : \A i \in 1..Len(v) : Cat(u, Cat(<<o>>, v))[Len(u) + 1 + i] = v[i]
  BY CatAt
<1> QED
  BY <1>1, <1>2, <1>3, <1>4, Zenon DEF AroundFacts

\* There is one first closer.
LEMMA CutLength ==
  ASSUME NEW S, NEW c \in S, NEW p \in Seq(S \ {c}), NEW q \in Seq(S \ {c}), NEW s \in Seq(S), NEW t \in Seq(S),
         Cat(p, Cat(<<c>>, s)) = Cat(q, Cat(<<c>>, t))
  PROVE  ~(Len(p) < Len(q))
<1>1. p \in Seq(S) /\ q \in Seq(S)
  BY FewerType
<1>2. Cat(p, Cat(<<c>>, s))[Len(p) + 1] = c
  <2>1. AroundFacts(S, c)
    BY AroundAt
  <2> QED
    BY <1>1, <2>1, Zenon DEF AroundFacts
<1>3. \A i \in 1..Len(q) : Cat(q, Cat(<<c>>, t))[i] = q[i] /\ q[i] # c
  <2>1. \A i \in 1..Len(q) : Cat(q, Cat(<<c>>, t))[i] = q[i]
    <3>1. AroundFacts(S, c)
      BY AroundAt
    <3> QED
      BY <1>1, <3>1, Zenon DEF AroundFacts
  <2>2. \A i \in 1..Len(q) : q[i] # c
    OBVIOUS
  <2> QED
    BY <2>1, <2>2, Zenon
<1>4. ASSUME Len(p) < Len(q) PROVE FALSE
  <2>1. Len(p) \in Nat /\ Len(q) \in Nat
    OBVIOUS
  <2>2. Len(p) + 1 \in 1..Len(q)
    BY <1>4, <2>1
  <2> QED
    BY <1>2, <1>3, <2>2, Zenon
<1> QED
  BY <1>4

\* A text can be cut at its first c in one way only: this is what makes str::find
\* deterministic.
LEMMA UniqueCut ==
  ASSUME NEW S, NEW c \in S, NEW p \in Seq(S \ {c}), NEW q \in Seq(S \ {c}), NEW s \in Seq(S), NEW t \in Seq(S),
         Cat(p, Cat(<<c>>, s)) = Cat(q, Cat(<<c>>, t))
  PROVE  p = q /\ s = t
<1>1. p \in Seq(S) /\ q \in Seq(S)
  BY FewerType
<1>2. Len(p) \in Nat /\ Len(q) \in Nat /\ Len(s) \in Nat /\ Len(t) \in Nat
  OBVIOUS
<1>3. ~(Len(p) < Len(q)) /\ ~(Len(q) < Len(p))
  BY CutLength
<1>4. Len(p) = Len(q)
  BY <1>2, <1>3
<1> DEFINE x == Cat(p, Cat(<<c>>, s))
           y == Cat(q, Cat(<<c>>, t))
<1>5. Len(x) = Len(p) + 1 + Len(s) /\ Len(y) = Len(q) + 1 + Len(t)
  <2>1. AroundFacts(S, c)
    BY AroundAt
  <2> QED
    BY <1>1, <2>1, Zenon DEF AroundFacts
<1>6. x = y
  OBVIOUS
<1>7. Len(s) = Len(t)
  <2> HIDE DEF x, y
  <2> QED
    BY <1>2, <1>4, <1>5, <1>6
<1>8. /\ \A i \in 1..Len(p) : x[i] = p[i]
      /\ \A i \in 1..Len(q) : y[i] = q[i]
      /\ \A i \in 1..Len(s) : x[Len(p) + 1 + i] = s[i]
      /\ \A i \in 1..Len(t) : y[Len(q) + 1 + i] = t[i]
  <2>1. AroundFacts(S, c)
    BY AroundAt
  <2> QED
    BY <1>1, <2>1, Zenon DEF AroundFacts
<1> HIDE DEF x, y
<1>9. \A i \in 1..Len(p) : p[i] = q[i]
  BY <1>4, <1>6, <1>8, Zenon
<1>10. \A i \in 1..Len(s) : s[i] = t[i]
  BY <1>4, <1>6, <1>7, <1>8, Zenon
<1>11. p = q
  BY <1>1, <1>4, <1>9, SeqEqual
<1>12. s = t
  BY <1>7, <1>10, SeqEqual
<1> QED
  BY <1>11, <1>12

\* What has a closer behind an opener does not stay.
LEMMA BlockStaysNot ==
  ASSUME NEW opens, NEW close, NEW p \in Texts, NEW o \in opens, o \in Tokens, close \in Tokens,
         NEW q \in Texts, NEW s \in Texts
  PROVE  Cat(p, Cat(<<o>>, Cat(q, Cat(<<close>>, s)))) \notin Stays(opens, close)
<1> DEFINE b == Cat(q, Cat(<<close>>, s))
           x == Cat(p, Cat(<<o>>, b))
           m == Len(p)
           n == Len(q)
<1>1. b \in Texts
  BY BlockType
<1>2. Len(b) = n + 1 + Len(s) /\ b[n + 1] = close
  <2>1. AroundFacts(Tokens, close)
    BY AroundAt
  <2> QED
    BY <2>1, Zenon DEF AroundFacts
<1> HIDE DEF b
<1>3. Len(x) = m + 1 + Len(b) /\ x[m + 1] = o /\ \A i \in 1..Len(b) : x[m + 1 + i] = b[i]
  <2>1. AroundFacts(Tokens, o)
    BY AroundAt
  <2> QED
    BY <1>1, <2>1, Zenon DEF AroundFacts
<1> HIDE DEF x
<1>4. m \in Nat /\ n \in Nat /\ Len(s) \in Nat
  OBVIOUS
<1> HIDE DEF m, n
<1>5. n + 1 \in 1..Len(b) /\ Len(b) \in Nat
  BY <1>2, <1>4
<1>6. x[m + 1 + (n + 1)] = close
  BY <1>2, <1>3, <1>5, Zenon
<1>7. m + 1 \in 1..Len(x) /\ m + 1 + (n + 1) \in 1..Len(x) /\ m + 1 < m + 1 + (n + 1)
  BY <1>2, <1>3, <1>4
<1>8. x \notin Stays(opens, close)
  BY <1>3, <1>6, <1>7, Zenon DEF Stays
<1> QED
  BY <1>8 DEF x, b

\* What follows in a text that stays, stays.
LEMMA TailStays ==
  ASSUME NEW opens, NEW close, NEW e \in Tokens, NEW r \in Texts, Cat(<<e>>, r) \in Stays(opens, close)
  PROVE  r \in Stays(opens, close)
<1> DEFINE x == Cat(<<e>>, r)
<1>1. Len(x) = Len(r) + 1 /\ \A i \in 1..Len(r) : x[i + 1] = r[i]
  BY DEF Cat
<1>2. \A i, j \in 1..Len(x) : i < j => ~(x[i] \in opens /\ x[j] = close)
  BY DEF Stays
<1> HIDE DEF x
<1>3. ASSUME NEW i \in 1..Len(r), NEW j \in 1..Len(r), i < j, r[i] \in opens, r[j] = close PROVE FALSE
  <2>1. i + 1 \in 1..Len(x) /\ j + 1 \in 1..Len(x) /\ i + 1 < j + 1
    BY <1>1, <1>3
  <2>2. x[i + 1] = r[i] /\ x[j + 1] = r[j]
    BY <1>1
  <2> QED
    BY <1>2, <1>3, <2>1, <2>2, Zenon
<1> QED
  BY <1>3, Zenon DEF Stays

\* The readings of a pass are closed under its three rules.
LEMMA ReadingsClosed ==
  ASSUME NEW opens, NEW close, NEW blocks, Pass(opens, close, blocks)
  PROVE  Closed(opens, close, blocks, Readings(opens, close, blocks))
<1> DEFINE R == Readings(opens, close, blocks)
           All == SUBSET (Texts \X Texts)
           C(Q) == Closed(opens, close, blocks, Q)
<1>1. \A z : z \in R <=> z \in Texts \X Texts /\ \A Q \in All : C(Q) => z \in Q
  BY Zenon DEF Readings
<1>2. \A x \in Stays(opens, close) : <<x, x>> \in R
  <2>1. ASSUME NEW x \in Stays(opens, close) PROVE <<x, x>> \in R
    <3>1. <<x, x>> \in Texts \X Texts
      BY DEF Stays
    <3>2. ASSUME NEW Q \in All, C(Q) PROVE <<x, x>> \in Q
      BY <3>2, Zenon DEF Closed
    <3> HIDE DEF R, All, C
    <3> QED
      BY <1>1, <3>1, <3>2, Zenon
  <2> QED
    BY <2>1
<1>3. \A e \in Tokens \ opens : \A r, t \in Texts :
        <<r, t>> \in R => <<Cat(<<e>>, r), Cat(<<e>>, t)>> \in R
  <2>1. ASSUME NEW e \in Tokens \ opens, NEW r \in Texts, NEW t \in Texts, <<r, t>> \in R
        PROVE  <<Cat(<<e>>, r), Cat(<<e>>, t)>> \in R
    <3>1. Cat(<<e>>, r) \in Texts /\ Cat(<<e>>, t) \in Texts
      BY BlockType
    <3>2. <<Cat(<<e>>, r), Cat(<<e>>, t)>> \in Texts \X Texts
      BY <3>1
    <3>3. ASSUME NEW Q \in All, C(Q) PROVE <<Cat(<<e>>, r), Cat(<<e>>, t)>> \in Q
      <4>1. <<r, t>> \in Q
        BY <1>1, <2>1, <3>3, Zenon
      <4> QED
        BY <3>3, <4>1, Zenon DEF Closed
    <3> HIDE DEF R, All, C
    <3> QED
      BY <1>1, <3>2, <3>3, Zenon
  <2> QED
    BY <2>1, Zenon
<1>4. \A k \in blocks : \A r, t \in Texts :
        <<r, t>> \in R => <<Cat(<<k.open>>, Cat(k.body, Cat(<<close>>, r))), Cat(k.done, t)>> \in R
  <2>1. ASSUME NEW k \in blocks, NEW r \in Texts, NEW t \in Texts, <<r, t>> \in R
        PROVE  <<Cat(<<k.open>>, Cat(k.body, Cat(<<close>>, r))), Cat(k.done, t)>> \in R
    <3>0. k.open \in Tokens /\ k.body \in Texts /\ k.done \in Texts /\ close \in Tokens
      BY FewerType DEF Pass
    <3>1. Cat(<<k.open>>, Cat(k.body, Cat(<<close>>, r))) \in Texts /\ Cat(k.done, t) \in Texts
      BY <3>0, BlockType, CatTypes
    <3>2. <<Cat(<<k.open>>, Cat(k.body, Cat(<<close>>, r))), Cat(k.done, t)>> \in Texts \X Texts
      BY <3>1
    <3>3. ASSUME NEW Q \in All, C(Q)
          PROVE  <<Cat(<<k.open>>, Cat(k.body, Cat(<<close>>, r))), Cat(k.done, t)>> \in Q
      <4>1. <<r, t>> \in Q
        BY <1>1, <2>1, <3>3, Zenon
      <4> QED
        BY <3>3, <4>1, Zenon DEF Closed
    <3> HIDE DEF R, All, C
    <3> QED
      BY <1>1, <3>2, <3>3, Zenon
  <2> QED
    BY <2>1, Zenon
<1> QED
  BY <1>2, <1>3, <1>4, Zenon DEF Closed

\* And are contained in everything that is: the induction principle for what a pass does.
LEMMA ReadingsLeast ==
  ASSUME NEW opens, NEW close, NEW blocks, NEW Q \in SUBSET (Texts \X Texts), Closed(opens, close, blocks, Q)
  PROVE  Readings(opens, close, blocks) \subseteq Q
  BY Zenon DEF Readings

\* What can be told from a text and its reading: a text that stays is its own
\* reading; up to the first block, and from there on.
Blocked(p, o, q, close, s) == Cat(p, Cat(<<o>>, Cat(q, Cat(<<close>>, s))))
Behind(p, o, q, s, t, blocks, R) ==
  \E k \in blocks : \E u \in Texts :
    k.open = o /\ k.body = q /\ <<s, u>> \in R /\ t = Cat(p, Cat(k.done, u))
Inverts(opens, close, blocks, r, t) ==
  /\ r \in Stays(opens, close) => t = r
  /\ \A p \in Seq(Tokens \ opens) : \A o \in opens : \A q \in Seq(Tokens \ {close}) : \A s \in Texts :
       r = Blocked(p, o, q, close, s) => Behind(p, o, q, s, t, blocks, Readings(opens, close, blocks))

\* A text without a block to it reads as it is, and in no other way.
LEMMA InvertStays ==
  ASSUME NEW opens, NEW close, NEW blocks, Pass(opens, close, blocks), NEW x \in Stays(opens, close)
  PROVE  Inverts(opens, close, blocks, x, x)
<1>1. ASSUME NEW p \in Seq(Tokens \ opens), NEW o \in opens, NEW q \in Seq(Tokens \ {close}), NEW s \in Texts,
             x = Blocked(p, o, q, close, s)
      PROVE  FALSE
  <2>1. p \in Texts /\ q \in Texts /\ o \in Tokens /\ close \in Tokens
    BY FewerType DEF Pass
  <2>2. Cat(p, Cat(<<o>>, Cat(q, Cat(<<close>>, s)))) \notin Stays(opens, close)
    BY <2>1, BlockStaysNot
  <2> QED
    BY <1>1, <2>2, Zenon DEF Blocked
<1> QED
  BY <1>1, Zenon DEF Inverts

\* A token before a text that can be told apart: it can still be.
LEMMA InvertToken ==
  ASSUME NEW opens, NEW close, NEW blocks, Pass(opens, close, blocks),
         NEW e \in Tokens \ opens, NEW r \in Texts, NEW t \in Texts, Inverts(opens, close, blocks, r, t)
  PROVE  Inverts(opens, close, blocks, Cat(<<e>>, r), Cat(<<e>>, t))
<1>1. ASSUME Cat(<<e>>, r) \in Stays(opens, close) PROVE Cat(<<e>>, t) = Cat(<<e>>, r)
  <2>1. r \in Stays(opens, close)
    BY <1>1, TailStays
  <2> QED
    BY <2>1, Zenon DEF Inverts
<1>2. ASSUME NEW p \in Seq(Tokens \ opens), NEW o \in opens, NEW q \in Seq(Tokens \ {close}), NEW s \in Texts,
             Cat(<<e>>, r) = Blocked(p, o, q, close, s)
      PROVE  Behind(p, o, q, s, Cat(<<e>>, t), blocks, Readings(opens, close, blocks))
  <2> DEFINE b == Cat(<<o>>, Cat(q, Cat(<<close>>, s)))
  <2>0. Cat(<<e>>, r) = Cat(p, b)
    BY <1>2, Zenon DEF Blocked
  <2>1. p \in Texts /\ q \in Texts /\ o \in Tokens /\ close \in Tokens /\ <<e>> \in Texts
    BY FewerType, OneType DEF Pass
  <2>2. b \in Texts /\ Cat(q, Cat(<<close>>, s)) \in Texts
    BY <2>1, BlockType
  <2>3. p # <<>>
    <3>1. ASSUME p = <<>> PROVE FALSE
      <4>1. Cat(<<>>, b) = b
        BY <2>2, CatFacts
      <4>2. Cat(<<e>>, r) = Cat(<<o>>, Cat(q, Cat(<<close>>, s)))
        BY <2>0, <3>1, <4>1, Zenon
      <4>3. e = o
        BY <2>1, <2>2, <4>2, HeadCut
      <4> QED
        BY <4>3
    <3> QED
      BY <3>1
  <2>4. PICK f \in Tokens \ opens, p2 \in Seq(Tokens \ opens) : p = Cat(<<f>>, p2)
    BY <2>3, SplitHead
  <2>5. p2 \in Texts /\ <<f>> \in Texts
    BY FewerType, OneType
  <2>6. Cat(<<e>>, r) = Cat(<<f>>, Cat(p2, b))
    <3>1. Cat(Cat(<<f>>, p2), b) = Cat(<<f>>, Cat(p2, b))
      <4>1. ASSUME NEW d \in Texts, NEW g \in Texts PROVE Cat(Cat(d, p2), g) = Cat(d, Cat(p2, g))
        BY <2>5, CatAssociates
      <4> QED
        BY <2>2, <2>5, <4>1
    <3> QED
      BY <2>0, <2>4, <3>1, Zenon
  <2>7. e = f /\ r = Cat(p2, b)
    <3>1. Cat(p2, b) \in Texts
      BY <2>2, <2>5, CatTypes
    <3> QED
      BY <2>6, <3>1, HeadCut
  <2>8. PICK k \in blocks : \E u \in Texts :
          /\ k.open = o /\ k.body = q
          /\ <<s, u>> \in Readings(opens, close, blocks)
          /\ t = Cat(p2, Cat(k.done, u))
    <3>1. r = Blocked(p2, o, q, close, s)
      BY <2>7, Zenon DEF Blocked
    <3>2. p2 \in Seq(Tokens \ opens) /\ o \in opens /\ q \in Seq(Tokens \ {close}) /\ s \in Texts
      BY <2>4
    <3>3. Behind(p2, o, q, s, t, blocks, Readings(opens, close, blocks))
      BY <3>1, <3>2, Zenon DEF Inverts
    <3> QED
      BY <3>3, Zenon DEF Behind
  <2> PICK u \in Texts :
          /\ k.open = o /\ k.body = q
          /\ <<s, u>> \in Readings(opens, close, blocks)
          /\ t = Cat(p2, Cat(k.done, u))
    BY <2>8
  <2>9. Cat(<<f>>, Cat(p2, Cat(k.done, u))) = Cat(Cat(<<f>>, p2), Cat(k.done, u))
    <3>1. k.done \in Texts
      BY DEF Pass
    <3>2. Cat(k.done, u) \in Texts
      BY <3>1, CatTypes
    <3>3. \A x, y, z \in Texts : Cat(Cat(x, y), z) = Cat(x, Cat(y, z))
      BY CatAssociates
    <3> DEFINE d == Cat(k.done, u)
               a == <<f>>
    <3>4. d \in Texts /\ a \in Texts /\ p2 \in Texts
      BY <2>5, <3>2
    <3> HIDE DEF d, a
    <3>5. Cat(Cat(a, p2), d) = Cat(a, Cat(p2, d))
      BY <3>3, <3>4
    <3> QED
      BY <3>5 DEF d, a
  <2> QED
    BY <2>4, <2>7, <2>8, <2>9, Zenon DEF Behind
<1> QED
  BY <1>1, <1>2, Zenon DEF Inverts

\* A block before a text that can be told apart: it can still be.
LEMMA InvertBlock ==
  ASSUME NEW opens, NEW close, NEW blocks, Pass(opens, close, blocks),
         NEW k \in blocks, NEW r \in Texts, NEW t \in Texts, <<r, t>> \in Readings(opens, close, blocks)
  PROVE  Inverts(opens, close, blocks, Cat(<<k.open>>, Cat(k.body, Cat(<<close>>, r))), Cat(k.done, t))
<1> DEFINE b == Cat(k.body, Cat(<<close>>, r))
           x == Cat(<<k.open>>, b)
<1>0. /\ k.open \in opens /\ k.open \in Tokens /\ k.body \in Seq(Tokens \ {close}) /\ k.body \in Texts
      /\ k.done \in Texts /\ close \in Tokens
  BY FewerType DEF Pass
<1>1. b \in Texts /\ x \in Texts
  BY <1>0, BlockType
<1>2. x \notin Stays(opens, close)
  <2>1. Cat(<<>>, x) \notin Stays(opens, close)
    <3>1. <<>> \in Texts
      OBVIOUS
    <3> QED
      BY <1>0, <3>1, BlockStaysNot
  <2>2. Cat(<<>>, x) = x
    BY <1>1, CatFacts
  <2> QED
    BY <2>1, <2>2, Zenon
<1>3. ASSUME NEW p \in Seq(Tokens \ opens), NEW o \in opens, NEW q \in Seq(Tokens \ {close}), NEW s \in Texts,
             x = Blocked(p, o, q, close, s)
      PROVE  /\ k.open = o /\ k.body = q
             /\ <<s, t>> \in Readings(opens, close, blocks)
             /\ Cat(k.done, t) = Cat(p, Cat(k.done, t))
  <2>0. x = Cat(p, Cat(<<o>>, Cat(q, Cat(<<close>>, s))))
    BY <1>3, Zenon DEF Blocked
  <2> DEFINE c == Cat(q, Cat(<<close>>, s))
  <2>1. p \in Texts /\ q \in Texts /\ o \in Tokens
    BY FewerType DEF Pass
  <2>2. c \in Texts /\ Cat(<<o>>, c) \in Texts
    BY <1>0, <2>1, BlockType
  <2>3. p = <<>>
    <3>1. ASSUME p # <<>> PROVE FALSE
      <4>1. PICK f \in Tokens \ opens, p2 \in Seq(Tokens \ opens) : p = Cat(<<f>>, p2)
        BY <3>1, SplitHead
      <4>2. p2 \in Texts /\ <<f>> \in Texts
        BY FewerType, OneType
      <4>3. Cat(Cat(<<f>>, p2), Cat(<<o>>, c)) = Cat(<<f>>, Cat(p2, Cat(<<o>>, c)))
        <5>1. ASSUME NEW d \in Texts, NEW e \in Texts PROVE Cat(Cat(d, p2), e) = Cat(d, Cat(p2, e))
          BY <4>2, CatAssociates
        <5> QED
          BY <2>2, <4>2, <5>1
      <4>4. Cat(<<k.open>>, b) = Cat(<<f>>, Cat(p2, Cat(<<o>>, c)))
        BY <2>0, <4>1, <4>3, Zenon
      <4>5. Cat(p2, Cat(<<o>>, c)) \in Texts
        BY <2>2, <4>2, CatTypes
      <4>6. k.open = f
        BY <1>0, <1>1, <4>4, <4>5, HeadCut
      <4> QED
        BY <1>0, <4>6
    <3> QED
      BY <3>1
  <2>4. Cat(<<k.open>>, b) = Cat(<<o>>, c)
    <3>1. Cat(<<>>, Cat(<<o>>, c)) = Cat(<<o>>, c)
      BY <2>2, CatFacts
    <3> QED
      BY <2>0, <2>3, <3>1, Zenon
  <2>5. k.open = o /\ b = c
    BY <1>0, <1>1, <2>1, <2>2, <2>4, HeadCut
  <2>6. k.body = q /\ r = s
    <3>1. Cat(k.body, Cat(<<close>>, r)) = Cat(q, Cat(<<close>>, s))
      BY <2>5
    <3>2. \A y, z \in Seq(Tokens \ {close}) : \A v, w \in Texts :
            Cat(y, Cat(<<close>>, v)) = Cat(z, Cat(<<close>>, w)) => y = z /\ v = w
      BY <1>0, UniqueCut
    <3> HIDE DEF b, c
    <3> QED
      BY <1>0, <3>1, <3>2, Zenon
  <2>7. Cat(<<>>, Cat(k.done, t)) = Cat(k.done, t)
    <3>1. Cat(k.done, t) \in Texts
      BY <1>0, CatTypes
    <3> QED
      BY <3>1, CatFacts
  <2> QED
    BY <2>3, <2>5, <2>6, <2>7, Zenon
<1>4. ASSUME NEW p \in Seq(Tokens \ opens), NEW o \in opens, NEW q \in Seq(Tokens \ {close}), NEW s \in Texts,
             x = Blocked(p, o, q, close, s)
      PROVE  Behind(p, o, q, s, Cat(k.done, t), blocks, Readings(opens, close, blocks))
  BY <1>3, <1>4, Zenon DEF Behind
<1> QED
  BY <1>2, <1>4, Zenon DEF Inverts

\* Every reading can be inverted: the pass could have come to it in one way only.
LEMMA ReadingInverts ==
  ASSUME NEW opens, NEW close, NEW blocks, Pass(opens, close, blocks)
  PROVE  \A r, t \in Texts :
           <<r, t>> \in Readings(opens, close, blocks) => Inverts(opens, close, blocks, r, t)
<1> DEFINE R == Readings(opens, close, blocks)
           Q == {z \in R : \A r, t \in Texts : z = <<r, t>> => Inverts(opens, close, blocks, r, t)}
<1>0. Closed(opens, close, blocks, R)
  BY ReadingsClosed
<1>1. R \in SUBSET (Texts \X Texts)
  BY Zenon DEF Readings
<1>2. ASSUME NEW r \in Texts, NEW t \in Texts, <<r, t>> \in R, Inverts(opens, close, blocks, r, t)
      PROVE  <<r, t>> \in Q
  <2>1. ASSUME NEW r2, NEW t2, <<r, t>> = <<r2, t2>> PROVE r = r2 /\ t = t2
    BY <2>1
  <2> HIDE DEF R
  <2> QED
    BY <1>2, <2>1, Zenon
<1>3. ASSUME NEW r \in Texts, NEW t \in Texts, <<r, t>> \in Q
      PROVE  <<r, t>> \in R /\ Inverts(opens, close, blocks, r, t)
  BY <1>3, Zenon
<1>4. Q \in SUBSET (Texts \X Texts)
  BY <1>1, Zenon
<1> HIDE DEF R, Q
<1>5. \A x \in Stays(opens, close) : <<x, x>> \in Q
  <2>1. ASSUME NEW x \in Stays(opens, close) PROVE <<x, x>> \in Q
    <3>1. <<x, x>> \in R
      BY <1>0, Zenon DEF Closed
    <3>2. x \in Texts
      BY DEF Stays
    <3> QED
      BY <1>2, <3>1, <3>2, InvertStays, Zenon
  <2> QED
    BY <2>1, Zenon
<1>6. \A e \in Tokens \ opens : \A r, t \in Texts :
        <<r, t>> \in Q => <<Cat(<<e>>, r), Cat(<<e>>, t)>> \in Q
  <2>1. ASSUME NEW e \in Tokens \ opens, NEW r \in Texts, NEW t \in Texts, <<r, t>> \in Q
        PROVE  <<Cat(<<e>>, r), Cat(<<e>>, t)>> \in Q
    <3>1. <<r, t>> \in R /\ Inverts(opens, close, blocks, r, t)
      BY <1>3, <2>1
    <3>2. Inverts(opens, close, blocks, Cat(<<e>>, r), Cat(<<e>>, t))
      BY <3>1, InvertToken
    <3>3. <<Cat(<<e>>, r), Cat(<<e>>, t)>> \in R
      BY <1>0, <3>1, Zenon DEF Closed
    <3>4. Cat(<<e>>, r) \in Texts /\ Cat(<<e>>, t) \in Texts
      BY BlockType
    <3> QED
      BY <1>2, <3>2, <3>3, <3>4, Zenon
  <2> QED
    BY <2>1, Zenon
<1>7. \A k \in blocks : \A r, t \in Texts :
        <<r, t>> \in Q => <<Cat(<<k.open>>, Cat(k.body, Cat(<<close>>, r))), Cat(k.done, t)>> \in Q
  <2>1. ASSUME NEW k \in blocks, NEW r \in Texts, NEW t \in Texts, <<r, t>> \in Q
        PROVE  <<Cat(<<k.open>>, Cat(k.body, Cat(<<close>>, r))), Cat(k.done, t)>> \in Q
    <3>0. k.open \in Tokens /\ k.body \in Texts /\ k.done \in Texts /\ close \in Tokens
      BY FewerType DEF Pass
    <3>1. <<r, t>> \in R
      BY <1>3, <2>1
    <3>2. Inverts(opens, close, blocks, Cat(<<k.open>>, Cat(k.body, Cat(<<close>>, r))), Cat(k.done, t))
      BY <3>1, InvertBlock DEF R
    <3>3. <<Cat(<<k.open>>, Cat(k.body, Cat(<<close>>, r))), Cat(k.done, t)>> \in R
      BY <1>0, <3>1, Zenon DEF Closed
    <3>4. Cat(<<k.open>>, Cat(k.body, Cat(<<close>>, r))) \in Texts /\ Cat(k.done, t) \in Texts
      BY <3>0, BlockType, CatTypes
    <3> QED
      BY <1>2, <3>2, <3>3, <3>4, Zenon
  <2> QED
    BY <2>1, Zenon
<1>8. Closed(opens, close, blocks, Q)
  BY <1>5, <1>6, <1>7, Zenon DEF Closed
<1>9. R \subseteq Q
  BY <1>4, <1>8, ReadingsLeast, Zenon DEF R
<1>10. \A r, t \in Texts : <<r, t>> \in R => Inverts(opens, close, blocks, r, t)
  BY <1>3, <1>9, Zenon
<1> QED
  BY <1>10, Zenon DEF R

\* From the first block on.
LEMMA FromBlock ==
  ASSUME NEW opens, NEW close, NEW blocks, Pass(opens, close, blocks),
         NEW r \in Texts, NEW t \in Texts, <<r, t>> \in Readings(opens, close, blocks),
         NEW p \in Seq(Tokens \ opens), NEW o \in opens, NEW q \in Seq(Tokens \ {close}), NEW s \in Texts,
         r = Cat(p, Cat(<<o>>, Cat(q, Cat(<<close>>, s))))
  PROVE  Behind(p, o, q, s, t, blocks, Readings(opens, close, blocks))
<1>1. Inverts(opens, close, blocks, r, t)
  BY ReadingInverts
<1>2. r = Blocked(p, o, q, close, s)
  BY Zenon DEF Blocked
<1> QED
  BY <1>1, <1>2, Zenon DEF Inverts

\* A text that stays reads as it is.
LEMMA ReadsItself ==
  ASSUME NEW opens, NEW close, NEW blocks, Pass(opens, close, blocks),
         NEW R, R = Readings(opens, close, blocks)
  PROVE  /\ \A r \in Stays(opens, close) : <<r, r>> \in R
         /\ \A r \in Stays(opens, close) : \A t \in Texts : <<r, t>> \in R => t = r
<1>1. \A r \in Stays(opens, close) : <<r, r>> \in R
  BY ReadingsClosed, Zenon DEF Closed
<1>2. ASSUME NEW r \in Stays(opens, close), NEW t \in Texts, <<r, t>> \in R PROVE t = r
  <2>1. r \in Texts
    BY DEF Stays
  <2>2. Inverts(opens, close, blocks, r, t)
    BY <1>2, <2>1, ReadingInverts
  <2> QED
    BY <2>2, Zenon DEF Inverts
<1> QED
  BY <1>1, <1>2, Zenon

(* ---- the two passes ---- *)

EachBlocks == {[open |-> Each, body |-> b, done |-> Expanded(b)] : b \in Seq(Tokens \ {EndEach})}
IfBlocks ==
  {[open |-> IfField[f], body |-> b, done |-> IF IsTruthy(f) THEN b ELSE <<>>] :
     f \in Fields, b \in Seq(Tokens \ (Openers \cup {EndIf}))}

EachReadings == Readings({Each}, EndEach, EachBlocks)
IfReadings == Readings(Openers, EndIf, IfBlocks)

\* expand_each is such a pass.
LEMMA EachPass ==
  ASSUME message \in Messages
  PROVE  Pass({Each}, EndEach, EachBlocks)
<1>1. Each \in Tokens /\ EndEach \in Tokens /\ Each # EndEach
  BY OwnTokens DEF Each, EndEach
<1>2. \A b \in Seq(Tokens \ {EndEach}) : Expanded(b) \in Texts
  BY ExpandedType, FewerType
<1>3. ASSUME NEW b \in Seq(Tokens \ {EndEach})
      PROVE  [open |-> Each, body |-> b, done |-> Expanded(b)]
               \in [open : {Each}, body : Seq(Tokens \ {EndEach}), done : Texts]
  BY <1>2
<1> QED
  BY <1>1, <1>3 DEF Pass, EachBlocks

\* The openers, the closers and the prefix are all different.
LEMMA Different ==
  /\ EndIf \notin Openers /\ IfPrefix \in Openers /\ EndIf \in Braced
  /\ \A f \in Fields : IfField[f] \in Openers /\ IfField[f] # IfPrefix
  /\ \A f, g \in Fields : IfField[f] = IfField[g] => f = g
<1>1. Fields = {"body", "url", "fields", "title", "other"}
  BY DEF Fields, IfField
<1>2. /\ IfField["body"] = "{{#if body}}" /\ IfField["url"] = "{{#if url}}"
      /\ IfField["fields"] = "{{#if fields}}" /\ IfField["title"] = "{{#if title}}"
      /\ IfField["other"] = "{{#if other}}"
  BY DEF IfField
<1>3. \A f, g \in Fields : IfField[f] = IfField[g] => f = g
  BY <1>1, <1>2
<1>4. \A f \in Fields : IfField[f] \in Openers /\ IfField[f] # IfPrefix /\ IfField[f] # EndIf
  BY <1>1, <1>2 DEF Openers, IfOpeners, IfPrefix, EndIf
<1>5. EndIf \notin Openers
  BY <1>4 DEF Openers, IfOpeners, IfPrefix, EndIf
<1> QED
  BY <1>3, <1>4, <1>5 DEF Openers, Braced

\* The openers of eval_if are tokens.
LEMMA OpenersAreTokens == Openers \subseteq Tokens
  BY TokensConstant

\* eval_if is such a pass.
LEMMA IfPass ==
  Pass(Openers, EndIf, IfBlocks)
<1>1. Openers \subseteq Tokens /\ EndIf \in Tokens \ Openers
  BY OwnTokens, OpenersAreTokens, Different
<1>2. \A b \in Seq(Tokens \ (Openers \cup {EndIf})) : b \in Seq(Tokens \ {EndIf}) /\ b \in Texts
  OBVIOUS
<1>3. <<>> \in Texts
  OBVIOUS
<1>4. ASSUME NEW f \in Fields, NEW b \in Seq(Tokens \ (Openers \cup {EndIf}))
      PROVE  [open |-> IfField[f], body |-> b, done |-> IF IsTruthy(f) THEN b ELSE <<>>]
               \in [open : Openers, body : Seq(Tokens \ {EndIf}), done : Texts]
  BY <1>2, <1>3, Different
<1>5. IfBlocks \subseteq [open : Openers, body : Seq(Tokens \ {EndIf}), done : Texts]
  <2>1. ASSUME NEW k \in IfBlocks PROVE k \in [open : Openers, body : Seq(Tokens \ {EndIf}), done : Texts]
    <3>1. PICK f \in Fields, b \in Seq(Tokens \ (Openers \cup {EndIf})) :
            k = [open |-> IfField[f], body |-> b, done |-> IF IsTruthy(f) THEN b ELSE <<>>]
      BY DEF IfBlocks
    <3> QED
      BY <1>4, <3>1
  <2> QED
    BY <2>1
<1> QED
  BY <1>1, <1>5, Zenon DEF Pass

\* A text whose first opener is not closed stays as it is.
LEMMA StaysUnclosed ==
  ASSUME NEW opens, NEW close, NEW s \in Texts, NEW i \in 1..Len(s),
         \A h \in 1..(i - 1) : s[h] \notin opens,
         \A h \in (i + 1)..Len(s) : s[h] # close
  PROVE  s \in Stays(opens, close)
<1>1. i \in Nat /\ Len(s) \in Nat
  OBVIOUS
<1>2. ASSUME NEW a \in 1..Len(s), NEW b \in 1..Len(s), a < b, s[a] \in opens, s[b] = close PROVE FALSE
  <2>1. a \in Nat /\ b \in Nat
    OBVIOUS
  <2>2. CASE a < i
    <3>1. a \in 1..(i - 1)
      BY <1>1, <2>1, <2>2
    <3> QED
      BY <1>2, <3>1
  <2>3. CASE a >= i
    <3>1. b \in (i + 1)..Len(s)
      BY <1>1, <1>2, <2>1, <2>3
    <3> QED
      BY <1>2, <3>1
  <2> QED
    BY <1>1, <2>1, <2>2, <2>3
<1> QED
  BY <1>2 DEF Stays

\* So does one without openers, or without closers.
LEMMA StaysFree ==
  ASSUME NEW opens, NEW close
  PROVE  Seq(Tokens \ opens) \subseteq Stays(opens, close) /\ Seq(Tokens \ {close}) \subseteq Stays(opens, close)
<1>1. ASSUME NEW s \in Seq(Tokens \ opens) PROVE s \in Stays(opens, close)
  <2>1. s \in Texts /\ \A h \in 1..Len(s) : s[h] \notin opens
    OBVIOUS
  <2> QED
    BY <2>1, Zenon DEF Stays
<1>2. ASSUME NEW s \in Seq(Tokens \ {close}) PROVE s \in Stays(opens, close)
  <2>1. s \in Texts /\ \A h \in 1..Len(s) : s[h] # close
    OBVIOUS
  <2> QED
    BY <2>1, Zenon DEF Stays
<1> QED
  BY <1>1, <1>2

\* What is left, cut at an opener and at a closer behind it.
LEMMA CutBlock ==
  ASSUME EngineInv, NEW i \in DOMAIN rest, NEW j \in DOMAIN rest, i < j
  PROVE  /\ rest = Cat(Upto(i - 1), Cat(<<rest[i]>>, Cat(Between(i, j), Cat(<<rest[j]>>, After(j)))))
         /\ Upto(i - 1) \in Texts /\ Between(i, j) \in Texts /\ After(j) \in Texts
<1>1. rest \in Seq(Tokens) /\ i \in 1..Len(rest) /\ j \in 1..Len(rest) /\ i \in Nat /\ j \in Nat /\ Len(rest) \in Nat
  BY RestDomain DEF EngineInv
<1>2. rest = Cat(SubSeq(rest, 1, i - 1), Cat(<<rest[i]>>, SubSeq(rest, i + 1, Len(rest))))
  BY <1>1, WholeCutAt
<1>3. j \in (i + 1)..Len(rest)
  BY <1>1
<1>4. SubSeq(rest, i + 1, Len(rest)) = Cat(SubSeq(rest, i + 1, j - 1), Cat(<<rest[j]>>, SubSeq(rest, j + 1, Len(rest))))
  BY <1>1, <1>3, CutAt
<1>5. i - 1 \in Nat /\ i - 1 <= Len(rest) /\ i <= Len(rest) /\ j <= Len(rest)
  BY <1>1
<1>6. Upto(i - 1) \in Texts /\ Between(i, j) \in Texts /\ After(j) \in Texts
  BY <1>1, <1>5, CutTypes
<1> QED
  BY <1>2, <1>4, <1>6, Zenon DEF Upto, Between, After

\* What is left, cut behind a position.
LEMMA CutTwo ==
  ASSUME EngineInv, NEW i \in DOMAIN rest
  PROVE  rest = Cat(Upto(i), After(i)) /\ Upto(i) \in Texts /\ After(i) \in Texts
<1>1. rest \in Seq(Tokens) /\ i \in 1..Len(rest) /\ i \in Nat /\ Len(rest) \in Nat
  BY RestDomain DEF EngineInv
<1>2. 1 \in 1..(Len(rest) + 1) /\ i \in (1 - 1)..Len(rest) /\ Len(rest) \in i..Len(rest)
  BY <1>1
<1>3. SubSeq(rest, 1, i) \o SubSeq(rest, i + 1, Len(rest)) = SubSeq(rest, 1, Len(rest))
  <2>1. \A m \in 1..(Len(rest) + 1) : \A k \in (m - 1)..Len(rest) : \A n \in k..Len(rest) :
          SubSeq(rest, m, k) \o SubSeq(rest, k+1, n) = SubSeq(rest, m, n)
    BY <1>1, ConcatAdjacentSubSeq
  <2> QED
    BY <1>2, <2>1, Zenon
<1>4. SubSeq(rest, 1, Len(rest)) = rest
  BY <1>1, SubSeqFull
<1>5. i <= Len(rest)
  BY <1>1
<1>6. Upto(i) \in Texts /\ After(i) \in Texts
  BY <1>1, <1>5, CutTypes
<1>7. rest = Cat(SubSeq(rest, 1, i), SubSeq(rest, i + 1, Len(rest)))
  BY <1>3, <1>4, Zenon DEF Cat
<1> QED
  BY <1>6, <1>7, Zenon DEF Upto, After

\* The cuts around a first token of a set are free of that set.
LEMMA FirstFree ==
  ASSUME EngineInv, NEW i \in Nat, NEW j \in DOMAIN rest, NEW A, First(j, i + 1, A)
  PROVE  Between(i, j) \in Seq(Tokens \ A) /\ i < j /\ rest[j] \in A
<1>1. rest \in Seq(Tokens) /\ j \in 1..Len(rest) /\ j \in Nat /\ Len(rest) \in Nat
  BY RestDomain DEF EngineInv
<1>2. i + 1 <= j /\ rest[j] \in A /\ \A h \in (i + 1)..(j - 1) : rest[h] \notin A
  BY DEF First
<1>3. j - 1 \in Nat /\ i <= j - 1 /\ j - 1 <= Len(rest) /\ i < j
  BY <1>1, <1>2
<1>4. SubSeq(rest, i + 1, j - 1) \in Seq(Tokens \ A)
  BY <1>1, <1>2, <1>3, CutFree
<1> QED
  BY <1>2, <1>3, <1>4 DEF Between

\* What is before the first of A has none of A.
LEMMA FirstFreeWhole ==
  ASSUME EngineInv, NEW i \in DOMAIN rest, NEW A, First(i, 1, A)
  PROVE  Upto(i - 1) \in Seq(Tokens \ A) /\ rest[i] \in A
<1>1. rest \in Seq(Tokens) /\ i \in 1..Len(rest) /\ i \in Nat /\ Len(rest) \in Nat /\ 0 \in Nat /\ 0 + 1 = 1
  BY RestDomain DEF EngineInv
<1>2. rest[i] \in A /\ \A h \in 1..(i - 1) : rest[h] \notin A
  BY DEF First
<1>3. i - 1 \in Nat /\ 0 <= i - 1 /\ i - 1 <= Len(rest)
  BY <1>1
<1>4. SubSeq(rest, 0 + 1, i - 1) \in Seq(Tokens \ A)
  <2>1. \A h \in (0 + 1)..(i - 1) : rest[h] \notin A
    BY <1>1, <1>2
  <2> QED
    BY <1>1, <1>3, <2>1, CutFree
<1> QED
  BY <1>1, <1>2, <1>4, Zenon DEF Upto

\* What is behind a position that no A follows has none of A.
LEMMA NoneFree ==
  ASSUME EngineInv, NEW i \in DOMAIN rest, NEW A, None(i + 1, A)
  PROVE  After(i) \in Seq(Tokens \ A)
<1>1. rest \in Seq(Tokens) /\ i \in 1..Len(rest) /\ i \in Nat /\ Len(rest) \in Nat
  BY RestDomain DEF EngineInv
<1>2. \A h \in (i + 1)..Len(rest) : rest[h] \notin A
  BY DEF None
<1>3. i <= Len(rest) /\ Len(rest) <= Len(rest)
  BY <1>1
<1>4. SubSeq(rest, i + 1, Len(rest)) \in Seq(Tokens \ A)
  BY <1>1, <1>2, <1>3, CutFree
<1> QED
  BY <1>4 DEF After

\* The same for all that is left.
LEMMA NoneFreeWhole ==
  ASSUME EngineInv, NEW A, None(1, A)
  PROVE  rest \in Seq(Tokens \ A)
  BY IsFree DEF EngineInv, None

\* From the first block on.
LEMMA FromEach ==
  ASSUME message \in Messages, NEW r \in Texts, NEW t \in Texts, <<r, t>> \in EachReadings,
         NEW p \in Seq(Tokens \ {Each}), NEW q \in Seq(Tokens \ {EndEach}), NEW s \in Texts,
         r = Cat(p, Cat(<<Each>>, Cat(q, Cat(<<EndEach>>, s))))
  PROVE  Behind(p, Each, q, s, t, EachBlocks, EachReadings)
<1>1. Pass({Each}, EndEach, EachBlocks) /\ Each \in {Each}
  BY EachPass
<1>2. <<r, t>> \in Readings({Each}, EndEach, EachBlocks)
  BY DEF EachReadings
<1>3. Behind(p, Each, q, s, t, EachBlocks, Readings({Each}, EndEach, EachBlocks))
  BY <1>1, <1>2, FromBlock
<1> QED
  BY <1>3 DEF EachReadings

\* A block at the front of what is left, and how it reads.
LEMMA FromIf ==
  ASSUME NEW r \in Texts, NEW t \in Texts, <<r, t>> \in IfReadings,
         NEW p \in Seq(Tokens \ Openers), NEW o \in Openers, NEW q \in Seq(Tokens \ {EndIf}), NEW s \in Texts,
         r = Cat(p, Cat(<<o>>, Cat(q, Cat(<<EndIf>>, s))))
  PROVE  Behind(p, o, q, s, t, IfBlocks, IfReadings)
<1>1. <<r, t>> \in Readings(Openers, EndIf, IfBlocks)
  BY DEF IfReadings
<1>2. Behind(p, o, q, s, t, IfBlocks, Readings(Openers, EndIf, IfBlocks))
  BY <1>1, IfPass, FromBlock
<1> QED
  BY <1>2 DEF IfReadings

\* What has been written and what is left give the same in the end: the invariant of
\* expand_each.
EachGoal(goal) == \E t \in Texts : <<rest, t>> \in EachReadings /\ goal = Cat(result, t)

\* expand_each on a block: what is written and what is left still give the goal.
LEMMA ExpandEachReads ==
  ASSUME EngineInv, ExpandEach, NEW goal, EachGoal(goal)
  PROVE  \E t \in Texts : <<rest', t>> \in EachReadings /\ goal = Cat(result', t)
<1>0. message \in Messages /\ result \in Texts /\ rest \in Texts
  BY DEF EngineInv
<1>1. PICK i, j \in DOMAIN rest :
        /\ First(i, 1, {Each}) /\ First(j, i + 1, {EndEach})
        /\ result' = result \o Upto(i - 1) \o Expanded(Between(i, j))
        /\ rest' = After(j)
  BY DEF ExpandEach
<1> DEFINE p == Upto(i - 1)
           q == Between(i, j)
           s == After(j)
<1>2. i \in Nat /\ i \in DOMAIN rest /\ j \in DOMAIN rest
  BY <1>1, RestDomain
<1>3. p \in Seq(Tokens \ {Each}) /\ rest[i] = Each
  BY <1>1, <1>2, FirstFreeWhole
<1>4. q \in Seq(Tokens \ {EndEach}) /\ i < j /\ rest[j] = EndEach
  <2>1. q \in Seq(Tokens \ {EndEach}) /\ i < j /\ rest[j] \in {EndEach}
    BY <1>1, <1>2, FirstFree
  <2> QED
    BY <2>1
<1>5. rest = Cat(p, Cat(<<Each>>, Cat(q, Cat(<<EndEach>>, s)))) /\ p \in Texts /\ q \in Texts /\ s \in Texts
  BY <1>2, <1>3, <1>4, CutBlock
<1>6. Expanded(q) \in Texts
  BY <1>0, <1>5, ExpandedType
<1>7. result' = Cat(Cat(result, p), Expanded(q)) /\ rest' = s
  BY <1>1, Zenon DEF Cat
<1> HIDE DEF p, q, s
<1>8. PICK t \in Texts : <<rest, t>> \in EachReadings /\ goal = Cat(result, t)
  BY DEF EachGoal
<1>9. Behind(p, Each, q, s, t, EachBlocks, EachReadings)
  BY <1>0, <1>3, <1>4, <1>5, <1>8, FromEach
<1>10. PICK k \in EachBlocks : \E u \in Texts :
         k.open = Each /\ k.body = q /\ <<s, u>> \in EachReadings /\ t = Cat(p, Cat(k.done, u))
  BY <1>9, Zenon DEF Behind
<1> PICK u \in Texts : k.open = Each /\ k.body = q /\ <<s, u>> \in EachReadings /\ t = Cat(p, Cat(k.done, u))
  BY <1>10
<1>11. k.done = Expanded(q)
  BY DEF EachBlocks
<1>12. goal = Cat(result', u)
  <2> DEFINE d == Expanded(q)
  <2>1. d \in Texts /\ p \in Texts /\ result \in Texts /\ u \in Texts
    BY <1>0, <1>5, <1>6
  <2>2. goal = Cat(result, Cat(p, Cat(d, u)))
    BY <1>8, <1>11
  <2>3. result' = Cat(Cat(result, p), d)
    BY <1>7
  <2> HIDE DEF d
  <2>4. Cat(Cat(Cat(result, p), d), u) = Cat(result, Cat(p, Cat(d, u)))
    BY <2>1, CatFour
  <2> QED
    BY <2>2, <2>3, <2>4, Zenon
<1> QED
  BY <1>7, <1>12

\* expand_each on an opener that is not closed: the same.
LEMMA EachUnclosedReads ==
  ASSUME EngineInv, EachUnclosed, NEW goal, EachGoal(goal)
  PROVE  \E t \in Texts : <<rest', t>> \in EachReadings /\ goal = Cat(result', t)
<1>0. message \in Messages /\ result \in Texts /\ rest \in Texts
  BY DEF EngineInv
<1>1. PICK i \in DOMAIN rest :
        First(i, 1, {Each}) /\ None(i + 1, {EndEach}) /\ result' = result \o Upto(i) /\ rest' = After(i)
  BY DEF EachUnclosed
<1>2. rest \in Stays({Each}, EndEach)
  <2>1. \A h \in 1..(i - 1) : rest[h] \notin {Each}
    BY <1>1 DEF First
  <2>2. \A h \in (i + 1)..Len(rest) : rest[h] # EndEach
    BY <1>1 DEF None
  <2>3. i \in 1..Len(rest)
    BY RestDomain
  <2> QED
    BY <1>0, <2>1, <2>2, <2>3, StaysUnclosed
<1>3. After(i) \in Stays({Each}, EndEach)
  <2>1. After(i) \in Seq(Tokens \ {EndEach})
    BY <1>1, NoneFree
  <2> QED
    BY <2>1, StaysFree
<1>4. rest = Cat(Upto(i), After(i)) /\ Upto(i) \in Texts /\ After(i) \in Texts
  BY CutTwo
<1>5. Pass({Each}, EndEach, EachBlocks)
  BY <1>0, EachPass
<1>6. goal = Cat(result, rest)
  BY <1>2, <1>5, ReadsItself DEF EachGoal, EachReadings
<1>7. <<After(i), After(i)>> \in EachReadings
  BY <1>3, <1>5, ReadsItself DEF EachReadings
<1>8. Cat(Cat(result, Upto(i)), After(i)) = Cat(result, Cat(Upto(i), After(i)))
  BY <1>0, <1>4, CatAssociates
<1>9. result' = Cat(result, Upto(i)) /\ rest' = After(i)
  BY <1>1, Zenon DEF Cat
<1>10. goal = Cat(result', After(i))
  BY <1>4, <1>6, <1>8, <1>9, Zenon
<1> QED
  BY <1>4, <1>7, <1>9, <1>10, Zenon

\* At its end, expand_each has made its goal of the text.
LEMMA EachEndReads ==
  ASSUME EngineInv, EachEnd, NEW goal, EachGoal(goal)
  PROVE  rest' = goal
<1>1. rest \in Stays({Each}, EndEach)
  <2>1. rest \in Seq(Tokens \ {Each})
    BY NoneFreeWhole DEF EachEnd
  <2> QED
    BY <2>1, StaysFree
<1>2. Pass({Each}, EndEach, EachBlocks)
  BY EachPass DEF EngineInv
<1>3. goal = Cat(result, rest)
  BY <1>1, <1>2, ReadsItself DEF EachGoal, EachReadings
<1> QED
  BY <1>3, Zenon DEF EachEnd, Cat

-----------------------------------------------------------------------------
ReadsBlock(i, e, c, t) ==
  \E f \in Fields : \E u \in Texts :
    /\ rest[i] = IfField[f] /\ Between(e, c) \in Seq(Tokens \ Openers)
    /\ <<After(c), u>> \in IfReadings
    /\ t = Cat(Upto(i - 1), Cat(IF IsTruthy(f) THEN Between(e, c) ELSE <<>>, u))

\* A block that is opened and closed: the text up to it, the opener, its body and the
\* rest, and the reading that goes on behind it.
LEMMA IfBlockReads ==
  ASSUME EngineInv, NEW i \in DOMAIN rest, NEW e \in DOMAIN rest, NEW c \in DOMAIN rest,
         Opener(i, e), First(c, e + 1, {EndIf}),
         NEW t \in Texts, <<rest, t>> \in IfReadings
  PROVE  e = i /\ ReadsBlock(i, e, c, t)
<1>0. rest \in Texts /\ i \in Nat /\ e \in Nat /\ c \in Nat /\ Len(rest) \in Nat
  <2>1. rest \in Texts
    BY DEF EngineInv
  <2> QED
    BY <2>1, RestDomain
<1>1. Upto(i - 1) \in Seq(Tokens \ Openers) /\ rest[i] \in Openers
  BY FirstFreeWhole DEF Opener
<1>2. e < c /\ rest[c] = EndIf /\ Between(e, c) \in Seq(Tokens \ {EndIf})
  <2>1. e < c /\ rest[c] \in {EndIf} /\ Between(e, c) \in Seq(Tokens \ {EndIf})
    BY <1>0, FirstFree
  <2> QED
    BY <2>1
\* The first closer behind any opener belongs to a field.
<1>3. ASSUME NEW d \in DOMAIN rest, i < d, rest[d] = EndIf, Between(i, d) \in Seq(Tokens \ {EndIf})
      PROVE  Behind(Upto(i - 1), rest[i], Between(i, d), After(d), t, IfBlocks, IfReadings)
  <2>1. rest = Cat(Upto(i - 1), Cat(<<rest[i]>>, Cat(Between(i, d), Cat(<<EndIf>>, After(d))))) /\ After(d) \in Texts
    BY <1>3, CutBlock
  <2> QED
    BY <1>0, <1>1, <1>3, <2>1, FromIf
<1>4. ASSUME NEW d \in DOMAIN rest, i < d, rest[d] = EndIf, Between(i, d) \in Seq(Tokens \ {EndIf})
      PROVE  rest[i] # IfPrefix
  <2>1. PICK k \in IfBlocks : k.open = rest[i]
    BY <1>3, <1>4, Zenon DEF Behind
  <2>2. PICK f \in Fields : k.open = IfField[f]
    BY DEF IfBlocks
  <2> QED
    BY <2>1, <2>2, Different
<1>5. rest[i] # IfPrefix
  <2>1. SUFFICES ASSUME rest[i] = IfPrefix PROVE FALSE
    OBVIOUS
  <2>2. First(e, i + 1, Braced)
    BY <2>1 DEF Opener
  <2>3. i < e /\ \A h \in (i + 1)..(e - 1) : rest[h] \notin Braced
    BY <1>0, <2>2 DEF First
  <2>4. \A h \in (i + 1)..(e - 1) : rest[h] # EndIf
    BY <2>3, Different
  <2>5. CASE rest[e] = EndIf
    <3>1. First(e, i + 1, {EndIf})
      BY <1>0, <2>3, <2>4, <2>5 DEF First
    <3>2. Between(i, e) \in Seq(Tokens \ {EndIf})
      BY <1>0, <3>1, FirstFree
    <3> QED
      BY <1>4, <2>1, <2>3, <2>5, <3>2
  <2>6. CASE rest[e] # EndIf
    <3>1. \A h \in (e + 1)..(c - 1) : rest[h] # EndIf
      BY DEF First
    <3>2. \A h \in (i + 1)..(c - 1) : rest[h] # EndIf
      <4>1. ASSUME NEW h \in (i + 1)..(c - 1) PROVE rest[h] # EndIf
        <5>1. h \in (i + 1)..(e - 1) \/ h = e \/ h \in (e + 1)..(c - 1)
          BY <1>0, <4>1
        <5> QED
          BY <2>4, <2>6, <3>1, <5>1
      <4> QED
        BY <4>1
    <3>3. First(c, i + 1, {EndIf})
      BY <1>0, <1>2, <2>3, <3>2 DEF First
    <3>4. Between(i, c) \in Seq(Tokens \ {EndIf}) /\ i < c
      BY <1>0, <3>3, FirstFree
    <3> QED
      BY <1>2, <1>4, <2>1, <3>4
  <2> QED
    BY <2>5, <2>6
<1>6. e = i
  BY <1>5 DEF Opener
<1>7. PICK k \in IfBlocks : \E u \in Texts :
        /\ k.open = rest[i] /\ k.body = Between(i, c) /\ <<After(c), u>> \in IfReadings
        /\ t = Cat(Upto(i - 1), Cat(k.done, u))
  <2>1. Behind(Upto(i - 1), rest[i], Between(i, c), After(c), t, IfBlocks, IfReadings)
    BY <1>2, <1>3, <1>6
  <2> QED
    BY <2>1, Zenon DEF Behind
<1>8. PICK f \in Fields, b \in Seq(Tokens \ (Openers \cup {EndIf})) :
        k = [open |-> IfField[f], body |-> b, done |-> IF IsTruthy(f) THEN b ELSE <<>>]
  BY DEF IfBlocks
<1>9. PICK u \in Texts :
        /\ k.open = rest[i] /\ k.body = Between(i, c) /\ <<After(c), u>> \in IfReadings
        /\ t = Cat(Upto(i - 1), Cat(k.done, u))
  BY <1>7
<1>10. rest[i] = IfField[f] /\ Between(e, c) = b /\ b \in Seq(Tokens \ Openers)
       /\ k.done = IF IsTruthy(f) THEN Between(e, c) ELSE <<>>
  <2>1. b \in Seq(Tokens \ Openers)
    BY <1>8
  <2>2. k.open = IfField[f] /\ k.body = b /\ k.done = IF IsTruthy(f) THEN b ELSE <<>>
    BY <1>8
  <2>3. b = Between(e, c)
    BY <1>6, <1>9, <2>2, Zenon
  <2> QED
    BY <1>9, <2>1, <2>2, <2>3, Zenon
<1> QED
  BY <1>6, <1>9, <1>10, Zenon DEF ReadsBlock

\* The invariant of eval_if. A call for the body of a block has no block to read; when
\* it returns, its caller goes on behind the block.
IfGoal(goal) ==
  IF stack = <<>>
    THEN \E t \in Texts : <<rest, t>> \in IfReadings /\ goal = Cat(result, t)
    ELSE /\ rest \in Seq(Tokens \ Openers)
         /\ \E t \in Texts : /\ <<Last(stack).rest, t>> \in IfReadings
                             /\ goal = Cat(Last(stack).result, Cat(Cat(result, rest), t))

\* Inside the inner eval_if there is no opener left to find.
LEMMA CallReadsNoBlock ==
  ASSUME EngineInv, NEW goal, IfGoal(goal), stack # <<>>, NEW i \in DOMAIN rest
  PROVE  rest[i] \notin Openers
<1>1. rest \in Seq(Tokens \ Openers) /\ i \in 1..Len(rest)
  BY RestDomain DEF IfGoal
<1> QED
  BY <1>1, ElementOfSeq

\* The last element of Append.
LEMMA LastOfAppend ==
  ASSUME NEW S, NEW s \in Seq(S), NEW x \in S
  PROVE  Last(Append(s, x)) = x /\ Append(s, x) # <<>>
  BY DEF Last

\* A condition holds when its field is there: no two fields have one opener.
LEMMA FieldOf ==
  ASSUME NEW f \in Fields
  PROVE  Holds(IfField[f]) <=> IsTruthy(f)
  BY Different DEF Holds

\* eval_if calling itself for a body: its caller, what the call has and what comes behind
\* the block still give the goal.
LEMMA IfEnterReads ==
  ASSUME EngineInv, IfEnter, NEW goal, IfGoal(goal)
  PROVE  /\ stack' # <<>> /\ rest' \in Seq(Tokens \ Openers)
         /\ \E t \in Texts : /\ <<Last(stack').rest, t>> \in IfReadings
                             /\ goal = Cat(Last(stack').result, Cat(Cat(result', rest'), t))
<1>0. result \in Texts /\ rest \in Texts
  BY DEF EngineInv
<1>1. PICK i, e, c \in DOMAIN rest :
        /\ Opener(i, e) /\ First(c, e + 1, {EndIf}) /\ Holds(rest[i])
        /\ stack' = Append(stack, [result |-> result \o Upto(i - 1), rest |-> After(c)])
        /\ rest' = Between(e, c) /\ result' = <<>>
  BY DEF IfEnter
<1>2. i \in Nat /\ e \in Nat /\ c \in Nat /\ i < c /\ rest[i] \in Openers
  BY <1>1, OpenerReach, RestDomain DEF First
<1>3. stack = <<>>
  BY <1>2, CallReadsNoBlock
<1>4. PICK t \in Texts : <<rest, t>> \in IfReadings /\ goal = Cat(result, t)
  BY <1>3 DEF IfGoal
<1>5. PICK f \in Fields : \E u \in Texts :
        /\ rest[i] = IfField[f] /\ Between(e, c) \in Seq(Tokens \ Openers)
        /\ <<After(c), u>> \in IfReadings
        /\ t = Cat(Upto(i - 1), Cat(IF IsTruthy(f) THEN Between(e, c) ELSE <<>>, u))
  <2>1. ReadsBlock(i, e, c, t)
    BY <1>1, <1>4, IfBlockReads
  <2> QED
    BY <2>1, Zenon DEF ReadsBlock
<1> PICK u \in Texts :
        /\ rest[i] = IfField[f] /\ Between(e, c) \in Seq(Tokens \ Openers)
        /\ <<After(c), u>> \in IfReadings
        /\ t = Cat(Upto(i - 1), Cat(IF IsTruthy(f) THEN Between(e, c) ELSE <<>>, u))
  BY <1>5
<1>6. IsTruthy(f)
  BY <1>1, FieldOf
<1>7. t = Cat(Upto(i - 1), Cat(Between(e, c), u))
  BY <1>6
<1> DEFINE p == Upto(i - 1)
           q == Between(e, c)
           frame == [result |-> result \o p, rest |-> After(c)]
<1>8. p \in Texts /\ q \in Texts /\ After(c) \in Texts
  <2>1. Between(i, c) \in Texts /\ p \in Texts /\ After(c) \in Texts
    BY <1>2, CutBlock
  <2> QED
    BY <2>1, FewerType
<1>9. frame \in Frame
  BY <1>0, <1>8 DEF Frame
<1>10. Last(stack') = frame /\ stack' # <<>>
  BY <1>1, <1>9, LastOfAppend DEF EngineInv
<1>11. Last(stack').result = Cat(result, p) /\ Last(stack').rest = After(c)
  <2>1. Last(stack').result = result \o p /\ Last(stack').rest = After(c)
    <3> HIDE DEF p
    <3> QED
      BY <1>10
  <2> QED
    BY <2>1, Zenon DEF Cat
<1>12. Cat(result', rest') = q
  BY <1>1, <1>8, CatNone
<1> HIDE DEF p, q, frame
<1>13. goal = Cat(Cat(result, p), Cat(q, u))
  <2>1. goal = Cat(result, Cat(p, Cat(q, u)))
    BY <1>4, <1>7 DEF p, q
  <2>2. Cat(q, u) \in Texts
    BY <1>8, CatTypes
  <2>3. Cat(Cat(result, p), Cat(q, u)) = Cat(result, Cat(p, Cat(q, u)))
    BY <1>0, <1>8, <2>2, CatAssociates
  <2> QED
    BY <2>1, <2>3, Zenon
<1> QED
  BY <1>1, <1>10, <1>11, <1>12, <1>13, Zenon DEF q

\* eval_if on a block whose condition does not hold: the goal stays in reach.
LEMMA IfSkipReads ==
  ASSUME EngineInv, IfSkip, NEW goal, IfGoal(goal)
  PROVE  /\ stack' = <<>>
         /\ \E t \in Texts : <<rest', t>> \in IfReadings /\ goal = Cat(result', t)
<1>0. result \in Texts /\ rest \in Texts
  BY DEF EngineInv
<1>1. PICK i, e, c \in DOMAIN rest :
        /\ Opener(i, e) /\ First(c, e + 1, {EndIf}) /\ ~Holds(rest[i])
        /\ result' = result \o Upto(i - 1) /\ rest' = After(c)
  BY DEF IfSkip
<1>2. i \in Nat /\ e \in Nat /\ c \in Nat /\ i < c /\ rest[i] \in Openers
  BY <1>1, OpenerReach, RestDomain DEF First
<1>3. stack = <<>> /\ stack' = <<>>
  <2>1. stack = <<>>
    BY <1>2, CallReadsNoBlock
  <2> QED
    BY <2>1 DEF IfSkip
<1>4. PICK t \in Texts : <<rest, t>> \in IfReadings /\ goal = Cat(result, t)
  BY <1>3 DEF IfGoal
<1>5. PICK f \in Fields : \E u \in Texts :
        /\ rest[i] = IfField[f] /\ Between(e, c) \in Seq(Tokens \ Openers)
        /\ <<After(c), u>> \in IfReadings
        /\ t = Cat(Upto(i - 1), Cat(IF IsTruthy(f) THEN Between(e, c) ELSE <<>>, u))
  <2>1. ReadsBlock(i, e, c, t)
    BY <1>1, <1>4, IfBlockReads
  <2> QED
    BY <2>1, Zenon DEF ReadsBlock
<1> PICK u \in Texts :
        /\ rest[i] = IfField[f] /\ Between(e, c) \in Seq(Tokens \ Openers)
        /\ <<After(c), u>> \in IfReadings
        /\ t = Cat(Upto(i - 1), Cat(IF IsTruthy(f) THEN Between(e, c) ELSE <<>>, u))
  BY <1>5
<1>6. ~IsTruthy(f)
  BY <1>1, FieldOf
<1> DEFINE p == Upto(i - 1)
<1>7. t = Cat(p, u)
  <2>1. t = Cat(p, Cat(<<>>, u))
    BY <1>6
  <2>2. Cat(<<>>, u) = u
    BY CatNone
  <2> QED
    BY <2>1, <2>2, Zenon
<1>8. p \in Texts
  BY <1>2, CutBlock
<1>9. result' = Cat(result, p)
  BY <1>1, Zenon DEF Cat
<1> HIDE DEF p
<1>10. Cat(Cat(result, p), u) = Cat(result, Cat(p, u))
  BY <1>0, <1>8, CatAssociates
<1>11. goal = Cat(result', u)
  BY <1>4, <1>7, <1>9, <1>10, Zenon
<1> QED
  BY <1>1, <1>3, <1>11

\* eval_if on an opener that is not closed: the same.
LEMMA IfUnclosedReads ==
  ASSUME EngineInv, IfUnclosed, NEW goal, IfGoal(goal)
  PROVE  /\ stack' = <<>>
         /\ \E t \in Texts : <<rest', t>> \in IfReadings /\ goal = Cat(result', t)
<1>0. result \in Texts /\ rest \in Texts
  BY DEF EngineInv
<1>1. PICK i, e \in DOMAIN rest :
        /\ \/ Opener(i, e) /\ None(e + 1, {EndIf})
           \/ i = e /\ First(i, 1, Openers) /\ rest[i] = IfPrefix /\ None(i + 1, Braced)
        /\ result' = result \o Upto(e) /\ rest' = After(e)
  BY DEF IfUnclosed
<1>2. First(i, 1, Openers)
  BY <1>1 DEF Opener
<1>3. /\ i \in Nat /\ e \in Nat /\ i \in 1..Len(rest) /\ e \in 1..Len(rest) /\ Len(rest) \in Nat
      /\ rest[i] \in Openers /\ \A h \in 1..(i - 1) : rest[h] \notin Openers
  BY <1>2, RestDomain DEF First
<1>4. stack = <<>> /\ stack' = <<>>
  <2>1. stack = <<>>
    BY <1>3, CallReadsNoBlock
  <2> QED
    BY <2>1 DEF IfUnclosed
<1>5. PICK t \in Texts : <<rest, t>> \in IfReadings /\ goal = Cat(result, t)
  BY <1>4 DEF IfGoal
\* A bare prefix that runs into a closer would be a block of no field.
<1>6. ASSUME First(e, i + 1, {EndIf}), rest[i] = IfPrefix PROVE FALSE
  <2>1. Between(i, e) \in Seq(Tokens \ {EndIf}) /\ i < e /\ rest[e] \in {EndIf}
    BY <1>3, <1>6, FirstFree
  <2>2. Upto(i - 1) \in Seq(Tokens \ Openers)
    BY <1>2, FirstFreeWhole
  <2>3. rest = Cat(Upto(i - 1), Cat(<<rest[i]>>, Cat(Between(i, e), Cat(<<EndIf>>, After(e))))) /\ After(e) \in Texts
    BY <2>1, CutBlock
  <2>4. Behind(Upto(i - 1), rest[i], Between(i, e), After(e), t, IfBlocks, IfReadings)
    BY <1>0, <1>3, <1>5, <2>1, <2>2, <2>3, FromIf
  <2>5. PICK k \in IfBlocks : k.open = rest[i]
    BY <2>4, Zenon DEF Behind
  <2>6. PICK f \in Fields : k.open = IfField[f]
    BY DEF IfBlocks
  <2> QED
    BY <1>6, <2>5, <2>6, Different
<1>7. \A h \in (i + 1)..Len(rest) : rest[h] # EndIf
  <2>1. CASE None(i + 1, Braced)
    BY <2>1, Different DEF None
  <2>2. CASE Opener(i, e) /\ None(e + 1, {EndIf}) /\ e = i
    BY <2>2 DEF None
  <2>3. CASE Opener(i, e) /\ None(e + 1, {EndIf}) /\ e # i
    <3>1. rest[i] = IfPrefix /\ First(e, i + 1, Braced)
      BY <2>3 DEF Opener
    <3>2. i + 1 <= e /\ \A h \in (i + 1)..(e - 1) : rest[h] # EndIf
      BY <1>3, <3>1, Different DEF First
    <3>3. rest[e] # EndIf
      <4>1. rest[e] = EndIf => First(e, i + 1, {EndIf})
        BY <1>3, <3>2 DEF First
      <4> QED
        BY <1>6, <3>1, <4>1
    <3>4. \A h \in (e + 1)..Len(rest) : rest[h] # EndIf
      BY <2>3 DEF None
    <3>5. ASSUME NEW h \in (i + 1)..Len(rest) PROVE rest[h] # EndIf
      <4>1. h \in (i + 1)..(e - 1) \/ h = e \/ h \in (e + 1)..Len(rest)
        BY <1>3, <3>5
      <4> QED
        BY <3>2, <3>3, <3>4, <4>1
    <3> QED
      BY <3>5
  <2> QED
    BY <1>1, <2>1, <2>2, <2>3
<1>8. rest \in Stays(Openers, EndIf)
  BY <1>0, <1>3, <1>7, StaysUnclosed
<1>9. t = rest
  BY <1>5, <1>8, IfPass, ReadsItself DEF IfReadings
<1>10. rest = Cat(Upto(e), After(e)) /\ Upto(e) \in Texts /\ After(e) \in Texts
  BY CutTwo
<1>11. After(e) \in Stays(Openers, EndIf)
  <2>1. None(e + 1, {EndIf})
    <3>1. CASE None(i + 1, Braced) /\ i = e
      BY <3>1, Different DEF None
    <3> QED
      BY <1>1, <3>1
  <2>2. After(e) \in Seq(Tokens \ {EndIf})
    BY <2>1, NoneFree
  <2> QED
    BY <2>2, StaysFree
<1>12. <<After(e), After(e)>> \in IfReadings
  BY <1>11, IfPass, ReadsItself DEF IfReadings
<1>13. result' = Cat(result, Upto(e)) /\ rest' = After(e)
  BY <1>1, Zenon DEF Cat
<1>14. Cat(Cat(result, Upto(e)), After(e)) = Cat(result, Cat(Upto(e), After(e)))
  BY <1>0, <1>10, CatAssociates
<1>15. goal = Cat(result', After(e))
  BY <1>5, <1>9, <1>10, <1>13, <1>14, Zenon
<1> QED
  BY <1>4, <1>10, <1>12, <1>13, <1>15, Zenon

\* There is one caller at most.
LEMMA OneFrame ==
  ASSUME EngineInv, stack # <<>>
  PROVE  Front(stack) = <<>> /\ Last(stack) \in Frame
<1>1. stack \in Seq(Frame) /\ Len(stack) <= 1 /\ Len(stack) \in Nat \ {0}
  BY EmptySeq DEF EngineInv
<1>2. \A n \in Nat \ {0} : n <= 1 => n = 1
  OBVIOUS
<1>3. Len(stack) = 1
  BY <1>1, <1>2, Zenon
<1> QED
  BY <1>1, <1>3 DEF Front, Last

\* The inner eval_if returns: the caller goes on towards the same goal.
LEMMA IfReturnReads ==
  ASSUME EngineInv, IfReturn, NEW goal, IfGoal(goal)
  PROVE  /\ stack' = <<>>
         /\ \E t \in Texts : <<rest', t>> \in IfReadings /\ goal = Cat(result', t)
<1>1. stack # <<>> /\ result \in Texts /\ rest \in Texts
  BY DEF IfReturn, EngineInv
<1>2. PICK t \in Texts : /\ <<Last(stack).rest, t>> \in IfReadings
                         /\ goal = Cat(Last(stack).result, Cat(Cat(result, rest), t))
  BY <1>1 DEF IfGoal
<1> DEFINE a == Last(stack).result
<1>3. a \in Texts /\ Front(stack) = <<>>
  BY <1>1, OneFrame DEF Frame
<1> HIDE DEF a
<1>4. Cat(Cat(Cat(a, result), rest), t) = Cat(a, Cat(result, Cat(rest, t)))
  BY <1>1, <1>3, CatFour
<1>5. Cat(Cat(result, rest), t) = Cat(result, Cat(rest, t))
  BY <1>1, CatAssociates
<1>6. result' = Cat(Cat(a, result), rest) /\ rest' = Last(stack).rest /\ stack' = <<>>
  BY <1>3, Zenon DEF IfReturn, Cat, a
<1>7. goal = Cat(result', t)
  BY <1>2, <1>4, <1>5, <1>6, Zenon DEF a
<1> QED
  BY <1>2, <1>6, <1>7

\* At its end, eval_if has made its goal of the text.
LEMMA IfEndReads ==
  ASSUME EngineInv, IfEnd, NEW goal, IfGoal(goal)
  PROVE  rest' = goal
<1>1. rest \in Stays(Openers, EndIf)
  <2>1. rest \in Seq(Tokens \ Openers)
    BY NoneFreeWhole DEF IfEnd
  <2> QED
    BY <2>1, StaysFree
<1>2. stack = <<>>
  BY DEF IfEnd
<1>3. goal = Cat(result, rest)
  BY <1>1, <1>2, IfPass, ReadsItself DEF IfGoal, IfReadings
<1> QED
  BY <1>3, Zenon DEF IfEnd, Cat

(* ---- pairs of texts, put together ---- *)

\* Relations that hold of the whole when they hold of the parts.
Multiplicative(S, T) ==
  /\ <<(<<>>), (<<>>)>> \in T
  /\ \A a, b, c, d \in Seq(S) : <<a, b>> \in T /\ <<c, d>> \in T => <<Cat(a, c), Cat(b, d)>> \in T

\* The first k + 1 elements are the first k and one more.
LEMMA CutGrows ==
  ASSUME NEW S, NEW s \in Seq(S), NEW k \in Nat, k + 1 <= Len(s)
  PROVE  SubSeq(s, 1, k + 1) = Append(SubSeq(s, 1, k), s[k + 1])
         /\ SubSeq(s, 1, k) \in Seq(S) /\ s[k + 1] \in S
<1>1. SubSeq(s, 1, k) \in Seq(S) /\ Len(SubSeq(s, 1, k)) = k /\ s[k + 1] \in S
  OBVIOUS
<1>2. k + 1 \in 1..Len(s) /\ 1 \in 1..Len(s) /\ (k + 1) - 1 = k
  OBVIOUS
<1>3. SubSeq(s, 1, k + 1) = SubSeq(s, 1, (k + 1) - 1) \o <<s[k + 1]>>
  <2>1. \A m \in 1..Len(s) : \A n \in m..Len(s) : SubSeq(s, m, n) = SubSeq(s, m, n - 1) \o <<s[n]>>
    BY SubSeqRecursiveSecond
  <2>2. k + 1 \in 1..Len(s) /\ k + 1 \in 1..Len(s)
    BY <1>2
  <2> QED
    BY <1>2, <2>1, <2>2, Zenon
<1>4. Append(SubSeq(s, 1, k), s[k + 1]) = SubSeq(s, 1, k) \o <<s[k + 1]>>
  BY <1>1, AppendIsConcat
<1> QED
  BY <1>1, <1>2, <1>3, <1>4, Zenon

\* The same, flattened.
LEMMA FlattenGrows ==
  ASSUME NEW S, NEW s \in Seq(Seq(S)), NEW k \in Nat, k + 1 <= Len(s)
  PROVE  /\ FlattenSeq(SubSeq(s, 1, k + 1)) = Cat(FlattenSeq(SubSeq(s, 1, k)), s[k + 1])
         /\ FlattenSeq(SubSeq(s, 1, k)) \in Seq(S) /\ s[k + 1] \in Seq(S)
<1>1. /\ SubSeq(s, 1, k + 1) = Append(SubSeq(s, 1, k), s[k + 1])
      /\ SubSeq(s, 1, k) \in Seq(Seq(S)) /\ s[k + 1] \in Seq(S)
  BY CutGrows
<1>2. FlattenSeq(Append(SubSeq(s, 1, k), s[k + 1])) = FlattenSeq(SubSeq(s, 1, k)) \o s[k + 1]
  BY <1>1, FlattenAppendSeq
<1>3. FlattenSeq(SubSeq(s, 1, k)) \in Seq(S)
  BY <1>1, FlattenType
<1> QED
  BY <1>1, <1>2, <1>3, Zenon DEF Cat

\* A multiplicative relation of the members is one of the flattened sequences: induction
\* over the number of members.
LEMMA PairFlatten ==
  ASSUME NEW S, NEW T, Multiplicative(S, T), NEW n \in Nat,
         NEW f \in [1..n -> Seq(S)], NEW g \in [1..n -> Seq(S)], \A i \in 1..n : <<f[i], g[i]>> \in T
  PROVE  <<FlattenSeq(f), FlattenSeq(g)>> \in T
<1> DEFINE P(k) == <<FlattenSeq(SubSeq(f, 1, k)), FlattenSeq(SubSeq(g, 1, k))>> \in T
           N == {k \in Nat : k <= n => P(k)}
<1>0. f \in Seq(Seq(S)) /\ g \in Seq(Seq(S)) /\ Len(f) = n /\ Len(g) = n
  BY IsSequence
<1>1. 0 \in N
  <2>1. SubSeq(f, 1, 0) = <<>> /\ SubSeq(g, 1, 0) = <<>>
    BY <1>0
  <2>2. P(0)
    BY <2>1, FlattenEmpty, Zenon DEF Multiplicative
  <2> QED
    BY <2>2
<1>2. ASSUME NEW k \in Nat, k \in N PROVE k + 1 \in N
  <2>1. SUFFICES ASSUME k + 1 <= n PROVE P(k + 1)
    OBVIOUS
  <2>2. P(k)
    BY <1>2, <2>1
  <2> DEFINE a == FlattenSeq(SubSeq(f, 1, k))
             b == FlattenSeq(SubSeq(g, 1, k))
             c == f[k + 1]
             d == g[k + 1]
  <2>3. FlattenSeq(SubSeq(f, 1, k + 1)) = Cat(a, c) /\ a \in Seq(S) /\ c \in Seq(S)
    BY <1>0, <2>1, FlattenGrows
  <2>4. FlattenSeq(SubSeq(g, 1, k + 1)) = Cat(b, d) /\ b \in Seq(S) /\ d \in Seq(S)
    BY <1>0, <2>1, FlattenGrows
  <2>5. <<c, d>> \in T
    BY <2>1
  <2>6. <<a, b>> \in T
    BY <2>2
  <2> HIDE DEF a, b, c, d
  <2>7. <<Cat(a, c), Cat(b, d)>> \in T
    BY <2>3, <2>4, <2>5, <2>6, Zenon DEF Multiplicative
  <2> QED
    BY <2>3, <2>4, <2>7, Zenon
<1>3. Nat \subseteq N
  <2> HIDE DEF N
  <2> QED
    BY <1>1, <1>2, Induction
<1>4. P(n)
  BY <1>3
<1>5. SubSeq(f, 1, n) = f /\ SubSeq(g, 1, n) = g
  BY <1>0, SubSeqFull
<1> QED
  BY <1>4, <1>5, Zenon

\* A sequence is its elements, one after the other.
LEMMA FlattenSingles ==
  ASSUME NEW S
  PROVE  \A s \in Seq(S) : FlattenSeq([i \in DOMAIN s |-> <<s[i]>>]) = s
<1> DEFINE m(s) == [i \in DOMAIN s |-> <<s[i]>>]
           T == {s \in Seq(S) : FlattenSeq(m(s)) = s}
<1>1. <<>> \in T
  <2>1. m(<<>>) = <<>> /\ <<>> \in Seq(S)
    OBVIOUS
  <2> QED
    BY <2>1, FlattenEmpty, Zenon
<1>2. ASSUME NEW s \in Seq(S), NEW e \in S, s \in T PROVE Append(s, e) \in T
  <2>1. m(s) \in Seq(Seq(S))
    <3>1. DOMAIN s = 1..Len(s) /\ Len(s) \in Nat /\ \A i \in 1..Len(s) : s[i] \in S
      OBVIOUS
    <3>2. m(s) \in [1..Len(s) -> Seq(S)]
      BY <3>1
    <3> QED
      BY <3>1, <3>2, IsSequence
  <2>2. <<e>> \in Seq(S) /\ Append(s, e) \in Seq(S) /\ Append(s, e) = s \o <<e>>
    OBVIOUS
  <2>3. m(Append(s, e)) = Append(m(s), <<e>>)
    OBVIOUS
  <2>4. FlattenSeq(Append(m(s), <<e>>)) = FlattenSeq(m(s)) \o <<e>>
    BY <2>1, <2>2, FlattenAppendSeq
  <2>5. FlattenSeq(m(s)) = s
    BY <1>2
  <2>6. FlattenSeq(m(Append(s, e))) = Append(s, e)
    BY <2>2, <2>3, <2>4, <2>5, Zenon
  <2> QED
    BY <2>2, <2>6, Zenon
<1>3. Seq(S) \subseteq T
  <2> HIDE DEF T
  <2> QED
    BY <1>1, <1>2, SeqInduction
<1> QED
  BY <1>3

\* The value of a placeholder is a text.
LEMMA ValueType ==
  ASSUME message \in Messages, NEW e \in Tokens, NEW of, of = <<>> \/ \E i \in DOMAIN ctx.fields : of = <<ctx.fields[i]>>
  PROVE  ValueOf(e, of) \in Texts
<1>1. ctx.title \in Texts /\ ctx.body \in Texts /\ FlattenSeq(ctx.url) \in Texts /\ <<e>> \in Texts
  BY ContextType, FlattenType
<1>3. <<Emoji[Status]>> \in Texts /\ <<Color[Status]>> \in Texts /\ <<Timestamp>> \in Texts
  <2>1. \A t \in Tokens : <<t>> \in Texts
    OBVIOUS
  <2> QED
    BY <2>1, StatusTokens
<1>2. of # <<>> => of[1].key \in Texts /\ of[1].value \in Texts
  <2>1. ASSUME NEW i \in DOMAIN ctx.fields, of = <<ctx.fields[i]>> PROVE of[1].key \in Texts /\ of[1].value \in Texts
    <3>1. of[1] = ctx.fields[i]
      BY <2>1
    <3> QED
      BY <3>1, ContextType
  <2> QED
    BY <2>1
<1> QED
  BY <1>1, <1>2, <1>3 DEF ValueOf

\* What holds of each word and its value holds of the words and their values.
LEMMA WordByWord ==
  ASSUME NEW S \in SUBSET Tokens, NEW T, Multiplicative(Tokens, T), NEW of,
         \A e \in S : ValueOf(e, of) \in Texts /\ <<(<<e>>), ValueOf(e, of)>> \in T
  PROVE  \A words \in Seq(S) : <<words, Values(words, of)>> \in T
<1> TAKE words \in Seq(S)
<1> DEFINE n == Len(words)
           f == [i \in DOMAIN words |-> <<words[i]>>]
           g == [i \in DOMAIN words |-> ValueOf(words[i], of)]
<1>1. DOMAIN words = 1..n /\ n \in Nat /\ \A i \in 1..n : words[i] \in S
  OBVIOUS
<1>2. f \in [1..n -> Seq(Tokens)]
  BY <1>1
<1>3. g \in [1..n -> Seq(Tokens)]
  BY <1>1
<1>4. \A i \in 1..n : <<f[i], g[i]>> \in T
  BY <1>1
<1> HIDE DEF n
<1>5. <<FlattenSeq(f), FlattenSeq(g)>> \in T
  <2> HIDE DEF f, g
  <2> QED
    BY <1>1, <1>2, <1>3, <1>4, PairFlatten
<1>6. FlattenSeq(f) = words
  BY FlattenSingles
<1> QED
  BY <1>5, <1>6, Zenon DEF Values

(* ---- from the text of a template to its meaning, pass by pass ---- *)

\* Text that a pass turns into other text wherever it stands.
EachStep(a, h) ==
  /\ a \in Texts /\ h \in Texts
  /\ \A r, t \in Texts : <<r, t>> \in EachReadings => <<Cat(a, r), Cat(h, t)>> \in EachReadings
IfStep(a, b) ==
  /\ a \in Texts /\ b \in Texts
  /\ \A r, t \in Texts : <<r, t>> \in IfReadings => <<Cat(a, r), Cat(b, t)>> \in IfReadings

\* One substitution; the substitutions from one of them to the last; and the text of a
\* block for the i-th field.
Subst(var, s) == Replace(s, Placeholder[var], Substitute(var))
FromUrl(s) == Subst("url", s)
FromTime(s) == FromUrl(Subst("timestamp", s))
FromColor(s) == FromTime(Subst("status_color", s))
FromEmoji(s) == FromColor(Subst("status_emoji", s))
FromBody(s) == FromEmoji(Subst("body", s))
Done(s) == FromBody(Subst("title", s))
Row(s, i) == Replace(Replace(s, Placeholder.key, ctx.fields[i].key), Placeholder.value, ctx.fields[i].value)

\* A text and its meaning, when the last pass, the last two, or all three are to come;
\* plain text has no directive.
IsPlain(a, m) == a \in Seq(Tokens \ Directives) /\ m = Done(a)
IsIf(a, m) == \E b \in Texts : IfStep(a, b) /\ m = Done(b)
IsPlainEach(a, m) == \E h \in Texts : EachStep(a, h) /\ IsPlain(h, m)
IsEach(a, m) == \E h \in Texts : EachStep(a, h) /\ IsIf(h, m)

Finals == {z \in Texts \X Texts : z[2] = Done(z[1])}
Plains == {z \in Texts \X Texts : IsPlain(z[1], z[2])}
Ifs == {z \in Texts \X Texts : IsIf(z[1], z[2])}
PlainEachs == {z \in Texts \X Texts : IsPlainEach(z[1], z[2])}
Eachs == {z \in Texts \X Texts : IsEach(z[1], z[2])}
PlainRows(i) == {z \in Texts \X Texts : IsPlain(Row(z[1], i), z[2])}
IfRows(i) == {z \in Texts \X Texts : IsIf(Row(z[1], i), z[2])}

\* The relations below, by membership and by formula.
LEMMA Members ==
  ASSUME NEW a \in Texts, NEW m \in Texts
  PROVE  /\ <<a, m>> \in Finals <=> m = Done(a)
         /\ <<a, m>> \in Plains <=> IsPlain(a, m)
         /\ <<a, m>> \in Ifs <=> IsIf(a, m)
         /\ <<a, m>> \in PlainEachs <=> IsPlainEach(a, m)
         /\ <<a, m>> \in Eachs <=> IsEach(a, m)
         /\ \A i : <<a, m>> \in PlainRows(i) <=> IsPlain(Row(a, i), m)
         /\ \A i : <<a, m>> \in IfRows(i) <=> IsIf(Row(a, i), m)
  BY DEF Finals, Plains, Ifs, PlainEachs, Eachs, PlainRows, IfRows

\* They relate texts.
LEMMA PairTypes ==
  ASSUME NEW a, NEW m, NEW i,
         <<a, m>> \in Finals \/ <<a, m>> \in Plains \/ <<a, m>> \in Ifs \/ <<a, m>> \in PlainEachs
         \/ <<a, m>> \in Eachs \/ <<a, m>> \in PlainRows(i) \/ <<a, m>> \in IfRows(i)
  PROVE  a \in Texts /\ m \in Texts
  BY DEF Finals, Plains, Ifs, PlainEachs, Eachs, PlainRows, IfRows

\* Substituting in a text gives a text.
LEMMA SubstTypes ==
  ASSUME message \in Messages
  PROVE  /\ \A var \in Vars : \A s \in Texts : Subst(var, s) \in Texts
         /\ \A s \in Texts : FromUrl(s) \in Texts /\ Done(s) \in Texts
         /\ \A i \in DOMAIN ctx.fields : \A s \in Texts : Row(s, i) \in Texts
<1>1. \A var \in Vars : \A s \in Texts : Subst(var, s) \in Texts
  BY SubstituteType, ReplaceType DEF Subst
<1>2. \A s \in Texts : FromUrl(s) \in Texts
  BY <1>1 DEF FromUrl, Vars
<1>3. \A s \in Texts : FromTime(s) \in Texts
  BY <1>1, <1>2 DEF FromTime, Vars
<1>4. \A s \in Texts : FromColor(s) \in Texts
  BY <1>1, <1>3 DEF FromColor, Vars
<1>6. \A s \in Texts : FromEmoji(s) \in Texts
  BY <1>1, <1>4 DEF FromEmoji, Vars
<1>7. \A s \in Texts : FromBody(s) \in Texts
  BY <1>1, <1>6 DEF FromBody, Vars
<1>8. \A s \in Texts : Done(s) \in Texts
  BY <1>1, <1>7 DEF Done, Vars
<1>5. ASSUME NEW i \in DOMAIN ctx.fields, NEW s \in Texts PROVE Row(s, i) \in Texts
  <2>1. ctx.fields[i].key \in Texts /\ ctx.fields[i].value \in Texts
    BY ContextType
  <2>2. Replace(s, Placeholder.key, ctx.fields[i].key) \in Texts
    BY <2>1, ReplaceType
  <2> QED
    BY <2>1, <2>2, ReplaceType DEF Row
<1> QED
  BY <1>1, <1>2, <1>5, <1>8

\* Substitution takes concatenations to concatenations.
LEMMA SubstCat ==
  ASSUME message \in Messages, NEW s \in Texts, NEW t \in Texts
  PROVE  /\ Done(Cat(s, t)) = Cat(Done(s), Done(t))
         /\ \A i \in DOMAIN ctx.fields : Row(Cat(s, t), i) = Cat(Row(s, i), Row(t, i))
<1>1. \A var \in Vars : \A x, y \in Texts :
        Subst(var, Cat(x, y)) = Cat(Subst(var, x), Subst(var, y)) /\ Subst(var, x) \in Texts
  BY SubstTypes, SubstituteType, ReplaceConcat DEF Subst
<1> USE DEF Vars
<1>2. \A x, y \in Texts : FromUrl(Cat(x, y)) = Cat(FromUrl(x), FromUrl(y))
  BY <1>1 DEF FromUrl
<1>3. \A x, y \in Texts : FromTime(Cat(x, y)) = Cat(FromTime(x), FromTime(y))
  BY <1>1, <1>2 DEF FromTime
<1>4. \A x, y \in Texts : FromColor(Cat(x, y)) = Cat(FromColor(x), FromColor(y))
  BY <1>1, <1>3 DEF FromColor
<1>7. \A x, y \in Texts : FromEmoji(Cat(x, y)) = Cat(FromEmoji(x), FromEmoji(y))
  BY <1>1, <1>4 DEF FromEmoji
<1>8. \A x, y \in Texts : FromBody(Cat(x, y)) = Cat(FromBody(x), FromBody(y))
  BY <1>1, <1>7 DEF FromBody
<1>5. Done(Cat(s, t)) = Cat(Done(s), Done(t))
  BY <1>1, <1>8 DEF Done
<1> HIDE DEF Vars
<1>6. ASSUME NEW i \in DOMAIN ctx.fields PROVE Row(Cat(s, t), i) = Cat(Row(s, i), Row(t, i))
  <2> DEFINE key(x) == Replace(x, Placeholder.key, ctx.fields[i].key)
             val(x) == Replace(x, Placeholder.value, ctx.fields[i].value)
  <2>1. ctx.fields[i].key \in Texts /\ ctx.fields[i].value \in Texts
    BY ContextType
  <2>2. \A x \in Texts : key(x) \in Texts
    BY <2>1, ReplaceType
  <2>3. \A x, y \in Texts : key(Cat(x, y)) = Cat(key(x), key(y))
    BY <2>1, ReplaceConcat
  <2>4. \A x, y \in Texts : val(Cat(x, y)) = Cat(val(x), val(y))
    BY <2>1, ReplaceConcat
  <2>5. \A x : Row(x, i) = val(key(x))
    BY Zenon DEF Row
  <2> HIDE DEF key, val
  <2>6. key(s) \in Texts /\ key(t) \in Texts /\ key(Cat(s, t)) = Cat(key(s), key(t))
    BY <2>2, <2>3
  <2>7. val(Cat(key(s), key(t))) = Cat(val(key(s)), val(key(t)))
    BY <2>4, <2>6
  <2>8. Row(s, i) = val(key(s)) /\ Row(t, i) = val(key(t)) /\ Row(Cat(s, t), i) = val(key(Cat(s, t)))
    BY <2>5
  <2> QED
    BY <2>6, <2>7, <2>8, Zenon
<1> QED
  BY <1>5, <1>6

\* Substituting in nothing.
LEMMA SubstEmpty ==
  Done(<<>>) = <<>> /\ \A i : Row(<<>>, i) = <<>>
  BY ReplaceEmpty, Zenon DEF Done, FromBody, FromEmoji, FromColor, FromTime, FromUrl, Subst, Row

\* The empty text, over any tokens.
LEMMA NothingIsText == <<>> \in Texts /\ \A A : <<>> \in Seq(Tokens \ A)
  OBVIOUS

\* What two texts turn into wherever they stand, so do the two in a row.
LEMMA StepCat ==
  ASSUME NEW a, NEW b, NEW c, NEW d
  PROVE  /\ EachStep(a, b) /\ EachStep(c, d) => EachStep(Cat(a, c), Cat(b, d))
         /\ IfStep(a, b) /\ IfStep(c, d) => IfStep(Cat(a, c), Cat(b, d))
<1>1. ASSUME NEW R, a \in Texts, b \in Texts, c \in Texts, d \in Texts,
             \A r, t \in Texts : <<r, t>> \in R => <<Cat(a, r), Cat(b, t)>> \in R,
             \A r, t \in Texts : <<r, t>> \in R => <<Cat(c, r), Cat(d, t)>> \in R,
             NEW r \in Texts, NEW t \in Texts, <<r, t>> \in R
      PROVE  <<Cat(Cat(a, c), r), Cat(Cat(b, d), t)>> \in R
  <2>1. Cat(c, r) \in Texts /\ Cat(d, t) \in Texts
    BY <1>1, CatTypes
  <2>2. <<Cat(c, r), Cat(d, t)>> \in R
    BY <1>1, Zenon
  <2>3. <<Cat(a, Cat(c, r)), Cat(b, Cat(d, t))>> \in R
    BY <1>1, <2>1, <2>2, Zenon
  <2>4. Cat(Cat(a, c), r) = Cat(a, Cat(c, r)) /\ Cat(Cat(b, d), t) = Cat(b, Cat(d, t))
    BY <1>1, CatAssociates
  <2> QED
    BY <2>3, <2>4, Zenon
<1>2. a \in Texts /\ b \in Texts /\ c \in Texts /\ d \in Texts => Cat(a, c) \in Texts /\ Cat(b, d) \in Texts
  BY CatTypes
<1>3. EachStep(a, b) /\ EachStep(c, d) => EachStep(Cat(a, c), Cat(b, d))
  BY <1>1, <1>2, Zenon DEF EachStep
<1>4. IfStep(a, b) /\ IfStep(c, d) => IfStep(Cat(a, c), Cat(b, d))
  BY <1>1, <1>2, Zenon DEF IfStep
<1> QED
  BY <1>3, <1>4

\* Nothing turns into nothing.
LEMMA StepNothing == EachStep(<<>>, <<>>) /\ IfStep(<<>>, <<>>)
<1>1. \A r \in Texts : Cat(<<>>, r) = r
  BY CatNone
<1> QED
  BY <1>1, NothingIsText, Zenon DEF EachStep, IfStep

\* The last pass is multiplicative.
LEMMA MultiplicativeFinals ==
  ASSUME message \in Messages
  PROVE  Multiplicative(Tokens, Finals)
<1>1. <<(<<>>), (<<>>)>> \in Finals
  BY Members, SubstEmpty, NothingIsText
<1>2. ASSUME NEW a \in Texts, NEW b \in Texts, NEW c \in Texts, NEW d \in Texts, <<a, b>> \in Finals, <<c, d>> \in Finals
      PROVE  <<Cat(a, c), Cat(b, d)>> \in Finals
  <2>1. b = Done(a) /\ d = Done(c)
    BY <1>2, Members
  <2>2. Cat(a, c) \in Texts /\ Cat(b, d) \in Texts
    BY CatTypes
  <2>3. Cat(b, d) = Done(Cat(a, c))
    BY <2>1, SubstCat
  <2> QED
    BY <2>2, <2>3, Members
<1> QED
  BY <1>1, <1>2, Zenon DEF Multiplicative

\* Two plain texts in a row mean what they mean, in a row.
LEMMA PlainCat ==
  ASSUME message \in Messages, NEW a \in Texts, NEW b \in Texts, NEW c \in Texts, NEW d \in Texts,
         IsPlain(a, b), IsPlain(c, d)
  PROVE  IsPlain(Cat(a, c), Cat(b, d))
<1>1. Cat(a, c) \in Seq(Tokens \ Directives)
  BY CatTypes DEF IsPlain
<1>2. Done(Cat(a, c)) = Cat(b, d)
  BY SubstCat DEF IsPlain
<1> QED
  BY <1>1, <1>2 DEF IsPlain

\* The same for texts with conditions.
LEMMA IfCat ==
  ASSUME message \in Messages, NEW a \in Texts, NEW b \in Texts, NEW c \in Texts, NEW d \in Texts,
         IsIf(a, b), IsIf(c, d)
  PROVE  IsIf(Cat(a, c), Cat(b, d))
<1>1. PICK x \in Texts : IfStep(a, x) /\ b = Done(x)
  BY Zenon DEF IsIf
<1>2. PICK y \in Texts : IfStep(c, y) /\ d = Done(y)
  BY Zenon DEF IsIf
<1>3. Cat(x, y) \in Texts /\ IfStep(Cat(a, c), Cat(x, y))
  BY <1>1, <1>2, CatTypes, StepCat
<1>4. Done(Cat(x, y)) = Cat(b, d)
  BY <1>1, <1>2, SubstCat
<1> QED
  BY <1>3, <1>4 DEF IsIf

\* The same for texts with blocks for each field.
LEMMA PlainEachCat ==
  ASSUME message \in Messages, NEW a \in Texts, NEW b \in Texts, NEW c \in Texts, NEW d \in Texts,
         IsPlainEach(a, b), IsPlainEach(c, d)
  PROVE  IsPlainEach(Cat(a, c), Cat(b, d))
<1>1. PICK x \in Texts : EachStep(a, x) /\ IsPlain(x, b)
  BY Zenon DEF IsPlainEach
<1>2. PICK y \in Texts : EachStep(c, y) /\ IsPlain(y, d)
  BY Zenon DEF IsPlainEach
<1>3. Cat(x, y) \in Texts /\ EachStep(Cat(a, c), Cat(x, y))
  BY <1>1, <1>2, CatTypes, StepCat
<1>4. IsPlain(Cat(x, y), Cat(b, d))
  BY <1>1, <1>2, PlainCat
<1> QED
  BY <1>3, <1>4 DEF IsPlainEach

\* The same for texts with both.
LEMMA EachCat ==
  ASSUME message \in Messages, NEW a \in Texts, NEW b \in Texts, NEW c \in Texts, NEW d \in Texts,
         IsEach(a, b), IsEach(c, d)
  PROVE  IsEach(Cat(a, c), Cat(b, d))
<1>1. PICK x \in Texts : EachStep(a, x) /\ IsIf(x, b)
  BY Zenon DEF IsEach
<1>2. PICK y \in Texts : EachStep(c, y) /\ IsIf(y, d)
  BY Zenon DEF IsEach
<1>3. Cat(x, y) \in Texts /\ EachStep(Cat(a, c), Cat(x, y))
  BY <1>1, <1>2, CatTypes, StepCat
<1>4. IsIf(Cat(x, y), Cat(b, d))
  BY <1>1, <1>2, IfCat
<1> QED
  BY <1>3, <1>4 DEF IsEach

\* The empty text means nothing.
LEMMA NothingMeansNothing ==
  IsPlain(<<>>, <<>>) /\ IsIf(<<>>, <<>>) /\ IsPlainEach(<<>>, <<>>) /\ IsEach(<<>>, <<>>)
<1>1. IsPlain(<<>>, <<>>)
  BY SubstEmpty, NothingIsText, Zenon DEF IsPlain
<1>2. IsIf(<<>>, <<>>)
  BY SubstEmpty, NothingIsText, StepNothing, Zenon DEF IsIf
<1> QED
  BY <1>1, <1>2, NothingIsText, StepNothing, Zenon DEF IsPlainEach, IsEach

\* All of the relations are multiplicative.
LEMMA MultiplicativeAll ==
  ASSUME message \in Messages
  PROVE  /\ Multiplicative(Tokens, Plains) /\ Multiplicative(Tokens, Ifs)
         /\ Multiplicative(Tokens, PlainEachs) /\ Multiplicative(Tokens, Eachs)
         /\ \A i \in DOMAIN ctx.fields : Multiplicative(Tokens, PlainRows(i)) /\ Multiplicative(Tokens, IfRows(i))
<1>1. Multiplicative(Tokens, Plains)
  BY Members, PlainCat, CatTypes, NothingIsText, NothingMeansNothing DEF Multiplicative
<1>2. Multiplicative(Tokens, Ifs)
  BY Members, IfCat, CatTypes, NothingIsText, NothingMeansNothing DEF Multiplicative
<1>3. Multiplicative(Tokens, PlainEachs)
  BY Members, PlainEachCat, CatTypes, NothingIsText, NothingMeansNothing DEF Multiplicative
<1>4. Multiplicative(Tokens, Eachs)
  BY Members, EachCat, CatTypes, NothingIsText, NothingMeansNothing DEF Multiplicative
<1>5. ASSUME NEW i \in DOMAIN ctx.fields
      PROVE  Multiplicative(Tokens, PlainRows(i)) /\ Multiplicative(Tokens, IfRows(i))
  <2>1. \A s, t \in Texts : Row(s, i) \in Texts /\ Row(Cat(s, t), i) = Cat(Row(s, i), Row(t, i))
    <3> TAKE s, t \in Texts
    <3>1. Row(s, i) \in Texts
      BY SubstTypes
    <3>2. Row(Cat(s, t), i) = Cat(Row(s, i), Row(t, i))
      BY SubstCat
    <3> QED
      BY <3>1, <3>2
  <2>2. Row(<<>>, i) = <<>>
    BY SubstEmpty
  <2>3. Multiplicative(Tokens, PlainRows(i))
    <3>1. <<(<<>>), (<<>>)>> \in PlainRows(i)
      BY <2>2, Members, NothingIsText, NothingMeansNothing
    <3>2. ASSUME NEW a \in Texts, NEW b \in Texts, NEW c \in Texts, NEW d \in Texts,
                 <<a, b>> \in PlainRows(i), <<c, d>> \in PlainRows(i)
          PROVE  <<Cat(a, c), Cat(b, d)>> \in PlainRows(i)
      <4>1. Row(a, i) \in Texts /\ Row(c, i) \in Texts /\ Row(Cat(a, c), i) = Cat(Row(a, i), Row(c, i))
        BY <2>1
      <4>2. IsPlain(Row(a, i), b) /\ IsPlain(Row(c, i), d)
        BY <3>2, Members
      <4>3. IsPlain(Cat(Row(a, i), Row(c, i)), Cat(b, d))
        BY <4>1, <4>2, PlainCat
      <4>4. Cat(a, c) \in Texts /\ Cat(b, d) \in Texts
        BY CatTypes
      <4>5. IsPlain(Row(Cat(a, c), i), Cat(b, d))
        BY <4>1, <4>3, Zenon
      <4> QED
        BY <4>4, <4>5, Members
    <3> QED
      BY <3>1, <3>2, Zenon DEF Multiplicative
  <2>4. Multiplicative(Tokens, IfRows(i))
    <3>1. <<(<<>>), (<<>>)>> \in IfRows(i)
      BY <2>2, Members, NothingIsText, NothingMeansNothing
    <3>2. ASSUME NEW a \in Texts, NEW b \in Texts, NEW c \in Texts, NEW d \in Texts,
                 <<a, b>> \in IfRows(i), <<c, d>> \in IfRows(i)
          PROVE  <<Cat(a, c), Cat(b, d)>> \in IfRows(i)
      <4>1. Row(a, i) \in Texts /\ Row(c, i) \in Texts /\ Row(Cat(a, c), i) = Cat(Row(a, i), Row(c, i))
        BY <2>1
      <4>2. IsIf(Row(a, i), b) /\ IsIf(Row(c, i), d)
        BY <3>2, Members
      <4>3. IsIf(Cat(Row(a, i), Row(c, i)), Cat(b, d))
        BY <4>1, <4>2, IfCat
      <4>4. Cat(a, c) \in Texts /\ Cat(b, d) \in Texts
        BY CatTypes
      <4>5. IsIf(Row(Cat(a, c), i), Cat(b, d))
        BY <4>1, <4>3, Zenon
      <4> QED
        BY <4>4, <4>5, Members
    <3> QED
      BY <3>1, <3>2, Zenon DEF Multiplicative
  <2> QED
    BY <2>3, <2>4
<1> QED
  BY <1>1, <1>2, <1>3, <1>4, <1>5

\* Append under the name Cat.
LEMMA AppendIsCat ==
  ASSUME NEW S, NEW s \in Seq(S), NEW e \in S
  PROVE  Append(s, e) = Cat(s, <<e>>)
  BY AppendIsConcat DEF Cat

\* The directives are told apart by the passes.
LEMMA AllDirectives ==
  /\ Each \in Directives /\ EndEach \in Directives /\ EndIf \in Directives /\ Openers \subseteq Directives
  /\ Each \notin Openers /\ EndEach \notin Openers /\ EndIf \notin Openers /\ Each # EndIf /\ EndEach # EndIf
  /\ Each # EndEach
  /\ \A f \in Fields : IfField[f] \in Directives /\ IfField[f] \in Openers /\ IfField[f] \in Tokens
                       /\ IfField[f] # Each /\ IfField[f] # EndEach /\ IfField[f] # EndIf
  /\ Each \in Tokens /\ EndEach \in Tokens /\ EndIf \in Tokens
<1>1. Fields = {"body", "url", "fields", "title", "other"}
  BY DEF Fields, IfField
<1>2. /\ IfField["body"] = "{{#if body}}" /\ IfField["url"] = "{{#if url}}"
      /\ IfField["fields"] = "{{#if fields}}" /\ IfField["title"] = "{{#if title}}"
      /\ IfField["other"] = "{{#if other}}"
  BY DEF IfField
<1>3. \A f \in Fields : IfField[f] # Each /\ IfField[f] # EndEach /\ IfField[f] # EndIf
  BY <1>1, <1>2 DEF Each, EndEach, EndIf
<1>4. Each \notin Openers /\ EndEach \notin Openers /\ EndIf \notin Openers
  BY <1>3 DEF Openers, IfOpeners, IfPrefix, Each, EndEach, EndIf
<1>5. Openers \subseteq Tokens
  BY TokensConstant
<1>6. \A f \in Fields : IfField[f] \in Openers
  BY DEF Openers, IfOpeners
<1>7. Each # EndIf /\ EndEach # EndIf /\ Each # EndEach
  BY DEF Each, EndEach, EndIf
<1> QED
  BY <1>3, <1>4, <1>5, <1>6, <1>7, OwnTokens DEF Directives

\* A pass leaves text without its openers alone, wherever it stands.
LEMMA FreeSteps ==
  ASSUME message \in Messages
  PROVE  /\ \A w \in Seq(Tokens \ {Each}) : EachStep(w, w)
         /\ \A w \in Seq(Tokens \ Openers) : IfStep(w, w)
<1>1. Closed({Each}, EndEach, EachBlocks, EachReadings)
  BY EachPass, ReadingsClosed DEF EachReadings
<1>2. Closed(Openers, EndIf, IfBlocks, IfReadings)
  BY IfPass, ReadingsClosed DEF IfReadings
<1>3. ASSUME NEW e \in Tokens \ {Each} PROVE EachStep(<<e>>, <<e>>)
  <2>1. <<e>> \in Texts
    BY OneType
  <2> QED
    BY <1>1, <2>1, Zenon DEF Closed, EachStep
<1>4. ASSUME NEW e \in Tokens \ Openers PROVE IfStep(<<e>>, <<e>>)
  <2>1. <<e>> \in Texts
    BY OneType
  <2> QED
    BY <1>2, <2>1, Zenon DEF Closed, IfStep
<1> DEFINE E == {w \in Seq(Tokens \ {Each}) : EachStep(w, w)}
           I == {w \in Seq(Tokens \ Openers) : IfStep(w, w)}
<1>5. <<>> \in E /\ <<>> \in I
  BY NothingIsText, StepNothing
<1>6. ASSUME NEW w \in Seq(Tokens \ {Each}), NEW e \in Tokens \ {Each}, w \in E PROVE Append(w, e) \in E
  <2>1. Append(w, e) = Cat(w, <<e>>) /\ Append(w, e) \in Seq(Tokens \ {Each})
    BY AppendIsCat
  <2>2. EachStep(Cat(w, <<e>>), Cat(w, <<e>>))
    BY <1>3, <1>6, StepCat
  <2> QED
    BY <2>1, <2>2
<1>7. ASSUME NEW w \in Seq(Tokens \ Openers), NEW e \in Tokens \ Openers, w \in I PROVE Append(w, e) \in I
  <2>1. Append(w, e) = Cat(w, <<e>>) /\ Append(w, e) \in Seq(Tokens \ Openers)
    BY AppendIsCat
  <2>2. IfStep(Cat(w, <<e>>), Cat(w, <<e>>))
    BY <1>4, <1>7, StepCat
  <2> QED
    BY <2>1, <2>2
<1> HIDE DEF E, I
<1>8. Seq(Tokens \ {Each}) \subseteq E
  BY <1>5, <1>6, SeqInduction
<1>9. Seq(Tokens \ Openers) \subseteq I
  BY <1>5, <1>7, SeqInduction
<1> QED
  BY <1>8, <1>9 DEF E, I

\* What is between two tokens.
Around(a, s, b) == Cat(<<a>>, Cat(s, <<b>>))

\* What follows a text between two tokens.
LEMMA AroundThen ==
  ASSUME NEW a \in Tokens, NEW b \in Tokens, NEW s \in Texts, NEW r \in Texts
  PROVE  /\ Around(a, s, b) \in Texts
         /\ Cat(Around(a, s, b), r) = Cat(<<a>>, Cat(s, Cat(<<b>>, r)))
<1>1. <<a>> \in Texts /\ <<b>> \in Texts
  BY OneType
<1>2. Cat(s, <<b>>) \in Texts /\ Cat(<<b>>, r) \in Texts
  BY <1>1, CatTypes
<1>0. \A x \in Texts : \A y \in Texts : \A z \in Texts : Cat(Cat(x, y), z) = Cat(x, Cat(y, z))
  BY CatAssociates
<1>3. Cat(Cat(<<a>>, Cat(s, <<b>>)), r) = Cat(<<a>>, Cat(Cat(s, <<b>>), r))
  <2>1. ASSUME NEW x \in Texts PROVE Cat(Cat(<<a>>, x), r) = Cat(<<a>>, Cat(x, r))
    BY <1>0, <1>1
  <2> QED
    BY <1>2, <2>1
<1>4. Cat(Cat(s, <<b>>), r) = Cat(s, Cat(<<b>>, r))
  BY <1>0, <1>1, Zenon
<1>5. Cat(<<a>>, Cat(s, <<b>>)) \in Texts
  BY <1>1, <1>2, CatTypes
<1> QED
  BY <1>3, <1>4, <1>5, Zenon DEF Around

\* A block for each field turns into its rows wherever it stands.
LEMMA EachBlockStep ==
  ASSUME message \in Messages, NEW s \in Seq(Tokens \ {EndEach})
  PROVE  EachStep(Around(Each, s, EndEach), Expanded(s))
<1>0. s \in Texts /\ Each \in Tokens /\ EndEach \in Tokens
  BY FewerType, OwnTokens
<1>1. Closed({Each}, EndEach, EachBlocks, EachReadings)
  BY EachPass, ReadingsClosed DEF EachReadings
<1> DEFINE k == [open |-> Each, body |-> s, done |-> Expanded(s)]
<1>2. k \in EachBlocks
  BY DEF EachBlocks
<1>3. k.open = Each /\ k.body = s /\ k.done = Expanded(s)
  OBVIOUS
<1>4. Expanded(s) \in Texts /\ Around(Each, s, EndEach) \in Texts
  BY <1>0, ExpandedType, AroundThen
<1> HIDE DEF k
<1>5. ASSUME NEW r \in Texts, NEW t \in Texts, <<r, t>> \in EachReadings
      PROVE  <<Cat(Around(Each, s, EndEach), r), Cat(Expanded(s), t)>> \in EachReadings
  <2>1. <<Cat(<<k.open>>, Cat(k.body, Cat(<<EndEach>>, r))), Cat(k.done, t)>> \in EachReadings
    BY <1>1, <1>2, <1>5, Zenon DEF Closed
  <2>2. Cat(Around(Each, s, EndEach), r) = Cat(<<Each>>, Cat(s, Cat(<<EndEach>>, r)))
    BY <1>0, AroundThen
  <2> QED
    BY <1>3, <2>1, <2>2, Zenon
<1> QED
  BY <1>4, <1>5, Zenon DEF EachStep

\* A condition's block turns into its body or into nothing wherever it stands.
LEMMA IfBlockStep ==
  ASSUME message \in Messages, NEW f \in Fields, NEW s \in Seq(Tokens \ Directives)
  PROVE  IfStep(Around(IfField[f], s, EndIf), IF IsTruthy(f) THEN s ELSE <<>>)
<1>0. s \in Texts /\ IfField[f] \in Tokens /\ EndIf \in Tokens /\ s \in Seq(Tokens \ (Openers \cup {EndIf}))
  <2>1. Tokens \ Directives \subseteq Tokens \ (Openers \cup {EndIf})
    BY DEF Directives
  <2>2. s \in Seq(Tokens \ (Openers \cup {EndIf}))
    BY <2>1, SeqMonotonic
  <2> QED
    BY <2>2, FewerType, AllDirectives
<1>1. Closed(Openers, EndIf, IfBlocks, IfReadings)
  BY IfPass, ReadingsClosed DEF IfReadings
<1> DEFINE d == IF IsTruthy(f) THEN s ELSE <<>>
           k == [open |-> IfField[f], body |-> s, done |-> d]
<1>2. k \in IfBlocks
  BY <1>0 DEF IfBlocks
<1>3. k.open = IfField[f] /\ k.body = s /\ k.done = d
  OBVIOUS
<1>4. d \in Texts /\ Around(IfField[f], s, EndIf) \in Texts
  BY <1>0, AroundThen, NothingIsText
<1> HIDE DEF k, d
<1>5. ASSUME NEW r \in Texts, NEW t \in Texts, <<r, t>> \in IfReadings
      PROVE  <<Cat(Around(IfField[f], s, EndIf), r), Cat(d, t)>> \in IfReadings
  <2>1. <<Cat(<<k.open>>, Cat(k.body, Cat(<<EndIf>>, r))), Cat(k.done, t)>> \in IfReadings
    BY <1>1, <1>2, <1>5, Zenon DEF Closed
  <2>2. Cat(Around(IfField[f], s, EndIf), r) = Cat(<<IfField[f]>>, Cat(s, Cat(<<EndIf>>, r)))
    BY <1>0, AroundThen
  <2> QED
    BY <1>3, <2>1, <2>2, Zenon
<1> QED
  BY <1>4, <1>5, Zenon DEF IfStep, d

-----------------------------------------------------------------------------
(* ---- what the placeholders become ---- *)

\* The placeholders by name.
LEMMA Distinct ==
  /\ Placeholder["title"] = "{{title}}" /\ Placeholder["body"] = "{{body}}" /\ Placeholder["url"] = "{{url}}"
  /\ Placeholder["status_emoji"] = "{{status_emoji}}" /\ Placeholder["status_color"] = "{{status_color}}"
  /\ Placeholder["timestamp"] = "{{timestamp}}"
  /\ Placeholder["key"] = "{{key}}" /\ Placeholder["value"] = "{{value}}"
  /\ \A t \in {"{{title}}", "{{body}}", "{{url}}", "{{key}}", "{{value}}"} \cup StatusPlaceholders :
       t \in Tokens /\ t \in Braced
<1>1. /\ Placeholder["title"] = "{{title}}" /\ Placeholder["body"] = "{{body}}" /\ Placeholder["url"] = "{{url}}"
      /\ Placeholder["status_emoji"] = "{{status_emoji}}" /\ Placeholder["status_color"] = "{{status_color}}"
      /\ Placeholder["timestamp"] = "{{timestamp}}"
      /\ Placeholder["key"] = "{{key}}" /\ Placeholder["value"] = "{{value}}"
  BY DEF Placeholder
<1>2. DOMAIN Placeholder =
        {"title", "body", "status_emoji", "status_color", "timestamp", "url", "key", "value"}
  BY DEF Placeholder
<1>3. \A p \in DOMAIN Placeholder : Placeholder[p] \in Braced
  BY DEF Braced
<1>4. \A t \in {"{{title}}", "{{body}}", "{{url}}", "{{key}}", "{{value}}",
               "{{status_emoji}}", "{{status_color}}", "{{timestamp}}"} : t \in Tokens /\ t \in Braced
  BY <1>1, <1>2, <1>3, OwnTokens
<1> QED
  BY <1>1, <1>4 DEF StatusPlaceholders

\* A text that is free of A is a text over the other tokens.
LEMMA FreeIs ==
  ASSUME NEW s \in Texts, NEW A, Free(s, A)
  PROVE  s \in Seq(Tokens \ A)
<1>1. \A i \in 1..Len(s) : s[i] \notin A
  <2>1. DOMAIN s = 1..Len(s)
    OBVIOUS
  <2> QED
    BY <2>1 DEF Free, Range
<1> QED
  BY <1>1, IsFree

\* The values of a quiet context, as texts over what they may hold.
LEMMA QuietValues ==
  ASSUME message \in Messages, Quiet
  PROVE  /\ \A p \in {"{{body}}", "{{url}}"} \cup StatusPlaceholders : ctx.title \in Seq(Tokens \ {p})
         /\ \A p \in {"{{url}}"} \cup StatusPlaceholders : ctx.body \in Seq(Tokens \ {p})
         /\ \A i \in DOMAIN ctx.fields :
              /\ ctx.fields[i].key \in Seq(Tokens \ (Braced \cup Directives))
              /\ ctx.fields[i].value \in Seq(Tokens \ (Braced \cup Directives))
<1>0. ASSUME NEW A, NEW s \in Seq(Tokens \ A), NEW p \in A PROVE s \in Seq(Tokens \ {p})
  <2>1. Tokens \ A \subseteq Tokens \ {p}
    OBVIOUS
  <2> QED
    BY <2>1, SeqMonotonic
<1>1. ctx.title \in Seq(Tokens \ ({"{{body}}", "{{url}}"} \cup StatusPlaceholders))
  BY FreeIs, ContextType DEF Quiet
<1>2. ctx.body \in Seq(Tokens \ ({"{{url}}"} \cup StatusPlaceholders))
  BY FreeIs, ContextType DEF Quiet
<1>3. ASSUME NEW i \in DOMAIN ctx.fields
      PROVE  /\ ctx.fields[i].key \in Seq(Tokens \ (Braced \cup Directives))
             /\ ctx.fields[i].value \in Seq(Tokens \ (Braced \cup Directives))
  BY FreeIs, ContextType DEF Quiet
<1>4. \A p \in {"{{body}}", "{{url}}"} \cup StatusPlaceholders : ctx.title \in Seq(Tokens \ {p})
  BY <1>0, <1>1
<1>5. \A p \in {"{{url}}"} \cup StatusPlaceholders : ctx.body \in Seq(Tokens \ {p})
  BY <1>0, <1>2
<1> QED
  BY <1>3, <1>4, <1>5

\* Replace on text without the token, and on one token, in the words of the passes.
LEMMA NotThere ==
  ASSUME NEW token, NEW with \in Texts
  PROVE  \A s \in Seq(Tokens \ {token}) : Replace(s, token, with) = s
<1>1. ASSUME NEW s \in Seq(Tokens \ {token}) PROVE Replace(s, token, with) = s
  <2> DEFINE m == [i \in DOMAIN s |-> IF s[i] = token THEN with ELSE <<s[i]>>]
             n == [i \in DOMAIN s |-> <<s[i]>>]
  <2>1. \A i \in DOMAIN s : s[i] # token
    OBVIOUS
  <2>2. m = n
    BY <2>1
  <2>3. FlattenSeq(n) = s
    BY FlattenSingles
  <2> QED
    BY <2>2, <2>3, Zenon DEF Replace
<1> QED
  BY <1>1

\* str::replace on one token.
LEMMA OneToken ==
  ASSUME NEW e \in Tokens, NEW token, NEW with \in Texts
  PROVE  Replace(<<e>>, token, with) = IF e = token THEN with ELSE <<e>>
  BY ReplaceOne DEF Put

\* A substitution leaves text without its placeholder alone, and gives the placeholder
\* its value.
LEMMA SubstAlone ==
  ASSUME message \in Messages, NEW var \in Vars
  PROVE  /\ \A s \in Seq(Tokens \ {Placeholder[var]}) : Subst(var, s) = s
         /\ \A e \in Tokens : Subst(var, <<e>>) = IF e = Placeholder[var] THEN Substitute(var) ELSE <<e>>
<1>1. Substitute(var) \in Texts
  BY SubstituteType
<1> QED
  BY <1>1, NotThere, OneToken DEF Subst

\* The values of simple_sub, by name.
LEMMA Substitutes ==
  /\ Substitute("title") = ctx.title /\ Substitute("body") = ctx.body
  /\ Substitute("status_emoji") = <<Emoji[Status]>> /\ Substitute("status_color") = <<Color[Status]>>
  /\ Substitute("timestamp") = <<Timestamp>> /\ Substitute("url") = FlattenSeq(ctx.url)
  BY DEF Substitute

\* What the later substitutions leave alone: text without their placeholders.
LEMMA LaterAlone ==
  ASSUME message \in Messages, NEW s
  PROVE  /\ s \in Seq(Tokens \ {"{{url}}"}) => FromUrl(s) = s
         /\ /\ s \in Seq(Tokens \ {"{{url}}"})
            /\ \A p \in StatusPlaceholders : s \in Seq(Tokens \ {p})
            => FromTime(s) = s /\ FromColor(s) = s /\ FromEmoji(s) = s
<1>1. /\ s \in Seq(Tokens \ {"{{url}}"}) => Subst("url", s) = s
      /\ s \in Seq(Tokens \ {"{{timestamp}}"}) => Subst("timestamp", s) = s
      /\ s \in Seq(Tokens \ {"{{status_color}}"}) => Subst("status_color", s) = s
      /\ s \in Seq(Tokens \ {"{{status_emoji}}"}) => Subst("status_emoji", s) = s
  BY SubstAlone, Distinct DEF Vars
<1> QED
  BY <1>1 DEF FromUrl, FromTime, FromColor, FromEmoji, StatusPlaceholders

\* An emoji, a colour or the time holds no placeholder.
LEMMA StatusAlone ==
  ASSUME message \in Messages, NEW e \in {Emoji[Status], Color[Status], Timestamp}
  PROVE  \A p \in {"{{url}}"} \cup StatusPlaceholders : <<e>> \in Seq(Tokens \ {p})
<1> TAKE p \in {"{{url}}"} \cup StatusPlaceholders
<1>1. e \in Tokens \ {p}
  BY StatusTokens, Distinct
<1> QED
  BY <1>1, OneType

\* The last pass on one token gives its value: the substitutions do not disturb each
\* other when values are quiet.
LEMMA DoneOne ==
  ASSUME message \in Messages, Quiet, NEW e \in Tokens
  PROVE  Done(<<e>>) = ValueOf(e, <<>>)
<1>0. \A var \in Vars : Subst(var, <<e>>) = IF e = Placeholder[var] THEN Substitute(var) ELSE <<e>>
  BY SubstAlone
<1>1. /\ Subst("title", <<e>>) = IF e = "{{title}}" THEN ctx.title ELSE <<e>>
      /\ Subst("body", <<e>>) = IF e = "{{body}}" THEN ctx.body ELSE <<e>>
      /\ Subst("status_emoji", <<e>>) = IF e = "{{status_emoji}}" THEN <<Emoji[Status]>> ELSE <<e>>
      /\ Subst("status_color", <<e>>) = IF e = "{{status_color}}" THEN <<Color[Status]>> ELSE <<e>>
      /\ Subst("timestamp", <<e>>) = IF e = "{{timestamp}}" THEN <<Timestamp>> ELSE <<e>>
      /\ Subst("url", <<e>>) = IF e = "{{url}}" THEN FlattenSeq(ctx.url) ELSE <<e>>
  BY <1>0, Substitutes, Distinct, Zenon DEF Vars
<1>2. FromBody(ctx.title) = ctx.title
  <2>1. Subst("body", ctx.title) = ctx.title
    BY QuietValues, SubstAlone, Distinct DEF Vars
  <2>2. FromEmoji(ctx.title) = ctx.title
    BY QuietValues, LaterAlone
  <2> QED
    BY <2>1, <2>2 DEF FromBody
<1>3. FromEmoji(ctx.body) = ctx.body
  BY QuietValues, LaterAlone
<1>4. FromColor(<<Emoji[Status]>>) = <<Emoji[Status]>>
  BY StatusAlone, LaterAlone
<1>5. FromTime(<<Color[Status]>>) = <<Color[Status]>>
  BY StatusAlone, LaterAlone
<1>6. FromUrl(<<Timestamp>>) = <<Timestamp>>
  BY StatusAlone, LaterAlone
<1>7. FromUrl(<<e>>) = IF e = "{{url}}" THEN FlattenSeq(ctx.url) ELSE <<e>>
  BY <1>1 DEF FromUrl
<1>8. FromTime(<<e>>) = IF e = "{{timestamp}}" THEN <<Timestamp>> ELSE FromUrl(<<e>>)
  BY <1>1, <1>6 DEF FromTime
<1>9. FromColor(<<e>>) = IF e = "{{status_color}}" THEN <<Color[Status]>> ELSE FromTime(<<e>>)
  BY <1>1, <1>5 DEF FromColor
<1>10. FromEmoji(<<e>>) = IF e = "{{status_emoji}}" THEN <<Emoji[Status]>> ELSE FromColor(<<e>>)
  BY <1>1, <1>4 DEF FromEmoji
<1>11. FromBody(<<e>>) = IF e = "{{body}}" THEN ctx.body ELSE FromEmoji(<<e>>)
  BY <1>1, <1>3 DEF FromBody
<1>12. Done(<<e>>) = IF e = "{{title}}" THEN ctx.title ELSE FromBody(<<e>>)
  BY <1>1, <1>2 DEF Done
<1> DEFINE X == IF e = "{{status_emoji}}" THEN <<Emoji[Status]>>
                ELSE IF e = "{{status_color}}" THEN <<Color[Status]>>
                ELSE IF e = "{{timestamp}}" THEN <<Timestamp>>
                ELSE IF e = "{{url}}" THEN FlattenSeq(ctx.url) ELSE <<e>>
<1>13. ValueOf(e, <<>>) = IF e = "{{title}}" THEN ctx.title ELSE IF e = "{{body}}" THEN ctx.body ELSE X
  BY Distinct DEF ValueOf
<1>14. FromTime(<<e>>) = IF e = "{{timestamp}}" THEN <<Timestamp>>
                         ELSE IF e = "{{url}}" THEN FlattenSeq(ctx.url) ELSE <<e>>
  BY <1>7, <1>8, Zenon
<1>15. FromEmoji(<<e>>) = X
  <2>1. FromEmoji(<<e>>) = IF e = "{{status_emoji}}" THEN <<Emoji[Status]>>
                           ELSE IF e = "{{status_color}}" THEN <<Color[Status]>> ELSE FromTime(<<e>>)
    BY <1>9, <1>10, Zenon
  <2> QED
    BY <1>14, <2>1, Zenon
<1>16. Done(<<e>>) = IF e = "{{title}}" THEN ctx.title ELSE IF e = "{{body}}" THEN ctx.body
                     ELSE FromEmoji(<<e>>)
  BY <1>11, <1>12, Zenon
<1> HIDE DEF X
<1>17. CASE e = "{{title}}"
  BY <1>13, <1>16, <1>17, Zenon
<1>18. CASE e = "{{body}}"
  BY <1>13, <1>16, <1>18, Zenon
<1>19. CASE e # "{{title}}" /\ e # "{{body}}"
  <2>1. Done(<<e>>) = FromEmoji(<<e>>) /\ ValueOf(e, <<>>) = X
    BY <1>13, <1>16, <1>19, Zenon
  <2> QED
    BY <1>15, <2>1, Zenon
<1> QED
  BY <1>17, <1>18, <1>19, Zenon

\* Text without anything in braces stays.
LEMMA DonePlain ==
  ASSUME message \in Messages, Quiet, NEW s \in Seq(Tokens \ Braced)
  PROVE  Done(s) = s
<1>1. ASSUME NEW p \in {"{{title}}", "{{body}}", "{{url}}"} \cup StatusPlaceholders PROVE s \in Seq(Tokens \ {p})
  <2>1. Tokens \ Braced \subseteq Tokens \ {p}
    BY Distinct
  <2> QED
    BY <2>1, SeqMonotonic
<1>2. Subst("title", s) = s /\ Subst("body", s) = s
  BY <1>1, SubstAlone, Distinct DEF Vars
<1>3. FromEmoji(s) = s
  BY <1>1, LaterAlone
<1> QED
  BY <1>2, <1>3 DEF Done, FromBody

\* One token in a block for the i-th field.
LEMMA RowOne ==
  ASSUME message \in Messages, Quiet, NEW e \in Tokens, NEW i \in DOMAIN ctx.fields
  PROVE  Row(<<e>>, i) = IF e = "{{key}}" THEN ctx.fields[i].key
                         ELSE IF e = "{{value}}" THEN ctx.fields[i].value ELSE <<e>>
<1> DEFINE K == ctx.fields[i].key
           V == ctx.fields[i].value
<1>0. K \in Texts /\ V \in Texts
  BY ContextType
<1>1. K \in Seq(Tokens \ {"{{value}}"})
  <2>1. K \in Seq(Tokens \ (Braced \cup Directives))
    BY QuietValues
  <2>2. Tokens \ (Braced \cup Directives) \subseteq Tokens \ {"{{value}}"}
    BY Distinct
  <2> QED
    BY <2>1, <2>2, SeqMonotonic
<1>2. Row(<<e>>, i) = Replace(Replace(<<e>>, "{{key}}", K), "{{value}}", V)
  BY Distinct, Zenon DEF Row
<1> HIDE DEF K, V
<1>3. Replace(K, "{{value}}", V) = K
  BY <1>0, <1>1, NotThere
<1>4. /\ Replace(<<e>>, "{{key}}", K) = IF e = "{{key}}" THEN K ELSE <<e>>
      /\ Replace(<<e>>, "{{value}}", V) = IF e = "{{value}}" THEN V ELSE <<e>>
  BY <1>0, OneToken
<1>5. Row(<<e>>, i) = IF e = "{{key}}" THEN K ELSE IF e = "{{value}}" THEN V ELSE <<e>>
  BY <1>2, <1>3, <1>4
<1> QED
  BY <1>5 DEF K, V

\* And behind the last pass: its value in that block.
LEMMA DoneRowOne ==
  ASSUME message \in Messages, Quiet, NEW e \in Tokens, NEW i \in DOMAIN ctx.fields
  PROVE  Done(Row(<<e>>, i)) = ValueOf(e, <<ctx.fields[i]>>)
<1>1. CASE e = "{{key}}" \/ e = "{{value}}"
  <2>1. Row(<<e>>, i) \in Seq(Tokens \ Braced)
    <3>1. /\ ctx.fields[i].key \in Seq(Tokens \ (Braced \cup Directives))
          /\ ctx.fields[i].value \in Seq(Tokens \ (Braced \cup Directives))
      BY QuietValues
    <3>2. Tokens \ (Braced \cup Directives) \subseteq Tokens \ Braced
      OBVIOUS
    <3>3. ctx.fields[i].key \in Seq(Tokens \ Braced) /\ ctx.fields[i].value \in Seq(Tokens \ Braced)
      BY <3>1, <3>2, SeqMonotonic
    <3> QED
      BY <1>1, <3>3, RowOne
  <2>2. Done(Row(<<e>>, i)) = Row(<<e>>, i)
    BY <2>1, DonePlain
  <2>3. ValueOf(e, <<ctx.fields[i]>>) = Row(<<e>>, i)
    BY <1>1, RowOne, Distinct DEF ValueOf
  <2> QED
    BY <2>2, <2>3
<1>2. CASE e # "{{key}}" /\ e # "{{value}}"
  <2>1. Row(<<e>>, i) = <<e>>
    BY <1>2, RowOne
  <2>2. ValueOf(e, <<ctx.fields[i]>>) = ValueOf(e, <<>>)
    BY <1>2, Distinct DEF ValueOf
  <2> QED
    BY <2>1, <2>2, DoneOne
<1> QED
  BY <1>1, <1>2

(* ---- from words to trees ---- *)

\* Words and what they mean, in a block for a field and outside of one.
LEMMA WordsMean ==
  ASSUME message \in Messages, Quiet
  PROVE  /\ \A w \in Texts : Values(w, <<>>) \in Texts /\ Values(w, <<>>) = Done(w)
         /\ \A i \in DOMAIN ctx.fields : \A w \in Seq(Tokens \ Directives) :
              /\ Row(w, i) \in Seq(Tokens \ Directives)
              /\ Values(w, <<ctx.fields[i]>>) \in Texts
              /\ Values(w, <<ctx.fields[i]>>) = Done(Row(w, i))
<1>1. ASSUME NEW w \in Texts PROVE Values(w, <<>>) \in Texts /\ Values(w, <<>>) = Done(w)
  <2>1. ASSUME NEW e \in Tokens PROVE ValueOf(e, <<>>) \in Texts /\ <<(<<e>>), ValueOf(e, <<>>)>> \in Finals
    <3>1. ValueOf(e, <<>>) \in Texts /\ <<e>> \in Texts
      BY ValueType, OneType
    <3>2. ValueOf(e, <<>>) = Done(<<e>>)
      BY DoneOne
    <3> QED
      BY <3>1, <3>2, Members
  <2>2. \A words \in Texts : <<words, Values(words, <<>>)>> \in Finals
    <3>1. Multiplicative(Tokens, Finals) /\ Tokens \in SUBSET Tokens
      BY MultiplicativeFinals
    <3> QED
      BY <2>1, <3>1, WordByWord
  <2>3. <<w, Values(w, <<>>)>> \in Finals
    BY <2>2
  <2>4. Values(w, <<>>) \in Texts
    BY <2>3, PairTypes
  <2> QED
    BY <2>3, <2>4, Members
<1>2. ASSUME NEW i \in DOMAIN ctx.fields, NEW w \in Seq(Tokens \ Directives)
      PROVE  /\ Row(w, i) \in Seq(Tokens \ Directives)
             /\ Values(w, <<ctx.fields[i]>>) \in Texts
             /\ Values(w, <<ctx.fields[i]>>) = Done(Row(w, i))
  <2> DEFINE of == <<ctx.fields[i]>>
  <2>1. ASSUME NEW e \in Tokens \ Directives PROVE ValueOf(e, of) \in Texts /\ <<(<<e>>), ValueOf(e, of)>> \in PlainRows(i)
    <3>1. ValueOf(e, of) \in Texts /\ <<e>> \in Texts
      BY ValueType, OneType
    <3>2. Row(<<e>>, i) \in Seq(Tokens \ Directives)
      <4>1. /\ ctx.fields[i].key \in Seq(Tokens \ (Braced \cup Directives))
            /\ ctx.fields[i].value \in Seq(Tokens \ (Braced \cup Directives))
        BY QuietValues
      <4>2. Tokens \ (Braced \cup Directives) \subseteq Tokens \ Directives
        OBVIOUS
      <4>3. ctx.fields[i].key \in Seq(Tokens \ Directives) /\ ctx.fields[i].value \in Seq(Tokens \ Directives)
        BY <4>1, <4>2, SeqMonotonic
      <4>4. <<e>> \in Seq(Tokens \ Directives)
        BY OneType
      <4>5. Row(<<e>>, i) = ctx.fields[i].key \/ Row(<<e>>, i) = ctx.fields[i].value \/ Row(<<e>>, i) = <<e>>
        BY RowOne
      <4> QED
        BY <4>3, <4>4, <4>5, Zenon
    <3>3. ValueOf(e, of) = Done(Row(<<e>>, i))
      BY DoneRowOne
    <3>4. IsPlain(Row(<<e>>, i), ValueOf(e, of))
      BY <3>2, <3>3, Zenon DEF IsPlain
    <3> QED
      BY <3>1, <3>4, Members
  <2>2. \A words \in Seq(Tokens \ Directives) : <<words, Values(words, of)>> \in PlainRows(i)
    <3>1. Multiplicative(Tokens, PlainRows(i)) /\ Tokens \ Directives \in SUBSET Tokens
      BY MultiplicativeAll
    <3> HIDE DEF of
    <3> QED
      BY <2>1, <3>1, WordByWord
  <2>3. <<w, Values(w, of)>> \in PlainRows(i)
    BY <2>2
  <2> HIDE DEF of
  <2>4. Values(w, of) \in Texts /\ w \in Texts
    BY <2>3, PairTypes
  <2>5. IsPlain(Row(w, i), Values(w, of))
    BY <2>3, <2>4, Members
  <2>6. Row(w, i) \in Seq(Tokens \ Directives) /\ Values(w, of) = Done(Row(w, i))
    BY <2>5, Zenon DEF IsPlain
  <2> QED
    BY <2>4, <2>6 DEF of
<1> QED
  BY <1>1, <1>2

\* Plain text has no block for any pass.
LEMMA PlainIs ==
  ASSUME message \in Messages, NEW a \in Texts, NEW m \in Texts
  PROVE  /\ IsPlain(a, m) => IsIf(a, m) /\ IsPlainEach(a, m)
         /\ IsPlainEach(a, m) => IsEach(a, m)
<1>0. Tokens \ Directives \subseteq Tokens \ {Each} /\ Tokens \ Directives \subseteq Tokens \ Openers
  BY AllDirectives
<1>1. \A x \in Texts : \A y : IsPlain(x, y) => EachStep(x, x) /\ IfStep(x, x) /\ y = Done(x)
  <2>1. TAKE x \in Texts
  <2>2. TAKE y
  <2>3. HAVE IsPlain(x, y)
  <2>4. x \in Seq(Tokens \ Directives) /\ y = Done(x)
    BY <2>3, Zenon DEF IsPlain
  <2>5. x \in Seq(Tokens \ {Each}) /\ x \in Seq(Tokens \ Openers)
    BY <1>0, <2>4, SeqMonotonic
  <2> QED
    BY <2>4, <2>5, FreeSteps
<1>2. \A x \in Texts : \A y : IsPlain(x, y) => IsIf(x, y)
  BY <1>1, Zenon DEF IsIf
<1>3. IsPlain(a, m) => IsPlainEach(a, m)
  BY <1>1, Zenon DEF IsPlainEach
<1>4. IsPlainEach(a, m) => IsEach(a, m)
  <2>1. HAVE IsPlainEach(a, m)
  <2>2. PICK h \in Texts : EachStep(a, h) /\ IsPlain(h, m)
    BY <2>1, Zenon DEF IsPlainEach
  <2>3. IsIf(h, m)
    BY <1>2, <2>2
  <2> QED
    BY <2>2, <2>3, Zenon DEF IsEach
<1> QED
  BY <1>2, <1>3, <1>4

\* is_truthy is what the block directives' documentation says, unless the url is there
\* but empty.
LEMMA Truths ==
  ASSUME message \in Messages, Quiet
  PROVE  \A f \in Fields : IsTruthy(f) <=> Present(f)
<1>1. Fields = {"body", "url", "fields", "title", "other"}
  BY DEF Fields, IfField
<1>2. IsTruthy("body") <=> Present("body")
  BY DEF IsTruthy, Present
<1>3. IsTruthy("title") <=> Present("title")
  BY DEF IsTruthy, Present
<1>4. IsTruthy("url") <=> Present("url")
  BY DEF IsTruthy, Present, Quiet
<1>5. IsTruthy("fields") <=> Present("fields")
  <2>1. ctx.fields # <<>> <=> Len(ctx.fields) > 0
    BY ContextType
  <2> QED
    BY <2>1 DEF IsTruthy, Present
<1>6. IsTruthy("other") <=> Present("other")
  BY DEF IsTruthy, Present
<1> QED
  BY <1>1, <1>2, <1>3, <1>4, <1>5, <1>6, Zenon

\* A node's text, by its kind.
LEMMA WrapIs ==
  ASSUME NEW f \in Fields, NEW s \in Texts
  PROVE  /\ Wrap("text", f, s) = s
         /\ Wrap("each", f, s) = Around(Each, s, EndEach)
         /\ Wrap("if", f, s) = Around(IfField[f], s, EndIf)
<1>1. \A a, b \in Tokens : (<<a>> \o s) \o <<b>> = <<a>> \o (s \o <<b>>)
  <2> TAKE a, b \in Tokens
  <2>1. <<a>> \in Texts /\ <<b>> \in Texts
    BY OneType
  <2> QED
    BY <2>1, ConcatAssociative
<1>2. \A a, b \in Tokens : <<a>> \o s \o <<b>> = Around(a, s, b)
  BY <1>1, Zenon DEF Around, Cat
<1>3. Wrap("text", f, s) = s
  BY DEF Wrap
<1>4. Wrap("each", f, s) = <<Each>> \o s \o <<EndEach>>
  BY Zenon DEF Wrap
<1>5. Wrap("if", f, s) = <<IfField[f]>> \o s \o <<EndIf>>
  BY Zenon DEF Wrap
<1> QED
  BY <1>2, <1>3, <1>4, <1>5, AllDirectives, Zenon

\* A block for each field, row by row.
LEMMA ExpandedIs ==
  ASSUME message \in Messages, NEW s \in Texts
  PROVE  /\ Expanded(s) = FlattenSeq([i \in DOMAIN ctx.fields |-> Row(s, i)])
         /\ DOMAIN ctx.fields = 1..Len(ctx.fields) /\ Len(ctx.fields) \in Nat
         /\ [i \in DOMAIN ctx.fields |-> Row(s, i)] \in [1..Len(ctx.fields) -> Texts]
<1>1. DOMAIN ctx.fields = 1..Len(ctx.fields) /\ Len(ctx.fields) \in Nat
  BY ContextType
<1>2. \A i \in DOMAIN ctx.fields : Row(s, i) \in Texts
  BY SubstTypes
<1>3. [i \in DOMAIN ctx.fields |-> Row(s, i)] \in [1..Len(ctx.fields) -> Texts]
  BY <1>1, <1>2
<1> QED
  BY <1>1, <1>3, Zenon DEF Expanded, Row

\* What each row means, the block means.
LEMMA RowsMean ==
  ASSUME message \in Messages, NEW T, Multiplicative(Tokens, T), NEW s \in Texts,
         NEW m, m \in [DOMAIN ctx.fields -> Texts],
         \A i \in DOMAIN ctx.fields : <<Row(s, i), m[i]>> \in T
  PROVE  <<Expanded(s), FlattenSeq(m)>> \in T
<1> DEFINE n == Len(ctx.fields)
           f == [i \in DOMAIN ctx.fields |-> Row(s, i)]
<1>1. DOMAIN ctx.fields = 1..n /\ n \in Nat /\ f \in [1..n -> Texts] /\ Expanded(s) = FlattenSeq(f)
  BY ExpandedIs
<1>2. \A i \in 1..n : <<f[i], m[i]>> \in T
  BY <1>1
<1>3. m \in [1..n -> Texts]
  BY <1>1
<1> HIDE DEF n, f
<1>4. <<FlattenSeq(f), FlattenSeq(m)>> \in T
  BY <1>1, <1>2, <1>3, PairFlatten
<1> QED
  BY <1>1, <1>4, Zenon

\* Text around which a condition stands.
LEMMA AroundFree ==
  ASSUME NEW a \in Tokens, NEW b \in Tokens, NEW A, a \notin A, b \notin A, NEW s \in Seq(Tokens \ A)
  PROVE  Around(a, s, b) \in Seq(Tokens \ A)
<1>1. <<a>> \in Seq(Tokens \ A) /\ <<b>> \in Seq(Tokens \ A)
  BY OneType
<1>2. Cat(s, <<b>>) \in Seq(Tokens \ A)
  BY <1>1, CatTypes
<1> QED
  BY <1>1, <1>2, CatTypes DEF Around

FreePart(p) == p \in Parts /\ p.words \in Seq(Tokens \ Directives)

\* A condition around plain words means their value, or nothing.
LEMMA IfPartMeans ==
  ASSUME message \in Messages, Quiet, NEW f \in Fields, NEW s \in Seq(Tokens \ Directives)
  PROVE  IsIf(Around(IfField[f], s, EndIf), IF Present(f) THEN Done(s) ELSE <<>>)
<1> DEFINE b == IF IsTruthy(f) THEN s ELSE <<>>
<1>1. IfStep(Around(IfField[f], s, EndIf), b)
  BY IfBlockStep
<1>2. b \in Texts
  BY FewerType, NothingIsText
<1>3. Done(b) = IF Present(f) THEN Done(s) ELSE <<>>
  BY Truths, SubstEmpty
<1> HIDE DEF b
<1> QED
  BY <1>1, <1>2, <1>3, Zenon DEF IsIf

\* Every part means what the tree says.
LEMMA PartMeans ==
  ASSUME message \in Messages, Quiet, NEW p, FreePart(p)
  PROVE  /\ PartText(p) \in Texts /\ PartMeaning(p, <<>>) \in Texts
         /\ IsEach(PartText(p), PartMeaning(p, <<>>))
         /\ p.kind # "if" => IsPlainEach(PartText(p), PartMeaning(p, <<>>))
<1> DEFINE w == p.words
           f == p.field
           m == Values(w, <<>>)
<1>1. f \in Fields /\ w \in Seq(Tokens \ Directives) /\ w \in Texts /\ p.kind \in Kinds
  BY FewerType DEF FreePart, Parts
<1>2. m \in Texts /\ m = Done(w)
  BY <1>1, WordsMean
<1>3. CASE p.kind = "text"
  <2>1. PartText(p) = w /\ PartMeaning(p, <<>>) = m
    BY <1>1, <1>3, WrapIs DEF PartText, PartMeaning
  <2>2. IsPlain(w, m)
    BY <1>1, <1>2 DEF IsPlain
  <2> HIDE DEF w, m
  <2>3. IsEach(w, m) /\ IsPlainEach(w, m)
    BY <1>1, <1>2, <2>2, PlainIs
  <2> QED
    BY <1>1, <1>2, <2>1, <2>3
<1>4. CASE p.kind = "each"
  <2> DEFINE v == [i \in DOMAIN ctx.fields |-> Values(w, <<ctx.fields[i]>>)]
             a == Around(Each, w, EndEach)
  <2>1. PartText(p) = a /\ PartMeaning(p, <<>>) = FlattenSeq(v)
    BY <1>1, <1>4, WrapIs DEF PartText, PartMeaning
  <2>2. v \in [DOMAIN ctx.fields -> Texts]
    BY <1>1, WordsMean
  <2>3. ASSUME NEW i \in DOMAIN ctx.fields PROVE <<Row(w, i), v[i]>> \in Plains
    <3>1. Row(w, i) \in Seq(Tokens \ Directives) /\ v[i] = Done(Row(w, i)) /\ v[i] \in Texts
      BY <1>1, WordsMean
    <3>2. Row(w, i) \in Texts
      BY <3>1, FewerType
    <3> QED
      BY <3>1, <3>2, Members DEF IsPlain
  <2>4. <<Expanded(w), FlattenSeq(v)>> \in Plains
    <3> HIDE DEF v, w
    <3> QED
      BY <1>1, <2>2, <2>3, MultiplicativeAll, RowsMean
  <2> HIDE DEF v
  <2>5. Expanded(w) \in Texts /\ FlattenSeq(v) \in Texts
    BY <2>4, PairTypes
  <2>6. IsPlain(Expanded(w), FlattenSeq(v))
    BY <2>4, <2>5, Members
  <2>7. EachStep(a, Expanded(w)) /\ a \in Texts
    <3>1. w \in Seq(Tokens \ {EndEach})
      <4>1. Tokens \ Directives \subseteq Tokens \ {EndEach}
        BY AllDirectives
      <4> QED
        BY <1>1, <4>1, SeqMonotonic
    <3>2. EachStep(a, Expanded(w))
      BY <3>1, EachBlockStep
    <3> QED
      BY <3>2 DEF EachStep
  <2>8. IsPlainEach(a, FlattenSeq(v))
    BY <2>5, <2>6, <2>7, Zenon DEF IsPlainEach
  <2> HIDE DEF a
  <2>9. IsEach(a, FlattenSeq(v))
    BY <2>5, <2>7, <2>8, PlainIs
  <2> QED
    BY <2>1, <2>5, <2>7, <2>8, <2>9, Zenon
<1>5. CASE p.kind = "if"
  <2> DEFINE a == Around(IfField[f], w, EndIf)
             v == IF Present(f) THEN m ELSE <<>>
  <2>1. PartText(p) = a /\ PartMeaning(p, <<>>) = v
    BY <1>1, <1>5, WrapIs DEF PartText, PartMeaning
  <2>2. IsIf(a, v)
    BY <1>1, <1>2, IfPartMeans
  <2>3. v \in Texts
    BY <1>2, NothingIsText
  <2>4. a \in Seq(Tokens \ {Each}) /\ a \in Texts
    <3>1. Tokens \ Directives \subseteq Tokens \ {Each}
      BY AllDirectives
    <3>2. w \in Seq(Tokens \ {Each})
      BY <1>1, <3>1, SeqMonotonic
    <3>3. IfField[f] \in Tokens /\ EndIf \in Tokens /\ IfField[f] \notin {Each} /\ EndIf \notin {Each}
      BY <1>1, AllDirectives
    <3>4. a \in Seq(Tokens \ {Each})
      BY <3>2, <3>3, AroundFree
    <3> QED
      BY <3>4, FewerType
  <2>5. EachStep(a, a)
    BY <2>4, FreeSteps
  <2> HIDE DEF a, v
  <2>6. IsEach(a, v)
    BY <2>2, <2>4, <2>5, Zenon DEF IsEach
  <2> QED
    BY <1>5, <2>1, <2>3, <2>4, <2>6
<1> QED
  BY <1>1, <1>3, <1>4, <1>5 DEF Kinds

\* A condition inside a block for a field stays a condition in that field's row.
LEMMA RowAround ==
  ASSUME message \in Messages, NEW i \in DOMAIN ctx.fields, NEW f \in Fields, NEW w \in Seq(Tokens \ Directives), Quiet
  PROVE  Row(Around(IfField[f], w, EndIf), i) = Around(IfField[f], Row(w, i), EndIf)
<1>1. \A e \in Tokens : e # "{{key}}" /\ e # "{{value}}" => Row(<<e>>, i) = <<e>>
  BY RowOne
<1>2. IfField[f] \in Tokens /\ EndIf \in Tokens
  BY AllDirectives
<1>3. IfField[f] # "{{key}}" /\ IfField[f] # "{{value}}" /\ EndIf # "{{key}}" /\ EndIf # "{{value}}"
  <2>1. Fields = {"body", "url", "fields", "title", "other"}
    BY DEF Fields, IfField
  <2>2. /\ IfField["body"] = "{{#if body}}" /\ IfField["url"] = "{{#if url}}"
        /\ IfField["fields"] = "{{#if fields}}" /\ IfField["title"] = "{{#if title}}"
        /\ IfField["other"] = "{{#if other}}"
    BY DEF IfField
  <2> QED
    BY <2>1, <2>2 DEF EndIf
<1>4. Row(<<(IfField[f])>>, i) = <<(IfField[f])>> /\ Row(<<EndIf>>, i) = <<EndIf>>
  BY <1>1, <1>2, <1>3
<1>5. \A s \in Texts : \A t \in Texts : Row(Cat(s, t), i) = Cat(Row(s, i), Row(t, i))
  BY SubstCat
<1> DEFINE u == <<(IfField[f])>>
           v == <<EndIf>>
           z == Cat(w, v)
<1>6. u \in Texts /\ v \in Texts /\ w \in Texts
  BY <1>2, OneType, FewerType
<1>7. z \in Texts
  BY <1>6, CatTypes
<1>8. Row(u, i) = u /\ Row(v, i) = v
  BY <1>4
<1>9. Around(IfField[f], w, EndIf) = Cat(u, z) /\ Around(IfField[f], Row(w, i), EndIf) = Cat(u, Cat(Row(w, i), v))
  BY Zenon DEF Around
<1>10. z = Cat(w, v)
  OBVIOUS
<1> HIDE DEF u, v, z
<1>11. Row(z, i) = Cat(Row(w, i), v)
  BY <1>5, <1>6, <1>8, <1>10
<1>12. Row(Cat(u, z), i) = Cat(u, Row(z, i))
  BY <1>5, <1>6, <1>7, <1>8
<1> QED
  BY <1>9, <1>11, <1>12, Zenon

\* Every part of a block for each field means what the tree says of that field's row.
LEMMA PartRowMeans ==
  ASSUME message \in Messages, Quiet, NEW p, FreePart(p), p.kind # "each", NEW i \in DOMAIN ctx.fields
  PROVE  /\ PartText(p) \in Seq(Tokens \ {EndEach}) /\ PartText(p) \in Texts
         /\ PartMeaning(p, <<ctx.fields[i]>>) \in Texts
         /\ <<PartText(p), PartMeaning(p, <<ctx.fields[i]>>)>> \in IfRows(i)
<1> DEFINE w == p.words
           f == p.field
           m == Values(w, <<ctx.fields[i]>>)
<1>1. f \in Fields /\ w \in Seq(Tokens \ Directives) /\ w \in Texts /\ p.kind \in Kinds
  BY FewerType DEF FreePart, Parts
<1>2. m \in Texts /\ m = Done(Row(w, i)) /\ Row(w, i) \in Seq(Tokens \ Directives) /\ Row(w, i) \in Texts
  BY <1>1, WordsMean, FewerType
<1>3. w \in Seq(Tokens \ {EndEach})
  <2>1. Tokens \ Directives \subseteq Tokens \ {EndEach}
    BY AllDirectives
  <2> QED
    BY <1>1, <2>1, SeqMonotonic
<1>4. CASE p.kind = "text"
  <2>1. PartText(p) = w /\ PartMeaning(p, <<ctx.fields[i]>>) = m
    BY <1>1, <1>4, WrapIs DEF PartText, PartMeaning
  <2>2. IsPlain(Row(w, i), m)
    BY <1>2 DEF IsPlain
  <2> HIDE DEF w, m
  <2>3. IsIf(Row(w, i), m)
    BY <1>2, <2>2, PlainIs
  <2>4. <<w, m>> \in IfRows(i)
    BY <1>1, <1>2, <2>3, Members
  <2> QED
    BY <1>1, <1>2, <1>3, <2>1, <2>4
<1>5. CASE p.kind = "if"
  <2> DEFINE a == Around(IfField[f], w, EndIf)
             v == IF Present(f) THEN m ELSE <<>>
  <2>1. PartText(p) = a /\ PartMeaning(p, <<ctx.fields[i]>>) = v
    BY <1>1, <1>5, WrapIs DEF PartText, PartMeaning
  <2>2. Row(a, i) = Around(IfField[f], Row(w, i), EndIf)
    BY <1>1, RowAround
  <2>3. IsIf(Around(IfField[f], Row(w, i), EndIf), v)
    BY <1>1, <1>2, IfPartMeans
  <2>4. v \in Texts
    BY <1>2, NothingIsText
  <2>5. a \in Seq(Tokens \ {EndEach}) /\ a \in Texts
    <3>1. IfField[f] \in Tokens /\ EndIf \in Tokens /\ IfField[f] \notin {EndEach} /\ EndIf \notin {EndEach}
      BY <1>1, AllDirectives
    <3>2. a \in Seq(Tokens \ {EndEach})
      BY <1>3, <3>1, AroundFree
    <3> QED
      BY <3>2, FewerType
  <2> HIDE DEF a, v
  <2>6. IsIf(Row(a, i), v)
    BY <2>2, <2>3, Zenon
  <2>7. <<a, v>> \in IfRows(i)
    BY <2>4, <2>5, <2>6, Members
  <2> QED
    BY <2>1, <2>4, <2>5, <2>7
<1> QED
  BY <1>1, <1>4, <1>5 DEF Kinds

\* A node of a proper tree.
ProperNode(n) ==
  /\ n \in Nodes
  /\ \A j \in DOMAIN n.parts : (n.kind = "text" \/ n.parts[j].kind # n.kind) /\ FreePart(n.parts[j])

\* Parts one after the other.
LEMMA PartsJoin ==
  ASSUME NEW T, Multiplicative(Tokens, T), NEW parts \in Seq(Parts), NEW of,
         \A j \in DOMAIN parts : /\ PartText(parts[j]) \in Texts /\ PartMeaning(parts[j], of) \in Texts
                                 /\ <<PartText(parts[j]), PartMeaning(parts[j], of)>> \in T
  PROVE  <<FlattenSeq([j \in DOMAIN parts |-> PartText(parts[j])]), PartsMeaning(parts, of)>> \in T
<1> DEFINE n == Len(parts)
           f == [j \in DOMAIN parts |-> PartText(parts[j])]
           g == [j \in DOMAIN parts |-> PartMeaning(parts[j], of)]
<1>1. DOMAIN parts = 1..n /\ n \in Nat
  OBVIOUS
<1>2. f \in [1..n -> Texts] /\ g \in [1..n -> Texts] /\ \A j \in 1..n : <<f[j], g[j]>> \in T
  BY <1>1
<1> HIDE DEF n, f, g
<1>3. <<FlattenSeq(f), FlattenSeq(g)>> \in T
  BY <1>1, <1>2, PairFlatten
<1> QED
  BY <1>3, Zenon DEF PartsMeaning, f, g

\* A node's text and meaning, by its kind.
LEMMA NodeIs ==
  ASSUME NEW n
  PROVE  /\ NodeText(n) = Wrap(n.kind, n.field, FlattenSeq([j \in DOMAIN n.parts |-> PartText(n.parts[j])]))
         /\ n.kind = "text" => NodeMeaning(n) = PartsMeaning(n.parts, <<>>)
         /\ n.kind = "each" =>
              NodeMeaning(n) = FlattenSeq([i \in DOMAIN ctx.fields |-> PartsMeaning(n.parts, <<ctx.fields[i]>>)])
         /\ n.kind = "if" =>
              NodeMeaning(n) = IF Present(n.field) THEN PartsMeaning(n.parts, <<>>) ELSE <<>>
<1>1. NodeText(n) = Wrap(n.kind, n.field, FlattenSeq([j \in DOMAIN n.parts |-> PartText(n.parts[j])]))
  BY Zenon DEF NodeText
<1>2. n.kind = "text" => NodeMeaning(n) = PartsMeaning(n.parts, <<>>)
  BY DEF NodeMeaning
<1>3. n.kind = "each" =>
        NodeMeaning(n) = FlattenSeq([i \in DOMAIN ctx.fields |-> PartsMeaning(n.parts, <<ctx.fields[i]>>)])
  BY DEF NodeMeaning
<1>4. n.kind = "if" => NodeMeaning(n) = IF Present(n.field) THEN PartsMeaning(n.parts, <<>>) ELSE <<>>
  BY DEF NodeMeaning
<1> QED
  BY <1>1, <1>2, <1>3, <1>4, Zenon

\* The text of a proper node means what the tree says.
LEMMA NodeMeans ==
  ASSUME message \in Messages, Quiet, NEW n, ProperNode(n)
  PROVE  <<NodeText(n), NodeMeaning(n)>> \in Eachs
<1> DEFINE T == FlattenSeq([j \in DOMAIN n.parts |-> PartText(n.parts[j])])
<1>1. n.parts \in Seq(Parts) /\ n.field \in Fields /\ n.kind \in Kinds
  BY DEF ProperNode, Nodes
<1>2. CASE n.kind = "text"
  <2> DEFINE m == PartsMeaning(n.parts, <<>>)
  <2>1. \A j \in DOMAIN n.parts : /\ PartText(n.parts[j]) \in Texts /\ PartMeaning(n.parts[j], <<>>) \in Texts
                                  /\ <<PartText(n.parts[j]), PartMeaning(n.parts[j], <<>>)>> \in Eachs
    <3> TAKE j \in DOMAIN n.parts
    <3>1. FreePart(n.parts[j])
      BY DEF ProperNode
    <3>2. /\ PartText(n.parts[j]) \in Texts /\ PartMeaning(n.parts[j], <<>>) \in Texts
          /\ IsEach(PartText(n.parts[j]), PartMeaning(n.parts[j], <<>>))
      BY <3>1, PartMeans
    <3> QED
      BY <3>2, Members
  <2>2. <<T, m>> \in Eachs
    BY <1>1, <2>1, MultiplicativeAll, PartsJoin
  <2> HIDE DEF T, m
  <2>3. T \in Texts
    BY <2>2, PairTypes
  <2>4. NodeText(n) = T
    <3>1. NodeText(n) = Wrap(n.kind, n.field, T)
      BY NodeIs, Zenon DEF T
    <3> QED
      BY <1>1, <1>2, <2>3, <3>1, WrapIs
  <2>5. NodeMeaning(n) = m
    BY <1>2, NodeIs, Zenon DEF m
  <2> QED
    BY <2>2, <2>4, <2>5, Zenon
<1>3. CASE n.kind = "each"
  <2> DEFINE m == [i \in DOMAIN ctx.fields |-> PartsMeaning(n.parts, <<ctx.fields[i]>>)]
             a == Around(Each, T, EndEach)
  <2>1. ASSUME NEW i \in DOMAIN ctx.fields
        PROVE  \A j \in DOMAIN n.parts :
                 /\ PartText(n.parts[j]) \in Seq(Tokens \ {EndEach}) /\ PartText(n.parts[j]) \in Texts
                 /\ PartMeaning(n.parts[j], <<ctx.fields[i]>>) \in Texts
                 /\ <<PartText(n.parts[j]), PartMeaning(n.parts[j], <<ctx.fields[i]>>)>> \in IfRows(i)
    <3>1. ASSUME NEW p, FreePart(p), p.kind # "each"
          PROVE  /\ PartText(p) \in Seq(Tokens \ {EndEach}) /\ PartText(p) \in Texts
                 /\ PartMeaning(p, <<ctx.fields[i]>>) \in Texts
                 /\ <<PartText(p), PartMeaning(p, <<ctx.fields[i]>>)>> \in IfRows(i)
      BY <2>1, <3>1, PartRowMeans
    <3>2. ASSUME NEW j \in DOMAIN n.parts PROVE FreePart(n.parts[j]) /\ n.parts[j].kind # "each"
      BY <1>3 DEF ProperNode
    <3> QED
      BY <3>1, <3>2
  <2>2. ASSUME NEW i \in DOMAIN ctx.fields PROVE <<T, m[i]>> \in IfRows(i) /\ m[i] \in Texts /\ T \in Texts
    <3>1. <<T, PartsMeaning(n.parts, <<ctx.fields[i]>>)>> \in IfRows(i)
      BY <1>1, <2>1, MultiplicativeAll, PartsJoin
    <3>2. m[i] = PartsMeaning(n.parts, <<ctx.fields[i]>>)
      OBVIOUS
    <3> HIDE DEF T, m
    <3>3. <<T, m[i]>> \in IfRows(i)
      BY <3>1, <3>2, Zenon
    <3> QED
      BY <3>3, PairTypes
  <2>3. T \in Seq(Tokens \ {EndEach})
    <3> DEFINE g == [j \in DOMAIN n.parts |-> PartText(n.parts[j])]
    <3>1. ASSUME NEW j \in DOMAIN n.parts PROVE PartText(n.parts[j]) \in Seq(Tokens \ {EndEach})
      <4> DEFINE p == n.parts[j]
      <4>1. FreePart(p) /\ p.kind # "each"
        BY <1>3 DEF ProperNode
      <4>2. p.field \in Fields /\ p.words \in Seq(Tokens \ Directives) /\ p.kind \in Kinds
        BY <4>1 DEF FreePart, Parts
      <4> HIDE DEF p
      <4>3. p.words \in Seq(Tokens \ {EndEach}) /\ p.words \in Texts
        <5>1. Tokens \ Directives \subseteq Tokens \ {EndEach}
          BY AllDirectives
        <5> QED
          BY <4>2, <5>1, SeqMonotonic, FewerType
      <4>4. CASE p.kind = "text"
        BY <4>2, <4>3, <4>4, WrapIs DEF PartText, p
      <4>5. CASE p.kind = "if"
        <5>1. PartText(p) = Around(IfField[p.field], p.words, EndIf)
          BY <4>2, <4>3, <4>5, WrapIs DEF PartText
        <5>2. IfField[p.field] \in Tokens /\ EndIf \in Tokens /\ IfField[p.field] \notin {EndEach} /\ EndIf \notin {EndEach}
          BY <4>2, AllDirectives
        <5>3. Around(IfField[p.field], p.words, EndIf) \in Seq(Tokens \ {EndEach})
          BY <4>3, <5>2, AroundFree
        <5> QED
          BY <5>1, <5>3, Zenon DEF p
      <4> QED
        BY <4>1, <4>2, <4>4, <4>5 DEF Kinds
    <3>2. DOMAIN n.parts = 1..Len(n.parts) /\ Len(n.parts) \in Nat
      BY <1>1
    <3>3. g \in [1..Len(n.parts) -> Seq(Tokens \ {EndEach})]
      BY <3>1, <3>2
    <3> HIDE DEF g
    <3>4. g \in Seq(Seq(Tokens \ {EndEach}))
      BY <3>2, <3>3, IsSequence
    <3>5. FlattenSeq(g) \in Seq(Tokens \ {EndEach})
      BY <3>4, FlattenType
    <3> QED
      BY <3>5 DEF g
  <2>4. T \in Texts
    BY <2>3, FewerType
  <2>5. NodeText(n) = a
    <3>1. NodeText(n) = Wrap(n.kind, n.field, T)
      BY NodeIs, Zenon
    <3> HIDE DEF T
    <3> QED
      BY <1>1, <1>3, <2>4, <3>1, WrapIs
  <2>6. NodeMeaning(n) = FlattenSeq(m)
    BY <1>3, NodeIs, Zenon
  <2>7. m \in [DOMAIN ctx.fields -> Texts]
    BY <2>2
  <2> HIDE DEF T, m
  <2>8. ASSUME NEW i \in DOMAIN ctx.fields PROVE <<Row(T, i), m[i]>> \in Ifs
    <3>1. IsIf(Row(T, i), m[i]) /\ Row(T, i) \in Texts
      BY <2>2, SubstTypes, Members
    <3> QED
      BY <2>2, <3>1, Members
  <2>9. <<Expanded(T), FlattenSeq(m)>> \in Ifs
    BY <2>4, <2>7, <2>8, MultiplicativeAll, RowsMean
  <2>10. Expanded(T) \in Texts /\ FlattenSeq(m) \in Texts
    BY <2>9, PairTypes
  <2>11. IsIf(Expanded(T), FlattenSeq(m))
    BY <2>9, <2>10, Members
  <2>12. EachStep(a, Expanded(T)) /\ a \in Texts
    <3>1. EachStep(a, Expanded(T))
      BY <2>3, EachBlockStep
    <3> QED
      BY <3>1 DEF EachStep
  <2> HIDE DEF a
  <2>13. IsEach(a, FlattenSeq(m))
    BY <2>10, <2>11, <2>12, Zenon DEF IsEach
  <2>14. <<a, FlattenSeq(m)>> \in Eachs
    BY <2>10, <2>12, <2>13, Members
  <2> QED
    BY <2>5, <2>6, <2>14, Zenon
<1>4. CASE n.kind = "if"
  <2> DEFINE m == PartsMeaning(n.parts, <<>>)
             f == n.field
             a == Around(IfField[f], T, EndIf)
             v == IF Present(f) THEN m ELSE <<>>
  <2>1. \A j \in DOMAIN n.parts : /\ PartText(n.parts[j]) \in Texts /\ PartMeaning(n.parts[j], <<>>) \in Texts
                                  /\ <<PartText(n.parts[j]), PartMeaning(n.parts[j], <<>>)>> \in PlainEachs
    <3> TAKE j \in DOMAIN n.parts
    <3>1. FreePart(n.parts[j]) /\ n.parts[j].kind # "if"
      BY <1>4 DEF ProperNode
    <3>2. /\ PartText(n.parts[j]) \in Texts /\ PartMeaning(n.parts[j], <<>>) \in Texts
          /\ IsPlainEach(PartText(n.parts[j]), PartMeaning(n.parts[j], <<>>))
      BY <3>1, PartMeans
    <3> QED
      BY <3>2, Members
  <2>2. <<T, m>> \in PlainEachs
    BY <1>1, <2>1, MultiplicativeAll, PartsJoin
  <2>3. n.kind = "if" => NodeText(n) = Wrap("if", f, T) /\ NodeMeaning(n) = v
    BY NodeIs, Zenon
  <2> HIDE DEF T, m
  <2>4. T \in Texts /\ m \in Texts
    BY <2>2, PairTypes
  <2>5. NodeText(n) = a /\ NodeMeaning(n) = v
    BY <1>1, <1>4, <2>3, <2>4, WrapIs
  <2>6. PICK h \in Texts : EachStep(T, h) /\ IsPlain(h, m)
    <3>1. IsPlainEach(T, m)
      BY <2>2, <2>4, Members
    <3> QED
      BY <3>1, Zenon DEF IsPlainEach
  <2>7. h \in Seq(Tokens \ Directives) /\ m = Done(h)
    BY <2>6, Zenon DEF IsPlain
  <2> DEFINE b == Around(IfField[f], h, EndIf)
  <2>8. f \in Fields /\ IfField[f] \in Tokens /\ EndIf \in Tokens /\ IfField[f] # Each /\ EndIf # Each
    BY <1>1, AllDirectives
  <2>9. a \in Texts /\ b \in Texts
    BY <2>4, <2>8, AroundThen
  <2>10. EachStep(a, b)
    <3>1. <<(IfField[f])>> \in Seq(Tokens \ {Each}) /\ <<EndIf>> \in Seq(Tokens \ {Each})
      BY <2>8, OneType
    <3>2. EachStep(<<(IfField[f])>>, <<(IfField[f])>>) /\ EachStep(<<EndIf>>, <<EndIf>>)
      BY <3>1, FreeSteps
    <3>3. EachStep(Cat(T, <<EndIf>>), Cat(h, <<EndIf>>))
      BY <2>6, <3>2, StepCat
    <3>4. EachStep(Cat(<<(IfField[f])>>, Cat(T, <<EndIf>>)), Cat(<<(IfField[f])>>, Cat(h, <<EndIf>>)))
      BY <3>2, <3>3, StepCat
    <3> QED
      BY <3>4, Zenon DEF Around
  <2>11. IsIf(b, v)
    BY <2>7, <2>8, IfPartMeans
  <2>12. v \in Texts
    BY <2>4, NothingIsText
  <2> HIDE DEF a, b, v
  <2>13. IsEach(a, v)
    BY <2>9, <2>10, <2>11, Zenon DEF IsEach
  <2>14. <<a, v>> \in Eachs
    BY <2>9, <2>12, <2>13, Members
  <2> QED
    BY <2>5, <2>14, Zenon
<1> QED
  BY <1>1, <1>2, <1>3, <1>4 DEF Kinds

\* What the passes may make of a text that means `meaning`.
Conveys(text, meaning) ==
  \E h \in Texts : \E b \in Texts :
    <<text, h>> \in EachReadings /\ <<h, b>> \in IfReadings /\ Done(b) = meaning

\* The nodes of a proper tree are proper.
LEMMA ProperNodes ==
  ASSUME NEW t \in Trees, Proper(t), NEW i \in DOMAIN t.tree
  PROVE  ProperNode(t.tree[i])
<1> DEFINE n == t.tree[i]
<1>1. n \in Nodes /\ n.parts \in Seq(Parts)
  <2>1. t.tree \in Seq(Nodes)
    BY DEF Trees
  <2>2. n \in Nodes
    BY <2>1
  <2> HIDE DEF n
  <2>3. n.parts \in Seq(Parts)
    BY <2>2 DEF Nodes
  <2> QED
    BY <2>2, <2>3
<1>2. ASSUME NEW j \in DOMAIN n.parts PROVE (n.kind = "text" \/ n.parts[j].kind # n.kind) /\ FreePart(n.parts[j])
  <2> DEFINE p == n.parts[j]
  <2>1. p \in Parts /\ p.words \in Texts
    <3>1. p \in Parts
      <4> HIDE DEF n
      <4> QED
        BY <1>1, <1>2
    <3> HIDE DEF p
    <3>2. p.words \in Texts
      BY <3>1 DEF Parts
    <3> QED
      BY <3>1, <3>2
  <2>2. (n.kind = "text" \/ n.parts[j].kind # n.kind) /\ Free(n.parts[j].words, Directives)
    BY DEF Proper
  <2>3. n.parts[j].words \in Seq(Tokens \ Directives)
    BY <2>1, <2>2, FreeIs
  <2> QED
    BY <2>1, <2>2, <2>3 DEF FreePart
<1> QED
  BY <1>1, <1>2 DEF ProperNode

\* So do the nodes of a proper tree, in a row.
LEMMA NodesMean ==
  ASSUME message \in Messages, Quiet, NEW t \in Trees, Proper(t)
  PROVE  <<FlattenSeq([i \in DOMAIN t.tree |-> NodeText(t.tree[i])]),
           FlattenSeq([i \in DOMAIN t.tree |-> NodeMeaning(t.tree[i])])>> \in Eachs
<1> DEFINE n == Len(t.tree)
           f == [i \in DOMAIN t.tree |-> NodeText(t.tree[i])]
           g == [i \in DOMAIN t.tree |-> NodeMeaning(t.tree[i])]
<1>1. DOMAIN t.tree = 1..n /\ n \in Nat
  BY DEF Trees
<1>2. ASSUME NEW i \in 1..n PROVE <<f[i], g[i]>> \in Eachs /\ f[i] \in Texts /\ g[i] \in Texts
  <2> DEFINE a == NodeText(t.tree[i])
             b == NodeMeaning(t.tree[i])
  <2>1. <<a, b>> \in Eachs
    BY <1>1, ProperNodes, NodeMeans
  <2>2. f[i] = a /\ g[i] = b
    BY <1>1
  <2> HIDE DEF a, b
  <2>3. a \in Texts /\ b \in Texts
    BY <2>1, PairTypes
  <2> QED
    BY <2>1, <2>2, <2>3, Zenon
<1>3. f \in [1..n -> Texts] /\ g \in [1..n -> Texts]
  BY <1>1, <1>2
<1> HIDE DEF n, f, g
<1>4. <<FlattenSeq(f), FlattenSeq(g)>> \in Eachs
  BY <1>1, <1>2, <1>3, MultiplicativeAll, PairFlatten
<1> QED
  BY <1>4, Zenon DEF f, g

\* The text of a proper tree conveys its meaning, with the directives left over behind
\* its blocks as they are.
LEMMA TreeMeans ==
  ASSUME message \in Messages, Quiet, NEW t \in Trees, Proper(t)
  PROVE  TextOf(t) \in Texts /\ Conveys(TextOf(t), Meaning(t))
<1> DEFINE A == FlattenSeq([i \in DOMAIN t.tree |-> NodeText(t.tree[i])])
           M == FlattenSeq([i \in DOMAIN t.tree |-> NodeMeaning(t.tree[i])])
           z == t.tail
<1>1. <<A, M>> \in Eachs
  BY NodesMean
<1>2. TextOf(t) = Cat(A, z) /\ Meaning(t) = Cat(M, Values(z, <<>>))
  BY Zenon DEF TextOf, Meaning, Cat
<1>3. z \in Texts /\ Stray(z)
  BY DEF Trees, Proper
<1> HIDE DEF A, M, z
<1>4. A \in Texts /\ M \in Texts
  BY <1>1, PairTypes
<1>5. IsEach(A, M)
  BY <1>1, <1>4, Members
<1>6. PICK h \in Texts : EachStep(A, h) /\ IsIf(h, M)
  BY <1>5, Zenon DEF IsEach
<1>7. PICK b \in Texts : IfStep(h, b) /\ M = Done(b)
  BY <1>6, Zenon DEF IsIf
<1>8. z \in Stays({Each}, EndEach) /\ z \in Stays(Openers, EndIf)
  <2>1. DOMAIN z = 1..Len(z)
    BY <1>3
  <2> QED
    BY <1>3, <2>1 DEF Stray, Stays
<1>9. <<z, z>> \in EachReadings
  BY <1>8, EachPass, ReadsItself DEF EachReadings
<1>10. <<z, z>> \in IfReadings
  BY <1>8, IfPass, ReadsItself DEF IfReadings
<1>11. <<Cat(A, z), Cat(h, z)>> \in EachReadings
  BY <1>3, <1>6, <1>9, Zenon DEF EachStep
<1>12. <<Cat(h, z), Cat(b, z)>> \in IfReadings
  BY <1>3, <1>7, <1>10, Zenon DEF IfStep
<1>13. Done(Cat(b, z)) = Cat(M, Values(z, <<>>))
  <2>1. Values(z, <<>>) = Done(z)
    BY <1>3, WordsMean
  <2>2. Done(Cat(b, z)) = Cat(Done(b), Done(z))
    BY <1>3, SubstCat
  <2> QED
    BY <1>7, <2>1, <2>2, Zenon
<1>14. Cat(A, z) \in Texts /\ Cat(h, z) \in Texts /\ Cat(b, z) \in Texts
  BY <1>3, <1>4, CatTypes
<1>15. Conveys(Cat(A, z), Cat(M, Values(z, <<>>)))
  BY <1>11, <1>12, <1>13, <1>14, Zenon DEF Conveys
<1> QED
  BY <1>2, <1>14, <1>15, Zenon

(* ---- the trees of the code's own templates ---- *)

\* Flattening four texts.
LEMMA FlattenFour ==
  ASSUME NEW S, NEW a \in Seq(S), NEW b \in Seq(S), NEW c \in Seq(S), NEW d \in Seq(S)
  PROVE  FlattenSeq(<<a, b, c, d>>) = Cat(Cat(Cat(a, b), c), d)
<1>1. <<a>> \in Seq(Seq(S)) /\ <<a, b>> \in Seq(Seq(S)) /\ <<a, b, c>> \in Seq(Seq(S))
  OBVIOUS
<1>2. <<a, b>> = Append(<<a>>, b) /\ <<a, b, c>> = Append(<<a, b>>, c) /\ <<a, b, c, d>> = Append(<<a, b, c>>, d)
  OBVIOUS
<1>3. FlattenSeq(<<a>>) = a
  BY FlattenOne
<1>4. \A s \in Seq(Seq(S)) : \A e \in Seq(S) : FlattenSeq(Append(s, e)) = Cat(FlattenSeq(s), e)
  BY FlattenAppendSeq, Zenon DEF Cat
<1>5. FlattenSeq(Append(<<a>>, b)) = Cat(FlattenSeq(<<a>>), b)
  BY <1>1, <1>4, Zenon
<1>6. FlattenSeq(Append(<<a, b>>, c)) = Cat(FlattenSeq(<<a, b>>), c)
  BY <1>1, <1>4, Zenon
<1>7. FlattenSeq(Append(<<a, b, c>>, d)) = Cat(FlattenSeq(<<a, b, c>>), d)
  BY <1>1, <1>4, Zenon
<1> QED
  BY <1>2, <1>3, <1>5, <1>6, <1>7, Zenon

\* A node of one part.
OneNode(kind, field, words) == [kind |-> kind, field |-> field, parts |-> Text(words)]

\* A node of one part: its text is its words, wrapped.
LEMMA OneNodeIs ==
  ASSUME NEW kind \in Kinds, NEW field \in Fields, NEW words \in Texts
  PROVE  /\ OneNode(kind, field, words) \in Nodes
         /\ NodeText(OneNode(kind, field, words)) = Wrap(kind, field, words)
         /\ words \in Seq(Tokens \ Directives) =>
              \A j \in DOMAIN OneNode(kind, field, words).parts :
                 /\ OneNode(kind, field, words).parts[j].kind = "text"
                 /\ Free(OneNode(kind, field, words).parts[j].words, Directives)
<1> DEFINE p == [kind |-> "text", field |-> "other", words |-> words]
           n == OneNode(kind, field, words)
<1>0. "other" \in Fields /\ "text" \in Kinds
  BY DEF Fields, IfField, Kinds
<1>1. p \in Parts /\ n.parts = <<p>> /\ n.kind = kind /\ n.field = field
  BY <1>0 DEF Parts, Text, OneNode
<1>2. n \in Nodes
  BY <1>1, OneType DEF Nodes, OneNode, Text
<1>3. PartText(p) = words
  <2>1. PartText(p) = Wrap("text", "other", words)
    BY DEF PartText
  <2> QED
    BY <1>0, <2>1, WrapIs
<1>4. [j \in DOMAIN n.parts |-> PartText(n.parts[j])] = <<PartText(p)>>
  <2> HIDE DEF p, n
  <2>1. DOMAIN <<p>> = {1} /\ DOMAIN <<PartText(p)>> = {1} /\ <<p>>[1] = p /\ <<PartText(p)>>[1] = PartText(p)
    OBVIOUS
  <2> QED
    BY <1>1, <2>1
<1>5. NodeText(n) = Wrap(kind, field, words)
  <2>1. NodeText(n) = Wrap(n.kind, n.field, FlattenSeq([j \in DOMAIN n.parts |-> PartText(n.parts[j])]))
    BY NodeIs, Zenon
  <2>2. FlattenSeq(<<PartText(p)>>) = words
    BY <1>3, FlattenOne
  <2> HIDE DEF p, n
  <2> QED
    BY <1>1, <1>4, <2>1, <2>2, Zenon
<1>6. ASSUME words \in Seq(Tokens \ Directives), NEW j \in DOMAIN n.parts
      PROVE  n.parts[j].kind = "text" /\ Free(n.parts[j].words, Directives)
  <2>1. n.parts[j] = p
    <3> HIDE DEF p, n
    <3> QED
      BY <1>1, <1>6
  <2>2. Free(words, Directives)
    BY <1>6 DEF Free, Range
  <2> QED
    BY <2>1, <2>2
<1> QED
  BY <1>2, <1>5, <1>6

OwnWords == {"{{title}}", "{{body}}", "{{status_emoji}}", "{{timestamp}}", "{{url}}", "{{key}}", "{{value}}",
             "nl", "**", "-", ":", "link", "footer", "label"}

\* The words of the code's own templates are no directives.
LEMMA OwnWordsPlain == OwnWords \subseteq Tokens \ Directives
<1>1. Fields = {"body", "url", "fields", "title", "other"}
  BY DEF Fields, IfField
<1>2. IfOpeners = {"{{#if body}}", "{{#if url}}", "{{#if fields}}", "{{#if title}}", "{{#if other}}"}
  <2>1. /\ IfField["body"] = "{{#if body}}" /\ IfField["url"] = "{{#if url}}"
        /\ IfField["fields"] = "{{#if fields}}" /\ IfField["title"] = "{{#if title}}"
        /\ IfField["other"] = "{{#if other}}"
    BY DEF IfField
  <2> QED
    BY <1>1, <2>1 DEF IfOpeners
<1>3. ASSUME NEW w \in OwnWords PROVE w \in Tokens
  BY OwnTokens DEF OwnWords
<1>4. ASSUME NEW w \in OwnWords PROVE w \notin Directives
  BY <1>2 DEF OwnWords, Directives, Openers, Each, EndEach, EndIf, IfPrefix
<1> QED
  BY <1>3, <1>4

\* The texts of the code's own templates, and of the example card, are plain.
LEMMA OwnTexts ==
  /\ <<"{{status_emoji}}", "{{title}}", "nl", "{{body}}">> \in Seq(Tokens \ Directives)
  /\ <<"**", "{{status_emoji}}", "{{title}}", "**", "{{body}}">> \in Seq(Tokens \ Directives)
  /\ <<"-", "{{key}}", ":", "{{value}}">> \in Seq(Tokens \ Directives)
  /\ <<"link", "{{url}}">> \in Seq(Tokens \ Directives)
  /\ <<"footer", "{{timestamp}}">> \in Seq(Tokens \ Directives) /\ <<"label">> \in Seq(Tokens \ Directives)
  /\ <<"{{status_emoji}}", "{{title}}">> \in Seq(Tokens \ Directives) /\ <<"{{body}}">> \in Seq(Tokens \ Directives)
  /\ <<"{{key}}", "{{value}}">> \in Seq(Tokens \ Directives)
<1> DEFINE S == Tokens \ Directives
<1>1. \A a \in S : <<a>> \in Seq(S)
  OBVIOUS
<1>2. \A a, b \in S : <<a, b>> \in Seq(S)
  OBVIOUS
<1>3. \A a, b, c, d, e \in S : <<a, b, c, d, e>> \in Seq(S)
  OBVIOUS
<1>4. \A a, b, c, d \in S : <<a, b, c, d>> \in Seq(S)
  OBVIOUS
<1>5. /\ "{{title}}" \in S /\ "{{body}}" \in S /\ "{{url}}" \in S /\ "{{key}}" \in S /\ "{{value}}" \in S
      /\ "{{status_emoji}}" \in S /\ "{{timestamp}}" \in S
      /\ "nl" \in S /\ "**" \in S /\ "-" \in S /\ ":" \in S /\ "link" \in S /\ "footer" \in S /\ "label" \in S
  BY OwnWordsPlain DEF OwnWords
<1> HIDE DEF S
<1>6. <<"**", "{{status_emoji}}", "{{title}}", "**", "{{body}}">> \in Seq(S)
  BY <1>3, <1>5
<1>7. /\ <<"{{status_emoji}}", "{{title}}", "nl", "{{body}}">> \in Seq(S)
      /\ <<"-", "{{key}}", ":", "{{value}}">> \in Seq(S)
  BY <1>4, <1>5
<1>8. /\ <<"link", "{{url}}">> \in Seq(S) /\ <<"{{key}}", "{{value}}">> \in Seq(S)
      /\ <<"footer", "{{timestamp}}">> \in Seq(S) /\ <<"{{status_emoji}}", "{{title}}">> \in Seq(S)
  BY <1>2, <1>5
<1>9. <<"label">> \in Seq(S) /\ <<"{{body}}">> \in Seq(S)
  BY <1>1, <1>5
<1> QED
  BY <1>6, <1>7, <1>8, <1>9 DEF S

\* The nodes of the code's own templates have one part each.
LEMMA OwnNodes ==
  ASSUME NEW w
  PROVE  /\ Words(w) = OneNode("text", "other", w)
         /\ EachOf(w) = OneNode("each", "other", w)
         /\ \A f : IfOf(f, w) = OneNode("if", f, w)
  BY DEF Words, EachOf, IfOf, OneNode

\* A node of one plain part is proper.
LEMMA OneIsProper ==
  ASSUME NEW kind \in Kinds, NEW field \in Fields, NEW words \in Seq(Tokens \ Directives)
  PROVE  /\ OneNode(kind, field, words) \in Nodes
         /\ NodeText(OneNode(kind, field, words)) = Wrap(kind, field, words)
         /\ \A j \in DOMAIN OneNode(kind, field, words).parts :
              /\ OneNode(kind, field, words).kind = "text"
                 \/ OneNode(kind, field, words).parts[j].kind # OneNode(kind, field, words).kind
              /\ Free(OneNode(kind, field, words).parts[j].words, Directives)
<1> DEFINE n == OneNode(kind, field, words)
<1>1. words \in Texts
  BY FewerType
<1>2. n \in Nodes /\ NodeText(n) = Wrap(kind, field, words)
      /\ \A j \in DOMAIN n.parts : n.parts[j].kind = "text" /\ Free(n.parts[j].words, Directives)
  BY <1>1, OneNodeIs
<1> HIDE DEF n
<1> QED
  BY <1>2 DEF n

\* A tree all of whose nodes are proper is proper, when nothing is left over.
LEMMA ElementIs ==
  ASSUME NEW slot \in Slots, NEW cond \in Conditions, NEW nodes \in Seq(Nodes),
         \A i \in DOMAIN nodes : \A j \in DOMAIN nodes[i].parts :
           /\ nodes[i].kind = "text" \/ nodes[i].parts[j].kind # nodes[i].kind
           /\ Free(nodes[i].parts[j].words, Directives)
  PROVE  /\ Element(slot, cond, nodes) \in Trees
         /\ Proper(Element(slot, cond, nodes))
         /\ Element(slot, cond, nodes).slot = slot /\ Element(slot, cond, nodes).cond = cond
<1> DEFINE t == Element(slot, cond, nodes)
<1>1. t.slot = slot /\ t.cond = cond /\ t.tree = nodes /\ t.tail = <<>>
  BY DEF Element
<1>2. t \in Trees
  BY NothingIsText DEF Element, Trees
<1>3. Stray(<<>>)
  BY DEF Stray
<1>4. Proper(t)
  <2> HIDE DEF t
  <2> QED
    BY <1>1, <1>3, Zenon DEF Proper
<1> QED
  BY <1>1, <1>2, <1>4

\* The tree of the code's own text template: proper, and its text is the template.
LEMMA TextTreeIs ==
  /\ TextTree \in Trees /\ Proper(TextTree) /\ TextOf(TextTree) = TextFallback
  /\ TextTree.slot = "text" /\ TextTree.cond = "none"
<1> DEFINE w == <<"{{status_emoji}}", "{{title}}", "nl", "{{body}}">>
           n == OneNode("text", "other", w)
<1>0. "other" \in Fields /\ "text" \in Kinds /\ "text" \in Slots /\ "none" \in Conditions
  BY DEF Fields, IfField, Kinds, Slots, Conditions
<1>1. w \in Seq(Tokens \ Directives) /\ w \in Texts
  BY OwnTexts, FewerType
<1>2. TextTree = Element("text", "none", <<n>>)
  BY OwnNodes DEF TextTree
<1> HIDE DEF w, n
<1>3. /\ n \in Nodes /\ NodeText(n) = Wrap("text", "other", w)
      /\ \A j \in DOMAIN n.parts : (n.kind = "text" \/ n.parts[j].kind # n.kind) /\ Free(n.parts[j].words, Directives)
  BY <1>0, <1>1, OneIsProper DEF n
<1>4. <<n>> \in Seq(Nodes) /\ DOMAIN <<n>> = {1} /\ <<n>>[1] = n
  BY <1>3
<1>5. TextTree \in Trees /\ Proper(TextTree) /\ TextTree.slot = "text" /\ TextTree.cond = "none"
  <2> DEFINE s == <<n>>
  <2>1. s \in Seq(Nodes) /\ DOMAIN s = {1} /\ s[1] = n
    BY <1>4
  <2>2. TextTree = Element("text", "none", s)
    BY <1>2
  <2> HIDE DEF s
  <2>3. \A i \in DOMAIN s : \A j \in DOMAIN s[i].parts :
           (s[i].kind = "text" \/ s[i].parts[j].kind # s[i].kind) /\ Free(s[i].parts[j].words, Directives)
    BY <1>3, <2>1
  <2> QED
    BY <1>0, <2>1, <2>2, <2>3, ElementIs
<1>6. TextOf(TextTree) = w
  <2>1. TextTree.tree = <<n>> /\ TextTree.tail = <<>>
    BY <1>2 DEF Element
  <2>2. [i \in DOMAIN TextTree.tree |-> NodeText(TextTree.tree[i])] = <<NodeText(n)>>
    <3>1. DOMAIN <<NodeText(n)>> = {1} /\ <<NodeText(n)>>[1] = NodeText(n)
      OBVIOUS
    <3> QED
      BY <1>4, <2>1, <3>1
  <2>3. NodeText(n) = w
    BY <1>0, <1>1, <1>3, WrapIs
  <2>4. FlattenSeq(<<(NodeText(n))>>) = NodeText(n)
    BY FlattenOne
  <2>5. w \o <<>> = w
    BY <1>1
  <2> QED
    BY <2>1, <2>2, <2>3, <2>4, <2>5, Zenon DEF TextOf
<1> QED
  BY <1>5, <1>6 DEF TextFallback, w

\* The same of the code's own markdown template.
LEMMA MarkdownTreeIs ==
  /\ MarkdownTree \in Trees /\ Proper(MarkdownTree) /\ TextOf(MarkdownTree) = MarkdownFallback
  /\ MarkdownTree.slot = "markdown" /\ MarkdownTree.cond = "none"
<1> DEFINE w1 == <<"**", "{{status_emoji}}", "{{title}}", "**", "{{body}}">>
           w2 == <<"-", "{{key}}", ":", "{{value}}">>
           w3 == <<"link", "{{url}}">>
           w4 == <<"footer", "{{timestamp}}">>
           n1 == OneNode("text", "other", w1)
           n2 == OneNode("each", "other", w2)
           n3 == OneNode("if", "url", w3)
           n4 == OneNode("text", "other", w4)
           s == <<n1, n2, n3, n4>>
           a2 == Around(Each, w2, EndEach)
           a3 == Around(IfField["url"], w3, EndIf)
<1>0. /\ "other" \in Fields /\ "url" \in Fields /\ "text" \in Kinds /\ "each" \in Kinds /\ "if" \in Kinds
      /\ "markdown" \in Slots /\ "none" \in Conditions
  BY DEF Fields, IfField, Kinds, Slots, Conditions
<1>1. /\ w1 \in Seq(Tokens \ Directives) /\ w2 \in Seq(Tokens \ Directives)
      /\ w3 \in Seq(Tokens \ Directives) /\ w4 \in Seq(Tokens \ Directives)
  BY OwnTexts
<1>2. MarkdownTree = Element("markdown", "none", s)
  BY OwnNodes DEF MarkdownTree
<1>4. Cat(Cat(Cat(w1, a2), a3), w4) = MarkdownFallback
  <2>1. Wrap("each", "other", w2) = a2 /\ Wrap("if", "url", w3) = a3
    BY <1>0, <1>1, WrapIs, FewerType
  <2>2. MarkdownFallback = w1 \o Wrap("each", "other", w2) \o Wrap("if", "url", w3) \o w4
    BY Zenon DEF MarkdownFallback, Wrap
  <2> QED
    BY <2>1, <2>2, Zenon DEF Cat
<1> HIDE DEF w1, w2, w3, w4
<1>5. /\ w1 \in Texts /\ w2 \in Texts /\ w3 \in Texts /\ w4 \in Texts
  BY <1>1, FewerType
<1>6. \A n \in {n1, n2, n3, n4} :
        /\ n \in Nodes
        /\ \A j \in DOMAIN n.parts : (n.kind = "text" \/ n.parts[j].kind # n.kind) /\ Free(n.parts[j].words, Directives)
  BY <1>0, <1>1, OneIsProper
<1>7. /\ NodeText(n1) = w1 /\ NodeText(n2) = a2 /\ NodeText(n3) = a3 /\ NodeText(n4) = w4
  BY <1>0, <1>1, <1>5, OneIsProper, WrapIs
<1> HIDE DEF n1, n2, n3, n4
<1>8. s \in Seq(Nodes) /\ DOMAIN s = 1..4 /\ s[1] = n1 /\ s[2] = n2 /\ s[3] = n3 /\ s[4] = n4
  BY <1>6
<1> HIDE DEF s, a2, a3
<1>9. \A i \in DOMAIN s : \A j \in DOMAIN s[i].parts :
         (s[i].kind = "text" \/ s[i].parts[j].kind # s[i].kind) /\ Free(s[i].parts[j].words, Directives)
  <2>1. \A i \in 1..4 : i = 1 \/ i = 2 \/ i = 3 \/ i = 4
    OBVIOUS
  <2>2. \A i \in DOMAIN s : s[i] \in {n1, n2, n3, n4}
    BY <1>8, <2>1
  <2> QED
    BY <1>6, <2>2
<1>10. MarkdownTree \in Trees /\ Proper(MarkdownTree) /\ MarkdownTree.slot = "markdown" /\ MarkdownTree.cond = "none"
  BY <1>0, <1>2, <1>8, <1>9, ElementIs
<1>11. a2 \in Texts /\ a3 \in Texts
  BY <1>0, <1>5, AllDirectives, AroundThen DEF a2, a3
<1>12. TextOf(MarkdownTree) = Cat(Cat(Cat(w1, a2), a3), w4)
  <2>1. MarkdownTree.tree = s /\ MarkdownTree.tail = <<>>
    BY <1>2 DEF Element
  <2> DEFINE u == <<w1, a2, a3, w4>>
  <2>2. [i \in DOMAIN s |-> NodeText(s[i])] = u
    <3>1. DOMAIN u = 1..4 /\ u[1] = w1 /\ u[2] = a2 /\ u[3] = a3 /\ u[4] = w4
      OBVIOUS
    <3>2. \A i \in 1..4 : i = 1 \/ i = 2 \/ i = 3 \/ i = 4
      OBVIOUS
    <3>3. \A i \in 1..4 : NodeText(s[i]) = u[i]
      BY <1>7, <1>8, <3>1, <3>2
    <3> QED
      BY <1>8, <3>1, <3>3
  <2>3. FlattenSeq(u) = Cat(Cat(Cat(w1, a2), a3), w4)
    BY <1>5, <1>11, FlattenFour
  <2>4. Cat(Cat(Cat(w1, a2), a3), w4) \in Texts
    BY <1>5, <1>11, CatTypes
  <2> HIDE DEF u
  <2>5. TextOf(MarkdownTree) = Cat(FlattenSeq([i \in DOMAIN s |-> NodeText(s[i])]), <<>>)
    BY <2>1, Zenon DEF TextOf, Cat
  <2> QED
    BY <2>2, <2>3, <2>4, <2>5, CatNone
<1> QED
  BY <1>4, <1>10, <1>12

(* ---- the pieces of a message are its trees ---- *)

PieceOf(t) == [slot |-> t.slot, cond |-> t.cond, text |-> TextOf(t)]
PiecesOf(trees) == [i \in DOMAIN trees |-> PieceOf(trees[i])]

\* The pieces of a message are the texts of its trees.
LEMMA ItemsAre ==
  ASSUME message \in Messages
  PROVE  Items \in Seq(Trees) /\ Pieces(message) = PiecesOf(Items)
<1> DEFINE T == message.trees
           P == message.pieces
           t1 == TextTree
           t2 == MarkdownTree
           p1 == Piece("text", TextFallback)
           p2 == Piece("markdown", MarkdownFallback)
<1>1. T \in Seq(Trees) /\ P = PiecesOf(T)
  BY TreesConstant, Zenon DEF PiecesOf, PieceOf
<1>2. t1 \in Trees /\ t2 \in Trees /\ p1 = PieceOf(t1) /\ p2 = PieceOf(t2)
  BY TextTreeIs, MarkdownTreeIs DEF Piece, PieceOf
<1>3. /\ message.format = "card" => Items = T \o <<t1, t2>> /\ Pieces(message) = P \o <<p1, p2>>
      /\ message.format = "markdown" => Items = <<t1>> \o T /\ Pieces(message) = <<p1>> \o P
      /\ message.format \notin {"card", "markdown"} => Items = T /\ Pieces(message) = P
  BY DEF Items, Pieces
<1> HIDE DEF T, P, t1, t2, p1, p2
<1>4. PiecesOf(T) \o <<p1, p2>> = PiecesOf(T \o <<t1, t2>>)
  BY <1>1, <1>2 DEF PiecesOf
<1>5. <<p1>> \o PiecesOf(T) = PiecesOf(<<t1>> \o T)
  BY <1>1, <1>2 DEF PiecesOf
<1>6. <<t1>> \in Seq(Trees) /\ <<t1, t2>> \in Seq(Trees) /\ \A x, y \in Seq(Trees) : x \o y \in Seq(Trees)
  BY <1>2
<1> QED
  BY <1>1, <1>3, <1>4, <1>5, <1>6

\* The trees of a message of proper templates are proper, the code's own included.
LEMMA ItemsProper ==
  ASSUME message \in Messages, \A i \in DOMAIN message.trees : Proper(message.trees[i]), NEW i \in DOMAIN Items
  PROVE  Items[i] \in Trees /\ Proper(Items[i])
<1> DEFINE T == message.trees
           t1 == TextTree
           t2 == MarkdownTree
<1>1. T \in Seq(Trees) /\ Items \in Seq(Trees)
  BY TreesConstant, ItemsAre
<1>2. Proper(t1) /\ Proper(t2) /\ \A j \in DOMAIN T : Proper(T[j])
  BY TextTreeIs, MarkdownTreeIs
<1>3. \/ Items = T \o <<t1, t2>> \/ Items = <<t1>> \o T \/ Items = T
  BY DEF Items
<1> HIDE DEF T, t1, t2
<1>4. Items[i] = t1 \/ Items[i] = t2 \/ \E j \in DOMAIN T : Items[i] = T[j]
  <2>1. CASE Items = T \o <<t1, t2>>
    BY <1>1, <2>1
  <2>2. CASE Items = <<t1>> \o T
    BY <1>1, <2>2
  <2>3. CASE Items = T
    BY <2>3
  <2> QED
    BY <1>3, <2>1, <2>2, <2>3
<1>5. Items[i] \in Trees
  BY <1>1
<1> QED
  BY <1>2, <1>4, <1>5

\* Flattening two texts.
LEMMA FlattenTwo ==
  ASSUME NEW S, NEW a \in Seq(S), NEW b \in Seq(S)
  PROVE  FlattenSeq(<<a, b>>) = Cat(a, b)
<1>1. <<a>> \in Seq(Seq(S)) /\ <<a, b>> = Append(<<a>>, b)
  OBVIOUS
<1>2. FlattenSeq(Append(<<a>>, b)) = FlattenSeq(<<a>>) \o b
  BY <1>1, FlattenAppendSeq
<1> QED
  BY <1>1, <1>2, FlattenOne, Zenon DEF Cat

\* The grid shows what a block for each field would.
LEMMA GridIs ==
  ASSUME message \in Messages
  PROVE  NodeMeaning(EachOf(<<"{{key}}", "{{value}}">>)) = Grid
<1> DEFINE w == <<"{{key}}", "{{value}}">>
           n == OneNode("each", "other", w)
           p == [kind |-> "text", field |-> "other", words |-> w]
           g == [i \in DOMAIN ctx.fields |-> PartsMeaning(n.parts, <<ctx.fields[i]>>)]
           f == [i \in DOMAIN ctx.fields |-> ctx.fields[i].key \o ctx.fields[i].value]
<1>1. EachOf(w) = n
  BY OwnNodes
<1>2. n.kind = "each" /\ n.parts = <<p>>
  BY DEF OneNode, Text
<1>3. NodeMeaning(n) = FlattenSeq(g)
  BY <1>2, NodeIs, Zenon
<1>4. ASSUME NEW i \in DOMAIN ctx.fields PROVE g[i] = f[i]
  <2> DEFINE of == <<ctx.fields[i]>>
             a == ctx.fields[i].key
             b == ctx.fields[i].value
  <2>0. a \in Texts /\ b \in Texts
    BY ContextType
  <2>1. ValueOf("{{key}}", of) = a /\ ValueOf("{{value}}", of) = b
    BY Distinct DEF ValueOf
  <2>2. Values(w, of) = Cat(a, b)
    <3>1. [j \in DOMAIN w |-> ValueOf(w[j], of)] = <<a, b>>
      <4>1. DOMAIN w = 1..2 /\ w[1] = "{{key}}" /\ w[2] = "{{value}}"
        OBVIOUS
      <4> DEFINE u == <<a, b>>
      <4>2. DOMAIN u = 1..2 /\ u[1] = a /\ u[2] = b
        OBVIOUS
      <4>3. \A j \in 1..2 : j = 1 \/ j = 2
        OBVIOUS
      <4> HIDE DEF of, a, b, w
      <4>4. \A j \in 1..2 : ValueOf(w[j], of) = u[j]
        BY <2>1, <4>1, <4>2, <4>3
      <4>5. [j \in DOMAIN w |-> ValueOf(w[j], of)] = u
        <5>1. u = [j \in 1..2 |-> u[j]]
          OBVIOUS
        <5> HIDE DEF u
        <5> QED
          BY <4>1, <4>4, <5>1
      <4> QED
        BY <4>5
    <3>2. Values(w, of) = FlattenSeq(<<a, b>>)
      BY <3>1, Zenon DEF Values
    <3> HIDE DEF a, b
    <3>3. FlattenSeq(<<a, b>>) = Cat(a, b)
      BY <2>0, FlattenTwo
    <3> QED
      BY <3>2, <3>3, Zenon
  <2>3. PartMeaning(p, of) = Values(w, of)
    BY DEF PartMeaning
  <2>4. PartsMeaning(n.parts, of) = PartMeaning(p, of)
    <3>1. [j \in DOMAIN n.parts |-> PartMeaning(n.parts[j], of)] = <<PartMeaning(p, of)>>
      <4> HIDE DEF p, of, n
      <4>1. DOMAIN <<p>> = {1} /\ DOMAIN <<PartMeaning(p, of)>> = {1} /\ <<p>>[1] = p
            /\ <<PartMeaning(p, of)>>[1] = PartMeaning(p, of)
        OBVIOUS
      <4> QED
        BY <1>2, <4>1
    <3> HIDE DEF p, of, n
    <3> QED
      BY <3>1, FlattenOne, Zenon DEF PartsMeaning
  <2>5. g[i] = PartsMeaning(n.parts, of)
    OBVIOUS
  <2>6. f[i] = Cat(a, b)
    BY DEF Cat
  <2> HIDE DEF g, f, n, p, of, a, b, w
  <2> QED
    BY <2>2, <2>3, <2>4, <2>5, <2>6, Zenon
<1>5. g = f
  <2> HIDE DEF n
  <2>1. DOMAIN g = DOMAIN f /\ DOMAIN g = DOMAIN ctx.fields
    OBVIOUS
  <2> QED
    BY <1>4, <2>1
<1> HIDE DEF g, f, n
<1> QED
  BY <1>1, <1>3, <1>5, Zenon DEF Grid, f

(* ---- what is shown ---- *)

ShownOf(t) == IF Shows(t) THEN <<Reads(t)>> ELSE <<>>
AllShown == [i \in DOMAIN Items |-> ShownOf(Items[i])]

\* What is expected, one sequence per tree.
LEMMA ExpectedIs == Expected = FlattenSeq(AllShown)
  BY Zenon DEF Expected, AllShown, ShownOf

\* How a piece reads, by its slot.
LEMMA ReadsIs ==
  ASSUME NEW t
  PROVE  /\ Reads(t).slot = t.slot
         /\ Reads(t) = [slot |-> t.slot, text |-> Reads(t).text]
         /\ t.slot = "hr" => Reads(t).text = <<>>
         /\ t.slot = "grid" => Reads(t).text = NodeMeaning(EachOf(<<"{{key}}", "{{value}}">>))
         /\ t.slot \in {"header", "note", "button"} => Reads(t).text = Values(TextOf(t), <<>>)
         /\ t.slot \notin {"hr", "grid", "header", "note", "button"} => Reads(t).text = Meaning(t)
  BY DEF Reads

\* It reads as a piece that can be shown.
LEMMA ReadsType ==
  ASSUME message \in Messages, Quiet, NEW t \in Trees, Proper(t)
  PROVE  Reads(t) \in Shown /\ ShownOf(t) \in Seq(Shown)
<1>1. TextOf(t) \in Texts /\ Conveys(TextOf(t), Meaning(t))
  BY TreeMeans
<1>2. Meaning(t) \in Texts
  BY <1>1, SubstTypes DEF Conveys
<1>3. Values(TextOf(t), <<>>) \in Texts
  BY <1>1, WordsMean
<1>4. NodeMeaning(EachOf(<<"{{key}}", "{{value}}">>)) \in Texts
  BY GridIs, GridType
<1>5. Reads(t).text \in Texts
  BY <1>2, <1>3, <1>4, ReadsIs, NothingIsText
<1>6. t.slot \in Slots
  BY DEF Trees
<1>7. Reads(t) \in Shown
  <2> DEFINE x == Reads(t).text
  <2>1. Reads(t) = [slot |-> t.slot, text |-> x]
    BY ReadsIs
  <2>2. x \in Texts
    BY <1>5
  <2> HIDE DEF x
  <2>3. [slot |-> t.slot, text |-> x] \in Shown
    BY <1>6, <2>2 DEF Shown
  <2> QED
    BY <2>1, <2>3, Zenon
<1> QED
  BY <1>7, OneType DEF ShownOf

\* A piece is skipped when its tree is not to be shown.
LEMMA SkippedIs ==
  ASSUME message \in Messages, Quiet, NEW t \in Trees
  PROVE  Skipped(PieceOf(t)) <=> ~Shows(t)
<1>1. t.cond \in Fields \cup {"none"}
  BY DEF Trees, Conditions
<1>2. t.cond # "none" => (IsTruthy(t.cond) <=> Present(t.cond))
  BY <1>1, Truths
<1>3. Present("url") <=> ctx.url # <<>>
  BY DEF Present, Quiet
<1>4. PieceOf(t).cond = t.cond /\ PieceOf(t).slot = t.slot
  BY DEF PieceOf
<1> QED
  BY <1>2, <1>3, <1>4 DEF Skipped, Shows

(* ---- what does not change with the message ---- *)

\* The passes depend on the message only.
LEMMA SamePasses ==
  ASSUME message' = message
  PROVE  EachReadings' = EachReadings /\ IfReadings' = IfReadings
<1>1. EachReadings' = EachReadings
  BY DEF EachReadings, EachBlocks, Readings, Expanded, ctx
<1>2. IfBlocks' = IfBlocks
  <2>1. \A f : IsTruthy(f)' <=> IsTruthy(f)
    BY DEF IsTruthy, ctx
  <2> QED
    BY <2>1 DEF IfBlocks
<1>3. IfReadings' = IfReadings
  BY <1>2 DEF IfReadings
<1> QED
  BY <1>1, <1>3

\* So does the substitution.
LEMMA SameSubstitutes ==
  ASSUME message' = message
  PROVE  /\ \A var \in Vars : Substitute(var)' = Substitute(var)
         /\ \A s : Done(s)' = Done(s)
<1>1. /\ Substitute("title")' = Substitute("title") /\ Substitute("body")' = Substitute("body")
      /\ Substitute("status_emoji")' = Substitute("status_emoji")
      /\ Substitute("status_color")' = Substitute("status_color")
      /\ Substitute("timestamp")' = Substitute("timestamp") /\ Substitute("url")' = Substitute("url")
  BY DEF Substitute, Status, ctx
<1>2. \A s : Done(s)' = Done(s)
  BY <1>1, Zenon DEF Done, FromBody, FromEmoji, FromColor, FromTime, FromUrl, Subst
<1> QED
  BY <1>1, <1>2 DEF Vars

\* What the passes make of the rest after a step is what they make of it now.
LEMMA SameRest ==
  ASSUME message' = message
  PROVE  /\ Done(rest)' = Done(rest') /\ FromBody(rest)' = FromBody(rest')
         /\ FromEmoji(rest)' = FromEmoji(rest') /\ FromColor(rest)' = FromColor(rest')
         /\ FromTime(rest)' = FromTime(rest') /\ FromUrl(rest)' = FromUrl(rest')
<1>1. /\ Substitute("title")' = Substitute("title") /\ Substitute("body")' = Substitute("body")
      /\ Substitute("status_emoji")' = Substitute("status_emoji")
      /\ Substitute("status_color")' = Substitute("status_color")
      /\ Substitute("timestamp")' = Substitute("timestamp") /\ Substitute("url")' = Substitute("url")
  BY SameSubstitutes DEF Vars
<1>2. FromUrl(rest)' = FromUrl(rest')
  BY <1>1, Zenon DEF FromUrl, Subst
<1>3. FromTime(rest)' = FromTime(rest')
  BY <1>1, Zenon DEF FromTime, FromUrl, Subst
<1>4. FromColor(rest)' = FromColor(rest')
  BY <1>1, Zenon DEF FromColor, FromTime, FromUrl, Subst
<1>5. FromEmoji(rest)' = FromEmoji(rest')
  BY <1>1, Zenon DEF FromEmoji, FromColor, FromTime, FromUrl, Subst
<1>6. FromBody(rest)' = FromBody(rest')
  BY <1>1, Zenon DEF FromBody, FromEmoji, FromColor, FromTime, FromUrl, Subst
<1>7. Done(rest)' = Done(rest')
  BY <1>1, Zenon DEF Done, FromBody, FromEmoji, FromColor, FromTime, FromUrl, Subst
<1> QED
  BY <1>2, <1>3, <1>4, <1>5, <1>6, <1>7

\* So do the trees, what they show, and whether the values are quiet.
LEMMA SameMeanings ==
  ASSUME message' = message
  PROVE  Items' = Items /\ AllShown' = AllShown /\ Quiet' = Quiet
<1>1. Items' = Items
  BY Zenon DEF Items
<1>2. Quiet' = Quiet
  BY DEF Quiet, ctx
<1>3. \A f : Present(f)' = Present(f)
  BY Zenon DEF Present, ctx
<1>4. \A t : Shows(t)' = Shows(t)
  BY <1>3, Zenon DEF Shows
<1>5. \A e, of : ValueOf(e, of)' = ValueOf(e, of)
  BY Zenon DEF ValueOf, Status, ctx
<1>6. \A w, of : Values(w, of)' = Values(w, of)
  BY <1>5 DEF Values
<1>7. \A p, of : PartMeaning(p, of)' = PartMeaning(p, of)
  <2>1. \A w : [f \in DOMAIN ctx.fields |-> Values(w, <<ctx.fields[f]>>)]'
               = [f \in DOMAIN ctx.fields |-> Values(w, <<ctx.fields[f]>>)]
    BY DEF Values, ValueOf, Status, ctx
  <2> QED
    BY <1>3, <1>6, <2>1, Zenon DEF PartMeaning
<1>8. \A parts, of : PartsMeaning(parts, of)' = PartsMeaning(parts, of)
  BY <1>7 DEF PartsMeaning
<1>9. \A n : NodeMeaning(n)' = NodeMeaning(n)
  <2>1. \A w : [f \in DOMAIN ctx.fields |-> PartsMeaning(w, <<ctx.fields[f]>>)]'
               = [f \in DOMAIN ctx.fields |-> PartsMeaning(w, <<ctx.fields[f]>>)]
    BY <1>8 DEF ctx
  <2> QED
    BY <1>3, <1>8, <2>1, Zenon DEF NodeMeaning
<1>10. \A t : Meaning(t)' = Meaning(t)
  BY <1>6, <1>9 DEF Meaning
<1>11. \A t : Reads(t)' = Reads(t)
  BY <1>6, <1>9, <1>10, Zenon DEF Reads
<1>12. \A t : ShownOf(t)' = ShownOf(t)
  BY <1>4, <1>11, Zenon DEF ShownOf
<1>13. AllShown' = AllShown
  BY <1>1, <1>12 DEF AllShown
<1> QED
  BY <1>1, <1>2, <1>13

(* ---- the inductive invariant of a rendering ---- *)

\* What is still to come of the piece at hand, so that it ends as `goal`.
Towards(goal) ==
  /\ phase \in Phases \ {"next", "done"}
  /\ phase = "each" => \E h \in Texts : \E b \in Texts :
                          EachGoal(h) /\ <<h, b>> \in IfReadings /\ Done(b) = goal
  /\ phase = "if" => \E b \in Texts : IfGoal(b) /\ Done(b) = goal
  /\ phase = "title" => Done(rest) = goal
  /\ phase = "body" => FromBody(rest) = goal
  /\ phase = "status_emoji" => FromEmoji(rest) = goal
  /\ phase = "status_color" => FromColor(rest) = goal
  /\ phase = "timestamp" => FromTime(rest) = goal
  /\ phase = "url" => FromUrl(rest) = goal

\* The first k pieces are done, and the next one is on its way.
Rendering(trees, shown, k) ==
  /\ jobs = SubSeq(PiecesOf(trees), k + 1, Len(trees))
  /\ out = FlattenSeq(SubSeq(shown, 1, k))
  /\ phase = "done" => k = Len(trees)
  /\ phase \notin {"next", "done"} => \E goal \in Texts :
       /\ k < Len(trees)
       /\ shown[k + 1] = <<[slot |-> trees[k + 1].slot, text |-> goal]>>
       /\ Towards(goal)

Meant == Quiet /\ \A i \in DOMAIN message.trees : Proper(message.trees[i])

RenderInv == Meant => \E k \in 0..Len(Items) : Rendering(Items, AllShown, k)

\* What the trees of a message show, typed.
LEMMA ShownType ==
  ASSUME message \in Messages, Meant
  PROVE  /\ Items \in Seq(Trees) /\ AllShown \in Seq(Seq(Shown)) /\ Len(AllShown) = Len(Items)
         /\ \A i \in 1..Len(Items) : /\ Items[i] \in Trees /\ Proper(Items[i])
                                     /\ AllShown[i] = ShownOf(Items[i])
<1>1. Items \in Seq(Trees) /\ Len(Items) \in Nat /\ DOMAIN Items = 1..Len(Items)
  BY ItemsAre
<1>2. ASSUME NEW i \in 1..Len(Items) PROVE Items[i] \in Trees /\ Proper(Items[i])
  BY <1>1, ItemsProper DEF Meant
<1>3. ASSUME NEW i \in 1..Len(Items) PROVE ShownOf(Items[i]) \in Seq(Shown)
  BY <1>2, ReadsType DEF Meant
<1>4. AllShown \in [1..Len(Items) -> Seq(Shown)]
  BY <1>1, <1>3 DEF AllShown
<1>5. \A i \in 1..Len(Items) : AllShown[i] = ShownOf(Items[i])
  BY <1>1 DEF AllShown
<1> QED
  BY <1>1, <1>2, <1>4, <1>5, IsSequence

\* The jobs left, from the k-th on.
LEMMA SuffixIs ==
  ASSUME NEW S, NEW P \in Seq(S), NEW n, n = Len(P), NEW k \in 0..n, NEW s, s = SubSeq(P, k + 1, n)
  PROVE  /\ s = <<>> <=> k = n
         /\ s # <<>> => Head(s) = P[k + 1] /\ Tail(s) = SubSeq(P, k + 2, n) /\ k + 1 \in 1..n
<1>1. s \in Seq(S) /\ Len(s) = n - k /\ \A h \in 1..(n - k) : s[h] = P[k + h]
  BY CutIs
<1>2. s = <<>> <=> k = n
  <2>1. s = <<>> <=> Len(s) = 0
    BY <1>1, EmptySeq
  <2>2. n - k = 0 <=> k = n
    OBVIOUS
  <2> QED
    BY <1>1, <2>1, <2>2
<1>3. ASSUME s # <<>> PROVE Head(s) = P[k + 1] /\ Tail(s) = SubSeq(P, k + 2, n) /\ k + 1 \in 1..n
  <2>1. k + 1 \in 1..n /\ k + 1 <= n /\ k + 1 \in Nat /\ (k + 1) + 1 = k + 2
    BY <1>2, <1>3
  <2>2. Head(s) = P[k + 1]
    BY <1>1, <1>3, <2>1
  <2> DEFINE u == SubSeq(P, (k + 1) + 1, n)
             v == Tail(s)
  <2>3. u \in Seq(S) /\ Len(u) = n - (k + 1) /\ \A h \in 1..(n - (k + 1)) : u[h] = P[(k + 1) + h]
    BY <2>1, CutIs
  <2>4. v \in Seq(S) /\ Len(v) = n - (k + 1) /\ \A h \in 1..(n - (k + 1)) : v[h] = s[h + 1]
    BY <1>1, <1>3
  <2> HIDE DEF u, v
  <2>5. \A h \in 1..(n - (k + 1)) : v[h] = u[h]
    BY <1>1, <2>1, <2>3, <2>4
  <2>6. v = u
    BY <2>3, <2>4, <2>5, SeqEqual
  <2> QED
    BY <2>1, <2>2, <2>6 DEF u, v
<1> QED
  BY <1>2, <1>3

\* The pieces that are left, one fewer with each step.
LEMMA JobsLeft ==
  ASSUME NEW trees \in Seq(Trees), NEW k \in 0..Len(trees), jobs = SubSeq(PiecesOf(trees), k + 1, Len(trees))
  PROVE  /\ jobs = <<>> <=> k = Len(trees)
         /\ jobs # <<>> => /\ k + 1 \in 1..Len(trees) /\ k + 1 \in 0..Len(trees)
                           /\ Head(jobs) = PieceOf(trees[k + 1])
                           /\ Tail(jobs) = SubSeq(PiecesOf(trees), k + 2, Len(trees))
<1> DEFINE P == PiecesOf(trees)
           n == Len(trees)
<1>1. n \in Nat /\ DOMAIN trees = 1..n
  OBVIOUS
<1>2. \A i \in 1..n : P[i] = PieceOf(trees[i])
  BY DEF PiecesOf
<1>3. P \in Seq({PieceOf(t) : t \in Trees}) /\ Len(P) = n
  <2>1. P \in [1..n -> {PieceOf(t) : t \in Trees}]
    BY <1>1 DEF PiecesOf
  <2> HIDE DEF P
  <2> QED
    BY <1>1, <2>1, IsSequence
<1>4. jobs = SubSeq(P, k + 1, n)
  OBVIOUS
<1>5. k \in 0..n /\ \A m \in 1..n : m \in 0..n
  BY <1>1
<1> HIDE DEF P, n
<1>6. jobs = <<>> <=> k = n
  <2>1. \A s : s = SubSeq(P, k + 1, n) => (s = <<>> <=> k = n)
    BY <1>3, <1>5, SuffixIs
  <2> QED
    BY <1>4, <2>1, Zenon
<1>7. ASSUME jobs # <<>> PROVE Head(jobs) = P[k + 1] /\ Tail(jobs) = SubSeq(P, k + 2, n) /\ k + 1 \in 1..n
  BY <1>3, <1>4, <1>5, <1>7, SuffixIs
<1> QED
  BY <1>2, <1>5, <1>6, <1>7 DEF n, P

\* One piece more, or one skipped, in what has been shown.
LEMMA OutGrows ==
  ASSUME NEW shown \in Seq(Seq(Shown)), NEW k \in Nat, k + 1 <= Len(shown)
  PROVE  /\ shown[k + 1] = <<>> => FlattenSeq(SubSeq(shown, 1, k + 1)) = FlattenSeq(SubSeq(shown, 1, k))
         /\ \A x \in Shown : shown[k + 1] = <<x>> =>
              FlattenSeq(SubSeq(shown, 1, k + 1)) = Append(FlattenSeq(SubSeq(shown, 1, k)), x)
<1> DEFINE a == FlattenSeq(SubSeq(shown, 1, k))
<1>1. FlattenSeq(SubSeq(shown, 1, k + 1)) = Cat(a, shown[k + 1]) /\ a \in Seq(Shown)
  BY FlattenGrows
<1> HIDE DEF a
<1>2. Cat(a, <<>>) = a /\ \A x \in Shown : Cat(a, <<x>>) = Append(a, x)
  BY <1>1, CatNone, AppendIsCat
<1> QED
  BY <1>1, <1>2, Zenon DEF a

\* Nothing is done when render is called.
LEMMA InitRenders == Init => RenderInv
<1> SUFFICES ASSUME Init, Meant PROVE \E k \in 0..Len(Items) : Rendering(Items, AllShown, k)
  BY DEF RenderInv
<1>1. message \in Messages /\ jobs = Pieces(message) /\ phase = "next" /\ out = <<>>
  BY DEF Init
<1>2. Items \in Seq(Trees) /\ Pieces(message) = PiecesOf(Items) /\ AllShown \in Seq(Seq(Shown))
  BY <1>1, ItemsAre, ShownType
<1> DEFINE T == Items
           S == AllShown
<1>3. SubSeq(S, 1, 0) = <<>> /\ 0 \in 0..Len(T)
  BY <1>2
<1>4. PiecesOf(T) = SubSeq(PiecesOf(T), 1, Len(T))
  <2>1. PiecesOf(T) \in [1..Len(T) -> {PieceOf(t) : t \in Trees}] /\ Len(T) \in Nat
    BY <1>2 DEF PiecesOf
  <2> DEFINE P == PiecesOf(T)
  <2> HIDE DEF P, T
  <2>2. P \in Seq({PieceOf(t) : t \in Trees}) /\ Len(P) = Len(T)
    BY <2>1, IsSequence DEF P
  <2> QED
    BY <2>2, SubSeqFull DEF P
<1>5. Rendering(T, S, 0)
  <2>1. 0 + 1 = 1
    OBVIOUS
  <2> HIDE DEF T, S
  <2>2. jobs = SubSeq(PiecesOf(T), 0 + 1, Len(T))
    BY <1>1, <1>2, <1>4, <2>1 DEF T
  <2>3. out = FlattenSeq(SubSeq(S, 1, 0))
    BY <1>1, <1>3, FlattenEmpty
  <2> QED
    BY <1>1, <2>2, <2>3 DEF Rendering
<1> QED
  BY <1>3, <1>5, Zenon

(* ---- the steps of a piece ---- *)

\* The goal while expand_each runs.
LEMMA TowardsEach ==
  ASSUME phase = "each", NEW goal
  PROVE  Towards(goal) <=> \E h \in Texts : \E b \in Texts :
                              EachGoal(h) /\ <<h, b>> \in IfReadings /\ Done(b) = goal
  BY DEF Towards, Phases, Vars

\* The goal while eval_if runs.
LEMMA TowardsIf ==
  ASSUME phase = "if", NEW goal
  PROVE  Towards(goal) <=> \E b \in Texts : IfGoal(b) /\ Done(b) = goal
  BY DEF Towards, Phases, Vars

\* While expand_each reads on, its goal stays.
LEMMA EachTowards ==
  ASSUME EngineInv, ExpandEach \/ EachUnclosed, NEW goal, Towards(goal)
  PROVE  Towards(goal)'
<1>1. phase = "each" /\ phase' = "each" /\ message' = message
  BY DEF ExpandEach, EachUnclosed
<1>2. PICK h \in Texts : \E b \in Texts : EachGoal(h) /\ <<h, b>> \in IfReadings /\ Done(b) = goal
  BY <1>1, TowardsEach
<1>3. PICK b \in Texts : EachGoal(h) /\ <<h, b>> \in IfReadings /\ Done(b) = goal
  BY <1>2
<1>4. \E t \in Texts : <<rest', t>> \in EachReadings /\ h = Cat(result', t)
  BY <1>3, ExpandEachReads, EachUnclosedReads
<1>5. EachReadings' = EachReadings /\ IfReadings' = IfReadings /\ Done(b)' = Done(b)
  BY <1>1, SamePasses, SameSubstitutes
<1>6. EachGoal(h)'
  BY <1>4, <1>5 DEF EachGoal
<1>7. <<h, b>> \in IfReadings' /\ Done(b)' = goal
  BY <1>3, <1>5
<1>8. (\E x \in Texts : \E y \in Texts : EachGoal(x) /\ <<x, y>> \in IfReadings /\ Done(y) = goal)'
  BY <1>6, <1>7
<1> QED
  BY <1>1, <1>8 DEF Towards, Phases, Vars

\* From expand_each to eval_if the goal stays.
LEMMA EachEndTowards ==
  ASSUME EngineInv, EachEnd, NEW goal, Towards(goal)
  PROVE  Towards(goal)'
<1>1. phase = "each" /\ phase' = "if" /\ message' = message /\ result' = <<>> /\ stack' = stack
  BY DEF EachEnd
<1>2. PICK h \in Texts : \E b \in Texts : EachGoal(h) /\ <<h, b>> \in IfReadings /\ Done(b) = goal
  BY <1>1, TowardsEach
<1>3. PICK b \in Texts : EachGoal(h) /\ <<h, b>> \in IfReadings /\ Done(b) = goal
  BY <1>2
<1>4. rest' = h
  BY <1>3, EachEndReads
<1>5. IfReadings' = IfReadings /\ Done(b)' = Done(b)
  BY <1>1, SamePasses, SameSubstitutes
<1>6. stack' = <<>>
  BY <1>1 DEF EngineInv
<1>7. b = Cat(<<>>, b)
  BY CatNone
<1>8. IfGoal(b)'
  BY <1>1, <1>3, <1>4, <1>5, <1>6, <1>7 DEF IfGoal
<1>9. Done(b)' = goal
  BY <1>3, <1>5
<1> QED
  BY <1>1, <1>8, <1>9 DEF Towards, Phases, Vars

\* Within eval_if it stays.
LEMMA IfTowards ==
  ASSUME EngineInv, IfEnter \/ IfSkip \/ IfUnclosed \/ IfReturn, NEW goal, Towards(goal)
  PROVE  Towards(goal)'
<1>1. phase = "if" /\ phase' = "if" /\ message' = message
  BY DEF IfEnter, IfSkip, IfUnclosed, IfReturn
<1>2. PICK b \in Texts : IfGoal(b) /\ Done(b) = goal
  BY <1>1, TowardsIf
<1>3. IfReadings' = IfReadings /\ Done(b)' = Done(b)
  BY <1>1, SamePasses, SameSubstitutes
<1>4. IfGoal(b)'
  <2>1. CASE IfEnter
    <3>1. stack' # <<>> /\ rest' \in Seq(Tokens \ Openers)
      BY <1>2, <2>1, IfEnterReads
    <3>2. \E t \in Texts : <<Last(stack').rest, t>> \in IfReadings
                           /\ b = Cat(Last(stack').result, Cat(Cat(result', rest'), t))
      BY <1>2, <2>1, IfEnterReads
    <3> QED
      BY <1>3, <3>1, <3>2 DEF IfGoal
  <2>2. CASE IfSkip \/ IfUnclosed \/ IfReturn
    <3>1. stack' = <<>>
      BY <1>2, <2>2, IfSkipReads, IfUnclosedReads, IfReturnReads
    <3>2. \E t \in Texts : <<rest', t>> \in IfReadings /\ b = Cat(result', t)
      BY <1>2, <2>2, IfSkipReads, IfUnclosedReads, IfReturnReads
    <3> QED
      BY <1>3, <3>1, <3>2 DEF IfGoal
  <2> QED
    BY <2>1, <2>2
<1>5. Done(b)' = goal
  BY <1>2, <1>3
<1> QED
  BY <1>1, <1>4, <1>5 DEF Towards, Phases, Vars

\* From eval_if to the substitutions it stays.
LEMMA IfEndTowards ==
  ASSUME EngineInv, IfEnd, NEW goal, Towards(goal)
  PROVE  Towards(goal)'
<1>1. phase = "if" /\ phase' = "title" /\ message' = message
  BY DEF IfEnd
<1>2. PICK b \in Texts : IfGoal(b) /\ Done(b) = goal
  BY <1>1, TowardsIf
<1>3. rest' = b
  BY <1>2, IfEndReads
<1>4. Done(rest)' = goal
  BY <1>1, <1>2, <1>3, SameRest
<1> QED
  BY <1>1, <1>4 DEF Towards, Phases, Vars

Handovers == {<<"title", "body">>, <<"body", "status_emoji">>, <<"status_emoji", "status_color">>,
              <<"status_color", "timestamp">>, <<"timestamp", "url">>}

\* And from one substitution to the next.
LEMMA SubTowards ==
  ASSUME EngineInv, NEW var, NEW next, <<var, next>> \in Handovers, Sub(var, next), NEW goal, Towards(goal)
  PROVE  Towards(goal)'
<1>1. message' = message /\ phase = var /\ phase' = next /\ rest' = Subst(var, rest)
  BY Zenon DEF Sub, Subst
<1>2. /\ FromBody(rest)' = FromBody(rest') /\ FromEmoji(rest)' = FromEmoji(rest')
      /\ FromColor(rest)' = FromColor(rest') /\ FromTime(rest)' = FromTime(rest')
      /\ FromUrl(rest)' = FromUrl(rest')
  BY <1>1, SameRest
<1>3. CASE var = "title" /\ next = "body"
  <2>1. FromBody(rest') = goal
    BY <1>1, <1>3, Zenon DEF Towards, Done
  <2> QED
    BY <1>1, <1>2, <1>3, <2>1 DEF Towards, Phases, Vars
<1>4. CASE var = "body" /\ next = "status_emoji"
  <2>1. FromEmoji(rest') = goal
    BY <1>1, <1>4, Zenon DEF Towards, FromBody
  <2> QED
    BY <1>1, <1>2, <1>4, <2>1 DEF Towards, Phases, Vars
<1>5. CASE var = "status_emoji" /\ next = "status_color"
  <2>1. FromColor(rest') = goal
    BY <1>1, <1>5, Zenon DEF Towards, FromEmoji
  <2> QED
    BY <1>1, <1>2, <1>5, <2>1 DEF Towards, Phases, Vars
<1>6. CASE var = "status_color" /\ next = "timestamp"
  <2>1. FromTime(rest') = goal
    BY <1>1, <1>6, Zenon DEF Towards, FromColor
  <2> QED
    BY <1>1, <1>2, <1>6, <2>1 DEF Towards, Phases, Vars
<1>7. CASE var = "timestamp" /\ next = "url"
  <2>1. FromUrl(rest') = goal
    BY <1>1, <1>7, Zenon DEF Towards, FromTime
  <2> QED
    BY <1>1, <1>2, <1>7, <2>1 DEF Towards, Phases, Vars
<1> QED
  BY <1>3, <1>4, <1>5, <1>6, <1>7 DEF Handovers

(* ---- from piece to piece ---- *)

\* The k-th rendering step starts from these facts.
LEMMA NextPiece ==
  ASSUME EngineInv, Meant, NEW T, T = Items, NEW S, S = AllShown, NEW k \in 0..Len(T), Rendering(T, S, k)
  PROVE  /\ T \in Seq(Trees) /\ S \in Seq(Seq(Shown)) /\ Len(S) = Len(T) /\ Len(T) \in Nat /\ k \in Nat
         /\ jobs = <<>> <=> k = Len(T)
         /\ jobs # <<>> => /\ k + 1 \in 0..Len(T) /\ k + 1 <= Len(S) /\ k < Len(T)
                           /\ T[k + 1] \in Trees /\ Proper(T[k + 1]) /\ S[k + 1] = ShownOf(T[k + 1])
                           /\ Head(jobs) = PieceOf(T[k + 1])
                           /\ Tail(jobs) = SubSeq(PiecesOf(T), k + 2, Len(T))
<1>1. message \in Messages
  BY DEF EngineInv
<1>2. /\ T \in Seq(Trees) /\ S \in Seq(Seq(Shown)) /\ Len(S) = Len(T)
      /\ \A i \in 1..Len(T) : T[i] \in Trees /\ Proper(T[i]) /\ S[i] = ShownOf(T[i])
  BY <1>1, ShownType
<1>3. Len(T) \in Nat /\ k \in Nat
  BY <1>2
<1>4. jobs = SubSeq(PiecesOf(T), k + 1, Len(T))
  BY DEF Rendering
<1>5. /\ jobs = <<>> <=> k = Len(T)
      /\ jobs # <<>> => /\ k + 1 \in 1..Len(T) /\ k + 1 \in 0..Len(T)
                        /\ Head(jobs) = PieceOf(T[k + 1])
                        /\ Tail(jobs) = SubSeq(PiecesOf(T), k + 2, Len(T))
  BY <1>2, <1>4, JobsLeft
<1>6. k + 1 \in 1..Len(T) => k < Len(T) /\ k + 1 <= Len(T)
  BY <1>3
<1> QED
  BY <1>2, <1>3, <1>5, <1>6

\* A piece is done: its place in the list is what was put out for it.
LEMMA PieceDone ==
  ASSUME EngineInv, Meant, NEW T, T = Items, NEW S, S = AllShown, NEW k \in 0..Len(T), Rendering(T, S, k),
         jobs # <<>>, jobs' = Tail(jobs), phase' = "next",
         \/ S[k + 1] = <<>> /\ out' = out
         \/ \E x \in Shown : S[k + 1] = <<x>> /\ out' = Append(out, x)
  PROVE  \E m \in 0..Len(T) : Rendering(T, S, m)'
<1>1. /\ S \in Seq(Seq(Shown)) /\ k \in Nat /\ k + 1 \in 0..Len(T) /\ k + 1 <= Len(S)
      /\ Tail(jobs) = SubSeq(PiecesOf(T), k + 2, Len(T))
  BY NextPiece
<1>2. out = FlattenSeq(SubSeq(S, 1, k))
  BY DEF Rendering
<1>3. out' = FlattenSeq(SubSeq(S, 1, k + 1))
  BY <1>1, <1>2, OutGrows
<1>4. (k + 1) + 1 = k + 2
  BY <1>1
<1>5. jobs' = SubSeq(PiecesOf(T), (k + 1) + 1, Len(T))
  BY <1>1, <1>4
<1>6. Rendering(T, S, k + 1)'
  BY <1>3, <1>5 DEF Rendering
<1> QED
  BY <1>1, <1>6

\* A skipped piece: one more piece done, nothing shown.
LEMMA SkipRenders ==
  ASSUME EngineInv, Meant, NEW T, T = Items, NEW S, S = AllShown, NEW k \in 0..Len(T), Rendering(T, S, k), Skip
  PROVE  \E m \in 0..Len(T) : Rendering(T, S, m)'
<1>1. jobs # <<>> /\ jobs' = Tail(jobs) /\ phase' = "next" /\ out' = out /\ Skipped(Head(jobs))
  BY DEF Skip
<1>2. T[k + 1] \in Trees /\ S[k + 1] = ShownOf(T[k + 1]) /\ Head(jobs) = PieceOf(T[k + 1])
  BY <1>1, NextPiece
<1>3. ~Shows(T[k + 1])
  BY <1>1, <1>2, SkippedIs DEF EngineInv, Meant
<1>4. S[k + 1] = <<>>
  BY <1>2, <1>3 DEF ShownOf
<1> QED
  BY <1>1, <1>4, PieceDone

\* A piece that is not skipped shows what it reads.
LEMMA NotSkipped ==
  ASSUME EngineInv, Meant, NEW T, T = Items, NEW S, S = AllShown, NEW k \in 0..Len(T), Rendering(T, S, k),
         jobs # <<>>, ~Skipped(Head(jobs)), NEW t, t = T[k + 1]
  PROVE  /\ t \in Trees /\ Proper(t) /\ S[k + 1] = <<Reads(t)>> /\ Reads(t) \in Shown
         /\ Head(jobs).slot = t.slot /\ Head(jobs).text = TextOf(t)
<1>1. t \in Trees /\ Proper(t) /\ S[k + 1] = ShownOf(t) /\ Head(jobs) = PieceOf(t)
  BY NextPiece
<1>2. Shows(t)
  BY <1>1, SkippedIs DEF EngineInv, Meant
<1>3. S[k + 1] = <<Reads(t)>>
  BY <1>1, <1>2 DEF ShownOf
<1>4. Reads(t) \in Shown
  BY <1>1, ReadsType DEF EngineInv, Meant
<1>5. Head(jobs).slot = t.slot /\ Head(jobs).text = TextOf(t)
  BY <1>1 DEF PieceOf
<1> QED
  BY <1>1, <1>3, <1>4, <1>5

\* A rule or a grid: one more piece done, shown as its tree reads.
LEMMA FixedRenders ==
  ASSUME EngineInv, Meant, NEW T, T = Items, NEW S, S = AllShown, NEW k \in 0..Len(T), Rendering(T, S, k), Fixed
  PROVE  \E m \in 0..Len(T) : Rendering(T, S, m)'
<1> DEFINE t == T[k + 1]
<1>1. /\ jobs # <<>> /\ jobs' = Tail(jobs) /\ phase' = "next" /\ ~Skipped(Head(jobs))
      /\ Head(jobs).slot \in {"hr", "grid"}
      /\ out' = Append(out, [slot |-> Head(jobs).slot, text |-> IF Head(jobs).slot = "grid" THEN Grid ELSE <<>>])
  BY DEF Fixed, Emit
<1>2. S[k + 1] = <<Reads(t)>> /\ Reads(t) \in Shown /\ Head(jobs).slot = t.slot
  BY <1>1, NotSkipped
<1> HIDE DEF t
<1>3. Reads(t).text = IF t.slot = "grid" THEN Grid ELSE <<>>
  <2>1. NodeMeaning(EachOf(<<"{{key}}", "{{value}}">>)) = Grid
    BY GridIs DEF EngineInv
  <2>2. /\ t.slot = "hr" => Reads(t).text = <<>>
        /\ t.slot = "grid" => Reads(t).text = NodeMeaning(EachOf(<<"{{key}}", "{{value}}">>))
    BY ReadsIs
  <2> QED
    BY <1>1, <1>2, <2>1, <2>2
<1>4. Reads(t) = [slot |-> t.slot, text |-> Reads(t).text]
  BY ReadsIs
<1>5. out' = Append(out, Reads(t))
  BY <1>1, <1>2, <1>3, <1>4, Zenon
<1> QED
  BY <1>1, <1>2, <1>5, PieceDone

\* A piece that is started has its meaning as its goal.
LEMMA StartRenders ==
  ASSUME EngineInv, Meant, NEW T, T = Items, NEW S, S = AllShown, NEW k \in 0..Len(T), Rendering(T, S, k), Start
  PROVE  Rendering(T, S, k)'
<1> DEFINE t == T[k + 1]
<1>1. /\ jobs # <<>> /\ jobs' = jobs /\ out' = out /\ ~Skipped(Head(jobs))
      /\ Head(jobs).slot \notin {"hr", "grid"}
      /\ rest' = Head(jobs).text /\ message' = message /\ result' = result
      /\ phase' = IF Head(jobs).slot \in {"header", "note", "button"} THEN "title" ELSE "each"
  BY DEF Start
<1>2. /\ t \in Trees /\ Proper(t) /\ S[k + 1] = <<Reads(t)>> /\ Reads(t) \in Shown
      /\ Head(jobs).slot = t.slot /\ Head(jobs).text = TextOf(t)
  BY <1>1, NotSkipped
<1>3. k < Len(T)
  BY <1>1, NextPiece
<1>4. message \in Messages /\ result = <<>> /\ Quiet
  <2>1. phase = "next"
    BY DEF Start
  <2> QED
    BY <2>1 DEF EngineInv, Meant
<1> HIDE DEF t
<1>5. PICK goal \in Texts : goal = Reads(t).text
  BY <1>2 DEF Shown
<1>6. Reads(t) = [slot |-> t.slot, text |-> goal]
  BY <1>5, ReadsIs
<1>7. TextOf(t) \in Texts /\ Conveys(TextOf(t), Meaning(t))
  BY <1>2, <1>4, TreeMeans
<1>8. /\ t.slot \in {"header", "note", "button"} => goal = Values(TextOf(t), <<>>)
      /\ t.slot \notin {"hr", "grid", "header", "note", "button"} => goal = Meaning(t)
  BY <1>5, ReadsIs
<1>9. Towards(goal)'
  <2>1. CASE t.slot \in {"header", "note", "button"}
    <3>1. Values(TextOf(t), <<>>) = Done(TextOf(t))
      BY <1>4, <1>7, WordsMean
    <3>2. phase' = "title" /\ rest' = TextOf(t)
      BY <1>1, <1>2, <2>1
    <3>3. Done(rest)' = Done(rest')
      BY <1>1, SameRest
    <3>4. Done(rest)' = goal
      BY <1>8, <2>1, <3>1, <3>2, <3>3
    <3> QED
      BY <3>2, <3>4 DEF Towards, Phases, Vars
  <2>2. CASE t.slot \notin {"header", "note", "button"}
    <3>1. phase' = "each" /\ rest' = TextOf(t) /\ goal = Meaning(t)
      BY <1>1, <1>2, <1>8, <2>2
    <3>2. PICK h \in Texts : \E b \in Texts :
             <<TextOf(t), h>> \in EachReadings /\ <<h, b>> \in IfReadings /\ Done(b) = goal
      BY <1>7, <3>1 DEF Conveys
    <3>3. PICK b \in Texts : <<TextOf(t), h>> \in EachReadings /\ <<h, b>> \in IfReadings /\ Done(b) = goal
      BY <3>2
    <3>4. EachReadings' = EachReadings /\ IfReadings' = IfReadings /\ Done(b)' = Done(b)
      BY <1>1, SamePasses, SameSubstitutes
    <3>5. h = Cat(<<>>, h)
      BY CatNone
    <3>6. EachGoal(h)'
      BY <1>1, <1>4, <3>1, <3>3, <3>4, <3>5 DEF EachGoal
    <3>7. <<h, b>> \in IfReadings' /\ Done(b)' = goal
      BY <3>3, <3>4
    <3>8. (\E x \in Texts : \E y \in Texts : EachGoal(x) /\ <<x, y>> \in IfReadings /\ Done(y) = goal)'
      BY <3>6, <3>7
    <3> QED
      BY <3>1, <3>8 DEF Towards, Phases, Vars
  <2> QED
    BY <2>1, <2>2
<1>10. jobs = SubSeq(PiecesOf(T), k + 1, Len(T)) /\ out = FlattenSeq(SubSeq(S, 1, k)) /\ phase' # "done"
  BY <1>1 DEF Rendering
<1>11. S[k + 1] = <<[slot |-> T[k + 1].slot, text |-> goal]>>
  BY <1>2, <1>6, Zenon DEF t
<1> QED
  BY <1>1, <1>3, <1>5, <1>9, <1>10, <1>11 DEF Rendering

\* render ends when no piece is left.
LEMMA FinishRenders ==
  ASSUME EngineInv, Meant, NEW T, T = Items, NEW S, S = AllShown, NEW k \in 0..Len(T), Rendering(T, S, k), Finish
  PROVE  Rendering(T, S, k)'
<1>1. k = Len(T)
  BY NextPiece DEF Finish
<1> QED
  BY <1>1 DEF Finish, Rendering

\* A pass that goes on leaves the pieces as they are.
LEMMA PassRenders ==
  ASSUME NEW T, NEW S, NEW k, Rendering(T, S, k),
         phase \notin {"next", "done"}, phase' \notin {"next", "done"}, UNCHANGED <<jobs, out>>,
         \A goal \in Texts : Towards(goal) => Towards(goal)'
  PROVE  Rendering(T, S, k)'
  BY DEF Rendering

\* The last substitution: one more piece done, shown as its tree reads.
LEMMA SubLastRenders ==
  ASSUME EngineInv, Meant, NEW T, T = Items, NEW S, S = AllShown, NEW k \in 0..Len(T), Rendering(T, S, k), SubLast
  PROVE  \E m \in 0..Len(T) : Rendering(T, S, m)'
<1> DEFINE x == [slot |-> Head(jobs).slot, text |-> FromUrl(rest)]
<1>1. phase = "url" /\ phase' = "next" /\ jobs' = Tail(jobs) /\ jobs # <<>> /\ out' = Append(out, x)
  <2>1. phase = "url" /\ phase' = "next" /\ jobs' = Tail(jobs)
    BY DEF SubLast
  <2>2. out' = Append(out, x)
    BY Zenon DEF SubLast, Emit, FromUrl, Subst
  <2> QED
    BY <2>1, <2>2 DEF EngineInv
<1>2. PICK goal \in Texts : /\ S[k + 1] = <<[slot |-> T[k + 1].slot, text |-> goal]>>
                            /\ Towards(goal)
  BY <1>1 DEF Rendering
<1>3. FromUrl(rest) = goal
  BY <1>1, <1>2 DEF Towards
<1>4. Head(jobs).slot = T[k + 1].slot /\ T[k + 1] \in Trees
  BY <1>1, NextPiece DEF PieceOf
<1>5. S[k + 1] = <<x>>
  BY <1>2, <1>3, <1>4
<1>6. x \in Shown
  <2>1. FromUrl(rest) \in Texts
    BY SubstTypes DEF EngineInv
  <2>2. T[k + 1].slot \in Slots
    BY <1>4 DEF Trees
  <2> QED
    BY <1>4, <2>1, <2>2 DEF Shown
<1> HIDE DEF x
<1> QED
  BY <1>1, <1>5, <1>6, PieceDone

\* The invariant's witnesses, read after the step.
LEMMA SameInv ==
  ASSUME message' = message, NEW k, NEW T, T = Items, NEW S, S = AllShown, k \in 0..Len(T), Rendering(T, S, k)'
  PROVE  RenderInv'
<1>1. Items' = T /\ AllShown' = S
  BY SameMeanings
<1>2. (\E m \in 0..Len(Items) : Rendering(Items, AllShown, m))'
  BY <1>1 DEF Rendering
<1> QED
  BY <1>2 DEF RenderInv

\* Every step keeps the invariant.
LEMMA RenderStep == EngineInv /\ RenderInv /\ [Next]_vars => RenderInv'
<1> SUFFICES ASSUME EngineInv, RenderInv, [Next]_vars, Meant' PROVE RenderInv'
  BY DEF RenderInv
<1>1. message' = message
  BY DEF Next, vars, Skip, Fixed, Start, Finish, ExpandEach, EachUnclosed, EachEnd,
         IfEnter, IfSkip, IfUnclosed, IfReturn, IfEnd, Sub, SubLast
<1>2. Meant
  BY <1>1, SameMeanings DEF Meant
<1>3. PICK T : T = Items
  OBVIOUS
<1>4. PICK S : S = AllShown
  OBVIOUS
<1>5. PICK k \in 0..Len(T) : Rendering(T, S, k)
  BY <1>2, <1>3, <1>4 DEF RenderInv
<1>6. \E m \in 0..Len(T) : Rendering(T, S, m)'
  <2>1. CASE UNCHANGED vars
    <3>1. message' = message /\ phase' = phase /\ rest' = rest /\ result' = result /\ stack' = stack
          /\ jobs' = jobs /\ out' = out
      BY <2>1 DEF vars
    <3>2. EachReadings' = EachReadings /\ IfReadings' = IfReadings /\ \A s : Done(s)' = Done(s)
      BY <3>1, SamePasses, SameSubstitutes
    <3>3. \A goal : Towards(goal) => Towards(goal)'
      <4>1. /\ Done(rest)' = Done(rest) /\ FromBody(rest)' = FromBody(rest)
            /\ FromEmoji(rest)' = FromEmoji(rest) /\ FromColor(rest)' = FromColor(rest)
            /\ FromTime(rest)' = FromTime(rest) /\ FromUrl(rest)' = FromUrl(rest)
        BY <3>1, SameRest
      <4>2. \A h : EachGoal(h)' <=> EachGoal(h)
        BY <3>1, <3>2 DEF EachGoal
      <4>3. \A b : IfGoal(b)' <=> IfGoal(b)
        BY <3>1, <3>2 DEF IfGoal
      <4> QED
        BY <3>1, <3>2, <4>1, <4>2, <4>3 DEF Towards
    <3> QED
      BY <1>5, <3>1, <3>3 DEF Rendering
  <2>2. CASE Skip
    BY <1>2, <1>3, <1>4, <1>5, <2>2, SkipRenders
  <2>3. CASE Fixed
    BY <1>2, <1>3, <1>4, <1>5, <2>3, FixedRenders
  <2>4. CASE Start
    BY <1>2, <1>3, <1>4, <1>5, <2>4, StartRenders
  <2>5. CASE Finish
    BY <1>2, <1>3, <1>4, <1>5, <2>5, FinishRenders
  <2>6. CASE ExpandEach \/ EachUnclosed
    <3>1. phase \notin {"next", "done"} /\ phase' \notin {"next", "done"} /\ UNCHANGED <<jobs, out>>
      BY <2>6 DEF ExpandEach, EachUnclosed
    <3> QED
      BY <1>5, <2>6, <3>1, EachTowards, PassRenders
  <2>7. CASE EachEnd
    <3>1. phase \notin {"next", "done"} /\ phase' \notin {"next", "done"} /\ UNCHANGED <<jobs, out>>
      BY <2>7 DEF EachEnd
    <3> QED
      BY <1>5, <2>7, <3>1, EachEndTowards, PassRenders
  <2>8. CASE IfEnter \/ IfSkip \/ IfUnclosed \/ IfReturn
    <3>1. phase \notin {"next", "done"} /\ phase' \notin {"next", "done"} /\ UNCHANGED <<jobs, out>>
      BY <2>8 DEF IfEnter, IfSkip, IfUnclosed, IfReturn
    <3> QED
      BY <1>5, <2>8, <3>1, IfTowards, PassRenders
  <2>9. CASE IfEnd
    <3>1. phase \notin {"next", "done"} /\ phase' \notin {"next", "done"} /\ UNCHANGED <<jobs, out>>
      BY <2>9 DEF IfEnd
    <3> QED
      BY <1>5, <2>9, <3>1, IfEndTowards, PassRenders
  <2>10. ASSUME NEW var, NEW next, <<var, next>> \in Handovers, Sub(var, next)
         PROVE  \E m \in 0..Len(T) : Rendering(T, S, m)'
    <3>1. phase \notin {"next", "done"} /\ phase' \notin {"next", "done"} /\ UNCHANGED <<jobs, out>>
      BY <2>10 DEF Sub, Handovers
    <3> QED
      BY <1>5, <2>10, <3>1, SubTowards, PassRenders
  <2>11. CASE SubLast
    BY <1>2, <1>3, <1>4, <1>5, <2>11, SubLastRenders
  <2> QED
    BY <2>1, <2>2, <2>3, <2>4, <2>5, <2>6, <2>7, <2>8, <2>9, <2>10, <2>11 DEF Next, Handovers
<1> QED
  BY <1>1, <1>3, <1>4, <1>6, SameInv

\* When render has ended, all pieces are done.
LEMMA RenderedIsMeant == EngineInv /\ RenderInv => RendersMeaning
<1> SUFFICES ASSUME EngineInv, RenderInv, phase = "done", Meant PROVE out = Expected
  BY DEF RendersMeaning, Meant
<1>1. PICK k \in 0..Len(Items) : Rendering(Items, AllShown, k)
  BY DEF RenderInv
<1>2. k = Len(Items) /\ out = FlattenSeq(SubSeq(AllShown, 1, k))
  BY <1>1 DEF Rendering
<1>3. AllShown \in Seq(Seq(Shown)) /\ Len(AllShown) = k
  BY <1>2, ShownType DEF EngineInv
<1>4. SubSeq(AllShown, 1, k) = AllShown
  BY <1>3, SubSeqFull
<1> QED
  BY <1>2, <1>4, ExpectedIs, Zenon

\* A message of proper templates and quiet values is rendered as its trees mean
\* (json_template.rs, render): every piece that is shown, in order, with blocks once per
\* field, conditions, and leftover directives as they are.
THEOREM RenderingMeans == Spec => []RendersMeaning
<1>1. Init => EngineInv /\ RenderInv
  BY InitEngine, InitRenders
<1>2. EngineInv /\ RenderInv /\ [Next]_vars => (EngineInv /\ RenderInv)'
  BY EngineStep, RenderStep
<1>3. EngineInv /\ RenderInv => RendersMeaning
  BY RenderedIsMeant
<1> QED
  BY <1>1, <1>2, <1>3, PTL DEF Spec

(* ---- the built-in renderers ---- *)

\* The values of one, two, four and five words.
LEMMA ValuesOfOne ==
  ASSUME NEW a, NEW of
  PROVE  Values(<<a>>, of) = ValueOf(a, of)
<1> DEFINE w == <<a>>
           u == <<ValueOf(a, of)>>
<1>1. DOMAIN w = {1} /\ w[1] = a /\ DOMAIN u = {1} /\ u[1] = ValueOf(a, of)
  OBVIOUS
<1>2. u = [j \in {1} |-> u[j]]
  OBVIOUS
<1>3. FlattenSeq(u) = ValueOf(a, of)
  BY FlattenOne
<1> HIDE DEF w, u
<1>4. [j \in DOMAIN w |-> ValueOf(w[j], of)] = u
  BY <1>1, <1>2
<1>5. Values(w, of) = ValueOf(a, of)
  BY <1>3, <1>4, Zenon DEF Values
<1> QED
  BY <1>5 DEF w

\* Two words.
LEMMA ValuesOfTwo ==
  ASSUME NEW a, NEW b, NEW of, ValueOf(a, of) \in Texts, ValueOf(b, of) \in Texts
  PROVE  Values(<<a, b>>, of) = Cat(ValueOf(a, of), ValueOf(b, of))
<1> DEFINE w == <<a, b>>
           u == <<ValueOf(a, of), ValueOf(b, of)>>
<1>1. DOMAIN w = 1..2 /\ w[1] = a /\ w[2] = b /\ DOMAIN u = 1..2 /\ u[1] = ValueOf(a, of) /\ u[2] = ValueOf(b, of)
  OBVIOUS
<1>2. u = [j \in 1..2 |-> u[j]] /\ \A j \in 1..2 : j = 1 \/ j = 2
  OBVIOUS
<1>3. FlattenSeq(u) = Cat(ValueOf(a, of), ValueOf(b, of))
  BY FlattenTwo
<1> HIDE DEF w, u
<1>4. \A j \in 1..2 : ValueOf(w[j], of) = u[j]
  BY <1>1, <1>2
<1>5. [j \in DOMAIN w |-> ValueOf(w[j], of)] = u
  BY <1>1, <1>2, <1>4
<1>6. Values(w, of) = FlattenSeq(u)
  BY <1>5, Zenon DEF Values
<1> QED
  BY <1>3, <1>6, Zenon DEF w

\* Four words.
LEMMA ValuesOfFour ==
  ASSUME NEW a, NEW b, NEW c, NEW d, NEW of,
         ValueOf(a, of) \in Texts, ValueOf(b, of) \in Texts, ValueOf(c, of) \in Texts, ValueOf(d, of) \in Texts
  PROVE  Values(<<a, b, c, d>>, of) =
           Cat(Cat(Cat(ValueOf(a, of), ValueOf(b, of)), ValueOf(c, of)), ValueOf(d, of))
<1> DEFINE w == <<a, b, c, d>>
           u == <<ValueOf(a, of), ValueOf(b, of), ValueOf(c, of), ValueOf(d, of)>>
<1>1. /\ DOMAIN w = 1..4 /\ w[1] = a /\ w[2] = b /\ w[3] = c /\ w[4] = d
      /\ DOMAIN u = 1..4 /\ u[1] = ValueOf(a, of) /\ u[2] = ValueOf(b, of)
      /\ u[3] = ValueOf(c, of) /\ u[4] = ValueOf(d, of)
  OBVIOUS
<1>2. u = [j \in 1..4 |-> u[j]] /\ \A j \in 1..4 : j = 1 \/ j = 2 \/ j = 3 \/ j = 4
  OBVIOUS
<1>3. FlattenSeq(u) = Cat(Cat(Cat(ValueOf(a, of), ValueOf(b, of)), ValueOf(c, of)), ValueOf(d, of))
  BY FlattenFour
<1> HIDE DEF w, u
<1>4. \A j \in 1..4 : ValueOf(w[j], of) = u[j]
  BY <1>1, <1>2
<1>5. [j \in DOMAIN w |-> ValueOf(w[j], of)] = u
  BY <1>1, <1>2, <1>4
<1>6. Values(w, of) = FlattenSeq(u)
  BY <1>5, Zenon DEF Values
<1> QED
  BY <1>3, <1>6, Zenon DEF w

\* Five words.
LEMMA ValuesOfFive ==
  ASSUME NEW a, NEW b, NEW c, NEW d, NEW e, NEW of,
         ValueOf(a, of) \in Texts, ValueOf(b, of) \in Texts, ValueOf(c, of) \in Texts,
         ValueOf(d, of) \in Texts, ValueOf(e, of) \in Texts
  PROVE  Values(<<a, b, c, d, e>>, of) =
           Cat(Cat(Cat(Cat(ValueOf(a, of), ValueOf(b, of)), ValueOf(c, of)), ValueOf(d, of)), ValueOf(e, of))
<1> DEFINE w == <<a, b, c, d, e>>
           h == <<ValueOf(a, of), ValueOf(b, of), ValueOf(c, of), ValueOf(d, of)>>
           u == <<ValueOf(a, of), ValueOf(b, of), ValueOf(c, of), ValueOf(d, of), ValueOf(e, of)>>
<1>1. /\ DOMAIN w = 1..5 /\ w[1] = a /\ w[2] = b /\ w[3] = c /\ w[4] = d /\ w[5] = e
      /\ DOMAIN u = 1..5 /\ u[1] = ValueOf(a, of) /\ u[2] = ValueOf(b, of)
      /\ u[3] = ValueOf(c, of) /\ u[4] = ValueOf(d, of) /\ u[5] = ValueOf(e, of)
  OBVIOUS
<1>2. u = [j \in 1..5 |-> u[j]] /\ \A j \in 1..5 : j = 1 \/ j = 2 \/ j = 3 \/ j = 4 \/ j = 5
  OBVIOUS
<1>3. FlattenSeq(h) = Cat(Cat(Cat(ValueOf(a, of), ValueOf(b, of)), ValueOf(c, of)), ValueOf(d, of))
  BY FlattenFour
<1>4. h \in Seq(Texts) /\ u = Append(h, ValueOf(e, of))
  OBVIOUS
<1> HIDE DEF h
<1>5. FlattenSeq(Append(h, ValueOf(e, of))) = Cat(FlattenSeq(h), ValueOf(e, of))
  BY <1>4, FlattenAppendSeq DEF Cat
<1> HIDE DEF w, u
<1>6. \A j \in 1..5 : ValueOf(w[j], of) = u[j]
  BY <1>1, <1>2
<1>7. [j \in DOMAIN w |-> ValueOf(w[j], of)] = u
  BY <1>1, <1>2, <1>6
<1>8. Values(w, of) = FlattenSeq(u)
  BY <1>7, Zenon DEF Values
<1> QED
  BY <1>3, <1>4, <1>5, <1>8, Zenon DEF w

\* What a node of one part means.
LEMMA OneNodeMeans ==
  ASSUME NEW kind, NEW field, NEW w
  PROVE  /\ kind = "text" => NodeMeaning(OneNode(kind, field, w)) = Values(w, <<>>)
         /\ kind = "each" => NodeMeaning(OneNode(kind, field, w)) =
                               FlattenSeq([i \in DOMAIN ctx.fields |-> Values(w, <<ctx.fields[i]>>)])
         /\ kind = "if" => NodeMeaning(OneNode(kind, field, w)) =
                             IF Present(field) THEN Values(w, <<>>) ELSE <<>>
<1> DEFINE n == OneNode(kind, field, w)
           p == [kind |-> "text", field |-> "other", words |-> w]
<1>1. n.kind = kind /\ n.field = field /\ n.parts = <<p>>
  BY DEF OneNode, Text
<1>2. ASSUME NEW of PROVE PartsMeaning(n.parts, of) = Values(w, of)
  <2>1. PartMeaning(p, of) = Values(w, of)
    BY DEF PartMeaning
  <2> HIDE DEF p, n
  <2> DEFINE m == <<PartMeaning(p, of)>>
  <2>2. DOMAIN <<p>> = {1} /\ <<p>>[1] = p /\ DOMAIN m = {1} /\ m[1] = PartMeaning(p, of) /\ m = [j \in {1} |-> m[j]]
    OBVIOUS
  <2>3. FlattenSeq(m) = PartMeaning(p, of)
    BY FlattenOne
  <2> HIDE DEF m
  <2>4. [j \in DOMAIN n.parts |-> PartMeaning(n.parts[j], of)] = m
    BY <1>1, <2>2
  <2> QED
    BY <2>1, <2>3, <2>4, Zenon DEF PartsMeaning
<1>3. [i \in DOMAIN ctx.fields |-> PartsMeaning(n.parts, <<ctx.fields[i]>>)]
        = [i \in DOMAIN ctx.fields |-> Values(w, <<ctx.fields[i]>>)]
  <2> HIDE DEF n
  <2> QED
    BY <1>2
<1>4. /\ n.kind = "text" => NodeMeaning(n) = PartsMeaning(n.parts, <<>>)
      /\ n.kind = "each" =>
           NodeMeaning(n) = FlattenSeq([i \in DOMAIN ctx.fields |-> PartsMeaning(n.parts, <<ctx.fields[i]>>)])
      /\ n.kind = "if" => NodeMeaning(n) = IF Present(n.field) THEN PartsMeaning(n.parts, <<>>) ELSE <<>>
  BY NodeIs, Zenon
<1>5. PartsMeaning(n.parts, <<>>) = Values(w, <<>>)
  BY <1>2
<1> HIDE DEF n
<1> QED
  BY <1>1, <1>3, <1>4, <1>5, Zenon DEF n

\* An element of plain words, and one without any.
LEMMA PlainElement ==
  ASSUME NEW slot \in Slots, NEW cond \in Conditions, NEW w \in Seq(Tokens \ Directives),
         NEW t, t = Element(slot, cond, <<Words(w)>>), Values(w, <<>>) \in Texts
  PROVE  /\ t \in Trees /\ Proper(t) /\ t.slot = slot /\ t.cond = cond
         /\ TextOf(t) = w /\ Meaning(t) = Values(w, <<>>)
<1> DEFINE n == OneNode("text", "other", w)
           s == <<n>>
           v == <<w>>
           m == <<Values(w, <<>>)>>
<1>0. "other" \in Fields /\ "text" \in Kinds
  BY DEF Fields, IfField, Kinds
<1>1. t = Element(slot, cond, s)
  BY OwnNodes
<1>2. w \in Texts
  BY FewerType
<1>3. /\ n \in Nodes /\ NodeText(n) = w
      /\ \A j \in DOMAIN n.parts : (n.kind = "text" \/ n.parts[j].kind # n.kind) /\ Free(n.parts[j].words, Directives)
  BY <1>0, <1>2, OneIsProper, WrapIs
<1>4. NodeMeaning(n) = Values(w, <<>>)
  BY OneNodeMeans
<1> HIDE DEF n
<1>5. /\ s \in Seq(Nodes) /\ DOMAIN s = {1} /\ s[1] = n
      /\ DOMAIN v = {1} /\ v[1] = w /\ v = [i \in {1} |-> v[i]]
      /\ DOMAIN m = {1} /\ m[1] = Values(w, <<>>) /\ m = [i \in {1} |-> m[i]]
  BY <1>3
<1>6. FlattenSeq(v) = w /\ FlattenSeq(m) = Values(w, <<>>)
  BY FlattenOne
<1> HIDE DEF s, v, m
<1>7. t \in Trees /\ Proper(t) /\ t.slot = slot /\ t.cond = cond
  BY <1>1, <1>3, <1>5, ElementIs
<1>8. t.tree = s /\ t.tail = <<>>
  BY <1>1 DEF Element
<1>9. [i \in DOMAIN s |-> NodeText(s[i])] = v /\ [i \in DOMAIN s |-> NodeMeaning(s[i])] = m
  BY <1>3, <1>4, <1>5
<1>10. TextOf(t) = Cat(w, <<>>)
  BY <1>6, <1>8, <1>9, Zenon DEF TextOf, Cat
<1>11. Values(<<>>, <<>>) = <<>>
  BY FlattenEmpty DEF Values
<1>12. Meaning(t) = Cat(Values(w, <<>>), <<>>)
  BY <1>6, <1>8, <1>9, <1>11, Zenon DEF Meaning, Cat
<1> QED
  BY <1>2, <1>7, <1>10, <1>12, CatNone

\* An element that has no text of its own.
LEMMA EmptyElement ==
  ASSUME NEW slot \in Slots, NEW cond \in Conditions, NEW t, t = Element(slot, cond, <<>>)
  PROVE  t \in Trees /\ Proper(t) /\ t.slot = slot /\ t.cond = cond
<1>1. t.slot = slot /\ t.cond = cond /\ t.tree = <<>> /\ t.tail = <<>>
  BY DEF Element
<1>2. t \in Trees
  BY NothingIsText DEF Element, Trees
<1>3. DOMAIN <<>> = {}
  OBVIOUS
<1>4. Proper(t)
  BY <1>1, <1>3 DEF Proper, Stray
<1> QED
  BY <1>1, <1>2, <1>4

\* What the words of the code's own templates stand for.
LEMMA OwnValues ==
  ASSUME message \in Messages, NEW of, of = <<>> \/ \E i \in DOMAIN ctx.fields : of = <<ctx.fields[i]>>
  PROVE  /\ ValueOf("{{title}}", of) = ctx.title /\ ValueOf("{{body}}", of) = ctx.body
         /\ ValueOf("{{url}}", of) = FlattenSeq(ctx.url)
         /\ ValueOf("{{status_emoji}}", of) = <<Emoji[Status]>> /\ ValueOf("{{timestamp}}", of) = <<Timestamp>>
         /\ ValueOf("nl", of) = <<"nl">>
         /\ ValueOf("**", of) = <<"**">> /\ ValueOf("-", of) = <<"-">> /\ ValueOf(":", of) = <<":">>
         /\ ValueOf("link", of) = <<"link">> /\ ValueOf("footer", of) = <<"footer">>
         /\ ValueOf("label", of) = <<"label">>
         /\ \A e \in OwnWords : ValueOf(e, of) \in Texts
<1>1. \A e \in OwnWords : e \in Tokens
  BY OwnWordsPlain
<1>2. \A e \in OwnWords : ValueOf(e, of) \in Texts
  BY <1>1, ValueType
<1>3. /\ ValueOf("{{title}}", of) = ctx.title /\ ValueOf("{{body}}", of) = ctx.body
      /\ ValueOf("{{url}}", of) = FlattenSeq(ctx.url)
      /\ ValueOf("{{status_emoji}}", of) = <<Emoji[Status]>> /\ ValueOf("{{timestamp}}", of) = <<Timestamp>>
  BY Distinct DEF ValueOf
<1>4. /\ ValueOf("nl", of) = <<"nl">>
      /\ ValueOf("**", of) = <<"**">> /\ ValueOf("-", of) = <<"-">> /\ ValueOf(":", of) = <<":">>
      /\ ValueOf("link", of) = <<"link">> /\ ValueOf("footer", of) = <<"footer">>
      /\ ValueOf("label", of) = <<"label">>
  BY Distinct DEF ValueOf
<1> QED
  BY <1>2, <1>3, <1>4

\* The words of the code's own templates, in the order they come.
LEMMA OwnReadings ==
  ASSUME message \in Messages
  PROVE  /\ Values(<<"{{body}}">>, <<>>) = ctx.body
         /\ Values(<<"label">>, <<>>) = <<"label">>
         /\ Values(<<"footer", "{{timestamp}}">>, <<>>) = Cat(<<"footer">>, <<Timestamp>>)
         /\ Values(<<"link", "{{url}}">>, <<>>) = Cat(<<"link">>, FlattenSeq(ctx.url))
         /\ Values(<<"{{status_emoji}}", "{{title}}">>, <<>>) = Cat(<<Emoji[Status]>>, ctx.title)
         /\ Values(<<"{{status_emoji}}", "{{title}}", "nl", "{{body}}">>, <<>>) =
              Cat(Cat(Cat(<<Emoji[Status]>>, ctx.title), <<"nl">>), ctx.body)
         /\ Values(<<"**", "{{status_emoji}}", "{{title}}", "**", "{{body}}">>, <<>>) =
              Cat(Cat(Cat(Cat(<<"**">>, <<Emoji[Status]>>), ctx.title), <<"**">>), ctx.body)
         /\ \A i \in DOMAIN ctx.fields :
              Values(<<"-", "{{key}}", ":", "{{value}}">>, <<ctx.fields[i]>>) =
                Cat(Cat(Cat(<<"-">>, ctx.fields[i].key), <<":">>), ctx.fields[i].value)
<1> DEFINE V(e) == ValueOf(e, <<>>)
<1>1. /\ V("{{title}}") = ctx.title /\ V("{{body}}") = ctx.body
      /\ V("{{url}}") = FlattenSeq(ctx.url) /\ V("nl") = <<"nl">>
      /\ V("{{status_emoji}}") = <<Emoji[Status]>> /\ V("{{timestamp}}") = <<Timestamp>>
      /\ V("**") = <<"**">> /\ V("link") = <<"link">> /\ V("footer") = <<"footer">> /\ V("label") = <<"label">>
  BY OwnValues
<1>2. \A e \in OwnWords : V(e) \in Texts
  BY OwnValues
<1>3. /\ V("link") \in Texts /\ V("{{url}}") \in Texts /\ V("**") \in Texts /\ V("{{title}}") \in Texts
      /\ V("{{body}}") \in Texts /\ V("nl") \in Texts /\ V("{{status_emoji}}") \in Texts
      /\ V("{{timestamp}}") \in Texts /\ V("footer") \in Texts
  BY <1>2 DEF OwnWords
<1>4. /\ Values(<<"link", "{{url}}">>, <<>>) = Cat(V("link"), V("{{url}}"))
      /\ Values(<<"footer", "{{timestamp}}">>, <<>>) = Cat(V("footer"), V("{{timestamp}}"))
      /\ Values(<<"{{status_emoji}}", "{{title}}">>, <<>>) = Cat(V("{{status_emoji}}"), V("{{title}}"))
  BY <1>3, ValuesOfTwo
<1>5. Values(<<"**", "{{status_emoji}}", "{{title}}", "**", "{{body}}">>, <<>>) =
        Cat(Cat(Cat(Cat(V("**"), V("{{status_emoji}}")), V("{{title}}")), V("**")), V("{{body}}"))
  <2> DEFINE a == "**"
             b == "{{title}}"
             c == "{{body}}"
             d == "{{status_emoji}}"
  <2>1. V(a) \in Texts /\ V(b) \in Texts /\ V(c) \in Texts /\ V(d) \in Texts
    BY <1>3
  <2> HIDE DEF a, b, c, d
  <2>2. Values(<<a, d, b, a, c>>, <<>>) = Cat(Cat(Cat(Cat(V(a), V(d)), V(b)), V(a)), V(c))
    BY <2>1, ValuesOfFive
  <2> QED
    BY <2>2 DEF a, b, c, d
<1>8. Values(<<"{{status_emoji}}", "{{title}}", "nl", "{{body}}">>, <<>>) =
        Cat(Cat(Cat(V("{{status_emoji}}"), V("{{title}}")), V("nl")), V("{{body}}"))
  <2> DEFINE a == "nl"
             b == "{{title}}"
             c == "{{body}}"
             d == "{{status_emoji}}"
  <2>1. V(a) \in Texts /\ V(b) \in Texts /\ V(c) \in Texts /\ V(d) \in Texts
    BY <1>3
  <2> HIDE DEF a, b, c, d
  <2>2. Values(<<d, b, a, c>>, <<>>) = Cat(Cat(Cat(V(d), V(b)), V(a)), V(c))
    BY <2>1, ValuesOfFour
  <2> QED
    BY <2>2 DEF a, b, c, d
<1>6. Values(<<"{{body}}">>, <<>>) = V("{{body}}") /\ Values(<<"label">>, <<>>) = V("label")
  BY ValuesOfOne
<1>7. ASSUME NEW i \in DOMAIN ctx.fields
      PROVE  Values(<<"-", "{{key}}", ":", "{{value}}">>, <<ctx.fields[i]>>) =
               Cat(Cat(Cat(<<"-">>, ctx.fields[i].key), <<":">>), ctx.fields[i].value)
  <2> DEFINE of == <<ctx.fields[i]>>
  <2>1. ValueOf("-", of) = <<"-">> /\ ValueOf(":", of) = <<":">>
    BY OwnValues
  <2>2. ValueOf("{{key}}", of) = ctx.fields[i].key /\ ValueOf("{{value}}", of) = ctx.fields[i].value
    BY Distinct DEF ValueOf
  <2>3. \A e \in OwnWords : ValueOf(e, of) \in Texts
    BY OwnValues
  <2>4. /\ ValueOf("-", of) \in Texts /\ ValueOf("{{key}}", of) \in Texts
        /\ ValueOf(":", of) \in Texts /\ ValueOf("{{value}}", of) \in Texts
    BY <2>3 DEF OwnWords
  <2> HIDE DEF of
  <2>5. Values(<<"-", "{{key}}", ":", "{{value}}">>, of) =
          Cat(Cat(Cat(ValueOf("-", of), ValueOf("{{key}}", of)), ValueOf(":", of)), ValueOf("{{value}}", of))
    <3> DEFINE a == "-"
               b == "{{key}}"
               c == ":"
               d == "{{value}}"
    <3>1. ValueOf(a, of) \in Texts /\ ValueOf(b, of) \in Texts /\ ValueOf(c, of) \in Texts /\ ValueOf(d, of) \in Texts
      BY <2>4
    <3> HIDE DEF a, b, c, d
    <3>2. Values(<<a, b, c, d>>, of) = Cat(Cat(Cat(ValueOf(a, of), ValueOf(b, of)), ValueOf(c, of)), ValueOf(d, of))
      BY <3>1, ValuesOfFour
    <3> QED
      BY <3>2 DEF a, b, c, d
  <2>6. Values(<<"-", "{{key}}", ":", "{{value}}">>, of) =
          Cat(Cat(Cat(<<"-">>, ctx.fields[i].key), <<":">>), ctx.fields[i].value)
    BY <2>1, <2>2, <2>5
  <2> QED
    BY <2>6 DEF of
<1> HIDE DEF V
<1> QED
  BY <1>1, <1>4, <1>5, <1>6, <1>7, <1>8

\* The code's own markdown template means what render_markdown writes of a message
\* that has a status.
LEMMA MarkdownMeans ==
  ASSUME message \in Messages, Quiet, ctx.status # <<>>
  PROVE  Meaning(MarkdownTree) = BuiltinMarkdown
<1> DEFINE w1 == <<"**", "{{status_emoji}}", "{{title}}", "**", "{{body}}">>
           w2 == <<"-", "{{key}}", ":", "{{value}}">>
           w3 == <<"link", "{{url}}">>
           w4 == <<"footer", "{{timestamp}}">>
           n1 == OneNode("text", "other", w1)
           n2 == OneNode("each", "other", w2)
           n3 == OneNode("if", "url", w3)
           n4 == OneNode("text", "other", w4)
           s == <<n1, n2, n3, n4>>
           star == <<"**">>
           link == <<"link">>
           dash == <<"-">>
           colon == <<":">>
           emoji == <<Emoji[Status]>>
           foot == <<"footer">>
           time == <<Timestamp>>
           url == FlattenSeq(ctx.url)
           rows == [i \in DOMAIN ctx.fields |-> Cat(Cat(Cat(dash, ctx.fields[i].key), colon), ctx.fields[i].value)]
           m1 == Cat(Cat(Cat(Cat(star, emoji), ctx.title), star), ctx.body)
           m2 == FlattenSeq(rows)
           m3 == IF Present("url") THEN Cat(link, url) ELSE <<>>
           m4 == Cat(foot, time)
<1>1. MarkdownTree.tree = s /\ MarkdownTree.tail = <<>>
  BY OwnNodes DEF MarkdownTree, Element
<1>2. /\ Values(w1, <<>>) = m1 /\ Values(w3, <<>>) = Cat(link, url) /\ Values(w4, <<>>) = m4
      /\ \A i \in DOMAIN ctx.fields : Values(w2, <<ctx.fields[i]>>) = rows[i]
  BY OwnReadings
<1>3. star \in Texts /\ link \in Texts /\ emoji \in Texts /\ foot \in Texts /\ time \in Texts /\ dash \in Texts /\ colon \in Texts
  <2>1. \A e \in Tokens : <<e>> \in Texts
    OBVIOUS
  <2> QED
    BY <2>1, OwnTokens, StatusTokens
<1>4. ctx.title \in Texts /\ ctx.body \in Texts /\ url \in Texts
      /\ \A i \in DOMAIN ctx.fields : ctx.fields[i].key \in Texts /\ ctx.fields[i].value \in Texts
  BY ContextType, FlattenType
<1> HIDE DEF w1, w2, w3, w4, star, link, emoji, foot, time, dash, colon, url
<1>5. m1 \in Texts /\ m3 \in Texts /\ m4 \in Texts
  <2>1. m1 \in Texts
    BY <1>3, <1>4, CatTypes
  <2>2. Cat(link, url) \in Texts /\ Cat(foot, time) \in Texts
    BY <1>3, <1>4, CatTypes
  <2> QED
    BY <2>1, <2>2, NothingIsText
<1>6. m2 \in Texts
  <2>1. \A i \in DOMAIN ctx.fields : Cat(Cat(Cat(dash, ctx.fields[i].key), colon), ctx.fields[i].value) \in Texts
    BY <1>3, <1>4, CatTypes
  <2>2. ctx.fields \in Seq([key : Texts, value : Texts])
    BY ContextType
  <2>3. DOMAIN ctx.fields = 1..Len(ctx.fields) /\ Len(ctx.fields) \in Nat
    BY <2>2
  <2>4. rows \in [1..Len(ctx.fields) -> Texts]
    BY <2>1, <2>3
  <2> HIDE DEF rows
  <2>5. rows \in Seq(Texts)
    BY <2>3, <2>4, IsSequence
  <2> QED
    BY <2>5, FlattenType
<1>7. /\ NodeMeaning(n1) = m1 /\ NodeMeaning(n2) = m2 /\ NodeMeaning(n3) = m3 /\ NodeMeaning(n4) = m4
  <2>1. NodeMeaning(n1) = Values(w1, <<>>) /\ NodeMeaning(n4) = Values(w4, <<>>)
    BY OneNodeMeans
  <2>2. NodeMeaning(n2) = FlattenSeq([i \in DOMAIN ctx.fields |-> Values(w2, <<ctx.fields[i]>>)])
    BY OneNodeMeans
  <2>3. NodeMeaning(n3) = IF Present("url") THEN Values(w3, <<>>) ELSE <<>>
    BY OneNodeMeans
  <2>4. [i \in DOMAIN ctx.fields |-> Values(w2, <<ctx.fields[i]>>)] = rows
    BY <1>2
  <2> HIDE DEF rows, n1, n2, n3, n4
  <2> QED
    BY <1>2, <2>1, <2>2, <2>3, <2>4
<1> DEFINE u == <<m1, m2, m3, m4>>
<1> HIDE DEF n1, n2, n3, n4, m1, m2, m3, m4
<1>8. FlattenSeq([i \in DOMAIN s |-> NodeMeaning(s[i])]) = Cat(Cat(Cat(m1, m2), m3), m4)
  <2>1. /\ DOMAIN s = 1..4 /\ s[1] = n1 /\ s[2] = n2 /\ s[3] = n3 /\ s[4] = n4
        /\ DOMAIN u = 1..4 /\ u[1] = m1 /\ u[2] = m2 /\ u[3] = m3 /\ u[4] = m4 /\ u = [i \in 1..4 |-> u[i]]
    OBVIOUS
  <2>2. \A i \in 1..4 : i = 1 \/ i = 2 \/ i = 3 \/ i = 4
    OBVIOUS
  <2>3. FlattenSeq(u) = Cat(Cat(Cat(m1, m2), m3), m4)
    BY <1>3, <1>5, <1>6, FlattenFour
  <2> HIDE DEF s, u
  <2>4. \A i \in 1..4 : NodeMeaning(s[i]) = u[i]
    BY <1>7, <2>1, <2>2
  <2>5. [i \in DOMAIN s |-> NodeMeaning(s[i])] = u
    BY <2>1, <2>4
  <2> QED
    BY <2>3, <2>5
<1>9. Meaning(MarkdownTree) = Cat(Cat(Cat(Cat(m1, m2), m3), m4), <<>>)
  <2>1. Values(<<>>, <<>>) = <<>>
    BY FlattenEmpty DEF Values
  <2> HIDE DEF s, u
  <2> QED
    BY <1>1, <1>8, <2>1, Zenon DEF Meaning, Cat
<1>10. Meaning(MarkdownTree) = Cat(Cat(Cat(m1, m2), m3), m4)
  <2>1. Cat(Cat(Cat(m1, m2), m3), m4) \in Texts
    BY <1>3, <1>5, <1>6, CatTypes
  <2> QED
    BY <1>9, <2>1, CatNone
<1>11. Given(ctx.url # <<>>, Cat(link, url)) = m3
  <2>1. Present("url") <=> ctx.url # <<>>
    BY DEF Present, Quiet
  <2> QED
    BY <2>1 DEF Given, m3
<1>13. StatusEmoji = emoji
  BY DEF StatusEmoji, Given, emoji
<1>14. FieldLines(dash, <<>>) = m2
  <2> DEFINE lines == [i \in DOMAIN ctx.fields |->
                         Cat(Cat(Cat(Cat(dash, ctx.fields[i].key), colon), ctx.fields[i].value), <<>>)]
  <2>1. ASSUME NEW i \in DOMAIN ctx.fields
        PROVE  Cat(Cat(Cat(Cat(dash, ctx.fields[i].key), colon), ctx.fields[i].value), <<>>)
                 = Cat(Cat(Cat(dash, ctx.fields[i].key), colon), ctx.fields[i].value)
    <3>1. Cat(Cat(Cat(dash, ctx.fields[i].key), colon), ctx.fields[i].value) \in Texts
      BY <1>3, <1>4, CatTypes
    <3> QED
      BY <3>1, CatNone
  <2>2. lines = rows
    BY <2>1
  <2>3. FieldLines(dash, <<>>) = FlattenSeq(lines)
    BY Zenon DEF FieldLines, Cat, colon
  <2> HIDE DEF lines, rows
  <2> QED
    BY <2>2, <2>3 DEF m2
<1>15. <<"footer", Timestamp>> = m4
  BY DEF m4, foot, time, Cat
<1>12. BuiltinMarkdown = Cat(Cat(Cat(m1, m2), m3), m4)
  <2> DEFINE given == Given(ctx.url # <<>>, Cat(link, url))
             lines == FieldLines(dash, <<>>)
             last == <<"footer", Timestamp>>
  <2>1. BuiltinMarkdown =
          Cat(Cat(Cat(Cat(Cat(Cat(Cat(star, StatusEmoji), ctx.title), star), ctx.body), lines), given), last)
    BY Zenon DEF BuiltinMarkdown, Cat, star, link, dash, url
  <2>2. given = m3 /\ lines = m2 /\ last = m4
    BY <1>11, <1>14, <1>15
  <2> HIDE DEF given, lines, last
  <2> QED
    BY <1>13, <2>1, <2>2, Zenon DEF m1
<1> QED
  BY <1>10, <1>12

\* A sequence begins with its beginning, and so does whatever goes on from it.
LEMMA Beginnings ==
  ASSUME NEW S, NEW s \in Seq(S), NEW t \in Seq(S), NEW u \in Seq(S)
  PROVE  /\ IsPrefix(s, Cat(s, t))
         /\ IsPrefix(s, t) => IsPrefix(s, Cat(t, u))
<1>1. IsPrefix(s, Cat(s, t))
  <2>1. Len(s) <= Len(s \o t) /\ SubSeq(s, 1, Len(s)) = SubSeq(s \o t, 1, Len(s))
    OBVIOUS
  <2> QED
    BY <2>1 DEF IsPrefix, Cat
<1>2. ASSUME IsPrefix(s, t) PROVE IsPrefix(s, Cat(t, u))
  <2>1. Len(s) <= Len(t) /\ SubSeq(s, 1, Len(s)) = SubSeq(t, 1, Len(s))
    BY <1>2 DEF IsPrefix
  <2>2. Len(s) <= Len(t \o u) /\ SubSeq(t, 1, Len(s)) = SubSeq(t \o u, 1, Len(s))
    BY <2>1
  <2> QED
    BY <2>1, <2>2 DEF IsPrefix, Cat
<1> QED
  BY <1>1, <1>2

\* A line for each field is a text.
LEMMA LinesType ==
  ASSUME message \in Messages, NEW prefix \in Texts, NEW end \in Texts
  PROVE  FieldLines(prefix, end) \in Texts
<1> DEFINE colon == <<":">>
           lines == [i \in DOMAIN ctx.fields |->
                       Cat(Cat(Cat(Cat(prefix, ctx.fields[i].key), colon), ctx.fields[i].value), end)]
<1>1. colon \in Texts
  <2>1. \A e \in Tokens : <<e>> \in Texts
    OBVIOUS
  <2> QED
    BY <2>1, OwnTokens
<1>2. FieldLines(prefix, end) = FlattenSeq(lines)
  BY Zenon DEF FieldLines, Cat
<1> HIDE DEF colon
<1>3. \A i \in DOMAIN ctx.fields :
        Cat(Cat(Cat(Cat(prefix, ctx.fields[i].key), colon), ctx.fields[i].value), end) \in Texts
  BY <1>1, ContextType, CatTypes
<1>4. ctx.fields \in Seq([key : Texts, value : Texts])
  BY ContextType
<1>5. DOMAIN ctx.fields = 1..Len(ctx.fields) /\ Len(ctx.fields) \in Nat
  BY <1>4
<1>6. lines \in [1..Len(ctx.fields) -> Texts]
  BY <1>3, <1>5
<1> HIDE DEF lines
<1>7. lines \in Seq(Texts)
  BY <1>5, <1>6, IsSequence
<1> QED
  BY <1>2, <1>7, FlattenType

\* The code's own text template means the beginning of what render_text writes of a
\* message that has a status.
LEMMA TextMeans ==
  ASSUME message \in Messages, ctx.status # <<>>
  PROVE  IsPrefix(Meaning(TextTree), BuiltinText)
<1> DEFINE w == <<"{{status_emoji}}", "{{title}}", "nl", "{{body}}">>
           emoji == <<Emoji[Status]>>
           nl == <<"nl">>
           body == ctx.body
           head == Cat(Cat(emoji, ctx.title), nl)
           given == Given(body # <<>>, Cat(body, nl))
           lines == FieldLines(<<>>, nl)
           link == Given(ctx.url # <<>>, Cat(FlattenSeq(ctx.url), nl))
           last == <<"footer", Timestamp>>
<1>1. nl \in Texts /\ emoji \in Texts /\ last \in Texts
  <2>1. \A a, b \in Tokens : <<a>> \in Texts /\ <<a, b>> \in Texts
    OBVIOUS
  <2> QED
    BY <2>1, OwnTokens, StatusTokens
<1>2. ctx.title \in Texts /\ body \in Texts /\ FlattenSeq(ctx.url) \in Texts
  BY ContextType, FlattenType
<1>3. Values(w, <<>>) = Cat(head, body)
  BY OwnReadings
<1>4. Meaning(TextTree) = Values(w, <<>>)
  <2>1. TextTree = Element("text", "none", <<Words(w)>>) /\ w \in Seq(Tokens \ Directives)
    BY OwnTexts DEF TextTree
  <2>2. Values(w, <<>>) \in Texts
    <3> HIDE DEF w, emoji, nl, body
    <3>1. head \in Texts
      BY <1>1, <1>2, CatTypes
    <3> HIDE DEF head
    <3> QED
      BY <1>2, <1>3, <3>1, CatTypes
  <2>3. "text" \in Slots /\ "none" \in Conditions
    BY DEF Slots, Conditions
  <2> HIDE DEF w
  <2> QED
    BY <2>1, <2>2, <2>3, PlainElement
<1>5. BuiltinText = Cat(Cat(Cat(Cat(head, given), lines), link), last)
  <2>1. StatusEmoji = emoji
    BY DEF StatusEmoji, Given
  <2>2. BuiltinText = Cat(Cat(Cat(Cat(Cat(Cat(StatusEmoji, ctx.title), nl), given), lines), link), last)
    BY Zenon DEF BuiltinText, Cat
  <2> HIDE DEF emoji, nl, body, given, lines, link, last
  <2> QED
    BY <2>1, <2>2, Zenon
<1>6. lines \in Texts
  BY <1>1, NothingIsText, LinesType
<1>7. link \in Texts
  BY <1>1, <1>2, CatTypes, NothingIsText DEF Given
<1>8. head \in Texts /\ Cat(body, nl) \in Texts
  BY <1>1, <1>2, CatTypes
<1> HIDE DEF w, emoji, nl, body, head, lines, link, last
<1>9. given \in Texts
  BY <1>8, NothingIsText DEF Given
<1>10. IsPrefix(Cat(head, body), Cat(head, given))
  <2>1. CASE body # <<>>
    <3>1. Cat(head, given) = Cat(Cat(head, body), nl)
      BY <1>1, <1>2, <1>8, <2>1, CatAssociates DEF Given
    <3>2. Cat(head, body) \in Texts
      BY <1>2, <1>8, CatTypes
    <3> QED
      BY <1>1, <3>1, <3>2, Beginnings
  <2>2. CASE body = <<>>
    <3>1. Cat(head, body) = head
      BY <1>8, <2>2, CatNone
    <3> QED
      BY <1>8, <1>9, <3>1, Beginnings
  <2> QED
    BY <2>1, <2>2
<1>11. /\ Cat(head, body) \in Texts /\ Cat(head, given) \in Texts
       /\ Cat(Cat(head, given), lines) \in Texts /\ Cat(Cat(Cat(head, given), lines), link) \in Texts
  BY <1>2, <1>6, <1>7, <1>8, <1>9, CatTypes
<1> HIDE DEF given
<1>12. IsPrefix(Cat(head, body), Cat(Cat(head, given), lines))
  BY <1>6, <1>10, <1>11, Beginnings
<1>13. IsPrefix(Cat(head, body), Cat(Cat(Cat(head, given), lines), link))
  BY <1>7, <1>11, <1>12, Beginnings
<1>14. IsPrefix(Cat(head, body), Cat(Cat(Cat(Cat(head, given), lines), link), last))
  BY <1>1, <1>11, <1>13, Beginnings
<1> QED
  BY <1>3, <1>4, <1>5, <1>14

\* The elements of the example card are proper, and each is shown, or not, as
\* render_feishu_card shows it.
LEMMA ExampleIs ==
  ASSUME message \in Messages, Quiet
  PROVE  /\ Len(ExampleCard) = 7
         /\ \A i \in 1..7 : Proper(ExampleCard[i])
         /\ ShownOf(ExampleCard[1]) = <<At("header", <<Emoji[Status]>> \o ctx.title)>>
         /\ ShownOf(ExampleCard[2]) = Given(ctx.body # <<>>, <<At("div", ctx.body)>>)
         /\ ShownOf(ExampleCard[3]) = Given(ctx.fields # <<>>, <<At("grid", Grid)>>)
         /\ ShownOf(ExampleCard[4]) = Given(ctx.url # <<>>, <<At("hr", <<>>)>>)
         /\ ShownOf(ExampleCard[5]) = Given(ctx.url # <<>>, <<At("button", <<"label">>)>>)
         /\ ShownOf(ExampleCard[6]) = <<At("hr", <<>>)>>
         /\ ShownOf(ExampleCard[7]) = <<At("note", <<"footer", Timestamp>>)>>
<1> DEFINE E == ExampleCard
<1>1. /\ Len(E) = 7
      /\ E[1] = Element("header", "none", <<Words(<<"{{status_emoji}}", "{{title}}">>)>>)
      /\ E[2] = Element("div", "body", <<Words(<<"{{body}}">>)>>)
      /\ E[3] = Element("grid", "fields", <<>>)
      /\ E[4] = Element("hr", "url", <<>>)
      /\ E[5] = Element("button", "url", <<Words(<<"label">>)>>)
      /\ E[6] = Element("hr", "none", <<>>)
      /\ E[7] = Element("note", "none", <<Words(<<"footer", "{{timestamp}}">>)>>)
  BY DEF ExampleCard
<1> HIDE DEF E
<1>2. /\ "header" \in Slots /\ "div" \in Slots /\ "grid" \in Slots /\ "hr" \in Slots /\ "button" \in Slots /\ "note" \in Slots
      /\ "none" \in Conditions /\ "body" \in Conditions /\ "fields" \in Conditions /\ "url" \in Conditions
  BY DEF Slots, Conditions, Fields, IfField
<1>3. /\ Present("body") <=> ctx.body # <<>>
      /\ Present("url") <=> ctx.url # <<>>
      /\ Present("fields") <=> ctx.fields # <<>>
  <2>1. ctx.fields # <<>> <=> Len(ctx.fields) > 0
    BY ContextType
  <2> QED
    BY <2>1 DEF Present, Quiet
<1> DEFINE H == <<Emoji[Status]>> \o ctx.title
           N == <<"footer", Timestamp>>
<1>4. /\ Values(<<"{{status_emoji}}", "{{title}}">>, <<>>) = H /\ Values(<<"{{body}}">>, <<>>) = ctx.body
      /\ Values(<<"label">>, <<>>) = <<"label">> /\ Values(<<"footer", "{{timestamp}}">>, <<>>) = N
      /\ H \in Texts /\ ctx.body \in Texts /\ <<"label">> \in Texts /\ N \in Texts
  <2>1. \A e, f \in Tokens : <<e>> \in Texts /\ <<e, f>> \in Texts
    OBVIOUS
  <2>2. Values(<<"{{status_emoji}}", "{{title}}">>, <<>>) = H
    BY OwnReadings, Zenon DEF Cat
  <2>3. Values(<<"footer", "{{timestamp}}">>, <<>>) = N
    <3>1. N = <<"footer">> \o <<Timestamp>>
      OBVIOUS
    <3> QED
      BY <3>1, OwnReadings, Zenon DEF Cat
  <2>4. H \in Texts
    <3>1. <<Emoji[Status]>> \in Texts /\ ctx.title \in Texts
      BY <2>1, StatusTokens, ContextType
    <3> QED
      BY <3>1
  <2>5. N \in Texts /\ <<"label">> \in Texts
    BY <2>1, OwnTokens, StatusTokens
  <2> HIDE DEF H, N
  <2> QED
    BY <2>2, <2>3, <2>4, <2>5, OwnReadings, ContextType
<1> HIDE DEF H, N
<1>5. ASSUME NEW t, NEW x, Reads(t).text = x
      PROVE  /\ t.cond = "none" /\ t.slot # "button" => ShownOf(t) = <<At(t.slot, x)>>
             /\ t.cond # "none" /\ (t.slot = "button" => t.cond = "url")
                  => ShownOf(t) = Given(Present(t.cond), <<At(t.slot, x)>>)
  <2>1. Reads(t) = At(t.slot, x)
    BY <1>5, ReadsIs, Zenon DEF At
  <2> QED
    BY <2>1 DEF ShownOf, Shows, Given
<1>6. \A slot \in Slots : \A cond \in Conditions : \A t :
        t = Element(slot, cond, <<>>) => Proper(t) /\ t.slot = slot /\ t.cond = cond
  BY EmptyElement
<1>7. Proper(E[1]) /\ ShownOf(E[1]) = <<At("header", H)>>
  <2> DEFINE t == E[1]
             w == <<"{{status_emoji}}", "{{title}}">>
  <2>1. t = Element("header", "none", <<Words(w)>>) /\ w \in Seq(Tokens \ Directives) /\ Values(w, <<>>) \in Texts
    BY <1>1, <1>4, OwnTexts
  <2>2. Proper(t) /\ t.slot = "header" /\ t.cond = "none" /\ TextOf(t) = w
    <3> HIDE DEF t, w
    <3> QED
      BY <1>2, <2>1, PlainElement
  <2>3. Reads(t).text = H
    BY <1>4, <2>2, ReadsIs
  <2> HIDE DEF t, w
  <2>4. ShownOf(t) = <<At(t.slot, H)>>
    BY <1>5, <2>2, <2>3
  <2> QED
    BY <2>2, <2>4 DEF t
<1>8. Proper(E[2]) /\ ShownOf(E[2]) = Given(ctx.body # <<>>, <<At("div", ctx.body)>>)
  <2> DEFINE t == E[2]
             w == <<"{{body}}">>
  <2>1. t = Element("div", "body", <<Words(w)>>) /\ w \in Seq(Tokens \ Directives) /\ Values(w, <<>>) \in Texts
    BY <1>1, <1>4, OwnTexts
  <2>2. Proper(t) /\ t.slot = "div" /\ t.cond = "body" /\ Meaning(t) = Values(w, <<>>)
    <3> HIDE DEF t, w
    <3> QED
      BY <1>2, <2>1, PlainElement
  <2>3. Reads(t).text = ctx.body
    BY <1>4, <2>2, ReadsIs
  <2> HIDE DEF t, w
  <2>4. ShownOf(t) = Given(Present(t.cond), <<At(t.slot, ctx.body)>>)
    BY <1>5, <2>2, <2>3
  <2> QED
    BY <1>3, <2>2, <2>4 DEF t, Given
<1>9. Proper(E[3]) /\ ShownOf(E[3]) = Given(ctx.fields # <<>>, <<At("grid", Grid)>>)
  <2> DEFINE t == E[3]
  <2>1. Proper(t) /\ t.slot = "grid" /\ t.cond = "fields"
    <3>1. t = Element("grid", "fields", <<>>)
      BY <1>1
    <3> HIDE DEF t
    <3> QED
      BY <1>2, <1>6, <3>1
  <2>2. Reads(t).text = Grid
    BY <2>1, ReadsIs, GridIs
  <2> HIDE DEF t
  <2>3. ShownOf(t) = Given(Present(t.cond), <<At(t.slot, Grid)>>)
    BY <1>5, <2>1, <2>2
  <2> QED
    BY <1>3, <2>1, <2>3 DEF t, Given
<1>10. Proper(E[4]) /\ ShownOf(E[4]) = Given(ctx.url # <<>>, <<At("hr", <<>>)>>)
  <2> DEFINE t == E[4]
  <2>1. Proper(t) /\ t.slot = "hr" /\ t.cond = "url"
    <3>1. t = Element("hr", "url", <<>>)
      BY <1>1
    <3> HIDE DEF t
    <3> QED
      BY <1>2, <1>6, <3>1
  <2>2. Reads(t).text = <<>>
    BY <2>1, ReadsIs
  <2> HIDE DEF t
  <2>3. ShownOf(t) = Given(Present(t.cond), <<At(t.slot, <<>>)>>)
    BY <1>5, <2>1, <2>2
  <2> QED
    BY <1>3, <2>1, <2>3 DEF t, Given
<1>11. Proper(E[5]) /\ ShownOf(E[5]) = Given(ctx.url # <<>>, <<At("button", <<"label">>)>>)
  <2> DEFINE t == E[5]
             w == <<"label">>
  <2>1. t = Element("button", "url", <<Words(w)>>) /\ w \in Seq(Tokens \ Directives) /\ Values(w, <<>>) \in Texts
    BY <1>1, <1>4, OwnTexts
  <2>2. Proper(t) /\ t.slot = "button" /\ t.cond = "url" /\ TextOf(t) = w
    <3> HIDE DEF t, w
    <3> QED
      BY <1>2, <2>1, PlainElement
  <2>3. Reads(t).text = w
    BY <1>4, <2>2, ReadsIs
  <2> HIDE DEF t, w
  <2>4. ShownOf(t) = Given(Present(t.cond), <<At(t.slot, w)>>)
    BY <1>5, <2>2, <2>3
  <2> QED
    BY <1>3, <2>2, <2>4 DEF t, w, Given
<1>12. Proper(E[6]) /\ ShownOf(E[6]) = <<At("hr", <<>>)>>
  <2> DEFINE t == E[6]
  <2>1. Proper(t) /\ t.slot = "hr" /\ t.cond = "none"
    <3>1. t = Element("hr", "none", <<>>)
      BY <1>1
    <3> HIDE DEF t
    <3> QED
      BY <1>2, <1>6, <3>1
  <2>2. Reads(t).text = <<>>
    BY <2>1, ReadsIs
  <2> HIDE DEF t
  <2>3. ShownOf(t) = <<At(t.slot, <<>>)>>
    BY <1>5, <2>1, <2>2
  <2> QED
    BY <2>1, <2>3 DEF t
<1>13. Proper(E[7]) /\ ShownOf(E[7]) = <<At("note", N)>>
  <2> DEFINE t == E[7]
             w == <<"footer", "{{timestamp}}">>
  <2>1. t = Element("note", "none", <<Words(w)>>) /\ w \in Seq(Tokens \ Directives) /\ Values(w, <<>>) \in Texts
    BY <1>1, <1>4, OwnTexts
  <2>2. Proper(t) /\ t.slot = "note" /\ t.cond = "none" /\ TextOf(t) = w
    <3> HIDE DEF t, w
    <3> QED
      BY <1>2, <2>1, PlainElement
  <2>3. Reads(t).text = N
    BY <1>4, <2>2, ReadsIs
  <2> HIDE DEF t, w
  <2>4. ShownOf(t) = <<At(t.slot, N)>>
    BY <1>5, <2>2, <2>3
  <2> QED
    BY <2>2, <2>4 DEF t
<1>14. \A i \in 1..7 : Proper(E[i])
  <2>1. \A i \in 1..7 : i = 1 \/ i = 2 \/ i = 3 \/ i = 4 \/ i = 5 \/ i = 6 \/ i = 7
    OBVIOUS
  <2> QED
    BY <1>7, <1>8, <1>9, <1>10, <1>11, <1>12, <1>13, <2>1
<1> QED
  BY <1>1, <1>7, <1>8, <1>9, <1>10, <1>11, <1>12, <1>13, <1>14 DEF E, H, N

\* A sequence and two more elements.
LEMMA TwoMore ==
  ASSUME NEW S, NEW s \in Seq(S), NEW a \in S, NEW b \in S, NEW u, u = Append(Append(s, a), b)
  PROVE  /\ Len(u) = Len(s) + 2 /\ u[Len(s) + 1] = a /\ u[Len(s) + 2] = b
         /\ \A i \in 1..Len(s) : u[i] = s[i]
<1>1. Append(s, a) \in Seq(S)
  OBVIOUS
<1>2. /\ Len(Append(s, a)) = Len(s) + 1 /\ Append(s, a)[Len(s) + 1] = a
      /\ \A i \in 1..Len(s) : Append(s, a)[i] = s[i]
  OBVIOUS
<1> DEFINE t == Append(s, a)
<1>3. t \in Seq(S) /\ Len(s) \in Nat
  BY <1>1
<1> HIDE DEF t
<1>4. /\ Len(Append(t, b)) = Len(t) + 1 /\ Append(t, b)[Len(t) + 1] = b
      /\ \A i \in 1..Len(t) : Append(t, b)[i] = t[i]
  BY <1>3
<1>5. Len(t) = Len(s) + 1 /\ t[Len(s) + 1] = a /\ (\A i \in 1..Len(s) : t[i] = s[i]) /\ u = Append(t, b)
  BY <1>1, <1>2 DEF t
<1> QED
  BY <1>3, <1>4, <1>5

\* What is expected of the example card: the built-in card, and the two texts of the
\* code's own behind it.
LEMMA ExampleExpected ==
  ASSUME message \in Messages, Meant, message.format = "card", message.trees = ExampleCard
  PROVE  /\ Expected = Append(Append(BuiltinCard, Reads(TextTree)), Reads(MarkdownTree))
         /\ BuiltinCard \in Seq(Shown) /\ Reads(TextTree) \in Shown /\ Reads(MarkdownTree) \in Shown
<1> DEFINE s == AllShown
           F(k) == FlattenSeq(SubSeq(s, 1, k))
           h == <<At("header", <<Emoji[Status]>> \o ctx.title)>>
           d == Given(ctx.body # <<>>, <<At("div", ctx.body)>>)
           g == Given(ctx.fields # <<>>, <<At("grid", Grid)>>)
           r == At("hr", <<>>)
           b == At("button", <<"label">>)
           u1 == Given(ctx.url # <<>>, <<r>>)
           u2 == Given(ctx.url # <<>>, <<b>>)
           n == At("note", <<"footer", Timestamp>>)
           x == Reads(TextTree)
           y == Reads(MarkdownTree)
<1>1. Items \in Seq(Trees) /\ s \in Seq(Seq(Shown)) /\ Len(s) = Len(Items)
      /\ \A i \in 1..Len(Items) : s[i] = ShownOf(Items[i])
  BY ShownType
<1>2. Len(Items) = 9 /\ (\A i \in 1..7 : Items[i] = ExampleCard[i]) /\ Items[8] = TextTree /\ Items[9] = MarkdownTree
  <2> DEFINE T == message.trees
             t1 == TextTree
             t2 == MarkdownTree
  <2>1. Items = T \o <<t1, t2>>
    BY DEF Items
  <2>2. T \in Seq(Trees) /\ Len(T) = 7 /\ \A i \in 1..7 : T[i] = ExampleCard[i]
    BY TreesConstant, ExampleIs DEF Meant
  <2> HIDE DEF T, t1, t2
  <2>3. t1 \in Trees /\ t2 \in Trees
    BY TextTreeIs, MarkdownTreeIs DEF t1, t2
  <2>4. /\ Len(Items) = Len(T) + 2 /\ Items[Len(T) + 1] = t1 /\ Items[Len(T) + 2] = t2
        /\ \A i \in 1..Len(T) : Items[i] = T[i]
    <3>1. T \in Seq(Trees)
      BY <2>2
    <3>2. T \o <<t1, t2>> = Append(Append(T, t1), t2)
      BY <2>3, <3>1
    <3>3. Items = Append(Append(T, t1), t2)
      BY <2>1, <3>2, Zenon
    <3> QED
      BY <2>3, <3>1, <3>3, TwoMore
  <2> QED
    BY <2>2, <2>4 DEF t1, t2
<1>3. /\ s[1] = h /\ s[2] = d /\ s[3] = g /\ s[4] = u1 /\ s[5] = u2 /\ s[6] = <<r>> /\ s[7] = <<n>>
  <2>1. s[1] = ShownOf(ExampleCard[1]) /\ s[2] = ShownOf(ExampleCard[2]) /\ s[3] = ShownOf(ExampleCard[3])
        /\ s[4] = ShownOf(ExampleCard[4]) /\ s[5] = ShownOf(ExampleCard[5]) /\ s[6] = ShownOf(ExampleCard[6])
        /\ s[7] = ShownOf(ExampleCard[7])
    <3> HIDE DEF s
    <3> QED
      BY <1>1, <1>2
  <2> HIDE DEF s
  <2> QED
    BY <2>1, ExampleIs DEF Meant
<1>4. s[8] = <<x>> /\ s[9] = <<y>>
  <2>1. s[8] = ShownOf(TextTree) /\ s[9] = ShownOf(MarkdownTree)
    <3> HIDE DEF s
    <3> QED
      BY <1>1, <1>2
  <2>2. Shows(TextTree) /\ Shows(MarkdownTree)
    BY TextTreeIs, MarkdownTreeIs DEF Shows
  <2> HIDE DEF s
  <2> QED
    BY <2>1, <2>2 DEF ShownOf
<1>5. x \in Shown /\ y \in Shown
  BY TextTreeIs, MarkdownTreeIs, ReadsType DEF Meant
<1>6. /\ F(1) = h /\ F(2) = Cat(F(1), d) /\ F(3) = Cat(F(2), g) /\ F(4) = Cat(F(3), u1) /\ F(5) = Cat(F(4), u2)
      /\ F(6) = Cat(F(5), <<r>>) /\ F(7) = Cat(F(6), <<n>>) /\ F(8) = Cat(F(7), <<x>>) /\ F(9) = Cat(F(8), <<y>>)
      /\ F(1) \in Seq(Shown) /\ F(2) \in Seq(Shown) /\ F(3) \in Seq(Shown) /\ F(4) \in Seq(Shown)
      /\ F(5) \in Seq(Shown) /\ F(6) \in Seq(Shown) /\ F(7) \in Seq(Shown) /\ F(8) \in Seq(Shown)
      /\ h \in Seq(Shown) /\ d \in Seq(Shown) /\ g \in Seq(Shown) /\ u1 \in Seq(Shown) /\ u2 \in Seq(Shown)
      /\ <<r>> \in Seq(Shown) /\ <<n>> \in Seq(Shown)
  <2> HIDE DEF h, d, g, r, b, u1, u2, n, x, y, s
  <2>0. Len(s) = 9
    BY <1>1, <1>2
  <2>1. \A k \in 0..8 : F(k + 1) = Cat(F(k), s[k + 1]) /\ F(k) \in Seq(Shown) /\ s[k + 1] \in Seq(Shown)
    <3> SUFFICES ASSUME NEW k \in 0..8
                 PROVE  F(k + 1) = Cat(F(k), s[k + 1]) /\ F(k) \in Seq(Shown) /\ s[k + 1] \in Seq(Shown)
      OBVIOUS
    <3>1. k \in Nat /\ k + 1 <= Len(s)
      BY <2>0
    <3>2. /\ FlattenSeq(SubSeq(s, 1, k + 1)) = Cat(FlattenSeq(SubSeq(s, 1, k)), s[k + 1])
          /\ FlattenSeq(SubSeq(s, 1, k)) \in Seq(Shown) /\ s[k + 1] \in Seq(Shown)
      BY <1>1, <3>1, FlattenGrows
    <3> QED
      BY <3>2, Zenon DEF F
  <2>2. F(0) = <<>>
    <3>1. SubSeq(s, 1, 0) = <<>>
      BY <1>1
    <3> QED
      BY <3>1, FlattenEmpty
  <2> HIDE DEF F
  <2>3. F(1) = Cat(F(0), s[1]) /\ s[1] \in Seq(Shown)
    BY <2>1
  <2>4. F(1) = h
    BY <1>3, <2>2, <2>3, CatNone
  <2>5. F(2) = Cat(F(1), s[2]) /\ F(3) = Cat(F(2), s[3]) /\ F(4) = Cat(F(3), s[4]) /\ F(5) = Cat(F(4), s[5])
    BY <2>1
  <2>6. F(6) = Cat(F(5), s[6]) /\ F(7) = Cat(F(6), s[7]) /\ F(8) = Cat(F(7), s[8]) /\ F(9) = Cat(F(8), s[9])
    BY <2>1
  <2>7. /\ F(1) \in Seq(Shown) /\ F(2) \in Seq(Shown) /\ F(3) \in Seq(Shown) /\ F(4) \in Seq(Shown)
        /\ F(5) \in Seq(Shown) /\ F(6) \in Seq(Shown) /\ F(7) \in Seq(Shown) /\ F(8) \in Seq(Shown)
    BY <2>1
  <2>8. /\ s[2] \in Seq(Shown) /\ s[3] \in Seq(Shown) /\ s[4] \in Seq(Shown) /\ s[5] \in Seq(Shown)
        /\ s[6] \in Seq(Shown) /\ s[7] \in Seq(Shown)
    BY <2>1
  <2> QED
    BY <1>3, <1>4, <2>3, <2>4, <2>5, <2>6, <2>7, <2>8
<1>7. Expected = F(9)
  <2>1. SubSeq(s, 1, 9) = s
    <3> HIDE DEF s
    <3> QED
      BY <1>1, <1>2, SubSeqFull
  <2> QED
    BY <2>1, ExpectedIs
<1>8. Given(ctx.url # <<>>, <<r, b>>) = Cat(u1, u2)
  <2> HIDE DEF r, b
  <2>1. <<r, b>> = Append(<<r>>, b)
    OBVIOUS
  <2>2. <<r>> \in Seq({r, b})
    OBVIOUS
  <2>3. Append(<<r>>, b) = Cat(<<r>>, <<b>>)
    BY <2>2, AppendIsCat
  <2>4. Cat(<<>>, <<>>) = <<>>
    BY CatNone, NothingIsText
  <2> QED
    BY <2>1, <2>3, <2>4 DEF Given, u1, u2
<1>9. <<r, n>> = Cat(<<r>>, <<n>>)
  <2> HIDE DEF r, n
  <2>1. <<r, n>> = Append(<<r>>, n) /\ <<r>> \in Seq({r, n})
    OBVIOUS
  <2> QED
    BY <2>1, AppendIsCat
<1>10. BuiltinCard = Cat(Cat(Cat(Cat(h, d), g), Cat(u1, u2)), Cat(<<r>>, <<n>>))
  <2>1. BuiltinCard = Cat(Cat(Cat(Cat(h, d), g), Given(ctx.url # <<>>, <<r, b>>)), <<r, n>>)
    BY Zenon DEF BuiltinCard, Cat
  <2> HIDE DEF h, d, g, r, b, u1, u2, n
  <2> QED
    BY <1>8, <1>9, <2>1, Zenon
<1> HIDE DEF h, d, g, r, b, u1, u2, n, x, y, s, F
<1>11. BuiltinCard = F(7)
  <2>1. Cat(Cat(Cat(h, d), g), Cat(u1, u2)) = Cat(Cat(Cat(Cat(h, d), g), u1), u2)
    BY <1>6, CatAssociates
  <2>2. Cat(F(5), Cat(<<r>>, <<n>>)) = Cat(Cat(F(5), <<r>>), <<n>>)
    <3>1. \A v, w, z \in Seq(Shown) : Cat(Cat(v, w), z) = Cat(v, Cat(w, z))
      BY CatAssociates
    <3>2. F(5) \in Seq(Shown) /\ <<r>> \in Seq(Shown) /\ <<n>> \in Seq(Shown)
      BY <1>6
    <3> DEFINE q == F(5)
               v == <<r>>
               w == <<n>>
    <3> HIDE DEF q, v, w
    <3>3. q \in Seq(Shown) /\ v \in Seq(Shown) /\ w \in Seq(Shown)
      BY <3>2 DEF q, v, w
    <3>4. Cat(q, Cat(v, w)) = Cat(Cat(q, v), w)
      BY <3>1, <3>3, Zenon
    <3> QED
      BY <3>4 DEF q, v, w
  <2> QED
    BY <1>6, <1>10, <2>1, <2>2
<1>12. F(8) = Append(F(7), x) /\ F(9) = Append(F(8), y)
  BY <1>5, <1>6, AppendIsCat
<1>13. BuiltinCard \in Seq(Shown)
  BY <1>6, <1>11
<1> QED
  BY <1>5, <1>7, <1>11, <1>12, <1>13, Zenon DEF x, y

\* The example card of json_template.rs is the card that builtin.rs makes, whatever the
\* message; where it has a status, the markdown that json_template.rs puts beside it is
\* the built-in markdown too, and the text the beginning of the built-in text.
THEOREM BuiltinCardAgrees == Spec => []BuiltinAgrees
<1>1. ASSUME EngineInv, RendersMeaning PROVE BuiltinAgrees
  <2> SUFFICES ASSUME phase = "done", Quiet, message.format = "card", message.trees = ExampleCard
               PROVE  /\ Front(Front(out)) = BuiltinCard
                      /\ ctx.status # <<>> => /\ Last(out) = At("markdown", BuiltinMarkdown)
                                             /\ IsPrefix(Last(Front(out)).text, BuiltinText)
    BY Zenon DEF BuiltinAgrees
  <2>1. message \in Messages
    BY <1>1 DEF EngineInv
  <2>2. \A i \in DOMAIN message.trees : Proper(message.trees[i])
    <3>1. message.trees \in Seq(Trees)
      BY <2>1, TreesConstant
    <3>2. Len(message.trees) = 7 /\ \A i \in 1..7 : Proper(message.trees[i])
      BY <2>1, ExampleIs
    <3> QED
      BY <3>1, <3>2
  <2>3. Meant
    BY <2>2 DEF Meant
  <2>4. out = Expected
    BY <1>1, <2>2 DEF RendersMeaning
  <2>5. /\ Expected = Append(Append(BuiltinCard, Reads(TextTree)), Reads(MarkdownTree))
        /\ BuiltinCard \in Seq(Shown) /\ Reads(TextTree) \in Shown /\ Reads(MarkdownTree) \in Shown
    BY <2>1, <2>3, ExampleExpected
  <2>6. ctx.status # <<>> => Reads(MarkdownTree) = At("markdown", BuiltinMarkdown)
    <3> DEFINE t == MarkdownTree
    <3>1. Reads(t) = [slot |-> t.slot, text |-> Reads(t).text] /\ Reads(t).text = Meaning(t) /\ t.slot = "markdown"
      BY MarkdownTreeIs, ReadsIs
    <3>2. ctx.status # <<>> => Meaning(t) = BuiltinMarkdown
      BY <2>1, MarkdownMeans
    <3> HIDE DEF t
    <3>3. ctx.status # <<>> => Reads(t) = [slot |-> "markdown", text |-> BuiltinMarkdown]
      BY <3>1, <3>2
    <3> QED
      BY <3>3 DEF t, At
  <2>12. ctx.status # <<>> => IsPrefix(Reads(TextTree).text, BuiltinText)
    <3>1. Reads(TextTree).text = Meaning(TextTree)
      BY TextTreeIs, ReadsIs
    <3> QED
      BY <2>1, <3>1, TextMeans
  <2> DEFINE B == BuiltinCard
             x == Reads(TextTree)
             m == Reads(MarkdownTree)
  <2>7. out = Append(Append(B, x), m) /\ B \in Seq(Shown) /\ x \in Shown /\ m \in Shown
    BY <2>4, <2>5
  <2> HIDE DEF B, x, m
  <2>8. Append(B, x) \in Seq(Shown)
    BY <2>7
  <2>9. Last(out) = m
    BY <2>7, <2>8, LastOfAppend
  <2>10. \A s \in Seq(Shown), e \in Shown : Front(Append(s, e)) = s
    BY DEF Front
  <2>11. Front(Front(out)) = B /\ Front(out) = Append(B, x)
    BY <2>7, <2>8, <2>10
  <2>13. Last(Front(out)) = x
    BY <2>7, <2>11, LastOfAppend
  <2> QED
    BY <2>6, <2>9, <2>11, <2>12, <2>13 DEF B, x, m
<1>2. Init => EngineInv /\ RenderInv
  BY InitEngine, InitRenders
<1>3. EngineInv /\ RenderInv /\ [Next]_vars => (EngineInv /\ RenderInv)'
  BY EngineStep, RenderStep
<1>4. EngineInv /\ RenderInv => BuiltinAgrees
  BY <1>1, RenderedIsMeant
<1> QED
  BY <1>2, <1>3, <1>4, PTL DEF Spec
=============================================================================
