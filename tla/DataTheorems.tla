---------------------------- MODULE DataTheorems ----------------------------
(***************************************************************************)
(* Induction and recursion for the proofs of this project.  The induction  *)
(* theorems of the library take a predicate as a parameter, which the      *)
(* provers cannot instantiate; here a predicate is a set and the step of a *)
(* recursion is a function, so that first-order provers can use them.      *)
(* From these follow the facts about sums and concatenations, which the    *)
(* models take from the community modules, that the proofs need; and there *)
(* are those about division with remainder.                                *)
(***************************************************************************)
EXTENDS SequencesExt, FiniteSetTheorems, SequenceTheorems, TLAPS

LtNat == {x \in Nat \X Nat : x[1] < x[2]}

(* A set of naturals that is not empty has a least element. *)
LEMMA LeastNatural ==
    ASSUME NEW T, T \subseteq Nat, T # {}
    PROVE  \E x \in T : \A y \in T : x <= y
<1>1. IsWellFoundedOn(LtNat, Nat)
  <2>1. LtNat = OpToRel(<, Nat)
    BY DEF LtNat, OpToRel
  <2>2. IsWellFoundedOn(OpToRel(<, Nat), Nat)
    BY NatLessThanWellFounded
  <2> QED
    BY <2>1, <2>2, Zenon
<1>2. PICK x \in T : \A y \in T : <<y, x>> \notin LtNat
  BY <1>1, WFMin
<1>3. \A y \in T : x \in Nat /\ y \in Nat /\ ~(y < x)
  BY <1>2 DEF LtNat
<1> QED
  BY <1>3

(* Induction: a set that holds 0, and n + 1 with every n, holds all        *)
(* naturals.                                                               *)
THEOREM NatSetInduction ==
    ASSUME NEW T, 0 \in T, \A n \in Nat : n \in T => n + 1 \in T
    PROVE  Nat \subseteq T
<1> SUFFICES ASSUME Nat \ T # {}
             PROVE  FALSE
  OBVIOUS
<1>1. PICK x \in Nat \ T : \A y \in Nat \ T : x <= y
  BY LeastNatural
<1>2. x # 0 /\ x - 1 \in Nat /\ ~(x <= x - 1) /\ (x - 1) + 1 = x
  BY <1>1
<1>3. x - 1 \in T
  BY <1>1, <1>2
<1> QED
  BY <1>1, <1>2, <1>3

(* The first n + 1 values of a recursion: from a by the step function s. *)
IsStart(g, V, a, s, n) ==
    /\ g \in [0..n -> V]
    /\ g[0] = a
    /\ \A i \in 0..(n - 1) : g[i + 1] = s[<<i, g[i]>>]

(* All the values of that recursion. *)
Iterates(F, V, a, s) ==
    /\ F \in [Nat -> V]
    /\ F[0] = a
    /\ \A n \in Nat : F[n + 1] = s[<<n, F[n]>>]

(* Recursion: a step function on V, which may use the index, is iterated   *)
(* from a by some function on the naturals.                                *)
THEOREM NatRecursion ==
    ASSUME NEW V, NEW a \in V, NEW s \in [Nat \X V -> V]
    PROVE  \E F : Iterates(F, V, a, s)
<1> DEFINE T == {n \in Nat : \E g : IsStart(g, V, a, s, n)}
           G(n) == CHOOSE g : IsStart(g, V, a, s, n)
<1>1. \A n \in Nat : IsStart(G(n), V, a, s, n)
  <2>1. 0 \in T
    <3>1. IsStart([i \in 0..0 |-> a], V, a, s, 0)
      BY DEF IsStart
    <3> QED
      BY <3>1
  <2>2. ASSUME NEW n \in Nat, n \in T
        PROVE  n + 1 \in T
    <3>1. PICK g : IsStart(g, V, a, s, n)
      BY <2>2
    <3> DEFINE h == [i \in 0..(n + 1) |-> IF i = n + 1 THEN s[<<n, g[n]>>] ELSE g[i]]
    <3>2. g[n] \in V /\ s[<<n, g[n]>>] \in V
      BY <3>1 DEF IsStart
    <3>3. h \in [0..(n + 1) -> V]
      BY <3>1, <3>2 DEF IsStart
    <3>4. h[0] = a
      BY <3>1 DEF IsStart
    <3>5. ASSUME NEW i \in 0..n
          PROVE  h[i + 1] = s[<<i, h[i]>>]
      <4>1. CASE i = n
        <5>1. h[n + 1] = s[<<n, g[n]>>] /\ h[n] = g[n]
          OBVIOUS
        <5> QED
          BY <4>1, <5>1
      <4>2. CASE i # n
        <5>1. i \in 0..(n - 1) /\ i + 1 \in 0..n
          BY <4>2
        <5>2. h[i + 1] = g[i + 1] /\ h[i] = g[i]
          BY <5>1
        <5> QED
          BY <3>1, <5>1, <5>2 DEF IsStart
      <4> QED
        BY <4>1, <4>2
    <3>6. IsStart(h, V, a, s, n + 1)
      <4> HIDE DEF h
      <4> QED
        BY <3>3, <3>4, <3>5 DEF IsStart
    <3> QED
      BY <3>6
  <2>3. Nat \subseteq T
    <3> HIDE DEF T
    <3> QED
      BY <2>1, <2>2, NatSetInduction
  <2> QED
    BY <2>3
<1> HIDE DEF G
<1>2. ASSUME NEW m \in Nat, NEW g, IsStart(g, V, a, s, m),
             NEW k \in Nat, NEW h, IsStart(h, V, a, s, k)
      PROVE  \A n \in Nat : n <= m /\ n <= k => g[n] = h[n]
  <2> DEFINE U == {n \in Nat : n <= m /\ n <= k => g[n] = h[n]}
  <2>1. 0 \in U
    BY <1>2 DEF IsStart
  <2>2. ASSUME NEW n \in Nat, n \in U
        PROVE  n + 1 \in U
    <3> SUFFICES ASSUME n + 1 <= m, n + 1 <= k
                 PROVE  g[n + 1] = h[n + 1]
      OBVIOUS
    <3>1. n \in 0..(m - 1) /\ n \in 0..(k - 1) /\ g[n] = h[n]
      BY <2>2
    <3> QED
      BY <1>2, <3>1 DEF IsStart
  <2>3. Nat \subseteq U
    <3> HIDE DEF U
    <3> QED
      BY <2>1, <2>2, NatSetInduction
  <2> QED
    BY <2>3
<1> DEFINE F == [n \in Nat |-> G(n)[n]]
<1>3. F \in [Nat -> V]
  BY <1>1 DEF IsStart
<1>4. F[0] = a
  BY <1>1 DEF IsStart
<1>5. ASSUME NEW n \in Nat
      PROVE  F[n + 1] = s[<<n, F[n]>>]
  <2>1. G(n + 1)[n + 1] = s[<<n, G(n + 1)[n]>>]
    BY <1>1 DEF IsStart
  <2>2. G(n + 1)[n] = G(n)[n]
    BY <1>1, <1>2
  <2> QED
    BY <2>1, <2>2
<1>6. Iterates(F, V, a, s)
  <2> HIDE DEF F
  <2> QED
    BY <1>3, <1>4, <1>5 DEF Iterates
<1> QED
  BY <1>6

-----------------------------------------------------------------------------
(* Sums over finite sets. *)

AnyOf(T) == CHOOSE x \in T : TRUE

(* What the recursive function in the definition of a fold computes. *)
Sums(it, f, S) ==
    it = [T \in SUBSET S |->
             IF T = {} THEN 0 ELSE f[AnyOf(T)] + it[T \ {AnyOf(T)}]]

SumsOf(f, S) == CHOOSE it : Sums(it, f, S)

(* SumFunctionOnSet is this recursion. *)
LEMMA SumIsRecursion ==
    ASSUME NEW f, NEW S
    PROVE  SumFunctionOnSet(f, S) = SumsOf(f, S)[S]
BY DEF SumFunctionOnSet, FoldFunctionOnSet, MapThenFoldSet, SumsOf, Sums, AnyOf

(* Induction over the subsets of a finite set. *)
LEMMA SubsetInduction ==
    ASSUME NEW S, IsFiniteSet(S), NEW P, {} \in P,
           \A T \in SUBSET S : T # {} /\ (\A x \in T : T \ {x} \in P) => T \in P
    PROVE  SUBSET S \subseteq P
<1> DEFINE N == {n \in Nat : \A T \in SUBSET S : Cardinality(T) = n => T \in P}
<1>1. \A T \in SUBSET S : IsFiniteSet(T) /\ Cardinality(T) \in Nat
  BY FS_Subset, FS_CardinalityType
<1>2. 0 \in N
  BY <1>1, FS_EmptySet
<1>3. ASSUME NEW n \in Nat, n \in N
      PROVE  n + 1 \in N
  <2> SUFFICES ASSUME NEW T \in SUBSET S, Cardinality(T) = n + 1
               PROVE  T \in P
    OBVIOUS
  <2>1. T # {}
    <3>1. Cardinality({}) = 0 /\ n + 1 # 0
      BY FS_EmptySet
    <3> QED
      BY <3>1
  <2>2. \A x \in T : Cardinality(T \ {x}) = n
    BY <1>1, FS_RemoveElement
  <2>3. \A x \in T : T \ {x} \in P
    BY <1>3, <2>2
  <2> QED
    BY <2>1, <2>3
<1>4. Nat \subseteq N
  <2> HIDE DEF N
  <2> QED
    BY <1>2, <1>3, NatSetInduction
<1> QED
  BY <1>1, <1>4

(* The recursion over the subsets of a finite set is well-defined. *)
LEMMA SumsExist ==
    ASSUME NEW S, IsFiniteSet(S), NEW f, \A x \in S : f[x] \in Int
    PROVE  Sums(SumsOf(f, S), f, S) /\ SumsOf(f, S) \in [SUBSET S -> Int]
<1> DEFINE V == [SUBSET S -> Int]
           zero == [T \in SUBSET S |-> 0]
           Add(g) == [T \in SUBSET S |->
                        IF T = {} THEN 0 ELSE f[AnyOf(T)] + g[T \ {AnyOf(T)}]]
           step == [x \in Nat \X V |-> Add(x[2])]
<1>1. \A T \in SUBSET S : T # {} => AnyOf(T) \in T /\ f[AnyOf(T)] \in Int
  BY DEF AnyOf
<1>2. \A T \in SUBSET S : T \ {AnyOf(T)} \in SUBSET S
  OBVIOUS
<1>3. \A g \in V : Add(g) \in V
  BY <1>1, <1>2
<1>4. zero \in V
  OBVIOUS
<1>5. step \in [Nat \X V -> V]
  <2> HIDE DEF Add, V
  <2> QED
    BY <1>3
<1>6. PICK F \in [Nat -> V] :
         F[0] = zero /\ \A n \in Nat : F[n + 1] = step[<<n, F[n]>>]
  <2>1. PICK W, z, st : W = V /\ z = zero /\ st = step
    OBVIOUS
  <2> HIDE DEF step, V, zero
  <2>2. z \in W /\ st \in [Nat \X W -> W]
    BY <1>4, <1>5, <2>1
  <2>3. PICK F : Iterates(F, W, z, st)
    BY <2>2, NatRecursion
  <2> QED
    BY <2>1, <2>3 DEF Iterates
<1>7. \A n \in Nat : F[n + 1] = Add(F[n])
  <2> HIDE DEF V, Add
  <2> QED
    BY <1>6
<1> DEFINE it == [T \in SUBSET S |-> F[Cardinality(T)][T]]
<1>8. \A T \in SUBSET S : IsFiniteSet(T) /\ Cardinality(T) \in Nat
  BY FS_Subset, FS_CardinalityType
<1>9. it \in V
  BY <1>6, <1>8
<1>10. ASSUME NEW T \in SUBSET S
       PROVE  it[T] = IF T = {} THEN 0 ELSE f[AnyOf(T)] + it[T \ {AnyOf(T)}]
  <2>1. CASE T = {}
    BY <1>6, <2>1, FS_EmptySet
  <2>2. CASE T # {}
    <3>1. PICK U : U = T \ {AnyOf(T)}
      OBVIOUS
    <3>2. /\ U \in SUBSET S /\ Cardinality(U) \in Nat
          /\ Cardinality(T) = Cardinality(U) + 1
      BY <1>1, <1>8, <2>2, <3>1, FS_RemoveElement
    <3>3. F[Cardinality(T)][T] = f[AnyOf(T)] + F[Cardinality(U)][U]
      <4>1. F[Cardinality(T)] = Add(F[Cardinality(U)])
        BY <1>7, <3>2
      <4>2. Add(F[Cardinality(U)])[T] = f[AnyOf(T)] + F[Cardinality(U)][U]
        BY <2>2, <3>1
      <4> QED
        BY <4>1, <4>2
    <3> QED
      BY <2>2, <3>1, <3>2, <3>3
  <2> QED
    BY <2>1, <2>2
<1>11. Sums(it, f, S)
  <2>1. it = [T \in SUBSET S |-> it[T]]
    OBVIOUS
  <2> HIDE DEF it
  <2> QED
    BY <1>10, <2>1 DEF Sums
<1>12. Sums(SumsOf(f, S), f, S)
  BY <1>11 DEF SumsOf
<1>13. ASSUME NEW jt, Sums(jt, f, S)
       PROVE  jt \in [SUBSET S -> Int]
  <2> DEFINE P == {T \in SUBSET S : jt[T] \in Int}
  <2>1. {} \in P
    BY <1>13 DEF Sums
  <2>2. ASSUME NEW T \in SUBSET S, T # {}, \A x \in T : T \ {x} \in P
        PROVE  T \in P
    <3>1. PICK c \in T : c = AnyOf(T)
      BY <1>1, <2>2
    <3>2. jt[T] = f[c] + jt[T \ {c}]
      BY <1>13, <2>2, <3>1 DEF Sums
    <3>3. f[c] \in Int /\ jt[T \ {c}] \in Int
      BY <2>2
    <3> QED
      BY <3>2, <3>3
  <2>3. SUBSET S \subseteq P
    <3> HIDE DEF P
    <3> QED
      BY <2>1, <2>2, SubsetInduction
  <2> QED
    BY <1>13, <2>3 DEF Sums
<1> QED
  BY <1>12, <1>13

(* The order of the additions does not matter. *)
LEMMA SumsAnyOrder ==
    ASSUME NEW S, IsFiniteSet(S), NEW f, \A x \in S : f[x] \in Int,
           NEW T \in SUBSET S, NEW x \in T
    PROVE  SumsOf(f, S)[T] = f[x] + SumsOf(f, S)[T \ {x}]
<1>0. PICK it \in [SUBSET S -> Int] : it = SumsOf(f, S) /\ Sums(it, f, S)
  BY SumsExist
<1> DEFINE P == {U \in SUBSET S : \A y \in U : it[U] = f[y] + it[U \ {y}]}
<1>1. {} \in P
  OBVIOUS
<1>2. ASSUME NEW U \in SUBSET S, U # {}, \A y \in U : U \ {y} \in P
      PROVE  U \in P
  <2> SUFFICES ASSUME NEW y \in U
               PROVE  it[U] = f[y] + it[U \ {y}]
    OBVIOUS
  <2>1. PICK c \in U : it[U] = f[c] + it[U \ {c}]
    <3>1. PICK c \in U : c = AnyOf(U)
      BY <1>2 DEF AnyOf
    <3>2. it[U] = f[c] + it[U \ {c}]
      BY <1>0, <1>2, <3>1 DEF Sums
    <3> QED
      BY <3>2
  <2>2. CASE y = c
    BY <2>1, <2>2
  <2>3. CASE y # c
    <3>1. PICK R : R = U \ {y, c}
      OBVIOUS
    <3>2. (U \ {c}) \ {y} = R /\ (U \ {y}) \ {c} = R
      BY <3>1
    <3>3. it[U \ {c}] = f[y] + it[R]
      BY <1>2, <2>3, <3>2
    <3>4. it[U \ {y}] = f[c] + it[R]
      BY <1>2, <2>3, <3>2
    <3>5. f[y] \in Int /\ f[c] \in Int /\ it[R] \in Int
      BY <3>1
    <3> QED
      BY <2>1, <3>3, <3>4, <3>5
  <2> QED
    BY <2>2, <2>3
<1>3. SUBSET S \subseteq P
  <2> HIDE DEF P
  <2> QED
    BY <1>1, <1>2, SubsetInduction
<1> QED
  BY <1>0, <1>3

(* A sum over a subset is the same with the recursion of the whole set. *)
LEMMA SumsOfSubset ==
    ASSUME NEW S, IsFiniteSet(S), NEW f, \A x \in S : f[x] \in Int,
           NEW T \in SUBSET S
    PROVE  SumsOf(f, S)[T] = SumsOf(f, T)[T]
<1>1. PICK it, jt : it = SumsOf(f, S) /\ jt = SumsOf(f, T)
  OBVIOUS
<1>2. IsFiniteSet(T)
  BY FS_Subset
<1>3. Sums(it, f, S) /\ Sums(jt, f, T)
  BY <1>1, <1>2, SumsExist
<1> DEFINE P == {U \in SUBSET T : it[U] = jt[U]}
<1>4. {} \in P
  BY <1>3 DEF Sums
<1>5. ASSUME NEW U \in SUBSET T, U # {}, \A x \in U : U \ {x} \in P
      PROVE  U \in P
  <2>1. PICK c \in U : c = AnyOf(U)
    BY <1>5 DEF AnyOf
  <2>2. it[U] = f[c] + it[U \ {c}] /\ jt[U] = f[c] + jt[U \ {c}]
    BY <1>3, <1>5, <2>1 DEF Sums
  <2>3. it[U \ {c}] = jt[U \ {c}]
    BY <1>5
  <2> QED
    BY <2>2, <2>3
<1>6. SUBSET T \subseteq P
  <2> HIDE DEF P
  <2> QED
    BY <1>2, <1>4, <1>5, SubsetInduction
<1> QED
  BY <1>1, <1>6

(* The sum over the empty set, and over a set with one element more; its   *)
(* type.                                                                   *)
THEOREM SumOnSet ==
    ASSUME NEW S, IsFiniteSet(S), NEW f, \A x \in S : f[x] \in Int
    PROVE  /\ SumFunctionOnSet(f, S) \in Int
           /\ S = {} => SumFunctionOnSet(f, S) = 0
           /\ \A x \in S :
                 SumFunctionOnSet(f, S) = f[x] + SumFunctionOnSet(f, S \ {x})
<1>1. PICK it : it = SumsOf(f, S)
  OBVIOUS
<1>2. Sums(it, f, S) /\ it \in [SUBSET S -> Int] /\ SumFunctionOnSet(f, S) = it[S]
  BY <1>1, SumsExist, SumIsRecursion
<1>3. S = {} => it[S] = 0
  BY <1>2 DEF Sums
<1>4. ASSUME NEW x \in S
      PROVE  it[S] = f[x] + SumFunctionOnSet(f, S \ {x})
  <2>1. PICK T \in SUBSET S : T = S \ {x}
    OBVIOUS
  <2>2. it[T] = SumFunctionOnSet(f, T)
    BY <1>1, SumsOfSubset, SumIsRecursion
  <2>3. it[S] = f[x] + it[S \ {x}]
    <3>1. S \in SUBSET S
      OBVIOUS
    <3> QED
      BY <1>1, <3>1, SumsAnyOrder
  <2> QED
    BY <2>1, <2>2, <2>3
<1> QED
  BY <1>2, <1>3, <1>4

-----------------------------------------------------------------------------
(* Concatenations of sequences of sequences. *)

(* What the recursive function in the definition of FlattenSeq computes. *)
Flattens(h, seqs) ==
    h = [i \in 1..Len(seqs) |-> IF i = 1 THEN seqs[i] ELSE h[i - 1] \o seqs[i]]

(* FlattenSeq is this recursion. *)
LEMMA FlattenIsRecursion ==
    ASSUME NEW seqs
    PROVE  FlattenSeq(seqs) = IF Len(seqs) = 0 THEN seqs
                              ELSE (CHOOSE h : Flattens(h, seqs))[Len(seqs)]
BY DEF FlattenSeq, Flattens

First(g, n) == [i \in 1..n |-> g[i]]

(* F[n] is the concatenation of the first n of N sequences over A. *)
Concats(F, A, g, N) ==
    /\ \A i \in 1..N : g[i] \in Seq(A)
    /\ F \in [Nat -> Seq(A)]
    /\ F[0] = <<>>
    /\ \A i \in 0..(N - 1) : F[i + 1] = F[i] \o g[i + 1]

(* It is well-defined. *)
LEMMA FlattenPrefixes ==
    ASSUME NEW A, NEW N \in Nat, NEW g, NEW F, Concats(F, A, g, N),
           NEW n \in 0..N
    PROVE  FlattenSeq(First(g, n)) = F[n]
<1> USE DEF Concats
<1>1. PICK seqs : seqs = First(g, n)
  OBVIOUS
<1>2. /\ seqs \in Seq(Seq(A)) /\ Len(seqs) = n
      /\ \A i \in 1..n : seqs[i] = g[i] /\ g[i] \in Seq(A)
  BY <1>1 DEF First
<1>3. CASE n = 0
  <2>1. seqs = <<>>
    BY <1>2, <1>3
  <2> QED
    BY <1>1, <1>2, <1>3, <2>1, FlattenIsRecursion
<1>4. CASE n # 0
  <2>1. PICK h : h = [i \in 1..n |-> F[i]]
    OBVIOUS
  <2>2. \A i \in 1..n : F[i] = IF i = 1 THEN seqs[i] ELSE h[i - 1] \o seqs[i]
    <3> SUFFICES ASSUME NEW i \in 1..n
                 PROVE  F[i] = IF i = 1 THEN seqs[i] ELSE h[i - 1] \o seqs[i]
      OBVIOUS
    <3>1. i - 1 \in 0..(N - 1) /\ (i - 1) + 1 = i
      OBVIOUS
    <3>2. F[i] = F[i - 1] \o g[i]
      BY <3>1
    <3>3. CASE i = 1
      <4>1. i - 1 = 0
        BY <3>3
      <4>2. F[1] = <<>> \o g[1]
        BY <3>2, <3>3, <4>1, Zenon
      <4> QED
        BY <1>2, <3>3, <4>2, ConcatEmptySeq
    <3>4. CASE i # 1
      <4>1. i - 1 \in 1..n
        BY <3>4
      <4> QED
        BY <1>2, <2>1, <3>2, <3>4, <4>1
    <3> QED
      BY <3>3, <3>4
  <2>3. Flattens(h, seqs)
    BY <1>2, <2>1, <2>2 DEF Flattens
  <2>4. PICK w : w = (CHOOSE z : Flattens(z, seqs)) /\ Flattens(w, seqs)
    BY <2>3
  <2> DEFINE P == {i \in Nat : i \in 1..n => w[i] = F[i]}
  <2>5. 0 \in P
    OBVIOUS
  <2>6. ASSUME NEW i \in Nat, i \in P
        PROVE  i + 1 \in P
    <3> SUFFICES ASSUME i + 1 \in 1..n
                 PROVE  w[i + 1] = F[i + 1]
      OBVIOUS
    <3>1. PICK k \in 1..n : k = i + 1 /\ k - 1 = i
      OBVIOUS
    <3>2. w[k] = IF k = 1 THEN seqs[k] ELSE w[k - 1] \o seqs[k]
      BY <1>2, <2>4 DEF Flattens
    <3>3. F[k] = F[k - 1] \o g[k]
      <4>1. i \in 0..(N - 1)
        BY <3>1
      <4> QED
        BY <3>1, <4>1
    <3>4. seqs[k] = g[k] /\ g[k] \in Seq(A)
      BY <1>2
    <3>5. CASE i = 0
      <4>1. k = 1 /\ k - 1 = 0
        BY <3>1, <3>5
      <4>2. w[k] = g[k] /\ F[k] = <<>> \o g[k]
        BY <3>2, <3>3, <3>4, <4>1, Zenon
      <4> QED
        BY <3>1, <3>4, <4>2, ConcatEmptySeq
    <3>6. CASE i # 0
      <4>1. i \in 1..n /\ k # 1
        BY <3>1, <3>6
      <4>2. w[i] = F[i]
        BY <2>6, <4>1
      <4>3. w[k] = w[k - 1] \o seqs[k]
        BY <3>2, <4>1, Zenon
      <4> QED
        BY <3>1, <3>3, <3>4, <4>2, <4>3, Zenon
    <3> QED
      BY <3>5, <3>6
  <2>7. Nat \subseteq P
    <3> HIDE DEF P
    <3> QED
      BY <2>5, <2>6, NatSetInduction
  <2>8. w[n] = F[n]
    BY <1>4, <2>7
  <2> QED
    BY <1>1, <1>2, <1>4, <2>4, <2>8, FlattenIsRecursion
<1> QED
  BY <1>3, <1>4

(* Without a sequence the concatenation is empty; with one more it is      *)
(* longer by that one.                                                     *)
THEOREM FlattenGrows ==
    ASSUME NEW A, NEW n \in Nat, NEW g, \A i \in 1..(n + 1) : g[i] \in Seq(A)
    PROVE  /\ FlattenSeq(First(g, n)) \in Seq(A)
           /\ n = 0 => FlattenSeq(First(g, n)) = <<>>
           /\ FlattenSeq(First(g, n + 1))
                 = FlattenSeq(First(g, n)) \o g[n + 1]
<1> DEFINE V == Seq(A)
           step == [x \in Nat \X V |->
                       IF x[1] < n + 1 THEN x[2] \o g[x[1] + 1] ELSE x[2]]
<1>1. step \in [Nat \X V -> V]
  <2> SUFFICES ASSUME NEW x \in Nat \X V
               PROVE  (IF x[1] < n + 1 THEN x[2] \o g[x[1] + 1] ELSE x[2]) \in V
    OBVIOUS
  <2>1. x[1] \in Nat /\ x[2] \in Seq(A)
    OBVIOUS
  <2>2. CASE x[1] < n + 1
    <3>1. x[1] + 1 \in 1..(n + 1)
      BY <2>1, <2>2
    <3>2. PICK u, v \in Seq(A) : u = x[2] /\ v = g[x[1] + 1]
      BY <2>1, <3>1
    <3> QED
      BY <2>2, <3>2
  <2> QED
    BY <2>1, <2>2
<1>2. PICK F : Iterates(F, V, <<>>, step)
  <2>1. <<>> \in V
    OBVIOUS
  <2>2. PICK W, z, st : W = V /\ z = <<>> /\ st = step
    OBVIOUS
  <2> HIDE DEF step, V
  <2> QED
    BY <1>1, <2>1, <2>2, NatRecursion
<1>3. /\ F \in [Nat -> Seq(A)] /\ F[0] = <<>>
      /\ \A i \in Nat : F[i + 1] = step[<<i, F[i]>>]
  BY <1>2 DEF Iterates
<1>4. \A i \in 0..n : F[i + 1] = F[i] \o g[i + 1]
  <2> SUFFICES ASSUME NEW i \in 0..n
               PROVE  F[i + 1] = F[i] \o g[i + 1]
    OBVIOUS
  <2>1. <<i, F[i]>> \in Nat \X V /\ i < n + 1
    BY <1>3
  <2>2. PICK x \in Nat \X V : x = <<i, F[i]>> /\ x[1] = i /\ x[2] = F[i]
    BY <2>1
  <2>3. step[x] = x[2] \o g[x[1] + 1]
    BY <2>1, <2>2
  <2>4. F[i + 1] = step[x]
    <3> HIDE DEF step
    <3> QED
      BY <1>3, <2>2
  <2> QED
    BY <2>2, <2>3, <2>4
<1>5. \A m \in 0..(n + 1) : FlattenSeq(First(g, m)) = F[m]
  <2>1. PICK N \in Nat : N = n + 1
    OBVIOUS
  <2>2. N - 1 = n /\ \A i \in 1..N : g[i] \in Seq(A)
    BY <2>1
  <2>3. \A i \in 0..(N - 1) : F[i + 1] = F[i] \o g[i + 1]
    BY <1>4, <2>2, Zenon
  <2>4. F \in [Nat -> Seq(A)] /\ F[0] = <<>>
    BY <1>3
  <2>5. \A m \in 0..N : FlattenSeq(First(g, m)) = F[m]
    <3> HIDE DEF step
    <3>1. Concats(F, A, g, N)
      BY <2>2, <2>3, <2>4, Zenon DEF Concats
    <3> QED
      BY <2>1, <3>1, FlattenPrefixes
  <2> QED
    BY <2>1, <2>5, Zenon
<1>6. n \in 0..n /\ n \in 0..(n + 1) /\ n + 1 \in 0..(n + 1)
  OBVIOUS
<1>7. F[n + 1] = F[n] \o g[n + 1]
  BY <1>4, <1>6, Zenon
<1>8. F[n] \in Seq(A) /\ (n = 0 => F[n] = <<>>)
  BY <1>3
<1> HIDE DEF step
<1> QED
  BY <1>5, <1>6, <1>7, <1>8, Zenon

-----------------------------------------------------------------------------
(* Quotients and remainders. *)

(* Products of integers. *)
LEMMA Products ==
    /\ \A a, b, c \in Int : a * (b + c) = a * b + a * c
    /\ \A a, b, c \in Int : a * (b * c) = (a * b) * c
    /\ \A a, b \in Nat : a * b \in Nat
    /\ \A a, b \in Nat \ {0} : a * b \in Nat \ {0}
    /\ \A a, b \in Int : a * b \in Int
<1>1. \A a, b, c \in Int : a * (b + c) = a * b + a * c
  BY Z3
<1>2. \A a, b, c \in Int : a * (b * c) = (a * b) * c
  BY Z3
<1>3. \A a, b \in Nat : a * b \in Nat
  BY Z3
<1>4. \A a, b \in Nat \ {0} : a * b \in Nat \ {0}
  BY Z3
<1> QED
  BY <1>1, <1>2, <1>3, <1>4

(* Division with remainder. *)
LEMMA Division ==
    ASSUME NEW k \in Nat, NEW y \in Nat \ {0}
    PROVE  /\ k \div y \in Nat /\ k % y \in 0..(y - 1)
           /\ k = y * (k \div y) + (k % y)
<1>1. k \div y \in Nat
  BY Z3
<1>2. k \in Int /\ y \in Int /\ y > 0
  OBVIOUS
<1>3. k = y * (k \div y) + (k % y)
  BY <1>2, Z3
<1> QED
  BY <1>1, <1>3

(* There is only one quotient and one remainder. *)
LEMMA DivisionUnique ==
    ASSUME NEW k \in Nat, NEW y \in Nat \ {0}, NEW d \in Nat, NEW r \in 0..(y - 1),
           k = y * d + r
    PROVE  k \div y = d /\ k % y = r
<1>1. PICK e \in Nat, s \in 0..(y - 1) : e = k \div y /\ s = k % y /\ k = y * e + s
  BY Division
<1>2. ~(e < d)
  <2> SUFFICES ASSUME e < d PROVE FALSE
    OBVIOUS
  <2>1. PICK t \in Nat : d = e + 1 + t
    <3>1. d - e - 1 \in Nat /\ d = e + 1 + (d - e - 1)
      BY <1>1
    <3> QED
      BY <3>1
  <2>2. y * d = y * e + y + y * t /\ y * t >= 0 /\ y * e \in Nat
    BY <1>1, <2>1, Z3
  <2> QED
    BY <1>1, <2>1, <2>2
<1>3. ~(d < e)
  <2> SUFFICES ASSUME d < e PROVE FALSE
    OBVIOUS
  <2>1. PICK t \in Nat : e = d + 1 + t
    <3>1. e - d - 1 \in Nat /\ e = d + 1 + (e - d - 1)
      BY <1>1
    <3> QED
      BY <3>1
  <2>2. y * e = y * d + y + y * t /\ y * t >= 0 /\ y * d \in Nat
    BY <1>1, <2>1, Z3
  <2> QED
    BY <1>1, <2>1, <2>2
<1>4. e = d
  BY <1>1, <1>2, <1>3
<1>5. y * d \in Int
  OBVIOUS
<1> QED
  BY <1>1, <1>4, <1>5

(* The next number. *)
LEMMA NextDivision ==
    ASSUME NEW k \in Nat, NEW y \in Nat \ {0}
    PROVE  /\ (k + 1) \div y = IF k % y = y - 1 THEN (k \div y) + 1 ELSE k \div y
           /\ (k + 1) % y = IF k % y = y - 1 THEN 0 ELSE (k % y) + 1
<1>1. PICK e \in Nat, s \in 0..(y - 1) : e = k \div y /\ s = k % y /\ k = y * e + s
  BY Division
<1>2. PICK n \in Nat : n = k + 1
  OBVIOUS
<1>3. CASE s = y - 1
  <2>1. PICK d \in Nat : d = e + 1
    BY <1>1
  <2>2. n = y * d + 0 /\ 0 \in 0..(y - 1)
    BY <1>1, <1>2, <1>3, <2>1, Z3
  <2>3. n \div y = d /\ n % y = 0
    BY <2>1, <2>2, <1>2, DivisionUnique
  <2> QED
    BY <1>1, <1>2, <1>3, <2>1, <2>3
<1>4. CASE s # y - 1
  <2>1. PICK r \in 0..(y - 1) : r = s + 1
    BY <1>1, <1>4
  <2>2. n = y * e + r
    BY <1>1, <1>2, <2>1
  <2>3. n \div y = e /\ n % y = r
    <3>1. e \in Nat
      BY <1>1
    <3>2. r \in 0..(y - 1)
      BY <2>1
    <3> QED
      BY <1>2, <2>2, <3>1, <3>2, DivisionUnique
  <2> QED
    BY <1>1, <1>2, <1>4, <2>1, <2>3
<1> QED
  BY <1>3, <1>4

(* A quotient of a quotient. *)
LEMMA NestedDivision ==
    ASSUME NEW k \in Nat, NEW x \in Nat \ {0}, NEW y \in Nat \ {0}
    PROVE  (k \div x) \div y = k \div (x * y)
<1>1. PICK e \in Nat, s \in 0..(x - 1) : e = k \div x /\ s = k % x /\ k = x * e + s
  BY Division
<1>2. PICK d \in Nat, r \in 0..(y - 1) : d = e \div y /\ r = e % y /\ e = y * d + r
  <2>1. e \in Nat
    BY <1>1
  <2> QED
    BY <2>1, Division
<1>3. PICK z \in Nat \ {0} : z = x * y
  BY Z3
<1>4. PICK t \in Int : t = x * r + s
  BY <1>1, <1>2
<1>5. x * e = z * d + x * r
  <2>1. x * (y * d + r) = x * (y * d) + x * r /\ x * (y * d) = (x * y) * d
    <3>1. y * d \in Int /\ x \in Int /\ r \in Int /\ y \in Int /\ d \in Int
      BY <1>2
    <3> QED
      BY <3>1, Products
  <2> QED
    BY <1>2, <1>3, <2>1
<1>6. t \in 0..(z - 1)
  <2>1. PICK u \in Nat : y = r + 1 + u
    <3>1. y - r - 1 \in Nat /\ y = r + 1 + (y - r - 1)
      BY <1>2
    <3> QED
      BY <3>1
  <2>2. z = x * r + x + x * u /\ x * u \in Nat /\ x * r \in Nat
    <3>1. x \in Nat /\ r \in Nat /\ u \in Nat
      BY <1>2, <2>1
    <3>2. x * (r + 1 + u) = x * (r + 1) + x * u /\ x * (r + 1) = x * r + x
      BY <3>1, Z3
    <3>3. x * u \in Nat /\ x * r \in Nat
      BY <3>1, Products
    <3> QED
      BY <1>3, <2>1, <3>2, <3>3
  <2> QED
    BY <1>1, <1>2, <1>4, <2>2
<1>7. k = z * d + t
  <2>1. x * e \in Int /\ z * d \in Int /\ x * r \in Int /\ s \in Int
    BY <1>1, <1>2, <1>3
  <2>2. PICK A, B, C \in Int : A = x * e /\ B = z * d /\ C = x * r
    BY <2>1
  <2>3. k = A + s /\ t = C + s /\ A = B + C
    BY <1>1, <1>4, <1>5, <2>2
  <2>4. k = B + t
    BY <2>1, <2>3
  <2> QED
    BY <2>2, <2>4
<1>8. k \div z = d
  BY <1>2, <1>3, <1>6, <1>7, DivisionUnique
<1> QED
  BY <1>1, <1>2, <1>3, <1>8
=============================================================================
