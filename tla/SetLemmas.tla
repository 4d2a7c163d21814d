---- MODULE SetLemmas ----
(***************************************************************************)
(* Facts about sets and numbers that the proofs about logs and sorted sets *)
(* share.                                                                  *)
(***************************************************************************)
EXTENDS Integers, FiniteSetTheorems, TLAPS

\* A set of natural numbers that is not empty has a least one.
LEMMA Least ==
    ASSUME NEW S, S \subseteq Nat, S # {}
    PROVE  \E t \in S : \A u \in S : t <= u
  <1>1. PICK t \in S : \A u \in S : ~ (<<u, t>> \in OpToRel(<, Nat))
    BY NatLessThanWellFounded, WFMin
  <1>2. \A u \in S : ~ (u < t)
    BY <1>1 DEF OpToRel
  <1> QED
    BY <1>2

\* A set whose members n numbers name, each by one number, has n members.
LEMMA CountByNumbers ==
    ASSUME NEW n \in Nat, NEW S, NEW f \in [1..n -> S],
           \A e \in S : \E i \in 1..n : f[i] = e,
           \A i, j \in 1..n : f[i] = f[j] => i = j
    PROVE  IsFiniteSet(S) /\ Cardinality(S) = n
  <1>1. IsInjective(f)
    BY DEF IsInjective
  <1>2. ExistsBijection(1..n, S)
    BY <1>1 DEF ExistsBijection, Bijection, Injection, Surjection
  <1> QED
    BY <1>2, FS_CountingElements, FS_NatBijection

\* The size of a set that gains members it did not have.
LEMMA CountTogether ==
    ASSUME NEW T, IsFiniteSet(T), NEW E, IsFiniteSet(E), T \cap E = {}
    PROVE  /\ IsFiniteSet(T \cup E)
           /\ Cardinality(T \cup E) = Cardinality(T) + Cardinality(E)
  <1>1. /\ IsFiniteSet(T \cup E)
        /\ Cardinality(T \cup E)
              = Cardinality(T) + Cardinality(E) - Cardinality(T \cap E)
    BY FS_Union
  <1>2. Cardinality(T \cap E) = 0
    BY FS_EmptySet
  <1>3. Cardinality(T) \in Nat /\ Cardinality(E) \in Nat
    BY FS_CardinalityType
  <1> QED
    BY <1>1, <1>2, <1>3
====
