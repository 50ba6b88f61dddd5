-------------------------- MODULE ResourcesProofs ---------------------------
(***************************************************************************)
(* Proofs about module Resources: the routes and rules of any number of    *)
(* addresses, metrics and failing requests.                                *)
(*                                                                         *)
(* The operations treat one address after another, which keeps a state     *)
(* sound because each of their steps does (module ResourcesSteps).  Then   *)
(* the actions of the client, and the theorems.                            *)
(***************************************************************************)
EXTENDS ResourcesSteps, FiniteSetTheorems, WellFoundedInduction

USE SMTT(30)

-----------------------------------------------------------------------------
(* One address after another.                                              *)

\* A set of numbers that is not empty has a smallest one.
LEMMA Least ==
  ASSUME NEW T \in SUBSET Nat, T # {}
  PROVE  \E n \in T : \A i \in T : n <= i
<1> DEFINE R == OpToRel(<, Nat)
<1>1. IsWellFoundedOn(R, Nat)
  BY NatLessThanWellFounded, Zenon
<1>2. \A x, y \in Nat : y < x => <<y, x>> \in R
  BY DEF OpToRel
<1> HIDE DEF R
<1>3. PICK x \in T : \A y \in T : ~(<<y, x>> \in R)
  BY <1>1, WFMin, Zenon
<1>4. ASSUME NEW y \in T PROVE x <= y
  <2>1. x \in Nat /\ y \in Nat
    OBVIOUS
  <2>2. ~(y < x)
    BY <2>1, <1>2, <1>3, Zenon
  <2> QED BY <2>1, <2>2
<1> QED BY <1>4

\* What is taken next of some addresses is one of them, and leaves fewer.
LEMMA OneTaken ==
  ASSUME NEW A, IsFiniteSet(A), NEW B \in SUBSET A, B # {}
  PROVE  /\ One(B) \in B /\ One(B) \in A /\ B \ {One(B)} \in SUBSET A
         /\ Cardinality(B) \in Nat /\ Cardinality(B \ {One(B)}) \in Nat
         /\ Cardinality(B \ {One(B)}) = Cardinality(B) - 1
<1>1. One(B) \in B
  BY Zenon DEF One
<1>2. IsFiniteSet(B)
  BY FS_Subset, Zenon
<1>3. /\ IsFiniteSet(B \ {One(B)})
      /\ Cardinality(B \ {One(B)}) = Cardinality(B) - 1
  BY <1>1, <1>2, FS_RemoveElement
<1> QED BY <1>1, <1>2, <1>3, FS_CardinalityType

\* What holds of no address at all, and of some addresses when it holds without the one
\* that is taken next, holds of all of them.
LEMMA AllTaken ==
  ASSUME NEW A, IsFiniteSet(A), NEW H \in SUBSET (SUBSET A), {} \in H,
         \A B \in SUBSET A : B # {} /\ B \ {One(B)} \in H => B \in H
  PROVE  A \in H
<1> DEFINE T == {Cardinality(B) : B \in (SUBSET A) \ H}
<1> SUFFICES ASSUME A \notin H PROVE FALSE
  OBVIOUS
<1>1. T \in SUBSET Nat /\ T # {}
  <2>1. ASSUME NEW B \in SUBSET A PROVE Cardinality(B) \in Nat
    BY FS_Subset, FS_CardinalityType, Zenon
  <2> QED BY <2>1
<1>2. PICK n \in T : \A i \in T : n <= i
  <2> HIDE DEF T
  <2> QED BY <1>1, Least, Zenon
<1>3. PICK B \in SUBSET A : B \notin H /\ n = Cardinality(B)
  BY <1>2
<1>4. B # {}
  BY <1>3
<1>5. /\ B \ {One(B)} \in SUBSET A
      /\ Cardinality(B) \in Nat /\ Cardinality(B \ {One(B)}) = Cardinality(B) - 1
  BY <1>4, OneTaken, Zenon
<1>6. B \ {One(B)} \notin H
  BY <1>3, <1>4, Zenon
<1>7. Cardinality(B \ {One(B)}) \in T
  BY <1>5, <1>6, Zenon
<1>8. n <= Cardinality(B) - 1
  <2> HIDE DEF T
  <2> QED BY <1>2, <1>5, <1>7
<1> HIDE DEF T
<1> QED BY <1>3, <1>5, <1>8

\* f tells what comes of a start value when the addresses up to a set are treated.
Treats(f, A, start, step) ==
  f = [B \in SUBSET A |-> IF B = {} THEN start ELSE step[<<f[B \ {One(B)}], One(B)>>]]

\* There is such a function.
LEMMA TreatsExists ==
  ASSUME NEW A, IsFiniteSet(A), NEW V, NEW start \in V, NEW step \in [V \X A -> V]
  PROVE  \E f : Treats(f, A, start, step) /\ f \in [SUBSET A -> V]
<1> DEFINE D(n) == {B \in SUBSET A : Cardinality(B) <= n}
           Upto(n, f) ==
             /\ f \in [D(n) -> V]
             /\ \A B \in D(n) :
                  f[B] = IF B = {} THEN start ELSE step[<<f[B \ {One(B)}], One(B)>>]
           T == {n \in Nat : ~\E f : Upto(n, f)}
<1>1. \A B \in SUBSET A : Cardinality(B) \in Nat
  BY FS_Subset, FS_CardinalityType, Zenon
<1>2. \A B \in SUBSET A : B # {} =>
        /\ One(B) \in A /\ B \ {One(B)} \in SUBSET A
        /\ Cardinality(B \ {One(B)}) = Cardinality(B) - 1
  BY OneTaken, Zenon
<1>3. T = {}
  <2> SUFFICES ASSUME T # {} PROVE FALSE
    BY Zenon
  <2>1. PICK n \in T : \A i \in T : n <= i
    <3>1. T \in SUBSET Nat
      <4> HIDE DEF Upto
      <4> QED OBVIOUS
    <3> HIDE DEF T
    <3> QED BY <3>1, Least, Zenon
  <2>2. CASE n = 0
    <3> DEFINE g == [B \in D(0) |-> start]
    <3>1. \A B \in D(0) : B = {}
      <4> TAKE B \in D(0)
      <4>1. Cardinality(B) \in Nat /\ Cardinality(B) <= 0
        BY <1>1
      <4>2. IsFiniteSet(B)
        BY FS_Subset, Zenon
      <4> QED BY <4>1, <4>2, FS_EmptySet
    <3>2. Upto(0, g)
      BY <3>1
    <3> QED BY <2>1, <2>2, <3>2, Zenon DEF T
  <2>3. CASE n # 0
    <3>1. n \in Nat /\ n - 1 \in Nat /\ ~(n <= n - 1)
      BY <2>1, <2>3
    <3>2. PICK f : Upto(n - 1, f)
      BY <2>1, <3>1, Zenon
    <3> DEFINE g == [B \in D(n) |-> IF B = {} THEN start ELSE step[<<f[B \ {One(B)}], One(B)>>]]
    <3>3. \A B \in D(n) : B # {} => B \ {One(B)} \in D(n - 1) /\ B \ {One(B)} \in D(n)
      BY <1>1, <1>2, <3>1
    <3>4. \A B \in D(n) : B # {} => step[<<f[B \ {One(B)}], One(B)>>] \in V
      <4> TAKE B \in D(n)
      <4> HAVE B # {}
      <4>1. f[B \ {One(B)}] \in V
        BY <3>2, <3>3
      <4>2. One(B) \in A
        BY <1>2
      <4> HIDE DEF D, Upto
      <4> QED BY <4>1, <4>2
    <3>5. \A B \in D(n - 1) : g[B] = f[B]
      <4>1. D(n - 1) \subseteq D(n)
        BY <1>1, <3>1
      <4>2. \A B \in D(n - 1) : f[B] = IF B = {} THEN start ELSE step[<<f[B \ {One(B)}], One(B)>>]
        BY <3>2
      <4> HIDE DEF D, Upto
      <4> QED BY <4>1, <4>2
    <3>6. g \in [D(n) -> V]
      <4> HIDE DEF D, Upto
      <4> QED BY <3>4
    <3>7. \A B \in D(n) : g[B] = IF B = {} THEN start ELSE step[<<g[B \ {One(B)}], One(B)>>]
      <4> TAKE B \in D(n)
      <4>1. CASE B = {}
        <5> HIDE DEF D, Upto
        <5> QED BY <4>1
      <4>2. CASE B # {}
        <5>1. g[B \ {One(B)}] = f[B \ {One(B)}]
          <6> HIDE DEF D, Upto, g
          <6> QED BY <3>3, <3>5, <4>2, Zenon
        <5>2. g[B] = step[<<f[B \ {One(B)}], One(B)>>]
          <6> HIDE DEF D, Upto
          <6> QED BY <4>2
        <5> HIDE DEF D, Upto, g
        <5> QED BY <4>2, <5>1, <5>2
      <4> QED BY <4>1, <4>2, Zenon
    <3>8. Upto(n, g)
      <4> HIDE DEF D, g
      <4> QED BY <3>6, <3>7, Zenon DEF Upto
    <3> QED BY <2>1, <3>8, Zenon DEF T
  <2> QED BY <2>2, <2>3, Zenon
<1> DEFINE N == Cardinality(A)
<1>4. N \in Nat /\ \A B \in SUBSET A : Cardinality(B) <= N
  BY FS_Subset, FS_CardinalityType, Zenon
<1>5. D(N) = SUBSET A
  <2> HIDE DEF N
  <2> QED BY <1>4
<1>6. PICK f : Upto(N, f)
  <2> HIDE DEF N, Upto
  <2> QED BY <1>3, <1>4, Zenon
<1>7. /\ f \in [SUBSET A -> V]
      /\ \A B \in SUBSET A : f[B] = IF B = {} THEN start ELSE step[<<f[B \ {One(B)}], One(B)>>]
  <2> HIDE DEF N, D
  <2> QED BY <1>5, <1>6, Zenon
<1>8. f = [B \in SUBSET A |-> IF B = {} THEN start ELSE step[<<f[B \ {One(B)}], One(B)>>]]
  <2> DEFINE e(B) == IF B = {} THEN start ELSE step[<<f[B \ {One(B)}], One(B)>>]
  <2>1. \A B \in SUBSET A : f[B] = e(B)
    BY <1>7, Zenon
  <2> HIDE DEF e, N, D, Upto, T
  <2>2. f = [B \in SUBSET A |-> e(B)]
    BY <1>7, <2>1
  <2> QED BY <2>2, Zenon DEF e
<1> QED BY <1>7, <1>8, Zenon DEF Treats

\* What ensure_installed keeps at every address, release_except keeps of those it retains.
LEMMA EnsureAllWithin ==
  ASSUME NEW A \in SUBSET Addr, NEW G, NEW S \in SUBSET G,
         \A Q \in SUBSET G : \A a \in A : ensure_installed(Q, a) \in SUBSET G
  PROVE  EnsureAll(S, A) \in SUBSET G
<1> DEFINE V == SUBSET G
           step == [x \in V \X A |-> ensure_installed(x[1], x[2])]
           Eq(f) == f = [B \in SUBSET A |->
                           IF B = {} THEN S ELSE ensure_installed(f[B \ {One(B)}], One(B))]
           c == CHOOSE f : Eq(f)
<1>1. IsFiniteSet(A)
  BY IptablesAssumption, FS_Subset, Zenon
<1>2. step \in [V \X A -> V]
  OBVIOUS
<1>3. PICK f : Treats(f, A, S, step) /\ f \in [SUBSET A -> V]
  <2> HIDE DEF step
  <2> QED BY <1>1, <1>2, TreatsExists, Zenon
<1>4. \A B \in SUBSET A : B # {} =>
        step[<<f[B \ {One(B)}], One(B)>>] = ensure_installed(f[B \ {One(B)}], One(B))
  <2> TAKE B \in SUBSET A
  <2> HAVE B # {}
  <2>1. One(B) \in A /\ B \ {One(B)} \in SUBSET A
    BY <1>1, OneTaken, Zenon
  <2>2. f[B \ {One(B)}] \in V
    BY <1>3, <2>1, Zenon
  <2>3. <<f[B \ {One(B)}], One(B)>> \in V \X A
    BY <2>1, <2>2, Zenon
  <2> HIDE DEF V
  <2> QED BY <2>3
<1>5. Eq(f)
  <2> DEFINE e(B) == IF B = {} THEN S ELSE step[<<f[B \ {One(B)}], One(B)>>]
             d(B) == IF B = {} THEN S ELSE ensure_installed(f[B \ {One(B)}], One(B))
  <2>1. f = [B \in SUBSET A |-> e(B)]
    BY <1>3, Zenon DEF Treats
  <2>2. \A B \in SUBSET A : e(B) = d(B)
    <3> HIDE DEF step
    <3> TAKE B \in SUBSET A
    <3>1. CASE B = {}
      BY <3>1, Zenon
    <3>2. CASE B # {}
      BY <1>4, <3>2, Zenon
    <3> QED BY <3>1, <3>2, Zenon
  <2> HIDE DEF e, d
  <2>3. f = [B \in SUBSET A |-> d(B)]
    BY <2>1, <2>2
  <2> QED BY <2>3, Zenon DEF d
<1>6. Eq(c)
  <2> HIDE DEF Eq
  <2> QED BY <1>5, Zenon
<1>7. EnsureAll(S, A) = c[A]
  BY Zenon DEF EnsureAll
<1>8. \A B \in SUBSET A : c[B] = IF B = {} THEN S ELSE ensure_installed(c[B \ {One(B)}], One(B))
  <2> DEFINE d(B) == IF B = {} THEN S ELSE ensure_installed(c[B \ {One(B)}], One(B))
  <2>1. c = [B \in SUBSET A |-> d(B)]
    BY <1>6, Zenon
  <2> HIDE DEF c, d
  <2>2. \A B \in SUBSET A : c[B] = d(B)
    BY <2>1
  <2> QED BY <2>2, Zenon DEF d
<1> DEFINE H == {B \in SUBSET A : c[B] \in V}
<1> HIDE DEF c
<1>9. {} \in H
  <2>1. {} \in SUBSET A
    OBVIOUS
  <2>2. c[{}] = S
    BY <1>8, <2>1, Zenon
  <2> QED BY <2>1, <2>2, Zenon
<1>10. \A B \in SUBSET A : B # {} /\ B \ {One(B)} \in H => B \in H
  <2> TAKE B \in SUBSET A
  <2> HAVE B # {} /\ B \ {One(B)} \in H
  <2>1. One(B) \in A
    BY <1>1, OneTaken, Zenon
  <2>2. c[B \ {One(B)}] \in SUBSET G
    BY Zenon
  <2>3. ensure_installed(c[B \ {One(B)}], One(B)) \in SUBSET G
    BY <2>1, <2>2, Zenon
  <2>4. c[B] = ensure_installed(c[B \ {One(B)}], One(B))
    BY <1>8, Zenon
  <2> QED BY Zenon, <2>3, <2>4
<1>11. A \in H
  <2>1. H \in SUBSET (SUBSET A)
    OBVIOUS
  <2> HIDE DEF H
  <2> QED BY <1>1, <1>9, <1>10, <2>1, AllTaken, Zenon
<1> QED BY <1>7, <1>11

\* The same for release and the addresses that are given up.
LEMMA ReleaseAllWithin ==
  ASSUME NEW A \in SUBSET Addr, NEW G, NEW S \in SUBSET G,
         \A Q \in SUBSET G : \A a \in A : release(Q, a) \in SUBSET G
  PROVE  ReleaseAll(S, A) \in SUBSET G
<1> DEFINE V == SUBSET G
           step == [x \in V \X A |-> release(x[1], x[2])]
           Eq(f) == f = [B \in SUBSET A |->
                           IF B = {} THEN S ELSE release(f[B \ {One(B)}], One(B))]
           c == CHOOSE f : Eq(f)
<1>1. IsFiniteSet(A)
  BY IptablesAssumption, FS_Subset, Zenon
<1>2. step \in [V \X A -> V]
  OBVIOUS
<1>3. PICK f : Treats(f, A, S, step) /\ f \in [SUBSET A -> V]
  <2> HIDE DEF step
  <2> QED BY <1>1, <1>2, TreatsExists, Zenon
<1>4. \A B \in SUBSET A : B # {} =>
        step[<<f[B \ {One(B)}], One(B)>>] = release(f[B \ {One(B)}], One(B))
  <2> TAKE B \in SUBSET A
  <2> HAVE B # {}
  <2>1. One(B) \in A /\ B \ {One(B)} \in SUBSET A
    BY <1>1, OneTaken, Zenon
  <2>2. f[B \ {One(B)}] \in V
    BY <1>3, <2>1, Zenon
  <2>3. <<f[B \ {One(B)}], One(B)>> \in V \X A
    BY <2>1, <2>2, Zenon
  <2> HIDE DEF V
  <2> QED BY <2>3
<1>5. Eq(f)
  <2> DEFINE e(B) == IF B = {} THEN S ELSE step[<<f[B \ {One(B)}], One(B)>>]
             d(B) == IF B = {} THEN S ELSE release(f[B \ {One(B)}], One(B))
  <2>1. f = [B \in SUBSET A |-> e(B)]
    BY <1>3, Zenon DEF Treats
  <2>2. \A B \in SUBSET A : e(B) = d(B)
    <3> HIDE DEF step
    <3> TAKE B \in SUBSET A
    <3>1. CASE B = {}
      BY <3>1, Zenon
    <3>2. CASE B # {}
      BY <1>4, <3>2, Zenon
    <3> QED BY <3>1, <3>2, Zenon
  <2> HIDE DEF e, d
  <2>3. f = [B \in SUBSET A |-> d(B)]
    BY <2>1, <2>2
  <2> QED BY <2>3, Zenon DEF d
<1>6. Eq(c)
  <2> HIDE DEF Eq
  <2> QED BY <1>5, Zenon
<1>7. ReleaseAll(S, A) = c[A]
  BY Zenon DEF ReleaseAll
<1>8. \A B \in SUBSET A : c[B] = IF B = {} THEN S ELSE release(c[B \ {One(B)}], One(B))
  <2> DEFINE d(B) == IF B = {} THEN S ELSE release(c[B \ {One(B)}], One(B))
  <2>1. c = [B \in SUBSET A |-> d(B)]
    BY <1>6, Zenon
  <2> HIDE DEF c, d
  <2>2. \A B \in SUBSET A : c[B] = d(B)
    BY <2>1
  <2> QED BY <2>2, Zenon DEF d
<1> DEFINE H == {B \in SUBSET A : c[B] \in V}
<1> HIDE DEF c
<1>9. {} \in H
  <2>1. {} \in SUBSET A
    OBVIOUS
  <2>2. c[{}] = S
    BY <1>8, <2>1, Zenon
  <2> QED BY <2>1, <2>2, Zenon
<1>10. \A B \in SUBSET A : B # {} /\ B \ {One(B)} \in H => B \in H
  <2> TAKE B \in SUBSET A
  <2> HAVE B # {} /\ B \ {One(B)} \in H
  <2>1. One(B) \in A
    BY <1>1, OneTaken, Zenon
  <2>2. c[B \ {One(B)}] \in SUBSET G
    BY Zenon
  <2>3. release(c[B \ {One(B)}], One(B)) \in SUBSET G
    BY <2>1, <2>2, Zenon
  <2>4. c[B] = release(c[B \ {One(B)}], One(B))
    BY <1>8, Zenon
  <2> QED BY <2>3, <2>4
<1>11. A \in H
  <2>1. H \in SUBSET (SUBSET A)
    OBVIOUS
  <2> HIDE DEF H
  <2> QED BY <1>1, <1>9, <1>10, <2>1, AllTaken, Zenon
<1> QED BY <1>7, <1>11

\* The same for the retries of the timer and at the exit.
LEMMA RetryWithin ==
  ASSUME NEW G, NEW S \in SUBSET G,
         \A Q \in SUBSET G : \A a \in Addr : retry_cleanup_addr(Q, a) \in SUBSET G
  PROVE  retry_cleanup(S) \in SUBSET G
<1> DEFINE V == SUBSET G
           step == [x \in V \X Addr |-> retry_cleanup_addr(x[1], x[2])]
           Eq(f) == f = [B \in SUBSET Addr |->
                           IF B = {} THEN S ELSE retry_cleanup_addr(f[B \ {One(B)}], One(B))]
           c == CHOOSE f : Eq(f)
<1>1. IsFiniteSet(Addr)
  BY IptablesAssumption, FS_Subset, Zenon
<1>2. step \in [V \X Addr -> V]
  OBVIOUS
<1>3. PICK f : Treats(f, Addr, S, step) /\ f \in [SUBSET Addr -> V]
  <2> HIDE DEF step
  <2> QED BY <1>1, <1>2, TreatsExists, Zenon
<1>4. \A B \in SUBSET Addr : B # {} =>
        step[<<f[B \ {One(B)}], One(B)>>] = retry_cleanup_addr(f[B \ {One(B)}], One(B))
  <2> TAKE B \in SUBSET Addr
  <2> HAVE B # {}
  <2>1. One(B) \in Addr /\ B \ {One(B)} \in SUBSET Addr
    BY <1>1, OneTaken, Zenon
  <2>2. f[B \ {One(B)}] \in V
    BY <1>3, <2>1, Zenon
  <2>3. <<f[B \ {One(B)}], One(B)>> \in V \X Addr
    BY <2>1, <2>2, Zenon
  <2> HIDE DEF V
  <2> QED BY <2>3
<1>5. Eq(f)
  <2> DEFINE e(B) == IF B = {} THEN S ELSE step[<<f[B \ {One(B)}], One(B)>>]
             d(B) == IF B = {} THEN S ELSE retry_cleanup_addr(f[B \ {One(B)}], One(B))
  <2>1. f = [B \in SUBSET Addr |-> e(B)]
    BY <1>3, Zenon DEF Treats
  <2>2. \A B \in SUBSET Addr : e(B) = d(B)
    <3> HIDE DEF step
    <3> TAKE B \in SUBSET Addr
    <3>1. CASE B = {}
      BY <3>1, Zenon
    <3>2. CASE B # {}
      BY <1>4, <3>2, Zenon
    <3> QED BY <3>1, <3>2, Zenon
  <2> HIDE DEF e, d
  <2>3. f = [B \in SUBSET Addr |-> d(B)]
    BY <2>1, <2>2
  <2> QED BY <2>3, Zenon DEF d
<1>6. Eq(c)
  <2> HIDE DEF Eq
  <2> QED BY <1>5, Zenon
<1>7. retry_cleanup(S) = c[Addr]
  BY Zenon DEF retry_cleanup
<1>8. \A B \in SUBSET Addr : c[B] = IF B = {} THEN S ELSE retry_cleanup_addr(c[B \ {One(B)}], One(B))
  <2> DEFINE d(B) == IF B = {} THEN S ELSE retry_cleanup_addr(c[B \ {One(B)}], One(B))
  <2>1. c = [B \in SUBSET Addr |-> d(B)]
    BY <1>6, Zenon
  <2> HIDE DEF c, d
  <2>2. \A B \in SUBSET Addr : c[B] = d(B)
    BY <2>1
  <2> QED BY <2>2, Zenon DEF d
<1> DEFINE H == {B \in SUBSET Addr : c[B] \in V}
<1> HIDE DEF c
<1>9. {} \in H
  <2>1. {} \in SUBSET Addr
    OBVIOUS
  <2>2. c[{}] = S
    BY <1>8, <2>1, Zenon
  <2> QED BY <2>1, <2>2, Zenon
<1>10. \A B \in SUBSET Addr : B # {} /\ B \ {One(B)} \in H => B \in H
  <2> TAKE B \in SUBSET Addr
  <2> HAVE B # {} /\ B \ {One(B)} \in H
  <2>1. One(B) \in Addr
    BY <1>1, OneTaken, Zenon
  <2>2. c[B \ {One(B)}] \in SUBSET G
    BY Zenon
  <2>3. retry_cleanup_addr(c[B \ {One(B)}], One(B)) \in SUBSET G
    BY <2>1, <2>2, Zenon
  <2>4. c[B] = retry_cleanup_addr(c[B \ {One(B)}], One(B))
    BY <1>8, Zenon
  <2> QED BY Zenon, <2>3, <2>4
<1>11. Addr \in H
  <2>1. H \in SUBSET (SUBSET Addr)
    OBVIOUS
  <2> HIDE DEF H
  <2> QED BY <1>1, <1>9, <1>10, <2>1, AllTaken, Zenon
<1> QED BY <1>7, <1>11

-----------------------------------------------------------------------------
(* The operations, over all the addresses they treat.                      *)

\* The record r of an address that no retained address is refused for.
Firm(r) == r = NoRecord \/ (r \in Resource /\ ready(r))

\* ensure_installed of every retained address: sound states stay sound.
LEMMA EnsureAllKeeps ==
  ASSUME NEW sh \in BOOLEAN, NEW b \in Addr, NEW r, Firm(r), NEW A \in SUBSET Addr,
         NEW Q \in SUBSET Sound(sh, b, r)
  PROVE  EnsureAll(Q, A) \in SUBSET Sound(sh, b, r)
<1> DEFINE G == Sound(sh, b, r)
<1>1. ASSUME NEW S \in SUBSET G, NEW a \in A PROVE ensure_installed(S, a) \in SUBSET G
  <2>1. Free(a, b, r) /\ a \in Addr
    BY Zenon DEF Free, Firm
  <2> QED BY <2>1, EnsureKeeps, Zenon
<1> HIDE DEF G
<1>2. Q \in SUBSET G
  BY Zenon DEF G
<1>3. EnsureAll(Q, A) \in SUBSET G
  BY <1>1, <1>2, EnsureAllWithin, Zenon
<1> QED BY <1>3, Zenon DEF G

\* retry_cleanup, address after address: sound states stay sound.
LEMMA RetryAllKeeps ==
  ASSUME NEW sh \in BOOLEAN, NEW b \in Addr, NEW r, Firm(r), NEW Q \in SUBSET Sound(sh, b, r)
  PROVE  retry_cleanup(Q) \in SUBSET Sound(sh, b, r)
<1> DEFINE G == Sound(sh, b, r)
<1>1. ASSUME NEW S \in SUBSET G, NEW a \in Addr PROVE retry_cleanup_addr(S, a) \in SUBSET G
  <2>1. Free(a, b, r)
    BY Zenon DEF Free, Firm
  <2> QED BY <2>1, RetryKeeps, Zenon
<1> HIDE DEF G
<1>2. Q \in SUBSET G
  BY Zenon DEF G
<1>3. retry_cleanup(Q) \in SUBSET G
  BY <1>1, <1>2, RetryWithin, Zenon
<1> QED BY <1>3, Zenon DEF G

\* release of a set of addresses without the one in use: sound states stay sound.
LEMMA ReleaseAllKeeps ==
  ASSUME NEW sh \in BOOLEAN, NEW b \in Addr, NEW r, NEW A \in SUBSET Addr,
         r = NoRecord \/ b \notin A, NEW Q \in SUBSET Sound(sh, b, r)
  PROVE  ReleaseAll(Q, A) \in SUBSET Sound(sh, b, r)
<1> DEFINE G == Sound(sh, b, r)
<1>1. ASSUME NEW S \in SUBSET G, NEW a \in A PROVE release(S, a) \in SUBSET G
  <2>1. (a # b \/ r = NoRecord) /\ a \in Addr
    OBVIOUS
  <2> QED BY <2>1, ReleaseKeeps, Zenon
<1> HIDE DEF G
<1>2. Q \in SUBSET G
  BY Zenon DEF G
<1>3. ReleaseAll(Q, A) \in SUBSET G
  BY <1>1, <1>2, ReleaseAllWithin, Zenon
<1> QED BY <1>3, Zenon DEF G

\* release_except: the retained address b keeps its record.
LEMMA ReleaseExceptKeeps ==
  ASSUME NEW sh \in BOOLEAN, NEW b \in Addr, NEW r, Firm(r), NEW A \in SUBSET Addr,
         r = NoRecord \/ b \in A, NEW Q \in SUBSET Sound(sh, b, r)
  PROVE  release_except(Q, A) \in SUBSET Sound(sh, b, r)
<1>1. EnsureAll(Q, A) \in SUBSET Sound(sh, b, r)
  BY EnsureAllKeeps, Zenon
<1> DEFINE B == Addr \ A
<1>2. B \in SUBSET Addr /\ (r = NoRecord \/ b \notin B)
  OBVIOUS
<1> HIDE DEF B
<1>3. ReleaseAll(EnsureAll(Q, A), B) \in SUBSET Sound(sh, b, r)
  BY <1>1, <1>2, ReleaseAllKeeps, Zenon
<1> QED BY <1>3, Zenon DEF release_except, B

-----------------------------------------------------------------------------
(* The actions of the client.                                              *)

\* The record of the relay in use, which must not change while an attempt goes on.
Now == IF sending THEN k.installed[remote] ELSE NoRecord

\* What the I/O thread finds when it has the mutex of the patterns.
LEMMA RunningSound ==
  ASSUME RInv, Running
  PROVE  \E sh \in BOOLEAN :
           /\ ~doubtful => sh
           /\ {k} \in SUBSET Sound(sh, remote, Now)
           /\ {k} \in SUBSET Sound(sh, remote, NoRecord)
<1>1. phase = "run" /\ keeper.step = "asleep" /\ remote \in Addr
  BY Zenon DEF Running, RInv, ResourcesTypeOK
<1>2. ~doubtful => Shield(k, active_chain(k.fw))
  BY <1>1 DEF RInv, Kept
<1>3. Now = NoRecord \/ k.installed[remote] = Now
  BY Zenon DEF Now
<1>4. phase # "cleared"
  BY <1>1
<1>5. PICK sh \in BOOLEAN : sh <=> ~doubtful
  <2>1. CASE doubtful
    BY <2>1, Zenon
  <2>2. CASE ~doubtful
    BY <2>2, Zenon
  <2> QED BY <2>1, <2>2
<1>6. sh => Shield(k, active_chain(k.fw))
  BY <1>2, <1>5
<1>7. {k} \in SUBSET Sound(sh, remote, Now)
  BY <1>1, <1>3, <1>4, <1>6, SoundNow, Zenon
<1>8. {k} \in SUBSET Sound(sh, remote, NoRecord)
  BY <1>1, <1>4, <1>6, SoundNow, Zenon
<1> QED BY <1>5, <1>7, <1>8, Zenon

\* The client runs, and has the mutex of the patterns for itself.
LEMMA RunningTypes ==
  ASSUME RInv, Running
  PROVE  /\ phase = "run" /\ Sleeps(keeper) /\ Firm(Now) /\ Firm(NoRecord)
         /\ remote \in Addr /\ remote # NoRecord /\ good \in Addr \cup {NoRecord}
         /\ lower \in Addr \cup {NoRecord} /\ NoRecord \in Addr \cup {NoRecord}
         /\ sending \in BOOLEAN /\ doubtful \in BOOLEAN
         /\ sending => lower = remote /\ Now \in Resource /\ ready(Now)
<1>1. /\ phase = "run" /\ keeper.step = "asleep" /\ remote \in Addr
      /\ good \in Addr \cup {NoRecord} /\ lower \in Addr \cup {NoRecord}
      /\ sending \in BOOLEAN /\ doubtful \in BOOLEAN /\ k \in Kernel
  BY Zenon DEF Running, RInv, ResourcesTypeOK
<1>2. Sleeps(keeper)
  BY <1>1, KeeperSleeps, Zenon
<1>3. remote # NoRecord
  BY <1>1, ResourcesAssumption
<1>4. sending => /\ lower = remote /\ k.installed[remote] # NoRecord /\ ready(k.installed[remote])
  BY <1>1, Zenon DEF RInv, Sending, endpoint_resources_ready
<1>5. sending => lower = remote /\ Now \in Resource /\ ready(Now)
  BY <1>1, <1>4, Parts DEF Now
<1>6. Firm(Now) /\ Firm(NoRecord)
  BY <1>5, Zenon DEF Firm, Now
<1> QED BY <1>1, <1>2, <1>3, <1>5, <1>6

\* apply_switch comes between attempts: nothing is held back then.
LEMMA SwitchStep ==
  ASSUME RInv, NEW to \in Addr, Switch(to)
  PROVE  RInv'
<1> DEFINE A == {to, good} \ {NoRecord}
<1>1. Running /\ ~sending
  BY Zenon DEF Switch
<1>2. /\ k' \in ensure_installed(release_except({k}, A), to)
      /\ remote' = to /\ lower' = NoRecord /\ phase' = phase /\ good' = good /\ sending' = sending
      /\ keeper' = keeper /\ doubtful' = doubtful
  BY Zenon DEF Switch
<1>3. /\ phase = "run" /\ Sleeps(keeper) /\ Firm(NoRecord) /\ good \in Addr \cup {NoRecord}
      /\ NoRecord \in Addr \cup {NoRecord} /\ sending \in BOOLEAN /\ doubtful \in BOOLEAN
  BY <1>1, RunningTypes, Zenon
<1>4. A \in SUBSET Addr
  BY <1>3
<1>5. PICK sh \in BOOLEAN : /\ ~doubtful => sh
                            /\ {k} \in SUBSET Sound(sh, remote, NoRecord)
  BY <1>1, RunningSound, Zenon
<1>6. Sound(sh, remote, NoRecord) = Sound(sh, to, NoRecord)
  BY DEF Sound
<1> HIDE DEF A
<1>7. release_except({k}, A) \in SUBSET Sound(sh, to, NoRecord)
  BY <1>3, <1>4, <1>5, <1>6, ReleaseExceptKeeps, Zenon
<1>8. Free(to, to, NoRecord)
  BY Zenon DEF Free
<1>9. ensure_installed(release_except({k}, A), to) \in SUBSET Sound(sh, to, NoRecord)
  BY <1>7, <1>8, EnsureKeeps, Zenon
<1>10. k' \in Sound(sh, remote', NoRecord)
  BY <1>2, <1>9
<1>11. /\ phase' \in {"run", "exit"} /\ remote' \in Addr /\ good' \in Addr \cup {NoRecord}
       /\ lower' \in Addr \cup {NoRecord} /\ sending' \in BOOLEAN /\ doubtful' \in BOOLEAN
       /\ Sleeps(keeper')
  BY <1>2, <1>3
<1>12. (phase' = "run" /\ ~doubtful' => sh) /\ ~sending'
  BY <1>1, <1>2, <1>5
<1> QED BY <1>10, <1>11, <1>12, Settled, Zenon

\* on_endpoint_authenticated, promote and the retry of on_timer keep the record of the
\* relay in use.
LEMMA RetainSteps ==
  ASSUME RInv, Authenticated \/ Promote \/ Retry
  PROVE  RInv'
<1>1. Running
  BY Zenon DEF Authenticated, Promote, Retry
<1>2. /\ phase = "run" /\ Sleeps(keeper) /\ Firm(Now)
      /\ remote \in Addr /\ remote # NoRecord /\ good \in Addr \cup {NoRecord}
      /\ lower \in Addr \cup {NoRecord}
      /\ sending \in BOOLEAN /\ doubtful \in BOOLEAN
      /\ sending => lower = remote /\ Now \in Resource /\ ready(Now)
  BY <1>1, RunningTypes, Zenon
<1>3. PICK sh \in BOOLEAN : (~doubtful => sh) /\ {k} \in SUBSET Sound(sh, remote, Now)
  BY <1>1, RunningSound, Zenon
<1>4. ASSUME NEW A \in SUBSET Addr, remote \in A
      PROVE  release_except({k}, A) \in SUBSET Sound(sh, remote, Now)
  BY <1>2, <1>3, <1>4, ReleaseExceptKeeps, Zenon
<1>5. k' \in Sound(sh, remote, Now) /\ good' \in Addr \cup {NoRecord}
  <2>1. CASE Authenticated
    <3> DEFINE A == {remote, good'} \ {NoRecord}
    <3>1. k' \in release_except({k}, A) /\ good' \in {good, remote}
      BY <2>1, Zenon DEF Authenticated
    <3>2. A \in SUBSET Addr /\ remote \in A /\ good' \in Addr \cup {NoRecord}
      BY <1>2, <3>1
    <3> HIDE DEF A
    <3>3. release_except({k}, A) \in SUBSET Sound(sh, remote, Now)
      BY <1>4, <3>2, Zenon
    <3> QED BY <3>1, <3>2, <3>3
  <2>2. CASE Promote
    <3> DEFINE A == {remote}
    <3>1. k' \in release_except({k}, A) /\ good' = remote
      BY <2>2, Zenon DEF Promote
    <3>2. A \in SUBSET Addr /\ remote \in A /\ good' \in Addr \cup {NoRecord}
      BY <1>2, <3>1
    <3> HIDE DEF A
    <3>3. release_except({k}, A) \in SUBSET Sound(sh, remote, Now)
      BY <1>4, <3>2, Zenon
    <3> QED BY <3>1, <3>2, <3>3
  <2>3. CASE Retry
    <3>1. k' \in retry_cleanup(EnsureAll({k}, Retained)) /\ good' = good
      BY <2>3, Zenon DEF Retry
    <3>2. Retained \in SUBSET Addr
      BY <1>2 DEF Retained
    <3>3. EnsureAll({k}, Retained) \in SUBSET Sound(sh, remote, Now)
      BY <1>2, <1>3, <3>2, EnsureAllKeeps, Zenon
    <3>4. retry_cleanup(EnsureAll({k}, Retained)) \in SUBSET Sound(sh, remote, Now)
      BY <1>2, <3>3, RetryAllKeeps, Zenon
    <3> QED BY <1>2, <3>1, <3>4
  <2> QED BY <2>1, <2>2, <2>3, Zenon
<1>6. /\ phase' = phase /\ remote' = remote /\ sending' = sending /\ lower' = lower
      /\ keeper' = keeper /\ doubtful' = doubtful
  BY Zenon DEF Authenticated, Promote, Retry
<1> DEFINE r == Now
<1> HIDE DEF r
<1>7. /\ k' \in Sound(sh, remote', r) /\ phase' \in {"run", "exit"} /\ remote' \in Addr
      /\ good' \in Addr \cup {NoRecord} /\ lower' \in Addr \cup {NoRecord}
      /\ sending' \in BOOLEAN /\ doubtful' \in BOOLEAN /\ Sleeps(keeper')
      /\ phase' = "run" /\ ~doubtful' => sh
      /\ phase' = "run" /\ sending' => lower' = remote' /\ r \in Resource /\ ready(r)
  BY <1>2, <1>3, <1>5, <1>6 DEF r
<1> QED BY <1>7, Settled, Zenon

\* release_all and the retries after it.
LEMMA ExitSteps ==
  ASSUME RInv, Exit \/ FinalRetry
  PROVE  RInv'
<1>1. phase # "cleared" /\ keeper.step = "asleep" /\ phase' = "exit"
  BY DEF Exit, FinalRetry, Running
<1>2. /\ remote \in Addr /\ good \in Addr \cup {NoRecord} /\ lower \in Addr \cup {NoRecord}
      /\ sending \in BOOLEAN /\ doubtful \in BOOLEAN
  BY Zenon DEF RInv, ResourcesTypeOK
<1>3. Sleeps(keeper)
  BY <1>1, KeeperSleeps, Zenon
<1>4. PICK sh \in BOOLEAN : ~sh
  BY Zenon
<1>5. {k} \in SUBSET Sound(sh, remote, NoRecord) /\ Firm(NoRecord)
  BY <1>1, <1>2, <1>4, SoundNow, Zenon DEF Firm
<1>6. k' \in Sound(sh, remote, NoRecord)
  <2>1. CASE Exit
    <3> DEFINE A == {}
    <3>1. k' \in release_except({k}, A) /\ A \in SUBSET Addr
      BY <2>1 DEF Exit
    <3> HIDE DEF A
    <3>2. release_except({k}, A) \in SUBSET Sound(sh, remote, NoRecord)
      BY <1>2, <1>5, <3>1, ReleaseExceptKeeps, Zenon
    <3> QED BY <3>1, <3>2
  <2>2. CASE FinalRetry
    <3>1. k' \in retry_cleanup({k})
      BY <2>2, Zenon DEF FinalRetry
    <3>2. retry_cleanup({k}) \in SUBSET Sound(sh, remote, NoRecord)
      BY <1>2, <1>5, RetryAllKeeps, Zenon
    <3> QED BY <3>1, <3>2
  <2> QED BY <2>1, <2>2, Zenon
<1>7. /\ remote' = remote /\ good' = good /\ lower' = lower /\ keeper' = keeper
      /\ doubtful' = doubtful
  BY Zenon DEF Exit, FinalRetry
<1>8. sending' \in BOOLEAN
  <2>1. CASE Exit
    BY <2>1, Zenon DEF Exit
  <2>2. CASE FinalRetry
    BY <1>2, <2>2, Zenon DEF FinalRetry
  <2> QED BY <2>1, <2>2, Zenon
<1>9. /\ k' \in Sound(sh, remote', NoRecord) /\ phase' \in {"run", "exit"} /\ remote' \in Addr
      /\ good' \in Addr \cup {NoRecord} /\ lower' \in Addr \cup {NoRecord}
      /\ doubtful' \in BOOLEAN /\ Sleeps(keeper') /\ phase' # "run"
  BY <1>1, <1>2, <1>3, <1>6, <1>7
<1> QED BY <1>8, <1>9, Settled, Zenon
-----------------------------------------------------------------------------
(* The first firewall and the last.                                        *)

\* clear: the record of the patterns stays, and no jump is made.
Cleared(f, g) ==
  /\ g.keep = f.keep /\ g.keep_index = f.keep_index /\ g.patterns = f.patterns
  /\ \A a \in Addr, c \in Chain : HasJump(g, c, a) => HasJump(f, c, a)

\* clear only takes away: no jump and no pattern is new afterwards.
LEMMA ClearIs ==
  ASSUME NEW f \in Firewall, NEW o \in clear(f)
  PROVE  IsOutcome(o) /\ Cleared(f, o.fw)
<1>1. PICK d \in SUBSET Listed(f), e \in SUBSET Existing(f) : o = Left(f, d, e)
  BY DEF clear
<1> DEFINE J == JumpsLeft(f, d)
           C == ChainsLeft(f, J, e)
           g == [f EXCEPT !.jumps = J, !.chains = C]
           n == Cardinality(Listed(f) \ d) + Cardinality(Existing(f) \ e)
<1>2. o = Outcome(g, TRUE, n)
  BY <1>1, Zenon DEF Left
<1>3. \A a \in Addr, c \in Chain : f.jumps[a][c] \in Nat
  BY PartsOfFirewall, Zenon
<1>4. n \in Nat
  <2>1. f.patterns \in SUBSET Addr /\ Managed(f) \in SUBSET Chain
    BY DEF Firewall, Managed, Chain
  <2>2. IsFiniteSet(Chain) /\ IsFiniteSet(Addr)
    <3>1. IsFiniteSet({0, 1})
      <4>1. IsFiniteSet({}) /\ IsFiniteSet({} \cup {0})
        BY FS_EmptySet, FS_AddElement, Zenon
      <4>2. IsFiniteSet(({} \cup {0}) \cup {1})
        BY <4>1, FS_AddElement, Zenon
      <4>3. ({} \cup {0}) \cup {1} = {0, 1}
        OBVIOUS
      <4> QED BY <4>2, <4>3
    <3> QED BY <3>1, IptablesAssumption DEF Chain
  <2>3. IsFiniteSet(Addr \X Chain)
    BY <2>2, FS_Product, Zenon
  <2>4. Listed(f) \ d \in SUBSET (Addr \X Chain) /\ Existing(f) \ e \in SUBSET Chain
    BY <2>1 DEF Listed, Existing
  <2>5. Cardinality(Listed(f) \ d) \in Nat /\ Cardinality(Existing(f) \ e) \in Nat
    <3>1. IsFiniteSet(Listed(f) \ d) /\ IsFiniteSet(Existing(f) \ e)
      BY <2>2, <2>3, <2>4, FS_Subset, Zenon
    <3> QED BY <3>1, FS_CardinalityType, Zenon
  <2> QED BY <2>5
<1>5. J \in [Addr -> [Chain -> Nat]]
      /\ \A a \in Addr, c \in Chain : J[a][c] > 0 => f.jumps[a][c] > 0
  <2>1. ASSUME NEW a \in Addr, NEW c \in Chain
        PROVE  /\ f.jumps[a][c] - (IF <<a, c>> \in d THEN 1 ELSE 0) \in Nat
               /\ f.jumps[a][c] - (IF <<a, c>> \in d THEN 1 ELSE 0) > 0 => f.jumps[a][c] > 0
    <3>1. f.jumps[a][c] \in Nat
      BY <1>3, Zenon
    <3>2. <<a, c>> \in d => f.jumps[a][c] > 0
      BY <1>1 DEF HasJump, Listed
    <3> QED BY <3>1, <3>2
  <2> QED BY <2>1 DEF JumpsLeft
<1>6. C \in [Chain -> {"none", "empty", "drop"}]
  <2>1. \A c \in Chain : f.chains[c] \in {"none", "empty", "drop"}
    BY DEF Firewall
  <2> HIDE DEF J
  <2> QED BY <2>1 DEF ChainsLeft
<1> HIDE DEF J, C, n
<1>7. /\ g \in Firewall /\ g.jumps = J /\ g.keep = f.keep /\ g.keep_index = f.keep_index
      /\ g.patterns = f.patterns
  <2> DEFINE JJ == [Addr -> [Chain -> Nat]]
             D == [Chain -> {"none", "empty", "drop"}]
             P == SUBSET Addr
             h == [f EXCEPT !.jumps = J]
  <2>1. J \in JJ /\ C \in D
    BY <1>5, <1>6, Zenon
  <2>2. Firewall = [keep : BOOLEAN, keep_index : Chain, patterns : P, jumps : JJ, chains : D]
    BY Zenon DEF Firewall
  <2>3. g = [h EXCEPT !.chains = C]
    OBVIOUS
  <2> HIDE DEF JJ, D, P, g
  <2>4. /\ h \in Firewall /\ h.jumps = J /\ h.keep = f.keep /\ h.keep_index = f.keep_index
        /\ h.patterns = f.patterns
    BY <2>1, <2>2
  <2> HIDE DEF h
  <2> QED BY <2>1, <2>2, <2>3, <2>4
<1> HIDE DEF g
<1>8. o.fw = g /\ o.answer = TRUE /\ o.failed = n
  BY <1>2 DEF Outcome
<1>9. o = Outcome(o.fw, o.answer, o.failed) /\ o.answer \in BOOLEAN
  BY <1>2, <1>8, Zenon
<1>10. Cleared(f, g)
  BY <1>5, <1>7 DEF Cleared, HasJump
<1> QED BY <1>4, <1>7, <1>8, <1>9, <1>10, Zenon DEF IsOutcome

\* clear in main, after the client's loop.
LEMMA ClearStep ==
  ASSUME RInv, Clear
  PROVE  RInv'
<1>1. /\ phase' = "cleared" /\ keeper.step = "asleep" /\ keeper' = keeper /\ remote' = remote
      /\ good' = good /\ lower' = lower /\ sending' = sending /\ doubtful' = doubtful
  BY Zenon DEF Clear
<1>2. PICK o \in clear(k.fw) : k' = Fired(k, o.fw, k.faults + o.failed)
  BY Zenon DEF Clear, Within, Fired
<1>3. k \in Kernel /\ k.fw \in Firewall /\ k.faults \in Nat
  BY Parts DEF RInv, ResourcesTypeOK
<1>4. IsOutcome(o) /\ Cleared(k.fw, o.fw)
  BY <1>3, ClearIs, Zenon
<1>5. /\ k' \in Kernel /\ k'.fw = o.fw /\ k'.installed = k.installed /\ k'.routes = k.routes
      /\ k'.leaked = k.leaked
  <2>1. o.fw \in Firewall /\ k.faults + o.failed \in Nat
    BY <1>3, <1>4 DEF IsOutcome
  <2> QED BY <1>2, <1>3, <2>1, FiredIs, ZenonT(60)
<1>6. ResourcesTypeOK'
  <2>1. o.fw.patterns = k.fw.patterns
    BY <1>4, Zenon DEF Cleared
  <2> QED BY <1>1, <1>5, <2>1 DEF RInv, ResourcesTypeOK
<1>7. Routed'
  BY <1>5, RoutedStill, Zenon DEF RInv
<1>8. Ruled'
  <2>1. ASSUME NEW a \in Addr PROVE JumpAt(o.fw, a)
    <3>1. JumpAt(k.fw, a)
      BY Zenon DEF RInv, Ruled
    <3>2. 0 \in Chain
      BY DEF Chain
    <3> QED BY <1>4, <3>1, <3>2 DEF JumpAt, Cleared
  <2> QED BY <1>1, <1>5, <2>1 DEF Ruled
<1>9. Booting' /\ Sending'
  BY <1>1 DEF Booting, Sending
<1>10. Kept'
  <2>1. keeper.left = {}
    BY <1>1, Zenon DEF RInv, Kept
  <2> QED BY <1>1, <2>1 DEF Kept
<1> QED BY <1>6, <1>7, <1>8, <1>9, <1>10, Zenon DEF RInv

\* The commands of init concern one chain and one address.
ChainOnly(f, c, a, g) ==
  /\ g.keep = f.keep /\ g.keep_index = f.keep_index /\ g.patterns = f.patterns
  /\ \A e \in Addr : e # a => g.jumps[e] = f.jumps[e]
  /\ \A d \in Chain : d # c => g.jumps[a][d] = f.jumps[a][d] /\ g.chains[d] = f.chains[d]

\* Two commands of init on one chain, one after the other.
LEMMA ChainOnlyThen ==
  ASSUME NEW f, NEW g, NEW h, NEW c \in Chain, NEW a \in Addr,
         ChainOnly(f, c, a, g), ChainOnly(g, c, a, h)
  PROVE  ChainOnly(f, c, a, h)
  BY DEF ChainOnly

\* A second command, with the faults of the first.
LEMMA AndIs ==
  ASSUME NEW o, IsOutcome(o), NEW X, \A p \in X : IsOutcome(p), NEW q \in And(o, X)
  PROVE  \E p \in X : IsOutcome(q) /\ q.fw = p.fw /\ q.answer = p.answer
<1>1. PICK p \in X : q = [p EXCEPT !.failed = @ + o.failed]
  BY Zenon DEF And
<1> DEFINE g == p.fw
           x == p.answer
           i == p.failed
           j == o.failed
<1>2. p = Outcome(g, x, i) /\ g \in Firewall /\ x \in BOOLEAN /\ i \in Nat /\ j \in Nat
  BY Zenon DEF IsOutcome
<1>3. q = [p EXCEPT !.failed = i + j]
  BY <1>1, Zenon
<1> HIDE DEF g, x, i, j
<1>4. [Outcome(g, x, i) EXCEPT !.failed = i + j] = Outcome(g, x, i + j) /\ i + j \in Nat
  BY <1>2 DEF Outcome
<1>5. q = Outcome(g, x, i + j)
  BY <1>2, <1>3, <1>4, Zenon
<1>6. q.fw = g /\ q.answer = x /\ q.failed = i + j
  BY <1>5 DEF Outcome
<1>7. IsOutcome(q)
  BY <1>2, <1>4, <1>5, <1>6, Zenon DEF IsOutcome
<1> QED BY <1>6, <1>7, Zenon DEF g, x

\* A second command that runs only after a first one that succeeded.
Follows(o, X, q) ==
  /\ IsOutcome(q)
  /\ \/ ~o.answer /\ q = o
     \/ o.answer /\ \E p \in X : q.fw = p.fw /\ q.answer = p.answer

\* The second of two commands runs when the first succeeded.
LEMMA IfDoneIs ==
  ASSUME NEW o, IsOutcome(o), NEW X, \A p \in X : IsOutcome(p), NEW q \in IfDone(o, X)
  PROVE  Follows(o, X, q)
<1>1. CASE o.answer
  <2>1. q \in And(o, X)
    BY <1>1, Zenon DEF IfDone
  <2>2. \E p \in X : IsOutcome(q) /\ q.fw = p.fw /\ q.answer = p.answer
    BY <2>1, AndIs, Zenon
  <2> QED BY <1>1, <2>2, Zenon DEF Follows
<1>2. CASE ~o.answer
  <2>1. q = o
    BY <1>2, Zenon DEF IfDone
  <2> QED BY <1>2, <2>1, Zenon DEF Follows
<1> QED BY <1>1, <1>2, Zenon

\* init, for one chain.
LEMMA PrepareIs ==
  ASSUME NEW f \in Firewall, NEW c \in Chain, NEW a \in Addr, NEW o \in Prepare(f, c, a)
  PROVE  /\ IsOutcome(o) /\ ChainOnly(f, c, a, o.fw)
         /\ o.answer => o.fw.chains[c] = "drop" /\ HasJump(o.fw, c, a)
<1>0. PICK p \in Flush(f, c) :
        \E q \in IfDone(p, InsertDrop(p.fw, c)) : o \in IfDone(q, Insert(q.fw, c, a))
  BY Zenon DEF Prepare
<1>1. PICK q \in IfDone(p, InsertDrop(p.fw, c)) : o \in IfDone(q, Insert(q.fw, c, a))
  BY <1>0, Zenon
<1>2. ChainStep(f, c, p)
  BY FlushSteps, Zenon
<1>3. IsOutcome(p) /\ ChainOnly(f, c, a, p.fw) /\ p.fw \in Firewall
  BY <1>2, Zenon DEF ChainStep, ChainOnly, IsOutcome
<1>4. ASSUME NEW x \in InsertDrop(p.fw, c)
      PROVE  /\ IsOutcome(x) /\ ChainOnly(p.fw, c, a, x.fw)
             /\ x.answer => x.fw.chains[c] = "drop"
  <2>1. ChainStep(p.fw, c, x) /\ (x.answer => x.fw.chains[c] = "drop")
    BY <1>3, InsertDropSteps, Zenon
  <2> QED BY <2>1, Zenon DEF ChainStep, ChainOnly
<1>5. /\ IsOutcome(q)
      /\ \/ ~p.answer /\ q = p
         \/ p.answer /\ \E x \in InsertDrop(p.fw, c) : q.fw = x.fw /\ q.answer = x.answer
  <2>1. \A x \in InsertDrop(p.fw, c) : IsOutcome(x)
    BY <1>4, Zenon
  <2>2. Follows(p, InsertDrop(p.fw, c), q)
    BY <1>3, <2>1, IfDoneIs, Zenon
  <2> QED BY <2>2, Zenon DEF Follows
<1>6. ChainOnly(f, c, a, q.fw) /\ (q.answer => q.fw.chains[c] = "drop") /\ q.fw \in Firewall
  <2>1. CASE ~p.answer /\ q = p
    BY <1>3, <2>1, Zenon
  <2>2. CASE \E x \in InsertDrop(p.fw, c) : q.fw = x.fw /\ q.answer = x.answer
    <3>1. ChainOnly(p.fw, c, a, q.fw) /\ (q.answer => q.fw.chains[c] = "drop")
      BY <1>4, <2>2, Zenon
    <3> QED BY <1>3, <1>5, <3>1, ChainOnlyThen, Zenon DEF IsOutcome
  <2> QED BY <1>5, <2>1, <2>2, Zenon
<1>7. ASSUME NEW x \in Insert(q.fw, c, a)
      PROVE  /\ IsOutcome(x) /\ ChainOnly(q.fw, c, a, x.fw) /\ x.fw.chains = q.fw.chains
             /\ x.answer => HasJump(x.fw, c, a)
  <2>1. Insertion(q.fw, c, a, x)
    BY <1>6, InsertSteps, Zenon
  <2> QED BY <2>1, Zenon DEF Insertion, IsOutcome, RuleOnly, ChainOnly
<1>8. /\ IsOutcome(o)
      /\ \/ ~q.answer /\ o = q
         \/ q.answer /\ \E x \in Insert(q.fw, c, a) : o.fw = x.fw /\ o.answer = x.answer
  <2>1. \A x \in Insert(q.fw, c, a) : IsOutcome(x)
    BY <1>7, Zenon
  <2>2. Follows(q, Insert(q.fw, c, a), o)
    BY <1>1, <1>5, <2>1, IfDoneIs, Zenon
  <2> QED BY <2>2, Zenon DEF Follows
<1>9. CASE ~q.answer /\ o = q
  BY <1>5, <1>6, <1>9, Zenon
<1>10. CASE q.answer /\ \E x \in Insert(q.fw, c, a) : o.fw = x.fw /\ o.answer = x.answer
  <2>1. /\ ChainOnly(q.fw, c, a, o.fw) /\ o.fw.chains = q.fw.chains
        /\ o.answer => HasJump(o.fw, c, a)
    BY <1>7, <1>10, Zenon
  <2>2. ChainOnly(f, c, a, o.fw)
    BY <1>6, <2>1, ChainOnlyThen, Zenon
  <2>3. o.answer => o.fw.chains[c] = "drop"
    BY <1>6, <1>10, <2>1, Zenon
  <2> QED BY <1>8, <2>1, <2>2, <2>3, Zenon
<1> QED BY <1>8, <1>9, <1>10, Zenon

\* init: only the first address has jumps, and when it succeeds the first chain drops what
\* comes from it.
Started(keep, a, o) ==
  /\ IsOutcome(o) /\ o.fw.keep = keep /\ o.fw.keep_index = 0 /\ o.fw.patterns = {a}
  /\ \A e \in Addr, c \in Chain : e # a => ~HasJump(o.fw, c, e)
  /\ o.answer => o.fw.chains[0] = "drop" /\ HasJump(o.fw, 0, a)

\* Iptables::init: it succeeds with everything in place, or takes back what it made.
LEMMA InitIs ==
  ASSUME NEW keep \in BOOLEAN, NEW a \in Addr, NEW o \in init(keep, a)
  PROVE  Started(keep, a, o)
<1> DEFINE f == [NoFirewall(keep) EXCEPT !.patterns = {a}]
           Second(p) == IF keep THEN IfDone(p, Prepare(p.fw, 1, a)) ELSE {p}
           Back(q) ==
             IF q.answer THEN {q} ELSE {[x EXCEPT !.answer = FALSE] : x \in And(q, clear(q.fw))}
<1>1. PICK p \in Prepare(f, 0, a) : \E q \in Second(p) : o \in Back(q)
  <2>1. init(keep, a) = UNION {Back(q) : q \in UNION {Second(x) : x \in Prepare(f, 0, a)}}
    BY Zenon DEF init
  <2> HIDE DEF Back, Second, f
  <2> QED BY <2>1, Zenon
<1>2. PICK q \in Second(p) : o \in Back(q)
  BY <1>1, Zenon
<1>3. 0 \in Chain /\ 1 \in Chain /\ 0 # 1
  BY DEF Chain
<1>4. /\ f \in Firewall /\ f.keep = keep /\ f.keep_index = 0 /\ f.patterns = {a}
      /\ \A e \in Addr, c \in Chain : f.jumps[e][c] = 0
  <2> DEFINE D == [Chain -> {"none", "empty", "drop"}]
             JJ == [Addr -> [Chain -> Nat]]
             P == SUBSET Addr
             C == [c \in Chain |-> "none"]
             J == NoJumps
  <2>1. C \in D /\ J \in JJ /\ {a} \in P /\ \A e \in Addr, c \in Chain : J[e][c] = 0
    BY DEF NoJumps
  <2>2. Firewall = [keep : BOOLEAN, keep_index : Chain, patterns : P, jumps : JJ, chains : D]
    BY Zenon DEF Firewall
  <2>3. f = [keep |-> keep, keep_index |-> 0, patterns |-> {a}, jumps |-> J, chains |-> C]
    BY DEF NoFirewall
  <2> HIDE DEF D, JJ, P, C, J, f
  <2>4. f \in Firewall /\ f.keep = keep /\ f.keep_index = 0 /\ f.patterns = {a} /\ f.jumps = J
    BY <1>3, <2>1, <2>2, <2>3
  <2> QED BY <2>1, <2>4
<1> HIDE DEF f
<1>5. /\ IsOutcome(p) /\ ChainOnly(f, 0, a, p.fw)
      /\ p.answer => p.fw.chains[0] = "drop" /\ HasJump(p.fw, 0, a)
  BY <1>3, <1>4, PrepareIs, Zenon
<1>6. Started(keep, a, p)
  <2>1. \A e \in Addr, c \in Chain : e # a => ~HasJump(p.fw, c, e)
    <3> TAKE e \in Addr, c \in Chain
    <3> HAVE e # a
    <3>1. p.fw.jumps[e] = f.jumps[e] /\ f.jumps[e][c] = 0
      BY <1>4, <1>5, Zenon DEF ChainOnly
    <3> QED BY <3>1 DEF HasJump
  <2> QED BY <1>4, <1>5, <2>1, Zenon DEF Started, ChainOnly
<1>7. Started(keep, a, q)
  <2>1. CASE q = p
    BY <1>6, <2>1, Zenon
  <2>2. CASE q \in IfDone(p, Prepare(p.fw, 1, a))
    <3>1. p.fw \in Firewall
      BY <1>5, Zenon DEF IsOutcome
    <3>2. \A x \in Prepare(p.fw, 1, a) : IsOutcome(x) /\ ChainOnly(p.fw, 1, a, x.fw)
      BY <1>3, <3>1, PrepareIs, Zenon
    <3>3. Follows(p, Prepare(p.fw, 1, a), q)
      BY <1>5, <2>2, <3>2, IfDoneIs, Zenon
    <3>4. CASE ~p.answer /\ q = p
      BY <1>6, <3>4, Zenon
    <3>5. CASE p.answer /\ \E x \in Prepare(p.fw, 1, a) : q.fw = x.fw /\ q.answer = x.answer
      <4>1. IsOutcome(q) /\ ChainOnly(p.fw, 1, a, q.fw)
        BY <3>2, <3>3, <3>5, Zenon DEF Follows
      <4>2. q.fw.chains[0] = "drop" /\ q.fw.jumps[a][0] = p.fw.jumps[a][0]
        BY <1>3, <1>5, <3>5, <4>1, Zenon DEF ChainOnly
      <4>3. HasJump(q.fw, 0, a)
        BY <1>5, <3>5, <4>2 DEF HasJump
      <4>4. \A e \in Addr, c \in Chain : e # a => ~HasJump(q.fw, c, e)
        BY <1>6, <4>1, Zenon DEF Started, ChainOnly, HasJump
      <4> QED BY <1>6, <4>1, <4>2, <4>3, <4>4, Zenon DEF Started, ChainOnly
    <3> QED BY <3>3, <3>4, <3>5, Zenon DEF Follows
  <2> QED BY <1>2, <2>1, <2>2, Zenon
<1>8. CASE q.answer
  <2>1. o = q
    BY <1>2, <1>8, Zenon
  <2> QED BY <1>7, <2>1, Zenon
<1>9. CASE ~q.answer
  <2>1. PICK x \in And(q, clear(q.fw)) : o = [x EXCEPT !.answer = FALSE]
    BY <1>2, <1>9, Zenon
  <2>2. IsOutcome(q) /\ q.fw \in Firewall
    BY <1>7, Zenon DEF Started, IsOutcome
  <2>3. \A y \in clear(q.fw) : IsOutcome(y) /\ Cleared(q.fw, y.fw)
    BY <2>2, ClearIs, Zenon
  <2>4. PICK y \in clear(q.fw) : IsOutcome(x) /\ x.fw = y.fw
    BY <2>2, <2>3, AndIs, ZenonT(60)
  <2>5. Cleared(q.fw, x.fw) /\ x.fw \in Firewall
    BY <2>3, <2>4, Zenon DEF IsOutcome
  <2>6. o.fw = x.fw /\ IsOutcome(o) /\ ~o.answer
    <3> DEFINE g == x.fw
               y1 == x.answer
               n == x.failed
               z == FALSE
    <3>1. x = Outcome(g, y1, n) /\ n \in Nat /\ g \in Firewall /\ ~z /\ z \in BOOLEAN
      BY <2>4, Zenon DEF IsOutcome
    <3>2. o = [x EXCEPT !.answer = z]
      BY <2>1, Zenon
    <3> HIDE DEF g, y1, n, z
    <3>3. [Outcome(g, y1, n) EXCEPT !.answer = z] = Outcome(g, z, n)
      BY DEF Outcome
    <3>4. o = Outcome(g, z, n)
      BY <3>1, <3>2, <3>3, Zenon
    <3>5. o.fw = g /\ o.answer = z /\ o.failed = n
      BY <3>4 DEF Outcome
    <3>6. ~o.answer /\ o = Outcome(o.fw, o.answer, o.failed) /\ o.answer \in BOOLEAN
      BY <3>1, <3>4, <3>5, Zenon
    <3> QED BY <3>1, <3>5, <3>6, Zenon DEF g, IsOutcome
  <2>7. \A e \in Addr, c \in Chain : e # a => ~HasJump(o.fw, c, e)
    BY <1>7, <2>5, <2>6, Zenon DEF Started, Cleared
  <2> QED BY <1>7, <2>5, <2>6, <2>7, Zenon DEF Started, Cleared
<1> QED BY <1>8, <1>9, Zenon

\* Iptables::init and record_initial_endpoint.
LEMMA BootStep ==
  ASSUME RInv, Boot
  PROVE  RInv'
<1>1. /\ phase = "boot" /\ remote' = remote /\ good' = good /\ sending' = sending
      /\ lower' = lower /\ keeper' = keeper /\ doubtful' = doubtful
  BY Zenon DEF Boot
<1>2. /\ k.installed = [a \in Addr |-> NoRecord] /\ keeper = Asleep /\ ~doubtful /\ ~sending
  BY <1>1, Zenon DEF RInv, Booting
<1>3. /\ k \in Kernel /\ remote \in Addr /\ good \in Addr \cup {NoRecord}
      /\ lower \in Addr \cup {NoRecord} /\ sending \in BOOLEAN /\ doubtful \in BOOLEAN
  BY Zenon DEF RInv, ResourcesTypeOK
<1>4. k.fw.keep \in BOOLEAN
  BY <1>3, Parts, PartsOfFirewall
<1>5. Sleeps(keeper)
  BY <1>2 DEF Sleeps, Asleep
<1> DEFINE q == [NewResources EXCEPT !.rule = "Present"]
<1>6. PICK o \in init(k.fw.keep, remote) :
        \/ o.answer /\ k' \in ensure_installed({With(Fired(k, o.fw, o.failed), remote, q)}, remote)
           /\ phase' = "run"
        \/ k' = Fired(k, o.fw, o.failed) /\ phase' = "cleared"
  BY Zenon DEF Boot, With, Fired
<1> DEFINE v == Fired(k, o.fw, o.failed)
           u == With(v, remote, q)
<1>7. Started(k.fw.keep, remote, o)
  BY <1>3, <1>4, InitIs, Zenon
<1>8. o.fw \in Firewall /\ o.failed \in Nat
  BY <1>7, Zenon DEF Started, IsOutcome
<1>9. /\ v \in Kernel /\ v.fw = o.fw /\ v.installed = k.installed /\ v.routes = k.routes
      /\ v.leaked = k.leaked
  BY <1>3, <1>8, FiredIs, ZenonT(60)
<1>10. \A a \in Addr : JumpAt(o.fw, a)
  <2>1. ASSUME NEW a \in Addr PROVE JumpAt(o.fw, a)
    <3>1. 0 \in Chain
      BY DEF Chain
    <3>2. a # remote => ~HasJump(o.fw, 0, a)
      BY <1>7, <3>1, Zenon DEF Started
    <3>3. a = remote => a \in o.fw.patterns
      BY <1>7 DEF Started
    <3> QED BY <3>2, <3>3, Zenon DEF JumpAt
  <2> QED BY <2>1, Zenon
<1> HIDE DEF v
<1>11. CASE k' = v /\ phase' = "cleared"
  <2>1. ResourcesTypeOK'
    <3>1. keeper' \in [step : Addr \cup Step, left : SUBSET k'.fw.patterns, clean : BOOLEAN]
      BY <1>1, <1>5 DEF Sleeps, Step
    <3> QED BY <1>1, <1>3, <1>9, <1>11, <3>1 DEF ResourcesTypeOK
  <2>2. Routed'
    BY <1>9, <1>11, RoutedStill, Zenon DEF RInv
  <2>3. Ruled'
    BY <1>9, <1>10, <1>11 DEF Ruled
  <2>4. Booting' /\ Sending'
    BY <1>11 DEF Booting, Sending
  <2>5. Kept'
    BY <1>1, <1>5, <1>11 DEF Kept, Sleeps
  <2> QED BY <2>1, <2>2, <2>3, <2>4, <2>5, Zenon DEF RInv
<1>12. CASE o.answer /\ k' \in ensure_installed({u}, remote) /\ phase' = "run"
  <2>1. q \in Resource /\ q.route = "Missing" /\ q.rule = "Present"
    <3>1. NewResources \in Resource /\ NewResources.route = "Missing"
      BY ResourcesAssumption DEF NewResources, Resource
    <3>2. "Present" \in {"Missing", "Present", "Removing"}
      OBVIOUS
    <3>3. q = RuleAs(NewResources, "Present")
      BY Zenon DEF RuleAs
    <3> HIDE DEF q
    <3> QED BY <3>1, <3>2, <3>3, RuleField
  <2> HIDE DEF q
  <2>2. q # NoRecord /\ q \in Resource \cup {NoRecord}
    BY <2>1, PartsOfResource, Zenon
  <2>3. /\ u \in Kernel /\ u.fw = o.fw /\ u.routes = k.routes /\ u.leaked = k.leaked
        /\ \A c \in Addr : c # remote => u.installed[c] = NoRecord
        /\ u.installed[remote] = q
    <3>1. \A c \in Addr : v.installed[c] = NoRecord
      BY <1>2, <1>9
    <3>2. /\ u \in Kernel /\ u.fw = v.fw /\ u.routes = v.routes /\ u.leaked = v.leaked
          /\ \A c \in Addr : c # remote => u.installed[c] = v.installed[c]
          /\ u.installed[remote] = q
      <4>1. OnRecord(v, remote, q, u)
        BY <1>3, <1>9, <2>2, WithIs, Zenon
      <4> HIDE DEF u
      <4> QED BY <4>1, Zenon DEF OnRecord
    <3> HIDE DEF u
    <3> QED BY <1>9, <3>1, <3>2, Zenon
  <2> HIDE DEF u
  <2>4. ASSUME NEW c \in Addr PROVE RouteAt(u, c) /\ RuleAt(u, c) /\ JumpAt(u.fw, c)
    <3>1. RouteAt(k, c) /\ k.installed[c] = NoRecord
      BY <1>2, Zenon DEF RInv, Routed
    <3>2. RouteAt(u, c)
      BY Zenon, <2>1, <2>2, <2>3, <3>1 DEF RouteAt
    <3>3. o.fw.patterns = {remote}
      BY <1>7, Zenon DEF Started
    <3>4. RuleAt(u, c)
      BY <2>1, <2>2, <2>3, <3>3 DEF RuleAt
    <3> QED BY <1>10, <2>3, <3>2, <3>4, Zenon
  <2>5. active_chain(u.fw) = 0
    BY <1>7, <2>3 DEF Started, active_chain
  <2>6. Shield(u, 0)
    <3>1. o.fw.chains[0] = "drop" /\ HasJump(o.fw, 0, remote)
      BY <1>7, <1>12, Zenon DEF Started
    <3> QED BY <2>3, <3>1, Zenon DEF Shield
  <2>7. PICK sh \in BOOLEAN : sh
    BY Zenon
  <2>8. {u} \in SUBSET Sound(sh, remote, NoRecord)
    <3>1. u \in Sound(sh, remote, NoRecord)
      BY <2>3, <2>4, <2>5, <2>6, Zenon DEF Sound
    <3> QED BY <3>1
  <2>9. Free(remote, remote, NoRecord)
    BY Zenon DEF Free
  <2>10. ensure_installed({u}, remote) \in SUBSET Sound(sh, remote, NoRecord)
    BY <1>3, <2>8, <2>9, EnsureKeeps, Zenon
  <2>11. k' \in Sound(sh, remote', NoRecord)
    BY <1>1, <1>12, <2>10
  <2>12. /\ phase' \in {"run", "exit"} /\ remote' \in Addr /\ good' \in Addr \cup {NoRecord}
         /\ lower' \in Addr \cup {NoRecord} /\ sending' \in BOOLEAN /\ doubtful' \in BOOLEAN
         /\ Sleeps(keeper') /\ ~sending'
    BY <1>1, <1>2, <1>3, <1>5, <1>12
  <2> QED BY <2>7, <2>11, <2>12, Settled, Zenon
<1> QED BY <1>6, <1>11, <1>12, Zenon DEF v

-----------------------------------------------------------------------------
(* The theorems.                                                           *)

\* Every step of the client, of the keep thread and of what is around them preserves
\* the invariant.
LEMMA StepInvariant == RInv /\ NextHop /\ [Next]_vars => RInv'
<1> SUFFICES ASSUME RInv, NextHop, [Next]_vars PROVE RInv'
  OBVIOUS
<1>1. CASE UNCHANGED vars
  <2>1. /\ k' = k /\ phase' = phase /\ remote' = remote /\ good' = good /\ sending' = sending
        /\ lower' = lower /\ keeper' = keeper /\ doubtful' = doubtful
    BY <1>1 DEF vars
  <2>2. ResourcesTypeOK' /\ Routed' /\ Ruled'
    BY <2>1 DEF RInv, ResourcesTypeOK, Routed, Ruled
  <2>3. Booting' /\ Kept' /\ Sending'
    BY <2>1 DEF RInv, Booting, Kept, Sending
  <2> QED BY <2>2, <2>3, Zenon DEF RInv
<1>2. CASE Boot
  BY <1>2, BootStep, Zenon
<1>3. ASSUME NEW to \in Addr, Switch(to) PROVE RInv'
  BY <1>3, SwitchStep, Zenon
<1>4. CASE Attempt \/ GoIdle
  BY <1>4, AttemptSteps, Zenon
<1>5. CASE Authenticated \/ Promote \/ Retry
  BY <1>5, RetainSteps, Zenon
<1>6. CASE Exit \/ FinalRetry
  BY <1>6, ExitSteps, Zenon
<1>7. CASE Clear
  BY <1>7, ClearStep, Zenon
<1>8. CASE KeepBegin \/ KeepEnd
  BY <1>8, KeepBeginStep, KeepEndStep, Zenon
<1>9. CASE KeepFlush \/ KeepDrop
  BY <1>9, KeepFlushStep, KeepDropStep, Zenon
<1>10. CASE KeepDelete
  BY <1>10, KeepDeleteStep, Zenon
<1>11. ASSUME NEW a \in Addr, KeepInsert(a) PROVE RInv'
  BY <1>11, KeepInsertStep, Zenon
<1>12. CASE Reload
  BY <1>12, ReloadStep, Zenon
<1> QED BY <1>1, <1>2, <1>3, <1>4, <1>5, <1>6, <1>7, <1>8, <1>9, <1>10, <1>11, <1>12, Zenon
        DEF Next

\* Whatever commands and requests fail, in whatever order the client and the keep
\* thread run: the records, the routes and the firewall of client.rs and iptables.rs
\* agree the way the inductive invariant says.
THEOREM ResourcesInvariant == Spec => []RInv
<1>1. Init => NextHop
  BY DEF Init, NextHop
<1> QED BY <1>1, NextHopStep, InitInvariant, StepInvariant, PTL DEF Spec

\* The records and the tables have their types, and keep never walks to a pattern that
\* was deleted meanwhile.
THEOREM ResourcesTypes == Spec => []ResourcesTypeOK
<1>1. RInv => ResourcesTypeOK
  BY Zenon DEF RInv
<1> QED BY <1>1, ResourcesInvariant, PTL

\* apply_switch and on_timer: as long as an attempt or a session goes on, its frames go to
\* the next hop of the relay, its route is in the table and its packets are dropped by
\* the kernel, at every command of keep too, unless commands of keep fail.
THEOREM SendingIsProtected == Spec => []SendingProtected
<1>1. RInv => SendingProtected
  <2> SUFFICES ASSUME RInv, phase = "run", sending PROVE
        /\ lower = remote
        /\ k.routes[remote][k.installed[remote].metric] = "ours"
        /\ doubtful \/ Covered(k.fw, remote)
    BY Zenon DEF SendingProtected
  <2>1. /\ lower = remote /\ remote \in Addr /\ k.installed[remote] # NoRecord
        /\ k.installed[remote].route = "Present" /\ k.installed[remote].rule = "Present"
    BY DEF RInv, Sending, ResourcesTypeOK, endpoint_resources_ready, ready
  <2>2. k.routes[remote][k.installed[remote].metric] = "ours"
    <3>1. RouteAt(k, remote)
      BY <2>1, Zenon DEF RInv, Routed
    <3> QED BY Zenon, <2>1, <3>1 DEF RouteAt
  <2>3. ASSUME ~doubtful PROVE Covered(k.fw, remote)
    <3> DEFINE c == IF keeper.step = "asleep" THEN active_chain(k.fw) ELSE 1 - k.fw.keep_index
    <3>1. Shield(k, c)
      BY <2>3, Zenon DEF RInv, Kept
    <3>2. c \in Chain
      BY KeeperIs DEF active_chain, Chain
    <3> HIDE DEF c
    <3> QED BY <2>1, <3>1, <3>2, Zenon DEF Shield, Covered
  <2> QED BY <2>1, <2>2, <2>3, Zenon
<1> QED BY <1>1, ResourcesInvariant, PTL

\* A route that is ours is on record until the kernel confirms that it is gone, unless
\* the kernel never confirmed that it made it; no route of the other client is on
\* record; and with one chain no jump is forgotten.
THEOREM OwnedAlways == Spec => []Owned
<1>1. RInv => Owned
  <2> SUFFICES ASSUME RInv PROVE Owned
    OBVIOUS
  <2>1. ASSUME NEW a \in Addr, NEW m \in 0 .. Metric - 1, k.routes[a][m] = "ours",
               <<a, m>> \notin k.leaked
        PROVE  /\ k.installed[a] # NoRecord /\ k.installed[a].metric = m
               /\ k.installed[a].route \in {"Present", "Removing"}
    <3>1. RouteAt(k, a)
      BY Zenon DEF RInv, Routed
    <3>2. /\ k.installed[a] # NoRecord /\ k.installed[a].metric = m
          /\ k.installed[a].route # "Missing"
      BY <2>1, <3>1, Zenon DEF RouteAt, Metrics
    <3>3. k.installed[a] \in Resource
      BY <3>2, KeeperIs, Parts, Zenon
    <3> QED BY <3>2, <3>3, PartsOfResource
  <2>2. ASSUME NEW a \in Addr, k.installed[a] # NoRecord, k.installed[a].route # "Missing"
        PROVE  k.routes[a][k.installed[a].metric] # "peer"
    <3>1. RouteAt(k, a)
      BY Zenon DEF RInv, Routed
    <3> QED BY <2>2, <3>1, Zenon DEF RouteAt
  <2>3. ~k.fw.keep => \A a \in Addr : HasJump(k.fw, 0, a) => a \in k.fw.patterns
    BY Zenon DEF RInv, Ruled, JumpAt
  <2> QED BY <2>1, <2>2, <2>3, Zenon DEF Owned
<1> QED BY <1>1, ResourcesInvariant, PTL

=============================================================================
