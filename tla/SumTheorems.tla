---------------------------- MODULE SumTheorems ----------------------------
(***************************************************************************)
(* What TLAPS proves of sums over finite sets.  The sum is defined by a    *)
(* recursion that takes an arbitrary member at a time: it has a solution,  *)
(* one only, and the order of the members does not matter.  The induction  *)
(* is over subsets, by a smallest one that would be an exception.           *)
(***************************************************************************)
EXTENDS Sums, FiniteSetTheorems, WellFoundedInduction, TLAPS

----------------------------------------------------------------------------
(* Induction over the subsets of a finite set.                              *)

(* Of some finite sets, one has no other of them below it. *)
LEMMA SmallestSet ==
  ASSUME NEW S, IsFiniteSet(S), NEW Q \in SUBSET (SUBSET S), Q # {}
  PROVE  \E T \in Q : \A U \in SUBSET T : U # T => U \notin Q
<1> DEFINE R == StrictSubsetOrdering(S)
<1>1. IsWellFoundedOn(R, SUBSET S)
  BY FS_StrictSubsetOrderingWellFounded, FS_FiniteSubsetsOfFinite, Zenon
<1>2. PICK T \in Q : \A U \in Q : <<U, T>> \notin R
  <2> HIDE DEF R
  <2> QED BY <1>1, WFMin, Zenon
<1>3. ASSUME NEW U \in SUBSET T, U # T, U \in Q
      PROVE  FALSE
  <2>1. <<U, T>> \in (SUBSET S) \X (SUBSET S)
    BY <1>3
  <2>2. <<U, T>> \in R
    BY <2>1, <1>3 DEF StrictSubsetOrdering
  <2> QED BY <2>2, <1>2, <1>3
<1> QED BY <1>3

(* What holds of nothing and survives one more member, holds of the set. *)
LEMMA FiniteSetInduction ==
  ASSUME NEW S, IsFiniteSet(S), NEW Q, {} \in Q,
         \A T \in SUBSET S : \A x \in S : T \in Q /\ x \notin T => T \union {x} \in Q
  PROVE  S \in Q
<1>1. SUFFICES ASSUME S \notin Q
               PROVE  FALSE
  OBVIOUS
<1> DEFINE P == (SUBSET S) \ Q
<1>2. PICK T \in P : \A U \in SUBSET T : U # T => U \notin P
  <2>1. P \in SUBSET (SUBSET S) /\ P # {}
    BY <1>1
  <2> HIDE DEF P
  <2> QED BY <2>1, SmallestSet, Zenon
<1>3. PICK x \in T : TRUE
  BY <1>2
<1>4. T \ {x} \in Q
  BY <1>2
<1>5. (T \ {x}) \union {x} = T
  OBVIOUS
<1> QED BY <1>2, <1>4, <1>5

----------------------------------------------------------------------------
(* The recursion has one solution.                                          *)

(* The member the recursion takes. *)
Pick(s) == CHOOSE x \in s : TRUE

(* h adds up f over every subset of S. *)
Adds(h, f, S) ==
  h = [s \in SUBSET S |-> IF s = {} THEN 0 ELSE f[Pick(s)] + h[s \ {Pick(s)}]]

LEMMA SumUnfold ==
  ASSUME NEW f, NEW S
  PROVE  Sum(f, S) = (CHOOSE h : Adds(h, f, S))[S]
BY DEF Sum, MapThenSumSet, MapThenFoldSet, Adds, Pick

(* The member taken is one. *)
LEMMA PickIsMember ==
  ASSUME NEW s, s # {}
  PROVE  Pick(s) \in s
BY DEF Pick

(* Solutions over two sets agree on what both speak of. *)
LEMMA AddsOnce ==
  ASSUME NEW f, NEW S, NEW T \in SUBSET S, IsFiniteSet(T),
         NEW g, Adds(g, f, S), NEW h, Adds(h, f, T)
  PROVE  \A s \in SUBSET T : g[s] = h[s]
<1> DEFINE Q == {s \in SUBSET T : g[s] # h[s]}
<1>1. SUFFICES ASSUME Q # {}
               PROVE  FALSE
  OBVIOUS
<1>2. Q \in SUBSET (SUBSET T)
  OBVIOUS
<1>3. PICK s \in Q : \A u \in SUBSET s : u # s => u \notin Q
  <2> HIDE DEF Q
  <2> QED BY <1>1, <1>2, SmallestSet, Zenon
<1>4. s \in SUBSET T /\ s \in SUBSET S
  OBVIOUS
<1> DEFINE u == s \ {Pick(s)}
<1>5. g[s] = IF s = {} THEN 0 ELSE f[Pick(s)] + g[u]
  BY <1>4 DEF Adds
<1>6. h[s] = IF s = {} THEN 0 ELSE f[Pick(s)] + h[u]
  BY <1>4 DEF Adds
<1>7. s # {}
  BY <1>5, <1>6
<1>8. u \in SUBSET s /\ u # s
  BY <1>7, PickIsMember
<1>9. g[u] = h[u]
  BY <1>3, <1>8
<1> QED BY <1>5, <1>6, <1>9

(* A solution over a set gives the sum of every finite subset. *)
LEMMA AddsGivesSum ==
  ASSUME NEW f, NEW S, NEW h, Adds(h, f, S), NEW T \in SUBSET S, IsFiniteSet(T)
  PROVE  h[T] = Sum(f, T)
<1> DEFINE r == [s \in SUBSET T |-> h[s]]
<1>1. Adds(r, f, T)
  <2>1. ASSUME NEW s \in SUBSET T
        PROVE  h[s] = IF s = {} THEN 0 ELSE f[Pick(s)] + r[s \ {Pick(s)}]
    <3>1. s \in SUBSET S /\ s \ {Pick(s)} \in SUBSET T
      OBVIOUS
    <3> QED BY <3>1 DEF Adds
  <2> QED BY <2>1 DEF Adds
<1> DEFINE c == CHOOSE g : Adds(g, f, T)
<1>2. Adds(c, f, T)
  <2> HIDE DEF r
  <2> QED BY <1>1
<1>3. h[T] = c[T]
  <2> HIDE DEF c
  <2> QED BY <1>2, AddsOnce
<1> QED BY <1>3, SumUnfold

(* There is a solution over every finite set. *)
LEMMA SolutionExists ==
  ASSUME NEW f, NEW S, IsFiniteSet(S)
  PROVE  \E h : Adds(h, f, S)
<1> DEFINE Q == {s \in SUBSET S : ~ \E h : Adds(h, f, s)}
<1>1. SUFFICES ASSUME Q # {}
               PROVE  FALSE
  OBVIOUS
<1>2. Q \in SUBSET (SUBSET S)
  OBVIOUS
<1>3. PICK T \in Q : \A u \in SUBSET T : u # T => u \notin Q
  <2> HIDE DEF Q
  <2> QED BY <1>1, <1>2, SmallestSet, Zenon
<1>4. ASSUME NEW u \in SUBSET T, u # T
      PROVE  \E h : Adds(h, f, u)
  BY <1>3, <1>4
<1>5. \A s \in SUBSET T : IsFiniteSet(s)
  BY FS_Subset
<1> DEFINE g == [s \in SUBSET T |->
                   IF s = {} THEN 0 ELSE f[Pick(s)] + Sum(f, s \ {Pick(s)})]
<1>6. ASSUME NEW u \in SUBSET T, u # T
      PROVE  g[u] = Sum(f, u)
  <2>1. PICK h : Adds(h, f, u)
    BY <1>4, <1>6
  <2>2. h[u] = Sum(f, u)
    BY <2>1, <1>5, AddsGivesSum
  <2>3. h[u] = IF u = {} THEN 0 ELSE f[Pick(u)] + h[u \ {Pick(u)}]
    BY <2>1 DEF Adds
  <2>4. h[u \ {Pick(u)}] = Sum(f, u \ {Pick(u)})
    <3>1. u \ {Pick(u)} \in SUBSET u /\ u \ {Pick(u)} \in SUBSET T
      OBVIOUS
    <3> QED BY <2>1, <3>1, <1>5, AddsGivesSum
  <2> QED BY <2>2, <2>3, <2>4
<1>7. ASSUME NEW s \in SUBSET T
      PROVE  g[s] = IF s = {} THEN 0 ELSE f[Pick(s)] + g[s \ {Pick(s)}]
  <2>1. CASE s = {}
    BY <2>1
  <2>2. CASE s # {}
    <3> DEFINE u == s \ {Pick(s)}
    <3>1. u \in SUBSET T /\ u # T
      BY <2>2, PickIsMember
    <3>2. g[u] = Sum(f, u)
      <4> HIDE DEF g, u
      <4> QED BY <3>1, <1>6
    <3> QED BY <2>2, <3>2
  <2> QED BY <2>1, <2>2
<1>8. Adds(g, f, T)
  BY <1>7 DEF Adds
<1> QED BY <1>8, <1>3

----------------------------------------------------------------------------
(* Adding up, member by member.                                             *)

(* Nothing adds up to zero. *)
LEMMA SumEmpty ==
  ASSUME NEW f
  PROVE  Sum(f, {}) = 0
<1>1. IsFiniteSet({})
  BY FS_EmptySet
<1>2. PICK h : Adds(h, f, {})
  BY <1>1, SolutionExists
<1>3. h[{}] = 0
  BY <1>2 DEF Adds
<1> QED BY <1>1, <1>2, <1>3, AddsGivesSum

(* The recursion, for the sum itself. *)
LEMMA SumPick ==
  ASSUME NEW f, NEW S, IsFiniteSet(S), S # {}
  PROVE  Sum(f, S) = f[Pick(S)] + Sum(f, S \ {Pick(S)})
<1>1. PICK h : Adds(h, f, S)
  BY SolutionExists
<1>2. h[S] = Sum(f, S)
  BY <1>1, AddsGivesSum
<1>3. h[S \ {Pick(S)}] = Sum(f, S \ {Pick(S)})
  <2>1. S \ {Pick(S)} \in SUBSET S
    OBVIOUS
  <2> QED BY <1>1, <2>1, FS_Subset, AddsGivesSum
<1>4. h[S] = f[Pick(S)] + h[S \ {Pick(S)}]
  BY <1>1 DEF Adds
<1> QED BY <1>2, <1>3, <1>4

(* Whole numbers add up to a whole number. *)
LEMMA SumInt ==
  ASSUME NEW f, NEW S, IsFiniteSet(S), \A x \in S : f[x] \in Int
  PROVE  Sum(f, S) \in Int
<1> DEFINE Q == {s \in SUBSET S : Sum(f, s) \notin Int}
<1>1. SUFFICES ASSUME Q # {}
               PROVE  FALSE
  OBVIOUS
<1>2. Q \in SUBSET (SUBSET S)
  OBVIOUS
<1>3. PICK T \in Q : \A u \in SUBSET T : u # T => u \notin Q
  <2> HIDE DEF Q
  <2> QED BY <1>1, <1>2, SmallestSet, Zenon
<1>4. T # {}
  BY SumEmpty
<1> DEFINE u == T \ {Pick(T)}
<1>5. u \in SUBSET T /\ u # T /\ Pick(T) \in S
  BY <1>4, PickIsMember
<1>6. Sum(f, u) \in Int
  BY <1>3, <1>5
<1>7. Sum(f, T) = f[Pick(T)] + Sum(f, u)
  BY <1>4, FS_Subset, SumPick
<1> QED BY <1>5, <1>6, <1>7

(* The order does not matter: any member may be taken first. *)
LEMMA SumRemove ==
  ASSUME NEW f, NEW S, IsFiniteSet(S), \A x \in S : f[x] \in Int, NEW x \in S
  PROVE  Sum(f, S) = f[x] + Sum(f, S \ {x})
<1> DEFINE Q == {s \in SUBSET S : \E y \in s : Sum(f, s) # f[y] + Sum(f, s \ {y})}
<1>1. SUFFICES ASSUME Q # {}
               PROVE  FALSE
  OBVIOUS
<1>2. Q \in SUBSET (SUBSET S)
  OBVIOUS
<1>3. PICK T \in Q : \A u \in SUBSET T : u # T => u \notin Q
  <2> HIDE DEF Q
  <2> QED BY <1>1, <1>2, SmallestSet, Zenon
<1>4. PICK y \in T : Sum(f, T) # f[y] + Sum(f, T \ {y})
  BY <1>3
<1> DEFINE c == Pick(T)
<1>5. c \in T
  BY PickIsMember
<1>6. IsFiniteSet(T)
  BY FS_Subset
<1>7. Sum(f, T) = f[c] + Sum(f, T \ {c})
  BY <1>4, <1>6, SumPick
<1>8. c # y
  BY <1>4, <1>7
<1> HIDE DEF c
<1>9. ASSUME NEW a \in T, NEW b \in T, a # b
      PROVE  Sum(f, T \ {a}) = f[b] + Sum(f, T \ {a, b})
  <2>1. T \ {a} \in SUBSET T /\ T \ {a} # T /\ b \in T \ {a}
    BY <1>9
  <2>2. Sum(f, T \ {a}) = f[b] + Sum(f, (T \ {a}) \ {b})
    BY <2>1, <1>3
  <2>3. (T \ {a}) \ {b} = T \ {a, b}
    OBVIOUS
  <2> QED BY <2>2, <2>3
<1>10. Sum(f, T \ {c}) = f[y] + Sum(f, T \ {c, y})
  BY <1>5, <1>8, <1>9
<1>11. Sum(f, T \ {y}) = f[c] + Sum(f, T \ {c, y})
  <2>1. T \ {y, c} = T \ {c, y}
    OBVIOUS
  <2> QED BY <1>5, <1>8, <1>9, <2>1
<1>12. Sum(f, T \ {c, y}) \in Int
  BY <1>6, FS_Subset, SumInt
<1>13. f[c] \in Int /\ f[y] \in Int
  BY <1>5
<1> QED BY <1>4, <1>7, <1>10, <1>11, <1>12, <1>13

----------------------------------------------------------------------------
(* What the ledgers' proofs use.                                            *)

(* One more member adds its amount. *)
LEMMA SumAdd ==
  ASSUME NEW f, NEW S, IsFiniteSet(S), NEW y, y \notin S,
         \A x \in S \union {y} : f[x] \in Int
  PROVE  Sum(f, S \union {y}) = f[y] + Sum(f, S)
<1>1. IsFiniteSet(S \union {y})
  BY FS_AddElement
<1>2. Sum(f, S \union {y}) = f[y] + Sum(f, (S \union {y}) \ {y})
  BY <1>1, SumRemove
<1>3. (S \union {y}) \ {y} = S
  OBVIOUS
<1> QED BY <1>2, <1>3

(* Only what f gives the members counts. *)
LEMMA SumSame ==
  ASSUME NEW f, NEW g, NEW S, IsFiniteSet(S),
         \A x \in S : f[x] \in Int, \A x \in S : g[x] = f[x]
  PROVE  Sum(g, S) = Sum(f, S)
<1> DEFINE Q == {s \in SUBSET S : Sum(g, s) = Sum(f, s)}
<1>1. {} \in Q
  BY SumEmpty
<1>2. ASSUME NEW T \in SUBSET S, NEW x \in S, T \in Q, x \notin T
      PROVE  T \union {x} \in Q
  <2>1. IsFiniteSet(T)
    BY FS_Subset
  <2>2. Sum(f, T \union {x}) = f[x] + Sum(f, T)
    BY <1>2, <2>1, SumAdd
  <2>3. Sum(g, T \union {x}) = g[x] + Sum(g, T)
    BY <1>2, <2>1, SumAdd
  <2> QED BY <1>2, <2>2, <2>3
<1>3. S \in Q
  <2> HIDE DEF Q
  <2> QED BY <1>1, <1>2, FiniteSetInduction
<1> QED BY <1>3

(* Two amounts each, added up together or apart. *)
LEMMA SumPlus ==
  ASSUME NEW f, NEW g, NEW h, NEW S, IsFiniteSet(S),
         \A x \in S : f[x] \in Int /\ g[x] \in Int,
         \A x \in S : h[x] = f[x] + g[x]
  PROVE  Sum(h, S) = Sum(f, S) + Sum(g, S)
<1> DEFINE Q == {s \in SUBSET S : Sum(h, s) = Sum(f, s) + Sum(g, s)}
<1>1. {} \in Q
  BY SumEmpty
<1>2. ASSUME NEW T \in SUBSET S, NEW x \in S, T \in Q, x \notin T
      PROVE  T \union {x} \in Q
  <2>1. IsFiniteSet(T)
    BY FS_Subset
  <2>2. Sum(f, T \union {x}) = f[x] + Sum(f, T)
    BY <1>2, <2>1, SumAdd
  <2>3. Sum(g, T \union {x}) = g[x] + Sum(g, T)
    BY <1>2, <2>1, SumAdd
  <2>4. Sum(h, T \union {x}) = h[x] + Sum(h, T)
    <3>1. \A y \in T \union {x} : h[y] \in Int
      OBVIOUS
    <3> QED BY <1>2, <2>1, <3>1, SumAdd
  <2>5. Sum(f, T) \in Int /\ Sum(g, T) \in Int
    BY <2>1, SumInt
  <2> QED BY <1>2, <2>2, <2>3, <2>4, <2>5
<1>3. S \in Q
  <2> HIDE DEF Q
  <2> QED BY <1>1, <1>2, FiniteSetInduction
<1> QED BY <1>3

(* One member's amount changes the sum by as much. *)
LEMMA SumChange ==
  ASSUME NEW f, NEW g, NEW S, IsFiniteSet(S), NEW y \in S,
         \A x \in S : f[x] \in Int /\ g[x] \in Int,
         \A x \in S \ {y} : g[x] = f[x]
  PROVE  Sum(g, S) = Sum(f, S) + g[y] - f[y]
<1>1. IsFiniteSet(S \ {y})
  BY FS_RemoveElement
<1>2. Sum(g, S \ {y}) = Sum(f, S \ {y})
  BY <1>1, SumSame
<1>3. Sum(g, S) = g[y] + Sum(g, S \ {y})
  BY SumRemove
<1>4. Sum(f, S) = f[y] + Sum(f, S \ {y})
  BY SumRemove
<1>5. Sum(f, S \ {y}) \in Int
  BY <1>1, SumInt
<1> QED BY <1>2, <1>3, <1>4, <1>5

(* Members that have nothing add nothing. *)
LEMMA SumZero ==
  ASSUME NEW f, NEW S, IsFiniteSet(S), \A x \in S : f[x] = 0
  PROVE  Sum(f, S) = 0
<1> DEFINE Q == {s \in SUBSET S : Sum(f, s) = 0}
<1>1. {} \in Q
  BY SumEmpty
<1>2. ASSUME NEW T \in SUBSET S, NEW x \in S, T \in Q, x \notin T
      PROVE  T \union {x} \in Q
  <2>1. IsFiniteSet(T)
    BY FS_Subset
  <2>2. Sum(f, T \union {x}) = f[x] + Sum(f, T)
    BY <1>2, <2>1, SumAdd
  <2> QED BY <1>2, <2>2
<1>3. S \in Q
  <2> HIDE DEF Q
  <2> QED BY <1>1, <1>2, FiniteSetInduction
<1> QED BY <1>3

(* Two groups without a common member add up to their union. *)
LEMMA SumUnion ==
  ASSUME NEW f, NEW S, NEW U, IsFiniteSet(S), IsFiniteSet(U), S \cap U = {},
         \A x \in S \union U : f[x] \in Int
  PROVE  Sum(f, S \union U) = Sum(f, S) + Sum(f, U)
<1> DEFINE Q == {s \in SUBSET U : Sum(f, S \union s) = Sum(f, S) + Sum(f, s)}
<1>1. {} \in Q
  <2>1. S \union {} = S
    OBVIOUS
  <2>2. Sum(f, S) \in Int
    BY SumInt
  <2> QED BY <2>1, <2>2, SumEmpty
<1>2. ASSUME NEW T \in SUBSET U, NEW x \in U, T \in Q, x \notin T
      PROVE  T \union {x} \in Q
  <2>1. IsFiniteSet(T) /\ IsFiniteSet(S \union T)
    BY FS_Subset, FS_Union
  <2>2. Sum(f, T \union {x}) = f[x] + Sum(f, T)
    BY <1>2, <2>1, SumAdd
  <2>3. Sum(f, (S \union T) \union {x}) = f[x] + Sum(f, S \union T)
    <3>1. x \notin S \union T
      BY <1>2
    <3>2. \A y \in (S \union T) \union {x} : f[y] \in Int
      OBVIOUS
    <3> QED BY <2>1, <3>1, <3>2, SumAdd
  <2>4. (S \union T) \union {x} = S \union (T \union {x})
    OBVIOUS
  <2>5. Sum(f, S) \in Int /\ Sum(f, T) \in Int
    BY <2>1, SumInt
  <2>6. f[x] \in Int /\ Sum(f, S \union T) = Sum(f, S) + Sum(f, T)
    BY <1>2
  <2>7. Sum(f, S \union (T \union {x})) = Sum(f, S) + Sum(f, T \union {x})
    <3> DEFINE A == S \union T
               B == T \union {x}
               C == S \union B
    <3>1. Sum(f, C) = f[x] + Sum(f, A) /\ Sum(f, B) = f[x] + Sum(f, T)
      BY <2>2, <2>3, <2>4
    <3>2. Sum(f, A) = Sum(f, S) + Sum(f, T)
      BY <2>6
    <3> HIDE DEF A, B, C
    <3>3. Sum(f, C) = Sum(f, S) + Sum(f, B)
      BY <2>5, <2>6, <3>1, <3>2
    <3> QED BY <3>3 DEF B, C
  <2> QED BY <1>2, <2>7
<1>3. U \in Q
  <2> HIDE DEF Q
  <2> QED BY <1>1, <1>2, FiniteSetInduction
<1> QED BY <1>3

(* A part and the rest add up to the whole. *)
LEMMA SumSplit ==
  ASSUME NEW f, NEW S, IsFiniteSet(S), NEW T \in SUBSET S, \A x \in S : f[x] \in Int
  PROVE  Sum(f, S) = Sum(f, T) + Sum(f, S \ T)
<1>1. IsFiniteSet(T) /\ IsFiniteSet(S \ T)
  BY FS_Subset
<1>2. T \union (S \ T) = S /\ T \cap (S \ T) = {}
  OBVIOUS
<1> QED BY <1>1, <1>2, SumUnion

(* Larger amounts have a larger sum. *)
LEMMA SumMonotone ==
  ASSUME NEW f, NEW g, NEW S, IsFiniteSet(S),
         \A x \in S : f[x] \in Int /\ g[x] \in Int /\ f[x] <= g[x]
  PROVE  Sum(f, S) <= Sum(g, S)
<1> DEFINE Q == {s \in SUBSET S : Sum(f, s) <= Sum(g, s)}
<1>1. {} \in Q
  BY SumEmpty
<1>2. ASSUME NEW T \in SUBSET S, NEW x \in S, T \in Q, x \notin T
      PROVE  T \union {x} \in Q
  <2>1. IsFiniteSet(T)
    BY FS_Subset
  <2>2. Sum(f, T \union {x}) = f[x] + Sum(f, T)
    BY <1>2, <2>1, SumAdd
  <2>3. Sum(g, T \union {x}) = g[x] + Sum(g, T)
    BY <1>2, <2>1, SumAdd
  <2>4. Sum(f, T) \in Int /\ Sum(g, T) \in Int
    BY <2>1, SumInt
  <2> QED BY <1>2, <2>2, <2>3, <2>4
<1>3. S \in Q
  <2> HIDE DEF Q
  <2> QED BY <1>1, <1>2, FiniteSetInduction
<1> QED BY <1>3

(* Cents add up to cents. *)
LEMMA SumNat ==
  ASSUME NEW f, NEW S, IsFiniteSet(S), \A x \in S : f[x] \in Nat
  PROVE  Sum(f, S) \in Nat
<1> DEFINE z == [x \in S |-> 0]
<1>1. Sum(f, S) \in Int
  BY SumInt
<1>2. Sum(z, S) = 0
  BY SumZero
<1>3. Sum(z, S) <= Sum(f, S)
  <2>1. \A x \in S : z[x] \in Int /\ f[x] \in Int /\ z[x] <= f[x]
    OBVIOUS
  <2> HIDE DEF z
  <2> QED BY <2>1, SumMonotone
<1> QED BY <1>1, <1>2, <1>3

(* A part of some cents is no more than all of them. *)
LEMMA SumPart ==
  ASSUME NEW f, NEW S, IsFiniteSet(S), NEW T \in SUBSET S, \A x \in S : f[x] \in Nat
  PROVE  Sum(f, T) \in Nat /\ Sum(f, T) <= Sum(f, S)
<1>1. IsFiniteSet(T) /\ IsFiniteSet(S \ T)
  BY FS_Subset
<1>2. Sum(f, T) \in Nat /\ Sum(f, S \ T) \in Nat
  BY <1>1, SumNat
<1>3. Sum(f, S) = Sum(f, T) + Sum(f, S \ T)
  BY SumSplit
<1> QED BY <1>2, <1>3

(* No member has more than all have together. *)
LEMMA SumMember ==
  ASSUME NEW f, NEW S, IsFiniteSet(S), NEW x \in S, \A y \in S : f[y] \in Nat
  PROVE  f[x] <= Sum(f, S)
<1>1. Sum(f, S) = f[x] + Sum(f, S \ {x})
  BY SumRemove
<1>2. Sum(f, S \ {x}) \in Nat
  BY FS_RemoveElement, SumNat
<1> QED BY <1>1, <1>2

============================================================================
