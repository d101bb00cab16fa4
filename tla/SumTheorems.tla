---------------------------- MODULE SumTheorems ----------------------------
(***************************************************************************)
(* Sums over finite sets: what the invariants about money, stock and       *)
(* points need to know of SumFunctionOnSet(f, S).  The sum takes the       *)
(* elements in an order CHOOSE decides; the lemmas show that it is well    *)
(* defined and that the order does not matter, and then how it changes     *)
(* with one element or one value.                                          *)
(*                                                                         *)
(* Induction over the subsets of a finite set is used in its set form: of  *)
(* the subsets a claim fails for there is a least one (LeastSubset).       *)
(***************************************************************************)
EXTENDS FiniteSetsExt, FiniteSetTheorems, TLAPS

\* A set of subsets of a finite set has a member with none of the others in it.
LEMMA LeastSubset ==
  ASSUME NEW S, IsFiniteSet(S), NEW Bad, Bad \subseteq SUBSET S, Bad # {}
  PROVE  \E T \in Bad : \A U \in Bad : U \subseteq T => U = T
<1>1. IsWellFoundedOn(StrictSubsetOrdering(S), SUBSET S)
  BY FS_StrictSubsetOrderingWellFounded, FS_FiniteSubsetsOfFinite
<1>2. \E T \in Bad : \A U \in Bad : ~(<<U, T>> \in StrictSubsetOrdering(S))
  BY <1>1, WFMin, Zenon
<1> QED BY <1>2 DEF StrictSubsetOrdering
-----------------------------------------------------------------------------
(* The recursion behind the sum.                                           *)

Chosen(s) == CHOOSE x \in s : TRUE

\* What a function on the subsets of S becomes by one use of the recursion.
Unfolded(g, f, S) ==
  [s \in SUBSET S |-> IF s = {} THEN 0
                      ELSE LET x == CHOOSE x \in s : TRUE IN f[x] + g[s \ {x}]]

Partial(f, S) == CHOOSE g : g = Unfolded(g, f, S)

LEMMA SumIsPartial ==
  ASSUME NEW f, NEW S
  PROVE  SumFunctionOnSet(f, S) = Partial(f, S)[S]
BY Zenon DEF SumFunctionOnSet, FoldFunctionOnSet, MapThenFoldSet, Unfolded, Partial

\* Two solutions agree wherever both are defined.
LEMMA PartialUnique ==
  ASSUME NEW f, NEW S, NEW T, NEW g, NEW h, NEW u, IsFiniteSet(u),
         g = Unfolded(g, f, S), h = Unfolded(h, f, T), u \subseteq S, u \subseteq T
  PROVE  g[u] = h[u]
<1> DEFINE Bad == {s \in SUBSET u : g[s] # h[s]}
<1>1. ASSUME Bad # {} PROVE FALSE
  <2>1. Bad \subseteq SUBSET u OBVIOUS
  <2>2. PICK s \in Bad : \A r \in Bad : r \subseteq s => r = s
    <3> HIDE DEF Bad
    <3> QED BY <1>1, <2>1, LeastSubset
  <2>3. s \in SUBSET S /\ s \in SUBSET T /\ g[s] # h[s] /\ s \in SUBSET u
    OBVIOUS
  <2>4. s # {} BY <2>3 DEF Unfolded
  <2> DEFINE x == CHOOSE x \in s : TRUE
  <2>5. x \in s BY <2>4
  <2>6. g[s] = f[x] + g[s \ {x}] /\ h[s] = f[x] + h[s \ {x}]
    BY <2>3, <2>4 DEF Unfolded
  <2>7. s \ {x} \notin Bad BY <2>2, <2>5
  <2>8. g[s \ {x}] = h[s \ {x}] BY <2>7, <2>3
  <2> QED BY <2>3, <2>6, <2>8
<1> QED BY <1>1

\* There is a solution: one for S is put together from those for its subsets.
LEMMA PartialExists ==
  ASSUME NEW f, NEW S, IsFiniteSet(S)
  PROVE  \E g : g = Unfolded(g, f, S)
<1> DEFINE H(T) == CHOOSE g : g = Unfolded(g, f, T)
           Bad == {T \in SUBSET S : ~ \E g : g = Unfolded(g, f, T)}
<1>1. ASSUME Bad # {} PROVE FALSE
  <2>1. Bad \subseteq SUBSET S OBVIOUS
  <2>2. PICK T \in Bad : \A U \in Bad : U \subseteq T => U = T
    <3> HIDE DEF Bad
    <3> QED BY <1>1, <2>1, LeastSubset
  <2>3. \A U \in SUBSET T : U # T => H(U) = Unfolded(H(U), f, U)
    BY <2>2
  <2> DEFINE x(s) == CHOOSE x \in s : TRUE
             g == [s \in SUBSET T |-> IF s = {} THEN 0 ELSE f[x(s)] + H(s \ {x(s)})[s \ {x(s)}]]
  <2>4. ASSUME NEW s \in SUBSET T, s # {} PROVE g[s] = f[x(s)] + g[s \ {x(s)}]
    <3> DEFINE r == s \ {x(s)}
    <3>1. r \in SUBSET T /\ r # T /\ x(s) \in s
      BY <2>4
    <3>2. H(r) = Unfolded(H(r), f, r) BY <2>3, <3>1
    <3>3. CASE r = {}
      BY <2>4, <3>1, <3>2, <3>3 DEF Unfolded
    <3>4. CASE r # {}
      <4> DEFINE q == r \ {x(r)}
      <4>1. q \in SUBSET T /\ q # T /\ x(r) \in r /\ q \subseteq r
        BY <3>1, <3>4
      <4>2. H(q) = Unfolded(H(q), f, q) BY <2>3, <4>1
      <4>3. IsFiniteSet(q) BY <4>1, FS_Subset
      <4>4. H(r)[q] = H(q)[q] BY <3>2, <4>1, <4>2, <4>3, PartialUnique
      <4>5. H(r)[r] = f[x(r)] + H(r)[q] BY <3>2, <3>4 DEF Unfolded
      <4> QED BY <4>4, <4>5, <3>1, <3>4
    <3> QED BY <3>3, <3>4
  <2>5. \A s \in SUBSET T : g[s] = IF s = {} THEN 0 ELSE f[x(s)] + g[s \ {x(s)}]
    <3>1. g[{}] = 0 OBVIOUS
    <3> HIDE DEF g
    <3> QED BY <2>4, <3>1
  <2>6. g = [s \in SUBSET T |-> g[s]] OBVIOUS
  <2>7. g = Unfolded(g, f, T)
    <3> HIDE DEF g
    <3> QED BY <2>5, <2>6, Zenon DEF Unfolded
  <2> QED BY <2>7, <2>2
<1> QED BY <1>1

LEMMA SumUnfolds ==
  ASSUME NEW f, NEW S, IsFiniteSet(S)
  PROVE  /\ S = {} => SumFunctionOnSet(f, S) = 0
         /\ S # {} => SumFunctionOnSet(f, S)
                        = f[Chosen(S)] + SumFunctionOnSet(f, S \ {Chosen(S)})
<1> DEFINE x == Chosen(S)
           R == S \ {x}
<1>1. Partial(f, S) = Unfolded(Partial(f, S), f, S) BY PartialExists DEF Partial
<1>2. IsFiniteSet(R) BY FS_RemoveElement
<1>3. Partial(f, R) = Unfolded(Partial(f, R), f, R) BY <1>2, PartialExists DEF Partial
<1>4. Partial(f, S)[R] = Partial(f, R)[R]
  <2>1. R \subseteq S /\ R \subseteq R OBVIOUS
  <2> HIDE DEF R
  <2> QED BY <1>1, <1>2, <1>3, <2>1, PartialUnique
<1>5. S = {} => Partial(f, S)[S] = 0 BY <1>1 DEF Unfolded
<1>6. S # {} => Partial(f, S)[S] = f[x] + Partial(f, S)[R] BY <1>1 DEF Unfolded, Chosen
<1>7. SumFunctionOnSet(f, S) = Partial(f, S)[S] /\ SumFunctionOnSet(f, R) = Partial(f, R)[R]
  BY SumIsPartial
<1> QED BY <1>4, <1>5, <1>6, <1>7
-----------------------------------------------------------------------------
(* What the invariants use.                                                *)

LEMMA SumEmpty == \A f : SumFunctionOnSet(f, {}) = 0
BY SumUnfolds, FS_EmptySet

\* A sum of integers is an integer, ...
LEMMA SumInt ==
  ASSUME NEW f, NEW S, IsFiniteSet(S), \A x \in S : f[x] \in Int
  PROVE  SumFunctionOnSet(f, S) \in Int
<1> DEFINE Bad == {T \in SUBSET S : SumFunctionOnSet(f, T) \notin Int}
<1>1. ASSUME Bad # {} PROVE FALSE
  <2>1. Bad \subseteq SUBSET S OBVIOUS
  <2>2. PICK T \in Bad : \A U \in Bad : U \subseteq T => U = T
    <3> HIDE DEF Bad
    <3> QED BY <1>1, <2>1, LeastSubset
  <2>3. IsFiniteSet(T) BY FS_Subset
  <2>4. T # {} BY SumEmpty
  <2>5. Chosen(T) \in T BY <2>4 DEF Chosen
  <2>6. SumFunctionOnSet(f, T \ {Chosen(T)}) \in Int BY <2>2, <2>5
  <2>7. SumFunctionOnSet(f, T) \in Int BY <2>3, <2>4, <2>5, <2>6, SumUnfolds
  <2> QED BY <2>7
<1> QED BY <1>1

\* ... and any element may be taken first.
LEMMA SumRemove ==
  ASSUME NEW f, NEW S, IsFiniteSet(S), \A y \in S : f[y] \in Int, NEW x \in S
  PROVE  SumFunctionOnSet(f, S) = f[x] + SumFunctionOnSet(f, S \ {x})
<1> DEFINE Wrong(T, y) == SumFunctionOnSet(f, T) # f[y] + SumFunctionOnSet(f, T \ {y})
           Bad == {T \in SUBSET S : \E y \in T : Wrong(T, y)}
<1>1. ASSUME Bad # {} PROVE FALSE
  <2>1. Bad \subseteq SUBSET S OBVIOUS
  <2>2. PICK T \in Bad : \A U \in Bad : U \subseteq T => U = T
    <3> HIDE DEF Bad
    <3> QED BY <1>1, <2>1, LeastSubset
  <2>3. PICK y \in T : Wrong(T, y) OBVIOUS
  <2> DEFINE c == Chosen(T)
  <2>4. IsFiniteSet(T) /\ T \subseteq S BY FS_Subset
  <2>5. c \in T BY <2>3 DEF Chosen
  <2>6. SumFunctionOnSet(f, T) = f[c] + SumFunctionOnSet(f, T \ {c})
    BY <2>4, <2>3, SumUnfolds
  <2>7. c # y BY <2>6, <2>3
  <2>8. T \ {c} \notin Bad /\ T \ {y} \notin Bad BY <2>2, <2>5
  <2>9. ~Wrong(T \ {c}, y) /\ ~Wrong(T \ {y}, c) BY <2>8, <2>7, <2>5, <2>4
  <2>10. (T \ {c}) \ {y} = (T \ {y}) \ {c} OBVIOUS
  <2>11. IsFiniteSet((T \ {c}) \ {y}) BY <2>4, FS_RemoveElement
  <2>12. SumFunctionOnSet(f, (T \ {c}) \ {y}) \in Int /\ f[c] \in Int /\ f[y] \in Int
    BY <2>11, <2>4, <2>5, SumInt
  <2>13. SumFunctionOnSet(f, T \ {c}) = f[y] + SumFunctionOnSet(f, (T \ {c}) \ {y})
    BY <2>9
  <2>14. SumFunctionOnSet(f, T \ {y}) = f[c] + SumFunctionOnSet(f, (T \ {c}) \ {y})
    BY <2>9, <2>10
  <2>15. SumFunctionOnSet(f, T) # f[y] + SumFunctionOnSet(f, T \ {y})
    BY <2>3
  <2> HIDE DEF Wrong, c, Bad
  <2> QED BY <2>6, <2>12, <2>13, <2>14, <2>15
<1> QED BY <1>1

LEMMA SumAdd ==
  ASSUME NEW f, NEW S, IsFiniteSet(S), NEW x, x \notin S,
         \A y \in S \cup {x} : f[y] \in Int
  PROVE  SumFunctionOnSet(f, S \cup {x}) = f[x] + SumFunctionOnSet(f, S)
<1>1. IsFiniteSet(S \cup {x}) BY FS_AddElement
<1>2. (S \cup {x}) \ {x} = S OBVIOUS
<1> QED BY <1>1, <1>2, SumRemove

\* Only the values on the set matter.
LEMMA SumEqual ==
  ASSUME NEW f, NEW g, NEW S, IsFiniteSet(S), \A x \in S : f[x] = g[x]
  PROVE  SumFunctionOnSet(f, S) = SumFunctionOnSet(g, S)
<1> DEFINE Bad == {T \in SUBSET S : SumFunctionOnSet(f, T) # SumFunctionOnSet(g, T)}
<1>1. ASSUME Bad # {} PROVE FALSE
  <2>1. Bad \subseteq SUBSET S OBVIOUS
  <2>2. PICK T \in Bad : \A U \in Bad : U \subseteq T => U = T
    <3> HIDE DEF Bad
    <3> QED BY <1>1, <2>1, LeastSubset
  <2>3. IsFiniteSet(T) BY FS_Subset
  <2>4. T # {} BY SumEmpty
  <2>5. Chosen(T) \in T BY <2>4 DEF Chosen
  <2>6. SumFunctionOnSet(f, T \ {Chosen(T)}) = SumFunctionOnSet(g, T \ {Chosen(T)})
    BY <2>2, <2>5
  <2>7. SumFunctionOnSet(f, T) = SumFunctionOnSet(g, T) BY <2>3, <2>4, <2>5, <2>6, SumUnfolds
  <2> QED BY <2>7
<1> QED BY <1>1

\* One value changes.
LEMMA SumChange ==
  ASSUME NEW f, NEW g, NEW S, IsFiniteSet(S), NEW x \in S,
         \A y \in S : f[y] \in Int, \A y \in S : g[y] \in Int,
         \A y \in S \ {x} : f[y] = g[y]
  PROVE  SumFunctionOnSet(g, S) = SumFunctionOnSet(f, S) + g[x] - f[x]
<1>1. IsFiniteSet(S \ {x}) BY FS_RemoveElement
<1>2. SumFunctionOnSet(f, S \ {x}) = SumFunctionOnSet(g, S \ {x}) BY <1>1, SumEqual
<1>3. SumFunctionOnSet(f, S) = f[x] + SumFunctionOnSet(f, S \ {x}) BY SumRemove
<1>4. SumFunctionOnSet(g, S) = g[x] + SumFunctionOnSet(g, S \ {x}) BY SumRemove
<1>5. SumFunctionOnSet(f, S \ {x}) \in Int BY <1>1, SumInt
<1> QED BY <1>2, <1>3, <1>4, <1>5

\* At most one element comes, goes or changes its value.
LEMMA SumOneTerm ==
  ASSUME NEW f, NEW g, NEW S, IsFiniteSet(S), NEW T, IsFiniteSet(T), NEW i,
         \A x \in S : f[x] \in Int, \A x \in T : g[x] \in Int,
         S \ {i} = T \ {i}, \A x \in S \ {i} : f[x] = g[x]
  PROVE  SumFunctionOnSet(g, T) = SumFunctionOnSet(f, S) + (IF i \in T THEN g[i] ELSE 0)
                                                         - (IF i \in S THEN f[i] ELSE 0)
<1> DEFINE R == S \ {i}
<1>1. IsFiniteSet(R) /\ R = T \ {i} BY FS_RemoveElement
<1>2. SumFunctionOnSet(f, R) = SumFunctionOnSet(g, R) BY <1>1, SumEqual
<1>3. SumFunctionOnSet(f, S) = SumFunctionOnSet(f, R) + (IF i \in S THEN f[i] ELSE 0)
  <2>1. SumFunctionOnSet(f, R) \in Int BY <1>1, SumInt
  <2>2. CASE i \in S
    <3>1. SumFunctionOnSet(f, S) = f[i] + SumFunctionOnSet(f, R) BY <2>2, SumRemove
    <3>2. f[i] \in Int BY <2>2
    <3> HIDE DEF R
    <3> QED BY <2>1, <2>2, <3>1, <3>2
  <2>3. CASE i \notin S
    <3>1. R = S BY <2>3
    <3> HIDE DEF R
    <3>2. SumFunctionOnSet(f, R) = SumFunctionOnSet(f, S) BY <3>1
    <3> QED BY <2>1, <2>3, <3>2
  <2> QED BY <2>2, <2>3
<1>4. SumFunctionOnSet(g, T) = SumFunctionOnSet(g, R) + (IF i \in T THEN g[i] ELSE 0)
  <2>1. SumFunctionOnSet(g, R) \in Int BY <1>1, SumInt
  <2>2. CASE i \in T
    <3>1. SumFunctionOnSet(g, T) = g[i] + SumFunctionOnSet(g, R) BY <1>1, <2>2, SumRemove
    <3>2. g[i] \in Int BY <2>2
    <3> HIDE DEF R
    <3> QED BY <2>1, <2>2, <3>1, <3>2
  <2>3. CASE i \notin T
    <3>1. R = T BY <1>1, <2>3
    <3> HIDE DEF R
    <3>2. SumFunctionOnSet(g, R) = SumFunctionOnSet(g, T) BY <3>1
    <3> QED BY <2>1, <2>3, <3>2
  <2> QED BY <2>2, <2>3
<1>5. SumFunctionOnSet(f, R) \in Int BY <1>1, SumInt
<1>6. (IF i \in S THEN f[i] ELSE 0) \in Int /\ (IF i \in T THEN g[i] ELSE 0) \in Int OBVIOUS
<1> HIDE DEF R
<1> QED BY <1>2, <1>3, <1>4, <1>5, <1>6

\* A sum of naturals is a natural, and none of its terms exceeds it.
LEMMA SumNat ==
  ASSUME NEW f, NEW S, IsFiniteSet(S), \A x \in S : f[x] \in Nat
  PROVE  SumFunctionOnSet(f, S) \in Nat /\ \A x \in S : f[x] <= SumFunctionOnSet(f, S)
<1> DEFINE Bad == {T \in SUBSET S : SumFunctionOnSet(f, T) \notin Nat}
<1>1. ASSUME Bad # {} PROVE FALSE
  <2>1. Bad \subseteq SUBSET S OBVIOUS
  <2>2. PICK T \in Bad : \A U \in Bad : U \subseteq T => U = T
    <3> HIDE DEF Bad
    <3> QED BY <1>1, <2>1, LeastSubset
  <2>3. IsFiniteSet(T) BY FS_Subset
  <2>4. T # {} BY SumEmpty
  <2>5. Chosen(T) \in T BY <2>4 DEF Chosen
  <2>6. SumFunctionOnSet(f, T \ {Chosen(T)}) \in Nat BY <2>2, <2>5
  <2>7. SumFunctionOnSet(f, T) \in Nat BY <2>3, <2>4, <2>5, <2>6, SumUnfolds
  <2> QED BY <2>7
<1>2. \A T \in SUBSET S : SumFunctionOnSet(f, T) \in Nat BY <1>1
<1>3. ASSUME NEW x \in S PROVE f[x] <= SumFunctionOnSet(f, S)
  <2>1. SumFunctionOnSet(f, S) = f[x] + SumFunctionOnSet(f, S \ {x}) BY SumRemove
  <2>2. SumFunctionOnSet(f, S \ {x}) \in Nat BY <1>2
  <2> QED BY <2>1, <2>2
<1> QED BY <1>2, <1>3

\* Terms that are left out do not make it larger.
LEMMA SumSubset ==
  ASSUME NEW f, NEW S, IsFiniteSet(S), \A x \in S : f[x] \in Nat, NEW T \in SUBSET S
  PROVE  SumFunctionOnSet(f, T) <= SumFunctionOnSet(f, S)
<1> DEFINE Bad == {U \in SUBSET S :
                    \E V \in SUBSET U : ~(SumFunctionOnSet(f, V) <= SumFunctionOnSet(f, U))}
<1>1. \A U \in SUBSET S : IsFiniteSet(U) /\ SumFunctionOnSet(f, U) \in Nat
  BY FS_Subset, SumNat
<1>2. ASSUME Bad # {} PROVE FALSE
  <2>1. Bad \subseteq SUBSET S OBVIOUS
  <2>2. PICK U \in Bad : \A W \in Bad : W \subseteq U => W = U
    <3> HIDE DEF Bad
    <3> QED BY <1>2, <2>1, LeastSubset
  <2>3. PICK V \in SUBSET U : ~(SumFunctionOnSet(f, V) <= SumFunctionOnSet(f, U)) OBVIOUS
  <2>4. V # U BY <1>1, <2>3
  <2>5. PICK x \in U : x \notin V BY <2>3, <2>4
  <2>6. U \ {x} \notin Bad /\ U \ {x} \in SUBSET S /\ V \in SUBSET (U \ {x})
    BY <2>2, <2>3, <2>5
  <2>7. SumFunctionOnSet(f, V) <= SumFunctionOnSet(f, U \ {x}) BY <2>6
  <2>8. SumFunctionOnSet(f, U) = f[x] + SumFunctionOnSet(f, U \ {x})
    <3>1. \A y \in U : f[y] \in Int OBVIOUS
    <3> QED BY <1>1, <2>5, <3>1, SumRemove
  <2>9. /\ f[x] \in Nat
        /\ SumFunctionOnSet(f, V) \in Nat /\ SumFunctionOnSet(f, U \ {x}) \in Nat
    BY <1>1, <2>3, <2>5, <2>6
  <2> HIDE DEF Bad
  <2> QED BY <2>3, <2>7, <2>8, <2>9
<1> QED BY <1>2
=============================================================================
