----------------------------- MODULE FiniteSums -----------------------------
(***************************************************************************)
(* Sums over finite sets.  Several properties of the programs compare a    *)
(* counter in an account with a total over what the account stores; the    *)
(* lemmas below say how such a total changes.  Induction goes over sets    *)
(* of numbers, and so stays within first-order reasoning.                  *)
(***************************************************************************)
EXTENDS Integers, FiniteSetsExt, FiniteSetTheorems, TLAPS

(* The time each prover has for a step that names none. *)
USE SMTT(30), ZenonT(30)

(* The sum of f[x] over the x in S. *)
SumOver(f, S) == MapThenSumSet(LAMBDA x : f[x], S)

-----------------------------------------------------------------------------
(* A set that contains 0 and, with each number, the next contains all      *)
(* natural numbers.                                                        *)
LEMMA NumberInduction ==
  ASSUME NEW S, 0 \in S, \A n \in Nat : n \in S => n + 1 \in S
  PROVE  Nat \subseteq S
<1> DEFINE T == Nat \ S
           R == OpToRel(<, Nat)
<1> SUFFICES ASSUME T # {} PROVE FALSE
  OBVIOUS
<1>1. IsWellFoundedOn(R, Nat)
  BY NatLessThanWellFounded, Zenon
<1>2. T \subseteq Nat
  OBVIOUS
<1>3. PICK x \in T : \A y \in T : ~(<<y, x>> \in R)
  BY <1>1, <1>2, WFMin, Zenon
<1>4. \A y \in T : ~(y < x)
  BY <1>3, Zenon DEF OpToRel
<1>5. x # 0 /\ x \in Nat
  BY <1>3, Zenon
<1>6. x - 1 \in Nat /\ x - 1 < x
  BY <1>5
<1>7. x - 1 \in S
  BY <1>4, <1>6
<1>8. x \in S
  BY <1>5, <1>6, <1>7
<1> QED
  BY <1>3, <1>8, Zenon

(* Taking an element out of a finite set, and putting one in. *)
LEMMA OneElement ==
  ASSUME NEW S, IsFiniteSet(S), NEW x
  PROVE  /\ IsFiniteSet(S \ {x}) /\ IsFiniteSet(S \cup {x})
         /\ x \in S => Cardinality(S \ {x}) = Cardinality(S) - 1
         /\ x \notin S => Cardinality(S \cup {x}) = Cardinality(S) + 1
         /\ Cardinality(S) \in Nat
  BY FS_AddElement, FS_RemoveElement, FS_CardinalityType

(* A family of sets that contains the empty set, and with each set also    *)
(* that set and one more element of S, contains the finite set S.          *)
LEMMA FiniteInduction ==
  ASSUME NEW S, IsFiniteSet(S), NEW P, {} \in P,
         \A T \in SUBSET S : \A x \in S \ T : T \in P => T \cup {x} \in P
  PROVE  S \in P
<1> DEFINE N == {n \in Nat : \A T \in SUBSET S : Cardinality(T) = n => T \in P}
<1>1. 0 \in N
  BY FS_EmptySet, FS_Subset
<1>2. ASSUME NEW n \in Nat, n \in N
      PROVE  n + 1 \in N
  <2> SUFFICES ASSUME NEW T \in SUBSET S, Cardinality(T) = n + 1
               PROVE  T \in P
    OBVIOUS
  <2>1. IsFiniteSet(T) /\ T # {}
    BY FS_Subset, FS_EmptySet
  <2>2. PICK x \in T : TRUE
    BY <2>1
  <2>3. Cardinality(T \ {x}) = n
    <3>1. Cardinality(T \ {x}) = Cardinality(T) - 1
      BY <2>1, <2>2, OneElement, Zenon
    <3> QED BY <3>1
  <2>4. T \ {x} \in P
    BY <1>2, <2>3
  <2>5. (T \ {x}) \cup {x} \in P
    BY <2>2, <2>4
  <2>6. (T \ {x}) \cup {x} = T
    BY <2>2
  <2> QED BY <2>5, <2>6, Zenon
<1>3. Nat \subseteq N
  <2> HIDE DEF N
  <2> QED BY <1>1, <1>2, NumberInduction
<1>4. Cardinality(S) \in N
  BY <1>3, FS_CardinalityType
<1> QED BY <1>4

-----------------------------------------------------------------------------
(* h is the table of partial sums that the fold computes, on the sets D. *)
IsSum(f, D, h) ==
  h = [s \in D |-> IF s = {} THEN 0
                   ELSE LET x == CHOOSE x \in s : TRUE
                        IN  f[x] + h[s \ {x}]]

(* Such a table exists: it is built up along the size of the sets. *)
LEMMA TableExists ==
  ASSUME NEW f, NEW S, IsFiniteSet(S)
  PROVE  \E h : IsSum(f, SUBSET S, h)
<1> DEFINE UpTo(n) == {T \in SUBSET S : Cardinality(T) <= n}
           N == {n \in Nat : \E h : IsSum(f, UpTo(n), h)}
<1>1. 0 \in N
  <2> DEFINE h == [s \in UpTo(0) |-> 0]
  <2>1. \A s \in UpTo(0) : s = {}
    <3> SUFFICES ASSUME NEW s \in UpTo(0) PROVE s = {}
      OBVIOUS
    <3>1. IsFiniteSet(s) /\ Cardinality(s) \in Nat
      BY FS_Subset, FS_CardinalityType
    <3>2. Cardinality(s) = 0
      BY <3>1
    <3> QED BY <3>1, <3>2, FS_EmptySet
  <2>2. IsSum(f, UpTo(0), h)
    BY <2>1 DEF IsSum
  <2> QED BY <2>2, Zenon
<1>2. ASSUME NEW n \in Nat, n \in N
      PROVE  n + 1 \in N
  <2>1. PICK h : IsSum(f, UpTo(n), h)
    BY <1>2
  <2> DEFINE g == [s \in UpTo(n + 1) |->
                     IF s = {} THEN 0
                     ELSE LET x == CHOOSE x \in s : TRUE
                          IN  f[x] + h[s \ {x}]]
  <2>2. \A s \in UpTo(n) : s \in UpTo(n + 1) /\ g[s] = h[s]
    <3> SUFFICES ASSUME NEW s \in UpTo(n)
                 PROVE  s \in UpTo(n + 1) /\ g[s] = h[s]
      BY Zenon
    <3>1. Cardinality(s) \in Nat /\ Cardinality(s) <= n
      BY FS_Subset, FS_CardinalityType
    <3>2. s \in UpTo(n + 1)
      BY <3>1
    <3>3. h[s] = IF s = {} THEN 0
                 ELSE LET x == CHOOSE x \in s : TRUE IN f[x] + h[s \ {x}]
      <4> HIDE DEF UpTo
      <4> QED BY <2>1, Zenon DEF IsSum
    <3> QED BY <3>2, <3>3
  <2>3. ASSUME NEW s \in UpTo(n + 1), s # {}, NEW x, x = CHOOSE y \in s : TRUE
        PROVE  s \ {x} \in UpTo(n)
    <3>1. x \in s
      BY <2>3
    <3>2. IsFiniteSet(s) /\ Cardinality(s) <= n + 1
      BY FS_Subset
    <3>3. Cardinality(s \ {x}) = Cardinality(s) - 1 /\ Cardinality(s) \in Nat
      BY <3>1, <3>2, OneElement
    <3>4. Cardinality(s \ {x}) <= n
      BY <3>2, <3>3
    <3> QED BY <3>4
  <2>4. ASSUME NEW s \in UpTo(n + 1)
        PROVE  g[s] = IF s = {} THEN 0
                      ELSE LET x == CHOOSE x \in s : TRUE IN f[x] + g[s \ {x}]
    <3> DEFINE x == CHOOSE x \in s : TRUE
    <3>1. s # {} => g[s \ {x}] = h[s \ {x}]
      BY <2>2, <2>3, Zenon
    <3>2. g[s] = IF s = {} THEN 0 ELSE f[x] + h[s \ {x}]
      OBVIOUS
    <3> HIDE DEF g
    <3> QED BY <3>1, <3>2
  <2>5. IsSum(f, UpTo(n + 1), g)
    <3>1. g = [s \in UpTo(n + 1) |-> g[s]]
      OBVIOUS
    <3> HIDE DEF g, UpTo
    <3> QED BY <3>1, <2>4, Zenon DEF IsSum
  <2> QED BY <2>5
<1>3. Nat \subseteq N
  <2> HIDE DEF N
  <2> QED BY <1>1, <1>2, NumberInduction
<1>4. Cardinality(S) \in N
  BY <1>3, FS_CardinalityType, Zenon
<1>5. UpTo(Cardinality(S)) = SUBSET S
  BY FS_Subset
<1>6. \E h : IsSum(f, UpTo(Cardinality(S)), h)
  BY <1>4, Zenon
<1> QED BY <1>5, <1>6, Zenon

(* Two tables agree where their functions do. *)
LEMMA TablesAgree ==
  ASSUME NEW f, NEW g, NEW S, NEW T, NEW hf, NEW hg,
         IsSum(f, SUBSET S, hf), IsSum(g, SUBSET T, hg),
         IsFiniteSet(S), NEW U \in SUBSET (S \cap T), \A x \in U : f[x] = g[x]
  PROVE  hf[U] = hg[U]
<1> DEFINE N == {n \in Nat : \A V \in SUBSET U : Cardinality(V) = n => hf[V] = hg[V]}
<1>1. ASSUME NEW V \in SUBSET U
      PROVE  /\ hf[V] = IF V = {} THEN 0
                        ELSE LET x == CHOOSE x \in V : TRUE IN f[x] + hf[V \ {x}]
             /\ hg[V] = IF V = {} THEN 0
                        ELSE LET x == CHOOSE x \in V : TRUE IN g[x] + hg[V \ {x}]
             /\ IsFiniteSet(V)
  <2>1. V \in SUBSET S /\ V \in SUBSET T
    OBVIOUS
  <2>2. IsFiniteSet(V)
    BY <2>1, FS_Subset
  <2> QED BY <2>1, <2>2, Zenon DEF IsSum
<1>2. 0 \in N
  BY <1>1, FS_EmptySet, Zenon
<1>3. ASSUME NEW n \in Nat, n \in N
      PROVE  n + 1 \in N
  <2> SUFFICES ASSUME NEW V \in SUBSET U, Cardinality(V) = n + 1
               PROVE  hf[V] = hg[V]
    OBVIOUS
  <2> DEFINE x == CHOOSE x \in V : TRUE
  <2>1. IsFiniteSet(V) /\ V # {}
    <3>1. IsFiniteSet(V)
      BY <1>1, Zenon
    <3> QED BY <3>1, FS_EmptySet
  <2>2. x \in V
    BY <2>1
  <2>3. Cardinality(V \ {x}) = n
    <3>1. Cardinality(V \ {x}) = Cardinality(V) - 1
      BY <2>1, <2>2, OneElement, Zenon
    <3> QED BY <3>1
  <2>4. hf[V \ {x}] = hg[V \ {x}]
    BY <1>3, <2>3
  <2>5. f[x] = g[x]
    <3> HIDE DEF x
    <3> QED BY <2>2
  <2>6. hf[V] = f[x] + hf[V \ {x}] /\ hg[V] = g[x] + hg[V \ {x}]
    BY <1>1, <2>1, Zenon
  <2> QED BY <2>4, <2>5, <2>6
<1>4. Nat \subseteq N
  <2> HIDE DEF N
  <2> QED BY <1>2, <1>3, NumberInduction
<1>5. IsFiniteSet(U) /\ Cardinality(U) \in Nat
  BY FS_Subset, FS_CardinalityType
<1> QED BY <1>4, <1>5

(* SumOver is a value of its table. *)
LEMMA SumIsTable ==
  ASSUME NEW f, NEW S, IsFiniteSet(S)
  PROVE  \E h : IsSum(f, SUBSET S, h) /\ SumOver(f, S) = h[S]
<1> DEFINE h == CHOOSE t : IsSum(f, SUBSET S, t)
<1>1. SumOver(f, S) = h[S]
  BY DEF SumOver, MapThenSumSet, MapThenFoldSet, IsSum
<1>2. IsSum(f, SUBSET S, h)
  BY TableExists, Zenon
<1> QED BY <1>1, <1>2, Zenon

(* The sum over the empty set. *)
LEMMA SumEmpty ==
  ASSUME NEW f
  PROVE  SumOver(f, {}) = 0
<1>1. PICK h : IsSum(f, SUBSET {}, h) /\ SumOver(f, {}) = h[{}]
  BY SumIsTable, FS_EmptySet, Zenon
<1>2. {} \in SUBSET {}
  OBVIOUS
<1> QED BY <1>1, <1>2 DEF IsSum

(* Sums depend only on the values at the elements. *)
LEMMA SumCongruence ==
  ASSUME NEW f, NEW g, NEW S, IsFiniteSet(S), \A x \in S : f[x] = g[x]
  PROVE  SumOver(f, S) = SumOver(g, S)
<1>1. PICK h : IsSum(f, SUBSET S, h) /\ SumOver(f, S) = h[S]
  BY SumIsTable, Zenon
<1>2. PICK t : IsSum(g, SUBSET S, t) /\ SumOver(g, S) = t[S]
  BY SumIsTable, Zenon
<1>3. h[S] = t[S]
  BY <1>1, <1>2, TablesAgree
<1> QED BY <1>1, <1>2, <1>3

(* The sum over a set that is not empty, by the element the fold chooses. *)
LEMMA SumChosen ==
  ASSUME NEW f, NEW S, IsFiniteSet(S), S # {}
  PROVE  \E x \in S : SumOver(f, S) = f[x] + SumOver(f, S \ {x})
<1> DEFINE x == CHOOSE x \in S : TRUE
<1>1. PICK h : IsSum(f, SUBSET S, h) /\ SumOver(f, S) = h[S]
  BY SumIsTable, Zenon
<1>2. IsFiniteSet(S \ {x}) /\ x \in S
  BY OneElement, Zenon
<1>3. PICK t : IsSum(f, SUBSET (S \ {x}), t) /\ SumOver(f, S \ {x}) = t[S \ {x}]
  BY <1>2, SumIsTable, Zenon
<1>4. h[S \ {x}] = t[S \ {x}]
  <2> DEFINE R == S \ {x}
  <2>1. R \in SUBSET (S \cap R)
    OBVIOUS
  <2>2. IsSum(f, SUBSET R, t)
    BY <1>3
  <2> HIDE DEF R
  <2>3. h[R] = t[R]
    BY <1>1, <2>1, <2>2, TablesAgree
  <2> QED BY <2>3 DEF R
<1>5. h[S] = f[x] + h[S \ {x}]
  BY <1>1 DEF IsSum
<1> HIDE DEF x
<1> QED BY <1>1, <1>2, <1>3, <1>4, <1>5, Zenon

(* A sum of integers is an integer, a sum of natural numbers a natural     *)
(* number.                                                                 *)
LEMMA SumType ==
  ASSUME NEW f, NEW S, IsFiniteSet(S), NEW V \in {Nat, Int}, \A x \in S : f[x] \in V
  PROVE  SumOver(f, S) \in V
<1> DEFINE N == {n \in Nat : \A T \in SUBSET S : Cardinality(T) = n => SumOver(f, T) \in V}
<1>1. 0 \in N
  <2> SUFFICES ASSUME NEW T \in SUBSET S, Cardinality(T) = 0
               PROVE  SumOver(f, T) \in V
    OBVIOUS
  <2>1. T = {}
    BY FS_Subset, FS_EmptySet
  <2> QED BY <2>1, SumEmpty
<1>2. ASSUME NEW n \in Nat, n \in N
      PROVE  n + 1 \in N
  <2> SUFFICES ASSUME NEW T \in SUBSET S, Cardinality(T) = n + 1
               PROVE  SumOver(f, T) \in V
    OBVIOUS
  <2>1. IsFiniteSet(T) /\ T # {}
    BY FS_Subset, FS_EmptySet
  <2>2. PICK x \in T : SumOver(f, T) = f[x] + SumOver(f, T \ {x})
    BY <2>1, SumChosen
  <2>3. Cardinality(T \ {x}) = n
    <3>1. Cardinality(T \ {x}) = Cardinality(T) - 1
      BY <2>1, OneElement
    <3> QED BY <3>1
  <2>4. SumOver(f, T \ {x}) \in V /\ f[x] \in V
    BY <1>2, <2>3
  <2> QED BY <2>2, <2>4
<1>3. Nat \subseteq N
  <2> HIDE DEF N
  <2> QED BY <1>1, <1>2, NumberInduction
<1>4. Cardinality(S) \in Nat
  BY FS_CardinalityType
<1> QED BY <1>3, <1>4

(* Any element may be taken out of a sum of integers. *)
LEMMA SumRemove ==
  ASSUME NEW f, NEW S, IsFiniteSet(S), \A x \in S : f[x] \in Int, NEW e \in S
  PROVE  SumOver(f, S) = f[e] + SumOver(f, S \ {e})
<1> DEFINE N == {n \in Nat : \A T \in SUBSET S : \A y \in T :
                   Cardinality(T) = n => SumOver(f, T) = f[y] + SumOver(f, T \ {y})}
<1>1. 0 \in N
  BY FS_Subset, FS_EmptySet
<1>2. ASSUME NEW n \in Nat, n \in N
      PROVE  n + 1 \in N
  <2> SUFFICES ASSUME NEW T \in SUBSET S, NEW y \in T, Cardinality(T) = n + 1
               PROVE  SumOver(f, T) = f[y] + SumOver(f, T \ {y})
    OBVIOUS
  <2>1. IsFiniteSet(T) /\ T # {}
    BY FS_Subset
  <2>2. PICK x \in T : SumOver(f, T) = f[x] + SumOver(f, T \ {x})
    BY <2>1, SumChosen
  <2>3. ASSUME x # y
        PROVE  SumOver(f, T) = f[y] + SumOver(f, T \ {y})
    <3> DEFINE U == (T \ {x}) \ {y}
    <3>1. Cardinality(T \ {x}) = n /\ Cardinality(T \ {y}) = n
      <4>1. Cardinality(T \ {x}) = Cardinality(T) - 1
        BY <2>1, OneElement
      <4>2. Cardinality(T \ {y}) = Cardinality(T) - 1
        BY <2>1, OneElement
      <4> QED BY <4>1, <4>2
    <3>2. SumOver(f, T \ {x}) = f[y] + SumOver(f, U)
      BY <1>2, <2>3, <3>1
    <3>3. SumOver(f, T \ {y}) = f[x] + SumOver(f, U)
      <4>1. (T \ {y}) \ {x} = U
        OBVIOUS
      <4>2. SumOver(f, T \ {y}) = f[x] + SumOver(f, (T \ {y}) \ {x})
        BY <1>2, <2>3, <3>1
      <4> QED BY <4>1, <4>2
    <3>4. f[x] \in Int /\ f[y] \in Int
      OBVIOUS
    <3>5. SumOver(f, U) \in Int
      <4>1. IsFiniteSet(U) /\ \A z \in U : f[z] \in Int
        BY <2>1, FS_Subset
      <4> QED BY <4>1, SumType
    <3> HIDE DEF U
    <3> QED BY <2>2, <3>2, <3>3, <3>4, <3>5
  <2> QED BY <2>2, <2>3
<1>3. Nat \subseteq N
  <2> HIDE DEF N
  <2> QED BY <1>1, <1>2, NumberInduction
<1>4. Cardinality(S) \in Nat
  BY FS_CardinalityType
<1> QED BY <1>3, <1>4

(* An element may be added. *)
LEMMA SumAdd ==
  ASSUME NEW f, NEW S, IsFiniteSet(S), NEW e, e \notin S,
         \A x \in S \cup {e} : f[x] \in Int
  PROVE  SumOver(f, S \cup {e}) = f[e] + SumOver(f, S)
<1>1. IsFiniteSet(S \cup {e}) /\ (S \cup {e}) \ {e} = S
  BY OneElement
<1> QED BY <1>1, SumRemove

(* When one value changes, the sum changes by as much. *)
LEMMA SumUpdate ==
  ASSUME NEW f, NEW g, NEW S, IsFiniteSet(S), NEW e \in S,
         \A x \in S : f[x] \in Int /\ g[x] \in Int,
         \A x \in S \ {e} : f[x] = g[x]
  PROVE  SumOver(g, S) = SumOver(f, S) - f[e] + g[e]
<1>1. SumOver(f, S) = f[e] + SumOver(f, S \ {e})
  BY SumRemove
<1>2. SumOver(g, S) = g[e] + SumOver(g, S \ {e})
  BY SumRemove
<1>3. SumOver(f, S \ {e}) = SumOver(g, S \ {e}) /\ SumOver(f, S \ {e}) \in Int
  <2>1. IsFiniteSet(S \ {e})
    BY OneElement
  <2>2. SumOver(f, S \ {e}) \in Int
    BY <2>1, SumType
  <2> QED BY <2>1, <2>2, SumCongruence
<1> QED BY <1>1, <1>2, <1>3

(* The sums over two disjoint sets add up. *)
LEMMA SumUnion ==
  ASSUME NEW f, NEW S, NEW T, IsFiniteSet(S), IsFiniteSet(T), S \cap T = {},
         \A x \in S \cup T : f[x] \in Int
  PROVE  SumOver(f, S \cup T) = SumOver(f, S) + SumOver(f, T)
<1> DEFINE P == {U \in SUBSET T : SumOver(f, S \cup U) = SumOver(f, S) + SumOver(f, U)}
<1>0. SumOver(f, S) \in Int
  BY SumType
<1>1. {} \in P
  <2>1. S \cup {} = S
    OBVIOUS
  <2> QED BY <1>0, <2>1, SumEmpty
<1>2. ASSUME NEW U \in SUBSET T, NEW x \in T \ U, U \in P
      PROVE  U \cup {x} \in P
  <2>1. IsFiniteSet(U) /\ IsFiniteSet(S \cup U)
    BY FS_Subset, FS_Union, Zenon
  <2>2. SumOver(f, U \cup {x}) = f[x] + SumOver(f, U)
    BY <2>1, SumAdd
  <2>3. SumOver(f, (S \cup U) \cup {x}) = f[x] + SumOver(f, S \cup U)
    BY <2>1, SumAdd
  <2>4. (S \cup U) \cup {x} = S \cup (U \cup {x})
    OBVIOUS
  <2>5. SumOver(f, U) \in Int /\ f[x] \in Int
    BY <2>1, SumType
  <2>6. SumOver(f, S \cup U) = SumOver(f, S) + SumOver(f, U)
    BY <1>2
  <2>7. SumOver(f, S \cup (U \cup {x})) = SumOver(f, S) + SumOver(f, U \cup {x})
    <3>1. SumOver(f, S \cup (U \cup {x})) = f[x] + SumOver(f, S \cup U)
      BY <2>3, <2>4, Zenon
    <3>2. f[x] + (SumOver(f, S) + SumOver(f, U)) = SumOver(f, S) + (f[x] + SumOver(f, U))
      BY <1>0, <2>5
    <3> QED BY <2>2, <2>6, <3>1, <3>2, Zenon
  <2> QED BY <2>7
<1>3. T \in P
  <2> HIDE DEF P
  <2> QED BY <1>1, <1>2, FiniteInduction, Zenon
<1> QED BY <1>3

(* Smaller values have a smaller sum, and two sums of the same size come   *)
(* from the same values.                                                   *)
LEMMA SumBounded ==
  ASSUME NEW f, NEW g, NEW S, IsFiniteSet(S),
         \A x \in S : f[x] \in Int /\ g[x] \in Int /\ f[x] <= g[x]
  PROVE  /\ SumOver(f, S) <= SumOver(g, S)
         /\ SumOver(f, S) = SumOver(g, S) => \A x \in S : f[x] = g[x]
<1> DEFINE P == {T \in SUBSET S :
                   /\ SumOver(f, T) <= SumOver(g, T)
                   /\ SumOver(f, T) = SumOver(g, T) => \A x \in T : f[x] = g[x]}
<1>1. {} \in P
  BY SumEmpty
<1>2. ASSUME NEW T \in SUBSET S, NEW x \in S \ T, T \in P
      PROVE  T \cup {x} \in P
  <2>1. IsFiniteSet(T)
    BY FS_Subset
  <2>2. SumOver(f, T \cup {x}) = f[x] + SumOver(f, T)
    BY <2>1, SumAdd
  <2>3. SumOver(g, T \cup {x}) = g[x] + SumOver(g, T)
    BY <2>1, SumAdd
  <2>4. SumOver(f, T) \in Int /\ SumOver(g, T) \in Int
    BY <2>1, SumType
  <2>5. f[x] \in Int /\ g[x] \in Int /\ f[x] <= g[x]
    OBVIOUS
  <2> QED BY <1>2, <2>2, <2>3, <2>4, <2>5
<1>3. S \in P
  <2> HIDE DEF P
  <2> QED BY <1>1, <1>2, FiniteInduction, Zenon
<1> QED BY <1>3

(* The sum of a constant. *)
LEMMA SumConstant ==
  ASSUME NEW f, NEW S, IsFiniteSet(S), NEW c \in Int, \A x \in S : f[x] = c
  PROVE  SumOver(f, S) = c * Cardinality(S)
<1> DEFINE P == {T \in SUBSET S : SumOver(f, T) = c * Cardinality(T)}
<1>1. {} \in P
  BY SumEmpty, FS_EmptySet
<1>2. ASSUME NEW T \in SUBSET S, NEW x \in S \ T, T \in P
      PROVE  T \cup {x} \in P
  <2>1. IsFiniteSet(T)
    BY FS_Subset
  <2>2. SumOver(f, T \cup {x}) = f[x] + SumOver(f, T)
    BY <2>1, SumAdd
  <2>3. Cardinality(T \cup {x}) = Cardinality(T) + 1 /\ Cardinality(T) \in Nat
    BY <2>1, OneElement
  <2>4. c + c * Cardinality(T) = c * (Cardinality(T) + 1)
    BY <2>3
  <2> QED BY <1>2, <2>2, <2>3, <2>4
<1>3. S \in P
  <2> HIDE DEF P
  <2> QED BY <1>1, <1>2, FiniteInduction, SMTT(60)
<1> QED BY <1>3

(* The sum of two functions. *)
LEMMA SumPlus ==
  ASSUME NEW f, NEW g, NEW h, NEW S, IsFiniteSet(S),
         \A x \in S : g[x] \in Int /\ h[x] \in Int /\ f[x] = g[x] + h[x]
  PROVE  SumOver(f, S) = SumOver(g, S) + SumOver(h, S)
<1> DEFINE P == {T \in SUBSET S : SumOver(f, T) = SumOver(g, T) + SumOver(h, T)}
<1>1. {} \in P
  BY SumEmpty
<1>2. ASSUME NEW T \in SUBSET S, NEW x \in S \ T, T \in P
      PROVE  T \cup {x} \in P
  <2>1. IsFiniteSet(T) /\ \A y \in T \cup {x} : f[y] \in Int /\ g[y] \in Int /\ h[y] \in Int
    BY FS_Subset
  <2>2. SumOver(f, T \cup {x}) = f[x] + SumOver(f, T)
    BY <2>1, SumAdd
  <2>3. SumOver(g, T \cup {x}) = g[x] + SumOver(g, T)
    BY <2>1, SumAdd
  <2>4. SumOver(h, T \cup {x}) = h[x] + SumOver(h, T)
    BY <2>1, SumAdd
  <2>5. SumOver(g, T) \in Int /\ SumOver(h, T) \in Int
    BY <2>1, SumType
  <2>6. g[x] \in Int /\ h[x] \in Int /\ f[x] = g[x] + h[x]
    OBVIOUS
  <2>7. SumOver(f, T) = SumOver(g, T) + SumOver(h, T)
    BY <1>2
  <2>8. SumOver(f, T \cup {x}) = SumOver(g, T \cup {x}) + SumOver(h, T \cup {x})
    BY <2>2, <2>3, <2>4, <2>5, <2>6, <2>7
  <2> QED BY <2>8
<1>3. S \in P
  <2> HIDE DEF P
  <2> QED BY <1>1, <1>2, FiniteInduction, Zenon
<1> QED BY <1>3
=============================================================================
