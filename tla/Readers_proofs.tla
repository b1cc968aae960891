---------------------------- MODULE Readers_proofs ----------------------------
(***************************************************************************)
(* What the readers of the chain deliver, for any number of transactions,  *)
(* any page sizes and any number of faults: the monitors, the pages of the *)
(* noop shim, a user's claim history and the history stream.               *)
(***************************************************************************)
EXTENDS ShimMonitor, ClaimHistory, HistoryStream, WellFoundedInduction, TLAPS

(* The time each prover has for a step that names none. *)
USE SMTT(30), ZenonT(30)

(* A set that contains 0 and, with each number, the next contains all      *)
(* natural numbers.                                                        *)
LEMMA NumberInduction ==
  ASSUME NEW S, 0 \in S, \A n \in Nat : n \in S => n + 1 \in S
  PROVE  Nat \subseteq S
<1> DEFINE T == Nat \ S
           R == OpToRel(<, Nat)
<1> SUFFICES ASSUME T # {} PROVE FALSE
  OBVIOUS
<1>1. IsWellFoundedOn(R, Nat)
  BY NatLessThanWellFounded, Zenon
<1>2. T \subseteq Nat
  OBVIOUS
<1>3. PICK x \in T : \A y \in T : ~(<<y, x>> \in R)
  BY <1>1, <1>2, WFMin, Zenon
<1>4. \A y \in T : ~(y < x)
  BY <1>3, Zenon DEF OpToRel
<1>5. x # 0 /\ x \in Nat
  BY <1>3, Zenon
<1>6. x - 1 \in Nat /\ x - 1 < x
  BY <1>5
<1>7. x - 1 \in S
  BY <1>4, <1>6
<1>8. x \in S
  BY <1>5, <1>6, <1>7
<1> QED
  BY <1>3, <1>8, Zenon

(* The members of a list, and a list that one more element is put to. *)
LEMMA RangeOfList ==
  ASSUME NEW S, NEW s \in Seq(S)
  PROVE  /\ Range(s) \subseteq S
         /\ \A x : x \in Range(s) <=> \E i \in 1..Len(s) : x = s[i]
         /\ s = <<>> <=> Range(s) = {}
<1>1. DOMAIN s = 1..Len(s) /\ Len(s) \in Nat /\ \A i \in 1..Len(s) : s[i] \in S
  OBVIOUS
<1>2. \A x : x \in Range(s) <=> \E i \in 1..Len(s) : x = s[i]
  BY <1>1 DEF Range
<1>3. s # <<>> => Len(s) # 0
  OBVIOUS
<1>4. s # <<>> => 1 \in 1..Len(s)
  BY <1>1, <1>3
<1>5. s = <<>> => 1..Len(s) = {}
  OBVIOUS
<1> QED
  BY <1>1, <1>2, <1>4, <1>5

(* The elements of a list with one more. *)
LEMMA RangeOfAppend ==
  ASSUME NEW S, NEW s \in Seq(S), NEW e \in S
  PROVE  Range(Append(s, e)) = Range(s) \cup {e}
<1> DEFINE t == Append(s, e)
           n == Len(s)
<1>1. /\ n \in Nat /\ t \in Seq(S) /\ Len(t) = n + 1 /\ t[n + 1] = e
      /\ \A i \in 1..n : t[i] = s[i]
  OBVIOUS
<1> HIDE DEF t, n
<1>2. /\ \A x : x \in Range(t) <=> \E i \in 1..(n + 1) : x = t[i]
      /\ \A x : x \in Range(s) <=> \E i \in 1..n : x = s[i]
  BY <1>1, RangeOfList DEF n
<1>3. \A i \in 1..(n + 1) : i \in 1..n \/ i = n + 1
  BY <1>1
<1>4. \A i \in 1..n : i \in 1..(n + 1)
  BY <1>1
<1>5. n + 1 \in 1..(n + 1)
  BY <1>1
<1> QED BY <1>1, <1>2, <1>3, <1>4, <1>5 DEF t

(* The first element of a list, and the others. *)
LEMMA TailFacts ==
  ASSUME NEW S, NEW s \in Seq(S), s # <<>>
  PROVE  /\ Len(s) \in Nat /\ Len(s) # 0 /\ s[1] \in S /\ Head(s) = s[1]
         /\ Tail(s) \in Seq(S) /\ Len(Tail(s)) = Len(s) - 1
         /\ \A i \in 1..(Len(s) - 1) : Tail(s)[i] = s[i + 1]
         /\ Tail(s) # <<>> => Len(s) - 1 # 0
<1>1. Len(s) \in Nat /\ Len(s) # 0
  OBVIOUS
<1>2. s[1] \in S /\ Head(s) = s[1]
  BY <1>1
<1>3. Tail(s) \in Seq(S) /\ Len(Tail(s)) = Len(s) - 1
  BY <1>1
<1>4. \A i \in 1..(Len(s) - 1) : Tail(s)[i] = s[i + 1]
  BY <1>1
<1>5. Tail(s) # <<>> => Len(Tail(s)) # 0
  BY <1>3
<1> QED BY <1>1, <1>2, <1>3, <1>4, <1>5

(* A list of some things is a list of more things. *)
LEMMA ListOfMore ==
  ASSUME NEW A, NEW B, A \subseteq B, NEW s \in Seq(A)
  PROVE  s \in Seq(B)
<1>1. /\ Len(s) \in Nat /\ s = [i \in 1..Len(s) |-> s[i]]
      /\ \A i \in 1..Len(s) : s[i] \in B
  OBVIOUS
<1> QED BY <1>1

(* An element beyond all others keeps the order. *)
LEMMA AppendInOrder ==
  ASSUME NEW t \in Seq(Nat), NEW x \in Nat
  PROVE  /\ Increasing(t) /\ (\A i \in 1..Len(t) : t[i] < x)
              => Increasing(Append(t, x))
         /\ Decreasing(t) /\ (\A i \in 1..Len(t) : t[i] > x)
              => Decreasing(Append(t, x))
<1> DEFINE u == Append(t, x)
           n == Len(t)
<1>1. /\ n \in Nat /\ Len(u) = n + 1 /\ u[n + 1] = x
      /\ \A i \in 1..n : u[i] = t[i] /\ t[i] \in Nat
  OBVIOUS
<1> HIDE DEF u, n
<1>2. \A i, j \in 1..(n + 1) : i < j => i \in 1..n /\ (j \in 1..n \/ j = n + 1)
  BY <1>1
<1>3. ASSUME Increasing(t), \A i \in 1..n : t[i] < x
      PROVE  Increasing(u)
  <2> SUFFICES ASSUME NEW i \in 1..(n + 1), NEW j \in 1..(n + 1), i < j
               PROVE  u[i] < u[j]
    BY <1>1 DEF Increasing
  <2>1. CASE j = n + 1
    BY <1>1, <1>2, <1>3, <2>1
  <2>2. CASE j \in 1..n
    <3>1. i \in 1..n /\ u[i] = t[i] /\ u[j] = t[j]
      BY <1>1, <1>2, <2>2
    <3> QED BY <1>3, <2>2, <3>1 DEF Increasing, n
  <2> QED BY <1>2, <2>1, <2>2
<1>4. ASSUME Decreasing(t), \A i \in 1..n : t[i] > x
      PROVE  Decreasing(u)
  <2> SUFFICES ASSUME NEW i \in 1..(n + 1), NEW j \in 1..(n + 1), i < j
               PROVE  u[i] > u[j]
    BY <1>1 DEF Decreasing
  <2>1. CASE j = n + 1
    BY <1>1, <1>2, <1>4, <2>1
  <2>2. CASE j \in 1..n
    <3>1. i \in 1..n /\ u[i] = t[i] /\ u[j] = t[j]
      BY <1>1, <1>2, <2>2
    <3> QED BY <1>4, <2>2, <3>1 DEF Decreasing, n
  <2> QED BY <1>2, <2>1, <2>2
<1> QED
  BY <1>3, <1>4 DEF u, n

(* The function behind Kept exists. *)
LEMMA KeptFunction ==
  ASSUME NEW s \in Seq(Nat), NEW W
  PROVE  \E k \in [0..Len(s) -> Seq(Nat)] :
           /\ k[0] = <<>>
           /\ \A n \in 1..Len(s) :
                k[n] = IF s[n] \in W THEN Append(k[n - 1], s[n]) ELSE k[n - 1]
           /\ Kept(s, W) = k[Len(s)]
<1> DEFINE L == Len(s)
           Step(f, n) == IF n = 0 THEN <<>>
                         ELSE IF s[n] \in W THEN Append(f[n - 1], s[n])
                         ELSE f[n - 1]
           Upto(n, f) == \A m \in 0..n : f[m] = Step(f, m)
           N == {n \in Nat : n <= L => \E f \in [0..n -> Seq(Nat)] : Upto(n, f)}
           kept == CHOOSE f : f = [n \in 0..L |-> Step(f, n)]
<1>0. L \in Nat /\ \A n \in 1..L : s[n] \in Nat
  OBVIOUS
<1>1. 0 \in N
  <2> DEFINE f == [m \in 0..0 |-> <<>>]
  <2>1. <<>> \in Seq(Nat) /\ 0 \in 0..0
    OBVIOUS
  <2>2. f \in [0..0 -> Seq(Nat)] /\ Upto(0, f)
    BY <2>1
  <2> QED BY <2>2, Zenon
<1>2. ASSUME NEW n \in Nat, n \in N
      PROVE  n + 1 \in N
  <2> SUFFICES ASSUME n + 1 <= L
               PROVE  \E f \in [0..(n + 1) -> Seq(Nat)] : Upto(n + 1, f)
    <3> HIDE DEF Upto, L
    <3> QED OBVIOUS
  <2>1. PICK f \in [0..n -> Seq(Nat)] : Upto(n, f)
    <3>1. n <= L
      BY <1>0
    <3> HIDE DEF Upto, L
    <3> QED BY <1>2, <3>1
  <2> DEFINE v == Step(f, n + 1)
             g == [m \in 0..(n + 1) |-> IF m = n + 1 THEN v ELSE f[m]]
  <2>2. v \in Seq(Nat)
    <3>1. (n + 1) - 1 = n /\ n + 1 # 0 /\ n + 1 \in 1..L
      BY <1>0
    <3>2. f[n] \in Seq(Nat) /\ s[n + 1] \in Nat
      BY <1>0, <2>1, <3>1
    <3>3. v = IF s[n + 1] \in W THEN Append(f[n], s[n + 1]) ELSE f[n]
      BY <3>1
    <3> HIDE DEF v
    <3> QED BY <3>2, <3>3
  <2> HIDE DEF v
  <2>3. g \in [0..(n + 1) -> Seq(Nat)]
    BY <2>1, <2>2
  <2>4. ASSUME NEW m \in 0..(n + 1)
        PROVE  g[m] = Step(g, m)
    <3>1. CASE m = 0
      <4>1. g[0] = f[0] /\ f[0] = <<>>
        BY <2>1
      <4> QED BY <3>1, <4>1
    <3>2. CASE m # 0
      <4>1. g[m - 1] = f[m - 1]
        BY <3>2
      <4>2. Step(g, m) = Step(f, m)
        BY <3>2, <4>1
      <4>3. m \in 0..n => f[m] = Step(f, m)
        BY <2>1, Zenon
      <4>4. m = n + 1 \/ m \in 0..n
        OBVIOUS
      <4>5. m = n + 1 => g[m] = v
        OBVIOUS
      <4>6. m \in 0..n => g[m] = f[m]
        OBVIOUS
      <4> HIDE DEF g, Step
      <4>7. CASE m = n + 1
        BY <4>2, <4>5, <4>7 DEF v
      <4>8. CASE m \in 0..n
        BY <4>2, <4>3, <4>6, <4>8
      <4> QED BY <4>4, <4>7, <4>8
    <3> QED BY <3>1, <3>2
  <2> QED BY <2>3, <2>4, Zenon
<1>3. L \in N
  BY <1>0, <1>1, <1>2, NumberInduction, Zenon
<1>4. PICK k \in [0..L -> Seq(Nat)] : Upto(L, k)
  BY <1>0, <1>3
<1>5. k = [n \in 0..L |-> Step(k, n)]
  BY <1>4, SMTT(60)
<1>6. kept = [n \in 0..L |-> Step(kept, n)]
  BY <1>5, ZenonT(60)
<1>7. \A n \in 0..L : kept[n] = Step(kept, n)
  BY <1>6, Zenon
<1> DEFINE M == {n \in Nat : n <= L => kept[n] = k[n]}
<1> HIDE DEF kept
<1>8. 0 \in M
  BY <1>0, <1>4, <1>7
<1>9. ASSUME NEW n \in Nat, n \in M
      PROVE  n + 1 \in M
  <2> SUFFICES ASSUME n + 1 <= L
               PROVE  kept[n + 1] = k[n + 1]
    OBVIOUS
  <2>1. n + 1 \in 0..L /\ (n + 1) - 1 = n /\ n <= L /\ n + 1 # 0
    BY <1>0
  <2>2. kept[n + 1] = Step(kept, n + 1) /\ k[n + 1] = Step(k, n + 1)
    BY <1>4, <1>7, <2>1, Zenon
  <2>3. kept[n] = k[n]
    BY <1>9, <2>1
  <2>4. Step(kept, n + 1) = Step(k, n + 1)
    BY <2>1, <2>3
  <2> QED BY <2>2, <2>4
<1>10. kept[L] = k[L]
  <2>1. L \in M
    BY <1>0, <1>8, <1>9, NumberInduction, Zenon
  <2> QED BY <1>0, <2>1
<1>11. Kept(s, W) = kept[L]
  BY DEF Kept, kept
<1>12. k[0] = <<>> /\ \A n \in 1..L : k[n] = Step(k, n) /\ n # 0
  <2>1. 0 \in 0..L /\ \A n \in 1..L : n \in 0..L /\ n # 0
    BY <1>0
  <2>2. \A n \in 0..L : k[n] = Step(k, n)
    BY <1>4
  <2>3. Step(k, 0) = <<>>
    OBVIOUS
  <2> HIDE DEF Step, L
  <2> QED BY <2>1, <2>2, <2>3
<1> QED
  BY <1>10, <1>11, <1>12

(* What is kept: the wanted members, in their order; when nothing is       *)
(* dropped it is the list itself.                                          *)
LEMMA KeptFacts ==
  ASSUME NEW s \in Seq(Nat), NEW W
  PROVE  /\ Kept(s, W) \in Seq(Nat)
         /\ Range(Kept(s, W)) = Range(s) \cap W
         /\ Len(Kept(s, W)) <= Len(s)
         /\ Len(Kept(s, W)) = Len(s) => Kept(s, W) = s
         /\ Increasing(s) => Increasing(Kept(s, W))
         /\ Decreasing(s) => Decreasing(Kept(s, W))
<1>1. PICK k \in [0..Len(s) -> Seq(Nat)] :
        /\ k[0] = <<>>
        /\ \A n \in 1..Len(s) :
             k[n] = IF s[n] \in W THEN Append(k[n - 1], s[n]) ELSE k[n - 1]
        /\ Kept(s, W) = k[Len(s)]
  BY KeptFunction, Zenon
<1> DEFINE L == Len(s)
           Members(n) ==
             /\ \A i \in 1..Len(k[n]) : \E j \in 1..n : k[n][i] = s[j] /\ s[j] \in W
             /\ \A j \in 1..n : s[j] \in W => \E i \in 1..Len(k[n]) : k[n][i] = s[j]
           Length(n) ==
             /\ Len(k[n]) <= n
             /\ Len(k[n]) = n => \A i \in 1..n : k[n][i] = s[i]
           N == {n \in Nat : n <= L =>
                   /\ Members(n) /\ Length(n)
                   /\ Increasing(s) => Increasing(k[n])
                   /\ Decreasing(s) => Decreasing(k[n])}
<1>0. L \in Nat /\ \A n \in 1..L : s[n] \in Nat
  OBVIOUS
<1>2. 0 \in N
  BY <1>1 DEF Increasing, Decreasing
<1>3. ASSUME NEW n \in Nat, n \in N
      PROVE  n + 1 \in N
  <2> SUFFICES ASSUME n + 1 <= L
               PROVE  /\ Members(n + 1) /\ Length(n + 1)
                      /\ Increasing(s) => Increasing(k[n + 1])
                      /\ Decreasing(s) => Decreasing(k[n + 1])
    OBVIOUS
  <2> DEFINE t == k[n]
             x == s[n + 1]
             u == k[n + 1]
  <2>1. /\ t \in Seq(Nat) /\ x \in Nat /\ u \in Seq(Nat)
        /\ u = IF x \in W THEN Append(t, x) ELSE t
    <3>1. n \in 0..L /\ n + 1 \in 0..L /\ n + 1 \in 1..L /\ (n + 1) - 1 = n
      BY <1>0
    <3> QED BY <1>0, <1>1, <3>1, Zenon
  <2>2. /\ Members(n) /\ Length(n)
        /\ Increasing(s) => Increasing(t)
        /\ Decreasing(s) => Decreasing(t)
    BY <1>0, <1>3
  <2>3. CASE x \notin W
    <3>1. u = t
      BY <2>1, <2>3
    <3>2. Members(n + 1)
      BY <2>2, <2>3, <3>1, SMTT(60)
    <3>3. Length(n + 1)
      BY <2>1, <2>2, <3>1, SMTT(60)
    <3> QED BY <2>2, <3>1, <3>2, <3>3
  <2>4. CASE x \in W
    <3>1. u = Append(t, x)
      BY <2>1, <2>4
    <3> HIDE DEF t, x, u
    <3>2. /\ Len(u) = Len(t) + 1 /\ u[Len(t) + 1] = x
          /\ \A i \in 1..Len(t) : u[i] = t[i]
          /\ Len(t) \in Nat
      BY <2>1, <3>1
    <3>3. \A i \in 1..Len(u) : i = Len(t) + 1 \/ i \in 1..Len(t)
      BY <3>2
    <3>4. Members(n + 1)
      <4>1. ASSUME NEW i \in 1..Len(u)
            PROVE  \E j \in 1..(n + 1) : u[i] = s[j] /\ s[j] \in W
        <5>1. CASE i = Len(t) + 1
          BY <2>4, <3>2, <5>1 DEF x
        <5>2. CASE i \in 1..Len(t)
          BY <2>2, <3>2, <5>2 DEF t
        <5> QED BY <3>3, <5>1, <5>2
      <4>2. ASSUME NEW j \in 1..(n + 1), s[j] \in W
            PROVE  \E i \in 1..Len(u) : u[i] = s[j]
        <5>1. CASE j = n + 1
          BY <3>2, <5>1 DEF x
        <5>2. CASE j \in 1..n
          <6>1. PICK i \in 1..Len(t) : t[i] = s[j]
            BY <2>2, <4>2, <5>2 DEF t
          <6> QED BY <3>2, <6>1
        <5> QED BY <5>1, <5>2
      <4> QED BY <4>1, <4>2, Zenon DEF u
    <3>5. Length(n + 1)
      <4>1. Len(t) <= n /\ (Len(t) = n => \A i \in 1..n : t[i] = s[i])
        BY <2>2 DEF t
      <4>2. Len(u) <= n + 1
        BY <3>2, <4>1
      <4>3. ASSUME Len(u) = n + 1, NEW i \in 1..(n + 1)
            PROVE  u[i] = s[i]
        <5>1. Len(t) = n
          BY <3>2, <4>3
        <5>2. i = n + 1 \/ i \in 1..n
          OBVIOUS
        <5> QED BY <3>2, <4>1, <5>1, <5>2 DEF x
      <4> QED BY <4>2, <4>3 DEF u
    <3>6. \A i \in 1..Len(t) : \E j \in 1..n : t[i] = s[j]
      BY <2>2 DEF t
    <3>7. \A i \in 1..Len(t) : t[i] \in Nat
      BY <2>1
    <3>8. ASSUME Increasing(s) PROVE Increasing(u)
      <4>1. \A j \in 1..n : s[j] < x
        BY <1>0, <3>8 DEF Increasing, x
      <4>2. \A i \in 1..Len(t) : t[i] < x
        BY <3>6, <4>1
      <4> QED BY <2>1, <2>2, <3>1, <3>8, <4>2, AppendInOrder
    <3>9. ASSUME Decreasing(s) PROVE Decreasing(u)
      <4>1. \A j \in 1..n : s[j] > x
        BY <1>0, <3>9 DEF Decreasing, x
      <4>2. \A i \in 1..Len(t) : t[i] > x
        BY <3>6, <4>1
      <4> QED BY <2>1, <2>2, <3>1, <3>9, <4>2, AppendInOrder
    <3> QED BY <3>4, <3>5, <3>8, <3>9 DEF u
  <2> QED BY <2>3, <2>4
<1>4. L \in N
  BY <1>0, <1>2, <1>3, NumberInduction, Zenon
<1> DEFINE r == k[L]
<1>5. r \in Seq(Nat) /\ r = Kept(s, W)
  BY <1>0, <1>1
<1>6. /\ Members(L) /\ Length(L)
      /\ Increasing(s) => Increasing(r)
      /\ Decreasing(s) => Decreasing(r)
  BY <1>0, <1>4
<1>7. /\ \A i \in 1..Len(r) : \E j \in 1..L : r[i] = s[j] /\ s[j] \in W
      /\ \A j \in 1..L : s[j] \in W => \E i \in 1..Len(r) : r[i] = s[j]
  BY <1>6
<1>8. Len(r) <= L /\ (Len(r) = L => \A i \in 1..L : r[i] = s[i])
  BY <1>6
<1> HIDE DEF r
<1>9. Range(r) = Range(s) \cap W
  <2>1. /\ \A x : x \in Range(r) <=> \E i \in 1..Len(r) : x = r[i]
        /\ \A x : x \in Range(s) <=> \E i \in 1..L : x = s[i]
    BY <1>5, RangeOfList, Zenon
  <2> HIDE DEF L
  <2>2. ASSUME NEW x \in Range(r) PROVE x \in Range(s) \cap W
    <3>1. PICK i \in 1..Len(r) : x = r[i]
      BY <2>1
    <3>2. PICK j \in 1..L : r[i] = s[j] /\ s[j] \in W
      BY <1>7
    <3> QED BY <2>1, <3>1, <3>2
  <2>3. ASSUME NEW x \in Range(s) \cap W PROVE x \in Range(r)
    <3>1. PICK j \in 1..L : x = s[j]
      BY <2>1
    <3> QED BY <1>7, <2>1, <3>1, Zenon
  <2> QED BY <2>2, <2>3
<1>10. Len(r) = L => r = s
  BY <1>5, <1>8, SMTT(60)
<1> QED
  BY <1>5, <1>6, <1>8, <1>9, <1>10
-----------------------------------------------------------------------------
(* A page of signatures: the newest below `before', without a gap. *)
IsPage(sigs, until, before, n) ==
  /\ sigs \in Seq(Nat) /\ Decreasing(sigs)
  /\ Len(sigs) \in Nat /\ Len(sigs) <= n /\ Len(sigs) <= before - 1 - until
  /\ Len(sigs) = n \/ Len(sigs) = before - 1 - until
  /\ Range(sigs) = (before - Len(sigs))..(before - 1)
  /\ sigs = <<>> <=> Len(sigs) = 0
  /\ sigs # <<>> => Head(sigs) = before - 1 /\ LastOf(sigs) = before - Len(sigs)
  /\ \A i \in 1..Len(sigs) : sigs[i] = before - i

(* What the node returns is a page of the chain. *)
LEMMA SignatureFacts ==
  ASSUME NEW until \in Nat, NEW before \in Nat, until < before, NEW n \in Nat
  PROVE  IsPage(Signatures(until, before, n), until, before, n)
<1> DEFINE sigs == Signatures(until, before, n)
<1> DEFINE k == IF before - 1 - until < n THEN before - 1 - until ELSE n
<1>1. /\ k \in Nat /\ before - k \in Nat /\ k <= before - 1 - until /\ k <= n
      /\ k = n \/ k = before - 1 - until
  OBVIOUS
<1>2. sigs = [i \in 1..k |-> before - i]
  BY DEF Signatures
<1> HIDE DEF k, sigs
<1>3. \A i \in 1..k : before - i \in Nat
  BY <1>1
<1>4. sigs \in Seq(Nat) /\ Len(sigs) = k
  BY <1>1, <1>2, <1>3
<1>5. \A i \in 1..k : sigs[i] = before - i
  BY <1>2
<1>6. Decreasing(sigs)
  BY <1>1, <1>4, <1>5 DEF Decreasing
<1>7. Range(sigs) = (before - k)..(before - 1)
  <2>1. \A x : x \in Range(sigs) <=> \E i \in 1..k : x = before - i
    BY <1>4, <1>5, RangeOfList
  <2>2. \A x \in (before - k)..(before - 1) :
          before - x \in 1..k /\ x = before - (before - x)
    BY <1>1
  <2>3. \A i \in 1..k : before - i \in (before - k)..(before - 1)
    BY <1>1
  <2>4. ASSUME NEW x \in Range(sigs) PROVE x \in (before - k)..(before - 1)
    BY <2>1, <2>3
  <2>5. ASSUME NEW x \in (before - k)..(before - 1) PROVE x \in Range(sigs)
    <3>1. before - x \in 1..k /\ x = before - (before - x)
      BY <2>2
    <3> QED BY <2>1, <3>1
  <2> QED BY <2>4, <2>5, Zenon
<1>8. sigs = <<>> <=> k = 0
  BY <1>1, <1>4
<1>9. sigs # <<>> => 1 \in 1..k /\ k \in 1..k
  BY <1>1, <1>8
<1>10. sigs # <<>> => Head(sigs) = sigs[1] /\ LastOf(sigs) = sigs[k]
  BY <1>4 DEF LastOf
<1>11. sigs # <<>> => Head(sigs) = before - 1 /\ LastOf(sigs) = before - k
  BY <1>5, <1>9, <1>10
<1> QED
  BY <1>1, <1>4, <1>5, <1>6, <1>7, <1>8, <1>11 DEF IsPage, sigs

(* A page read from its oldest entry. *)
LEMMA ReversedFacts ==
  ASSUME NEW s \in Seq(Nat)
  PROVE  /\ Reversed(s) \in Seq(Nat) /\ Len(Reversed(s)) = Len(s)
         /\ Range(Reversed(s)) = Range(s)
         /\ Decreasing(s) => Increasing(Reversed(s))
         /\ \A i \in 1..Len(s) : Reversed(s)[i] = s[Len(s) - i + 1]
<1> DEFINE r == Reversed(s)
           n == Len(s)
<1>1. n \in Nat /\ \A i \in 1..n : s[i] \in Nat
  OBVIOUS
<1>2. r = [i \in 1..n |-> s[(n - i) + 1]]
  BY DEF Reversed
<1>3. \A i \in 1..n : (n - i) + 1 \in 1..n /\ (n - ((n - i) + 1)) + 1 = i
  BY <1>1
<1> HIDE DEF r, n
<1>4. r \in Seq(Nat) /\ Len(r) = n
  <2>1. \A i \in 1..n : s[(n - i) + 1] \in Nat
    BY <1>1, <1>3
  <2> QED BY <1>1, <1>2, <2>1
<1>5. \A i \in 1..n : r[i] = s[(n - i) + 1]
  BY <1>2
<1>6. Range(r) = Range(s)
  <2>1. /\ \A x : x \in Range(r) <=> \E i \in 1..n : x = r[i]
        /\ \A x : x \in Range(s) <=> \E i \in 1..n : x = s[i]
    BY <1>4, RangeOfList DEF n
  <2>2. ASSUME NEW x \in Range(r) PROVE x \in Range(s)
    BY <1>3, <1>5, <2>1
  <2>3. ASSUME NEW x \in Range(s) PROVE x \in Range(r)
    <3>1. PICK i \in 1..n : x = s[i]
      BY <2>1
    <3>2. r[(n - i) + 1] = s[i]
      BY <1>3, <1>5
    <3> QED BY <1>3, <2>1, <3>1, <3>2
  <2> QED BY <2>2, <2>3, Zenon
<1>7. ASSUME Decreasing(s) PROVE Increasing(r)
  <2> SUFFICES ASSUME NEW i \in 1..n, NEW j \in 1..n, i < j
               PROVE  r[i] < r[j]
    BY <1>4 DEF Increasing
  <2> DEFINE a == (n - i) + 1
             b == (n - j) + 1
  <2>1. a \in 1..n /\ b \in 1..n /\ b < a
    BY <1>1, <1>3
  <2>2. r[i] = s[a] /\ r[j] = s[b]
    BY <1>5
  <2> HIDE DEF a, b
  <2>3. s[b] > s[a] /\ s[a] \in Nat /\ s[b] \in Nat
    BY <1>1, <1>7, <2>1 DEF Decreasing, n
  <2> QED BY <2>2, <2>3
<1> QED
  BY <1>4, <1>5, <1>6, <1>7 DEF r, n

(* Two lists, one after the other. *)
LEMMA JoinFacts ==
  ASSUME NEW s \in Seq(Nat), NEW t \in Seq(Nat)
  PROVE  /\ s \o t \in Seq(Nat) /\ Range(s \o t) = Range(s) \cup Range(t)
         /\ t # <<>> => s \o t # <<>> /\ LastOf(s \o t) = LastOf(t)
         /\ s # <<>> => s \o t # <<>> /\ Head(s \o t) = Head(s)
         /\ t = <<>> => s \o t = s
         /\ s = <<>> => s \o t = t
         /\ /\ Increasing(s) /\ Increasing(t)
            /\ \A x \in Range(s), y \in Range(t) : x < y
            => Increasing(s \o t)
         /\ /\ Decreasing(s) /\ Decreasing(t)
            /\ \A x \in Range(s), y \in Range(t) : x > y
            => Decreasing(s \o t)
<1> DEFINE u == s \o t
           m == Len(s)
           n == Len(t)
<1>1. /\ m \in Nat /\ n \in Nat
      /\ \A i \in 1..m : s[i] \in Nat
      /\ \A i \in 1..n : t[i] \in Nat
  OBVIOUS
<1>2. /\ u \in Seq(Nat) /\ Len(u) = m + n
      /\ \A i \in 1..(m + n) : u[i] = IF i <= m THEN s[i] ELSE t[i - m]
  OBVIOUS
<1>3. /\ \A x : x \in Range(u) <=> \E i \in 1..(m + n) : x = u[i]
      /\ \A x : x \in Range(s) <=> \E i \in 1..m : x = s[i]
      /\ \A x : x \in Range(t) <=> \E i \in 1..n : x = t[i]
  <2> HIDE DEF u, m, n
  <2>1. \A x : x \in Range(u) <=> \E i \in 1..Len(u) : x = u[i]
    BY <1>2, RangeOfList
  <2>2. /\ \A x : x \in Range(s) <=> \E i \in 1..Len(s) : x = s[i]
        /\ \A x : x \in Range(t) <=> \E i \in 1..Len(t) : x = t[i]
    BY RangeOfList
  <2> QED BY <1>2, <2>1, <2>2 DEF m, n
<1>4. (s = <<>> <=> m = 0) /\ (t = <<>> <=> n = 0)
  OBVIOUS
<1>5. (s = <<>> => u = t) /\ (t = <<>> => u = s)
  <2>1. CASE s = <<>>
    <3>1. Len(u) = n /\ \A i \in 1..n : u[i] = t[i]
      BY <1>1, <1>2, <2>1
    <3> QED BY <1>2, <2>1, <3>1
  <2>2. CASE t = <<>>
    <3>1. Len(u) = m /\ \A i \in 1..m : u[i] = s[i]
      BY <1>1, <1>2, <2>2
    <3> QED BY <1>2, <2>2, <3>1
  <2> QED BY <2>1, <2>2
<1>6. /\ s # <<>> => Head(s) = s[1]
      /\ u # <<>> => Head(u) = u[1]
      /\ LastOf(t) = t[n] /\ LastOf(u) = u[Len(u)]
  BY <1>2 DEF LastOf
<1>7. u = <<>> <=> m + n = 0
  BY <1>2
<1> HIDE DEF u, m, n
<1>8. t # <<>> => u # <<>> /\ LastOf(u) = LastOf(t)
  BY <1>1, <1>2, <1>4, <1>6, <1>7
<1>9. s # <<>> => u # <<>> /\ Head(u) = Head(s)
  BY <1>1, <1>2, <1>4, <1>6, <1>7
<1>10. /\ \A i \in 1..m : i \in 1..(m + n) /\ u[i] = s[i]
       /\ \A i \in 1..n : m + i \in 1..(m + n) /\ u[m + i] = t[i]
       /\ \A i \in 1..(m + n) : i \in 1..m \/ (i - m \in 1..n /\ i = m + (i - m))
  BY <1>1, <1>2
<1>11. Range(u) = Range(s) \cup Range(t)
  <2>1. ASSUME NEW x \in Range(u) PROVE x \in Range(s) \cup Range(t)
    <3>1. PICK i \in 1..(m + n) : x = u[i]
      BY <1>3
    <3>2. CASE i \in 1..m
      BY <1>3, <1>10, <3>1, <3>2
    <3>3. CASE i - m \in 1..n /\ i = m + (i - m)
      <4>1. u[i] = t[i - m]
        BY <1>10, <3>3
      <4> QED BY <1>3, <3>1, <3>3, <4>1
    <3> QED BY <1>10, <3>2, <3>3
  <2>2. ASSUME NEW x \in Range(s) PROVE x \in Range(u)
    BY <1>3, <1>10
  <2>3. ASSUME NEW x \in Range(t) PROVE x \in Range(u)
    BY <1>3, <1>10
  <2> QED BY <2>1, <2>2, <2>3
<1>12. ASSUME Increasing(s), Increasing(t),
              \A x \in Range(s), y \in Range(t) : x < y
       PROVE  Increasing(u)
  <2> SUFFICES ASSUME NEW i \in 1..(m + n), NEW j \in 1..(m + n), i < j
               PROVE  u[i] < u[j]
    BY <1>2 DEF Increasing
  <2>1. CASE j \in 1..m
    <3>1. i \in 1..m
      BY <1>1, <2>1
    <3> QED BY <1>10, <1>12, <2>1, <3>1 DEF Increasing, m
  <2>2. CASE i \in 1..m /\ j - m \in 1..n /\ j = m + (j - m)
    <3>1. u[i] \in Range(s) /\ u[j] \in Range(t)
      BY <1>3, <1>10, <2>2
    <3> QED BY <1>12, <3>1
  <2>3. CASE i - m \in 1..n /\ i = m + (i - m) /\ j - m \in 1..n /\ j = m + (j - m)
    <3>1. u[i] = t[i - m] /\ u[j] = t[j - m] /\ i - m < j - m
      BY <1>1, <1>10, <2>3
    <3> QED BY <1>12, <2>3, <3>1 DEF Increasing, n
  <2> QED BY <1>10, <2>1, <2>2, <2>3
<1>13. ASSUME Decreasing(s), Decreasing(t),
              \A x \in Range(s), y \in Range(t) : x > y
       PROVE  Decreasing(u)
  <2> SUFFICES ASSUME NEW i \in 1..(m + n), NEW j \in 1..(m + n), i < j
               PROVE  u[i] > u[j]
    BY <1>2 DEF Decreasing
  <2>1. CASE j \in 1..m
    <3>1. i \in 1..m
      BY <1>1, <2>1
    <3> QED BY <1>10, <1>13, <2>1, <3>1 DEF Decreasing, m
  <2>2. CASE i \in 1..m /\ j - m \in 1..n /\ j = m + (j - m)
    <3>1. u[i] \in Range(s) /\ u[j] \in Range(t)
      BY <1>3, <1>10, <2>2
    <3> QED BY <1>13, <3>1
  <2>3. CASE i - m \in 1..n /\ i = m + (i - m) /\ j - m \in 1..n /\ j = m + (j - m)
    <3>1. u[i] = t[i - m] /\ u[j] = t[j - m] /\ i - m < j - m
      BY <1>1, <1>10, <2>3
    <3> QED BY <1>13, <2>3, <3>1 DEF Decreasing, n
  <2> QED BY <1>10, <2>1, <2>2, <2>3
<1> QED
  BY <1>2, <1>5, <1>8, <1>9, <1>11, <1>12, <1>13 DEF u

(* The ends of a list in order. *)
LEMMA EndFacts ==
  ASSUME NEW s \in Seq(Nat), s # <<>>
  PROVE  /\ Head(s) \in Range(s) /\ LastOf(s) \in Range(s) /\ Tail(s) \in Seq(Nat)
         /\ Increasing(s) =>
              /\ \A x \in Range(s) : x <= LastOf(s)
              /\ Increasing(Tail(s))
              /\ Range(s) = {Head(s)} \cup Range(Tail(s))
              /\ \A x \in Range(Tail(s)) : Head(s) < x
         /\ Decreasing(s) => \A x \in Range(s) : LastOf(s) <= x /\ x <= Head(s)
<1> DEFINE n == Len(s)
           t == Tail(s)
<1>1. /\ n \in Nat \ {0}
      /\ \A i \in 1..n : s[i] \in Nat
      /\ Head(s) = s[1] /\ LastOf(s) = s[n]
      /\ t \in Seq(Nat) /\ Len(t) = n - 1
      /\ \A i \in 1..(n - 1) : t[i] = s[i + 1]
  BY DEF LastOf
<1> HIDE DEF n, t
<1>2. 1 \in 1..n /\ n \in 1..n
  BY <1>1
<1>3. /\ \A x : x \in Range(s) <=> \E i \in 1..n : x = s[i]
      /\ \A x : x \in Range(t) <=> \E i \in 1..(n - 1) : x = t[i]
  BY <1>1, RangeOfList DEF n
<1>4. Head(s) \in Range(s) /\ LastOf(s) \in Range(s)
  BY <1>1, <1>2, <1>3
<1>5. ASSUME Increasing(s)
      PROVE  /\ \A x \in Range(s) : x <= LastOf(s)
             /\ Increasing(t)
             /\ Range(s) = {Head(s)} \cup Range(t)
             /\ \A x \in Range(t) : Head(s) < x
  <2>1. \A i, j \in 1..n : i < j => s[i] < s[j]
    BY <1>5 DEF Increasing, n
  <2>2. \A i \in 1..n : s[i] <= s[n]
    BY <1>1, <1>2, <2>1
  <2>3. \A i \in 1..(n - 1) : i + 1 \in 1..n /\ s[1] < s[i + 1]
    BY <1>1, <1>2, <2>1
  <2>4. Increasing(t)
    BY <1>1, <2>1 DEF Increasing
  <2>5. ASSUME NEW x \in Range(s) PROVE x \in {Head(s)} \cup Range(t)
    <3>1. PICK i \in 1..n : x = s[i]
      BY <1>3
    <3>2. CASE i = 1
      BY <1>1, <3>1, <3>2
    <3>3. CASE i # 1
      <4>1. i - 1 \in 1..(n - 1) /\ (i - 1) + 1 = i
        BY <1>1, <3>3
      <4>2. t[i - 1] = s[i]
        BY <1>1, <4>1
      <4> QED BY <1>3, <3>1, <4>1, <4>2
    <3> QED BY <3>2, <3>3
  <2>6. ASSUME NEW x \in Range(t) PROVE x \in Range(s) /\ Head(s) < x
    <3>1. PICK i \in 1..(n - 1) : x = t[i]
      BY <1>3
    <3>2. x = s[i + 1] /\ i + 1 \in 1..n
      BY <1>1, <2>3, <3>1
    <3> QED BY <1>1, <1>3, <2>3, <3>2
  <2> QED BY <1>1, <1>3, <1>4, <2>2, <2>4, <2>5, <2>6, SMTT(60)
<1>6. ASSUME Decreasing(s), NEW x \in Range(s)
      PROVE  LastOf(s) <= x /\ x <= Head(s)
  <2>1. \A i, j \in 1..n : i < j => s[i] > s[j]
    BY <1>6 DEF Decreasing, n
  <2>2. ASSUME NEW i \in 1..n PROVE s[n] <= s[i] /\ s[i] <= s[1]
    <3>1. s[i] \in Nat /\ s[1] \in Nat /\ s[n] \in Nat
      BY <1>1, <1>2
    <3>2. (i = 1 \/ 1 < i) /\ (i = n \/ i < n)
      BY <1>1
    <3>3. (i = 1 \/ s[1] > s[i]) /\ (i = n \/ s[i] > s[n])
      BY <1>2, <2>1, <3>2
    <3> QED BY <3>1, <3>3
  <2> QED BY <1>1, <1>3, <2>2
<1> QED
  BY <1>1, <1>4, <1>5, <1>6 DEF t

(* A list in order has no more members than it has room for. *)
LEMMA DecreasingIsShort ==
  ASSUME NEW s \in Seq(Nat), Decreasing(s), NEW m \in Nat, Range(s) \subseteq 1..m
  PROVE  Len(s) <= m
<1> DEFINE L == Len(s)
           N == {n \in Nat : n < L => s[L - n] >= n + 1}
<1>1. L \in Nat /\ \A i \in 1..L : s[i] \in Nat
  OBVIOUS
<1>2. \A i \in 1..L : s[i] \in 1..m
  BY RangeOfList
<1>3. 0 \in N
  BY <1>1, <1>2
<1>4. ASSUME NEW n \in Nat, n \in N
      PROVE  n + 1 \in N
  <2> SUFFICES ASSUME n + 1 < L PROVE s[L - (n + 1)] >= (n + 1) + 1
    OBVIOUS
  <2> DEFINE a == L - (n + 1)
             b == L - n
  <2>1. a \in 1..L /\ b \in 1..L /\ a < b /\ n < L
    BY <1>1
  <2>2. s[b] >= n + 1
    BY <1>4, <2>1
  <2>3. s[a] > s[b] /\ s[a] \in Nat /\ s[b] \in Nat
    BY <1>1, <2>1, Zenon DEF Decreasing
  <2> HIDE DEF b
  <2>4. s[a] >= (n + 1) + 1
    BY <2>2, <2>3
  <2> QED BY <2>4
<1>5. Nat \subseteq N
  BY <1>3, <1>4, NumberInduction, Zenon
<1>6. CASE L = 0
  BY <1>6
<1>7. CASE L # 0
  <2>1. L - 1 \in Nat /\ L - 1 < L /\ L - (L - 1) = 1 /\ (L - 1) + 1 = L
    BY <1>1, <1>7
  <2>2. s[L - (L - 1)] >= (L - 1) + 1
    BY <1>5, <2>1
  <2>3. s[1] \in 1..m /\ s[1] >= L
    BY <1>1, <1>2, <1>7, <2>1, <2>2
  <2> QED BY <1>1, <2>3
<1> QED BY <1>6, <1>7
-----------------------------------------------------------------------------
(* The chain only grows. *)
LEMMA LandFacts ==
  ASSUME chain \in Seq(Kinds), Land
  PROVE  /\ chain' \in Seq(Kinds) /\ Len(chain') = Len(chain) + 1
         /\ \A i \in 1..Len(chain) : chain'[i] = chain[i]
         /\ Len(chain) \in Nat /\ Len(chain') <= MaxChain
<1>1. PICK k \in Kinds : chain' = Append(chain, k)
  BY DEF Land
<1>2. Len(chain) < MaxChain /\ MaxChain \in Nat /\ Len(chain) \in Nat
  BY FeedAssumption DEF Land, FeedConstants
<1>3. Len(chain') = Len(chain) + 1
  BY <1>1
<1> QED
  BY <1>1, <1>2, <1>3
-----------------------------------------------------------------------------
(* The history stream.                                                     *)

Stored == received \cup lost

StreamType ==
  /\ chain \in Seq(Kinds)
  /\ task \in [state : {"idle", "collecting", "sending"}, before : Nat,
               todo : Seq(Nat), at : Nat]
  /\ channel \in Seq(1..Len(chain))
  /\ offer \in Nat /\ saved \in 0..Len(chain)
  /\ received \subseteq 1..Len(chain)

(* The consumer's database has no gap below a record it holds, and gets    *)
(* none when the records in the channel arrive in their order.             *)
DatabaseInv ==
  /\ \A r \in received : RecordsUpTo(r) \subseteq Stored
  /\ RecordsUpTo(saved) \subseteq Stored
  /\ \A k \in 1..Len(channel) :
       RecordsUpTo(channel[k]) \subseteq Stored \cup {channel[j] : j \in 1..k}

(* What the task still has to send joins what it has sent: the list has no *)
(* gap, and everything below its first transaction is stored or under way. *)
TaskInv ==
  /\ task.state = "collecting" =>
       /\ RecordsUpTo(task.at) \subseteq Stored
       /\ task.at < task.before
       /\ task.before + Len(task.todo) <= Len(chain) + 1
       /\ \A i \in 1..Len(task.todo) : task.todo[i] = task.before + i - 1
  /\ task.state = "sending" /\ task.todo # <<>> =>
       /\ \A i \in 1..Len(task.todo) : task.todo[i] = task.todo[1] + i - 1
       /\ 1 <= task.todo[1]
       /\ task.todo[1] + Len(task.todo) <= Len(chain) + 1
       /\ RecordsUpTo(task.todo[1] - 1) \subseteq Stored \cup Range(channel)

StreamInv == StreamType /\ DatabaseInv /\ TaskInv

(* The stream starts with nothing read. *)
LEMMA StreamStart == StreamInit => StreamInv
<1> SUFFICES ASSUME StreamInit PROVE StreamInv
  OBVIOUS
<1>1. <<>> \in Seq(Kinds) /\ <<>> \in Seq(1..Len(chain)) /\ <<>> \in Seq(Nat)
      /\ Len(<<>>) = 0
  OBVIOUS
<1>2. StreamType
  BY <1>1 DEF StreamInit, FeedInit, StreamType, NoTask
<1>3. RecordsUpTo(0) = {}
  BY DEF RecordsUpTo
<1>4. DatabaseInv
  BY <1>1, <1>3 DEF StreamInit, DatabaseInv
<1>5. TaskInv
  BY DEF StreamInit, NoTask, TaskInv
<1> QED BY <1>2, <1>4, <1>5 DEF StreamInv

(* A new transaction is behind everything that was read. *)
LEMMA StreamLand == StreamInv /\ StreamTransaction => StreamInv'
<1> SUFFICES ASSUME StreamInv, StreamTransaction PROVE StreamInv'
  OBVIOUS
<1>1. /\ chain' \in Seq(Kinds) /\ Len(chain') = Len(chain) + 1
      /\ \A i \in 1..Len(chain) : chain'[i] = chain[i]
      /\ Len(chain) \in Nat
  BY LandFacts DEF StreamInv, StreamType, StreamTransaction
<1>2. UNCHANGED <<task, channel, offer, received, saved, crashes, lost>>
  BY DEF StreamTransaction, streamVars
<1>3. 1..Len(chain) \subseteq 1..Len(chain')
  BY <1>1
<1>4. StreamType'
  <2>1. channel \in Seq(1..Len(chain'))
    BY <1>3, ListOfMore, Zenon DEF StreamInv, StreamType
  <2>2. saved \in 0..Len(chain')
    BY <1>1 DEF StreamInv, StreamType
  <2> QED BY <1>1, <1>2, <1>3, <2>1, <2>2 DEF StreamInv, StreamType
<1>5. ASSUME NEW n \in 0..Len(chain)
      PROVE  RecordsUpTo(n)' = RecordsUpTo(n)
  <2>1. 1..n \subseteq 1..Len(chain)
    BY <1>1
  <2> QED BY <1>1, <2>1 DEF RecordsUpTo
<1>6. Stored' = Stored
  BY <1>2 DEF Stored
<1>7. DatabaseInv'
  <2>1. \A r \in received : RecordsUpTo(r)' \subseteq Stored
    <3>1. \A r \in received : r \in 0..Len(chain)
      BY <1>1 DEF StreamInv, StreamType
    <3> QED BY <1>5, <3>1 DEF StreamInv, DatabaseInv
  <2>2. RecordsUpTo(saved)' \subseteq Stored
    BY <1>2, <1>5 DEF StreamInv, StreamType, DatabaseInv
  <2>3. ASSUME NEW k \in 1..Len(channel)
        PROVE  RecordsUpTo(channel[k])' \subseteq Stored \cup {channel[j] : j \in 1..k}
    <3>1. channel[k] \in 0..Len(chain)
      BY <1>1 DEF StreamInv, StreamType
    <3>2. RecordsUpTo(channel[k])' = RecordsUpTo(channel[k])
      BY <1>2, <1>5, <3>1
    <3> QED BY <3>2 DEF StreamInv, DatabaseInv
  <2> QED BY <1>2, <1>6, <2>1, <2>2, <2>3 DEF DatabaseInv
<1>8. TaskInv'
  <2> DEFINE todo == task.todo
  <2>0. todo \in Seq(Nat) /\ Len(todo) \in Nat /\ task.at \in Nat /\ task.before \in Nat
    BY DEF StreamInv, StreamType
  <2>1. ASSUME task.state = "collecting"
        PROVE  /\ RecordsUpTo(task.at)' \subseteq Stored
               /\ task.before + Len(todo) <= Len(chain') + 1
    <3>1. /\ RecordsUpTo(task.at) \subseteq Stored
          /\ task.at < task.before
          /\ task.before + Len(todo) <= Len(chain) + 1
      BY <2>1 DEF StreamInv, TaskInv
    <3>2. task.at \in 0..Len(chain)
      BY <1>1, <2>0, <3>1
    <3>3. RecordsUpTo(task.at)' = RecordsUpTo(task.at)
      BY <1>2, <1>5, <3>2
    <3> QED BY <1>1, <2>0, <3>1, <3>3
  <2>2. ASSUME task.state = "sending", todo # <<>>
        PROVE  /\ todo[1] + Len(todo) <= Len(chain') + 1
               /\ RecordsUpTo(todo[1] - 1)' \subseteq Stored \cup Range(channel)
    <3>1. /\ 1 <= todo[1]
          /\ todo[1] + Len(todo) <= Len(chain) + 1
          /\ RecordsUpTo(todo[1] - 1) \subseteq Stored \cup Range(channel)
      BY <2>2 DEF StreamInv, TaskInv
    <3>2. todo[1] \in Nat /\ Len(todo) # 0
      BY <2>0, <2>2
    <3> DEFINE h == todo[1] - 1
    <3>3. h \in 0..Len(chain)
      BY <1>1, <2>0, <3>1, <3>2
    <3>4. RecordsUpTo(h)' = RecordsUpTo(h)
      BY <1>2, <1>5, <3>3
    <3> QED BY <1>1, <2>0, <3>1, <3>2, <3>4
  <2> QED BY <1>2, <1>6, <2>1, <2>2 DEF StreamInv, TaskInv
<1> QED BY <1>4, <1>7, <1>8 DEF StreamInv

(* A task starts from the checkpoint. *)
LEMMA StreamHistoryStep == StreamInv /\ StreamHistory => StreamInv'
<1> SUFFICES ASSUME StreamInv, StreamHistory PROVE StreamInv'
  OBVIOUS
<1>1. /\ UNCHANGED <<chain, channel, received, saved, lost>> /\ offer' = 0
      /\ task' = [state |-> "collecting", before |-> Len(chain) + 1,
                  todo |-> <<>>, at |-> saved]
  BY DEF StreamHistory, Top
<1>2. Len(chain) \in Nat /\ saved \in Nat /\ saved <= Len(chain)
      /\ <<>> \in Seq(Nat) /\ Len(<<>>) = 0
  BY DEF StreamInv, StreamType
<1>3. StreamType'
  BY <1>1, <1>2 DEF StreamInv, StreamType
<1>4. DatabaseInv'
  BY <1>1 DEF StreamInv, DatabaseInv, Stored, RecordsUpTo
<1>5. /\ task'.state = "collecting" /\ task'.at = saved /\ task'.todo = <<>>
      /\ task'.before = Len(chain) + 1
  BY <1>1
<1>6. RecordsUpTo(saved)' = RecordsUpTo(saved) /\ Stored' = Stored
  BY <1>1 DEF RecordsUpTo, Stored
<1>7. TaskInv'
  <2>1. RecordsUpTo(task.at)' = RecordsUpTo(saved)
    BY <1>1, <1>5 DEF RecordsUpTo
  <2> QED BY <1>1, <1>2, <1>5, <1>6, <2>1 DEF TaskInv, StreamInv, DatabaseInv
<1> QED BY <1>3, <1>4, <1>7 DEF StreamInv

(* A page lies next to the ones before it. *)
LEMMA CollectPageStep == StreamInv /\ CollectPage => StreamInv'
<1> SUFFICES ASSUME StreamInv, CollectPage PROVE StreamInv'
  OBVIOUS
<1> DEFINE todo == task.todo
           a    == task.at
           b    == task.before
           sigs == Signatures(a, b, BatchSize)
           k    == Len(sigs)
<1>1. /\ UNCHANGED <<chain, channel, offer, received, saved, lost>>
      /\ task.state = "collecting"
      /\ task' = IF sigs = <<>> THEN [task EXCEPT !.state = "sending"]
                 ELSE [task EXCEPT !.todo = Reversed(sigs) \o todo,
                                   !.before = LastOf(sigs)]
  BY DEF CollectPage
<1>2. /\ RecordsUpTo(a) \subseteq Stored
      /\ a < b /\ b + Len(todo) <= Len(chain) + 1
      /\ \A i \in 1..Len(todo) : todo[i] = b + i - 1
  BY <1>1 DEF StreamInv, TaskInv
<1>3. /\ a \in Nat /\ b \in Nat /\ todo \in Seq(Nat) /\ Len(todo) \in Nat
      /\ Len(chain) \in Nat /\ BatchSize \in Nat /\ BatchSize # 0
      /\ \A i \in 1..Len(todo) : todo[i] \in Nat
      /\ task \in [state : {"idle", "collecting", "sending"}, before : Nat,
                   todo : Seq(Nat), at : Nat]
  BY FeedAssumption DEF StreamInv, StreamType, FeedConstants
<1> HIDE DEF a, b, todo, sigs
<1>4. /\ sigs \in Seq(Nat) /\ k \in Nat /\ k <= BatchSize /\ k <= b - 1 - a
      /\ k = BatchSize \/ k = b - 1 - a
      /\ sigs = <<>> <=> k = 0
      /\ sigs # <<>> => LastOf(sigs) = b - k
      /\ \A i \in 1..k : sigs[i] = b - i
  <2>1. a \in Nat /\ b \in Nat /\ a < b /\ BatchSize \in Nat
    BY <1>2, <1>3
  <2>2. IsPage(sigs, a, b, BatchSize)
    BY <2>1, SignatureFacts DEF sigs
  <2> QED BY <2>2 DEF IsPage
<1> HIDE DEF k
<1>5. k <= b - 1 - a /\ (k = 0 => b - 1 = a)
  BY <1>2, <1>3, <1>4
<1>6. RecordsUpTo(task.at)' = RecordsUpTo(a) /\ Stored' = Stored
  <2>1. task'.at = a
    BY <1>1, <1>3 DEF a
  <2> QED BY <1>1, <2>1 DEF RecordsUpTo, Stored
<1>7. DatabaseInv'
  BY <1>1 DEF StreamInv, DatabaseInv, Stored, RecordsUpTo
<1>8. CASE sigs = <<>>
  <2>1. task' = [task EXCEPT !.state = "sending"]
    BY <1>1, <1>8
  <2>2. task'.state = "sending" /\ task'.todo = todo /\ task'.before = b
    BY <1>3, <2>1 DEF b, todo
  <2>3. StreamType'
    BY <1>1, <1>3, <2>1, SMTT(60) DEF StreamInv, StreamType
  <2>4. ASSUME todo # <<>>
        PROVE  /\ todo[1] = b /\ 1 <= b
               /\ RecordsUpTo(task.todo[1] - 1)' = RecordsUpTo(a)
    <3>1. 1 \in 1..Len(todo)
      BY <1>3, <2>4
    <3>2. todo[1] = b /\ b - 1 = a /\ 1 <= b
      BY <1>2, <1>3, <1>4, <1>5, <1>8, <3>1
    <3>3. chain' = chain /\ task'.todo[1] - 1 = a
      BY <1>1, <2>2, <3>2
    <3> QED BY <3>2, <3>3 DEF RecordsUpTo
  <2>5. TaskInv'
    BY <1>1, <1>2, <1>6, <2>2, <2>4 DEF TaskInv
  <2> QED BY <1>7, <2>3, <2>5 DEF StreamInv
<1>9. CASE sigs # <<>>
  <2> DEFINE r == Reversed(sigs)
             u == r \o todo
  <2>1. task' = [task EXCEPT !.todo = u, !.before = b - k]
    BY <1>1, <1>4, <1>9
  <2>2. /\ r \in Seq(Nat) /\ Len(r) = k
        /\ \A i \in 1..k : r[i] = sigs[k - i + 1]
    BY <1>4, ReversedFacts DEF k
  <2>3. \A i \in 1..k : r[i] = (b - k) + i - 1
    <3>1. ASSUME NEW i \in 1..k PROVE r[i] = (b - k) + i - 1
      <4>1. k - i + 1 \in 1..k
        BY <1>4
      <4>2. r[i] = b - (k - i + 1)
        BY <1>4, <2>2, <4>1, Zenon
      <4> QED BY <1>3, <1>4, <4>2
    <3> QED BY <3>1
  <2> HIDE DEF r
  <2>4. /\ u \in Seq(Nat) /\ Len(u) = k + Len(todo)
        /\ \A i \in 1..(k + Len(todo)) : u[i] = IF i <= k THEN r[i] ELSE todo[i - k]
    BY <1>3, <2>2
  <2>5. ASSUME NEW i \in 1..(k + Len(todo)) PROVE u[i] = (b - k) + i - 1
    <3>1. CASE i <= k
      BY <1>4, <2>3, <2>4, <3>1
    <3>2. CASE ~(i <= k)
      <4>1. i - k \in 1..Len(todo)
        BY <1>3, <1>4, <3>2
      <4>2. u[i] = todo[i - k] /\ todo[i - k] = b + (i - k) - 1
        BY <1>2, <2>4, <3>2, <4>1
      <4> QED BY <1>3, <1>4, <4>2
    <3> QED BY <3>1, <3>2, Zenon
  <2> HIDE DEF u
  <2>6. /\ task'.state = "collecting" /\ task'.todo = u /\ task'.before = b - k
        /\ task'.at = a
    BY <1>1, <1>3, <2>1, Zenon DEF a
  <2>7. b - k \in Nat /\ a < b - k
    BY <1>3, <1>4, <1>5
  <2>8. StreamType'
    BY <1>1, <1>3, <2>1, <2>4, <2>7, Zenon DEF StreamInv, StreamType
  <2>9. (b - k) + Len(u) <= Len(chain) + 1
    BY <1>2, <1>3, <1>4, <2>4
  <2>10. TaskInv'
    BY <1>1, <1>2, <1>6, <2>4, <2>5, <2>6, <2>7, <2>9, Zenon DEF TaskInv
  <2> QED BY <1>7, <2>8, <2>10 DEF StreamInv
<1> QED BY <1>8, <1>9

(* The transactions of a page are handed on in order. *)
LEMMA ProcessStep == StreamInv /\ ProcessTransaction => StreamInv'
<1> SUFFICES ASSUME StreamInv, ProcessTransaction PROVE StreamInv'
  OBVIOUS
<1> DEFINE todo == task.todo
           h    == todo[1]
           n    == Len(todo)
           rest == Tail(todo)
<1>1. /\ UNCHANGED <<chain, received, saved, lost>>
      /\ task.state = "sending" /\ todo # <<>>
      /\ IF chain[h] \in Recorded
         THEN channel' = Append(channel, h) /\ offer' \in {h, offer}
         ELSE UNCHANGED <<channel, offer>>
      /\ task' = [task EXCEPT !.todo = rest, !.at = h]
  <2>1. task.todo # <<>>
    BY DEF ProcessTransaction
  <2>2. Head(task.todo) = h
    BY <2>1 DEF StreamInv, StreamType
  <2> QED BY <2>1, <2>2 DEF ProcessTransaction
<1>2. /\ task \in [state : {"idle", "collecting", "sending"}, before : Nat,
                   todo : Seq(Nat), at : Nat]
      /\ todo \in Seq(Nat) /\ Len(chain) \in Nat
      /\ channel \in Seq(1..Len(chain)) /\ offer \in Nat
  BY DEF StreamInv, StreamType
<1>3. /\ n \in Nat /\ n # 0 /\ h \in Nat
      /\ rest \in Seq(Nat) /\ Len(rest) = n - 1
      /\ \A i \in 1..(n - 1) : rest[i] = todo[i + 1]
      /\ rest # <<>> => n - 1 # 0
  BY <1>1, <1>2, TailFacts
<1>4. /\ \A i \in 1..n : todo[i] = h + i - 1
      /\ 1 <= h /\ h + n <= Len(chain) + 1
      /\ RecordsUpTo(h - 1) \subseteq Stored \cup Range(channel)
  BY <1>1 DEF StreamInv, TaskInv
<1>5. /\ task'.state = "sending" /\ task'.todo = rest
  BY <1>1, <1>2
<1> HIDE DEF todo, h, n, rest
<1>6. h \in 1..Len(chain)
  BY <1>2, <1>3, <1>4
<1>7. channel' \in Seq(1..Len(chain)) /\ offer' \in Nat
  <2> DEFINE S == 1..Len(chain)
  <2>1. channel \in Seq(S) /\ h \in S
    BY <1>2, <1>6
  <2> HIDE DEF S
  <2>2. Append(channel, h) \in Seq(S)
    BY <2>1
  <2>3. channel' = channel \/ channel' = Append(channel, h)
    BY <1>1
  <2>4. offer' = h \/ offer' = offer
    BY <1>1
  <2> QED BY <1>2, <1>3, <2>1, <2>2, <2>3, <2>4, Zenon DEF S
<1>8. StreamType'
  BY <1>1, <1>2, <1>3, <1>7, Zenon DEF StreamInv, StreamType
<1>9. /\ Stored' = Stored
      /\ \A m : {i \in 1..m : chain'[i] \in Recorded} = RecordsUpTo(m)
  BY <1>1 DEF Stored, RecordsUpTo
<1>10. ASSUME NEW i \in RecordsUpTo(h)
       PROVE  i \in RecordsUpTo(h - 1) \/ (i = h /\ chain[h] \in Recorded)
  BY <1>3, <1>4 DEF RecordsUpTo
<1>11. RecordsUpTo(h) \subseteq Stored \cup Range(channel')
  <2>1. CASE chain[h] \in Recorded
    <3>1. channel' = Append(channel, h)
      BY <1>1, <2>1
    <3>2. Range(channel') = Range(channel) \cup {h}
      <4> DEFINE S == 1..Len(chain)
      <4>1. channel \in Seq(S) /\ h \in S
        BY <1>2, <1>6
      <4> HIDE DEF S
      <4> QED BY <3>1, <4>1, RangeOfAppend
    <3> QED BY <1>4, <1>10, <3>2
  <2>2. CASE chain[h] \notin Recorded
    BY <1>1, <1>4, <1>10, <2>2
  <2> QED BY <2>1, <2>2
<1>12. DatabaseInv'
  <2>1. CASE channel' = channel
    BY <1>1, <2>1 DEF StreamInv, DatabaseInv, Stored, RecordsUpTo
  <2>2. CASE channel' = Append(channel, h)
    <3> DEFINE c == Len(channel)
    <3>1. /\ c \in Nat /\ Len(channel') = c + 1 /\ channel'[c + 1] = h
          /\ \A i \in 1..c : channel'[i] = channel[i]
      BY <1>2, <2>2
    <3>2. ASSUME NEW k \in 1..(c + 1)
          PROVE  RecordsUpTo(channel'[k]) \subseteq
                   Stored \cup {channel'[j] : j \in 1..k}
      <4>1. CASE k = c + 1
        <5>1. Range(channel') = {channel'[j] : j \in 1..(c + 1)}
          BY <1>7, <3>1, RangeOfList
        <5> QED BY <1>11, <3>1, <4>1, <5>1
      <4>2. CASE k # c + 1
        <5>1. k \in 1..c /\ 1..k \subseteq 1..c
          BY <3>1, <4>2
        <5>2. RecordsUpTo(channel[k]) \subseteq Stored \cup {channel[j] : j \in 1..k}
          BY <5>1 DEF StreamInv, DatabaseInv
        <5>3. {channel'[j] : j \in 1..k} = {channel[j] : j \in 1..k}
          BY <3>1, <5>1
        <5> QED BY <3>1, <5>1, <5>2, <5>3
      <4> QED BY <4>1, <4>2
    <3>3. \A k \in 1..Len(channel') :
            RecordsUpTo(channel[k])' \subseteq Stored' \cup {channel'[j] : j \in 1..k}
      BY <1>9, <3>1, <3>2 DEF RecordsUpTo
    <3>4. /\ \A r \in received' : RecordsUpTo(r)' \subseteq Stored'
          /\ RecordsUpTo(saved)' \subseteq Stored'
      BY <1>1 DEF StreamInv, DatabaseInv, Stored, RecordsUpTo
    <3> QED BY <3>3, <3>4 DEF DatabaseInv
  <2> QED BY <1>1, <2>1, <2>2
<1>13. TaskInv'
  <2> SUFFICES ASSUME rest # <<>>
               PROVE  /\ \A i \in 1..Len(rest) : rest[i] = rest[1] + i - 1
                      /\ 1 <= rest[1] /\ rest[1] + Len(rest) <= Len(chain) + 1
                      /\ RecordsUpTo(task.todo[1] - 1)' \subseteq
                           Stored \cup Range(channel')
    BY <1>1, <1>5, <1>9 DEF TaskInv
  <2>1. n - 1 # 0 /\ 1 \in 1..(n - 1)
    BY <1>3
  <2>2. \A i \in 1..(n - 1) : i + 1 \in 1..n /\ rest[i] = h + (i + 1) - 1
    BY <1>3, <1>4
  <2>3. rest[1] = h + 1
    BY <1>3, <2>1, <2>2
  <2>4. RecordsUpTo(task.todo[1] - 1)' = RecordsUpTo(h)
    <3>1. task'.todo[1] - 1 = h
      BY <1>3, <1>5, <2>3
    <3> QED BY <1>1, <3>1 DEF RecordsUpTo
  <2>5. \A i \in 1..(n - 1) : rest[i] = rest[1] + i - 1
    BY <1>3, <2>2, <2>3
  <2>6. 1 <= rest[1] /\ rest[1] + (n - 1) <= Len(chain) + 1
    BY <1>2, <1>3, <1>4, <2>3
  <2> QED BY <1>3, <1>11, <2>4, <2>5, <2>6
<1> QED BY <1>8, <1>12, <1>13 DEF StreamInv

(* A transaction that can not be read is passed over, and counted as lost. *)
LEMMA ErrorStep == StreamInv /\ TransactionError => StreamInv'
<1> SUFFICES ASSUME StreamInv, TransactionError PROVE StreamInv'
  OBVIOUS
<1> DEFINE todo == task.todo
           h    == todo[1]
           n    == Len(todo)
           rest == Tail(todo)
<1>1. /\ UNCHANGED <<chain, channel, offer, received, saved>>
      /\ task.state = "sending" /\ todo # <<>>
      /\ lost' = lost \cup {h}
      /\ task' = [task EXCEPT !.todo = rest]
  <2>1. task.todo # <<>>
    BY DEF TransactionError
  <2>2. Head(task.todo) = h
    BY <2>1 DEF StreamInv, StreamType
  <2> QED BY <2>1, <2>2 DEF TransactionError
<1>2. /\ task \in [state : {"idle", "collecting", "sending"}, before : Nat,
                   todo : Seq(Nat), at : Nat]
      /\ todo \in Seq(Nat) /\ Len(chain) \in Nat
  BY DEF StreamInv, StreamType
<1>3. /\ n \in Nat /\ n # 0 /\ h \in Nat
      /\ rest \in Seq(Nat) /\ Len(rest) = n - 1
      /\ \A i \in 1..(n - 1) : rest[i] = todo[i + 1]
      /\ rest # <<>> => n - 1 # 0
  BY <1>1, <1>2, TailFacts
<1>4. /\ \A i \in 1..n : todo[i] = h + i - 1
      /\ 1 <= h /\ h + n <= Len(chain) + 1
      /\ RecordsUpTo(h - 1) \subseteq Stored \cup Range(channel)
  BY <1>1 DEF StreamInv, TaskInv
<1>5. task'.state = "sending" /\ task'.todo = rest
  BY <1>1, <1>2
<1> HIDE DEF todo, h, n, rest
<1>6. StreamType'
  BY <1>1, <1>2, <1>3, Zenon DEF StreamInv, StreamType
<1>7. Stored' = Stored \cup {h}
  BY <1>1 DEF Stored
<1>8. DatabaseInv'
  BY <1>1, <1>7 DEF StreamInv, DatabaseInv, RecordsUpTo
<1>9. RecordsUpTo(h) \subseteq Stored' \cup Range(channel)
  <2>1. ASSUME NEW i \in RecordsUpTo(h)
        PROVE  i \in RecordsUpTo(h - 1) \/ i = h
    BY <1>3, <1>4 DEF RecordsUpTo
  <2> QED BY <1>4, <1>7, <2>1
<1>10. TaskInv'
  <2> SUFFICES ASSUME rest # <<>>
               PROVE  /\ \A i \in 1..Len(rest) : rest[i] = rest[1] + i - 1
                      /\ 1 <= rest[1] /\ rest[1] + Len(rest) <= Len(chain) + 1
                      /\ RecordsUpTo(task.todo[1] - 1)' \subseteq
                           Stored' \cup Range(channel)
    BY <1>1, <1>5 DEF TaskInv
  <2>1. n - 1 # 0 /\ 1 \in 1..(n - 1)
    BY <1>3
  <2>2. \A i \in 1..(n - 1) : i + 1 \in 1..n /\ rest[i] = h + (i + 1) - 1
    BY <1>3, <1>4
  <2>3. rest[1] = h + 1
    BY <1>3, <2>1, <2>2
  <2>4. RecordsUpTo(task.todo[1] - 1)' = RecordsUpTo(h)
    <3>1. task'.todo[1] - 1 = h
      BY <1>3, <1>5, <2>3
    <3> QED BY <1>1, <3>1 DEF RecordsUpTo
  <2>5. \A i \in 1..(n - 1) : rest[i] = rest[1] + i - 1
    BY <1>3, <2>2, <2>3
  <2>6. 1 <= rest[1] /\ rest[1] + (n - 1) <= Len(chain) + 1
    BY <1>2, <1>3, <1>4, <2>3
  <2> QED BY <1>3, <1>9, <2>4, <2>5, <2>6
<1> QED BY <1>6, <1>8, <1>10 DEF StreamInv

(* The consumer takes what was handed on, in order. *)
LEMMA ReceiveStep == StreamInv /\ Receive => StreamInv'
<1> SUFFICES ASSUME StreamInv, Receive PROVE StreamInv'
  OBVIOUS
<1> DEFINE n == Len(channel)
           h == channel[1]
<1>1. /\ UNCHANGED <<chain, task, offer, saved, lost>> /\ channel # <<>>
      /\ channel' = Tail(channel) /\ channel \in Seq(1..Len(chain))
  BY DEF Receive, StreamInv, StreamType
<1>2. /\ n \in Nat /\ n # 0 /\ h \in 1..Len(chain) /\ Head(channel) = h
      /\ channel' \in Seq(1..Len(chain)) /\ Len(channel') = n - 1
      /\ \A i \in 1..(n - 1) : channel'[i] = channel[i + 1]
  BY <1>1
<1>3. received' = received \cup {h}
  BY <1>2 DEF Receive
<1>4. Stored' = Stored \cup {h}
  BY <1>1, <1>3 DEF Stored
<1>5. StreamType'
  BY <1>1, <1>2, <1>3, Zenon DEF StreamInv, StreamType
<1>6. \A k \in 1..n :
        RecordsUpTo(channel[k]) \subseteq Stored \cup {channel[j] : j \in 1..k}
  BY DEF StreamInv, DatabaseInv
<1> HIDE DEF n, h
<1>7. RecordsUpTo(h) \subseteq Stored \cup {h}
  <2>1. 1 \in 1..n /\ 1..1 = {1}
    BY <1>2
  <2> QED BY <1>6, <2>1 DEF h
<1>8. ASSUME NEW k \in 1..(n - 1)
      PROVE  RecordsUpTo(channel'[k]) \subseteq
               Stored \cup {h} \cup {channel'[j] : j \in 1..k}
  <2>1. k + 1 \in 1..n /\ channel'[k] = channel[k + 1]
    BY <1>2
  <2>2. ASSUME NEW j \in 1..(k + 1)
        PROVE  channel[j] \in {h} \cup {channel'[i] : i \in 1..k}
    <3>1. CASE j = 1
      BY <3>1 DEF h
    <3>2. CASE j # 1
      <4>1. j - 1 \in 1..k /\ j - 1 \in 1..(n - 1) /\ (j - 1) + 1 = j
        BY <1>2, <3>2
      <4>2. channel'[j - 1] = channel[j]
        BY <1>2, <4>1
      <4> QED BY <4>1, <4>2
    <3> QED BY <3>1, <3>2
  <2>3. RecordsUpTo(channel[k + 1]) \subseteq
          Stored \cup {channel[j] : j \in 1..(k + 1)}
    BY <1>6, <2>1
  <2> QED BY <2>1, <2>2, <2>3
<1>9. DatabaseInv'
  <2>1. \A r \in received : RecordsUpTo(r) \subseteq Stored
    BY DEF StreamInv, DatabaseInv
  <2>2. RecordsUpTo(saved) \subseteq Stored
    BY DEF StreamInv, DatabaseInv
  <2>3. \A m : {i \in 1..m : chain'[i] \in Recorded} = RecordsUpTo(m)
    BY <1>1 DEF RecordsUpTo
  <2>4. \A r \in received' : RecordsUpTo(r)' \subseteq Stored'
    BY <1>3, <1>4, <1>7, <2>1, <2>3 DEF RecordsUpTo
  <2>5. RecordsUpTo(saved)' \subseteq Stored'
    BY <1>1, <1>4, <2>2 DEF RecordsUpTo
  <2>6. \A k \in 1..Len(channel') :
          RecordsUpTo(channel[k])' \subseteq Stored' \cup {channel'[j] : j \in 1..k}
    BY <1>2, <1>4, <1>8, <2>3 DEF RecordsUpTo
  <2> QED BY <2>4, <2>5, <2>6 DEF DatabaseInv
<1>10. Range(channel) \subseteq {h} \cup Range(channel')
  <2>1. /\ \A x : x \in Range(channel) <=> \E i \in 1..n : x = channel[i]
        /\ \A x : x \in Range(channel') <=> \E i \in 1..(n - 1) : x = channel'[i]
    <3> DEFINE S == 1..Len(chain)
    <3>1. channel \in Seq(S) /\ channel' \in Seq(S)
      BY <1>1, <1>2
    <3> HIDE DEF S
    <3>2. /\ \A x : x \in Range(channel) <=> \E i \in 1..Len(channel) : x = channel[i]
          /\ \A x : x \in Range(channel') <=> \E i \in 1..Len(channel') : x = channel'[i]
      BY <3>1, RangeOfList
    <3> QED BY <1>2, <3>2 DEF n
  <2>2. ASSUME NEW j \in 1..n PROVE channel[j] \in {h} \cup Range(channel')
    <3>1. CASE j = 1
      BY <3>1 DEF h
    <3>2. CASE j # 1
      <4>1. j - 1 \in 1..(n - 1) /\ (j - 1) + 1 = j
        BY <1>2, <3>2
      <4>2. channel'[j - 1] = channel[j]
        BY <1>2, <4>1
      <4> QED BY <2>1, <4>1, <4>2
    <3> QED BY <3>1, <3>2
  <2> QED BY <2>1, <2>2
<1>11. TaskInv'
  BY <1>1, <1>4, <1>10 DEF StreamInv, TaskInv, RecordsUpTo
<1> QED BY <1>5, <1>9, <1>11 DEF StreamInv

(* The checkpoint is set to a transaction the consumer has received. *)
LEMMA SaveStep == StreamInv /\ SaveCheckpoint => StreamInv'
<1> SUFFICES ASSUME StreamInv, SaveCheckpoint PROVE StreamInv'
  OBVIOUS
<1>1. /\ UNCHANGED <<chain, task, channel, received, lost>>
      /\ offer \in received /\ saved' = offer /\ offer' = 0
  BY DEF SaveCheckpoint
<1>2. StreamType'
  BY <1>1 DEF StreamInv, StreamType
<1>3. DatabaseInv'
  BY <1>1 DEF StreamInv, DatabaseInv, Stored, RecordsUpTo
<1>4. TaskInv'
  BY <1>1 DEF StreamInv, TaskInv, Stored, RecordsUpTo
<1> QED BY <1>2, <1>3, <1>4 DEF StreamInv

(* A task that ends leaves the checkpoint where it was. *)
LEMMA EndOfTaskStep == StreamInv /\ (Finish \/ ConsumerDies) => StreamInv'
<1> SUFFICES ASSUME StreamInv, Finish \/ ConsumerDies PROVE StreamInv'
  OBVIOUS
<1>1. /\ UNCHANGED <<chain, received, saved, lost>>
      /\ task' = NoTask /\ offer' \in {0, offer}
      /\ channel' = channel \/ channel' = <<>>
  BY DEF Finish, ConsumerDies
<1>2. <<>> \in Seq(1..Len(chain)) /\ <<>> \in Seq(Nat) /\ Len(<<>>) = 0
  OBVIOUS
<1>3. StreamType'
  <2>1. task' \in [state : {"idle", "collecting", "sending"}, before : Nat,
                   todo : Seq(Nat), at : Nat]
    BY <1>1, <1>2 DEF NoTask
  <2>2. channel' \in Seq(1..Len(chain))
    BY <1>1, <1>2, Zenon DEF StreamInv, StreamType
  <2>3. offer' \in Nat
    BY <1>1 DEF StreamInv, StreamType
  <2> QED BY <1>1, <2>1, <2>2, <2>3 DEF StreamInv, StreamType
<1>4. DatabaseInv'
  BY <1>1, <1>2 DEF StreamInv, DatabaseInv, Stored, RecordsUpTo
<1>5. TaskInv'
  BY <1>1 DEF TaskInv, NoTask
<1> QED BY <1>3, <1>4, <1>5 DEF StreamInv

(* Whenever the consumer of stream_history dies, and however many          *)
(* transactions, pages, errors and deaths there were, the database holds   *)
(* every record up to the checkpoint that was saved, except for those the  *)
(* node did not return.                                                    *)
THEOREM CheckpointsAreSafe == StreamSpec => []NothingBeforeCheckpointMissing
<1>1. StreamInv /\ [StreamNext]_<<chain, streamVars>> => StreamInv'
  <2> SUFFICES ASSUME StreamInv, [StreamNext]_<<chain, streamVars>>
               PROVE  StreamInv'
    OBVIOUS
  <2>1. CASE UNCHANGED <<chain, streamVars>>
    <3>1. UNCHANGED <<chain, task, channel, offer, received, saved, lost>>
      BY <2>1 DEF streamVars
    <3>2. StreamType'
      BY <3>1 DEF StreamInv, StreamType
    <3>3. DatabaseInv'
      BY <3>1 DEF StreamInv, DatabaseInv, Stored, RecordsUpTo
    <3>4. TaskInv'
      BY <3>1 DEF StreamInv, TaskInv, Stored, RecordsUpTo
    <3> QED BY <3>2, <3>3, <3>4 DEF StreamInv
  <2> QED
    BY <2>1, StreamLand, StreamHistoryStep, CollectPageStep, ProcessStep,
       ErrorStep, EndOfTaskStep, ReceiveStep, SaveStep DEF StreamNext
<1>2. StreamInv => NothingBeforeCheckpointMissing
  BY DEF StreamInv, DatabaseInv, NothingBeforeCheckpointMissing, Stored
<1> QED
  BY <1>1, <1>2, StreamStart, PTL DEF StreamSpec
-----------------------------------------------------------------------------
(* The claim history.                                                      *)

ScanType ==
  /\ chain \in Seq(Kinds)
  /\ scan \in [state : {"idle", "paging"}, client : {"none", "rust", "js"},
               start : Nat, before : Nat]
  /\ claims \in Seq(Nat)
  /\ scan.start <= Len(chain)

(* Only a page that was full lets the call go on, and such a page had no   *)
(* unreadable transaction: so the next one begins below the last claim.    *)
CursorInv ==
  scan.state = "paging" =>
    /\ unreadable = {}
    /\ claims = <<>> => scan.before = scan.start + 1
    /\ claims # <<>> => scan.before = LastOf(claims)

ClaimInv == ScanType /\ NewestClaims /\ CursorInv

(* No claim is read at first. *)
LEMMA ClaimStart == ClaimInit => ClaimInv
<1> SUFFICES ASSUME ClaimInit PROVE ClaimInv
  OBVIOUS
<1>1. <<>> \in Seq(Kinds) /\ <<>> \in Seq(Nat) /\ Len(<<>>) = 0
  OBVIOUS
<1>2. ScanType
  BY <1>1 DEF ClaimInit, FeedInit, ScanType
<1>3. NewestClaims
  BY <1>1 DEF ClaimInit, NewestClaims, Decreasing
<1>4. CursorInv
  BY DEF ClaimInit, CursorInv
<1> QED BY <1>2, <1>3, <1>4 DEF ClaimInv

(* A new transaction is behind the ones a scan goes through. *)
LEMMA ClaimLand == ClaimInv /\ ClaimTransaction => ClaimInv'
<1> SUFFICES ASSUME ClaimInv, ClaimTransaction PROVE ClaimInv'
  OBVIOUS
<1>1. /\ chain' \in Seq(Kinds) /\ Len(chain') = Len(chain) + 1
      /\ \A i \in 1..Len(chain) : chain'[i] = chain[i]
      /\ Len(chain) \in Nat
  BY LandFacts DEF ClaimInv, ScanType, ClaimTransaction
<1>2. UNCHANGED <<scan, claims, unreadable>>
  BY DEF ClaimTransaction, claimVars
<1> DEFINE n == scan.start
<1>3. n \in Nat /\ n <= Len(chain)
  BY DEF ClaimInv, ScanType
<1> HIDE DEF n
<1>4. n <= Len(chain') /\ 1..n \subseteq 1..Len(chain)
  BY <1>1, <1>3
<1>5. Claims' = Claims
  BY <1>1, <1>2, <1>4 DEF Claims, n
<1>6. ScanType'
  BY <1>1, <1>2, <1>4 DEF ClaimInv, ScanType, n
<1>7. NewestClaims'
  BY <1>2, <1>5 DEF ClaimInv, NewestClaims
<1>8. CursorInv'
  BY <1>2 DEF ClaimInv, CursorInv
<1> QED BY <1>6, <1>7, <1>8 DEF ClaimInv

(* A scan begins at the newest transaction. *)
LEMMA ClaimCall == ClaimInv /\ GetAllClaimHistory => ClaimInv'
<1> SUFFICES ASSUME ClaimInv, GetAllClaimHistory PROVE ClaimInv'
  OBVIOUS
<1>1. PICK c \in ClaimClients :
        scan' = [state |-> "paging", client |-> c, start |-> Len(chain),
                 before |-> Len(chain) + 1]
  BY DEF GetAllClaimHistory, Top
<1>2. /\ claims' = <<>> /\ unreadable' = {} /\ chain' = chain
      /\ chain \in Seq(Kinds) /\ Len(chain) \in Nat
      /\ <<>> \in Seq(Nat) /\ Len(<<>>) = 0
  BY DEF GetAllClaimHistory, ClaimInv, ScanType
<1>3. c \in {"none", "rust", "js"}
  BY ClaimHistoryAssumption DEF ClaimHistoryConstants
<1>4. ScanType'
  BY <1>1, <1>2, <1>3 DEF ScanType
<1>5. NewestClaims'
  BY <1>2 DEF NewestClaims, Decreasing
<1>6. CursorInv'
  BY <1>1, <1>2 DEF CursorInv
<1> QED BY <1>4, <1>5, <1>6 DEF ClaimInv

(* A page of a scan lies next to the ones before it, and claims in it are  *)
(* kept.                                                                   *)
LEMMA ClaimPage ==
  ASSUME ClaimInv, scan.state = "paging", NEW bad \in Failing,
         Turn(GetClaimHistory(bad)), unreadable' = unreadable \cup bad,
         UNCHANGED chain
  PROVE  ClaimInv'
<1> DEFINE n     == scan.start
           b     == scan.before
           sigs  == Signatures(0, b, BatchSize)
           k     == Len(sigs)
           found == GetClaimHistory(bad)
<1>1. /\ claims' = claims \o found /\ chain' = chain
      /\ scan' = IF Len(found) < BatchSize
                 THEN [scan EXCEPT !.state = "idle"]
                 ELSE [scan EXCEPT !.before = LastOf(found)]
  BY DEF Turn
<1>2. /\ n \in Nat /\ b \in Nat /\ n <= Len(chain) /\ claims \in Seq(Nat)
      /\ chain \in Seq(Kinds) /\ Len(chain) \in Nat
      /\ BatchSize \in Nat /\ BatchSize # 0
      /\ scan \in [state : {"idle", "paging"}, client : {"none", "rust", "js"},
                   start : Nat, before : Nat]
  BY FeedAssumption DEF ClaimInv, ScanType, FeedConstants
<1>3. /\ unreadable = {}
      /\ claims = <<>> => b = n + 1
      /\ claims # <<>> => b = LastOf(claims)
  BY DEF ClaimInv, CursorInv
<1>4. /\ Decreasing(claims)
      /\ claims # <<>> => Range(claims) = {i \in Claims : i >= b}
  BY <1>3 DEF ClaimInv, NewestClaims
<1>5. found = Kept(sigs, OfKind({"claim"}) \ bad) /\ bad \subseteq Range(sigs)
  BY DEF GetClaimHistory, Failing
<1>6. Claims = {i \in 1..n : i \in OfKind({"claim"})}
  BY <1>2 DEF Claims, OfKind
<1> HIDE DEF n, b, sigs, found
<1>7. b # 0 /\ b <= n + 1
  <2>1. CASE claims = <<>>
    BY <1>2, <1>3, <2>1
  <2>2. CASE claims # <<>>
    <3>1. b \in Range(claims)
      BY <1>2, <1>3, <2>2, EndFacts
    <3>2. b \in 1..n
      BY <1>4, <1>6, <2>2, <3>1
    <3> QED BY <1>2, <3>2
  <2> QED BY <2>1, <2>2
<1>8. IsPage(sigs, 0, b, BatchSize)
  <2>1. 0 < b
    BY <1>2, <1>7
  <2> QED BY <1>2, <2>1, SignatureFacts DEF sigs
<1>9. /\ sigs \in Seq(Nat) /\ Decreasing(sigs) /\ k \in Nat /\ k <= BatchSize
      /\ k <= b - 1 /\ Range(sigs) = (b - k)..(b - 1)
  BY <1>2, <1>8 DEF IsPage
<1>10. /\ found \in Seq(Nat) /\ Decreasing(found)
       /\ Range(found) = Range(sigs) \cap (OfKind({"claim"}) \ bad)
       /\ Len(found) <= k /\ (Len(found) = k => found = sigs)
       /\ Len(found) \in Nat
  <2> DEFINE W == OfKind({"claim"}) \ bad
  <2>1. found = Kept(sigs, W) /\ sigs \in Seq(Nat) /\ Decreasing(sigs)
    BY <1>5, <1>9
  <2> HIDE DEF W
  <2>2. /\ found \in Seq(Nat) /\ Decreasing(found)
        /\ Range(found) = Range(sigs) \cap W
        /\ Len(found) <= Len(sigs) /\ (Len(found) = Len(sigs) => found = sigs)
    BY <2>1, KeptFacts, Zenon
  <2> QED BY <2>2 DEF W
<1> HIDE DEF k
<1>11. /\ claims' \in Seq(Nat) /\ Range(claims') = Range(claims) \cup Range(found)
       /\ found # <<>> => LastOf(claims') = LastOf(found)
       /\ found = <<>> => claims' = claims
  BY <1>1, <1>2, <1>10, JoinFacts
<1>12. \A x \in Range(sigs) : x \in Nat /\ x < b /\ b - k <= x /\ x \in 1..n
  BY <1>2, <1>7, <1>9
<1>13. Range(found) \subseteq Range(sigs)
  BY <1>10
<1>14. \A x \in Range(claims) : x \in Nat /\ b <= x
  <2>1. CASE claims = <<>>
    BY <1>2, <2>1, RangeOfList, Zenon
  <2>2. CASE claims # <<>>
    BY <1>4, <1>6, <2>2
  <2> QED BY <2>1, <2>2
<1>15. Decreasing(claims')
  <2>1. \A x \in Range(claims), y \in Range(found) : x > y
    BY <1>2, <1>12, <1>13, <1>14
  <2> QED BY <1>1, <1>2, <1>4, <1>10, <2>1, JoinFacts
<1>16. Claims' = Claims
  <2>1. scan'.start = n
    BY <1>1, <1>2 DEF n
  <2> QED BY <1>1, <2>1 DEF Claims, n
<1>17. bad \subseteq Range(sigs) /\ unreadable' = bad
  BY <1>3, <1>5
<1>18. ASSUME claims' # <<>>
       PROVE  Range(claims') = {i \in Claims : i >= LastOf(claims')} \ bad
  <2>1. CASE found = <<>>
    <3>1. claims' = claims /\ LastOf(claims') = b
      BY <1>3, <1>11, <1>18, <2>1
    <3>2. \A x \in bad : ~(x >= b)
      BY <1>2, <1>12, <1>17
    <3> QED BY <1>4, <1>18, <3>1, <3>2
  <2>2. CASE found # <<>>
    <3> DEFINE l == LastOf(found)
    <3>1. l \in Range(found) /\ \A x \in Range(found) : l <= x
      BY <1>10, <2>2, EndFacts
    <3>2. l \in Nat /\ l < b /\ b - k <= l
      BY <1>12, <1>13, <3>1
    <3>3. LastOf(claims') = l
      BY <1>11, <2>2
    <3> HIDE DEF l
    <3>4. ASSUME NEW x \in Range(claims')
          PROVE  x \in Claims /\ x >= l /\ x \notin bad
      <4>1. CASE x \in Range(claims)
        <5>1. claims # <<>>
          BY <1>2, <4>1, RangeOfList
        <5>2. x \in Claims /\ x \in Nat /\ b <= x
          BY <1>4, <1>14, <4>1, <5>1
        <5> QED BY <1>2, <1>12, <1>17, <3>2, <5>2
      <4>2. CASE x \in Range(found)
        BY <1>6, <1>10, <1>12, <3>1, <3>2, <4>2
      <4> QED BY <1>11, <4>1, <4>2
    <3>5. ASSUME NEW x \in Claims, x >= l, x \notin bad
          PROVE  x \in Range(claims')
      <4>1. x \in 1..n /\ x \in OfKind({"claim"})
        BY <1>6
      <4>2. CASE x < b
        <5>1. x \in (b - k)..(b - 1)
          BY <1>2, <1>9, <3>2, <3>5, <4>1, <4>2
        <5> QED BY <1>9, <1>10, <1>11, <3>5, <4>1, <5>1
      <4>3. CASE ~(x < b)
        <5>1. x >= b /\ x # n + 1 /\ x <= n
          BY <1>2, <4>1, <4>3
        <5>2. claims # <<>>
          BY <1>2, <1>3, <5>1, <4>1
        <5> QED BY <1>4, <1>11, <5>1, <5>2
      <4> QED BY <4>2, <4>3
    <3> QED BY <3>3, <3>4, <3>5
  <2> QED BY <2>1, <2>2
<1>19. NewestClaims'
  BY <1>15, <1>16, <1>17, <1>18 DEF NewestClaims
<1>20. CASE Len(found) < BatchSize
  <2>1. scan' = [scan EXCEPT !.state = "idle"]
    BY <1>1, <1>20
  <2>2. ScanType'
    BY <1>1, <1>2, <1>11, <2>1, Zenon DEF ScanType, n
  <2>3. CursorInv'
    BY <1>2, <2>1 DEF CursorInv
  <2> QED BY <1>19, <2>2, <2>3 DEF ClaimInv
<1>21. CASE ~(Len(found) < BatchSize)
  <2>1. scan' = [scan EXCEPT !.before = LastOf(found)]
    BY <1>1, <1>21
  <2>2. Len(found) = k /\ found # <<>>
    BY <1>2, <1>9, <1>10, <1>21
  <2>3. found = sigs
    BY <1>10, <2>2
  <2>4. bad = {}
    BY <1>10, <1>17, <2>3
  <2>5. LastOf(found) \in Nat
    <3>1. LastOf(found) \in Range(found)
      BY <1>10, <2>2, EndFacts
    <3> QED BY <1>12, <1>13, <3>1
  <2>6. ScanType'
    BY <1>1, <1>2, <1>11, <2>1, <2>5, Zenon DEF ScanType, n
  <2>7. claims' # <<>> /\ LastOf(claims') = LastOf(found)
    BY <1>1, <1>2, <1>10, <2>2, JoinFacts
  <2>8. CursorInv'
    BY <1>2, <1>17, <2>1, <2>4, <2>7 DEF CursorInv
  <2> QED BY <1>19, <2>6, <2>8 DEF ClaimInv
<1> QED BY <1>20, <1>21

(* However many transactions and pages there are, and whichever            *)
(* transactions cannot be fetched, the claims that get_all_claim_history   *)
(* has collected are the newest ones that could be read, newest first,     *)
(* without a gap and without a repetition.                                 *)
THEOREM ClaimsHaveNoGap == ClaimSpec => []NewestClaims
<1>1. ClaimInv /\ [ClaimNext]_<<chain, claimVars>> => ClaimInv'
  <2> SUFFICES ASSUME ClaimInv, [ClaimNext]_<<chain, claimVars>>
               PROVE  ClaimInv'
    OBVIOUS
  <2>1. CASE UNCHANGED <<chain, claimVars>>
    BY <2>1 DEF claimVars, ClaimInv, ScanType, NewestClaims, CursorInv, Claims
  <2>2. CASE GetPage
    BY <2>2, ClaimPage DEF GetPage
  <2>3. CASE JsGetPage
    BY <2>3, ClaimPage DEF JsGetPage, JsGetClaimHistory
  <2> QED
    BY <2>1, <2>2, <2>3, ClaimLand, ClaimCall DEF ClaimNext
<1>2. ClaimInv => NewestClaims
  BY DEF ClaimInv
<1> QED
  BY <1>1, <1>2, ClaimStart, PTL DEF ClaimSpec
-----------------------------------------------------------------------------
(* The monitors.                                                           *)

ReaderRecord ==
  [monitor : {"bridge", "shim"}, mode : {"live", "catch_up", "pages"},
   state : {"stopped", "running", "fetching", "paging", "done"},
   after : Nat, before : Nat, work : Seq(Nat)]

ReaderType ==
  /\ chain \in Seq(Kinds) /\ Len(chain) <= MaxChain
  /\ reader \in ReaderRecord
  /\ delivered \in Seq(Nat)
  /\ reader.after <= Len(chain)
  /\ Range(delivered) \subseteq 1..Len(chain)

(* A started monitor has sent nothing newer than its checkpoint, and the   *)
(* rest of the batch lies between what was sent and the checkpoint.        *)
LiveInv ==
  /\ reader.state \in {"stopped", "running"}
  /\ Increasing(delivered) /\ Increasing(reader.work)
  /\ Range(reader.work) \subseteq 1..reader.after
  /\ \A i \in Range(delivered), j \in Range(reader.work) : i < j
  /\ reader.state = "running" => Range(delivered) \subseteq 1..reader.after
  /\ reader.state = "stopped" => reader.work = <<>>

(* A consumer that catches up has nothing newer than its checkpoint; a     *)
(* call has collected, newest first, the events from its cursor up to the  *)
(* newest one it met.                                                      *)
CatchUpInv ==
  /\ reader.state \in {"stopped", "fetching"}
  /\ Increasing(delivered) /\ Decreasing(reader.work)
  /\ Range(delivered) \subseteq 1..reader.after
  /\ reader.state = "fetching" =>
       /\ reader.after < reader.before /\ reader.before <= Len(chain) + 1
       /\ Range(reader.work) \subseteq reader.before..Len(chain)
       /\ reader.work # <<>> =>
            \A i \in reader.before..Head(reader.work) :
              chain[i] \in Events => i \in Range(reader.work)
  /\ reader.state = "stopped" => reader.work = <<>>

(* A caller that goes through the pages has the messages from its cursor   *)
(* up to where it began.                                                   *)
PagesInv ==
  /\ reader.state \in {"stopped", "paging", "done"}
  /\ Decreasing(delivered)
  /\ reader.state = "paging" =>
       /\ 1 <= reader.before /\ reader.before <= reader.after + 1
       /\ Range(delivered) =
            {i \in reader.before..reader.after : chain[i] \in Events}
  /\ reader.state = "done" => Range(delivered) = Seen

MonitorInv ==
  /\ ReaderType
  /\ reader.mode = "live" => LiveInv
  /\ reader.mode = "catch_up" => CatchUpInv
  /\ reader.mode = "pages" => PagesInv

(* The checkpoint of a consumer that catches up is complete. *)
SeenInv == reader.mode = "catch_up" => Seen \subseteq Range(delivered)

(* The monitor starts with nothing seen. *)
LEMMA MonitorStart == MonitorInit => MonitorInv /\ SeenInv
<1> SUFFICES ASSUME MonitorInit PROVE MonitorInv /\ SeenInv
  OBVIOUS
<1>1. PICK u \in Uses :
        reader = [monitor |-> u.monitor, mode |-> u.mode, state |-> "stopped",
                  after |-> 0, before |-> 0, work |-> <<>>]
  BY DEF MonitorInit
<1>2. chain = <<>> /\ delivered = <<>>
  BY DEF MonitorInit, FeedInit
<1>3. u.monitor \in {"bridge", "shim"} /\ u.mode \in {"live", "catch_up", "pages"}
  BY MonitorAssumption DEF MonitorConstants
<1>4. /\ <<>> \in Seq(Nat) /\ <<>> \in Seq(Kinds) /\ Len(<<>>) = 0
      /\ Increasing(<<>>) /\ Decreasing(<<>>) /\ MaxChain \in Nat
  BY FeedAssumption DEF Increasing, Decreasing, FeedConstants
<1>5. Range(<<>>) = {}
  BY <1>4, RangeOfList, ZenonT(60)
<1>6. reader \in ReaderRecord
  BY <1>1, <1>3, <1>4 DEF ReaderRecord
<1>7. reader.state = "stopped" /\ reader.after = 0 /\ reader.work = <<>>
  BY <1>1
<1>8. ReaderType
  BY <1>2, <1>4, <1>5, <1>6, <1>7 DEF ReaderType
<1>9. LiveInv /\ CatchUpInv /\ PagesInv
  BY <1>2, <1>4, <1>5, <1>7 DEF LiveInv, CatchUpInv, PagesInv
<1>10. SeenInv
  BY <1>7 DEF SeenInv, Seen
<1> QED BY <1>8, <1>9, <1>10 DEF MonitorInv

(* A new transaction is behind everything that was seen. *)
LEMMA MonitorLand ==
  ASSUME MonitorInv, MonitoredTransaction
  PROVE  MonitorInv' /\ (SeenInv => SeenInv')
<1>1. /\ chain' \in Seq(Kinds) /\ Len(chain') = Len(chain) + 1
      /\ \A i \in 1..Len(chain) : chain'[i] = chain[i]
      /\ Len(chain) \in Nat /\ Len(chain') <= MaxChain
  BY LandFacts DEF MonitorInv, ReaderType, MonitoredTransaction
<1>2. UNCHANGED <<reader, delivered>>
  BY DEF MonitoredTransaction
<1> DEFINE a == reader.after
           b == reader.before
           w == reader.work
           n == Len(chain)
<1>3. /\ a \in Nat /\ a <= n /\ n \in Nat /\ b \in Nat /\ w \in Seq(Nat)
      /\ delivered \in Seq(Nat)
      /\ Range(delivered) \subseteq 1..n
  BY <1>1 DEF MonitorInv, ReaderType, ReaderRecord
<1>4. Events' = Events
  BY <1>2 DEF Events
<1> HIDE DEF a, b, w, n
<1>5. a <= Len(chain') /\ 1..a \subseteq 1..n /\ 1..n \subseteq 1..Len(chain')
  BY <1>1, <1>3 DEF n
<1>6. Seen' = Seen
  BY <1>1, <1>2, <1>4, <1>5 DEF Seen, a, n
<1>7. ReaderType'
  BY <1>1, <1>2, <1>3, <1>5 DEF MonitorInv, ReaderType, a
<1>8. ASSUME reader.mode = "live" PROVE LiveInv'
  BY <1>2, <1>8 DEF MonitorInv, LiveInv
<1>9. ASSUME reader.mode = "catch_up" PROVE CatchUpInv'
  <2>1. CatchUpInv
    BY <1>9 DEF MonitorInv
  <2>2. ASSUME reader.state = "fetching"
        PROVE  /\ a < b /\ b <= Len(chain') + 1
               /\ Range(w) \subseteq b..Len(chain')
               /\ w # <<>> => \A i \in b..Head(w) : chain'[i] \in Events => i \in Range(w)
    <3>1. /\ a < b /\ b <= n + 1 /\ Range(w) \subseteq b..n
          /\ w # <<>> => \A i \in b..Head(w) : chain[i] \in Events => i \in Range(w)
      BY <2>1, <2>2 DEF CatchUpInv, a, b, w, n
    <3>2. b <= Len(chain') + 1 /\ b..n \subseteq b..Len(chain')
      BY <1>1, <1>3, <3>1 DEF n
    <3>3. ASSUME w # <<>>, NEW i \in b..Head(w)
          PROVE  chain'[i] = chain[i]
      <4>1. Head(w) \in b..n
        BY <1>3, <3>1, <3>3, EndFacts
      <4>2. i \in 1..n
        BY <1>3, <3>1, <3>3, <4>1
      <4> QED BY <1>1, <4>2 DEF n
    <3> QED BY <3>1, <3>2, <3>3
  <2> QED BY <1>2, <1>4, <2>1, <2>2 DEF CatchUpInv, a, b, w
<1>10. ASSUME reader.mode = "pages" PROVE PagesInv'
  <2>1. PagesInv
    BY <1>10 DEF MonitorInv
  <2>2. ASSUME reader.state = "paging"
        PROVE  {i \in b..a : chain'[i] \in Events} = {i \in b..a : chain[i] \in Events}
    <3>1. 1 <= b
      BY <2>1, <2>2 DEF PagesInv, b
    <3>2. \A i \in b..a : i \in 1..n
      BY <1>3, <3>1
    <3> QED BY <1>1, <3>2 DEF n
  <2> QED BY <1>2, <1>4, <1>6, <2>1, <2>2 DEF PagesInv, a, b
<1>11. SeenInv => SeenInv'
  BY <1>2, <1>6 DEF SeenInv
<1> QED BY <1>2, <1>7, <1>8, <1>9, <1>10, <1>11 DEF MonitorInv

(* The steps of live polling. *)
LEMMA MonitorLive ==
  ASSUME MonitorInv, reader.mode = "live",
         Start \/ PollOnce \/ Process \/ PollError \/ Stop
  PROVE  MonitorInv' /\ reader'.mode = "live"
<1> DEFINE a == reader.after
           w == reader.work
           n == Len(chain)
<1>1. /\ chain' = chain /\ chain \in Seq(Kinds) /\ n \in Nat /\ n <= MaxChain
      /\ reader \in ReaderRecord /\ delivered \in Seq(Nat)
      /\ a \in Nat /\ a <= n /\ w \in Seq(Nat)
      /\ Range(delivered) \subseteq 1..n
  BY DEF MonitorInv, ReaderType, ReaderRecord, Start, PollOnce, Process, PollError, Stop
<1>2. LiveInv
  BY DEF MonitorInv
<1>3. /\ Increasing(delivered) /\ Increasing(w) /\ Range(w) \subseteq 1..a
      /\ \A i \in Range(delivered), j \in Range(w) : i < j
      /\ reader.state = "running" => Range(delivered) \subseteq 1..a
      /\ reader.state = "stopped" => w = <<>>
  BY <1>2 DEF LiveInv
<1>4. SUFFICES /\ reader' \in ReaderRecord /\ reader'.mode = "live"
               /\ delivered' \in Seq(Nat) /\ reader'.after <= n
               /\ Range(delivered') \subseteq 1..n
               /\ LiveInv'
  BY <1>1 DEF MonitorInv, ReaderType
<1>5. <<>> \in Seq(Nat) /\ Increasing(<<>>) /\ Range(<<>>) = {}
  <2>1. <<>> \in Seq(Nat) /\ Increasing(<<>>)
    BY DEF Increasing
  <2> QED BY <2>1, RangeOfList, Zenon
<1> HIDE DEF a, w, n
<1>6. CASE Start
  <2> DEFINE l == LastDelivered
  <2>1. /\ reader' = [reader EXCEPT !.state = "running", !.after = l]
        /\ delivered' = delivered /\ w = <<>>
    BY <1>3, <1>6 DEF Start
  <2>2. l \in Nat /\ l <= n /\ Range(delivered) \subseteq 1..l
    <3>1. CASE delivered = <<>>
      BY <1>1, <1>5, <3>1 DEF LastDelivered
    <3>2. CASE delivered # <<>>
      <4>1. l = LastOf(delivered)
        BY <3>2 DEF LastDelivered
      <4> HIDE DEF l
      <4>2. l \in Range(delivered) /\ \A x \in Range(delivered) : x <= l
        BY <1>1, <1>3, <3>2, <4>1, EndFacts
      <4>3. l \in 1..n
        BY <1>1, <4>2
      <4>4. ASSUME NEW x \in Range(delivered) PROVE x \in 1..l
        BY <1>1, <4>2, <4>3
      <4> QED BY <1>1, <4>3, <4>4
    <3> QED BY <3>1, <3>2
  <2> HIDE DEF l
  <2>3. /\ reader' \in ReaderRecord /\ reader'.mode = "live"
        /\ reader'.state = "running" /\ reader'.after = l /\ reader'.work = w
    BY <1>1, <2>1, <2>2, Zenon DEF ReaderRecord, w
  <2>4. LiveInv'
    BY <1>3, <1>5, <2>1, <2>2, <2>3 DEF LiveInv
  <2> QED BY <1>1, <2>1, <2>2, <2>3, <2>4
<1>7. CASE PollOnce
  <2> DEFINE b    == n + 1
             sigs == Signatures(a, b, BatchSize)
             k    == Len(sigs)
             r    == Reversed(sigs)
  <2>1. /\ reader.state = "running" /\ w = <<>> /\ sigs # <<>>
        /\ reader' = [reader EXCEPT !.after = Head(sigs), !.work = r]
        /\ delivered' = delivered
    BY <1>7 DEF PollOnce, Top, a, w, n
  <2>2. b \in Nat /\ a < b /\ BatchSize \in Nat
    BY <1>1, FeedAssumption DEF FeedConstants
  <2> HIDE DEF sigs
  <2>3. IsPage(sigs, a, b, BatchSize)
    <3> HIDE DEF b
    <3> QED BY <1>1, <2>2, SignatureFacts DEF sigs
  <2>4. /\ sigs \in Seq(Nat) /\ Decreasing(sigs) /\ k \in Nat /\ k <= b - 1 - a
        /\ Range(sigs) = (b - k)..(b - 1) /\ Head(sigs) = b - 1
    BY <2>1, <2>3 DEF IsPage
  <2>5. r \in Seq(Nat) /\ Range(r) = Range(sigs) /\ Increasing(r)
    BY <2>4, ReversedFacts
  <2> HIDE DEF r, k
  <2>6. Head(sigs) = n /\ \A x \in Range(r) : x \in 1..n /\ a < x
    BY <1>1, <2>4, <2>5
  <2>7. /\ reader' \in ReaderRecord /\ reader'.mode = "live"
        /\ reader'.state = "running" /\ reader'.after = n /\ reader'.work = r
    BY <1>1, <2>1, <2>5, <2>6, Zenon DEF ReaderRecord
  <2>8. \A i \in Range(delivered), j \in Range(r) : i < j
    <3>1. \A i \in Range(delivered) : i \in Nat /\ i <= a
      BY <1>1, <1>3, <2>1
    <3> QED BY <1>1, <2>6, <3>1
  <2>9. LiveInv'
    BY <1>1, <1>3, <2>1, <2>5, <2>6, <2>7, <2>8 DEF LiveInv
  <2> QED BY <1>1, <2>1, <2>7, <2>9
<1>8. CASE Process
  <2> DEFINE h   == Head(w)
             one == <<h>>
             sent == Reported(one, Events)
  <2>1. /\ reader.state = "running" /\ w # <<>>
        /\ reader' = [reader EXCEPT !.work = Tail(w)]
        /\ delivered' = delivered \o sent
    BY <1>8 DEF Process, w
  <2>2. /\ h \in Range(w) /\ Tail(w) \in Seq(Nat) /\ Increasing(Tail(w))
        /\ Range(w) = {h} \cup Range(Tail(w))
        /\ \A x \in Range(Tail(w)) : h < x
    BY <1>1, <1>3, <2>1, EndFacts
  <2> HIDE DEF h
  <2>3. h \in 1..a /\ h \in Nat
    <3>1. h \in 1..a
      BY <1>3, <2>2
    <3> QED BY <1>1, <3>1
  <2>4. one \in Seq(Nat) /\ Len(one) = 1 /\ one[1] = h
    BY <2>3
  <2> HIDE DEF one
  <2>5. Range(one) = {h} /\ Increasing(one)
    BY <2>4, RangeOfList DEF Increasing
  <2>6. sent \in Seq(Nat) /\ Range(sent) \subseteq {h} /\ Increasing(sent)
    BY <2>4, <2>5, KeptFacts DEF Reported
  <2> HIDE DEF sent
  <2>7. /\ delivered' \in Seq(Nat) /\ Range(delivered') = Range(delivered) \cup Range(sent)
        /\ Increasing(delivered')
    <3>1. \A x \in Range(delivered), y \in Range(sent) : x < y
      BY <1>3, <2>2, <2>6
    <3> QED BY <1>1, <1>3, <2>1, <2>6, <3>1, JoinFacts
  <2>8. /\ reader' \in ReaderRecord /\ reader'.mode = "live"
        /\ reader'.state = "running" /\ reader'.after = a /\ reader'.work = Tail(w)
    BY <1>1, <2>1, <2>2, Zenon DEF ReaderRecord, a
  <2>9. Range(delivered') \subseteq 1..a /\ 1..a \subseteq 1..n
    BY <1>1, <1>3, <2>1, <2>3, <2>6, <2>7
  <2>10. \A i \in Range(delivered'), j \in Range(Tail(w)) : i < j
    BY <1>3, <2>2, <2>6, <2>7
  <2>11. LiveInv'
    BY <1>3, <2>2, <2>7, <2>8, <2>9, <2>10 DEF LiveInv
  <2> QED BY <1>1, <2>7, <2>8, <2>9, <2>11
<1>9. CASE PollError \/ Stop
  <2>1. /\ reader.state = "running" /\ delivered' = delivered
        /\ \/ reader' = [reader EXCEPT !.work = <<>>]
           \/ reader' = [reader EXCEPT !.state = "stopped", !.work = <<>>]
    BY <1>9 DEF PollError, Stop
  <2>2. /\ reader' \in ReaderRecord /\ reader'.mode = "live"
        /\ reader'.state \in {"running", "stopped"}
        /\ reader'.after = a /\ reader'.work = <<>>
    BY <1>1, <1>5, <2>1, Zenon DEF ReaderRecord, a
  <2>3. LiveInv'
    BY <1>3, <1>5, <2>1, <2>2 DEF LiveInv
  <2> QED BY <1>1, <2>1, <2>2, <2>3
<1> QED BY <1>6, <1>7, <1>8, <1>9

(* Catching up collects a page and reports nothing yet. *)
LEMMA MonitorFetchPage ==
  ASSUME MonitorInv, reader.mode = "catch_up", FetchPage
  PROVE  MonitorInv' /\ reader'.mode = "catch_up" /\ Seen' = Seen
<1> DEFINE a == reader.after
           b == reader.before
           w == reader.work
           n == Len(chain)
           m == IF BatchSize < Limit - Len(w) THEN BatchSize ELSE Limit - Len(w)
           sigs == Signatures(a, b, m)
           k    == Len(sigs)
           new  == Reported(sigs, Events)
           z    == w \o new
<1>1. /\ chain' = chain /\ chain \in Seq(Kinds) /\ n \in Nat /\ n <= MaxChain
      /\ reader \in ReaderRecord /\ delivered \in Seq(Nat)
      /\ a \in Nat /\ a <= n /\ b \in Nat /\ w \in Seq(Nat) /\ Len(w) \in Nat
      /\ Range(delivered) \subseteq 1..n
  BY DEF MonitorInv, ReaderType, ReaderRecord, FetchPage
<1>2. /\ reader.state = "fetching" /\ Len(w) < Limit /\ sigs # <<>>
      /\ reader' = [reader EXCEPT !.work = z, !.before = LastOf(sigs)]
      /\ delivered' = delivered
  BY DEF FetchPage, Unfinished, NextPage
<1>3. CatchUpInv
  BY DEF MonitorInv
<1>4. /\ Increasing(delivered) /\ Decreasing(w) /\ Range(delivered) \subseteq 1..a
      /\ a < b /\ b <= n + 1 /\ Range(w) \subseteq b..n
      /\ w # <<>> => \A i \in b..Head(w) : chain[i] \in Events => i \in Range(w)
  BY <1>2, <1>3 DEF CatchUpInv
<1>5. m \in Nat
  BY <1>1, <1>2, MonitorAssumption DEF MonitorConstants, FeedConstants
<1> HIDE DEF a, b, w, n, m, sigs
<1>6. IsPage(sigs, a, b, m)
  BY <1>1, <1>4, <1>5, SignatureFacts DEF sigs
<1>7. /\ sigs \in Seq(Nat) /\ Decreasing(sigs) /\ k \in Nat /\ k # 0 /\ k <= b - 1 - a
      /\ Range(sigs) = (b - k)..(b - 1) /\ LastOf(sigs) = b - k
  BY <1>2, <1>6 DEF IsPage
<1> HIDE DEF k
<1>8. new \in Seq(Nat) /\ Decreasing(new) /\ Range(new) = Range(sigs) \cap OfKind(Events)
  BY <1>7, KeptFacts, ZenonT(60) DEF Reported
<1> HIDE DEF new
<1>9. \A x \in Range(sigs) : x \in Nat /\ a < x /\ b - k <= x /\ x < b /\ x \in 1..n
  BY <1>1, <1>4, <1>7
<1>10. /\ z \in Seq(Nat) /\ Range(z) = Range(w) \cup Range(new) /\ Decreasing(z)
       /\ w # <<>> => Head(z) = Head(w)
       /\ w = <<>> => z = new
  <2>1. \A x \in Range(w), y \in Range(new) : x > y
    BY <1>1, <1>4, <1>8, <1>9
  <2> QED BY <1>1, <1>4, <1>8, <2>1, JoinFacts
<1> HIDE DEF z
<1>11. b - k \in Nat /\ a < b - k /\ b - k <= n + 1
  BY <1>1, <1>4, <1>7
<1>12. Range(z) \subseteq (b - k)..n
  <2>1. \A x \in Range(w) : x \in (b - k)..n
    BY <1>1, <1>4, <1>7
  <2>2. \A x \in Range(new) : x \in (b - k)..n
    BY <1>1, <1>7, <1>8, <1>9
  <2> QED BY <1>10, <2>1, <2>2
<1>13. ASSUME z # <<>>, NEW i \in (b - k)..Head(z), chain[i] \in Events
       PROVE  i \in Range(z)
  <2>1. Head(z) \in Range(z) /\ Head(z) \in Nat
    BY <1>10, <1>11, <1>12, <1>13, EndFacts
  <2>2. i \in Nat /\ i <= n /\ i # 0 /\ b - k <= i
    BY <1>1, <1>11, <1>12, <1>13, <2>1
  <2>3. i \in OfKind(Events)
    BY <1>1, <1>13, <2>2 DEF OfKind, n
  <2>4. CASE i < b
    <3>1. i \in (b - k)..(b - 1)
      BY <1>1, <1>7, <2>2, <2>4
    <3> QED BY <1>7, <1>8, <1>10, <2>3, <3>1
  <2>5. CASE ~(i < b)
    <3>1. i >= b /\ i <= Head(z)
      BY <1>1, <1>13, <2>1, <2>2, <2>5
    <3>2. w # <<>>
      <4> SUFFICES ASSUME w = <<>> PROVE FALSE
        OBVIOUS
      <4>1. Head(z) \in Range(new)
        BY <1>1, <1>10, <2>1, RangeOfList
      <4>2. Head(z) < b
        BY <1>8, <1>9, <4>1
      <4> QED BY <1>1, <2>1, <2>2, <3>1, <4>2
    <3>3. i \in b..Head(w)
      BY <1>1, <1>10, <2>1, <2>2, <3>1, <3>2
    <3> QED BY <1>4, <1>10, <1>13, <3>2, <3>3
  <2> QED BY <2>4, <2>5
<1>14. /\ reader' \in ReaderRecord /\ reader'.mode = "catch_up"
       /\ reader'.state = "fetching" /\ reader'.after = a
       /\ reader'.work = z /\ reader'.before = b - k
       /\ reader'.monitor = reader.monitor
  BY <1>1, <1>2, <1>7, <1>10, <1>11, Zenon DEF ReaderRecord, a
<1>15. Events' = Events
  BY <1>14 DEF Events
<1>16. CatchUpInv'
  BY <1>1, <1>2, <1>4, <1>10, <1>11, <1>12, <1>13, <1>14, <1>15
     DEF CatchUpInv, n
<1>17. ReaderType'
  BY <1>1, <1>2, <1>14 DEF ReaderType, n
<1>18. Seen' = Seen
  BY <1>1, <1>14, <1>15 DEF Seen, a
<1> QED BY <1>14, <1>16, <1>17, <1>18 DEF MonitorInv

(* The last page was met: nothing is left between the cursor and the       *)
(* checkpoint, when no limit cuts the call short.                          *)
LEMMA NothingLeft ==
  ASSUME MonitorInv, reader.mode = "catch_up", reader.state = "fetching",
         ~Unfinished, Limit > MaxChain
  PROVE  reader.before = reader.after + 1
<1> DEFINE a == reader.after
           b == reader.before
           w == reader.work
           n == Len(chain)
           m == IF BatchSize < Limit - Len(w) THEN BatchSize ELSE Limit - Len(w)
           sigs == Signatures(a, b, m)
<1>1. /\ n \in Nat /\ n <= MaxChain
      /\ a \in Nat /\ b \in Nat /\ w \in Seq(Nat) /\ Len(w) \in Nat
  BY DEF MonitorInv, ReaderType, ReaderRecord
<1>2. CatchUpInv
  BY DEF MonitorInv
<1>3. Decreasing(w) /\ a < b /\ Range(w) \subseteq b..n
  BY <1>2 DEF CatchUpInv
<1>4. /\ BatchSize \in Nat /\ BatchSize # 0 /\ MaxChain \in Nat /\ Limit \in Nat
  BY MonitorAssumption DEF MonitorConstants, FeedConstants
<1>5. Len(w) < Limit => sigs = <<>>
  BY DEF Unfinished, NextPage
<1> HIDE DEF a, b, w, n
<1>6. Range(w) \subseteq 1..n
  <2>1. b..n \subseteq 1..n
    BY <1>1, <1>3
  <2> QED BY <1>3, <2>1
<1>7. Len(w) <= n
  BY <1>1, <1>3, <1>6, DecreasingIsShort
<1>8. Len(w) < Limit
  BY <1>1, <1>4, <1>7
<1>9. m \in Nat /\ m # 0
  BY <1>1, <1>4, <1>8
<1>10. sigs = <<>>
  BY <1>5, <1>8
<1> HIDE DEF m, sigs
<1>11. IsPage(sigs, a, b, m)
  BY <1>1, <1>3, <1>9, SignatureFacts DEF sigs
<1>12. Len(sigs) = 0 /\ (Len(sigs) = m \/ Len(sigs) = b - 1 - a)
  BY <1>10, <1>11 DEF IsPage
<1>13. b = a + 1
  BY <1>1, <1>9, <1>12
<1> QED BY <1>13 DEF a, b

(* Catching up reports all it collected, and then has seen the chain up to *)
(* there.                                                                  *)
LEMMA MonitorFetchReturn ==
  ASSUME MonitorInv, reader.mode = "catch_up", FetchReturn
  PROVE  /\ MonitorInv' /\ reader'.mode = "catch_up"
         /\ Limit > MaxChain /\ SeenInv => SeenInv'
<1> DEFINE a == reader.after
           b == reader.before
           w == reader.work
           n == Len(chain)
           r == Reversed(w)
           e == IF w = <<>> THEN a ELSE Head(w)
<1>1. /\ chain' = chain /\ chain \in Seq(Kinds) /\ n \in Nat /\ n <= MaxChain
      /\ reader \in ReaderRecord /\ delivered \in Seq(Nat)
      /\ a \in Nat /\ a <= n /\ b \in Nat /\ w \in Seq(Nat)
      /\ Range(delivered) \subseteq 1..n
  BY DEF MonitorInv, ReaderType, ReaderRecord, FetchReturn
<1>2. /\ reader.state = "fetching" /\ ~Unfinished
      /\ delivered' = delivered \o r
      /\ reader' = [reader EXCEPT !.state = "stopped", !.work = <<>>, !.after = e]
  BY DEF FetchReturn
<1>3. CatchUpInv
  BY DEF MonitorInv
<1>4. /\ Increasing(delivered) /\ Decreasing(w) /\ Range(delivered) \subseteq 1..a
      /\ a < b /\ b <= n + 1 /\ Range(w) \subseteq b..n
      /\ w # <<>> => \A i \in b..Head(w) : chain[i] \in Events => i \in Range(w)
  BY <1>2, <1>3 DEF CatchUpInv
<1>5. Limit > MaxChain => b = a + 1
  BY <1>2, NothingLeft
<1> HIDE DEF a, b, w, n
<1>6. r \in Seq(Nat) /\ Range(r) = Range(w) /\ Increasing(r)
  BY <1>1, <1>4, ReversedFacts
<1> HIDE DEF r
<1>7. \A x \in Range(w) : x \in Nat /\ b <= x /\ x <= n
  BY <1>1, <1>4
<1>8. /\ delivered' \in Seq(Nat) /\ Range(delivered') = Range(delivered) \cup Range(w)
      /\ Increasing(delivered')
  <2>1. \A x \in Range(delivered), y \in Range(r) : x < y
    BY <1>1, <1>4, <1>6, <1>7
  <2> QED BY <1>1, <1>2, <1>4, <1>6, <2>1, JoinFacts
<1>9. /\ e \in Nat /\ a <= e /\ e <= n
      /\ \A x \in Range(w) : x <= e
      /\ w # <<>> => e = Head(w) /\ e \in Range(w)
      /\ w = <<>> => e = a
  <2>1. CASE w = <<>>
    <3>1. e = a /\ Range(w) = {}
      BY <1>1, <2>1, RangeOfList, Zenon
    <3> HIDE DEF e
    <3> QED BY <1>1, <2>1, <3>1
  <2>2. CASE w # <<>>
    <3>1. e = Head(w)
      BY <2>2
    <3> HIDE DEF e
    <3>2. e \in Range(w) /\ \A x \in Range(w) : x <= e
      BY <1>1, <1>4, <2>2, <3>1, EndFacts
    <3>3. e \in Nat /\ a <= e /\ e <= n
      BY <1>1, <1>4, <1>7, <3>2
    <3> QED BY <2>2, <3>1, <3>2, <3>3
  <2> QED BY <2>1, <2>2
<1> HIDE DEF e
<1>10. Range(delivered') \subseteq 1..e /\ 1..e \subseteq 1..n
  <2>1. \A x \in Range(delivered) : x \in 1..e
    BY <1>1, <1>4, <1>9
  <2>2. \A x \in Range(w) : x \in 1..e
    BY <1>1, <1>4, <1>7, <1>9
  <2> QED BY <1>1, <1>8, <1>9, <2>1, <2>2
<1>11. <<>> \in Seq(Nat) /\ Decreasing(<<>>)
  BY DEF Decreasing
<1>12. /\ reader' \in ReaderRecord /\ reader'.mode = "catch_up"
       /\ reader'.state = "stopped" /\ reader'.after = e /\ reader'.work = <<>>
       /\ reader'.monitor = reader.monitor
  BY <1>1, <1>2, <1>9, <1>11, ZenonT(60) DEF ReaderRecord
<1>13. CatchUpInv'
  BY <1>8, <1>10, <1>11, <1>12 DEF CatchUpInv
<1>14. ReaderType'
  BY <1>1, <1>8, <1>9, <1>10, <1>12 DEF ReaderType, n
<1>15. ASSUME Limit > MaxChain, SeenInv
       PROVE  SeenInv'
  <2>1. Events' = Events
    BY <1>12 DEF Events
  <2>2. \A i \in 1..a : chain[i] \in Events => i \in Range(delivered)
    BY <1>15 DEF SeenInv, Seen, a
  <2>3. ASSUME NEW i \in 1..e, chain[i] \in Events
        PROVE  i \in Range(delivered')
    <3>1. CASE i <= a
      BY <1>1, <1>8, <2>2, <2>3, <3>1
    <3>2. CASE ~(i <= a)
      <4>1. w # <<>>
        BY <1>1, <1>9, <3>2
      <4>2. i \in b..Head(w)
        BY <1>1, <1>5, <1>9, <1>15, <3>2, <4>1
      <4> QED BY <1>4, <1>8, <2>3, <4>1, <4>2
    <3> QED BY <3>1, <3>2
  <2> QED BY <1>1, <1>12, <2>1, <2>3 DEF SeenInv, Seen
<1> QED BY <1>12, <1>13, <1>14, <1>15 DEF MonitorInv

(* The steps of catching up. *)
LEMMA MonitorCatchUp ==
  ASSUME MonitorInv, reader.mode = "catch_up",
         FetchSince \/ FetchPage \/ FetchReturn \/ FetchError
  PROVE  /\ MonitorInv' /\ reader'.mode = "catch_up"
         /\ Limit > MaxChain /\ SeenInv => SeenInv'
<1> DEFINE a == reader.after
           n == Len(chain)
<1>1. /\ chain \in Seq(Kinds) /\ n \in Nat /\ n <= MaxChain
      /\ reader \in ReaderRecord /\ delivered \in Seq(Nat)
      /\ a \in Nat /\ a <= n /\ reader.work \in Seq(Nat)
      /\ Range(delivered) \subseteq 1..n
  BY DEF MonitorInv, ReaderType, ReaderRecord
<1>2. CatchUpInv
  BY DEF MonitorInv
<1>3. <<>> \in Seq(Nat) /\ Decreasing(<<>>) /\ Range(<<>>) = {}
  <2>1. <<>> \in Seq(Nat) /\ Decreasing(<<>>)
    BY DEF Decreasing
  <2> QED BY <2>1, RangeOfList, Zenon
<1>4. CASE FetchSince \/ FetchError
  <2>1. /\ chain' = chain /\ delivered' = delivered
        /\ \/ /\ reader.state = "stopped"
              /\ reader' = [reader EXCEPT !.state = "fetching", !.before = n + 1]
           \/ reader' = [reader EXCEPT !.state = "stopped", !.work = <<>>]
    BY <1>4 DEF FetchSince, FetchError, Top
  <2>2. reader.state = "stopped" => reader.work = <<>>
    BY <1>2 DEF CatchUpInv
  <2> HIDE DEF n
  <2>3. n + 1 \in Nat /\ a < n + 1
    BY <1>1
  <2>4. /\ reader' \in ReaderRecord /\ reader'.mode = "catch_up"
        /\ \/ reader'.state = "fetching" /\ reader'.before = n + 1
           \/ reader'.state = "stopped"
        /\ reader'.work = <<>> /\ reader'.after = a
        /\ reader'.monitor = reader.monitor
    <3>1. CASE reader.state = "stopped"
               /\ reader' = [reader EXCEPT !.state = "fetching", !.before = n + 1]
      BY <1>1, <2>2, <2>3, <3>1, Zenon DEF ReaderRecord
    <3>2. CASE reader' = [reader EXCEPT !.state = "stopped", !.work = <<>>]
      BY <1>1, <1>3, <3>2, Zenon DEF ReaderRecord
    <3> QED BY <2>1, <3>1, <3>2
  <2> HIDE DEF a
  <2>5. Increasing(delivered) /\ Range(delivered) \subseteq 1..a
    BY <1>2 DEF CatchUpInv, a
  <2>6. CatchUpInv'
    BY <1>3, <2>1, <2>3, <2>4, <2>5 DEF CatchUpInv, n
  <2>7. ReaderType'
    BY <1>1, <2>1, <2>4 DEF ReaderType, n
  <2>8. SeenInv => SeenInv'
    BY <2>1, <2>4 DEF SeenInv, Seen, Events, a
  <2> QED BY <2>4, <2>6, <2>7, <2>8 DEF MonitorInv
<1>5. CASE FetchPage
  <2>1. MonitorInv' /\ reader'.mode = "catch_up" /\ Seen' = Seen
    BY <1>5, MonitorFetchPage
  <2>2. delivered' = delivered
    BY <1>5 DEF FetchPage
  <2> QED BY <2>1, <2>2 DEF SeenInv
<1>6. CASE FetchReturn
  BY <1>6, MonitorFetchReturn
<1> QED BY <1>4, <1>5, <1>6

(* A page of get_withdrawals, with the extra signature taken off. *)
LEMMA WithdrawalPage ==
  ASSUME NEW b \in Nat, b # 0,
         NEW sigs, sigs = Signatures(0, b, PageSize + 1),
         NEW page, page = IF Len(sigs) > PageSize
                          THEN SubSeq(sigs, 1, PageSize) ELSE sigs
  PROVE  /\ page \in Seq(Nat) /\ Decreasing(page)
         /\ Len(page) \in Nat /\ Len(page) <= b - 1
         /\ Range(page) = (b - Len(page))..(b - 1)
         /\ Len(sigs) > PageSize =>
              LastOf(page) = b - Len(page) /\ Len(page) < b - 1
         /\ ~(Len(sigs) > PageSize) => Len(page) = b - 1
<1>1. PageSize \in Nat /\ PageSize # 0
  BY ShimAssumption DEF ShimConstants
<1>2. 0 < b /\ PageSize + 1 \in Nat
  BY <1>1
<1>3. IsPage(sigs, 0, b, PageSize + 1)
  BY <1>2, SignatureFacts
<1>4. /\ sigs \in Seq(Nat) /\ Len(sigs) \in Nat /\ Decreasing(sigs)
      /\ Len(sigs) <= PageSize + 1 /\ Len(sigs) <= b - 1 - 0
      /\ Len(sigs) = PageSize + 1 \/ Len(sigs) = b - 1 - 0
      /\ Range(sigs) = (b - Len(sigs))..(b - 1)
      /\ \A i \in 1..Len(sigs) : sigs[i] = b - i
  BY <1>3 DEF IsPage
<1>5. CASE ~(Len(sigs) > PageSize)
  <2>1. page = sigs /\ Len(sigs) = b - 1
    BY <1>1, <1>4, <1>5
  <2> QED BY <1>4, <1>5, <2>1
<1>6. CASE Len(sigs) > PageSize
  <2>1. Len(sigs) = PageSize + 1 /\ PageSize < b - 1
    BY <1>1, <1>4, <1>6
  <2>2. page = SubSeq(sigs, 1, PageSize)
    BY <1>6, Zenon
  <2>3. /\ page \in Seq(Nat) /\ Len(page) = PageSize
        /\ \A i \in 1..PageSize : page[i] = sigs[i]
    BY <1>1, <1>4, <2>1, <2>2
  <2> DEFINE whole == Signatures(0, b, PageSize)
  <2>4. IsPage(whole, 0, b, PageSize)
    BY <1>1, <1>2, SignatureFacts
  <2> HIDE DEF whole
  <2>5. /\ whole \in Seq(Nat) /\ Len(whole) \in Nat /\ Decreasing(whole)
        /\ Len(whole) = PageSize \/ Len(whole) = b - 1 - 0
        /\ Len(whole) <= PageSize
        /\ Range(whole) = (b - Len(whole))..(b - 1)
        /\ whole = <<>> <=> Len(whole) = 0
        /\ whole # <<>> => LastOf(whole) = b - Len(whole)
        /\ \A i \in 1..Len(whole) : whole[i] = b - i
    BY <2>4 DEF IsPage
  <2>6. Len(whole) = PageSize
    BY <1>1, <2>1, <2>5
  <2>7. \A i \in 1..PageSize : page[i] = whole[i]
    <3>1. \A i \in 1..PageSize : i \in 1..Len(sigs)
      BY <1>1, <2>1
    <3> QED BY <1>4, <2>3, <2>5, <2>6, <3>1, ZenonT(60)
  <2>8. page = whole
    BY <2>3, <2>5, <2>6, <2>7, SMTT(60)
  <2>9. page # <<>> => LastOf(page) = b - Len(page)
    BY <2>5, <2>8, Zenon
  <2>10. page # <<>> /\ Len(page) = PageSize
    BY <1>1, <2>5, <2>6, <2>8
  <2>11. /\ page \in Seq(Nat) /\ Decreasing(page)
         /\ Range(page) = (b - Len(page))..(b - 1)
    BY <2>5, <2>8, Zenon
  <2>12. Len(page) \in Nat /\ Len(page) <= b - 1 /\ Len(page) < b - 1
    BY <1>1, <2>1, <2>10
  <2> QED BY <1>6, <2>9, <2>10, <2>11, <2>12
<1> QED BY <1>5, <1>6

(* The steps of reading page by page. *)
LEMMA MonitorPages ==
  ASSUME MonitorInv, reader.mode = "pages",
         FirstPage \/ GetWithdrawals \/ PagesDone
  PROVE  MonitorInv' /\ reader'.mode = "pages"
<1> DEFINE a == reader.after
           b == reader.before
           n == Len(chain)
<1>1. /\ chain' = chain /\ chain \in Seq(Kinds) /\ n \in Nat /\ n <= MaxChain
      /\ reader \in ReaderRecord /\ delivered \in Seq(Nat)
      /\ a \in Nat /\ a <= n /\ b \in Nat
      /\ Range(delivered) \subseteq 1..n
  BY DEF MonitorInv, ReaderType, ReaderRecord, FirstPage, GetWithdrawals, PagesDone
<1>2. PagesInv
  BY DEF MonitorInv
<1>3. Decreasing(delivered)
  BY <1>2 DEF PagesInv
<1> HIDE DEF a, b, n
<1>4. CASE FirstPage
  <2>1. /\ reader' = [reader EXCEPT !.state = "paging", !.before = n + 1, !.after = n]
        /\ delivered' = <<>>
    BY <1>4 DEF FirstPage, Top, n
  <2>2. /\ <<>> \in Seq(Nat) /\ Decreasing(<<>>)
    BY DEF Decreasing
  <2>3. Range(<<>>) = {}
    BY <2>2, RangeOfList, Zenon
  <2>4. /\ reader' \in ReaderRecord /\ reader'.mode = "pages"
        /\ reader'.state = "paging" /\ reader'.before = n + 1 /\ reader'.after = n
    <3>1. n + 1 \in Nat
      BY <1>1
    <3> DEFINE c == n + 1
    <3>2. reader' = [reader EXCEPT !.state = "paging", !.before = c, !.after = n]
      BY <2>1
    <3> HIDE DEF c
    <3>3. c \in Nat /\ n \in Nat /\ reader \in ReaderRecord
      BY <1>1, <3>1 DEF c
    <3>4. /\ reader' \in ReaderRecord /\ reader'.mode = "pages"
          /\ reader'.state = "paging" /\ reader'.before = c /\ reader'.after = n
      BY <3>2, <3>3, Zenon DEF ReaderRecord
    <3> QED BY <3>4 DEF c
  <2>5. (n + 1)..n = {} /\ 1 <= n + 1
    BY <1>1
  <2>6. PagesInv'
    BY <1>1, <2>1, <2>2, <2>3, <2>4, <2>5 DEF PagesInv
  <2>7. ReaderType'
    BY <1>1, <2>1, <2>2, <2>3, <2>4 DEF ReaderType, n
  <2> QED BY <2>4, <2>6, <2>7 DEF MonitorInv
<1>5. CASE PagesDone
  <2>1. /\ reader' = [reader EXCEPT !.state = "stopped"] /\ delivered' = delivered
    BY <1>5 DEF PagesDone
  <2>2. /\ reader' \in ReaderRecord /\ reader'.mode = "pages"
        /\ reader'.state = "stopped" /\ reader'.after = a
    BY <1>1, <2>1, Zenon DEF ReaderRecord, a
  <2>3. PagesInv'
    BY <1>3, <2>1, <2>2 DEF PagesInv
  <2>4. ReaderType'
    BY <1>1, <2>1, <2>2 DEF ReaderType, n
  <2> QED BY <2>2, <2>3, <2>4 DEF MonitorInv
<1>6. CASE GetWithdrawals
  <2> DEFINE sigs == Signatures(0, b, PageSize + 1)
             more == Len(sigs) > PageSize
             page == IF more THEN SubSeq(sigs, 1, PageSize) ELSE sigs
             new  == Reported(page, Events)
             j    == Len(page)
  <2>1. /\ reader.state = "paging" /\ delivered' = delivered \o new
        /\ reader' = IF more THEN [reader EXCEPT !.before = LastOf(page)]
                     ELSE [reader EXCEPT !.state = "done"]
    BY <1>6 DEF GetWithdrawals, b
  <2>2. /\ 1 <= b /\ b <= a + 1
        /\ Range(delivered) = {i \in b..a : chain[i] \in Events}
    BY <1>2, <2>1 DEF PagesInv, a, b
  <2>3. b # 0
    BY <2>2
  <2> HIDE DEF sigs
  <2>4. /\ page \in Seq(Nat) /\ Decreasing(page)
        /\ j \in Nat /\ j <= b - 1
        /\ Range(page) = (b - j)..(b - 1)
        /\ more => LastOf(page) = b - j /\ j < b - 1
        /\ ~more => j = b - 1
    <3>1. sigs = Signatures(0, b, PageSize + 1)
      BY DEF sigs
    <3> QED BY <1>1, <2>3, <3>1, WithdrawalPage, ZenonT(60)
  <2> HIDE DEF more, page, j
  <2>5. /\ new \in Seq(Nat) /\ Decreasing(new)
        /\ Range(new) = Range(page) \cap OfKind(Events)
    BY <2>4, KeptFacts, ZenonT(60) DEF Reported
  <2> HIDE DEF new
  <2>6. \A x \in Range(page) : x \in 1..n /\ x < b /\ x \in Nat /\ x <= a
    BY <1>1, <2>2, <2>4
  <2>7. /\ delivered' \in Seq(Nat) /\ Decreasing(delivered')
        /\ Range(delivered') = Range(delivered) \cup Range(new)
    <3>1. \A x \in Range(delivered), y \in Range(new) : x > y
      BY <1>1, <2>2, <2>5, <2>6
    <3> QED BY <1>1, <1>3, <2>1, <2>5, <3>1, JoinFacts
  <2>8. Range(delivered') = {i \in (b - j)..a : chain[i] \in Events}
    <3>1. ASSUME NEW x \in Range(delivered')
          PROVE  x \in (b - j)..a /\ chain[x] \in Events
      <4>1. CASE x \in Range(delivered)
        <5>1. x \in b..a /\ chain[x] \in Events
          BY <2>2, <4>1
        <5> QED BY <1>1, <2>4, <5>1
      <4>2. CASE x \in Range(new)
        <5>1. x \in Range(page) /\ chain[x] \in Events
          BY <2>5, <4>2 DEF OfKind
        <5>2. x \in (b - j)..(b - 1) /\ x <= a
          BY <2>4, <2>6, <5>1
        <5> QED BY <1>1, <2>4, <5>1, <5>2
      <4> QED BY <2>7, <4>1, <4>2
    <3>2. ASSUME NEW x \in (b - j)..a, chain[x] \in Events
          PROVE  x \in Range(delivered')
      <4>1. CASE x \in b..a
        BY <2>2, <2>7, <3>2, <4>1
      <4>2. CASE x \notin b..a
        <5>1. x \in (b - j)..(b - 1)
          BY <1>1, <2>4, <4>2
        <5>2. x \in Range(page) /\ x \in 1..n
          BY <2>4, <2>6, <5>1
        <5>3. x \in OfKind(Events)
          BY <3>2, <5>2 DEF OfKind, n
        <5> QED BY <2>5, <2>7, <5>2, <5>3
      <4> QED BY <4>1, <4>2
    <3> QED BY <3>1, <3>2
  <2>9. Range(delivered') \subseteq 1..n
    BY <1>1, <2>5, <2>6, <2>7
  <2>10. CASE more
    <3>1. reader' = [reader EXCEPT !.before = b - j]
      BY <2>1, <2>4, <2>10
    <3>2. b - j \in Nat /\ 1 <= b - j /\ b - j <= a + 1
      BY <1>1, <2>2, <2>4
    <3>3. /\ reader' \in ReaderRecord /\ reader'.mode = "pages"
          /\ reader'.state = "paging" /\ reader'.after = a /\ reader'.before = b - j
          /\ reader'.monitor = reader.monitor
      BY <1>1, <2>1, <3>1, <3>2, Zenon DEF ReaderRecord, a
    <3>4. Events' = Events
      BY <3>3 DEF Events
    <3>5. PagesInv'
      BY <1>1, <2>7, <2>8, <3>2, <3>3, <3>4 DEF PagesInv
    <3>6. ReaderType'
      BY <1>1, <2>7, <2>9, <3>3 DEF ReaderType, n
    <3> QED BY <3>3, <3>5, <3>6 DEF MonitorInv
  <2>11. CASE ~more
    <3>1. reader' = [reader EXCEPT !.state = "done"]
      BY <2>1, <2>11
    <3>2. /\ reader' \in ReaderRecord /\ reader'.mode = "pages"
          /\ reader'.state = "done" /\ reader'.after = a
          /\ reader'.monitor = reader.monitor
      BY <1>1, <3>1, Zenon DEF ReaderRecord, a
    <3>3. Events' = Events
      BY <3>2 DEF Events
    <3>4. b - j = 1
      BY <1>1, <2>4, <2>11
    <3>5. Range(delivered') = Seen'
      BY <1>1, <2>8, <3>2, <3>3, <3>4 DEF Seen
    <3>6. PagesInv'
      BY <2>7, <3>2, <3>5 DEF PagesInv
    <3>7. ReaderType'
      BY <1>1, <2>7, <2>9, <3>2 DEF ReaderType, n
    <3> QED BY <3>2, <3>6, <3>7 DEF MonitorInv
  <2> QED BY <2>10, <2>11
<1> QED BY <1>4, <1>5, <1>6

(* Every step preserves the invariant. *)
LEMMA MonitorStep ==
  ASSUME MonitorInv, [MonitorNext]_<<chain, monitorVars>>
  PROVE  /\ MonitorInv'
         /\ Limit > MaxChain /\ SeenInv => SeenInv'
<1>1. CASE MonitoredTransaction
  BY <1>1, MonitorLand
<1>2. CASE reader.mode = "live" /\ (Start \/ PollOnce \/ Process \/ PollError \/ Stop)
  <2>1. MonitorInv' /\ reader'.mode = "live"
    BY <1>2, MonitorLive
  <2> QED BY <2>1 DEF SeenInv
<1>3. CASE /\ reader.mode = "catch_up"
           /\ FetchSince \/ FetchPage \/ FetchReturn \/ FetchError
  BY <1>3, MonitorCatchUp
<1>4. CASE reader.mode = "pages" /\ (FirstPage \/ GetWithdrawals \/ PagesDone)
  <2>1. MonitorInv' /\ reader'.mode = "pages"
    BY <1>4, MonitorPages
  <2> QED BY <2>1 DEF SeenInv
<1>5. CASE UNCHANGED <<chain, monitorVars>>
  <2>1. UNCHANGED <<chain, reader, delivered>>
    BY <1>5 DEF monitorVars
  <2>2. Events' = Events /\ Seen' = Seen
    BY <2>1 DEF Events, Seen
  <2>3. ReaderType'
    BY <2>1 DEF MonitorInv, ReaderType
  <2>4. LiveInv => LiveInv'
    BY <2>1 DEF LiveInv
  <2>5. CatchUpInv => CatchUpInv'
    BY <2>1, <2>2 DEF CatchUpInv
  <2>6. PagesInv => PagesInv'
    BY <2>1, <2>2 DEF PagesInv
  <2> QED BY <2>1, <2>2, <2>3, <2>4, <2>5, <2>6 DEF MonitorInv, SeenInv
<1>6. CASE NextBridge
  BY <1>2, <1>3, <1>6 DEF NextBridge, NextLive, NextCatchUp
<1>7. CASE NextShim
  BY <1>2, <1>3, <1>4, <1>7 DEF NextShim, NextShimLive, NextShimCatchUp, NextPages,
     ShimStart, ShimPollOnce, ShimProcess, ShimPollError, ShimStop,
     ShimFetchPage, ShimFetchReturn
<1> QED BY <1>1, <1>5, <1>6, <1>7 DEF MonitorNext

(* Whatever the monitors miss, what they deliver is in the order of the    *)
(* chain and never repeated: for any number of transactions between two    *)
(* polls, any limit of fetch_since, and any errors, aborts and restarts.   *)
THEOREM EventsInOrder == MonitorSpec => []DeliveredInOrder
<1>1. MonitorInv /\ [MonitorNext]_<<chain, monitorVars>> => MonitorInv'
  BY MonitorStep
<1>2. MonitorInv => DeliveredInOrder
  BY DEF MonitorInv, ReaderType, ReaderRecord, LiveInv, CatchUpInv, DeliveredInOrder
<1> QED
  BY <1>1, <1>2, MonitorStart, PTL DEF MonitorSpec

(* Going through get_withdrawals page by page yields the messages that     *)
(* were there when the first page was asked for, for any page size and     *)
(* whatever happens between the pages.                                     *)
THEOREM PagesMissNothing == MonitorSpec => []PagesAreComplete
<1>1. MonitorInv /\ [MonitorNext]_<<chain, monitorVars>> => MonitorInv'
  BY MonitorStep
<1>2. MonitorInv => PagesAreComplete
  BY DEF MonitorInv, ReaderType, ReaderRecord, LiveInv, CatchUpInv, PagesInv,
         PagesAreComplete
<1> QED
  BY <1>1, <1>2, MonitorStart, PTL DEF MonitorSpec

(* A consumer that goes on from the signature fetch_since gave it has      *)
(* every event up to that signature, whichever calls failed, provided the  *)
(* calls are made without a limit, which is what a Limit above MaxChain    *)
(* stands for: one that is reached leaves the older events out.            *)
THEOREM CatchingUpMissesNothing ==
  ASSUME Limit > MaxChain
  PROVE  MonitorSpec => []CaughtUp
<1>1. /\ MonitorInv /\ SeenInv /\ [MonitorNext]_<<chain, monitorVars>>
      => MonitorInv' /\ SeenInv'
  BY MonitorStep
<1>2. SeenInv => CaughtUp
  BY DEF SeenInv, CaughtUp
<1> QED
  BY <1>1, <1>2, MonitorStart, PTL DEF MonitorSpec
=============================================================================
