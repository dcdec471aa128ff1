------------------------------- MODULE Walks -------------------------------
(***************************************************************************)
(* Induction on the natural numbers without an operator as parameter, and  *)
(* the existence of the functions that the models define by recursion on a *)
(* position: a walk starts in a state and takes one step for each place.   *)
(***************************************************************************)
EXTENDS Integers, Sequences, WellFoundedInduction, TLAPS

(* Every set of naturals that is not empty has a least element.            *)
LEMMA Least ==
  ASSUME NEW T, T \subseteq Nat, T # {}
  PROVE  \E x \in T : \A y \in T : x <= y
<1> DEFINE R == OpToRel(<, Nat)
<1>1. IsWellFoundedOn(R, Nat)
  BY NatLessThanWellFounded
<1>2. \A x, y \in Nat : x < y => <<x, y>> \in R
  BY DEF OpToRel
<1> HIDE DEF R
<1>3. \E x \in T : \A y \in T : ~ (<<y, x>> \in R)
  BY <1>1, WFMin
<1>4. PICK x \in T : \A y \in T : ~ (<<y, x>> \in R)
  BY <1>3
<1>5. ASSUME NEW y \in T PROVE x <= y
  <2>1. x \in Nat /\ y \in Nat /\ ~(<<y, x>> \in R)
    BY <1>4
  <2>2. ~(y < x)
    BY <1>2, <2>1
  <2> QED
    BY <2>1, <2>2
<1> QED
  BY <1>5

(* A set that holds 0 and, with a number, the next one holds every number. *)
LEMMA Induction ==
  ASSUME NEW T, 0 \in T, \A n \in Nat : n \in T => n + 1 \in T
  PROVE  Nat \subseteq T
<1> SUFFICES ASSUME NEW k \in Nat, k \notin T PROVE FALSE
  OBVIOUS
<1> DEFINE Missing == Nat \ T
<1>1. Missing \subseteq Nat /\ Missing # {}
  OBVIOUS
<1> HIDE DEF Missing
<1>2. PICK x \in Missing : \A y \in Missing : x <= y
  BY <1>1, Least
<1> USE DEF Missing
<1>3. x # 0 /\ x - 1 \in Nat
  OBVIOUS
<1>4. x - 1 \notin Missing
  BY <1>2, <1>3
<1> QED
  BY <1>3, <1>4

(* The same up to a bound.                                                 *)
LEMMA InductionUpTo ==
  ASSUME NEW n \in Nat, NEW T, 0 \in T,
         \A i \in 1 .. n : i - 1 \in T => i \in T
  PROVE  0 .. n \subseteq T
<1> DEFINE U == {i \in Nat : i <= n => i \in T}
<1>1. 0 \in U
  OBVIOUS
<1>2. ASSUME NEW i \in Nat, i \in U PROVE i + 1 \in U
  <2> SUFFICES ASSUME i + 1 <= n PROVE i + 1 \in T
    OBVIOUS
  <2>1. i + 1 \in 1 .. n /\ (i + 1) - 1 = i /\ i \in T
    BY <1>2
  <2> QED
    BY <2>1
<1> HIDE DEF U
<1>3. Nat \subseteq U
  BY <1>1, <1>2, Induction
<1> USE DEF U
<1> QED
  BY <1>3

-----------------------------------------------------------------------------
IsStep(G, S, n) == G \in [S \X (1 .. n) -> S]

IsWalk(f, G, S, s0, n) ==
  /\ f \in [0 .. n -> S]
  /\ f[0] = s0
  /\ \A i \in 1 .. n : f[i] = G[<<f[i - 1], i>>]

(* For every step function there is a walk of every length.                *)
LEMMA Walk ==
  ASSUME NEW n \in Nat, NEW S, NEW s0 \in S, NEW G, IsStep(G, S, n)
  PROVE  \E f : IsWalk(f, G, S, s0, n)
<1>0. G \in [S \X (1 .. n) -> S]
  BY DEF IsStep
<1> DEFINE Good(k, f) ==
             f[0] = s0 /\ \A i \in 1 .. k : f[i] = G[<<f[i - 1], i>>]
           T == {k \in Nat : k <= n => \E f \in [0 .. k -> S] : Good(k, f)}
<1>1. 0 \in T
  <2>1. /\ [i \in 0 .. 0 |-> s0] \in [0 .. 0 -> S]
        /\ Good(0, [i \in 0 .. 0 |-> s0])
    OBVIOUS
  <2> QED
    BY <2>1
<1>2. ASSUME NEW k \in Nat, k \in T PROVE k + 1 \in T
  <2> SUFFICES ASSUME k + 1 <= n
               PROVE  \E f \in [0 .. k + 1 -> S] : Good(k + 1, f)
    OBVIOUS
  <2>1. PICK f \in [0 .. k -> S] : Good(k, f)
    BY <1>2
  <2> DEFINE last == G[<<f[k], k + 1>>]
             g == [i \in 0 .. k + 1 |-> IF i = k + 1 THEN last ELSE f[i]]
  <2>2. f[k] \in S /\ k + 1 \in 1 .. n
    BY <2>1
  <2>3. last \in S
    BY <1>0, <2>2
  <2>4. g \in [0 .. k + 1 -> S]
    <3> HIDE DEF last
    <3> QED
      BY <2>1, <2>3
  <2>5. g[k + 1] = last /\ \A i \in 0 .. k : g[i] = f[i]
    <3> HIDE DEF last
    <3> QED
      OBVIOUS
  <2> HIDE DEF g
  <2>6. ASSUME NEW i \in 1 .. k + 1 PROVE g[i] = G[<<g[i - 1], i>>]
    <3>1. CASE i = k + 1
      <4>1. g[i - 1] = f[k]
        BY <2>5, <3>1
      <4> QED
        BY <2>5, <3>1, <4>1
    <3>2. CASE i \in 1 .. k
      <4>1. g[i] = f[i] /\ g[i - 1] = f[i - 1]
        BY <2>5, <3>2
      <4> QED
        BY <2>1, <3>2, <4>1
    <3> QED
      BY <3>1, <3>2
  <2> QED
    BY <2>1, <2>4, <2>5, <2>6
<1>3. n \in T
  <2> HIDE DEF T
  <2> QED
    BY <1>1, <1>2, Induction
<1>4. PICK f \in [0 .. n -> S] : Good(n, f)
  BY <1>3
<1> QED
  BY <1>4 DEF IsWalk
-----------------------------------------------------------------------------
(* The first n elements of a sequence; they grow from nothing to all of    *)
(* it, one at a time.                                                      *)
FirstPart(text, n) == SubSeq(text, 1, n)

LEMMA PartsOf ==
  ASSUME NEW S, NEW text \in Seq(S)
  PROVE  /\ FirstPart(text, 0) = <<>>
         /\ FirstPart(text, Len(text)) = text
         /\ \A n \in 0 .. Len(text) :
              /\ FirstPart(text, n) \in Seq(S)
              /\ Len(FirstPart(text, n)) = n
         /\ \A n \in 1 .. Len(text) :
              FirstPart(text, n) = Append(FirstPart(text, n - 1), text[n])
<1>1. PICK k \in Nat : k = Len(text)
  OBVIOUS
<1>2. ASSUME NEW n \in 0 .. k
      PROVE  /\ FirstPart(text, n) \in Seq(S)
             /\ Len(FirstPart(text, n)) = n
             /\ \A m \in 1 .. n : FirstPart(text, n)[m] = text[m]
  <2>1. \A m \in 1 .. n : m \in 1 .. k
    OBVIOUS
  <2> QED
    BY <1>1, <2>1 DEF FirstPart
<1>3. FirstPart(text, 0) = <<>>
  <2>1. 0 \in 0 .. k
    OBVIOUS
  <2>2. FirstPart(text, 0) \in Seq(S) /\ Len(FirstPart(text, 0)) = 0
    BY <1>2, <2>1
  <2> QED
    BY <2>2
<1>4. FirstPart(text, k) = text
  BY <1>1 DEF FirstPart
<1>5. ASSUME NEW n \in 1 .. k
      PROVE  FirstPart(text, n) = Append(FirstPart(text, n - 1), text[n])
  <2>1. n \in 0 .. k /\ n - 1 \in 0 .. k /\ n \in 1 .. n
    OBVIOUS
  <2>2. PICK a : a = FirstPart(text, n)
    OBVIOUS
  <2>3. PICK b : b = FirstPart(text, n - 1)
    OBVIOUS
  <2>4. PICK ch \in S : ch = text[n]
    BY <1>1
  <2>5. /\ a \in Seq(S) /\ Len(a) = n
        /\ \A m \in 1 .. n : a[m] = text[m]
    BY <1>2, <2>1, <2>2
  <2>6. /\ b \in Seq(S) /\ Len(b) = n - 1
        /\ \A m \in 1 .. n - 1 : b[m] = text[m]
    BY <1>2, <2>1, <2>3
  <2>7. /\ Append(b, ch) \in Seq(S) /\ Len(Append(b, ch)) = n
        /\ \A m \in 1 .. n - 1 : Append(b, ch)[m] = b[m]
        /\ Append(b, ch)[n] = ch
    BY <2>6
  <2>8. \A m \in 1 .. n : m = n \/ m \in 1 .. n - 1
    OBVIOUS
  <2>9. \A m \in 1 .. n : Append(b, ch)[m] = a[m]
    BY <2>1, <2>4, <2>5, <2>6, <2>7, <2>8
  <2>10. PICK c \in Seq(S) : c = Append(b, ch)
    BY <2>7
  <2>11. a = c
    BY <2>5, <2>7, <2>9, <2>10
  <2> QED
    BY <2>2, <2>3, <2>4, <2>10, <2>11
<1> QED
  BY <1>1, <1>2, <1>3, <1>4, <1>5

(* Two parts of a sequence in a row are one.                               *)
LEMMA NextPart ==
  ASSUME NEW S, NEW a \in Seq(S), NEW m \in Nat, NEW n \in Nat,
         m + n <= Len(a)
  PROVE  /\ SubSeq(a, m + 1, m + n) \in Seq(S)
         /\ FirstPart(a, m + n) = FirstPart(a, m) \o SubSeq(a, m + 1, m + n)
<1>0. PICK l \in Nat : l = Len(a)
  OBVIOUS
<1>1. PICK x \in Seq(S) : /\ x = FirstPart(a, m) /\ Len(x) = m
                          /\ \A i \in 1 .. m : x[i] = a[i]
  <2>1. /\ SubSeq(a, 1, m) \in Seq(S) /\ Len(SubSeq(a, 1, m)) = m
        /\ \A i \in 1 .. m : SubSeq(a, 1, m)[i] = a[i]
    OBVIOUS
  <2> QED
    BY <2>1 DEF FirstPart
<1>2. PICK y \in Seq(S) : /\ y = SubSeq(a, m + 1, m + n) /\ Len(y) = n
                          /\ \A i \in 1 .. n : y[i] = a[m + i]
  <2>1. PICK b \in Nat, e \in Nat : b = m + 1 /\ e = m + n
    OBVIOUS
  <2>2. \A i \in b .. e : a[i] \in S
    BY <2>1
  <2>3. /\ SubSeq(a, b, e) \in Seq(S) /\ Len(SubSeq(a, b, e)) = n
        /\ \A i \in 1 .. n : SubSeq(a, b, e)[i] = a[b + i - 1]
    BY <2>1, <2>2
  <2>4. \A i \in 1 .. n : b + i - 1 = m + i
    BY <2>1
  <2> QED
    BY <2>1, <2>3, <2>4
<1>3. PICK z \in Seq(S) : /\ z = FirstPart(a, m + n) /\ Len(z) = m + n
                          /\ \A i \in 1 .. m + n : z[i] = a[i]
  <2>1. PICK e \in Nat : e = m + n
    OBVIOUS
  <2>2. /\ SubSeq(a, 1, e) \in Seq(S) /\ Len(SubSeq(a, 1, e)) = e
        /\ \A i \in 1 .. e : SubSeq(a, 1, e)[i] = a[i]
    BY <2>1
  <2> QED
    BY <2>1, <2>2 DEF FirstPart
<1>4. PICK w \in Seq(S) : /\ w = x \o y /\ Len(w) = m + n
                          /\ \A i \in 1 .. m : w[i] = x[i]
                          /\ \A i \in 1 .. n : w[m + i] = y[i]
  <2>1. /\ x \o y \in Seq(S) /\ Len(x \o y) = m + n
        /\ \A i \in 1 .. m : (x \o y)[i] = x[i]
        /\ \A i \in 1 .. n : (x \o y)[m + i] = y[i]
    <3>1. /\ x \o y \in Seq(S) /\ Len(x \o y) = Len(x) + Len(y)
          /\ \A i \in 1 .. Len(x) : (x \o y)[i] = x[i]
          /\ \A i \in 1 .. Len(y) : (x \o y)[Len(x) + i] = y[i]
      BY ONLY x \in Seq(S), y \in Seq(S)
    <3> QED
      BY <1>1, <1>2, <3>1
  <2> QED
    BY <2>1
<1>5. \A i \in 1 .. m + n : i \in 1 .. m \/ \E j \in 1 .. n : i = m + j
  <2> SUFFICES ASSUME NEW i \in 1 .. m + n, i \notin 1 .. m
               PROVE  \E j \in 1 .. n : i = m + j
    OBVIOUS
  <2>1. i - m \in 1 .. n /\ i = m + (i - m)
    OBVIOUS
  <2> QED
    BY <2>1
<1>6. ASSUME NEW i \in 1 .. m + n PROVE w[i] = z[i]
  <2>1. CASE i \in 1 .. m
    BY <1>1, <1>3, <1>4, <2>1
  <2>2. CASE \E j \in 1 .. n : i = m + j
    <3>1. PICK j \in 1 .. n : i = m + j
      BY <2>2
    <3> QED
      BY <1>2, <1>3, <1>4, <3>1
  <2> QED
    BY <1>5, <2>1, <2>2
<1>7. w = z
  <2>1. Len(w) = m + n /\ Len(z) = m + n
    BY <1>3, <1>4
  <2> QED
    BY ONLY w \in Seq(S), z \in Seq(S), m \in Nat, n \in Nat, <2>1, <1>6
<1> QED
  BY <1>1, <1>2, <1>3, <1>4, <1>7
=============================================================================
