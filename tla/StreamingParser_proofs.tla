----------------------- MODULE StreamingParser_proofs -----------------------
(***************************************************************************)
(* Proof of LinesOfTextSoFar for chunks and texts of any length: the       *)
(* pieces of a text, its lines, and the pieces of two texts in a row; and  *)
(* of AsciiOfLinesSurvives for reads of any length: a text that looks like *)
(* the bytes it was decoded from has lines that look like theirs.          *)
(***************************************************************************)
EXTENDS MCText, Walks, FiniteSetTheorems

(* What a text is made of, decoded or not.                                 *)
Symbol == Character \cup Byte \cup {"wide", "replacement"}

Piece  == Seq(Symbol)
Pieces == {p \in Seq(Piece) : p # <<>>}

EndOf(pieces, start, k) == start[k] + Len(pieces[k])

(* The first n characters of a text, cut at each newline: piece k begins   *)
(* at start[k], and at its end is a newline, or the end of the text.       *)
IsCut(t, n, pieces, start) ==
  LET last == Len(pieces)
  IN  /\ pieces \in Pieces
      /\ start \in [1 .. last -> Nat \ {0}]
      /\ \A k, l \in 1 .. last : k < l => EndOf(pieces, start, k) < start[l]
      /\ \A i \in 1 .. n + 1 : \E k \in 1 .. last :
           start[k] <= i /\ i <= EndOf(pieces, start, k)
      /\ \A k \in 1 .. last - 1 : t[EndOf(pieces, start, k)] = "nl"
      /\ EndOf(pieces, start, last) = n + 1
      /\ \A k \in 1 .. last : \A i \in 1 .. Len(pieces[k]) :
           /\ pieces[k][i] = t[start[k] + i - 1]
           /\ pieces[k][i] # "nl"

(* A place of a piece that begins at x, and the number of it in the piece. *)
LEMMA PlaceNumber ==
  ASSUME NEW x \in Nat, NEW y \in Nat, NEW j \in Nat, x <= j, j < x + y
  PROVE  j - x + 1 \in 1 .. y /\ x + (j - x + 1) - 1 = j
  OBVIOUS

(* A place of a piece that ends by m.                                      *)
LEMMA PlaceInside ==
  ASSUME NEW x \in Nat \ {0}, NEW y \in Nat, NEW m \in Nat, NEW i \in 1 .. y,
         x + y <= m + 1
  PROVE  x + i - 1 \in 1 .. m
  OBVIOUS

(* No text is one empty piece.                                             *)
LEMMA EmptyIsCut ==
  ASSUME NEW t
  PROVE  \E start : IsCut(t, 0, <<<<>>>>, start)
<1> DEFINE p == <<<<>>>>
           start == [k \in 1 .. 1 |-> 1]
<1>1. /\ p \in Pieces /\ Len(p) = 1 /\ p[1] = <<>> /\ Len(p[1]) = 0
      /\ start \in [1 .. 1 -> Nat \ {0}] /\ start[1] = 1
  BY DEF Pieces, Piece
<1> HIDE DEF p, start
<1>2. IsCut(t, 0, p, start)
  BY <1>1 DEF IsCut, EndOf
<1> QED
  BY <1>2 DEF p

(* What a cut says of the lengths.                                         *)
LEMMA CutTypes ==
  ASSUME NEW t, NEW n \in Nat, NEW p, NEW start, IsCut(t, n, p, start)
  PROVE  /\ p \in Seq(Piece) /\ Len(p) \in Nat \ {0}
         /\ \A k \in 1 .. Len(p) :
              /\ p[k] \in Piece /\ Len(p[k]) \in Nat
              /\ DOMAIN p[k] = 1 .. Len(p[k])
              /\ start[k] \in Nat \ {0}
              /\ EndOf(p, start, k) = start[k] + Len(p[k])
              /\ EndOf(p, start, k) \in 1 .. n + 1
              /\ k < Len(p) => EndOf(p, start, k) \in 1 .. n
<1>1. p \in Seq(Piece) /\ p # <<>>
  BY DEF IsCut, Pieces
<1>2. Len(p) \in Nat \ {0}
  BY <1>1
<1> SUFFICES ASSUME NEW k \in 1 .. Len(p)
             PROVE  /\ p[k] \in Piece /\ Len(p[k]) \in Nat
                    /\ DOMAIN p[k] = 1 .. Len(p[k])
                    /\ start[k] \in Nat \ {0}
                    /\ EndOf(p, start, k) = start[k] + Len(p[k])
                    /\ EndOf(p, start, k) \in 1 .. n + 1
                    /\ k < Len(p) => EndOf(p, start, k) \in 1 .. n
  BY <1>1, <1>2
<1>3. p[k] \in Piece /\ p[Len(p)] \in Piece
  BY <1>1, <1>2
<1>4. /\ Len(p[k]) \in Nat /\ DOMAIN p[k] = 1 .. Len(p[k])
      /\ Len(p[Len(p)]) \in Nat
  BY <1>3 DEF Piece
<1>5. start[k] \in Nat \ {0} /\ start[Len(p)] \in Nat \ {0}
  BY SMTT(20), <1>2 DEF IsCut
<1>6. EndOf(p, start, Len(p)) = n + 1
  BY DEF IsCut
<1>7. CASE k = Len(p)
  BY <1>3, <1>4, <1>5, <1>6, <1>7 DEF EndOf
<1>8. CASE k < Len(p)
  <2>1. EndOf(p, start, k) < start[Len(p)]
    BY <1>2, <1>8 DEF IsCut
  <2> QED
    BY <1>3, <1>4, <1>5, <1>6, <1>8, <2>1 DEF EndOf
<1> QED
  BY <1>2, <1>7, <1>8

(* The same, as one formula.                                               *)
CutTyped(n, p, start) ==
  /\ p \in Seq(Piece) /\ Len(p) \in Nat \ {0}
  /\ \A k \in 1 .. Len(p) :
       /\ p[k] \in Piece /\ Len(p[k]) \in Nat
       /\ DOMAIN p[k] = 1 .. Len(p[k])
       /\ start[k] \in Nat \ {0}
       /\ EndOf(p, start, k) = start[k] + Len(p[k])
       /\ EndOf(p, start, k) \in 1 .. n + 1
       /\ k < Len(p) => EndOf(p, start, k) \in 1 .. n

LEMMA CutIsTyped ==
  ASSUME NEW t, NEW n \in Nat, NEW p, NEW start, IsCut(t, n, p, start)
  PROVE  CutTyped(n, p, start)
BY CutTypes DEF CutTyped

(* One more character cuts off a piece, or is the last one's.              *)
LEMMA CutOneMore ==
  ASSUME NEW t \in Seq(Symbol), NEW n \in 1 .. Len(t),
         NEW p, NEW start, IsCut(t, n - 1, p, start)
  PROVE  \E s : IsCut(t, n, Cut(p, t[n]), s)
<1> DEFINE c == t[n]
           q == Cut(p, c)
           last == Len(p)
<1>0. n - 1 \in Nat /\ (n - 1) + 1 = n
  OBVIOUS
<1>1. /\ p \in Seq(Piece) /\ Len(p) \in Nat \ {0}
      /\ \A k \in 1 .. Len(p) :
           /\ p[k] \in Piece /\ Len(p[k]) \in Nat
           /\ DOMAIN p[k] = 1 .. Len(p[k])
           /\ start[k] \in Nat \ {0}
           /\ EndOf(p, start, k) = start[k] + Len(p[k])
           /\ EndOf(p, start, k) \in 1 .. n
           /\ k < Len(p) => EndOf(p, start, k) \in 1 .. n - 1
  <2>1. /\ p \in Seq(Piece) /\ Len(p) \in Nat \ {0}
        /\ \A k \in 1 .. Len(p) :
             /\ p[k] \in Piece /\ Len(p[k]) \in Nat
             /\ DOMAIN p[k] = 1 .. Len(p[k])
             /\ start[k] \in Nat \ {0}
             /\ EndOf(p, start, k) = start[k] + Len(p[k])
             /\ EndOf(p, start, k) \in 1 .. (n - 1) + 1
             /\ k < Len(p) => EndOf(p, start, k) \in 1 .. n - 1
    <3>1. n - 1 \in Nat
      BY <1>0
    <3> QED
      BY <3>1, CutTypes
  <2> QED
    BY <1>0, <2>1
<1>2. c \in Symbol
  OBVIOUS
<1>3. /\ start \in [1 .. last -> Nat \ {0}]
      /\ \A k, l \in 1 .. last : k < l => EndOf(p, start, k) < start[l]
      /\ \A i \in 1 .. n : \E k \in 1 .. last :
           start[k] <= i /\ i <= EndOf(p, start, k)
      /\ \A k \in 1 .. last - 1 : t[EndOf(p, start, k)] = "nl"
      /\ EndOf(p, start, last) = n
      /\ \A k \in 1 .. last : \A i \in 1 .. Len(p[k]) :
           p[k][i] = t[start[k] + i - 1] /\ p[k][i] # "nl"
  BY <1>0 DEF IsCut
<1>4. CASE c = "nl"
  <2> DEFINE s == [k \in 1 .. last + 1 |->
                     IF k = last + 1 THEN n + 1 ELSE start[k]]
  <2>1. q = Append(p, <<>>)
    BY <1>4 DEF Cut
  <2>2. /\ q \in Pieces /\ Len(q) = last + 1 /\ q[last + 1] = <<>>
        /\ \A k \in 1 .. last : q[k] = p[k]
    <3>1. PICK e \in Piece : e = <<>>
      <4>1. <<>> \in Piece
        BY DEF Piece
      <4> QED
        BY <4>1
    <3>2. /\ Append(p, e) \in Seq(Piece) /\ Len(Append(p, e)) = Len(p) + 1
          /\ Append(p, e)[Len(p) + 1] = e
          /\ \A k \in 1 .. Len(p) : Append(p, e)[k] = p[k]
      <4>1. p \in Seq(Piece)
        BY <1>1
      <4> QED
        BY ONLY <4>1, e \in Piece
    <3>3. Append(p, e) # <<>>
      <4>1. PICK more : /\ more = Append(p, e) /\ more \in Seq(Piece)
                        /\ Len(more) = Len(p) + 1
        BY <3>2
      <4>2. Len(p) \in Nat
        BY <1>1
      <4>3. more # <<>>
        BY ONLY <4>1, <4>2
      <4> QED
        BY <4>1, <4>3
    <3>4. q = Append(p, e)
      BY <2>1, <3>1
    <3> HIDE DEF q, last
    <3>5. q \in Pieces
      BY <3>2, <3>3, <3>4 DEF Pieces
    <3> QED
      BY <3>1, <3>2, <3>4, <3>5 DEF last
  <2>3. /\ s \in [1 .. last + 1 -> Nat \ {0}] /\ s[last + 1] = n + 1
        /\ \A k \in 1 .. last : s[k] = start[k]
    BY <1>1
  <2>4. Len(q[last + 1]) = 0
    BY <2>2
  <2> HIDE DEF s, q, c
  <2>5. /\ EndOf(q, s, last + 1) = n + 1
        /\ \A k \in 1 .. last : EndOf(q, s, k) = EndOf(p, start, k)
    BY <1>0, <2>2, <2>3, <2>4 DEF EndOf
  <2>6. \A k, l \in 1 .. last + 1 : k < l => EndOf(q, s, k) < s[l]
    <3> SUFFICES ASSUME NEW k \in 1 .. last + 1, NEW l \in 1 .. last + 1, k < l
                 PROVE  EndOf(q, s, k) < s[l]
      OBVIOUS
    <3>1. k \in 1 .. last /\ EndOf(p, start, k) \in 1 .. n
      BY <1>1
    <3>2. CASE l = last + 1
      BY <2>3, <2>5, <3>1, <3>2
    <3>3. CASE l \in 1 .. last
      BY <1>3, <2>3, <2>5, <3>1, <3>3
    <3>4. l = last + 1 \/ l \in 1 .. last
      <4>1. last \in Nat
        BY <1>1
      <4> QED
        BY ONLY <4>1, l \in 1 .. last + 1
    <3> QED
      BY <3>2, <3>3, <3>4
  <2>7. ASSUME NEW i \in 1 .. n + 1
        PROVE  \E k \in 1 .. last + 1 : s[k] <= i /\ i <= EndOf(q, s, k)
    <3>1. CASE i = n + 1
      BY <1>1, <2>3, <2>5, <3>1
    <3>2. CASE i \in 1 .. n
      <4>1. PICK k \in 1 .. last : start[k] <= i /\ i <= EndOf(p, start, k)
        BY <1>3, <3>2
      <4> QED
        BY <1>1, <2>3, <2>5, <4>1
    <3> QED
      BY <3>1, <3>2
  <2>8. ASSUME NEW k \in 1 .. last PROVE t[EndOf(q, s, k)] = "nl"
    <3>1. CASE k = last
      BY <1>1, <1>3, <1>4, <2>5, <3>1 DEF c
    <3>2. CASE k \in 1 .. last - 1
      BY <1>3, <2>5, <3>2
    <3> QED
      BY <1>1, <3>1, <3>2
  <2>9. ASSUME NEW k \in 1 .. last + 1, NEW i \in 1 .. Len(q[k])
        PROVE  q[k][i] = t[s[k] + i - 1] /\ q[k][i] # "nl"
    <3>1. k # last + 1
      BY <2>4
    <3>2. k \in 1 .. last
      BY <1>1, <3>1
    <3>3. q[k] = p[k] /\ s[k] = start[k] /\ i \in 1 .. Len(p[k])
      BY <2>2, <2>3, <3>2
    <3> QED
      BY <1>3, <3>2, <3>3
  <2>10. (last + 1) - 1 = last
    BY <1>1
  <2>11. IsCut(t, n, q, s)
    BY <2>2, <2>3, <2>5, <2>6, <2>7, <2>8, <2>9, <2>10 DEF IsCut
  <2> QED
    BY <2>11 DEF q, c
<1>5. CASE c # "nl"
  <2>1. q = [p EXCEPT ![last] = Append(@, c)]
    BY <1>5 DEF Cut
  <2>2. /\ Append(p[last], c) \in Piece
        /\ Len(Append(p[last], c)) = Len(p[last]) + 1
        /\ \A i \in 1 .. Len(p[last]) : Append(p[last], c)[i] = p[last][i]
        /\ Append(p[last], c)[Len(p[last]) + 1] = c
    BY <1>1, <1>2 DEF Piece
  <2>3. /\ q \in Pieces /\ Len(q) = last /\ q[last] = Append(p[last], c)
        /\ \A k \in 1 .. last - 1 : q[k] = p[k]
    <3>1. q \in Seq(Piece) /\ Len(q) = last
      BY <1>1, <2>1, <2>2
    <3>2. last \in 1 .. last /\ DOMAIN p = 1 .. last
      BY <1>1
    <3>3. q # <<>>
      BY <1>1, <3>1
    <3>4. q[last] = Append(p[last], c)
      BY <2>1, <3>2
    <3>5. ASSUME NEW k \in 1 .. last - 1 PROVE q[k] = p[k]
      <4>1. k \in 1 .. last /\ k # last
        BY <1>1
      <4> HIDE DEF last, c
      <4> QED
        BY <2>1, <3>2, <4>1
    <3> QED
      BY <3>1, <3>3, <3>4, <3>5 DEF Pieces
  <2> HIDE DEF q, c
  <2> last \in 1 .. last
    BY <1>1
  <2>4. /\ EndOf(q, start, last) = n + 1
        /\ \A k \in 1 .. last - 1 : EndOf(q, start, k) = EndOf(p, start, k)
    <3>1. EndOf(q, start, last) = start[last] + Len(p[last]) + 1
      <4>1. start[last] \in Nat /\ Len(p[last]) \in Nat
        BY <1>1
      <4>2. EndOf(q, start, last) = start[last] + (Len(p[last]) + 1)
        BY <2>2, <2>3 DEF EndOf
      <4> QED
        BY <4>1, <4>2
    <3>2. start[last] + Len(p[last]) = n
      BY <1>1, <1>3
    <3> QED
      BY <1>1, <2>3, <3>1, <3>2 DEF EndOf
  <2>5. ASSUME NEW k \in 1 .. last, NEW l \in 1 .. last, k < l
        PROVE  EndOf(q, start, k) < start[l]
    <3>1. k \in 1 .. last - 1
      BY <1>1, <2>5
    <3> QED
      BY <1>3, <2>4, <2>5, <3>1
  <2>6. ASSUME NEW i \in 1 .. n + 1
        PROVE  \E k \in 1 .. last : start[k] <= i /\ i <= EndOf(q, start, k)
    <3>1. CASE i = n + 1
      <4>1. start[last] <= n
        <5>1. start[last] + Len(p[last]) = n
          BY <1>1, <1>3
        <5> QED
          BY <1>1, <5>1
      <4>2. EndOf(q, start, last) = i
        BY <2>4, <3>1
      <4>3. start[last] \in Nat
        BY <1>1
      <4> QED
        BY <3>1, <4>1, <4>2, <4>3
    <3>2. CASE i \in 1 .. n
      <4>1. PICK k \in 1 .. last : start[k] <= i /\ i <= EndOf(p, start, k)
        BY <1>3, <3>2
      <4>2. CASE k = last
        BY <2>4, <3>2, <4>1, <4>2
      <4>3. CASE k \in 1 .. last - 1
        BY <2>4, <4>1, <4>3
      <4> QED
        BY <1>1, <4>1, <4>2, <4>3
    <3> QED
      BY <3>1, <3>2
  <2>7. \A k \in 1 .. last - 1 : t[EndOf(q, start, k)] = "nl"
    BY <1>3, <2>4
  <2>8. ASSUME NEW k \in 1 .. last, NEW i \in 1 .. Len(q[k])
        PROVE  q[k][i] = t[start[k] + i - 1] /\ q[k][i] # "nl"
    <3>1. CASE k \in 1 .. last - 1
      <4>1. q[k] = p[k] /\ i \in 1 .. Len(p[k])
        BY <2>3, <3>1
      <4>2. p[k][i] = t[start[k] + i - 1] /\ p[k][i] # "nl"
        BY <1>3, <4>1
      <4> QED
        BY <4>1, <4>2
    <3>2. CASE k = last /\ i \in 1 .. Len(p[last])
      <4>1. q[k][i] = p[last][i]
        BY <2>2, <2>3, <3>2
      <4> QED
        BY <1>3, <3>2, <4>1
    <3>3. CASE k = last /\ i = Len(p[last]) + 1
      <4>1. start[last] + Len(p[last]) = n
        BY <1>1, <1>3
      <4>2. start[last] + i - 1 = n
        BY <1>1, <3>3, <4>1
      <4>3. q[k][i] = c
        BY <2>2, <2>3, <3>3
      <4> QED
        BY <1>5, <3>3, <4>2, <4>3 DEF c
    <3>4. k = last => i \in 1 .. Len(p[last]) + 1
      BY <2>2, <2>3
    <3>5. Len(p[last]) \in Nat
      BY <1>1
    <3>6. k \in 1 .. last - 1 \/ k = last
      BY <1>1
    <3>7. CASE k = last
      <4>1. i \in 1 .. Len(p[last]) \/ i = Len(p[last]) + 1
        BY <3>4, <3>5, <3>7
      <4> QED
        BY <3>2, <3>3, <3>7, <4>1
    <3> QED
      BY <3>1, <3>6, <3>7
  <2>9. IsCut(t, n, q, start)
    BY <1>3, <2>3, <2>4, <2>5, <2>6, <2>7, <2>8 DEF IsCut
  <2> QED
    BY <2>9 DEF q, c
<1> QED
  BY <1>4, <1>5

(* split cuts every text.                                                  *)
LEMMA SplitIsCut ==
  ASSUME NEW t \in Seq(Symbol)
  PROVE  \E start : IsCut(t, Len(t), split(t), start)
<1> DEFINE n == Len(t)
           G == [p \in Pieces \X (1 .. n) |-> Cut(p[1], t[p[2]])]
           Solves(f) == f = [i \in 0 .. Len(t) |->
                               IF i = 0 THEN <<<<>>>> ELSE Cut(f[i - 1], t[i])]
           h == CHOOSE f : Solves(f)
<1>0. n \in Nat /\ <<<<>>>> \in Pieces
  BY DEF Pieces, Piece
<1>1. ASSUME NEW p \in Pieces, NEW c \in Symbol
      PROVE  Cut(p, c) \in Pieces
  <2>1. p \in Seq(Piece) /\ p # <<>> /\ Len(p) \in 1 .. Len(p)
    BY DEF Pieces
  <2>2. CASE c = "nl"
    <3>1. <<>> \in Piece
      BY DEF Piece
    <3>2. Append(p, <<>>) \in Seq(Piece) /\ Append(p, <<>>) # <<>>
      BY <2>1, <3>1
    <3> QED
      BY <2>2, <3>2 DEF Cut, Pieces
  <2>3. CASE c # "nl"
    <3>1. Append(p[Len(p)], c) \in Piece
      BY <2>1 DEF Piece
    <3>2. /\ [p EXCEPT ![Len(p)] = Append(@, c)] \in Seq(Piece)
          /\ Len([p EXCEPT ![Len(p)] = Append(@, c)]) = Len(p)
      BY <2>1, <3>1
    <3>3. [p EXCEPT ![Len(p)] = Append(@, c)] # <<>>
      BY <2>1, <3>2
    <3> QED
      BY <2>3, <3>2, <3>3 DEF Cut, Pieces
  <2> QED
    BY <2>2, <2>3
<1>2. IsStep(G, Pieces, n)
  <2>1. \A i \in 1 .. n : t[i] \in Symbol
    OBVIOUS
  <2> QED
    BY <1>1, <2>1 DEF IsStep
<1>3. PICK f : IsWalk(f, G, Pieces, <<<<>>>>, n)
  <2> HIDE DEF n, G
  <2> QED
    BY <1>0, <1>2, Walk
<1>4. ASSUME NEW i \in 1 .. n PROVE f[i] = Cut(f[i - 1], t[i])
  <2>1. i - 1 \in 0 .. n
    BY <1>0
  <2>2. f[i - 1] \in Pieces
    BY <1>3, <2>1 DEF IsWalk
  <2>3. G[<<f[i - 1], i>>] = Cut(f[i - 1], t[i])
    BY <2>2
  <2> QED
    BY <1>3, <2>3 DEF IsWalk
<1>5. Solves(f)
  <2> HIDE DEF G
  <2>1. /\ f \in [0 .. Len(t) -> Pieces] /\ f[0] = <<<<>>>>
        /\ \A i \in 1 .. Len(t) : f[i] = Cut(f[i - 1], t[i])
    BY <1>3, <1>4 DEF IsWalk
  <2>2. \A i \in 0 .. Len(t) : i # 0 => i \in 1 .. Len(t)
    BY <1>0
  <2> QED
    BY <2>1, <2>2
<1>6. Solves(h)
  <2> HIDE DEF Solves
  <2> QED
    BY <1>5
<1>7. split(t) = h[n]
  BY DEF split
<1>8. h[0] = <<<<>>>> /\ \A i \in 1 .. n : h[i] = Cut(h[i - 1], t[i])
  <2> HIDE DEF h
  <2> QED
    BY SMTT(20), <1>0, <1>6
<1> HIDE DEF h, G, Solves
<1> DEFINE T == {i \in 0 .. n : \E start : IsCut(t, i, h[i], start)}
<1>9. 0 \in T
  <2>1. 0 \in 0 .. n
    BY <1>0
  <2>2. \E start : IsCut(t, 0, h[0], start)
    BY <1>8, EmptyIsCut
  <2> QED
    BY <2>1, <2>2
<1>10. ASSUME NEW i \in 1 .. n, i - 1 \in T PROVE i \in T
  <2>1. PICK start : IsCut(t, i - 1, h[i - 1], start)
    BY <1>10
  <2>2. \E s : IsCut(t, i, Cut(h[i - 1], t[i]), s)
    BY <2>1, CutOneMore
  <2> QED
    BY <1>0, <1>8, <2>2
<1> HIDE DEF T
<1>11. 0 .. n \subseteq T
  BY <1>0, <1>9, <1>10, InductionUpTo
<1>12. n \in T
  BY <1>0, <1>11
<1> QED
  BY <1>7, <1>12 DEF T


-----------------------------------------------------------------------------
(* The lines of a text, from its pieces.                                   *)

(* The newlines before a place in piece k are the ends of those before it. *)
LEMMA NewlinesOfCut ==
  ASSUME NEW t \in Seq(Symbol), NEW p, NEW start,
         IsCut(t, Len(t), p, start),
         NEW k \in 1 .. Len(p), NEW i \in Nat,
         start[k] <= i, i <= EndOf(p, start, k)
  PROVE  NewlinesBefore(t, i) = k - 1
<1> DEFINE Ends(m) == {EndOf(p, start, j) : j \in 1 .. m}
           T == {m \in 0 .. Len(p) : /\ IsFiniteSet(Ends(m))
                                     /\ Cardinality(Ends(m)) = m}
<1>1. /\ p \in Seq(Piece) /\ Len(p) \in Nat \ {0} /\ Len(t) \in Nat
      /\ \A m \in 1 .. Len(p) :
           /\ p[m] \in Piece /\ Len(p[m]) \in Nat
           /\ start[m] \in Nat \ {0}
           /\ EndOf(p, start, m) = start[m] + Len(p[m])
           /\ EndOf(p, start, m) \in 1 .. Len(t) + 1
  BY CutTypes
<1>2. /\ \A m, l \in 1 .. Len(p) : m < l => EndOf(p, start, m) < start[l]
      /\ \A j \in 1 .. Len(t) + 1 : \E m \in 1 .. Len(p) :
           start[m] <= j /\ j <= EndOf(p, start, m)
      /\ \A m \in 1 .. Len(p) - 1 : t[EndOf(p, start, m)] = "nl"
      /\ \A m \in 1 .. Len(p) : \A j \in 1 .. Len(p[m]) :
           p[m][j] = t[start[m] + j - 1] /\ p[m][j] # "nl"
  BY DEF IsCut
<1>3. 0 \in T
  <2>1. Ends(0) = {} /\ 0 \in 0 .. Len(p)
    BY <1>1
  <2> QED
    BY <2>1, FS_EmptySet
<1>4. ASSUME NEW m \in 1 .. Len(p), m - 1 \in T PROVE m \in T
  <2>1. Ends(m) = Ends(m - 1) \cup {EndOf(p, start, m)}
    <3>1. 1 .. m = 1 .. m - 1 \cup {m}
      OBVIOUS
    <3> QED
      BY <3>1
  <2>2. EndOf(p, start, m) \notin Ends(m - 1)
    <3> SUFFICES ASSUME NEW j \in 1 .. m - 1,
                        EndOf(p, start, m) = EndOf(p, start, j)
                 PROVE  FALSE
      OBVIOUS
    <3>1. j \in 1 .. Len(p) /\ j < m
      BY <1>1
    <3>2. EndOf(p, start, j) < start[m]
      BY <1>2, <3>1
    <3>3. /\ start[m] \in Nat /\ Len(p[m]) \in Nat
          /\ EndOf(p, start, m) = start[m] + Len(p[m])
      BY <1>1
    <3>4. EndOf(p, start, m) < start[m]
      BY <3>2
    <3> QED
      BY <3>3, <3>4
  <2>3. IsFiniteSet(Ends(m - 1)) /\ Cardinality(Ends(m - 1)) = m - 1
    BY <1>4
  <2> HIDE DEF Ends
  <2>4. /\ IsFiniteSet(Ends(m - 1) \cup {EndOf(p, start, m)})
        /\ Cardinality(Ends(m - 1) \cup {EndOf(p, start, m)})
             = Cardinality(Ends(m - 1)) + 1
    BY <2>2, <2>3, FS_AddElement
  <2>5. m \in 0 .. Len(p) /\ (m - 1) + 1 = m
    BY <1>1
  <2>6. IsFiniteSet(Ends(m)) /\ Cardinality(Ends(m)) = m
    BY <2>1, <2>3, <2>4, <2>5
  <2> QED
    BY <2>5, <2>6
<1>5. k - 1 \in T
  <2> HIDE DEF T
  <2>1. 0 .. Len(p) \subseteq T
    <3>1. Len(p) \in Nat
      BY <1>1
    <3> QED
      BY <1>3, <1>4, <3>1, InductionUpTo
  <2>2. k - 1 \in 0 .. Len(p)
    BY <1>1
  <2> QED
    BY <2>1, <2>2
<1>6. {j \in 1 .. i - 1 : t[j] = "nl"} = Ends(k - 1)
  <2>1. ASSUME NEW j \in 1 .. i - 1, t[j] = "nl" PROVE j \in Ends(k - 1)
    <3>1. j \in 1 .. Len(t) + 1 /\ j < i
      BY <1>1
    <3>2. PICK m \in 1 .. Len(p) : start[m] <= j /\ j <= EndOf(p, start, m)
      BY <1>2, <3>1
    <3> /\ start[m] \in Nat /\ Len(p[m]) \in Nat
        /\ EndOf(p, start, m) = start[m] + Len(p[m])
        /\ EndOf(p, start, m) \in Nat /\ EndOf(p, start, k) \in Nat
      BY <1>1
    <3>3. ~(k < m)
      <4> SUFFICES ASSUME k < m PROVE FALSE
        OBVIOUS
      <4>1. EndOf(p, start, k) < start[m]
        BY <1>2
      <4> QED
        BY <3>1, <3>2, <4>1
    <3>4. j = EndOf(p, start, m)
      <4> SUFFICES ASSUME j # EndOf(p, start, m) PROVE FALSE
        OBVIOUS
      <4>1. j \in Nat /\ start[m] <= j /\ j < start[m] + Len(p[m])
        BY <3>2
      <4>2. /\ j - start[m] + 1 \in 1 .. Len(p[m])
            /\ start[m] + (j - start[m] + 1) - 1 = j
        BY <4>1, PlaceNumber
      <4>3. t[start[m] + (j - start[m] + 1) - 1] # "nl"
        BY <1>2, <4>2
      <4> QED
        BY <2>1, <4>2, <4>3
    <3>5. m # k
      BY <1>1, <3>1, <3>4
    <3>6. m \in 1 .. k - 1
      BY <1>1, <3>3, <3>5
    <3> QED
      BY <3>4, <3>6
  <2>2. ASSUME NEW m \in 1 .. k - 1
        PROVE  /\ EndOf(p, start, m) \in 1 .. i - 1
               /\ t[EndOf(p, start, m)] = "nl"
    <3>1. m \in 1 .. Len(p) - 1 /\ m \in 1 .. Len(p) /\ m < k
      BY <1>1
    <3>2. EndOf(p, start, m) < start[k]
      BY <1>2, <3>1
    <3>3. t[EndOf(p, start, m)] = "nl"
      BY <1>2, <3>1
    <3>4. EndOf(p, start, m) \in 1 .. Len(t) + 1 /\ start[k] \in Nat
      BY <1>1, <3>1
    <3> QED
      BY <3>2, <3>3, <3>4
  <2> QED
    BY <2>1, <2>2
<1> QED
  BY <1>5, <1>6 DEF NewlinesBefore

(* Piece k as a line: a "\r" before its newline is not part of it.         *)
LineOf(p, k) == IF k < Len(p) THEN StripCr(p[k]) ELSE p[k]

LEMMA LineOfPiece ==
  ASSUME NEW p \in Seq(Piece), NEW k \in 1 .. Len(p)
  PROVE  /\ LineOf(p, k) \in Piece
         /\ Len(LineOf(p, k)) \in 0 .. Len(p[k])
         /\ \A i \in 1 .. Len(LineOf(p, k)) : LineOf(p, k)[i] = p[k][i]
         /\ \A i \in 1 .. Len(p[k]) :
              i <= Len(LineOf(p, k))
                <=> ~(k < Len(p) /\ i = Len(p[k]) /\ p[k][i] = "cr")
<1>1. p[k] \in Seq(Symbol) /\ Len(p[k]) \in Nat
  BY DEF Piece
<1>2. CASE k < Len(p) /\ p[k] # <<>> /\ Last(p[k]) = "cr"
  <2>1. Len(p[k]) # 0
    BY <1>1, <1>2
  <2>2. LineOf(p, k) = SubSeq(p[k], 1, Len(p[k]) - 1)
    BY <1>2 DEF LineOf, StripCr, Front
  <2>3. /\ LineOf(p, k) \in Seq(Symbol)
        /\ Len(LineOf(p, k)) = Len(p[k]) - 1
        /\ \A i \in 1 .. Len(p[k]) - 1 : LineOf(p, k)[i] = p[k][i]
    BY <1>1, <2>1, <2>2
  <2>4. p[k][Len(p[k])] = "cr"
    BY <1>2 DEF Last
  <2> QED
    BY <1>1, <1>2, <2>1, <2>3, <2>4 DEF Piece
<1>3. CASE ~(k < Len(p) /\ p[k] # <<>> /\ Last(p[k]) = "cr")
  <2>1. LineOf(p, k) = p[k]
    BY <1>3 DEF LineOf, StripCr
  <2>2. ASSUME NEW i \in 1 .. Len(p[k]), k < Len(p), i = Len(p[k])
        PROVE  p[k][i] # "cr"
    <3>1. p[k] # <<>>
      BY <1>1
    <3> QED
      BY <1>3, <2>2, <3>1 DEF Last
  <2> QED
    BY <1>1, <2>1, <2>2 DEF Piece
<1> QED
  BY <1>2, <1>3

(* The places of line k are those of its characters in the piece.          *)
LEMMA PlacesOfCut ==
  ASSUME NEW t \in Seq(Symbol), NEW p, NEW start,
         IsCut(t, Len(t), p, start), NEW k \in 1 .. Len(p)
  PROVE  LinePlaces(t, k) = start[k] .. start[k] + Len(LineOf(p, k)) - 1
<1> DEFINE q == LineOf(p, k)
<1>1. /\ p \in Seq(Piece) /\ Len(p) \in Nat \ {0} /\ Len(t) \in Nat
      /\ DOMAIN t = 1 .. Len(t)
      /\ \A m \in 1 .. Len(p) :
           /\ p[m] \in Piece /\ Len(p[m]) \in Nat
           /\ start[m] \in Nat \ {0}
           /\ EndOf(p, start, m) = start[m] + Len(p[m])
           /\ EndOf(p, start, m) \in 1 .. Len(t) + 1
           /\ m < Len(p) => EndOf(p, start, m) \in 1 .. Len(t)
  <2>1. PICK n \in Nat : n = Len(t) /\ DOMAIN t = 1 .. n
    OBVIOUS
  <2>2. n \in Nat /\ IsCut(t, n, p, start)
    BY <2>1
  <2>3. CutTyped(n, p, start)
    BY <2>2, CutIsTyped
  <2> QED
    BY <2>1, <2>3 DEF CutTyped
<1>2. /\ \A j \in 1 .. Len(t) + 1 : \E m \in 1 .. Len(p) :
           start[m] <= j /\ j <= EndOf(p, start, m)
      /\ \A m \in 1 .. Len(p) - 1 : t[EndOf(p, start, m)] = "nl"
      /\ EndOf(p, start, Len(p)) = Len(t) + 1
      /\ \A m \in 1 .. Len(p) : \A j \in 1 .. Len(p[m]) :
           p[m][j] = t[start[m] + j - 1] /\ p[m][j] # "nl"
  BY DEF IsCut
<1>3. /\ Len(q) \in 0 .. Len(p[k])
      /\ \A i \in 1 .. Len(p[k]) :
           i <= Len(q) <=> ~(k < Len(p) /\ i = Len(p[k]) /\ p[k][i] = "cr")
  BY <1>1, LineOfPiece
<1> HIDE DEF q
(* A character of the piece is in the line, or is the "\r" left out.       *)
<1>4. ASSUME NEW j \in 1 .. Len(p[k])
      PROVE  /\ start[k] + j - 1 \in DOMAIN t
             /\ NewlinesBefore(t, start[k] + j - 1) = k - 1
             /\ t[start[k] + j - 1] # "nl"
             /\ j <= Len(q)
                  <=> ~(/\ t[start[k] + j - 1] = "cr"
                        /\ start[k] + j - 1 < Len(t)
                        /\ t[start[k] + j - 1 + 1] = "nl")
  <2> DEFINE i == start[k] + j - 1
  <2>1. /\ i \in Nat /\ i \in 1 .. Len(t) /\ start[k] <= i
        /\ i < EndOf(p, start, k) /\ i + 1 = start[k] + j
    <3>1. /\ start[k] \in Nat \ {0} /\ Len(p[k]) \in Nat
          /\ EndOf(p, start, k) = start[k] + Len(p[k])
          /\ EndOf(p, start, k) <= Len(t) + 1
      BY <1>1
    <3>2. Len(t) \in Nat /\ start[k] + Len(p[k]) <= Len(t) + 1
      BY <1>1, <3>1
    <3>3. i \in 1 .. Len(t)
      BY <3>1, <3>2, PlaceInside
    <3>4. start[k] <= i /\ i < start[k] + Len(p[k]) /\ i + 1 = start[k] + j
      BY <3>1
    <3> QED
      BY <3>1, <3>3, <3>4
  <2>2. NewlinesBefore(t, i) = k - 1
    <3>1. i <= EndOf(p, start, k)
      BY <1>1, <2>1
    <3> HIDE DEF i
    <3> QED
      BY <2>1, <3>1, NewlinesOfCut
  <2>3. t[i] = p[k][j] /\ t[i] # "nl"
    BY <1>2
  <2>4. CASE j < Len(p[k])
    <3>1. j + 1 \in 1 .. Len(p[k]) /\ start[k] + (j + 1) - 1 = i + 1
      BY <1>1, <2>1, <2>4
    <3>2. t[i + 1] # "nl"
      <4>1. /\ p[k][j + 1] = t[start[k] + (j + 1) - 1]
            /\ p[k][j + 1] # "nl"
        BY <1>2, <3>1
      <4> QED
        BY <3>1, <4>1
    <3>3. j <= Len(q)
      BY <1>1, <1>3, <2>4
    <3> QED
      BY <1>1, <2>1, <2>2, <2>3, <3>2, <3>3
  <2>5. CASE j = Len(p[k]) /\ k < Len(p)
    <3>1. i + 1 = EndOf(p, start, k)
      BY <1>1, <2>1, <2>5
    <3>2. t[i + 1] = "nl"
      BY <1>1, <1>2, <2>5, <3>1
    <3>3. i < Len(t)
      BY <1>1, <2>1, <2>5, <3>1
    <3>4. j <= Len(q) <=> p[k][j] # "cr"
      BY <1>3, <2>5
    <3> QED
      BY <1>1, <2>1, <2>2, <2>3, <3>2, <3>3, <3>4
  <2>6. CASE j = Len(p[k]) /\ k = Len(p)
    <3>1. ~(i < Len(t))
      BY <1>1, <1>2, <2>1, <2>6
    <3>2. j <= Len(q)
      BY <1>1, <1>3, <2>6
    <3> QED
      BY <1>1, <2>1, <2>2, <2>3, <3>1, <3>2
  <2> QED
    BY <1>1, <2>4, <2>5, <2>6
(* A place of the line is in the piece.                                    *)
<1>5. ASSUME NEW i \in DOMAIN t, NewlinesBefore(t, i) = k - 1, t[i] # "nl"
      PROVE  i - start[k] + 1 \in 1 .. Len(p[k])
  <2>1. i \in 1 .. Len(t) + 1 /\ i \in Nat /\ i <= Len(t)
    BY <1>1
  <2>2. PICK m \in 1 .. Len(p) : start[m] <= i /\ i <= EndOf(p, start, m)
    BY <1>2, <2>1
  <2>3. NewlinesBefore(t, i) = m - 1
    BY <2>1, <2>2, NewlinesOfCut
  <2>4. m = k
    BY <1>1, <1>5, <2>3
  <2>5. i # EndOf(p, start, k)
    <3>1. CASE k < Len(p)
      BY <1>1, <1>2, <1>5, <3>1
    <3>2. CASE k = Len(p)
      BY <1>1, <1>2, <2>1, <3>2
    <3> QED
      BY <1>1, <3>1, <3>2
  <2>6. /\ start[k] \in Nat /\ Len(p[k]) \in Nat
        /\ EndOf(p, start, k) = start[k] + Len(p[k])
    BY <1>1
  <2>7. start[k] <= i /\ i < start[k] + Len(p[k])
    BY <2>1, <2>2, <2>4, <2>5, <2>6
  <2> QED
    BY <2>1, <2>6, <2>7, PlaceNumber
<1>6. ASSUME NEW i \in LinePlaces(t, k)
      PROVE  i \in start[k] .. start[k] + Len(q) - 1
  <2>1. /\ i \in DOMAIN t /\ NewlinesBefore(t, i) = k - 1 /\ t[i] # "nl"
        /\ ~(t[i] = "cr" /\ i < Len(t) /\ t[i + 1] = "nl")
    BY <1>6 DEF LinePlaces
  <2>2. i - start[k] + 1 \in 1 .. Len(p[k])
    BY <1>5, <2>1
  <2>3. start[k] + (i - start[k] + 1) - 1 = i /\ i \in Nat
    BY <1>1, <2>1
  <2>4. i - start[k] + 1 <= Len(q)
    BY <1>4, <2>1, <2>2, <2>3
  <2>5. start[k] \in Nat /\ Len(q) \in Nat
    BY <1>1, <1>3
  <2> QED
    BY <2>2, <2>3, <2>4, <2>5
<1>7. ASSUME NEW i \in start[k] .. start[k] + Len(q) - 1
      PROVE  i \in LinePlaces(t, k)
  <2>1. /\ i - start[k] + 1 \in 1 .. Len(p[k]) /\ i - start[k] + 1 <= Len(q)
        /\ start[k] + (i - start[k] + 1) - 1 = i
    <3>1. /\ start[k] \in Nat \ {0} /\ Len(q) \in Nat /\ Len(p[k]) \in Nat
          /\ Len(q) <= Len(p[k])
      BY <1>1, <1>3
    <3>2. i \in Nat /\ start[k] <= i /\ i < start[k] + Len(q)
      BY <3>1
    <3>3. /\ i - start[k] + 1 \in 1 .. Len(q)
          /\ start[k] + (i - start[k] + 1) - 1 = i
      BY <3>1, <3>2, PlaceNumber
    <3> QED
      BY <3>1, <3>3
  <2>2. /\ i \in DOMAIN t /\ NewlinesBefore(t, i) = k - 1 /\ t[i] # "nl"
        /\ ~(t[i] = "cr" /\ i < Len(t) /\ t[i + 1] = "nl")
    BY <1>4, <2>1
  <2> QED
    BY <2>2 DEF LinePlaces
<1> QED
  BY <1>6, <1>7 DEF q


(* A text is complete when its last piece is empty.                        *)
LEMMA CompletedCut ==
  ASSUME NEW t \in Seq(Symbol), NEW p, NEW start,
         IsCut(t, Len(t), p, start)
  PROVE  t = <<>> \/ IsCompleted(t) <=> p[Len(p)] = <<>>
<1> DEFINE last == Len(p)
<1>1. /\ Len(p) \in Nat \ {0} /\ Len(t) \in Nat
      /\ \A m \in 1 .. Len(p) :
           /\ p[m] \in Piece /\ Len(p[m]) \in Nat
           /\ start[m] \in Nat \ {0}
           /\ EndOf(p, start, m) = start[m] + Len(p[m])
           /\ EndOf(p, start, m) \in 1 .. Len(t) + 1
  <2>1. Len(t) \in Nat
    OBVIOUS
  <2>2. Len(p) \in Nat \ {0}
    BY <2>1, CutTypes
  <2>3. ASSUME NEW m \in 1 .. Len(p)
        PROVE  /\ p[m] \in Piece /\ Len(p[m]) \in Nat
               /\ start[m] \in Nat \ {0}
               /\ EndOf(p, start, m) = start[m] + Len(p[m])
               /\ EndOf(p, start, m) \in 1 .. Len(t) + 1
    <3>1. /\ p[m] \in Piece /\ Len(p[m]) \in Nat
          /\ DOMAIN p[m] = 1 .. Len(p[m])
          /\ start[m] \in Nat \ {0}
          /\ EndOf(p, start, m) = start[m] + Len(p[m])
          /\ EndOf(p, start, m) \in 1 .. Len(t) + 1
          /\ m < Len(p) => EndOf(p, start, m) \in 1 .. Len(t)
      BY <2>1, CutTypes, Zenon
    <3> QED
      BY <3>1
  <2> QED
    BY <2>1, <2>2, <2>3
<1>2. /\ \A m, l \in 1 .. last : m < l => EndOf(p, start, m) < start[l]
      /\ \A j \in 1 .. Len(t) + 1 : \E m \in 1 .. last :
           start[m] <= j /\ j <= EndOf(p, start, m)
      /\ \A m \in 1 .. last - 1 : t[EndOf(p, start, m)] = "nl"
      /\ EndOf(p, start, last) = Len(t) + 1
      /\ \A m \in 1 .. last : \A j \in 1 .. Len(p[m]) :
           p[m][j] = t[start[m] + j - 1] /\ p[m][j] # "nl"
  BY DEF IsCut
<1>3. /\ last \in 1 .. last /\ start[last] \in Nat \ {0}
      /\ Len(p[last]) \in Nat /\ start[last] + Len(p[last]) = Len(t) + 1
      /\ p[last] \in Seq(Symbol)
  BY <1>1, <1>2 DEF Piece
<1>4. CASE p[last] = <<>>
  <2>1. start[last] = Len(t) + 1
    BY <1>3, <1>4
  <2>2. SUFFICES ASSUME t # <<>> PROVE t[Len(t)] = "nl"
    BY <1>4 DEF IsCompleted
  <2>3. Len(t) \in 1 .. Len(t) + 1
    <3>1. Len(t) # 0
      BY <1>1, <2>2
    <3> QED
      BY <1>1, <3>1
  <2>4. PICK m \in 1 .. last :
          start[m] <= Len(t) /\ Len(t) <= EndOf(p, start, m)
    BY <1>2, <2>3
  <2>5. m \in 1 .. last - 1
    BY <1>1, <2>1, <2>4
  <2>6. EndOf(p, start, m) < start[last] /\ EndOf(p, start, m) \in Nat
    <3>1. m < last
      BY <1>1, <2>5
    <3>2. EndOf(p, start, m) < start[last]
      BY <1>2, <1>3, <3>1
    <3>3. EndOf(p, start, m) \in 1 .. Len(t) + 1
      BY <1>1
    <3> QED
      BY <3>2, <3>3
  <2>7. EndOf(p, start, m) = Len(t)
    BY <1>1, <2>1, <2>4, <2>6
  <2> QED
    BY <1>2, <2>5, <2>7
<1>5. CASE p[last] # <<>>
  <2>1. Len(p[last]) \in 1 .. Len(p[last])
    BY <1>3, <1>5
  <2>2. start[last] + Len(p[last]) - 1 = Len(t) /\ Len(t) # 0
    BY <1>1, <1>3, <2>1
  <2>3. t[Len(t)] # "nl"
    BY <1>2, <1>3, <2>1, <2>2
  <2> QED
    BY <1>5, <2>2, <2>3 DEF IsCompleted
<1> QED
  BY <1>4, <1>5

(* Its lines are its pieces, but for an empty one at the end.              *)
LEMMA LinesOfCut ==
  ASSUME NEW t \in Seq(Symbol), NEW p, NEW start,
         IsCut(t, Len(t), p, start)
  PROVE  /\ LineCount(t) = IF p[Len(p)] = <<>> THEN Len(p) - 1 ELSE Len(p)
         /\ lines(t) = [k \in 1 .. LineCount(t) |-> LineOf(p, k)]
<1>1. /\ p \in Seq(Piece) /\ Len(p) \in Nat \ {0} /\ Len(t) \in Nat
      /\ \A m \in 1 .. Len(p) :
           /\ p[m] \in Piece /\ Len(p[m]) \in Nat
           /\ start[m] \in Nat \ {0}
           /\ EndOf(p, start, m) = start[m] + Len(p[m])
  <2>1. Len(t) \in Nat
    OBVIOUS
  <2>2. p \in Seq(Piece) /\ Len(p) \in Nat \ {0}
    BY <2>1, CutTypes
  <2>3. ASSUME NEW m \in 1 .. Len(p)
        PROVE  /\ p[m] \in Piece /\ Len(p[m]) \in Nat
               /\ start[m] \in Nat \ {0}
               /\ EndOf(p, start, m) = start[m] + Len(p[m])
    <3>1. /\ p[m] \in Piece /\ Len(p[m]) \in Nat
          /\ DOMAIN p[m] = 1 .. Len(p[m])
          /\ start[m] \in Nat \ {0}
          /\ EndOf(p, start, m) = start[m] + Len(p[m])
          /\ EndOf(p, start, m) \in 1 .. Len(t) + 1
          /\ m < Len(p) => EndOf(p, start, m) \in 1 .. Len(t)
      BY <2>1, CutTypes, Zenon
    <3> QED
      BY <3>1
  <2> QED
    BY <2>1, <2>2, <2>3
<1>2. /\ EndOf(p, start, Len(p)) = Len(t) + 1
      /\ \A m \in 1 .. Len(p) : \A j \in 1 .. Len(p[m]) :
           p[m][j] = t[start[m] + j - 1]
  BY DEF IsCut
<1>3. LineCount(t) = IF p[Len(p)] = <<>> THEN Len(p) - 1 ELSE Len(p)
  <2>1. /\ Len(p) \in 1 .. Len(p) /\ Len(t) + 1 \in Nat
        /\ start[Len(p)] <= Len(t) + 1
        /\ Len(t) + 1 <= EndOf(p, start, Len(p))
    <3>1. /\ Len(p) \in 1 .. Len(p)
          /\ Len(p[Len(p)]) \in Nat /\ start[Len(p)] \in Nat
          /\ start[Len(p)] + Len(p[Len(p)]) = Len(t) + 1
      BY <1>1, <1>2
    <3> QED
      BY <1>1, <1>2, <3>1
  <2>2. NewlinesBefore(t, Len(t) + 1) = Len(p) - 1
    BY <2>1, NewlinesOfCut
  <2>3. t = <<>> \/ IsCompleted(t) <=> p[Len(p)] = <<>>
    BY CompletedCut
  <2> QED
    BY <1>1, <2>2, <2>3 DEF LineCount
<1>4. ASSUME NEW k \in 1 .. LineCount(t)
      PROVE  LineOf(p, k) =
               LET places == LinePlaces(t, k)
                   first  == CHOOSE i \in places : \A j \in places : i <= j
               IN  [n \in 1 .. Cardinality(places) |-> t[first + n - 1]]
  <2> DEFINE q == LineOf(p, k)
             places == LinePlaces(t, k)
             first == CHOOSE i \in places : \A j \in places : i <= j
  <2>1. k \in 1 .. Len(p)
    BY <1>1, <1>3
  <2>2. /\ q \in Piece /\ Len(q) \in 0 .. Len(p[k])
        /\ \A i \in 1 .. Len(q) : q[i] = p[k][i]
    BY <1>1, <2>1, LineOfPiece
  <2>3. places = start[k] .. start[k] + Len(q) - 1
    BY <2>1, PlacesOfCut
  <2>4. start[k] \in Nat \ {0} /\ Len(q) \in Nat /\ Len(p[k]) \in Nat
    BY <1>1, <2>1, <2>2
  <2> HIDE DEF places
  <2>5. Cardinality(places) = Len(q)
    <3>1. start[k] \in Int /\ start[k] + Len(q) - 1 \in Int
      BY <2>4
    <3>2. \A a, b \in Int :
            Cardinality(a .. b) = IF a > b THEN 0 ELSE b - a + 1
      BY FS_Interval
    <3> HIDE DEF q
    <3>3. PICK b \in Int : b = start[k] + Len(q) - 1
      BY <3>1
    <3>4. Cardinality(start[k] .. b) = IF start[k] > b THEN 0
                                       ELSE b - start[k] + 1
      BY <3>1, <3>2
    <3> QED
      BY <2>3, <2>4, <3>3, <3>4
  <2>6. ASSUME NEW n \in 1 .. Len(q) PROVE q[n] = t[first + n - 1]
    <3>1. start[k] \in places /\ \A j \in places : start[k] <= j
      BY <2>3, <2>4
    <3>2. \A i, j \in places : i <= j /\ j <= i => i = j
      BY <2>3, <2>4
    <3>3. first \in places /\ \A j \in places : first <= j
      <4>1. \E i \in places : \A j \in places : i <= j
        BY <3>1
      <4> QED
        BY <4>1
    <3> HIDE DEF first
    <3>4. first = start[k]
      BY <3>1, <3>2, <3>3
    <3>5. n \in 1 .. Len(p[k])
      BY <2>2, <2>4
    <3> QED
      BY <1>2, <2>1, <2>2, <3>4, <3>5
  <2>7. q = [n \in 1 .. Len(q) |-> q[n]]
    <3> HIDE DEF q
    <3> QED
      BY <2>2 DEF Piece
  <2> HIDE DEF first, q
  <2>8. q = [n \in 1 .. Cardinality(places) |-> t[first + n - 1]]
    BY <2>5, <2>6, <2>7
  <2> QED
    BY <2>8 DEF q, places, first
<1>5. lines(t) = [k \in 1 .. LineCount(t) |-> LineOf(p, k)]
  BY <1>4 DEF lines
<1> QED
  BY <1>3, <1>5

(* What push_chunk and finish make of the pieces of a text.                *)
LEMMA PushedOfCut ==
  ASSUME NEW t \in Seq(Symbol), NEW p, NEW start,
         IsCut(t, Len(t), p, start)
  PROVE  /\ CompletedLines(t) = CompleteLines(p)
         /\ Remainder(t) = Last(p)
         /\ lines(t) = CompleteLines(p) \o
                         (IF Last(p) = <<>> THEN <<>> ELSE <<Last(p)>>)
         /\ CompleteLines(p) \in Seq(Piece)
<1>1. p \in Seq(Piece) /\ Len(p) \in Nat \ {0} /\ Last(p) = p[Len(p)]
      /\ p[Len(p)] \in Piece
  <2>1. p \in Seq(Piece) /\ Len(p) \in Nat \ {0}
    <3>1. Len(t) \in Nat
      OBVIOUS
    <3> QED
      BY <3>1, CutTypes
  <2> QED
    BY <2>1 DEF Last
<1>2. /\ LineCount(t) = IF p[Len(p)] = <<>> THEN Len(p) - 1 ELSE Len(p)
      /\ lines(t) = [k \in 1 .. LineCount(t) |-> LineOf(p, k)]
      /\ t = <<>> \/ IsCompleted(t) <=> p[Len(p)] = <<>>
  BY LinesOfCut, CompletedCut
<1>3. \A k \in 1 .. Len(p) - 1 : StripCr(p[k]) = LineOf(p, k)
                                 /\ LineOf(p, k) \in Piece
  <2> SUFFICES ASSUME NEW k \in 1 .. Len(p) - 1
               PROVE  StripCr(p[k]) = LineOf(p, k) /\ LineOf(p, k) \in Piece
    OBVIOUS
  <2>1. k \in 1 .. Len(p) /\ k < Len(p)
    BY <1>1
  <2>2. LineOf(p, k) \in Piece
    BY <1>1, <2>1, LineOfPiece
  <2> QED
    BY <2>1, <2>2 DEF LineOf
<1>4. CompleteLines(p) = [k \in 1 .. Len(p) - 1 |-> LineOf(p, k)]
  BY <1>3 DEF CompleteLines
<1>5. /\ CompleteLines(p) \in Seq(Piece) /\ Len(CompleteLines(p)) = Len(p) - 1
      /\ \A k \in 1 .. Len(p) - 1 : CompleteLines(p)[k] = LineOf(p, k)
  BY <1>1, <1>3, <1>4
<1>6. CASE p[Len(p)] = <<>>
  <2>1. lines(t) = CompleteLines(p)
    BY <1>2, <1>4, <1>6
  <2>2. CompleteLines(p) \o <<>> = CompleteLines(p)
    BY <1>5
  <2> QED
    BY <1>1, <1>2, <1>5, <1>6, <2>1, <2>2 DEF CompletedLines, Remainder
<1>7. CASE p[Len(p)] # <<>>
  <2>1. LineOf(p, Len(p)) = p[Len(p)]
    BY <1>1 DEF LineOf
  <2>2. lines(t) = [k \in 1 .. Len(p) |-> LineOf(p, k)]
    BY <1>2, <1>7
  <2>3. \A k \in 1 .. Len(p) : LineOf(p, k) \in Piece
    BY <1>1, <1>3, <2>1
  <2>4. /\ lines(t) \in Seq(Piece) /\ Len(lines(t)) = Len(p)
        /\ \A k \in 1 .. Len(p) : lines(t)[k] = LineOf(p, k)
    BY <1>1, <2>2, <2>3
  <2>5. Last(lines(t)) = p[Len(p)]
    BY <1>1, <2>1, <2>4 DEF Last
  <2>6. Front(lines(t)) = CompleteLines(p)
    <3>1. Front(lines(t)) = SubSeq(lines(t), 1, Len(p) - 1)
      BY <2>4 DEF Front
    <3>2. /\ Front(lines(t)) \in Seq(Piece)
          /\ Len(Front(lines(t))) = Len(p) - 1
          /\ \A k \in 1 .. Len(p) - 1 : Front(lines(t))[k] = LineOf(p, k)
      BY <1>1, <2>4, <3>1
    <3> HIDE DEF Front
    <3> QED
      BY <1>5, <3>2
  <2>7. lines(t) = CompleteLines(p) \o <<Last(p)>>
    <3> DEFINE both == CompleteLines(p) \o <<p[Len(p)]>>
    <3>1. /\ both \in Seq(Piece) /\ Len(both) = Len(p)
          /\ \A k \in 1 .. Len(p) - 1 : both[k] = LineOf(p, k)
          /\ both[Len(p)] = p[Len(p)]
      BY <1>1, <1>5
    <3> HIDE DEF both
    <3>2. \A k \in 1 .. Len(p) : both[k] = lines(t)[k]
      BY <1>1, <2>1, <2>4, <3>1
    <3>3. both = lines(t)
      BY <2>4, <3>1, <3>2
    <3> QED
      BY <1>1, <3>3 DEF both
  <2> QED
    BY <1>1, <1>2, <1>5, <1>7, <2>5, <2>6, <2>7 DEF CompletedLines, Remainder
<1> QED
  BY <1>6, <1>7


-----------------------------------------------------------------------------
(* Two sequences in a row, and a sequence without its last member.         *)
Joined(x, y) == x \o y

Follows(z, x, y) ==
  /\ Len(x) \in Nat /\ Len(y) \in Nat
  /\ Len(z) = Len(x) + Len(y)
  /\ \A i \in 1 .. Len(x) : z[i] = x[i]
  /\ \A i \in 1 .. Len(y) : z[Len(x) + i] = y[i]

LEMMA JoinedFacts ==
  ASSUME NEW S, NEW x \in Seq(S), NEW y \in Seq(S)
  PROVE  Joined(x, y) \in Seq(S) /\ Follows(Joined(x, y), x, y)
  BY DEF Joined, Follows

LEMMA FrontFacts ==
  ASSUME NEW S, NEW x \in Seq(S), x # <<>>
  PROVE  /\ Front(x) \in Seq(S) /\ Len(Front(x)) = Len(x) - 1
         /\ \A i \in 1 .. Len(x) - 1 : Front(x)[i] = x[i]
<1>1. Len(x) \in Nat \ {0}
  OBVIOUS
<1> DEFINE n == Len(x) - 1
<1>2. Front(x) = SubSeq(x, 1, n)
  BY DEF Front
<1>3. n \in Nat /\ n <= Len(x)
  BY <1>1
<1> HIDE DEF n
<1>4. /\ SubSeq(x, 1, n) \in Seq(S) /\ Len(SubSeq(x, 1, n)) = n
      /\ \A i \in 1 .. n : SubSeq(x, 1, n)[i] = x[i]
  BY <1>1, <1>3
<1> QED
  BY <1>2, <1>4 DEF n

(* The pieces of a text and a chunk: the last piece of the text, with the  *)
(* chunk behind it, is cut, and the pieces before it stay.                 *)
LEMMA CutOfConcat ==
  ASSUME NEW t, NEW u, NEW p, NEW s, NEW q, NEW r
  PROVE  /\ t \in Seq(Symbol) /\ u \in Seq(Symbol)
         /\ IsCut(t, Len(t), p, s)
         /\ IsCut(Joined(Last(p), u), Len(Joined(Last(p), u)), q, r)
         => \E z : IsCut(Joined(t, u), Len(Joined(t, u)),
                         Joined(Front(p), q), z)
<1> DEFINE a == Len(p)
           b == Len(q)
           v == Joined(Last(p), u)
           tu == Joined(t, u)
           w == Joined(Front(p), q)
           base == s[a] - 1
           z == [k \in 1 .. a - 1 + b |->
                   IF k < a THEN s[k] ELSE base + r[k - a + 1]]
<1>a. SUFFICES ASSUME t \in Seq(Symbol), u \in Seq(Symbol),
                      IsCut(t, Len(t), p, s), IsCut(v, Len(v), q, r)
               PROVE  \E y : IsCut(tu, Len(tu), w, y)
  OBVIOUS
<1> HIDE DEF v, tu, w, base, a, b, z
<1>1. /\ p \in Seq(Piece) /\ a \in Nat \ {0} /\ Len(t) \in Nat
      /\ \A k \in 1 .. a :
           /\ p[k] \in Piece /\ Len(p[k]) \in Nat
           /\ DOMAIN p[k] = 1 .. Len(p[k])
           /\ s[k] \in Nat \ {0}
           /\ EndOf(p, s, k) = s[k] + Len(p[k])
           /\ EndOf(p, s, k) \in 1 .. Len(t) + 1
           /\ k < a => EndOf(p, s, k) \in 1 .. Len(t)
  <2>1. Len(t) \in Nat
    BY <1>a
  <2> QED
    BY <1>a, <2>1, CutTypes DEF a
<1>2. /\ \A k, l \in 1 .. a : k < l => EndOf(p, s, k) < s[l]
      /\ \A i \in 1 .. Len(t) + 1 : \E k \in 1 .. a :
           s[k] <= i /\ i <= EndOf(p, s, k)
      /\ \A k \in 1 .. a - 1 : t[EndOf(p, s, k)] = "nl"
      /\ EndOf(p, s, a) = Len(t) + 1
      /\ \A k \in 1 .. a : \A i \in 1 .. Len(p[k]) :
           p[k][i] = t[s[k] + i - 1] /\ p[k][i] # "nl"
  BY <1>a DEF IsCut, a
<1>3. /\ a \in 1 .. a /\ Last(p) = p[a] /\ p[a] \in Seq(Symbol)
      /\ Len(p[a]) \in Nat /\ s[a] \in Nat \ {0} /\ base \in Nat
      /\ base + Len(p[a]) = Len(t) /\ base + 1 = s[a]
  <2>1. a \in 1 .. a
    BY <1>1
  <2>2. Len(p[a]) \in Nat /\ s[a] \in Nat \ {0} /\ p[a] \in Piece
        /\ s[a] + Len(p[a]) = Len(t) + 1
    BY <1>1, <1>2, <2>1
  <2>3. Last(p) = p[a] /\ p[a] \in Seq(Symbol)
    BY <2>2 DEF Last, Piece, a
  <2>4. Len(t) \in Nat
    BY <1>a
  <2>5. base \in Nat /\ base + Len(p[a]) = Len(t) /\ base + 1 = s[a]
    BY SMTT(20), <2>2, <2>4 DEF base
  <2> QED
    BY <2>1, <2>2, <2>3, <2>5
<1>4. /\ v \in Seq(Symbol) /\ Len(v) = Len(p[a]) + Len(u)
      /\ Len(u) \in Nat /\ Len(v) \in Nat
      /\ tu \in Seq(Symbol) /\ Len(tu) = Len(t) + Len(u)
      /\ \A i \in 1 .. Len(t) : tu[i] = t[i]
      /\ \A i \in 1 .. Len(u) : tu[Len(t) + i] = u[i]
      /\ \A i \in 1 .. Len(p[a]) : v[i] = p[a][i]
      /\ \A i \in 1 .. Len(u) : v[Len(p[a]) + i] = u[i]
      /\ base + Len(v) = Len(tu)
  <2>0. Last(p) \in Seq(Symbol) /\ Last(p) = p[a]
    BY <1>3
  <2>a. /\ v \in Seq(Symbol) /\ Len(v) = Len(p[a]) + Len(u)
        /\ Len(u) \in Nat
        /\ \A i \in 1 .. Len(p[a]) : v[i] = p[a][i]
        /\ \A i \in 1 .. Len(u) : v[Len(p[a]) + i] = u[i]
    <3>1. /\ p[a] \in Seq(Symbol) /\ u \in Seq(Symbol)
          /\ v = Joined(p[a], u)
      BY <1>a, <1>3 DEF v
    <3>2. v \in Seq(Symbol) /\ Follows(v, p[a], u)
      BY <3>1, JoinedFacts
    <3> QED
      BY <3>2 DEF Follows
  <2>1. Len(v) = Len(p[a]) + Len(u) /\ Len(u) \in Nat
    BY <2>a
  <2>b. /\ tu \in Seq(Symbol) /\ Len(tu) = Len(t) + Len(u)
        /\ \A i \in 1 .. Len(t) : tu[i] = t[i]
        /\ \A i \in 1 .. Len(u) : tu[Len(t) + i] = u[i]
    <3>1. tu \in Seq(Symbol) /\ Follows(tu, t, u)
      BY <1>a, JoinedFacts DEF tu
    <3> QED
      BY <3>1 DEF Follows
  <2>2. Len(tu) = Len(t) + Len(u)
    BY <2>b
  <2>3. Len(t) \in Nat /\ Len(p[a]) \in Nat /\ base \in Nat
        /\ base + Len(p[a]) = Len(t)
    BY <1>1, <1>3
  <2>4. Len(v) \in Nat /\ base + Len(v) = Len(tu)
    BY <2>1, <2>2, <2>3
  <2> QED
    BY <2>1, <2>a, <2>b, <2>4
<1>n. /\ Len(t) \in Nat /\ Len(p[a]) \in Nat /\ Len(u) \in Nat
      /\ Len(v) \in Nat /\ base \in Nat /\ s[a] \in Nat \ {0}
      /\ Len(v) = Len(p[a]) + Len(u) /\ Len(tu) = Len(t) + Len(u)
      /\ base + Len(p[a]) = Len(t) /\ base + 1 = s[a]
      /\ a \in Nat \ {0}
  BY <1>1, <1>3, <1>4
<1>5. ASSUME NEW i \in 1 .. Len(v) PROVE tu[base + i] = v[i]
  <2>1. CASE i \in 1 .. Len(p[a])
    <3>1. v[i] = p[a][i]
      BY <1>4, <2>1
    <3>2. base + i \in 1 .. Len(t) /\ s[a] + i - 1 = base + i
      BY SMTT(20), <1>n, <2>1
    <3>3. p[a][i] = t[s[a] + i - 1]
      BY <1>2, <1>3, <2>1
    <3> QED
      BY <1>4, <3>1, <3>2, <3>3
  <2>2. CASE i \notin 1 .. Len(p[a])
    <3>0. i \in Nat /\ i > Len(p[a]) /\ i <= Len(p[a]) + Len(u)
      BY <1>n, <2>2
    <3>1. PICK j \in 1 .. Len(u) : /\ Len(p[a]) + j = i
                                  /\ base + i = Len(t) + j
      <4> DEFINE j == i - Len(p[a])
      <4>1. j \in 1 .. Len(u) /\ Len(p[a]) + j = i
        BY <1>n, <3>0
      <4>2. /\ base \in Nat /\ Len(p[a]) \in Nat
            /\ base + Len(p[a]) = Len(t)
        BY <1>n
      <4> HIDE DEF j
      <4>3. base + i = Len(t) + j
        BY <3>0, <4>1, <4>2
      <4> QED
        BY <4>1, <4>3
    <3>2. v[Len(p[a]) + j] = u[j]
      BY <1>4, <3>1
    <3>3. tu[Len(t) + j] = u[j]
      BY <1>4, <3>1
    <3> QED
      BY <3>1, <3>2, <3>3
  <2> QED
    BY <2>1, <2>2
<1>6. /\ q \in Seq(Piece) /\ b \in Nat \ {0}
      /\ \A k \in 1 .. b :
           /\ q[k] \in Piece /\ Len(q[k]) \in Nat
           /\ DOMAIN q[k] = 1 .. Len(q[k])
           /\ r[k] \in Nat \ {0}
           /\ EndOf(q, r, k) = r[k] + Len(q[k])
           /\ EndOf(q, r, k) \in 1 .. Len(v) + 1
           /\ k < b => EndOf(q, r, k) \in 1 .. Len(v)
  <2>1. Len(v) \in Nat
    BY <1>n
  <2> QED
    BY <1>a, <2>1, CutTypes DEF b
<1>7. /\ \A k, l \in 1 .. b : k < l => EndOf(q, r, k) < r[l]
      /\ \A i \in 1 .. Len(v) + 1 : \E k \in 1 .. b :
           r[k] <= i /\ i <= EndOf(q, r, k)
      /\ \A k \in 1 .. b - 1 : v[EndOf(q, r, k)] = "nl"
      /\ EndOf(q, r, b) = Len(v) + 1
      /\ \A k \in 1 .. b : \A i \in 1 .. Len(q[k]) :
           q[k][i] = v[r[k] + i - 1] /\ q[k][i] # "nl"
  BY <1>a DEF IsCut, b
<1>8. /\ w \in Pieces /\ Len(w) = a - 1 + b
      /\ \A k \in 1 .. a - 1 : w[k] = p[k]
      /\ \A j \in 1 .. b : w[a - 1 + j] = q[j]
  <2>1. /\ Front(p) \in Seq(Piece) /\ Len(Front(p)) = a - 1
        /\ \A k \in 1 .. a - 1 : Front(p)[k] = p[k]
    <3>1. p # <<>>
      BY <1>1 DEF a
    <3> QED
      BY <1>1, <3>1, FrontFacts DEF a
  <2>2. /\ w \in Seq(Piece) /\ Len(w) = Len(Front(p)) + b
        /\ \A k \in 1 .. Len(Front(p)) : w[k] = Front(p)[k]
        /\ \A j \in 1 .. b : w[Len(Front(p)) + j] = q[j]
    <3>1. Front(p) \in Seq(Piece) /\ q \in Seq(Piece)
      BY <1>6, <2>1
    <3> QED
      <4>1. w \in Seq(Piece) /\ Follows(w, Front(p), q)
        BY <3>1, JoinedFacts DEF w
      <4> QED
        BY <4>1 DEF Follows, b
  <2>3. Len(w) = a - 1 + b /\ Len(w) # 0
    BY <1>1, <1>6, <2>1, <2>2
  <2>4. w # <<>>
    BY <2>3
  <2> QED
    BY <2>1, <2>2, <2>3, <2>4 DEF Pieces
<1>9. /\ z \in [1 .. a - 1 + b -> Nat \ {0}]
      /\ \A k \in 1 .. a - 1 : z[k] = s[k]
      /\ \A j \in 1 .. b : z[a - 1 + j] = base + r[j]
  <2>1. ASSUME NEW k \in 1 .. a - 1 PROVE z[k] = s[k] /\ s[k] \in Nat \ {0}
    <3>1. k \in 1 .. a - 1 + b /\ k < a /\ k \in 1 .. a
      BY <1>1, <1>6
    <3>2. z[k] = s[k]
      BY <3>1 DEF z
    <3> QED
      BY <1>1, <3>1, <3>2
  <2>2. ASSUME NEW j \in 1 .. b
        PROVE  z[a - 1 + j] = base + r[j] /\ base + r[j] \in Nat \ {0}
    <3>1. /\ a - 1 + j \in 1 .. a - 1 + b /\ ~(a - 1 + j < a)
          /\ (a - 1 + j) - a + 1 = j
      <4>1. b \in Nat \ {0}
        BY <1>6
      <4> QED
        BY <1>n, <4>1
    <3>2. r[j] \in Nat \ {0}
      BY <1>6
    <3>3. z[a - 1 + j] = base + r[(a - 1 + j) - a + 1]
      <4> DEFINE k == a - 1 + j
      <4>1. k \in 1 .. a - 1 + b /\ ~(k < a)
        BY <3>1
      <4> HIDE DEF k
      <4>2. z[k] = base + r[k - a + 1]
        BY <4>1 DEF z
      <4> QED
        BY <4>2 DEF k
    <3>4. z[a - 1 + j] = base + r[j]
      BY <3>1, <3>3
    <3> QED
      BY SMTT(20), <1>n, <3>2, <3>4
  <2>3. ASSUME NEW k \in 1 .. a - 1 + b
        PROVE  k \in 1 .. a - 1 \/ \E j \in 1 .. b : k = a - 1 + j
    <3>1. CASE k < a
      BY <1>1, <1>6, <3>1
    <3>2. CASE ~(k < a)
      <4>1. k - (a - 1) \in 1 .. b /\ k = a - 1 + (k - (a - 1))
        BY <1>1, <1>6, <3>2
      <4> QED
        BY <4>1
    <3> QED
      BY <3>1, <3>2
  <2>5. z = [k \in 1 .. a - 1 + b |-> z[k]]
    BY DEF z
  <2>6. \A k \in 1 .. a - 1 + b : z[k] \in Nat \ {0}
    BY <2>1, <2>2, <2>3
  <2> QED
    BY <2>1, <2>2, <2>5, <2>6
(* Every number of a piece is one of the text's or one of the chunk's.     *)
<1>10. ASSUME NEW k \in 1 .. a - 1 + b
       PROVE  k \in 1 .. a - 1 \/ \E j \in 1 .. b : k = a - 1 + j
  <2>1. CASE k < a
    BY <1>1, <1>6, <2>1
  <2>2. CASE ~(k < a)
    <3>1. k - (a - 1) \in 1 .. b /\ k = a - 1 + (k - (a - 1))
      BY <1>1, <1>6, <2>2
    <3> QED
      BY <3>1
  <2> QED
    BY <2>1, <2>2
<1>11. ASSUME NEW k \in 1 .. a - 1
       PROVE  /\ k \in 1 .. a /\ k < a /\ k \in 1 .. a - 1 + b
              /\ EndOf(w, z, k) = EndOf(p, s, k)
              /\ EndOf(p, s, k) \in 1 .. Len(t) /\ EndOf(p, s, k) < s[a]
              /\ s[k] \in Nat \ {0} /\ Len(p[k]) \in Nat
              /\ EndOf(p, s, k) = s[k] + Len(p[k])
  <2>1. k \in 1 .. a /\ k < a /\ k \in 1 .. a - 1 + b
    BY <1>1, <1>6
  <2>2. EndOf(p, s, k) < s[a]
    BY <1>2, <1>3, <2>1
  <2>3. EndOf(w, z, k) = s[k] + Len(p[k])
    BY <1>8, <1>9 DEF EndOf
  <2> QED
    BY <1>1, <2>1, <2>2, <2>3
<1>12. ASSUME NEW j \in 1 .. b
       PROVE  /\ a - 1 + j \in 1 .. a - 1 + b
              /\ EndOf(w, z, a - 1 + j) = base + EndOf(q, r, j)
              /\ r[j] \in Nat \ {0} /\ Len(q[j]) \in Nat
              /\ EndOf(q, r, j) = r[j] + Len(q[j])
              /\ EndOf(q, r, j) \in 1 .. Len(v) + 1
              /\ j < b => EndOf(q, r, j) \in 1 .. Len(v)
  <2>1. /\ r[j] \in Nat \ {0} /\ Len(q[j]) \in Nat
        /\ EndOf(q, r, j) = r[j] + Len(q[j])
        /\ EndOf(q, r, j) \in 1 .. Len(v) + 1
        /\ j < b => EndOf(q, r, j) \in 1 .. Len(v)
    BY <1>6
  <2>2. EndOf(w, z, a - 1 + j) = base + r[j] + Len(q[j])
    BY <1>8, <1>9 DEF EndOf
  <2>3. a - 1 + j \in 1 .. a - 1 + b
    BY <1>1, <1>6
  <2> QED
    BY SMTT(20), <1>3, <2>1, <2>2, <2>3
<1>13. ASSUME NEW k \in 1 .. a - 1 + b, NEW l \in 1 .. a - 1 + b, k < l
       PROVE  EndOf(w, z, k) < z[l]
  <2>1. CASE k \in 1 .. a - 1 /\ l \in 1 .. a - 1
    BY <1>2, <1>9, <1>11, <1>13, <2>1
  <2>2. CASE k \in 1 .. a - 1 /\ \E j \in 1 .. b : l = a - 1 + j
    <3>1. PICK j \in 1 .. b : l = a - 1 + j
      BY <2>2
    <3>2. z[l] = base + r[j] /\ r[j] \in Nat \ {0}
      BY <1>9, <1>12, <3>1
    <3>3. EndOf(w, z, k) \in Nat /\ EndOf(w, z, k) < base + 1
      BY <1>3, <1>11, <2>2
    <3> QED
      BY <1>3, <3>2, <3>3
  <2>3. CASE /\ \E i \in 1 .. b : k = a - 1 + i
             /\ \E j \in 1 .. b : l = a - 1 + j
    <3>1. PICK i \in 1 .. b : k = a - 1 + i
      BY <2>3
    <3>2. PICK j \in 1 .. b : l = a - 1 + j
      BY <2>3
    <3>3. i < j
      BY <1>1, <1>13, <3>1, <3>2
    <3>4. EndOf(q, r, i) < r[j]
      BY <1>7, <3>3
    <3>5. EndOf(w, z, k) = base + EndOf(q, r, i) /\ z[l] = base + r[j]
          /\ EndOf(q, r, i) \in Nat /\ r[j] \in Nat
      BY <1>4, <1>9, <1>12, <3>1, <3>2
    <3> QED
      BY <1>3, <3>4, <3>5
  <2>4. CASE l \in 1 .. a - 1 /\ \E i \in 1 .. b : k = a - 1 + i
    BY <1>1, <1>13, <2>4
  <2> QED
    BY <1>10, <2>1, <2>2, <2>3, <2>4
<1>14. ASSUME NEW i \in 1 .. Len(tu) + 1
       PROVE  \E k \in 1 .. a - 1 + b : z[k] <= i /\ i <= EndOf(w, z, k)
  <2>0. i \in Nat /\ i >= 1 /\ i <= base + Len(v) + 1
    BY <1>3, <1>4
  <2>1. CASE i <= base
    <3>1. i \in 1 .. Len(t) + 1
      <4>1. i >= 1 /\ i <= Len(t) + 1 /\ i \in Nat
        BY <1>n, <2>0, <2>1
      <4> QED
        BY <1>n, <4>1
    <3>2. PICK k \in 1 .. a : s[k] <= i /\ i <= EndOf(p, s, k)
      BY <1>2, <3>1
    <3>3. k # a
      BY <1>3, <2>0, <2>1, <3>2
    <3>4. k \in 1 .. a - 1
      BY <1>1, <3>3
    <3> QED
      BY <1>9, <1>11, <3>2, <3>4
  <2>2. CASE ~(i <= base)
    <3>1. i - base \in 1 .. Len(v) + 1
      BY <1>3, <1>4, <2>0, <2>2
    <3>2. PICK j \in 1 .. b : r[j] <= i - base /\ i - base <= EndOf(q, r, j)
      BY <1>7, <3>1
    <3>3. /\ EndOf(w, z, a - 1 + j) = base + EndOf(q, r, j)
          /\ z[a - 1 + j] = base + r[j] /\ a - 1 + j \in 1 .. a - 1 + b
          /\ r[j] \in Nat /\ EndOf(q, r, j) \in Nat
      BY <1>4, <1>9, <1>12
    <3>4. base + r[j] <= i /\ i <= base + EndOf(q, r, j)
      <4> base \in Nat /\ r[j] \in Nat /\ EndOf(q, r, j) \in Nat
        BY <1>3, <3>3
      <4> QED
        BY <2>0, <3>2
    <3> QED
      BY <3>3, <3>4
  <2> QED
    BY <2>1, <2>2
<1>15. ASSUME NEW k \in 1 .. a - 1 + b - 1
       PROVE  tu[EndOf(w, z, k)] = "nl"
  <2>1. k \in 1 .. a - 1 + b
    BY <1>1, <1>6
  <2>2. CASE k \in 1 .. a - 1
    <3>1. /\ EndOf(w, z, k) = EndOf(p, s, k)
          /\ EndOf(p, s, k) \in 1 .. Len(t)
      BY <1>11, <2>2
    <3>2. t[EndOf(p, s, k)] = "nl"
      BY <1>2, <2>2
    <3>3. tu[EndOf(p, s, k)] = t[EndOf(p, s, k)]
      BY <1>4, <3>1
    <3> QED
      BY <3>1, <3>2, <3>3
  <2>3. CASE \E j \in 1 .. b : k = a - 1 + j
    <3>1. PICK j \in 1 .. b : k = a - 1 + j
      BY <2>3
    <3>2. j \in 1 .. b - 1 /\ j < b
      BY <1>1, <1>6, <3>1
    <3>3. v[EndOf(q, r, j)] = "nl" /\ EndOf(q, r, j) \in 1 .. Len(v)
      BY <1>7, <1>12, <3>2
    <3> QED
      BY <1>5, <1>12, <3>1, <3>3
  <2> QED
    BY <1>10, <2>1, <2>2, <2>3
<1>16. EndOf(w, z, a - 1 + b) = Len(tu) + 1
  <2>1. b \in 1 .. b
    BY <1>6
  <2>2. EndOf(w, z, a - 1 + b) = base + (Len(v) + 1)
    <3>1. EndOf(w, z, a - 1 + b) = base + EndOf(q, r, b)
      BY <1>12, <2>1
    <3> QED
      BY <1>7, <3>1
  <2> QED
    BY SMTT(20), <1>n, <2>2
<1>17. ASSUME NEW k \in 1 .. a - 1 + b, NEW i \in 1 .. Len(w[k])
       PROVE  w[k][i] = tu[z[k] + i - 1] /\ w[k][i] # "nl"
  <2>1. CASE k \in 1 .. a - 1
    <3>1. w[k] = p[k] /\ z[k] = s[k] /\ i \in 1 .. Len(p[k])
      BY <1>8, <1>9, <2>1
    <3>2. s[k] + i - 1 \in 1 .. Len(t)
      <4>1. /\ s[k] \in Nat \ {0} /\ Len(p[k]) \in Nat
            /\ s[k] + Len(p[k]) <= Len(t)
        BY <1>1, <1>11, <2>1
      <4>2. Len(t) \in Nat /\ i \in 1 .. Len(p[k])
        BY <1>n, <3>1
      <4>3. s[k] + Len(p[k]) <= Len(t) + 1
        BY <4>1, <4>2
      <4> QED
        BY <4>1, <4>2, <4>3, PlaceInside
    <3>3. p[k][i] = t[s[k] + i - 1] /\ p[k][i] # "nl"
      BY <1>2, <1>11, <2>1, <3>1
    <3> QED
      BY <1>4, <3>1, <3>2, <3>3
  <2>2. CASE \E j \in 1 .. b : k = a - 1 + j
    <3>1. PICK j \in 1 .. b : k = a - 1 + j
      BY <2>2
    <3>2. w[k] = q[j] /\ z[k] = base + r[j] /\ i \in 1 .. Len(q[j])
      BY <1>8, <1>9, <3>1
    <3>3. /\ r[j] \in Nat \ {0} /\ Len(q[j]) \in Nat
          /\ r[j] + Len(q[j]) <= Len(v) + 1
      BY <1>4, <1>12
    <3>4. r[j] + i - 1 \in 1 .. Len(v)
          /\ base + (r[j] + i - 1) = (base + r[j]) + i - 1
      <4>1. Len(v) \in Nat /\ base \in Nat
        BY <1>n
      <4>2. r[j] + i - 1 \in 1 .. Len(v)
        BY <3>2, <3>3, <4>1, PlaceInside
      <4>3. i \in Int /\ r[j] \in Nat
        BY <3>2, <3>3
      <4>4. base + (r[j] + i - 1) = (base + r[j]) + i - 1
        BY <4>1, <4>3
      <4> QED
        BY <4>2, <4>4
    <3>5. q[j][i] = v[r[j] + i - 1] /\ q[j][i] # "nl"
      BY <1>7, <3>2
    <3>6. tu[base + (r[j] + i - 1)] = v[r[j] + i - 1]
      BY <1>5, <3>4
    <3> QED
      BY <3>2, <3>4, <3>5, <3>6
  <2> QED
    BY <1>10, <2>1, <2>2
<1>18. IsCut(tu, Len(tu), w, z)
  <2>1. Len(w) = a - 1 + b
    BY <1>8
  <2>2. /\ w \in Pieces
        /\ z \in [1 .. Len(w) -> Nat \ {0}]
        /\ \A k, l \in 1 .. Len(w) : k < l => EndOf(w, z, k) < z[l]
        /\ \A i \in 1 .. Len(tu) + 1 : \E k \in 1 .. Len(w) :
             z[k] <= i /\ i <= EndOf(w, z, k)
        /\ \A k \in 1 .. Len(w) - 1 : tu[EndOf(w, z, k)] = "nl"
        /\ EndOf(w, z, Len(w)) = Len(tu) + 1
        /\ \A k \in 1 .. Len(w) : \A i \in 1 .. Len(w[k]) :
             w[k][i] = tu[z[k] + i - 1] /\ w[k][i] # "nl"
    <3>1. /\ w \in Pieces
          /\ z \in [1 .. Len(w) -> Nat \ {0}]
      BY <1>8, <1>9, <2>1
    <3>2. \A k, l \in 1 .. Len(w) : k < l => EndOf(w, z, k) < z[l]
      BY <1>13, <2>1
    <3>3. \A i \in 1 .. Len(tu) + 1 : \E k \in 1 .. Len(w) :
            z[k] <= i /\ i <= EndOf(w, z, k)
      BY <1>14, <2>1
    <3>4. \A k \in 1 .. Len(w) - 1 : tu[EndOf(w, z, k)] = "nl"
      <4> SUFFICES ASSUME NEW k \in 1 .. Len(w) - 1
                   PROVE  tu[EndOf(w, z, k)] = "nl"
        OBVIOUS
      <4>1. k \in 1 .. a - 1 + b - 1
        <5>1. a \in Nat /\ b \in Nat
          BY <1>n, <1>6
        <5> QED
          BY <2>1, <5>1
      <4> QED
        BY <1>15, <4>1
    <3>5. EndOf(w, z, Len(w)) = Len(tu) + 1
      BY <1>16, <2>1
    <3>6. \A k \in 1 .. Len(w) : \A i \in 1 .. Len(w[k]) :
            w[k][i] = tu[z[k] + i - 1] /\ w[k][i] # "nl"
      BY <1>17, <2>1
    <3> QED
      BY <3>1, <3>2, <3>3, <3>4, <3>5, <3>6
  <2> QED
    BY <2>2 DEF IsCut
<1> QED
  BY <1>18

(* So the lines of both are pushed, and the last piece is kept.            *)
LEMMA LinesOfConcat ==
  ASSUME NEW p \in Pieces, NEW q \in Pieces
  PROVE  /\ CompleteLines(Joined(Front(p), q))
              = Joined(CompleteLines(p), CompleteLines(q))
         /\ Last(Joined(Front(p), q)) = Last(q)
<1> DEFINE a == Len(p)
           b == Len(q)
           w == Joined(Front(p), q)
           S == {StripCr(p[k]) : k \in 1 .. a}
                  \cup {StripCr(q[k]) : k \in 1 .. b}
           both == Joined(CompleteLines(p), CompleteLines(q))
<1> HIDE DEF a, b, w, S, both
<1>1. /\ p \in Seq(Piece) /\ q \in Seq(Piece)
      /\ a \in Nat \ {0} /\ b \in Nat \ {0}
  <2>1. p \in Seq(Piece) /\ q \in Seq(Piece) /\ p # <<>> /\ q # <<>>
    BY DEF Pieces
  <2> QED
    BY <2>1 DEF a, b
<1>2. /\ Len(w) = a - 1 + b
      /\ \A k \in 1 .. a - 1 : w[k] = p[k]
      /\ \A j \in 1 .. b : w[a - 1 + j] = q[j]
  <2>1. /\ Front(p) \in Seq(Piece) /\ Len(Front(p)) = a - 1
        /\ \A k \in 1 .. a - 1 : Front(p)[k] = p[k]
    <3>1. p # <<>>
      BY DEF Pieces
    <3> QED
      BY <1>1, <3>1, FrontFacts DEF a
  <2>2. /\ Len(w) = Len(Front(p)) + b
        /\ \A k \in 1 .. Len(Front(p)) : w[k] = Front(p)[k]
        /\ \A j \in 1 .. b : w[Len(Front(p)) + j] = q[j]
    <3>1. Front(p) \in Seq(Piece) /\ q \in Seq(Piece)
      BY <1>1, <2>1
    <3>2. Follows(w, Front(p), q)
      BY <3>1, JoinedFacts DEF w
    <3> QED
      BY <3>2 DEF Follows, b
  <2> QED
    BY <2>1, <2>2
<1>3. Last(w) = Last(q)
  <2>1. b \in 1 .. b
    BY <1>1
  <2> QED
    BY <1>2, <2>1 DEF Last, b
<1>4. /\ CompleteLines(p) \in Seq(S) /\ Len(CompleteLines(p)) = a - 1
      /\ \A k \in 1 .. a - 1 : CompleteLines(p)[k] = StripCr(p[k])
      /\ CompleteLines(q) \in Seq(S) /\ Len(CompleteLines(q)) = b - 1
      /\ \A k \in 1 .. b - 1 : CompleteLines(q)[k] = StripCr(q[k])
  <2>1. \A k \in 1 .. a - 1 : StripCr(p[k]) \in S
    BY <1>1 DEF S
  <2>2. \A k \in 1 .. b - 1 : StripCr(q[k]) \in S
    BY <1>1 DEF S
  <2>3. /\ CompleteLines(p) = [k \in 1 .. a - 1 |-> StripCr(p[k])]
        /\ CompleteLines(q) = [k \in 1 .. b - 1 |-> StripCr(q[k])]
    BY DEF CompleteLines, a, b
  <2> QED
    BY <1>1, <2>1, <2>2, <2>3
<1>5. /\ both \in Seq(S) /\ Len(both) = a - 1 + (b - 1)
      /\ \A k \in 1 .. a - 1 : both[k] = StripCr(p[k])
      /\ \A j \in 1 .. b - 1 : both[a - 1 + j] = StripCr(q[j])
  <2>1. /\ both \in Seq(S)
        /\ Len(both) = Len(CompleteLines(p)) + Len(CompleteLines(q))
        /\ \A k \in 1 .. Len(CompleteLines(p)) :
             both[k] = CompleteLines(p)[k]
        /\ \A j \in 1 .. Len(CompleteLines(q)) :
             both[Len(CompleteLines(p)) + j] = CompleteLines(q)[j]
    <3>1. CompleteLines(p) \in Seq(S) /\ CompleteLines(q) \in Seq(S)
      BY <1>4
    <3>2. both \in Seq(S) /\ Follows(both, CompleteLines(p), CompleteLines(q))
      BY <3>1, JoinedFacts DEF both
    <3> QED
      BY <3>2 DEF Follows
  <2> QED
    BY <1>4, <2>1
<1>6. ASSUME NEW k \in 1 .. a - 1 + b - 1 PROVE both[k] = StripCr(w[k])
  <2>1. CASE k < a
    <3>1. k \in 1 .. a - 1
      BY <1>1, <2>1
    <3> QED
      BY <1>2, <1>5, <3>1
  <2>2. CASE ~(k < a)
    <3>1. PICK j \in 1 .. b - 1 : k = a - 1 + j
      <4>1. k - (a - 1) \in 1 .. b - 1 /\ k = a - 1 + (k - (a - 1))
        BY <1>1, <2>2
      <4> QED
        BY <4>1
    <3>2. j \in 1 .. b
      BY <1>1
    <3> QED
      BY <1>2, <1>5, <3>1, <3>2
  <2> QED
    BY <2>1, <2>2
<1>7. both = [k \in 1 .. Len(w) - 1 |-> StripCr(w[k])]
  <2>1. Len(both) = Len(w) - 1 /\ Len(w) - 1 = a - 1 + b - 1
        /\ Len(w) - 1 \in Nat
    BY <1>1, <1>2, <1>5
  <2>2. both = [k \in 1 .. Len(w) - 1 |-> both[k]]
    BY <1>5, <2>1
  <2> QED
    BY <1>6, <2>1, <2>2
<1> QED
  BY <1>3, <1>7 DEF CompleteLines, both, w


-----------------------------------------------------------------------------
(* Until finish, the lines pushed and the tail are the pieces of the text; *)
(* after it, the lines are the text's.                                     *)
PiecesOfText ==
  \E pieces, start :
    /\ IsCut(text, Len(text), pieces, start)
    /\ pushed = CompleteLines(pieces)
    /\ tail = Last(pieces)

IInv ==
  /\ text \in Seq(Symbol)
  /\ finished \in BOOLEAN
  /\ ~finished => PiecesOfText
  /\ finished => pushed = lines(text) /\ tail = <<>>

LEMMA ChunksAreTexts ==
  ASSUME NEW chunk \in SeqOf(Character, MaxChunk)
  PROVE  chunk \in Seq(Symbol)
<1>1. PICK m \in 0 .. MaxChunk : chunk \in [1 .. m -> Character]
  BY DEF SeqOf
<1>2. m \in Nat
  OBVIOUS
<1> QED
  BY <1>1, <1>2 DEF Symbol

(* The state without text.                                                 *)
LEMMA NoText ==
  /\ <<>> \in Seq(Symbol) /\ Len(<<>>) = 0
  /\ \E start : IsCut(<<>>, Len(<<>>), <<<<>>>>, start)
  /\ CompleteLines(<<<<>>>>) = <<>> /\ Last(<<<<>>>>) = <<>>
<1>1. CompleteLines(<<<<>>>>) = <<>>
  <2> DEFINE p == <<<<>>>>
  <2>1. Len(p) = 1
    OBVIOUS
  <2> HIDE DEF p
  <2>2. CompleteLines(p) = [k \in 1 .. 0 |-> StripCr(p[k])]
    BY <2>1 DEF CompleteLines
  <2>3. CompleteLines(p) = <<>>
    BY <2>2
  <2> QED
    BY <2>3 DEF p
<1>2. Last(<<<<>>>>) = <<>>
  BY DEF Last
<1>3. \E start : IsCut(<<>>, 0, <<<<>>>>, start)
  BY EmptyIsCut
<1> QED
  BY <1>1, <1>2, <1>3

LEMMA InvInit == Init => IInv
<1> SUFFICES ASSUME Init PROVE IInv
  OBVIOUS
<1>1. PiecesOfText
  BY NoText DEF Init, PiecesOfText
<1> QED
  BY <1>1, NoText DEF Init, IInv

LEMMA InvPush ==
  ASSUME IInv, NEW chunk \in Seq(Symbol), push_chunk(chunk)
  PROVE  IInv'
<1> DEFINE soFar == IF finished THEN <<>> ELSE text
           before == IF finished THEN <<>> ELSE pushed
           next == Joined(tail, chunk)
           pieces == split(next)
<1> HIDE DEF soFar, before, next, pieces
(* What is held before the chunk, of this text or of the next one.         *)
<1>1. PICK p, start : /\ IsCut(soFar, Len(soFar), p, start)
                      /\ before = CompleteLines(p)
                      /\ tail = Last(p)
  <2>1. CASE finished
    <3>1. soFar = <<>> /\ before = <<>> /\ tail = <<>>
      BY <2>1 DEF IInv, soFar, before
    <3> QED
      BY <3>1, NoText
  <2>2. CASE ~finished
    <3>1. soFar = text /\ before = pushed /\ PiecesOfText
      BY <2>2 DEF IInv, soFar, before
    <3> QED
      BY <3>1 DEF PiecesOfText
  <2> QED
    BY <2>1, <2>2
<1>2. soFar \in Seq(Symbol)
  BY NoText DEF IInv, soFar
<1>3. /\ text' = Joined(soFar, chunk) /\ finished' = FALSE
      /\ chunk = <<>> => tail' = tail /\ pushed' = before
      /\ chunk # <<>> => /\ tail' = Last(pieces)
                         /\ pushed' = Joined(before, CompleteLines(pieces))
  BY DEF push_chunk, Joined, soFar, before, pieces, next
<1>4. text' \in Seq(Symbol)
  BY <1>2, <1>3, JoinedFacts
<1>5. CASE chunk = <<>>
  <2>1. text' = soFar
    BY <1>2, <1>3, <1>5 DEF Joined
  <2>2. PiecesOfText'
    BY <1>1, <1>3, <1>5, <2>1 DEF PiecesOfText
  <2> QED
    BY <1>3, <1>4, <2>2 DEF IInv
<1>6. CASE chunk # <<>>
  <2>1. p \in Pieces /\ tail \in Seq(Symbol)
    <3>1. p \in Pieces
      BY <1>1 DEF IsCut
    <3>2. p \in Seq(Piece) /\ Len(p) \in Nat \ {0}
      BY <3>1 DEF Pieces
    <3>3. p[Len(p)] \in Piece
      BY <3>2
    <3> QED
      BY <1>1, <3>1, <3>3 DEF Last, Piece
  <2>2. next \in Seq(Symbol)
    BY <2>1, JoinedFacts DEF next
  <2>3. PICK r : IsCut(next, Len(next), pieces, r)
    BY <2>2, SplitIsCut DEF pieces
  <2>4. pieces \in Pieces
    BY <2>3 DEF IsCut
  <2>5. PICK z : IsCut(text', Len(text'), Joined(Front(p), pieces), z)
    BY <1>1, <1>2, <1>3, <2>3, CutOfConcat DEF next
  <2>6. /\ pushed' = CompleteLines(Joined(Front(p), pieces))
        /\ tail' = Last(Joined(Front(p), pieces))
    BY <1>1, <1>3, <1>6, <2>1, <2>4, LinesOfConcat
  <2>7. PiecesOfText'
    BY <2>5, <2>6 DEF PiecesOfText
  <2> QED
    BY <1>3, <1>4, <2>7 DEF IInv
<1> QED
  BY <1>5, <1>6

LEMMA InvFinish ==
  ASSUME IInv, finish
  PROVE  IInv'
<1>1. /\ text' = text /\ finished' = TRUE /\ tail' = <<>>
      /\ pushed' = pushed \o (IF tail = <<>> THEN <<>> ELSE <<tail>>)
  BY DEF finish, TailLine
<1>2. pushed' = lines(text)
  <2>1. CASE finished
    <3>1. pushed = lines(text) /\ tail = <<>>
      BY <2>1 DEF IInv
    <3>2. PICK start : IsCut(text, Len(text), split(text), start)
      BY SplitIsCut DEF IInv
    <3>3. lines(text) = [k \in 1 .. LineCount(text) |-> LineOf(split(text), k)]
          /\ LineCount(text) \in Nat
      <4>1. Len(text) \in Nat
        BY DEF IInv
      <4>2. Len(split(text)) \in Nat \ {0}
        BY <3>2, <4>1, CutTypes
      <4> QED
        BY <3>2, <4>2, LinesOfCut DEF IInv
    <3>4. lines(text) \in Seq({LineOf(split(text), k) :
                                 k \in 1 .. LineCount(text)})
      BY <3>3
    <3>5. lines(text) \o <<>> = lines(text)
      BY <3>4
    <3> QED
      BY <1>1, <3>1, <3>5
  <2>2. CASE ~finished
    <3>1. PICK p, start : /\ IsCut(text, Len(text), p, start)
                          /\ pushed = CompleteLines(p)
                          /\ tail = Last(p)
      BY <2>2 DEF IInv, PiecesOfText
    <3>2. lines(text) = CompleteLines(p) \o
                          (IF Last(p) = <<>> THEN <<>> ELSE <<Last(p)>>)
      BY <3>1, PushedOfCut DEF IInv
    <3> QED
      BY <1>1, <3>1, <3>2
  <2> QED
    BY <2>1, <2>2 DEF IInv
<1> QED
  BY <1>1, <1>2 DEF IInv

LEMMA InvStep == IInv /\ [Next]_vars => IInv'
<1> SUFFICES ASSUME IInv, [Next]_vars PROVE IInv'
  OBVIOUS
<1>1. ASSUME NEW chunk \in SeqOf(Character, MaxChunk), push_chunk(chunk)
      PROVE  IInv'
  BY <1>1, ChunksAreTexts, InvPush
<1>2. CASE finish
  BY <1>2, InvFinish
<1>3. CASE UNCHANGED vars
  BY <1>3 DEF vars, IInv, PiecesOfText
<1> QED
  BY <1>1, <1>2, <1>3 DEF Next

LEMMA InvLines == IInv => LinesOfTextSoFar
<1> SUFFICES ASSUME IInv, ~finished
             PROVE  pushed = CompletedLines(text) /\ tail = Remainder(text)
  BY DEF IInv, LinesOfTextSoFar
<1>1. PICK p, start : /\ IsCut(text, Len(text), p, start)
                      /\ pushed = CompleteLines(p)
                      /\ tail = Last(p)
  BY DEF IInv, PiecesOfText
<1> QED
  BY <1>1, PushedOfCut DEF IInv

(* However long a text is and wherever it is cut into chunks, the lines    *)
(* that push_chunk hands on are the complete ones of the text so far, the  *)
(* rest of it is held, and with finish() they are those of str::lines.     *)
THEOREM LinesPushed == Spec => []LinesOfTextSoFar
<1>1. Spec => []IInv
  BY InvInit, InvStep, PTL DEF Spec
<1> QED
  BY <1>1, InvLines, PTL

-----------------------------------------------------------------------------
(* What was completed of a text, and the rest of it, with more behind.     *)
LEMMA TextGrows ==
  ASSUME NEW t \in Seq(Symbol), NEW u \in Seq(Symbol), NEW pieces,
         pieces = split(Remainder(t) \o u)
  PROVE  /\ Remainder(t) \in Seq(Symbol)
         /\ CompletedLines(t \o u) = CompletedLines(t) \o CompleteLines(pieces)
         /\ Remainder(t \o u) = Last(pieces)
         /\ t \o u \in Seq(Symbol)
<1>1. PICK p, s : IsCut(t, Len(t), p, s)
  BY SplitIsCut
<1>2. CompletedLines(t) = CompleteLines(p) /\ Remainder(t) = Last(p)
  BY <1>1, PushedOfCut
<1>3. Last(p) \in Seq(Symbol) /\ p \in Pieces
  <2>1. p \in Pieces
    BY <1>1 DEF IsCut
  <2>2. p \in Seq(Piece) /\ Len(p) \in 1 .. Len(p)
    BY <2>1 DEF Pieces
  <2>3. p[Len(p)] \in Piece
    BY <2>2
  <2> QED
    BY <2>1, <2>3 DEF Last, Piece
<1>4. Joined(Last(p), u) \in Seq(Symbol)
  BY <1>3, JoinedFacts
<1>5. pieces = split(Joined(Last(p), u))
  BY <1>2 DEF Joined
<1>6. PICK r : IsCut(Joined(Last(p), u), Len(Joined(Last(p), u)), pieces, r)
  BY <1>4, <1>5, SplitIsCut
<1>7. PICK z : IsCut(Joined(t, u), Len(Joined(t, u)), Joined(Front(p), pieces), z)
  BY <1>1, <1>6, CutOfConcat
<1>8. pieces \in Pieces
  BY <1>6 DEF IsCut
<1>9. Joined(t, u) \in Seq(Symbol)
  BY JoinedFacts
<1>10. /\ CompletedLines(Joined(t, u)) = CompleteLines(Joined(Front(p), pieces))
       /\ Remainder(Joined(t, u)) = Last(Joined(Front(p), pieces))
  BY <1>7, <1>9, PushedOfCut
<1>11. /\ CompleteLines(Joined(Front(p), pieces))
            = Joined(CompleteLines(p), CompleteLines(pieces))
       /\ Last(Joined(Front(p), pieces)) = Last(pieces)
  BY <1>3, <1>8, LinesOfConcat
<1> QED
  BY <1>2, <1>3, <1>9, <1>10, <1>11 DEF Joined

(* A cut of a text is one of its beginning in a longer one.                *)
LEMMA CutAppend ==
  ASSUME NEW t \in Seq(Symbol), NEW c \in Symbol, NEW p, NEW start,
         IsCut(t, Len(t), p, start)
  PROVE  /\ Append(t, c) \in Seq(Symbol)
         /\ \E s : IsCut(Append(t, c), Len(Append(t, c)), Cut(p, c), s)
<1>1. PICK n \in Nat : n = Len(t)
  OBVIOUS
<1>2. PICK more \in Seq(Symbol) :
        /\ more = Append(t, c) /\ Len(more) = n + 1 /\ more[n + 1] = c
        /\ \A i \in 1 .. n : more[i] = t[i]
  <2>1. /\ Append(t, c) \in Seq(Symbol) /\ Len(Append(t, c)) = Len(t) + 1
        /\ Append(t, c)[Len(t) + 1] = c
        /\ \A i \in 1 .. Len(t) : Append(t, c)[i] = t[i]
    OBVIOUS
  <2> QED
    BY <1>1, <2>1
<1>4. n \in Nat /\ IsCut(t, n, p, start)
  BY <1>1
<1>3. /\ p \in Seq(Piece) /\ Len(p) \in Nat \ {0}
      /\ \A k \in 1 .. Len(p) :
           /\ p[k] \in Piece /\ Len(p[k]) \in Nat
           /\ start[k] \in Nat \ {0}
           /\ EndOf(p, start, k) = start[k] + Len(p[k])
           /\ EndOf(p, start, k) \in 1 .. n + 1
           /\ DOMAIN p[k] = 1 .. Len(p[k])
           /\ k < Len(p) => EndOf(p, start, k) \in 1 .. n
  <2>1. CutTyped(n, p, start)
    BY <1>4, CutIsTyped
  <2> QED
    BY <2>1 DEF CutTyped
<1>5. \A k \in 1 .. Len(p) - 1 : more[EndOf(p, start, k)] = "nl"
  <2> SUFFICES ASSUME NEW k \in 1 .. Len(p) - 1
               PROVE  more[EndOf(p, start, k)] = "nl"
    OBVIOUS
  <2>1. k \in 1 .. Len(p) /\ k < Len(p)
    BY <1>3
  <2>2. PICK e \in 1 .. n : e = EndOf(p, start, k)
    BY <1>3, <2>1
  <2>3. t[e] = "nl"
    BY <1>4, <2>2 DEF IsCut
  <2> QED
    BY <1>2, <2>2, <2>3
<1>6. \A k \in 1 .. Len(p) : \A i \in 1 .. Len(p[k]) :
        p[k][i] = more[start[k] + i - 1] /\ p[k][i] # "nl"
  <2> SUFFICES ASSUME NEW k \in 1 .. Len(p), NEW i \in 1 .. Len(p[k])
               PROVE  p[k][i] = more[start[k] + i - 1] /\ p[k][i] # "nl"
    OBVIOUS
  <2>1. p[k][i] = t[start[k] + i - 1] /\ p[k][i] # "nl"
    BY <1>4 DEF IsCut
  <2>2. PICK x \in Nat \ {0}, y \in Nat : x = start[k] /\ y = Len(p[k])
    BY <1>3
  <2>3. x + y <= n + 1
    BY <1>3, <2>2
  <2>4. x + i - 1 \in 1 .. n
    BY <2>2, <2>3, PlaceInside
  <2> QED
    BY <1>2, <2>1, <2>2, <2>4
<1>7. IsCut(more, n, p, start)
  BY <1>4, <1>5, <1>6 DEF IsCut
<1>8. n + 1 \in 1 .. Len(more) /\ (n + 1) - 1 = n
  BY <1>2
<1>9. \E s : IsCut(more, n + 1, Cut(p, more[n + 1]), s)
  BY <1>7, <1>8, CutOneMore
<1> QED
  BY <1>2, <1>9

(* The ASCII characters of a text, kept one by one.                        *)
IsKept(f, t) ==
  /\ f \in [0 .. Len(t) -> Seq(Symbol)]
  /\ f[0] = <<>>
  /\ \A i \in 1 .. Len(t) : f[i] = KeepAscii(f[i - 1], t[i])

LEMMA AsciiIsKept ==
  ASSUME NEW t \in Seq(Symbol)
  PROVE  \E f : IsKept(f, t) /\ AsciiOf(t) = f[Len(t)]
<1> DEFINE n == Len(t)
           G == [p \in Seq(Symbol) \X (1 .. n) |-> KeepAscii(p[1], t[p[2]])]
           Solves(f) == f = [i \in 0 .. Len(t) |->
                               IF i = 0 THEN <<>> ELSE KeepAscii(f[i - 1], t[i])]
           h == CHOOSE f : Solves(f)
<1>0. n \in Nat /\ <<>> \in Seq(Symbol)
  OBVIOUS
<1>1. IsStep(G, Seq(Symbol), n)
  <2>1. ASSUME NEW s \in Seq(Symbol), NEW i \in 1 .. n
        PROVE  KeepAscii(s, t[i]) \in Seq(Symbol)
    <3>1. t[i] \in Symbol
      OBVIOUS
    <3>2. PICK c \in Symbol : c = t[i]
      BY <3>1
    <3>3. Append(s, c) \in Seq(Symbol)
      OBVIOUS
    <3> QED
      BY <3>2, <3>3 DEF KeepAscii
  <2> QED
    BY <2>1 DEF IsStep
<1>2. PICK f : IsWalk(f, G, Seq(Symbol), <<>>, n)
  <2> HIDE DEF n, G
  <2> QED
    BY <1>0, <1>1, Walk
<1>3. ASSUME NEW i \in 1 .. n PROVE f[i] = KeepAscii(f[i - 1], t[i])
  <2>1. i - 1 \in 0 .. n
    BY <1>0
  <2>2. f[i - 1] \in Seq(Symbol)
    BY <1>2, <2>1 DEF IsWalk
  <2>3. G[<<f[i - 1], i>>] = KeepAscii(f[i - 1], t[i])
    BY <2>2
  <2> QED
    BY <1>2, <2>3 DEF IsWalk
<1>4. IsKept(f, t)
  <2> HIDE DEF G
  <2> QED
    BY <1>2, <1>3 DEF IsWalk, IsKept
<1>5. Solves(f)
  <2>1. \A i \in 0 .. Len(t) : i # 0 => i \in 1 .. Len(t)
    BY <1>0
  <2> QED
    BY <1>4, <2>1 DEF IsKept
<1>6. Solves(h)
  <2> HIDE DEF Solves
  <2> QED
    BY <1>5
<1>7. AsciiOf(t) = h[n]
  BY DEF AsciiOf
<1>8. h[0] = <<>> /\ \A i \in 1 .. n : h[i] = KeepAscii(h[i - 1], t[i])
  <2> HIDE DEF h
  <2> QED
    BY SMTT(20), <1>0, <1>6
<1> HIDE DEF h, Solves, G
<1> DEFINE T == {i \in 0 .. n : h[i] = f[i]}
<1>9. 0 \in T
  BY <1>0, <1>4, <1>8 DEF IsKept
<1>10. ASSUME NEW i \in 1 .. n, i - 1 \in T PROVE i \in T
  <2>1. i \in 0 .. n /\ h[i - 1] = f[i - 1]
    BY <1>0, <1>10
  <2>2. h[i] = KeepAscii(h[i - 1], t[i]) /\ f[i] = KeepAscii(f[i - 1], t[i])
    BY <1>3, <1>8
  <2> QED
    BY <2>1, <2>2
<1> HIDE DEF T
<1>11. 0 .. n \subseteq T
  BY <1>0, <1>9, <1>10, InductionUpTo
<1>12. h[n] = f[n]
  BY <1>0, <1>11 DEF T
<1> QED
  BY <1>4, <1>7, <1>12

(* One character more is kept, or is not.                                  *)
LEMMA AsciiGrows ==
  /\ AsciiOf(<<>>) = <<>>
  /\ \A t \in Seq(Symbol), c \in Symbol :
       /\ AsciiOf(t) \in Seq(Symbol)
       /\ AsciiOf(Append(t, c)) = KeepAscii(AsciiOf(t), c)
<1>1. AsciiOf(<<>>) = <<>>
  <2>1. <<>> \in Seq(Symbol) /\ Len(<<>>) = 0
    OBVIOUS
  <2>2. PICK f : IsKept(f, <<>>) /\ AsciiOf(<<>>) = f[Len(<<>>)]
    BY <2>1, AsciiIsKept
  <2> QED
    BY <2>1, <2>2 DEF IsKept
<1>2. ASSUME NEW t \in Seq(Symbol), NEW c \in Symbol
      PROVE  /\ AsciiOf(t) \in Seq(Symbol)
             /\ AsciiOf(Append(t, c)) = KeepAscii(AsciiOf(t), c)
  <2>1. PICK n \in Nat : n = Len(t)
    OBVIOUS
  <2>2. PICK more \in Seq(Symbol) :
          /\ more = Append(t, c) /\ Len(more) = n + 1 /\ more[n + 1] = c
          /\ \A i \in 1 .. n : more[i] = t[i]
    <3>1. /\ Append(t, c) \in Seq(Symbol) /\ Len(Append(t, c)) = Len(t) + 1
          /\ Append(t, c)[Len(t) + 1] = c
          /\ \A i \in 1 .. Len(t) : Append(t, c)[i] = t[i]
      OBVIOUS
    <3> QED
      BY <2>1, <3>1
  <2>3. PICK f : IsKept(f, t) /\ AsciiOf(t) = f[n]
    BY <2>1, AsciiIsKept
  <2>4. PICK g : IsKept(g, more) /\ AsciiOf(more) = g[n + 1]
    BY <2>2, AsciiIsKept
  <2> DEFINE T == {i \in 0 .. n : g[i] = f[i]}
  <2>5. 0 \in T
    BY <2>3, <2>4 DEF IsKept
  <2>6. ASSUME NEW i \in 1 .. n, i - 1 \in T PROVE i \in T
    <3>1. i \in 1 .. n + 1 /\ i \in 0 .. n
      OBVIOUS
    <3>2. g[i] = KeepAscii(g[i - 1], more[i])
      BY <2>2, <2>4, <3>1 DEF IsKept
    <3>3. f[i] = KeepAscii(f[i - 1], t[i])
      BY <2>1, <2>3 DEF IsKept
    <3> QED
      BY <2>2, <2>6, <3>1, <3>2, <3>3
  <2> HIDE DEF T
  <2>7. 0 .. n \subseteq T
    BY <2>5, <2>6, InductionUpTo
  <2>8. n \in 0 .. n
    OBVIOUS
  <2>9. g[n] = f[n]
    BY <2>7, <2>8 DEF T
  <2>10. g[n + 1] = KeepAscii(g[(n + 1) - 1], more[n + 1])
    <3>1. n + 1 \in 1 .. n + 1
      OBVIOUS
    <3> QED
      BY <2>2, <2>4, <3>1 DEF IsKept
  <2>11. (n + 1) - 1 = n
    OBVIOUS
  <2>12. AsciiOf(t) \in Seq(Symbol)
    BY <2>1, <2>3, <2>8 DEF IsKept
  <2> QED
    BY <2>2, <2>3, <2>4, <2>9, <2>10, <2>11, <2>12
<1> QED
  BY <1>1, <1>2

(* Bytes are decoded one by one.                                           *)
IsDecoded(f, bytes) ==
  /\ f[0] = <<>>
  /\ \A i \in 1 .. Len(bytes) : f[i] = Decode(f[i - 1], bytes, i)

(* from_utf8_lossy is that walk.                                           *)
LEMMA LossyIsDecoded ==
  ASSUME NEW bytes \in Seq(Byte)
  PROVE  \E f : IsDecoded(f, bytes) /\ from_utf8_lossy(bytes) = f[Len(bytes)]
<1> DEFINE n == Len(bytes)
           G == [p \in Seq(Symbol) \X (1 .. n) |-> Decode(p[1], bytes, p[2])]
           Solves(f) == f = [i \in 0 .. Len(bytes) |->
                               IF i = 0 THEN <<>> ELSE Decode(f[i - 1], bytes, i)]
           h == CHOOSE f : Solves(f)
<1>0. n \in Nat /\ <<>> \in Seq(Symbol)
  OBVIOUS
<1>1. IsStep(G, Seq(Symbol), n)
  <2>1. ASSUME NEW s \in Seq(Symbol), NEW i \in 1 .. n
        PROVE  Decode(s, bytes, i) \in Seq(Symbol)
    <3>1. /\ bytes[i] \in Ascii => bytes[i] \in Symbol
          /\ "wide" \in Symbol /\ "replacement" \in Symbol
      BY DEF Symbol, Byte
    <3>2. \A c \in Symbol : Append(s, c) \in Seq(Symbol)
      OBVIOUS
    <3> QED
      BY <3>1, <3>2 DEF Decode
  <2> QED
    BY <2>1 DEF IsStep
<1>2. PICK f : IsWalk(f, G, Seq(Symbol), <<>>, n)
  <2> HIDE DEF n, G
  <2> QED
    BY <1>0, <1>1, Walk
<1>3. ASSUME NEW i \in 1 .. n PROVE f[i] = Decode(f[i - 1], bytes, i)
  <2>1. i - 1 \in 0 .. n
    BY <1>0
  <2>2. f[i - 1] \in Seq(Symbol)
    BY <1>2, <2>1 DEF IsWalk
  <2>3. G[<<f[i - 1], i>>] = Decode(f[i - 1], bytes, i)
    BY <2>2
  <2> QED
    BY <1>2, <2>3 DEF IsWalk
<1>4. Solves(f)
  <2>1. \A i \in 0 .. n : i # 0 => i \in 1 .. n
    BY <1>0
  <2> HIDE DEF G
  <2>2. f \in [0 .. n -> Seq(Symbol)] /\ f[0] = <<>>
    BY <1>2 DEF IsWalk
  <2> QED
    BY <1>3, <2>1, <2>2
<1>5. Solves(h)
  <2> HIDE DEF Solves
  <2> QED
    BY <1>4
<1>6. from_utf8_lossy(bytes) = h[n]
  BY DEF from_utf8_lossy
<1>7. h[0] = <<>> /\ \A i \in 1 .. n : h[i] = Decode(h[i - 1], bytes, i)
  <2> HIDE DEF h
  <2> QED
    BY SMTT(20), <1>0, <1>5
<1> HIDE DEF h, Solves, G
<1> QED
  BY <1>6, <1>7 DEF IsDecoded

(* Two pieces that look the same: the same ASCII characters, and if one is *)
(* empty or ends with '\r', so does the other.                             *)
EndsInCr(piece) == piece # <<>> /\ Last(piece) = "cr"

SameLine(s, b) ==
  /\ AsciiOf(s) = AsciiOf(b)
  /\ s = <<>> <=> b = <<>>
  /\ EndsInCr(s) <=> EndsInCr(b)

SameSymbol(c, d) == c = d \/ (c \notin Ascii /\ d \notin Ascii)

(* A text with a character behind it.                                      *)
LEMMA Appended ==
  ASSUME NEW s \in Seq(Symbol), NEW c \in Symbol
  PROVE  /\ Append(s, c) \in Seq(Symbol) /\ Append(s, c) # <<>>
         /\ Last(Append(s, c)) = c /\ Front(Append(s, c)) = s
<1>1. PICK n \in Nat : n = Len(s)
  OBVIOUS
<1>2. PICK more \in Seq(Symbol) :
        /\ more = Append(s, c) /\ Len(more) = n + 1 /\ more[n + 1] = c
        /\ \A i \in 1 .. n : more[i] = s[i]
  <2>1. /\ Append(s, c) \in Seq(Symbol) /\ Len(Append(s, c)) = Len(s) + 1
        /\ Append(s, c)[Len(s) + 1] = c
        /\ \A i \in 1 .. Len(s) : Append(s, c)[i] = s[i]
    OBVIOUS
  <2> QED
    BY <1>1, <2>1
<1>3. more # <<>>
  BY <1>2
<1>4. Last(more) = c
  BY <1>2 DEF Last
<1>5. Front(more) = s
  <2>1. /\ Front(more) \in Seq(Symbol) /\ Len(Front(more)) = n
        /\ \A i \in 1 .. n : Front(more)[i] = more[i]
    <3>1. /\ SubSeq(more, 1, n) \in Seq(Symbol) /\ Len(SubSeq(more, 1, n)) = n
          /\ \A i \in 1 .. n : SubSeq(more, 1, n)[i] = more[i]
      BY <1>2
    <3>2. Len(more) - 1 = n
      BY <1>2
    <3> QED
      BY <3>1, <3>2 DEF Front
  <2> QED
    BY <1>1, <1>2, <2>1
<1> QED
  BY <1>2, <1>3, <1>4, <1>5

(* A character behind each of two pieces that look the same.               *)
LEMMA SameGrows ==
  ASSUME NEW s \in Seq(Symbol), NEW b \in Seq(Symbol), SameLine(s, b),
         NEW c \in Symbol, NEW d \in Symbol, SameSymbol(c, d)
  PROVE  SameLine(Append(s, c), Append(b, d))
<1>1. AsciiOf(Append(s, c)) = AsciiOf(Append(b, d))
  <2>1. KeepAscii(AsciiOf(s), c) = KeepAscii(AsciiOf(b), d)
    BY DEF SameLine, SameSymbol, KeepAscii
  <2> QED
    BY <2>1, AsciiGrows
<1>2. c = "cr" <=> d = "cr"
  BY DEF SameSymbol, Ascii
<1> QED
  BY <1>1, <1>2, Appended DEF SameLine, EndsInCr

(* The second half of a wider character, behind the first one.             *)
LEMMA SameTrail ==
  ASSUME NEW s \in Seq(Symbol), NEW b \in Seq(Symbol), SameLine(s, b),
         NEW d \in Symbol, d \notin Ascii, b # <<>>, ~EndsInCr(b)
  PROVE  SameLine(s, Append(b, d))
<1>1. AsciiOf(s) = AsciiOf(Append(b, d))
  <2>1. KeepAscii(AsciiOf(b), d) = AsciiOf(b)
    BY DEF KeepAscii
  <2> QED
    BY <2>1, AsciiGrows DEF SameLine
<1>2. d # "cr"
  BY DEF Ascii
<1> QED
  BY <1>1, <1>2, Appended DEF SameLine, EndsInCr

(* strip_suffix('\r') of both.                                             *)
LEMMA SameStripped ==
  ASSUME NEW s \in Seq(Symbol), NEW b \in Seq(Symbol), SameLine(s, b)
  PROVE  AsciiOf(StripCr(s)) = AsciiOf(StripCr(b))
<1>1. CASE ~EndsInCr(s)
  BY <1>1 DEF SameLine, StripCr, EndsInCr
<1>2. CASE EndsInCr(s)
  <2>1. ASSUME NEW a \in Seq(Symbol), EndsInCr(a)
        PROVE  /\ StripCr(a) \in Seq(Symbol)
               /\ AsciiOf(a) = Append(AsciiOf(StripCr(a)), "cr")
    <3>1. PICK n \in Nat : Len(a) = n + 1
      <4>1. Len(a) \in Nat \ {0}
        BY <2>1 DEF EndsInCr
      <4> QED
        BY <4>1
    <3>2. PICK f \in Seq(Symbol) :
            /\ f = Front(a) /\ Len(f) = n /\ \A i \in 1 .. n : f[i] = a[i]
      <4>1. /\ SubSeq(a, 1, n) \in Seq(Symbol) /\ Len(SubSeq(a, 1, n)) = n
            /\ \A i \in 1 .. n : SubSeq(a, 1, n)[i] = a[i]
        BY <3>1
      <4>2. Len(a) - 1 = n
        BY <3>1
      <4> QED
        BY <4>1, <4>2 DEF Front
    <3>3. PICK c \in Symbol : c = "cr"
      BY DEF Symbol, Byte, Ascii
    <3>4. a = Append(f, c)
      <4>1. /\ Append(f, c) \in Seq(Symbol) /\ Len(Append(f, c)) = n + 1
            /\ Append(f, c)[n + 1] = c
            /\ \A i \in 1 .. n : Append(f, c)[i] = f[i]
        BY <3>2
      <4>2. a[n + 1] = c
        BY <2>1, <3>1, <3>3 DEF EndsInCr, Last
      <4>3. \A i \in 1 .. n + 1 : i \in 1 .. n \/ i = n + 1
        OBVIOUS
      <4>4. \A i \in 1 .. n + 1 : a[i] = Append(f, c)[i]
        BY <3>2, <4>1, <4>2, <4>3
      <4> QED
        BY <3>1, <4>1, <4>4
    <3>5. StripCr(a) = f
      BY <2>1, <3>2 DEF StripCr, EndsInCr
    <3>6. AsciiOf(a) = KeepAscii(AsciiOf(f), c)
      BY <3>4, AsciiGrows
    <3> QED
      BY <3>3, <3>5, <3>6 DEF KeepAscii, Ascii
  <2>2. EndsInCr(b)
    BY <1>2 DEF SameLine
  <2>3. PICK x \in Seq(Symbol), y \in Seq(Symbol), c \in Symbol :
          /\ x = AsciiOf(StripCr(s)) /\ y = AsciiOf(StripCr(b)) /\ c = "cr"
    <3>1. "cr" \in Symbol
      BY DEF Symbol, Byte, Ascii
    <3> QED
      BY <1>2, <2>1, <2>2, <3>1, AsciiGrows
  <2>4. Append(x, c) = Append(y, c)
    BY <1>2, <2>1, <2>2, <2>3 DEF SameLine
  <2>5. x = y
    BY <2>4, Appended
  <2> QED
    BY <2>3, <2>5
<1> QED
  BY <1>1, <1>2

(* What a character makes of the pieces.                                   *)
LEMMA CutFacts ==
  ASSUME NEW p \in Pieces, NEW c \in Symbol
  PROVE  /\ Len(p) \in Nat \ {0} /\ Cut(p, c) \in Pieces
         /\ \A k \in 1 .. Len(p) : p[k] \in Seq(Symbol)
         /\ c = "nl" => /\ Len(Cut(p, c)) = Len(p) + 1
                        /\ Cut(p, c)[Len(p) + 1] = <<>>
                        /\ \A k \in 1 .. Len(p) : Cut(p, c)[k] = p[k]
         /\ c # "nl" => /\ Len(Cut(p, c)) = Len(p)
                        /\ Cut(p, c)[Len(p)] = Append(p[Len(p)], c)
                        /\ \A k \in 1 .. Len(p) - 1 : Cut(p, c)[k] = p[k]
<1>1. p \in Seq(Piece) /\ Len(p) \in Nat \ {0}
  <2>1. p \in Seq(Piece) /\ p # <<>>
    BY DEF Pieces
  <2> QED
    BY <2>1
<1>2. \A k \in 1 .. Len(p) : p[k] \in Piece
  BY <1>1
<1>3. CASE c = "nl"
  <2>1. PICK e \in Piece : e = <<>>
    <3>1. <<>> \in Piece
      BY DEF Piece
    <3> QED
      BY <3>1
  <2>2. /\ Append(p, e) \in Seq(Piece) /\ Len(Append(p, e)) = Len(p) + 1
        /\ Append(p, e)[Len(p) + 1] = e
        /\ \A k \in 1 .. Len(p) : Append(p, e)[k] = p[k]
    BY <1>1
  <2>3. Append(p, e) # <<>>
    BY <1>1, <2>2
  <2>4. Cut(p, c) = Append(p, e)
    BY <1>3, <2>1 DEF Cut
  <2>5. Cut(p, c) \in Pieces
    BY <2>2, <2>3, <2>4 DEF Pieces
  <2> QED
    BY <1>1, <1>2, <1>3, <2>1, <2>2, <2>4, <2>5 DEF Piece
<1>4. CASE c # "nl"
  <2>1. PICK x \in Piece : x = Append(p[Len(p)], c)
    <3>1. p[Len(p)] \in Piece
      BY <1>1, <1>2
    <3>2. PICK y \in Piece : y = p[Len(p)]
      BY <3>1
    <3>3. Append(y, c) \in Piece
      BY DEF Piece
    <3> QED
      BY <3>2, <3>3
  <2>2. PICK n \in Nat \ {0} : n = Len(p)
    BY <1>1
  <2>3. Cut(p, c) = [p EXCEPT ![n] = x]
    BY <1>4, <2>1, <2>2 DEF Cut
  <2>4. /\ [p EXCEPT ![n] = x] \in Seq(Piece) /\ Len([p EXCEPT ![n] = x]) = n
        /\ [p EXCEPT ![n] = x][n] = x
        /\ \A k \in 1 .. n - 1 : [p EXCEPT ![n] = x][k] = p[k]
    BY <1>1, <2>2
  <2>5. [p EXCEPT ![n] = x] # <<>>
    BY <2>2, <2>4
  <2>6. Cut(p, c) \in Pieces
    BY <2>3, <2>4, <2>5 DEF Pieces
  <2> QED
    BY <1>2, <1>4, <2>1, <2>2, <2>3, <2>4, <2>6 DEF Piece
<1> QED
  BY <1>3, <1>4

(* A newline, and any other character.                                     *)
LEMMA CutEnds ==
  ASSUME NEW p \in Pieces, NEW c, c \in Symbol, c = "nl", NEW n, n = Len(p)
  PROVE  /\ Len(Cut(p, c)) = n + 1 /\ Cut(p, c)[n + 1] = <<>>
         /\ \A k \in 1 .. n : Cut(p, c)[k] = p[k]
BY CutFacts

LEMMA CutAdds ==
  ASSUME NEW p \in Pieces, NEW c \in Symbol, c # "nl", NEW n, n = Len(p)
  PROVE  /\ Len(Cut(p, c)) = n /\ Cut(p, c)[n] = Append(p[n], c)
         /\ \A k \in 1 .. n - 1 : Cut(p, c)[k] = p[k]
BY CutFacts

(* The pieces of two texts that look the same, one by one; and the last    *)
(* one of the second begun, not with a '\r' at its end.                    *)
SamePieces(p, q) ==
  /\ p \in Pieces /\ q \in Pieces /\ Len(p) = Len(q)
  /\ \A k \in 1 .. Len(p) : SameLine(p[k], q[k])

Open(q) == q[Len(q)] # <<>> /\ ~EndsInCr(q[Len(q)])

(* A character more keeps the pieces alike.                                *)
LEMMA PiecesGrow ==
  ASSUME NEW p, NEW q, SamePieces(p, q),
         NEW c \in Symbol, NEW d \in Symbol, SameSymbol(c, d)
  PROVE  /\ SamePieces(Cut(p, c), Cut(q, d))
         /\ d \notin Ascii => Open(Cut(q, d))
<1>1. p \in Pieces /\ q \in Pieces
  BY DEF SamePieces
<1>2. PICK n \in Nat \ {0} : n = Len(p) /\ n = Len(q)
  BY <1>1, CutFacts DEF SamePieces
<1>3. /\ Cut(p, c) \in Pieces /\ Cut(q, d) \in Pieces
      /\ p[n] \in Seq(Symbol) /\ q[n] \in Seq(Symbol)
  <2>1. n \in 1 .. n
    BY <1>2
  <2>2. /\ Cut(p, c) \in Pieces
        /\ \A k \in 1 .. Len(p) : p[k] \in Seq(Symbol)
    BY <1>1, CutFacts
  <2>3. /\ Cut(q, d) \in Pieces
        /\ \A k \in 1 .. Len(q) : q[k] \in Seq(Symbol)
    BY <1>1, CutFacts
  <2> QED
    BY <1>2, <2>1, <2>2, <2>3
<1>4. \A k \in 1 .. n : SameLine(p[k], q[k])
  BY <1>2 DEF SamePieces
<1>5. CASE c = "nl"
  <2>1. d = "nl" /\ d \in Ascii
    BY <1>5 DEF SameSymbol, Ascii
  <2>2. /\ Len(Cut(p, c)) = n + 1 /\ Cut(p, c)[n + 1] = <<>>
        /\ \A k \in 1 .. n : Cut(p, c)[k] = p[k]
    <3>1. p \in Pieces /\ c \in Symbol /\ c = "nl" /\ n = Len(p)
      BY <1>1, <1>2, <1>5
    <3> QED
      BY ONLY <3>1, CutEnds
  <2>3. /\ Len(Cut(q, d)) = n + 1 /\ Cut(q, d)[n + 1] = <<>>
        /\ \A k \in 1 .. n : Cut(q, d)[k] = q[k]
    BY <1>1, <1>2, <2>1, CutEnds
  <2>4. \A k \in 1 .. n + 1 : k \in 1 .. n \/ k = n + 1
    OBVIOUS
  <2>5. SameLine(<<>>, <<>>)
    BY DEF SameLine
  <2>6. \A k \in 1 .. n + 1 : SameLine(Cut(p, c)[k], Cut(q, d)[k])
    BY <1>4, <2>2, <2>3, <2>4, <2>5
  <2> QED
    BY <1>3, <2>1, <2>2, <2>3, <2>6 DEF SamePieces
<1>6. CASE c # "nl"
  <2>1. d # "nl"
    BY <1>6 DEF SameSymbol, Ascii
  <2>2. /\ Len(Cut(p, c)) = n /\ Cut(p, c)[n] = Append(p[n], c)
        /\ \A k \in 1 .. n - 1 : Cut(p, c)[k] = p[k]
    BY <1>1, <1>2, <1>6, CutAdds
  <2>3. /\ Len(Cut(q, d)) = n /\ Cut(q, d)[n] = Append(q[n], d)
        /\ \A k \in 1 .. n - 1 : Cut(q, d)[k] = q[k]
    BY <1>1, <1>2, <2>1, CutAdds
  <2>4. /\ n \in 1 .. n
        /\ \A k \in 1 .. n : k = n \/ (k \in 1 .. n - 1 /\ k \in 1 .. n)
    BY <1>2
  <2>5. SameLine(Append(p[n], c), Append(q[n], d))
    BY <1>3, <1>4, <2>4, SameGrows
  <2>6. \A k \in 1 .. n : SameLine(Cut(p, c)[k], Cut(q, d)[k])
    BY <1>4, <2>2, <2>3, <2>4, <2>5
  <2>7. d \notin Ascii => Open(Cut(q, d))
    <3>1. d \notin Ascii => d # "cr"
      BY DEF Ascii
    <3> QED
      BY <1>3, <2>3, <3>1, Appended DEF Open, EndsInCr
  <2> QED
    BY <1>3, <2>2, <2>3, <2>6, <2>7 DEF SamePieces
<1> QED
  BY <1>5, <1>6

(* Half a character more, when the last piece is open.                     *)
LEMMA TrailGrows ==
  ASSUME NEW p, NEW q, SamePieces(p, q), Open(q),
         NEW d \in Symbol, d \notin Ascii
  PROVE  SamePieces(p, Cut(q, d))
<1>1. p \in Pieces /\ q \in Pieces
  BY DEF SamePieces
<1>2. PICK n \in Nat \ {0} : n = Len(p) /\ n = Len(q)
  BY <1>1, CutFacts DEF SamePieces
<1>3. n \in 1 .. n /\ Cut(q, d) \in Pieces
  BY <1>1, <1>2, CutFacts
<1>4. p[n] \in Seq(Symbol) /\ q[n] \in Seq(Symbol)
  BY <1>1, <1>2, <1>3, CutFacts
<1>5. \A k \in 1 .. n : SameLine(p[k], q[k])
  BY <1>2 DEF SamePieces
<1>6. d # "nl"
  BY DEF Ascii
<1>7. /\ Len(Cut(q, d)) = n /\ Cut(q, d)[n] = Append(q[n], d)
      /\ \A k \in 1 .. n - 1 : Cut(q, d)[k] = q[k]
  BY <1>1, <1>2, <1>6, CutAdds
<1>8. SameLine(p[n], Append(q[n], d))
  BY <1>2, <1>3, <1>4, <1>5, SameTrail DEF Open
<1>9. \A k \in 1 .. n : k = n \/ k \in 1 .. n - 1
  OBVIOUS
<1>10. \A k \in 1 .. n : SameLine(p[k], Cut(q, d)[k])
  BY <1>5, <1>7, <1>8, <1>9
<1> QED
  BY <1>1, <1>2, <1>3, <1>7, <1>10 DEF SamePieces

(* Two texts whose pieces look the same, and whose last ones are open.     *)
Alike(t, b) ==
  \E p, x, q, y : /\ IsCut(t, Len(t), p, x)
                  /\ IsCut(b, Len(b), q, y)
                  /\ SamePieces(p, q)

AlikeOpen(t, b) ==
  \E p, x, q, y : /\ IsCut(t, Len(t), p, x)
                  /\ IsCut(b, Len(b), q, y)
                  /\ SamePieces(p, q) /\ Open(q)

LEMMA NothingAlike == Alike(<<>>, <<>>)
<1>1. PICK s : IsCut(<<>>, Len(<<>>), <<<<>>>>, s)
  BY NoText
<1>2. SamePieces(<<<<>>>>, <<<<>>>>)
  <2>1. <<<<>>>> \in Pieces
    BY <1>1 DEF IsCut
  <2> QED
    BY <2>1 DEF SamePieces, SameLine
<1> QED
  BY <1>1, <1>2 DEF Alike

(* The same for the texts.                                                 *)
LEMMA AlikeGrows ==
  ASSUME NEW t \in Seq(Symbol), NEW b \in Seq(Symbol), Alike(t, b),
         NEW c \in Symbol, NEW d \in Symbol, SameSymbol(c, d)
  PROVE  /\ Alike(Append(t, c), Append(b, d))
         /\ d \notin Ascii => AlikeOpen(Append(t, c), Append(b, d))
<1>1. PICK p, x, q, y : /\ IsCut(t, Len(t), p, x)
                        /\ IsCut(b, Len(b), q, y)
                        /\ SamePieces(p, q)
  BY DEF Alike
<1>2. PICK s : IsCut(Append(t, c), Len(Append(t, c)), Cut(p, c), s)
  BY <1>1, CutAppend
<1>3. PICK r : IsCut(Append(b, d), Len(Append(b, d)), Cut(q, d), r)
  BY <1>1, CutAppend
<1>4. /\ SamePieces(Cut(p, c), Cut(q, d))
      /\ d \notin Ascii => Open(Cut(q, d))
  BY <1>1, PiecesGrow
<1> QED
  BY <1>2, <1>3, <1>4 DEF Alike, AlikeOpen

LEMMA AlikeTrail ==
  ASSUME NEW t \in Seq(Symbol), NEW b \in Seq(Symbol), AlikeOpen(t, b),
         NEW d \in Symbol, d \notin Ascii
  PROVE  Alike(t, Append(b, d))
<1>1. PICK p, x, q, y : /\ IsCut(t, Len(t), p, x)
                        /\ IsCut(b, Len(b), q, y)
                        /\ SamePieces(p, q) /\ Open(q)
  BY DEF AlikeOpen
<1>2. PICK r : IsCut(Append(b, d), Len(Append(b, d)), Cut(q, d), r)
  BY <1>1, CutAppend
<1>3. SamePieces(p, Cut(q, d))
  BY <1>1, TrailGrows
<1> QED
  BY <1>1, <1>2, <1>3 DEF Alike

LEMMA AppendBehind ==
  ASSUME NEW a \in Seq(Symbol), NEW b \in Seq(Symbol), NEW c \in Symbol
  PROVE  a \o Append(b, c) = Append(a \o b, c)
OBVIOUS

(* What a byte makes of the text before it.                                *)
LEMMA DecodeSame ==
  ASSUME NEW bytes \in Seq(Byte), NEW i \in 1 .. Len(bytes), NEW s \in Seq(Symbol)
  PROVE  /\ bytes[i] \in Symbol
         /\ \/ /\ Decode(s, bytes, i) = s
               /\ i - 1 \in 1 .. Len(bytes) /\ bytes[i - 1] = "lead"
               /\ bytes[i] = "trail"
            \/ \E c \in Symbol : /\ SameSymbol(c, bytes[i])
                                 /\ Decode(s, bytes, i) = Append(s, c)
<1>1. bytes[i] \in Byte
  OBVIOUS
<1>2. bytes[i] \in Symbol /\ "wide" \in Symbol /\ "replacement" \in Symbol
  BY <1>1 DEF Symbol
<1>3. "wide" \notin Ascii /\ "replacement" \notin Ascii
  BY DEF Ascii
<1>4. CASE bytes[i] \in Ascii
  <2>1. Decode(s, bytes, i) = Append(s, bytes[i])
    BY SMT, <1>4 DEF Decode, Ascii
  <2>2. SameSymbol(bytes[i], bytes[i])
    BY DEF SameSymbol
  <2> QED
    BY <1>2, <2>1, <2>2
<1>5. CASE bytes[i] \notin Ascii
  <2>1. \/ Decode(s, bytes, i) = Append(s, "wide")
        \/ Decode(s, bytes, i) = Append(s, "replacement")
        \/ /\ Decode(s, bytes, i) = s
           /\ i - 1 \in 1 .. Len(bytes) /\ bytes[i - 1] = "lead"
           /\ bytes[i] = "trail"
    <3>1. DOMAIN bytes = 1 .. Len(bytes)
      OBVIOUS
    <3> QED
      BY <1>5, <3>1 DEF Decode
  <2> QED
    BY <1>2, <1>3, <1>5, <2>1 DEF SameSymbol
<1> QED
  BY <1>4, <1>5

(* A chunk decoded, behind a text that looks like the bytes before it.     *)
LEMMA DecodedAlike ==
  ASSUME NEW t \in Seq(Symbol), NEW b \in Seq(Symbol), Alike(t, b),
         NEW bytes \in Seq(Byte)
  PROVE  /\ from_utf8_lossy(bytes) \in Seq(Symbol)
         /\ Alike(t \o from_utf8_lossy(bytes), b \o bytes)
<1>1. PICK f : IsDecoded(f, bytes) /\ from_utf8_lossy(bytes) = f[Len(bytes)]
  BY LossyIsDecoded
<1>2. PICK n \in Nat : n = Len(bytes)
  OBVIOUS
<1>3. bytes \in Seq(Symbol) /\ \A i \in 1 .. n : bytes[i] \in Symbol
  <2>1. \A i \in 1 .. Len(bytes) : bytes[i] \in Symbol
    BY DecodeSame, NoText
  <2> QED
    BY <1>2, <2>1
<1> DEFINE T == {k \in 0 .. n :
                   /\ f[k] \in Seq(Symbol)
                   /\ Alike(t \o f[k], b \o FirstPart(bytes, k))
                   /\ k \in 1 .. n /\ bytes[k] = "lead"
                        => AlikeOpen(t \o f[k], b \o FirstPart(bytes, k))}
<1>4. /\ FirstPart(bytes, 0) = <<>> /\ FirstPart(bytes, n) = bytes
      /\ \A k \in 0 .. n : FirstPart(bytes, k) \in Seq(Symbol)
      /\ \A k \in 1 .. n :
           FirstPart(bytes, k) = Append(FirstPart(bytes, k - 1), bytes[k])
  BY <1>2, <1>3, PartsOf
<1>5. 0 \in T
  <2>1. f[0] = <<>>
    BY <1>1 DEF IsDecoded
  <2>2. t \o <<>> = t /\ b \o <<>> = b /\ <<>> \in Seq(Symbol)
    OBVIOUS
  <2>3. t \o f[0] = t /\ b \o FirstPart(bytes, 0) = b
    BY <1>4, <2>1, <2>2
  <2>4. Alike(t \o f[0], b \o FirstPart(bytes, 0))
    BY <2>3
  <2>5. 0 \in 0 .. n /\ 0 \notin 1 .. n
    OBVIOUS
  <2> QED
    BY <2>1, <2>2, <2>4, <2>5
<1>6. ASSUME NEW k \in 1 .. n, k - 1 \in T PROVE k \in T
  <2>1. /\ k \in 0 .. n /\ k - 1 \in 0 .. n
        /\ f[k - 1] \in Seq(Symbol)
        /\ Alike(t \o f[k - 1], b \o FirstPart(bytes, k - 1))
        /\ k - 1 \in 1 .. n /\ bytes[k - 1] = "lead"
             => AlikeOpen(t \o f[k - 1], b \o FirstPart(bytes, k - 1))
    BY <1>6
  <2>2. f[k] = Decode(f[k - 1], bytes, k)
    BY <1>1, <1>2 DEF IsDecoded
  <2>3. PICK s \in Seq(Symbol) : s = f[k - 1]
    BY <2>1
  <2>4. PICK h \in Seq(Symbol) : h = FirstPart(bytes, k - 1)
    BY <1>4, <2>1
  <2>5. PICK d \in Symbol : d = bytes[k]
    BY <1>3
  <2>6. /\ FirstPart(bytes, k) = Append(h, d)
        /\ b \o Append(h, d) = Append(b \o h, d)
        /\ t \o s \in Seq(Symbol) /\ b \o h \in Seq(Symbol)
    <3>1. b \o Append(h, d) = Append(b \o h, d)
      BY AppendBehind
    <3>2. t \o s \in Seq(Symbol) /\ b \o h \in Seq(Symbol)
      OBVIOUS
    <3>3. FirstPart(bytes, k) = Append(h, d)
      BY <1>4, <2>4, <2>5
    <3> QED
      BY <3>1, <3>2, <3>3
  <2>7. \/ /\ f[k] = s /\ k - 1 \in 1 .. n /\ bytes[k - 1] = "lead"
           /\ d = "trail"
        \/ \E c \in Symbol : SameSymbol(c, d) /\ f[k] = Append(s, c)
    <3>1. k \in 1 .. Len(bytes)
      BY <1>2
    <3>2. \/ /\ Decode(s, bytes, k) = s
             /\ k - 1 \in 1 .. Len(bytes) /\ bytes[k - 1] = "lead"
             /\ bytes[k] = "trail"
          \/ \E c \in Symbol : /\ SameSymbol(c, bytes[k])
                               /\ Decode(s, bytes, k) = Append(s, c)
      BY ONLY bytes \in Seq(Byte), s \in Seq(Symbol), <3>1, DecodeSame
    <3>3. f[k] = Decode(s, bytes, k)
      BY <2>2, <2>3
    <3> QED
      BY ONLY <1>2, <2>5, <3>2, <3>3
  <2>8. CASE /\ f[k] = s /\ k - 1 \in 1 .. n /\ bytes[k - 1] = "lead"
             /\ d = "trail"
    <3>1. AlikeOpen(t \o s, b \o h)
      BY <2>1, <2>3, <2>4, <2>8
    <3>2. Alike(t \o s, Append(b \o h, d))
      <4>1. d \notin Ascii
        BY <2>8 DEF Ascii
      <4> QED
        BY <2>6, <3>1, <4>1, AlikeTrail
    <3>3. b \o FirstPart(bytes, k) = Append(b \o h, d)
      BY <2>6
    <3>4. bytes[k] # "lead"
      BY <2>5, <2>8
    <3> QED
      BY <2>1, <2>3, <2>6, <2>8, <3>2, <3>3, <3>4
  <2>9. CASE \E c \in Symbol : SameSymbol(c, d) /\ f[k] = Append(s, c)
    <3>1. PICK c \in Symbol : SameSymbol(c, d) /\ f[k] = Append(s, c)
      BY <2>9
    <3>2. t \o Append(s, c) = Append(t \o s, c) /\ Append(s, c) \in Seq(Symbol)
      BY AppendBehind
    <3>3. Alike(t \o s, b \o h)
      BY <2>1, <2>3, <2>4
    <3>4. /\ Alike(Append(t \o s, c), Append(b \o h, d))
          /\ d \notin Ascii => AlikeOpen(Append(t \o s, c), Append(b \o h, d))
      BY <2>6, <3>1, <3>3, AlikeGrows
    <3>5. d = "lead" => d \notin Ascii
      BY DEF Ascii
    <3> QED
      BY <2>1, <2>5, <2>6, <3>1, <3>2, <3>4, <3>5
  <2> QED
    BY <2>7, <2>8, <2>9
<1> HIDE DEF T
<1>7. n \in T
  <2>1. 0 .. n \subseteq T
    BY <1>5, <1>6, InductionUpTo
  <2> QED
    BY <2>1
<1> QED
  BY <1>1, <1>2, <1>4, <1>7 DEF T

(* Lines that are the same, one by one, in their ASCII characters.         *)
SameAscii(x, y) ==
  /\ Len(x) = Len(y)
  /\ \A k \in 1 .. Len(x) : AsciiOf(x[k]) = AsciiOf(y[k])

(* Texts that look the same have lines with the same ASCII characters.     *)
LEMMA LinesAlike ==
  ASSUME NEW t \in Seq(Symbol), NEW b \in Seq(Symbol), Alike(t, b)
  PROVE  /\ SameAscii(CompletedLines(t), CompletedLines(b))
         /\ SameAscii(lines(t), lines(b))
         /\ CompletedLines(t) \in Seq(Piece) /\ lines(t) \in Seq(Piece)
<1>1. PICK p, x, q, y : /\ IsCut(t, Len(t), p, x)
                        /\ IsCut(b, Len(b), q, y)
                        /\ SamePieces(p, q)
  BY DEF Alike
<1>2. p \in Pieces /\ q \in Pieces
  BY <1>1 DEF SamePieces
<1>3. PICK m \in Nat : Len(p) = m + 1 /\ Len(q) = m + 1
  <2>1. Len(p) \in Nat \ {0} /\ Len(p) = Len(q)
    <3>1. p \in Seq(Piece) /\ p # <<>>
      BY <1>2 DEF Pieces
    <3> QED
      BY <1>1, <3>1 DEF SamePieces
  <2>2. Len(p) - 1 \in Nat /\ Len(p) = (Len(p) - 1) + 1
    BY <2>1
  <2> QED
    BY <2>1, <2>2
<1>4. \A k \in 1 .. m + 1 : /\ p[k] \in Seq(Symbol) /\ q[k] \in Seq(Symbol)
                            /\ SameLine(p[k], q[k])
  <2>1. \A k \in 1 .. Len(p) : p[k] \in Seq(Symbol)
    BY <1>2 DEF Pieces, Piece
  <2>2. \A k \in 1 .. Len(q) : q[k] \in Seq(Symbol)
    BY <1>2 DEF Pieces, Piece
  <2> QED
    BY <1>1, <1>3, <2>1, <2>2 DEF SamePieces
<1>5. /\ CompletedLines(t) = CompleteLines(p)
      /\ lines(t) = CompleteLines(p) \o
                      (IF Last(p) = <<>> THEN <<>> ELSE <<Last(p)>>)
      /\ CompleteLines(p) \in Seq(Piece)
  BY <1>1, PushedOfCut
<1>6. /\ CompletedLines(b) = CompleteLines(q)
      /\ lines(b) = CompleteLines(q) \o
                      (IF Last(q) = <<>> THEN <<>> ELSE <<Last(q)>>)
      /\ CompleteLines(q) \in Seq(Piece)
  BY <1>1, PushedOfCut
<1>7. PICK v \in Seq(Piece), w \in Seq(Piece) :
        v = CompleteLines(p) /\ w = CompleteLines(q)
  BY <1>5, <1>6
<1>8. /\ Len(v) = m /\ Len(w) = m
      /\ \A k \in 1 .. m : v[k] = StripCr(p[k]) /\ w[k] = StripCr(q[k])
  <2>1. Len(p) - 1 = m /\ Len(q) - 1 = m
    BY <1>3
  <2>2. /\ v = [k \in 1 .. m |-> StripCr(p[k])]
        /\ w = [k \in 1 .. m |-> StripCr(q[k])]
    BY <1>7, <2>1 DEF CompleteLines
  <2> QED
    BY <2>2
<1>9. \A k \in 1 .. m : AsciiOf(v[k]) = AsciiOf(w[k])
  <2> SUFFICES ASSUME NEW k \in 1 .. m PROVE AsciiOf(v[k]) = AsciiOf(w[k])
    OBVIOUS
  <2>1. k \in 1 .. m + 1
    OBVIOUS
  <2> QED
    BY <1>4, <1>8, <2>1, SameStripped
<1>10. PICK g \in Piece, h \in Piece :
         g = Last(p) /\ h = Last(q) /\ SameLine(g, h)
  <2>1. m + 1 \in 1 .. m + 1
    OBVIOUS
  <2> QED
    BY <1>3, <1>4, <2>1 DEF Last, Piece
<1>11. SameAscii(v, w)
  BY <1>8, <1>9 DEF SameAscii
<1>12. CASE g = <<>>
  <2>1. h = <<>>
    BY <1>10, <1>12 DEF SameLine
  <2>2. v \o <<>> = v /\ w \o <<>> = w
    OBVIOUS
  <2> QED
    BY <1>5, <1>6, <1>7, <1>10, <1>11, <1>12, <2>1, <2>2
<1>13. CASE g # <<>>
  <2>1. h # <<>> /\ AsciiOf(g) = AsciiOf(h)
    BY <1>10, <1>13 DEF SameLine
  <2>2. /\ v \o <<g>> \in Seq(Piece) /\ Len(v \o <<g>>) = m + 1
        /\ (v \o <<g>>)[m + 1] = g
        /\ \A k \in 1 .. m : (v \o <<g>>)[k] = v[k]
    <3>1. Len(v) = m
      BY <1>8
    <3> QED
      BY ONLY v \in Seq(Piece), g \in Piece, m \in Nat, <3>1
  <2>3. /\ w \o <<h>> \in Seq(Piece) /\ Len(w \o <<h>>) = m + 1
        /\ (w \o <<h>>)[m + 1] = h
        /\ \A k \in 1 .. m : (w \o <<h>>)[k] = w[k]
    <3>1. Len(w) = m
      BY <1>8
    <3> QED
      BY ONLY w \in Seq(Piece), h \in Piece, m \in Nat, <3>1
  <2>4. \A k \in 1 .. m + 1 : k \in 1 .. m \/ k = m + 1
    OBVIOUS
  <2>5. SameAscii(v \o <<g>>, w \o <<h>>)
    BY <1>9, <2>1, <2>2, <2>3, <2>4 DEF SameAscii
  <2>6. lines(t) = v \o <<g>> /\ lines(b) = w \o <<h>>
    BY <1>5, <1>6, <1>7, <1>10, <1>13, <2>1
  <2> QED
    BY <1>5, <1>6, <1>7, <1>11, <2>2, <2>5, <2>6
<1> QED
  BY <1>12, <1>13

-----------------------------------------------------------------------------
(* TailerText's operators are those of this module.                        *)
LEMMA ReadsOperators ==
  ASSUME NEW t
  PROVE  /\ Reads!lines(t) = lines(t)
         /\ Reads!split(t) = split(t)
         /\ Reads!from_utf8_lossy(t) = from_utf8_lossy(t)
         /\ Reads!AsciiOf(t) = AsciiOf(t)
         /\ Reads!StripCr(t) = StripCr(t)
         /\ Reads!Last(t) = Last(t)
         /\ Reads!CompletedLines(t) = CompletedLines(t)
<1>1. Reads!lines(t) = lines(t)
  BY DEF Reads!lines, lines, Reads!LinePlaces, LinePlaces,
         Reads!LineCount, LineCount, Reads!NewlinesBefore, NewlinesBefore,
         Reads!IsCompleted, IsCompleted, Reads!Cardinality, Cardinality
<1>2. Reads!split(t) = split(t)
  BY DEF Reads!split, split, Reads!Cut, Cut
<1>3. Reads!from_utf8_lossy(t) = from_utf8_lossy(t)
  BY DEF Reads!from_utf8_lossy, from_utf8_lossy, Reads!Decode, Decode,
         Reads!Ascii, Ascii
<1>4. Reads!AsciiOf(t) = AsciiOf(t)
  BY DEF Reads!AsciiOf, AsciiOf, Reads!KeepAscii, KeepAscii,
         Reads!Ascii, Ascii
<1>5. Reads!StripCr(t) = StripCr(t)
  BY DEF Reads!StripCr, StripCr, Reads!Last, Last, Reads!Front, Front
<1>6. Reads!Last(t) = Last(t)
  BY DEF Reads!Last, Last
<1>7. Reads!CompletedLines(t) = CompletedLines(t)
  BY <1>1 DEF Reads!CompletedLines, CompletedLines, Reads!IsCompleted,
              IsCompleted, Reads!Front, Front
<1> QED
  BY <1>1, <1>2, <1>3, <1>4, <1>5, <1>6, <1>7

(* What a read does, in the operators of this module.                      *)
LEMMA ReadSaid ==
  ASSUME Reads!Read
  PROVE  \E n, bytes, pieces :
           /\ n \in Nat \ {0}
           /\ position + n <= Len(log)
           /\ bytes = SubSeq(log, position + 1, position + n)
           /\ pieces = split(partial_line \o from_utf8_lossy(bytes))
           /\ ~flushed /\ flushed' = flushed /\ log' = log
           /\ position' = position + n
           /\ polled' = polled \o CompleteLines(pieces)
           /\ partial_line' = Last(pieces)
<1>1. PICK n, bytes, pieces :
        /\ n \in 1 .. ReadBufferCapacity
        /\ position + n <= Len(log)
        /\ bytes = SubSeq(log, position + 1, position + n)
        /\ pieces = Reads!split(Reads!Combined(bytes))
        /\ ~flushed /\ flushed' = flushed /\ log' = log
        /\ position' = position + n
        /\ polled' = polled \o
             [k \in 1 .. Len(pieces) - 1 |-> Reads!StripCr(pieces[k])]
        /\ partial_line' = Reads!Last(pieces)
  BY DEF Reads!Read
<1>2. pieces = split(partial_line \o from_utf8_lossy(bytes))
  BY <1>1, ReadsOperators DEF Reads!Combined
<1>3. [k \in 1 .. Len(pieces) - 1 |-> Reads!StripCr(pieces[k])]
        = CompleteLines(pieces)
  BY ReadsOperators DEF CompleteLines
<1>4. n \in Nat \ {0}
  BY <1>1, BoundsAssumption
<1> QED
  BY <1>1, <1>2, <1>3, <1>4, ReadsOperators

(* What the tailer pushed and holds back is the lines and the rest of a    *)
(* text that looks like the bytes it read.                                 *)
ReadsLookAlike ==
  /\ log \in Seq(Byte) /\ position \in 0 .. Len(log)
  /\ \E t \in Seq(Symbol) :
       /\ Alike(t, FirstPart(log, position))
       /\ flushed => polled = lines(t) /\ partial_line = <<>>
       /\ ~flushed => polled = CompletedLines(t) /\ partial_line = Remainder(t)


(* It holds at the start, and a write, a read and flush() keep it.         *)
LEMMA ReadsInit == TextInit => ReadsLookAlike
<1> SUFFICES ASSUME TextInit PROVE ReadsLookAlike
  OBVIOUS
<1>1. /\ log = <<>> /\ position = 0 /\ partial_line = <<>>
      /\ polled = <<>> /\ flushed = FALSE
  BY DEF TextInit, Reads!Init
<1>2. CompletedLines(<<>>) = <<>> /\ Remainder(<<>>) = <<>>
  BY NoText, PushedOfCut, <<>> \in Seq(Symbol)
<1>3. FirstPart(<<>>, 0) = <<>> /\ <<>> \in Seq(Byte) /\ Len(<<>>) = 0
  <2>1. <<>> \in Seq(Byte) /\ Len(<<>>) = 0
    OBVIOUS
  <2> QED
    BY <2>1, PartsOf
<1>4. log \in Seq(Byte) /\ position \in 0 .. Len(log)
  BY <1>1, <1>3
<1>5. /\ <<>> \in Seq(Symbol) /\ Alike(<<>>, FirstPart(log, position))
      /\ polled = CompletedLines(<<>>) /\ partial_line = Remainder(<<>>)
  BY <1>1, <1>2, <1>3, NoText, NothingAlike
<1> QED
  BY <1>1, <1>4, <1>5 DEF ReadsLookAlike

LEMMA ReadsWrite ==
  ASSUME ReadsLookAlike, Reads!Write
  PROVE  ReadsLookAlike'
<1>1. PICK byte \in Byte : log' = Append(log, byte)
  BY DEF Reads!Write, Reads!Ascii, Byte, Ascii
<1>2. /\ position' = position /\ partial_line' = partial_line
      /\ polled' = polled /\ flushed' = flushed
  BY DEF Reads!Write
<1>3. /\ log \in Seq(Byte) /\ position \in 0 .. Len(log)
  BY DEF ReadsLookAlike
<1>4. /\ log' \in Seq(Byte) /\ position' \in 0 .. Len(log')
      /\ FirstPart(log', position') = FirstPart(log, position)
  <2>1. PICK n \in Nat : n = position
    BY <1>3
  <2>2. PICK more \in Seq(Byte) :
          /\ more = Append(log, byte) /\ Len(more) = Len(log) + 1
          /\ \A i \in 1 .. Len(log) : more[i] = log[i]
    <3>1. /\ Append(log, byte) \in Seq(Byte)
          /\ Len(Append(log, byte)) = Len(log) + 1
          /\ \A i \in 1 .. Len(log) : Append(log, byte)[i] = log[i]
      BY <1>3
    <3> QED
      BY <3>1
  <2>3. Len(log) \in Nat /\ n <= Len(log)
    BY <1>3, <2>1
  <2>4. /\ SubSeq(more, 1, n) \in Seq(Byte) /\ Len(SubSeq(more, 1, n)) = n
        /\ \A i \in 1 .. n : SubSeq(more, 1, n)[i] = more[i]
    BY <2>2, <2>3
  <2>5. /\ SubSeq(log, 1, n) \in Seq(Byte) /\ Len(SubSeq(log, 1, n)) = n
        /\ \A i \in 1 .. n : SubSeq(log, 1, n)[i] = log[i]
    BY <1>3, <2>3
  <2>6. \A i \in 1 .. n : i \in 1 .. Len(log)
    BY <2>3
  <2>7. SubSeq(more, 1, n) = SubSeq(log, 1, n)
    BY <2>2, <2>4, <2>5, <2>6
  <2> QED
    BY <1>1, <1>2, <1>3, <2>1, <2>2, <2>3, <2>7 DEF FirstPart
<1> QED
  BY <1>2, <1>4 DEF ReadsLookAlike

LEMMA ReadsRead ==
  ASSUME ReadsLookAlike, Reads!Read
  PROVE  ReadsLookAlike'
<1>1. PICK n, bytes, pieces :
        /\ n \in Nat \ {0}
        /\ position + n <= Len(log)
        /\ bytes = SubSeq(log, position + 1, position + n)
        /\ pieces = split(partial_line \o from_utf8_lossy(bytes))
        /\ ~flushed /\ flushed' = flushed /\ log' = log
        /\ position' = position + n
        /\ polled' = polled \o CompleteLines(pieces)
        /\ partial_line' = Last(pieces)
  BY ReadSaid
<1>2. log \in Seq(Byte) /\ position \in 0 .. Len(log)
  BY DEF ReadsLookAlike
<1>3. PICK t \in Seq(Symbol) :
        /\ Alike(t, FirstPart(log, position))
        /\ polled = CompletedLines(t) /\ partial_line = Remainder(t)
  BY <1>1 DEF ReadsLookAlike
<1>4. position \in Nat /\ position + n \in 0 .. Len(log)
  BY <1>1, <1>2
<1>5. /\ bytes \in Seq(Byte)
      /\ FirstPart(log, position + n) = FirstPart(log, position) \o bytes
  BY <1>1, <1>2, <1>4, NextPart
<1>6. FirstPart(log, position) \in Seq(Symbol)
  <2>1. FirstPart(log, position) \in Seq(Byte)
    BY <1>2, PartsOf
  <2>2. Byte \subseteq Symbol
    BY DEF Symbol
  <2> QED
    BY <2>1, <2>2
<1>7. PICK u \in Seq(Symbol) :
        /\ u = from_utf8_lossy(bytes)
        /\ Alike(t \o u, FirstPart(log, position) \o bytes)
  BY <1>3, <1>5, <1>6, DecodedAlike
<1>8. pieces = split(Remainder(t) \o u)
  BY <1>1, <1>3, <1>7
<1>9. /\ CompletedLines(t \o u) = CompletedLines(t) \o CompleteLines(pieces)
      /\ Remainder(t \o u) = Last(pieces)
      /\ t \o u \in Seq(Symbol)
  BY <1>8, TextGrows
<1>10. Alike(t \o u, FirstPart(log', position'))
  BY <1>1, <1>5, <1>7
<1>11. /\ polled' = CompletedLines(t \o u)
       /\ partial_line' = Remainder(t \o u)
  BY <1>1, <1>3, <1>9
<1>12. log' \in Seq(Byte) /\ position' \in 0 .. Len(log') /\ ~flushed'
  BY <1>1, <1>2, <1>4
<1> QED
  BY <1>9, <1>10, <1>11, <1>12 DEF ReadsLookAlike

LEMMA ReadsFlush ==
  ASSUME ReadsLookAlike, Reads!Flush
  PROVE  ReadsLookAlike'
<1>1. /\ ~flushed /\ flushed' = TRUE /\ partial_line' = <<>>
      /\ polled' = (IF partial_line = <<>> THEN polled
                                           ELSE Append(polled, partial_line))
      /\ log' = log /\ position' = position
  BY DEF Reads!Flush
<1>2. log \in Seq(Byte) /\ position \in 0 .. Len(log)
  BY DEF ReadsLookAlike
<1>3. PICK t \in Seq(Symbol) :
        /\ Alike(t, FirstPart(log, position))
        /\ polled = CompletedLines(t) /\ partial_line = Remainder(t)
  BY <1>1 DEF ReadsLookAlike
<1>4. PICK p, s : IsCut(t, Len(t), p, s)
  BY SplitIsCut
<1>5. /\ polled = CompleteLines(p) /\ partial_line = Last(p)
      /\ lines(t) = CompleteLines(p) \o
                      (IF Last(p) = <<>> THEN <<>> ELSE <<Last(p)>>)
      /\ CompleteLines(p) \in Seq(Piece)
  BY <1>3, <1>4, PushedOfCut
<1>6. PICK v \in Seq(Piece) : v = polled
  BY <1>5
<1>7. polled' = lines(t)
  <2>1. CASE partial_line = <<>>
    <3>1. v \o <<>> = v
      OBVIOUS
    <3> QED
      BY <1>1, <1>5, <1>6, <2>1, <3>1
  <2>2. CASE partial_line # <<>>
    <3>1. lines(t) = v \o <<partial_line>> /\ polled' = Append(v, partial_line)
      BY <1>1, <1>5, <1>6, <2>2
    <3>2. \A e : Append(v, e) = v \o <<e>>
      OBVIOUS
    <3> QED
      BY <3>1, <3>2
  <2> QED
    BY <2>1, <2>2
<1> QED
  BY <1>1, <1>2, <1>3, <1>7 DEF ReadsLookAlike

LEMMA ReadsStep ==
  ASSUME subject = "reads" => ReadsLookAlike,
         [TextNext]_<<subject, vars, readVars, header>>
  PROVE  (subject = "reads" => ReadsLookAlike)'
<1>1. CASE NextChunk
  BY <1>1 DEF NextChunk
<1>2. CASE NextRead
  <2>1. subject = "reads" /\ Reads!Next /\ ReadsLookAlike
    BY <1>2 DEF NextRead
  <2>2. ReadsLookAlike'
    BY <2>1, ReadsWrite, ReadsRead, ReadsFlush DEF Reads!Next
  <2> QED
    BY <2>2
<1>3. CASE UNCHANGED <<subject, vars, readVars, header>>
  BY <1>3 DEF readVars, ReadsLookAlike
<1> QED
  BY <1>1, <1>2, <1>3 DEF TextNext

LEMMA ReadsSame ==
  ASSUME ReadsLookAlike
  PROVE  Reads!AsciiOfLinesSurvives
<1>1. log \in Seq(Byte) /\ position \in 0 .. Len(log)
  BY DEF ReadsLookAlike
<1>2. PICK t \in Seq(Symbol) :
        /\ Alike(t, FirstPart(log, position))
        /\ flushed => polled = lines(t)
        /\ ~flushed => polled = CompletedLines(t)
  BY DEF ReadsLookAlike
<1>3. PICK b \in Seq(Byte) : b = FirstPart(log, position) /\ b \in Seq(Symbol)
  <2>1. FirstPart(log, position) \in Seq(Byte)
    BY <1>1, PartsOf
  <2>2. Byte \subseteq Symbol
    BY DEF Symbol
  <2> QED
    BY <2>1, <2>2
<1>4. PICK r \in Seq(Symbol) : r = from_utf8_lossy(b) /\ Alike(r, b)
  <2>1. PICK e \in Seq(Symbol) : e = <<>>
    BY NoText
  <2>2. PICK r \in Seq(Symbol) : r = from_utf8_lossy(b) /\ Alike(e \o r, e \o b)
    <3>1. Alike(e, e)
      BY <2>1, NothingAlike
    <3> QED
      BY <1>3, <3>1, DecodedAlike
  <2>3. e \o r = r /\ e \o b = b
    BY <1>3, <2>1
  <2> QED
    BY <2>2, <2>3
<1>5. /\ SameAscii(CompletedLines(t), CompletedLines(b))
      /\ SameAscii(lines(t), lines(b))
  BY <1>2, <1>3, LinesAlike
<1>6. /\ SameAscii(CompletedLines(r), CompletedLines(b))
      /\ SameAscii(lines(r), lines(b))
      /\ CompletedLines(r) \in Seq(Piece) /\ lines(r) \in Seq(Piece)
  BY <1>3, <1>4, LinesAlike
<1>7. /\ SameAscii(CompletedLines(t), CompletedLines(r))
      /\ SameAscii(lines(t), lines(r))
  BY <1>5, <1>6 DEF SameAscii
<1>8. PICK expected \in Seq(Piece) :
        /\ expected = IF flushed THEN lines(r) ELSE CompletedLines(r)
        /\ SameAscii(polled, expected)
  BY <1>2, <1>6, <1>7
<1>9. Reads!ReadText = r
  BY <1>3, <1>4, ReadsOperators DEF Reads!ReadText, FirstPart
<1>10. (IF flushed THEN Reads!lines(Reads!ReadText)
                   ELSE Reads!CompletedLines(Reads!ReadText)) = expected
  BY <1>8, <1>9, ReadsOperators
<1>11. /\ Len(polled) = Len(expected)
       /\ \A k \in DOMAIN expected :
            Reads!AsciiOf(polled[k]) = Reads!AsciiOf(expected[k])
  <2>1. DOMAIN expected = 1 .. Len(expected)
    OBVIOUS
  <2> QED
    BY <1>8, <2>1, ReadsOperators DEF SameAscii
<1> QED
  BY <1>10, <1>11 DEF Reads!AsciiOfLinesSurvives

(* However the reads of the tailer cut the log, between '\r' and '\n' or   *)
(* inside a character, its lines have the ASCII characters of the lines of *)
(* what it read, decoded as a whole (tailer.rs, poll and flush).           *)
THEOREM AsciiSurvives == TextSpec => []AsciiOfLinesSurvives
<1>1. TextInit => (subject = "reads" => ReadsLookAlike)
  BY ReadsInit
<1>2. (subject = "reads" => ReadsLookAlike) => AsciiOfLinesSurvives
  BY ReadsSame DEF AsciiOfLinesSurvives
<1> QED
  BY <1>1, <1>2, ReadsStep, PTL DEF TextSpec
=============================================================================
