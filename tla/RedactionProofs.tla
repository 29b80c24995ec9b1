--------------------------- MODULE RedactionProofs ---------------------------
(***************************************************************************)
(* Proofs about Redaction: messages of any length.                         *)
(*                                                                         *)
(* Scan is a recursive function. Runs says without recursion what it       *)
(* leaves: for each place of the result, the place of the text its piece   *)
(* came from (at) and the place where that piece begins (st). ScanRuns     *)
(* proves it by induction on the text, and everything else uses it alone.  *)
(* What a pass hides is then hidden because a secret in the result would   *)
(* be one in the text, at a place where the pass matches; that the later   *)
(* passes and the collapse uncover nothing, because they only replace, by  *)
(* the placeholder or by one blank, stretches of the text: only user       *)
(* information may read on over a placeholder.                             *)
(***************************************************************************)
EXTENDS Redaction, WellFoundedInduction, TLAPS

-----------------------------------------------------------------------------
(* Induction, by least elements.                                           *)

\* A set of natural numbers that is not empty has a least element.
LEMMA LeastNatural ==
    ASSUME NEW T \in SUBSET Nat, T # {}
    PROVE  \E m \in T : \A k \in T : m <= k
<1> DEFINE R == OpToRel(<, Nat)
<1>1. IsWellFoundedOn(R, Nat)
  BY NatLessThanWellFounded, Zenon
<1>2. \A i, j \in Nat : <<i, j>> \in R <=> i < j
  BY Zenon DEF OpToRel
<1> HIDE DEF R
<1>3. PICK m \in T : \A k \in T : ~(<<k, m>> \in R)
  BY <1>1, WFMin
<1>4. ASSUME NEW k \in T PROVE m <= k
  <2>1. k \in Nat /\ m \in Nat /\ ~(k < m)
    BY <1>2, <1>3
  <2> QED  BY <2>1
<1> QED  BY <1>4

\* Induction over an interval, the set of its good members given.
LEMMA Upwards ==
    ASSUME NEW a \in Nat, NEW b \in Nat, NEW G,
           a <= b => a \in G,
           \A k \in a..b - 1 : k \in G => k + 1 \in G
    PROVE  \A k \in a..b : k \in G
<1> DEFINE T == {k \in a..b : k \notin G}
<1>1. SUFFICES ASSUME T # {} PROVE FALSE
  OBVIOUS
<1>2. PICK m \in T : \A k \in T : m <= k
  <2>1. T \in SUBSET Nat
    OBVIOUS
  <2> HIDE DEF T
  <2> QED  BY <1>1, <2>1, LeastNatural
<1>3. m # a
  BY <1>2
<1>4. m - 1 \in a..b - 1 /\ m - 1 \in a..b
  BY <1>2, <1>3
<1>5. m - 1 \in G
  BY <1>2, <1>4
<1>6. (m - 1) + 1 \in G
  BY <1>4, <1>5
<1> QED  BY <1>2, <1>6

\* The same, downwards.
LEMMA Downwards ==
    ASSUME NEW a \in Nat, NEW b \in Nat, NEW G,
           a <= b => b \in G,
           \A k \in a..b - 1 : k + 1 \in G => k \in G
    PROVE  \A k \in a..b : k \in G
<1> DEFINE H == {k \in 0..b - a : b - k \in G}
<1>1. SUFFICES ASSUME a <= b PROVE \A k \in a..b : k \in G
  OBVIOUS
<1>2. b - a \in Nat /\ 0 \in Nat /\ 0 <= b - a
  BY <1>1
<1>3. 0 \in H
  BY <1>1, <1>2
<1>4. ASSUME NEW k \in 0..(b - a) - 1, k \in H PROVE k + 1 \in H
  <2>1. b - (k + 1) \in a..b - 1 /\ (b - (k + 1)) + 1 = b - k /\ b - k \in G
    BY <1>1, <1>4
  <2>2. b - (k + 1) \in G
    BY <2>1
  <2> QED  BY <1>1, <1>4, <2>2
<1> HIDE DEF H
<1>5. \A k \in 0..b - a : k \in H
  BY <1>2, <1>3, <1>4, Upwards
<1>6. ASSUME NEW k \in a..b PROVE k \in G
  <2>1. b - k \in 0..b - a /\ b - (b - k) = k
    BY <1>1
  <2> QED  BY <1>5, <2>1 DEF H
<1> QED  BY <1>6

-----------------------------------------------------------------------------
(* Where a class ends.                                                     *)

\* What Past finds: the end of the class, and nothing before it outside.
LEMMA PastIs ==
    ASSUME NEW S, NEW text \in Seq(S), NEW class, NEW i \in 1..Len(text) + 1
    PROVE  LET j == Past(text, i, class)
           IN /\ j \in i..Len(text) + 1
              /\ \A k \in i..j - 1 : text[k] \in class
              /\ j <= Len(text) => text[j] \notin class
<1> DEFINE T == {j \in i..Len(text) + 1 : j <= Len(text) => text[j] \notin class}
           P(j) == /\ \A k \in i..j - 1 : text[k] \in class
                   /\ j <= Len(text) => text[j] \notin class
<1>1. Len(text) + 1 \in T /\ T \in SUBSET Nat
  OBVIOUS
<1>2. PICK m \in T : \A k \in T : m <= k
  BY <1>1, LeastNatural
<1>3. \A k \in i..m - 1 : text[k] \in class
  BY <1>2
<1>4. \E j \in i..Len(text) + 1 : P(j)
  BY <1>2, <1>3
<1>5. Past(text, i, class) = CHOOSE j \in i..Len(text) + 1 : P(j)
  BY DEF Past
<1> HIDE DEF P
<1>6. Past(text, i, class) \in i..Len(text) + 1 /\ P(Past(text, i, class))
  BY <1>4, <1>5
<1> QED  BY <1>6 DEF P

\* A place with its like before it and another behind it is that place.
LEMMA PastAt ==
    ASSUME NEW S, NEW text \in Seq(S), NEW class, NEW i \in 1..Len(text) + 1,
           NEW j \in i..Len(text) + 1,
           \A k \in i..j - 1 : text[k] \in class,
           j <= Len(text) => text[j] \notin class
    PROVE  Past(text, i, class) = j
<1> DEFINE p == Past(text, i, class)
<1>1. /\ p \in i..Len(text) + 1
      /\ \A k \in i..p - 1 : text[k] \in class
      /\ p <= Len(text) => text[p] \notin class
  BY PastIs
<1> HIDE DEF p
<1>2. ~(p < j)
  BY <1>1
<1>3. ~(j < p)
  BY <1>1
<1>4. p = j
  BY <1>1, <1>2, <1>3
<1> QED  BY <1>4 DEF p

\* It lies behind a place in the class.
LEMMA PastGoes ==
    ASSUME NEW S, NEW text \in Seq(S), NEW class, NEW i \in 1..Len(text),
           text[i] \in class
    PROVE  Past(text, i, class) > i
<1> DEFINE p == Past(text, i, class)
<1>1. /\ p \in i..Len(text) + 1
      /\ p <= Len(text) => text[p] \notin class
  BY PastIs
<1> QED  BY <1>1
-----------------------------------------------------------------------------
(* A scan cuts its text into pieces.                                       *)

\* A matcher goes no further than the text, and leaves something there.
Bounded(text, match) ==
    \A i \in 1..Len(text) :
        /\ match[i].to \in 0..Len(text) + 1
        /\ match[i].to > i => match[i].text \in Seq(Everything) /\ match[i].text # <<>>

Piece(text, match, i)  == IF match[i].to > i THEN match[i].text ELSE <<text[i]>>

Onward(match, i) == IF match[i].to > i THEN match[i].to ELSE i + 1

\* What a scan's local function says of itself.
Scans(text, match, from) ==
    from = [i \in 1..Len(text) + 1 |->
               IF i > Len(text) THEN <<>>
               ELSE IF match[i].to > i THEN match[i].text \o from[match[i].to]
               ELSE <<text[i]>> \o from[i + 1]]

\* There is such a function.
LEMMA ScanFrom ==
    ASSUME NEW text \in Seq(Everything), NEW match, Bounded(text, match)
    PROVE  \E from : Scans(text, match, from) /\ Scan(text, match) = from[1]
<1> DEFINE n == Len(text)
           Body(f, i) == IF i > n THEN <<>>
                         ELSE IF match[i].to > i THEN match[i].text \o f[match[i].to]
                         ELSE <<text[i]>> \o f[i + 1]
           G == {j \in 1..n + 1 : \E f : f = [i \in j..n + 1 |-> Body(f, i)]}
<1>1. n \in Nat
  OBVIOUS
<1>2. n + 1 \in G
  <2> DEFINE f == [i \in n + 1..n + 1 |-> <<>>]
  <2>1. ASSUME NEW i \in n + 1..n + 1 PROVE <<>> = Body(f, i)
    <3>1. i > n
      <4> HIDE DEF n
      <4> QED  BY <1>1
    <3> QED  BY <3>1
  <2>2. f = [i \in n + 1..n + 1 |-> Body(f, i)]
    <3> HIDE DEF Body
    <3> QED  BY <2>1
  <2>3. n + 1 \in 1..n + 1
    BY <1>1
  <2> HIDE DEF f, Body, n
  <2> QED  BY <2>2, <2>3
<1>3. ASSUME NEW j \in 1..(n + 1) - 1, j + 1 \in G PROVE j \in G
  <2>1. PICK f : f = [i \in j + 1..n + 1 |-> Body(f, i)]
    BY <1>3
  <2> DEFINE g == [i \in j..n + 1 |-> IF i = j THEN Body(f, j) ELSE f[i]]
  <2>2. \A i \in j + 1..n + 1 : g[i] = f[i]
    BY <1>1
  <2>3. ASSUME NEW i \in j..n + 1 PROVE Body(g, i) = Body(f, i)
    <3>1. CASE i > n
      BY <3>1
    <3>2. CASE i <= n
      <4>1. i + 1 \in j + 1..n + 1
        BY <1>1, <3>2
      <4>2. match[i].to > i => match[i].to \in j + 1..n + 1
        BY <1>1, <3>2 DEF Bounded
      <4> QED  BY <2>2, <4>1, <4>2
    <3> QED  BY <1>1, <3>1, <3>2
  <2>4. ASSUME NEW i \in j..n + 1 PROVE g[i] = Body(g, i)
    <3>1. CASE i = j
      BY <2>3, <3>1
    <3>2. CASE i # j
      <4>1. i \in j + 1..n + 1
        BY <1>1, <3>2
      <4>2. g[i] = f[i] /\ f[i] = Body(f, i)
        <5> HIDE DEF Body, g
        <5> QED  BY <2>1, <2>2, <4>1
      <4> QED  BY <2>3, <4>2
    <3> QED  BY <3>1, <3>2
  <2>5. g = [i \in j..n + 1 |-> Body(g, i)]
    <3>1. g = [i \in j..n + 1 |-> g[i]]
      OBVIOUS
    <3> HIDE DEF Body, g
    <3> QED  BY <2>4, <3>1
  <2> HIDE DEF g, Body
  <2> QED  BY <2>5, <1>1
<1>4. 1 \in G
  <2> HIDE DEF G, n
  <2>1. 1 \in Nat /\ n + 1 \in Nat /\ 1 \in 1..n + 1 /\ (1 <= n + 1 => n + 1 \in G)
    BY <1>1, <1>2
  <2>2. \A k \in 1..(n + 1) - 1 : k + 1 \in G => k \in G
    BY <1>3
  <2>3. \A k \in 1..n + 1 : k \in G
    BY <2>1, <2>2, Downwards
  <2> QED  BY <2>1, <2>3
<1>5. \E f : Scans(text, match, f)
  BY <1>4 DEF G, Scans
<1>6. Scan(text, match) = (CHOOSE f : Scans(text, match, f))[1]
  BY DEF Scan, Scans
<1> QED  BY <1>5, <1>6
\* A scan from place i on: for each place of what is left, where the piece it
\* belongs to was cut out (at), and where that piece begins now (st).
Runs(text, match, i, out, at, st) ==
    /\ out \in Seq(Everything)
    /\ at \in [1..Len(out) + 1 -> 1..Len(text) + 1]
    /\ st \in [1..Len(out) + 1 -> 1..Len(out) + 1]
    /\ at[1] = i /\ st[1] = 1
    /\ at[Len(out) + 1] = Len(text) + 1 /\ st[Len(out) + 1] = Len(out) + 1
    /\ \A k \in 1..Len(out) :
          LET piece == Piece(text, match, at[k])
          IN /\ at[k] <= Len(text)
             /\ st[k] <= k /\ k < st[k] + Len(piece) /\ st[k] + Len(piece) <= Len(out) + 1
             /\ out[k] = piece[k - st[k] + 1]
             /\ \A l \in st[k]..st[k] + Len(piece) - 1 : at[l] = at[k] /\ st[l] = st[k]
             /\ at[st[k] + Len(piece)] = Onward(match, at[k])
             /\ st[st[k] + Len(piece)] = st[k] + Len(piece)

\* A piece has at least one token and leads on to a later place.
LEMMA PieceType ==
    ASSUME NEW text \in Seq(Everything), NEW match, Bounded(text, match),
           NEW i \in 1..Len(text)
    PROVE  /\ Piece(text, match, i) \in Seq(Everything)
           /\ Len(Piece(text, match, i)) >= 1
           /\ Onward(match, i) \in i + 1..Len(text) + 1
<1>1. CASE match[i].to > i
  BY <1>1 DEF Piece, Onward, Bounded
<1>2. CASE ~(match[i].to > i)
  BY <1>2 DEF Piece, Onward
<1> QED  BY <1>1, <1>2

\* One more piece in front.
LEMMA RunsBefore ==
    ASSUME NEW text \in Seq(Everything), NEW match, Bounded(text, match),
           NEW i \in 1..Len(text), NEW rest, NEW a, NEW s,
           Runs(text, match, Onward(match, i), rest, a, s)
    PROVE  \E at, st : Runs(text, match, i, Piece(text, match, i) \o rest, at, st)
<1> DEFINE p == Piece(text, match, i)
           q == Len(p)
           r == Len(rest)
           out == p \o rest
           at == [k \in 1..q + r + 1 |-> IF k <= q THEN i ELSE a[k - q]]
           st == [k \in 1..q + r + 1 |-> IF k <= q THEN 1 ELSE s[k - q] + q]
<1>1. p \in Seq(Everything) /\ q \in Nat /\ q >= 1
  BY PieceType
<1>2. /\ rest \in Seq(Everything) /\ r \in Nat
      /\ a \in [1..r + 1 -> 1..Len(text) + 1]
      /\ s \in [1..r + 1 -> 1..r + 1]
      /\ a[1] = Onward(match, i) /\ s[1] = 1
      /\ a[r + 1] = Len(text) + 1 /\ s[r + 1] = r + 1
  BY DEF Runs
<1>3. \A k \in 1..r :
          LET piece == Piece(text, match, a[k])
          IN /\ a[k] <= Len(text)
             /\ s[k] <= k /\ k < s[k] + Len(piece) /\ s[k] + Len(piece) <= r + 1
             /\ rest[k] = piece[k - s[k] + 1]
             /\ \A l \in s[k]..s[k] + Len(piece) - 1 : a[l] = a[k] /\ s[l] = s[k]
             /\ a[s[k] + Len(piece)] = Onward(match, a[k])
             /\ s[s[k] + Len(piece)] = s[k] + Len(piece)
  BY DEF Runs
<1>4. out \in Seq(Everything) /\ Len(out) = q + r
  BY <1>1, <1>2
<1>5. /\ \A k \in 1..q : out[k] = p[k]
      /\ \A k \in q + 1..q + r : out[k] = rest[k - q]
  BY <1>1, <1>2
<1> HIDE DEF p, q, r, out
<1>6. /\ \A k \in 1..q : at[k] = i /\ st[k] = 1
      /\ \A k \in q + 1..q + r + 1 : at[k] = a[k - q] /\ st[k] = s[k - q] + q
  BY <1>1, <1>2
<1>7. /\ at \in [1..Len(out) + 1 -> 1..Len(text) + 1]
      /\ st \in [1..Len(out) + 1 -> 1..Len(out) + 1]
  <2>1. ASSUME NEW k \in 1..q + r + 1
        PROVE  (IF k <= q THEN i ELSE a[k - q]) \in 1..Len(text) + 1
    BY <1>1, <1>2
  <2>2. ASSUME NEW k \in 1..q + r + 1
        PROVE  (IF k <= q THEN 1 ELSE s[k - q] + q) \in 1..q + r + 1
    <3>1. CASE k <= q
      BY <1>1, <1>2, <3>1
    <3>2. CASE ~(k <= q)
      <4>1. k - q \in 1..r + 1
        BY <1>1, <1>2, <3>2
      <4>2. s[k - q] \in 1..r + 1
        BY <1>2, <4>1
      <4> QED  BY <1>1, <1>2, <3>2, <4>2, SMTT(30)
    <3> QED  BY <3>1, <3>2
  <2> QED  BY <1>4, <2>1, <2>2
<1> HIDE DEF at, st
<1>8. at[1] = i /\ st[1] = 1
  BY <1>1, <1>6
<1>9. at[Len(out) + 1] = Len(text) + 1 /\ st[Len(out) + 1] = Len(out) + 1
  <2>1. q + r + 1 \in q + 1..q + r + 1 /\ (q + r + 1) - q = r + 1
    BY <1>1, <1>2
  <2> QED  BY <1>1, <1>2, <1>4, <1>6, <2>1
<1>10. ASSUME NEW k \in 1..Len(out)
       PROVE  LET piece == Piece(text, match, at[k])
              IN /\ at[k] <= Len(text)
                 /\ st[k] <= k /\ k < st[k] + Len(piece) /\ st[k] + Len(piece) <= Len(out) + 1
                 /\ out[k] = piece[k - st[k] + 1]
                 /\ \A l \in st[k]..st[k] + Len(piece) - 1 : at[l] = at[k] /\ st[l] = st[k]
                 /\ at[st[k] + Len(piece)] = Onward(match, at[k])
                 /\ st[st[k] + Len(piece)] = st[k] + Len(piece)
  <2>1. CASE k <= q
    <3>1. at[k] = i /\ st[k] = 1 /\ Piece(text, match, at[k]) = p /\ Len(p) = q
      BY <1>6, <2>1 DEF p, q
    <3>2. q + 1 \in q + 1..q + r + 1 /\ (q + 1) - q = 1 /\ 1 + q = q + 1
      BY <1>1, <1>2
    <3>3. at[1 + q] = Onward(match, i) /\ st[1 + q] = 1 + q
      BY <1>2, <1>6, <3>2
    <3>4. out[k] = p[k - 1 + 1]
      BY <1>1, <1>5, <2>1
    <3>5. \A l \in 1..1 + q - 1 : at[l] = i /\ st[l] = 1
      BY <1>1, <1>6
    <3> QED  BY <1>1, <1>2, <1>4, <2>1, <3>1, <3>3, <3>4, <3>5
  <2>2. CASE ~(k <= q)
    <3> DEFINE h == k - q
               b == Piece(text, match, a[h])
               len == Len(b)
    <3>1. h \in 1..r /\ k = h + q
      BY <1>1, <1>2, <1>4, <2>2
    <3>2. at[k] = a[h] /\ st[k] = s[h] + q /\ Piece(text, match, at[k]) = b
      <4>1. k \in q + 1..q + r + 1
        BY <1>1, <1>2, <1>4, <2>2
      <4>2. at[k] = a[h] /\ st[k] = s[h] + q
        BY <1>6, <4>1
      <4> QED  BY <4>2
    <3>3. /\ a[h] <= Len(text) /\ a[h] \in 1..Len(text) + 1
          /\ s[h] \in 1..r + 1
          /\ s[h] <= h /\ h < s[h] + len /\ s[h] + len <= r + 1
          /\ rest[h] = b[h - s[h] + 1]
          /\ \A l \in s[h]..s[h] + len - 1 : a[l] = a[h] /\ s[l] = s[h]
          /\ a[s[h] + len] = Onward(match, a[h])
          /\ s[s[h] + len] = s[h] + len
      <4> HIDE DEF h
      <4>1. h \in 1..r + 1
        BY <1>2, <3>1
      <4>2. a[h] \in 1..Len(text) + 1 /\ s[h] \in 1..r + 1
        BY <1>2, <4>1
      <4> QED  BY <1>3, <3>1, <4>2
    <3>4. b \in Seq(Everything) /\ len \in Nat /\ len >= 1
      BY <3>3, PieceType
    <3> HIDE DEF b, len, h
    <3>5. out[k] = b[k - st[k] + 1]
      <4>1. k - st[k] + 1 = h - s[h] + 1
        BY <1>1, <3>1, <3>2, <3>3
      <4>2. k \in q + 1..q + r /\ k - q = h
        BY <1>1, <1>2, <3>1
      <4> QED  BY <1>5, <3>3, <4>1, <4>2
    <3>0. q \in Nat /\ r \in Nat /\ s[h] \in Nat /\ len \in Nat /\ h \in Nat
      <4>1. h \in 1..r /\ s[h] \in 1..r + 1 /\ r \in Nat
        BY <1>2, <3>1, <3>3
      <4>2. h \in Nat /\ s[h] \in Nat
        BY <4>1
      <4> QED  BY <1>1, <1>2, <3>4, <4>2
    <3>6. ASSUME NEW l \in st[k]..st[k] + len - 1
          PROVE  at[l] = at[k] /\ st[l] = st[k]
      <4>1. l \in q + 1..q + r + 1 /\ l - q \in s[h]..s[h] + len - 1
        <5>1. s[h] >= 1 /\ s[h] + len <= r + 1 /\ l \in s[h] + q..(s[h] + q) + len - 1
          BY <3>2, <3>3
        <5> QED  BY <3>0, <5>1, SMTT(30)
      <4> QED  BY <1>6, <3>2, <3>3, <4>1
    <3>7. at[st[k] + len] = Onward(match, at[k]) /\ st[st[k] + len] = st[k] + len
      <4>1. st[k] + len \in q + 1..q + r + 1 /\ (st[k] + len) - q = s[h] + len
        <5>1. s[h] >= 1 /\ s[h] + len <= r + 1 /\ st[k] = s[h] + q
          BY <3>2, <3>3
        <5> QED  BY <3>0, <5>1, SMTT(30)
      <4>2. s[h] + len + q = st[k] + len
        BY <1>1, <3>2, <3>3, <3>4
      <4> QED  BY <1>6, <3>2, <3>3, <4>1, <4>2
    <3>8. at[k] <= Len(text)
      BY <3>2, <3>3
    <3>9. st[k] <= k /\ k < st[k] + len /\ st[k] + len <= Len(out) + 1
      <4>1. s[h] <= h /\ h < s[h] + len /\ s[h] + len <= r + 1 /\ st[k] = s[h] + q /\ k = h + q
            /\ Len(out) = q + r
        BY <1>4, <3>1, <3>2, <3>3
      <4> QED  BY <3>0, <4>1
    <3>10. len = Len(Piece(text, match, at[k])) /\ b = Piece(text, match, at[k])
      BY <3>2 DEF len
    <3> QED  BY <3>5, <3>6, <3>7, <3>8, <3>9, <3>10
  <2> QED  BY <2>1, <2>2
<1>11. Runs(text, match, i, out, at, st)
  BY <1>4, <1>7, <1>8, <1>9, <1>10 DEF Runs
<1> QED  BY <1>11 DEF out, p

\* Every scan runs from the beginning to the end.
LEMMA ScanRuns ==
    ASSUME NEW text \in Seq(Everything), NEW match, Bounded(text, match)
    PROVE  \E at, st : Runs(text, match, 1, Scan(text, match), at, st)
<1> DEFINE n == Len(text)
<1>1. n \in Nat
  OBVIOUS
<1>2. PICK from : Scans(text, match, from) /\ Scan(text, match) = from[1]
  BY ScanFrom
<1> DEFINE G == {j \in 1..n + 1 : \A i \in j..n + 1 :
                    \E at, st : Runs(text, match, i, from[i], at, st)}
<1>3. ASSUME NEW i \in 1..n PROVE from[i] = Piece(text, match, i) \o from[Onward(match, i)]
  <2>1. i \in 1..n + 1 /\ ~(i > n)
    BY <1>1
  <2>2. from[i] = IF i > n THEN <<>>
                  ELSE IF match[i].to > i THEN match[i].text \o from[match[i].to]
                  ELSE <<text[i]>> \o from[i + 1]
    BY <1>2, <2>1 DEF Scans
  <2> QED  BY <2>1, <2>2 DEF Piece, Onward
<1>4. from[n + 1] = <<>>
  BY <1>1, <1>2 DEF Scans
<1>5. n + 1 \in G
  <2> DEFINE at == [k \in 1..1 |-> n + 1]
             st == [k \in 1..1 |-> 1]
  <2>1. <<>> \in Seq(Everything) /\ Len(<<>>) = 0
    OBVIOUS
  <2>2. /\ at \in [1..0 + 1 -> 1..n + 1] /\ st \in [1..0 + 1 -> 1..0 + 1]
        /\ at[1] = n + 1 /\ st[1] = 1
    BY <1>1
  <2> HIDE DEF at, st
  <2>3. Runs(text, match, n + 1, <<>>, at, st)
    BY <1>1, <2>1, <2>2 DEF Runs
  <2>4. \A i \in n + 1..n + 1 : i = n + 1
    BY <1>1
  <2>5. n + 1 \in 1..n + 1
    BY <1>1
  <2> HIDE DEF n
  <2> QED  BY <1>4, <2>3, <2>4, <2>5
<1>6. ASSUME NEW j \in 1..(n + 1) - 1, j + 1 \in G PROVE j \in G
  <2>1. j \in 1..n /\ j \in 1..n + 1 /\ Onward(match, j) \in j + 1..n + 1
    BY <1>1, PieceType
  <2>2. \E at, st : Runs(text, match, Onward(match, j), from[Onward(match, j)], at, st)
    BY <1>6, <2>1
  <2>3. \E at, st : Runs(text, match, j, Piece(text, match, j) \o from[Onward(match, j)], at, st)
    BY <2>1, <2>2, RunsBefore
  <2>4. \E at, st : Runs(text, match, j, from[j], at, st)
    BY <1>3, <2>1, <2>3
  <2>5. \A i \in j..n + 1 : i = j \/ i \in j + 1..n + 1
    BY <1>1
  <2> HIDE DEF n
  <2> QED  BY <1>6, <2>1, <2>4, <2>5
<1>7. 1 \in G
  <2> HIDE DEF G, n
  <2>1. 1 \in Nat /\ n + 1 \in Nat /\ 1 \in 1..n + 1 /\ (1 <= n + 1 => n + 1 \in G)
    BY <1>1, <1>5
  <2>2. \A k \in 1..(n + 1) - 1 : k + 1 \in G => k \in G
    BY <1>6
  <2>3. \A k \in 1..n + 1 : k \in G
    BY <2>1, <2>2, Downwards
  <2> QED  BY <2>1, <2>3
<1>8. 1 \in 1..n + 1
  BY <1>1
<1> QED  BY <1>2, <1>7, <1>8
-----------------------------------------------------------------------------
(* Windows: places next to each other in what a scan left, and where they  *)
(* come from.                                                              *)

Matched(match, i) == match[i].to > i

Scanned(text, match, out, at, st) ==
    /\ text \in Seq(Everything) /\ Bounded(text, match)
    /\ Runs(text, match, 1, out, at, st)

\* The types of it all.
LEMMA ScannedType ==
    ASSUME NEW text, NEW match, NEW out, NEW at, NEW st,
           Scanned(text, match, out, at, st)
    PROVE  /\ text \in Seq(Everything) /\ Len(text) \in Nat
           /\ out \in Seq(Everything) /\ Len(out) \in Nat
           /\ \A k \in 1..Len(out) + 1 :
                 /\ at[k] \in 1..Len(text) + 1 /\ at[k] \in Nat
                 /\ st[k] \in 1..Len(out) + 1 /\ st[k] \in Nat
           /\ \A k \in 1..Len(out) : at[k] \in 1..Len(text)
           /\ at[1] = 1 /\ st[1] = 1 /\ at[Len(out) + 1] = Len(text) + 1
           /\ st[Len(out) + 1] = Len(out) + 1
<1>1. /\ text \in Seq(Everything) /\ Len(text) \in Nat
      /\ out \in Seq(Everything) /\ Len(out) \in Nat
      /\ at \in [1..Len(out) + 1 -> 1..Len(text) + 1]
      /\ st \in [1..Len(out) + 1 -> 1..Len(out) + 1]
      /\ at[1] = 1 /\ st[1] = 1 /\ at[Len(out) + 1] = Len(text) + 1
      /\ st[Len(out) + 1] = Len(out) + 1
      /\ \A k \in 1..Len(out) : at[k] <= Len(text)
  BY DEF Scanned, Runs
<1>2. ASSUME NEW k \in 1..Len(out) + 1
      PROVE  /\ at[k] \in 1..Len(text) + 1 /\ at[k] \in Nat
             /\ st[k] \in 1..Len(out) + 1 /\ st[k] \in Nat
  <2>1. at[k] \in 1..Len(text) + 1 /\ st[k] \in 1..Len(out) + 1
    BY <1>1
  <2> QED  BY <2>1
<1>3. ASSUME NEW k \in 1..Len(out) PROVE at[k] \in 1..Len(text)
  <2>1. k \in 1..Len(out) + 1
    BY <1>1
  <2> QED  BY <1>1, <1>2, <2>1
<1> QED  BY <1>1, <1>2, <1>3

\* A place that is not in a matched piece holds what it held.
LEMMA Copied ==
    ASSUME NEW text, NEW match, NEW out, NEW at, NEW st,
           Scanned(text, match, out, at, st),
           NEW k \in 1..Len(out), ~Matched(match, at[k])
    PROVE  /\ st[k] = k /\ out[k] = text[at[k]]
           /\ at[k + 1] = at[k] + 1 /\ st[k + 1] = k + 1
<1> DEFINE piece == Piece(text, match, at[k])
<1>1. /\ st[k] <= k /\ k < st[k] + Len(piece)
      /\ out[k] = piece[k - st[k] + 1]
      /\ at[st[k] + Len(piece)] = Onward(match, at[k])
      /\ st[st[k] + Len(piece)] = st[k] + Len(piece)
  BY DEF Scanned, Runs
<1>2. piece = <<text[at[k]]>> /\ Onward(match, at[k]) = at[k] + 1
  BY DEF Piece, Onward, Matched
<1>3. k \in 1..Len(out) + 1 /\ st[k] \in Nat /\ k \in Nat
  BY ScannedType
<1>4. Len(piece) = 1 /\ piece[1] = text[at[k]]
  BY <1>2
<1> HIDE DEF piece
<1>5. st[k] = k
  BY <1>1, <1>3, <1>4
<1>6. k - st[k] + 1 = 1 /\ st[k] + Len(piece) = k + 1
  BY <1>3, <1>4, <1>5
<1> QED  BY <1>1, <1>2, <1>4, <1>5, <1>6

Block(match, out, at, st, k, b, p) ==
    /\ b \in 1..k /\ p \in Seq(Everything) /\ Len(p) >= 1
    /\ k < b + Len(p) /\ b + Len(p) <= Len(out) + 1
    /\ out[k] = p[k - b + 1]
    /\ \A l \in b..b + Len(p) - 1 :
          out[l] = p[l - b + 1] /\ at[l] = at[k] /\ st[l] = b
    /\ at[b + Len(p)] = match[at[k]].to
    /\ st[b + Len(p)] = b + Len(p)

\* One that is in a matched piece is in a block of its own.
LEMMA InBlock ==
    ASSUME NEW text, NEW match, NEW out, NEW at, NEW st,
           Scanned(text, match, out, at, st),
           NEW k \in 1..Len(out), Matched(match, at[k])
    PROVE  Block(match, out, at, st, k, st[k], match[at[k]].text)
<1> DEFINE b == st[k]
           p == match[at[k]].text
<1>1. Piece(text, match, at[k]) = p /\ Onward(match, at[k]) = match[at[k]].to
  BY DEF Piece, Onward, Matched
<1>2. at[k] \in 1..Len(text) /\ b \in Nat /\ b >= 1 /\ k \in Nat /\ Len(out) \in Nat
  <2>1. k \in 1..Len(out) + 1
    BY ScannedType
  <2> QED  BY <2>1, ScannedType
<1>3. p \in Seq(Everything) /\ Len(p) >= 1 /\ Len(p) \in Nat
  BY <1>1, <1>2, PieceType DEF Scanned
<1>4. /\ b <= k /\ k < b + Len(p) /\ b + Len(p) <= Len(out) + 1
      /\ out[k] = p[k - b + 1]
      /\ \A l \in b..b + Len(p) - 1 : at[l] = at[k] /\ st[l] = b
      /\ at[b + Len(p)] = match[at[k]].to
      /\ st[b + Len(p)] = b + Len(p)
  BY <1>1 DEF Scanned, Runs
<1>5. ASSUME NEW l \in b..b + Len(p) - 1 PROVE out[l] = p[l - b + 1]
  <2>1. at[l] = at[k] /\ st[l] = b
    BY <1>4
  <2>2. l \in 1..Len(out)
    <3> HIDE DEF b, p
    <3> QED  BY <1>2, <1>3, <1>4
  <2>3. out[l] = Piece(text, match, at[l])[l - st[l] + 1]
    BY <2>2 DEF Scanned, Runs
  <2> QED  BY <1>1, <2>1, <2>3
<1>6. b \in 1..k
  BY <1>2, <1>4
<1> QED  BY <1>3, <1>4, <1>5, <1>6 DEF Block

\* A place that begins a piece is followed, if the piece is a copy, by one
\* that begins a piece too.
LEMMA Straight ==
    ASSUME NEW text, NEW match, NEW out, NEW at, NEW st,
           Scanned(text, match, out, at, st),
           NEW i \in 1..Len(out) + 1, NEW j \in i..Len(out) + 1, st[i] = i,
           \A k \in i..j - 1 : st[k] = k => ~Matched(match, at[k])
    PROVE  /\ \A k \in i..j : st[k] = k /\ at[k] = at[i] + (k - i)
           /\ \A k \in i..j - 1 : ~Matched(match, at[k]) /\ out[k] = text[at[i] + (k - i)]
<1> DEFINE G == {k \in i..j : st[k] = k /\ at[k] = at[i] + (k - i)}
<1>1. i \in Nat /\ j \in Nat /\ i <= j /\ Len(out) \in Nat /\ at[i] \in Nat
  BY ScannedType
<1>2. i \in G
  BY <1>1
<1>3. ASSUME NEW k \in i..j - 1, k \in G PROVE k + 1 \in G
  <2>1. k \in 1..Len(out) /\ k + 1 \in i..j /\ k \in Nat
    BY <1>1
  <2>2. st[k] = k /\ at[k] = at[i] + (k - i) /\ ~Matched(match, at[k])
    BY <1>3
  <2>3. at[k + 1] = at[k] + 1 /\ st[k + 1] = k + 1
    BY <2>1, <2>2, Copied
  <2> QED  BY <1>1, <2>1, <2>2, <2>3
<1> HIDE DEF G
<1>4. \A k \in i..j : k \in G
  BY <1>1, <1>2, <1>3, Upwards
<1>5. \A k \in i..j : st[k] = k /\ at[k] = at[i] + (k - i)
  BY <1>4 DEF G
<1>6. ASSUME NEW k \in i..j - 1
      PROVE  ~Matched(match, at[k]) /\ out[k] = text[at[i] + (k - i)]
  <2>1. k \in i..j /\ k \in 1..Len(out)
    BY <1>1
  <2>2. ~Matched(match, at[k])
    BY <1>5, <2>1
  <2>3. out[k] = text[at[k]]
    BY <2>1, <2>2, Copied
  <2> QED  BY <1>5, <2>1, <2>2, <2>3
<1> QED  BY <1>5, <1>6

\* If a match leaves one token, every place begins a piece, and a window has
\* come from a window at least as long, the pieces side by side.
LEMMA Spans ==
    ASSUME NEW text, NEW match, NEW out, NEW at, NEW st,
           Scanned(text, match, out, at, st),
           \A i \in 1..Len(text) : Matched(match, i) => Len(match[i].text) = 1
    PROVE  /\ \A k \in 1..Len(out) + 1 : st[k] = k
           /\ \A k \in 1..Len(out) :
                 Matched(match, at[k]) => out[k] = match[at[k]].text[1] /\ at[k + 1] = match[at[k]].to
           /\ \A i \in 1..Len(out) + 1 : \A j \in i..Len(out) + 1 :
                 /\ at[j] >= at[i] + (j - i)
                 /\ \A q \in at[i]..at[j] - 1 : \E k \in i..j - 1 : at[k] <= q /\ q < at[k + 1]
<1> DEFINE n == Len(out)
           G == {k \in 1..n + 1 : st[k] = k}
<1>1. n \in Nat /\ 1 \in G
  BY ScannedType
<1>2. ASSUME NEW k \in 1..n, st[k] = k, Matched(match, at[k])
      PROVE  out[k] = match[at[k]].text[1] /\ at[k + 1] = match[at[k]].to /\ st[k + 1] = k + 1
  <2>1. at[k] \in 1..Len(text)
    BY ScannedType
  <2>2. Len(match[at[k]].text) = 1
    BY <1>2, <2>1
  <2>3. k - k + 1 = 1
    BY <1>1
  <2> DEFINE p == match[at[k]].text
  <2>4. /\ out[k] = p[k - st[k] + 1]
        /\ at[st[k] + Len(p)] = match[at[k]].to
        /\ st[st[k] + Len(p)] = st[k] + Len(p)
    <3>1. k \in 1..Len(out) /\ Matched(match, at[k])
      BY <1>2
    <3>2. Block(match, out, at, st, k, st[k], p)
      BY <3>1, InBlock
    <3> QED  BY <3>2 DEF Block
  <2> HIDE DEF p
  <2>5. out[k] = p[1] /\ at[k + 1] = match[at[k]].to /\ st[k + 1] = k + 1
    BY <1>2, <2>2, <2>3, <2>4 DEF p
  <2> QED  BY <2>5 DEF p
<1>3. ASSUME NEW k \in 1..(n + 1) - 1, k \in G PROVE k + 1 \in G
  <2>1. k \in 1..n /\ st[k] = k /\ k + 1 \in 1..n + 1
    BY <1>1, <1>3
  <2>2. st[k + 1] = k + 1
    <3>1. CASE Matched(match, at[k])
      BY <1>2, <2>1, <3>1
    <3>2. CASE ~Matched(match, at[k])
      BY <2>1, <3>2, Copied
    <3> QED  BY <3>1, <3>2
  <2> QED  BY <2>1, <2>2
<1>4. \A k \in 1..n + 1 : st[k] = k
  <2> HIDE DEF G, n
  <2>1. 1 \in Nat /\ n + 1 \in Nat /\ (1 <= n + 1 => 1 \in G)
    BY <1>1
  <2>2. \A k \in 1..(n + 1) - 1 : k \in G => k + 1 \in G
    BY <1>3
  <2>3. \A k \in 1..n + 1 : k \in G
    BY <2>1, <2>2, Upwards
  <2> QED  BY <2>3 DEF G
<1>5. \A k \in 1..n : Matched(match, at[k]) => out[k] = match[at[k]].text[1] /\ at[k + 1] = match[at[k]].to
  <2>1. \A k \in 1..n : k \in 1..n + 1
    BY <1>1
  <2> HIDE DEF n
  <2> QED  BY <1>2, <1>4, <2>1
<1>6. ASSUME NEW k \in 1..n PROVE at[k + 1] >= at[k] + 1 /\ at[k] \in Nat /\ at[k + 1] \in Nat
  <2>1. k \in 1..n + 1 /\ k + 1 \in 1..n + 1
    BY <1>1
  <2>2. at[k] \in Nat /\ at[k + 1] \in Nat
    BY <2>1, ScannedType
  <2>3. CASE Matched(match, at[k])
    BY <1>5, <2>2, <2>3 DEF Matched
  <2>4. CASE ~Matched(match, at[k])
    BY <2>2, <2>4, Copied
  <2> QED  BY <2>2, <2>3, <2>4
<1>7. ASSUME NEW i \in 1..n + 1, NEW j \in i..n + 1
      PROVE  /\ at[j] >= at[i] + (j - i)
             /\ \A q \in at[i]..at[j] - 1 : \E k \in i..j - 1 : at[k] <= q /\ q < at[k + 1]
  <2> DEFINE Good(l) == /\ at[l] >= at[i] + (l - i)
                        /\ \A q \in at[i]..at[l] - 1 :
                              \E k \in i..l - 1 : at[k] <= q /\ q < at[k + 1]
             H == {l \in i..n + 1 : Good(l)}
  <2>1. i \in Nat /\ at[i] \in Nat /\ i <= n + 1
    BY <1>1, ScannedType
  <2>2. i \in H
    BY <2>1, <1>1
  <2>3. ASSUME NEW l \in i..(n + 1) - 1, l \in H PROVE l + 1 \in H
    <3>1. l \in 1..n /\ l \in Nat /\ l + 1 \in i..n + 1 /\ i <= l
      BY <1>1, <2>1
    <3>2. at[l + 1] >= at[l] + 1 /\ at[l] \in Nat /\ at[l + 1] \in Nat
      BY <1>6, <3>1
    <3>3. at[l] >= at[i] + (l - i)
      BY <2>3
    <3>4. at[l + 1] >= at[i] + ((l + 1) - i)
      BY <2>1, <3>1, <3>2, <3>3, SMTT(30)
    <3>5. ASSUME NEW q \in at[i]..at[l + 1] - 1
          PROVE  \E k \in i..(l + 1) - 1 : at[k] <= q /\ q < at[k + 1]
      <4>1. CASE q < at[l]
        <5>1. q \in at[i]..at[l] - 1
          BY <2>1, <3>2, <4>1
        <5>2. PICK k \in i..l - 1 : at[k] <= q /\ q < at[k + 1]
          BY <2>3, <5>1
        <5>3. k \in i..(l + 1) - 1
          BY <2>1, <3>1
        <5> QED  BY <5>2, <5>3
      <4>2. CASE ~(q < at[l])
        <5>1. l \in i..(l + 1) - 1 /\ at[l] <= q /\ q < at[l + 1]
          BY <2>1, <3>1, <3>2, <4>2
        <5> QED  BY <5>1
      <4> QED  BY <4>1, <4>2
    <3> QED  BY <3>1, <3>4, <3>5
  <2> HIDE DEF H
  <2>4. i \in Nat /\ n + 1 \in Nat /\ (i <= n + 1 => i \in H)
    BY <1>1, <2>1, <2>2
  <2>5. \A l \in i..(n + 1) - 1 : l \in H => l + 1 \in H
    BY <2>3
  <2>6. \A l \in i..n + 1 : l \in H
    <3> HIDE DEF n
    <3> QED  BY <2>4, <2>5, Upwards
  <2> QED  BY <2>6 DEF H
<1> QED  BY <1>4, <1>5, <1>7
-----------------------------------------------------------------------------
(* What each matcher takes for a match, and leaves of it.                  *)

\* Classes, as far as the proofs tell the tokens apart.
LEMMA Classes ==
    /\ Blanks = {Space}
    /\ White = {Space, Wide} /\ Wide # Space
    /\ Wide \notin {Bearer, Name, Prefix, Sep, "=", ":", "@", Quote, Mark}
    /\ Everything = {Bearer, Name, Prefix, Word, Space, Wide, Sep, "=", ":", "@", Quote, Mark}
    /\ BearerTokens \subseteq Everything /\ KeyTokens \subseteq Everything
    /\ {Space, Mark, Sep, ":", "@", Quote} \cap BearerTokens = {}
    /\ {Space, Mark, Sep, "=", ":", "@", Quote} \cap KeyTokens = {}
    /\ Bearer \in BearerTokens /\ Prefix \in BearerTokens /\ KeyTokens \subseteq BearerTokens
    /\ KeyTokens \subseteq Userinfo /\ KeyTokens \subseteq Values
    /\ Prefix \in KeyTokens
    /\ {Space, Quote} \cap Values = {} /\ Mark \in Values
    /\ {Space, Sep, "@"} \cap Userinfo = {} /\ Mark \in Userinfo
    /\ {Space, Mark, Sep, "=", ":", "@", Quote, Prefix} \cap SchemeEnds = {}
    /\ \A x \in {Bearer, Name, Prefix, Word, Sep, "=", ":", "@", Quote, Mark} : x # Space
    /\ Bearer \notin {Name, Sep, Prefix, Mark} /\ Name \notin {Sep, Prefix, Mark}
    /\ Sep \notin {Prefix, Mark} /\ Prefix # Mark
    /\ Quote \notin {Name, Sep, Prefix, Mark} /\ "@" \notin {Name, Sep, Prefix, Mark, Bearer}
    /\ \A x \in {Bearer, Sep, Prefix, "@"} : x \notin {Name, Space, "=", ":", Quote, Mark}
    /\ {"=", ":"} \cap {Bearer, Name, Prefix, Word, Space, Sep, "@", Quote, Mark} = {}
  BY DEF Blanks, White, Everything, Tokens, BearerTokens, KeyTokens, Userinfo, Values,
         SchemeEnds, Bearer, Name, Prefix, Word, Space, Wide, Sep, Quote, Mark

\* Two sequences in a row, place by place.
LEMMA Joined ==
    ASSUME NEW h \in Seq(Everything), NEW s \in Seq(Everything)
    PROVE  /\ h \o s \in Seq(Everything) /\ Len(h \o s) = Len(h) + Len(s)
           /\ \A o \in 1..Len(h) : (h \o s)[o] = h[o]
           /\ \A o \in Len(h) + 1..Len(h) + Len(s) : (h \o s)[o] = s[o - Len(h)]
  OBVIOUS

\* What is kept of a match, and the placeholder.
LEMMA HeadAndMark ==
    ASSUME NEW text \in Seq(Everything), NEW i \in 1..Len(text), NEW t \in i..Len(text) + 1
    PROVE  LET p == SubSeq(text, i, t - 1) \o <<Mark>>
           IN /\ p \in Seq(Everything) /\ Len(p) = t - i + 1
              /\ \A o \in 1..t - i : p[o] = text[i + o - 1]
              /\ p[t - i + 1] = Mark
<1> DEFINE h == SubSeq(text, i, t - 1)
           s == <<Mark>>
<1>1. h \in Seq(Everything) /\ Len(h) = t - i /\ \A o \in 1..t - i : h[o] = text[i + o - 1]
  BY SMTT(30)
<1>2. s \in Seq(Everything) /\ Len(s) = 1 /\ s[1] = Mark
  BY Classes
<1>3. t - i \in Nat
  OBVIOUS
<1> HIDE DEF h, s
<1>4. /\ h \o s \in Seq(Everything) /\ Len(h \o s) = t - i + 1
      /\ \A o \in 1..t - i : (h \o s)[o] = h[o]
      /\ (h \o s)[t - i + 1] = s[1]
  <2>1. t - i + 1 = Len(h) + Len(s) /\ (t - i) + 1 \in Len(h) + 1..Len(h) + Len(s)
    BY <1>1, <1>2, <1>3
  <2>2. h \o s \in Seq(Everything) /\ Len(h \o s) = t - i + 1
    BY <1>1, <1>2, <2>1, Joined
  <2>3. \A o \in 1..t - i : (h \o s)[o] = h[o]
    BY <1>1, <1>2, Joined
  <2>4. (h \o s)[(t - i) + 1] = s[((t - i) + 1) - Len(h)]
    <3> DEFINE o == (t - i) + 1
    <3>1. o \in Len(h) + 1..Len(h) + Len(s)
      BY <2>1
    <3> HIDE DEF o
    <3>2. (h \o s)[o] = s[o - Len(h)]
      BY <1>1, <1>2, <3>1, Joined
    <3> QED  BY <3>2 DEF o
  <2>5. ((t - i) + 1) - Len(h) = 1
    BY <1>1, <1>3
  <2> QED  BY <2>2, <2>3, <2>4, <2>5
<1> QED  BY <1>1, <1>2, <1>4 DEF h, s

\* The same of the slashes of a ://, which leave their colon.
LEMMA HeadAndColon ==
    ASSUME NEW text \in Seq(Everything), NEW i \in 1..Len(text), NEW t \in i..Len(text) + 1
    PROVE  LET p == SubSeq(text, i, t - 1) \o <<":", Mark>>
           IN /\ p \in Seq(Everything) /\ Len(p) = t - i + 2
              /\ \A o \in 1..t - i : p[o] = text[i + o - 1]
              /\ p[t - i + 1] = ":" /\ p[t - i + 2] = Mark
<1> DEFINE h == SubSeq(text, i, t - 1)
           s == <<":", Mark>>
<1>1. h \in Seq(Everything) /\ Len(h) = t - i /\ \A o \in 1..t - i : h[o] = text[i + o - 1]
  BY SMTT(30)
<1>2. s \in Seq(Everything) /\ Len(s) = 2 /\ s[1] = ":" /\ s[2] = Mark
  BY Classes
<1>3. t - i \in Nat
  OBVIOUS
<1> HIDE DEF h, s
<1>4. /\ h \o s \in Seq(Everything) /\ Len(h \o s) = t - i + 2
      /\ \A o \in 1..t - i : (h \o s)[o] = h[o]
      /\ (h \o s)[t - i + 1] = s[1] /\ (h \o s)[t - i + 2] = s[2]
  <2>1. t - i + 2 = Len(h) + Len(s)
        /\ t - i + 1 \in Len(h) + 1..Len(h) + Len(s)
        /\ t - i + 2 \in Len(h) + 1..Len(h) + Len(s)
        /\ t - i + 1 - Len(h) = 1 /\ t - i + 2 - Len(h) = 2
    <3> DEFINE d == t - i
    <3>1. d \in Nat /\ Len(h) = d /\ Len(s) = 2
      BY <1>1, <1>2, <1>3
    <3> HIDE DEF d
    <3>2. /\ d + 2 = Len(h) + Len(s)
          /\ d + 1 \in Len(h) + 1..Len(h) + Len(s)
          /\ d + 2 \in Len(h) + 1..Len(h) + Len(s)
          /\ d + 1 - Len(h) = 1 /\ d + 2 - Len(h) = 2
      BY <3>1
    <3> QED  BY <3>2 DEF d
  <2>2. h \o s \in Seq(Everything) /\ Len(h \o s) = t - i + 2
    BY <1>1, <1>2, <2>1, Joined
  <2>3. \A o \in 1..t - i : (h \o s)[o] = h[o]
    BY <1>1, <1>2, Joined
  <2> DEFINE x == t - i + 1
             y == t - i + 2
  <2>4. x \in Len(h) + 1..Len(h) + Len(s) /\ y \in Len(h) + 1..Len(h) + Len(s)
        /\ x - Len(h) = 1 /\ y - Len(h) = 2
    BY <2>1
  <2> HIDE DEF x, y
  <2>5. (h \o s)[x] = s[x - Len(h)] /\ (h \o s)[y] = s[y - Len(h)]
    BY <1>1, <1>2, <2>4, Joined
  <2> QED  BY <2>2, <2>3, <2>4, <2>5 DEF x, y
<1> QED  BY <1>1, <1>2, <1>4 DEF h, s

BearerAt(text, i, j) ==
    /\ text[i] = Bearer /\ i + 1 < j
    /\ Within(text, i + 1, j - 1, Blanks)
    /\ text[j] \in BearerTokens

\* The first pass (redact_bearer) matches at Bearer, blanks, a token, and only there.
LEMMA BearerMatches ==
    ASSUME NEW text \in Seq(Everything), NEW i \in 1..Len(text)
    PROVE  LET m == MatchBearer(text, i)
           IN /\ m.to \in 0..Len(text) + 1
              /\ m.to > i => \E t \in i + 2..Len(text) :
                                /\ BearerAt(text, i, t)
                                /\ m.text = SubSeq(text, i, t - 1) \o <<Mark>>
              /\ \A t \in i + 2..Len(text) : BearerAt(text, i, t) => m.to > i
<1> DEFINE n == Len(text)
           token == Past(text, i + 1, Blanks)
           to == Past(text, token, BearerTokens)
           m == MatchBearer(text, i)
<1>1. n \in Nat /\ i \in 1..n /\ i + 1 \in 1..n + 1
  OBVIOUS
<1>2. /\ token \in i + 1..n + 1
      /\ \A k \in i + 1..token - 1 : text[k] \in Blanks
      /\ token <= n => text[token] \notin Blanks
  BY <1>1, PastIs
<1>3. /\ to \in token..n + 1
      /\ \A k \in token..to - 1 : text[k] \in BearerTokens
      /\ to <= n => text[to] \notin BearerTokens
  <2>1. token \in 1..n + 1
    BY <1>1, <1>2
  <2> HIDE DEF token
  <2> QED  BY <2>1, PastIs
<1>4. m = IF text[i] = Bearer /\ token > i + 1 /\ to > token
            THEN [to |-> to, text |-> SubSeq(text, i, token - 1) \o <<Mark>>]
            ELSE [to |-> 0, text |-> <<>>]
  BY DEF MatchBearer, NoMatch
<1> HIDE DEF m, to, token
<1>5. m.to \in 0..n + 1
  <2>1. to \in 0..n + 1 /\ 0 \in 0..n + 1
    BY <1>1, <1>2, <1>3
  <2> QED  BY <1>4, <2>1
<1>6. ASSUME m.to > i
      PROVE  \E t \in i + 2..n : /\ BearerAt(text, i, t)
                                 /\ m.text = SubSeq(text, i, t - 1) \o <<Mark>>
  <2>1. text[i] = Bearer /\ token > i + 1 /\ to > token
        /\ m.text = SubSeq(text, i, token - 1) \o <<Mark>>
    <3>1. SUFFICES ASSUME ~(text[i] = Bearer /\ token > i + 1 /\ to > token) PROVE FALSE
      BY <1>4
    <3>2. m.to = 0
      BY <1>4, <3>1
    <3> QED  BY <1>1, <1>6, <3>2
  <2>2. token \in i + 2..n /\ token \in token..to - 1 /\ i + 1 < token
    BY <1>1, <1>2, <1>3, <2>1
  <2>3. BearerAt(text, i, token)
    BY <1>2, <1>3, <2>1, <2>2 DEF BearerAt, Within
  <2> QED  BY <2>1, <2>2, <2>3
<1>7. ASSUME NEW t \in i + 2..n, BearerAt(text, i, t) PROVE m.to > i
  <2>1. /\ \A k \in i + 1..t - 1 : text[k] \in Blanks
        /\ text[t] \in BearerTokens /\ text[i] = Bearer
    BY <1>7 DEF BearerAt, Within
  <2>2. token = t
    <3>1. text[t] \notin Blanks /\ t \in i + 1..n + 1
      BY <1>1, <2>1, Classes
    <3> QED  BY <1>1, <2>1, <3>1, PastAt DEF token
  <2>3. to > token
    <3>1. token \in 1..Len(text) /\ text[token] \in BearerTokens
      BY <1>1, <2>1, <2>2
    <3> QED  BY <3>1, PastGoes DEF to
  <2>4. m.to = to
    BY <1>1, <1>4, <2>1, <2>2, <2>3
  <2> QED  BY <1>1, <1>2, <1>3, <2>3, <2>4
<1> QED  BY <1>5, <1>6, <1>7 DEF m

\* The second pass (redact_url_userinfo) matches between a scheme's :// and an @.
LEMMA UserinfoMatches ==
    ASSUME NEW text \in Seq(Everything), NEW i \in 1..Len(text)
    PROVE  LET m == MatchUrlUserinfo(text, i)
           IN /\ m.to \in 0..Len(text) + 1
              /\ m.to > i => /\ text[i] = Sep /\ m.text = <<Sep, Mark, "@">>
                             /\ m.to - 1 \in i + 2..Len(text) /\ text[m.to - 1] = "@"
                             /\ 1 < i /\ text[i - 1] \in SchemeEnds
                             /\ Within(text, i + 1, m.to - 2, Userinfo)
              /\ \A j \in i + 2..Len(text) :
                    /\ 1 < i /\ text[i - 1] \in SchemeEnds /\ text[i] = Sep
                    /\ Within(text, i + 1, j - 1, Userinfo) /\ text[j] = "@"
                    => m.to > i
<1> DEFINE n == Len(text)
           to == Past(text, i + 1, Userinfo)
           m == MatchUrlUserinfo(text, i)
<1>1. n \in Nat /\ i \in 1..n /\ i + 1 \in 1..n + 1
  OBVIOUS
<1>2. /\ to \in i + 1..n + 1
      /\ \A k \in i + 1..to - 1 : text[k] \in Userinfo
      /\ to <= n => text[to] \notin Userinfo
  BY <1>1, PastIs
<1>3. m = IF /\ text[i] = Sep
             /\ i > 1 /\ text[i - 1] \in SchemeEnds
             /\ to > i + 1 /\ to <= n /\ text[to] = "@"
            THEN [to |-> to + 1, text |-> <<Sep, Mark, "@">>]
            ELSE [to |-> 0, text |-> <<>>]
  BY DEF MatchUrlUserinfo, NoMatch
<1> HIDE DEF m, to
<1>4. m.to \in 0..n + 1
  <2>1. (to <= n => to + 1 \in 0..n + 1) /\ 0 \in 0..n + 1
    BY <1>1, <1>2
  <2> QED  BY <1>3, <2>1
<1>5. ASSUME m.to > i
      PROVE  /\ text[i] = Sep /\ m.text = <<Sep, Mark, "@">>
             /\ m.to - 1 \in i + 2..n /\ text[m.to - 1] = "@"
             /\ 1 < i /\ text[i - 1] \in SchemeEnds
             /\ Within(text, i + 1, m.to - 2, Userinfo)
  <2>1. /\ text[i] = Sep /\ i > 1 /\ text[i - 1] \in SchemeEnds
        /\ to > i + 1 /\ to <= n /\ text[to] = "@"
        /\ m.to = to + 1 /\ m.text = <<Sep, Mark, "@">>
    BY <1>1, <1>3, <1>5
  <2>2. m.to - 1 = to /\ m.to - 2 = to - 1 /\ to \in i + 2..n /\ 1 < i
    BY <1>1, <1>2, <2>1
  <2> QED  BY <1>2, <2>1, <2>2 DEF Within
<1>6. ASSUME NEW j \in i + 2..n,
             1 < i /\ text[i - 1] \in SchemeEnds /\ text[i] = Sep,
             Within(text, i + 1, j - 1, Userinfo) /\ text[j] = "@"
      PROVE  m.to > i
  <2>1. to = j
    <3>1. j \in i + 1..n + 1 /\ text[j] \notin Userinfo
          /\ \A k \in i + 1..j - 1 : text[k] \in Userinfo
      BY <1>1, <1>6, Classes DEF Within
    <3> QED  BY <1>1, <3>1, PastAt DEF to
  <2>2. to > i + 1 /\ to <= n /\ i > 1
    BY <1>1, <1>6, <2>1
  <2>3. m.to = to + 1
    BY <1>3, <1>6, <2>1, <2>2
  <2> QED  BY <1>1, <1>2, <2>2, <2>3
<1> QED  BY <1>4, <1>5, <1>6 DEF m

\* The fourth pass (redact_key_value) matches at a prefix with a key character behind it.
LEMMA KeyMatches ==
    ASSUME NEW text \in Seq(Everything), NEW i \in 1..Len(text)
    PROVE  LET m == MatchKeyValue(text, i)
           IN /\ m.to \in 0..Len(text) + 1
              /\ m.to > i => /\ text[i] = Prefix /\ m.text = <<Mark>>
                             /\ m.to > i + 1
                             /\ Within(text, i, m.to - 1, KeyTokens)
              /\ i < Len(text) /\ text[i] = Prefix /\ text[i + 1] \in KeyTokens => m.to > i
<1> DEFINE n == Len(text)
           to == Past(text, i + 1, KeyTokens)
           m == MatchKeyValue(text, i)
<1>1. n \in Nat /\ i \in 1..n /\ i + 1 \in 1..n + 1
  OBVIOUS
<1>2. /\ to \in i + 1..n + 1
      /\ \A k \in i + 1..to - 1 : text[k] \in KeyTokens
  BY <1>1, PastIs
<1>3. m = IF text[i] = Prefix /\ to > i + 1 THEN [to |-> to, text |-> <<Mark>>]
            ELSE [to |-> 0, text |-> <<>>]
  BY DEF MatchKeyValue, NoMatch
<1>4. ASSUME i < n, text[i + 1] \in KeyTokens PROVE to > i + 1
  <2>1. i + 1 \in 1..Len(text)
    BY <1>1, <1>4
  <2> QED  BY <1>4, <2>1, PastGoes
<1> HIDE DEF m, to
<1>5. m.to \in 0..n + 1
  <2>1. to \in 0..n + 1 /\ 0 \in 0..n + 1
    BY <1>1, <1>2
  <2> QED  BY <1>3, <2>1
<1>6. ASSUME m.to > i
      PROVE  /\ text[i] = Prefix /\ m.text = <<Mark>> /\ m.to > i + 1
             /\ Within(text, i, m.to - 1, KeyTokens)
  <2>1. text[i] = Prefix /\ to > i + 1 /\ m.to = to /\ m.text = <<Mark>>
    BY <1>1, <1>3, <1>6
  <2>2. \A k \in i..to - 1 : k = i \/ k \in i + 1..to - 1
    BY <1>1, <1>2
  <2> QED  BY <1>2, <2>1, <2>2, Classes DEF Within
<1>7. ASSUME i < n, text[i] = Prefix, text[i + 1] \in KeyTokens PROVE m.to > i
  BY <1>1, <1>2, <1>3, <1>4, <1>7
<1> QED  BY <1>5, <1>6, <1>7 DEF m

\* The collapse takes whole runs of white space.
LEMMA WhiteMatch ==
    ASSUME NEW text \in Seq(Everything), NEW i \in 1..Len(text)
    PROVE  LET m == MatchBlanks(text, i)
           IN /\ m.to \in 0..Len(text) + 1
              /\ text[i] \in White => m.to > i
              /\ m.to > i => /\ text[i] \in White /\ m.text = <<Space>>
                             /\ Within(text, i, m.to - 1, White)
                             /\ m.to <= Len(text) => text[m.to] \notin White
<1> DEFINE n == Len(text)
           to == Past(text, i, White)
           m == MatchBlanks(text, i)
<1>1. n \in Nat /\ i \in 1..n /\ i \in 1..n + 1
  OBVIOUS
<1>2. /\ to \in i..n + 1
      /\ \A k \in i..to - 1 : text[k] \in White
      /\ to <= n => text[to] \notin White
  BY <1>1, PastIs
<1>3. m = IF text[i] \in White THEN [to |-> to, text |-> <<Space>>]
            ELSE [to |-> 0, text |-> <<>>]
  BY DEF MatchBlanks, NoMatch
<1>4. text[i] \in White => to > i
  BY <1>1, PastGoes
<1> HIDE DEF m, to
<1>5. m.to \in 0..n + 1
  <2>1. to \in 0..n + 1 /\ 0 \in 0..n + 1
    BY <1>1, <1>2
  <2> QED  BY <1>3, <2>1
<1>6. text[i] \in White => m.to > i
  BY <1>3, <1>4
<1>7. ASSUME m.to > i
      PROVE  /\ text[i] \in White /\ m.text = <<Space>>
             /\ Within(text, i, m.to - 1, White)
             /\ m.to <= n => text[m.to] \notin White
  BY <1>1, <1>2, <1>3, <1>7, Classes DEF Within
<1> QED  BY <1>5, <1>6, <1>7 DEF m

\* Of a plain text, of blanks.
LEMMA BlanksMatch ==
    ASSUME NEW text \in Seq(Everything), Plain(text), NEW i \in 1..Len(text)
    PROVE  LET m == MatchBlanks(text, i)
           IN /\ m.to \in 0..Len(text) + 1
              /\ text[i] = Space => m.to > i
              /\ m.to > i => /\ text[i] = Space /\ m.text = <<Space>>
                             /\ Within(text, i, m.to - 1, Blanks)
                             /\ m.to <= Len(text) => text[m.to] # Space
<1> DEFINE m == MatchBlanks(text, i)
<1>1. /\ m.to \in 0..Len(text) + 1
      /\ text[i] \in White => m.to > i
      /\ m.to > i => /\ text[i] \in White /\ m.text = <<Space>>
                     /\ Within(text, i, m.to - 1, White)
                     /\ m.to <= Len(text) => text[m.to] \notin White
  BY WhiteMatch
<1>2. \A k \in 1..Len(text) : text[k] # Wide
  BY DEF Plain
<1>3. \A k \in 1..Len(text) : text[k] \in White <=> text[k] \in Blanks
  BY <1>2, Classes
<1> DEFINE to == m.to
<1>4. to \in 0..Len(text) + 1 /\ \A k \in i..to - 1 : k \in 1..Len(text)
  <2> HIDE DEF m
  <2>1. to \in 0..Len(text) + 1
    BY <1>1
  <2> HIDE DEF to
  <2> QED  BY <2>1
<1>5. Within(text, i, to - 1, White) => Within(text, i, to - 1, Blanks)
  BY <1>3, <1>4 DEF Within
<1>6. to > i => (to <= Len(text) => to \in 1..Len(text))
  <2> HIDE DEF to
  <2> QED  BY <1>4
<1> HIDE DEF m
<1>7. /\ m.to \in 0..Len(text) + 1
      /\ text[i] = Space => m.to > i
      /\ m.to > i => /\ text[i] = Space /\ m.text = <<Space>>
                     /\ Within(text, i, m.to - 1, Blanks)
                     /\ m.to <= Len(text) => text[m.to] # Space
  BY <1>1, <1>3, <1>5, <1>6, Classes DEF to
<1> QED  BY <1>7 DEF m
\* A name and, behind blanks, the place of a marker; and a value behind it.
NameAt(text, i, m) ==
    text[i] = Name /\ Within(text, i + 1, m - 1, Blanks)

ValueAt(text, m, v) ==
    /\ text[m] \in {"=", ":"} /\ text[v] \in Values
    /\ \/ Within(text, m + 1, v - 1, Blanks)
       \/ text[v - 1] = Quote /\ Within(text, m + 1, v - 2, Blanks)

\* What one match of an assignment is, from marker m on.
SlashesMatch(text, i, match, m) ==
    /\ text[m] = Sep
    /\ match.text = SubSeq(text, i, m - 1) \o <<":", Mark>>

ValueMatch(text, i, match, m, v) ==
    /\ ValueAt(text, m, v) /\ match.to > v /\ Within(text, v, match.to - 1, Values)
    /\ match.text = SubSeq(text, i, v - 1) \o <<Mark>>

\* The third pass (redact_assignment) matches at a name, a marker and a value, and
\* takes the whole value.
LEMMA AssignmentMatches ==
    ASSUME NEW text \in Seq(Everything), NEW i \in 1..Len(text)
    PROVE  LET match == MatchAssignment(text, i)
           IN /\ match.to \in 0..Len(text) + 1
              /\ match.to > i =>
                    /\ \E m \in i + 1..Len(text) :
                          /\ NameAt(text, i, m)
                          /\ \/ SlashesMatch(text, i, match, m)
                             \/ \E v \in m + 1..Len(text) : ValueMatch(text, i, match, m, v)
                    /\ match.to <= Len(text) => text[match.to] \notin Values
              /\ \A m \in i + 1..Len(text) :
                    NameAt(text, i, m) /\ text[m] = Sep => match.to > i
              /\ \A m \in i + 1..Len(text) : \A v \in m + 1..Len(text) :
                    NameAt(text, i, m) /\ ValueAt(text, m, v) => match.to > i
<1> DEFINE n      == Len(text)
           marker == Past(text, i + 1, Blanks)
           quoted == Past(text, marker + 1, Blanks)
           value  == IF At(text, quoted) = Quote THEN quoted + 1 ELSE quoted
           to     == Past(text, value, Values)
           slashes == Past(text, marker + 1, Values)
           match  == MatchAssignment(text, i)
           first  == text[i] = Name /\ At(text, marker) = Sep
           second == text[i] = Name /\ At(text, marker) \in {"=", ":"} /\ to > value
<1>1. n \in Nat /\ i \in 1..n /\ i + 1 \in 1..n + 1
  OBVIOUS
<1>2. /\ marker \in i + 1..n + 1
      /\ \A k \in i + 1..marker - 1 : text[k] \in Blanks
      /\ marker <= n => text[marker] \notin Blanks
  BY <1>1, PastIs
<1>3. \A k \in Nat : /\ k <= n => At(text, k) = text[k]
                     /\ ~(k <= n) => At(text, k) = Space
  BY DEF At
<1>4. match = IF first THEN [to |-> slashes, text |-> SubSeq(text, i, marker - 1) \o <<":", Mark>>]
              ELSE IF second THEN [to |-> to, text |-> SubSeq(text, i, value - 1) \o <<Mark>>]
              ELSE [to |-> 0, text |-> <<>>]
  BY DEF MatchAssignment, NoMatch
<1>5. ASSUME marker <= n
      PROVE  /\ slashes \in marker + 1..n + 1
             /\ slashes <= n => text[slashes] \notin Values
             /\ quoted \in marker + 1..n + 1
             /\ \A k \in marker + 1..quoted - 1 : text[k] \in Blanks
             /\ quoted <= n => text[quoted] \notin Blanks
  <2>1. marker + 1 \in 1..n + 1
    BY <1>1, <1>2, <1>5
  <2> HIDE DEF marker
  <2> QED  BY <2>1, PastIs
<1>6. ASSUME marker <= n
      PROVE  /\ value \in quoted..n + 1 /\ value \in 1..n + 1
             /\ value = quoted \/ (value = quoted + 1 /\ quoted <= n /\ text[quoted] = Quote)
             /\ quoted <= n /\ text[quoted] = Quote => value = quoted + 1
             /\ ~(quoted <= n /\ text[quoted] = Quote) => value = quoted
  <2>1. quoted \in 1..n + 1 /\ quoted \in Nat
    BY <1>1, <1>2, <1>5, <1>6
  <2> HIDE DEF quoted, marker
  <2>2. At(text, quoted) = Quote => quoted <= n /\ text[quoted] = Quote
    BY <1>3, <2>1, Classes
  <2>3. quoted <= n /\ text[quoted] = Quote => At(text, quoted) = Quote
    BY <1>3, <2>1
  <2> QED  BY <1>1, <2>1, <2>2, <2>3
<1>7. ASSUME marker <= n
      PROVE  /\ to \in value..n + 1
             /\ \A k \in value..to - 1 : text[k] \in Values
             /\ to <= n => text[to] \notin Values
  <2>1. value \in 1..n + 1
    BY <1>6, <1>7
  <2> HIDE DEF value
  <2> QED  BY <2>1, PastIs
<1>8. ASSUME NEW k \in 1..n, text[k] \in Values, value = k PROVE to > value
  BY <1>8, PastGoes
<1>9. ASSUME NEW m \in i + 1..n, NameAt(text, i, m), text[m] \notin Blanks
      PROVE  marker = m /\ At(text, marker) = text[m] /\ text[i] = Name
  <2>1. m \in i + 1..n + 1 /\ \A k \in i + 1..m - 1 : text[k] \in Blanks
    BY <1>1, <1>9 DEF NameAt, Within
  <2>2. marker = m
    BY <1>1, <1>9, <2>1, PastAt
  <2> QED  BY <1>1, <1>3, <1>9, <2>2 DEF NameAt
<1>10. ASSUME NEW m \in i + 1..n, marker = m, NEW j \in m + 1..n,
              Within(text, m + 1, j - 1, Blanks), text[j] \notin Blanks
       PROVE  quoted = j
  <2>1. m + 1 \in 1..n + 1 /\ j \in m + 1..n + 1
    BY <1>1
  <2> QED  BY <1>10, <2>1, PastAt DEF Within
<1> HIDE DEF match, to, slashes, value, quoted, marker
<1>11. marker \in Nat /\ (At(text, marker) # Space => marker <= n /\ At(text, marker) = text[marker])
  BY <1>1, <1>2, <1>3
<1>12. first => marker <= n /\ text[marker] = Sep /\ slashes > i
  BY <1>1, <1>2, <1>5, <1>11, Classes
<1>13. second => marker <= n /\ text[marker] \in {"=", ":"}
  BY <1>11, Classes
<1>14. match.to \in 0..n + 1
  <2>1. first => slashes \in 0..n + 1
    BY <1>1, <1>2, <1>5, <1>12
  <2>2. second => to \in 0..n + 1
    BY <1>1, <1>6, <1>7, <1>13
  <2>3. 0 \in 0..n + 1
    BY <1>1
  <2> HIDE DEF first, second
  <2> QED  BY <1>4, <2>1, <2>2, <2>3
<1>15. ASSUME match.to > i PROVE first \/ second
  <2>1. SUFFICES ASSUME ~first, ~second PROVE FALSE
    OBVIOUS
  <2>2. match.to = 0
    BY <1>4, <2>1
  <2> QED  BY <1>1, <1>15, <2>2
<1>16. ASSUME match.to > i
       PROVE  /\ \E m \in i + 1..n :
                    /\ NameAt(text, i, m)
                    /\ \/ SlashesMatch(text, i, match, m)
                       \/ \E v \in m + 1..n : ValueMatch(text, i, match, m, v)
              /\ match.to <= n => text[match.to] \notin Values
  <2>1. CASE first
    <3>1. /\ match.to = slashes /\ match.text = SubSeq(text, i, marker - 1) \o <<":", Mark>>
          /\ text[i] = Name
      BY <1>4, <2>1
    <3>2. marker \in i + 1..n /\ NameAt(text, i, marker) /\ SlashesMatch(text, i, match, marker)
      BY <1>1, <1>2, <1>12, <2>1, <3>1 DEF NameAt, SlashesMatch, Within
    <3> QED  BY <1>5, <1>12, <2>1, <3>1, <3>2
  <2>2. CASE ~first /\ second
    <3>1. /\ match.to = to /\ match.text = SubSeq(text, i, value - 1) \o <<Mark>>
          /\ text[i] = Name /\ to > value
      BY <1>4, <2>2
    <3>2. marker \in i + 1..n /\ NameAt(text, i, marker) /\ text[marker] \in {"=", ":"}
      BY <1>1, <1>2, <1>13, <2>2, <3>1 DEF NameAt, Within
    <3>3. value \in marker + 1..n /\ value \in value..to - 1 /\ text[value] \in Values
      <4>1. marker <= n /\ marker \in Nat
        BY <1>11, <1>13, <2>2
      <4>2. quoted \in marker + 1..n + 1 /\ value \in quoted..n + 1 /\ to \in value..n + 1
        BY <1>5, <1>6, <1>7, <4>1
      <4>3. value \in marker + 1..n /\ value \in value..to - 1
        BY <1>1, <3>1, <4>1, <4>2
      <4> QED  BY <1>7, <4>1, <4>3
    <3>4. \/ Within(text, marker + 1, value - 1, Blanks)
          \/ text[value - 1] = Quote /\ Within(text, marker + 1, value - 2, Blanks)
      <4>1. CASE value = quoted
        BY <1>5, <1>13, <2>2, <4>1 DEF Within
      <4>2. CASE value = quoted + 1 /\ text[quoted] = Quote
        <5>1. value - 1 = quoted /\ value - 2 = quoted - 1
          BY <1>1, <1>2, <1>5, <1>13, <2>2, <4>2
        <5> QED  BY <1>5, <1>13, <2>2, <4>2, <5>1 DEF Within
      <4> QED  BY <1>6, <1>13, <2>2, <4>1, <4>2
    <3>5. Within(text, value, match.to - 1, Values)
      BY <1>7, <1>13, <2>2, <3>1 DEF Within
    <3>6. ValueMatch(text, i, match, marker, value)
      BY <3>1, <3>2, <3>3, <3>4, <3>5 DEF ValueMatch, ValueAt
    <3> QED  BY <1>7, <1>13, <2>2, <3>1, <3>2, <3>3, <3>6
  <2> QED  BY <1>15, <1>16, <2>1, <2>2
<1>17. ASSUME NEW m \in i + 1..n, NameAt(text, i, m), text[m] = Sep PROVE match.to > i
  <2>1. first
    BY <1>9, <1>17, Classes
  <2>2. match.to = slashes
    BY <1>4, <2>1
  <2> QED  BY <1>12, <2>1, <2>2
<1>18. ASSUME NEW m \in i + 1..n, NEW v \in m + 1..n, NameAt(text, i, m), ValueAt(text, m, v)
       PROVE  match.to > i
  <2>1. text[m] \in {"=", ":"} /\ text[m] \notin Blanks /\ text[m] # Sep
    BY <1>18, Classes DEF ValueAt
  <2>2. marker = m /\ At(text, marker) = text[m] /\ text[i] = Name /\ marker <= n
    BY <1>1, <1>9, <1>18, <2>1
  <2>3. value = v
    <3>1. text[v] \in Values /\ text[v] \notin Blanks /\ text[v] # Quote
      BY <1>18, Classes DEF ValueAt
    <3>2. CASE Within(text, m + 1, v - 1, Blanks)
      <4>1. quoted = v
        BY <1>10, <2>2, <3>1, <3>2
      <4> QED  BY <1>6, <2>2, <3>1, <4>1
    <3>3. CASE text[v - 1] = Quote /\ Within(text, m + 1, v - 2, Blanks)
      <4>1. v - 1 \in m + 1..n /\ v - 2 = (v - 1) - 1 /\ text[v - 1] \notin Blanks
        <5>1. v - 1 # m
          BY <1>1, <2>1, <3>3, Classes
        <5> QED  BY <1>1, <3>3, <5>1, Classes
      <4>2. quoted = v - 1
        BY <1>10, <2>2, <3>3, <4>1
      <4>3. quoted <= n /\ text[quoted] = Quote /\ quoted + 1 = v
        BY <1>1, <3>3, <4>1, <4>2
      <4> QED  BY <1>6, <2>2, <4>3
    <3> QED  BY <1>18, <3>2, <3>3 DEF ValueAt
  <2>4. to > value
    BY <1>1, <1>8, <1>18, <2>3 DEF ValueAt
  <2>5. second /\ ~first
    BY <2>1, <2>2, <2>4
  <2>6. match.to = to
    BY <1>4, <2>5
  <2>7. to \in Nat /\ value \in Nat
    BY <1>1, <1>6, <1>7, <2>2
  <2> QED  BY <1>1, <2>3, <2>4, <2>6, <2>7
<1> QED  BY <1>14, <1>16, <1>17, <1>18 DEF match
-----------------------------------------------------------------------------
(* The scans.                                                              *)

Bearers(text)     == [i \in DOMAIN text |-> MatchBearer(text, i)]
Userinfos(text)   == [i \in DOMAIN text |-> MatchUrlUserinfo(text, i)]
Assignments(text) == [i \in DOMAIN text |-> MatchAssignment(text, i)]
Keys(text)        == [i \in DOMAIN text |-> MatchKeyValue(text, i)]
BlankRuns(text)   == [i \in DOMAIN text |-> MatchBlanks(text, i)]

\* Every scan is one by Runs.
LEMMA ScanScanned ==
    ASSUME NEW text \in Seq(Everything), NEW match, Bounded(text, match),
           NEW out, out = Scan(text, match)
    PROVE  /\ out \in Seq(Everything)
           /\ \E at, st : Scanned(text, match, out, at, st)
<1>1. PICK at, st : Runs(text, match, 1, out, at, st)
  BY ScanRuns
<1>2. out \in Seq(Everything)
  BY <1>1 DEF Runs
<1> QED  BY <1>1, <1>2 DEF Scanned

\* So is the first pass,
LEMMA BearerScanned ==
    ASSUME NEW text \in Seq(Everything)
    PROVE  /\ PassBearer(text) \in Seq(Everything)
           /\ \E at, st : Scanned(text, Bearers(text), PassBearer(text), at, st)
<1> DEFINE match == Bearers(text)
<1>1. ASSUME NEW i \in 1..Len(text)
      PROVE  /\ match[i].to \in 0..Len(text) + 1
             /\ match[i].to > i => match[i].text \in Seq(Everything) /\ match[i].text # <<>>
  <2>1. match[i] = MatchBearer(text, i)
    BY DEF Bearers
  <2>2. ASSUME match[i].to > i
        PROVE  match[i].text \in Seq(Everything) /\ match[i].text # <<>>
    <3>1. PICK t \in i + 2..Len(text) : match[i].text = SubSeq(text, i, t - 1) \o <<Mark>>
      BY <2>1, <2>2, BearerMatches
    <3>2. t \in i..Len(text) + 1
      OBVIOUS
    <3>3. match[i].text \in Seq(Everything) /\ Len(match[i].text) = t - i + 1
      BY <3>1, <3>2, HeadAndMark
    <3> QED  BY <3>2, <3>3
  <2> QED  BY <2>1, <2>2, BearerMatches
<1>2. PassBearer(text) = Scan(text, match)
  BY DEF PassBearer, Bearers
<1> HIDE DEF match
<1>3. Bounded(text, match)
  BY <1>1 DEF Bounded
<1> QED  BY <1>2, <1>3, ScanScanned DEF match

\* the second,
LEMMA UserinfoScanned ==
    ASSUME NEW text \in Seq(Everything)
    PROVE  /\ PassUrlUserinfo(text) \in Seq(Everything)
           /\ \E at, st : Scanned(text, Userinfos(text), PassUrlUserinfo(text), at, st)
<1> DEFINE match == Userinfos(text)
           left  == <<Sep, Mark, "@">>
<1>1. left \in Seq(Everything) /\ left # <<>>
  BY Classes
<1> HIDE DEF left
<1>2. ASSUME NEW i \in 1..Len(text)
      PROVE  /\ match[i].to \in 0..Len(text) + 1
             /\ match[i].to > i => match[i].text \in Seq(Everything) /\ match[i].text # <<>>
  <2>1. match[i] = MatchUrlUserinfo(text, i)
    BY DEF Userinfos
  <2>2. match[i].to > i => match[i].text = left
    BY <2>1, UserinfoMatches DEF left
  <2> QED  BY <1>1, <2>1, <2>2, UserinfoMatches
<1>3. PassUrlUserinfo(text) = Scan(text, match)
  BY DEF PassUrlUserinfo, Userinfos
<1> HIDE DEF match
<1>4. Bounded(text, match)
  BY <1>2 DEF Bounded
<1> QED  BY <1>3, <1>4, ScanScanned DEF match

\* the third,
LEMMA AssignmentScanned ==
    ASSUME NEW text \in Seq(Everything)
    PROVE  /\ PassAssignment(text) \in Seq(Everything)
           /\ \E at, st : Scanned(text, Assignments(text), PassAssignment(text), at, st)
<1> DEFINE match == Assignments(text)
<1>1. ASSUME NEW i \in 1..Len(text)
      PROVE  /\ match[i].to \in 0..Len(text) + 1
             /\ match[i].to > i => match[i].text \in Seq(Everything) /\ match[i].text # <<>>
  <2>1. match[i] = MatchAssignment(text, i)
    BY DEF Assignments
  <2>2. ASSUME match[i].to > i
        PROVE  match[i].text \in Seq(Everything) /\ match[i].text # <<>>
    <3>1. PICK m \in i + 1..Len(text) :
             \/ SlashesMatch(text, i, match[i], m)
             \/ \E v \in m + 1..Len(text) : ValueMatch(text, i, match[i], m, v)
      BY <2>1, <2>2, AssignmentMatches
    <3>2. CASE SlashesMatch(text, i, match[i], m)
      BY <3>2, HeadAndColon DEF SlashesMatch
    <3>3. CASE \E v \in m + 1..Len(text) : ValueMatch(text, i, match[i], m, v)
      <4>1. PICK v \in m + 1..Len(text) : ValueMatch(text, i, match[i], m, v)
        BY <3>3
      <4>2. v \in i..Len(text) + 1
        OBVIOUS
      <4>3. match[i].text \in Seq(Everything) /\ Len(match[i].text) = v - i + 1
        BY <4>1, <4>2, HeadAndMark DEF ValueMatch
      <4> QED  BY <4>2, <4>3
    <3> QED  BY <3>1, <3>2, <3>3
  <2> QED  BY <2>1, <2>2, AssignmentMatches
<1>2. PassAssignment(text) = Scan(text, match)
  BY DEF PassAssignment, Assignments
<1> HIDE DEF match
<1>3. Bounded(text, match)
  BY <1>1 DEF Bounded
<1> QED  BY <1>2, <1>3, ScanScanned DEF match

\* the fourth,
LEMMA KeyScanned ==
    ASSUME NEW text \in Seq(Everything)
    PROVE  /\ PassKeyValue(text) \in Seq(Everything)
           /\ \E at, st : Scanned(text, Keys(text), PassKeyValue(text), at, st)
<1> DEFINE match == Keys(text)
           left  == <<Mark>>
<1>1. left \in Seq(Everything) /\ left # <<>>
  BY Classes
<1> HIDE DEF left
<1>2. ASSUME NEW i \in 1..Len(text)
      PROVE  /\ match[i].to \in 0..Len(text) + 1
             /\ match[i].to > i => match[i].text \in Seq(Everything) /\ match[i].text # <<>>
  <2>1. match[i] = MatchKeyValue(text, i)
    BY DEF Keys
  <2>2. match[i].to > i => match[i].text = left
    BY <2>1, KeyMatches DEF left
  <2> QED  BY <1>1, <2>1, <2>2, KeyMatches
<1>3. PassKeyValue(text) = Scan(text, match)
  BY DEF PassKeyValue, Keys
<1> HIDE DEF match
<1>4. Bounded(text, match)
  BY <1>2 DEF Bounded
<1> QED  BY <1>3, <1>4, ScanScanned DEF match

\* and the collapse.
LEMMA CollapseScanned ==
    ASSUME NEW text \in Seq(Everything)
    PROVE  /\ Collapse(text) \in Seq(Everything)
           /\ \E at, st : Scanned(text, BlankRuns(text), Collapse(text), at, st)
<1> DEFINE match == BlankRuns(text)
           left  == <<Space>>
<1>1. left \in Seq(Everything) /\ left # <<>>
  BY Classes
<1> HIDE DEF left
<1>2. ASSUME NEW i \in 1..Len(text)
      PROVE  /\ match[i].to \in 0..Len(text) + 1
             /\ match[i].to > i => match[i].text \in Seq(Everything) /\ match[i].text # <<>>
  <2>1. match[i] = MatchBlanks(text, i)
    BY DEF BlankRuns
  <2>2. match[i].to > i => match[i].text = left
    BY <2>1, WhiteMatch DEF left
  <2> QED  BY <1>1, <2>1, <2>2, WhiteMatch
<1>3. Collapse(text) = Scan(text, match)
  BY DEF Collapse, BlankRuns
<1> HIDE DEF match
<1>4. Bounded(text, match)
  BY <1>2 DEF Bounded
<1> QED  BY <1>3, <1>4, ScanScanned DEF match
-----------------------------------------------------------------------------
(* What a matched piece looks like afterwards.                             *)

\* Where a piece of the first pass stands: Bearer, blanks, the placeholder.
LEMMA BearerBlock ==
    ASSUME NEW text, NEW out, NEW at, NEW st,
           Scanned(text, Bearers(text), out, at, st),
           NEW k \in 1..Len(out), Matched(Bearers(text), at[k])
    PROVE  \E b \in 1..k, e \in k..Len(out) :
              /\ b = st[k] /\ b + 1 < e
              /\ out[b] = Bearer /\ text[at[k]] = Bearer
              /\ Within(out, b + 1, e - 1, Blanks)
              /\ out[e] = Mark
<1> DEFINE a == at[k]
           b == st[k]
           match == Bearers(text)
           p == match[a].text
<1>1. text \in Seq(Everything) /\ a \in 1..Len(text) /\ Len(out) \in Nat /\ Len(text) \in Nat
  BY ScannedType
<1>2. Block(match, out, at, st, k, b, p)
  BY InBlock
<1>3. match[a] = MatchBearer(text, a) /\ match[a].to > a
  BY <1>1 DEF Bearers, Matched
<1> HIDE DEF p
<1>4. PICK t \in a + 2..Len(text) :
         BearerAt(text, a, t) /\ p = SubSeq(text, a, t - 1) \o <<Mark>>
  <2> HIDE DEF a, match
  <2> QED  BY <1>1, <1>3, BearerMatches DEF p
<1>5. /\ Len(p) = t - a + 1
      /\ \A o \in 1..t - a : p[o] = text[a + o - 1]
      /\ p[t - a + 1] = Mark
  <2>1. t \in a..Len(text) + 1
    BY <1>1
  <2> HIDE DEF a
  <2> QED  BY <1>1, <1>4, <2>1, HeadAndMark
<1>6. /\ b \in 1..k /\ k < b + Len(p) /\ b + Len(p) <= Len(out) + 1
      /\ \A l \in b..b + Len(p) - 1 : out[l] = p[l - b + 1]
  BY <1>2 DEF Block
<1> DEFINE d == t - a
           e == b + d
<1>7. d \in Nat /\ d >= 2 /\ b \in Nat /\ k \in Nat /\ a \in Nat /\ t = a + d
  BY <1>1, <1>6, SMTT(30)
<1>8. Len(p) = d + 1
  BY <1>5
<1> HIDE DEF a, b, d
<1>9. e \in k..Len(out) /\ b + 1 < e
  BY <1>1, <1>6, <1>7, <1>8
<1>10. out[b] = Bearer /\ text[a] = Bearer
  <2>1. b \in b..b + Len(p) - 1 /\ b - b + 1 = 1 /\ 1 \in 1..d /\ a + 1 - 1 = a
    BY <1>7, <1>8
  <2>2. out[b] = p[1] /\ p[1] = text[a]
    BY <1>5, <1>6, <2>1 DEF d
  <2> QED  BY <1>4, <2>2 DEF BearerAt
<1>11. ASSUME NEW l \in b + 1..e - 1 PROVE out[l] \in Blanks
  <2>1. /\ l \in b..b + Len(p) - 1 /\ l - b + 1 \in 1..d
        /\ a + (l - b + 1) - 1 \in a + 1..t - 1
    BY <1>7, <1>8
  <2>2. out[l] = text[a + (l - b + 1) - 1]
    BY <1>5, <1>6, <2>1 DEF d
  <2> QED  BY <1>4, <2>1, <2>2 DEF BearerAt, Within
<1>12. out[e] = Mark
  <2>1. e \in b..b + Len(p) - 1 /\ e - b + 1 = d + 1
    BY <1>7, <1>8
  <2> QED  BY <1>5, <1>6, <2>1 DEF d
<1> HIDE DEF e
<1>13. Within(out, b + 1, e - 1, Blanks)
  BY <1>11 DEF Within
<1> QED  BY <1>6, <1>9, <1>10, <1>12, <1>13 DEF b, a

\* Where one of the second stands: ://, the placeholder, @.
LEMMA UserinfoBlock ==
    ASSUME NEW text, NEW out, NEW at, NEW st,
           Scanned(text, Userinfos(text), out, at, st),
           NEW k \in 1..Len(out), Matched(Userinfos(text), at[k])
    PROVE  LET b == st[k]
           IN /\ b \in 1..k /\ k <= b + 2 /\ b + 2 <= Len(out)
              /\ out[b] = Sep /\ out[b + 1] = Mark /\ out[b + 2] = "@"
<1> DEFINE a == at[k]
           b == st[k]
           match == Userinfos(text)
           p == match[a].text
<1>1. text \in Seq(Everything) /\ a \in 1..Len(text) /\ Len(out) \in Nat /\ Len(text) \in Nat
  BY ScannedType
<1>2. Block(match, out, at, st, k, b, p)
  BY InBlock
<1>3. match[a] = MatchUrlUserinfo(text, a) /\ match[a].to > a
  BY <1>1 DEF Userinfos, Matched
<1>4. p = <<Sep, Mark, "@">>
  <2> HIDE DEF a, match
  <2> QED  BY <1>1, <1>3, UserinfoMatches
<1>5. Len(p) = 3 /\ p[1] = Sep /\ p[2] = Mark /\ p[3] = "@"
  <2> HIDE DEF p
  <2> QED  BY <1>4
<1>6. /\ b \in 1..k /\ k < b + 3 /\ b + 3 <= Len(out) + 1
      /\ \A l \in b..b + 3 - 1 : out[l] = p[l - b + 1]
  <2> HIDE DEF p
  <2> QED  BY <1>2, <1>5 DEF Block
<1> HIDE DEF p, a, b
<1>7. /\ b \in b..b + 3 - 1 /\ b + 1 \in b..b + 3 - 1 /\ b + 2 \in b..b + 3 - 1
      /\ b - b + 1 = 1 /\ b + 1 - b + 1 = 2 /\ b + 2 - b + 1 = 3
  BY <1>6
<1>8. out[b] = p[1] /\ out[b + 1] = p[2] /\ out[b + 2] = p[3]
  BY <1>6, <1>7
<1>9. b \in 1..k /\ k <= b + 2 /\ b + 2 <= Len(out)
  BY <1>1, <1>6
<1> QED  BY <1>5, <1>8, <1>9 DEF b

\* An assignment that lost its value, from its name to the placeholder.
LostAt(text, b, m, e) ==
    /\ NameAt(text, b, m) /\ text[m] \in {"=", ":"} /\ text[e] = Mark
    /\ \/ Within(text, m + 1, e - 1, Blanks)
       \/ text[e - 1] = Quote /\ Within(text, m + 1, e - 2, Blanks)

\* Where one of the third stands: an assignment that lost its value.
LEMMA AssignmentBlock ==
    ASSUME NEW text, NEW out, NEW at, NEW st,
           Scanned(text, Assignments(text), out, at, st),
           NEW k \in 1..Len(out), Matched(Assignments(text), at[k])
    PROVE  \E b \in 1..k, e \in k..Len(out) : \E m \in b + 1..e - 1 :
              /\ b = st[k] /\ text[at[k]] = Name
              /\ LostAt(out, b, m, e)
              /\ at[e + 1] <= Len(text) => text[at[e + 1]] \notin Values
              /\ st[e + 1] = e + 1 /\ \A l \in b..e : st[l] = b
<1> DEFINE a == at[k]
           b == st[k]
           match == Assignments(text)
           p == match[a].text
<1>1. text \in Seq(Everything) /\ a \in 1..Len(text) /\ Len(out) \in Nat /\ Len(text) \in Nat
  BY ScannedType
<1>2. Block(match, out, at, st, k, b, p)
  BY InBlock
<1>3. match[a] = MatchAssignment(text, a) /\ match[a].to > a
  BY <1>1 DEF Assignments, Matched
<1>4. /\ b \in 1..k /\ k < b + Len(p) /\ b + Len(p) <= Len(out) + 1
      /\ \A l \in b..b + Len(p) - 1 : out[l] = p[l - b + 1]
      /\ at[b + Len(p)] = match[a].to /\ st[b + Len(p)] = b + Len(p)
      /\ \A l \in b..b + Len(p) - 1 : st[l] = b
  BY <1>2 DEF Block
<1>5. PICK m \in a + 1..Len(text) :
             /\ NameAt(text, a, m)
             /\ \/ SlashesMatch(text, a, match[a], m)
                \/ \E v \in m + 1..Len(text) : ValueMatch(text, a, match[a], m, v)
  <2> HIDE DEF a, match
  <2> QED  BY <1>1, <1>3, AssignmentMatches
<1>6. match[a].to <= Len(text) => text[match[a].to] \notin Values
  <2> HIDE DEF a, match
  <2> QED  BY <1>1, <1>3, AssignmentMatches
<1>7. a \in Nat /\ b \in Nat /\ k \in Nat /\ m \in Nat
  BY <1>1, <1>4
<1> DEFINE x == b + (m - a)
\* The name and the blanks, wherever the marker is the last that was kept.
<1>8. ASSUME NEW d \in Nat, d >= m - a, \A o \in 1..d : p[o] = text[a + o - 1], d + 1 <= Len(p)
      PROVE  /\ \A l \in b..b + d - 1 : out[l] = text[a + (l - b)]
             /\ out[b] = Name
             /\ Within(out, b + 1, x - 1, Blanks)
  <2> HIDE DEF a, b, p, match
  <2>1. ASSUME NEW l \in b..b + d - 1 PROVE out[l] = text[a + (l - b)]
    <3>1. Len(p) \in Nat /\ d + 1 <= Len(p)
      BY <1>2, <1>8 DEF Block
    <3>2. l \in b..b + Len(p) - 1 /\ l - b + 1 \in 1..d /\ a + (l - b + 1) - 1 = a + (l - b)
      BY <1>7, <3>1
    <3> QED  BY <1>4, <1>8, <3>2
  <2>2. out[b] = Name
    <3>1. b \in b..b + d - 1 /\ a + (b - b) = a
      BY <1>7, <1>8
    <3> QED  BY <1>5, <2>1, <3>1 DEF NameAt
  <2>3. ASSUME NEW l \in b + 1..x - 1 PROVE out[l] \in Blanks
    <3>1. l \in b..b + d - 1 /\ a + (l - b) \in a + 1..m - 1
      BY <1>7, <1>8
    <3> QED  BY <1>5, <2>1, <3>1 DEF NameAt, Within
  <2> QED  BY <2>1, <2>2, <2>3 DEF Within
<1>9. text[a] = Name
  BY <1>5 DEF NameAt
<1>10. CASE SlashesMatch(text, a, match[a], m)
  <2> DEFINE d == m - a
  <2>1. p = SubSeq(text, a, m - 1) \o <<":", Mark>> /\ m \in a..Len(text) + 1 /\ d \in Nat /\ d >= 1
    <3>1. p = SubSeq(text, a, m - 1) \o <<":", Mark>>
      BY <1>10 DEF SlashesMatch
    <3> HIDE DEF a, p
    <3>2. m \in a..Len(text) + 1 /\ d \in Nat /\ d >= 1
      BY <1>1, <1>7
    <3> QED  BY <3>1, <3>2
  <2> HIDE DEF a, b, p, match
  <2>2. /\ Len(p) = d + 2 /\ \A o \in 1..d : p[o] = text[a + o - 1]
        /\ p[d + 1] = ":" /\ p[d + 2] = Mark
    BY <1>1, <2>1, HeadAndColon
  <2>3. out[b] = Name /\ Within(out, b + 1, x - 1, Blanks)
    <3>1. d >= m - a /\ d + 1 <= Len(p)
      <4>1. d >= d /\ (Len(p) = d + 2 => d + 1 <= Len(p))
        <5>1. d \in Nat
          BY <2>1
        <5> HIDE DEF d
        <5> QED  BY <5>1
      <4> QED  BY <2>2, <4>1
    <3> HIDE DEF d
    <3> QED  BY <1>8, <2>1, <2>2, <3>1
  <2> DEFINE e == x + 1
  <2>4. x = b + d /\ e = b + d + 1
    BY <1>7
  <2> HIDE DEF d, x, e
  <2>5. /\ x \in b..b + Len(p) - 1 /\ x - b + 1 = d + 1
        /\ e \in b..b + Len(p) - 1 /\ e - b + 1 = d + 2
    BY <1>7, <2>1, <2>2, <2>4
  <2>6. out[x] = ":" /\ out[e] = Mark
    BY <1>4, <2>2, <2>5
  <2>7. e \in k..Len(out) /\ x \in b + 1..e - 1 /\ e + 1 = b + Len(p)
    BY <1>1, <1>4, <1>7, <2>1, <2>2, <2>4, SMTT(30)
  <2>8. Within(out, x + 1, e - 1, Blanks)
    BY <1>7, <2>1, <2>4 DEF Within
  <2>9. LostAt(out, b, x, e)
    BY <2>3, <2>6, <2>8 DEF LostAt, NameAt
  <2>10. at[e + 1] = match[a].to /\ st[e + 1] = e + 1 /\ \A l \in b..e : st[l] = b
    <3>1. e = b + Len(p) - 1
      BY <1>7, <2>1, <2>2, <2>4
    <3> QED  BY <1>4, <2>7, <3>1
  <2> QED  BY <1>4, <1>6, <1>9, <2>7, <2>9, <2>10 DEF a, b
<1>11. CASE \E v \in m + 1..Len(text) : ValueMatch(text, a, match[a], m, v)
  <2>1. PICK v \in m + 1..Len(text) : ValueMatch(text, a, match[a], m, v)
    BY <1>11
  <2> DEFINE d == v - a
             e == b + d
  <2>2. p = SubSeq(text, a, v - 1) \o <<Mark>> /\ v \in a..Len(text) + 1 /\ d \in Nat /\ d >= 2
        /\ v \in Nat /\ v - 1 \in Nat /\ v > m
    <3>1. p = SubSeq(text, a, v - 1) \o <<Mark>>
      BY <2>1 DEF ValueMatch
    <3> HIDE DEF a, p
    <3>2. v \in a..Len(text) + 1 /\ d \in Nat /\ d >= 2 /\ v \in Nat /\ v - 1 \in Nat /\ v > m
      BY <1>1, <1>7
    <3> QED  BY <3>1, <3>2
  <2> HIDE DEF a, b, p, match
  <2>3. /\ Len(p) = d + 1 /\ \A o \in 1..d : p[o] = text[a + o - 1]
        /\ p[d + 1] = Mark
    BY <1>1, <2>2, HeadAndMark
  <2>4. /\ \A l \in b..b + d - 1 : out[l] = text[a + (l - b)]
        /\ out[b] = Name /\ Within(out, b + 1, x - 1, Blanks)
    <3>1. d >= m - a /\ d + 1 <= Len(p)
      <4>1. v - a >= m - a
        BY <1>7, <2>2
      <4>2. Len(p) = d + 1 => d + 1 <= Len(p)
        <5>1. d \in Nat
          BY <2>2
        <5> HIDE DEF d
        <5> QED  BY <5>1
      <4> QED  BY <2>3, <4>1, <4>2
    <3> HIDE DEF d
    <3> QED  BY <1>8, <2>2, <2>3, <3>1
  <2>5. x = b + (m - a) /\ v = a + d /\ m = a + (x - b) /\ x \in Nat /\ e = b + d
    BY <1>7, <2>2
  <2> HIDE DEF d, x, e
  <2>6. x \in b + 1..e - 1 /\ x \in b..b + d - 1
    BY <1>1, <1>7, <2>2, <2>5
  <2>7. out[x] = text[m]
    BY <2>4, <2>5, <2>6
  <2>8. /\ e \in b..b + Len(p) - 1 /\ e - b + 1 = d + 1 /\ e + 1 = b + Len(p)
        /\ e \in k..Len(out)
    <3>1. /\ d \in Nat /\ d >= 2 /\ Len(p) = d + 1 /\ e = b + d
          /\ b \in 1..k /\ k < b + Len(p) /\ b + Len(p) <= Len(out) + 1
      BY <1>4, <2>2, <2>3, <2>5
    <3> QED  BY <1>1, <1>7, <3>1
  <2>9. out[e] = Mark
    <3>1. out[e] = p[e - b + 1] /\ e - b + 1 = d + 1
      BY <1>4, <2>8
    <3>2. p[d + 1] = Mark
      BY <2>3
    <3> QED  BY <3>1, <3>2
  <2>10. ASSUME NEW l \in x + 1..e - 1 PROVE out[l] = text[a + (l - b)] /\ a + (l - b) \in m + 1..v - 1
    <3>1. l \in b..b + d - 1 /\ a + (l - b) \in m + 1..v - 1
      BY <1>7, <2>2, <2>5
    <3> QED  BY <2>4, <3>1
  <2>11. \/ Within(out, x + 1, e - 1, Blanks)
         \/ out[e - 1] = Quote /\ Within(out, x + 1, e - 2, Blanks)
    <3>1. CASE Within(text, m + 1, v - 1, Blanks)
      BY <2>10, <3>1 DEF Within
    <3>2. CASE text[v - 1] = Quote /\ Within(text, m + 1, v - 2, Blanks)
      <4>1. v - 1 # m
        BY <1>7, <2>1, <3>2, Classes DEF ValueMatch, ValueAt
      <4>2. e - 1 \in x + 1..e - 1 /\ a + ((e - 1) - b) = v - 1
        BY <1>7, <2>2, <2>5, <4>1
      <4>3. out[e - 1] = Quote
        BY <2>10, <3>2, <4>2
      <4>4. ASSUME NEW l \in x + 1..e - 2 PROVE out[l] \in Blanks
        <5>1. l \in x + 1..e - 1 /\ a + (l - b) \in m + 1..v - 2
          BY <1>7, <2>2, <2>5
        <5> QED  BY <2>10, <3>2, <5>1 DEF Within
      <4> QED  BY <4>3, <4>4 DEF Within
    <3> QED  BY <2>1, <3>1, <3>2 DEF ValueMatch, ValueAt
  <2>12. LostAt(out, b, x, e)
    BY <2>1, <2>4, <2>7, <2>9, <2>11 DEF LostAt, NameAt, ValueMatch, ValueAt
  <2>13. at[e + 1] = match[a].to /\ st[e + 1] = e + 1 /\ \A l \in b..e : st[l] = b
    <3>1. e = b + Len(p) - 1
      <4>1. d \in Nat /\ Len(p) = d + 1
        BY <2>2, <2>3
      <4> QED  BY <1>7, <2>5, <4>1
    <3> QED  BY <1>4, <2>8, <3>1
  <2> QED  BY <1>4, <1>6, <1>9, <2>6, <2>8, <2>12, <2>13 DEF a, b
<1> QED  BY <1>5, <1>10, <1>11
\* A window of copies, seen from the text.
LEMMA Window ==
    ASSUME NEW text, NEW match, NEW out, NEW at, NEW st,
           Scanned(text, match, out, at, st),
           NEW i \in 1..Len(out) + 1, NEW j \in i..Len(out) + 1, st[i] = i,
           \A k \in i..j - 1 : st[k] = k => ~Matched(match, at[k])
    PROVE  /\ st[j] = j /\ at[j] = at[i] + (j - i)
           /\ \A k \in i..j : st[k] = k /\ at[k] = at[i] + (k - i)
           /\ \A k \in i..j - 1 : out[k] = text[at[k]]
           /\ \A class : Within(out, i, j - 1, class) => Within(text, at[i], at[j] - 1, class)
<1>1. /\ i \in Nat /\ j \in Nat /\ i <= j /\ at[i] \in Nat /\ j \in i..j
      /\ \A k \in i..j - 1 : k \in i..j
  BY ScannedType
<1>2. /\ \A k \in i..j : st[k] = k /\ at[k] = at[i] + (k - i)
      /\ \A k \in i..j - 1 : out[k] = text[at[i] + (k - i)]
  BY Straight
<1>3. at[j] = at[i] + (j - i) /\ st[j] = j
  BY <1>1, <1>2
<1>4. ASSUME NEW class, Within(out, i, j - 1, class), NEW q \in at[i]..at[j] - 1
      PROVE  text[q] \in class
  <2> DEFINE k == i + (q - at[i])
  <2>1. k \in i..j - 1 /\ at[i] + (k - i) = q
    BY <1>1, <1>3
  <2>2. out[k] \in class
    BY <1>4, <2>1 DEF Within
  <2> QED  BY <1>2, <2>1, <2>2
<1>5. \A k \in i..j - 1 : out[k] = text[at[k]]
  BY <1>1, <1>2
<1> QED  BY <1>2, <1>3, <1>4, <1>5 DEF Within

\* The places where pieces begin keep what they held, but for a key's.
LEMMA BearerKept ==
    ASSUME NEW text, NEW out, NEW at, NEW st,
           Scanned(text, Bearers(text), out, at, st),
           NEW k \in 1..Len(out), st[k] = k
    PROVE  /\ out[k] = text[at[k]]
           /\ Matched(Bearers(text), at[k]) => out[k] = Bearer
<1>1. CASE Matched(Bearers(text), at[k])
  BY <1>1, BearerBlock
<1>2. CASE ~Matched(Bearers(text), at[k])
  BY <1>2, Copied
<1> QED  BY <1>1, <1>2

\* The same of the third pass.
LEMMA AssignmentKept ==
    ASSUME NEW text, NEW out, NEW at, NEW st,
           Scanned(text, Assignments(text), out, at, st),
           NEW k \in 1..Len(out), st[k] = k
    PROVE  /\ out[k] = text[at[k]]
           /\ Matched(Assignments(text), at[k]) => out[k] = Name
<1>1. CASE Matched(Assignments(text), at[k])
  BY <1>1, AssignmentBlock DEF LostAt, NameAt
<1>2. CASE ~Matched(Assignments(text), at[k])
  BY <1>2, Copied
<1> QED  BY <1>1, <1>2

-----------------------------------------------------------------------------
(* Each pass hides what it is to hide.                                     *)

\* After the first pass no bearer token shows.
LEMMA BearerHidden ==
    ASSUME NEW text \in Seq(Everything)
    PROVE  ~BearerShows(PassBearer(text))
<1> DEFINE match == Bearers(text)
           out == PassBearer(text)
<1>1. PICK at, st : Scanned(text, match, out, at, st)
  BY BearerScanned
<1>2. SUFFICES ASSUME NEW i \in 1..Len(out), NEW j \in 1..Len(out), BearerAt(out, i, j)
               PROVE  FALSE
  <2>1. DOMAIN out = 1..Len(out)
    BY BearerScanned
  <2> QED  BY <2>1 DEF BearerShows, BearerAt
<1> HIDE DEF out, match
<1>3. /\ out[i] = Bearer /\ i + 1 < j /\ out[j] \in BearerTokens
      /\ \A k \in i + 1..j - 1 : out[k] = Space
  BY <1>2, Classes DEF BearerAt, Within
<1>4. /\ Len(out) \in Nat /\ Len(text) \in Nat /\ i \in Nat /\ j \in Nat
      /\ i + 1 \in 1..Len(out) + 1 /\ j \in i + 1..Len(out) + 1
      /\ at[i] \in 1..Len(text) /\ at[j] \in 1..Len(text)
  BY <1>1, <1>3, ScannedType
<1>5. ~Matched(match, at[i])
  <2>1. SUFFICES ASSUME Matched(match, at[i]) PROVE FALSE
    OBVIOUS
  <2>2. PICK b \in 1..i, e \in i..Len(out) :
              /\ b + 1 < e /\ out[b] = Bearer /\ out[e] = Mark
              /\ \A k \in b + 1..e - 1 : out[k] = Space
    BY <1>1, <2>1, BearerBlock, Classes DEF match, Within
  <2>3. i = b /\ i < e
    BY <1>3, <1>4, <2>2, Classes
  <2>4. CASE e < j
    BY <1>3, <1>4, <2>2, <2>3, <2>4, Classes
  <2>5. CASE e = j
    BY <1>3, <2>2, <2>5, Classes
  <2>6. CASE e > j
    BY <1>3, <1>4, <2>2, <2>3, <2>6, Classes
  <2> QED  BY <1>4, <2>4, <2>5, <2>6
<1>6. st[i] = i /\ at[i + 1] = at[i] + 1 /\ st[i + 1] = i + 1 /\ text[at[i]] = Bearer
  BY <1>1, <1>3, <1>5, Copied
<1>7. ASSUME NEW k \in (i + 1)..j - 1, st[k] = k PROVE ~Matched(match, at[k])
  <2>1. k \in 1..Len(out)
    BY <1>4
  <2> QED  BY <1>1, <1>3, <1>7, <2>1, BearerKept, Classes DEF match
<1>8. /\ st[j] = j /\ at[j] = at[i + 1] + (j - (i + 1))
      /\ Within(text, at[i] + 1, at[j] - 1, Blanks)
  <2>1. Within(out, i + 1, j - 1, Blanks)
    BY <1>2 DEF BearerAt
  <2>2. st[i + 1] = i + 1
    BY <1>6
  <2>3. /\ st[j] = j /\ at[j] = at[i + 1] + (j - (i + 1))
        /\ Within(text, at[i + 1], at[j] - 1, Blanks)
    <3>1. \A k \in (i + 1)..j - 1 : st[k] = k => ~Matched(match, at[k])
      BY <1>7
    <3>2. /\ st[j] = j /\ at[j] = at[i + 1] + (j - (i + 1))
          /\ \A class : Within(out, i + 1, j - 1, class)
                          => Within(text, at[i + 1], at[j] - 1, class)
      BY <1>1, <1>4, <2>2, <3>1, Window
    <3> QED  BY <2>1, <3>2
  <2> QED  BY <1>6, <2>3
<1>9. text[at[j]] \in BearerTokens
  <2>1. out[j] = text[at[j]]
    BY <1>1, <1>8, BearerKept DEF match
  <2> QED  BY <1>3, <2>1
<1>10. at[j] \in at[i] + 2..Len(text) /\ at[i] + 1 < at[j]
  <2>1. at[j] = at[i] + 1 + (j - (i + 1)) /\ at[i] \in Nat /\ at[j] \in Nat
    BY <1>4, <1>6, <1>8, SMTT(30)
  <2> QED  BY <1>3, <1>4, <2>1
<1>11. BearerAt(text, at[i], at[j])
  BY <1>6, <1>8, <1>9, <1>10 DEF BearerAt
<1>12. Matched(match, at[i])
  <2>1. text \in Seq(Everything) /\ match[at[i]] = MatchBearer(text, at[i])
    BY <1>4 DEF match, Bearers
  <2> QED  BY <1>4, <1>10, <1>11, <2>1, BearerMatches DEF Matched
<1> QED  BY <1>5, <1>12

\* After the second no user information does.
LEMMA UserinfoHidden ==
    ASSUME NEW text \in Seq(Everything)
    PROVE  ~UserinfoShows(PassUrlUserinfo(text))
<1> DEFINE match == Userinfos(text)
           out == PassUrlUserinfo(text)
<1>1. PICK at, st : Scanned(text, match, out, at, st)
  BY UserinfoScanned
<1>2. SUFFICES ASSUME NEW i \in 1..Len(out), NEW j \in 1..Len(out), UserinfoAt(out, i, j)
               PROVE  FALSE
  <2>1. DOMAIN out = 1..Len(out)
    BY UserinfoScanned
  <2> QED  BY <2>1 DEF UserinfoShows
<1> HIDE DEF out, match
<1>3. /\ 1 < i /\ out[i - 1] \in SchemeEnds /\ out[i] = Sep
      /\ i + 1 < j /\ out[j] = "@"
      /\ \A k \in i + 1..j - 1 : out[k] \in Userinfo
      /\ ~(j = i + 2 /\ out[i + 1] = Mark)
  BY <1>2 DEF UserinfoAt, Within
<1>4. /\ Len(out) \in Nat /\ Len(text) \in Nat /\ i \in Nat /\ j \in Nat
      /\ i - 1 \in 1..Len(out) /\ (i - 1) + 1 = i
      /\ i + 1 \in 1..Len(out) + 1 /\ j \in i + 1..Len(out) + 1
      /\ at[i] \in 1..Len(text) /\ at[j] \in 1..Len(text) /\ at[i - 1] \in 1..Len(text)
  BY <1>1, <1>3, ScannedType
<1>5. ASSUME NEW k \in 1..Len(out), Matched(match, at[k])
      PROVE  LET b == st[k]
             IN /\ b \in 1..k /\ k <= b + 2 /\ b + 2 <= Len(out)
                /\ out[b] = Sep /\ out[b + 1] = Mark /\ out[b + 2] = "@"
  BY <1>1, <1>5, UserinfoBlock DEF match
<1>6. ~Matched(match, at[i])
  <2>1. SUFFICES ASSUME Matched(match, at[i]) PROVE FALSE
    OBVIOUS
  <2> DEFINE b == st[i]
  <2>2. /\ b \in 1..i /\ i <= b + 2
        /\ out[b] = Sep /\ out[b + 1] = Mark /\ out[b + 2] = "@"
    BY <1>5, <2>1
  <2> HIDE DEF b
  <2>3. i = b
    BY <1>3, <1>4, <2>2, Classes, SMTT(30)
  <2>4. j # i + 2
    BY <1>3, <2>2, <2>3
  <2>5. i + 2 \in i + 1..j - 1
    BY <1>3, <1>4, <2>4
  <2> QED  BY <1>3, <2>2, <2>3, <2>5, Classes
<1>7. ~Matched(match, at[i - 1])
  <2>1. SUFFICES ASSUME Matched(match, at[i - 1]) PROVE FALSE
    OBVIOUS
  <2> DEFINE b == st[i - 1]
  <2>2. /\ b \in 1..i - 1 /\ i - 1 <= b + 2
        /\ out[b] = Sep /\ out[b + 1] = Mark /\ out[b + 2] = "@"
    BY <1>4, <1>5, <2>1
  <2> HIDE DEF b
  <2>3. i - 1 = b \/ i - 1 = b + 1 \/ i - 1 = b + 2
    BY <1>4, <2>2
  <2> QED  BY <1>3, <2>2, <2>3, Classes
<1>8. st[i] = i /\ at[i + 1] = at[i] + 1 /\ st[i + 1] = i + 1 /\ text[at[i]] = Sep
  BY <1>1, <1>3, <1>6, Copied
<1>9. at[i] = at[i - 1] + 1 /\ text[at[i - 1]] \in SchemeEnds
  BY <1>1, <1>3, <1>4, <1>7, Copied
<1>10. ASSUME NEW k \in (i + 1)..j, st[k] = k PROVE ~Matched(match, at[k])
  <2>1. k \in 1..Len(out) /\ (k \in i + 1..j - 1 \/ k = j)
    BY <1>4
  <2>2. out[k] # Sep
    BY <1>3, <2>1, Classes
  <2> QED  BY <1>5, <1>10, <2>1, <2>2
<1>11. /\ st[j] = j /\ at[j] = at[i + 1] + (j - (i + 1))
       /\ Within(text, at[i] + 1, at[j] - 1, Userinfo)
  <2>1. Within(out, i + 1, j - 1, Userinfo)
    BY <1>2 DEF UserinfoAt
  <2>2. \A k \in (i + 1)..j - 1 : st[k] = k => ~Matched(match, at[k])
    BY <1>4, <1>10
  <2>3. st[i + 1] = i + 1
    BY <1>8
  <2>4. /\ st[j] = j /\ at[j] = at[i + 1] + (j - (i + 1))
        /\ Within(text, at[i + 1], at[j] - 1, Userinfo)
    BY <1>1, <1>4, <2>1, <2>2, <2>3, Window, SMTT(30)
  <2> QED  BY <1>8, <2>4
<1>12. text[at[j]] = "@"
  <2>1. j \in (i + 1)..j
    BY <1>4
  <2> QED  BY <1>1, <1>3, <1>10, <1>11, <2>1, Copied
<1>13. at[j] \in at[i] + 2..Len(text) /\ 1 < at[i] /\ at[i - 1] = at[i] - 1
  <2> DEFINE x == at[i]
             y == at[j]
             z == at[i - 1]
  <2>1. y = at[i + 1] + (j - (i + 1)) /\ at[i + 1] = x + 1
    BY <1>8, <1>11
  <2>2. x = z + 1
    BY <1>9
  <2>3. x \in 1..Len(text) /\ y \in 1..Len(text) /\ z \in 1..Len(text)
    BY <1>4
  <2> HIDE DEF x, y, z
  <2>4. y \in x + 2..Len(text) /\ 1 < x /\ z = x - 1
    BY <1>3, <1>4, <2>1, <2>2, <2>3
  <2> QED  BY <2>4 DEF x, y, z
<1>14. Matched(match, at[i])
  <2>1. text \in Seq(Everything) /\ match[at[i]] = MatchUrlUserinfo(text, at[i])
    BY <1>4 DEF match, Userinfos
  <2> QED  BY <1>4, <1>8, <1>9, <1>11, <1>12, <1>13, <2>1, UserinfoMatches DEF Matched
<1> QED  BY <1>6, <1>14
\* A marker has one value.
LEMMA OneValue ==
    ASSUME NEW text \in Seq(Everything), NEW m \in 1..Len(text),
           NEW v \in m + 1..Len(text), ValueAt(text, m, v),
           NEW w \in m + 1..Len(text), ValueAt(text, m, w)
    PROVE  v = w
<1>1. ASSUME NEW x \in m + 1..Len(text), ValueAt(text, m, x),
             NEW y \in m + 1..Len(text), ValueAt(text, m, y), x < y
      PROVE  FALSE
  <2>1. text[x] \notin Blanks /\ text[x] # Quote
    BY <1>1, Classes DEF ValueAt
  <2>2. CASE Within(text, m + 1, y - 1, Blanks)
    <3>1. x \in m + 1..y - 1
      BY <1>1
    <3> QED  BY <2>1, <2>2, <3>1 DEF Within
  <2>3. CASE text[y - 1] = Quote /\ Within(text, m + 1, y - 2, Blanks)
    <3>1. x = y - 1 \/ x \in m + 1..y - 2
      BY <1>1
    <3> QED  BY <2>1, <2>3, <3>1 DEF Within
  <2> QED  BY <1>1, <2>2, <2>3 DEF ValueAt
<1>2. ~(v < w) /\ ~(w < v)
  BY <1>1
<1>3. v \in Nat /\ w \in Nat
  OBVIOUS
<1> QED  BY <1>2, <1>3

\* A name and its marker in what is left were there in the text, if they are
\* copies; and so was a value, if what is before it is copied.
LEMMA NameBack ==
    ASSUME NEW text, NEW match, NEW out, NEW at, NEW st,
           Scanned(text, match, out, at, st),
           NEW i \in 1..Len(out), NEW m \in i + 1..Len(out), NameAt(out, i, m),
           ~Matched(match, at[i]),
           \A k \in i + 1..m - 1 : st[k] = k => ~Matched(match, at[k])
    PROVE  /\ st[m] = m /\ at[m] \in at[i] + 1..Len(text)
           /\ NameAt(text, at[i], at[m])
<1>1. out[i] = Name /\ Within(out, i + 1, m - 1, Blanks)
  BY DEF NameAt
<1>2. /\ Len(out) \in Nat /\ Len(text) \in Nat /\ i \in Nat /\ m \in Nat /\ m \in 1..Len(out)
      /\ i + 1 \in 1..Len(out) + 1 /\ m \in i + 1..Len(out) + 1
      /\ at[i] \in 1..Len(text) /\ at[m] \in 1..Len(text)
  BY ScannedType
<1>3. st[i] = i /\ at[i + 1] = at[i] + 1 /\ st[i + 1] = i + 1 /\ text[at[i]] = Name
  BY <1>1, Copied
<1>4. /\ st[m] = m /\ at[m] = at[i + 1] + (m - (i + 1))
      /\ \A class : Within(out, i + 1, m - 1, class)
                      => Within(text, at[i + 1], at[m] - 1, class)
  <2>1. st[i + 1] = i + 1
    BY <1>3
  <2> QED  BY <1>2, <2>1, Window
<1>5. Within(text, at[i] + 1, at[m] - 1, Blanks)
  BY <1>1, <1>3, <1>4
<1>6. at[m] \in at[i] + 1..Len(text)
  <2> DEFINE x == at[i]
             y == at[m]
  <2>1. x \in 1..Len(text) /\ y \in 1..Len(text) /\ y = x + 1 + (m - (i + 1))
    BY <1>2, <1>3, <1>4
  <2> HIDE DEF x, y
  <2>2. y \in x + 1..Len(text)
    BY <1>2, <2>1
  <2> QED  BY <2>2 DEF x, y
<1> QED  BY <1>3, <1>4, <1>5, <1>6 DEF NameAt

\* And a value behind it.
LEMMA ValueBack ==
    ASSUME NEW text, NEW match, NEW out, NEW at, NEW st,
           Scanned(text, match, out, at, st),
           NEW m \in 1..Len(out), NEW v \in m + 1..Len(out), ValueAt(out, m, v),
           ~Matched(match, at[m]),
           \A k \in m + 1..v - 1 : st[k] = k => ~Matched(match, at[k]),
           st[v] = v => text[at[v]] \in Values
    PROVE  /\ st[v] = v /\ at[v] \in at[m] + 1..Len(text)
           /\ ValueAt(text, at[m], at[v])
<1>1. /\ v \in 1..Len(out) /\ v \in Nat /\ m \in Nat /\ m + 1 \in 1..Len(out) + 1
      /\ v \in m + 1..Len(out) + 1 /\ v \in m + 1..v /\ Len(text) \in Nat
      /\ at[v] \in 1..Len(text) /\ at[m] \in 1..Len(text)
  BY ScannedType
<1>2. at[m + 1] = at[m] + 1 /\ st[m + 1] = m + 1 /\ text[at[m]] \in {"=", ":"}
  BY Copied DEF ValueAt
<1>3. /\ st[v] = v /\ at[v] = at[m + 1] + (v - (m + 1))
      /\ \A k \in m + 1..v : at[k] = at[m + 1] + (k - (m + 1))
      /\ \A k \in m + 1..v - 1 : out[k] = text[at[k]]
  <2>1. st[m + 1] = m + 1
    BY <1>2
  <2> QED  BY <1>1, <2>1, Window, SMTT(30)
<1> DEFINE x == at[m]
           y == at[v]
<1>4. /\ y = x + (v - m) /\ x \in Nat /\ y \in Nat /\ y \in x + 1..Len(text)
  <2>1. x \in 1..Len(text) /\ y \in 1..Len(text) /\ y = x + 1 + (v - (m + 1))
    BY <1>1, <1>2, <1>3
  <2> HIDE DEF x, y
  <2> QED  BY <1>1, <2>1
<1>5. ASSUME NEW q \in x + 1..y - 1
      PROVE  m + (q - x) \in m + 1..v - 1 /\ text[q] = out[m + (q - x)]
  <2> DEFINE k == m + (q - x)
  <2>1. k \in m + 1..v - 1 /\ k \in m + 1..v /\ x + 1 + (k - (m + 1)) = q
    <3> HIDE DEF x, y
    <3> QED  BY <1>1, <1>4
  <2>2. at[k] = q
    <3>1. at[k] = at[m + 1] + (k - (m + 1))
      <4> HIDE DEF k
      <4> QED  BY <1>3, <2>1
    <3> QED  BY <1>2, <2>1, <3>1
  <2> HIDE DEF k
  <2>3. out[k] = text[q]
    BY <1>3, <2>1, <2>2
  <2> QED  BY <2>1, <2>3 DEF k
<1>6. \/ Within(text, x + 1, y - 1, Blanks)
      \/ text[y - 1] = Quote /\ Within(text, x + 1, y - 2, Blanks)
  <2> HIDE DEF x, y
  <2>1. CASE Within(out, m + 1, v - 1, Blanks)
    BY <1>5, <2>1 DEF Within
  <2>2. CASE out[v - 1] = Quote /\ Within(out, m + 1, v - 2, Blanks)
    <3>1. v - 1 # m
      BY <1>1, <2>2, Classes DEF ValueAt
    <3>2. y - 1 \in x + 1..y - 1 /\ m + ((y - 1) - x) = v - 1
      BY <1>1, <1>4, <3>1
    <3>3. text[y - 1] = Quote
      BY <1>5, <2>2, <3>2
    <3>4. ASSUME NEW q \in x + 1..y - 2 PROVE text[q] \in Blanks
      <4>1. q \in x + 1..y - 1 /\ m + (q - x) \in m + 1..v - 2
        BY <1>1, <1>4
      <4> QED  BY <1>5, <2>2, <4>1 DEF Within
    <3> QED  BY <3>3, <3>4 DEF Within
  <2> QED  BY <2>1, <2>2 DEF ValueAt
<1>7. ValueAt(text, x, y)
  BY <1>2, <1>3, <1>6 DEF ValueAt
<1> QED  BY <1>3, <1>4, <1>7

\* What every assignment looks like once it lost its value.
Assigned(text) ==
    \A i \in 1..Len(text) : \A m \in i + 1..Len(text) :
        NameAt(text, i, m) =>
            /\ text[m] # Sep
            /\ \A v \in m + 1..Len(text) :
                  ValueAt(text, m, v) =>
                      /\ text[v] = Mark
                      /\ v < Len(text) => text[v + 1] \notin Values

\* After the third pass every assignment has lost its value.
LEMMA AssignmentHidden ==
    ASSUME NEW text \in Seq(Everything)
    PROVE  Assigned(PassAssignment(text))
<1> DEFINE match == Assignments(text)
           out == PassAssignment(text)
<1>1. PICK at, st : Scanned(text, match, out, at, st)
  BY AssignmentScanned
<1>2. out \in Seq(Everything)
  BY AssignmentScanned
<1> HIDE DEF out, match
<1>3. SUFFICES ASSUME NEW i \in 1..Len(out), NEW m \in i + 1..Len(out), NameAt(out, i, m),
                      out[m] \in {Sep, "=", ":"}
               PROVE  /\ out[m] # Sep
                      /\ \A v \in m + 1..Len(out) :
                            ValueAt(out, m, v) =>
                                /\ out[v] = Mark
                                /\ v < Len(out) => out[v + 1] \notin Values
  BY DEF Assigned, ValueAt, out
<1>4. /\ out[i] = Name /\ out[m] \notin Blanks
      /\ \A k \in i + 1..m - 1 : out[k] \in Blanks
  BY <1>3, Classes DEF NameAt, Within
<1>5. /\ Len(out) \in Nat /\ Len(text) \in Nat /\ i \in Nat /\ m \in Nat /\ m \in 1..Len(out)
      /\ i + 1 \in 1..Len(out) + 1 /\ m \in i + 1..Len(out) + 1
      /\ at[i] \in 1..Len(text) /\ at[m] \in 1..Len(text)
  BY <1>1, ScannedType
<1>6. CASE Matched(match, at[i])
  <2>1. PICK b \in 1..i, e \in i..Len(out) : \E x \in b + 1..e - 1 :
           /\ LostAt(out, b, x, e)
           /\ at[e + 1] <= Len(text) => text[at[e + 1]] \notin Values
           /\ st[e + 1] = e + 1
    BY <1>1, <1>6, AssignmentBlock DEF match
  <2>2. PICK x \in b + 1..e - 1 : LostAt(out, b, x, e)
    BY <2>1
  <2>3. /\ out[b] = Name /\ \A k \in b + 1..x - 1 : out[k] \in Blanks
        /\ out[x] \in {"=", ":"} /\ out[x] \notin Blanks /\ out[e] = Mark
        /\ ValueAt(out, x, e)
    BY <2>2, Classes DEF LostAt, NameAt, ValueAt, Within
  <2>4. \A k \in x + 1..e : out[k] \in {Space, Quote, Mark}
    <3>1. ASSUME NEW k \in x + 1..e PROVE out[k] \in {Space, Quote, Mark}
      <4>1. k = e \/ k = e - 1 \/ k \in x + 1..e - 2
        BY <1>5
      <4>2. k = e - 1 => k \in x + 1..e - 1
        BY <1>5
      <4>3. CASE Within(out, x + 1, e - 1, Blanks)
        <5>1. k = e \/ k \in x + 1..e - 1
          BY <1>5
        <5> QED  BY <2>3, <4>3, <5>1, Classes DEF Within
      <4>4. CASE out[e - 1] = Quote /\ Within(out, x + 1, e - 2, Blanks)
        BY <2>3, <4>1, <4>4, Classes DEF Within
      <4> QED  BY <2>2, <4>3, <4>4 DEF LostAt
    <3> QED  BY <3>1
  <2>5. i = b
    <3>1. i = b \/ i \in b + 1..x - 1 \/ i = x \/ i \in x + 1..e
      BY <1>5
    <3> QED  BY <1>4, <2>3, <2>4, <3>1, Classes
  <2>6. x = m
    <3>1. x \in i + 1..Len(out) /\ m \in i + 1..Len(out) /\ x \in Nat
      BY <1>5, <2>5
    <3>2. ~(x < m)
      <4>1. x < m => x \in i + 1..m - 1
        BY <1>5, <3>1
      <4> QED  BY <1>4, <2>3, <4>1
    <3>3. ~(m < x)
      <4>1. m < x => m \in b + 1..x - 1
        BY <1>5, <2>5, <3>1
      <4> QED  BY <1>4, <2>3, <4>1
    <3> QED  BY <1>5, <3>1, <3>2, <3>3
  <2>7. ASSUME NEW v \in m + 1..Len(out), ValueAt(out, m, v)
        PROVE  out[v] = Mark /\ (v < Len(out) => out[v + 1] \notin Values)
    <3>1. e \in m + 1..Len(out)
      BY <1>5, <2>6
    <3>2. v = e
      BY <1>2, <1>5, <2>3, <2>6, <2>7, <3>1, OneValue
    <3>3. ASSUME e < Len(out) PROVE out[e + 1] \notin Values
      <4>1. e + 1 \in 1..Len(out)
        BY <1>5, <3>3
      <4>2. at[e + 1] \in 1..Len(text) /\ at[e + 1] <= Len(text)
        BY <1>1, <1>5, <4>1, ScannedType
      <4>3. out[e + 1] = text[at[e + 1]]
        BY <1>1, <2>1, <4>1, AssignmentKept DEF match
      <4> QED  BY <2>1, <4>2, <4>3
    <3> QED  BY <2>3, <3>2, <3>3
  <2>8. out[m] # Sep
    BY <2>3, <2>6, Classes
  <2> QED  BY <2>7, <2>8
<1>7. CASE ~Matched(match, at[i])
  <2>1. \A k \in 1..Len(out) : st[k] = k /\ out[k] # Name => ~Matched(match, at[k])
    BY <1>1, AssignmentKept DEF match
  <2>2. \A k \in i + 1..m - 1 : st[k] = k => ~Matched(match, at[k])
    <3>1. \A k \in i + 1..m - 1 : k \in 1..Len(out) /\ out[k] # Name
      BY <1>4, <1>5, Classes
    <3> QED  BY <2>1, <3>1
  <2>3. st[m] = m /\ at[m] \in at[i] + 1..Len(text) /\ NameAt(text, at[i], at[m])
    BY <1>1, <1>3, <1>7, <2>2, NameBack
  <2>4. text[at[m]] = out[m] /\ ~Matched(match, at[m])
    <3>1. text[at[m]] = out[m]
      BY <1>1, <1>5, <2>3, AssignmentKept DEF match
    <3>2. ~Matched(match, at[m])
      BY <1>3, <1>5, <2>1, <2>3, Classes
    <3> QED  BY <3>1, <3>2
  <2>5. match[at[i]] = MatchAssignment(text, at[i]) /\ ~(match[at[i]].to > at[i])
    BY <1>5, <1>7 DEF match, Assignments, Matched
  <2>6. out[m] # Sep
    BY <1>5, <2>3, <2>4, <2>5, AssignmentMatches
  <2>7. ASSUME NEW v \in m + 1..Len(out), ValueAt(out, m, v) PROVE FALSE
    <3>1. \A k \in m + 1..v - 1 : k \in 1..Len(out) /\ out[k] \in {Space, Quote}
      <4>1. ASSUME NEW k \in m + 1..v - 1 PROVE k \in 1..Len(out) /\ out[k] \in {Space, Quote}
        <5>1. k \in 1..Len(out) /\ (k = v - 1 \/ k \in m + 1..v - 2)
          BY <1>5
        <5> QED  BY <2>7, <5>1, Classes DEF ValueAt, Within
      <4> QED  BY <4>1
    <3>2. \A k \in m + 1..v - 1 : st[k] = k => ~Matched(match, at[k])
      BY <2>1, <3>1, Classes
    <3>3. st[v] = v => text[at[v]] \in Values
      <4>1. v \in 1..Len(out)
        BY <1>5
      <4> QED  BY <1>1, <2>7, <4>1, AssignmentKept DEF match, ValueAt
    <3>4. at[v] \in at[m] + 1..Len(text) /\ ValueAt(text, at[m], at[v])
      BY <1>1, <1>5, <2>4, <2>7, <3>2, <3>3, ValueBack
    <3> QED  BY <1>5, <2>3, <2>5, <3>4, AssignmentMatches
  <2> QED  BY <2>6, <2>7
<1> QED  BY <1>6, <1>7

\* After the fourth no key does.
LEMMA KeyHidden ==
    ASSUME NEW text \in Seq(Everything)
    PROVE  ~KeyShows(PassKeyValue(text))
<1> DEFINE match == Keys(text)
           out == PassKeyValue(text)
<1>1. PICK at, st : Scanned(text, match, out, at, st)
  BY KeyScanned
<1>2. SUFFICES ASSUME NEW i \in 1..Len(out) - 1, out[i] = Prefix, out[i + 1] \in KeyTokens
               PROVE  FALSE
  BY DEF KeyShows
<1> HIDE DEF out, match
<1>3. /\ i \in 1..Len(out) /\ i + 1 \in 1..Len(out)
      /\ at[i] \in 1..Len(text) /\ at[i + 1] \in 1..Len(text) /\ Len(text) \in Nat
  <2>1. Len(out) \in Nat
    BY <1>1, ScannedType
  <2>2. i \in 1..Len(out) /\ i + 1 \in 1..Len(out)
    BY <2>1
  <2> QED  BY <1>1, <2>2, ScannedType
<1>4. ASSUME NEW k \in 1..Len(out), Matched(match, at[k]) PROVE out[k] = Mark
  <2>1. \A q \in 1..Len(text) : Matched(match, q) => match[q].text = <<Mark>>
    BY <1>1, KeyMatches DEF match, Keys, Matched, Scanned
  <2>2. \A q \in 1..Len(text) : Matched(match, q) => Len(match[q].text) = 1 /\ match[q].text[1] = Mark
    <3> DEFINE left == <<Mark>>
    <3>1. Len(left) = 1 /\ left[1] = Mark
      OBVIOUS
    <3> HIDE DEF left
    <3>2. \A q \in 1..Len(text) : Matched(match, q) => match[q].text = left
      BY <2>1 DEF left
    <3> QED  BY <3>1, <3>2
  <2>3. at[k] \in 1..Len(text)
    BY <1>1, ScannedType
  <2>4. out[k] = match[at[k]].text[1]
    BY <1>1, <1>4, <2>2, Spans
  <2> QED  BY <1>4, <2>2, <2>3, <2>4
<1>5. ~Matched(match, at[i]) /\ ~Matched(match, at[i + 1])
  BY <1>2, <1>3, <1>4, Classes
<1>6. at[i + 1] = at[i] + 1 /\ text[at[i]] = Prefix /\ text[at[i + 1]] \in KeyTokens
  BY <1>1, <1>2, <1>3, <1>5, Copied, SMTT(30)
<1>7. at[i] < Len(text) /\ text[at[i] + 1] \in KeyTokens
  BY <1>3, <1>6
<1>8. match[at[i]] = MatchKeyValue(text, at[i])
  BY <1>3 DEF match, Keys
<1> QED  BY <1>3, <1>5, <1>6, <1>7, <1>8, KeyMatches DEF Matched
-----------------------------------------------------------------------------
(* No pass uncovers what an earlier one hid.                               *)

\* What a match leaves, token by token.
LEMMA UserinfoLeft ==
    ASSUME NEW text, NEW out, NEW at, NEW st,
           Scanned(text, Userinfos(text), out, at, st),
           NEW k \in 1..Len(out), Matched(Userinfos(text), at[k])
    PROVE  out[k] \in {Sep, Mark, "@"}
<1> DEFINE b == st[k]
<1>1. /\ b \in 1..k /\ k <= b + 2
      /\ out[b] = Sep /\ out[b + 1] = Mark /\ out[b + 2] = "@"
  BY UserinfoBlock
<1> HIDE DEF b
<1>2. k = b \/ k = b + 1 \/ k = b + 2
  BY <1>1
<1> QED  BY <1>1, <1>2

\* What stands in an assignment that lost its value.
LEMMA LostTokens ==
    ASSUME NEW text, NEW b \in Nat, NEW e \in Nat, NEW m \in b + 1..e - 1,
           LostAt(text, b, m, e)
    PROVE  \A k \in b..e : text[k] \in {Name, Space, "=", ":", Quote, Mark}
<1> SUFFICES ASSUME NEW k \in b..e
             PROVE  text[k] \in {Name, Space, "=", ":", Quote, Mark}
  OBVIOUS
<1>1. /\ text[b] = Name /\ text[m] \in {"=", ":"} /\ text[e] = Mark
      /\ \A l \in b + 1..m - 1 : text[l] = Space
  BY Classes DEF LostAt, NameAt, Within
<1>2. k = b \/ k \in b + 1..m - 1 \/ k = m \/ k \in m + 1..e - 1 \/ k = e
  OBVIOUS
<1>3. ASSUME k \in m + 1..e - 1 PROVE text[k] \in {Space, Quote}
  <2>1. k = e - 1 \/ k \in m + 1..e - 2
    BY <1>3
  <2> QED  BY <1>3, <2>1, Classes DEF LostAt, Within
<1> QED  BY <1>1, <1>2, <1>3

\* A piece of the third pass holds copies, a colon or the placeholder.
LEMMA AssignmentLeft ==
    ASSUME NEW text, NEW out, NEW at, NEW st,
           Scanned(text, Assignments(text), out, at, st),
           NEW k \in 1..Len(out), Matched(Assignments(text), at[k])
    PROVE  out[k] \in {Name, Space, "=", ":", Quote, Mark}
<1>1. PICK b \in 1..k, e \in k..Len(out) : \E m \in b + 1..e - 1 : LostAt(out, b, m, e)
  BY AssignmentBlock
<1>2. PICK m \in b + 1..e - 1 : LostAt(out, b, m, e)
  BY <1>1
<1>3. b \in Nat /\ e \in Nat /\ k \in b..e
  OBVIOUS
<1> QED  BY <1>2, <1>3, LostTokens

\* A piece of the fourth pass is the placeholder.
LEMMA KeyLeft ==
    ASSUME NEW text, NEW out, NEW at, NEW st,
           Scanned(text, Keys(text), out, at, st)
    PROVE  /\ \A q \in 1..Len(text) : Matched(Keys(text), q) =>
                 Len(Keys(text)[q].text) = 1 /\ Keys(text)[q].text[1] = Mark
           /\ \A k \in 1..Len(out) : Matched(Keys(text), at[k]) => out[k] = Mark
<1> DEFINE match == Keys(text)
           left == <<Mark>>
<1>1. Len(left) = 1 /\ left[1] = Mark
  OBVIOUS
<1>2. \A q \in 1..Len(text) : Matched(match, q) => match[q].text = left
  BY KeyMatches DEF Keys, Matched, Scanned
<1> HIDE DEF left
<1>3. \A q \in 1..Len(text) : Matched(match, q) => Len(match[q].text) = 1 /\ match[q].text[1] = Mark
  BY <1>1, <1>2
<1>4. ASSUME NEW k \in 1..Len(out), Matched(match, at[k]) PROVE out[k] = Mark
  <2> HIDE DEF match
  <2>1. at[k] \in 1..Len(text)
    BY ScannedType DEF match
  <2>2. out[k] = match[at[k]].text[1]
    BY <1>3, <1>4, Spans DEF match
  <2> QED  BY <1>3, <1>4, <2>1, <2>2
<1> QED  BY <1>3, <1>4

\* A bearer token in what is left was one in the text, if the word and the
\* blanks are copies.
LEMMA BearerBack ==
    ASSUME NEW text, NEW match, NEW out, NEW at, NEW st,
           Scanned(text, match, out, at, st),
           NEW i \in 1..Len(out), NEW j \in 1..Len(out), BearerAt(out, i, j),
           ~Matched(match, at[i]),
           \A k \in i + 1..j - 1 : st[k] = k => ~Matched(match, at[k]),
           st[j] = j => text[at[j]] = out[j]
    PROVE  BearerShows(text)
<1>1. /\ out[i] = Bearer /\ i + 1 < j /\ out[j] \in BearerTokens
      /\ Within(out, i + 1, j - 1, Blanks)
  BY DEF BearerAt
<1>2. /\ Len(out) \in Nat /\ Len(text) \in Nat /\ i \in Nat /\ j \in Nat
      /\ i + 1 \in 1..Len(out) + 1 /\ j \in i + 1..Len(out) + 1
      /\ at[i] \in 1..Len(text) /\ at[j] \in 1..Len(text)
      /\ text \in Seq(Everything)
  BY <1>1, ScannedType
<1>3. st[i] = i /\ at[i + 1] = at[i] + 1 /\ st[i + 1] = i + 1 /\ text[at[i]] = Bearer
  BY <1>1, Copied
<1>4. /\ st[j] = j /\ at[j] = at[i + 1] + (j - (i + 1))
      /\ \A class : Within(out, i + 1, j - 1, class)
                      => Within(text, at[i + 1], at[j] - 1, class)
  <2>1. st[i + 1] = i + 1
    BY <1>3
  <2> QED  BY <1>2, <2>1, Window
<1>5. Within(text, at[i] + 1, at[j] - 1, Blanks) /\ text[at[j]] \in BearerTokens
  BY <1>1, <1>3, <1>4
<1>6. at[i] + 1 < at[j]
  <2>1. at[j] = at[i] + 1 + (j - (i + 1)) /\ at[i] \in Nat /\ at[j] \in Nat
    BY <1>2, <1>3, <1>4, SMTT(30)
  <2> QED  BY <1>1, <1>2, <2>1
<1> QED  BY <1>2, <1>3, <1>5, <1>6 DEF BearerShows

\* No later pass uncovers a bearer token.
LEMMA BearerStaysHidden ==
    ASSUME NEW text \in Seq(Everything), ~BearerShows(text)
    PROVE  /\ ~BearerShows(PassUrlUserinfo(text))
           /\ ~BearerShows(PassAssignment(text))
           /\ ~BearerShows(PassKeyValue(text))
<1>1. ~BearerShows(PassUrlUserinfo(text))
  <2> DEFINE out == PassUrlUserinfo(text)
  <2>1. PICK at, st : Scanned(text, Userinfos(text), out, at, st)
    BY UserinfoScanned
  <2>2. DOMAIN out = 1..Len(out)
    BY UserinfoScanned
  <2> SUFFICES ASSUME NEW i \in 1..Len(out), NEW j \in 1..Len(out), BearerAt(out, i, j)
               PROVE  FALSE
    BY <2>2 DEF BearerShows, BearerAt
  <2> HIDE DEF out
  <2>3. \A k \in 1..Len(out) : out[k] \in BearerTokens \cup {Space} => ~Matched(Userinfos(text), at[k])
    BY <2>1, UserinfoLeft, Classes
  <2>4. /\ \A k \in i + 1..j - 1 : k \in 1..Len(out) /\ out[k] = Space
        /\ out[i] \in BearerTokens /\ out[j] \in BearerTokens
    BY <2>1, ScannedType, Classes DEF BearerAt, Within
  <2>5. text[at[j]] = out[j]
    BY <2>1, <2>3, <2>4, Copied
  <2> QED  BY <2>1, <2>3, <2>4, <2>5, BearerBack
<1>2. ~BearerShows(PassAssignment(text))
  <2> DEFINE out == PassAssignment(text)
  <2>1. PICK at, st : Scanned(text, Assignments(text), out, at, st)
    BY AssignmentScanned
  <2>2. DOMAIN out = 1..Len(out)
    BY AssignmentScanned
  <2> SUFFICES ASSUME NEW i \in 1..Len(out), NEW j \in 1..Len(out), BearerAt(out, i, j)
               PROVE  FALSE
    BY <2>2 DEF BearerShows, BearerAt
  <2> HIDE DEF out
  <2>3. /\ \A k \in i + 1..j - 1 : k \in 1..Len(out) /\ out[k] = Space
        /\ out[i] = Bearer
    BY <2>1, ScannedType, Classes DEF BearerAt, Within
  <2>4. ~Matched(Assignments(text), at[i])
    <3>1. out[i] \notin {Name, Space, "=", ":", Quote, Mark}
      BY <2>3, Classes
    <3> QED  BY <2>1, <3>1, AssignmentLeft
  <2>5. \A k \in i + 1..j - 1 : st[k] = k => ~Matched(Assignments(text), at[k])
    BY <2>1, <2>3, AssignmentKept, Classes
  <2>6. st[j] = j => text[at[j]] = out[j]
    BY <2>1, AssignmentKept
  <2> QED  BY <2>1, <2>4, <2>5, <2>6, BearerBack
<1>3. ~BearerShows(PassKeyValue(text))
  <2> DEFINE out == PassKeyValue(text)
  <2>1. PICK at, st : Scanned(text, Keys(text), out, at, st)
    BY KeyScanned
  <2>2. DOMAIN out = 1..Len(out)
    BY KeyScanned
  <2> SUFFICES ASSUME NEW i \in 1..Len(out), NEW j \in 1..Len(out), BearerAt(out, i, j)
               PROVE  FALSE
    BY <2>2 DEF BearerShows, BearerAt
  <2> HIDE DEF out
  <2>3. \A k \in 1..Len(out) : out[k] # Mark => ~Matched(Keys(text), at[k])
    BY <2>1, KeyLeft
  <2>4. /\ \A k \in i + 1..j - 1 : k \in 1..Len(out) /\ out[k] # Mark
        /\ out[i] # Mark /\ out[j] # Mark
    BY <2>1, ScannedType, Classes DEF BearerAt, Within
  <2>5. text[at[j]] = out[j]
    BY <2>1, <2>3, <2>4, Copied
  <2> QED  BY <2>1, <2>3, <2>4, <2>5, BearerBack
<1> QED  BY <1>1, <1>2, <1>3

\* But where an assignment lost its value, no user information shows.
Excused(text) ==
    \A i, j \in DOMAIN text : UserinfoAt(text, i, j) => ValueLost(text, i + 1, j - 1)

\* User information in what is left was some in the text, if all of it are
\* copies.
LEMMA UserinfoBack ==
    ASSUME NEW text, NEW match, NEW out, NEW at, NEW st,
           Scanned(text, match, out, at, st),
           NEW i \in 1..Len(out), NEW j \in 1..Len(out), UserinfoAt(out, i, j),
           ~Matched(match, at[i - 1]), ~Matched(match, at[i]),
           \A k \in i + 1..j : st[k] = k => ~Matched(match, at[k])
    PROVE  /\ at[i] \in 1..Len(text) /\ at[j] \in 1..Len(text)
           /\ UserinfoAt(text, at[i], at[j])
           /\ at[j] = at[i] + (j - i)
           /\ \A k \in i + 1..j - 1 : out[k] = text[at[i] + (k - i)]
<1>1. /\ 1 < i /\ out[i - 1] \in SchemeEnds /\ out[i] = Sep
      /\ i + 1 < j /\ out[j] = "@"
      /\ ~(j = i + 2 /\ out[i + 1] = Mark)
      /\ Within(out, i + 1, j - 1, Userinfo)
  BY DEF UserinfoAt
<1>2. /\ Len(out) \in Nat /\ Len(text) \in Nat /\ i \in Nat /\ j \in Nat
      /\ i - 1 \in 1..Len(out) /\ (i - 1) + 1 = i
      /\ i + 1 \in 1..Len(out) + 1 /\ j \in i + 1..Len(out) + 1 /\ j \in i + 1..j
      /\ at[i] \in 1..Len(text) /\ at[j] \in 1..Len(text) /\ at[i - 1] \in 1..Len(text)
      /\ \A k \in i + 1..j - 1 : k \in i + 1..j
  BY <1>1, ScannedType
<1>3. st[i] = i /\ at[i + 1] = at[i] + 1 /\ st[i + 1] = i + 1 /\ text[at[i]] = Sep
  BY <1>1, Copied
<1>4. at[i] = at[i - 1] + 1 /\ text[at[i - 1]] \in SchemeEnds
  BY <1>1, <1>2, Copied, SMTT(30)
<1>5. /\ st[j] = j /\ at[j] = at[i + 1] + (j - (i + 1))
      /\ \A k \in i + 1..j : st[k] = k /\ at[k] = at[i + 1] + (k - (i + 1))
      /\ \A k \in i + 1..j - 1 : out[k] = text[at[k]]
      /\ \A class : Within(out, i + 1, j - 1, class)
                      => Within(text, at[i + 1], at[j] - 1, class)
  <2>1. st[i + 1] = i + 1
    BY <1>3
  <2>2. \A k \in i + 1..j - 1 : st[k] = k => ~Matched(match, at[k])
    BY <1>2
  <2> QED  BY <1>2, <2>1, <2>2, Window, SMTT(30)
<1>6. Within(text, at[i] + 1, at[j] - 1, Userinfo) /\ text[at[j]] = "@"
  <2>1. text[at[j]] = out[j]
    BY <1>2, <1>5, Copied, SMTT(30)
  <2> QED  BY <1>1, <1>3, <1>5, <2>1
<1> DEFINE x == at[i]
           y == at[j]
           z == at[i - 1]
<1>7. /\ x \in Nat /\ y \in Nat /\ z \in Nat /\ z >= 1 /\ y = x + 1 + (j - (i + 1))
      /\ x = z + 1
  <2>1. x \in 1..Len(text) /\ y \in 1..Len(text) /\ z \in 1..Len(text)
    BY <1>2
  <2>2. y = at[i + 1] + (j - (i + 1)) /\ at[i + 1] = x + 1 /\ x = z + 1
    BY <1>3, <1>4, <1>5
  <2> HIDE DEF x, y, z
  <2>3. x \in Nat /\ y \in Nat /\ z \in Nat /\ z >= 1
    BY <2>1
  <2> QED  BY <2>2, <2>3
<1>8. y = x + (j - i) /\ x - 1 = z /\ 1 < x /\ x + 1 < y /\ (y = x + 2 => j = i + 2)
  <2> HIDE DEF x, y, z
  <2> QED  BY <1>1, <1>2, <1>7
<1>9. ASSUME NEW k \in i + 1..j - 1 PROVE out[k] = text[x + (k - i)]
  <2>1. out[k] = text[at[k]] /\ at[k] = x + 1 + (k - (i + 1))
    BY <1>2, <1>3, <1>5
  <2>2. x + 1 + (k - (i + 1)) = x + (k - i)
    <3>1. x \in Nat
      BY <1>7
    <3> HIDE DEF x
    <3> QED  BY <1>2, <3>1
  <2> QED  BY <2>1, <2>2
<1>10. ~(y = x + 2 /\ text[x + 1] = Mark)
  <2>1. SUFFICES ASSUME y = x + 2, text[x + 1] = Mark PROVE FALSE
    OBVIOUS
  <2>2. j = i + 2 /\ i + 1 \in i + 1..j - 1 /\ (i + 1) - i = 1
    <3> HIDE DEF x, y
    <3> QED  BY <1>2, <1>8, <2>1
  <2>3. out[i + 1] = text[x + 1]
    <3> HIDE DEF x
    <3> QED  BY <1>9, <2>2
  <2> QED  BY <1>1, <2>1, <2>2, <2>3
<1>11. UserinfoAt(text, x, y)
  BY <1>3, <1>4, <1>6, <1>8, <1>10 DEF UserinfoAt
<1> QED  BY <1>2, <1>8, <1>9, <1>11

\* The third pass leaves no other.
LEMMA UserinfoExcused ==
    ASSUME NEW text \in Seq(Everything), ~UserinfoShows(text)
    PROVE  Excused(PassAssignment(text))
<1> DEFINE match == Assignments(text)
           out == PassAssignment(text)
<1>1. PICK at, st : Scanned(text, match, out, at, st)
  BY AssignmentScanned
<1>2. DOMAIN out = 1..Len(out) /\ Len(out) \in Nat
  BY AssignmentScanned
<1>3. SUFFICES ASSUME NEW i \in 1..Len(out), NEW j \in 1..Len(out), UserinfoAt(out, i, j),
                      ~ValueLost(out, i + 1, j - 1)
               PROVE  FALSE
  BY <1>2 DEF Excused
<1> HIDE DEF out, match
<1>4. /\ 1 < i /\ out[i - 1] \in SchemeEnds /\ out[i] = Sep
      /\ i + 1 < j /\ out[j] = "@"
      /\ \A k \in i + 1..j - 1 : out[k] \in Userinfo
  BY <1>3 DEF UserinfoAt, Within
<1>5. /\ i \in Nat /\ j \in Nat /\ i - 1 \in 1..Len(out) /\ (i - 1) + 1 = i
  BY <1>2, <1>4
<1>6. ~Matched(match, at[i])
  <2>1. out[i] \notin {Name, Space, "=", ":", Quote, Mark}
    BY <1>4, Classes
  <2> QED  BY <1>1, <2>1, AssignmentLeft DEF match
<1>7. st[i] = i
  BY <1>1, <1>6, Copied
<1>8. ~Matched(match, at[i - 1])
  <2>1. SUFFICES ASSUME Matched(match, at[i - 1]) PROVE FALSE
    OBVIOUS
  <2> DEFINE h == i - 1
  <2>2. PICK b \in 1..h, e \in h..Len(out) : \E m \in b + 1..e - 1 :
           LostAt(out, b, m, e) /\ \A l \in b..e : st[l] = b
    <3>1. h \in 1..Len(out) /\ Matched(match, at[h])
      BY <1>5, <2>1
    <3> HIDE DEF h
    <3> QED  BY <1>1, <3>1, AssignmentBlock DEF match
  <2>3. e = h
    <3>1. SUFFICES ASSUME e # h PROVE FALSE
      OBVIOUS
    <3>2. i \in b..e /\ b < i
      BY <1>5, <3>1
    <3> QED  BY <1>5, <1>7, <2>2, <3>2
  <2>4. out[e] = Mark
    BY <2>2 DEF LostAt
  <2> QED  BY <1>4, <2>3, <2>4, Classes
<1>9. ASSUME NEW k \in i + 1..j - 1, st[k] = k PROVE ~Matched(match, at[k])
  <2>1. SUFFICES ASSUME Matched(match, at[k]) PROVE FALSE
    OBVIOUS
  <2>2. k \in 1..Len(out) /\ k \in Nat
    BY <1>2, <1>5
  <2>3. PICK b \in 1..k, e \in k..Len(out) : \E m \in b + 1..e - 1 :
           b = k /\ LostAt(out, b, m, e)
    BY <1>1, <1>9, <2>1, <2>2, AssignmentBlock DEF match
  <2>4. PICK m \in b + 1..e - 1 : LostAt(out, b, m, e)
    BY <2>3
  <2>5. b \in Nat /\ e \in Nat /\ m \in Nat /\ b = k
    BY <2>2, <2>3
  <2>6. e < j
    <3>1. SUFFICES ASSUME ~(e < j) PROVE FALSE
      OBVIOUS
    <3>2. j \in b..e
      BY <1>5, <2>5, <3>1
    <3>3. out[j] \in {Name, Space, "=", ":", Quote, Mark}
      BY <2>4, <2>5, <3>2, LostTokens
    <3> QED  BY <1>4, <3>3, Classes
  <2>7. \A l \in b..e : out[l] # Space
    <3>1. \A l \in b..e : l \in i + 1..j - 1
      BY <1>5, <2>5, <2>6
    <3> QED  BY <1>4, <3>1, Classes
  <2>8. out[m] \in {"=", ":"} /\ out[e] = Mark
    BY <2>4 DEF LostAt
  <2>9. e = m + 1 \/ (e = m + 2 /\ out[m + 1] = Quote)
    <3>1. CASE Within(out, m + 1, e - 1, Blanks)
      <4>1. SUFFICES ASSUME e # m + 1 PROVE FALSE
        OBVIOUS
      <4>2. m + 1 \in m + 1..e - 1 /\ m + 1 \in b..e
        BY <2>5, <4>1
      <4> QED  BY <2>7, <3>1, <4>2, Classes DEF Within
    <3>2. CASE out[e - 1] = Quote /\ Within(out, m + 1, e - 2, Blanks)
      <4>1. e - 1 # m
        BY <2>8, <3>2, Classes
      <4>2. SUFFICES ASSUME e # m + 2 PROVE FALSE
        <5>1. e = m + 2 => e - 1 = m + 1
          BY <2>5
        <5> QED  BY <3>2, <5>1
      <4>3. m + 1 \in m + 1..e - 2 /\ m + 1 \in b..e
        BY <2>5, <4>1, <4>2
      <4> QED  BY <2>7, <3>2, <4>3, Classes DEF Within
    <3> QED  BY <2>4, <3>1, <3>2 DEF LostAt
  <2>10. m \in i + 1..(j - 1) - 1 /\ (e = m + 2 => m + 2 <= j - 1)
    BY <1>5, <2>5, <2>6
  <2>11. ValueLost(out, i + 1, j - 1)
    BY <2>8, <2>9, <2>10 DEF ValueLost
  <2> QED  BY <1>3, <2>11
<1>10. \A k \in i + 1..j : st[k] = k => ~Matched(match, at[k])
  <2>1. ~Matched(match, at[j])
    <3>1. out[j] \notin {Name, Space, "=", ":", Quote, Mark}
      BY <1>4, Classes
    <3> QED  BY <1>1, <3>1, AssignmentLeft DEF match
  <2>2. \A k \in i + 1..j : k = j \/ k \in i + 1..j - 1
    BY <1>5
  <2> QED  BY <1>9, <2>1, <2>2
<1>11. at[i] \in 1..Len(text) /\ at[j] \in 1..Len(text) /\ UserinfoAt(text, at[i], at[j])
  BY <1>1, <1>3, <1>6, <1>8, <1>10, UserinfoBack
<1>12. DOMAIN text = 1..Len(text)
  OBVIOUS
<1> QED  BY <1>11, <1>12 DEF UserinfoShows
\* The fourth pass, place by place.
LEMMA KeySteps ==
    ASSUME NEW text, NEW out, NEW at, NEW st,
           Scanned(text, Keys(text), out, at, st)
    PROVE  /\ \A k \in 1..Len(out) + 1 : st[k] = k
           /\ \A k \in 1..Len(out) :
                 IF Matched(Keys(text), at[k])
                   THEN /\ text[at[k]] = Prefix /\ out[k] = Mark
                        /\ Within(text, at[k], at[k + 1] - 1, KeyTokens)
                   ELSE out[k] = text[at[k]] /\ at[k + 1] = at[k] + 1
           /\ \A i \in 1..Len(out) + 1 : \A j \in i..Len(out) + 1 :
                 /\ at[j] >= at[i] + (j - i)
                 /\ \A q \in at[i]..at[j] - 1 : \E k \in i..j - 1 : at[k] <= q /\ q < at[k + 1]
<1> DEFINE match == Keys(text)
<1>1. \A q \in 1..Len(text) : Matched(match, q) => Len(match[q].text) = 1
  BY KeyLeft
<1>2. /\ \A k \in 1..Len(out) + 1 : st[k] = k
      /\ \A k \in 1..Len(out) : Matched(match, at[k]) => at[k + 1] = match[at[k]].to
      /\ \A i \in 1..Len(out) + 1 : \A j \in i..Len(out) + 1 :
            /\ at[j] >= at[i] + (j - i)
            /\ \A q \in at[i]..at[j] - 1 : \E k \in i..j - 1 : at[k] <= q /\ q < at[k + 1]
  <2> HIDE DEF match
  <2> QED  BY <1>1, Spans DEF match
<1>3. ASSUME NEW k \in 1..Len(out), Matched(match, at[k])
      PROVE  /\ text[at[k]] = Prefix /\ out[k] = Mark
             /\ Within(text, at[k], at[k + 1] - 1, KeyTokens)
  <2>1. at[k] \in 1..Len(text) /\ text \in Seq(Everything)
    BY ScannedType
  <2>2. match[at[k]] = MatchKeyValue(text, at[k])
    BY <2>1 DEF Keys
  <2>3. text[at[k]] = Prefix /\ Within(text, at[k], match[at[k]].to - 1, KeyTokens)
    <3> HIDE DEF match
    <3> QED  BY <1>3, <2>1, <2>2, KeyMatches DEF Matched
  <2>4. out[k] = Mark
    BY <1>3, KeyLeft
  <2> QED  BY <1>2, <1>3, <2>3, <2>4
<1>4. \A k \in 1..Len(out) : ~Matched(match, at[k]) => out[k] = text[at[k]] /\ at[k + 1] = at[k] + 1
  BY Copied
<1> QED  BY <1>2, <1>3, <1>4

\* The fourth pass leaves the excuses where they are.
LEMMA UserinfoStaysExcused ==
    ASSUME NEW text \in Seq(Everything), Excused(text)
    PROVE  Excused(PassKeyValue(text))
<1> DEFINE match == Keys(text)
           out == PassKeyValue(text)
<1>1. PICK at, st : Scanned(text, match, out, at, st)
  BY KeyScanned
<1>2. DOMAIN out = 1..Len(out) /\ Len(out) \in Nat
  BY KeyScanned
<1>3. SUFFICES ASSUME NEW i \in 1..Len(out), NEW j \in 1..Len(out), UserinfoAt(out, i, j)
               PROVE  ValueLost(out, i + 1, j - 1)
  BY <1>2 DEF Excused
<1> HIDE DEF out, match
<1>4. /\ 1 < i /\ out[i - 1] \in SchemeEnds /\ out[i] = Sep
      /\ i + 1 < j /\ out[j] = "@"
      /\ \A k \in i + 1..j - 1 : out[k] \in Userinfo
      /\ ~(j = i + 2 /\ out[i + 1] = Mark)
  BY <1>3 DEF UserinfoAt, Within
<1>5. /\ Len(text) \in Nat /\ i \in Nat /\ j \in Nat /\ text \in Seq(Everything)
      /\ i - 1 \in 1..Len(out) /\ (i - 1) + 1 = i
      /\ i + 1 \in 1..Len(out) /\ i + 1 \in 1..Len(out) + 1 /\ j \in i + 1..Len(out) + 1
      /\ at[i] \in 1..Len(text) /\ at[j] \in 1..Len(text) /\ at[i - 1] \in 1..Len(text)
  BY <1>1, <1>2, <1>4, ScannedType
<1>6. \A k \in 1..Len(out) :
         /\ Matched(match, at[k]) => /\ text[at[k]] = Prefix /\ out[k] = Mark
                                     /\ Within(text, at[k], at[k + 1] - 1, KeyTokens)
         /\ ~Matched(match, at[k]) => out[k] = text[at[k]] /\ at[k + 1] = at[k] + 1
  BY <1>1, KeySteps DEF match
<1>7. \A k \in 1..Len(out) : out[k] # Mark \/ text[at[k]] # Prefix
                               => out[k] = text[at[k]] /\ at[k + 1] = at[k] + 1
  BY <1>6
<1>8. /\ text[at[i]] = Sep /\ at[i + 1] = at[i] + 1
      /\ text[at[i - 1]] \in SchemeEnds /\ at[i] = at[i - 1] + 1
      /\ text[at[j]] = "@"
  BY <1>4, <1>5, <1>7, Classes
<1>9. /\ at[j] >= at[i + 1] + (j - (i + 1))
      /\ \A q \in at[i + 1]..at[j] - 1 : \E k \in i + 1..j - 1 : at[k] <= q /\ q < at[k + 1]
  BY <1>1, <1>5, KeySteps DEF match
<1> DEFINE x == at[i]
           y == at[j]
           z == at[i - 1]
<1>10. /\ x \in Nat /\ y \in Nat /\ x - 1 = z /\ 1 < x /\ x + 1 < y
       /\ y = x + 2 => j = i + 2
  <2>1. x \in 1..Len(text) /\ y \in 1..Len(text) /\ z \in 1..Len(text)
    BY <1>5
  <2>2. y >= x + 1 + (j - (i + 1)) /\ x = z + 1
    BY <1>8, <1>9
  <2> HIDE DEF x, y, z
  <2> QED  BY <1>4, <1>5, <2>1, <2>2
<1>11. ASSUME NEW q \in x + 1..y - 1
       PROVE  /\ text[q] \in Userinfo
              /\ text[q] \notin KeyTokens => \E k \in i + 1..j - 1 : at[k] = q
  <2>1. PICK k \in i + 1..j - 1 : at[k] <= q /\ q < at[k + 1]
    BY <1>8, <1>9
  <2>2. k \in 1..Len(out) /\ k \in 1..Len(out) + 1 /\ k + 1 \in 1..Len(out) + 1
    BY <1>2, <1>5
  <2>3. at[k] \in Nat /\ at[k + 1] \in Nat /\ q \in Nat
    BY <1>1, <1>10, <2>2, ScannedType, SMTT(30)
  <2>4. CASE Matched(match, at[k])
    <3>1. q \in at[k]..at[k + 1] - 1
      BY <2>1, <2>3
    <3>2. text[q] \in KeyTokens
      BY <1>6, <2>2, <2>4, <3>1 DEF Within
    <3> QED  BY <3>2, Classes
  <2>5. CASE ~Matched(match, at[k])
    <3>1. at[k] = q
      BY <1>6, <2>1, <2>2, <2>3, <2>5
    <3> QED  BY <1>4, <1>6, <2>1, <2>2, <2>5, <3>1
  <2> QED  BY <2>4, <2>5
<1>12. ~(y = x + 2 /\ text[x + 1] = Mark)
  <2>1. SUFFICES ASSUME y = x + 2, text[x + 1] = Mark PROVE FALSE
    OBVIOUS
  <2>2. j = i + 2 /\ text[at[i + 1]] = Mark
    BY <1>8, <1>10, <2>1
  <2>3. out[i + 1] = Mark
    BY <1>5, <1>7, <2>2, Classes
  <2> QED  BY <1>4, <2>2, <2>3
<1>13. UserinfoAt(text, x, y)
  <2>1. Within(text, x + 1, y - 1, Userinfo)
    BY <1>11 DEF Within
  <2> HIDE DEF x, y
  <2>2. text[x - 1] \in SchemeEnds /\ text[x] = Sep /\ text[y] = "@"
    BY <1>8, <1>10 DEF x, y
  <2> QED  BY <1>10, <1>12, <2>1, <2>2 DEF UserinfoAt
<1>14. ValueLost(text, x + 1, y - 1)
  <2>1. x \in DOMAIN text /\ y \in DOMAIN text
    BY <1>5
  <2> HIDE DEF x, y
  <2> QED  BY <1>13, <2>1 DEF Excused
<1>15. PICK m \in x + 1..(y - 1) - 1 :
          /\ text[m] \in {"=", ":"}
          /\ \/ text[m + 1] = Mark
             \/ m + 2 <= y - 1 /\ text[m + 1] = Quote /\ text[m + 2] = Mark
  BY <1>14 DEF ValueLost
<1>16. PICK k \in i + 1..j - 1 : at[k] = m
  <2>1. m \in x + 1..y - 1
    <3> HIDE DEF x, y
    <3> QED  BY <1>10
  <2>2. text[m] \notin KeyTokens
    BY <1>15, Classes
  <2> QED  BY <1>11, <2>1, <2>2
\* What follows a copy inside the window follows it still.
<1>17. ASSUME NEW l \in i + 1..j - 1, text[at[l]] # Prefix, at[l] + 1 < y
       PROVE  l + 1 \in i + 1..j - 1 /\ at[l + 1] = at[l] + 1 /\ out[l] = text[at[l]]
  <2>1. l \in 1..Len(out) /\ l + 1 \in i + 1..j /\ l \in Nat
    BY <1>2, <1>5
  <2>2. at[l + 1] = at[l] + 1 /\ out[l] = text[at[l]]
    BY <1>7, <1>17, <2>1
  <2>3. l + 1 # j
    <3>1. at[l] \in Nat /\ at[l] + 1 # y
      BY <1>1, <1>10, <1>17, <2>1, ScannedType, SMTT(30)
    <3> QED  BY <2>2, <3>1
  <2> QED  BY <1>5, <2>1, <2>2, <2>3, SMTT(30)
<1>18. /\ k + 1 \in i + 1..j - 1 /\ at[k + 1] = m + 1 /\ out[k] = text[m]
       /\ k \in Nat /\ m \in Nat /\ m + 1 < y
  <2>1. m + 1 < y /\ m \in Nat /\ k \in Nat
    <3> HIDE DEF x, y
    <3> QED  BY <1>5, <1>10
  <2>2. text[at[k]] # Prefix
    BY <1>15, <1>16, Classes
  <2> QED  BY <1>16, <1>17, <2>1, <2>2
<1>19. k \in i + 1..(j - 1) - 1 /\ k + 1 \in 1..Len(out)
  <2>1. k \in i + 1..j - 1 /\ k + 1 \in i + 1..j - 1 /\ k \in Nat
    BY <1>18
  <2> QED  BY <1>2, <1>5, <2>1
<1>20. CASE text[m + 1] = Mark
  <2>1. out[k + 1] = Mark
    BY <1>7, <1>18, <1>19, <1>20, Classes
  <2> QED  BY <1>15, <1>18, <1>19, <2>1 DEF ValueLost
<1>21. CASE m + 2 <= y - 1 /\ text[m + 1] = Quote /\ text[m + 2] = Mark
  <2>1. at[k + 1] + 1 < y /\ (m + 1) + 1 = m + 2
    <3>1. y \in Nat
      BY <1>10
    <3> HIDE DEF y
    <3> QED  BY <1>18, <1>21, <3>1, SMTT(30)
  <2>2. (k + 1) + 1 \in i + 1..j - 1 /\ at[(k + 1) + 1] = m + 2 /\ out[k + 1] = Quote
    <3>1. text[at[k + 1]] = Quote /\ Quote # Prefix
      BY <1>18, <1>21, Classes
    <3> QED  BY <1>17, <1>18, <2>1, <3>1
  <2>3. k + 2 \in 1..Len(out) /\ k + 2 <= j - 1 /\ (k + 1) + 1 = k + 2
    BY <1>2, <1>5, <1>18, <2>2
  <2>4. out[k + 2] = Mark
    BY <1>7, <1>21, <2>2, <2>3, Classes
  <2> QED  BY <1>15, <1>18, <1>19, <2>2, <2>3, <2>4 DEF ValueLost
<1> QED  BY <1>15, <1>20, <1>21

\* The fourth pass leaves assignments as the third left them.
LEMMA AssignmentStaysHidden ==
    ASSUME NEW text \in Seq(Everything), Assigned(text)
    PROVE  Assigned(PassKeyValue(text))
<1> DEFINE match == Keys(text)
           out == PassKeyValue(text)
<1>1. PICK at, st : Scanned(text, match, out, at, st)
  BY KeyScanned
<1> HIDE DEF out, match
<1>2. SUFFICES ASSUME NEW i \in 1..Len(out), NEW m \in i + 1..Len(out), NameAt(out, i, m)
               PROVE  /\ out[m] # Sep
                      /\ \A v \in m + 1..Len(out) :
                            ValueAt(out, m, v) =>
                                /\ out[v] = Mark
                                /\ v < Len(out) => out[v + 1] \notin Values
  BY DEF Assigned, out
<1>3. /\ Len(out) \in Nat /\ Len(text) \in Nat /\ i \in Nat /\ m \in Nat /\ m \in 1..Len(out)
      /\ at[i] \in 1..Len(text) /\ at[m] \in 1..Len(text)
  BY <1>1, ScannedType
<1>4. /\ \A k \in 1..Len(out) + 1 : st[k] = k
      /\ \A k \in 1..Len(out) :
            /\ Matched(match, at[k]) => text[at[k]] = Prefix /\ out[k] = Mark
            /\ ~Matched(match, at[k]) => out[k] = text[at[k]] /\ at[k + 1] = at[k] + 1
  <2>1. /\ \A k \in 1..Len(out) + 1 : st[k] = k
        /\ \A k \in 1..Len(out) :
              IF Matched(match, at[k])
                THEN /\ text[at[k]] = Prefix /\ out[k] = Mark
                     /\ Within(text, at[k], at[k + 1] - 1, KeyTokens)
                ELSE out[k] = text[at[k]] /\ at[k + 1] = at[k] + 1
        /\ \A k \in 1..Len(out) + 1 : \A q \in k..Len(out) + 1 :
              /\ at[q] >= at[k] + (q - k)
              /\ \A r \in at[k]..at[q] - 1 : \E l \in k..q - 1 : at[l] <= r /\ r < at[l + 1]
    BY <1>1, KeySteps DEF match
  <2> QED  BY <2>1
<1>5. /\ at[m] \in at[i] + 1..Len(text) /\ NameAt(text, at[i], at[m])
  <2>1. /\ out[i] = Name /\ \A k \in i + 1..m - 1 : k \in 1..Len(out) /\ out[k] = Space
    BY <1>2, <1>3, Classes DEF NameAt, Within
  <2>2. ~Matched(match, at[i])
    BY <1>4, <2>1, Classes
  <2>3. \A k \in i + 1..m - 1 : st[k] = k => ~Matched(match, at[k])
    BY <1>4, <2>1, Classes
  <2> QED  BY <1>1, <1>2, <2>2, <2>3, NameBack
<1>6. /\ text[at[m]] # Sep
      /\ \A v \in at[m] + 1..Len(text) :
            ValueAt(text, at[m], v) =>
                /\ text[v] = Mark
                /\ v < Len(text) => text[v + 1] \notin Values
  BY <1>3, <1>5 DEF Assigned
<1>7. out[m] # Sep
  BY <1>3, <1>4, <1>6, Classes
<1>8. ASSUME NEW v \in m + 1..Len(out), ValueAt(out, m, v)
      PROVE  out[v] = Mark /\ (v < Len(out) => out[v + 1] \notin Values)
  <2>1. v \in 1..Len(out) /\ v \in Nat /\ at[v] \in 1..Len(text)
    BY <1>1, <1>3, ScannedType
  <2>2. ~Matched(match, at[m])
    BY <1>3, <1>4, <1>8, Classes DEF ValueAt
  <2>3. \A k \in m + 1..v - 1 : st[k] = k => ~Matched(match, at[k])
    <3>1. ASSUME NEW k \in m + 1..v - 1 PROVE k \in 1..Len(out) /\ out[k] \in {Space, Quote}
      <4>1. k \in 1..Len(out) /\ (k = v - 1 \/ k \in m + 1..v - 2)
        BY <1>3
      <4> QED  BY <1>8, <4>1, Classes DEF ValueAt, Within
    <3> QED  BY <1>4, <3>1, Classes
  <2>4. text[at[v]] \in Values
    BY <1>4, <1>8, <2>1, Classes DEF ValueAt
  <2>5. at[v] \in at[m] + 1..Len(text) /\ ValueAt(text, at[m], at[v])
    BY <1>1, <1>3, <1>8, <2>2, <2>3, <2>4, ValueBack
  <2>6. text[at[v]] = Mark /\ (at[v] < Len(text) => text[at[v] + 1] \notin Values)
    BY <1>6, <2>5
  <2>7. out[v] = Mark /\ at[v + 1] = at[v] + 1
    BY <1>4, <2>1, <2>6, Classes
  <2>8. ASSUME v < Len(out) PROVE out[v + 1] \notin Values
    <3>1. v + 1 \in 1..Len(out)
      BY <1>3, <2>1, <2>8
    <3>2. at[v + 1] \in 1..Len(text)
      BY <1>1, <3>1, ScannedType
    <3>3. text[at[v + 1]] \notin Values
      BY <1>3, <2>1, <2>6, <2>7, <3>2
    <3> QED  BY <1>4, <3>1, <3>3, Classes
  <2> QED  BY <2>7, <2>8
<1> QED  BY <1>7, <1>8
-----------------------------------------------------------------------------
(* Collapsing and trimming uncover nothing either.                         *)

\* The collapse of a plain text, place by place: what is left is a copy, but
\* where it is a blank, of a run of them.
LEMMA CollapseSteps ==
    ASSUME NEW text, Plain(text), NEW out, NEW at, NEW st,
           Scanned(text, BlankRuns(text), out, at, st)
    PROVE  /\ \A k \in 1..Len(out) + 1 : st[k] = k
           /\ \A k \in 1..Len(out) :
                 /\ out[k] = text[at[k]]
                 /\ out[k] # Space => ~Matched(BlankRuns(text), at[k]) /\ at[k + 1] = at[k] + 1
                 /\ out[k] = Space => /\ Within(text, at[k], at[k + 1] - 1, Blanks)
                                      /\ at[k + 1] <= Len(text) => text[at[k + 1]] # Space
           /\ \A i \in 1..Len(out) + 1 : \A j \in i..Len(out) + 1 :
                 /\ at[j] >= at[i] + (j - i)
                 /\ Within(out, i, j - 1, Blanks) => Within(text, at[i], at[j] - 1, Blanks)
<1> DEFINE match == BlankRuns(text)
           left == <<Space>>
<1>1. text \in Seq(Everything) /\ Len(text) \in Nat /\ Len(out) \in Nat
      /\ \A k \in 1..Len(out) : at[k] \in 1..Len(text)
  BY ScannedType
<1>2. Len(left) = 1 /\ left[1] = Space
  OBVIOUS
<1>3. ASSUME NEW q \in 1..Len(text)
      PROVE  /\ text[q] = Space => Matched(match, q)
             /\ Matched(match, q) => /\ text[q] = Space /\ match[q].text = left
                                     /\ Within(text, q, match[q].to - 1, Blanks)
                                     /\ match[q].to <= Len(text) => text[match[q].to] # Space
  <2>1. match[q] = MatchBlanks(text, q)
    BY <1>1 DEF BlankRuns
  <2> HIDE DEF match
  <2> QED  BY <1>1, <2>1, BlanksMatch DEF Matched
<1> HIDE DEF left, match
<1>4. \A q \in 1..Len(text) : Matched(match, q) => Len(match[q].text) = 1 /\ match[q].text[1] = Space
  BY <1>2, <1>3
<1>5. /\ \A k \in 1..Len(out) + 1 : st[k] = k
      /\ \A k \in 1..Len(out) :
            Matched(match, at[k]) => out[k] = match[at[k]].text[1] /\ at[k + 1] = match[at[k]].to
      /\ \A i \in 1..Len(out) + 1 : \A j \in i..Len(out) + 1 :
            /\ at[j] >= at[i] + (j - i)
            /\ \A q \in at[i]..at[j] - 1 : \E k \in i..j - 1 : at[k] <= q /\ q < at[k + 1]
  BY <1>4, Spans, SMTT(30) DEF match
<1>6. ASSUME NEW k \in 1..Len(out)
      PROVE  /\ out[k] = text[at[k]]
             /\ out[k] # Space => ~Matched(match, at[k]) /\ at[k + 1] = at[k] + 1
             /\ out[k] = Space => /\ Within(text, at[k], at[k + 1] - 1, Blanks)
                                  /\ at[k + 1] <= Len(text) => text[at[k + 1]] # Space
  <2>1. CASE Matched(match, at[k])
    BY <1>1, <1>3, <1>4, <1>5, <2>1
  <2>2. CASE ~Matched(match, at[k])
    <3>1. out[k] = text[at[k]] /\ at[k + 1] = at[k] + 1
      BY <2>2, Copied DEF match
    <3>2. text[at[k]] # Space
      BY <1>1, <1>3, <2>2
    <3> QED  BY <2>2, <3>1, <3>2
  <2> QED  BY <2>1, <2>2
<1>7. ASSUME NEW i \in 1..Len(out) + 1, NEW j \in i..Len(out) + 1,
             Within(out, i, j - 1, Blanks), NEW q \in at[i]..at[j] - 1
      PROVE  text[q] \in Blanks
  <2>1. PICK k \in i..j - 1 : at[k] <= q /\ q < at[k + 1]
    BY <1>5
  <2>2. k \in 1..Len(out) /\ k \in 1..Len(out) + 1 /\ k + 1 \in 1..Len(out) + 1
        /\ i \in 1..Len(out) + 1 /\ j \in 1..Len(out) + 1
    BY <1>1
  <2>3. at[k] \in Nat /\ at[k + 1] \in Nat /\ at[i] \in Nat /\ at[j] \in Nat
    BY <2>2, ScannedType
  <2>4. q \in at[k]..at[k + 1] - 1
    BY <2>1, <2>3
  <2>5. out[k] = Space
    BY <1>7, <2>1, Classes DEF Within
  <2> QED  BY <1>6, <2>2, <2>4, <2>5 DEF Within
<1>8. \A i \in 1..Len(out) + 1 : \A j \in i..Len(out) + 1 :
         Within(out, i, j - 1, Blanks) => Within(text, at[i], at[j] - 1, Blanks)
  BY <1>7 DEF Within
<1> QED  BY <1>5, <1>6, <1>8 DEF match

\* Nothing shows of a text: bearer tokens, user information but for the
\* excused, assignments' values, keys.
Hidden(text) ==
    ~BearerShows(text) /\ Excused(text) /\ Assigned(text) /\ ~KeyShows(text)

\* It puts one blank where blanks were, and uncovers nothing.
LEMMA CollapseUncoversNothing ==
    ASSUME NEW text \in Seq(Everything), Plain(text), Hidden(text)
    PROVE  Hidden(Collapse(text))
<1> DEFINE match == BlankRuns(text)
           out == Collapse(text)
<1>1. PICK at, st : Scanned(text, match, out, at, st)
  BY CollapseScanned
<1>2. DOMAIN out = 1..Len(out) /\ Len(out) \in Nat /\ Len(text) \in Nat /\ DOMAIN text = 1..Len(text)
  BY CollapseScanned
<1> HIDE DEF out, match
<1>3. /\ \A k \in 1..Len(out) + 1 : st[k] = k
      /\ \A k \in 1..Len(out) :
            /\ out[k] = text[at[k]]
            /\ out[k] # Space => ~Matched(match, at[k]) /\ at[k + 1] = at[k] + 1
      /\ \A i \in 1..Len(out) + 1 : \A j \in i..Len(out) + 1 :
            /\ at[j] >= at[i] + (j - i)
            /\ Within(out, i, j - 1, Blanks) => Within(text, at[i], at[j] - 1, Blanks)
  BY <1>1, CollapseSteps DEF match
<1>4. \A k \in 1..Len(out) : at[k] \in 1..Len(text) /\ at[k] \in Nat
  BY <1>1, ScannedType
\* What comes after a token that is no blank, up to where blanks end.
<1>5. ASSUME NEW i \in 1..Len(out), out[i] # Space, NEW j \in i + 1..Len(out),
             Within(out, i + 1, j - 1, Blanks)
      PROVE  /\ Within(text, at[i] + 1, at[j] - 1, Blanks)
             /\ at[j] >= at[i] + (j - i) /\ at[j] \in at[i] + 1..Len(text)
  <2>1. i + 1 \in 1..Len(out) + 1 /\ j \in i + 1..Len(out) + 1 /\ j \in 1..Len(out)
        /\ i \in 1..Len(out) + 1 /\ j \in i..Len(out) + 1 /\ i \in Nat /\ j \in Nat /\ j >= i + 1
    BY <1>2
  <2>2. at[i + 1] = at[i] + 1
    BY <1>3, <1>5
  <2>3. Within(text, at[i + 1], at[j] - 1, Blanks) /\ at[j] >= at[i] + (j - i)
    BY <1>3, <1>5, <2>1
  <2> DEFINE x == at[i]
             y == at[j]
  <2>4. x \in 1..Len(text) /\ y \in 1..Len(text) /\ y >= x + (j - i)
    BY <1>4, <2>1, <2>3
  <2>5. y \in x + 1..Len(text)
    <3> HIDE DEF x, y
    <3> QED  BY <1>2, <2>1, <2>4
  <2> QED  BY <2>2, <2>3, <2>5
<1>6. ~BearerShows(out)
  <2>1. SUFFICES ASSUME NEW i \in 1..Len(out), NEW j \in 1..Len(out), BearerAt(out, i, j)
                 PROVE  FALSE
    BY <1>2 DEF BearerShows, BearerAt
  <2>2. /\ out[i] = Bearer /\ i + 1 < j /\ out[j] \in BearerTokens
        /\ Within(out, i + 1, j - 1, Blanks)
    BY <2>1 DEF BearerAt
  <2>3. j \in i + 1..Len(out) /\ out[i] # Space
    BY <1>2, <2>2, Classes
  <2>4. Within(text, at[i] + 1, at[j] - 1, Blanks) /\ at[j] >= at[i] + (j - i)
    BY <1>5, <2>2, <2>3
  <2>5. at[i] + 1 < at[j]
    <3> DEFINE x == at[i]
               y == at[j]
    <3>1. x \in Nat /\ y \in Nat /\ y >= x + (j - i)
      BY <1>4, <2>4
    <3> HIDE DEF x, y
    <3>2. x + 1 < y
      BY <1>2, <2>2, <3>1
    <3> QED  BY <3>2 DEF x, y
  <2>6. text[at[i]] = Bearer /\ text[at[j]] \in BearerTokens
    BY <1>3, <2>2
  <2> QED  BY <1>2, <1>4, <2>4, <2>5, <2>6 DEF Hidden, BearerShows
<1>7. Excused(out)
  <2>1. SUFFICES ASSUME NEW i \in 1..Len(out), NEW j \in 1..Len(out), UserinfoAt(out, i, j)
                 PROVE  ValueLost(out, i + 1, j - 1)
    BY <1>2 DEF Excused
  <2>2. /\ 1 < i /\ out[i - 1] # Space /\ out[i] # Space /\ out[j] # Space /\ i + 1 < j
        /\ \A k \in i + 1..j - 1 : out[k] # Space
    BY <2>1, Classes DEF UserinfoAt, Within
  <2>3. i \in Nat /\ j \in Nat /\ i - 1 \in 1..Len(out)
    BY <1>2, <2>2
  <2>4. ~Matched(match, at[i]) /\ ~Matched(match, at[i - 1])
    BY <1>3, <2>2, <2>3
  <2>5. \A k \in i + 1..j : st[k] = k => ~Matched(match, at[k])
    <3>1. \A k \in i + 1..j : k \in 1..Len(out) /\ (k = j \/ k \in i + 1..j - 1)
      BY <1>2, <2>3
    <3> QED  BY <1>3, <2>2, <3>1
  <2>6. /\ UserinfoAt(text, at[i], at[j]) /\ at[j] = at[i] + (j - i)
        /\ \A k \in i + 1..j - 1 : out[k] = text[at[i] + (k - i)]
    BY <1>1, <2>1, <2>4, <2>5, UserinfoBack
  <2> DEFINE x == at[i]
             y == at[j]
  <2>7. x \in 1..Len(text) /\ y \in 1..Len(text) /\ x \in Nat /\ y \in Nat /\ y = x + (j - i)
    BY <1>4, <2>6
  <2>8. \A k \in i + 1..j - 1 : out[k] = text[x + (k - i)]
    BY <2>6
  <2>9. PICK m \in x + 1..(y - 1) - 1 :
          /\ text[m] \in {"=", ":"}
          /\ \/ text[m + 1] = Mark
             \/ m + 2 <= y - 1 /\ text[m + 1] = Quote /\ text[m + 2] = Mark
    BY <1>2, <2>6, <2>7 DEF Hidden, Excused, ValueLost
  <2> DEFINE k == i + (m - x)
  <2> HIDE DEF x, y
  <2>10. /\ k \in i + 1..(j - 1) - 1 /\ k \in i + 1..j - 1 /\ k + 1 \in i + 1..j - 1
         /\ x + (k - i) = m /\ x + ((k + 1) - i) = m + 1
    BY <2>3, <2>7
  <2>11. m + 2 <= y - 1 => /\ k + 2 <= j - 1 /\ k + 2 \in i + 1..j - 1
                           /\ x + ((k + 2) - i) = m + 2
    BY <2>3, <2>7
  <2> HIDE DEF k
  <2>12. out[k] = text[m] /\ out[k + 1] = text[m + 1]
    BY <2>8, <2>10
  <2>13. m + 2 <= y - 1 => out[k + 2] = text[m + 2]
    BY <2>8, <2>11
  <2> QED  BY <2>9, <2>10, <2>11, <2>12, <2>13 DEF ValueLost
<1>8. Assigned(out)
  <2>1. SUFFICES ASSUME NEW i \in 1..Len(out), NEW m \in i + 1..Len(out), NameAt(out, i, m)
                 PROVE  /\ out[m] # Sep
                        /\ \A v \in m + 1..Len(out) :
                              ValueAt(out, m, v) =>
                                  /\ out[v] = Mark
                                  /\ v < Len(out) => out[v + 1] \notin Values
    BY DEF Assigned
  <2>2. i \in Nat /\ m \in Nat /\ m \in 1..Len(out)
    BY <1>2
  <2>3. at[m] \in at[i] + 1..Len(text) /\ NameAt(text, at[i], at[m])
    <3>1. out[i] = Name /\ out[i] # Space /\ Within(out, i + 1, m - 1, Blanks)
      BY <2>1, Classes DEF NameAt
    <3>2. text[at[i]] = Name
      BY <1>3, <3>1
    <3> QED  BY <1>5, <3>1, <3>2 DEF NameAt
  <2>4. /\ text[at[m]] # Sep
        /\ \A v \in at[m] + 1..Len(text) :
              ValueAt(text, at[m], v) =>
                  /\ text[v] = Mark
                  /\ v < Len(text) => text[v + 1] \notin Values
    BY <1>4, <2>3 DEF Hidden, Assigned
  <2>5. ASSUME NEW v \in m + 1..Len(out), ValueAt(out, m, v)
        PROVE  out[v] = Mark /\ (v < Len(out) => out[v + 1] \notin Values)
    <3>1. v \in Nat /\ v \in 1..Len(out)
      BY <1>2, <2>2
    <3>2. out[m] \in {"=", ":"} /\ out[m] # Space /\ out[v] \in Values /\ out[v] # Space
      BY <2>5, Classes DEF ValueAt
    <3>3. text[at[m]] \in {"=", ":"} /\ text[at[v]] \in Values
      BY <1>3, <2>2, <3>1, <3>2
    <3>4. /\ at[v] \in at[m] + 1..Len(text)
          /\ \/ Within(text, at[m] + 1, at[v] - 1, Blanks)
             \/ text[at[v] - 1] = Quote /\ Within(text, at[m] + 1, at[v] - 2, Blanks)
      <4>1. CASE Within(out, m + 1, v - 1, Blanks)
        BY <1>5, <2>2, <3>2, <4>1
      <4>2. CASE out[v - 1] = Quote /\ Within(out, m + 1, v - 2, Blanks)
        <5> DEFINE q == v - 1
        <5>1. q # m
          BY <3>2, <4>2, Classes
        <5>2. q \in m + 1..Len(out) /\ q \in 1..Len(out) /\ q + 1 = v /\ q - 1 = v - 2
          BY <1>2, <2>2, <3>1, <5>1
        <5> HIDE DEF q
        <5>3. out[q] = Quote /\ out[q] # Space /\ Within(out, m + 1, q - 1, Blanks)
          BY <4>2, <5>2, Classes DEF q
        <5>4. Within(text, at[m] + 1, at[q] - 1, Blanks) /\ at[q] \in at[m] + 1..Len(text)
          BY <1>5, <2>2, <3>2, <5>2, <5>3
        <5>5. at[v] = at[q] + 1 /\ text[at[q]] = Quote
          BY <1>3, <5>2, <5>3
        <5> DEFINE x == at[m]
                   y == at[v]
                   z == at[q]
        <5>6. /\ x \in Nat /\ z \in Nat /\ z \in x + 1..Len(text) /\ y = z + 1
              /\ y \in 1..Len(text)
          BY <1>4, <2>2, <3>1, <5>2, <5>4, <5>5
        <5>7. y - 1 = z /\ y - 2 = z - 1 /\ y \in x + 1..Len(text)
          <6> HIDE DEF x, y, z
          <6> QED  BY <1>2, <5>6
        <5> QED  BY <5>4, <5>5, <5>7
      <4> QED  BY <2>5, <4>1, <4>2 DEF ValueAt
    <3>5. ValueAt(text, at[m], at[v])
      BY <3>3, <3>4 DEF ValueAt
    <3>6. text[at[v]] = Mark /\ (at[v] < Len(text) => text[at[v] + 1] \notin Values)
      BY <2>4, <3>4, <3>5
    <3>7. out[v] = Mark /\ at[v + 1] = at[v] + 1
      BY <1>3, <3>1, <3>2, <3>6
    <3>8. ASSUME v < Len(out) PROVE out[v + 1] \notin Values
      <4>1. v + 1 \in 1..Len(out)
        BY <1>2, <3>1, <3>8
      <4>2. at[v + 1] \in 1..Len(text) /\ at[v] \in Nat
        BY <1>4, <3>1, <4>1
      <4>3. text[at[v + 1]] \notin Values
        BY <1>2, <3>6, <3>7, <4>2
      <4> QED  BY <1>3, <4>1, <4>3
    <3> QED  BY <3>7, <3>8
  <2>6. out[m] # Sep
    BY <1>3, <2>2, <2>4
  <2> QED  BY <2>5, <2>6
<1>9. ~KeyShows(out)
  <2>1. SUFFICES ASSUME NEW i \in 1..Len(out) - 1, out[i] = Prefix, out[i + 1] \in KeyTokens
                 PROVE  FALSE
    BY DEF KeyShows
  <2>2. i \in 1..Len(out) /\ i + 1 \in 1..Len(out)
    BY <1>2
  <2>3. /\ at[i + 1] = at[i] + 1 /\ text[at[i]] = Prefix /\ text[at[i + 1]] \in KeyTokens
        /\ at[i] \in 1..Len(text) /\ at[i + 1] \in 1..Len(text)
    BY <1>3, <1>4, <2>1, <2>2, Classes
  <2>4. at[i] \in 1..Len(text) - 1 /\ text[at[i] + 1] \in KeyTokens
    BY <1>2, <2>3
  <2> QED  BY <2>3, <2>4 DEF Hidden, KeyShows
<1> QED  BY <1>6, <1>7, <1>8, <1>9 DEF Hidden, out

\* What is trimmed is a stretch of the text.
LEMMA Trimmed ==
    ASSUME NEW text \in Seq(Everything)
    PROVE  /\ Trim(text) \in Seq(Everything)
           /\ \E d \in Nat : /\ Len(Trim(text)) + d <= Len(text)
                             /\ \A k \in 1..Len(Trim(text)) : Trim(text)[k] = text[k + d]
           /\ ~(\E k \in 1..Len(text) - 1 : text[k] = Space /\ text[k + 1] = Space) =>
                 (Trim(text) # <<>> =>
                     Trim(text)[1] # Space /\ Trim(text)[Len(Trim(text))] # Space)
<1> DEFINE first == IF At(text, 1) = Space THEN 2 ELSE 1
           last == IF text # <<>> /\ text[Len(text)] = Space THEN Len(text) - 1 ELSE Len(text)
           out == Trim(text)
           d == IF first <= last THEN first - 1 ELSE 0
<1>1. out = SubSeq(text, first, last)
  BY DEF Trim
<1>2. /\ first \in {1, 2} /\ last \in {Len(text) - 1, Len(text)} /\ last \in 0..Len(text)
      /\ Len(text) \in Nat
  OBVIOUS
<1>3. /\ Len(text) >= 1 => /\ text[1] = Space => first = 2
                           /\ text[1] # Space => first = 1
                           /\ text[Len(text)] = Space => last = Len(text) - 1
                           /\ text[Len(text)] # Space => last = Len(text)
      /\ Len(text) = 0 => first = 2
  BY DEF At
<1> HIDE DEF first, last
<1>4. /\ out \in Seq(Everything)
      /\ Len(out) = IF first <= last THEN last - first + 1 ELSE 0
      /\ \A k \in 1..Len(out) : out[k] = text[k + d]
  <2>1. CASE first <= last
    BY <1>1, <1>2, <2>1, SMTT(30)
  <2>2. CASE ~(first <= last)
    BY <1>1, <1>2, <2>2, SMTT(30)
  <2> QED  BY <2>1, <2>2
<1>5. d \in Nat /\ Len(out) + d <= Len(text)
  <2>1. CASE first <= last
    BY <1>2, <1>4, <2>1
  <2>2. CASE ~(first <= last)
    BY <1>2, <1>3, <1>4, <2>2
  <2> QED  BY <2>1, <2>2
<1>6. ASSUME ~(\E k \in 1..Len(text) - 1 : text[k] = Space /\ text[k + 1] = Space), out # <<>>
      PROVE  out[1] # Space /\ out[Len(out)] # Space
  <2>1. first <= last /\ Len(out) = last - first + 1 /\ Len(text) >= 1
    BY <1>2, <1>4, <1>6
  <2>2. out[1] = text[first] /\ out[Len(out)] = text[last]
    <3>1. 1 \in 1..Len(out) /\ 1 + d = first /\ Len(out) \in 1..Len(out) /\ Len(out) + d = last
      BY <1>2, <2>1
    <3> HIDE DEF d, out
    <3> QED  BY <1>4, <3>1
  <2>3. text[first] # Space
    <3>1. CASE first = 1
      BY <1>3, <2>1, <3>1
    <3>2. CASE first = 2
      <4>1. 1 \in 1..Len(text) - 1 /\ 1 + 1 = 2
        BY <1>2, <2>1, <3>2
      <4>2. text[1] = Space
        BY <1>3, <2>1, <3>2
      <4> QED  BY <1>6, <3>2, <4>1, <4>2
    <3> QED  BY <1>2, <3>1, <3>2
  <2>4. text[last] # Space
    <3>1. CASE last = Len(text)
      BY <1>3, <2>1, <3>1, <1>2
    <3>2. CASE last = Len(text) - 1
      <4>1. last \in 1..Len(text) - 1 /\ last + 1 = Len(text)
        BY <1>2, <2>1, <3>2
      <4>2. text[Len(text)] = Space
        BY <1>2, <1>3, <2>1, <3>2
      <4> QED  BY <1>6, <4>1, <4>2
    <3> QED  BY <1>2, <3>1, <3>2
  <2> QED  BY <2>2, <2>3, <2>4
<1>7. \E e \in Nat : Len(out) + e <= Len(text) /\ \A k \in 1..Len(out) : out[k] = text[k + e]
  <2> HIDE DEF d, out
  <2> QED  BY <1>4, <1>5
<1> QED  BY <1>4, <1>6, <1>7 DEF out
\* A stretch of a text shows no more than the text.
LEMMA StretchHides ==
    ASSUME NEW text \in Seq(Everything), Hidden(text), NEW out \in Seq(Everything),
           NEW d \in Nat, Len(out) + d <= Len(text),
           \A k \in 1..Len(out) : out[k] = text[k + d]
    PROVE  Hidden(out)
<1>1. /\ DOMAIN out = 1..Len(out) /\ Len(out) \in Nat
      /\ DOMAIN text = 1..Len(text) /\ Len(text) \in Nat
  OBVIOUS
<1>2. /\ \A k \in 1..Len(out) : k \in Nat /\ k + d \in 1..Len(text) /\ out[k] = text[k + d]
      /\ \A i, k \in 1..Len(out) : k \in i + 1..Len(out) => k + d \in (i + d) + 1..Len(text)
  BY <1>1
<1>3. ASSUME NEW i \in 1..Len(out) + 1, NEW j \in 0..Len(out), NEW class, Within(out, i, j, class)
      PROVE  Within(text, i + d, j + d, class)
  <2>1. \A q \in i + d..j + d : q - d \in i..j /\ q - d \in 1..Len(out) /\ (q - d) + d = q
    BY <1>1
  <2> QED  BY <1>2, <1>3, <2>1 DEF Within
<1>4. ~BearerShows(out)
  <2>1. SUFFICES ASSUME NEW i \in 1..Len(out), NEW j \in 1..Len(out), BearerAt(out, i, j)
                 PROVE  FALSE
    BY <1>1 DEF BearerShows, BearerAt
  <2>2. /\ out[i] = Bearer /\ i + 1 < j /\ out[j] \in BearerTokens
        /\ Within(out, i + 1, j - 1, Blanks)
    BY <2>1 DEF BearerAt
  <2>3. /\ i + 1 \in 1..Len(out) + 1 /\ j - 1 \in 0..Len(out)
        /\ (i + 1) + d = (i + d) + 1 /\ (j - 1) + d = (j + d) - 1 /\ (i + d) + 1 < j + d
    BY <1>1, <2>2
  <2>4. Within(text, (i + d) + 1, (j + d) - 1, Blanks)
    BY <1>3, <2>2, <2>3
  <2> QED  BY <1>1, <1>2, <2>2, <2>3, <2>4 DEF Hidden, BearerShows
<1>5. Excused(out)
  <2>1. SUFFICES ASSUME NEW i \in 1..Len(out), NEW j \in 1..Len(out), UserinfoAt(out, i, j)
                 PROVE  ValueLost(out, i + 1, j - 1)
    BY <1>1 DEF Excused
  <2>2. /\ 1 < i /\ out[i - 1] \in SchemeEnds /\ out[i] = Sep /\ i + 1 < j /\ out[j] = "@"
        /\ Within(out, i + 1, j - 1, Userinfo) /\ ~(j = i + 2 /\ out[i + 1] = Mark)
    BY <2>1 DEF UserinfoAt
  <2>3. /\ i - 1 \in 1..Len(out) /\ i + 1 \in 1..Len(out) /\ i + 1 \in 1..Len(out) + 1
        /\ j - 1 \in 0..Len(out)
        /\ (i - 1) + d = (i + d) - 1 /\ (i + 1) + d = (i + d) + 1 /\ (j - 1) + d = (j + d) - 1
        /\ 1 < i + d /\ (i + d) + 1 < j + d /\ (j + d = (i + d) + 2 <=> j = i + 2)
    BY <1>1, <2>2
  <2>4. Within(text, (i + d) + 1, (j + d) - 1, Userinfo)
    BY <1>3, <2>2, <2>3
  <2>5. /\ text[(i + d) - 1] \in SchemeEnds /\ text[i + d] = Sep /\ text[j + d] = "@"
        /\ text[(i + d) + 1] = out[i + 1]
    BY <1>2, <2>2, <2>3
  <2>6. UserinfoAt(text, i + d, j + d)
    BY <2>2, <2>3, <2>4, <2>5 DEF UserinfoAt
  <2>7. ValueLost(text, (i + d) + 1, (j + d) - 1)
    BY <1>1, <1>2, <2>6 DEF Hidden, Excused
  <2>8. PICK m \in (i + d) + 1..((j + d) - 1) - 1 :
          /\ text[m] \in {"=", ":"}
          /\ \/ text[m + 1] = Mark
             \/ m + 2 <= (j + d) - 1 /\ text[m + 1] = Quote /\ text[m + 2] = Mark
    BY <2>7 DEF ValueLost
  <2> DEFINE k == m - d
  <2>9. /\ k \in i + 1..(j - 1) - 1 /\ k \in 1..Len(out) /\ k + 1 \in 1..Len(out)
        /\ k + d = m /\ (k + 1) + d = m + 1
    BY <1>1, SMTT(30)
  <2>10. m + 2 <= (j + d) - 1 => k + 2 <= j - 1 /\ k + 2 \in 1..Len(out) /\ (k + 2) + d = m + 2
    BY <1>1
  <2> HIDE DEF k
  <2>11. out[k] = text[m] /\ out[k + 1] = text[m + 1]
    BY <1>2, <2>9
  <2>12. m + 2 <= (j + d) - 1 => out[k + 2] = text[m + 2]
    BY <1>2, <2>10, SMTT(30)
  <2> QED  BY <2>8, <2>9, <2>10, <2>11, <2>12 DEF ValueLost
<1>6. Assigned(out)
  <2>1. SUFFICES ASSUME NEW i \in 1..Len(out), NEW m \in i + 1..Len(out), NameAt(out, i, m)
                 PROVE  /\ out[m] # Sep
                        /\ \A v \in m + 1..Len(out) :
                              ValueAt(out, m, v) =>
                                  /\ out[v] = Mark
                                  /\ v < Len(out) => out[v + 1] \notin Values
    BY DEF Assigned
  <2>2. /\ m \in 1..Len(out) /\ m - 1 \in 0..Len(out) /\ i + 1 \in 1..Len(out) + 1
        /\ (m - 1) + d = (m + d) - 1 /\ (i + 1) + d = (i + d) + 1
    BY <1>1
  <2>3. NameAt(text, i + d, m + d)
    BY <1>2, <1>3, <2>1, <2>2 DEF NameAt
  <2>4. i + d \in 1..Len(text) /\ m + d \in (i + d) + 1..Len(text)
    BY <1>2, <2>2
  <2>5. /\ text[m + d] # Sep
        /\ \A v \in (m + d) + 1..Len(text) :
              ValueAt(text, m + d, v) =>
                  /\ text[v] = Mark
                  /\ v < Len(text) => text[v + 1] \notin Values
    BY <2>3, <2>4 DEF Hidden, Assigned
  <2>6. ASSUME NEW v \in m + 1..Len(out), ValueAt(out, m, v)
        PROVE  out[v] = Mark /\ (v < Len(out) => out[v + 1] \notin Values)
    <3>1. /\ v \in 1..Len(out) /\ v - 1 \in 1..Len(out) /\ m + 1 \in 1..Len(out) + 1
          /\ v - 1 \in 0..Len(out) /\ v - 2 \in 0..Len(out)
          /\ (v - 1) + d = (v + d) - 1 /\ (v - 2) + d = (v + d) - 2
          /\ (m + 1) + d = (m + d) + 1
          /\ v + d \in (m + d) + 1..Len(text)
      <4> DEFINE n == Len(out)
                 l == Len(text)
      <4>1. n \in Nat /\ l \in Nat /\ n + d <= l /\ i \in 1..n /\ m \in i + 1..n /\ v \in m + 1..n
        BY <1>1
      <4> HIDE DEF n, l
      <4>2. /\ v \in 1..n /\ v - 1 \in 1..n /\ m + 1 \in 1..n + 1
            /\ v - 1 \in 0..n /\ v - 2 \in 0..n
        BY <4>1
      <4>3. /\ (v - 1) + d = (v + d) - 1 /\ (v - 2) + d = (v + d) - 2
            /\ (m + 1) + d = (m + d) + 1
            /\ v + d \in (m + d) + 1..l
        BY <4>1
      <4> QED  BY <4>2, <4>3 DEF n, l
    <3>2. \/ Within(text, (m + d) + 1, (v + d) - 1, Blanks)
          \/ text[(v + d) - 1] = Quote /\ Within(text, (m + d) + 1, (v + d) - 2, Blanks)
      <4>1. CASE Within(out, m + 1, v - 1, Blanks)
        BY <1>3, <3>1, <4>1
      <4>2. CASE out[v - 1] = Quote /\ Within(out, m + 1, v - 2, Blanks)
        BY <1>2, <1>3, <3>1, <4>2
      <4> QED  BY <2>6, <4>1, <4>2 DEF ValueAt
    <3>3. ValueAt(text, m + d, v + d)
      BY <1>2, <2>2, <2>6, <3>1, <3>2 DEF ValueAt
    <3>4. text[v + d] = Mark /\ (v + d < Len(text) => text[(v + d) + 1] \notin Values)
      BY <2>5, <3>1, <3>3
    <3>5. v < Len(out) => /\ v + d < Len(text) /\ v + 1 \in 1..Len(out)
                          /\ (v + 1) + d = (v + d) + 1
      BY <1>1, <3>1
    <3>6. out[v] = text[v + d] /\ (v < Len(out) => out[v + 1] = text[(v + 1) + d])
      BY <1>2, <3>1, <3>5
    <3> QED  BY <3>4, <3>5, <3>6
  <2> QED  BY <1>2, <2>2, <2>5, <2>6
<1>7. ~KeyShows(out)
  <2>1. SUFFICES ASSUME NEW i \in 1..Len(out) - 1, out[i] = Prefix, out[i + 1] \in KeyTokens
                 PROVE  FALSE
    BY DEF KeyShows
  <2>2. /\ i \in 1..Len(out) /\ i + 1 \in 1..Len(out) /\ (i + 1) + d = (i + d) + 1
        /\ i + d \in 1..Len(text) - 1
    <3> DEFINE n == Len(out)
               l == Len(text)
    <3>1. n \in Nat /\ l \in Nat /\ n + d <= l /\ i \in 1..n - 1
      BY <1>1
    <3> HIDE DEF n, l
    <3>2. /\ i \in 1..n /\ i + 1 \in 1..n /\ (i + 1) + d = (i + d) + 1
          /\ i + d \in 1..l - 1
      BY <3>1
    <3> QED  BY <3>2 DEF n, l
  <2> QED  BY <1>2, <2>1, <2>2 DEF Hidden, KeyShows
<1> QED  BY <1>4, <1>5, <1>6, <1>7 DEF Hidden

\* Nor does what is trimmed.
LEMMA TrimUncoversNothing ==
    ASSUME NEW text \in Seq(Everything), Hidden(text)
    PROVE  Trim(text) \in Seq(Everything) /\ Hidden(Trim(text))
<1>1. Trim(text) \in Seq(Everything)
  BY Trimmed
<1>2. PICK d \in Nat : /\ Len(Trim(text)) + d <= Len(text)
                       /\ \A k \in 1..Len(Trim(text)) : Trim(text)[k] = text[k + d]
  BY Trimmed
<1> QED  BY <1>1, <1>2, StretchHides

\* A scan whose matches leave no white space but blanks keeps a text plain:
LEMMA PlainKept ==
    ASSUME NEW text, NEW match, NEW out, NEW at, NEW st,
           Scanned(text, match, out, at, st), Plain(text),
           \A k \in 1..Len(out) : Matched(match, at[k]) => out[k] # Wide
    PROVE  Plain(out)
<1>1. /\ text \in Seq(Everything) /\ out \in Seq(Everything)
      /\ \A k \in 1..Len(out) : at[k] \in 1..Len(text)
  BY ScannedType
<1>2. ASSUME NEW k \in 1..Len(out) PROVE out[k] # Wide
  <2>1. CASE Matched(match, at[k])
    BY <2>1
  <2>2. CASE ~Matched(match, at[k])
    BY <1>1, <2>2, Copied DEF Plain
  <2> QED  BY <2>1, <2>2
<1> QED  BY <1>1, <1>2 DEF Plain

\* the four passes do.
LEMMA PassesKeepPlain ==
    ASSUME NEW text \in Seq(Everything), Plain(text)
    PROVE  /\ Plain(PassBearer(text)) /\ Plain(PassUrlUserinfo(text))
           /\ Plain(PassAssignment(text)) /\ Plain(PassKeyValue(text))
<1>1. Plain(PassBearer(text))
  <2> DEFINE out == PassBearer(text)
  <2>1. PICK at, st : Scanned(text, Bearers(text), out, at, st)
    BY BearerScanned
  <2> HIDE DEF out
  <2>2. ASSUME NEW k \in 1..Len(out), Matched(Bearers(text), at[k]) PROVE out[k] # Wide
    <3>1. PICK b \in 1..k, e \in k..Len(out) :
              /\ out[b] = Bearer /\ Within(out, b + 1, e - 1, Blanks) /\ out[e] = Mark
      BY <2>1, <2>2, BearerBlock
    <3>2. k = b \/ k = e \/ k \in b + 1..e - 1
      OBVIOUS
    <3> QED  BY <3>1, <3>2, Classes DEF Within
  <2>3. Plain(out)
    BY <2>1, <2>2, PlainKept
  <2> QED  BY <2>3 DEF out
<1>2. Plain(PassUrlUserinfo(text))
  <2> DEFINE out == PassUrlUserinfo(text)
  <2>1. PICK at, st : Scanned(text, Userinfos(text), out, at, st)
    BY UserinfoScanned
  <2> HIDE DEF out
  <2>2. \A k \in 1..Len(out) : Matched(Userinfos(text), at[k]) => out[k] # Wide
    BY <2>1, UserinfoLeft, Classes
  <2>3. Plain(out)
    BY <2>1, <2>2, PlainKept
  <2> QED  BY <2>3 DEF out
<1>3. Plain(PassAssignment(text))
  <2> DEFINE out == PassAssignment(text)
  <2>1. PICK at, st : Scanned(text, Assignments(text), out, at, st)
    BY AssignmentScanned
  <2> HIDE DEF out
  <2>2. \A k \in 1..Len(out) : Matched(Assignments(text), at[k]) => out[k] # Wide
    BY <2>1, AssignmentLeft, Classes
  <2>3. Plain(out)
    BY <2>1, <2>2, PlainKept
  <2> QED  BY <2>3 DEF out
<1>4. Plain(PassKeyValue(text))
  <2> DEFINE out == PassKeyValue(text)
  <2>1. PICK at, st : Scanned(text, Keys(text), out, at, st)
    BY KeyScanned
  <2> HIDE DEF out
  <2>2. \A k \in 1..Len(out) : Matched(Keys(text), at[k]) => out[k] # Wide
    BY <2>1, KeyLeft, Classes
  <2>3. Plain(out)
    BY <2>1, <2>2, PlainKept
  <2> QED  BY <2>3 DEF out
<1> QED  BY <1>1, <1>2, <1>3, <1>4

\* What the collapse leaves of any text: a blank of a run of white space,
\* with none behind it, and copies of the rest.
LEMMA CollapseLeaves ==
    ASSUME NEW text, NEW out, NEW at, NEW st,
           Scanned(text, BlankRuns(text), out, at, st), NEW k \in 1..Len(out)
    PROVE  IF text[at[k]] \in White
             THEN /\ out[k] = Space
                  /\ at[k + 1] <= Len(text) => text[at[k + 1]] \notin White
             ELSE out[k] = text[at[k]]
<1> DEFINE match == BlankRuns(text)
           left == <<Space>>
<1>1. text \in Seq(Everything) /\ at[k] \in 1..Len(text)
  BY ScannedType
<1>2. Len(left) = 1 /\ left[1] = Space
  OBVIOUS
<1>3. ASSUME NEW q \in 1..Len(text)
      PROVE  /\ text[q] \in White <=> Matched(match, q)
             /\ Matched(match, q) => /\ match[q].text = left
                                     /\ match[q].to <= Len(text) => text[match[q].to] \notin White
  <2>1. match[q] = MatchBlanks(text, q)
    BY <1>1 DEF BlankRuns
  <2> HIDE DEF match
  <2> QED  BY <1>1, <2>1, WhiteMatch DEF Matched
<1> HIDE DEF left, match
<1>4. \A q \in 1..Len(text) : Matched(match, q) => Len(match[q].text) = 1 /\ match[q].text[1] = Space
  BY <1>2, <1>3
<1>5. Matched(match, at[k]) => out[k] = match[at[k]].text[1] /\ at[k + 1] = match[at[k]].to
  BY <1>4, Spans DEF match
<1>6. ~Matched(match, at[k]) => out[k] = text[at[k]]
  BY Copied DEF match
<1> QED  BY <1>1, <1>3, <1>4, <1>5, <1>6

\* So that what is left of any text is plain,
LEMMA CollapsePlain ==
    ASSUME NEW text \in Seq(Everything)
    PROVE  Plain(Collapse(text))
<1> DEFINE out == Collapse(text)
<1>1. PICK at, st : Scanned(text, BlankRuns(text), out, at, st)
  BY CollapseScanned
<1> HIDE DEF out
<1>2. out \in Seq(Everything)
  BY <1>1, ScannedType
<1>3. ASSUME NEW k \in 1..Len(out) PROVE out[k] # Wide
  BY <1>1, CollapseLeaves, Classes
<1> QED  BY <1>2, <1>3 DEF Plain, out

\* trimmed, too.
LEMMA TrimPlain ==
    ASSUME NEW text \in Seq(Everything), Plain(text)
    PROVE  Plain(Trim(text))
<1> DEFINE out == Trim(text)
<1>1. PICK d \in Nat : Len(out) + d <= Len(text) /\ \A k \in 1..Len(out) : out[k] = text[k + d]
  BY Trimmed
<1>2. out \in Seq(Everything)
  BY Trimmed
<1> HIDE DEF out
<1>3. ASSUME NEW k \in 1..Len(out) PROVE out[k] # Wide
  <2>1. k + d \in 1..Len(text)
    BY <1>1, <1>2
  <2> QED  BY <1>1, <2>1 DEF Plain
<1> QED  BY <1>2, <1>3 DEF Plain, out

\* A redacted plain text hides everything: each pass what it is to hide, and none
\* after it, nor the collapse, uncovers it again.
LEMMA RedactHides ==
    ASSUME NEW text \in Seq(Everything), Plain(text)
    PROVE  RedactSecrets(text) \in Seq(Everything) /\ Hidden(RedactSecrets(text))
<1> DEFINE b == PassBearer(text)
           u == PassUrlUserinfo(b)
           a == PassAssignment(u)
           k == PassKeyValue(a)
           c == Collapse(k)
<1>1. b \in Seq(Everything) /\ Plain(b) /\ ~BearerShows(b)
  BY BearerScanned, BearerHidden, PassesKeepPlain
<1> HIDE DEF b
<1>2. u \in Seq(Everything) /\ Plain(u) /\ ~BearerShows(u) /\ ~UserinfoShows(u)
  BY <1>1, UserinfoScanned, BearerStaysHidden, UserinfoHidden, PassesKeepPlain
<1> HIDE DEF u
<1>3. a \in Seq(Everything) /\ Plain(a) /\ ~BearerShows(a) /\ Excused(a) /\ Assigned(a)
  BY <1>2, AssignmentScanned, BearerStaysHidden, UserinfoExcused, AssignmentHidden,
     PassesKeepPlain
<1> HIDE DEF a
<1>4. k \in Seq(Everything) /\ Plain(k) /\ Hidden(k)
  BY <1>3, KeyScanned, BearerStaysHidden, UserinfoStaysExcused, AssignmentStaysHidden,
     KeyHidden, PassesKeepPlain DEF Hidden
<1> HIDE DEF k
<1>5. c \in Seq(Everything) /\ Hidden(c)
  BY <1>4, CollapseScanned, CollapseUncoversNothing
<1>6. RedactSecrets(text) = Trim(c)
  BY DEF RedactSecrets, CollapseAndTrim, c, k, a, u, b
<1> HIDE DEF c
<1> QED  BY <1>5, <1>6, TrimUncoversNothing

\* And then nothing shows, in the contract's words.
LEMMA HiddenShowsNothing ==
    ASSUME NEW text \in Seq(Everything), Hidden(text)
    PROVE  /\ ~BearerShows(text) /\ ~AssignmentShows(text) /\ ~KeyShows(text)
           /\ \A i, j \in DOMAIN text : UserinfoAt(text, i, j) => ValueLost(text, i + 1, j - 1)
<1>1. DOMAIN text = 1..Len(text) /\ Len(text) \in Nat
  OBVIOUS
<1>2. ~AssignmentShows(text)
  <2>1. SUFFICES ASSUME NEW i \in 1..Len(text), NEW m \in 1..Len(text), i < m, NameAt(text, i, m),
                        \/ text[m] = Sep
                        \/ /\ text[m] \in {"=", ":"}
                           /\ \E v \in m + 1..Len(text) :
                                 /\ text[v] \in Values
                                 /\ ~(text[v] = Mark /\ At(text, v + 1) \notin Values)
                                 /\ \/ Within(text, m + 1, v - 1, Blanks)
                                    \/ text[v - 1] = Quote /\ Within(text, m + 1, v - 2, Blanks)
                 PROVE  FALSE
    BY <1>1 DEF AssignmentShows, NameAt
  <2>2. m \in i + 1..Len(text)
    BY <1>1, <2>1
  <2>3. /\ text[m] # Sep
        /\ \A v \in m + 1..Len(text) : ValueAt(text, m, v) =>
              text[v] = Mark /\ At(text, v + 1) \notin Values
    <3>1. /\ text[m] # Sep
          /\ \A v \in m + 1..Len(text) : ValueAt(text, m, v) =>
                text[v] = Mark /\ (v < Len(text) => text[v + 1] \notin Values)
      BY <2>1, <2>2 DEF Hidden, Assigned
    <3>2. \A v \in m + 1..Len(text) : (v + 1 <= Len(text)) = (v < Len(text))
      BY <1>1
    <3>3. Space \notin Values
      BY Classes
    <3> QED  BY <3>1, <3>2, <3>3 DEF At
  <2> QED  BY <2>1, <2>3 DEF ValueAt
<1> QED  BY <1>2 DEF Hidden, Excused
-----------------------------------------------------------------------------
(* What a redacted message is like, and the theorem about the first one.   *)

\* No two blanks next to each other, and none at the ends.
Tidy(text) ==
    /\ ~(\E k \in 1..Len(text) - 1 : text[k] = Space /\ text[k + 1] = Space)
    /\ text # <<>> => text[1] # Space /\ text[Len(text)] # Space

RedactionInv == message \in Seq(Everything)

\* What the collapse leaves has no two blanks next to each other.
LEMMA CollapseTidies ==
    ASSUME NEW text \in Seq(Everything)
    PROVE  ~(\E k \in 1..Len(Collapse(text)) - 1 :
                Collapse(text)[k] = Space /\ Collapse(text)[k + 1] = Space)
<1> DEFINE out == Collapse(text)
<1>1. PICK at, st : Scanned(text, BlankRuns(text), out, at, st)
  BY CollapseScanned
<1>2. Len(out) \in Nat /\ Len(text) \in Nat
  BY CollapseScanned
<1> HIDE DEF out
<1>3. SUFFICES ASSUME NEW k \in 1..Len(out) - 1, out[k] = Space, out[k + 1] = Space
               PROVE  FALSE
  BY DEF out
<1>4. k \in 1..Len(out) /\ k + 1 \in 1..Len(out)
  BY <1>2
<1>5. at[k + 1] \in 1..Len(text)
  BY <1>1, <1>4, ScannedType
<1>6. text[at[k]] \in White /\ text[at[k + 1]] \notin White
  <2>1. text[at[k]] \in White
    BY <1>1, <1>3, <1>4, CollapseLeaves, Classes
  <2>2. at[k + 1] <= Len(text) => text[at[k + 1]] \notin White
    BY <1>1, <1>4, <2>1, CollapseLeaves
  <2> QED  BY <1>2, <1>5, <2>1, <2>2
<1>7. out[k + 1] = text[at[k + 1]]
  BY <1>1, <1>4, <1>6, CollapseLeaves
<1> QED  BY <1>3, <1>6, <1>7, Classes

\* And what is trimmed after it none at the ends either.
LEMMA TrimTidies ==
    ASSUME NEW text \in Seq(Everything),
           ~(\E k \in 1..Len(text) - 1 : text[k] = Space /\ text[k + 1] = Space)
    PROVE  Tidy(Trim(text))
<1> DEFINE out == Trim(text)
<1>1. out # <<>> => out[1] # Space /\ out[Len(out)] # Space
  BY Trimmed
<1>2. PICK d \in Nat : Len(out) + d <= Len(text) /\ \A k \in 1..Len(out) : out[k] = text[k + d]
  BY Trimmed
<1>3. Len(out) \in Nat /\ Len(text) \in Nat
  BY Trimmed
<1> HIDE DEF out
<1>4. ASSUME NEW k \in 1..Len(out) - 1, out[k] = Space, out[k + 1] = Space
      PROVE  FALSE
  <2>1. /\ k \in 1..Len(out) /\ k + 1 \in 1..Len(out) /\ (k + 1) + d = (k + d) + 1
        /\ k + d \in 1..Len(text) - 1
    BY <1>2, <1>3
  <2> QED  BY <1>2, <1>4, <2>1
<1> QED  BY <1>1, <1>4 DEF Tidy, out

\* Any redacted text is plain and tidy.
LEMMA RedactTidies ==
    ASSUME NEW text \in Seq(Everything)
    PROVE  /\ RedactSecrets(text) \in Seq(Everything)
           /\ Plain(RedactSecrets(text)) /\ Tidy(RedactSecrets(text))
<1> DEFINE b == PassBearer(text)
           u == PassUrlUserinfo(b)
           a == PassAssignment(u)
           k == PassKeyValue(a)
           c == Collapse(k)
<1>1. b \in Seq(Everything)
  BY BearerScanned
<1> HIDE DEF b
<1>2. u \in Seq(Everything)
  BY <1>1, UserinfoScanned
<1> HIDE DEF u
<1>3. a \in Seq(Everything)
  BY <1>2, AssignmentScanned
<1> HIDE DEF a
<1>4. k \in Seq(Everything)
  BY <1>3, KeyScanned
<1> HIDE DEF k
<1>5. c \in Seq(Everything) /\ Plain(c)
      /\ ~(\E q \in 1..Len(c) - 1 : c[q] = Space /\ c[q + 1] = Space)
  BY <1>4, CollapseScanned, CollapsePlain, CollapseTidies
<1>6. RedactSecrets(text) = Trim(c)
  BY DEF RedactSecrets, CollapseAndTrim, c, k, a, u, b
<1> HIDE DEF c
<1> QED  BY <1>5, <1>6, Trimmed, TrimPlain, TrimTidies

\* The invariant of redact_secrets.
LEMMA RedactionHolds == Spec => []RedactionInv
<1>1. Init => RedactionInv
  <2> SUFFICES ASSUME Init PROVE message \in Seq(Everything)
    BY DEF RedactionInv
  <2>1. message \in Seq(Tokens)
    BY MessagesAssumption DEF Init
  <2>2. Tokens \subseteq Everything
    BY DEF Everything
  <2> HIDE DEF Tokens, Everything
  <2> QED  BY <2>1, <2>2
<1>2. RedactionInv /\ [Next]_vars => RedactionInv'
  <2>1. CASE Next
    BY <2>1, RedactTidies DEF RedactionInv, Next, Redact
  <2>2. CASE UNCHANGED vars
    BY <2>2 DEF vars, RedactionInv
  <2> QED  BY <2>1, <2>2
<1> QED  BY <1>1, <1>2, PTL DEF Spec

\* What redact_secrets makes of a plain message of whatever length: no
\* bearer token, no value of a credential variable and no key shows in it,
\* nor a URL's user information, but where an assignment within it lost its
\* value.
THEOREM NothingEverShows == Spec => NothingShows
<1> DEFINE Shown == /\ ~BearerShows(message') /\ ~AssignmentShows(message') /\ ~KeyShows(message')
                    /\ \A i, j \in DOMAIN message' :
                          UserinfoAt(message', i, j) => ValueLost(message', i + 1, j - 1)
<1>1. RedactionInv /\ [Next]_vars => [Plain(message) => Shown]_vars
  <2> SUFFICES ASSUME RedactionInv, Next, Plain(message) PROVE Shown
    BY DEF vars
  <2>1. message' = RedactSecrets(message) /\ message \in Seq(Everything)
    BY DEF Next, Redact, RedactionInv
  <2>2. message' \in Seq(Everything) /\ Hidden(message')
    BY <2>1, RedactHides
  <2> QED  BY <2>2, HiddenShowsNothing
<1> QED  BY <1>1, RedactionHolds, PTL DEF Spec, NothingShows
-----------------------------------------------------------------------------
(* What a scan that puts back what it took leaves.                         *)

\* When every piece is what it was made of, the text is left.
LEMMA ScanIdentity ==
    ASSUME NEW text, NEW match, NEW out, NEW at, NEW st,
           Scanned(text, match, out, at, st),
           \A i \in 1..Len(text) :
              Matched(match, i) =>
                 /\ Len(match[i].text) = match[i].to - i
                 /\ \A o \in 1..match[i].to - i : match[i].text[o] = text[i + o - 1]
    PROVE  out = text
<1> DEFINE n == Len(out)
           piece(k) == Piece(text, match, at[k])
           G == {k \in 1..n + 1 : at[k] = st[k]}
<1>1. /\ text \in Seq(Everything) /\ Len(text) \in Nat /\ out \in Seq(Everything) /\ n \in Nat
      /\ \A k \in 1..n + 1 : at[k] \in Nat /\ st[k] \in Nat
      /\ \A k \in 1..n : at[k] \in 1..Len(text)
      /\ at[1] = 1 /\ st[1] = 1 /\ at[n + 1] = Len(text) + 1 /\ st[n + 1] = n + 1
  BY ScannedType
\* A piece is the stretch of the text it stands for.
<1>2. ASSUME NEW k \in 1..n
      PROVE  /\ Onward(match, at[k]) \in Nat /\ Onward(match, at[k]) > at[k]
             /\ Len(piece(k)) = Onward(match, at[k]) - at[k]
             /\ \A o \in 1..Onward(match, at[k]) - at[k] : piece(k)[o] = text[at[k] + o - 1]
  <2> DEFINE a == at[k]
  <2>1. a \in 1..Len(text) /\ a \in Nat
    BY <1>1
  <2> HIDE DEF a
  <2>2. Bounded(text, match)
    BY DEF Scanned
  <2>3. CASE Matched(match, a)
    <3>1. Piece(text, match, a) = match[a].text /\ Onward(match, a) = match[a].to /\ match[a].to > a
      BY <2>3 DEF Piece, Onward, Matched
    <3>2. match[a].to \in Nat
      BY <1>1, <2>1, <2>2 DEF Bounded
    <3> QED  BY <2>1, <2>3, <3>1, <3>2 DEF a
  <2>4. CASE ~Matched(match, a)
    <3>1. Piece(text, match, a) = <<text[a]>> /\ Onward(match, a) = a + 1
      BY <2>4 DEF Piece, Onward, Matched
    <3>2. Len(<<text[a]>>) = 1 /\ <<text[a]>>[1] = text[a]
      OBVIOUS
    <3>3. (a + 1) - a = 1 /\ a + 1 - 1 = a /\ a + 1 \in Nat /\ a + 1 > a
      BY <2>1
    <3>4. \A o \in 1..1 : o = 1
      OBVIOUS
    <3> QED  BY <3>1, <3>2, <3>3, <3>4 DEF a
  <2> QED  BY <2>3, <2>4
<1>3. ASSUME NEW k \in 1..n
      PROVE  /\ st[k] <= k /\ k < st[k] + Len(piece(k)) /\ st[k] + Len(piece(k)) <= n + 1
             /\ out[k] = piece(k)[k - st[k] + 1]
             /\ \A l \in st[k]..st[k] + Len(piece(k)) - 1 : at[l] = at[k] /\ st[l] = st[k]
             /\ at[st[k] + Len(piece(k))] = Onward(match, at[k])
             /\ st[st[k] + Len(piece(k))] = st[k] + Len(piece(k))
  BY DEF Scanned, Runs
<1> HIDE DEF piece
<1>4. ASSUME NEW k \in 1..n, at[k] = st[k] PROVE at[k + 1] = st[k + 1]
  <2> DEFINE s == st[k]
             l == Len(piece(k))
             e == Onward(match, at[k])
  <2>1. s \in Nat /\ e \in Nat /\ l = e - s /\ e > s /\ s <= k /\ k < s + l
    BY <1>1, <1>2, <1>3, <1>4
  <2>2. /\ \A q \in s..s + l - 1 : at[q] = at[k] /\ st[q] = s
        /\ at[s + l] = e /\ st[s + l] = s + l
    BY <1>3
  <2> HIDE DEF s, l, e
  <2>3. CASE k + 1 \in s..s + l - 1
    BY <1>4, <2>2, <2>3 DEF s
  <2>4. CASE k + 1 \notin s..s + l - 1
    <3>1. k + 1 = s + l /\ s + l = e
      BY <2>1, <2>4
    <3> QED  BY <2>2, <3>1
  <2> QED  BY <2>3, <2>4
<1>5. \A k \in 1..n + 1 : k \in G
  <2>1. 1 \in G /\ 1 \in Nat /\ n + 1 \in Nat
    BY <1>1
  <2>2. ASSUME NEW k \in 1..(n + 1) - 1, k \in G PROVE k + 1 \in G
    <3>1. k \in 1..n /\ k + 1 \in 1..n + 1
      BY <1>1
    <3> HIDE DEF n
    <3> QED  BY <1>4, <2>2, <3>1
  <2> HIDE DEF G, n
  <2> QED  BY <2>1, <2>2, Upwards
<1>6. \A k \in 1..n + 1 : at[k] = st[k]
  BY <1>5
<1>7. n = Len(text)
  <2>1. n + 1 \in 1..n + 1
    BY <1>1
  <2>2. Len(text) + 1 = n + 1
    BY <1>1, <1>6, <2>1
  <2> HIDE DEF n
  <2> QED  BY <1>1, <2>2
<1>8. ASSUME NEW k \in 1..n PROVE out[k] = text[k]
  <2> DEFINE s == st[k]
             e == Onward(match, at[k])
             o == k - s + 1
  <2>1. k \in 1..n + 1 /\ k \in Nat
    BY <1>1
  <2>2. at[k] = s
    BY <1>6, <2>1
  <2>3. s \in Nat /\ e \in Nat /\ s <= k /\ k < s + (e - s)
    BY <1>1, <1>2, <1>3, <2>1, <2>2
  <2>4. out[k] = piece(k)[o]
    BY <1>3
  <2>5. \A q \in 1..e - s : piece(k)[q] = text[s + q - 1]
    BY <1>2, <2>2
  <2> HIDE DEF s, e
  <2>6. o \in 1..e - s /\ s + o - 1 = k
    BY <2>1, <2>3
  <2> HIDE DEF o
  <2> QED  BY <2>4, <2>5, <2>6
<1>9. DOMAIN out = 1..n /\ DOMAIN text = 1..Len(text)
      /\ out = [k \in DOMAIN out |-> out[k]] /\ text = [k \in DOMAIN text |-> text[k]]
  BY <1>1
<1> HIDE DEF n
<1> QED  BY <1>7, <1>8, <1>9

\* And of no match at all, the text.
LEMMA NoMatches ==
    ASSUME NEW text, NEW match, NEW out, NEW at, NEW st,
           Scanned(text, match, out, at, st),
           \A i \in 1..Len(text) : ~Matched(match, i)
    PROVE  out = text
BY ScanIdentity

\* A pass over a text in which nothing shows leaves it as it is: what it
\* takes of an assignment or a URL it puts back.
LEMMA BearerQuiet ==
    ASSUME NEW text \in Seq(Everything), ~BearerShows(text)
    PROVE  PassBearer(text) = text
<1> DEFINE match == Bearers(text)
           out == PassBearer(text)
<1>1. PICK at, st : Scanned(text, match, out, at, st)
  BY BearerScanned
<1>2. ASSUME NEW i \in 1..Len(text) PROVE ~Matched(match, i)
  <2>1. SUFFICES ASSUME Matched(match, i) PROVE FALSE
    OBVIOUS
  <2>2. match[i] = MatchBearer(text, i)
    BY DEF Bearers
  <2>3. PICK t \in i + 2..Len(text) : BearerAt(text, i, t)
    BY <2>1, <2>2, BearerMatches DEF Matched
  <2>4. i + 1 < t /\ t \in DOMAIN text /\ i \in DOMAIN text
    OBVIOUS
  <2> QED  BY <2>3, <2>4 DEF BearerShows, BearerAt
<1> HIDE DEF match, out
<1> QED  BY <1>1, <1>2, NoMatches DEF out

\* User information is the placeholder already, and is replaced by it.
LEMMA UserinfoQuiet ==
    ASSUME NEW text \in Seq(Everything), ~UserinfoShows(text)
    PROVE  PassUrlUserinfo(text) = text
<1> DEFINE match == Userinfos(text)
           out == PassUrlUserinfo(text)
           left == <<Sep, Mark, "@">>
<1>1. PICK at, st : Scanned(text, match, out, at, st)
  BY UserinfoScanned
<1>2. Len(left) = 3 /\ left[1] = Sep /\ left[2] = Mark /\ left[3] = "@"
  OBVIOUS
<1>3. ASSUME NEW i \in 1..Len(text), Matched(match, i)
      PROVE  /\ match[i].to = i + 3 /\ match[i].text = left
             /\ text[i] = Sep /\ text[i + 1] = Mark /\ text[i + 2] = "@"
  <2>1. match[i] = MatchUrlUserinfo(text, i)
    BY DEF Userinfos
  <2> DEFINE to == match[i].to
             j == to - 1
  <2>2. /\ text[i] = Sep /\ match[i].text = left
        /\ j \in i + 2..Len(text) /\ text[j] = "@"
        /\ 1 < i /\ text[i - 1] \in SchemeEnds
        /\ Within(text, i + 1, to - 2, Userinfo)
        /\ to \in 0..Len(text) + 1
    BY <1>3, <2>1, UserinfoMatches DEF Matched
  <2> HIDE DEF to, left
  <2>3. /\ to - 2 = j - 1 /\ i + 1 < j /\ i \in DOMAIN text /\ j \in DOMAIN text /\ to = j + 1
        /\ j \in Nat /\ i \in Nat
    BY <2>2
  <2> HIDE DEF j
  <2>4. ~UserinfoAt(text, i, j)
    BY <2>3 DEF UserinfoShows
  <2>5. j = i + 2 /\ text[i + 1] = Mark
    BY <2>2, <2>3, <2>4 DEF UserinfoAt
  <2> QED  BY <2>2, <2>3, <2>5 DEF to
<1> HIDE DEF left, match, out
<1>4. ASSUME NEW i \in 1..Len(text), Matched(match, i)
      PROVE  /\ Len(match[i].text) = match[i].to - i
             /\ \A o \in 1..match[i].to - i : match[i].text[o] = text[i + o - 1]
  <2>1. (i + 3) - i = 3 /\ i + 1 - 1 = i /\ i + 2 - 1 = i + 1 /\ i + 3 - 1 = i + 2
    OBVIOUS
  <2>2. \A o \in 1..3 : o = 1 \/ o = 2 \/ o = 3
    OBVIOUS
  <2>3. match[i].to - i = 3 /\ match[i].text = left
    BY <1>3, <1>4, <2>1
  <2>4. ASSUME NEW o \in 1..3 PROVE left[o] = text[i + o - 1]
    <3>1. text[i] = Sep /\ text[i + 1] = Mark /\ text[i + 2] = "@"
      BY <1>3, <1>4
    <3>2. CASE o = 1
      BY <1>2, <2>1, <3>1, <3>2
    <3>3. CASE o = 2
      BY <1>2, <2>1, <3>1, <3>3
    <3>4. CASE o = 3
      BY <1>2, <2>1, <3>1, <3>4
    <3> QED  BY <2>2, <3>2, <3>3, <3>4
  <2> QED  BY <1>2, <2>3, <2>4
<1> QED  BY <1>1, <1>4, ScanIdentity DEF out

\* No prefix has a key behind it.
LEMMA KeyQuiet ==
    ASSUME NEW text \in Seq(Everything), ~KeyShows(text)
    PROVE  PassKeyValue(text) = text
<1> DEFINE match == Keys(text)
           out == PassKeyValue(text)
<1>1. PICK at, st : Scanned(text, match, out, at, st)
  BY KeyScanned
<1>2. ASSUME NEW i \in 1..Len(text) PROVE ~Matched(match, i)
  <2>1. SUFFICES ASSUME Matched(match, i) PROVE FALSE
    OBVIOUS
  <2>2. match[i] = MatchKeyValue(text, i)
    BY DEF Keys
  <2>3. /\ text[i] = Prefix /\ match[i].to > i + 1 /\ match[i].to \in 0..Len(text) + 1
        /\ Within(text, i, match[i].to - 1, KeyTokens)
    BY <2>1, <2>2, KeyMatches DEF Matched
  <2>4. i \in 1..Len(text) - 1 /\ i + 1 \in i..match[i].to - 1
    BY <2>3
  <2> QED  BY <2>3, <2>4 DEF KeyShows, Within
<1> HIDE DEF match, out
<1> QED  BY <1>1, <1>2, NoMatches DEF out

\* A value is the placeholder already, with nothing of it left behind it.
LEMMA AssignmentQuiet ==
    ASSUME NEW text \in Seq(Everything), ~AssignmentShows(text)
    PROVE  PassAssignment(text) = text
<1> DEFINE match == Assignments(text)
           out == PassAssignment(text)
<1>1. PICK at, st : Scanned(text, match, out, at, st)
  BY AssignmentScanned
<1>2. Len(text) \in Nat /\ DOMAIN text = 1..Len(text)
  OBVIOUS
<1>3. ASSUME NEW i \in 1..Len(text), Matched(match, i)
      PROVE  /\ Len(match[i].text) = match[i].to - i
             /\ \A o \in 1..match[i].to - i : match[i].text[o] = text[i + o - 1]
  <2>1. match[i] = MatchAssignment(text, i)
    BY DEF Assignments
  <2>2. /\ match[i].to \in 0..Len(text) + 1
        /\ \E m \in i + 1..Len(text) :
              /\ NameAt(text, i, m)
              /\ \/ SlashesMatch(text, i, match[i], m)
                 \/ \E v \in m + 1..Len(text) : ValueMatch(text, i, match[i], m, v)
    BY <1>3, <2>1, AssignmentMatches DEF Matched
  <2>3. PICK m \in i + 1..Len(text) :
              /\ NameAt(text, i, m)
              /\ \/ SlashesMatch(text, i, match[i], m)
                 \/ \E v \in m + 1..Len(text) : ValueMatch(text, i, match[i], m, v)
    BY <2>2
  <2>4. m \in 1..Len(text) /\ i < m /\ i \in Nat /\ m \in Nat
    BY <1>2
  <2>5. text[m] # Sep
    BY <1>2, <2>3, <2>4 DEF AssignmentShows, NameAt
  <2>6. PICK v \in m + 1..Len(text) : ValueMatch(text, i, match[i], m, v)
    BY <2>3, <2>5 DEF SlashesMatch
  <2> DEFINE to == match[i].to
  <2>7. /\ ValueAt(text, m, v) /\ to > v /\ Within(text, v, to - 1, Values)
        /\ match[i].text = SubSeq(text, i, v - 1) \o <<Mark>>
        /\ to \in 0..Len(text) + 1
    BY <2>2, <2>6 DEF ValueMatch
  <2> HIDE DEF to
  <2>8. text[v] = Mark /\ At(text, v + 1) \notin Values
    BY <1>2, <2>3, <2>4, <2>7 DEF AssignmentShows, NameAt, ValueAt
  <2>9. to = v + 1
    <3>1. SUFFICES ASSUME to # v + 1 PROVE FALSE
      OBVIOUS
    <3>2. v < Len(text) /\ v + 1 \in v..to - 1
      BY <1>2, <2>4, <2>7, <3>1
    <3>3. text[v + 1] \in Values
      BY <2>7, <3>2 DEF Within
    <3> QED  BY <1>2, <2>8, <3>2, <3>3 DEF At
  <2>10. v \in i..Len(text) + 1 /\ v \in Nat
    BY <1>2, <2>4
  <2>11. /\ Len(match[i].text) = v - i + 1
         /\ \A o \in 1..v - i : match[i].text[o] = text[i + o - 1]
         /\ match[i].text[v - i + 1] = Mark
    BY <2>7, <2>10, HeadAndMark
  <2>12. to - i = v - i + 1 /\ v - i \in Nat /\ i + (v - i + 1) - 1 = v
    BY <2>4, <2>9, <2>10
  <2> DEFINE w == v - i
  <2>13. \A o \in 1..w + 1 : o \in 1..w \/ o = w + 1
    <3>1. w \in Nat
      BY <2>12
    <3> HIDE DEF w
    <3> QED  BY <3>1
  <2>14. ASSUME NEW o \in 1..w + 1 PROVE match[i].text[o] = text[i + o - 1]
    <3>1. CASE o \in 1..w
      BY <2>11, <3>1
    <3>2. CASE o = w + 1
      BY <2>8, <2>11, <2>12, <3>2
    <3> QED  BY <2>13, <3>1, <3>2
  <2> QED  BY <2>11, <2>12, <2>14 DEF to
<1> HIDE DEF match, out
<1> QED  BY <1>1, <1>3, ScanIdentity DEF out

\* All four passes leave it, and the collapse remains.
LEMMA PassesQuiet ==
    ASSUME NEW text \in Seq(Everything), ~Shows(text)
    PROVE  RedactSecrets(text) = CollapseAndTrim(text)
<1>1. PassBearer(text) = text
  BY BearerQuiet DEF Shows
<1>2. PassUrlUserinfo(text) = text
  BY UserinfoQuiet DEF Shows
<1>3. PassAssignment(text) = text
  BY AssignmentQuiet DEF Shows
<1>4. PassKeyValue(text) = text
  BY KeyQuiet DEF Shows
<1> QED  BY <1>1, <1>2, <1>3, <1>4 DEF RedactSecrets

\* A plain and tidy text has nothing to collapse and nothing to trim.
LEMMA TidyStays ==
    ASSUME NEW text \in Seq(Everything), Plain(text), Tidy(text)
    PROVE  CollapseAndTrim(text) = text
<1>1. Collapse(text) = text
  <2> DEFINE match == BlankRuns(text)
             out == Collapse(text)
             left == <<Space>>
  <2>1. PICK at, st : Scanned(text, match, out, at, st)
    BY CollapseScanned
  <2>2. Len(left) = 1 /\ left[1] = Space
    OBVIOUS
  <2>3. ASSUME NEW i \in 1..Len(text), Matched(match, i)
        PROVE  match[i].text = left /\ text[i] = Space /\ match[i].to = i + 1
    <3>1. match[i] = MatchBlanks(text, i)
      BY DEF BlankRuns
    <3> DEFINE to == match[i].to
    <3>2. /\ text[i] = Space /\ match[i].text = left /\ Within(text, i, to - 1, Blanks)
          /\ to \in 0..Len(text) + 1 /\ to > i
      BY <2>3, <3>1, BlanksMatch DEF Matched
    <3> HIDE DEF to, left
    <3>3. to = i + 1
      <4>1. SUFFICES ASSUME to # i + 1 PROVE FALSE
        OBVIOUS
      <4>2. i \in 1..Len(text) - 1 /\ i + 1 \in i..to - 1
        BY <3>2, <4>1
      <4>3. text[i + 1] = Space
        BY <3>2, <4>2, Classes DEF Within
      <4> QED  BY <3>2, <4>2, <4>3 DEF Tidy
    <3> QED  BY <3>2, <3>3 DEF to
  <2> HIDE DEF left, match, out
  <2>4. ASSUME NEW i \in 1..Len(text), Matched(match, i)
        PROVE  /\ Len(match[i].text) = match[i].to - i
               /\ \A o \in 1..match[i].to - i : match[i].text[o] = text[i + o - 1]
    <3>1. (i + 1) - i = 1 /\ i + 1 - 1 = i
      OBVIOUS
    <3>2. \A o \in 1..1 : o = 1
      OBVIOUS
    <3> QED  BY <2>2, <2>3, <2>4, <3>1, <3>2
  <2> QED  BY <2>1, <2>4, ScanIdentity DEF out
<1>2. Trim(text) = text
  <2> DEFINE first == IF At(text, 1) = Space THEN 2 ELSE 1
             last == IF text # <<>> /\ text[Len(text)] = Space THEN Len(text) - 1 ELSE Len(text)
  <2>1. Trim(text) = SubSeq(text, first, last)
    BY DEF Trim
  <2>2. CASE text = <<>>
    <3>1. last = 0 /\ first \in {1, 2}
      BY <2>2
    <3> HIDE DEF first, last
    <3>2. SubSeq(text, first, last) = <<>>
      BY <2>2, <3>1, SMTT(30)
    <3> QED  BY <2>1, <2>2, <3>2
  <2>3. CASE text # <<>>
    <3>1. Len(text) \in Nat /\ 1 <= Len(text)
      BY <2>3
    <3>2. text[1] # Space /\ text[Len(text)] # Space
      BY <2>3 DEF Tidy
    <3>3. first = 1 /\ last = Len(text)
      BY <3>1, <3>2 DEF At
    <3>4. SubSeq(text, 1, Len(text)) = text
      BY SMTT(30)
    <3> QED  BY <2>1, <3>3, <3>4
  <2> QED  BY <2>2, <2>3
<1> QED  BY <1>1, <1>2 DEF CollapseAndTrim

\* Every message of whatever length in which no secret shows goes through
\* redact_secrets with its white space collapsed and nothing else changed.
THEOREM ProseAlwaysStays == Spec => ProseStays
<1>1. RedactionInv /\ [Next]_vars => [~Shows(message) => message' = CollapseAndTrim(message)]_vars
  <2> SUFFICES ASSUME RedactionInv, Next, ~Shows(message)
               PROVE  message' = CollapseAndTrim(message)
    BY DEF vars
  <2> QED  BY PassesQuiet DEF RedactionInv, Next, Redact
<1> QED  BY <1>1, RedactionHolds, PTL DEF Spec, ProseStays

\* What redact_secrets makes of a plain message of whatever length it leaves
\* as it is, when the error goes into another's message, unless it still
\* reads as a URL with user information.
THEOREM PlainAlwaysSettles == Spec => PlainSettles
<1>1. RedactionInv /\ [Next]_vars
      => [Plain(message) /\ ~UserinfoShows(message') => RedactSecrets(message') = message']_vars
  <2> SUFFICES ASSUME RedactionInv, Next, Plain(message), ~UserinfoShows(message')
               PROVE  RedactSecrets(message') = message'
    BY DEF vars
  <2>1. message' = RedactSecrets(message) /\ message \in Seq(Everything)
    BY DEF Next, Redact, RedactionInv
  <2>2. /\ message' \in Seq(Everything) /\ Hidden(message')
        /\ Plain(message') /\ Tidy(message')
    BY <2>1, RedactHides, RedactTidies
  <2>3. ~Shows(message')
    BY <2>2, HiddenShowsNothing DEF Shows
  <2> QED  BY <2>2, <2>3, PassesQuiet, TidyStays
<1> QED  BY <1>1, RedactionHolds, PTL DEF Spec, PlainSettles
=============================================================================
