-------------------------- MODULE SelectionProofs --------------------------
(***************************************************************************)
(* Facts about Selections, by induction over the natural numbers.  The     *)
(* principle is stated for sets, as the least element of a non-empty one,  *)
(* so that it can be cited without an operator parameter.                  *)
(***************************************************************************)
EXTENDS Selections, WellFoundedInduction, TLAPS

\* A non-empty set of natural numbers has a least element.
LEMMA LeastElement ==
  ASSUME NEW T \in SUBSET Nat, T # {}
  PROVE  \E n \in T : \A m \in T : ~ (m < n)
<1>1. IsWellFoundedOn(OpToRel(<, Nat), Nat)
  BY NatLessThanWellFounded
<1>2. \E n \in T : \A m \in T : ~ (<<m, n>> \in OpToRel(<, Nat))
  BY <1>1, WFMin, Zenon
<1> QED
  BY <1>2 DEF OpToRel

\* A set that holds zero and the successor of each of its elements is Nat.
LEMMA Induction ==
  ASSUME NEW S \in SUBSET Nat, 0 \in S, \A n \in S : n + 1 \in S
  PROVE  S = Nat
<1> SUFFICES ASSUME Nat \ S # {} PROVE FALSE
  OBVIOUS
<1>1. PICK n \in Nat \ S : \A m \in Nat \ S : ~ (m < n)
  BY LeastElement
<1>2. n # 0 /\ n - 1 \in Nat /\ n - 1 \in S
  BY <1>1
<1> QED
  BY <1>2

-----------------------------------------------------------------------------
\* g is the loop's result after each of the first k elements.
Loop(k, s, wanted, g) ==
    g = [n \in 0 .. k |->
            IF n = 0 THEN <<>>
            ELSE IF s[n] \in wanted THEN Append(g[n - 1], s[n]) ELSE g[n - 1]]

\* The loop can be run to any length.
LEMMA LoopRuns ==
  ASSUME NEW s, NEW wanted
  PROVE  \A k \in Nat : \E g : Loop(k, s, wanted, g)
<1> DEFINE P == {k \in Nat : \E g : Loop(k, s, wanted, g)}
<1>1. 0 \in P
  <2> DEFINE g == [n \in 0 .. 0 |-> <<>>]
  <2>1. Loop(0, s, wanted, g)
    BY DEF Loop
  <2> QED
    BY <2>1
<1>2. ASSUME NEW k \in P
      PROVE  k + 1 \in P
  <2>1. PICK g : Loop(k, s, wanted, g)
    BY <1>2
  <2> DEFINE h == [n \in 0 .. k + 1 |->
                     IF n = k + 1
                     THEN IF s[n] \in wanted THEN Append(g[k], s[n]) ELSE g[k]
                     ELSE g[n]]
  <2>2. \A n \in 0 .. k + 1 :
          h[n] = IF n = 0 THEN <<>>
                 ELSE IF s[n] \in wanted THEN Append(h[n - 1], s[n]) ELSE h[n - 1]
    <3> TAKE n \in 0 .. k + 1
    <3>1. CASE n = k + 1
      <4>1. n # 0 /\ n - 1 = k /\ h[k] = g[k]
        BY <3>1
      <4> QED
        BY <3>1, <4>1
    <3>2. CASE n \in 0 .. k
      <4>1. h[n] = g[n] /\ (n # 0 => n - 1 \in 0 .. k /\ h[n - 1] = g[n - 1])
        BY <3>2
      <4> QED
        BY <3>2, <2>1, <4>1 DEF Loop
    <3> QED
      BY <3>1, <3>2
  <2>3. Loop(k + 1, s, wanted, h)
    BY <2>2 DEF Loop
  <2> QED
    BY <2>3
<1>3. P = Nat
  BY <1>1, <1>2, Induction
<1> QED
  BY <1>3

\* g is what has been selected after each element, with p before the first.
Selecting(g, p, s, wanted) ==
    /\ g[0] = p
    /\ \A n \in 1 .. Len(s) :
          g[n] = IF s[n] \in wanted THEN Append(g[n - 1], s[n]) ELSE g[n - 1]

\* What is selected, computed element by element.
LEMMA SelectLoop ==
  ASSUME NEW S, NEW s \in Seq(S), NEW wanted
  PROVE  \E g : SelectIn(s, wanted) = g[Len(s)] /\ Selecting(g, <<>>, s, wanted)
<1>0. Len(s) \in Nat
  OBVIOUS
<1> DEFINE g == CHOOSE g : Loop(Len(s), s, wanted, g)
<1>1. Loop(Len(s), s, wanted, g)
  BY <1>0, LoopRuns, Zenon
<1>2. SelectIn(s, wanted) = g[Len(s)]
  BY Zenon DEF SelectIn, Loop
<1> HIDE DEF g
<1>3. Selecting(g, <<>>, s, wanted)
  <2>1. \A n \in 0 .. Len(s) :
          g[n] = IF n = 0 THEN <<>>
                 ELSE IF s[n] \in wanted THEN Append(g[n - 1], s[n]) ELSE g[n - 1]
    BY <1>1, Zenon DEF Loop
  <2>2. 0 \in 0 .. Len(s) /\ \A n \in 1 .. Len(s) : n \in 0 .. Len(s) /\ n # 0
    BY <1>0
  <2> QED
    BY <2>1, <2>2, Zenon DEF Selecting
<1> QED
  BY <1>2, <1>3

\* h says from where each kept element was taken: in order, and all of them.
Traces(h, n, s, wanted, kept) ==
    /\ h \in [1 .. Len(kept) -> 1 .. n]
    /\ \A i \in 1 .. Len(kept) : kept[i] = s[h[i]] /\ kept[i] \in wanted
    /\ \A i, j \in 1 .. Len(kept) : i < j => h[i] < h[j]
    /\ \A m \in 1 .. n : s[m] \in wanted => \E i \in 1 .. Len(kept) : h[i] = m

\* What is kept is an ordered part of the sequence: all its wanted elements.
LEMMA Selection ==
  ASSUME NEW S, NEW s \in Seq(S), NEW wanted
  PROVE  /\ SelectIn(s, wanted) \in Seq(S)
         /\ \E h : Traces(h, Len(s), s, wanted, SelectIn(s, wanted))
<1>0. Len(s) \in Nat /\ \A i \in 1 .. Len(s) : s[i] \in S
  OBVIOUS
<1>2. PICK g : SelectIn(s, wanted) = g[Len(s)] /\ Selecting(g, <<>>, s, wanted)
  BY SelectLoop, Zenon
<1>3. /\ g[0] = <<>>
      /\ \A n \in 1 .. Len(s) :
            g[n] = IF s[n] \in wanted THEN Append(g[n - 1], s[n]) ELSE g[n - 1]
  BY <1>2, Zenon DEF Selecting
<1> DEFINE Kept(n) == g[n] \in Seq(S) /\ \E h : Traces(h, n, s, wanted, g[n])
           P == {n \in Nat : n <= Len(s) => Kept(n)}
<1>4. 0 \in P
  <2> DEFINE h == [i \in 1 .. 0 |-> i]
  <2>1. g[0] \in Seq(S) /\ Len(g[0]) = 0
    BY <1>3
  <2>2. Traces(h, 0, s, wanted, g[0])
    BY <2>1 DEF Traces
  <2> QED
    BY <2>1, <2>2
<1>5. ASSUME NEW n \in P
      PROVE  n + 1 \in P
  <2> SUFFICES ASSUME n + 1 <= Len(s)
               PROVE  Kept(n + 1)
    OBVIOUS
  <2>1. g[n] \in Seq(S) /\ \E h : Traces(h, n, s, wanted, g[n])
    BY <1>0, <1>5
  <2>2. PICK h : Traces(h, n, s, wanted, g[n])
    BY <2>1
  <2>3. n + 1 \in 1 .. Len(s) /\ s[n + 1] \in S /\ (n + 1) - 1 = n /\ n \in Nat
    BY <1>0
  <2>4. CASE s[n + 1] \in wanted
    <3>1. g[n + 1] = Append(g[n], s[n + 1])
      BY <1>3, <2>3, <2>4
    <3>2. /\ Len(g[n + 1]) = Len(g[n]) + 1 /\ Len(g[n]) \in Nat
          /\ g[n + 1] \in Seq(S)
          /\ g[n + 1][Len(g[n]) + 1] = s[n + 1]
          /\ \A i \in 1 .. Len(g[n]) : g[n + 1][i] = g[n][i]
      BY <2>1, <2>3, <3>1
    <3> DEFINE h1 == [i \in 1 .. Len(g[n]) + 1 |-> IF i = Len(g[n]) + 1 THEN n + 1 ELSE h[i]]
    <3>3. h1 \in [1 .. Len(g[n + 1]) -> 1 .. n + 1]
      BY <2>2, <2>3, <3>2 DEF Traces
    <3>4. \A i \in 1 .. Len(g[n]) : h1[i] = h[i] /\ h[i] \in 1 .. n
      <4> TAKE i \in 1 .. Len(g[n])
      <4>1. h[i] \in 1 .. n
        BY <2>2 DEF Traces
      <4>2. i \in 1 .. Len(g[n]) + 1 /\ i # Len(g[n]) + 1
        BY <3>2
      <4> QED
        BY <4>1, <4>2
    <3>5. h1[Len(g[n]) + 1] = n + 1
      BY <3>2
    <3> HIDE DEF h1
    <3>6. \A i \in 1 .. Len(g[n + 1]) :
             g[n + 1][i] = s[h1[i]] /\ g[n + 1][i] \in wanted
      <4> TAKE i \in 1 .. Len(g[n + 1])
      <4>1. CASE i = Len(g[n]) + 1
        BY <2>4, <3>2, <3>5, <4>1
      <4>2. CASE i \in 1 .. Len(g[n])
        BY <2>2, <3>2, <3>4, <4>2 DEF Traces
      <4> QED
        BY <3>2, <4>1, <4>2
    <3>7. \A i, j \in 1 .. Len(g[n + 1]) : i < j => h1[i] < h1[j]
      <4> TAKE i, j \in 1 .. Len(g[n + 1])
      <4> HAVE i < j
      <4>1. i \in 1 .. Len(g[n])
        BY <3>2
      <4>2. CASE j = Len(g[n]) + 1
        BY <2>3, <3>4, <3>5, <4>1, <4>2
      <4>3. CASE j \in 1 .. Len(g[n])
        BY <2>2, <3>4, <4>1, <4>3 DEF Traces
      <4> QED
        BY <3>2, <4>2, <4>3
    <3>8. \A m \in 1 .. n + 1 : s[m] \in wanted => \E i \in 1 .. Len(g[n + 1]) : h1[i] = m
      <4> TAKE m \in 1 .. n + 1
      <4> HAVE s[m] \in wanted
      <4>1. CASE m = n + 1
        BY <3>2, <3>5, <4>1
      <4>2. CASE m \in 1 .. n
        <5>1. PICK i \in 1 .. Len(g[n]) : h[i] = m
          BY <2>2, <4>2 DEF Traces
        <5>2. h1[i] = m
          BY <3>4, <5>1, Zenon
        <5>3. i \in 1 .. Len(g[n + 1])
          BY <3>2
        <5> QED
          BY <5>2, <5>3
      <4> QED
        BY <2>3, <4>1, <4>2
    <3>9. Traces(h1, n + 1, s, wanted, g[n + 1])
      BY <3>3, <3>6, <3>7, <3>8 DEF Traces
    <3> QED
      BY <3>2, <3>9
  <2>5. CASE s[n + 1] \notin wanted
    <3>1. g[n + 1] = g[n]
      BY <1>3, <2>3, <2>5
    <3>2. Len(g[n]) \in Nat
      BY <2>1
    <3>3. h \in [1 .. Len(g[n]) -> 1 .. n + 1]
      BY <2>2, <2>3 DEF Traces
    <3>4. \A m \in 1 .. n + 1 : s[m] \in wanted => m \in 1 .. n
      BY <2>3, <2>5
    <3>5. Traces(h, n + 1, s, wanted, g[n])
      BY <2>2, <3>3, <3>4 DEF Traces
    <3> QED
      BY <2>1, <3>1, <3>5
  <2> QED
    BY <2>4, <2>5
<1>6. P = Nat
  <2> HIDE DEF Kept
  <2>1. P \in SUBSET Nat
    OBVIOUS
  <2> QED
    BY <1>4, <1>5, <2>1, Induction
<1>7. Kept(Len(s))
  <2> HIDE DEF Kept
  <2> QED
    BY <1>0, <1>6
<1> QED
  BY <1>2, <1>7

-----------------------------------------------------------------------------
\* Elements of which none is wanted leave nothing.
LEMMA SelectNone ==
  ASSUME NEW S, NEW s \in Seq(S), NEW wanted, \A i \in 1 .. Len(s) : s[i] \notin wanted
  PROVE  SelectIn(s, wanted) = <<>>
<1>0. PICK g : SelectIn(s, wanted) = g[Len(s)] /\ Selecting(g, <<>>, s, wanted)
  BY SelectLoop, Zenon
<1> DEFINE P == {n \in Nat : n <= Len(s) => g[n] = <<>>}
<1>s. /\ g[0] = <<>>
      /\ \A n \in 1 .. Len(s) :
            g[n] = IF s[n] \in wanted THEN Append(g[n - 1], s[n]) ELSE g[n - 1]
  BY <1>0, Zenon DEF Selecting
<1>1. Len(s) \in Nat /\ 0 \in P /\ P \in SUBSET Nat
  BY <1>s
<1>2. ASSUME NEW n \in P
      PROVE  n + 1 \in P
  <2> SUFFICES ASSUME n + 1 <= Len(s)
               PROVE  g[n + 1] = <<>>
    OBVIOUS
  <2>1. n + 1 \in 1 .. Len(s) /\ (n + 1) - 1 = n /\ g[n] = <<>>
    BY <1>1
  <2> QED
    BY <1>s, <2>1
<1>3. P = Nat
  <2> HIDE DEF P
  <2> QED
    BY <1>1, <1>2, Induction
<1> QED
  BY <1>0, <1>1, <1>3

\* Elements that are all wanted are all kept.
LEMMA SelectAll ==
  ASSUME NEW S, NEW s \in Seq(S), NEW wanted, \A i \in 1 .. Len(s) : s[i] \in wanted
  PROVE  SelectIn(s, wanted) = s
<1>0. PICK g : SelectIn(s, wanted) = g[Len(s)] /\ Selecting(g, <<>>, s, wanted)
  BY SelectLoop, Zenon
<1> DEFINE Whole(n) == g[n] \in Seq(S) /\ Len(g[n]) = n /\ \A i \in 1 .. n : g[n][i] = s[i]
           P == {n \in Nat : n <= Len(s) => Whole(n)}
<1>s. /\ g[0] = <<>>
      /\ \A n \in 1 .. Len(s) :
            g[n] = IF s[n] \in wanted THEN Append(g[n - 1], s[n]) ELSE g[n - 1]
  BY <1>0, Zenon DEF Selecting
<1>1. Len(s) \in Nat /\ 0 \in P /\ P \in SUBSET Nat
  <2>1. Whole(0)
    BY <1>s
  <2> HIDE DEF Whole
  <2> QED
    BY <2>1
<1>2. ASSUME NEW n \in P
      PROVE  n + 1 \in P
  <2> SUFFICES ASSUME n + 1 <= Len(s)
               PROVE  Whole(n + 1)
    OBVIOUS
  <2>1. n + 1 \in 1 .. Len(s) /\ (n + 1) - 1 = n /\ Whole(n) /\ s[n + 1] \in S /\ n \in Nat
    BY <1>1
  <2>2. g[n + 1] = Append(g[n], s[n + 1])
    BY <1>s, <2>1
  <2> QED
    BY <2>1, <2>2
<1>3. P = Nat
  <2> HIDE DEF P
  <2> QED
    BY <1>1, <1>2, Induction
<1>4. Whole(Len(s))
  BY <1>1, <1>3
<1> QED
  BY <1>0, <1>4

\* c is a and then b.
Joined(a, b, c) == c = a \o b

\* What is selected after p is p and then what is selected.
LEMMA SelectAfter ==
  ASSUME NEW S, NEW p \in Seq(S), NEW t \in Seq(S), NEW wanted, NEW g, NEW h,
         Selecting(g, <<>>, t, wanted), Selecting(h, p, t, wanted)
  PROVE  Joined(p, g[Len(t)], h[Len(t)])
<1>1. \A q \in Seq(S), a \in S : Append(p \o q, a) = p \o Append(q, a)
  <2> TAKE q \in Seq(S), a \in S
  <2> DEFINE x == Append(p \o q, a)
             y == p \o Append(q, a)
  <2>1. x \in Seq(S) /\ Len(x) = Len(p) + Len(q) + 1 /\ Len(p) \in Nat /\ Len(q) \in Nat
    OBVIOUS
  <2>2. y \in Seq(S) /\ Len(y) = Len(p) + (Len(q) + 1)
    <3>1. Append(q, a) \in Seq(S) /\ Len(Append(q, a)) = Len(q) + 1
      OBVIOUS
    <3> QED
      BY <3>1
  <2>3. \A i \in 1 .. Len(p) + Len(q) + 1 : x[i] = y[i]
    <3> TAKE i \in 1 .. Len(p) + Len(q) + 1
    <3>1. CASE i <= Len(p)
      BY <2>1, <3>1
    <3>2. CASE i > Len(p) /\ i <= Len(p) + Len(q)
      BY <2>1, <3>2
    <3>3. CASE i = Len(p) + Len(q) + 1
      BY <2>1, <3>3
    <3> QED
      BY <2>1, <3>1, <3>2, <3>3
  <2> HIDE DEF x, y
  <2>4. x = [i \in 1 .. Len(p) + Len(q) + 1 |-> x[i]] /\ y = [i \in 1 .. Len(p) + Len(q) + 1 |-> y[i]]
    BY <2>1, <2>2
  <2>5. x = y
    BY <2>3, <2>4
  <2> QED
    BY <2>5 DEF x, y
<1>2. Len(t) \in Nat /\ \A n \in 1 .. Len(t) : t[n] \in S
  OBVIOUS
<1> DEFINE Whole(n) == g[n] \in Seq(S) /\ h[n] = p \o g[n]
           P == {n \in Nat : n <= Len(t) => Whole(n)}
<1>3. 0 \in P /\ P \in SUBSET Nat
  <2>1. g[0] = <<>> /\ h[0] = p /\ p \o <<>> = p
    BY DEF Selecting
  <2>2. Whole(0)
    BY <2>1
  <2> HIDE DEF Whole
  <2> QED
    BY <2>2
<1>4. ASSUME NEW n \in P
      PROVE  n + 1 \in P
  <2> SUFFICES ASSUME n + 1 <= Len(t)
               PROVE  Whole(n + 1)
    <3> HIDE DEF Whole
    <3> QED
      OBVIOUS
  <2>1. n \in Nat /\ n <= Len(t) /\ Whole(n)
    <3> HIDE DEF Whole
    <3> QED
      BY <1>2
  <2>2. n + 1 \in 1 .. Len(t) /\ (n + 1) - 1 = n /\ t[n + 1] \in S
    BY <1>2, <2>1
  <2>3. /\ g[n + 1] = IF t[n + 1] \in wanted THEN Append(g[n], t[n + 1]) ELSE g[n]
        /\ h[n + 1] = IF t[n + 1] \in wanted THEN Append(h[n], t[n + 1]) ELSE h[n]
    BY <2>2 DEF Selecting
  <2>4. g[n] \in Seq(S) /\ h[n] = p \o g[n]
    BY <2>1
  <2>5. CASE t[n + 1] \in wanted
    <3>1. Append(p \o g[n], t[n + 1]) = p \o Append(g[n], t[n + 1])
      BY <1>1, <2>2, <2>4
    <3>2. Append(g[n], t[n + 1]) \in Seq(S)
      BY <2>2, <2>4
    <3> QED
      BY <2>3, <2>4, <2>5, <3>1, <3>2
  <2>6. CASE t[n + 1] \notin wanted
    BY <2>3, <2>4, <2>6
  <2> QED
    BY <2>5, <2>6
<1>5. Whole(Len(t))
  <2>1. P = Nat
    <3> HIDE DEF P
    <3> QED
      BY <1>3, <1>4, Induction
  <2> HIDE DEF Whole
  <2> QED
    BY <1>2, <2>1
<1> QED
  BY <1>5 DEF Joined

\* The selection of a concatenation is that of its parts.
LEMMA SelectConcat ==
  ASSUME NEW S, NEW s \in Seq(S), NEW t \in Seq(S), NEW wanted, NEW u, Joined(s, t, u)
  PROVE  Joined(SelectIn(s, wanted), SelectIn(t, wanted), SelectIn(u, wanted))
<1>0. /\ u \in Seq(S) /\ Len(s) \in Nat /\ Len(t) \in Nat /\ Len(u) = Len(s) + Len(t)
      /\ \A n \in 1 .. Len(s) : u[n] = s[n]
      /\ \A n \in 1 .. Len(t) : u[Len(s) + n] = t[n] /\ t[n] \in S
  BY DEF Joined
<1>1. PICK f : SelectIn(s, wanted) = f[Len(s)] /\ Selecting(f, <<>>, s, wanted)
  BY SelectLoop, Zenon
<1>2. PICK g : SelectIn(t, wanted) = g[Len(t)] /\ Selecting(g, <<>>, t, wanted)
  BY SelectLoop, Zenon
<1>3. PICK h : SelectIn(u, wanted) = h[Len(u)] /\ Selecting(h, <<>>, u, wanted)
  BY <1>0, SelectLoop, Zenon
<1> DEFINE First == {n \in Nat : n <= Len(s) => h[n] = f[n]}
<1>4. 0 \in First /\ First \in SUBSET Nat
  BY <1>1, <1>3 DEF Selecting
<1>5. ASSUME NEW n \in First
      PROVE  n + 1 \in First
  <2> SUFFICES ASSUME n + 1 <= Len(s)
               PROVE  h[n + 1] = f[n + 1]
    OBVIOUS
  <2>1. n + 1 \in 1 .. Len(s) /\ n + 1 \in 1 .. Len(u) /\ (n + 1) - 1 = n /\ h[n] = f[n]
        /\ u[n + 1] = s[n + 1]
    BY <1>0
  <2> QED
    BY <1>1, <1>3, <2>1 DEF Selecting
<1>6. h[Len(s)] = f[Len(s)]
  <2>1. First = Nat
    <3> HIDE DEF First
    <3> QED
      BY <1>4, <1>5, Induction
  <2> QED
    BY <1>0, <2>1
<1>7. f[Len(s)] \in Seq(S)
  BY <1>1, Selection
<1> DEFINE k == [n \in 0 .. Len(t) |-> h[Len(s) + n]]
<1>8. Selecting(k, f[Len(s)], t, wanted) /\ k[Len(t)] = h[Len(u)]
  <2>1. k[0] = h[Len(s)] /\ k[Len(t)] = h[Len(u)]
    BY <1>0
  <2>2. ASSUME NEW n \in 1 .. Len(t)
        PROVE  k[n] = IF t[n] \in wanted THEN Append(k[n - 1], t[n]) ELSE k[n - 1]
    <3>1. /\ Len(s) + n \in 1 .. Len(u) /\ (Len(s) + n) - 1 = Len(s) + (n - 1)
          /\ n - 1 \in 0 .. Len(t) /\ n \in 0 .. Len(t) /\ u[Len(s) + n] = t[n]
      BY <1>0
    <3>2. k[n] = h[Len(s) + n] /\ k[n - 1] = h[Len(s) + (n - 1)]
      BY <3>1
    <3> HIDE DEF k
    <3> QED
      BY <1>3, <3>1, <3>2 DEF Selecting
  <2> HIDE DEF k
  <2> QED
    BY <1>6, <2>1, <2>2 DEF Selecting
<1> HIDE DEF k
<1>9. PICK p \in Seq(S) : p = f[Len(s)]
  BY <1>7
<1>10. Selecting(k, p, t, wanted)
  BY <1>8, <1>9
<1>11. Joined(p, g[Len(t)], k[Len(t)])
  BY <1>2, <1>10, SelectAfter
<1> QED
  BY <1>1, <1>2, <1>3, <1>8, <1>9, <1>11 DEF Joined
=============================================================================
