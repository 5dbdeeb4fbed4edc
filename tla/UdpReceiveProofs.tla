-------------------------- MODULE UdpReceiveProofs --------------------------
(***************************************************************************)
(* The type and the safety of UDP's queues, and that they keep the promise *)
(* of PortQueues, for every number of packets, sockets and ports and every *)
(* capacity.                                                               *)
(***************************************************************************)
EXTENDS UdpReceive, WellFoundedInduction, TLAPS

IInv == TypeOK /\ QueuesAreOwn

-----------------------------------------------------------------------------
(* Sequences *)

LEMMA TailFacts ==
  ASSUME NEW S, NEW s \in Seq(S), s # << >>
  PROVE  /\ Head(s) \in S /\ Tail(s) \in Seq(S)
         /\ Len(Tail(s)) = Len(s) - 1 /\ Len(s) \in Nat
         /\ ToSet(s) = ToSet(Tail(s)) \cup {Head(s)}
<1>1. /\ Head(s) \in S /\ Tail(s) \in Seq(S)
      /\ Len(Tail(s)) = Len(s) - 1 /\ Len(s) \in Nat /\ Len(s) > 0
  OBVIOUS
<1>2. /\ Head(s) = s[1]
      /\ \A k \in 1 .. Len(s) - 1 : Tail(s)[k] = s[k + 1]
  OBVIOUS
<1>3. DOMAIN s = 1 .. Len(s) /\ DOMAIN Tail(s) = 1 .. Len(s) - 1
  BY <1>1
<1>4. ASSUME NEW k \in DOMAIN s PROVE s[k] \in ToSet(Tail(s)) \cup {Head(s)}
  <2>1. CASE k = 1
    BY <2>1, <1>2
  <2>2. CASE k # 1
    <3>1. k - 1 \in 1 .. Len(s) - 1 /\ Tail(s)[k - 1] = s[k]
      BY <2>2, <1>1, <1>2, <1>3
    <3>2. QED
      BY <3>1, <1>3 DEF ToSet
  <2>3. QED
    BY <2>1, <2>2
<1>5. ASSUME NEW k \in DOMAIN Tail(s) PROVE Tail(s)[k] \in ToSet(s)
  <2>1. k + 1 \in DOMAIN s /\ Tail(s)[k] = s[k + 1]
    BY <1>1, <1>2, <1>3
  <2>2. QED
    BY <2>1 DEF ToSet
<1>6. Head(s) \in ToSet(s)
  BY <1>1, <1>2, <1>3 DEF ToSet
<1>7. QED
  BY <1>1, <1>4, <1>5, <1>6, Zenon DEF ToSet

LEMMA AppendFacts ==
  ASSUME NEW S, NEW s \in Seq(S), NEW e \in S
  PROVE  /\ Append(s, e) \in Seq(S)
         /\ Len(Append(s, e)) = Len(s) + 1 /\ Len(s) \in Nat
         /\ ToSet(Append(s, e)) = ToSet(s) \cup {e}
<1>1. /\ Append(s, e) \in Seq(S)
      /\ Len(Append(s, e)) = Len(s) + 1 /\ Len(s) \in Nat
      /\ Append(s, e)[Len(s) + 1] = e
      /\ \A k \in 1 .. Len(s) : Append(s, e)[k] = s[k]
  OBVIOUS
<1>2. DOMAIN s = 1 .. Len(s) /\ DOMAIN Append(s, e) = 1 .. Len(s) + 1
  BY <1>1
<1>3. QED
  BY <1>1, <1>2 DEF ToSet

LEMMA EmptyFacts ==
  ASSUME NEW S
  PROVE  << >> \in Seq(S) /\ Len(<< >>) = 0 /\ ToSet(<< >>) = {}
  BY DEF ToSet

-----------------------------------------------------------------------------
(* Parts of sequences *)

\* A nonempty set of naturals has a least element.
LEMMA Least ==
  ASSUME NEW S \in SUBSET Nat, S # {}
  PROVE  \E m \in S : \A k \in S : m <= k
<1>1. PICK m \in S : \A k \in S : ~(<<k, m>> \in OpToRel(<, Nat))
  BY NatLessThanWellFounded, WFMin, Zenon
<1>2. \A k \in S : ~(k < m)
  BY <1>1 DEF OpToRel
<1> QED
  BY <1>2

\* A set of naturals that has 0 and with every number the next has them all.
LEMMA Induction ==
  ASSUME NEW S \in SUBSET Nat, 0 \in S, \A n \in S : n + 1 \in S
  PROVE  S = Nat
<1>1. SUFFICES ASSUME Nat \ S # {}
               PROVE  FALSE
  OBVIOUS
<1>2. PICK m \in Nat \ S : \A k \in Nat \ S : m <= k
  BY <1>1, Least
<1>3. m # 0 /\ m - 1 \in Nat /\ ~(m <= m - 1)
  BY <1>2
<1>4. m - 1 \in S
  BY <1>2, <1>3
<1>5. m - 1 + 1 \in S
  BY <1>4
<1> QED
  BY <1>2, <1>5

\* A sequence that is not empty is one with its last element appended.
LEMMA LastAppended ==
  ASSUME NEW T, NEW n \in Nat, NEW s \in Seq(T), Len(s) = n + 1
  PROVE  /\ SubSeq(s, 1, n) \in Seq(T) /\ Len(SubSeq(s, 1, n)) = n /\ s[n + 1] \in T
         /\ s = Append(SubSeq(s, 1, n), s[n + 1])
<1> DEFINE t == SubSeq(s, 1, n)
<1>1. t \in Seq(T) /\ Len(t) = n /\ s[n + 1] \in T /\ \A k \in 1 .. n : t[k] = s[k]
  OBVIOUS
<1> HIDE DEF t
<1>2. Append(t, s[n + 1]) = s
  BY <1>1
<1> QED
  BY <1>1, <1>2 DEF t

\* A set of sequences that has the empty one, and with every sequence the longer
\* ones, has them all.
LEMMA SequenceInduction ==
  ASSUME NEW T, NEW S \in SUBSET Seq(T), << >> \in S,
         \A s \in S : \A e \in T : Append(s, e) \in S
  PROVE  S = Seq(T)
<1> DEFINE N == {n \in Nat : \A s \in Seq(T) : Len(s) = n => s \in S}
<1>1. 0 \in N
  <2>1. \A s \in Seq(T) : Len(s) = 0 => s = << >>
    OBVIOUS
  <2> QED
    BY <2>1
<1>2. ASSUME NEW n \in N PROVE n + 1 \in N
  <2>1. n \in Nat /\ n + 1 \in Nat
    OBVIOUS
  <2>2. SUFFICES ASSUME NEW s \in Seq(T), Len(s) = n + 1 PROVE s \in S
    BY <2>1
  <2>3. /\ SubSeq(s, 1, n) \in Seq(T) /\ Len(SubSeq(s, 1, n)) = n /\ s[n + 1] \in T
        /\ s = Append(SubSeq(s, 1, n), s[n + 1])
    BY <2>1, <2>2, LastAppended
  <2>4. SubSeq(s, 1, n) \in S
    BY <2>3
  <2> QED
    BY <2>3, <2>4, Zenon
<1>3. N \in SUBSET Nat
  OBVIOUS
<1> HIDE DEF N
<1>4. N = Nat
  BY <1>1, <1>2, <1>3, Induction
<1>5. \A s \in Seq(T) : Len(s) \in N
  BY <1>4
<1> QED
  BY <1>5 DEF N

\* f is a function on 0 .. n.
IsOn(f, n) == f = [k \in 0 .. n |-> f[k]]

\* f picks the members of S from the first n members of s.
Picks(s, S, n, f) ==
  /\ IsOn(f, n)
  /\ f[0] = << >>
  /\ \A k \in 1 .. n : f[k] = IF s[k] \in S THEN Append(f[k - 1], s[k]) ELSE f[k - 1]

\* There is such a function, by induction on the first n members.
LEMMA PicksExist ==
  ASSUME NEW s, NEW S, NEW m \in Nat
  PROVE  \E f : Picks(s, S, m, f)
<1> DEFINE N == {n \in Nat : \E f : Picks(s, S, n, f)}
<1>1. 0 \in N
  <2>1. Picks(s, S, 0, [k \in 0 .. 0 |-> << >>])
    BY DEF Picks, IsOn
  <2> QED
    BY <2>1
<1>2. ASSUME NEW n \in N PROVE n + 1 \in N
  <2>1. n \in Nat /\ n + 1 \in Nat /\ n + 1 - 1 = n
    OBVIOUS
  <2>2. PICK f : Picks(s, S, n, f)
    OBVIOUS
  <2> DEFINE e == IF s[n + 1] \in S THEN Append(f[n], s[n + 1]) ELSE f[n]
             g == [k \in 0 .. n + 1 |-> IF k = n + 1 THEN e ELSE f[k]]
  <2> HIDE DEF e
  <2>3. /\ IsOn(g, n + 1)
        /\ \A k \in 0 .. n : g[k] = f[k]
        /\ g[n + 1] = e
    BY <2>1 DEF IsOn
  <2> HIDE DEF g
  <2>4. g[0] = << >>
    BY <2>1, <2>2, <2>3 DEF Picks
  <2>5. ASSUME NEW k \in 1 .. n + 1
        PROVE  g[k] = IF s[k] \in S THEN Append(g[k - 1], s[k]) ELSE g[k - 1]
    <3>1. CASE k = n + 1
      <4>1. k - 1 = n /\ n \in 0 .. n
        BY <2>1, <3>1
      <4> QED
        BY <2>3, <3>1, <4>1 DEF e
    <3>2. CASE k # n + 1
      <4>1. k \in 1 .. n /\ k \in 0 .. n /\ k - 1 \in 0 .. n
        BY <2>1, <3>2
      <4> QED
        BY <2>2, <2>3, <4>1 DEF Picks
    <3> QED
      BY <3>1, <3>2
  <2>6. Picks(s, S, n + 1, g)
    BY <2>3, <2>4, <2>5 DEF Picks
  <2> QED
    BY <2>1, <2>6
<1>3. N \in SUBSET Nat
  OBVIOUS
<1> HIDE DEF N
<1>4. N = Nat
  BY <1>1, <1>2, <1>3, Induction
<1> QED
  BY <1>4 DEF N

\* Two that pick from sequences with the same first n members agree there.
LEMMA PicksAgree ==
  ASSUME NEW s, NEW t, NEW S, NEW m \in Nat, NEW l \in Nat, NEW n \in Nat, n <= m, n <= l,
         NEW f, NEW g, Picks(s, S, m, f), Picks(t, S, l, g),
         \A k \in 1 .. n : s[k] = t[k]
  PROVE  f[n] = g[n]
<1> DEFINE N == {k \in Nat : k <= n => f[k] = g[k]}
<1>1. 0 \in N
  BY DEF Picks
<1>2. ASSUME NEW k \in N PROVE k + 1 \in N
  <2>1. k \in Nat /\ k + 1 \in Nat /\ k + 1 - 1 = k
    OBVIOUS
  <2>2. SUFFICES ASSUME k + 1 <= n PROVE f[k + 1] = g[k + 1]
    BY <2>1
  <2>3. f[k] = g[k]
    BY <2>1, <2>2
  <2>4. k + 1 \in 1 .. m /\ k + 1 \in 1 .. l /\ s[k + 1] = t[k + 1]
    BY <2>1, <2>2
  <2> QED
    BY <2>1, <2>3, <2>4 DEF Picks
<1>3. N \in SUBSET Nat
  OBVIOUS
<1> HIDE DEF N
<1>4. N = Nat
  BY <1>1, <1>2, <1>3, Induction
<1>5. n \in N
  BY <1>4
<1> QED
  BY <1>5 DEF N

\* Only is where such a function ends.
LEMMA OnlyIs ==
  ASSUME NEW T, NEW s \in Seq(T), NEW S
  PROVE  \E f : Picks(s, S, Len(s), f) /\ Only(s, S) = f[Len(s)]
<1> DEFINE Eq(f) == f = [k \in 0 .. Len(s) |->
                           IF k = 0 THEN << >>
                           ELSE IF s[k] \in S THEN Append(f[k - 1], s[k]) ELSE f[k - 1]]
<1>1. Len(s) \in Nat
  OBVIOUS
<1>2. PICK f : Picks(s, S, Len(s), f)
  BY <1>1, PicksExist
<1>3. \A k \in 0 .. Len(s) :
        f[k] = IF k = 0 THEN << >> ELSE IF s[k] \in S THEN Append(f[k - 1], s[k]) ELSE f[k - 1]
  BY <1>1, <1>2 DEF Picks
<1>4. Eq(f)
  BY <1>2, <1>3 DEF Picks, IsOn
<1>5. Eq(CHOOSE g : Eq(g))
  BY <1>4
<1> DEFINE h == CHOOSE g : Eq(g)
<1>6. Only(s, S) = h[Len(s)]
  BY DEF Only
<1>7. Eq(h)
  BY <1>5
<1> HIDE DEF h
<1>8. \A k \in 0 .. Len(s) :
        h[k] = IF k = 0 THEN << >> ELSE IF s[k] \in S THEN Append(h[k - 1], s[k]) ELSE h[k - 1]
  BY <1>7
<1>9. IsOn(h, Len(s))
  BY <1>7, <1>8 DEF IsOn
<1>10. Picks(s, S, Len(s), h)
  BY <1>1, <1>8, <1>9 DEF Picks
<1> QED
  BY <1>6, <1>10

LEMMA OnlyEmpty == \A S : Only(<< >>, S) = << >>
<1> TAKE S
<1> DEFINE s == << >>
<1>1. s \in Seq({}) /\ Len(s) = 0
  OBVIOUS
<1> HIDE DEF s
<1>2. PICK f : Picks(s, S, Len(s), f) /\ Only(s, S) = f[Len(s)]
  BY <1>1, OnlyIs
<1>3. Only(s, S) = << >>
  BY <1>1, <1>2 DEF Picks
<1> QED
  BY <1>3 DEF s

LEMMA OnlyAppend ==
  ASSUME NEW T, NEW s \in Seq(T), NEW e \in T, NEW S
  PROVE  Only(Append(s, e), S) = IF e \in S THEN Append(Only(s, S), e) ELSE Only(s, S)
<1> DEFINE t == Append(s, e)
           n == Len(s)
<1>1. /\ t \in Seq(T) /\ n \in Nat /\ Len(t) = n + 1 /\ t[n + 1] = e
      /\ \A k \in 1 .. n : s[k] = t[k]
  OBVIOUS
<1>2. PICK f : Picks(s, S, n, f) /\ Only(s, S) = f[n]
  BY OnlyIs
<1> HIDE DEF t
<1>3. PICK g : Picks(t, S, Len(t), g) /\ Only(t, S) = g[Len(t)]
  BY <1>1, OnlyIs
<1> HIDE DEF n
<1>4. f[n] = g[n]
  BY <1>1, <1>2, <1>3, PicksAgree
<1>5. n + 1 \in 1 .. Len(t) /\ n + 1 - 1 = n
  BY <1>1
<1>6. g[n + 1] = IF e \in S THEN Append(g[n], e) ELSE g[n]
  BY <1>1, <1>3, <1>5 DEF Picks
<1>7. Only(t, S) = IF e \in S THEN Append(Only(s, S), e) ELSE Only(s, S)
  BY <1>1, <1>2, <1>3, <1>4, <1>6
<1> QED
  BY <1>7 DEF t

LEMMA OnlyType ==
  ASSUME NEW T, NEW s \in Seq(T), NEW S
  PROVE  Only(s, S) \in Seq(T) /\ ToSet(Only(s, S)) = ToSet(s) \cap S
<1> DEFINE I == {q \in Seq(T) : Only(q, S) \in Seq(T) /\ ToSet(Only(q, S)) = ToSet(q) \cap S}
<1>1. << >> \in I
  <2> DEFINE nothing == << >>
  <2>1. nothing \in Seq(T) /\ ToSet(nothing) = {}
    BY EmptyFacts
  <2>2. Only(nothing, S) = nothing
    BY OnlyEmpty
  <2> HIDE DEF nothing
  <2>3. nothing \in I
    BY <2>1, <2>2
  <2> QED
    BY <2>3 DEF nothing
<1>2. ASSUME NEW q \in I, NEW e \in T PROVE Append(q, e) \in I
  <2>1. q \in Seq(T) /\ Only(q, S) \in Seq(T) /\ ToSet(Only(q, S)) = ToSet(q) \cap S
    OBVIOUS
  <2>2. Append(q, e) \in Seq(T) /\ ToSet(Append(q, e)) = ToSet(q) \cup {e}
    BY <2>1, AppendFacts
  <2>3. CASE e \in S
    <3>1. Only(Append(q, e), S) = Append(Only(q, S), e)
      BY <2>1, <2>3, OnlyAppend
    <3>2. /\ Append(Only(q, S), e) \in Seq(T)
          /\ ToSet(Append(Only(q, S), e)) = ToSet(Only(q, S)) \cup {e}
      BY <2>1, AppendFacts
    <3> QED
      BY <2>1, <2>2, <2>3, <3>1, <3>2
  <2>4. CASE e \notin S
    <3>1. Only(Append(q, e), S) = Only(q, S)
      BY <2>1, <2>4, OnlyAppend
    <3> QED
      BY <2>1, <2>2, <2>4, <3>1
  <2> QED
    BY <2>3, <2>4
<1>3. I \in SUBSET Seq(T)
  OBVIOUS
<1> HIDE DEF I
<1>4. I = Seq(T)
  BY <1>1, <1>2, <1>3, SequenceInduction
<1> QED
  BY <1>4 DEF I

LEMMA AppendConcat ==
  ASSUME NEW T, NEW s \in Seq(T), NEW t \in Seq(T), NEW e \in T
  PROVE  s \o Append(t, e) = Append(s \o t, e)
OBVIOUS

LEMMA OnlyConcat ==
  ASSUME NEW T, NEW s \in Seq(T), NEW t \in Seq(T), NEW S
  PROVE  Only(s \o t, S) = Only(s, S) \o Only(t, S)
<1> DEFINE I == {q \in Seq(T) : Only(s \o q, S) = Only(s, S) \o Only(q, S)}
<1>0. Only(s, S) \in Seq(T)
  BY OnlyType
<1>1. << >> \in I
  <2> DEFINE nothing == << >>
  <2>1. /\ nothing \in Seq(T) /\ Only(nothing, S) = nothing
        /\ s \o nothing = s /\ Only(s, S) \o nothing = Only(s, S)
    BY <1>0, OnlyEmpty
  <2> HIDE DEF nothing
  <2>2. nothing \in I
    BY <2>1
  <2> QED
    BY <2>2 DEF nothing
<1>2. ASSUME NEW q \in I, NEW e \in T PROVE Append(q, e) \in I
  <2>1. q \in Seq(T) /\ Only(s \o q, S) = Only(s, S) \o Only(q, S) /\ s \o q \in Seq(T)
    OBVIOUS
  <2>2. s \o Append(q, e) = Append(s \o q, e)
    BY <2>1, AppendConcat
  <2>3. Only(q, S) \in Seq(T)
    BY <2>1, OnlyType
  <2>4. Only(s, S) \o Append(Only(q, S), e) = Append(Only(s, S) \o Only(q, S), e)
    BY <1>0, <2>3, AppendConcat
  <2>5. Only(Append(s \o q, e), S) = IF e \in S THEN Append(Only(s \o q, S), e) ELSE Only(s \o q, S)
    <3> DEFINE c == s \o q
    <3>1. c \in Seq(T)
      BY <2>1
    <3> HIDE DEF c
    <3>2. Only(Append(c, e), S) = IF e \in S THEN Append(Only(c, S), e) ELSE Only(c, S)
      BY <3>1, OnlyAppend
    <3> QED
      BY <3>2 DEF c
  <2>6. Only(Append(q, e), S) = IF e \in S THEN Append(Only(q, S), e) ELSE Only(q, S)
    BY <2>1, OnlyAppend
  <2>7. Only(s \o Append(q, e), S) = Only(s, S) \o Only(Append(q, e), S)
    BY <2>1, <2>2, <2>4, <2>5, <2>6
  <2>8. Append(q, e) \in Seq(T)
    BY <2>1
  <2> QED
    BY <2>7, <2>8
<1>3. I \in SUBSET Seq(T)
  OBVIOUS
<1> HIDE DEF I
<1>4. I = Seq(T)
  BY <1>1, <1>2, <1>3, SequenceInduction
<1> QED
  BY <1>4 DEF I

Splits(T) == \A s, t \in Seq(T) : \A S : Only(s \o t, S) = Only(s, S) \o Only(t, S)

LEMMA SplitsAre == \A T : Splits(T)
BY OnlyConcat DEF Splits

\* All of a sequence, none of it, and what sets that agree on it pick.
LEMMA OnlyAll ==
  ASSUME NEW T, NEW s \in Seq(T), NEW S, ToSet(s) \subseteq S
  PROVE  Only(s, S) = s
<1> DEFINE I == {q \in Seq(T) : ToSet(q) \subseteq S => Only(q, S) = q}
<1>1. << >> \in I
  BY OnlyEmpty
<1>2. ASSUME NEW q \in I, NEW e \in T PROVE Append(q, e) \in I
  <2>1. Append(q, e) \in Seq(T) /\ ToSet(Append(q, e)) = ToSet(q) \cup {e}
    BY AppendFacts
  <2>2. ASSUME ToSet(Append(q, e)) \subseteq S PROVE Only(Append(q, e), S) = Append(q, e)
    <3>1. e \in S /\ Only(q, S) = q
      BY <2>1, <2>2
    <3> QED
      BY <3>1, OnlyAppend
  <2> QED
    BY <2>1, <2>2
<1>3. I \in SUBSET Seq(T)
  OBVIOUS
<1> HIDE DEF I
<1>4. I = Seq(T)
  BY <1>1, <1>2, <1>3, SequenceInduction
<1> QED
  BY <1>4 DEF I

LEMMA OnlySame ==
  ASSUME NEW T, NEW s \in Seq(T), NEW S, NEW R, \A e \in ToSet(s) : e \in S <=> e \in R
  PROVE  Only(s, S) = Only(s, R)
<1> DEFINE I == {q \in Seq(T) : (\A e \in ToSet(q) : e \in S <=> e \in R) => Only(q, S) = Only(q, R)}
<1>1. << >> \in I
  BY OnlyEmpty
<1>2. ASSUME NEW q \in I, NEW e \in T PROVE Append(q, e) \in I
  <2>1. Append(q, e) \in Seq(T) /\ ToSet(Append(q, e)) = ToSet(q) \cup {e}
    BY AppendFacts
  <2>2. ASSUME \A d \in ToSet(Append(q, e)) : d \in S <=> d \in R
        PROVE  Only(Append(q, e), S) = Only(Append(q, e), R)
    <3>1. (e \in S <=> e \in R) /\ Only(q, S) = Only(q, R)
      BY <2>1, <2>2
    <3>2. Only(Append(q, e), S) = IF e \in S THEN Append(Only(q, S), e) ELSE Only(q, S)
      BY OnlyAppend
    <3>3. Only(Append(q, e), R) = IF e \in R THEN Append(Only(q, R), e) ELSE Only(q, R)
      BY OnlyAppend
    <3> QED
      BY <3>1, <3>2, <3>3
  <2> QED
    BY <2>1, <2>2
<1>3. I \in SUBSET Seq(T)
  OBVIOUS
<1> HIDE DEF I
<1>4. I = Seq(T)
  BY <1>1, <1>2, <1>3, SequenceInduction
<1> QED
  BY <1>4 DEF I

LEMMA OnlyNone ==
  ASSUME NEW T, NEW s \in Seq(T), NEW S, ToSet(s) \cap S = {}
  PROVE  Only(s, S) = << >>
<1>1. Only(s, S) \in Seq(T) /\ ToSet(Only(s, S)) = {}
  BY OnlyType
<1>2. \A t \in Seq(T) : t # << >> => Head(t) \in ToSet(t)
  BY TailFacts
<1> QED
  BY <1>1, <1>2

\* The head of a sequence comes first, if it is picked.
LEMMA OnlyTail ==
  ASSUME NEW T, NEW s \in Seq(T), s # << >>, NEW S
  PROVE  Only(s, S) = IF Head(s) \in S THEN <<Head(s)>> \o Only(Tail(s), S) ELSE Only(Tail(s), S)
<1>1. /\ Head(s) \in T /\ Tail(s) \in Seq(T)
  BY TailFacts
<1> DEFINE e == Head(s)
           t == Tail(s)
           nothing == << >>
           h == Append(nothing, e)
<1>2. e \in T /\ t \in Seq(T) /\ nothing \in Seq(T) /\ h \in Seq(T)
  BY <1>1
<1>3. s = h \o t /\ h = <<e>> /\ nothing \o Only(t, S) = Only(t, S)
  BY <1>1, <1>2, OnlyType
<1>4. Only(nothing, S) = nothing
  BY OnlyEmpty
<1> HIDE DEF e, t, nothing
<1>5. Only(h, S) = IF e \in S THEN h ELSE nothing
  BY <1>2, <1>4, OnlyAppend
<1> HIDE DEF h
<1>6. Only(s, S) = Only(h, S) \o Only(t, S)
  <2>1. Only(h \o t, S) = Only(h, S) \o Only(t, S)
    <3>1. Splits(T) /\ h \in Seq(T) /\ t \in Seq(T)
      BY <1>2, SplitsAre
    <3>2. \A R : Only(h \o t, R) = Only(h, R) \o Only(t, R)
      BY ONLY <3>1, Zenon DEF Splits
    <3> QED
      BY <3>2
  <2> QED
    BY <1>3, <2>1
<1>7. Only(s, S) = IF e \in S THEN <<e>> \o Only(t, S) ELSE Only(t, S)
  BY <1>3, <1>5, <1>6
<1> QED
  BY <1>7 DEF e, t

-----------------------------------------------------------------------------
(* The invariant *)

LEMMA InitIInv == Init => IInv
<1> SUFFICES ASSUME Init PROVE IInv
  OBVIOUS
<1> DEFINE nothing == << >>
<1>1. nothing \in Seq(Packets) /\ Len(nothing) = 0 /\ ToSet(nothing) = {}
  BY EmptyFacts
<1>2. /\ queue = [s \in Sockets |-> nothing]
      /\ mailbox = nothing /\ stray = nothing
  BY DEF Init
<1> HIDE DEF nothing
<1>3. TypeOK
  <2>1. 0 <= MailboxLen /\ 0 <= IfaceLen /\ 0 <= QueueLen
    BY UdpAssumption
  <2>2. /\ mailbox \in Seq(Packets) /\ Len(mailbox) <= MailboxLen
        /\ stray \in Seq(Packets) /\ Len(stray) <= IfaceLen
    BY <1>1, <1>2, <2>1, Zenon
  <2>3. /\ queue \in [Sockets -> Seq(Packets)]
        /\ \A s \in Sockets : Len(queue[s]) = 0
    BY <1>1, <1>2
  <2>4. \A s \in Sockets : Len(queue[s]) <= QueueLen
    BY <2>1, <2>3, Zenon
  <2>5. QED
    BY <2>2, <2>3, <2>4 DEF Init, TypeOK, Destinations
<1>4. QueuesAreOwn
  BY <1>1, <1>2 DEF Init, QueuesAreOwn
<1>5. QED
  BY <1>3, <1>4 DEF IInv

\* Whatever is done with what the interface received, as long as the sockets
\* keep their ports and queues.
LEMMA TakenStep ==
  ASSUME IInv, Incoming,
         mailbox' = Tail(mailbox),
         UNCHANGED <<to, sockets>>,
         held' \subseteq held \cup {First}, leaked' \subseteq leaked \cup {First},
         stray' = stray \/ (stray' = Append(stray, First) /\ Len(stray) < IfaceLen),
         Done \/ UNCHANGED call
  PROVE  IInv'
<1>1. /\ First \in Packets /\ Tail(mailbox) \in Seq(Packets)
      /\ Len(Tail(mailbox)) = Len(mailbox) - 1 /\ Len(mailbox) \in Nat
  BY TailFacts DEF IInv, TypeOK, Incoming, First
<1>2. /\ Append(stray, First) \in Seq(Packets)
      /\ Len(Append(stray, First)) = Len(stray) + 1 /\ Len(stray) \in Nat
  BY <1>1, AppendFacts DEF IInv, TypeOK
<1>3. /\ mailbox' \in Seq(Packets) /\ Len(mailbox') <= MailboxLen
      /\ stray' \in Seq(Packets) /\ Len(stray') <= IfaceLen
  <2>1. MailboxLen \in Nat /\ IfaceLen \in Nat
    BY UdpAssumption
  <2>2. mailbox' \in Seq(Packets) /\ Len(mailbox') <= MailboxLen
    <3>1. Len(Tail(mailbox)) <= MailboxLen
      BY <1>1, <2>1 DEF IInv, TypeOK
    <3>2. QED
      BY <1>1, <3>1, Zenon
  <2>3. stray \in Seq(Packets) /\ Len(stray) <= IfaceLen
    BY DEF IInv, TypeOK
  <2>4. CASE stray' = Append(stray, First) /\ Len(stray) < IfaceLen
    <3>1. Len(Append(stray, First)) <= IfaceLen
      BY <1>2, <2>1, <2>4
    <3>2. QED
      BY <1>2, <2>2, <2>4, <3>1, Zenon
  <2>5. QED
    BY <2>2, <2>3, <2>4, Zenon
<1>4. /\ at' \in {"program", "receive", "crashed"}
      /\ socket' \in Sockets \cup {NoSocket} /\ stop' \in BOOLEAN
  BY DEF IInv, TypeOK, Done, call
<1>5. /\ to' \in [Packets -> Destinations]
      /\ queue' \in [Sockets -> Seq(Packets)]
      /\ \A s \in Sockets : Len(queue'[s]) <= QueueLen
      /\ port' \in [Sockets -> Ports \cup {NoPort}] /\ anyAddress' \subseteq Sockets
      /\ held' \subseteq Packets /\ leaked' \subseteq Packets
  BY <1>1 DEF IInv, TypeOK, sockets
<1>6. TypeOK'
  BY <1>3, <1>4, <1>5 DEF TypeOK
<1>7. QueuesAreOwn'
  BY DEF IInv, QueuesAreOwn, sockets
<1>8. QED
  BY <1>6, <1>7 DEF IInv

\* A packet p for the port of s is appended to the queue of s, from wherever.
LEMMA QueuedStep ==
  ASSUME IInv, NEW s \in Sockets, NEW p \in Packets,
         Len(queue[s]) < QueueLen,
         to' \in [Packets -> Destinations],
         to'[p] = port[s],
         \A r \in Sockets : \A q \in ToSet(queue[r]) : to'[q] = to[q],
         queue' = [queue EXCEPT ![s] = Append(@, p)],
         mailbox' \in Seq(Packets), Len(mailbox') <= MailboxLen,
         UNCHANGED <<stray, held, leaked, port, anyAddress>>,
         Done \/ UNCHANGED call
  PROVE  IInv'
<1>1. /\ queue[s] \in Seq(Packets)
      /\ \A r \in Sockets : queue'[r] = IF r = s THEN Append(queue[s], p) ELSE queue[r]
  BY DEF IInv, TypeOK
<1>2. /\ Append(queue[s], p) \in Seq(Packets)
      /\ Len(Append(queue[s], p)) = Len(queue[s]) + 1 /\ Len(queue[s]) \in Nat
      /\ ToSet(Append(queue[s], p)) = ToSet(queue[s]) \cup {p}
  BY <1>1, AppendFacts
<1>3. /\ queue' \in [Sockets -> Seq(Packets)]
      /\ \A r \in Sockets : Len(queue'[r]) <= QueueLen
  BY <1>1, <1>2, UdpAssumption DEF IInv, TypeOK
<1>4. /\ at' \in {"program", "receive", "crashed"}
      /\ socket' \in Sockets \cup {NoSocket} /\ stop' \in BOOLEAN
  BY DEF IInv, TypeOK, Done, call
<1>5. TypeOK'
  BY <1>3, <1>4 DEF IInv, TypeOK
<1>6. ASSUME NEW r \in Sockets, NEW q \in ToSet(queue'[r]) PROVE to'[q] = port'[r]
  <2>1. CASE r = s /\ q = p
    BY <2>1
  <2>2. CASE ~(r = s /\ q = p)
    <3>1. q \in ToSet(queue[r])
      BY <2>2, <1>1, <1>2
    <3>2. QED
      BY <3>1 DEF IInv, QueuesAreOwn
  <2>3. QED
    BY <2>1, <2>2
<1>7. QueuesAreOwn'
  BY <1>6 DEF IInv, QueuesAreOwn
<1>8. QED
  BY <1>5, <1>7 DEF IInv

LEMMA BindStep ==
  ASSUME IInv, NEW s \in Sockets, NEW n \in Ports, NEW any \in BOOLEAN, Bind(s, n, any)
  PROVE  IInv'
<1>1. TypeOK'
  BY DEF Bind, IInv, TypeOK, packets, call
<1>2. queue[s] \in Seq(Packets) /\ \A q \in ToSet(queue[s]) : FALSE
  <2>1. \A q \in ToSet(queue[s]) : q \in Packets /\ to[q] = NoPort
    <3>1. queue[s] \in Seq(Packets)
      BY DEF IInv, TypeOK
    <3>2. \A k \in DOMAIN queue[s] : queue[s][k] \in Packets
      BY <3>1
    <3>3. QED
      BY <3>2 DEF ToSet, IInv, QueuesAreOwn, Bind
  <2>2. QED
    BY <2>1, UdpAssumption DEF IInv, TypeOK
<1>3. \A r \in Sockets : port'[r] = IF r = s THEN n ELSE port[r]
  BY DEF Bind, IInv, TypeOK
<1>4. QueuesAreOwn'
  BY <1>2, <1>3, UdpAssumption DEF Bind, Bound, IInv, QueuesAreOwn, packets, Destinations
<1>5. QED
  BY <1>1, <1>4 DEF IInv

LEMMA CloseStep ==
  ASSUME IInv, NEW s \in Sockets, Close(s)
  PROVE  IInv'
<1> DEFINE nothing == << >>
<1>1. nothing \in Seq(Packets) /\ Len(nothing) = 0 /\ ToSet(nothing) = {}
  BY EmptyFacts
<1>2. queue' = [queue EXCEPT ![s] = nothing]
  BY DEF Close
<1> HIDE DEF nothing
<1>3. /\ \A r \in Sockets : port'[r] = IF r = s THEN NoPort ELSE port[r]
      /\ \A r \in Sockets : queue'[r] = IF r = s THEN nothing ELSE queue[r]
  BY <1>2 DEF Close, IInv, TypeOK
<1>4. TypeOK'
  BY <1>1, <1>2, <1>3, UdpAssumption DEF Close, IInv, TypeOK, packets, call
<1>5. QueuesAreOwn'
  BY <1>1, <1>3 DEF Close, IInv, QueuesAreOwn, packets
<1>6. QED
  BY <1>4, <1>5 DEF IInv

LEMMA ReceiveQueuedStep ==
  ASSUME IInv, NEW s \in Sockets, ReceiveQueued(s)
  PROVE  IInv'
<1>1. queue[s] \in Seq(Packets) /\ queue[s] # << >>
  BY DEF ReceiveQueued, IInv, TypeOK
<1>2. /\ Head(queue[s]) \in Packets /\ Tail(queue[s]) \in Seq(Packets)
      /\ Len(Tail(queue[s])) = Len(queue[s]) - 1 /\ Len(queue[s]) \in Nat
      /\ ToSet(Tail(queue[s])) \subseteq ToSet(queue[s])
  <2>1. ToSet(queue[s]) = ToSet(Tail(queue[s])) \cup {Head(queue[s])}
    BY <1>1, TailFacts
  <2>2. QED
    BY <1>1, <2>1, TailFacts
<1>3. \A r \in Sockets : queue'[r] = IF r = s THEN Tail(queue[s]) ELSE queue[r]
  BY DEF ReceiveQueued, IInv, TypeOK
<1>4. /\ queue' \in [Sockets -> Seq(Packets)]
      /\ \A r \in Sockets : Len(queue'[r]) <= QueueLen
  BY <1>2, <1>3, UdpAssumption DEF ReceiveQueued, IInv, TypeOK
<1>5. TypeOK'
  BY <1>2, <1>4 DEF ReceiveQueued, IInv, TypeOK, call
<1>6. QueuesAreOwn'
  BY <1>2, <1>3 DEF ReceiveQueued, IInv, QueuesAreOwn
<1>7. QED
  BY <1>5, <1>6 DEF IInv

\* Packets that are not in use get no place in a socket's queue.
LEMMA ArriveStep ==
  ASSUME IInv, NEW p \in Packets, NEW d \in Destinations, Arrive(p, d)
  PROVE  IInv'
<1>1. /\ Append(mailbox, p) \in Seq(Packets)
      /\ Len(Append(mailbox, p)) = Len(mailbox) + 1 /\ Len(mailbox) \in Nat
  BY AppendFacts DEF IInv, TypeOK
<1>2. TypeOK'
  BY <1>1, UdpAssumption DEF Arrive, IInv, TypeOK, sockets, call
<1>3. ASSUME NEW s \in Sockets, NEW q \in ToSet(queue[s]) PROVE to'[q] = to[q]
  BY DEF Arrive, InUse, IInv, TypeOK
<1>4. QueuesAreOwn'
  BY <1>3 DEF Arrive, IInv, QueuesAreOwn, sockets
<1>5. QED
  BY <1>2, <1>4 DEF IInv

LEMMA SendToSelfStep ==
  ASSUME IInv, NEW s \in Sockets, NEW p \in Packets, SendToSelf(p, s)
  PROVE  IInv'
<1>1. port[s] \in Destinations
  BY DEF SendToSelf, IInv, TypeOK, Destinations
<1>2. to' \in [Packets -> Destinations] /\ to'[p] = port[s]
  BY <1>1 DEF SendToSelf, IInv, TypeOK
<1>3. ASSUME NEW r \in Sockets, NEW q \in ToSet(queue[r]) PROVE to'[q] = to[q]
  BY DEF SendToSelf, InUse, IInv, TypeOK
<1>4. mailbox' \in Seq(Packets) /\ Len(mailbox') <= MailboxLen
  BY DEF SendToSelf, IInv, TypeOK
<1>5. QED
  BY <1>2, <1>3, <1>4, QueuedStep DEF SendToSelf

LEMMA QueueForOtherStep ==
  ASSUME IInv, NEW s \in Sockets, QueueForOther(s)
  PROVE  IInv'
<1>1. /\ First \in Packets /\ Tail(mailbox) \in Seq(Packets)
      /\ Len(Tail(mailbox)) = Len(mailbox) - 1 /\ Len(mailbox) \in Nat
  BY TailFacts DEF IInv, TypeOK, QueueForOther, Incoming, First
<1>2. mailbox' \in Seq(Packets) /\ Len(mailbox') <= MailboxLen
  BY <1>1, UdpAssumption DEF QueueForOther, IInv, TypeOK
<1>3. Done \/ UNCHANGED call
  BY DEF QueueForOther, Passed
<1>4. to' \in [Packets -> Destinations]
  BY DEF QueueForOther, IInv, TypeOK
<1>5. QED
  BY <1>1, <1>2, <1>3, <1>4, QueuedStep DEF QueueForOther

LEMMA TakeStep == IInv /\ Take => IInv'
<1> SUFFICES ASSUME IInv, Take PROVE IInv'
  OBVIOUS
<1>1. CASE ReceiveOwn
  BY <1>1, TakenStep DEF ReceiveOwn
<1>2. CASE Answer
  BY <1>2, TakenStep DEF Answer, Unbound, Passed
<1>3. CASE AnswerFails
  BY <1>3, TakenStep DEF AnswerFails, Unbound
<1>4. CASE AnswerNowhere
  <2>1. TypeOK'
    BY <1>4 DEF AnswerNowhere, IInv, TypeOK, packets, sockets
  <2>2. QueuesAreOwn'
    BY <1>4 DEF AnswerNowhere, IInv, QueuesAreOwn, packets, sockets
  <2>3. QED
    BY <2>1, <2>2 DEF IInv
<1>5. CASE Stray
  BY <1>5, TakenStep DEF Stray
<1>6. CASE StrayFull
  BY <1>6, TakenStep DEF StrayFull
<1>7. CASE Refuse
  BY <1>7, TakenStep DEF Refuse
<1>8. ASSUME NEW s \in Sockets, QueueForOther(s) PROVE IInv'
  BY <1>8, QueueForOtherStep
<1>9. ASSUME NEW s \in Sockets, DropForOther(s) PROVE IInv'
  BY <1>9, TakenStep DEF DropForOther, Passed
<1>10. QED
  BY <1>1, <1>2, <1>3, <1>4, <1>5, <1>6, <1>7, <1>8, <1>9 DEF Take

\* Steps that change the call, or what the program holds, and nothing else.
LEMMA CallStep ==
  ASSUME IInv, UNCHANGED <<to, mailbox, stray, leaked, sockets>>, held' \subseteq held,
         at' \in {"program", "receive", "crashed"},
         socket' \in Sockets \cup {NoSocket}, stop' \in BOOLEAN
  PROVE  IInv'
<1>1. TypeOK'
  BY DEF IInv, TypeOK, sockets
<1>2. QueuesAreOwn'
  BY DEF IInv, QueuesAreOwn, sockets
<1>3. QED
  BY <1>1, <1>2 DEF IInv

LEMMA NextIInv == IInv /\ [Next]_vars => IInv'
<1> SUFFICES ASSUME IInv, [Next]_vars PROVE IInv'
  OBVIOUS
<1>1. CASE Take
  BY <1>1, TakeStep
<1>2. CASE Program
  <2> PICK s \in Sockets :
        \/ Close(s) \/ ReceiveQueued(s)
        \/ \E n \in Ports, any \in BOOLEAN : Bind(s, n, any)
        \/ \E stopForOthers \in BOOLEAN : StartReceive(s, stopForOthers)
        \/ \E p \in Packets : SendToSelf(p, s)
    BY <1>2 DEF Program
  <2>1. CASE Close(s)
    BY <2>1, CloseStep
  <2>2. CASE ReceiveQueued(s)
    BY <2>2, ReceiveQueuedStep
  <2>3. ASSUME NEW n \in Ports, NEW any \in BOOLEAN, Bind(s, n, any) PROVE IInv'
    BY <2>3, BindStep
  <2>4. ASSUME NEW stopForOthers \in BOOLEAN, StartReceive(s, stopForOthers) PROVE IInv'
    BY <2>4, CallStep DEF StartReceive, packets
  <2>5. ASSUME NEW p \in Packets, SendToSelf(p, s) PROVE IInv'
    BY <2>5, SendToSelfStep
  <2>6. QED
    BY <2>1, <2>2, <2>3, <2>4, <2>5
<1>3. CASE Disturbed
  BY <1>3, CallStep DEF Disturbed, Done, packets
<1>4. ASSUME NEW p \in Packets, Free(p) PROVE IInv'
  BY <1>4, CallStep DEF Free, call, IInv, TypeOK
<1>5. ASSUME NEW p \in Packets, NEW d \in Destinations, Arrive(p, d) PROVE IInv'
  BY <1>5, ArriveStep
<1>6. CASE UNCHANGED vars
  BY <1>6, CallStep DEF vars, packets, call, IInv, TypeOK
<1>7. QED
  BY <1>1, <1>2, <1>3, <1>4, <1>5, <1>6 DEF Next

\* The invariant holds for ever.
THEOREM Invariance == Spec => []IInv
<1>1. QED
  BY InitIInv, NextIInv, PTL DEF Spec

\* Every state has its type: no queue of UDP or of the interface ever holds
\* more than it has room for.
THEOREM TypeCorrect == Spec => []TypeOK
<1>1. IInv => TypeOK
  BY DEF IInv
<1>2. QED
  BY <1>1, Invariance, PTL

\* A port belongs to one socket, and a socket's queue has packets of its port
\* only.
THEOREM QueuesStayOwn == Spec => []QueuesAreOwn
<1>1. IInv => QueuesAreOwn
  BY DEF IInv
<1>2. QED
  BY <1>1, Invariance, PTL

-----------------------------------------------------------------------------
(* What is lost *)

\* Only segments are on the interface's queue, or lost to it.
StraysAreSegments == \A p \in ToSet(stray) \cup leaked : to[p] = Segment

LEMMA FirstInMailbox ==
  ASSUME IInv, Incoming
  PROVE  /\ First \in Packets
         /\ ToSet(mailbox) = ToSet(Tail(mailbox)) \cup {First}
<1>1. mailbox \in Seq(Packets) /\ mailbox # << >>
  BY DEF IInv, TypeOK, Incoming
<1>2. QED
  BY <1>1, TailFacts DEF First

LEMMA SegmentsStep == IInv /\ StraysAreSegments /\ [Next]_vars => StraysAreSegments'
<1> SUFFICES ASSUME IInv, StraysAreSegments, [Next]_vars PROVE StraysAreSegments'
  OBVIOUS
<1>1. CASE UNCHANGED <<to, stray, leaked>>
  BY <1>1 DEF StraysAreSegments
<1>2. CASE Stray
  <2>1. ToSet(stray') = ToSet(stray) \cup {First}
    BY <1>2, FirstInMailbox, AppendFacts DEF Stray, IInv, TypeOK
  <2>2. QED
    BY <1>2, <2>1 DEF Stray, StraysAreSegments
<1>3. CASE StrayFull
  BY <1>3 DEF StrayFull, StraysAreSegments
<1>4. ASSUME NEW p \in Packets, p \notin InUse, UNCHANGED <<stray, leaked>>,
             \A q \in ToSet(stray) \cup leaked : q # p => to'[q] = to[q]
      PROVE  StraysAreSegments'
  BY <1>4 DEF InUse, StraysAreSegments
<1>5. ASSUME NEW p \in Packets, NEW d \in Destinations, Arrive(p, d)
      PROVE  StraysAreSegments'
  BY <1>4, <1>5 DEF Arrive, IInv, TypeOK
<1>6. ASSUME NEW p \in Packets, NEW s \in Sockets, SendToSelf(p, s)
      PROVE  StraysAreSegments'
  BY <1>4, <1>6 DEF SendToSelf, IInv, TypeOK
<1>7. CASE Take
  BY <1>1, <1>2, <1>3, <1>7
  DEF Take, ReceiveOwn, Answer, AnswerFails, AnswerNowhere, Refuse, QueueForOther,
      DropForOther, packets
<1>8. CASE Program
  BY <1>1, <1>6, <1>8
  DEF Program, Close, ReceiveQueued, Bind, StartReceive, packets
<1>9. QED
  BY <1>1, <1>5, <1>7, <1>8 DEF Next, Disturbed, Free, packets, vars

\* Where a packet for a bound port can be.
LEMMA WhereItIs ==
  ASSUME IInv, StraysAreSegments, NEW s \in Sockets, port[s] # NoPort,
         NEW p \in InUse \ held, to[p] = port[s]
  PROVE  /\ p \in ToSet(mailbox) \cup ToSet(queue[s])
         /\ p \notin leaked
         /\ to[p] \in Ports /\ to[p] # Segment /\ to[p] # Unknown
         /\ \A r \in Sockets : to[p] = port[r] => r = s
<1>1. to[p] \in Ports /\ to[p] # Segment /\ to[p] # Unknown
  BY UdpAssumption DEF IInv, TypeOK
<1>2. p \notin ToSet(stray) \cup leaked
  BY <1>1 DEF StraysAreSegments
<1>3. \A r \in Sockets : to[p] = port[r] => r = s
  BY DEF IInv, QueuesAreOwn
<1>4. \A r \in Sockets : p \in ToSet(queue[r]) => r = s
  BY <1>3 DEF IInv, QueuesAreOwn
<1>5. QED
  BY <1>1, <1>2, <1>3, <1>4 DEF InUse

LEMMA KeptStep ==
  ASSUME IInv, StraysAreSegments, Next,
         NEW s \in Sockets, port[s] # NoPort, port'[s] = port[s], Len(queue[s]) < QueueLen,
         NEW p \in InUse \ held, to[p] = port[s]
  PROVE  p \in InUse' \ leaked'
<1> USE WhereItIs
<1>1. ASSUME UNCHANGED <<mailbox, queue, leaked>> PROVE p \in InUse' \ leaked'
  BY <1>1 DEF InUse
<1>2. ASSUME Incoming, mailbox' = Tail(mailbox), UNCHANGED queue, leaked' \subseteq leaked \cup {First},
             p # First \/ (p \in held' /\ UNCHANGED leaked)
      PROVE  p \in InUse' \ leaked'
  BY <1>2, FirstInMailbox DEF InUse
<1>3. ASSUME NEW r \in Sockets, QueueForOther(r) PROVE p \in InUse' \ leaked'
  <2>1. ToSet(queue'[r]) = ToSet(queue[r]) \cup {First}
    BY <1>3, FirstInMailbox, AppendFacts DEF QueueForOther, IInv, TypeOK
  <2>2. ToSet(queue[s]) \subseteq ToSet(queue'[s])
    BY <1>3, <2>1 DEF QueueForOther, IInv, TypeOK
  <2>3. ToSet(mailbox) \subseteq ToSet(mailbox') \cup ToSet(queue'[r])
    BY <1>3, <2>1, FirstInMailbox DEF QueueForOther
  <2>4. QED
    BY <1>3, <2>2, <2>3 DEF QueueForOther, InUse
<1>4. CASE Take
  <2>1. CASE ReceiveOwn
    BY <1>2, <2>1 DEF ReceiveOwn, sockets
  <2>2. CASE Answer \/ AnswerFails
    <3>1. p # First
      BY <2>2 DEF Answer, AnswerFails, Unbound, Bound
    <3>2. QED
      BY <1>2, <2>2, <3>1 DEF Answer, AnswerFails, Unbound, sockets
  <2>3. CASE AnswerNowhere
    BY <1>1, <2>3 DEF AnswerNowhere, packets, sockets
  <2>4. CASE Stray \/ StrayFull \/ Refuse
    BY <1>2, <2>4 DEF Stray, StrayFull, Refuse, sockets
  <2>5. ASSUME NEW r \in Sockets, DropForOther(r) PROVE p \in InUse' \ leaked'
    <3>1. p # First
      <4>1. Len(queue[r]) >= QueueLen /\ to[First] = port[r]
        BY <2>5 DEF DropForOther
      <4>2. ASSUME r = s PROVE FALSE
        <5>1. Len(queue[s]) \in Nat /\ QueueLen \in Nat
          BY UdpAssumption DEF IInv, TypeOK
        <5>2. QED
          BY <4>1, <4>2, <5>1
      <4>3. QED
        BY <4>1, <4>2
    <3>2. QED
      BY <1>2, <2>5, <3>1 DEF DropForOther, sockets
  <2>6. QED
    BY <1>3, <1>4, <2>1, <2>2, <2>3, <2>4, <2>5 DEF Take
<1>5. ASSUME NEW r \in Sockets, Close(r) PROVE p \in InUse' \ leaked'
  <2>1. r # s
    BY <1>5 DEF Close, IInv, TypeOK
  <2>2. queue'[s] = queue[s]
    BY <1>5, <2>1 DEF Close, IInv, TypeOK
  <2>3. QED
    BY <1>5, <2>2 DEF Close, packets, InUse
<1>6. ASSUME NEW r \in Sockets, ReceiveQueued(r) PROVE p \in InUse' \ leaked'
  <2>1. queue[r] \in Seq(Packets) /\ queue[r] # << >>
    BY <1>6 DEF ReceiveQueued, IInv, TypeOK
  <2>2. ToSet(queue[r]) = ToSet(Tail(queue[r])) \cup {Head(queue[r])}
    BY <2>1, TailFacts
  <2>3. ToSet(queue[s]) \subseteq ToSet(queue'[s]) \cup held'
    BY <1>6, <2>2 DEF ReceiveQueued, IInv, TypeOK
  <2>4. QED
    BY <1>6, <2>3 DEF ReceiveQueued, InUse
<1>7. ASSUME NEW r \in Sockets, NEW q \in Packets, SendToSelf(q, r)
      PROVE  p \in InUse' \ leaked'
  <2>1. ToSet(Append(queue[r], q)) = ToSet(queue[r]) \cup {q}
    BY AppendFacts DEF IInv, TypeOK
  <2>2. ToSet(queue[s]) \subseteq ToSet(queue'[s])
    BY <1>7, <2>1 DEF SendToSelf, IInv, TypeOK
  <2>3. QED
    BY <1>7, <2>2 DEF SendToSelf, InUse
<1>8. ASSUME NEW q \in Packets, NEW d \in Destinations, Arrive(q, d)
      PROVE  p \in InUse' \ leaked'
  <2>1. ToSet(Append(mailbox, q)) = ToSet(mailbox) \cup {q}
    BY AppendFacts DEF IInv, TypeOK
  <2>2. QED
    BY <1>8, <2>1 DEF Arrive, sockets, InUse
<1>9. CASE Program
  BY <1>1, <1>5, <1>6, <1>7, <1>9 DEF Program, Bind, StartReceive, packets, sockets
<1>10. CASE Disturbed \/ \E q \in Packets : Free(q)
  BY <1>1, <1>10 DEF Disturbed, Free, packets, sockets
<1>11. QED
  BY <1>4, <1>8, <1>9, <1>10 DEF Next

\* A packet for a bound port is given up only when the socket's queue is full.
THEOREM NothingElseIsLost == Spec => LostOnlyWhenFull
<1>1. Init => StraysAreSegments
  BY EmptyFacts DEF Init, StraysAreSegments
<1>2. IInv /\ StraysAreSegments /\ [Next]_vars =>
        [\A s \in Sockets :
           port[s] # NoPort /\ port'[s] = port[s] /\ Len(queue[s]) < QueueLen =>
             \A p \in InUse \ held : to[p] = port[s] => p \in InUse' \ leaked']_vars
  BY KeptStep
<1>3. QED
  BY <1>1, <1>2, InitIInv, NextIInv, SegmentsStep, PTL DEF Spec, LostOnlyWhenFull

-----------------------------------------------------------------------------
(* One place *)

LEMMA TailInjective ==
  ASSUME NEW S, NEW s \in Seq(S), s # << >>, IsInjective(s)
  PROVE  IsInjective(Tail(s)) /\ Head(s) \notin ToSet(Tail(s))
<1>1. /\ Len(s) \in Nat /\ Len(s) > 0 /\ DOMAIN s = 1 .. Len(s)
      /\ DOMAIN Tail(s) = 1 .. Len(s) - 1
      /\ Head(s) = s[1]
      /\ \A k \in 1 .. Len(s) - 1 : Tail(s)[k] = s[k + 1]
  OBVIOUS
<1>2. \A j, k \in 1 .. Len(s) : s[j] = s[k] => j = k
  BY <1>1 DEF IsInjective
<1>3. ASSUME NEW j \in 1 .. Len(s) - 1, NEW k \in 1 .. Len(s) - 1,
             Tail(s)[j] = Tail(s)[k]
      PROVE  j = k
  <2>1. j + 1 \in 1 .. Len(s) /\ k + 1 \in 1 .. Len(s) /\ s[j + 1] = s[k + 1]
    BY <1>1, <1>3
  <2>2. j + 1 = k + 1
    BY <1>2, <2>1
  <2>3. QED
    BY <2>2
<1>4. ASSUME NEW k \in 1 .. Len(s) - 1 PROVE Tail(s)[k] # Head(s)
  <2>1. k + 1 \in 1 .. Len(s) /\ 1 \in 1 .. Len(s) /\ k + 1 # 1
    BY <1>1
  <2>2. QED
    BY <1>1, <1>2, <2>1
<1>5. QED
  BY <1>1, <1>3, <1>4 DEF IsInjective, ToSet

LEMMA AppendKeepsInjective ==
  ASSUME NEW S, NEW s \in Seq(S), NEW e \in S, IsInjective(s), e \notin ToSet(s)
  PROVE  /\ IsInjective(Append(s, e))
         /\ ToSet(Append(s, e)) = ToSet(s) \cup {e}
<1> DEFINE t == Append(s, e)
<1>1. /\ Len(s) \in Nat /\ DOMAIN s = 1 .. Len(s)
      /\ DOMAIN t = 1 .. Len(s) + 1
      /\ t[Len(s) + 1] = e
      /\ \A k \in 1 .. Len(s) : t[k] = s[k]
  OBVIOUS
<1>2. /\ \A j, k \in 1 .. Len(s) : s[j] = s[k] => j = k
      /\ \A k \in 1 .. Len(s) : s[k] # e
  BY <1>1 DEF IsInjective, ToSet
<1>3. ToSet(t) = ToSet(s) \cup {e}
  BY AppendFacts
<1> HIDE DEF t
<1>4. ASSUME NEW j \in 1 .. Len(s) + 1, NEW k \in 1 .. Len(s) + 1, t[j] = t[k]
      PROVE  j = k
  <2>1. \A i \in 1 .. Len(s) + 1 : i \in 1 .. Len(s) \/ i = Len(s) + 1
    BY <1>1
  <2>2. QED
    BY <1>1, <1>2, <1>4, <2>1
<1>5. IsInjective(t)
  BY <1>1, <1>4 DEF IsInjective
<1>6. QED
  BY <1>3, <1>5 DEF t

\* What the interface received goes to one place, or is freed.
LEMMA TakenOnce ==
  ASSUME IInv, OnePlace, Incoming, mailbox' = Tail(mailbox), UNCHANGED queue,
         \/ UNCHANGED <<stray, leaked>> /\ held' \in {held, held \cup {First}}
         \/ UNCHANGED <<stray, held>> /\ leaked' = leaked \cup {First}
         \/ UNCHANGED <<held, leaked>> /\ stray' = Append(stray, First)
  PROVE  OnePlace'
<1>1. /\ First \in Packets /\ First \in ToSet(mailbox) /\ First \notin ToSet(mailbox')
      /\ ToSet(mailbox') \subseteq ToSet(mailbox)
      /\ IsInjective(mailbox')
  BY FirstInMailbox, TailInjective DEF IInv, TypeOK, OnePlace, Incoming, First
<1>2. CASE UNCHANGED <<stray, leaked>> /\ held' \in {held, held \cup {First}}
  BY <1>1, <1>2 DEF OnePlace
<1>3. CASE UNCHANGED <<stray, held>> /\ leaked' = leaked \cup {First}
  BY <1>1, <1>3 DEF OnePlace
<1>4. CASE UNCHANGED <<held, leaked>> /\ stray' = Append(stray, First)
  <2>1. First \notin ToSet(stray)
    BY <1>1 DEF OnePlace
  <2>2. IsInjective(stray') /\ ToSet(stray') = ToSet(stray) \cup {First}
    BY <1>1, <1>4, <2>1, AppendKeepsInjective DEF IInv, TypeOK, OnePlace
  <2>3. \A p \in ToSet(stray') : p \notin held' \cup leaked'
    BY <1>1, <1>4, <2>2 DEF OnePlace
  <2>4. \A p \in ToSet(mailbox') : p \notin ToSet(stray') \cup held' \cup leaked'
    BY <1>1, <1>4, <2>2 DEF OnePlace
  <2>5. ASSUME NEW s \in Sockets, NEW p \in ToSet(queue'[s])
        PROVE  /\ p \notin ToSet(mailbox') \cup ToSet(stray') \cup held' \cup leaked'
               /\ \A t \in Sockets \ {s} : p \notin ToSet(queue'[t])
    <3>1. queue' = queue
      OBVIOUS
    <3>2. p \in ToSet(queue[s])
      BY <3>1
    <3>3. /\ p \notin ToSet(mailbox) \cup ToSet(stray) \cup held \cup leaked
          /\ \A t \in Sockets \ {s} : p \notin ToSet(queue[t])
      BY <3>2 DEF OnePlace
    <3>4. QED
      BY <1>1, <1>4, <2>2, <3>1, <3>3
  <2>6. /\ \A s \in Sockets : IsInjective(queue'[s])
        /\ \A p \in held' : p \notin leaked'
    BY <1>4 DEF OnePlace
  <2>7. QED
    BY <1>1, <2>2, <2>3, <2>4, <2>5, <2>6, Zenon DEF OnePlace
<1>5. QED
  BY <1>2, <1>3, <1>4

\* A packet that is in no other place is queued.
LEMMA QueuedOnce ==
  ASSUME IInv, OnePlace, NEW s \in Sockets, NEW p \in Packets,
         queue' = [queue EXCEPT ![s] = Append(@, p)],
         UNCHANGED <<stray, held, leaked>>,
         IsInjective(mailbox'), ToSet(mailbox') \subseteq ToSet(mailbox),
         p \notin ToSet(mailbox') \cup ToSet(stray) \cup held \cup leaked,
         \A t \in Sockets : p \notin ToSet(queue[t])
  PROVE  OnePlace'
<1>1. /\ queue[s] \in Seq(Packets) /\ IsInjective(queue[s])
      /\ \A t \in Sockets : queue'[t] = IF t = s THEN Append(queue[s], p) ELSE queue[t]
  BY DEF IInv, TypeOK, OnePlace
<1>2. /\ IsInjective(Append(queue[s], p))
      /\ ToSet(Append(queue[s], p)) = ToSet(queue[s]) \cup {p}
  BY <1>1, AppendKeepsInjective
<1>3. /\ \A t \in Sockets : IsInjective(queue'[t])
      /\ \A t \in Sockets : ToSet(queue'[t]) \subseteq ToSet(queue[t]) \cup {p}
      /\ \A t \in Sockets : t # s => ToSet(queue'[t]) = ToSet(queue[t])
  BY <1>1, <1>2 DEF OnePlace
<1>4. \A t \in Sockets : \A q \in ToSet(queue'[t]) :
        /\ q \notin ToSet(mailbox') \cup ToSet(stray') \cup held' \cup leaked'
        /\ \A u \in Sockets \ {t} : q \notin ToSet(queue'[u])
  <2> SUFFICES ASSUME NEW t \in Sockets, NEW q \in ToSet(queue'[t])
               PROVE  /\ q \notin ToSet(mailbox') \cup ToSet(stray') \cup held' \cup leaked'
                      /\ \A u \in Sockets \ {t} : q \notin ToSet(queue'[u])
    OBVIOUS
  <2>1. CASE q = p /\ t = s
    <3>1. p \notin ToSet(mailbox') \cup ToSet(stray') \cup held' \cup leaked'
      OBVIOUS
    <3>2. \A u \in Sockets \ {s} : p \notin ToSet(queue'[u])
      BY <1>3
    <3> QED
      BY ONLY <2>1, <3>1, <3>2
  <2>2. CASE q \in ToSet(queue[t]) /\ q # p
    <3>1. /\ q \notin ToSet(mailbox) \cup ToSet(stray) \cup held \cup leaked
          /\ \A u \in Sockets \ {t} : q \notin ToSet(queue[u])
      BY ONLY OnePlace, <2>2 DEF OnePlace
    <3>2. q \notin ToSet(mailbox') \cup ToSet(stray') \cup held' \cup leaked'
      BY <3>1
    <3>3. \A u \in Sockets \ {t} : q \notin ToSet(queue'[u])
      BY ONLY <1>3, <2>2, <3>1
    <3> QED
      BY ONLY <3>2, <3>3
  <2>3. (q = p /\ t = s) \/ (q \in ToSet(queue[t]) /\ q # p)
    BY <1>3
  <2> QED
    BY ONLY <2>1, <2>2, <2>3
<1>5. /\ IsInjective(mailbox') /\ IsInjective(stray')
      /\ \A q \in ToSet(mailbox') : q \notin ToSet(stray') \cup held' \cup leaked'
      /\ \A q \in ToSet(stray') : q \notin held' \cup leaked'
      /\ \A q \in held' : q \notin leaked'
  BY DEF OnePlace
<1>6. QED
  BY ONLY <1>3, <1>4, <1>5 DEF OnePlace

\* Packets leave the queues, for a program or for good.
LEMMA LeavingOnce ==
  ASSUME IInv, OnePlace, NEW s \in Sockets, UNCHANGED <<mailbox, stray, leaked>>,
         \/ queue[s] # << >> /\ queue' = [queue EXCEPT ![s] = Tail(@)]
                           /\ held' = held \cup {Head(queue[s])}
         \/ queue' = [queue EXCEPT ![s] = << >>] /\ UNCHANGED held
  PROVE  OnePlace'
<1>1. CASE /\ queue[s] # << >> /\ queue' = [queue EXCEPT ![s] = Tail(@)]
           /\ held' = held \cup {Head(queue[s])}
  <2>1. /\ IsInjective(Tail(queue[s])) /\ Head(queue[s]) \notin ToSet(Tail(queue[s]))
        /\ ToSet(queue[s]) = ToSet(Tail(queue[s])) \cup {Head(queue[s])}
    BY <1>1, TailFacts, TailInjective DEF IInv, TypeOK, OnePlace
  <2>2. \A t \in Sockets : queue'[t] = IF t = s THEN Tail(queue[s]) ELSE queue[t]
    BY <1>1 DEF IInv, TypeOK
  <2>3. /\ \A t \in Sockets : IsInjective(queue'[t])
        /\ \A t \in Sockets : ToSet(queue'[t]) \subseteq ToSet(queue[t])
        /\ \A t \in Sockets : Head(queue[s]) \notin ToSet(queue'[t])
    BY <2>1, <2>2 DEF OnePlace
  <2>4. QED
    BY <1>1, <2>1, <2>3 DEF OnePlace
<1>2. CASE queue' = [queue EXCEPT ![s] = << >>] /\ UNCHANGED held
  <2> DEFINE nothing == << >>
  <2>1. ToSet(nothing) = {} /\ IsInjective(nothing)
    BY EmptyFacts DEF IsInjective
  <2>2. queue' = [queue EXCEPT ![s] = nothing]
    BY <1>2
  <2> HIDE DEF nothing
  <2>3. \A t \in Sockets : queue'[t] = IF t = s THEN nothing ELSE queue[t]
    BY <2>2 DEF IInv, TypeOK
  <2>4. /\ \A t \in Sockets : IsInjective(queue'[t])
        /\ \A t \in Sockets : ToSet(queue'[t]) \subseteq ToSet(queue[t])
    BY <2>1, <2>3 DEF OnePlace
  <2>5. QED
    BY <1>2, <2>4 DEF OnePlace
<1>3. QED
  BY <1>1, <1>2

LEMMA TakeOnce == IInv /\ OnePlace /\ Take => OnePlace'
<1> SUFFICES ASSUME IInv, OnePlace, Take PROVE OnePlace'
  OBVIOUS
<1>1. CASE \/ ReceiveOwn \/ Answer \/ AnswerFails \/ Stray \/ StrayFull \/ Refuse
           \/ \E s \in Sockets : DropForOther(s)
  BY <1>1, TakenOnce
  DEF ReceiveOwn, Answer, AnswerFails, Unbound, Stray, StrayFull, Refuse, DropForOther,
      sockets
<1>2. CASE AnswerNowhere
  BY <1>2 DEF AnswerNowhere, OnePlace, packets, sockets
<1>3. ASSUME NEW s \in Sockets, QueueForOther(s) PROVE OnePlace'
  <2>1. /\ First \in Packets /\ First \in ToSet(mailbox) /\ First \notin ToSet(mailbox')
        /\ ToSet(mailbox') \subseteq ToSet(mailbox)
        /\ IsInjective(mailbox')
    BY <1>3, FirstInMailbox, TailInjective
    DEF QueueForOther, IInv, TypeOK, OnePlace, Incoming, First
  <2>2. QED
    BY <1>3, <2>1, QueuedOnce DEF QueueForOther, OnePlace
<1>4. QED
  BY <1>1, <1>2, <1>3 DEF Take

LEMMA NextOnce == IInv /\ OnePlace /\ [Next]_vars => OnePlace'
<1> SUFFICES ASSUME IInv, OnePlace, [Next]_vars PROVE OnePlace'
  OBVIOUS
<1>1. CASE UNCHANGED <<mailbox, stray, leaked, held, queue>>
  BY <1>1 DEF OnePlace
<1>2. ASSUME NEW s \in Sockets, Close(s) \/ ReceiveQueued(s) PROVE OnePlace'
  BY <1>2, LeavingOnce DEF Close, ReceiveQueued, packets
<1>3. ASSUME NEW p \in Packets, NEW s \in Sockets, SendToSelf(p, s) PROVE OnePlace'
  <2>1. /\ p \notin ToSet(mailbox) \cup ToSet(stray) \cup held \cup leaked
        /\ \A t \in Sockets : p \notin ToSet(queue[t])
    BY <1>3 DEF SendToSelf, InUse
  <2>2. UNCHANGED <<mailbox, stray, held, leaked>>
    BY <1>3 DEF SendToSelf
  <2>3. IsInjective(mailbox') /\ ToSet(mailbox') \subseteq ToSet(mailbox)
    BY <2>2 DEF OnePlace
  <2>4. queue' = [queue EXCEPT ![s] = Append(@, p)]
    BY <1>3 DEF SendToSelf
  <2>5. QED
    BY <2>1, <2>2, <2>3, <2>4, QueuedOnce
<1>4. CASE Program
  <2>1. ASSUME NEW s \in Sockets, NEW n \in Ports, NEW any \in BOOLEAN, Bind(s, n, any)
        PROVE  OnePlace'
    BY <1>1, <2>1 DEF Bind, packets
  <2>2. ASSUME NEW s \in Sockets, NEW stopForOthers \in BOOLEAN,
               StartReceive(s, stopForOthers)
        PROVE  OnePlace'
    BY <1>1, <2>2 DEF StartReceive, packets, sockets
  <2>3. QED
    BY <1>2, <1>3, <1>4, <2>1, <2>2 DEF Program
<1>5. ASSUME NEW p \in Packets, Free(p) PROVE OnePlace'
  BY <1>5 DEF Free, OnePlace, sockets
<1>6. ASSUME NEW p \in Packets, NEW d \in Destinations, Arrive(p, d) PROVE OnePlace'
  <2>1. /\ p \notin ToSet(mailbox) \cup ToSet(stray) \cup held \cup leaked
        /\ \A s \in Sockets : p \notin ToSet(queue[s])
    BY <1>6 DEF Arrive, InUse
  <2>2. IsInjective(mailbox') /\ ToSet(mailbox') = ToSet(mailbox) \cup {p}
    BY <1>6, <2>1, AppendKeepsInjective DEF Arrive, IInv, TypeOK, OnePlace
  <2>3. QED
    BY <1>6, <2>1, <2>2 DEF Arrive, OnePlace, sockets
<1>7. CASE Disturbed \/ UNCHANGED vars
  BY <1>1, <1>7 DEF Disturbed, packets, sockets, vars
<1>8. QED
  BY <1>4, <1>5, <1>6, <1>7, TakeOnce DEF Next

\* A packet is in one place at a time: it is handed out, and freed, once.
THEOREM PacketsStayInOnePlace == Spec => []OnePlace
<1>1. Init => OnePlace
  BY EmptyFacts DEF Init, OnePlace, IsInjective
<1>2. QED
  BY <1>1, InitIInv, NextIInv, NextOnce, PTL DEF Spec

-----------------------------------------------------------------------------
(* The promise.  What waits for a port is in its socket's queue and behind   *)
(* that in the mailbox.                                                      *)

Waiting == [n \in Ports |-> OnTheWay(n)]
Received == [n \in Ports |-> {p \in held : to[p] = n}]

Queued(n) == IF Bound(n) = {} THEN << >> ELSE queue[CHOOSE s \in Bound(n) : TRUE]
Coming(n) == Only(mailbox, {p \in Packets : to[p] = n})

\* A receive waits because its socket's queue is empty.
Receives == at = "receive" => /\ socket \in Sockets /\ port[socket] # NoPort
                              /\ queue[socket] = << >>

PromiseInv == IInv /\ OnePlace /\ Receives

\* What the queue of a port is.
QueueOf(n) ==
  /\ Queued(n) \in Seq(Packets)
  /\ \A s \in Sockets : port[s] = n => Queued(n) = queue[s]
  /\ (\A s \in Sockets : port[s] # n) => Queued(n) = << >>

LEMMA QueuesAre == IInv => \A n \in Ports : QueueOf(n)
<1> SUFFICES ASSUME IInv, NEW n \in Ports PROVE QueueOf(n)
  OBVIOUS
<1>1. queue \in [Sockets -> Seq(Packets)] /\ n # NoPort
  BY UdpAssumption DEF IInv, TypeOK, Destinations
<1>2. ASSUME NEW s \in Sockets, port[s] = n PROVE Queued(n) = queue[s] /\ Queued(n) \in Seq(Packets)
  <2>1. s \in Bound(n)
    BY <1>2 DEF Bound
  <2>2. \A r \in Bound(n) : r = s
    BY <1>1, <1>2 DEF Bound, IInv, QueuesAreOwn
  <2>3. (CHOOSE r \in Bound(n) : TRUE) = s
    BY <2>1, <2>2
  <2> QED
    BY <1>1, <2>1, <2>3 DEF Queued
<1>3. ASSUME \A s \in Sockets : port[s] # n PROVE Queued(n) = << >>
  BY <1>3 DEF Queued, Bound
<1>4. << >> \in Seq(Packets)
  OBVIOUS
<1> QED
  BY <1>2, <1>3, <1>4 DEF QueueOf

LEMMA QueuesAreNext == IInv' => (\A n \in Ports : QueueOf(n))'
BY QueuesAre, PTL

\* Packets that join a mailbox or leave it.
LEMMA ComingIs ==
  ASSUME IInv, NEW n \in Ports
  PROVE  /\ Coming(n) \in Seq(Packets)
         /\ ToSet(Coming(n)) = {p \in ToSet(mailbox) : to[p] = n}
<1>1. mailbox \in Seq(Packets) /\ \A p \in ToSet(mailbox) : p \in Packets
  BY DEF IInv, TypeOK, ToSet
<1> QED
  BY <1>1, OnlyType DEF Coming

LEMMA ComingSame ==
  ASSUME IInv, NEW n \in Ports, UNCHANGED mailbox, \A p \in ToSet(mailbox) : to'[p] = to[p]
  PROVE  Coming(n)' = Coming(n)
<1>1. mailbox \in Seq(Packets)
  BY DEF IInv, TypeOK
<1>2. Only(mailbox, {p \in Packets : to[p] = n}) = Only(mailbox, {p \in Packets : to'[p] = n})
  BY <1>1, OnlySame
<1> QED
  BY <1>2 DEF Coming

LEMMA ComingTaken ==
  ASSUME IInv, NEW n \in Ports, Incoming, mailbox' = Tail(mailbox), UNCHANGED to
  PROVE  /\ to[First] = n => Coming(n) = <<First>> \o Coming(n)'
         /\ to[First] # n => Coming(n)' = Coming(n)
<1>1. mailbox \in Seq(Packets) /\ mailbox # << >> /\ First = Head(mailbox) /\ First \in Packets
  BY FirstInMailbox DEF IInv, TypeOK, Incoming, First
<1> DEFINE S == {p \in Packets : to[p] = n}
<1>2. Only(mailbox, S) = IF Head(mailbox) \in S THEN <<Head(mailbox)>> \o Only(Tail(mailbox), S)
                         ELSE Only(Tail(mailbox), S)
  BY <1>1, OnlyTail
<1>3. Coming(n) = Only(mailbox, S) /\ Coming(n)' = Only(Tail(mailbox), S)
  BY DEF Coming
<1>4. First \in S <=> to[First] = n
  BY <1>1
<1> HIDE DEF S
<1> QED
  BY <1>1, <1>2, <1>3, <1>4

\* What is on its way, and what happens to it if one of its two parts stays.
LEMMA WaitingIs ==
  ASSUME NEW n \in Ports
  PROVE  Waiting[n] = Queued(n) \o Coming(n) /\ Waiting'[n] = Queued(n)' \o Coming(n)'
BY DEF Waiting, OnTheWay, Queued, Coming

LEMMA QueuedSame ==
  ASSUME UNCHANGED <<queue, port>>, NEW n
  PROVE  Queued(n)' = Queued(n)
BY DEF Queued, Bound

LEMMA AreFunctions ==
  /\ Waiting = [n \in Ports |-> Waiting[n]] /\ Waiting' = [n \in Ports |-> Waiting'[n]]
  /\ Received = [n \in Ports |-> Received[n]] /\ Received' = [n \in Ports |-> Received'[n]]
BY DEF Waiting, Received

LEMMA Unchanged ==
  ASSUME \A n \in Ports : Waiting'[n] = Waiting[n], \A n \in Ports : Received'[n] = Received[n]
  PROVE  UNCHANGED <<Waiting, Received>>
BY AreFunctions, Zenon

\* A step that neither moves packets nor changes ports.
LEMMA NothingMoves ==
  ASSUME IInv, UNCHANGED <<to, mailbox, queue, port, held>>
  PROVE  UNCHANGED <<Waiting, Received>>
<1>1. \A n \in Ports : Queued(n)' = Queued(n) /\ Coming(n)' = Coming(n)
  BY QueuedSame, ComingSame
<1>2. \A n \in Ports : Waiting'[n] = Waiting[n]
  BY <1>1, WaitingIs
<1>3. Received' = Received
  BY DEF Received
<1> QED
  BY <1>2, <1>3, Unchanged

LEMMA ConcatFacts ==
  ASSUME NEW T, NEW s \in Seq(T), NEW t \in Seq(T)
  PROVE  s \o t \in Seq(T) /\ ToSet(s \o t) = ToSet(s) \cup ToSet(t)
<1> DEFINE c == s \o t
<1>1. /\ c \in Seq(T) /\ Len(s) \in Nat /\ Len(t) \in Nat
      /\ DOMAIN c = 1 .. Len(s) + Len(t) /\ DOMAIN s = 1 .. Len(s) /\ DOMAIN t = 1 .. Len(t)
      /\ \A k \in 1 .. Len(s) + Len(t) : c[k] = IF k <= Len(s) THEN s[k] ELSE t[k - Len(s)]
  OBVIOUS
<1> HIDE DEF c
<1>2. ASSUME NEW k \in 1 .. Len(s) + Len(t) PROVE c[k] \in ToSet(s) \cup ToSet(t)
  <2>1. CASE k <= Len(s)
    BY <1>1, <2>1 DEF ToSet
  <2>2. CASE ~(k <= Len(s))
    <3>1. k - Len(s) \in 1 .. Len(t)
      BY <1>1, <2>2
    <3> QED
      BY <1>1, <2>2, <3>1 DEF ToSet
  <2> QED
    BY <2>1, <2>2
<1>3. ASSUME NEW k \in 1 .. Len(s) PROVE s[k] \in ToSet(c)
  <2>1. k \in 1 .. Len(s) + Len(t) /\ c[k] = s[k]
    BY <1>1
  <2> QED
    BY <1>1, <2>1 DEF ToSet
<1>4. ASSUME NEW k \in 1 .. Len(t) PROVE t[k] \in ToSet(c)
  <2> DEFINE i == k + Len(s)
  <2>1. i \in 1 .. Len(s) + Len(t) /\ ~(i <= Len(s)) /\ i - Len(s) = k
    BY <1>1
  <2> HIDE DEF i
  <2>2. c[i] = t[i - Len(s)]
    BY <1>1, <2>1
  <2>3. c[i] = t[k]
    BY <2>1, <2>2
  <2> QED
    BY <1>1, <2>1, <2>3 DEF ToSet
<1>5. ToSet(c) = ToSet(s) \cup ToSet(t)
  BY <1>1, <1>2, <1>3, <1>4 DEF ToSet
<1> QED
  BY <1>1, <1>5 DEF c

LEMMA PromiseOnly ==
  ASSUME NEW s, NEW S
  PROVE  Promise!Only(s, S) = Only(s, S)
BY DEF Only, Promise!Only

\* What two sequences in one hold.
Joins(T) == \A s, t \in Seq(T) : s \o t \in Seq(T) /\ ToSet(s \o t) = ToSet(s) \cup ToSet(t)

LEMMA JoinsAre == \A T : Joins(T)
BY ConcatFacts DEF Joins

\* What is lost in the middle leaves the rest as it was.
RestStays(T, g) ==
  \A q, f \in Seq(T) : \A w :
    w = q \o (g \o f) /\ ToSet(g) \cap (ToSet(q) \cup ToSet(f)) = {} =>
      Only(w, ToSet(w) \ ToSet(g)) = q \o f /\ ToSet(g) \subseteq ToSet(w)

LEMMA MiddleLost ==
  ASSUME NEW T, NEW g \in Seq(T)
  PROVE  RestStays(T, g)
<1> SUFFICES ASSUME NEW q \in Seq(T), NEW f \in Seq(T), NEW w, w = q \o (g \o f),
                    ToSet(g) \cap (ToSet(q) \cup ToSet(f)) = {}
             PROVE  Only(w, ToSet(w) \ ToSet(g)) = q \o f /\ ToSet(g) \subseteq ToSet(w)
  BY DEF RestStays
<1> DEFINE c == g \o f
           S == ToSet(w) \ ToSet(g)
           nothing == << >>
<1>0. Joins(T) /\ Splits(T)
  BY JoinsAre, SplitsAre
<1>1. w = q \o c /\ nothing \o f = f
  OBVIOUS
<1>2. c \in Seq(T) /\ ToSet(c) = ToSet(g) \cup ToSet(f)
  BY <1>0, Zenon DEF Joins
<1>3. Only(c, S) = Only(g, S) \o Only(f, S)
  <2>1. \A R : Only(c, R) = Only(g, R) \o Only(f, R)
    <3>1. Splits(T) /\ g \in Seq(T) /\ f \in Seq(T)
      BY <1>0
    <3> QED
      BY ONLY <3>1, Zenon DEF Splits
  <2> HIDE DEF c, S
  <2> QED
    BY <2>1
<1> HIDE DEF c
<1>4. ToSet(w) = ToSet(q) \cup ToSet(c)
  <2>1. ToSet(q \o c) = ToSet(q) \cup ToSet(c)
    BY <1>2, <1>0, Zenon DEF Joins
  <2> QED
    BY <1>1, <2>1, Zenon
<1>5. ToSet(q) \subseteq S /\ ToSet(f) \subseteq S /\ ToSet(g) \cap S = {} /\ ToSet(g) \subseteq ToSet(w)
  BY <1>2, <1>4
<1> HIDE DEF S
<1>6. Only(q \o c, S) = Only(q, S) \o Only(c, S)
  <2>1. Splits(T) /\ q \in Seq(T) /\ c \in Seq(T)
    BY <1>0, <1>2
  <2>2. \A R : Only(q \o c, R) = Only(q, R) \o Only(c, R)
    BY ONLY <2>1, Zenon DEF Splits
  <2> QED
    BY <2>2
<1>7. Only(q, S) = q /\ Only(f, S) = f /\ Only(g, S) = nothing
  BY <1>5, OnlyAll, OnlyNone
<1> HIDE DEF nothing
<1>8. Only(w, S) = q \o f
  BY <1>1, <1>3, <1>6, <1>7, Zenon
<1> QED
  BY <1>5, <1>8, Zenon DEF S

LEMMA LoseIs ==
  ASSUME NEW n \in Ports, NEW q \in Seq(Packets), NEW g \in Seq(Packets), NEW f \in Seq(Packets),
         g # << >>, ToSet(g) \cap (ToSet(q) \cup ToSet(f)) = {},
         Waiting[n] = q \o (g \o f), Waiting'[n] = q \o f,
         \A m \in Ports \ {n} : Waiting'[m] = Waiting[m], UNCHANGED Received
  PROVE  Promise!Lose(n)
<1> DEFINE w == Waiting[n]
<1>1. ToSet(g) # {}
  <2>1. ToSet(g) = ToSet(Tail(g)) \cup {Head(g)}
    BY TailFacts, Zenon
  <2> QED
    BY <2>1
<1>2. Only(w, ToSet(w) \ ToSet(g)) = q \o f /\ ToSet(g) \subseteq ToSet(w)
  <2> HIDE DEF w
  <2>1. w = q \o (g \o f)
    BY DEF w
  <2>2. RestStays(Packets, g)
    BY MiddleLost
  <2> QED
    BY <2>1, <2>2, Zenon DEF RestStays
<1>3. \A s : Promise!ToSet(s) = ToSet(s)
  BY DEF ToSet, Promise!ToSet
<1>4. Waiting' = [Waiting EXCEPT ![n] = Promise!Only(@, ToSet(@) \ ToSet(g))]
  <2>1. Waiting'[n] = Promise!Only(Waiting[n], ToSet(Waiting[n]) \ ToSet(g))
    BY <1>2, PromiseOnly, Zenon
  <2> QED
    BY <2>1, AreFunctions
<1> QED
  BY <1>1, <1>2, <1>3, <1>4 DEF Promise!Lose, Waiting, Received

\* The first packet of a mailbox, if it is for a port, is given up.
LEMMA FirstLost ==
  ASSUME PromiseInv, Incoming, NEW n \in Ports, to[First] = n, mailbox' = Tail(mailbox),
         UNCHANGED <<to, queue, port, held>>
  PROVE  Promise!Lose(n)
<1> DEFINE g == <<First>>
<1>1. First \in Packets /\ First \in ToSet(mailbox) /\ First \notin ToSet(Tail(mailbox))
  BY FirstInMailbox, TailInjective DEF PromiseInv, IInv, TypeOK, OnePlace, Incoming, First
<1>2. g \in Seq(Packets) /\ g # << >> /\ ToSet(g) = {First}
  BY <1>1 DEF ToSet
<1>3. Coming(n) = g \o Coming(n)' /\ \A m \in Ports \ {n} : Coming(m)' = Coming(m)
  BY ComingTaken DEF PromiseInv
<1>4. \A m \in Ports : Queued(m)' = Queued(m)
  BY QueuedSame
<1>5. Coming(n)' \in Seq(Packets) /\ ToSet(Coming(n)') \subseteq ToSet(Tail(mailbox))
  <2>1. Tail(mailbox) \in Seq(Packets)
    BY TailFacts DEF PromiseInv, IInv, TypeOK, Incoming
  <2> DEFINE t == Tail(mailbox)
             S == {p \in Packets : to[p] = n}
  <2>2. Coming(n)' = Only(t, S)
    BY DEF Coming
  <2> HIDE DEF t, S
  <2>3. Only(t, S) \in Seq(Packets) /\ ToSet(Only(t, S)) = ToSet(t) \cap S
    BY <2>1, OnlyType DEF t
  <2> QED
    BY <2>2, <2>3 DEF t
<1>6. Queued(n) \in Seq(Packets) /\ First \notin ToSet(Queued(n))
  <2>1. QueueOf(n)
    BY QueuesAre DEF PromiseInv
  <2>2. \A s \in Sockets : First \notin ToSet(queue[s])
    BY <1>1 DEF PromiseInv, OnePlace
  <2>3. First \notin ToSet(Queued(n))
    BY <2>1, <2>2, EmptyFacts DEF QueueOf
  <2> QED
    BY <2>1, <2>3 DEF QueueOf
<1>7. Received' = Received
  BY DEF Received
<1> HIDE DEF g
<1>8. Waiting[n] = Queued(n) \o (g \o Coming(n)') /\ Waiting'[n] = Queued(n) \o Coming(n)'
  BY <1>3, <1>4, WaitingIs, Zenon
<1>9. ASSUME NEW m \in Ports \ {n} PROVE Waiting'[m] = Waiting[m]
  <2>1. Coming(m)' = Coming(m) /\ Queued(m)' = Queued(m)
    BY <1>3, <1>4, Zenon
  <2> QED
    BY <2>1, WaitingIs, Zenon
<1>10. ToSet(g) \cap (ToSet(Queued(n)) \cup ToSet(Coming(n)')) = {}
  BY <1>1, <1>2, <1>5, <1>6
<1> QED
  BY <1>2, <1>5, <1>6, <1>7, <1>8, <1>9, <1>10, LoseIs

\* The first packet of a mailbox is for no port.
LEMMA FirstForNone ==
  ASSUME PromiseInv, Incoming, to[First] \notin Ports, mailbox' = Tail(mailbox),
         UNCHANGED <<to, queue, port, held>>
  PROVE  UNCHANGED <<Waiting, Received>>
<1>1. \A n \in Ports : Queued(n)' = Queued(n) /\ Coming(n)' = Coming(n)
  BY QueuedSame, ComingTaken DEF PromiseInv
<1>2. \A n \in Ports : Waiting'[n] = Waiting[n]
  BY <1>1, WaitingIs
<1>3. Received' = Received
  BY DEF Received
<1> QED
  BY <1>2, <1>3, Unchanged

\* A port that a packet is for.
LEMMA BoundPort ==
  ASSUME IInv, NEW p \in Packets, NEW s \in Sockets, to[p] = port[s]
  PROVE  port[s] \in Ports
BY UdpAssumption DEF IInv, TypeOK

LEMMA HeadTail ==
  ASSUME NEW T, NEW h \in T, NEW w \in Seq(T), NEW s, s = <<h>> \o w
  PROVE  s # << >> /\ Head(s) = h /\ Tail(s) = w
OBVIOUS

\* A program receives what is first on the way.
LEMMA ReceivedFirst ==
  ASSUME NEW n \in Ports, NEW h \in Packets, to[h] = n, UNCHANGED to, held' = held \cup {h},
         Waiting[n] = <<h>> \o Waiting'[n], Waiting'[n] \in Seq(Packets),
         \A m \in Ports \ {n} : Waiting'[m] = Waiting[m]
  PROVE  Promise!Receive(n)
<1> DEFINE w == Waiting'[n]
<1>1. w \in Seq(Packets) /\ Waiting[n] = <<h>> \o w
  OBVIOUS
<1> HIDE DEF w
<1>2. Waiting[n] # << >> /\ Head(Waiting[n]) = h /\ Tail(Waiting[n]) = w
  BY <1>1, HeadTail
<1>3. Waiting' = [Waiting EXCEPT ![n] = Tail(@)]
  BY <1>2, AreFunctions DEF w
<1>4. /\ Received'[n] = Received[n] \cup {h}
      /\ \A m \in Ports \ {n} : Received'[m] = Received[m]
  BY DEF Received
<1>5. Received' = [Received EXCEPT ![n] = @ \cup {Head(Waiting[n])}]
  BY <1>2, <1>4, AreFunctions
<1> QED
  BY <1>2, <1>3, <1>5 DEF Promise!Receive, Waiting, Received

-----------------------------------------------------------------------------
(* Every step is one of the promise, or none. *)

Concats(T) ==
  /\ \A s, t, u \in Seq(T) : (s \o t) \o u = s \o (t \o u)
  /\ \A s, t \in Seq(T) : \A e \in T : /\ Append(s, e) \o t = s \o (<<e>> \o t)
                                       /\ s \o Append(t, e) = Append(s \o t, e)
  /\ \A s \in Seq(T) : << >> \o s = s

IsJoin(c, s, t, T) ==
  /\ c \in Seq(T) /\ Len(c) = Len(s) + Len(t) /\ Len(s) \in Nat /\ Len(t) \in Nat
  /\ \A k \in 1 .. Len(c) : c[k] = IF k <= Len(s) THEN s[k] ELSE t[k - Len(s)]

LEMMA SameSequence ==
  ASSUME NEW T, NEW c \in Seq(T), NEW d \in Seq(T), Len(c) = Len(d),
         \A k \in 1 .. Len(c) : c[k] = d[k]
  PROVE  c = d
<1>1. DOMAIN c = 1 .. Len(c) /\ DOMAIN d = 1 .. Len(c)
  OBVIOUS
<1>2. c = [k \in 1 .. Len(c) |-> c[k]] /\ d = [k \in 1 .. Len(c) |-> d[k]]
  OBVIOUS
<1>3. [k \in 1 .. Len(c) |-> c[k]] = [k \in 1 .. Len(c) |-> d[k]]
  OBVIOUS
<1> QED
  BY <1>2, <1>3, Zenon

LEMMA Joined ==
  ASSUME NEW T
  PROVE  \A s, t \in Seq(T) : IsJoin(s \o t, s, t, T)
BY DEF IsJoin

LEMMA ConcatsAre == \A T : Concats(T)
<1> TAKE T
<1>1. ASSUME NEW s \in Seq(T), NEW t \in Seq(T), NEW u \in Seq(T)
      PROVE  (s \o t) \o u = s \o (t \o u)
  <2> DEFINE a == s \o t
             b == t \o u
             c == a \o u
             d == s \o b
  <2>0. \A v, w \in Seq(T) : IsJoin(v \o w, v, w, T)
    BY Joined
  <2>1. IsJoin(a, s, t, T) /\ IsJoin(b, t, u, T)
    BY <2>0
  <2>2. a \in Seq(T) /\ b \in Seq(T)
    BY <2>1 DEF IsJoin
  <2> HIDE DEF a, b
  <2>3. IsJoin(c, a, u, T) /\ IsJoin(d, s, b, T)
    BY <2>0, <2>2, Zenon
  <2> HIDE DEF c, d
  <2>4. /\ Len(s) \in Nat /\ Len(t) \in Nat /\ Len(u) \in Nat
        /\ Len(a) = Len(s) + Len(t) /\ Len(b) = Len(t) + Len(u)
        /\ Len(c) = Len(a) + Len(u) /\ Len(d) = Len(s) + Len(b)
    BY <2>1, <2>3 DEF IsJoin
  <2>5. ASSUME NEW k \in 1 .. Len(c) PROVE c[k] = d[k]
    <3> DEFINE i == k - Len(s)
    <3>1. k \in 1 .. Len(d)
      BY ONLY <2>4, k \in 1 .. Len(c)
    <3>2. CASE k <= Len(s)
      <4>1. k \in 1 .. Len(a) /\ k <= Len(a)
        BY ONLY <2>4, k \in 1 .. Len(c), <3>2
      <4> QED
        BY <2>1, <2>3, <3>1, <3>2, <4>1 DEF IsJoin
    <3>3. CASE ~(k <= Len(s)) /\ k <= Len(a)
      <4>1. k \in 1 .. Len(a) /\ i \in 1 .. Len(b) /\ i <= Len(t)
        BY ONLY <2>4, k \in 1 .. Len(c), <3>3
      <4> HIDE DEF i
      <4>2. b[i] = t[i]
        BY <2>1, <4>1 DEF IsJoin
      <4>3. c[k] = a[k] /\ a[k] = t[i] /\ d[k] = b[i]
        BY <2>1, <2>3, <3>1, <3>3, <4>1 DEF IsJoin, i
      <4> QED
        BY <4>2, <4>3
    <3>4. CASE ~(k <= Len(a))
      <4>1. ~(k <= Len(s)) /\ i \in 1 .. Len(b) /\ ~(i <= Len(t)) /\ i - Len(t) = k - Len(a)
        BY ONLY <2>4, k \in 1 .. Len(c), <3>4
      <4>2. c[k] = u[k - Len(a)] /\ d[k] = b[i]
        BY <2>3, <3>1, <3>4, <4>1 DEF IsJoin
      <4> HIDE DEF i
      <4>3. b[i] = u[i - Len(t)]
        BY <2>1, <4>1 DEF IsJoin
      <4> QED
        BY <4>1, <4>2, <4>3
    <3> QED
      BY <3>2, <3>3, <3>4
  <2>6. c = d
    <3>1. c \in Seq(T) /\ d \in Seq(T) /\ Len(c) = Len(d)
      BY <2>3, <2>4 DEF IsJoin
    <3> QED
      BY <2>5, <3>1, SameSequence
  <2> QED
    BY <2>6 DEF c, d, a, b
<1>2. ASSUME NEW s \in Seq(T), NEW t \in Seq(T), NEW e \in T
      PROVE  Append(s, e) \o t = s \o (<<e>> \o t)
  <2>1. <<e>> \in Seq(T) /\ Append(s, e) = s \o <<e>>
    OBVIOUS
  <2> DEFINE g == <<e>>
  <2> HIDE DEF g
  <2>2. (s \o g) \o t = s \o (g \o t)
    BY <1>1, <2>1, Zenon DEF g
  <2> QED
    BY <2>1, <2>2, Zenon DEF g
<1>3. ASSUME NEW s \in Seq(T), NEW t \in Seq(T), NEW e \in T
      PROVE  s \o Append(t, e) = Append(s \o t, e)
  BY AppendConcat
<1>4. \A s \in Seq(T) : << >> \o s = s
  OBVIOUS
<1> QED
  <2>1. \A s, t, u \in Seq(T) : (s \o t) \o u = s \o (t \o u)
    BY ONLY <1>1, Zenon
  <2>2. \A s, t \in Seq(T) : \A e \in T : /\ Append(s, e) \o t = s \o (<<e>> \o t)
                                           /\ s \o Append(t, e) = Append(s \o t, e)
    BY ONLY <1>2, <1>3, Zenon
  <2> QED
    BY ONLY <1>4, <2>1, <2>2, Zenon DEF Concats

\* The queue of a port stays if those that have the port keep it and their
\* queue, and one that gets it has nothing queued.
LEMMA QueuedStays ==
  ASSUME IInv, IInv', NEW m \in Ports,
         \A s \in Sockets : port[s] = m => port'[s] = m /\ queue'[s] = queue[s],
         \A s \in Sockets : port'[s] = m => port[s] = m \/ queue'[s] = << >>
  PROVE  Queued(m)' = Queued(m)
<1>1. QueueOf(m) /\ QueueOf(m)'
  BY QueuesAre, QueuesAreNext
<1>2. ASSUME NEW s \in Sockets, port[s] = m PROVE Queued(m)' = Queued(m)
  BY <1>1, <1>2 DEF QueueOf
<1>3. ASSUME \A s \in Sockets : port[s] # m PROVE Queued(m)' = Queued(m)
  <2>1. Queued(m) = << >>
    BY <1>1, <1>3 DEF QueueOf
  <2>2. ASSUME NEW s \in Sockets, port'[s] = m PROVE Queued(m)' = << >>
    BY <1>1, <1>3, <2>2 DEF QueueOf
  <2>3. ASSUME \A s \in Sockets : port'[s] # m PROVE Queued(m)' = << >>
    BY <1>1, <2>3 DEF QueueOf
  <2> QED
    BY <2>1, <2>2, <2>3
<1> QED
  BY <1>2, <1>3

LEMMA BindIs ==
  ASSUME PromiseInv, IInv', NEW s \in Sockets, NEW n \in Ports, NEW any \in BOOLEAN,
         Bind(s, n, any)
  PROVE  UNCHANGED <<Waiting, Received>>
<1>1. IInv /\ queue[s] \in Seq(Packets) /\ port[s] = NoPort /\ Bound(n) = {}
  BY DEF PromiseInv, IInv, TypeOK, Bind
<1>2. queue[s] = << >>
  <2>1. ASSUME queue[s] # << >> PROVE FALSE
    <3>1. Head(queue[s]) \in Packets /\ Head(queue[s]) \in ToSet(queue[s])
      BY <1>1, <2>1, TailFacts
    <3>2. to[Head(queue[s])] = NoPort
      BY <1>1, <3>1 DEF IInv, QueuesAreOwn
    <3> QED
      BY <1>1, <3>1, <3>2, UdpAssumption DEF IInv, TypeOK
  <2> QED
    BY <2>1
<1>3. /\ \A r \in Sockets : port'[r] = IF r = s THEN n ELSE port[r]
      /\ UNCHANGED <<queue, to, mailbox, held>>
  BY <1>1 DEF Bind, IInv, TypeOK, packets
<1>4. ASSUME NEW m \in Ports PROVE Queued(m)' = Queued(m) /\ Coming(m)' = Coming(m)
  <2>1. m # NoPort
    BY UdpAssumption DEF Destinations
  <2>2. /\ \A r \in Sockets : port[r] = m => port'[r] = m /\ queue'[r] = queue[r]
        /\ \A r \in Sockets : port'[r] = m => port[r] = m \/ queue'[r] = << >>
    BY <1>1, <1>2, <1>3, <2>1
  <2>3. Queued(m)' = Queued(m)
    BY <1>1, <2>2, QueuedStays
  <2>4. Coming(m)' = Coming(m)
    BY <1>1, <1>3, ComingSame
  <2> QED
    BY <2>3, <2>4
<1>5. \A m \in Ports : Waiting'[m] = Waiting[m]
  BY <1>4, WaitingIs
<1>6. Received' = Received
  BY <1>3 DEF Received
<1> QED
  BY <1>5, <1>6, Unchanged

LEMMA CloseIs ==
  ASSUME PromiseInv, IInv', NEW s \in Sockets, NEW n \in Ports, port[s] = n, Close(s)
  PROVE  Promise!Lose(n) \/ UNCHANGED <<Waiting, Received>>
<1> DEFINE nothing == << >>
           g == queue[s]
           f == Coming(n)
<1>1. IInv /\ n # NoPort /\ g \in Seq(Packets) /\ nothing \in Seq(Packets) /\ ToSet(nothing) = {}
  BY UdpAssumption, EmptyFacts DEF PromiseInv, IInv, TypeOK, Destinations
<1>2. /\ \A r \in Sockets : port'[r] = IF r = s THEN NoPort ELSE port[r]
      /\ \A r \in Sockets : queue'[r] = IF r = s THEN nothing ELSE queue[r]
      /\ UNCHANGED <<to, mailbox, held>>
  BY <1>1 DEF Close, IInv, TypeOK, packets
<1>3. \A r \in Sockets : port[r] = n => r = s
  BY <1>1 DEF IInv, QueuesAreOwn
<1>4. \A m \in Ports : Coming(m)' = Coming(m)
  BY <1>1, <1>2, ComingSame
<1>5. ASSUME NEW m \in Ports \ {n} PROVE Queued(m)' = Queued(m)
  <2>1. m # NoPort
    BY UdpAssumption DEF Destinations
  <2>2. /\ \A r \in Sockets : port[r] = m => port'[r] = m /\ queue'[r] = queue[r]
        /\ \A r \in Sockets : port'[r] = m => port[r] = m \/ queue'[r] = << >>
    BY <1>2, <2>1
  <2> QED
    BY <1>1, <2>2, QueuedStays
<1>6. Queued(n) = g
  BY <1>1, QueuesAre DEF QueueOf
<1>7. Queued(n)' = nothing
  <2>1. \A r \in Sockets : port'[r] # n
    BY <1>1, <1>2, <1>3
  <2>2. QueueOf(n)'
    BY QueuesAreNext
  <2> QED
    BY <2>1, <2>2 DEF QueueOf
<1>8. \A m \in Ports \ {n} : Waiting'[m] = Waiting[m]
  BY <1>4, <1>5, WaitingIs
<1>9. Received' = Received
  BY <1>2 DEF Received
<1>10. CASE g = nothing
  <2>1. Waiting'[n] = Waiting[n]
    <3>1. Queued(n)' = Queued(n)
      BY <1>6, <1>7, <1>10
    <3> QED
      BY <1>4, <3>1, WaitingIs
  <2>2. \A m \in Ports : Waiting'[m] = Waiting[m]
    BY <1>8, <2>1
  <2> QED
    BY <1>9, <2>2, Unchanged
<1>11. CASE g # nothing
  <2>1. f \in Seq(Packets) /\ ToSet(f) \subseteq ToSet(mailbox)
    BY <1>1, ComingIs
  <2>2. \A p \in ToSet(g) : p \notin ToSet(mailbox)
    BY DEF PromiseInv, OnePlace
  <2>3. ToSet(g) \cap (ToSet(nothing) \cup ToSet(f)) = {}
    BY <1>1, <2>1, <2>2
  <2> HIDE DEF g, f
  <2>4. g \o f \in Seq(Packets)
    BY <1>1, <2>1, ConcatFacts
  <2>5. nothing \o (g \o f) = g \o f
    BY <2>4, ConcatsAre, Zenon DEF Concats
  <2> HIDE DEF nothing
  <2>6. Coming(n)' = f /\ Coming(n) = f
    BY <1>4 DEF f
  <2>7. Waiting[n] = nothing \o (g \o f) /\ Waiting'[n] = nothing \o f
    BY <1>6, <1>7, <2>5, <2>6, WaitingIs, Zenon
  <2>8. g # << >>
    BY <1>11 DEF nothing
  <2>9. Promise!Lose(n)
    BY <1>1, <1>8, <1>9, <2>1, <2>3, <2>7, <2>8, LoseIs
  <2> QED
    BY <2>9
<1> QED
  BY <1>10, <1>11

\* What is left of a mailbox for a port.
LEMMA TakenType ==
  ASSUME IInv, Incoming, NEW n \in Ports, mailbox' = Tail(mailbox), UNCHANGED to
  PROVE  Coming(n)' \in Seq(Packets)
<1>1. Tail(mailbox) \in Seq(Packets)
  BY TailFacts DEF IInv, TypeOK, Incoming
<1> DEFINE t == Tail(mailbox)
           S == {p \in Packets : to[p] = n}
<1>2. Coming(n)' = Only(t, S)
  BY DEF Coming
<1> HIDE DEF t, S
<1>3. Only(t, S) \in Seq(Packets)
  BY <1>1, OnlyType DEF t
<1> QED
  BY <1>2, <1>3

LEMMA ReceiveQueuedIs ==
  ASSUME PromiseInv, IInv', NEW s \in Sockets, NEW n \in Ports, port[s] = n, ReceiveQueued(s)
  PROVE  Promise!Receive(n)
<1> DEFINE h == Head(queue[s])
           t == Tail(queue[s])
           f == Coming(n)
<1>1. IInv /\ queue[s] \in Seq(Packets) /\ queue[s] # << >>
  BY DEF PromiseInv, IInv, TypeOK, ReceiveQueued
<1>2. /\ \A r \in Sockets : queue'[r] = IF r = s THEN t ELSE queue[r]
      /\ UNCHANGED <<to, mailbox, port>> /\ held' = held \cup {h}
  BY <1>1 DEF ReceiveQueued, IInv, TypeOK
<1>3. /\ h \in Packets /\ t \in Seq(Packets) /\ f \in Seq(Packets) /\ to[h] = n
      /\ queue[s] = <<h>> \o t
  <2>1. h \in Packets /\ t \in Seq(Packets) /\ h \in ToSet(queue[s])
    BY <1>1, TailFacts
  <2>2. queue[s] = <<h>> \o t
    BY <1>1
  <2>3. to[h] = n
    BY <1>1, <2>1 DEF IInv, QueuesAreOwn
  <2> QED
    BY <1>1, <2>1, <2>2, <2>3, ComingIs
<1>4. \A m \in Ports : Coming(m)' = Coming(m)
  BY <1>1, <1>2, ComingSame
<1>5. Queued(n) = queue[s] /\ Queued(n)' = queue'[s]
  BY <1>1, <1>2, QueuesAre, QueuesAreNext DEF QueueOf
<1>6. queue'[s] = t
  BY <1>2
<1>7. ASSUME NEW m \in Ports \ {n} PROVE Queued(m)' = Queued(m)
  <2>1. /\ \A r \in Sockets : port[r] = m => port'[r] = m /\ queue'[r] = queue[r]
        /\ \A r \in Sockets : port'[r] = m => port[r] = m \/ queue'[r] = << >>
    BY <1>2
  <2> QED
    BY <1>1, <2>1, QueuedStays
<1>8. \A m \in Ports \ {n} : Waiting'[m] = Waiting[m]
  BY <1>4, <1>7, WaitingIs
<1>9. Coming(n)' = f /\ Coming(n) = f
  BY <1>4
<1> HIDE DEF h, t, f
<1>10. Waiting[n] = (<<h>> \o t) \o f /\ Waiting'[n] = t \o f
  BY <1>3, <1>5, <1>6, <1>9, WaitingIs, Zenon
<1>11. Waiting[n] = <<h>> \o Waiting'[n]
  <2> DEFINE g == <<h>>
  <2>1. g \in Seq(Packets) /\ Concats(Packets)
    BY <1>3, ConcatsAre
  <2> HIDE DEF g
  <2>2. (g \o t) \o f = g \o (t \o f)
    BY <1>3, <2>1, Zenon DEF Concats
  <2> QED
    BY <1>10, <2>2, Zenon DEF g
<1>12. Waiting'[n] \in Seq(Packets)
  <2>1. t \o f \in Seq(Packets)
    BY <1>3, ConcatFacts
  <2> QED
    BY <1>10, <2>1, Zenon
<1> QED
  BY <1>2, <1>3, <1>8, <1>11, <1>12, ReceivedFirst

LEMMA ReceiveOwnIs ==
  ASSUME PromiseInv, ReceiveOwn, NEW n \in Ports, port[socket] = n
  PROVE  Promise!Receive(n)
<1>1. /\ IInv /\ Incoming /\ socket \in Sockets /\ queue[socket] = << >> /\ to[First] = n
      /\ mailbox' = Tail(mailbox) /\ held' = held \cup {First}
      /\ UNCHANGED <<to, queue, port>>
  BY DEF PromiseInv, Receives, ReceiveOwn, Incoming, sockets
<1>2. First \in Packets
  BY <1>1, TailFacts DEF IInv, TypeOK, Incoming, First
<1>3. /\ Coming(n) = <<First>> \o Coming(n)'
      /\ \A m \in Ports \ {n} : Coming(m)' = Coming(m)
  BY <1>1, ComingTaken
<1>4. \A m \in Ports : Queued(m)' = Queued(m)
  BY <1>1, QueuedSame
<1>5. Queued(n) = << >>
  BY <1>1, QueuesAre DEF QueueOf
<1>6. Coming(n)' \in Seq(Packets)
  BY <1>1, TakenType
<1> DEFINE w == Coming(n)'
           c == <<First>> \o w
           nothing == << >>
<1>7. nothing \o w = w /\ nothing \o c = c
  <2>1. c \in Seq(Packets) /\ Concats(Packets)
    BY <1>2, <1>6, ConcatsAre
  <2> HIDE DEF c, w
  <2> QED
    BY <1>6, <2>1, Zenon DEF w, Concats
<1>8. Queued(n) = nothing /\ Queued(n)' = nothing /\ Coming(n) = c /\ Coming(n)' = w
  BY <1>3, <1>4, <1>5
<1> HIDE DEF nothing, c, w
<1>9. Waiting[n] = c /\ Waiting'[n] = w
  BY <1>7, <1>8, WaitingIs, Zenon
<1>10. ASSUME NEW m \in Ports \ {n} PROVE Waiting'[m] = Waiting[m]
  <2>1. Coming(m)' = Coming(m) /\ Queued(m)' = Queued(m)
    BY <1>3, <1>4, Zenon
  <2> QED
    BY <2>1, WaitingIs, Zenon
<1>11. Waiting[n] = <<First>> \o Waiting'[n] /\ Waiting'[n] \in Seq(Packets)
  BY <1>6, <1>9, Zenon DEF c, w
<1> QED
  BY <1>1, <1>2, <1>10, <1>11, ReceivedFirst

LEMMA QueueForOtherIs ==
  ASSUME PromiseInv, IInv', NEW s \in Sockets, NEW n \in Ports, port[s] = n, QueueForOther(s)
  PROVE  UNCHANGED <<Waiting, Received>>
<1> DEFINE q == queue[s]
           f == Coming(n)'
<1>1. /\ IInv /\ Incoming /\ to[First] = n /\ q \in Seq(Packets)
      /\ mailbox' = Tail(mailbox) /\ UNCHANGED <<to, port, held>>
      /\ \A r \in Sockets : queue'[r] = IF r = s THEN Append(q, First) ELSE queue[r]
  BY DEF PromiseInv, IInv, TypeOK, QueueForOther
<1>2. First \in Packets
  BY <1>1, TailFacts DEF IInv, TypeOK, Incoming, First
<1>3. /\ Coming(n) = <<First>> \o f
      /\ \A m \in Ports \ {n} : Coming(m)' = Coming(m)
  BY <1>1, ComingTaken
<1>4. f \in Seq(Packets)
  BY <1>1, TakenType
<1>5. ASSUME NEW m \in Ports \ {n} PROVE Queued(m)' = Queued(m)
  <2>1. /\ \A r \in Sockets : port[r] = m => port'[r] = m /\ queue'[r] = queue[r]
        /\ \A r \in Sockets : port'[r] = m => port[r] = m \/ queue'[r] = << >>
    BY <1>1
  <2> QED
    BY <1>1, <2>1, QueuedStays
<1>6. Queued(n) = q /\ Queued(n)' = Append(q, First)
  <2>1. Queued(n) = q /\ Queued(n)' = queue'[s]
    BY <1>1, QueuesAre, QueuesAreNext DEF QueueOf
  <2> QED
    BY <1>1, <2>1
<1>7. Append(q, First) \o f = q \o (<<First>> \o f)
  <2>1. Concats(Packets)
    BY ConcatsAre
  <2> HIDE DEF q, f
  <2> QED
    BY <1>1, <1>2, <1>4, <2>1, Zenon DEF Concats
<1>8. Coming(n)' = f
  OBVIOUS
<1> HIDE DEF q, f
<1>9. Waiting'[n] = Waiting[n]
  BY <1>3, <1>6, <1>7, <1>8, WaitingIs, Zenon
<1>10. \A m \in Ports \ {n} : Waiting'[m] = Waiting[m]
  BY <1>3, <1>5, WaitingIs
<1>11. \A m \in Ports : Waiting'[m] = Waiting[m]
  BY <1>9, <1>10
<1>12. Received' = Received
  BY <1>1 DEF Received
<1> QED
  BY <1>11, <1>12, Unchanged

LEMMA FreeIs ==
  ASSUME PromiseInv, NEW p \in Packets, Free(p)
  PROVE  (\E n \in Ports : Promise!Free(p, n)) \/ UNCHANGED <<Waiting, Received>>
<1>1. /\ IInv /\ p \in held /\ held' = held \ {p}
      /\ UNCHANGED <<to, mailbox, queue, port>>
  BY DEF PromiseInv, Free, sockets
<1>2. \A n \in Ports : Queued(n)' = Queued(n) /\ Coming(n)' = Coming(n)
  BY <1>1, QueuedSame, ComingSame
<1>3. \A n \in Ports : Waiting'[n] = Waiting[n]
  BY <1>2, WaitingIs
<1>4. Waiting' = Waiting
  BY <1>3, AreFunctions, Zenon
<1>5. \A m \in Ports : Received'[m] = IF m = to[p] THEN Received[m] \ {p} ELSE Received[m]
  BY <1>1 DEF Received
<1>6. ASSUME NEW n \in Ports, to[p] = n PROVE Promise!Free(p, n)
  <2>1. p \in Received[n]
    BY <1>1, <1>6 DEF Received
  <2>2. Received' = [Received EXCEPT ![n] = @ \ {p}]
    BY <1>5, <1>6, AreFunctions
  <2> QED
    BY <1>4, <2>1, <2>2 DEF Promise!Free, Waiting, Received
<1>7. CASE to[p] \notin Ports
  <2>1. \A m \in Ports : Received'[m] = Received[m]
    BY <1>5, <1>7
  <2> QED
    BY <1>3, <2>1, Unchanged
<1> QED
  BY <1>6, <1>7

\* A packet in no queue is not known.
LEMMA UnknownIs ==
  ASSUME PromiseInv, NEW p \in Packets, p \notin InUse
  PROVE  ~Promise!Known(p)
<1>1. IInv
  BY DEF PromiseInv
<1>2. ASSUME NEW n \in Ports PROVE p \notin Received[n] \cup ToSet(Waiting[n])
  <2>1. Queued(n) \in Seq(Packets) /\ Coming(n) \in Seq(Packets)
    BY <1>1, QueuesAre, ComingIs DEF QueueOf
  <2>2. p \notin Received[n] /\ p \notin ToSet(Coming(n))
    BY <1>1, ComingIs DEF Received, InUse
  <2>3. p \notin ToSet(Queued(n))
    <3>1. QueueOf(n)
      BY <1>1, QueuesAre
    <3>2. \A s \in Sockets : p \notin ToSet(queue[s])
      BY DEF InUse
    <3> QED
      BY <3>1, <3>2, EmptyFacts DEF QueueOf
  <2>4. ToSet(Waiting[n]) = ToSet(Queued(n)) \cup ToSet(Coming(n))
    <3>1. Joins(Packets) /\ Waiting[n] = Queued(n) \o Coming(n)
      BY JoinsAre, WaitingIs
    <3> QED
      BY <2>1, <3>1, Zenon DEF Joins
  <2> QED
    BY <2>2, <2>3, <2>4
<1>3. \A s : Promise!ToSet(s) = ToSet(s)
  BY DEF ToSet, Promise!ToSet
<1> QED
  BY <1>2, <1>3 DEF Promise!Known, Waiting, Received

LEMMA ArriveIs ==
  ASSUME PromiseInv, NEW p \in Packets, NEW d \in Destinations, Arrive(p, d)
  PROVE  /\ d \in Ports => Promise!Arrive(p, d)
         /\ d \notin Ports => UNCHANGED <<Waiting, Received>>
<1>1. /\ IInv /\ p \notin InUse /\ mailbox \in Seq(Packets)
      /\ mailbox' = Append(mailbox, p) /\ UNCHANGED <<queue, port, held>>
      /\ \A q \in Packets : to'[q] = IF q = p THEN d ELSE to[q]
  BY DEF PromiseInv, Arrive, IInv, TypeOK, sockets
<1>2. \A n \in Ports : Queued(n)' = Queued(n)
  BY <1>1, QueuedSame
<1>3. ASSUME NEW n \in Ports
      PROVE  Coming(n)' = IF n = d THEN Append(Coming(n), p) ELSE Coming(n)
  <2> DEFINE S == {q \in Packets : to[q] = n}
             R == {q \in Packets : to'[q] = n}
  <2>1. Coming(n)' = Only(Append(mailbox, p), R) /\ Coming(n) = Only(mailbox, S)
    BY <1>1 DEF Coming
  <2>2. \A q \in ToSet(mailbox) : q \in Packets /\ q # p
    BY <1>1 DEF InUse, ToSet
  <2>3. (\A q \in ToSet(mailbox) : q \in S <=> q \in R) /\ (p \in R <=> n = d)
    BY <1>1, <2>2
  <2> HIDE DEF S, R
  <2>4. Only(mailbox, R) = Only(mailbox, S)
    BY <1>1, <2>3, OnlySame
  <2>5. Only(Append(mailbox, p), R) = IF p \in R THEN Append(Only(mailbox, R), p) ELSE Only(mailbox, R)
    BY <1>1, OnlyAppend
  <2> QED
    BY <2>1, <2>3, <2>4, <2>5
<1>4. Received' = Received
  <2>1. \A q \in held : q # p /\ q \in Packets
    BY <1>1 DEF InUse, IInv, TypeOK
  <2> QED
    BY <1>1, <2>1 DEF Received
<1>5. \A m \in Ports : m # d => Waiting'[m] = Waiting[m]
  <2> SUFFICES ASSUME NEW m \in Ports, m # d PROVE Waiting'[m] = Waiting[m]
    OBVIOUS
  <2>1. Coming(m)' = Coming(m) /\ Queued(m)' = Queued(m)
    BY <1>2, <1>3
  <2> QED
    BY <2>1, WaitingIs, Zenon
<1>6. CASE d \in Ports
  <2>1. Queued(d) \in Seq(Packets) /\ Coming(d) \in Seq(Packets) /\ Concats(Packets)
    BY <1>1, <1>6, QueuesAre, ComingIs, ConcatsAre DEF QueueOf
  <2>2. Coming(d)' = Append(Coming(d), p) /\ Queued(d)' = Queued(d)
    BY <1>2, <1>3, <1>6
  <2>3. Queued(d) \o Append(Coming(d), p) = Append(Queued(d) \o Coming(d), p)
    BY <2>1, Zenon DEF Concats
  <2>4. Waiting'[d] = Append(Waiting[d], p)
    BY <1>6, <2>2, <2>3, WaitingIs, Zenon
  <2>5. Waiting' = [Waiting EXCEPT ![d] = Append(@, p)]
    BY <1>5, <1>6, <2>4, AreFunctions
  <2> QED
    <3>1. ~Promise!Known(p)
      BY <1>1, UnknownIs
    <3>2. Promise!Arrive(p, d)
      BY <1>4, <2>5, <3>1 DEF Promise!Arrive, Waiting, Received
    <3> QED
      BY <1>6, <3>2
<1>7. CASE d \notin Ports
  BY <1>4, <1>5, <1>7, Unchanged
<1> QED
  BY <1>6, <1>7

\* Between the queue and what comes behind it.
Between(q, f, p) ==
  /\ Len(q) + 1 \in 1 .. Len(q \o f) + 1
  /\ Promise!InsertAt(q \o f, Len(q) + 1, p) = Append(q, p) \o f

LEMMA InsertedBetween ==
  ASSUME NEW T, NEW q \in Seq(T), NEW f \in Seq(T), NEW p \in T
  PROVE  Between(q, f, p)
<1> DEFINE c == q \o f
           k == Len(q) + 1
<1>1. IsJoin(c, q, f, T)
  BY Joined
<1> HIDE DEF c
<1>2. /\ c \in Seq(T) /\ Len(c) = Len(q) + Len(f) /\ Len(q) \in Nat /\ Len(f) \in Nat
      /\ k - 1 = Len(q) /\ k \in 1 .. Len(c) + 1
  BY <1>1 DEF IsJoin
<1>3. SubSeq(c, 1, k - 1) = q
  <2> DEFINE d == SubSeq(c, 1, Len(q))
  <2>1. d \in Seq(T) /\ Len(d) = Len(q) /\ \A i \in 1 .. Len(q) : d[i] = c[i]
    BY <1>2
  <2>2. \A i \in 1 .. Len(q) : c[i] = q[i]
    BY <1>1, <1>2 DEF IsJoin
  <2> HIDE DEF d
  <2>3. d = q
    BY <2>1, <2>2, SameSequence
  <2> QED
    BY <1>2, <2>3 DEF d
<1>4. SubSeq(c, k, Len(c)) = f
  <2> DEFINE d == SubSeq(c, k, Len(c))
  <2>1. d \in Seq(T) /\ Len(d) = Len(f) /\ \A i \in 1 .. Len(f) : d[i] = c[Len(q) + i]
    BY <1>2
  <2>2. ASSUME NEW i \in 1 .. Len(f) PROVE c[Len(q) + i] = f[i]
    <3> DEFINE j == Len(q) + i
    <3>1. j \in 1 .. Len(c) /\ ~(j <= Len(q)) /\ j - Len(q) = i
      BY <1>2
    <3> HIDE DEF j
    <3>2. c[j] = f[j - Len(q)]
      BY <1>1, <3>1 DEF IsJoin
    <3> QED
      BY <3>1, <3>2 DEF j
  <2> HIDE DEF d
  <2>3. \A i \in 1 .. Len(d) : d[i] = f[i]
    BY <2>1, <2>2
  <2>4. d = f
    BY <2>1, <2>3, SameSequence
  <2> QED
    BY <2>4 DEF d
<1>5. (q \o <<p>>) \o f = Append(q, p) \o f
  <2>1. q \o <<p>> = Append(q, p)
    OBVIOUS
  <2> QED
    BY <2>1, Zenon
<1> HIDE DEF k
<1>6. Promise!InsertAt(c, k, p) = Append(q, p) \o f
  BY <1>3, <1>4, <1>5, Zenon DEF Promise!InsertAt
<1> QED
  BY <1>2, <1>6, Zenon DEF c, k, Between

LEMMA SendToSelfIs ==
  ASSUME PromiseInv, IInv', NEW p \in Packets, NEW s \in Sockets, NEW n \in Ports, port[s] = n,
         SendToSelf(p, s)
  PROVE  Promise!SendToSelf(p, n)
<1> DEFINE q == queue[s]
           f == Coming(n)
<1>1. /\ IInv /\ q \in Seq(Packets) /\ p \notin InUse /\ UNCHANGED <<mailbox, held, port>>
      /\ \A r \in Packets : to'[r] = IF r = p THEN n ELSE to[r]
      /\ \A r \in Sockets : queue'[r] = IF r = s THEN Append(q, p) ELSE queue[r]
  BY DEF PromiseInv, IInv, TypeOK, SendToSelf
<1>2. ASSUME NEW m \in Ports PROVE Coming(m)' = Coming(m)
  <2>1. \A r \in ToSet(mailbox) : r \in Packets /\ r # p
    BY DEF InUse, PromiseInv, IInv, TypeOK, ToSet, SendToSelf
  <2> QED
    BY <1>1, <2>1, ComingSame
<1>3. f \in Seq(Packets)
  BY <1>1, ComingIs
<1>4. ASSUME NEW m \in Ports \ {n} PROVE Queued(m)' = Queued(m)
  <2>1. /\ \A r \in Sockets : port[r] = m => port'[r] = m /\ queue'[r] = queue[r]
        /\ \A r \in Sockets : port'[r] = m => port[r] = m \/ queue'[r] = << >>
    BY <1>1
  <2> QED
    BY <1>1, <2>1, QueuedStays
<1>5. Queued(n) = q /\ Queued(n)' = Append(q, p)
  <2>1. Queued(n) = q /\ Queued(n)' = queue'[s]
    BY <1>1, QueuesAre, QueuesAreNext DEF QueueOf
  <2> QED
    BY <1>1, <2>1
<1>6. Coming(n)' = f /\ Coming(n) = f
  BY <1>2
<1> HIDE DEF q, f
<1>7. Waiting[n] = q \o f /\ Waiting'[n] = Append(q, p) \o f
  BY <1>5, <1>6, WaitingIs, Zenon
<1>8. ASSUME NEW m \in Ports \ {n} PROVE Waiting'[m] = Waiting[m]
  <2>1. Coming(m)' = Coming(m) /\ Queued(m)' = Queued(m)
    BY <1>2, <1>4, Zenon
  <2> QED
    BY <2>1, WaitingIs, Zenon
<1>9. \E k \in 1 .. Len(Waiting[n]) + 1 : Waiting' = [Waiting EXCEPT ![n] = Promise!InsertAt(@, k, p)]
  <2> DEFINE k == Len(q) + 1
  <2>1. k \in 1 .. Len(q \o f) + 1 /\ Promise!InsertAt(q \o f, k, p) = Append(q, p) \o f
    <3>1. q \in Seq(Packets) /\ f \in Seq(Packets) /\ p \in Packets
      BY <1>1, <1>3
    <3>2. Between(q, f, p)
      BY ONLY <3>1, InsertedBetween, Zenon
    <3> QED
      BY <3>2, Zenon DEF Between
  <2> HIDE DEF k
  <2>2. k \in 1 .. Len(Waiting[n]) + 1 /\ Waiting'[n] = Promise!InsertAt(Waiting[n], k, p)
    BY <1>7, <2>1, Zenon
  <2>3. Waiting' = [Waiting EXCEPT ![n] = Promise!InsertAt(@, k, p)]
    BY <1>8, <2>2, AreFunctions
  <2> QED
    BY <2>2, <2>3
<1>10. Received' = Received
  <2>1. \A r \in held : r # p /\ r \in Packets
    BY <1>1 DEF InUse, IInv, TypeOK
  <2> QED
    BY <1>1, <2>1 DEF Received
<1> QED
  BY <1>1, <1>9, <1>10, UnknownIs DEF Promise!SendToSelf, Waiting, Received

\* A step takes the mailbox's first packet, and waits on or is done.
LEMMA TakeIs ==
  ASSUME PromiseInv, IInv', Take
  PROVE  Promise!Next \/ UNCHANGED <<Waiting, Received>>
<1>1. IInv /\ (Incoming => First \in Packets)
  BY TailFacts DEF PromiseInv, IInv, TypeOK, Incoming, First
<1>2. ASSUME NEW n \in Ports, Promise!Receive(n) \/ Promise!Lose(n) PROVE Promise!Next
  BY <1>2 DEF Promise!Next
<1>3. CASE ReceiveOwn
  <2>1. socket \in Sockets /\ First \in Packets /\ to[First] = port[socket]
    BY <1>1, <1>3 DEF ReceiveOwn, Incoming, PromiseInv, Receives
  <2>2. port[socket] \in Ports
    BY <1>1, <2>1, BoundPort
  <2>3. PICK n \in Ports : port[socket] = n
    BY <2>2
  <2>4. Promise!Receive(n)
    BY <1>3, <2>3, ReceiveOwnIs
  <2> QED
    BY <1>2, <2>4
<1>4. ASSUME NEW s \in Sockets, QueueForOther(s) PROVE UNCHANGED <<Waiting, Received>>
  <2>1. port[s] \in Ports
    BY <1>1, <1>4, BoundPort DEF QueueForOther
  <2> QED
    BY <1>4, <2>1, QueueForOtherIs
<1>5. CASE \/ Answer \/ AnswerFails \/ \E s \in Sockets : DropForOther(s)
  <2>1. /\ Incoming /\ to[First] \in Ports /\ mailbox' = Tail(mailbox)
        /\ UNCHANGED <<to, queue, port, held>>
    BY <1>1, <1>5, BoundPort DEF Answer, AnswerFails, DropForOther, Unbound, sockets
  <2>2. Promise!Lose(to[First])
    BY <2>1, FirstLost
  <2> QED
    BY <1>2, <2>1, <2>2
<1>6. CASE Stray \/ StrayFull \/ Refuse
  <2>1. /\ Incoming /\ to[First] \notin Ports /\ mailbox' = Tail(mailbox)
        /\ UNCHANGED <<to, queue, port, held>>
    BY <1>6, UdpAssumption DEF Stray, StrayFull, Refuse, sockets
  <2> QED
    BY <2>1, FirstForNone
<1>7. CASE AnswerNowhere
  BY <1>1, <1>7, NothingMoves DEF AnswerNowhere, packets, sockets
<1> QED
  BY <1>3, <1>4, <1>5, <1>6, <1>7 DEF Take

LEMMA ProgramIs ==
  ASSUME PromiseInv, IInv', Program
  PROVE  Promise!Next \/ UNCHANGED <<Waiting, Received>>
<1>1. IInv
  BY DEF PromiseInv
<1>2. ASSUME NEW s \in Sockets, Close(s) PROVE Promise!Next \/ UNCHANGED <<Waiting, Received>>
  <2>1. port[s] \in Ports
    BY <1>1, <1>2 DEF Close, IInv, TypeOK
  <2>2. Promise!Lose(port[s]) \/ UNCHANGED <<Waiting, Received>>
    BY <1>2, <2>1, CloseIs
  <2> QED
    BY <2>1, <2>2 DEF Promise!Next
<1>3. ASSUME NEW s \in Sockets, ReceiveQueued(s) PROVE Promise!Next
  <2>1. port[s] \in Ports
    <3>1. Head(queue[s]) \in Packets /\ Head(queue[s]) \in ToSet(queue[s])
      BY <1>1, <1>3, TailFacts DEF ReceiveQueued, IInv, TypeOK
    <3> QED
      BY <1>1, <3>1, BoundPort DEF IInv, QueuesAreOwn
  <2>2. PICK n \in Ports : port[s] = n
    BY <2>1
  <2>3. Promise!Receive(n)
    BY <1>3, <2>2, ReceiveQueuedIs
  <2> QED
    BY <2>3 DEF Promise!Next
<1>4. ASSUME NEW s \in Sockets, NEW p \in Packets, SendToSelf(p, s) PROVE Promise!Next
  <2>1. port[s] \in Ports
    BY <1>1, <1>4 DEF SendToSelf, IInv, TypeOK
  <2>2. Promise!SendToSelf(p, port[s])
    BY <1>4, <2>1, SendToSelfIs
  <2> QED
    BY <2>1, <2>2 DEF Promise!Next
<1>5. ASSUME NEW s \in Sockets, NEW n \in Ports, NEW any \in BOOLEAN, Bind(s, n, any)
      PROVE  UNCHANGED <<Waiting, Received>>
  BY <1>5, BindIs
<1>6. ASSUME NEW s \in Sockets, NEW stopForOthers \in BOOLEAN, StartReceive(s, stopForOthers)
      PROVE  UNCHANGED <<Waiting, Received>>
  BY <1>1, <1>6, NothingMoves DEF StartReceive, packets, sockets
<1> QED
  BY <1>2, <1>3, <1>4, <1>5, <1>6 DEF Program

LEMMA StepIs ==
  ASSUME PromiseInv, IInv', [Next]_vars
  PROVE  Promise!Next \/ UNCHANGED <<Waiting, Received>>
<1>1. IInv
  BY DEF PromiseInv
<1>2. CASE Take
  BY <1>2, TakeIs
<1>3. CASE Program
  BY <1>3, ProgramIs
<1>4. CASE Disturbed \/ UNCHANGED vars
  BY <1>1, <1>4, NothingMoves DEF Disturbed, vars, packets, sockets
<1>5. ASSUME NEW p \in Packets, Free(p) PROVE Promise!Next \/ UNCHANGED <<Waiting, Received>>
  <2>1. (\E n \in Ports : Promise!Free(p, n)) \/ UNCHANGED <<Waiting, Received>>
    BY <1>5, FreeIs
  <2> QED
    BY <2>1 DEF Promise!Next
<1>6. ASSUME NEW p \in Packets, NEW d \in Destinations, Arrive(p, d)
      PROVE  Promise!Next \/ UNCHANGED <<Waiting, Received>>
  <2>1. d \in Ports \/ UNCHANGED <<Waiting, Received>>
    BY <1>6, ArriveIs
  <2>2. d \in Ports => Promise!Arrive(p, d)
    BY <1>6, ArriveIs
  <2> QED
    BY <2>1, <2>2 DEF Promise!Next
<1> QED
  BY <1>2, <1>3, <1>4, <1>5, <1>6 DEF Next

\* A receive that waits has emptied its socket's queue, and nothing fills it
\* while it waits.
LEMMA ReceivesNext == IInv /\ Receives /\ [Next]_vars => Receives'
<1> SUFFICES ASSUME IInv, Receives, [Next]_vars PROVE Receives'
  OBVIOUS
<1>1. CASE at' # "receive"
  BY <1>1 DEF Receives
<1>2. CASE UNCHANGED <<at, socket, port, queue>>
  BY <1>2 DEF Receives
<1>3. CASE Running /\ UNCHANGED call
  BY <1>1, <1>3 DEF Running, call
<1>4. ASSUME NEW s \in Sockets, QueueForOther(s) PROVE Receives'
  <2>1. CASE Done
    BY <1>1, <2>1 DEF Done
  <2>2. CASE UNCHANGED call
    BY <1>4, <2>2 DEF QueueForOther, IInv, TypeOK, Receives, call
  <2> QED
    BY <1>4, <2>1, <2>2 DEF QueueForOther, Passed
<1>5. CASE \/ ReceiveOwn \/ Answer \/ AnswerFails \/ AnswerNowhere \/ Stray \/ StrayFull \/ Refuse
           \/ \E s \in Sockets : DropForOther(s)
  BY <1>1, <1>2, <1>5
  DEF ReceiveOwn, Answer, AnswerFails, AnswerNowhere, Stray, StrayFull, Refuse, DropForOther,
      Passed, Done, sockets, call
<1>6. ASSUME NEW s \in Sockets, NEW stopForOthers \in BOOLEAN, StartReceive(s, stopForOthers)
      PROVE  Receives'
  BY <1>6 DEF StartReceive, Receives, sockets
<1>7. CASE \E s \in Sockets :
             \/ Close(s) \/ ReceiveQueued(s)
             \/ \E n \in Ports, any \in BOOLEAN : Bind(s, n, any)
             \/ \E p \in Packets : SendToSelf(p, s)
  BY <1>3, <1>7 DEF Close, ReceiveQueued, Bind, SendToSelf
<1>8. CASE Program
  BY <1>6, <1>7, <1>8 DEF Program
<1>9. CASE \/ Disturbed \/ UNCHANGED vars
           \/ \E p \in Packets : Free(p) \/ \E d \in Destinations : Arrive(p, d)
  BY <1>1, <1>2, <1>9 DEF Disturbed, Done, Free, Arrive, vars, sockets, call
<1> QED
  BY <1>4, <1>5, <1>8, <1>9 DEF Next, Take

LEMMA InitPromise == Init => PromiseInv /\ Promise!Init
<1> SUFFICES ASSUME Init PROVE PromiseInv /\ Promise!Init
  OBVIOUS
<1>1. OnePlace
  BY EmptyFacts DEF Init, OnePlace, IsInjective
<1>2. IInv /\ PromiseInv
  BY <1>1, InitIInv DEF Init, Receives, PromiseInv
<1>3. ASSUME NEW n \in Ports PROVE Waiting[n] = << >>
  <2> DEFINE nothing == << >>
  <2>1. \A s \in Sockets : port[s] # n
    BY UdpAssumption DEF Init, Destinations
  <2>2. Queued(n) = nothing
    BY <1>2, <2>1, QueuesAre DEF QueueOf
  <2>3. Coming(n) = nothing
    BY OnlyEmpty DEF Init, Coming
  <2>4. nothing \o nothing = nothing
    OBVIOUS
  <2> HIDE DEF nothing
  <2>5. Waiting[n] = nothing
    BY <2>2, <2>3, <2>4, WaitingIs, Zenon
  <2> QED
    BY <2>5 DEF nothing
<1>4. Waiting = [n \in Ports |-> << >>]
  BY <1>3, AreFunctions
<1>5. Received = [n \in Ports |-> {}]
  BY DEF Received, Init
<1> QED
  BY <1>2, <1>4, <1>5 DEF Promise!Init, Waiting, Received

\* UDP's receive, with its queues of sockets that come and go, does no more than
\* hand out each port's packets in order and once, or lose them.
THEOREM QueuesKeepPromise == Spec => ImplementsPortQueues
<1>1. PromiseInv /\ [Next]_vars => PromiseInv'
  BY NextIInv, NextOnce, ReceivesNext DEF PromiseInv
<1>2. PromiseInv /\ PromiseInv' /\ [Next]_vars => [Promise!Next]_(Promise!vars)
  <2> SUFFICES ASSUME PromiseInv, PromiseInv', [Next]_vars
               PROVE  [Promise!Next]_(Promise!vars)
    OBVIOUS
  <2>1. IInv'
    BY DEF PromiseInv
  <2> QED
    BY <2>1, StepIs DEF Promise!vars, Waiting, Received
<1> QED
  BY <1>1, <1>2, InitPromise, PTL DEF Spec, ImplementsPortQueues, Promise!Spec
=============================================================================
