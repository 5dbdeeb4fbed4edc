--------------------------- MODULE TimerRouterProofs ---------------------------
(***************************************************************************)
(* Invariants of the two services a context reaches over the kernel's      *)
(* messages: the timers, for every interval and every number of clients,   *)
(* and the router with a process outside, at the shared memory between     *)
(* them, for every traffic.                                                *)
(***************************************************************************)
EXTENDS Timers, ShmRouter, WellFoundedInduction, FiniteSetTheorems, TLAPS

-----------------------------------------------------------------------------
\* A nonempty set of naturals has a least element.
LEMMA Least ==
  ASSUME NEW S \in SUBSET Nat, S # {}
  PROVE  \E m \in S : \A k \in S : m <= k
<1>1. PICK m \in S : \A k \in S : ~(<<k, m>> \in OpToRel(<, Nat))
  BY NatLessThanWellFounded, WFMin, Zenon
<1>2. \A k \in S : ~(k < m)
  BY <1>1 DEF OpToRel
<1> QED
  BY <1>2

\* A set of naturals that has 0 and with every number the next has them all.
LEMMA Induction ==
  ASSUME NEW S \in SUBSET Nat, 0 \in S, \A n \in S : n + 1 \in S
  PROVE  S = Nat
<1>1. SUFFICES ASSUME Nat \ S # {}
               PROVE  FALSE
  OBVIOUS
<1>2. PICK m \in Nat \ S : \A k \in Nat \ S : m <= k
  BY <1>1, Least
<1>3. m # 0 /\ m - 1 \in Nat /\ ~(m <= m - 1)
  BY <1>2
<1>4. m - 1 \in S
  BY <1>2, <1>3
<1>5. m - 1 + 1 \in S
  BY <1>4
<1> QED
  BY <1>2, <1>5

-----------------------------------------------------------------------------
\* A client of the timers, with what the model notes of its history.
Client == [owner : Contexts, ticks : 1 .. MaxAge, repeat : BOOLEAN, deltaTicks : Nat,
           age : 0 .. MaxAge, overtaken : BOOLEAN, putOff : BOOLEAN, early : BOOLEAN]

\* f adds up the first n clients of the list.
Sums(list, n, f) ==
  /\ f \in [0 .. n -> Nat]
  /\ f[0] = 0
  /\ \A k \in 1 .. n : f[k] = f[k - 1] + list[k].deltaTicks

\* There is such a function, by induction on the first n clients.
LEMMA SumsExist ==
  ASSUME NEW list \in Seq(Client)
  PROVE  \E f : Sums(list, Len(list), f)
<1> DEFINE S == {n \in Nat : n <= Len(list) => \E f : Sums(list, n, f)}
<1>1. 0 \in S
  <2>1. Sums(list, 0, [k \in 0 .. 0 |-> 0])
    BY DEF Sums
  <2> QED
    BY <2>1
<1>2. ASSUME NEW n \in S
      PROVE  n + 1 \in S
  <2>1. n \in Nat /\ n + 1 \in Nat
    OBVIOUS
  <2>2. SUFFICES ASSUME n + 1 <= Len(list)
                 PROVE  \E f : Sums(list, n + 1, f)
    BY <2>1
  <2>3. PICK f : Sums(list, n, f)
    BY <2>1, <2>2
  <2>4. list[n + 1].deltaTicks \in Nat
    <3>1. list[n + 1] \in Client
      BY <2>1, <2>2
    <3> QED
      BY <3>1 DEF Client
  <2> DEFINE g == [k \in 0 .. n + 1 |-> IF k = n + 1 THEN f[n] + list[n + 1].deltaTicks ELSE f[k]]
  <2>5. g \in [0 .. n + 1 -> Nat] /\ g[0] = 0
    <3>1. f \in [0 .. n -> Nat] /\ f[0] = 0 /\ n \in 0 .. n /\ n + 1 # 0
      BY <2>1, <2>3 DEF Sums
    <3>2. f[n] \in Nat /\ f[n] + list[n + 1].deltaTicks \in Nat
      BY <2>4, <3>1
    <3>3. \A k \in 0 .. n + 1 : k = n + 1 \/ k \in 0 .. n
      BY <2>1
    <3>4. 0 \in 0 .. n + 1 /\ 0 \in 0 .. n
      BY <2>1
    <3> QED
      BY <3>1, <3>2, <3>3, <3>4
  <2>6. ASSUME NEW k \in 1 .. n + 1
        PROVE  g[k] = g[k - 1] + list[k].deltaTicks
    <3>1. CASE k = n + 1
      BY <2>1, <2>3, <3>1 DEF Sums
    <3>2. CASE k # n + 1
      BY <2>1, <2>3, <3>2 DEF Sums
    <3> QED
      BY <3>1, <3>2
  <2>7. Sums(list, n + 1, g)
    BY <2>5, <2>6 DEF Sums
  <2> QED
    BY <2>7
<1>3. S \in SUBSET Nat
  OBVIOUS
<1> HIDE DEF S
<1>4. S = Nat
  BY <1>1, <1>2, <1>3, Induction
<1>5. Len(list) \in S
  BY <1>4
<1> QED
  BY <1>5 DEF S

\* A function on 0 .. n that satisfies the equations is the only one.
LEMMA SumsUnique ==
  ASSUME NEW list \in Seq(Client), NEW f, NEW g, Sums(list, Len(list), f),
         g = [k \in 0 .. Len(list) |-> IF k = 0 THEN 0 ELSE g[k - 1] + list[k].deltaTicks]
  PROVE  f = g
<1> DEFINE S == {n \in Nat : n <= Len(list) => f[n] = g[n]}
<1>1. 0 \in S
  BY DEF Sums
<1>2. ASSUME NEW n \in S
      PROVE  n + 1 \in S
  <2>1. n \in Nat /\ n + 1 \in Nat
    OBVIOUS
  <2>2. SUFFICES ASSUME n + 1 <= Len(list)
                 PROVE  f[n + 1] = g[n + 1]
    BY <2>1
  <2>3. f[n] = g[n]
    BY <2>1, <2>2
  <2>4. n + 1 \in 1 .. Len(list) /\ n + 1 - 1 = n /\ n + 1 # 0
    BY <2>1, <2>2
  <2>5. f[n + 1] = f[n] + list[n + 1].deltaTicks
    BY <2>4 DEF Sums
  <2>6. g[n + 1] = g[n] + list[n + 1].deltaTicks
    BY <2>4
  <2> QED
    BY <2>3, <2>5, <2>6
<1>3. S \in SUBSET Nat
  OBVIOUS
<1> HIDE DEF S
<1>4. S = Nat
  BY <1>1, <1>2, <1>3, Induction
<1>5. \A n \in Nat : n <= Len(list) => f[n] = g[n]
  BY <1>4 DEF S
<1>6. \A n \in 0 .. Len(list) : f[n] = g[n]
  BY <1>5
<1> QED
  BY <1>6 DEF Sums

\* Ahead is the function that adds up the whole list.
LEMMA AheadIs ==
  ASSUME NEW list \in Seq(Client), NEW f, Sums(list, Len(list), f)
  PROVE  Ahead(list) = f
<1> DEFINE Eq(g) ==
             g = [k \in 0 .. Len(list) |-> IF k = 0 THEN 0 ELSE g[k - 1] + list[k].deltaTicks]
<1>1. Eq(f)
  BY DEF Sums
<1>2. Eq(CHOOSE g : Eq(g))
  BY <1>1
<1>3. Ahead(list) = CHOOSE g : Eq(g)
  BY DEF Ahead
<1> QED
  BY <1>2, <1>3, SumsUnique

\* What Ahead computes: how long each client of the list has to wait.
LEMMA AheadSums ==
  ASSUME NEW list \in Seq(Client)
  PROVE  Sums(list, Len(list), Ahead(list))
BY SumsExist, AheadIs

-----------------------------------------------------------------------------
(* Where a client is inserted *)

\* Adding the same to both sides.
LEMMA Moved ==
  ASSUME NEW a, NEW b \in Nat, NEW x \in Nat, NEW t \in Nat, a = b + x
  PROVE  a + t = (b + t) + x
OBVIOUS

\* The sums do not decrease.
LEMMA AheadGrows ==
  ASSUME NEW list \in Seq(Client), NEW j \in 0 .. Len(list), NEW k \in j .. Len(list)
  PROVE  Ahead(list)[j] <= Ahead(list)[k]
<1> DEFINE f == Ahead(list)
           S == {n \in Nat : j + n <= Len(list) => f[j] <= f[j + n]}
<1>1. Sums(list, Len(list), f)
  BY AheadSums
<1> HIDE DEF f
<1>2. 0 \in S
  BY <1>1 DEF Sums
<1>3. ASSUME NEW n \in S
      PROVE  n + 1 \in S
  <2>1. n \in Nat /\ n + 1 \in Nat /\ j \in Nat
    OBVIOUS
  <2>2. SUFFICES ASSUME j + (n + 1) <= Len(list)
                 PROVE  f[j] <= f[j + (n + 1)]
    BY <2>1
  <2>3. f[j] <= f[j + n]
    BY <2>1, <2>2
  <2>4. /\ j + (n + 1) \in 1 .. Len(list) /\ (j + (n + 1)) - 1 = j + n
        /\ j \in 0 .. Len(list) /\ j + n \in 0 .. Len(list)
    BY <2>1, <2>2
  <2>5. list[j + (n + 1)] \in Client
    BY <2>4
  <2>6. list[j + (n + 1)].deltaTicks \in Nat
    BY <2>5 DEF Client
  <2>7. f[j + (n + 1)] = f[j + n] + list[j + (n + 1)].deltaTicks
    BY <1>1, <2>4 DEF Sums
  <2>8. f[j] \in Nat /\ f[j + n] \in Nat
    BY <1>1, <2>4 DEF Sums
  <2> QED
    BY <2>3, <2>6, <2>7, <2>8
<1>4. S \in SUBSET Nat
  OBVIOUS
<1> HIDE DEF S
<1>5. S = Nat
  BY <1>2, <1>3, <1>4, Induction
<1>6. k - j \in S /\ j + (k - j) = k
  BY <1>5
<1> QED
  BY <1>6 DEF S, f

\* Those due before, or with, one due in t ticks are the first ones.
LEMMA BeforeIs ==
  ASSUME NEW list \in Seq(Client), NEW t \in Nat
  PROVE  /\ Before(list, t) \in 0 .. Len(list)
         /\ \A k \in 1 .. Len(list) : Ahead(list)[k] <= t <=> k <= Before(list, t)
         /\ Ahead(list)[Before(list, t)] <= t
<1> DEFINE f == Ahead(list)
           S == {k \in 1 .. Len(list) : f[k] <= t}
           R == {k \in Nat : k + 1 \notin S}
<1>1. Sums(list, Len(list), f) /\ Before(list, t) = Cardinality(S) /\ Len(list) \in Nat
  BY AheadSums DEF Before
<1>2. Len(list) \in R
  BY <1>1
<1>3. PICK n \in R : \A k \in R : n <= k
  BY <1>2, Least
<1>4. n \in 0 .. Len(list) /\ n \in Nat
  BY <1>1, <1>2, <1>3
<1>5. \A k \in 1 .. n : k \in S
  <2> TAKE k \in 1 .. n
  <2>1. k - 1 \in Nat /\ ~(n <= k - 1) /\ (k - 1) + 1 = k
    BY <1>4
  <2> QED
    BY <1>3, <2>1
<1>6. \A k \in 1 .. Len(list) : k > n => k \notin S
  <2> SUFFICES ASSUME NEW k \in 1 .. Len(list), k > n, f[k] <= t
               PROVE  FALSE
    OBVIOUS
  <2>1. n + 1 \in 1 .. Len(list) /\ n + 1 \in 0 .. Len(list) /\ k \in n + 1 .. Len(list)
    BY <1>4
  <2>2. f[n + 1] <= f[k]
    BY <2>1, AheadGrows
  <2> HIDE DEF f
  <2>3. f[n + 1] \in Nat /\ f[k] \in Nat
    <3>1. f \in [0 .. Len(list) -> Nat]
      BY <1>1 DEF Sums
    <3>2. k \in 0 .. Len(list)
      OBVIOUS
    <3> QED
      BY <2>1, <3>1, <3>2
  <2>4. f[n + 1] <= t
    BY <2>2, <2>3
  <2> QED
    BY <1>3, <2>1, <2>4
<1>7. S = 1 .. n
  BY <1>4, <1>5, <1>6
<1>8. Cardinality(S) = n
  <2>1. Cardinality(1 .. n) = IF 1 > n THEN 0 ELSE n - 1 + 1
    BY <1>4, FS_Interval
  <2> HIDE DEF S
  <2> QED
    BY <1>4, <1>7, <2>1
<1>9. f[n] <= t
  <2>1. CASE n = 0
    BY <1>1, <2>1 DEF Sums
  <2>2. CASE n # 0
    BY <1>4, <1>5, <2>2
  <2> QED
    BY <2>1, <2>2
<1>10. Before(list, t) = n
  BY <1>1, <1>8
<1>11. \A k \in 1 .. Len(list) : f[k] <= t <=> k <= n
  BY <1>4, <1>5, <1>6
<1> QED
  BY <1>4, <1>9, <1>10, <1>11

-----------------------------------------------------------------------------
(* The operations on the list *)

\* A function on 1 .. n is a list of length n.
LEMMA IsList ==
  ASSUME NEW S, NEW n \in Nat, NEW f \in [1 .. n -> S]
  PROVE  f \in Seq(S) /\ Len(f) = n
OBVIOUS

\* A sequence with e behind its first n elements.
Spliced(s, n, e) ==
  [k \in 1 .. Len(s) + 1 |-> IF k <= n THEN s[k] ELSE IF k = n + 1 THEN e ELSE s[k - 1]]

\* What InsertAt makes of a sequence, element by element.
LEMMA InsertAtIs ==
  ASSUME NEW S, NEW s \in Seq(S), NEW e \in S, NEW n \in 0 .. Len(s)
  PROVE  InsertAt(s, n + 1, e) = Spliced(s, n, e)
<1> DEFINE a == SubSeq(s, 1, n)
           b == SubSeq(s, n + 1, Len(s))
<1>1. a \in Seq(S) /\ Len(a) = n /\ \A k \in 1 .. n : a[k] = s[k]
  OBVIOUS
<1>2. b \in Seq(S) /\ Len(b) = Len(s) - n /\ \A k \in 1 .. Len(s) - n : b[k] = s[n + k]
  OBVIOUS
<1>3. InsertAt(s, n + 1, e) = a \o <<e>> \o b
  <2>1. SubSeq(s, 1, (n + 1) - 1) = a
    OBVIOUS
  <2>2. InsertAt(s, n + 1, e) = SubSeq(s, 1, (n + 1) - 1) \o <<e>> \o b
    BY Zenon DEF InsertAt
  <2> QED
    BY <2>1, <2>2, Zenon
<1> HIDE DEF a, b
<1>4. <<e>> \in Seq(S) /\ Len(<<e>>) = 1 /\ <<e>>[1] = e
  OBVIOUS
<1>5. /\ a \o <<e>> \in Seq(S) /\ Len(a \o <<e>>) = n + 1
      /\ \A k \in 1 .. n + 1 : (a \o <<e>>)[k] = IF k <= n THEN a[k] ELSE e
  BY <1>1, <1>4
<1> DEFINE c == a \o <<e>>
<1>6. c \in Seq(S) /\ Len(c) = n + 1 /\ \A k \in 1 .. n + 1 : c[k] = IF k <= n THEN a[k] ELSE e
  BY <1>5
<1> HIDE DEF c
<1>7. /\ c \o b \in Seq(S) /\ Len(c \o b) = Len(s) + 1
      /\ \A k \in 1 .. Len(s) + 1 : (c \o b)[k] = IF k <= n + 1 THEN c[k] ELSE b[k - (n + 1)]
  BY <1>2, <1>6
<1> DEFINE d == c \o b
<1>8. /\ d \in Seq(S) /\ Len(d) = Len(s) + 1
      /\ \A k \in 1 .. Len(s) + 1 : d[k] = IF k <= n + 1 THEN c[k] ELSE b[k - (n + 1)]
  BY <1>7
<1>9. InsertAt(s, n + 1, e) = d
  BY <1>3 DEF c
<1> HIDE DEF d
<1>10. ASSUME NEW k \in 1 .. Len(s) + 1
       PROVE  d[k] = IF k <= n THEN s[k] ELSE IF k = n + 1 THEN e ELSE s[k - 1]
  <2>1. CASE k <= n
    BY <1>1, <1>6, <1>8, <2>1
  <2>2. CASE k = n + 1
    BY <1>6, <1>8, <2>2
  <2>3. CASE k > n + 1
    <3>1. k - (n + 1) \in 1 .. Len(s) - n /\ n + (k - (n + 1)) = k - 1
      BY <2>3
    <3>2. d[k] = b[k - (n + 1)]
      BY <1>8, <2>3
    <3>3. b[k - (n + 1)] = s[k - 1]
      BY <1>2, <3>1
    <3> QED
      BY <2>3, <3>2, <3>3
  <2> QED
    BY <2>1, <2>2, <2>3
<1>11. DOMAIN d = 1 .. Len(s) + 1
  BY <1>8
<1>12. d = [k \in 1 .. Len(s) + 1 |-> d[k]]
  BY <1>8, <1>11
<1> QED
  BY <1>9, <1>10, <1>12 DEF Spliced

\* The client stands behind the first n, and overtakes the others.
Inserted(list, c, n, new) ==
  /\ n \in 0 .. Len(list)
  /\ new \in Seq(Client) /\ Len(new) = Len(list) + 1
  /\ \A k \in 1 .. n : new[k] = list[k]
  /\ new[n + 1] = [c EXCEPT !.deltaTicks = @ - Ahead(list)[n]]
  /\ \A k \in n + 1 .. Len(list) : new[k + 1] = [list[k] EXCEPT !.overtaken = TRUE]

\* What Insert makes of a list.
LEMMA InsertIs ==
  ASSUME NEW list \in Seq(Client), NEW c \in Client
  PROVE  Inserted(list, c, Before(list, c.deltaTicks), Insert(list, c))
<1> DEFINE n == Before(list, c.deltaTicks)
<1> DEFINE s == [k \in 1 .. Len(list) |-> [list[k] EXCEPT !.overtaken = @ \/ k > n]]
           e == [c EXCEPT !.deltaTicks = @ - Ahead(list)[n]]
<1>1. c.deltaTicks \in Nat
  BY DEF Client
<1>2. n \in 0 .. Len(list) /\ Ahead(list)[n] <= c.deltaTicks
  BY <1>1, BeforeIs
<1> HIDE DEF n
<1>3. Ahead(list)[n] \in Nat
  BY <1>2, AheadSums DEF Sums
<1>4. e \in Client
  <2>1. c.deltaTicks - Ahead(list)[n] \in Nat
    BY <1>1, <1>2, <1>3
  <2> QED
    BY <2>1 DEF Client
<1>5. \A k \in 1 .. Len(list) :
        /\ s[k] \in Client
        /\ k <= n => s[k] = list[k]
        /\ k > n => s[k] = [list[k] EXCEPT !.overtaken = TRUE]
  <2> TAKE k \in 1 .. Len(list)
  <2>1. list[k] \in Client
    OBVIOUS
  <2>2. s[k] = [list[k] EXCEPT !.overtaken = @ \/ k > n]
    OBVIOUS
  <2> HIDE DEF s
  <2>3. list[k].overtaken \in BOOLEAN
    BY <2>1 DEF Client
  <2>4. CASE k <= n
    <3>1. (list[k].overtaken \/ k > n) = list[k].overtaken
      BY <1>2, <2>3, <2>4
    <3>2. [list[k] EXCEPT !.overtaken = list[k].overtaken] = list[k]
      BY <2>1 DEF Client
    <3> QED
      BY <1>2, <2>1, <2>2, <2>4, <3>1, <3>2
  <2>5. CASE k > n
    <3>1. (list[k].overtaken \/ k > n) = TRUE
      BY <2>5
    <3>2. [list[k] EXCEPT !.overtaken = TRUE] \in Client
      BY <2>1 DEF Client
    <3>3. s[k] = [list[k] EXCEPT !.overtaken = TRUE]
      BY <2>2, <3>1
    <3> QED
      BY <1>2, <2>5, <3>2, <3>3
  <2> QED
    BY <1>2, <2>4, <2>5
<1>6. s \in Seq(Client) /\ Len(s) = Len(list)
  <2>1. s = [k \in 1 .. Len(list) |-> s[k]] /\ Len(list) \in Nat
    OBVIOUS
  <2> HIDE DEF s
  <2>2. s \in [1 .. Len(list) -> Client]
    BY <1>5, <2>1
  <2> QED
    BY <2>1, <2>2, IsList
<1>7. Insert(list, c) = InsertAt(s, n + 1, e)
  BY DEF Insert, n
<1> HIDE DEF s, e
<1>8. InsertAt(s, n + 1, e) =
        [k \in 1 .. Len(list) + 1 |-> IF k <= n THEN s[k] ELSE IF k = n + 1 THEN e ELSE s[k - 1]]
  <2>1. n \in 0 .. Len(s)
    BY <1>2, <1>6
  <2>2. InsertAt(s, n + 1, e) = Spliced(s, n, e)
    BY <1>4, <1>6, <2>1, InsertAtIs
  <2> QED
    BY <1>6, <2>2, Zenon DEF Spliced
<1> DEFINE new == InsertAt(s, n + 1, e)
<1>9. \A k \in 1 .. Len(list) + 1 :
        new[k] = IF k <= n THEN s[k] ELSE IF k = n + 1 THEN e ELSE s[k - 1]
  BY <1>8, Zenon
<1>10. new \in Seq(Client) /\ Len(new) = Len(list) + 1
  <2>1. \A k \in 1 .. Len(list) + 1 :
          (IF k <= n THEN s[k] ELSE IF k = n + 1 THEN e ELSE s[k - 1]) \in Client
    <3> TAKE k \in 1 .. Len(list) + 1
    <3>1. k <= n \/ k = n + 1 \/ k - 1 \in 1 .. Len(list)
      BY <1>2
    <3>2. k <= n => k \in 1 .. Len(list)
      BY <1>2
    <3> QED
      BY <1>4, <1>5, <3>1, <3>2
  <2>2. new \in [1 .. Len(list) + 1 -> Client]
    BY <1>8, <2>1
  <2>3. Len(list) + 1 \in Nat
    OBVIOUS
  <2> HIDE DEF new
  <2> QED
    BY <2>2, <2>3, IsList
<1> HIDE DEF new
<1>11. \A k \in 1 .. n : new[k] = list[k]
  <2> TAKE k \in 1 .. n
  <2>1. k \in 1 .. Len(list) /\ k \in 1 .. Len(list) + 1 /\ k <= n
    BY <1>2
  <2> QED
    BY <1>5, <1>9, <2>1
<1>12. new[n + 1] = e
  BY <1>2, <1>9
<1>13. \A k \in n + 1 .. Len(list) : new[k + 1] = [list[k] EXCEPT !.overtaken = TRUE]
  <2> TAKE k \in n + 1 .. Len(list)
  <2>1. k + 1 \in 1 .. Len(list) + 1 /\ ~(k + 1 <= n) /\ k + 1 # n + 1 /\ k + 1 - 1 = k
    BY <1>2
  <2>2. new[k + 1] = s[k] /\ k \in 1 .. Len(list) /\ k > n
    BY <1>2, <1>9, <2>1
  <2> QED
    BY <1>5, <2>2
<1> QED
  BY <1>2, <1>7, <1>10, <1>11, <1>12, <1>13, Zenon DEF Inserted, e, n, new

\* What stands behind the inserted client comes later by its deltaTicks.
LEMMA InsertAhead ==
  ASSUME NEW list \in Seq(Client), NEW c \in Client,
         NEW n, n = Before(list, c.deltaTicks), NEW new, new = Insert(list, c)
  PROVE  /\ Ahead(new) \in [0 .. Len(list) + 1 -> Nat]
         /\ \A k \in 0 .. n : Ahead(new)[k] = Ahead(list)[k]
         /\ Ahead(new)[n + 1] = c.deltaTicks
         /\ \A k \in n + 1 .. Len(list) :
              Ahead(new)[k + 1] = Ahead(list)[k] + (c.deltaTicks - Ahead(list)[n])
<1> DEFINE f == Ahead(list)
           t == c.deltaTicks
           g == [k \in 0 .. Len(list) + 1 |->
                   IF k <= n THEN f[k] ELSE IF k = n + 1 THEN t ELSE f[k - 1] + (t - f[n])]
<1>1. /\ n \in 0 .. Len(list) /\ new \in Seq(Client) /\ Len(new) = Len(list) + 1
      /\ \A k \in 1 .. n : new[k] = list[k]
      /\ new[n + 1] = [c EXCEPT !.deltaTicks = @ - f[n]]
      /\ \A k \in n + 1 .. Len(list) : new[k + 1] = [list[k] EXCEPT !.overtaken = TRUE]
  <2>1. Inserted(list, c, n, new)
    BY InsertIs, Zenon
  <2> QED
    BY <2>1, Zenon DEF Inserted
<1>2. Sums(list, Len(list), f) /\ t \in Nat /\ f[n] <= t
  BY AheadSums, BeforeIs DEF Client
<1> HIDE DEF f, t
<1>3. f[n] \in Nat /\ t - f[n] \in Nat
  BY <1>1, <1>2 DEF Sums
<1>4. /\ \A k \in 1 .. n : new[k].deltaTicks = list[k].deltaTicks
      /\ new[n + 1].deltaTicks = t - f[n]
      /\ \A k \in n + 1 .. Len(list) : new[k + 1].deltaTicks = list[k].deltaTicks
  <2>1. new[n + 1].deltaTicks = t - f[n]
    BY <1>1 DEF Client, t
  <2>2. ASSUME NEW k \in n + 1 .. Len(list)
        PROVE  new[k + 1].deltaTicks = list[k].deltaTicks
    <3>1. list[k] \in Client /\ new[k + 1] = [list[k] EXCEPT !.overtaken = TRUE]
      BY <1>1
    <3> QED
      BY ONLY <3>1 DEF Client
  <2> QED
    BY <1>1, <2>1, <2>2
<1>5. ASSUME NEW k \in 0 .. Len(list)
      PROVE  f[k] \in Nat /\ f[k] + (t - f[n]) \in Nat
  <2>1. f[k] \in Nat
    BY <1>2 DEF Sums
  <2> QED
    BY <1>3, <2>1
<1>6. /\ \A k \in 0 .. n : g[k] = f[k]
      /\ \A k \in n .. Len(list) : g[k + 1] = f[k] + (t - f[n])
  <2>1. ASSUME NEW k \in 0 .. n
        PROVE  g[k] = f[k]
    BY <1>1
  <2>2. g[n + 1] = f[n] + (t - f[n])
    <3>1. g[n + 1] = t
      BY <1>1
    <3> QED
      BY <1>2, <1>3, <3>1
  <2>3. ASSUME NEW k \in n + 1 .. Len(list)
        PROVE  g[k + 1] = f[k] + (t - f[n])
    <3>1. k + 1 \in 0 .. Len(list) + 1 /\ ~(k + 1 <= n) /\ k + 1 # n + 1 /\ k + 1 - 1 = k
      BY <1>1
    <3> QED
      BY <3>1
  <2> HIDE DEF g
  <2> QED
    BY <1>1, <2>1, <2>2, <2>3
<1>7. DOMAIN g = 0 .. Len(list) + 1 /\ g = [k \in 0 .. Len(list) + 1 |-> g[k]]
  OBVIOUS
<1> HIDE DEF g
<1>8. g \in [0 .. Len(list) + 1 -> Nat] /\ g[0] = 0
  <2>1. ASSUME NEW k \in 0 .. Len(list) + 1
        PROVE  g[k] \in Nat
    <3>1. CASE k <= n
      <4>1. k \in 0 .. n /\ k \in 0 .. Len(list)
        BY <1>1, <3>1
      <4> QED
        BY <1>5, <1>6, <4>1
    <3>2. CASE k > n
      <4>1. k - 1 \in n .. Len(list) /\ k - 1 \in 0 .. Len(list) /\ (k - 1) + 1 = k
        BY <1>1, <3>2
      <4> QED
        BY <1>5, <1>6, <4>1
    <3> QED
      BY <1>1, <3>1, <3>2
  <2>2. g[0] = 0
    <3>1. 0 \in 0 .. n
      BY <1>1
    <3>2. f[0] = 0
      BY <1>2 DEF Sums
    <3> QED
      BY <1>6, <3>1, <3>2
  <2> QED
    BY <1>7, <2>1, <2>2
<1>9. ASSUME NEW k \in 1 .. Len(list) + 1
      PROVE  g[k] = g[k - 1] + new[k].deltaTicks
  <2>1. CASE k <= n
    <3>1. k \in 1 .. Len(list) /\ k - 1 \in 0 .. n /\ k \in 0 .. n /\ k \in 1 .. n
      BY <1>1, <2>1
    <3>2. f[k] = f[k - 1] + list[k].deltaTicks
      BY <1>2, <3>1 DEF Sums
    <3> QED
      BY <1>4, <1>6, <3>1, <3>2
  <2>2. CASE k = n + 1
    <3>1. g[n + 1] = f[n] + (t - f[n]) /\ g[n] = f[n] /\ new[n + 1].deltaTicks = t - f[n]
      BY <1>1, <1>4, <1>6
    <3>2. (n + 1) - 1 = n
      BY <1>1
    <3> QED
      BY <2>2, <3>1, <3>2
  <2>3. CASE k > n + 1
    <3> DEFINE j == k - 1
               i == j - 1
               d == list[j].deltaTicks
    <3>1. /\ j \in n + 1 .. Len(list) /\ j \in n .. Len(list) /\ i \in n .. Len(list)
          /\ i \in 0 .. Len(list) /\ j \in 1 .. Len(list) /\ i + 1 = j /\ j + 1 = k
      BY <1>1, <2>3
    <3>2. f[j] = f[i] + d
      BY <1>2, <3>1 DEF Sums
    <3>3. d \in Nat /\ f[i] \in Nat
      <4>1. list[j] \in Client
        BY <3>1
      <4> QED
        BY <1>5, <3>1, <4>1 DEF Client
    <3> HIDE DEF i, j, d
    <3>4. g[j + 1] = f[j] + (t - f[n]) /\ g[i + 1] = f[i] + (t - f[n])
      BY <1>6, <3>1
    <3>5. new[j + 1].deltaTicks = d
      BY <1>4, <3>1 DEF d
    <3>6. f[j] + (t - f[n]) = (f[i] + (t - f[n])) + d
      BY ONLY <1>3, <3>2, <3>3, Moved
    <3>7. g[j + 1] = g[j] + new[j + 1].deltaTicks
      BY <3>1, <3>4, <3>5, <3>6
    <3> QED
      BY <3>1, <3>7 DEF j
  <2> QED
    BY <1>1, <2>1, <2>2, <2>3
<1>10. Sums(new, Len(new), g)
  BY <1>1, <1>8, <1>9 DEF Sums
<1>11. Ahead(new) = g
  BY <1>1, <1>10, AheadIs
<1>12. g[n + 1] = t
  <2>1. g[n + 1] = f[n] + (t - f[n])
    BY <1>1, <1>6
  <2> QED
    BY <1>2, <1>3, <2>1
<1>13. \A k \in n + 1 .. Len(list) : g[k + 1] = f[k] + (t - f[n])
  BY <1>1, <1>6
<1> QED
  BY <1>6, <1>8, <1>11, <1>12, <1>13 DEF f, t

\* Without the first client the others come sooner by its deltaTicks.
LEMMA RestAhead ==
  ASSUME NEW list \in Seq(Client), list # << >>, NEW rest \in Seq(Client),
         Len(rest) = Len(list) - 1,
         \A k \in 1 .. Len(rest) : rest[k].deltaTicks = list[k + 1].deltaTicks
  PROVE  \A k \in 0 .. Len(rest) : Ahead(rest)[k] = Ahead(list)[k + 1] - list[1].deltaTicks
<1> DEFINE f == Ahead(list)
           g == [k \in 0 .. Len(rest) |-> f[k + 1] - list[1].deltaTicks]
<1>1. Sums(list, Len(list), f) /\ Len(list) \in Nat \ {0} /\ Len(rest) \in Nat
  BY AheadSums
<1> HIDE DEF f
<1>2. 1 \in 1 .. Len(list) /\ 1 \in 0 .. Len(list) /\ f[1] = list[1].deltaTicks
  <2>1. f[1] = f[0] + list[1].deltaTicks /\ f[0] = 0 /\ f[1] \in Nat
    BY <1>1 DEF Sums
  <2>2. list[1] \in Client
    BY <1>1
  <2> QED
    BY <1>1, <2>1, <2>2 DEF Client
<1>3. ASSUME NEW k \in 0 .. Len(rest)
      PROVE  f[k + 1] - list[1].deltaTicks \in Nat
  <2>1. k + 1 \in 1 .. Len(list) /\ k + 1 \in 0 .. Len(list)
    BY <1>1
  <2>2. f[1] <= f[k + 1]
    <3>1. k + 1 \in 1 .. Len(list) /\ 1 \in 0 .. Len(list)
      BY <1>1
    <3> QED
      BY <3>1, AheadGrows DEF f
  <2>3. f[1] \in Nat /\ f[k + 1] \in Nat
    BY <1>1, <1>2, <2>1 DEF Sums
  <2> QED
    BY <1>2, <2>2, <2>3
<1>4. g \in [0 .. Len(rest) -> Nat] /\ g[0] = 0
  <2>1. f[1] \in Nat /\ 0 \in 0 .. Len(rest)
    BY <1>1, <1>2 DEF Sums
  <2>2. f[0 + 1] - list[1].deltaTicks = 0
    BY <1>2, <2>1
  <2>3. g[0] = f[0 + 1] - list[1].deltaTicks
    BY <2>1
  <2>4. g \in [0 .. Len(rest) -> Nat]
    BY <1>3
  <2> QED
    BY <2>2, <2>3, <2>4
<1>5. ASSUME NEW k \in 1 .. Len(rest)
      PROVE  g[k] = g[k - 1] + rest[k].deltaTicks
  <2>1. k + 1 \in 1 .. Len(list) /\ k \in 0 .. Len(list) /\ (k + 1) - 1 = k /\ (k - 1) + 1 = k
    BY <1>1
  <2>2. f[k + 1] = f[k] + list[k + 1].deltaTicks
    BY <1>1, <2>1 DEF Sums
  <2>3. g[k] = f[k + 1] - list[1].deltaTicks /\ g[k - 1] = f[k] - list[1].deltaTicks
    BY <1>1, <2>1
  <2>4. list[k + 1].deltaTicks \in Nat /\ f[k] \in Nat /\ list[1].deltaTicks \in Nat
    <3>1. list[k + 1] \in Client /\ list[1] \in Client
      BY <1>2, <2>1
    <3> QED
      BY <1>1, <2>1, <3>1 DEF Client, Sums
  <2> QED
    BY <2>2, <2>3, <2>4
<1> HIDE DEF g
<1>6. Sums(rest, Len(rest), g)
  BY <1>4, <1>5 DEF Sums
<1>7. Ahead(rest) = g
  BY <1>6, AheadIs
<1> QED
  BY <1>7 DEF g, f

\* When the first client's deltaTicks change, everything moves by the difference.
LEMMA ShiftAhead ==
  ASSUME NEW list \in Seq(Client), list # << >>, NEW other \in Seq(Client),
         Len(other) = Len(list),
         \A k \in 2 .. Len(list) : other[k].deltaTicks = list[k].deltaTicks
  PROVE  \A k \in 1 .. Len(list) :
           Ahead(other)[k] = Ahead(list)[k] + other[1].deltaTicks - list[1].deltaTicks
<1> DEFINE d == other[1].deltaTicks
           restO == Tail(other)
           restL == Tail(list)
<1>1. /\ restO \in Seq(Client) /\ Len(restO) = Len(other) - 1
      /\ \A k \in 1 .. Len(restO) : restO[k] = other[k + 1]
  OBVIOUS
<1> HIDE DEF restO, restL
<1>2. \A k \in 0 .. Len(restO) : Ahead(restO)[k] = Ahead(other)[k + 1] - d
  <2>1. other # << >> /\ \A k \in 1 .. Len(restO) : restO[k].deltaTicks = other[k + 1].deltaTicks
    BY <1>1
  <2> QED
    BY <1>1, <2>1, RestAhead
<1>3. \A k \in 1 .. Len(restO) : restO[k].deltaTicks = list[k + 1].deltaTicks
  BY <1>1
<1>4. \A k \in 0 .. Len(restO) : Ahead(restO)[k] = Ahead(list)[k + 1] - list[1].deltaTicks
  BY <1>1, <1>3, RestAhead
<1>5. ASSUME NEW k \in 1 .. Len(list)
      PROVE  Ahead(other)[k] = Ahead(list)[k] + d - list[1].deltaTicks
  <2>1. k - 1 \in 0 .. Len(restO) /\ (k - 1) + 1 = k /\ k \in 0 .. Len(list) /\ 1 \in 1 .. Len(list)
    BY <1>1
  <2>2. Ahead(other)[k] - d = Ahead(list)[k] - list[1].deltaTicks
    BY <1>2, <1>4, <2>1
  <2>3. Ahead(other)[k] \in Nat /\ Ahead(list)[k] \in Nat
    BY <2>1, AheadSums DEF Sums
  <2>4. d \in Nat /\ list[1].deltaTicks \in Nat
    <3>1. other[1] \in Client /\ list[1] \in Client
      BY <2>1
    <3> QED
      BY <3>1 DEF Client
  <2> DEFINE a == Ahead(other)[k]
             b == Ahead(list)[k]
             y == list[1].deltaTicks
  <2> HIDE DEF a, b, d, y
  <2>5. a - d = b - y /\ a \in Nat /\ b \in Nat /\ d \in Nat /\ y \in Nat
    BY <2>2, <2>3, <2>4 DEF a, b, y
  <2>6. a = b + d - y
    BY <2>5
  <2> QED
    BY <2>6 DEF a, b, y
<1> QED
  BY <1>5

-----------------------------------------------------------------------------
(* The operations keep to the intervals *)

\* What a list promises its clients: what they have waited and what is ahead
\* of them make up their interval.
Timely(list) ==
  \A k \in 1 .. Len(list) :
    /\ ~list[k].early => list[k].age + Ahead(list)[k] >= list[k].ticks
    /\ ~list[k].putOff /\ ~list[k].overtaken => list[k].age + Ahead(list)[k] <= list[k].ticks
    /\ list[k].ticks = 1 /\ ~list[k].putOff => ~list[k].overtaken

\* The first client has yet to wait.
NotDue(list) == list # << >> => list[1].deltaTicks > 0

\* The fields of a client.
LEMMA ClientFields ==
  ASSUME NEW c \in Client
  PROVE  /\ c.age \in 0 .. MaxAge /\ c.age \in Nat
         /\ c.ticks \in Nat /\ c.ticks > 0 /\ c.deltaTicks \in Nat
<1>1. MaxAge \in Nat
  BY TimersAssumption
<1>2. c.age \in 0 .. MaxAge /\ c.ticks \in 1 .. MaxAge /\ c.deltaTicks \in Nat
  BY SMT DEF Client
<1> QED
  BY <1>1, <1>2

\* The updates that leave a client a client.
LEMMA ClientUpdates ==
  ASSUME NEW c \in Client
  PROVE  /\ \A d \in Nat : [c EXCEPT !.deltaTicks = d] \in Client
         /\ \A a \in 0 .. MaxAge : [c EXCEPT !.age = a] \in Client
         /\ [c EXCEPT !.putOff = TRUE] \in Client
BY DEF Client

\* A new timer waits its interval, and nobody's wait changes: insertTimer takes
\* from the next one what stands before it.
LEMMA InsertKeeps ==
  ASSUME NEW list \in Seq(Client), Timely(list),
         NEW o \in Contexts, NEW t \in 1 .. MaxAge, NEW r \in BOOLEAN,
         NEW c, c = NewTimer(o, t, r), NEW new, new = Insert(list, c)
  PROVE  /\ new \in Seq(Client) /\ Len(new) = Len(list) + 1 /\ Timely(new)
         /\ NotDue(list) => NotDue(new)
<1> DEFINE n == Before(list, c.deltaTicks)
           f == Ahead(list)
           h == Ahead(new)
<1>1. c \in Client /\ c.deltaTicks = t /\ t \in Nat
  <2>1. MaxAge \in Nat /\ t \in Nat /\ 0 \in 0 .. MaxAge
    BY TimersAssumption
  <2>2. c = [owner |-> o, ticks |-> t, repeat |-> r, deltaTicks |-> t,
             age |-> 0, overtaken |-> FALSE, putOff |-> FALSE, early |-> FALSE]
    BY DEF NewTimer
  <2> QED
    BY <2>1, <2>2, SMT DEF Client
<1>2. Inserted(list, c, n, new)
  BY <1>1, InsertIs
<1>3. /\ h \in [0 .. Len(list) + 1 -> Nat]
      /\ \A k \in 0 .. n : h[k] = f[k]
      /\ h[n + 1] = t
      /\ \A k \in n + 1 .. Len(list) : h[k + 1] = f[k] + (t - f[n])
  BY <1>1, InsertAhead
<1>4. \A k \in 1 .. Len(list) : f[k] <= t <=> k <= n
  BY <1>1, BeforeIs
<1>5. n \in 0 .. Len(list) /\ f[n] <= t
  BY <1>1, BeforeIs
<1>6. f \in [0 .. Len(list) -> Nat] /\ f[0] = 0
  BY AheadSums DEF Sums
<1> HIDE DEF n, f, h
<1>7. Len(new) = Len(list) + 1 /\ new \in Seq(Client)
  BY <1>2 DEF Inserted
<1>8. ASSUME NEW k \in 1 .. Len(new)
      PROVE  /\ ~new[k].early => new[k].age + h[k] >= new[k].ticks
             /\ ~new[k].putOff /\ ~new[k].overtaken => new[k].age + h[k] <= new[k].ticks
             /\ new[k].ticks = 1 /\ ~new[k].putOff => ~new[k].overtaken
  <2>1. CASE k <= n
    <3>1. k \in 1 .. Len(list) /\ k \in 1 .. n /\ k \in 0 .. n
      BY <1>5, <2>1
    <3>2. new[k] = list[k] /\ h[k] = f[k]
      BY <1>2, <1>3, <3>1 DEF Inserted
    <3> QED
      BY <3>1, <3>2 DEF Timely, f
  <2>2. CASE k = n + 1
    <3>1. new[k] = [c EXCEPT !.deltaTicks = @ - f[n]] /\ h[k] = t
      BY <1>2, <1>3, <2>2 DEF Inserted, f
    <3>2. /\ new[k].age = 0 /\ new[k].ticks = t /\ ~new[k].overtaken
      BY <3>1 DEF NewTimer
    <3> QED
      BY <1>1, <3>1, <3>2
  <2>3. CASE k > n + 1
    <3> DEFINE j == k - 1
    <3>1. j \in 1 .. Len(list) /\ j \in n + 1 .. Len(list) /\ j + 1 = k /\ j \in 0 .. Len(list)
      BY <1>5, <1>7, <2>3
    <3>2. list[j] \in Client
      BY <3>1
    <3>3. /\ new[k] = [list[j] EXCEPT !.overtaken = TRUE]
          /\ h[k] = f[j] + (t - f[n])
      BY <1>2, <1>3, <3>1 DEF Inserted
    <3>4. /\ new[k].age = list[j].age /\ new[k].ticks = list[j].ticks /\ new[k].overtaken
          /\ new[k].early = list[j].early /\ new[k].putOff = list[j].putOff
      BY <3>2, <3>3 DEF Client
    <3>5. /\ ~list[j].early => list[j].age + f[j] >= list[j].ticks
          /\ ~list[j].putOff /\ ~list[j].overtaken => list[j].age + f[j] <= list[j].ticks
          /\ list[j].ticks = 1 /\ ~list[j].putOff => ~list[j].overtaken
      BY <3>1 DEF Timely, f
    <3>6. f[j] \in Nat /\ f[n] \in Nat /\ f[j] > t
      BY <1>4, <1>5, <1>6, <2>3, <3>1
    <3>7. list[j].age \in Nat /\ list[j].ticks \in Nat
      BY <3>2, ClientFields
    <3> DEFINE a == list[j].age
               d == list[j].ticks
               x == f[j]
               y == f[n]
    <3>8. ~list[j].early => a + (x + (t - y)) >= d
      <4>1. /\ a \in Nat /\ d \in Nat /\ x \in Nat /\ y \in Nat /\ t \in Nat /\ y <= t
            /\ ~list[j].early => a + x >= d
        BY <1>1, <1>5, <3>5, <3>6, <3>7
      <4> HIDE DEF a, d, x, y, j
      <4> QED
        BY ONLY <4>1
    <3>9. ~(list[j].ticks = 1 /\ ~list[j].putOff)
      <4>1. list[j].ticks = 1 /\ ~list[j].putOff => a + x <= 1
        BY <3>5
      <4>2. a \in Nat /\ x \in Nat /\ t \in Nat \ {0} /\ x > t
        BY <1>1, <3>6, <3>7
      <4> HIDE DEF a, x, j
      <4> QED
        BY ONLY <4>1, <4>2
    <3> QED
      BY <3>3, <3>4, <3>8, <3>9
  <2> QED
    BY <1>5, <2>1, <2>2, <2>3
<1>9. ASSUME NotDue(list)
      PROVE  NotDue(new)
  <2>1. CASE n = 0
    <3>1. new[1] = [c EXCEPT !.deltaTicks = @ - f[0]]
      BY <1>2, <2>1 DEF Inserted, f
    <3>2. new[1].deltaTicks = t
      BY <1>1, <1>6, <3>1 DEF NewTimer
    <3> QED
      BY <3>2 DEF NotDue
  <2>2. CASE n # 0
    <3>1. 1 \in 1 .. n /\ list # << >>
      BY <1>5, <2>2
    <3>2. new[1] = list[1]
      BY <1>2, <3>1 DEF Inserted
    <3> QED
      BY <1>9, <3>1, <3>2 DEF NotDue
  <2> QED
    BY <2>1, <2>2
<1> QED
  BY <1>7, <1>8, <1>9 DEF Timely, h

\* Those behind the first client keep their promise when it goes, but are
\* early if it had still to wait.
LEMMA RestKeeps ==
  ASSUME NEW list \in Seq(Client), list # << >>, Timely(list), NEW rest \in Seq(Client),
         Len(rest) = Len(list) - 1,
         \A k \in 1 .. Len(rest) :
           rest[k] = [list[k + 1] EXCEPT !.early = @ \/ list[1].deltaTicks > 0]
  PROVE  Timely(rest)
<1>1. \A k \in 1 .. Len(rest) : list[k + 1] \in Client
  OBVIOUS
<1>2. \A k \in 1 .. Len(rest) :
        /\ rest[k].deltaTicks = list[k + 1].deltaTicks /\ rest[k].age = list[k + 1].age
        /\ rest[k].ticks = list[k + 1].ticks /\ rest[k].putOff = list[k + 1].putOff
        /\ rest[k].overtaken = list[k + 1].overtaken
        /\ ~rest[k].early => ~list[k + 1].early /\ ~(list[1].deltaTicks > 0)
  BY <1>1 DEF Client
<1>3. \A k \in 0 .. Len(rest) : Ahead(rest)[k] = Ahead(list)[k + 1] - list[1].deltaTicks
  BY <1>2, RestAhead
<1> SUFFICES ASSUME NEW k \in 1 .. Len(rest)
             PROVE  /\ ~rest[k].early => rest[k].age + Ahead(rest)[k] >= rest[k].ticks
                    /\ ~rest[k].putOff /\ ~rest[k].overtaken
                         => rest[k].age + Ahead(rest)[k] <= rest[k].ticks
                    /\ rest[k].ticks = 1 /\ ~rest[k].putOff => ~rest[k].overtaken
  BY DEF Timely
<1> DEFINE j == k + 1
           a == Ahead(list)[j]
           d == list[1].deltaTicks
<1>4. j \in 1 .. Len(list) /\ j \in 0 .. Len(list) /\ 1 \in 1 .. Len(list) /\ k \in 0 .. Len(rest)
  OBVIOUS
<1>5. a \in Nat
  BY <1>4, AheadSums DEF Sums
<1>6. list[j] \in Client /\ list[1] \in Client
  BY <1>4
<1>7. d \in Nat /\ list[j].age \in Nat /\ list[j].ticks \in Nat
  BY <1>6, ClientFields
<1>8. /\ ~list[j].early => list[j].age + a >= list[j].ticks
      /\ ~list[j].putOff /\ ~list[j].overtaken => list[j].age + a <= list[j].ticks
      /\ list[j].ticks = 1 /\ ~list[j].putOff => ~list[j].overtaken
  BY <1>4 DEF Timely
<1>9. Ahead(rest)[k] = a - d
  BY <1>3, <1>4
<1>10. /\ rest[k].age = list[j].age /\ rest[k].ticks = list[j].ticks
       /\ rest[k].putOff = list[j].putOff /\ rest[k].overtaken = list[j].overtaken
       /\ ~rest[k].early => ~list[j].early /\ ~(d > 0)
  BY <1>2
<1> DEFINE x == list[j].age
           y == list[j].ticks
<1>11. ~rest[k].early => x + (a - d) >= y
  <2>1. rest[k].early \/ (d = 0 /\ x + a >= y)
    BY <1>7, <1>8, <1>10
  <2>2. a \in Nat /\ d \in Nat /\ x \in Nat /\ y \in Nat
    BY <1>5, <1>7
  <2> HIDE DEF a, d, x, y, j
  <2> QED
    BY ONLY <2>1, <2>2
<1>12. ~rest[k].putOff /\ ~rest[k].overtaken => x + (a - d) <= y
  <2>1. ~rest[k].putOff /\ ~rest[k].overtaken => x + a <= y
    BY <1>8, <1>10
  <2>2. a \in Nat /\ d \in Nat /\ x \in Nat /\ y \in Nat
    BY <1>5, <1>7
  <2> HIDE DEF a, d, x, y, j
  <2> QED
    BY ONLY <2>1, <2>2
<1> QED
  BY <1>8, <1>9, <1>10, <1>11, <1>12

\* removeTimer of the first client.
LEMMA DropFirstKeeps ==
  ASSUME NEW list \in Seq(Client), list # << >>, Timely(list)
  PROVE  /\ DropFirst(list) \in Seq(Client)
         /\ Len(DropFirst(list)) = Len(list) - 1
         /\ Timely(DropFirst(list))
<1> DEFINE rest == DropFirst(list)
<1>1. Len(list) - 1 \in Nat /\ Head(list) = list[1]
  OBVIOUS
<1>2. rest = [k \in 1 .. Len(list) - 1 |->
                [list[k + 1] EXCEPT !.early = @ \/ list[1].deltaTicks > 0]]
  BY <1>1 DEF DropFirst
<1>3. ASSUME NEW k \in 1 .. Len(list) - 1
      PROVE  [list[k + 1] EXCEPT !.early = @ \/ list[1].deltaTicks > 0] \in Client
  <2>1. list[k + 1] \in Client
    OBVIOUS
  <2> QED
    BY <2>1 DEF Client
<1> HIDE DEF rest
<1>4. rest \in [1 .. Len(list) - 1 -> Client]
  BY <1>2, <1>3
<1>5. rest \in Seq(Client) /\ Len(rest) = Len(list) - 1
  BY <1>1, <1>4, IsList
<1>6. \A k \in 1 .. Len(rest) :
        rest[k] = [list[k + 1] EXCEPT !.early = @ \/ list[1].deltaTicks > 0]
  BY <1>2, <1>5
<1> QED
  BY <1>5, <1>6, RestKeeps DEF rest

\* The first of the others is due by now: dropping the first client, which is
\* due, costs nobody a tick.
LEMMA TailKeeps ==
  ASSUME NEW list \in Seq(Client), list # << >>, Timely(list), list[1].deltaTicks = 0
  PROVE  Tail(list) \in Seq(Client) /\ Len(Tail(list)) = Len(list) - 1 /\ Timely(Tail(list))
<1> DEFINE rest == Tail(list)
<1>1. /\ rest \in Seq(Client) /\ Len(rest) = Len(list) - 1
      /\ \A k \in 1 .. Len(rest) : rest[k] = list[k + 1]
  OBVIOUS
<1> HIDE DEF rest
<1>2. ASSUME NEW k \in 1 .. Len(rest)
      PROVE  rest[k] = [list[k + 1] EXCEPT !.early = @ \/ list[1].deltaTicks > 0]
  <2>1. list[k + 1] \in Client /\ list[k + 1].early \in BOOLEAN
    <3>1. k + 1 \in 1 .. Len(list)
      BY <1>1
    <3>2. list[k + 1] \in Client
      BY <3>1
    <3> QED
      BY <3>2 DEF Client
  <2>2. (list[k + 1].early \/ list[1].deltaTicks > 0) = list[k + 1].early
    BY <2>1
  <2>3. [list[k + 1] EXCEPT !.early = list[k + 1].early] = list[k + 1]
    BY <2>1 DEF Client
  <2> QED
    BY <1>1, <2>2, <2>3
<1>3. Timely(rest)
  BY <1>1, <1>2, RestKeeps
<1> QED
  BY <1>1, <1>3 DEF rest

\* A repeating client that is due begins its interval anew.
LEMMA RenewKeeps ==
  ASSUME NEW list \in Seq(Client), list # << >>, Timely(list), list[1].deltaTicks = 0,
         NEW new, new = Insert(Tail(list), NewTimer(list[1].owner, list[1].ticks, TRUE))
  PROVE  new \in Seq(Client) /\ Len(new) = Len(list) /\ Timely(new)
<1> DEFINE rest == Tail(list)
           o == list[1].owner
           t == list[1].ticks
<1>1. rest \in Seq(Client) /\ Len(rest) = Len(list) - 1 /\ Timely(rest) /\ Len(list) \in Nat
  BY TailKeeps
<1>2. o \in Contexts /\ t \in 1 .. MaxAge
  <2>1. list[1] \in Client
    OBVIOUS
  <2> QED
    BY <2>1 DEF Client
<1> HIDE DEF rest, o, t
<1>3. PICK r \in BOOLEAN : new = Insert(rest, NewTimer(o, t, r))
  BY DEF rest, o, t
<1> DEFINE c == NewTimer(o, t, r)
<1> HIDE DEF c
<1>4. new \in Seq(Client) /\ Len(new) = Len(rest) + 1 /\ Timely(new)
  <2>1. c = NewTimer(o, t, r) /\ new = Insert(rest, c)
    BY <1>3 DEF c
  <2> QED
    BY ONLY <1>1, <1>2, <1>3, <2>1, InsertKeeps
<1> QED
  BY ONLY <1>1, <1>4

\* Putting the list off by the tick it did not finish keeps all but the
\* upper bound of those put off.
LEMMA PutOffKeeps ==
  ASSUME NEW list \in Seq(Client), Timely(list)
  PROVE  /\ PutOff(list) \in Seq(Client) /\ Len(PutOff(list)) = Len(list)
         /\ Timely(PutOff(list)) /\ NotDue(PutOff(list))
<1> DEFINE other == PutOff(list)
<1>1. other = [k \in 1 .. Len(list) |->
                 [list[k] EXCEPT !.putOff = TRUE,
                                 !.deltaTicks = IF k = 1 THEN @ + 1 ELSE @]]
  BY DEF PutOff
<1> HIDE DEF other
<1>2. ASSUME NEW k \in 1 .. Len(list)
      PROVE  /\ other[k] \in Client
             /\ other[k].deltaTicks = IF k = 1 THEN list[k].deltaTicks + 1 ELSE list[k].deltaTicks
             /\ other[k].age = list[k].age /\ other[k].ticks = list[k].ticks
             /\ other[k].early = list[k].early /\ other[k].putOff
  <2>1. list[k] \in Client /\ list[k].deltaTicks \in Nat
    BY ClientFields
  <2>2. other[k] = [list[k] EXCEPT !.putOff = TRUE,
                      !.deltaTicks = IF k = 1 THEN list[k].deltaTicks + 1 ELSE list[k].deltaTicks]
    BY <1>1
  <2> DEFINE d == IF k = 1 THEN list[k].deltaTicks + 1 ELSE list[k].deltaTicks
  <2>3. d \in Nat
    BY <2>1
  <2> HIDE DEF d
  <2>4. other[k] = [list[k] EXCEPT !.putOff = TRUE, !.deltaTicks = d]
    BY <2>2 DEF d
  <2>5. other[k] \in Client /\ other[k].deltaTicks = d
    <3> DEFINE o == [list[k] EXCEPT !.putOff = TRUE]
    <3>1. o \in Client
      BY <2>1, ClientUpdates
    <3>2. [o EXCEPT !.deltaTicks = d] \in Client
      BY <2>3, <3>1, ClientUpdates
    <3>3. other[k] = [o EXCEPT !.deltaTicks = d]
      BY <2>1, <2>4 DEF Client
    <3>4. [o EXCEPT !.deltaTicks = d].deltaTicks = d
      BY <3>1 DEF Client
    <3> QED
      BY <3>2, <3>3, <3>4
  <2>6. /\ other[k].age = list[k].age /\ other[k].ticks = list[k].ticks
        /\ other[k].early = list[k].early /\ other[k].putOff
    BY <2>1, <2>4, SMT DEF Client
  <2> QED
    BY <2>5, <2>6 DEF d
<1>3. other \in Seq(Client) /\ Len(other) = Len(list)
  <2>1. other = [k \in 1 .. Len(list) |-> other[k]] /\ Len(list) \in Nat
    BY DEF other, PutOff
  <2>2. other \in [1 .. Len(list) -> Client]
    BY <1>2, <2>1
  <2> QED
    BY <2>1, <2>2, IsList
<1>4. CASE list = << >>
  BY <1>3, <1>4 DEF Timely, NotDue, other
<1>5. CASE list # << >>
  <2>1. 1 \in 1 .. Len(list)
    BY <1>5
  <2>2. other[1].deltaTicks = list[1].deltaTicks + 1 /\ list[1].deltaTicks \in Nat
    BY <1>2, <2>1, ClientFields
  <2>3. ASSUME NEW k \in 1 .. Len(list)
        PROVE  Ahead(other)[k] = Ahead(list)[k] + 1
    <3>1. \A j \in 2 .. Len(list) : other[j].deltaTicks = list[j].deltaTicks
      BY <1>2
    <3>2. Ahead(other)[k] = Ahead(list)[k] + other[1].deltaTicks - list[1].deltaTicks
      BY <1>3, <1>5, <3>1, ShiftAhead
    <3>3. Ahead(list)[k] \in Nat
      BY AheadSums DEF Sums
    <3> QED
      BY <2>2, <3>2, <3>3
  <2>4. ASSUME NEW k \in 1 .. Len(other)
        PROVE  /\ ~other[k].early => other[k].age + Ahead(other)[k] >= other[k].ticks
               /\ other[k].putOff
    <3>1. k \in 1 .. Len(list)
      BY <1>3
    <3>2. ~list[k].early => list[k].age + Ahead(list)[k] >= list[k].ticks
      BY <3>1 DEF Timely
    <3>3. Ahead(list)[k] \in Nat /\ list[k].age \in Nat /\ list[k].ticks \in Nat
      <4>1. list[k] \in Client
        BY <3>1
      <4> QED
        BY <3>1, <4>1, AheadSums, ClientFields DEF Sums
    <3>4. /\ other[k].age = list[k].age /\ other[k].ticks = list[k].ticks
          /\ other[k].early = list[k].early /\ other[k].putOff
          /\ Ahead(other)[k] = Ahead(list)[k] + 1
      BY <1>2, <2>3, <3>1
    <3> QED
      BY <3>2, <3>3, <3>4
  <2> QED
    BY <1>3, <2>2, <2>4 DEF Timely, NotDue, other
<1> QED
  BY <1>4, <1>5

\* A tick: everybody has waited one more, and everybody's turn is one nearer.
\* An age at its bound is that of a client whose interval is over.
LEMMA TickKeeps ==
  ASSUME NEW list \in Seq(Client), list # << >>, Timely(list), NotDue(list),
         NEW other,
         other = [Older(list) EXCEPT ![1].deltaTicks = IF @ > 0 THEN @ - 1 ELSE @]
  PROVE  other \in Seq(Client) /\ Len(other) = Len(list) /\ Timely(other)
<1> DEFINE older == Older(list)
           Age(a) == IF a < MaxAge THEN a + 1 ELSE a
<1>1. older = [k \in 1 .. Len(list) |-> [list[k] EXCEPT !.age = Age(@)]]
  BY DEF Older
<1> HIDE DEF older
<1>2. ASSUME NEW k \in 1 .. Len(list)
      PROVE  /\ older[k] \in Client /\ older[k].deltaTicks = list[k].deltaTicks
             /\ older[k].age = Age(list[k].age) /\ older[k].ticks = list[k].ticks
             /\ older[k].early = list[k].early /\ older[k].putOff = list[k].putOff
             /\ older[k].overtaken = list[k].overtaken
  <2>1. list[k] \in Client /\ list[k].age \in 0 .. MaxAge /\ MaxAge \in Nat
    BY ClientFields, TimersAssumption
  <2> DEFINE a == Age(list[k].age)
  <2>2. a \in 0 .. MaxAge
    BY <2>1
  <2>3. older[k] = [list[k] EXCEPT !.age = a]
    BY <1>1
  <2> HIDE DEF a
  <2>4. older[k] \in Client /\ older[k].age = a
    <3>1. older[k] \in Client
      BY <2>1, <2>2, <2>3, ClientUpdates
    <3> QED
      BY <2>1, <2>3, <3>1, SMT DEF Client
  <2>5. /\ older[k].deltaTicks = list[k].deltaTicks /\ older[k].ticks = list[k].ticks
        /\ older[k].early = list[k].early /\ older[k].putOff = list[k].putOff
        /\ older[k].overtaken = list[k].overtaken
    BY <2>1, <2>3, SMT DEF Client
  <2> QED
    BY <2>4, <2>5 DEF a
<1> DEFINE d == list[1].deltaTicks - 1
<1>3. 1 \in 1 .. Len(list) /\ list[1].deltaTicks \in Nat /\ list[1].deltaTicks > 0 /\ d \in Nat
  <2>1. 1 \in 1 .. Len(list)
    OBVIOUS
  <2>2. list[1] \in Client
    BY <2>1
  <2> QED
    BY <2>1, <2>2, ClientFields DEF NotDue
<1> HIDE DEF d
<1>4. older[1].deltaTicks = list[1].deltaTicks /\ older[1] \in Client
  BY <1>2, <1>3
<1>5. other = [older EXCEPT ![1] = [older[1] EXCEPT !.deltaTicks = d]]
  BY <1>3, <1>4 DEF d, older
<1>6. DOMAIN older = 1 .. Len(list) /\ older = [k \in 1 .. Len(list) |-> older[k]]
  BY <1>1
<1>7. other[1] = [older[1] EXCEPT !.deltaTicks = d] /\ DOMAIN other = 1 .. Len(list)
  BY <1>3, <1>5, <1>6
<1>8. \A k \in 2 .. Len(list) : other[k] = older[k]
  BY <1>5, <1>6
<1>9. ASSUME NEW k \in 1 .. Len(list)
      PROVE  /\ other[k] \in Client
             /\ other[k].deltaTicks = IF k = 1 THEN d ELSE list[k].deltaTicks
             /\ other[k].age = Age(list[k].age) /\ other[k].ticks = list[k].ticks
             /\ other[k].early = list[k].early /\ other[k].putOff = list[k].putOff
             /\ other[k].overtaken = list[k].overtaken
  <2> HIDE DEF Age
  <2>1. CASE k = 1
    <3>1. other[1] \in Client
      BY <1>3, <1>4, <1>7, ClientUpdates
    <3>2. /\ other[1].deltaTicks = d
          /\ other[1].age = older[1].age /\ other[1].ticks = older[1].ticks
          /\ other[1].early = older[1].early /\ other[1].putOff = older[1].putOff
          /\ other[1].overtaken = older[1].overtaken
      <4> DEFINE o == older[1]
      <4>1. o \in Client /\ other[1] = [o EXCEPT !.deltaTicks = d]
        BY <1>4, <1>7
      <4> HIDE DEF o
      <4>2. /\ other[1].deltaTicks = d /\ other[1].age = o.age /\ other[1].ticks = o.ticks
            /\ other[1].early = o.early /\ other[1].putOff = o.putOff
            /\ other[1].overtaken = o.overtaken
        BY <4>1 DEF Client
      <4> QED
        BY <4>2 DEF o
    <3> QED
      BY <1>2, <1>3, <2>1, <3>1, <3>2
  <2>2. CASE k # 1
    BY <1>2, <1>8, <2>2
  <2> QED
    BY <2>1, <2>2
<1>10. other \in Seq(Client) /\ Len(other) = Len(list)
  <2>1. Len(list) \in Nat /\ \A k \in 1 .. Len(list) : older[k] \in Client
    BY <1>2
  <2>2. older \in [1 .. Len(list) -> Client]
    BY <1>6, <2>1
  <2>4. [older[1] EXCEPT !.deltaTicks = d] \in Client
    BY <1>3, <1>4, ClientUpdates
  <2> DEFINE e == [older[1] EXCEPT !.deltaTicks = d]
  <2> HIDE DEF e
  <2>5. e \in Client /\ other = [older EXCEPT ![1] = e]
    BY <1>5, <2>4 DEF e
  <2>6. other \in [1 .. Len(list) -> Client]
    BY ONLY <2>2, <2>5
  <2> QED
    BY ONLY <2>1, <2>6, IsList
<1>11. ASSUME NEW k \in 1 .. Len(list)
       PROVE  /\ ~other[k].early => other[k].age + Ahead(other)[k] >= other[k].ticks
              /\ ~other[k].putOff /\ ~other[k].overtaken
                   => other[k].age + Ahead(other)[k] <= other[k].ticks
              /\ other[k].ticks = 1 /\ ~other[k].putOff => ~other[k].overtaken
  <2> DEFINE a == Ahead(list)[k]
             b == Ahead(other)[k]
  <2>1. b = a - 1
    <3>1. \A j \in 2 .. Len(list) : other[j].deltaTicks = list[j].deltaTicks
      BY <1>9
    <3>2. Ahead(other)[k] = Ahead(list)[k] + other[1].deltaTicks - list[1].deltaTicks
      BY <1>10, <3>1, ShiftAhead
    <3>3. other[1].deltaTicks = d
      BY <1>3, <1>9
    <3>4. a \in Nat
      BY AheadSums DEF Sums
    <3> HIDE DEF a
    <3>5. b = a + d - list[1].deltaTicks
      BY <3>2, <3>3 DEF a
    <3> QED
      BY <1>3, <3>4, <3>5 DEF d
  <2>2. a \in Nat /\ b \in Nat
    <3>1. /\ Ahead(list) \in [0 .. Len(list) -> Nat]
          /\ Ahead(other) \in [0 .. Len(other) -> Nat]
      BY <1>10, AheadSums DEF Sums
    <3>2. k \in 0 .. Len(list) /\ k \in 0 .. Len(other)
      BY <1>10
    <3> QED
      BY <3>1, <3>2
  <2>3. list[k].age \in 0 .. MaxAge /\ list[k].ticks \in 1 .. MaxAge /\ MaxAge \in Nat
    <3>1. list[k] \in Client
      OBVIOUS
    <3> QED
      BY <3>1, TimersAssumption DEF Client
  <2>4. /\ ~list[k].early => list[k].age + a >= list[k].ticks
        /\ ~list[k].putOff /\ ~list[k].overtaken => list[k].age + a <= list[k].ticks
        /\ list[k].ticks = 1 /\ ~list[k].putOff => ~list[k].overtaken
    BY DEF Timely
  <2>5. /\ other[k].age = Age(list[k].age) /\ other[k].ticks = list[k].ticks
        /\ other[k].early = list[k].early /\ other[k].putOff = list[k].putOff
        /\ other[k].overtaken = list[k].overtaken
    BY <1>9
  <2> HIDE DEF a, b
  <2> DEFINE x == list[k].age
             y == Age(x)
             t == list[k].ticks
  <2>6. /\ x + a >= t => y + b >= t
        /\ x + a <= t => y + b <= t
    <3> HIDE DEF x, t
    <3>1. x \in 0 .. MaxAge /\ t \in 1 .. MaxAge /\ MaxAge \in Nat
      BY <2>3 DEF x, t
    <3> QED
      BY <2>1, <2>2, <3>1
  <2> HIDE DEF y
  <2> QED
    BY <2>4, <2>5, <2>6 DEF b, y
<1> QED
  BY <1>10, <1>11 DEF Timely

-----------------------------------------------------------------------------
(* The invariant *)

\* What a process asks of the timers.
Request == [owner : Contexts, time : Times, repeat : BOOLEAN]

\* The types of what the timers keep.
TimersTypeOK ==
  /\ clients \in Seq(Client)
  /\ requests \in Seq(Request)
  /\ at \in {"out", "send", "receive"}

\* Outside of sendTicks nobody is due.
NobodyDue == at # "send" => NotDue(clients)

\* The inductive invariant.
TimersInv == TimersTypeOK /\ Timely(clients) /\ NobodyDue

\* What Open inserts.
LEMMA TicksAreBounded ==
  ASSUME NEW time \in Times, TimeToTicks(time) > 0
  PROVE  TimeToTicks(time) \in 1 .. MaxAge
<1>1. TimeToTicks(time) <= MaxAge /\ MaxAge \in Nat
  BY AgeAssumption, TimersAssumption
<1>2. TimeToTicks(time) \in Int
  BY TimersAssumption DEF TimeToTicks
<1> QED
  BY <1>1, <1>2

\* Every step of the timers and of those who use them keeps the invariant.
LEMMA TimersInvStep ==
  ASSUME TimersInv, [TimersNext]_timerVars
  PROVE  TimersInv'
<1> USE DEF TimersTypeOK
<1>1. /\ clients \in Seq(Client) /\ Timely(clients) /\ NobodyDue
      /\ requests \in Seq(Request)
  BY DEF TimersInv
<1>2. Sending => clients # << >> /\ Head(clients) = clients[1] /\ clients[1] \in Client
                 /\ clients[1].deltaTicks = 0
  BY <1>1 DEF Sending
<1>3. CASE Tick
  <2>1. clients' \in Seq(Client) /\ Timely(clients')
    <3>1. CASE clients = << >>
      BY <1>1, <1>3, <3>1 DEF Tick
    <3>2. CASE clients # << >>
      <4>1. NotDue(clients)
        BY <1>1, <1>3 DEF Tick, NobodyDue
      <4>2. clients' = [Older(clients) EXCEPT ![1].deltaTicks = IF @ > 0 THEN @ - 1 ELSE @]
        BY <1>3, <3>2 DEF Tick
      <4> QED
        BY <1>1, <3>2, <4>1, <4>2, TickKeeps
    <3> QED
      BY <3>1, <3>2
  <2>2. at' # "send" => NotDue(clients')
    <3> SUFFICES ASSUME at' # "send", clients' # << >>
                 PROVE  clients'[1].deltaTicks > 0
      BY DEF NotDue
    <3>1. Head(clients').deltaTicks # 0 /\ Head(clients') = clients'[1] /\ clients'[1] \in Client
      BY <1>3, <2>1 DEF Tick
    <3> QED
      BY <3>1, ClientFields
  <2> QED
    BY <1>1, <1>3, <2>1, <2>2 DEF Tick, TimersInv, NobodyDue
<1>4. CASE Notify
  <2>1. clients # << >> /\ clients[1] \in Client /\ clients[1].deltaTicks = 0
    BY <1>4, <1>2 DEF Notify
  <2>2. clients' \in Seq(Client) /\ Timely(clients')
    <3>1. CASE clients[1].repeat
      <4>1. clients' = Insert(Tail(clients), NewTimer(clients[1].owner, clients[1].ticks, TRUE))
        BY <1>4, <1>2, <3>1 DEF Notify
      <4> QED
        BY <1>1, <2>1, <4>1, RenewKeeps
    <3>2. CASE ~clients[1].repeat
      <4>1. clients' = DropFirst(clients)
        BY <1>4, <1>2, <3>2 DEF Notify
      <4> QED
        BY <1>1, <2>1, <4>1, DropFirstKeeps
    <3> QED
      BY <3>1, <3>2
  <2> QED
    BY <1>1, <1>4, <2>2 DEF Notify, Sending, TimersInv, NobodyDue
<1>5. CASE NotifyFails
  <2>1. DropFirst(clients) \in Seq(Client) /\ Timely(DropFirst(clients))
    BY <1>1, <1>5, <1>2, DropFirstKeeps DEF NotifyFails
  <2>2. clients' \in Seq(Client) /\ Timely(clients') /\ NotDue(clients')
    BY <1>5, <2>1, PutOffKeeps DEF NotifyFails
  <2> QED
    BY <1>1, <1>5, <2>2 DEF NotifyFails, Failed, TimersInv, NobodyDue
<1>6. CASE NotifyUnreachable
  <2> DEFINE others == DropFirst(clients)
             rest == IF others = << >> THEN others ELSE DropFirst(others)
  <2>1. others \in Seq(Client) /\ Timely(others)
    BY <1>1, <1>6, <1>2, DropFirstKeeps DEF NotifyUnreachable
  <2>2. clients' = PutOff(rest)
    BY <1>6 DEF NotifyUnreachable
  <2> HIDE DEF others
  <2>3. rest \in Seq(Client) /\ Timely(rest)
    BY <2>1, DropFirstKeeps
  <2> HIDE DEF rest
  <2>4. clients' \in Seq(Client) /\ Timely(clients') /\ NotDue(clients')
    BY <2>2, <2>3, PutOffKeeps
  <2> QED
    BY <1>1, <1>6, <2>4 DEF NotifyUnreachable, Failed, TimersInv, NobodyDue
<1>7. CASE Sent
  <2>1. NotDue(clients)
    <3> SUFFICES ASSUME clients # << >>
                 PROVE  clients[1].deltaTicks > 0
      BY DEF NotDue
    <3>1. clients[1] \in Client /\ Head(clients) = clients[1] /\ clients[1].deltaTicks # 0
      BY <1>1, <1>7 DEF Sent, Sending
    <3> QED
      BY <3>1, ClientFields
  <2> QED
    BY <1>1, <1>7, <2>1 DEF Sent, TimersInv, NobodyDue
<1>8. CASE NoRequest
  BY <1>1, <1>8 DEF NoRequest, TimersInv, NobodyDue
<1>9. CASE Open
  <2> DEFINE r == Head(requests)
             t == TimeToTicks(r.time)
  <2>1. r.owner \in Contexts /\ r.time \in Times /\ r.repeat \in BOOLEAN
    <3>1. r \in Request
      BY <1>1, <1>9 DEF Open
    <3> HIDE DEF r
    <3> QED
      BY <3>1 DEF Request
  <2>2. t \in 1 .. MaxAge
    BY <1>9, <2>1, TicksAreBounded DEF Open
  <2>3. clients' = Insert(clients, NewTimer(r.owner, t, r.repeat))
    BY <1>9 DEF Open
  <2>4. NotDue(clients)
    BY <1>1, <1>9 DEF Open, NobodyDue
  <2> HIDE DEF r, t
  <2>5. clients' \in Seq(Client) /\ Timely(clients') /\ NotDue(clients')
    BY <1>1, <2>1, <2>2, <2>3, <2>4, InsertKeeps
  <2> QED
    BY <1>1, <1>9, <2>5 DEF Open, TimersInv, NobodyDue
<1>10. CASE Refuse
  BY <1>1, <1>10 DEF Refuse, TimersInv, NobodyDue
<1>11. ASSUME NEW c \in Contexts, NEW t \in Times, NEW repeat \in BOOLEAN, Ask(c, t, repeat)
      PROVE  TimersInv'
  <2>1. [owner |-> c, time |-> t, repeat |-> repeat] \in Request
    BY DEF Request
  <2> QED
    BY <1>1, <1>11, <2>1 DEF Ask, TimersInv, NobodyDue
<1>12. ASSUME NEW c \in Contexts, Exit(c)
       PROVE  TimersInv'
  BY <1>1, <1>12 DEF Exit, TimersInv, NobodyDue
<1>13. CASE UNCHANGED timerVars
  BY <1>1, <1>13 DEF timerVars, TimersInv, NobodyDue
<1> QED
  BY <1>3, <1>4, <1>5, <1>6, <1>7, <1>8, <1>9, <1>10, <1>11, <1>12, <1>13 DEF TimersNext, Server

\* The invariant holds in every state the timers reach.
LEMMA TimersInvHolds == TimersSpec => []TimersInv
<1>1. TimersInit => TimersInv
  BY DEF TimersInit, TimersInv, TimersTypeOK, Timely, NobodyDue, NotDue
<1> QED
  BY <1>1, TimersInvStep, PTL DEF TimersSpec

\* No timer is due before its interval is over, unless one before it was
\* dropped with ticks to go, which takes them from all behind it
\* (insertClient, removeClient, TimerServerTick).
THEOREM TimersNeverEarly == TimersSpec => []NeverEarly
<1>1. TimersInv => NeverEarly
  BY DEF TimersInv, Timely, NeverEarly, Span
<1> QED
  BY <1>1, TimersInvHolds, PTL

\* The differences add up: a timer that nobody was inserted before, and that no
\* failure moved, is due after exactly its interval (insertClient, sendTicks).
THEOREM TimersExactIfUndisturbed == TimersSpec => []ExactIfUndisturbed
<1>1. TimersInv => ExactIfUndisturbed
  <2> SUFFICES ASSUME TimersInv, NEW k \in 1 .. Len(clients),
                      ~(clients[k].early \/ clients[k].putOff \/ clients[k].overtaken)
               PROVE  clients[k].age + Ahead(clients)[k] = clients[k].ticks
    BY DEF ExactIfUndisturbed, Span
  <2>1. clients \in Seq(Client) /\ clients[k] \in Client /\ k \in 0 .. Len(clients)
    BY DEF TimersInv, TimersTypeOK
  <2>2. clients[k].age \in Nat /\ clients[k].ticks \in Nat /\ Ahead(clients)[k] \in Nat
    BY <2>1, ClientFields, AheadSums DEF Sums
  <2>3. /\ clients[k].age + Ahead(clients)[k] >= clients[k].ticks
        /\ clients[k].age + Ahead(clients)[k] <= clients[k].ticks
    BY DEF TimersInv, Timely
  <2> QED
    BY <2>2, <2>3
<1> QED
  BY <1>1, TimersInvHolds, PTL

\* A timer of one tick that no failure put off has nobody inserted before it:
\* insertClient looks for the first that is due later.
THEOREM TimersShortestIsNotOvertaken == TimersSpec => []ShortestIsNotOvertaken
<1>1. TimersInv => ShortestIsNotOvertaken
  BY DEF TimersInv, Timely, ShortestIsNotOvertaken
<1> QED
  BY <1>1, TimersInvHolds, PTL

-----------------------------------------------------------------------------
(* The router at the shared memory *)

Packets == Nat \cup {Torn}

RouterTypeOK ==
  /\ router \in {"Loop", "SendMark", "SendTell", "DrainMark", "DrainTell", "Take", "TakeTell",
                 "Receive", "Ended"}
  /\ queued \in Nat
  /\ received \in Seq(Packets) /\ arrived \in Seq(Packets) /\ passed \in Seq(Packets)
  /\ buff \in Packets
  /\ signalled \in BOOLEAN /\ sendValid \in BOOLEAN /\ canSend \in BOOLEAN
  /\ main \in {"Down", "Attached", "Register", "Announce", "Read", "Mark", "Tell"}
  /\ handler \in {"Idle", "Deliver", "Tell"}
  /\ in \in Nat /\ crashes \in Nat

\* The outside has registered before it announces itself, reads or sends.
Registered == main \in {"Announce", "Read", "Mark", "Tell"} => pid = "Live"

\* The router takes one packet at a time.
OneOnItsWay == Len(received) = IF router \in {"TakeTell", "Receive"} THEN 1 ELSE 0

\* Who may use the buffer: one of these, or nobody any more.
InTurn ==
  /\ canSend => main # "Tell"
  /\ canSend \/ main = "Tell" => "receive" \notin toRouter
  /\ canSend \/ main = "Tell" \/ "receive" \in toRouter => router \notin {"Take", "TakeTell"}
  /\ canSend \/ main = "Tell" \/ "receive" \in toRouter \/ router \in {"Take", "TakeTell"}
       => "receive" \notin toOutside
  /\ main \in {"Down", "Attached", "Register", "Announce", "Mark"} => canSend
  /\ ~canSend => pid = "Live"

\* The buffer holds a packet that the router has not taken yet.
Unread == ~canSend /\ router # "TakeTell" /\ "receive" \notin toOutside

NothingLost == passed = IF Unread THEN Append(arrived \o received, buff) ELSE arrived \o received

Handshake == crashes = 0 => InTurn /\ NothingLost

\* What will have the router send what is queued.
Prompted ==
  \/ "send" \in toRouter \/ handler = "Tell" \/ router = "DrainMark"
  \/ /\ sendValid
     /\ handler = "Deliver" \/ "send" \in toOutside \/ router \in {"SendTell", "DrainTell"}
  \/ main \in {"Down", "Attached", "Register", "Announce"}

Awaited == queued > 0 \/ ~signalled => Prompted

RouterInv == RouterTypeOK /\ Registered /\ OneOnItsWay /\ Handshake /\ Awaited

-----------------------------------------------------------------------------
(* Sequences *)

\* An element is appended to the second of two sequences.
LEMMA AppendRest ==
  ASSUME NEW S, NEW s \in Seq(S), NEW t \in Seq(S), NEW x \in S
  PROVE  (s \o Append(t, x)) = Append(s \o t, x)
OBVIOUS

\* Moving the first element over changes nothing in what two sequences say.
LEMMA HeadMoves ==
  ASSUME NEW S, NEW s \in Seq(S), NEW t \in Seq(S), t # << >>
  PROVE  Append(s, Head(t)) \o Tail(t) = s \o t
OBVIOUS

\* A sequence is a part of what one element more makes of it.
LEMMA AllOfAppend ==
  ASSUME NEW S, NEW s \in Seq(S), NEW x \in S
  PROVE  /\ s = SubSeq(s, 1, Len(s))
         /\ s = SubSeq(Append(s, x), 1, Len(s))
         /\ Len(Append(s, x)) = Len(s) + 1
OBVIOUS

-----------------------------------------------------------------------------
(* The steps of the router and of the outside process *)

\* Who is registered and who is awaited, crashes of the outside included.
LEMMA AwaitedStep ==
  ASSUME RouterTypeOK, Registered, OneOnItsWay, Awaited, [Next]_vars
  PROVE  (RouterTypeOK /\ Registered /\ OneOnItsWay /\ Awaited)'
<1> USE DEF RouterTypeOK, Packets, Registered, OneOnItsWay, Awaited, Prompted, routing, outside,
            block
<1>1. CASE Forward
  BY <1>1 DEF Forward, SendOn, Enqueue
<1>2. CASE Hold
  BY <1>2 DEF Hold
<1>3. CASE SendMark
  BY <1>3 DEF SendMark
<1>4. CASE SendTell
  BY <1>4 DEF SendTell, TellOutside
<1>5. CASE OnSendInterrupt
  <2>1. CASE queued = 0
    BY <1>5, <2>1 DEF OnSendInterrupt
  <2>2. CASE queued # 0
    <3>1. queued - 1 \in Nat
      BY <2>2
    <3> QED
      BY <1>5, <2>2, <3>1 DEF OnSendInterrupt
  <2> QED
    BY <2>1, <2>2
<1>6. CASE DrainMark
  BY <1>6 DEF DrainMark
<1>7. CASE DrainTell
  BY <1>7 DEF DrainTell, TellOutside
<1>8. CASE OnReceiveInterrupt
  BY <1>8 DEF OnReceiveInterrupt
<1>9. CASE TakeFails
  BY <1>9 DEF TakeFails
<1>10. CASE Take
  BY <1>10 DEF Take
<1>11. CASE TakeTell
  BY <1>11 DEF TakeTell, TellOutside
<1>12. CASE Receive
  <2>1. received # << >>
    <3>1. Len(received) = 1 /\ Len(<< >>) = 0
      BY <1>12 DEF Receive
    <3> QED
      BY ONLY <3>1
  <2>2. /\ received' = Tail(received) /\ received' \in Seq(Packets)
        /\ arrived' = Append(arrived, Head(received)) /\ arrived' \in Seq(Packets)
        /\ Len(received') = 0
    BY <1>12, <2>1 DEF Receive, Leaves
  <2>3. /\ router' \in {"Loop", "SendMark", "Ended"}
        /\ queued' \in Nat
        /\ queued' > 0 => queued > 0 \/ ~signalled
        /\ UNCHANGED <<signalled, outside, block, toRouter, toOutside>>
    BY <1>12 DEF Receive, FilteredOut, SendOn, Enqueue, Unexpected
  <2> QED
    BY <1>12, <2>2, <2>3 DEF Receive
<1>13. CASE Start
  BY <1>13 DEF Start
<1>14. CASE Attached
  BY <1>14 DEF Attached
<1>15. CASE Register
  BY <1>15 DEF Register
<1>16. CASE Announce
  BY <1>16 DEF Announce, TellRouter
<1>17. CASE Read
  BY <1>17 DEF Read
<1>18. CASE Mark
  <2>1. passed' = Append(passed, in) /\ passed' \in Seq(Packets) /\ buff' = in
    BY <1>18 DEF Mark
  <2> QED
    BY <1>18, <2>1 DEF Mark
<1>19. CASE Tell
  BY <1>19 DEF Tell, TellRouter
<1>20. CASE OnReceiveSignal
  BY <1>20 DEF OnReceiveSignal
<1>21. CASE OnSendSignal
  BY <1>21 DEF OnSendSignal
<1>22. CASE Deliver
  BY <1>22 DEF Deliver
<1>23. CASE DeliverTell
  BY <1>23 DEF DeliverTell, TellRouter
<1>24. CASE Crash
  BY <1>24 DEF Crash
<1>25. CASE UNCHANGED vars
  BY <1>25 DEF vars
<1> QED
  BY <1>1, <1>2, <1>3, <1>4, <1>5, <1>6, <1>7, <1>8, <1>9, <1>10, <1>11, <1>12, <1>13,
     <1>14, <1>15, <1>16, <1>17, <1>18, <1>19, <1>20, <1>21, <1>22, <1>23, <1>24, <1>25
  DEF Next, RouterStep, MainStep, HandlerStep

\* While nobody crashes, the buffer has one user at a time and loses nothing.
LEMMA HandshakeStep ==
  ASSUME RouterInv, crashes' = 0, [Next]_vars
  PROVE  (InTurn /\ NothingLost)'
<1> USE DEF RouterInv, RouterTypeOK, OneOnItsWay, Registered, Handshake, InTurn, Unread,
            NothingLost, routing, outside, block
<1>1. CASE Forward
  BY <1>1 DEF Forward, SendOn, Enqueue
<1>2. CASE Hold
  BY <1>2 DEF Hold
<1>3. CASE SendMark
  BY <1>3 DEF SendMark
<1>4. CASE SendTell
  BY <1>4 DEF SendTell, TellOutside
<1>5. CASE OnSendInterrupt
  BY <1>5 DEF OnSendInterrupt
<1>6. CASE DrainMark
  BY <1>6 DEF DrainMark
<1>7. CASE DrainTell
  BY <1>7 DEF DrainTell, TellOutside
<1>8. CASE OnReceiveInterrupt
  BY <1>8 DEF OnReceiveInterrupt
<1>9. CASE TakeFails
  BY <1>9 DEF TakeFails
<1>10. CASE Take
  <2>1. arrived \o Append(received, buff) = Append(arrived \o received, buff)
    BY AppendRest
  <2>2. /\ received' = Append(received, buff) /\ router = "Take" /\ router' = "TakeTell"
        /\ UNCHANGED <<arrived, out, outside, block, toRouter, toOutside>>
    BY <1>10 DEF Take
  <2>3. Unread /\ ~Unread'
    BY <2>2
  <2>4. InTurn'
    BY <2>2
  <2>5. passed' = arrived' \o received'
    BY <2>1, <2>2, <2>3
  <2> QED
    BY <2>3, <2>4, <2>5
<1>11. CASE TakeTell
  BY <1>11 DEF TakeTell, TellOutside
<1>12. CASE Receive
  <2>1. received # << >>
    <3>1. Len(received) = 1 /\ Len(<< >>) = 0
      BY <1>12 DEF Receive
    <3> QED
      BY ONLY <3>1
  <2>2. arrived' \o received' = arrived \o received
    BY <1>12, <2>1, HeadMoves DEF Receive, Leaves
  <2>3. router' \notin {"Take", "TakeTell"} /\ UNCHANGED <<outside, block, toRouter, toOutside>>
    BY <1>12 DEF Receive, FilteredOut, SendOn, Unexpected
  <2> QED
    BY <1>12, <2>2, <2>3 DEF Receive
<1>13. CASE Start
  BY <1>13 DEF Start
<1>14. CASE Attached
  BY <1>14 DEF Attached
<1>15. CASE Register
  BY <1>15 DEF Register
<1>16. CASE Announce
  BY <1>16 DEF Announce, TellRouter
<1>17. CASE Read
  BY <1>17 DEF Read
<1>18. CASE Mark
  BY <1>18 DEF Mark
<1>19. CASE Tell
  BY <1>19 DEF Tell, TellRouter
<1>20. CASE OnReceiveSignal
  BY <1>20 DEF OnReceiveSignal
<1>21. CASE OnSendSignal
  BY <1>21 DEF OnSendSignal
<1>22. CASE Deliver
  BY <1>22 DEF Deliver
<1>23. CASE DeliverTell
  BY <1>23 DEF DeliverTell, TellRouter
<1>24. CASE Crash
  BY <1>24 DEF Crash
<1>25. CASE UNCHANGED vars
  BY <1>25 DEF vars
<1> QED
  BY <1>1, <1>2, <1>3, <1>4, <1>5, <1>6, <1>7, <1>8, <1>9, <1>10, <1>11, <1>12, <1>13,
     <1>14, <1>15, <1>16, <1>17, <1>18, <1>19, <1>20, <1>21, <1>22, <1>23, <1>24, <1>25
  DEF Next, RouterStep, MainStep, HandlerStep

\* The invariant holds in every state the router and the outside reach.
LEMMA RouterInvHolds == Spec => []RouterInv
<1>1. Init => RouterInv
  <2> SUFFICES ASSUME Init PROVE RouterInv
    OBVIOUS
  <2>1. << >> \in Seq(Packets) /\ << >> \o << >> = << >> /\ Len(<< >>) = 0 /\ 0 \in Packets
    BY DEF Packets
  <2>2. OneOnItsWay /\ Handshake
    BY <2>1 DEF Init, Opened, Shared, OneOnItsWay, Handshake, InTurn, NothingLost, Unread
  <2>3. RouterTypeOK
    BY <2>1 DEF Init, Opened, Shared, RouterTypeOK
  <2> QED
    BY <2>2, <2>3 DEF Init, Opened, Shared, RouterInv, Registered, Awaited, Prompted
<1>2. RouterInv /\ [Next]_vars => RouterInv'
  <2> SUFFICES ASSUME RouterInv, [Next]_vars
               PROVE  RouterInv'
    OBVIOUS
  <2>1. (RouterTypeOK /\ Registered /\ OneOnItsWay /\ Awaited)'
    BY AwaitedStep DEF RouterInv
  <2>2. crashes' = 0 => (InTurn /\ NothingLost)'
    BY HandshakeStep
  <2> QED
    BY <2>1, <2>2 DEF RouterInv, Handshake
<1> QED
  BY <1>1, <1>2, PTL DEF Spec

\* What the router takes out of the shared block (IpIfaceShmOnReceiveInterrupt)
\* is what the outside put in (sendPacket), in that order and
\* at most one packet behind, as long as the outside process does not die.
THEOREM RouterReceivesAsPassed == Spec => []ReceivedAsPassed
<1>1. RouterInv => ReceivedAsPassed
  <2> DEFINE taken == arrived \o received
  <2> SUFFICES ASSUME RouterInv, crashes = 0
               PROVE  /\ Len(taken) <= Len(passed) /\ Len(passed) <= Len(taken) + 1
                      /\ taken = SubSeq(passed, 1, Len(taken))
    BY DEF ReceivedAsPassed
  <2>1. taken \in Seq(Packets) /\ buff \in Packets /\ Len(taken) \in Nat
    BY DEF RouterInv, RouterTypeOK
  <2>2. passed = taken \/ passed = Append(taken, buff)
    BY DEF RouterInv, Handshake, NothingLost
  <2> HIDE DEF taken
  <2> QED
    BY <2>1, <2>2, AllOfAppend
<1> QED
  BY <1>1, RouterInvHolds, PTL

\* When the outside is up and no signal is under way, nothing is queued for it:
\* no signal that would have drained the queue is lost, however signals
\* coalesce and the outside restarts (IpIfaceShmOnSendInterrupt, main).
THEOREM RouterQuietMeansDrained == Spec => []QuietMeansDrained
<1>1. RouterInv => QuietMeansDrained
  BY DEF RouterInv, RouterTypeOK, Awaited, Prompted, QuietMeansDrained, Up
<1> QED
  BY <1>1, RouterInvHolds, PTL
=============================================================================
