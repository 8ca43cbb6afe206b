------------------------------ MODULE LruProofs ------------------------------
(***************************************************************************)
(* What the operations of the LRU (lru.go) return, for lists of any length  *)
(* and any capacity.                                                       *)
(***************************************************************************)
EXTENDS Lru, SequenceTheorems, TLAPS

Item(K, V) == [key : K, val : V]

\* Every element of p is e or an element of q.
FromOr(p, q, e) ==
    \A i \in 1..Len(p) : p[i] = e \/ \E j \in 1..Len(q) : p[i] = q[j]

LEMMA PositionHolds ==
    ASSUME NEW q, NEW k, Holds(q, k)
    PROVE  Position(q, k) \in 1..Len(q) /\ q[Position(q, k)].key = k
BY DEF Holds, Position

LEMMA DeleteProperties ==
    ASSUME NEW K, NEW V, NEW q \in Seq(Item(K, V)), NEW k
    PROVE  /\ Delete(q, k) \in Seq(Item(K, V))
           /\ Len(Delete(q, k)) = IF Holds(q, k) THEN Len(q) - 1 ELSE Len(q)
           /\ \A i \in 1..Len(Delete(q, k)) :
                 Delete(q, k)[i] = IF Holds(q, k) /\ i >= Position(q, k) THEN q[i + 1] ELSE q[i]
<1>1. CASE ~Holds(q, k)
  BY <1>1 DEF Delete
<1>2. CASE Holds(q, k)
  <2> DEFINE p == Position(q, k)
             a == SubSeq(q, 1, p - 1)
             b == SubSeq(q, p + 1, Len(q))
  <2>1. p \in 1..Len(q) /\ Len(q) \in Nat
    BY <1>2, PositionHolds
  <2>2. \A i \in 1..Len(q) : q[i] \in Item(K, V)
    OBVIOUS
  <2> HIDE DEF p
  <2>3. /\ a \in Seq(Item(K, V))
        /\ Len(a) = p - 1
        /\ \A i \in 1..(p - 1) : a[i] = q[i]
    <3>1. \A i \in 1..(p - 1) : q[i] \in Item(K, V)
      BY <2>1, <2>2
    <3>2. 1 \in Int /\ p - 1 \in Int
      BY <2>1
    <3>3. /\ a \in Seq(Item(K, V))
          /\ Len(a) = IF 1 <= p - 1 THEN (p - 1) - 1 + 1 ELSE 0
          /\ \A i \in 1..((p - 1) - 1 + 1) : a[i] = q[1 + i - 1]
      BY <3>1, <3>2, SubSeqProperties
    <3>4. QED
      BY <3>3, <2>1
  <2>4. /\ b \in Seq(Item(K, V))
        /\ Len(b) = Len(q) - p
        /\ \A i \in 1..(Len(q) - p) : b[i] = q[p + i]
    <3>1. \A i \in (p + 1)..Len(q) : q[i] \in Item(K, V)
      BY <2>1, <2>2
    <3>2. p + 1 \in Int /\ Len(q) \in Int
      BY <2>1
    <3>3. /\ b \in Seq(Item(K, V))
          /\ Len(b) = IF p + 1 <= Len(q) THEN Len(q) - (p + 1) + 1 ELSE 0
          /\ \A i \in 1..(Len(q) - (p + 1) + 1) : b[i] = q[p + 1 + i - 1]
      BY <3>1, <3>2, SubSeqProperties
    <3>4. QED
      BY <3>3, <2>1
  <2>5. Delete(q, k) = a \o b
    BY <1>2 DEF Delete, p
  <2> HIDE DEF a, b
  <2>6. /\ a \o b \in Seq(Item(K, V))
        /\ Len(a \o b) = Len(a) + Len(b)
        /\ \A i \in 1..(Len(a) + Len(b)) :
              (a \o b)[i] = IF i <= Len(a) THEN a[i] ELSE b[i - Len(a)]
    BY <2>3, <2>4, ConcatProperties
  <2>7. \A i \in 1..(Len(q) - 1) : (a \o b)[i] = IF i >= p THEN q[i + 1] ELSE q[i]
    <3> SUFFICES ASSUME NEW i \in 1..(Len(q) - 1)
                 PROVE  (a \o b)[i] = IF i >= p THEN q[i + 1] ELSE q[i]
      OBVIOUS
    <3>1. CASE i < p
      BY <2>1, <2>3, <2>4, <2>6, <3>1
    <3>2. CASE i >= p
      <4>1. i - (p - 1) \in 1..(Len(q) - p) /\ ~(i <= p - 1)
        BY <2>1, <3>2
      <4>2. (a \o b)[i] = b[i - (p - 1)]
        BY <2>1, <2>3, <2>4, <2>6, <4>1
      <4>3. b[i - (p - 1)] = q[p + (i - (p - 1))]
        BY <2>4, <4>1
      <4>4. p + (i - (p - 1)) = i + 1
        BY <2>1
      <4>5. QED
        BY <3>2, <4>2, <4>3, <4>4
    <3>3. i < p \/ i >= p
      BY <2>1
    <3>4. QED
      BY <3>1, <3>2, <3>3
  <2>8. QED
    BY <1>2, <2>1, <2>3, <2>4, <2>5, <2>6, <2>7 DEF p
<1>3. QED
  BY <1>1, <1>2

\* delete drops the key: no entry of it is left, and no other entry is lost.
THEOREM DeleteForgets ==
    ASSUME NEW K, NEW V, NEW q \in Seq(Item(K, V)), NEW k, NEW c \in Nat, WellFormed(q, c)
    PROVE  /\ WellFormed(Delete(q, k), c)
           /\ ~Holds(Delete(q, k), k)
           /\ \A x : x # k => (Holds(Delete(q, k), x) <=> Holds(q, x))
<1> DEFINE d == Delete(q, k)
           p == Position(q, k)
<1>1. /\ Len(d) = IF Holds(q, k) THEN Len(q) - 1 ELSE Len(q)
      /\ \A i \in 1..Len(d) :
            d[i] = IF Holds(q, k) /\ i >= p THEN q[i + 1] ELSE q[i]
  BY DeleteProperties
<1>2. Len(q) \in Nat /\ Len(q) <= c /\ \A i, j \in 1..Len(q) : q[i].key = q[j].key => i = j
  BY DEF WellFormed
<1>3. Holds(q, k) => p \in 1..Len(q) /\ q[p].key = k
  BY PositionHolds
<1> HIDE DEF d, p
<1>4. Len(d) <= c
  BY <1>1, <1>2
<1>5. ASSUME NEW i \in 1..Len(d), NEW j \in 1..Len(d), d[i].key = d[j].key PROVE i = j
  <2>1. CASE ~Holds(q, k)
    BY <1>1, <1>2, <1>5, <2>1
  <2>2. CASE Holds(q, k)
    <3> DEFINE up(n) == IF n >= p THEN n + 1 ELSE n
    <3>1. up(i) \in 1..Len(q) /\ up(j) \in 1..Len(q)
      BY <1>1, <1>2, <1>3, <2>2
    <3>2. d[i] = q[up(i)] /\ d[j] = q[up(j)]
      BY <1>1, <2>2
    <3>3. up(i) = up(j)
      BY <1>2, <1>5, <3>1, <3>2
    <3>4. QED
      BY <1>2, <1>3, <2>2, <3>3
  <2>3. QED
    BY <2>1, <2>2
<1>6. ~Holds(d, k)
  <2> SUFFICES ASSUME NEW i \in 1..Len(d), d[i].key = k PROVE FALSE
    BY DEF Holds
  <2>1. CASE ~Holds(q, k)
    BY <1>1, <2>1 DEF Holds
  <2>2. CASE Holds(q, k) /\ i >= p
    BY <1>1, <1>2, <1>3, <2>2
  <2>3. CASE Holds(q, k) /\ ~(i >= p)
    BY <1>1, <1>2, <1>3, <2>3
  <2>4. QED
    BY <2>1, <2>2, <2>3
<1>7. ASSUME NEW x, x # k PROVE Holds(d, x) <=> Holds(q, x)
  <2>1. CASE ~Holds(q, k)
    BY <1>1, <2>1 DEF Holds
  <2>2. ASSUME Holds(q, k), Holds(d, x) PROVE Holds(q, x)
    <3>1. PICK i \in 1..Len(d) : d[i].key = x
      BY <2>2 DEF Holds
    <3>2. i \in 1..Len(q) /\ i + 1 \in 1..Len(q)
      BY <1>1, <1>2, <2>2
    <3>3. QED
      BY <1>1, <2>2, <3>1, <3>2 DEF Holds
  <2>3. ASSUME Holds(q, k), Holds(q, x) PROVE Holds(d, x)
    <3>1. PICK j \in 1..Len(q) : q[j].key = x
      BY <2>3 DEF Holds
    <3>2. j # p
      BY <1>3, <1>7, <2>3, <3>1
    <3>3. CASE j < p
      <4>1. j \in 1..Len(d) /\ ~(j >= p)
        BY <1>1, <1>2, <1>3, <2>3, <3>3
      <4>2. QED
        BY <1>1, <3>1, <4>1 DEF Holds
    <3>4. CASE j > p
      <4>1. j - 1 \in 1..Len(d) /\ j - 1 >= p /\ (j - 1) + 1 = j
        BY <1>1, <1>2, <1>3, <2>3, <3>4
      <4>2. d[j - 1] = q[j]
        BY <1>1, <2>3, <4>1
      <4>3. QED
        BY <3>1, <4>1, <4>2 DEF Holds
    <3>5. QED
      BY <1>2, <1>3, <2>3, <3>2, <3>3, <3>4
  <2>4. QED
    BY <2>1, <2>2, <2>3
<1>8. QED
  BY <1>4, <1>5, <1>6, <1>7 DEF WellFormed, d

LEMMA FrontProperties ==
    ASSUME NEW K, NEW V, NEW d \in Seq(Item(K, V)), NEW k \in K, NEW v \in V
    PROVE  /\ PushFront(d, k, v) \in Seq(Item(K, V))
           /\ Len(PushFront(d, k, v)) = Len(d) + 1
           /\ PushFront(d, k, v)[1] = Entry(k, v)
           /\ \A i \in 2..(Len(d) + 1) : PushFront(d, k, v)[i] = d[i - 1]
<1> DEFINE h == <<Entry(k, v)>>
<1>1. Entry(k, v) \in Item(K, V)
  BY DEF Entry, Item
<1>2. h \in Seq(Item(K, V)) /\ Len(h) = 1 /\ h[1] = Entry(k, v)
  BY <1>1
<1>3. PushFront(d, k, v) = h \o d
  BY DEF PushFront
<1> HIDE DEF h
<1>4. /\ h \o d \in Seq(Item(K, V))
      /\ Len(h \o d) = Len(h) + Len(d)
      /\ \A i \in 1..(Len(h) + Len(d)) :
            (h \o d)[i] = IF i <= Len(h) THEN h[i] ELSE d[i - Len(h)]
  BY <1>2, ConcatProperties
<1>5. Len(d) \in Nat
  OBVIOUS
<1>6. QED
  BY <1>2, <1>3, <1>4, <1>5

\* The elements Delete leaves were all there before.
LEMMA DeleteFrom ==
    ASSUME NEW K, NEW V, NEW q \in Seq(Item(K, V)), NEW k,
           NEW i \in 1..Len(Delete(q, k))
    PROVE  \E j \in 1..Len(q) : Delete(q, k)[i] = q[j]
<1>1. CASE Holds(q, k)
  <2>1. Len(q) \in Nat /\ Position(q, k) \in 1..Len(q)
    BY <1>1, PositionHolds
  <2>2. i \in 1..Len(q) /\ i + 1 \in 1..Len(q)
    BY <1>1, <2>1, DeleteProperties
  <2>3. Delete(q, k)[i] = q[i] \/ Delete(q, k)[i] = q[i + 1]
    BY DeleteProperties
  <2>4. QED
    BY <2>2, <2>3
<1>2. CASE ~Holds(q, k)
  BY <1>2 DEF Delete
<1>3. QED
  BY <1>1, <1>2

\* put makes a list of the same type, from its entry and the ones it had.
LEMMA PutProperties ==
    ASSUME NEW K, NEW V, NEW q \in Seq(Item(K, V)), NEW k \in K, NEW v \in V,
           NEW c \in Nat \ {0}
    PROVE  /\ Put(q, k, v, c) \in Seq(Item(K, V))
           /\ FromOr(Put(q, k, v, c), q, Entry(k, v))
           /\ Len(Put(q, k, v, c)) \in 1..c
           /\ Put(q, k, v, c)[1] = Entry(k, v)
           /\ \A i \in 2..Len(Put(q, k, v, c)) :
                 i - 1 \in 1..Len(Delete(q, k)) /\ Put(q, k, v, c)[i] = Delete(q, k)[i - 1]
<1> DEFINE d == Delete(q, k)
           e == Entry(k, v)
           n == PushFront(d, k, v)
           r == Put(q, k, v, c)
<1>1. d \in Seq(Item(K, V)) /\ Len(d) \in Nat
  BY DeleteProperties
<1> HIDE DEF d
<1>2. /\ n \in Seq(Item(K, V))
      /\ Len(n) = Len(d) + 1
      /\ n[1] = e
      /\ \A i \in 2..(Len(d) + 1) : n[i] = d[i - 1]
  BY <1>1, FrontProperties
<1>3. r = IF Len(n) > c THEN SubSeq(n, 1, c) ELSE n
  BY DEF Put, d
<1>4. \A j \in 1..Len(d) : \E i \in 1..Len(q) : d[j] = q[i]
  BY DeleteFrom DEF d
<1> HIDE DEF n, r
<1>5. /\ r \in Seq(Item(K, V))
      /\ Len(r) = IF Len(n) > c THEN c ELSE Len(n)
      /\ \A i \in 1..Len(r) : r[i] = n[i]
  <2>1. CASE Len(n) > c
    <3>1. 1 \in Int /\ c \in Int /\ \A i \in 1..c : n[i] \in Item(K, V)
      BY <1>1, <1>2, <2>1
    <3>2. /\ r \in Seq(Item(K, V))
          /\ Len(r) = IF 1 <= c THEN c - 1 + 1 ELSE 0
          /\ \A i \in 1..(c - 1 + 1) : r[i] = n[1 + i - 1]
      BY <1>3, <2>1, <3>1, SubSeqProperties
    <3>3. c - 1 + 1 = c /\ 1 <= c /\ \A i \in 1..c : 1 + i - 1 = i
      OBVIOUS
    <3>4. QED
      BY <2>1, <3>2, <3>3
  <2>2. CASE ~(Len(n) > c)
    BY <1>2, <1>3, <2>2
  <2>3. QED
    BY <2>1, <2>2
<1>6. Len(r) \in 1..c /\ Len(r) <= Len(d) + 1
  BY <1>1, <1>2, <1>5
<1>7. r[1] = e
  BY <1>2, <1>5, <1>6
<1>8. \A i \in 2..Len(r) : i - 1 \in 1..Len(d) /\ r[i] = d[i - 1]
  BY <1>1, <1>2, <1>5, <1>6
<1>9. FromOr(r, q, e)
  <2> SUFFICES ASSUME NEW i \in 1..Len(r)
               PROVE  r[i] = e \/ \E j \in 1..Len(q) : r[i] = q[j]
    BY DEF FromOr
  <2>1. i = 1 \/ i \in 2..Len(r)
    BY <1>6
  <2>2. QED
    BY <1>4, <1>7, <1>8, <2>1
<1>10. QED
  BY <1>5, <1>6, <1>7, <1>8, <1>9 DEF r, d

\* put keeps the list and its index together: the bound holds, no key is held
\* twice, and the key just put is held with its new value.
THEOREM PutKeepsWellFormed ==
    ASSUME NEW K, NEW V, NEW q \in Seq(Item(K, V)), NEW k \in K, NEW v \in V,
           NEW c \in Nat \ {0}, WellFormed(q, c)
    PROVE  /\ WellFormed(Put(q, k, v, c), c)
           /\ Holds(Put(q, k, v, c), k)
           /\ Value(Put(q, k, v, c), k) = v
<1> DEFINE d == Delete(q, k)
           r == Put(q, k, v, c)
<1>1. ~Holds(d, k) /\ WellFormed(d, c)
  BY DeleteForgets
<1>2. /\ Len(r) \in 1..c
      /\ r[1] = Entry(k, v)
      /\ \A i \in 2..Len(r) : i - 1 \in 1..Len(d) /\ r[i] = d[i - 1]
  BY PutProperties
<1> HIDE DEF d, r
<1>3. r[1].key = k /\ r[1].val = v /\ 1 \in 1..Len(r)
  BY <1>2 DEF Entry
<1>4. \A i \in 2..Len(r) : r[i].key # k
  BY <1>1, <1>2 DEF Holds
<1>5. WellFormed(r, c)
  <2>1. ASSUME NEW i \in 1..Len(r), NEW j \in 1..Len(r), r[i].key = r[j].key
        PROVE  i = j
    <3>1. CASE i = 1 \/ j = 1
      <4>1. i \in 2..Len(r) \/ i = 1
        BY <1>2
      <4>2. j \in 2..Len(r) \/ j = 1
        BY <1>2
      <4>3. QED
        BY <1>3, <1>4, <2>1, <3>1, <4>1, <4>2
    <3>2. CASE i # 1 /\ j # 1
      <4>1. i \in 2..Len(r) /\ j \in 2..Len(r)
        BY <1>2, <3>2
      <4>2. d[i - 1].key = d[j - 1].key /\ i - 1 \in 1..Len(d) /\ j - 1 \in 1..Len(d)
        BY <1>2, <2>1, <4>1
      <4>3. i - 1 = j - 1
        BY <1>1, <4>2 DEF WellFormed
      <4>4. QED
        BY <1>2, <4>1, <4>3
    <3>3. QED
      BY <3>1, <3>2
  <2>2. QED
    BY <1>2, <2>1 DEF WellFormed
<1>6. Holds(r, k)
  BY <1>3 DEF Holds
<1>7. Value(r, k) = v
  <2>1. Position(r, k) \in 1..Len(r) /\ r[Position(r, k)].key = k
    BY <1>6, PositionHolds
  <2>2. Position(r, k) = 1
    BY <1>3, <1>5, <2>1 DEF WellFormed
  <2>3. QED
    BY <1>3, <2>2 DEF Value
<1>8. QED
  BY <1>5, <1>6, <1>7 DEF r

\* get's move to the front makes a list of the same type and keys.
LEMMA TouchedProperties ==
    ASSUME NEW K, NEW V, NEW q \in Seq(Item(K, V)), NEW k \in K, NEW c \in Nat \ {0},
           WellFormed(q, c)
    PROVE  /\ Touched(q, k) \in Seq(Item(K, V))
           /\ WellFormed(Touched(q, k), c)
           /\ \A e : FromOr(Touched(q, k), q, e)
<1>1. CASE ~Holds(q, k)
  BY <1>1 DEF Touched, FromOr
<1>2. CASE Holds(q, k)
  <2> DEFINE p == Position(q, k)
             v == Value(q, k)
             d == Delete(q, k)
  <2>1. p \in 1..Len(q) /\ q[p].key = k /\ v = q[p].val
    BY <1>2, PositionHolds DEF Value
  <2>2. q[p] \in Item(K, V)
    BY <2>1
  <2>3. v \in V /\ q[p] = Entry(k, v)
    BY <2>1, <2>2 DEF Item, Entry
  <2>4. Len(d) = Len(q) - 1 /\ Len(q) \in Nat /\ Len(q) <= c
    BY <1>2, DeleteProperties DEF WellFormed
  <2>5. Touched(q, k) = Put(q, k, v, c)
    <3>1. d \in Seq(Item(K, V))
      BY DeleteProperties
    <3>2. Len(PushFront(d, k, v)) = Len(d) + 1
      BY <2>3, <3>1, FrontProperties
    <3>3. ~(Len(PushFront(d, k, v)) > c)
      BY <2>4, <3>2
    <3>4. QED
      BY <1>2, <3>3 DEF Touched, Put
  <2>6. /\ Put(q, k, v, c) \in Seq(Item(K, V))
        /\ WellFormed(Put(q, k, v, c), c)
        /\ FromOr(Put(q, k, v, c), q, Entry(k, v))
    BY <2>3, PutProperties, PutKeepsWellFormed
  <2>7. ASSUME NEW e PROVE FromOr(Touched(q, k), q, e)
    BY <2>1, <2>3, <2>5, <2>6 DEF FromOr
  <2>8. QED
    BY <2>5, <2>6, <2>7
<1>3. QED
  BY <1>1, <1>2

-----------------------------------------------------------------------------
(* Which entries stay *)

\* put drops what does not fit, and nothing else.
LEMMA PutLength ==
    ASSUME NEW K, NEW V, NEW q \in Seq(Item(K, V)), NEW k \in K, NEW v \in V,
           NEW c \in Nat \ {0}
    PROVE  /\ Len(Delete(q, k)) + 1 > c => Len(Put(q, k, v, c)) = c
           /\ Len(Delete(q, k)) + 1 <= c => Len(Put(q, k, v, c)) = Len(Delete(q, k)) + 1
<1> DEFINE d == Delete(q, k)
           n == PushFront(d, k, v)
<1>1. d \in Seq(Item(K, V)) /\ Len(d) \in Nat
  BY DeleteProperties
<1>2. n \in Seq(Item(K, V)) /\ Len(n) = Len(d) + 1
  BY <1>1, FrontProperties
<1>3. Put(q, k, v, c) = IF Len(n) > c THEN SubSeq(n, 1, c) ELSE n
  BY DEF Put
<1> HIDE DEF d, n
<1>4. CASE Len(n) > c
  <2>1. 1 \in Int /\ c \in Int /\ \A i \in 1..c : n[i] \in Item(K, V)
    BY <1>1, <1>2, <1>4
  <2>2. Len(SubSeq(n, 1, c)) = c
    BY <2>1, SubSeqProperties
  <2> QED
    BY <1>1, <1>2, <1>3, <1>4, <2>2 DEF d
<1>5. CASE ~(Len(n) > c)
  BY <1>1, <1>2, <1>3, <1>5 DEF d
<1> QED
  BY <1>4, <1>5

\* In a list that holds no key twice, a key's value is that of its entry.
LEMMA ValueAt ==
    ASSUME NEW q, NEW c, WellFormed(q, c), NEW i \in 1..Len(q)
    PROVE  Value(q, q[i].key) = q[i].val
<1>1. Holds(q, q[i].key)
  BY DEF Holds
<1>2. Position(q, q[i].key) = i
  BY <1>1, PositionHolds DEF WellFormed
<1> QED
  BY <1>2 DEF Value

\* put evicts the least recently used entry, and only when a new key needs its
\* place; every other entry stays, with the value it had.
THEOREM PutEvictsOldest ==
    ASSUME NEW K, NEW V, NEW q \in Seq(Item(K, V)), NEW k \in K, NEW v \in V,
           NEW c \in Nat \ {0}, WellFormed(q, c), NEW x, x # k
    PROVE  /\ Holds(Put(q, k, v, c), x)
                <=> Holds(q, x) /\ ~(~Holds(q, k) /\ Len(q) = c /\ q[c].key = x)
           /\ Holds(Put(q, k, v, c), x) => Value(Put(q, k, v, c), x) = Value(q, x)
<1> DEFINE d == Delete(q, k)
           r == Put(q, k, v, c)
<1>1. Len(q) \in Nat /\ Len(q) <= c /\ \A i, j \in 1..Len(q) : q[i].key = q[j].key => i = j
  BY DEF WellFormed
<1>b. /\ Len(d) + 1 > c => Len(r) = c
      /\ Len(d) + 1 <= c => Len(r) = Len(d) + 1
  BY PutLength
<1>2. /\ r[1] = Entry(k, v)
      /\ \A i \in 2..Len(r) : i - 1 \in 1..Len(d) /\ r[i] = d[i - 1]
      /\ FromOr(r, q, Entry(k, v))
  BY PutProperties
<1>a. WellFormed(r, c)
  BY PutKeepsWellFormed
<1>3. /\ Len(d) = IF Holds(q, k) THEN Len(q) - 1 ELSE Len(q)
      /\ Holds(d, x) <=> Holds(q, x)
  BY DeleteProperties, DeleteForgets
<1>4. ~Holds(q, k) => d = q
  BY DEF Delete
<1> HIDE DEF d, r
<1>5. r[1].key # x
  BY <1>2 DEF Entry
<1>6. Holds(r, x) <=> \E j \in 1..(Len(r) - 1) : d[j].key = x
  <2>1. Len(r) \in Nat /\ Len(r) >= 1
    BY <1>1, <1>b, <1>3
  <2>2. ASSUME Holds(r, x) PROVE \E j \in 1..(Len(r) - 1) : d[j].key = x
    <3>1. PICK i \in 1..Len(r) : r[i].key = x
      BY <2>2 DEF Holds
    <3>2. i \in 2..Len(r)
      BY <1>5, <2>1, <3>1
    <3>3. i - 1 \in 1..(Len(r) - 1) /\ d[i - 1].key = x
      BY <1>2, <2>1, <3>1, <3>2
    <3> QED
      BY <3>3
  <2>3. ASSUME NEW j \in 1..(Len(r) - 1), d[j].key = x PROVE Holds(r, x)
    <3>1. j + 1 \in 2..Len(r) /\ (j + 1) - 1 = j
      BY <2>1
    <3>2. r[j + 1].key = x /\ j + 1 \in 1..Len(r)
      BY <1>2, <2>1, <2>3, <3>1
    <3> QED
      BY <3>2 DEF Holds
  <2> QED
    BY <2>2, <2>3
<1>7. CASE Holds(q, k) \/ Len(q) < c
  <2>1. Len(r) - 1 = Len(d)
    BY <1>1, <1>b, <1>3, <1>7
  <2> QED
    <3>1. Holds(r, x) <=> Holds(q, x)
      BY <1>3, <1>6, <2>1 DEF Holds
    <3>2. ASSUME Holds(r, x) PROVE Value(r, x) = Value(q, x)
      <4>1. PICK i \in 1..Len(r) : r[i].key = x
        BY <3>2 DEF Holds
      <4>2. PICK j \in 1..Len(q) : r[i] = q[j]
        BY <1>2, <4>1 DEF FromOr, Entry
      <4> QED
        BY <1>a, <4>1, <4>2, ValueAt
    <3> QED
      BY <1>1, <1>7, <3>1, <3>2 DEF r
<1>8. CASE ~Holds(q, k) /\ Len(q) = c
  <2>1. Len(r) - 1 = c - 1
    BY <1>1, <1>b, <1>3, <1>8
  <2>2. Holds(r, x) <=> \E j \in 1..(c - 1) : q[j].key = x
    BY <1>4, <1>6, <1>8, <2>1
  <2>3. (\E j \in 1..(c - 1) : q[j].key = x) <=> Holds(q, x) /\ q[c].key # x
    <3>1. \A j \in 1..(c - 1) : j \in 1..Len(q) /\ j # c /\ q[j].key # q[c].key
      BY <1>1, <1>8
    <3>2. \A j \in 1..Len(q) : j = c \/ j \in 1..(c - 1)
      BY <1>8
    <3> QED
      BY <3>1, <3>2 DEF Holds
  <2>4. ASSUME Holds(r, x) PROVE Value(r, x) = Value(q, x)
    <3>1. PICK i \in 1..Len(r) : r[i].key = x
      BY <2>4 DEF Holds
    <3>2. PICK j \in 1..Len(q) : r[i] = q[j]
      BY <1>2, <3>1 DEF FromOr, Entry
    <3> QED
      BY <1>a, <3>1, <3>2, ValueAt
  <2> QED
    BY <1>8, <2>2, <2>3, <2>4 DEF r
<1> QED
  BY <1>1, <1>7, <1>8

\* get moves the entry it finds to the front and changes nothing else: it evicts no
\* entry and alters no value, so only puts decide what is forgotten.
THEOREM GetKeepsAll ==
    ASSUME NEW K, NEW V, NEW q \in Seq(Item(K, V)), NEW k \in K, NEW c \in Nat \ {0},
           WellFormed(q, c), NEW x
    PROVE  /\ Holds(Touched(q, k), x) <=> Holds(q, x)
           /\ Holds(q, x) => Value(Touched(q, k), x) = Value(q, x)
           /\ Holds(q, k) => Touched(q, k)[1].key = k
<1>1. CASE ~Holds(q, k)
  BY <1>1 DEF Touched
<1>2. CASE Holds(q, k)
  <2> DEFINE p == Position(q, k)
             v == Value(q, k)
             d == Delete(q, k)
  <2>1. p \in 1..Len(q) /\ q[p].key = k /\ v = q[p].val
    BY <1>2, PositionHolds DEF Value
  <2>2. v \in V
    <3>1. q[p] \in Item(K, V)
      BY <2>1
    <3> QED
      BY <2>1, <3>1 DEF Item
  <2>3. Len(d) = Len(q) - 1 /\ Len(q) \in Nat /\ Len(q) <= c
    BY <1>2, DeleteProperties DEF WellFormed
  <2>4. Touched(q, k) = Put(q, k, v, c)
    <3>1. d \in Seq(Item(K, V))
      BY DeleteProperties
    <3>2. Len(PushFront(d, k, v)) = Len(d) + 1
      BY <2>2, <3>1, FrontProperties
    <3>3. ~(Len(PushFront(d, k, v)) > c)
      BY <2>3, <3>2
    <3> QED
      BY <1>2, <3>3 DEF Touched, Put
  <2> HIDE DEF v, d, p
  <2>5. Holds(Put(q, k, v, c), k) /\ Value(Put(q, k, v, c), k) = v /\ Put(q, k, v, c)[1].key = k
    <3>1. Holds(Put(q, k, v, c), k) /\ Value(Put(q, k, v, c), k) = v
      BY <2>2, PutKeepsWellFormed
    <3>2. Put(q, k, v, c)[1] = Entry(k, v)
      BY <2>2, PutProperties
    <3> QED
      BY <3>1, <3>2 DEF Entry
  <2>6. CASE x = k
    BY <1>2, <2>4, <2>5, <2>6 DEF v
  <2>7. CASE x # k
    BY <1>2, <2>2, <2>4, <2>5, <2>7, PutEvictsOldest
  <2> QED
    BY <2>6, <2>7
<1> QED
  BY <1>1, <1>2
=============================================================================
