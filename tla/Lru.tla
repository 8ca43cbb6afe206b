--------------------------------- MODULE Lru ---------------------------------
(***************************************************************************)
(* democache's lru[V] (lru.go) as operators on a sequence of [key, val]     *)
(* records, the front of the list first.  Every method holds l.mu from its  *)
(* first statement to its return, so each is one atomic operation.          *)
(***************************************************************************)
EXTENDS Naturals, Sequences

Entry(k, v) == [key |-> k, val |-> v]

Holds(q, k) == \E i \in 1..Len(q) : q[i].key = k

Position(q, k) == CHOOSE i \in 1..Len(q) : q[i].key = k

\* list.PushFront
PushFront(q, k, v) == <<Entry(k, v)>> \o q

\* get's value: the caller checks Holds (the code returns V's zero value).
Value(q, k) == q[Position(q, k)].val

\* delete
Delete(q, k) ==
    IF Holds(q, k)
    THEN LET p == Position(q, k)
         IN  SubSeq(q, 1, p - 1) \o SubSeq(q, p + 1, Len(q))
    ELSE q

\* get's effect: the entry moves to the front.
Touched(q, k) ==
    IF Holds(q, k) THEN PushFront(Delete(q, k), k, Value(q, k)) ELSE q

\* Wrong: one entry more than the capacity stays.
PutOneMore(q, k, v, capacity) ==
    LET n == PushFront(Delete(q, k), k, v)
    IN  IF Len(n) > capacity + 1 THEN SubSeq(n, 1, capacity + 1) ELSE n

\* put: to the front with the new value; past the capacity, entries leave from
\* the back.
Put(q, k, v, capacity) ==
    LET n == PushFront(Delete(q, k), k, v)
    IN  IF Len(n) > capacity THEN SubSeq(n, 1, capacity) ELSE n

\* What list and index keep together: no key twice, never past the capacity.
WellFormed(q, capacity) ==
    /\ Len(q) <= capacity
    /\ \A i, j \in 1..Len(q) : q[i].key = q[j].key => i = j
=============================================================================
