-------------------------------- MODULE Focus --------------------------------
(***************************************************************************)
(* The focus capsule (focus.rs): the bounded working set that gathers the  *)
(* results of several recalls.  An activation is a small number: only the  *)
(* order of activations matters.                                           *)
(***************************************************************************)
EXTENDS Naturals, Sequences, FiniteSets, Sorting

CONSTANTS
  TraceId,
  Score,     \* the activations, numbers
  MaxRecall, \* bound: results of one recall
  Limits     \* the capacities asked for

ASSUME FocusAssumption ==
  /\ Score \subseteq Nat
  /\ MaxRecall \in Nat
  /\ Limits \subseteq Nat

VARIABLES
  capacity,
  items,  \* the capsule, best first
  last    \* history: the results this step absorbed

focusVars == <<capacity, items, last>>

Item == [id : TraceId, activation : Score, pinned : BOOLEAN]

Ids(q) == {q[k].id : k \in DOMAIN q}

\* Results of one recall: each trace at most once.
Recalls ==
  UNION {{r \in [1..n -> [id : TraceId, score : Score]] : Cardinality(Ids(r)) = n} :
           n \in 0..MaxRecall}

-----------------------------------------------------------------------------

Max2(a, b) == IF a >= b THEN a ELSE b

\* The place of trace i among the results.
Place(r, i) == CHOOSE k \in DOMAIN r : r[k].id = i

\* The items that are there take the higher activation.
Merged(q, r) ==
  [k \in DOMAIN q |->
     IF q[k].id \in Ids(r)
     THEN [q[k] EXCEPT !.activation = Max2(@, r[Place(r, q[k].id)].score)]
     ELSE q[k]]

\* The places of the other results, in their order.
Others(q, r) ==
  LET new == {k \in DOMAIN r : r[k].id \notin Ids(q)}
  IN  Arranged(new, {p \in new \X new : p[1] < p[2]})

\* They join behind the items, unpinned.
Joined(q, r) ==
  LET other == Others(q, r)
  IN  Merged(q, r) \o [n \in DOMAIN other |->
                         [id |-> r[other[n]].id, activation |-> r[other[n]].score, pinned |-> FALSE]]

\* Slip: pins do not count in the order.
Before_IgnoresPins(a, b) == a.activation > b.activation

\* The order of the sort: pinned first, then the higher activation.
Before(a, b) ==
  \/ a.pinned /\ ~b.pinned
  \/ a.pinned = b.pinned /\ a.activation > b.activation

\* sort_by is stable: of two items that are alike the earlier one stays first.
Stable(q) ==
  {p \in (DOMAIN q) \X (DOMAIN q) :
     \/ Before(q[p[1]], q[p[2]])
     \/ ~Before(q[p[2]], q[p[1]]) /\ p[1] < p[2]}

\* The place that each item of the sorted capsule had.
OldPlace(q) == Arranged(DOMAIN q, Stable(q))

Sorted(q) ==
  LET place == OldPlace(q)
  IN  [n \in DOMAIN q |-> q[place[n]]]

Pinned(q) == {k \in DOMAIN q : q[k].pinned}

\* truncate: the capacity, or all pinned items if they are more.
Kept(q) == Max2(capacity, Cardinality(Pinned(q)))

-----------------------------------------------------------------------------

\* A capacity of 0 is taken as 1.
FocusInit ==
  /\ \E n \in Limits : capacity = Max2(n, 1)
  /\ items = <<>>
  /\ last = <<>>

Absorb(r) ==
  LET all == Sorted(Joined(items, r)) IN
  /\ items' = SubSeq(all, 1, IF Kept(all) < Len(all) THEN Kept(all) ELSE Len(all))
  /\ last' = r
  /\ UNCHANGED capacity

SetPin(i, on) ==
  /\ i \in Ids(items)
  /\ items' = [k \in DOMAIN items |-> IF items[k].id = i THEN [items[k] EXCEPT !.pinned = on]
                                      ELSE items[k]]
  /\ last' = <<>>
  /\ UNCHANGED capacity

Pin(i)   == SetPin(i, TRUE)
Unpin(i) == SetPin(i, FALSE)

FocusNext ==
  \/ \E r \in Recalls : Absorb(r)
  \/ \E i \in TraceId : Pin(i) \/ Unpin(i)

FocusSpec == FocusInit /\ [][FocusNext]_focusVars

-----------------------------------------------------------------------------
(* Properties *)

\* At most the capacity, and no trace twice.
WithinCapacity ==
  /\ Len(items) <= capacity
  /\ \A j, k \in DOMAIN items : items[j].id = items[k].id => j = k

\* A pinned trace leaves the capsule only after it was unpinned, and no trace
\* loses activation while it stays.
PinsHold ==
  \A k \in DOMAIN items :
    /\ items[k].pinned => items[k].id \in Ids(items')
    /\ \A n \in DOMAIN items' :
         items'[n].id = items[k].id => items'[n].activation >= items[k].activation

\* Of what was in focus or recalled and is not in focus now, nothing is more
\* active than an unpinned trace that stays.
EvictsTheLeastActive ==
  \A n \in DOMAIN items' : ~items'[n].pinned =>
    /\ \A k \in DOMAIN last' : last'[k].id \notin Ids(items') =>
                               items'[n].activation >= last'[k].score
    /\ \A k \in DOMAIN items : items[k].id \notin Ids(items') =>
                               items'[n].activation >= items[k].activation

\* Nothing is evicted, and nothing recalled is turned away, before the capsule is
\* full.  It may be full of pinned and of more active traces: then nothing of a
\* recall is in focus.
EvictsOnlyWhenFull ==
  /\ \A k \in DOMAIN items : items[k].id \notin Ids(items') => Len(items') = capacity
  /\ \A k \in DOMAIN last' : last'[k].id \notin Ids(items') => Len(items') = capacity

\* However recalls, pins and unpins alternate, and whatever capacity was asked
\* for: the capsule stays within it, pins hold, and absorbing evicts only when
\* the capsule is full, and from the bottom (focus.rs, absorb).
FocusKeepsTheBest ==
  [][WithinCapacity' /\ PinsHold /\ EvictsTheLeastActive /\ EvictsOnlyWhenFull]_focusVars

=============================================================================
