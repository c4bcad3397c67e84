---------------------------- MODULE Traces_proofs ----------------------------
(***************************************************************************)
(* Theorems about Traces for every number of processes, ids and events.    *)
(* That the log makes sense is not inductive over a whole log: TracesInv   *)
(* says it of each event and of what stands before it, and ties what a     *)
(* process has prepared to the part of the log it had seen.  It is         *)
(* inductive because the checks under the lock are made again against      *)
(* everything the log holds, and what they do not check again cannot have  *)
(* changed since.                                                          *)
(***************************************************************************)
EXTENDS Traces, WellFoundedInduction, SequenceTheorems, FiniteSetTheorems, TLAPS

-----------------------------------------------------------------------------
(* Events and sequences of them *)

\* The fields of an event.
LEMMA EventFields ==
  ASSUME NEW e \in Event
  PROVE  /\ e.type \in {"remember", "supersede", "fulfill", "purge"}
         /\ e.id \in Id
         /\ e.type = "remember" => e.trace \in Trace
         /\ e.type = "supersede" => e.new \in Id
BY DEF Event

\* What a caller proposes is a valid trace.
LEMMA ProposedType ==
  ASSUME NEW t \in Proposed
  PROVE  t \in Trace /\ Valid(t)
BY TracesAssumption DEF Proposed, Draft, Trace

\* A trace is remembered by one event, a correction by two.
LEMMA EventsOfType ==
  ASSUME NEW t \in Trace
  PROVE  /\ EventsOf(t) \in Seq(Event)
         /\ EventsOf(t)[1] = Remember(t)
         /\ t.supersedes = NoId => Len(EventsOf(t)) = 1
         /\ t.supersedes # NoId =>
              Len(EventsOf(t)) = 2 /\ EventsOf(t)[2] = Supersede(t.supersedes, t.id)
<1>1. Remember(t) \in Event
  BY DEF Remember, Event, Trace
<1>2. t.supersedes # NoId => Supersede(t.supersedes, t.id) \in Event
  BY DEF Supersede, Event, Trace
<1>3. CASE t.supersedes = NoId
  BY <1>1, <1>3 DEF EventsOf
<1>4. CASE t.supersedes # NoId
  <2> DEFINE r == Remember(t)
             s == Supersede(t.supersedes, t.id)
  <2> HIDE DEF r, s
  <2>1. <<r, s>> \in Seq(Event) /\ Len(<<r, s>>) = 2 /\ <<r, s>>[1] = r /\ <<r, s>>[2] = s
    BY <1>1, <1>2, <1>4 DEF r, s
  <2>. QED
    BY <1>4, <2>1 DEF EventsOf, r, s
<1>. QED
  BY <1>3, <1>4

\* A log, the first events of it, and a log that goes on.
LEMMA LogGoesOn ==
  ASSUME NEW l \in Seq(Event), NEW b \in Seq(Event)
  PROVE  /\ l \o b \in Seq(Event) /\ Len(l \o b) = Len(l) + Len(b)
         /\ \A k \in 1..Len(l) : (l \o b)[k] = l[k]
         /\ \A k \in 1..Len(b) : (l \o b)[Len(l) + k] = b[k]
         /\ \A k \in DOMAIN (l \o b) : k \in 1..Len(l) \/ \E n \in 1..Len(b) : k = Len(l) + n
<1>1. /\ l \o b \in Seq(Event) /\ Len(l \o b) = Len(l) + Len(b)
      /\ \A k \in 1..Len(l) : (l \o b)[k] = l[k]
      /\ \A k \in 1..Len(b) : (l \o b)[Len(l) + k] = b[k]
  OBVIOUS
<1>2. \A k \in DOMAIN (l \o b) : k \in 1..Len(l) \/ \E n \in 1..Len(b) : k = Len(l) + n
  <2> SUFFICES ASSUME NEW k \in 1..Len(l) + Len(b), k > Len(l)
               PROVE  \E n \in 1..Len(b) : k = Len(l) + n
    BY <1>1
  <2>1. k - Len(l) \in 1..Len(b) /\ k = Len(l) + (k - Len(l))
    OBVIOUS
  <2>. QED
    BY <2>1
<1>. QED
  BY <1>1, <1>2

\* The first events of a log.
LEMMA LogCut ==
  ASSUME NEW l \in Seq(Event), NEW n \in 0..Len(l)
  PROVE  /\ SubSeq(l, 1, n) \in Seq(Event) /\ Len(SubSeq(l, 1, n)) = n
         /\ DOMAIN SubSeq(l, 1, n) = 1..n
         /\ \A k \in 1..n : SubSeq(l, 1, n)[k] = l[k]
OBVIOUS

-----------------------------------------------------------------------------
(* Type correctness *)

\* No step takes a variable out of its type.
LEMMA TypeNext ==
  ASSUME TypeOK, Next
  PROVE  TypeOK'
<1>0. Len(log) \in Nat /\ \A p \in Proc : plan[p] \in Seq(Event) /\ Len(plan[p]) \in Nat
  BY DEF TypeOK
<1>1. ASSUME NEW p \in Proc, Open(p)
      PROVE  TypeOK'
  BY <1>0, <1>1 DEF Open, TypeOK
<1>2. ASSUME NEW p \in Proc, Prepare(p)
      PROVE  TypeOK'
  <2>1. PICK t \in Proposed : plan' = [plan EXCEPT ![p] = @ \o EventsOf(t)]
    BY <1>2 DEF Prepare
  <2>2. plan[p] \o EventsOf(t) \in Seq(Event)
    BY <1>0, ProposedType, EventsOfType, LogGoesOn
  <2>. QED
    BY <1>2, <2>1, <2>2 DEF Prepare, TypeOK
<1>3. ASSUME NEW p \in Proc, NEW i \in Id, Change(p, Fulfill(i)) \/ Change(p, Purge(i))
      PROVE  TypeOK'
  <2>1. Fulfill(i) \in Event /\ Purge(i) \in Event
    BY DEF Fulfill, Purge, Event
  <2>2. PICK e \in Event : Change(p, e)
    BY <1>3, <2>1
  <2>3. <<e>> \in Seq(Event)
    OBVIOUS
  <2>. QED
    BY <2>2, <2>3 DEF Change, TypeOK
<1>4. ASSUME NEW p \in Proc, Commit(p)
      PROVE  TypeOK'
  <2>1. log' \in Seq(Event) /\ Len(log') = Len(log) + Len(plan[p])
    BY <1>0, <1>4, LogGoesOn DEF Commit, TypeOK
  <2>. QED
    BY <1>0, <1>4, <2>1 DEF Commit, TypeOK
<1>5. ASSUME NEW p \in Proc, Refuse(p)
      PROVE  TypeOK'
  BY <1>0, <1>5 DEF Refuse, TypeOK
<1>6. ASSUME NEW p \in Proc, CutShort(p)
      PROVE  TypeOK'
  <2>1. PICK n \in 1..Len(plan[p]) :
          /\ log' = log \o SubSeq(plan[p], 1, n)
          /\ cuts' = IF n < Len(plan[p]) THEN cuts \cup {Len(log')} ELSE cuts
    BY <1>6 DEF CutShort
  <2>2. log' \in Seq(Event) /\ Len(log') = Len(log) + n
    BY <1>0, <2>1, LogCut, LogGoesOn DEF TypeOK
  <2>3. acked \in 0..Len(log') /\ Len(log) \in 0..Len(log') /\ cuts' \subseteq 1..Len(log')
    <3>1. cuts' \subseteq cuts \cup {Len(log')}
      BY <2>1
    <3>. QED
      BY <1>0, <2>2, <3>1 DEF TypeOK
  <2>4. seen' \in [Proc -> 0..Len(log')]
    BY <1>0, <1>6, <2>2, <2>3 DEF CutShort, TypeOK
  <2>. QED
    BY <1>0, <1>6, <2>2, <2>3, <2>4 DEF CutShort, TypeOK
<1>7. CASE AcceptTail
  BY <1>0, <1>7 DEF AcceptTail, TypeOK
<1>. QED
  BY <1>1, <1>2, <1>3, <1>4, <1>5, <1>6, <1>7 DEF Next

\* Every variable keeps its type: what is prepared and what is stored are always
\* events, no handle has replayed more than there is, and the head names no
\* event that is not there.
THEOREM TypeCorrect == Spec => []TypeOK
<1>1. Init => TypeOK
  BY TracesAssumption DEF Init, TypeOK
<1>2. TypeOK /\ UNCHANGED vars => TypeOK'
  BY DEF vars, TypeOK
<1>. QED
  BY <1>1, <1>2, TypeNext, PTL DEF Spec

-----------------------------------------------------------------------------
(* Batches cut short *)

\* In a store that has a head file, nobody but a person ever acknowledges a part
\* of a batch: the next write finds events after the head and is refused.
THEOREM PartsStayUnacknowledged ==
  ASSUME StartHead
  PROVE  Spec => []AllOrNothing
<1>1. Init => headed /\ AllOrNothing
  BY DEF Init, AllOrNothing
<1>2. TypeOK /\ headed /\ AllOrNothing /\ [Next]_vars => headed' /\ AllOrNothing'
  <2> SUFFICES ASSUME TypeOK, headed, AllOrNothing, [Next]_vars
               PROVE  headed' /\ AllOrNothing'
    OBVIOUS
  <2>0. Len(log) \in Nat /\ acked \in Nat /\ cuts \subseteq 1..Len(log)
    BY DEF TypeOK
  <2>1. ASSUME HeadAllows PROVE acked = Len(log) /\ cuts = {}
    BY <2>0, <2>1 DEF HeadAllows, AllOrNothing
  <2>2. ASSUME NEW p \in Proc, Commit(p)
        PROVE  headed' /\ AllOrNothing'
    BY <2>1, <2>2 DEF Commit, MayWrite, AllOrNothing
  <2>3. ASSUME NEW p \in Proc, CutShort(p)
        PROVE  headed' /\ AllOrNothing'
    <3>1. PICK n \in 1..Len(plan[p]) : log' = log \o SubSeq(plan[p], 1, n)
                                      /\ cuts' \subseteq cuts \cup {Len(log')}
      BY <2>3 DEF CutShort
    <3>2. Len(log') = Len(log) + n /\ n \in Nat /\ n > 0
      <4>1. plan[p] \in Seq(Event) /\ n \in 0..Len(plan[p]) /\ n \in Nat /\ n > 0
        BY DEF TypeOK
      <4>. QED
        BY <3>1, <4>1, LogCut, LogGoesOn DEF TypeOK
    <3>. QED
      BY <2>0, <2>1, <2>3, <3>1, <3>2 DEF CutShort, MayWrite, AllOrNothing
  <2>4. CASE AcceptTail
    BY <2>4 DEF AcceptTail, AllOrNothing
  <2>5. CASE UNCHANGED <<acked, headed, cuts>>
    BY <2>5 DEF AllOrNothing
  <2>6. ASSUME NEW p \in Proc, Open(p) \/ Prepare(p) \/ Refuse(p)
                                \/ \E i \in Id : Change(p, Fulfill(i)) \/ Change(p, Purge(i))
        PROVE  UNCHANGED <<acked, headed, cuts>>
    BY <2>6 DEF Open, Prepare, Refuse, Change
  <2>. QED
    BY <2>2, <2>3, <2>4, <2>5, <2>6 DEF Next, vars
<1>. QED
  BY <1>1, <1>2, TypeCorrect, PTL DEF Spec

-----------------------------------------------------------------------------
(* Life cycles: what the events of a log that fits say of a trace *)

\* The log l, each of whose events fits what stands before it.
Fits(l) == l \in Seq(Event) /\ \A k \in DOMAIN l : FitsAt(l, k)

\* A non-empty set of places has a last one.
LEMMA LastPlace ==
  ASSUME NEW n \in Nat, NEW S \in SUBSET (1..n), S # {}
  PROVE  \E m \in S : \A k \in S : k <= m
<1> DEFINE R == OpToRel(<, Nat)
           T == {n - k : k \in S}
<1>1. T \subseteq Nat /\ T # {}
  <2>1. \A k \in S : n - k \in Nat
    OBVIOUS
  <2>. QED
    BY <2>1
<1>2. PICK x \in T : \A y \in T : ~ (<<y, x>> \in R)
  <2>1. IsWellFoundedOn(R, Nat)
    BY NatLessThanWellFounded
  <2> HIDE DEF R, T
  <2>. QED
    BY <1>1, <2>1, WFMin
<1>3. \A y \in T : x <= y
  <2> SUFFICES ASSUME NEW y \in T
               PROVE  x <= y
    OBVIOUS
  <2>1. x \in Nat /\ y \in Nat
    BY <1>1
  <2>2. y < x => <<y, x>> \in R
    BY <2>1 DEF OpToRel
  <2> HIDE DEF R, T
  <2>. QED
    BY <1>2, <2>1, <2>2
<1>4. PICK m \in S : x = n - m
  OBVIOUS
<1>5. \A k \in S : k <= m
  <2> SUFFICES ASSUME NEW k \in S
               PROVE  k <= m
    OBVIOUS
  <2>1. n - k \in T
    OBVIOUS
  <2>2. n - m <= n - k
    BY <1>3, <1>4, <2>1
  <2>. QED
    BY <2>2
<1>. QED
  BY <1>5

\* In a log that fits a trace has one Remember, and nothing changes it earlier.
LEMMA OneRemember ==
  ASSUME NEW l, Fits(l), NEW i, NEW j \in DOMAIN l, Remembers(l, j, i)
  PROVE  /\ \A k \in DOMAIN l : Remembers(l, k, i) => k = j
         /\ \A k \in DOMAIN l : l[k].id = i => j <= k
         /\ TraceOf(l, i) = l[j].trace
<1>0. DOMAIN l = 1..Len(l) /\ Len(l) \in Nat
  BY DEF Fits
<1>1. ASSUME NEW k \in DOMAIN l, Remembers(l, k, i)
      PROVE  k = j
  <2>1. ~Added(l, k, i) /\ ~Added(l, j, i)
    BY <1>1 DEF Fits, FitsAt, Remembers
  <2>. QED
    BY <1>0, <1>1, <2>1 DEF Added
<1>2. ASSUME NEW k \in DOMAIN l, l[k].id = i
      PROVE  j <= k
  <2>1. CASE l[k].type = "remember"
    BY <1>0, <1>1, <1>2, <2>1 DEF Remembers
  <2>2. CASE l[k].type # "remember"
    <3>1. PICK n \in 1..k-1 : Remembers(l, n, i)
      BY <1>2, <2>2 DEF Fits, FitsAt, Added
    <3>. QED
      BY <1>0, <1>1, <3>1
  <2>. QED
    BY <2>1, <2>2
<1>3. TraceOf(l, i) = l[j].trace
  BY <1>1 DEF TraceOf
<1>. QED
  BY <1>1, <1>2, <1>3

\* The events that decide what becomes of a trace.
Purged(l, i)     == \E k \in DOMAIN l : l[k].type = "purge" /\ l[k].id = i
Superseded(l, i) == \E k \in DOMAIN l : l[k].type = "supersede" /\ l[k].id = i
Fulfilled(l, i)  == \E k \in DOMAIN l : l[k].type = "fulfill" /\ l[k].id = i

\* In a log that fits the last event of a trace says what its events say
\* together: a purge outweighs the others, and of those there is one at most.
LEMMA StatusIs ==
  ASSUME NEW l, Fits(l), NEW i
  PROVE  /\ ~Known(l, i) => Status(l, i) = "unknown"
         /\ Known(l, i) /\ Purged(l, i) => Status(l, i) = "purged"
         /\ Known(l, i) /\ ~Purged(l, i) /\ Superseded(l, i) => Status(l, i) = "superseded"
         /\ Known(l, i) /\ ~Purged(l, i) /\ Fulfilled(l, i) => Status(l, i) = "fulfilled"
         /\ Known(l, i) /\ ~Purged(l, i) /\ ~Superseded(l, i) /\ ~Fulfilled(l, i) =>
              Status(l, i) = "active"
         /\ ~(Superseded(l, i) /\ Fulfilled(l, i))
<1>0. DOMAIN l = 1..Len(l) /\ Len(l) \in Nat /\ \A k \in DOMAIN l : l[k] \in Event
  BY DEF Fits
<1>1. ~Known(l, i) => Status(l, i) = "unknown"
  BY DEF Status
<1>2. ~(Superseded(l, i) /\ Fulfilled(l, i))
  <2> SUFFICES ASSUME NEW j \in DOMAIN l, l[j].type = "supersede", l[j].id = i,
                      NEW k \in DOMAIN l, l[k].type = "fulfill", l[k].id = i
               PROVE  FALSE
    BY DEF Superseded, Fulfilled
  <2>1. ~Changed(l, j, i) /\ ~Changed(l, k, i)
    BY DEF Fits, FitsAt
  <2>2. j # k
    OBVIOUS
  <2>. QED
    BY <1>0, <2>1, <2>2 DEF Changed
<1>3. ASSUME Known(l, i)
      PROVE  /\ Purged(l, i) => Status(l, i) = "purged"
             /\ ~Purged(l, i) /\ Superseded(l, i) => Status(l, i) = "superseded"
             /\ ~Purged(l, i) /\ Fulfilled(l, i) => Status(l, i) = "fulfilled"
             /\ ~Purged(l, i) /\ ~Superseded(l, i) /\ ~Fulfilled(l, i) => Status(l, i) = "active"
  <2> DEFINE touching == {k \in DOMAIN l : l[k].id = i}
             last == CHOOSE k \in touching : \A j \in touching : j <= k
  <2>1. PICK r \in DOMAIN l : Remembers(l, r, i)
    BY <1>3 DEF Known
  <2>2. \E m \in touching : \A k \in touching : k <= m
    <3>1. touching \in SUBSET (1..Len(l)) /\ touching # {}
      BY <1>0, <2>1 DEF Remembers
    <3> HIDE DEF touching
    <3>. QED
      BY <1>0, <3>1, LastPlace
  <2>3. last \in touching /\ \A k \in touching : k <= last
    BY <2>2
  <2>4. Status(l, i) = CASE l[last].type = "remember"  -> "active"
                         [] l[last].type = "supersede" -> "superseded"
                         [] l[last].type = "fulfill"   -> "fulfilled"
                         [] OTHER                      -> "purged"
    BY <1>3 DEF Status
  <2>5. last \in DOMAIN l /\ l[last].id = i /\ l[last].type \in {"remember", "supersede", "fulfill", "purge"}
    BY <1>0, <2>3, EventFields
  <2>6. \A k \in DOMAIN l : l[k].id = i => k <= last
    BY <2>3
  <2> HIDE DEF last, touching
  <2>7. CASE l[last].type = "remember"
    <3>1. \A k \in DOMAIN l : l[k].id = i => k = last
      BY <1>0, <2>5, <2>6, <2>7, OneRemember DEF Remembers
    <3>2. ~Purged(l, i) /\ ~Superseded(l, i) /\ ~Fulfilled(l, i)
      BY <2>7, <3>1 DEF Purged, Superseded, Fulfilled
    <3>. QED
      BY <2>4, <2>7, <3>2
  <2>8. CASE l[last].type \in {"supersede", "fulfill"}
    <3>1. ~Changed(l, last, i)
      BY <2>5, <2>8 DEF Fits, FitsAt
    <3>2. ~Purged(l, i)
      BY <1>0, <2>5, <2>6, <2>8, <3>1 DEF Purged, Changed
    <3>3. l[last].type = "supersede" => Superseded(l, i)
      BY <2>5 DEF Superseded
    <3>4. l[last].type = "fulfill" => Fulfilled(l, i)
      BY <2>5 DEF Fulfilled
    <3>. QED
      BY <1>2, <2>4, <2>8, <3>2, <3>3, <3>4
  <2>9. CASE l[last].type = "purge"
    BY <2>4, <2>5, <2>9 DEF Purged
  <2>. QED
    BY <2>5, <2>7, <2>8, <2>9
<1>. QED
  BY <1>1, <1>2, <1>3

\* In a log that fits a trace is active when it is there and nothing changed it.
LEMMA ActiveIs ==
  ASSUME NEW l, Fits(l), NEW i
  PROVE  Active(l, i) <=> Known(l, i) /\ \A k \in DOMAIN l : l[k].id = i => l[k].type = "remember"
<1>1. \A k \in DOMAIN l : l[k].type \in {"remember", "supersede", "fulfill", "purge"}
  BY EventFields DEF Fits
<1>. QED
  BY <1>1, StatusIs DEF Active, Purged, Superseded, Fulfilled

-----------------------------------------------------------------------------
(* A log and the first events of it *)

\* Whether an event fits depends on it and on the events before it only.
LEMMA FitsAtIsLocal ==
  ASSUME NEW l \in Seq(Event), NEW m \in Seq(Event), NEW k \in DOMAIN l, k \in DOMAIN m,
         \A j \in 1..k : l[j] = m[j]
  PROVE  FitsAt(l, k) <=> FitsAt(m, k)
<1>0. k \in Nat /\ k \in 1..k /\ \A j \in 1..k-1 : j \in 1..k
  OBVIOUS
<1>1. l[k] = m[k] /\ \A j \in 1..k-1 : l[j] = m[j]
  BY <1>0
<1>2. k > 1 => l[k-1] = m[k-1]
  BY <1>0, <1>1
<1>3. \A i : (Added(l, k, i) <=> Added(m, k, i)) /\ (Changed(l, k, i) <=> Changed(m, k, i))
  BY <1>1 DEF Added, Changed, Remembers
<1>4. Resolves(l, k) <=> Resolves(m, k)
  BY <1>1, <1>3 DEF Resolves, Remembers
<1>5. Replaces(l, k) <=> Replaces(m, k)
  BY <1>1, <1>2 DEF Replaces, Remembers
<1>6. (\A j \in 1..k-1 : ~(l[j].type = "purge" /\ l[j].id = l[k].id))
        <=> \A j \in 1..k-1 : ~(m[j].type = "purge" /\ m[j].id = m[k].id)
  BY <1>1
<1>. QED
  BY <1>1, <1>3, <1>4, <1>5, <1>6 DEF FitsAt

\* The first events of a log that fits fit too.
LEMMA FitsCut ==
  ASSUME NEW l, Fits(l), NEW n \in 0..Len(l)
  PROVE  Fits(SubSeq(l, 1, n))
<1>1. l \in Seq(Event)
  BY DEF Fits
<1> DEFINE m == SubSeq(l, 1, n)
<1>2. m \in Seq(Event) /\ DOMAIN m = 1..n /\ \A k \in 1..n : m[k] = l[k]
  BY <1>1, LogCut
<1> HIDE DEF m
<1>3. ASSUME NEW k \in DOMAIN m
      PROVE  FitsAt(m, k)
  <2>1. k \in DOMAIN l /\ \A j \in 1..k : l[j] = m[j]
    BY <1>1, <1>2
  <2>. QED
    BY <1>1, <1>2, <2>1, FitsAtIsLocal DEF Fits
<1>. QED
  BY <1>2, <1>3 DEF Fits, m

\* What a handle has seen of a trace is still so.
LEMMA SeenIsKnown ==
  ASSUME NEW l, Fits(l), NEW n \in 0..Len(l), NEW i, Known(SubSeq(l, 1, n), i)
  PROVE  Known(l, i) /\ TraceOf(SubSeq(l, 1, n), i) = TraceOf(l, i)
<1>1. l \in Seq(Event)
  BY DEF Fits
<1> DEFINE m == SubSeq(l, 1, n)
<1>2. DOMAIN m = 1..n /\ \A k \in 1..n : m[k] = l[k] /\ k \in DOMAIN l
  BY <1>1, LogCut
<1>3. Fits(m)
  BY FitsCut
<1>4. PICK j \in DOMAIN m : Remembers(m, j, i)
  BY DEF Known
<1> HIDE DEF m
<1>5. j \in DOMAIN l /\ Remembers(l, j, i) /\ m[j] = l[j]
  BY <1>2, <1>4 DEF Remembers
<1>6. TraceOf(m, i) = m[j].trace /\ TraceOf(l, i) = l[j].trace
  BY <1>3, <1>4, <1>5, OneRemember
<1>. QED
  BY <1>5, <1>6 DEF Known, m

\* A trace is known to a log that goes on when it was known or has been added.
LEMMA KnownGoesOn ==
  ASSUME NEW l \in Seq(Event), NEW b \in Seq(Event), NEW i
  PROVE  Known(l \o b, i) <=> Known(l, i) \/ Known(b, i)
<1>1. ASSUME Known(l, i) \/ Known(b, i) PROVE Known(l \o b, i)
  <2>1. \A k \in DOMAIN l : k \in DOMAIN (l \o b) /\ (l \o b)[k] = l[k]
    BY LogGoesOn
  <2>2. \A k \in DOMAIN b : Len(l) + k \in DOMAIN (l \o b) /\ (l \o b)[Len(l) + k] = b[k]
    BY LogGoesOn
  <2>. QED
    BY <1>1, <2>1, <2>2 DEF Known, Remembers
<1>2. ASSUME Known(l \o b, i) PROVE Known(l, i) \/ Known(b, i)
  <2>1. PICK k \in DOMAIN (l \o b) : Remembers(l \o b, k, i)
    BY <1>2 DEF Known
  <2>. QED
    BY <2>1, LogGoesOn DEF Known, Remembers
<1>. QED
  BY <1>1, <1>2

-----------------------------------------------------------------------------
(* A batch that was prepared on an old view and passes the checks on the log *)

\* What PlanFits says of one process's batch b and of the view v it was prepared on.
Drafted(v, b) ==
  \A k \in DOMAIN b :
    /\ b[k].type = "remember" => b[k].trace.id = b[k].id
    /\ b[k].type = "supersede" =>
         /\ k > 1
         /\ b[k-1].type = "remember" /\ b[k-1].trace.id = b[k].new
         /\ b[k-1].trace.supersedes = b[k].id /\ ~b[k-1].trace.model
         /\ Known(v, b[k].id)
         /\ TraceOf(v, b[k].id).verified => b[k-1].trace.verified
    /\ b[k].type \in {"fulfill", "purge"} => Len(b) = 1

\* Whatever the log has become since a batch was prepared, a batch that passes
\* validate_batch fits it.
LEMMA ValidBatchFits ==
  ASSUME NEW l, Fits(l), NEW n \in 0..Len(l), NEW b \in Seq(Event),
         Drafted(SubSeq(l, 1, n), b), ValidBatch(l, b)
  PROVE  Fits(l \o b)
<1> DEFINE L == l \o b
           N == Len(l)
           v == SubSeq(l, 1, n)
<1>0. l \in Seq(Event) /\ N \in Nat /\ DOMAIN l = 1..N /\ Len(b) \in Nat /\ DOMAIN b = 1..Len(b)
  BY DEF Fits
<1>1. /\ L \in Seq(Event) /\ Len(L) = N + Len(b) /\ DOMAIN L = 1..N + Len(b)
      /\ \A k \in 1..N : L[k] = l[k]
      /\ \A k \in 1..Len(b) : L[N + k] = b[k]
      /\ \A k \in DOMAIN L : k \in 1..N \/ \E m \in 1..Len(b) : k = N + m
  BY <1>0, LogGoesOn
<1>2. \A k \in 1..Len(b) : b[k] \in Event /\ b[k].type \in {"remember", "supersede", "fulfill", "purge"}
  BY <1>0, EventFields
<1> HIDE DEF L, N, v
<1>3. ASSUME NEW k \in 1..N
      PROVE  FitsAt(L, k)
  <2>1. k \in DOMAIN L /\ k \in DOMAIN l /\ \A j \in 1..k : L[j] = l[j]
    BY <1>0, <1>1
  <2>. QED
    BY <1>0, <1>1, <2>1, FitsAtIsLocal DEF Fits
\* The events before the k-th of the batch: those of the log and those before it.
<1>4. ASSUME NEW k \in 1..Len(b), NEW j \in 1..(N + k)-1
      PROVE  \/ j \in 1..N /\ L[j] = l[j]
             \/ \E m \in 1..k-1 : j = N + m /\ m \in 1..Len(b) /\ L[j] = b[m]
  <2>1. CASE j \in 1..N
    BY <1>1, <2>1
  <2>2. CASE j > N
    <3>1. j - N \in 1..k-1 /\ j - N \in 1..Len(b) /\ j = N + (j - N)
      BY <1>0, <2>2
    <3>. QED
      BY <1>1, <3>1
  <2>. QED
    BY <1>0, <2>1, <2>2
<1>5. ASSUME NEW k \in 1..Len(b), NEW j \in 1..N
      PROVE  j \in 1..(N + k)-1 /\ L[j] = l[j]
  BY <1>0, <1>1
<1>6. ASSUME NEW k \in 1..Len(b), NEW m \in 1..k-1
      PROVE  N + m \in 1..(N + k)-1 /\ m \in 1..Len(b) /\ L[N + m] = b[m]
  <2>1. N + m \in 1..(N + k)-1 /\ m \in 1..Len(b)
    BY <1>0
  <2>. QED
    BY <1>1, <2>1
<1>7. ASSUME NEW k \in 1..Len(b), NEW i
      PROVE  Added(L, N + k, i) <=> Exists(l, b, k, i)
  <2>1. ASSUME Added(L, N + k, i) PROVE Exists(l, b, k, i)
    <3>1. PICK j \in 1..(N + k)-1 : Remembers(L, j, i)
      BY <2>1 DEF Added
    <3>. QED
      BY <1>0, <1>4, <3>1 DEF Exists, Added, Known, Remembers
  <2>2. ASSUME Exists(l, b, k, i) PROVE Added(L, N + k, i)
    BY <1>0, <1>5, <1>6, <2>2 DEF Exists, Added, Known, Remembers
  <2>. QED
    BY <2>1, <2>2
\* A trace this batch adds is new to the log.
<1>8. ASSUME NEW k \in 1..Len(b), NEW i, Added(b, k, i)
      PROVE  ~Known(l, i)
  <2>1. PICK j \in 1..k-1 : Remembers(b, j, i)
    BY <1>8 DEF Added
  <2>2. j \in DOMAIN b /\ b[j].type = "remember" /\ b[j].trace.id = i
    BY <1>0, <2>1 DEF Drafted, Remembers
  <2>3. ValidRemember(l, b, j)
    BY <2>2 DEF ValidBatch
  <2>. QED
    BY <2>2, <2>3 DEF ValidRemember, Exists
\* What the lookup calls active, no event before has changed.
<1>9. ASSUME NEW k \in 1..Len(b), NEW i, IsActive(l, b, k, i)
      PROVE  ~Changed(L, N + k, i)
  <2>1. SUFFICES ASSUME NEW j \in 1..(N + k)-1, L[j].type # "remember", L[j].id = i
                 PROVE  FALSE
    BY DEF Changed
  <2>2. ~Changed(b, k, i) /\ (Added(b, k, i) \/ Active(l, i))
    BY <1>9 DEF IsActive
  <2>3. j \in DOMAIN l /\ l[j].type # "remember" /\ l[j].id = i
    BY <1>0, <1>4, <2>1, <2>2 DEF Changed
  <2>4. Known(l, i)
    <3>1. Added(l, j, i)
      BY <2>3 DEF Fits, FitsAt
    <3>. QED
      BY <1>0, <2>3, <3>1 DEF Added, Known
  <2>5. Active(l, i)
    BY <1>8, <2>2, <2>4
  <2>. QED
    BY <2>3, <2>5, ActiveIs
<1>10. ASSUME NEW k \in 1..Len(b), b[k].type = "remember"
       PROVE  FitsAt(L, N + k)
  <2>1. L[N + k] = b[k] /\ b[k].trace.id = b[k].id
    BY <1>0, <1>1, <1>10 DEF Drafted
  <2>2. ValidRemember(l, b, k)
    BY <1>0, <1>10 DEF ValidBatch
  <2>3. ~Added(L, N + k, b[k].id)
    BY <1>7, <2>1, <2>2 DEF ValidRemember
  <2>4. Resolves(L, N + k)
    <3> DEFINE o == b[k].trace.outcome
    <3>1. SUFFICES ASSUME o # NoId
                   PROVE  /\ ~Changed(L, N + k, o)
                          /\ \E j \in 1..(N + k)-1 : Remembers(L, j, o) /\ L[j].trace.kind = "prediction"
      BY <2>1 DEF Resolves
    <3>2. Exists(l, b, k, o) /\ KindOf(l, b, k, o) = "prediction" /\ IsActive(l, b, k, o)
      BY <2>2, <3>1 DEF ValidRemember
    <3> HIDE DEF o
    <3>3. CASE Added(b, k, o)
      <4> DEFINE c == SubSeq(b, 1, k-1)
      <4>1. k - 1 \in 0..Len(b)
        BY <1>0
      <4>2. DOMAIN c = 1..k-1 /\ \A j \in 1..k-1 : c[j] = b[j]
        BY <4>1, LogCut
      <4>3. KindOf(l, b, k, o) = TraceOf(c, o).kind
        BY <3>3 DEF KindOf
      <4> HIDE DEF c
      <4>4. \E j \in DOMAIN c : Remembers(c, j, o)
        BY <3>3, <4>2 DEF Added, Remembers
      <4>5. PICK j \in DOMAIN c : Remembers(c, j, o) /\ TraceOf(c, o) = c[j].trace
        BY <4>4 DEF TraceOf
      <4>6. j \in 1..k-1 /\ Remembers(b, j, o) /\ b[j].trace.kind = "prediction"
        BY <3>2, <4>2, <4>3, <4>5 DEF Remembers
      <4>7. N + j \in 1..(N + k)-1 /\ Remembers(L, N + j, o) /\ L[N + j].trace.kind = "prediction"
        BY <1>6, <4>6 DEF Remembers
      <4>. QED
        BY <1>9, <3>2, <4>7
    <3>4. CASE ~Added(b, k, o)
      <4>1. Known(l, o) /\ TraceOf(l, o).kind = "prediction"
        BY <3>2, <3>4 DEF Exists, KindOf
      <4>2. PICK j \in DOMAIN l : Remembers(l, j, o) /\ TraceOf(l, o) = l[j].trace
        BY <4>1 DEF Known, TraceOf
      <4>3. j \in 1..(N + k)-1 /\ Remembers(L, j, o) /\ L[j].trace.kind = "prediction"
        BY <1>0, <1>5, <4>1, <4>2 DEF Remembers
      <4>. QED
        BY <1>9, <3>2, <4>3
    <3>. QED
      BY <3>3, <3>4
  <2>. QED
    BY <1>10, <2>1, <2>3, <2>4 DEF FitsAt
<1>11. ASSUME NEW k \in 1..Len(b), b[k].type = "supersede"
       PROVE  FitsAt(L, N + k)
  <2>1. /\ k > 1 /\ b[k-1].type = "remember" /\ b[k-1].trace.id = b[k].new
        /\ b[k-1].trace.supersedes = b[k].id /\ ~b[k-1].trace.model
        /\ Known(v, b[k].id)
        /\ TraceOf(v, b[k].id).verified => b[k-1].trace.verified
    BY <1>0, <1>11 DEF Drafted, v
  <2>2. ValidSupersede(l, b, k)
    BY <1>0, <1>11 DEF ValidBatch
  <2>3. L[N + k] = b[k] /\ (N + k) - 1 \in Nat /\ k - 1 \in 1..Len(b) /\ L[(N + k)-1] = b[k-1]
    <3>1. k - 1 \in 1..Len(b) /\ N + (k - 1) = (N + k) - 1
      BY <1>0, <2>1
    <3>. QED
      BY <1>0, <1>1, <3>1
  <2>4. b[k-1].id = b[k].new
    BY <1>0, <2>1, <2>3 DEF Drafted
  <2>5. Known(l, b[k].id) /\ TraceOf(v, b[k].id) = TraceOf(l, b[k].id)
    BY <2>1, SeenIsKnown DEF v
  <2>6. ASSUME NEW j \in 1..(N + k)-1, Remembers(L, j, b[k].id), L[j].trace.verified
        PROVE  b[k-1].trace.verified
    <3>1. CASE j \in 1..N /\ L[j] = l[j]
      <4>1. TraceOf(l, b[k].id) = l[j].trace
        BY <1>0, <2>6, <3>1, OneRemember DEF Remembers
      <4>. QED
        BY <2>1, <2>5, <2>6, <3>1, <4>1
    <3>2. CASE \E m \in 1..k-1 : L[j] = b[m]
      <4>1. Added(b, k, b[k].id)
        BY <2>6, <3>2 DEF Added, Remembers
      <4>. QED
        BY <1>8, <2>5, <4>1
    <3>. QED
      BY <1>4, <3>1, <3>2
  <2>7. Replaces(L, N + k)
    <3>1. N + k > 1
      BY <1>0, <2>1
    <3>. QED
      BY <2>1, <2>3, <2>4, <2>6, <3>1 DEF Replaces
  <2>8. Added(L, N + k, b[k].id) /\ ~Changed(L, N + k, b[k].id)
    BY <1>7, <1>9, <2>2 DEF ValidSupersede
  <2>. QED
    BY <1>11, <2>3, <2>7, <2>8 DEF FitsAt
<1>12. ASSUME NEW k \in 1..Len(b), b[k].type = "fulfill"
       PROVE  FitsAt(L, N + k)
  <2>1. ValidFulfill(l, b, k)
    BY <1>0, <1>12 DEF ValidBatch
  <2>2. Added(L, N + k, b[k].id) /\ ~Changed(L, N + k, b[k].id)
    BY <1>7, <1>9, <2>1 DEF ValidFulfill
  <2>. QED
    BY <1>1, <1>12, <2>2 DEF FitsAt
<1>13. ASSUME NEW k \in 1..Len(b), b[k].type = "purge"
       PROVE  FitsAt(L, N + k)
  <2>1. ValidPurge(l, b, k)
    BY <1>0, <1>13 DEF ValidBatch
  <2>2. k = 1
    BY <1>0, <1>13 DEF Drafted
  <2>3. ~Added(b, k, b[k].id)
    BY <2>2 DEF Added
  <2>4. Known(l, b[k].id) /\ ~Purged(l, b[k].id)
    BY <2>1, <2>3, StatusIs DEF ValidPurge, Exists
  <2>5. \A j \in 1..(N + k)-1 : ~(L[j].type = "purge" /\ L[j].id = b[k].id)
    <3>1. \A j \in 1..(N + k)-1 : j \in 1..N /\ L[j] = l[j]
      BY <1>0, <1>1, <2>2
    <3>. QED
      BY <1>0, <2>4, <3>1 DEF Purged
  <2>6. Added(L, N + k, b[k].id)
    BY <1>7, <2>1 DEF ValidPurge
  <2>. QED
    BY <1>1, <1>13, <2>5, <2>6 DEF FitsAt
<1>14. \A k \in 1..Len(b) : FitsAt(L, N + k)
  BY <1>2, <1>10, <1>11, <1>12, <1>13
<1>15. \A k \in DOMAIN L : FitsAt(L, k)
  BY <1>1, <1>3, <1>14
<1>. QED
  BY <1>1, <1>15 DEF Fits, L

\* The part of a batch that reaches the file before a crash fits as well.
LEMMA BeginningFits ==
  ASSUME NEW l \in Seq(Event), NEW b \in Seq(Event), Fits(l \o b), NEW n \in 0..Len(b)
  PROVE  Fits(l \o SubSeq(b, 1, n))
<1> DEFINE c == SubSeq(b, 1, n)
           L == l \o b
           C == l \o c
<1>1. c \in Seq(Event) /\ Len(c) = n /\ \A k \in 1..n : c[k] = b[k]
  BY LogCut
<1> HIDE DEF c
<1>2. /\ C \in Seq(Event) /\ DOMAIN C = 1..Len(l) + n
      /\ \A k \in 1..Len(l) : C[k] = l[k]
      /\ \A k \in 1..n : C[Len(l) + k] = c[k]
      /\ \A k \in DOMAIN C : k \in 1..Len(l) \/ \E m \in 1..n : k = Len(l) + m
  <2>1. /\ C \in Seq(Event) /\ Len(C) = Len(l) + Len(c)
        /\ \A k \in 1..Len(l) : C[k] = l[k]
        /\ \A k \in 1..Len(c) : C[Len(l) + k] = c[k]
        /\ \A k \in DOMAIN C : k \in 1..Len(l) \/ \E m \in 1..Len(c) : k = Len(l) + m
    BY <1>1, LogGoesOn
  <2> HIDE DEF C
  <2>. QED
    BY <1>1, <2>1
<1>3. /\ L \in Seq(Event) /\ DOMAIN L = 1..Len(l) + Len(b)
      /\ \A k \in 1..Len(l) : L[k] = l[k]
      /\ \A k \in 1..Len(b) : L[Len(l) + k] = b[k]
  BY LogGoesOn
<1> HIDE DEF C, L
<1>4. ASSUME NEW k \in DOMAIN C
      PROVE  k \in DOMAIN L /\ C[k] = L[k]
  <2>1. CASE k \in 1..Len(l)
    BY <1>2, <1>3, <2>1
  <2>2. ASSUME NEW m \in 1..n, k = Len(l) + m PROVE k \in DOMAIN L /\ C[k] = L[k]
    <3>1. m \in 1..Len(b)
      OBVIOUS
    <3>. QED
      BY <1>1, <1>2, <1>3, <2>2, <3>1
  <2>. QED
    BY <1>2, <2>1, <2>2
<1>5. ASSUME NEW k \in DOMAIN C
      PROVE  FitsAt(C, k)
  <2>1. \A j \in 1..k : j \in DOMAIN C
    BY <1>2
  <2>2. k \in DOMAIN L /\ \A j \in 1..k : C[j] = L[j]
    BY <1>4, <2>1
  <2>. QED
    BY <1>2, <1>3, <2>2, FitsAtIsLocal DEF Fits, L
<1>. QED
  BY <1>2, <1>5 DEF Fits, C, c

-----------------------------------------------------------------------------
(* The inductive invariant *)

\* A handle's view is what it was while others write.
LEMMA ViewStays ==
  ASSUME NEW l \in Seq(Event), NEW b \in Seq(Event), NEW n \in 0..Len(l)
  PROVE  SubSeq(l \o b, 1, n) = SubSeq(l, 1, n)
<1>1. l \o b \in Seq(Event) /\ n \in 0..Len(l \o b) /\ \A k \in 1..n : (l \o b)[k] = l[k]
  BY LogGoesOn
<1>2. SubSeq(l \o b, 1, n) \in Seq(Event) /\ SubSeq(l, 1, n) \in Seq(Event)
      /\ Len(SubSeq(l \o b, 1, n)) = n /\ Len(SubSeq(l, 1, n)) = n
      /\ \A k \in 1..n : SubSeq(l \o b, 1, n)[k] = SubSeq(l, 1, n)[k]
  BY <1>1, LogCut
<1>. QED
  BY <1>2, SeqEqual

\* An empty plan fits.
LEMMA NothingPlanned ==
  ASSUME NEW p \in Proc, plan[p] = <<>>
  PROVE  PlanFits(p)
BY DEF PlanFits

\* A plan fits as long as neither it nor the view it was made on changes.
LEMMA PlanFitsStays ==
  ASSUME NEW p \in Proc, PlanFits(p), plan'[p] = plan[p], View(p)' = View(p)
  PROVE  PlanFits(p)'
BY DEF PlanFits

\* A plan that fits was drafted on the view of its process.
LEMMA PlanIsDrafted ==
  ASSUME TypeOK, NEW p \in Proc, PlanFits(p)
  PROVE  Drafted(View(p), plan[p])
BY DEF PlanFits, Drafted

\* What passes the checks of prepare_remember may join the batch.
LEMMA PrepareFits ==
  ASSUME TypeOK, NEW p \in Proc, PlanFits(p), NEW t \in Trace, Preparable(View(p), t),
         \A k \in DOMAIN plan[p] : plan[p][k].type \in {"remember", "supersede"},
         plan' = [plan EXCEPT ![p] = @ \o EventsOf(t)], UNCHANGED <<log, seen>>
  PROVE  PlanFits(p)'
<1> DEFINE b == plan[p]
           N == Len(b)
           v == View(p)
           c == EventsOf(t)
           B == plan'[p]
<1>1. Preparable(v, t)
  OBVIOUS
<1>2. b \in Seq(Event) /\ plan \in [Proc -> Seq(Event)] /\ N \in Nat
  BY DEF TypeOK
<1>3. /\ c \in Seq(Event) /\ c[1] = Remember(t)
      /\ t.supersedes = NoId => Len(c) = 1
      /\ t.supersedes # NoId => Len(c) = 2 /\ c[2] = Supersede(t.supersedes, t.id)
  BY <1>2, EventsOfType
<1>4. View(p)' = v
  BY DEF View
<1>5. B = b \o c
  BY <1>2
<1> HIDE DEF c, B, v
<1>6. /\ B \in Seq(Event) /\ DOMAIN B = 1..Len(B) /\ Len(B) = N + Len(c)
      /\ \A k \in 1..N : B[k] = b[k]
      /\ \A k \in 1..Len(c) : B[N + k] = c[k]
      /\ \A k \in DOMAIN B : k \in 1..N \/ \E m \in 1..Len(c) : k = N + m
  BY <1>2, <1>3, <1>5, LogGoesOn
<1> DEFINE Good(k) ==
      /\ B[k].type = "remember" =>
           /\ B[k].trace.id = B[k].id /\ ~Known(v, B[k].id)
           /\ B[k].trace.supersedes # NoId =>
                k < Len(B) /\ B[k+1] = Supersede(B[k].trace.supersedes, B[k].id)
      /\ B[k].type = "supersede" =>
           /\ k > 1
           /\ B[k-1].type = "remember" /\ B[k-1].trace.id = B[k].new
           /\ B[k-1].trace.supersedes = B[k].id /\ ~B[k-1].trace.model
           /\ Known(v, B[k].id)
           /\ TraceOf(v, B[k].id).verified => B[k-1].trace.verified
      /\ B[k].type \in {"fulfill", "purge"} => Len(B) = 1
<1>7. ASSUME NEW k \in 1..N
      PROVE  Good(k)
  <2>1. B[k] = b[k] /\ b[k].type \in {"remember", "supersede"} /\ k \in DOMAIN b
    BY <1>2, <1>6
  <2>2. k < N => B[k+1] = b[k+1]
    <3>1. k < N => k + 1 \in 1..N
      BY <1>2
    <3>. QED  BY <1>6, <3>1
  <2>3. k > 1 => B[k-1] = b[k-1]
    <3>1. k > 1 => k - 1 \in 1..N
      OBVIOUS
    <3>. QED
      BY <1>6, <3>1
  <2>4. N <= Len(B) /\ Len(B) \in Nat
    BY <1>3, <1>6
  <2>5. ASSUME b[k].type = "remember" PROVE Good(k)
    <3>1. /\ b[k].trace.id = b[k].id /\ ~Known(v, b[k].id)
          /\ b[k].trace.supersedes # NoId =>
               k < N /\ b[k+1] = Supersede(b[k].trace.supersedes, b[k].id)
      BY <2>1, <2>5 DEF PlanFits, v
    <3>. QED
      BY <2>1, <2>2, <2>4, <2>5, <3>1
  <2>6. ASSUME b[k].type = "supersede" PROVE Good(k)
    <3>1. /\ k > 1
          /\ b[k-1].type = "remember" /\ b[k-1].trace.id = b[k].new
          /\ b[k-1].trace.supersedes = b[k].id /\ ~b[k-1].trace.model
          /\ Known(v, b[k].id)
          /\ TraceOf(v, b[k].id).verified => b[k-1].trace.verified
      BY <2>1, <2>6 DEF PlanFits, v
    <3>. QED
      BY <2>1, <2>3, <2>6, <3>1
  <2>. QED
    BY <2>1, <2>5, <2>6
<1>8. Good(N + 1)
  <2>1. B[N + 1] = Remember(t) /\ 1 \in 1..Len(c)
    <3>1. Len(c) \in {1, 2} /\ 1 \in 1..Len(c)
      BY <1>3
    <3>. QED
      BY <1>3, <1>6, <3>1
  <2>2. ~Known(v, t.id)
    BY <1>1 DEF Preparable
  <2>3. t.supersedes # NoId => N + 1 < Len(B) /\ B[(N + 1) + 1] = Supersede(t.supersedes, t.id)
    <3>1. t.supersedes # NoId => 2 \in 1..Len(c) /\ (N + 1) + 1 = N + 2
      BY <1>2, <1>3
    <3>. QED
      BY <1>2, <1>3, <1>6, <3>1
  <2>. QED
    BY <2>1, <2>2, <2>3 DEF Remember
<1>9. ASSUME t.supersedes # NoId
      PROVE  Good(N + 2)
  <2>1. B[N + 2] = Supersede(t.supersedes, t.id) /\ B[(N + 2)-1] = Remember(t)
    <3>1. 1 \in 1..Len(c) /\ 2 \in 1..Len(c) /\ (N + 2)-1 = N + 1
      BY <1>2, <1>3, <1>9
    <3>. QED
      BY <1>3, <1>6, <1>9, <3>1
  <2>2. Known(v, t.supersedes) /\ ~t.model /\ (TraceOf(v, t.supersedes).verified => t.verified)
    BY <1>1, <1>9 DEF Preparable, Active, Status
  <2>3. N + 2 > 1
    BY <1>2
  <2>. QED
    BY <2>1, <2>2, <2>3 DEF Remember, Supersede
<1>10. \A k \in DOMAIN B : Good(k)
  <2> SUFFICES ASSUME NEW k \in DOMAIN B, k \notin 1..N
               PROVE  Good(k)
    BY <1>7
  <2> HIDE DEF Good
  <2>1. PICK m : m \in 1..Len(c) /\ k = N + m
    BY <1>6
  <2>2. m = 1 \/ (m = 2 /\ t.supersedes # NoId)
    <3>1. Len(c) = 1 \/ (Len(c) = 2 /\ t.supersedes # NoId)
      BY <1>3
    <3>2. m \in Nat /\ 1 <= m /\ m <= Len(c)
      BY <2>1, <3>1
    <3>3. CASE Len(c) = 1
      BY <3>2, <3>3
    <3>4. CASE Len(c) = 2 /\ t.supersedes # NoId
      <4>1. m = 1 \/ m = 2
        BY <3>2, <3>4
      <4>. QED
        BY <3>4, <4>1
    <3>. QED
      BY <3>1, <3>3, <3>4
  <2>. QED
    BY <1>8, <1>9, <2>1, <2>2
<1>. QED
  BY <1>4, <1>10 DEF PlanFits, B

\* No step breaks it: a batch that is written passed the checks on the log it is
\* written to, and what these do not check again was true of an older log.
LEMMA TracesInvNext ==
  ASSUME TypeOK, TracesInv, Next
  PROVE  TracesInv'
<1>0. /\ log \in Seq(Event) /\ Len(log) \in Nat
      /\ \A p \in Proc : plan[p] \in Seq(Event) /\ seen[p] \in 0..Len(log) /\ PlanFits(p)
      /\ plan \in [Proc -> Seq(Event)] /\ seen \in [Proc -> 0..Len(log)] /\ Fits(log)
  BY DEF TypeOK, TracesInv, Fits
<1>1. ASSUME NEW p \in Proc, MayWrite(p)
      PROVE  Fits(log \o plan[p])
  <2>1. Drafted(SubSeq(log, 1, seen[p]), plan[p])
    BY <1>0, PlanIsDrafted DEF View
  <2>. QED
    BY <1>0, <1>1, <2>1, ValidBatchFits DEF MayWrite
\* The process that wrote starts anew, and the others see what they saw.
<1>2. ASSUME NEW p \in Proc, NEW b \in Seq(Event), log' = log \o b,
             plan' = [plan EXCEPT ![p] = <<>>], \E n : seen' = [seen EXCEPT ![p] = n],
             NEW q \in Proc
      PROVE  PlanFits(q)'
  <2>1. CASE q = p
    <3>1. plan'[q] = <<>>
      BY <1>0, <1>2, <2>1
    <3>. QED
      BY <3>1 DEF PlanFits
  <2>2. CASE q # p
    <3>1. plan'[q] = plan[q] /\ seen'[q] = seen[q]
      BY <1>0, <1>2, <2>2
    <3>2. View(q)' = View(q)
      BY <1>0, <1>2, <3>1, ViewStays DEF View
    <3>. QED
      BY <1>0, <3>1, <3>2, PlanFitsStays
  <2>. QED
    BY <2>1, <2>2
\* Where the log stays as it is, only the plan of the process that acts is new.
<1>3. ASSUME NEW p \in Proc, log' = log, PlanFits(p)',
             \A q \in Proc \ {p} : plan'[q] = plan[q] /\ seen'[q] = seen[q]
      PROVE  TracesInv'
  <2>1. ASSUME NEW q \in Proc \ {p} PROVE PlanFits(q)'
    <3>1. View(q)' = View(q)
      BY <1>3, <2>1 DEF View
    <3>. QED
      BY <1>0, <1>3, <2>1, <3>1, PlanFitsStays
  <2>. QED
    BY <1>3, <2>1 DEF TracesInv
<1>4. ASSUME NEW p \in Proc, Open(p) \/ Refuse(p)
      PROVE  TracesInv'
  <2>1. plan'[p] = <<>> /\ log' = log
    BY <1>0, <1>4 DEF Open, Refuse
  <2>2. PlanFits(p)'
    BY <2>1 DEF PlanFits
  <2>. QED
    BY <1>0, <1>3, <1>4, <2>1, <2>2 DEF Open, Refuse
<1>5. ASSUME NEW p \in Proc, Prepare(p)
      PROVE  TracesInv'
  <2>1. PlanFits(p)'
    <3>1. PICK t \in Proposed : /\ Preparable(View(p), t)
                               /\ plan' = [plan EXCEPT ![p] = @ \o EventsOf(t)]
      BY <1>5 DEF Prepare
    <3>2. /\ \A k \in DOMAIN plan[p] : plan[p][k].type \in {"remember", "supersede"}
          /\ UNCHANGED <<log, seen>>
      BY <1>5 DEF Prepare
    <3>. QED
      BY <1>0, <3>1, <3>2, ProposedType, PrepareFits
  <2>. QED
    BY <1>0, <1>3, <1>5, <2>1 DEF Prepare
<1>6. ASSUME NEW p \in Proc, NEW i \in Id, Change(p, Fulfill(i)) \/ Change(p, Purge(i))
      PROVE  TracesInv'
  <2>1. PICK e : e.type \in {"fulfill", "purge"} /\ plan'[p] = <<e>> /\ log' = log
    BY <1>0, <1>6 DEF Change, Fulfill, Purge
  <2>2. PlanFits(p)'
    BY <2>1 DEF PlanFits
  <2>. QED
    BY <1>0, <1>3, <1>6, <2>1, <2>2 DEF Change
<1>7. ASSUME NEW p \in Proc, Commit(p)
      PROVE  TracesInv'
  <2>1. Fits(log')
    BY <1>1, <1>7 DEF Commit
  <2>2. \A q \in Proc : PlanFits(q)'
    BY <1>0, <1>2, <1>7 DEF Commit
  <2>. QED
    BY <2>1, <2>2 DEF TracesInv, Fits
<1>8. ASSUME NEW p \in Proc, CutShort(p)
      PROVE  TracesInv'
  <2>1. PICK n \in 1..Len(plan[p]) : log' = log \o SubSeq(plan[p], 1, n)
    BY <1>8 DEF CutShort
  <2>2. n \in 0..Len(plan[p]) /\ SubSeq(plan[p], 1, n) \in Seq(Event)
    BY <1>0, LogCut
  <2>3. Fits(log')
    BY <1>0, <1>1, <1>8, <2>1, <2>2, BeginningFits DEF CutShort
  <2>4. \A q \in Proc : PlanFits(q)'
    BY <1>0, <1>2, <1>8, <2>1, <2>2 DEF CutShort
  <2>. QED
    BY <2>3, <2>4 DEF TracesInv, Fits
<1>9. CASE AcceptTail
  BY <1>9 DEF AcceptTail, TracesInv, PlanFits, View
<1>. QED
  BY <1>4, <1>5, <1>6, <1>7, <1>8, <1>9 DEF Next

\* Every event fits what stands before it in the log, whatever the process that
\* wrote it had seen: an id is given once, an outcome names a prediction open at
\* that time, a trace is superseded or fulfilled at most once and only while it is
\* active, purged at most once, and corrected by somebody who may.
THEOREM EventsFit == Spec => []TracesInv
<1>1. Init => TracesInv
  BY DEF Init, TracesInv, PlanFits
<1>2. TracesInv /\ UNCHANGED vars => TracesInv'
  BY DEF vars, TracesInv, PlanFits, View
<1>. QED
  BY <1>1, <1>2, TypeCorrect, TracesInvNext, PTL DEF Spec

\* Types, events that fit and plans that fit, from each step to the next.
THEOREM InductiveInvariant == Spec => []InductiveInv
<1>1. TypeOK /\ TracesInv => InductiveInv
  BY DEF InductiveInv
<1>. QED
  BY <1>1, TypeCorrect, EventsFit, PTL

-----------------------------------------------------------------------------
(* What it says of every log *)

\* An id is given to one trace, however stale the handles that chose it were.
THEOREM OneTracePerId == Spec => []IdsAreUnique
<1>1. TypeOK /\ TracesInv => IdsAreUnique
  BY OneRemember DEF TypeOK, TracesInv, Fits, IdsAreUnique, Remembers
<1>. QED
  BY <1>1, TypeCorrect, EventsFit, PTL

\* Of two corrections of one trace, both prepared while it was active, one applies.
THEOREM OneCorrectionApplies == Spec => []OneSupersession
<1>1. ASSUME TypeOK, TracesInv, NEW i \in Id
      PROVE  Cardinality(Superseders(i)) <= 1
  <2> DEFINE S == {j \in DOMAIN log : log[j].type = "supersede" /\ log[j].id = i}
  <2>1. \A j, k \in S : j = k
    <3> SUFFICES ASSUME NEW j \in S, NEW k \in S, j < k
                 PROVE  FALSE
      BY <1>1 DEF TypeOK
    <3>1. ~Changed(log, k, i)
      BY <1>1 DEF TracesInv, FitsAt
    <3>. QED
      BY <1>1, <3>1 DEF Changed, TypeOK
  <2>2. Superseders(i) = {log[j].new : j \in S}
    BY DEF Superseders
  <2> HIDE DEF S
  <2>3. CASE S = {}
    <3>1. Superseders(i) = {}
      BY <2>2, <2>3
    <3>. QED
      BY <3>1, FS_EmptySet
  <2>4. ASSUME NEW j \in S PROVE Cardinality(Superseders(i)) <= 1
    <3>1. Superseders(i) = {log[j].new}
      BY <2>1, <2>2
    <3>2. Cardinality({log[j].new}) = 1
      BY FS_Singleton
    <3>. QED
      BY <3>1, <3>2
  <2>. QED
    BY <2>3, <2>4
<1>2. TypeOK /\ TracesInv => OneSupersession
  BY <1>1 DEF OneSupersession
<1>. QED
  BY <1>2, TypeCorrect, EventsFit, PTL

\* In a log whose events fit, a correction was written by somebody who may make it.
LEMMA FittingIsAuthorized ==
  ASSUME TypeOK, TracesInv
  PROVE  CorrectionsAreAuthorized
<1>1. ASSUME NEW i \in Id, NEW n \in Superseders(i)
      PROVE  /\ ~TraceOf(log, n).model
             /\ TraceOf(log, i).verified => TraceOf(log, n).verified
  <2>0. Fits(log) /\ DOMAIN log = 1..Len(log) /\ Len(log) \in Nat
    BY DEF TypeOK, TracesInv, Fits
  <2>1. PICK k \in DOMAIN log : log[k].type = "supersede" /\ log[k].id = i /\ log[k].new = n
    BY DEF Superseders
  <2>2. Replaces(log, k) /\ Added(log, k, i)
    BY <2>0, <2>1 DEF Fits, FitsAt
  <2>3. k - 1 \in DOMAIN log /\ Remembers(log, k - 1, n)
    BY <2>0, <2>1, <2>2 DEF Replaces, Remembers
  <2>4. TraceOf(log, n) = log[k-1].trace
    BY <2>0, <2>3, OneRemember
  <2>5. PICK j \in 1..k-1 : Remembers(log, j, i)
    BY <2>2 DEF Added
  <2>6. TraceOf(log, i) = log[j].trace
    BY <2>0, <2>1, <2>5, OneRemember
  <2>. QED
    BY <2>1, <2>2, <2>4, <2>5, <2>6 DEF Replaces
<1>. QED
  BY <1>1 DEF CorrectionsAreAuthorized

\* A correction that applied was written by somebody who may make it, also where
\* its author had seen only an older log.
THEOREM OnlyTheAuthorizedCorrect == Spec => []CorrectionsAreAuthorized
  BY FittingIsAuthorized, TypeCorrect, EventsFit, PTL

\* Whatever was written between the forecast a caller saw and the outcome it
\* stored, the outcome names a prediction that was still open.
THEOREM OutcomesNameOpenPredictions == Spec => []OutcomesResolveOpenPredictions
<1>1. ASSUME TypeOK, TracesInv, NEW k \in DOMAIN log, log[k].type = "remember",
             log[k].trace.outcome # NoId
      PROVE  /\ Active(SubSeq(log, 1, k - 1), log[k].trace.outcome)
             /\ TraceOf(SubSeq(log, 1, k - 1), log[k].trace.outcome).kind = "prediction"
  <2> DEFINE o == log[k].trace.outcome
             m == SubSeq(log, 1, k - 1)
  <2>0. Fits(log) /\ log \in Seq(Event) /\ k - 1 \in 0..Len(log)
    BY <1>1 DEF TypeOK, TracesInv, Fits
  <2>1. Fits(m) /\ DOMAIN m = 1..k-1 /\ \A j \in 1..k-1 : m[j] = log[j]
    BY <2>0, FitsCut, LogCut
  <2>2. Resolves(log, k)
    BY <1>1 DEF TracesInv, FitsAt
  <2>3. ~Changed(log, k, o)
    BY <1>1, <2>2 DEF Resolves
  <2>4. PICK j \in 1..k-1 : Remembers(log, j, o) /\ log[j].trace.kind = "prediction"
    BY <1>1, <2>2 DEF Resolves
  <2> HIDE DEF o, m
  <2>5. j \in DOMAIN m /\ Remembers(m, j, o) /\ m[j].trace.kind = "prediction"
    BY <2>1, <2>4 DEF Remembers
  <2>6. TraceOf(m, o).kind = "prediction"
    BY <2>1, <2>5, OneRemember
  <2>7. Active(m, o)
    <3>1. Known(m, o)
      BY <2>5 DEF Known
    <3>2. \A h \in DOMAIN m : m[h].id = o => m[h].type = "remember"
      BY <2>1, <2>3 DEF Changed
    <3>. QED
      BY <2>1, <3>1, <3>2, ActiveIs
  <2>. QED
    BY <2>6, <2>7 DEF o, m
<1>2. TypeOK /\ TracesInv => OutcomesResolveOpenPredictions
  BY <1>1 DEF OutcomesResolveOpenPredictions
<1>. QED
  BY <1>2, TypeCorrect, EventsFit, PTL

-----------------------------------------------------------------------------
(* The life of a trace *)

\* What b may change about traces that l knows, and about others not.
Settled(l, b) == \A k \in DOMAIN b : b[k].type # "remember" => Known(l, b[k].id)

\* A batch changes only traces that were there before it: not those it adds.
LEMMA ChangesAreOld ==
  ASSUME NEW l, Fits(l), NEW n \in 0..Len(l), NEW b \in Seq(Event),
         Drafted(SubSeq(l, 1, n), b), ValidBatch(l, b)
  PROVE  Settled(l, b)
<1> SUFFICES ASSUME NEW k \in DOMAIN b, b[k].type # "remember"
             PROVE  Known(l, b[k].id)
  BY DEF Settled
<1>0. DOMAIN b = 1..Len(b) /\ Len(b) \in Nat
      /\ b[k].type \in {"remember", "supersede", "fulfill", "purge"}
  BY EventFields
<1>1. CASE b[k].type = "supersede"
  <2>1. Known(SubSeq(l, 1, n), b[k].id)
    BY <1>1 DEF Drafted
  <2>. QED
    BY <2>1, SeenIsKnown
<1>2. CASE b[k].type \in {"fulfill", "purge"}
  <2>1. k = 1
    BY <1>0, <1>2 DEF Drafted
  <2>2. Exists(l, b, k, b[k].id)
    <3>1. b[k].type = "fulfill" => ValidFulfill(l, b, k)
      BY DEF ValidBatch
    <3>2. b[k].type = "purge" => ValidPurge(l, b, k)
      BY DEF ValidBatch
    <3>. QED
      BY <1>2, <3>1, <3>2 DEF ValidFulfill, ValidPurge
  <2>. QED
    BY <2>1, <2>2 DEF Exists, Added
<1>. QED
  BY <1>0, <1>1, <1>2

\* When a log that fits goes on and fits, every trace stays as it is or takes
\* one of the moves of its life.
LEMMA StatusGoesOn ==
  ASSUME NEW l, Fits(l), NEW b \in Seq(Event), Fits(l \o b), Settled(l, b), NEW i
  PROVE  Status(l \o b, i) # Status(l, i) => <<Status(l, i), Status(l \o b, i)>> \in Moves
<1> DEFINE L == l \o b
<1>0. l \in Seq(Event) /\ DOMAIN l = 1..Len(l) /\ DOMAIN b = 1..Len(b) /\ Len(l) \in Nat
  BY DEF Fits
<1>1. /\ \A k \in DOMAIN l : k \in DOMAIN L /\ L[k] = l[k]
      /\ \A k \in DOMAIN L : (k \in DOMAIN l /\ L[k] = l[k]) \/ \E m \in DOMAIN b : L[k] = b[m]
  <2>1. /\ DOMAIN L = 1..Len(l) + Len(b)
        /\ \A k \in 1..Len(l) : L[k] = l[k]
        /\ \A k \in 1..Len(b) : L[Len(l) + k] = b[k]
        /\ \A k \in DOMAIN L : k \in 1..Len(l) \/ \E m \in 1..Len(b) : k = Len(l) + m
    BY <1>0, LogGoesOn
  <2> HIDE DEF L
  <2>2. Len(b) \in Nat
    OBVIOUS
  <2>3. \A k \in DOMAIN l : k \in DOMAIN L /\ L[k] = l[k]
    BY <1>0, <2>1, <2>2
  <2>4. \A k \in DOMAIN L : (k \in DOMAIN l /\ L[k] = l[k]) \/ \E m \in DOMAIN b : L[k] = b[m]
    <3> SUFFICES ASSUME NEW k \in DOMAIN L, NEW m \in 1..Len(b), k = Len(l) + m
                 PROVE  \E h \in DOMAIN b : L[k] = b[h]
      BY <1>0, <2>1
    <3>. QED
      BY <1>0, <2>1
  <2>. QED
    BY <2>3, <2>4
<1>2. Known(L, i) <=> Known(l, i) \/ Known(b, i)
  BY <1>0, KnownGoesOn
<1>3. Fits(L)
  OBVIOUS
<1> HIDE DEF L
<1>4. CASE ~Known(l, i)
  <2>1. \A k \in DOMAIN l : l[k].id = i => l[k].type = "remember"
    <3> SUFFICES ASSUME NEW k \in DOMAIN l, l[k].id = i, l[k].type # "remember"
                 PROVE  FALSE
      OBVIOUS
    <3>1. Added(l, k, i)
      BY DEF Fits, FitsAt
    <3>. QED
      BY <1>0, <1>4, <3>1 DEF Added, Known
  <2>2. \A k \in DOMAIN L : L[k].id = i => L[k].type = "remember"
    BY <1>1, <1>4, <2>1 DEF Settled
  <2>3. Status(l, i) = "unknown"
    BY <1>4, StatusIs
  <2>4. Known(L, i) => Status(L, i) = "active"
    BY <1>3, <2>2, ActiveIs DEF Active
  <2>5. ~Known(L, i) => Status(L, i) = "unknown"
    BY <1>3, StatusIs
  <2>. QED
    BY <2>3, <2>4, <2>5 DEF Moves, L
<1>5. CASE Known(l, i)
  <2>1. Known(L, i)
    BY <1>2, <1>5
  <2>2. /\ Purged(l, i) => Purged(L, i)
        /\ Superseded(l, i) => Superseded(L, i)
        /\ Fulfilled(l, i) => Fulfilled(L, i)
    BY <1>1 DEF Purged, Superseded, Fulfilled
  <2>3. Status(L, i) \in {"active", "superseded", "fulfilled", "purged"}
    BY <1>3, <2>1, StatusIs
  <2>4. CASE Purged(l, i)
    BY <1>3, <1>5, <2>1, <2>2, <2>4, StatusIs DEF L
  <2>5. CASE ~Purged(l, i) /\ Superseded(l, i)
    <3>1. Status(l, i) = "superseded" /\ Status(L, i) \in {"superseded", "purged"}
      BY <1>3, <1>5, <2>1, <2>2, <2>5, StatusIs
    <3>. QED
      BY <3>1 DEF Moves, L
  <2>6. CASE ~Purged(l, i) /\ Fulfilled(l, i)
    <3>1. Status(l, i) = "fulfilled" /\ Status(L, i) \in {"fulfilled", "purged"}
      BY <1>3, <1>5, <2>1, <2>2, <2>6, StatusIs
    <3>. QED
      BY <3>1 DEF Moves, L
  <2>7. CASE ~Purged(l, i) /\ ~Superseded(l, i) /\ ~Fulfilled(l, i)
    <3>1. Status(l, i) = "active"
      BY <1>5, <2>7, StatusIs
    <3>. QED
      BY <2>3, <3>1 DEF Moves, L
  <2>. QED
    BY <2>4, <2>5, <2>6, <2>7
<1>. QED
  BY <1>4, <1>5

\* The log is what it was, or it goes on with a beginning of a batch that was
\* drafted on an older log and passes the checks on this one.
LEMMA LogSteps ==
  ASSUME TypeOK, TracesInv, [Next]_vars
  PROVE  \/ log' = log
         \/ \E c \in Seq(Event) : log' = log \o c /\ Fits(log') /\ Settled(log, c)
<1>0. Fits(log) /\ \A p \in Proc : /\ plan[p] \in Seq(Event) /\ seen[p] \in 0..Len(log)
                                   /\ PlanFits(p)
  BY DEF TypeOK, TracesInv, Fits
<1>1. ASSUME NEW p \in Proc, MayWrite(p)
      PROVE  Fits(log \o plan[p]) /\ Settled(log, plan[p])
  <2>1. Drafted(SubSeq(log, 1, seen[p]), plan[p])
    BY <1>0, PlanIsDrafted DEF View
  <2>. QED
    BY <1>0, <1>1, <2>1, ValidBatchFits, ChangesAreOld DEF MayWrite
<1>2. ASSUME NEW p \in Proc, Commit(p)
      PROVE  \E c \in Seq(Event) : log' = log \o c /\ Fits(log') /\ Settled(log, c)
  BY <1>0, <1>1, <1>2 DEF Commit
<1>3. ASSUME NEW p \in Proc, CutShort(p)
      PROVE  \E c \in Seq(Event) : log' = log \o c /\ Fits(log') /\ Settled(log, c)
  <2>1. PICK n \in 1..Len(plan[p]) : log' = log \o SubSeq(plan[p], 1, n)
    BY <1>3 DEF CutShort
  <2> DEFINE c == SubSeq(plan[p], 1, n)
  <2>2. n \in 0..Len(plan[p]) /\ MayWrite(p)
    BY <1>0, <1>3 DEF CutShort
  <2>3. c \in Seq(Event) /\ Len(c) = n /\ DOMAIN c = 1..n /\ \A k \in 1..n : c[k] = plan[p][k]
    BY <1>0, <2>2, LogCut
  <2>4. Fits(log \o c)
    BY <1>0, <1>1, <2>2, BeginningFits DEF Fits
  <2>5. \A k \in DOMAIN c : k \in DOMAIN plan[p]
    BY <1>0, <2>3
  <2> HIDE DEF c
  <2>6. Settled(log, c)
    BY <1>1, <2>2, <2>3, <2>5 DEF Settled
  <2>. QED
    BY <2>1, <2>3, <2>4, <2>6 DEF c
<1>4. ASSUME NEW p \in Proc, Open(p) \/ Prepare(p) \/ Refuse(p)
                              \/ \E i \in Id : Change(p, Fulfill(i)) \/ Change(p, Purge(i))
      PROVE  log' = log
  BY <1>4 DEF Open, Prepare, Refuse, Change
<1>5. CASE AcceptTail \/ UNCHANGED vars
  BY <1>5 DEF AcceptTail, vars
<1>. QED
  BY <1>2, <1>3, <1>4, <1>5 DEF Next

\* However stale the handles are that the writes were prepared with, no step
\* undoes what became of a trace or decides it a second time; a batch that is cut
\* short does not either.
THEOREM LivesGoForward == Spec => StatusMoves
<1>1. TypeOK /\ TracesInv /\ [Next]_vars =>
        [\A i \in Id : Status(log', i) # Status(log, i) =>
                         <<Status(log, i), Status(log', i)>> \in Moves]_log
  <2> SUFFICES ASSUME TypeOK, TracesInv, [Next]_vars, log' # log, NEW i \in Id
               PROVE  Status(log', i) # Status(log, i) => <<Status(log, i), Status(log', i)>> \in Moves
    OBVIOUS
  <2>1. PICK c \in Seq(Event) : log' = log \o c /\ Fits(log') /\ Settled(log, c)
    BY LogSteps
  <2>2. Fits(log)
    BY DEF TypeOK, TracesInv, Fits
  <2>. QED
    BY <2>1, <2>2, StatusGoesOn
<1>. QED
  BY <1>1, TypeCorrect, EventsFit, PTL DEF Spec, StatusMoves

-----------------------------------------------------------------------------
(* Stores where no write was ever cut short *)

\* Both halves of every correction are there, next to each other.
LEMMA WholeNext ==
  ASSUME MaxTorn = 0, TypeOK, TracesInv, CorrectionsAreWhole, [Next]_vars
  PROVE  CorrectionsAreWhole'
<1>1. CASE log' = log
  BY <1>1 DEF CorrectionsAreWhole
<1>2. ASSUME NEW p \in Proc, Commit(p)
      PROVE  CorrectionsAreWhole'
  <2> DEFINE b == plan[p]
             N == Len(log)
  <2>0. log \in Seq(Event) /\ N \in Nat /\ b \in Seq(Event) /\ Len(b) \in Nat /\ DOMAIN b = 1..Len(b)
        /\ PlanFits(p) /\ log' = log \o b /\ DOMAIN log = 1..N
    BY <1>2 DEF TypeOK, TracesInv, Commit
  <2>1. /\ Len(log') = N + Len(b)
        /\ \A k \in 1..N : log'[k] = log[k]
        /\ \A k \in 1..Len(b) : log'[N + k] = b[k]
        /\ \A k \in DOMAIN log' : k \in 1..N \/ \E m \in 1..Len(b) : k = N + m
    BY <2>0, LogGoesOn
  <2> HIDE DEF b, N
  <2> SUFFICES ASSUME NEW k \in DOMAIN log', log'[k].type = "remember",
                      log'[k].trace.supersedes # NoId
               PROVE  k < Len(log') /\ log'[k+1] = Supersede(log'[k].trace.supersedes, log'[k].id)
    BY DEF CorrectionsAreWhole
  <2>2. CASE k \in 1..N
    <3>1. k < N /\ log[k+1] = Supersede(log[k].trace.supersedes, log[k].id)
      BY <2>0, <2>1, <2>2 DEF CorrectionsAreWhole, N
    <3>2. k + 1 \in 1..N
      BY <2>0, <2>2, <3>1
    <3>. QED
      BY <2>0, <2>1, <2>2, <3>1, <3>2
  <2>3. ASSUME NEW m \in 1..Len(b), k = N + m
        PROVE  k < Len(log') /\ log'[k+1] = Supersede(log'[k].trace.supersedes, log'[k].id)
    <3>1. log'[k] = b[m]
      BY <2>1, <2>3
    <3>2. m < Len(b) /\ b[m+1] = Supersede(b[m].trace.supersedes, b[m].id)
      BY <2>0, <3>1 DEF PlanFits, b
    <3>3. m + 1 \in 1..Len(b) /\ k + 1 = N + (m + 1) /\ k < N + Len(b)
      BY <2>0, <2>3, <3>2
    <3>. QED
      BY <2>1, <3>1, <3>2, <3>3
  <2>. QED
    BY <2>1, <2>2, <2>3
<1>3. ASSUME NEW p \in Proc
      PROVE  ~CutShort(p)
  BY DEF CutShort, TypeOK
<1>4. ASSUME NEW p \in Proc, Open(p) \/ Prepare(p) \/ Refuse(p)
                              \/ \E i \in Id : Change(p, Fulfill(i)) \/ Change(p, Purge(i))
      PROVE  log' = log
  BY <1>4 DEF Open, Prepare, Refuse, Change
<1>5. AcceptTail \/ UNCHANGED vars => log' = log
  BY DEF AcceptTail, vars
<1>. QED
  BY <1>1, <1>2, <1>3, <1>4, <1>5 DEF Next

\* As long as no write stops half way, whoever remembers a correction supersedes
\* what it corrects in the very next event.
THEOREM CorrectionsStayWhole ==
  ASSUME MaxTorn = 0
  PROVE  Spec => []CorrectionsAreWhole
<1>1. Init => CorrectionsAreWhole
  BY DEF Init, CorrectionsAreWhole
<1>. QED
  BY <1>1, WholeNext, TypeCorrect, EventsFit, PTL DEF Spec

\* As long as no write stops half way, the successor that recall and why show of
\* a trace is the one whose supersession the ledger applied; Traces_links shows
\* that one torn write is enough to break it.
THEOREM LinksShowWhatApplied ==
  ASSUME MaxTorn = 0
  PROVE  Spec => []LinksApplied
<1>1. ASSUME TypeOK, TracesInv, CorrectionsAreWhole, NEW i \in Id, NEW n \in Successors(i)
      PROVE  n \in Superseders(i) /\ ~Active(log, i)
  <2>0. Fits(log) /\ DOMAIN log = 1..Len(log) /\ Len(log) \in Nat /\ i # NoId
    BY <1>1, TracesAssumption DEF TypeOK, TracesInv, Fits
  <2>1. PICK k \in DOMAIN log : Remembers(log, k, n)
    BY DEF Successors, Known
  <2>2. log[k].trace.supersedes = i
    BY <2>0, <2>1, OneRemember DEF Successors
  <2>3. k < Len(log) /\ log[k+1] = Supersede(i, n)
    BY <1>1, <2>0, <2>1, <2>2 DEF CorrectionsAreWhole, Remembers
  <2>4. k + 1 \in DOMAIN log
    BY <2>0, <2>3
  <2>5. log[k+1].type = "supersede" /\ log[k+1].id = i /\ log[k+1].new = n
    BY <2>3 DEF Supersede
  <2>6. n \in Superseders(i)
    BY <2>4, <2>5 DEF Superseders
  <2>. QED
    BY <2>0, <2>4, <2>5, <2>6, ActiveIs
<1>2. TypeOK /\ TracesInv /\ CorrectionsAreWhole => LinksApplied
  BY <1>1 DEF LinksApplied, RecallLinksApplied, WhyLinksApplied
<1>. QED
  BY <1>2, TypeCorrect, EventsFit, CorrectionsStayWhole, PTL

\* What a trace replaces was remembered, is no longer active, and is replaced by
\* no other; and however many links away, no trace replaces itself.
Linked(l) ==
  LET corrections == {i \in Id : Known(l, i) /\ TraceOf(l, i).supersedes # NoId}
      Old(i) == TraceOf(l, i).supersedes
  IN /\ \A i \in corrections : Known(l, Old(i)) /\ ~Active(l, Old(i))
     /\ \A i, j \in corrections : Old(i) = Old(j) => i = j
     /\ \A T \in (SUBSET corrections) \ {{}} : \E i \in T : Old(i) \notin T

\* However stale the handle, a command that follows `supersedes' from trace to
\* trace, or back, finds at most one of each and comes to an end (why.rs, recall.rs).
HandlesSeeLinkedTraces == \A p \in Proc : Linked(View(p))

\* A set of places that is not empty has a first one.
LEMMA FirstPlace ==
  ASSUME NEW n \in Nat, NEW S \in SUBSET (1..n), S # {}
  PROVE  \E m \in S : \A k \in S : m <= k
<1> DEFINE T == {(n + 1) - k : k \in S}
<1>1. T \in SUBSET (1..n) /\ T # {}
  <2>1. \A k \in S : (n + 1) - k \in 1..n
    OBVIOUS
  <2>. QED
    BY <2>1
<1>2. PICK x \in T : \A y \in T : y <= x
  <2> HIDE DEF T
  <2>. QED
    BY <1>1, LastPlace
<1>3. PICK m \in S : x = (n + 1) - m
  OBVIOUS
<1>4. ASSUME NEW k \in S
      PROVE  m <= k
  <2>1. (n + 1) - k <= x
    BY <1>2
  <2>. QED
    BY <1>3, <2>1
<1>. QED
  BY <1>4

\* In every part of the log that a handle has replayed a correction has both halves.
HandlesSeeWhole ==
  /\ \A k \in DOMAIN log : log[k].type = "remember" => log[k].trace.supersedes # log[k].id
  /\ \A p \in Proc : \A k \in 1..seen[p] :
       log[k].type = "remember" /\ log[k].trace.supersedes # NoId => k < seen[p]

LEMMA HandlesNext ==
  ASSUME MaxTorn = 0, TypeOK, TracesInv, CorrectionsAreWhole, HandlesSeeWhole, [Next]_vars
  PROVE  HandlesSeeWhole'
<1>0. /\ log \in Seq(Event) /\ Len(log) \in Nat /\ DOMAIN log = 1..Len(log)
      /\ seen \in [Proc -> 0..Len(log)]
  BY DEF TypeOK
\* A handle that catches up.
<1>1. ASSUME NEW p \in Proc, seen' = [seen EXCEPT ![p] = Len(log)], log' = log
      PROVE  HandlesSeeWhole'
  <2>1. \A k \in 1..Len(log) : log[k].type = "remember" /\ log[k].trace.supersedes # NoId => k < Len(log)
    BY <1>0 DEF CorrectionsAreWhole
  <2>2. \A q \in Proc : seen'[q] = IF q = p THEN Len(log) ELSE seen[q]
    BY <1>0, <1>1
  <2>. QED
    BY <1>1, <2>1, <2>2, Zenon DEF HandlesSeeWhole
<1>2. ASSUME NEW p \in Proc, Commit(p)
      PROVE  HandlesSeeWhole'
  <2> DEFINE b == plan[p]
             N == Len(log)
  <2>0. log \in Seq(Event) /\ N \in Nat /\ b \in Seq(Event) /\ Len(b) \in Nat /\ DOMAIN b = 1..Len(b)
        /\ PlanFits(p) /\ ValidBatch(log, b) /\ log' = log \o b /\ DOMAIN log = 1..N
        /\ seen' = [seen EXCEPT ![p] = Len(log')]
    BY <1>2 DEF TypeOK, TracesInv, Commit, MayWrite
  <2>1. /\ Len(log') = N + Len(b) /\ DOMAIN log' = 1..Len(log')
        /\ \A k \in 1..N : log'[k] = log[k]
        /\ \A k \in 1..Len(b) : log'[N + k] = b[k]
        /\ \A k \in DOMAIN log' : k \in 1..N \/ \E m \in 1..Len(b) : k = N + m
    <3>1. log' \in Seq(Event)
      BY <2>0, LogGoesOn
    <3>. QED
      BY <2>0, <3>1, LogGoesOn
  <2>2. CorrectionsAreWhole'
    BY WholeNext
  <2>3. \A m \in 1..Len(b) : b[m].type = "remember" => b[m].trace.supersedes # b[m].id
    <3> SUFFICES ASSUME NEW m \in 1..Len(b), b[m].type = "remember"
                 PROVE  b[m].trace.supersedes # b[m].id
      OBVIOUS
    <3>1. b[m].trace.id = b[m].id
      BY <2>0 DEF PlanFits
    <3>2. ValidRemember(log, b, m)
      BY <2>0 DEF ValidBatch
    <3>. QED
      BY <3>1, <3>2 DEF ValidRemember, Valid
  <2> HIDE DEF b, N
  <2>4. \A k \in DOMAIN log' : log'[k].type = "remember" => log'[k].trace.supersedes # log'[k].id
    <3> SUFFICES ASSUME NEW k \in DOMAIN log', log'[k].type = "remember"
                 PROVE  log'[k].trace.supersedes # log'[k].id
      OBVIOUS
    <3>1. CASE k \in 1..N
      BY <2>0, <2>1, <3>1 DEF HandlesSeeWhole
    <3>2. CASE \E m \in 1..Len(b) : k = N + m
      BY <2>1, <2>3, <3>2
    <3>. QED
      BY <2>1, <3>1, <3>2
  <2>5. ASSUME NEW q \in Proc, NEW k \in 1..seen'[q], log'[k].type = "remember",
               log'[k].trace.supersedes # NoId
        PROVE  k < seen'[q]
    <3>1. CASE q = p
      <4>1. seen'[q] = Len(log')
        BY <1>0, <2>0, <3>1
      <4>2. k \in DOMAIN log'
        BY <2>1, <4>1
      <4>. QED
        BY <2>2, <2>5, <4>1, <4>2 DEF CorrectionsAreWhole
    <3>2. CASE q # p
      <4>1. seen'[q] = seen[q] /\ seen[q] \in 0..N
        BY <1>0, <2>0, <3>2 DEF N
      <4>2. k \in 1..seen[q] /\ k \in 1..N
        BY <2>0, <4>1
      <4>3. log'[k] = log[k]
        BY <2>1, <4>2
      <4>. QED
        BY <2>5, <4>1, <4>2, <4>3 DEF HandlesSeeWhole
    <3>. QED
      BY <3>1, <3>2
  <2>. QED
    BY <2>4, <2>5 DEF HandlesSeeWhole
<1>3. ASSUME NEW p \in Proc
      PROVE  ~CutShort(p)
  BY DEF CutShort, TypeOK
<1>4. ASSUME NEW p \in Proc, Open(p) \/ Refuse(p)
      PROVE  HandlesSeeWhole'
  BY <1>1, <1>4 DEF Open, Refuse
<1>5. ASSUME log' = log, seen' = seen
      PROVE  HandlesSeeWhole'
  BY <1>5 DEF HandlesSeeWhole
<1>6. ASSUME NEW p \in Proc, Prepare(p) \/ \E i \in Id : Change(p, Fulfill(i)) \/ Change(p, Purge(i))
      PROVE  HandlesSeeWhole'
  BY <1>5, <1>6 DEF Prepare, Change
<1>7. AcceptTail \/ UNCHANGED vars => HandlesSeeWhole'
  BY <1>5 DEF AcceptTail, vars
<1>. QED
  BY <1>2, <1>3, <1>4, <1>6, <1>7 DEF Next

\* A history whose corrections are whole is linked.
LEMMA WholeIsLinked ==
  ASSUME NEW l, Fits(l),
         \A k \in DOMAIN l : l[k].type = "remember" => l[k].trace.supersedes # l[k].id,
         \A k \in DOMAIN l : l[k].type = "remember" /\ l[k].trace.supersedes # NoId =>
           k + 1 \in DOMAIN l /\ l[k+1] = Supersede(l[k].trace.supersedes, l[k].id)
  PROVE  Linked(l)
<1> DEFINE corrections == {i \in Id : Known(l, i) /\ TraceOf(l, i).supersedes # NoId}
           Old(i) == TraceOf(l, i).supersedes
<1>0. DOMAIN l = 1..Len(l) /\ Len(l) \in Nat /\ \A k \in DOMAIN l : FitsAt(l, k)
  BY DEF Fits
<1>1. ASSUME NEW i \in corrections
      PROVE  \E k \in DOMAIN l : /\ Remembers(l, k, i) /\ k + 1 \in DOMAIN l
                                 /\ l[k+1].type = "supersede" /\ l[k+1].id = Old(i) /\ l[k+1].new = i
                                 /\ \E j \in 1..k-1 : Remembers(l, j, Old(i))
  <2>1. PICK k \in DOMAIN l : Remembers(l, k, i)
    BY DEF Known
  <2>2. Old(i) = l[k].trace.supersedes /\ l[k].type = "remember" /\ l[k].id = i
    BY <2>1, OneRemember DEF Remembers
  <2>3. k + 1 \in DOMAIN l /\ l[k+1] = Supersede(Old(i), i) /\ Old(i) # i
    BY <2>1, <2>2
  <2>4. l[k+1].type = "supersede" /\ l[k+1].id = Old(i) /\ l[k+1].new = i
    BY <2>3 DEF Supersede
  <2>5. Added(l, k + 1, Old(i))
    BY <1>0, <2>3, <2>4 DEF FitsAt
  <2>6. PICK j \in 1..k : Remembers(l, j, Old(i))
    BY <1>0, <2>5 DEF Added
  <2>7. j # k
    BY <2>2, <2>3, <2>6 DEF Remembers
  <2>8. j \in 1..k-1
    BY <1>0, <2>7
  <2>. QED
    BY <2>1, <2>3, <2>4, <2>6, <2>8
<1>2. ASSUME NEW i \in corrections
      PROVE  Known(l, Old(i)) /\ ~Active(l, Old(i))
  <2>1. PICK k \in DOMAIN l : /\ k + 1 \in DOMAIN l /\ l[k+1].type = "supersede" /\ l[k+1].id = Old(i)
                              /\ \E j \in 1..k-1 : Remembers(l, j, Old(i))
    BY <1>1
  <2>2. Known(l, Old(i))
    BY <1>0, <2>1 DEF Known
  <2>. QED
    BY <2>1, <2>2, ActiveIs
<1>3. ASSUME NEW i \in corrections, NEW j \in corrections, Old(i) = Old(j)
      PROVE  i = j
  <2>1. PICK k \in DOMAIN l : /\ k + 1 \in DOMAIN l /\ l[k+1].type = "supersede"
                              /\ l[k+1].id = Old(i) /\ l[k+1].new = i
    BY <1>1
  <2>2. PICK m \in DOMAIN l : /\ m + 1 \in DOMAIN l /\ l[m+1].type = "supersede"
                              /\ l[m+1].id = Old(j) /\ l[m+1].new = j
    BY <1>1
  <2>3. ~ (k < m) /\ ~ (m < k)
    <3>1. ~Changed(l, k + 1, Old(i)) /\ ~Changed(l, m + 1, Old(i))
      BY <1>0, <1>3, <2>1, <2>2 DEF FitsAt
    <3>2. k < m => k + 1 \in 1..(m + 1) - 1
      BY <1>0
    <3>3. m < k => m + 1 \in 1..(k + 1) - 1
      BY <1>0
    <3>. QED
      BY <1>3, <2>1, <2>2, <3>1, <3>2, <3>3 DEF Changed
  <2>4. k = m
    BY <1>0, <2>3
  <2>. QED
    BY <2>1, <2>2, <2>4
<1>4. ASSUME NEW T \in (SUBSET corrections) \ {{}}
      PROVE  \E i \in T : Old(i) \notin T
  <2> DEFINE P == {k \in DOMAIN l : l[k].type = "remember" /\ l[k].id \in T}
  <2>1. \A i \in T : i \in corrections
    OBVIOUS
  <2>2. P \in SUBSET (1..Len(l)) /\ P # {}
    <3>1. PICK i \in T : TRUE
      OBVIOUS
    <3>2. PICK k \in DOMAIN l : Remembers(l, k, i)
      BY <1>1, <2>1
    <3>3. k \in P
      BY <3>2 DEF Remembers
    <3>. QED
      BY <1>0, <3>3
  <2>3. PICK m \in P : \A k \in P : m <= k
    <3> HIDE DEF P
    <3>. QED
      BY <1>0, <2>2, FirstPlace
  <2>4. PICK i \in T : i = l[m].id /\ m \in DOMAIN l /\ Remembers(l, m, i)
    BY DEF Remembers
  <2>5. PICK k \in DOMAIN l : Remembers(l, k, i) /\ \E j \in 1..k-1 : Remembers(l, j, Old(i))
    BY <1>1, <2>1
  <2>6. k = m
    BY <2>4, <2>5, OneRemember
  <2>7. PICK j \in 1..m-1 : Remembers(l, j, Old(i))
    BY <2>5, <2>6
  <2>8. j \in DOMAIN l /\ ~ (m <= j)
    BY <1>0, <2>4
  <2>9. Old(i) \in T => j \in P
    BY <2>7, <2>8 DEF Remembers
  <2>. QED
    BY <2>3, <2>8, <2>9
<1>. QED
  BY <1>2, <1>3, <1>4, Zenon DEF Linked

\* As long as no write stops half way, what a handle has replayed is linked, however
\* stale it is: what Readers assumes of a memory.
THEOREM MemoriesAreLinked ==
  ASSUME MaxTorn = 0
  PROVE  Spec => []HandlesSeeLinkedTraces
<1>1. Init => HandlesSeeWhole
  BY DEF Init, HandlesSeeWhole
<1>2. TypeOK /\ TracesInv /\ CorrectionsAreWhole /\ HandlesSeeWhole => HandlesSeeLinkedTraces
  <2> SUFFICES ASSUME TypeOK, TracesInv, CorrectionsAreWhole, HandlesSeeWhole, NEW p \in Proc
               PROVE  Linked(View(p))
    BY DEF HandlesSeeLinkedTraces
  <2> DEFINE n == seen[p]
  <2>0. Fits(log) /\ log \in Seq(Event) /\ n \in 0..Len(log) /\ DOMAIN log = 1..Len(log) /\ Len(log) \in Nat
    BY DEF TypeOK, TracesInv, Fits
  <2>1. PICK l : l = View(p)
    OBVIOUS
  <2>2. Fits(l) /\ DOMAIN l = 1..n /\ \A k \in 1..n : l[k] = log[k] /\ k \in DOMAIN log
    BY <2>0, <2>1, FitsCut, LogCut DEF View
  <2> HIDE DEF n
  <2>3. \A k \in DOMAIN l : l[k].type = "remember" => l[k].trace.supersedes # l[k].id
    BY <2>2 DEF HandlesSeeWhole
  <2>4. ASSUME NEW k \in DOMAIN l, l[k].type = "remember", l[k].trace.supersedes # NoId
        PROVE  k + 1 \in DOMAIN l /\ l[k+1] = Supersede(l[k].trace.supersedes, l[k].id)
    <3>1. k < n /\ log[k+1] = Supersede(log[k].trace.supersedes, log[k].id)
      BY <2>2, <2>4 DEF HandlesSeeWhole, CorrectionsAreWhole, n
    <3>2. k + 1 \in 1..n
      BY <2>0, <2>2, <3>1
    <3>. QED
      BY <2>2, <3>1, <3>2
  <2>. QED
    BY <2>1, <2>2, <2>3, <2>4, WholeIsLinked
<1>3. HandlesSeeWhole /\ TypeOK /\ TracesInv /\ CorrectionsAreWhole /\ [Next]_vars => HandlesSeeWhole'
  BY HandlesNext
<1>. QED
  BY <1>1, <1>2, <1>3, TypeCorrect, EventsFit, CorrectionsStayWhole, PTL DEF Spec

=============================================================================
