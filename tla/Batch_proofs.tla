----------------------------- MODULE Batch_proofs -----------------------------
(***************************************************************************)
(* Theorems about the commands that write records, for every number of     *)
(* processes, ids, records and environments.  Each step of a command is a  *)
(* step of Traces, draws up one record, or throws a plan away; so the      *)
(* inductive invariant of Traces goes on to hold, and what it says of the  *)
(* log says what a command and an agent may have left there.               *)
(***************************************************************************)
EXTENDS Batch, Traces_proofs

\* The types of the variables Batch adds.
BatchTypeOK ==
  /\ input \in [Proc -> Seq(Record)]
  /\ written \in [Proc -> Nat]
  /\ stage \in [Proc -> {"idle", "writing", "refused"}]
  /\ ids \in [Proc -> Seq(Id)]
  /\ byAgent \subseteq Id

\* The trace of p's k-th record is in the log, as the input said.
Wrote(p, k) ==
  \E n \in DOMAIN log :
    /\ Remembers(log, n, ids[p][k])
    /\ log[n].trace = Draft(input[p][k].draft, ids[p][k], input[p][k].supersedes, NoId)

\* A command that writes has one trace in the log for each record before the one
\* it is at, and plans that one or nothing; a process that runs none of these
\* commands plans a purge or nothing.
CommandFits(p) ==
  /\ stage[p] # "writing" =>
       /\ ids[p] = <<>> /\ input[p] = <<>>
       /\ plan[p] = <<>> \/ \E i \in Id : plan[p] = <<Purge(i)>>
  /\ stage[p] = "writing" =>
       /\ written[p] = Len(ids[p])
       /\ plan[p] # <<>> =>
            written[p] < Len(input[p]) /\ \E i \in Id : plan[p] = EventsOf(TraceFor(p, i))
  /\ Len(ids[p]) <= Len(input[p])
  /\ \A k \in 1..Len(ids[p]) : Wrote(p, k)
  /\ \A j, k \in 1..Len(ids[p]) : ids[p][j] = ids[p][k] => j = k

BatchInv ==
  /\ BatchTypeOK
  /\ acked = Len(log)
  /\ \A p \in Proc : CommandFits(p)

-----------------------------------------------------------------------------
(* One step of a command is a step of Traces, or a plan of its own *)

\* The trace of the record a command is at.
LEMMA CurrentTrace ==
  ASSUME BatchTypeOK, NEW p \in Proc, written[p] < Len(input[p]), NEW i \in Id
  PROVE  /\ Current(p) \in Record /\ TraceFor(p, i) \in Trace
         /\ TraceFor(p, i).id = i /\ TraceFor(p, i).verified = Current(p).draft.verified
<1>1. Current(p) \in Record
  <2>1. input[p] \in Seq(Record) /\ written[p] + 1 \in 1..Len(input[p])
    BY DEF BatchTypeOK
  <2>. QED
    BY <2>1 DEF Current
<1>2. /\ Current(p).draft \in [kind : Kinds, model : BOOLEAN, verified : BOOLEAN]
      /\ Current(p).supersedes \in Id \cup {NoId}
  BY <1>1 DEF Record
<1>. QED
  BY <1>1, <1>2 DEF TraceFor, Draft, Trace

\* The steps of a command, as steps of Traces.
LEMMA BatchSteps ==
  ASSUME TypeOK, BatchInv, NEW p \in Proc,
         \/ \E f \in Inputs, session \in {detect(vs) : vs \in Environment[p]} : Start(p, f, session)
         \/ RecordPrepared(p) \/ RecordRefused(p) \/ RecordCommitted(p) \/ AppendRefused(p)
         \/ Finish(p) \/ Other(p)
  PROVE  \/ Next
         \/ UNCHANGED vars
         \/ RecordPrepared(p)
         \/ plan' = [plan EXCEPT ![p] = <<>>] /\ UNCHANGED <<log, acked, headed, seen, torn, cuts>>
<1>1. ASSUME NEW f, NEW session, Start(p, f, session)
      PROVE  Next \/ UNCHANGED vars
  <2>1. CASE Admitted(session, f)
    <3>1. plan' = [plan EXCEPT ![p] = <<>>]
      BY <1>1 DEF Start, TypeOK
    <3>2. Open(p)
      BY <1>1, <2>1, <3>1 DEF Start, Open
    <3>. QED
      BY <3>2 DEF Next
  <2>2. CASE ~Admitted(session, f)
    BY <1>1, <2>2 DEF Start, vars
  <2>. QED
    BY <2>1, <2>2
<1>2. CASE RecordCommitted(p) \/ AppendRefused(p) \/ Other(p)
  BY <1>2 DEF RecordCommitted, AppendRefused, Other, Next
<1>3. CASE RecordRefused(p)
  BY <1>3 DEF RecordRefused
<1>4. CASE Finish(p)
  BY <1>4 DEF Finish
<1>. QED
  BY <1>1, <1>2, <1>3, <1>4

\* What Traces keeps, the commands keep.
LEMMA TracesKept ==
  ASSUME TypeOK, TracesInv, BatchInv, [BatchNext]_allVars
  PROVE  TypeOK' /\ TracesInv'
<1>0. /\ plan \in [Proc -> Seq(Event)] /\ seen \in [Proc -> 0..Len(log)]
      /\ \A q \in Proc : PlanFits(q)
  BY DEF TypeOK, TracesInv
<1>1. ASSUME Next PROVE TypeOK' /\ TracesInv'
  BY <1>1, TypeNext, TracesInvNext
<1>2. ASSUME UNCHANGED vars PROVE TypeOK' /\ TracesInv'
  BY <1>2 DEF vars, TypeOK, TracesInv, PlanFits, View
<1>3. ASSUME NEW p \in Proc, NEW b \in Seq(Event), plan' = [plan EXCEPT ![p] = b],
             UNCHANGED <<log, acked, headed, seen, torn, cuts>>, PlanFits(p)'
      PROVE  TypeOK' /\ TracesInv'
  <2>1. TypeOK'
    BY <1>0, <1>3 DEF TypeOK
  <2>2. ASSUME NEW q \in Proc PROVE PlanFits(q)'
    <3>1. CASE q = p
      BY <1>3, <3>1
    <3>2. CASE q # p
      <4>1. plan'[q] = plan[q] /\ View(q)' = View(q)
        BY <1>0, <1>3, <3>2 DEF View
      <4>. QED
        BY <1>0, <4>1, PlanFitsStays
    <3>. QED
      BY <3>1, <3>2
  <2>3. TracesInv'
    BY <1>3, <2>2 DEF TracesInv
  <2>. QED
    BY <2>1, <2>3
<1>4. ASSUME NEW p \in Proc, RecordPrepared(p) PROVE TypeOK' /\ TracesInv'
  <2>1. PICK i \in Id : Accepts(p, i) /\ plan' = [plan EXCEPT ![p] = EventsOf(TraceFor(p, i))]
    BY <1>4 DEF RecordPrepared
  <2> DEFINE t == TraceFor(p, i)
  <2>2. t \in Trace /\ Preparable(View(p), t)
    BY <1>4, <2>1, CurrentTrace DEF RecordPrepared, BatchInv, Accepts
  <2> HIDE DEF t
  <2>3. EventsOf(t) \in Seq(Event)
    BY <2>2, EventsOfType
  <2>4. plan[p] \o EventsOf(t) = EventsOf(t) /\ plan[p] = <<>>
    BY <1>4, <2>3 DEF RecordPrepared
  <2>5. plan' = [plan EXCEPT ![p] = @ \o EventsOf(t)]
    BY <2>1, <2>4 DEF t
  <2>6. PlanFits(p)'
    <3>1. \A k \in DOMAIN plan[p] : plan[p][k].type \in {"remember", "supersede"}
      BY <2>4
    <3>2. UNCHANGED <<log, seen>>
      BY <1>4 DEF RecordPrepared
    <3>. QED
      BY <1>0, <2>2, <2>5, <3>1, <3>2, PrepareFits
  <2>. QED
    BY <1>3, <1>4, <2>1, <2>3, <2>6 DEF RecordPrepared, t
<1>5. ASSUME NEW p \in Proc, plan' = [plan EXCEPT ![p] = <<>>],
             UNCHANGED <<log, acked, headed, seen, torn, cuts>>
      PROVE  TypeOK' /\ TracesInv'
  <2>1. plan'[p] = <<>> /\ <<>> \in Seq(Event)
    BY <1>0, <1>5
  <2>2. PlanFits(p)'
    BY <2>1 DEF PlanFits
  <2>. QED
    BY <1>3, <1>5, <2>1, <2>2
<1>6. CASE UNCHANGED allVars
  BY <1>2, <1>6 DEF allVars, vars
<1>7. CASE BatchNext
  BY <1>1, <1>2, <1>4, <1>5, <1>7, BatchSteps DEF BatchNext
<1>. QED
  BY <1>6, <1>7

-----------------------------------------------------------------------------
(* What a command has written *)

\* Nobody takes an event out of the log, and the log grows by one process's plan.
LEMMA LogGrows ==
  ASSUME TypeOK, BatchInv, NEW p \in Proc,
         \/ \E f \in Inputs, session \in {detect(vs) : vs \in Environment[p]} : Start(p, f, session)
         \/ RecordPrepared(p) \/ RecordRefused(p) \/ RecordCommitted(p) \/ AppendRefused(p)
         \/ Finish(p) \/ Other(p)
  PROVE  /\ \A n \in DOMAIN log : n \in DOMAIN log' /\ log'[n] = log[n]
         /\ acked' = Len(log')
         /\ \A q \in Proc \ {p} :
              /\ input'[q] = input[q] /\ written'[q] = written[q] /\ stage'[q] = stage[q]
              /\ ids'[q] = ids[q] /\ plan'[q] = plan[q]
<1>0. log \in Seq(Event) /\ plan \in [Proc -> Seq(Event)] /\ acked = Len(log) /\ BatchTypeOK
  BY DEF TypeOK, BatchInv
<1>1. CASE Commit(p)
  <2>1. log' = log \o plan[p] /\ acked' = Len(log')
    BY <1>1 DEF Commit
  <2>2. \A n \in DOMAIN log : n \in DOMAIN log' /\ log'[n] = log[n]
    BY <1>0, <2>1, LogGoesOn
  <2>. QED
    BY <1>0, <1>1, <2>1, <2>2
    DEF Commit, Start, RecordPrepared, RecordRefused, RecordCommitted, AppendRefused, Finish, Other,
        End, Refuse, Change, batchVars, vars, BatchTypeOK
<1>2. CASE ~Commit(p)
  <2>1. log' = log /\ acked' = acked
    BY <1>2
    DEF Start, RecordPrepared, RecordRefused, RecordCommitted, AppendRefused, Finish, Other,
        Refuse, Change, vars
  <2>. QED
    BY <1>0, <1>2, <2>1
    DEF Start, RecordPrepared, RecordRefused, RecordCommitted, AppendRefused, Finish, Other,
        End, Refuse, Change, batchVars, vars, BatchTypeOK
<1>. QED
  BY <1>1, <1>2

\* A command that does nothing goes on to fit.
LEMMA CommandStays ==
  ASSUME NEW q \in Proc, CommandFits(q),
         \A n \in DOMAIN log : n \in DOMAIN log' /\ log'[n] = log[n],
         input'[q] = input[q], written'[q] = written[q], stage'[q] = stage[q],
         ids'[q] = ids[q], plan'[q] = plan[q]
  PROVE  CommandFits(q)'
<1>1. \A k \in 1..Len(ids[q]) : Wrote(q, k)'
  BY DEF CommandFits, Wrote, Remembers
<1>2. \A i : TraceFor(q, i)' = TraceFor(q, i)
  BY DEF TraceFor, Current
<1>3. \A i : EventsOf(TraceFor(q, i))' = EventsOf(TraceFor(q, i))
  BY <1>2 DEF EventsOf
<1>. QED
  BY <1>1, <1>3 DEF CommandFits

\* A command that is over fits.
LEMMA CommandOver ==
  ASSUME NEW p \in Proc, stage'[p] # "writing", ids'[p] = <<>>, input'[p] = <<>>,
         plan'[p] = <<>> \/ \E i \in Id : plan'[p] = <<Purge(i)>>
  PROVE  CommandFits(p)'
BY DEF CommandFits

\* The record that a command commits becomes the trace its input said, under an
\* id that was nobody's.
LEMMA CommittedFits ==
  ASSUME TypeOK, BatchInv, NEW p \in Proc, RecordCommitted(p)
  PROVE  /\ CommandFits(p)' /\ Planned(p) \in Id /\ ~Known(log, Planned(p))
         /\ \E n \in DOMAIN log' :
              Remembers(log', n, Planned(p)) /\ log'[n].trace.verified = Current(p).draft.verified
<1> DEFINE N == Len(ids[p])
           b == plan[p]
           m == Len(log) + 1
<1>0. /\ stage[p] = "writing" /\ written[p] = N /\ b # <<>> /\ b \in Seq(Event)
      /\ log' = log \o b /\ plan'[p] = <<>> /\ stage' = stage /\ input' = input
      /\ written'[p] = written[p] + 1 /\ ids'[p] = Append(ids[p], Planned(p))
      /\ log \in Seq(Event) /\ ids[p] \in Seq(Id) /\ N \in Nat /\ ValidBatch(log, b)
      /\ input[p] \in Seq(Record) /\ Len(log) \in Nat
  BY DEF RecordCommitted, Commit, MayWrite, BatchInv, BatchTypeOK, CommandFits, TypeOK
<1>1. N < Len(input[p]) /\ N <= Len(input[p])
  BY <1>0 DEF BatchInv, CommandFits
<1>2. PICK i \in Id : b = EventsOf(TraceFor(p, i))
  BY <1>0 DEF BatchInv, CommandFits
<1> DEFINE t == TraceFor(p, i)
<1>3. t \in Trace /\ t.id = i /\ t.verified = Current(p).draft.verified
  BY <1>0, <1>1, CurrentTrace DEF BatchInv
<1>4. t = Draft(input[p][N + 1].draft, i, input[p][N + 1].supersedes, NoId)
  BY <1>0 DEF TraceFor, Current
<1> HIDE DEF N, t
<1>5. b[1] = Remember(t) /\ 1 \in DOMAIN b
  <2>1. b[1] = Remember(t)
    BY <1>2, <1>3, EventsOfType DEF t
  <2>. QED
    BY <1>0, <2>1
<1>6. Planned(p) = i /\ b[1].type = "remember" /\ b[1].id = i /\ b[1].trace = t
  BY <1>3, <1>5 DEF Planned, Remember
<1>7. ~Known(log, i)
  <2>1. ValidRemember(log, b, 1)
    BY <1>0, <1>5, <1>6 DEF ValidBatch
  <2>. QED
    BY <1>3, <1>6, <2>1 DEF ValidRemember, Exists
<1> HIDE DEF b
<1>8. /\ \A n \in DOMAIN log : n \in DOMAIN log' /\ log'[n] = log[n]
      /\ m \in DOMAIN log' /\ log'[m] = b[1]
  BY <1>0, <1>5, LogGoesOn
<1> HIDE DEF m
<1>9. Remembers(log', m, i) /\ log'[m].trace = t
  BY <1>6, <1>8 DEF Remembers
<1>10. /\ Len(ids'[p]) = N + 1 /\ ids'[p][N + 1] = i
       /\ \A k \in 1..N : ids'[p][k] = ids[p][k]
  BY <1>0, <1>6 DEF N
<1>11. \A k \in 1..N : Wrote(p, k)
  BY DEF BatchInv, CommandFits, N
<1>12. ASSUME NEW k \in 1..N + 1 PROVE Wrote(p, k)'
  <2>1. CASE k \in 1..N
    <3>1. PICK n \in DOMAIN log :
            /\ Remembers(log, n, ids[p][k])
            /\ log[n].trace = Draft(input[p][k].draft, ids[p][k], input[p][k].supersedes, NoId)
      BY <1>11, <2>1 DEF Wrote
    <3>2. n \in DOMAIN log' /\ log'[n] = log[n] /\ ids'[p][k] = ids[p][k] /\ input'[p] = input[p]
      BY <1>0, <1>8, <1>10, <2>1
    <3>. QED
      BY <3>1, <3>2 DEF Wrote, Remembers
  <2>2. CASE k = N + 1
    BY <1>0, <1>4, <1>8, <1>9, <1>10, <2>2 DEF Wrote
  <2>. QED
    BY <1>0, <2>1, <2>2
<1>13. \A k \in 1..N : ids[p][k] # i
  BY <1>7, <1>11 DEF Wrote, Known
<1>14. \A j, k \in 1..N + 1 : ids'[p][j] = ids'[p][k] => j = k
  <2>1. \A j, k \in 1..N : ids[p][j] = ids[p][k] => j = k
    BY DEF BatchInv, CommandFits, N
  <2>2. \A j \in 1..N + 1 : j \in 1..N \/ j = N + 1
    BY <1>0
  <2>. QED
    BY <1>10, <1>13, <2>1, <2>2
<1>15. CommandFits(p)'
  BY <1>0, <1>1, <1>10, <1>12, <1>14 DEF CommandFits
<1>. QED
  BY <1>3, <1>6, <1>7, <1>8, <1>9, <1>15

LEMMA BatchInvNext ==
  ASSUME TypeOK, BatchInv, [BatchNext]_allVars
  PROVE  BatchInv'
<1>0. /\ plan \in [Proc -> Seq(Event)] /\ BatchTypeOK /\ acked = Len(log)
      /\ \A q \in Proc : CommandFits(q)
  BY DEF TypeOK, BatchInv
<1>1. ASSUME NEW p \in Proc,
             \/ \E f \in Inputs, session \in {detect(vs) : vs \in Environment[p]} : Start(p, f, session)
             \/ RecordPrepared(p) \/ RecordRefused(p) \/ RecordCommitted(p) \/ AppendRefused(p)
             \/ Finish(p) \/ Other(p),
             BatchTypeOK', CommandFits(p)'
      PROVE  BatchInv'
  <2>1. \A q \in Proc \ {p} : CommandFits(q)'
    BY <1>0, <1>1, LogGrows, CommandStays
  <2>2. acked' = Len(log')
    BY <1>1, LogGrows
  <2>. QED
    BY <1>1, <2>1, <2>2 DEF BatchInv
\* The command is over, and what it planned is thrown away.
<1>2. ASSUME NEW p \in Proc, NEW s \in {"idle", "refused"}, End(p, s), plan'[p] = <<>>,
             written' \in [Proc -> Nat], byAgent' = byAgent
      PROVE  BatchTypeOK' /\ CommandFits(p)'
  <2>1. /\ stage' = [stage EXCEPT ![p] = s] /\ input' = [input EXCEPT ![p] = <<>>]
        /\ ids' = [ids EXCEPT ![p] = <<>>]
    BY <1>2 DEF End
  <2>2. BatchTypeOK'
    BY <1>0, <1>2, <2>1 DEF BatchTypeOK
  <2>3. stage'[p] # "writing" /\ ids'[p] = <<>> /\ input'[p] = <<>>
    BY <1>0, <2>1 DEF BatchTypeOK
  <2>. QED
    BY <1>2, <2>2, <2>3, CommandOver
<1>3. ASSUME NEW p \in Proc, NEW f \in Inputs,
             NEW session \in {detect(vs) : vs \in Environment[p]}, Start(p, f, session)
      PROVE  BatchTypeOK' /\ CommandFits(p)'
  <2>0. written' = [written EXCEPT ![p] = 0] /\ written' \in [Proc -> Nat] /\ byAgent' = byAgent
        /\ plan' = plan /\ plan[p] = <<>> /\ stage[p] # "writing"
    BY <1>0, <1>3 DEF Start, BatchTypeOK
  <2>1. CASE Admitted(session, f)
    <3>1. /\ stage' = [stage EXCEPT ![p] = "writing"] /\ input' = [input EXCEPT ![p] = f]
          /\ ids' = ids /\ f \in Seq(Record)
      BY <1>3, <2>1, BatchAssumption DEF Start
    <3>2. BatchTypeOK'
      BY <1>0, <2>0, <3>1 DEF BatchTypeOK
    <3>3. ids'[p] = <<>> /\ written'[p] = 0 /\ plan'[p] = <<>> /\ stage'[p] = "writing" /\ input'[p] = f
      BY <1>0, <2>0, <3>1 DEF CommandFits, BatchTypeOK
    <3>. QED
      BY <3>1, <3>2, <3>3 DEF CommandFits
  <2>2. CASE ~Admitted(session, f)
    <3>1. End(p, "refused") /\ plan'[p] = <<>>
      BY <1>3, <2>0, <2>2 DEF Start
    <3>. QED
      BY <1>2, <2>0, <3>1
  <2>. QED
    BY <2>1, <2>2
<1>4. ASSUME NEW p \in Proc, RecordPrepared(p)
      PROVE  BatchTypeOK' /\ CommandFits(p)'
  <2>1. PICK i \in Id : plan' = [plan EXCEPT ![p] = EventsOf(TraceFor(p, i))]
    BY <1>4 DEF RecordPrepared
  <2>2. UNCHANGED <<log, input, written, stage, ids, byAgent>> /\ stage[p] = "writing"
        /\ written[p] < Len(input[p])
    BY <1>4 DEF RecordPrepared, batchVars
  <2>3. plan'[p] = EventsOf(TraceFor(p, i))'
    BY <1>0, <2>1, <2>2 DEF EventsOf, TraceFor, Current
  <2>4. \A k \in 1..Len(ids[p]) : Wrote(p, k)'
    BY <1>0, <2>2 DEF CommandFits, Wrote
  <2>. QED
    BY <1>0, <2>2, <2>3, <2>4 DEF BatchTypeOK, CommandFits
<1>5. ASSUME NEW p \in Proc, RecordRefused(p)
      PROVE  BatchTypeOK' /\ CommandFits(p)'
  <2>1. End(p, "refused") /\ plan'[p] = <<>> /\ UNCHANGED <<written, byAgent>>
    BY <1>5 DEF RecordRefused, vars
  <2>. QED
    BY <1>0, <1>2, <2>1 DEF BatchTypeOK
<1>6. ASSUME NEW p \in Proc, RecordCommitted(p)
      PROVE  BatchTypeOK' /\ CommandFits(p)'
  <2>1. CommandFits(p)' /\ Planned(p) \in Id
    BY <1>6, CommittedFits
  <2>2. /\ written' = [written EXCEPT ![p] = @ + 1] /\ ids' = [ids EXCEPT ![p] = Append(@, Planned(p))]
        /\ byAgent' \subseteq byAgent \cup {Planned(p)} /\ UNCHANGED <<input, stage>>
    BY <1>6 DEF RecordCommitted
  <2>3. Append(ids[p], Planned(p)) \in Seq(Id)
    BY <1>0, <2>1 DEF BatchTypeOK
  <2>. QED
    BY <1>0, <2>1, <2>2, <2>3 DEF BatchTypeOK
<1>7. ASSUME NEW p \in Proc, AppendRefused(p)
      PROVE  BatchTypeOK' /\ CommandFits(p)'
  <2>1. End(p, "refused") /\ plan'[p] = <<>> /\ UNCHANGED <<written, byAgent>>
    BY <1>0, <1>7 DEF AppendRefused, Refuse
  <2>. QED
    BY <1>0, <1>2, <2>1 DEF BatchTypeOK
<1>8. ASSUME NEW p \in Proc, Finish(p)
      PROVE  BatchTypeOK' /\ CommandFits(p)'
  <2>1. End(p, "idle") /\ plan'[p] = <<>> /\ written' \in [Proc -> Nat] /\ byAgent' = byAgent
    BY <1>0, <1>8 DEF Finish, BatchTypeOK
  <2>. QED
    BY <1>2, <2>1
<1>9. ASSUME NEW p \in Proc, Other(p)
      PROVE  BatchTypeOK' /\ CommandFits(p)'
  <2>1. UNCHANGED <<input, written, stage, ids, byAgent>> /\ stage[p] # "writing"
        /\ ids[p] = <<>> /\ input[p] = <<>>
    BY <1>0, <1>9 DEF Other, batchVars, CommandFits
  <2>2. plan'[p] = <<>> \/ \E i \in Id : plan'[p] = <<Purge(i)>>
    BY <1>0, <1>9 DEF Other, Change, Commit, Refuse
  <2>3. CommandFits(p)'
    BY <2>1, <2>2, CommandOver
  <2>. QED
    BY <1>0, <2>1, <2>3 DEF BatchTypeOK
<1>10. CASE UNCHANGED allVars
  <2>1. UNCHANGED <<log, acked, plan, input, written, stage, ids, byAgent>>
    BY <1>10 DEF allVars, vars, batchVars
  <2>2. \A q \in Proc : CommandFits(q)'
    BY <1>0, <2>1, CommandStays
  <2>. QED
    BY <1>0, <2>1, <2>2 DEF BatchInv, BatchTypeOK
<1>11. CASE BatchNext
  BY <1>1, <1>3, <1>4, <1>5, <1>6, <1>7, <1>8, <1>9, <1>11 DEF BatchNext
<1>. QED
  BY <1>10, <1>11

\* The invariants, of every behaviour of the commands.
LEMMA BatchInvariant == BatchSpec => [](TypeOK /\ TracesInv /\ BatchInv)
<1>1. BatchInit => TypeOK /\ TracesInv
  BY TracesAssumption DEF BatchInit, Init, TypeOK, TracesInv, PlanFits
<1>2. BatchInit => BatchInv
  BY DEF BatchInit, Init, BatchInv, BatchTypeOK, CommandFits
<1>. QED
  BY <1>1, <1>2, TracesKept, BatchInvNext, PTL DEF BatchSpec

\* Wherever a command is, and so wherever it stops or is killed, what it wrote is
\* a beginning of its input: each record once, in order, acknowledged, and as it
\* was given, whatever other processes wrote and purged in between.
THEOREM WhatIsWrittenIsABeginning == BatchSpec => []WritesABeginning
<1>1. ASSUME TypeOK, BatchInv, NEW p \in Proc
      PROVE  /\ \A k \in 1..Len(ids[p]) :
                  \E n \in 1..acked :
                    /\ Remembers(log, n, ids[p][k])
                    /\ log[n].trace = Draft(input[p][k].draft, ids[p][k], input[p][k].supersedes, NoId)
             /\ \A j, k \in 1..Len(ids[p]) : ids[p][j] = ids[p][k] => j = k
  <2>1. DOMAIN log = 1..acked /\ CommandFits(p)
    BY <1>1 DEF TypeOK, BatchInv
  <2>. QED
    BY <2>1 DEF CommandFits, Wrote
<1>2. TypeOK /\ BatchInv => WritesABeginning
  BY <1>1 DEF WritesABeginning
<1>. QED
  BY <1>2, BatchInvariant, PTL

-----------------------------------------------------------------------------
(* What an agent has written *)

\* Every shell that an agent runs commands in is marked as one by its host, and
\* nobody declared it a person's terminal.
HostsMark == \A p \in Agents : \A vs \in Environment[p] : detect(vs)

\* No record an agent's command was given is attested, nor a trace it wrote.
AgentInv ==
  /\ \A p \in Agents : \A k \in DOMAIN input[p] : ~input[p][k].draft.verified
  /\ \A i \in byAgent : \E n \in DOMAIN log : Remembers(log, n, i) /\ ~log[n].trace.verified

LEMMA AgentInvNext ==
  ASSUME HostsMark, TypeOK, BatchInv, AgentInv, [BatchNext]_allVars
  PROVE  AgentInv'
<1>0. BatchTypeOK /\ Agents \subseteq Proc
  BY BatchAssumption DEF BatchInv
<1>1. ASSUME NEW p \in Proc,
             \/ \E f \in Inputs, session \in {detect(vs) : vs \in Environment[p]} : Start(p, f, session)
             \/ RecordPrepared(p) \/ RecordRefused(p) \/ RecordCommitted(p) \/ AppendRefused(p)
             \/ Finish(p) \/ Other(p)
      PROVE  AgentInv'
  <2>1. /\ \A n \in DOMAIN log : n \in DOMAIN log' /\ log'[n] = log[n]
        /\ \A q \in Proc \ {p} : input'[q] = input[q]
    BY <1>1, LogGrows DEF BatchInv
  <2>2. ASSUME p \in Agents PROVE \A k \in DOMAIN input'[p] : ~input'[p][k].draft.verified
    <3>1. CASE input'[p] \in {input[p], <<>>}
      BY <2>2, <3>1 DEF AgentInv
    <3>2. ASSUME NEW f \in Inputs, NEW vs \in Environment[p], Start(p, f, detect(vs)),
                 Admitted(detect(vs), f)
          PROVE  \A k \in DOMAIN input'[p] : ~input'[p][k].draft.verified
      <4>1. detect(vs)
        BY <2>2 DEF HostsMark
      <4>2. \A k \in DOMAIN f : ~f[k].draft.verified
        BY <3>2, <4>1 DEF Admitted, Stamped
      <4>3. input'[p] = f
        BY <1>0, <3>2 DEF Start, BatchTypeOK
      <4>. QED
        BY <4>2, <4>3
    <3>3. ASSUME NEW f \in Inputs, NEW vs \in Environment[p], Start(p, f, detect(vs)),
                 ~Admitted(detect(vs), f)
          PROVE  input'[p] = <<>>
      BY <1>0, <3>3 DEF Start, End, BatchTypeOK
    <3>4. CASE RecordPrepared(p) \/ RecordRefused(p) \/ RecordCommitted(p) \/ AppendRefused(p)
               \/ Finish(p) \/ Other(p)
      <4>1. input' = input \/ input' = [input EXCEPT ![p] = <<>>]
        BY <3>4
        DEF RecordPrepared, RecordRefused, RecordCommitted, AppendRefused, Finish, Other, End, batchVars
      <4>2. input'[p] \in {input[p], <<>>}
        BY <1>0, <4>1 DEF BatchTypeOK
      <4>. QED
        BY <3>1, <4>2
    <3>. QED
      BY <1>1, <3>1, <3>2, <3>3, <3>4
  <2>3. ASSUME NEW q \in Agents PROVE \A k \in DOMAIN input'[q] : ~input'[q][k].draft.verified
    <3>1. CASE q = p
      BY <2>2, <2>3, <3>1
    <3>2. CASE q # p
      BY <1>0, <2>1, <2>3, <3>2 DEF AgentInv
    <3>. QED
      BY <3>1, <3>2
  <2>4. ASSUME NEW i \in byAgent'
        PROVE  \E n \in DOMAIN log' : Remembers(log', n, i) /\ ~log'[n].trace.verified
    <3>1. CASE i \in byAgent
      BY <2>1, <3>1 DEF AgentInv, Remembers
    <3>2. CASE i \notin byAgent
      <4>1. RecordCommitted(p) /\ p \in Agents /\ i = Planned(p)
        BY <1>1, <2>4, <3>2
        DEF Start, RecordPrepared, RecordRefused, RecordCommitted, AppendRefused, Finish, Other, batchVars
      <4>2. ~Current(p).draft.verified
        <5>1. plan[p] # <<>> /\ stage[p] = "writing"
          BY <4>1 DEF RecordCommitted, Commit, MayWrite
        <5>2. written[p] < Len(input[p])
          BY <5>1 DEF BatchInv, CommandFits
        <5>3. written[p] + 1 \in DOMAIN input[p]
          BY <1>0, <5>2 DEF BatchTypeOK
        <5>. QED
          BY <4>1, <5>3 DEF AgentInv, Current
      <4>. QED
        BY <4>1, <4>2, CommittedFits
    <3>. QED
      BY <3>1, <3>2
  <2>. QED
    BY <2>3, <2>4 DEF AgentInv
<1>2. CASE UNCHANGED allVars
  BY <1>2 DEF allVars, vars, batchVars, AgentInv
<1>. QED
  BY <1>1, <1>2 DEF BatchNext

\* Where hosts mark the shells of their agents, nothing an agent writes is
\* attested and nothing attested is replaced by it, whatever agents and persons
\* write in between and however old the handles are.
THEOREM AgentsNeverAttest ==
  ASSUME HostsMark
  PROVE  BatchSpec => []AgentsAttestNothing
<1>1. BatchInit => AgentInv
  BY BatchAssumption DEF BatchInit, AgentInv
<1>2. ASSUME TypeOK, TracesInv, AgentInv
      PROVE  AgentsAttestNothing
  <2>1. Fits(log)
    BY <1>2 DEF TypeOK, TracesInv, Fits
  <2>2. ASSUME NEW i \in byAgent PROVE ~TraceOf(log, i).verified
    <3>1. PICK n \in DOMAIN log : Remembers(log, n, i) /\ ~log[n].trace.verified
      BY <1>2 DEF AgentInv
    <3>. QED
      BY <2>1, <3>1, OneRemember
  <2>3. CorrectionsAreAuthorized
    BY <1>2, FittingIsAuthorized
  <2>. QED
    BY <2>2, <2>3 DEF AgentsAttestNothing, CorrectionsAreAuthorized
<1>. QED
  BY <1>1, <1>2, BatchInvariant, AgentInvNext, PTL DEF BatchSpec

=============================================================================
