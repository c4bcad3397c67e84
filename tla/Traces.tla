------------------------------- MODULE Traces -------------------------------
(***************************************************************************)
(* What the events of the ledger mean (ledger.rs, trace.rs): traces that   *)
(* are remembered, superseded, fulfilled and purged by processes whose     *)
(* handles lag behind the shared log.  Each write is prepared against the  *)
(* handle's own view, outside the lock, and validated again under the lock *)
(* against the synced log.  Locking, syncing and writing are Ledger.tla's; *)
(* here a whole append_batch is one step, and a batch cut short another.   *)
(***************************************************************************)
EXTENDS Naturals, Sequences, FiniteSets, SequencesExt

CONSTANTS
  Proc,
  Id,         \* trace ids
  NoId,       \* no `supersedes', no outcome
  Drafts,     \* kind, authorship and attestation of the traces callers write
  MaxBatch,   \* bound: traces in one remember_many
  MaxLog,     \* bound: no write that would pass this many events
  MaxTorn,    \* bound: batches cut short
  StartHead,  \* whether the store has a head file (and a history without these ids)
  MayAccept   \* whether a person may run --accept-tail

Kinds == {"prediction", "commitment", "outcome", "belief"}

ASSUME TracesAssumption ==
  /\ NoId \notin Id
  /\ Drafts \subseteq [kind : Kinds, model : BOOLEAN, verified : BOOLEAN]
  /\ MaxBatch \in Nat /\ MaxLog \in Nat /\ MaxTorn \in Nat
  /\ StartHead \in BOOLEAN /\ MayAccept \in BOOLEAN

VARIABLES
  log,    \* the events of the ledger, in order
  acked,  \* how many of them the head file names; meaningless without one
  headed, \* whether there is a head file
  seen,   \* seen[p]: how many events p's handle has replayed
  plan,   \* plan[p]: the batch p prepared and has not written yet
  torn,   \* history: appends that stopped before their head update
  cuts    \* history: positions after which the rest of a batch is missing and
          \* nobody looked and accepted that

vars == <<log, acked, headed, seen, plan, torn, cuts>>

-----------------------------------------------------------------------------
(* Traces, events and the state they replay to *)

Trace == [id : Id, kind : Kinds, model : BOOLEAN, verified : BOOLEAN,
          supersedes : Id \cup {NoId}, outcome : Id \cup {NoId}]

\* Trace::validate, for the fields the other rules look at.
Valid(t) ==
  /\ t.verified => ~t.model
  /\ t.kind = "prediction" => ~t.verified /\ t.supersedes = NoId
  /\ t.outcome # NoId => t.kind = "outcome" /\ ~t.model
  /\ t.supersedes # t.id

\* LedgerPayload.  `id' is the trace the event changes; a supersede names the
\* replacing trace in `new'.
Event == [type : {"remember"}, id : Id, trace : Trace]
           \cup [type : {"supersede"}, id : Id, new : Id]
           \cup [type : {"fulfill", "purge"}, id : Id]

Draft(d, i, old, o) == [id |-> i, kind |-> d.kind, model |-> d.model, verified |-> d.verified,
                        supersedes |-> old, outcome |-> o]

Remember(t)         == [type |-> "remember", id |-> t.id, trace |-> t]
Supersede(old, new) == [type |-> "supersede", id |-> old, new |-> new]
Fulfill(i)          == [type |-> "fulfill", id |-> i]
Purge(i)            == [type |-> "purge", id |-> i]

Remembers(l, k, i) == l[k].type = "remember" /\ l[k].id = i
Known(l, i)   == \E k \in DOMAIN l : Remembers(l, k, i)
TraceOf(l, i) == l[CHOOSE k \in DOMAIN l : Remembers(l, k, i)].trace

\* apply_payload over the whole log: the last event that names a remembered
\* trace decides (an event before its Remember is skipped).
Status(l, i) ==
  LET touching == {k \in DOMAIN l : l[k].id = i}
      last     == CHOOSE k \in touching : \A j \in touching : j <= k
  IN  IF ~Known(l, i) THEN "unknown"
      ELSE CASE l[last].type = "remember"  -> "active"
             [] l[last].type = "supersede" -> "superseded"
             [] l[last].type = "fulfill"   -> "fulfilled"
             [] OTHER                      -> "purged"

Active(l, i) == Status(l, i) = "active"

\* The view of p's handle.
View(p) == SubSeq(log, 1, seen[p])

-----------------------------------------------------------------------------
(* prepare_remember: checks against the handle's own view *)

\* Slip: a trace that nobody attests may correct an attested one.
Preparable_Unattested(l, t) ==
  /\ Valid(t)
  /\ ~Known(l, t.id)
  /\ t.supersedes # NoId => Active(l, t.supersedes) /\ ~t.model
  /\ t.outcome # NoId =>
       /\ Active(l, t.outcome)
       /\ TraceOf(l, t.outcome).kind = "prediction"

Preparable(l, t) ==
  /\ Valid(t)
  /\ ~Known(l, t.id)
  /\ t.supersedes # NoId =>
       /\ Active(l, t.supersedes)
       /\ ~t.model
       /\ TraceOf(l, t.supersedes).verified => t.verified
  /\ t.outcome # NoId =>
       /\ Active(l, t.outcome)
       /\ TraceOf(l, t.outcome).kind = "prediction"

\* The events of one trace: a correction is two events.
EventsOf(t) ==
  IF t.supersedes = NoId THEN <<Remember(t)>>
  ELSE <<Remember(t), Supersede(t.supersedes, t.id)>>

-----------------------------------------------------------------------------
(* validate_batch: checks under the lock against the synced log, plus the   *)
(* events before k in the same batch.                                       *)

Added(b, k, i)   == \E j \in 1..k-1 : Remembers(b, j, i)
Changed(b, k, i) == \E j \in 1..k-1 : b[j].type # "remember" /\ b[j].id = i

\* The lookup closure: traces of this batch first, as active.
Exists(l, b, k, i)   == Added(b, k, i) \/ Known(l, i)
KindOf(l, b, k, i)   == IF Added(b, k, i) THEN TraceOf(SubSeq(b, 1, k-1), i).kind
                        ELSE TraceOf(l, i).kind
IsActive(l, b, k, i) == (Added(b, k, i) \/ Active(l, i)) /\ ~Changed(b, k, i)

\* Slip: the id is taken on trust.
ValidRemember_AnyId(l, b, k) ==
  LET t == b[k].trace IN
  /\ Valid(t)
  /\ t.outcome # NoId =>
       /\ Exists(l, b, k, t.outcome)
       /\ KindOf(l, b, k, t.outcome) = "prediction"
       /\ IsActive(l, b, k, t.outcome)

\* Slip: the prediction an outcome resolves is looked at only before the lock.
ValidRemember_AnyOutcome(l, b, k) ==
  LET t == b[k].trace IN
  /\ Valid(t)
  /\ ~Exists(l, b, k, t.id)

ValidRemember(l, b, k) ==
  LET t == b[k].trace IN
  /\ Valid(t)
  /\ ~Exists(l, b, k, t.id)
  /\ t.outcome # NoId =>
       /\ Exists(l, b, k, t.outcome)
       /\ KindOf(l, b, k, t.outcome) = "prediction"
       /\ IsActive(l, b, k, t.outcome)

\* Slip: the superseded trace is looked at only before the lock.
ValidSupersede_Stale(l, b, k) ==
  /\ Exists(l, b, k, b[k].id)
  /\ Exists(l, b, k, b[k].new)

ValidSupersede(l, b, k) ==
  /\ Exists(l, b, k, b[k].id)
  /\ IsActive(l, b, k, b[k].id)
  /\ Exists(l, b, k, b[k].new)

\* Slip: a commitment that is over can be fulfilled.
ValidFulfill_Late(l, b, k) ==
  /\ Exists(l, b, k, b[k].id)
  /\ KindOf(l, b, k, b[k].id) = "commitment"

ValidFulfill(l, b, k) ==
  /\ Exists(l, b, k, b[k].id)
  /\ KindOf(l, b, k, b[k].id) = "commitment"
  /\ IsActive(l, b, k, b[k].id)

ValidPurge(l, b, k) ==
  /\ Exists(l, b, k, b[k].id)
  /\ Added(b, k, b[k].id) \/ Status(l, b[k].id) # "purged"

ValidBatch(l, b) ==
  \A k \in DOMAIN b :
    CASE b[k].type = "remember"  -> ValidRemember(l, b, k)
      [] b[k].type = "supersede" -> ValidSupersede(l, b, k)
      [] b[k].type = "fulfill"   -> ValidFulfill(l, b, k)
      [] OTHER                   -> ValidPurge(l, b, k)

-----------------------------------------------------------------------------

TypeOK ==
  /\ log \in Seq(Event)
  /\ acked \in 0..Len(log)
  /\ headed \in BOOLEAN
  /\ seen \in [Proc -> 0..Len(log)]
  /\ plan \in [Proc -> Seq(Event)]
  /\ torn \in Nat
  /\ cuts \subseteq 1..Len(log)

Init ==
  /\ log = <<>>
  /\ acked = 0
  /\ headed = StartHead
  /\ seen = [p \in Proc |-> 0]
  /\ plan = [p \in Proc |-> <<>>]
  /\ torn = 0
  /\ cuts = {}

\* A new handle replays the ledger as it is now.  What the process prepared
\* with the old one, and never wrote, is gone.
Open(p) ==
  /\ seen' = [seen EXCEPT ![p] = Len(log)]
  /\ plan' = [plan EXCEPT ![p] = <<>>]
  /\ UNCHANGED <<log, acked, headed, torn, cuts>>

\* The traces callers may write.
Proposed ==
  {t \in {Draft(d, i, old, o) : d \in Drafts, i \in Id, old \in Id \cup {NoId}, o \in Id \cup {NoId}} :
     Valid(t)}

\* One turn of the loop in remember_many (remember is a batch of one): a trace
\* passes prepare_remember against the stored state this handle knows, and its
\* events join the batch.  Nothing is checked against the rest of the batch.
Prepare(p) ==
  /\ \A k \in DOMAIN plan[p] : plan[p][k].type \in {"remember", "supersede"}
  /\ Cardinality({k \in DOMAIN plan[p] : plan[p][k].type = "remember"}) < MaxBatch
  /\ \E t \in Proposed :
       /\ Len(log) + Len(plan[p] \o EventsOf(t)) <= MaxLog
       /\ Preparable(View(p), t)
       /\ plan' = [plan EXCEPT ![p] = @ \o EventsOf(t)]
  /\ UNCHANGED <<log, acked, headed, seen, torn, cuts>>

\* fulfill and purge check nothing before the lock.
Change(p, e) ==
  /\ plan[p] = <<>> /\ Len(log) < MaxLog
  /\ plan' = [plan EXCEPT ![p] = <<e>>]
  /\ UNCHANGED <<log, acked, headed, seen, torn, cuts>>

\* Slip: events after the head do not stop a write.
HeadAllows_Behind == headed => acked <= Len(log)

\* check_head_before_write: no head, or one that names every event.
HeadAllows == headed => acked = Len(log)

MayWrite(p) ==
  /\ plan[p] # <<>>
  /\ Len(log) + Len(plan[p]) <= MaxLog
  /\ HeadAllows
  /\ ValidBatch(log, plan[p])

\* Slip: a batch that fails the checks is written without its second event.
Commit_KeepsRemember(p) ==
  /\ plan[p] # <<>> /\ HeadAllows
  /\ Len(log) + Len(plan[p]) <= MaxLog
  /\ plan[p][1].type = "remember" => ValidRemember(log, plan[p], 1)
  /\ plan[p][1].type # "remember" => ValidBatch(log, plan[p])
  /\ log' = IF ValidBatch(log, plan[p]) THEN log \o plan[p] ELSE Append(log, plan[p][1])
  /\ acked' = Len(log')
  /\ headed' = TRUE
  /\ seen' = [seen EXCEPT ![p] = Len(log')]
  /\ plan' = [plan EXCEPT ![p] = <<>>]
  /\ UNCHANGED <<torn, cuts>>

\* append_batch: under the lock the handle catches up, validates and writes.
Commit(p) ==
  /\ MayWrite(p)
  /\ log' = log \o plan[p]
  /\ acked' = Len(log')
  /\ headed' = TRUE
  /\ seen' = [seen EXCEPT ![p] = Len(log')]
  /\ plan' = [plan EXCEPT ![p] = <<>>]
  /\ UNCHANGED <<torn, cuts>>

\* The head or the validation refuses: the handle caught up all the same.
Refuse(p) ==
  /\ plan[p] # <<>>
  /\ ~(HeadAllows /\ ValidBatch(log, plan[p]))
  /\ seen' = [seen EXCEPT ![p] = Len(log)]
  /\ plan' = [plan EXCEPT ![p] = <<>>]
  /\ UNCHANGED <<log, acked, headed, torn, cuts>>

\* The process dies, or the disk fills, after the first n events of the batch
\* are in the file and before the head names them.
CutShort(p) ==
  /\ torn < MaxTorn
  /\ MayWrite(p)
  /\ \E n \in 1..Len(plan[p]) :
       /\ log' = log \o SubSeq(plan[p], 1, n)
       /\ cuts' = IF n < Len(plan[p]) THEN cuts \cup {Len(log')} ELSE cuts
  /\ torn' = torn + 1
  /\ plan' = [plan EXCEPT ![p] = <<>>]
  /\ seen' = [seen EXCEPT ![p] = Len(log)]
  /\ UNCHANGED <<acked, headed>>

AcceptTail ==
  /\ MayAccept /\ headed
  /\ acked' = Len(log)
  /\ cuts' = {}
  /\ UNCHANGED <<log, headed, seen, plan, torn>>

Next ==
  \/ \E p \in Proc :
       \/ Open(p) \/ Prepare(p) \/ Commit(p) \/ Refuse(p) \/ CutShort(p)
       \/ \E i \in Id : Change(p, Fulfill(i)) \/ Change(p, Purge(i))
  \/ AcceptTail

Spec == Init /\ [][Next]_vars

-----------------------------------------------------------------------------
(* The inductive invariant: every event fits what stands before it in the   *)
(* log, whatever the process that wrote it had seen.                        *)

\* Event k is the second half of a correction whose first half stands before
\* it, by somebody who may correct the trace it names.
Replaces(l, k) ==
  /\ k > 1
  /\ l[k-1].type = "remember" /\ l[k-1].id = l[k].new
  /\ l[k-1].trace.supersedes = l[k].id /\ ~l[k-1].trace.model
  /\ \A j \in 1..k-1 : Remembers(l, j, l[k].id) /\ l[j].trace.verified => l[k-1].trace.verified

\* An outcome that is remembered at k names a prediction that is open there.
Resolves(l, k) ==
  LET o == l[k].trace.outcome IN
  o # NoId => /\ ~Changed(l, k, o)
              /\ \E j \in 1..k-1 : Remembers(l, j, o) /\ l[j].trace.kind = "prediction"

FitsAt(l, k) ==
  /\ l[k].type = "remember" =>
       l[k].trace.id = l[k].id /\ ~Added(l, k, l[k].id) /\ Resolves(l, k)
  /\ l[k].type # "remember" => Added(l, k, l[k].id)
  /\ l[k].type \in {"supersede", "fulfill"} => ~Changed(l, k, l[k].id)
  /\ l[k].type = "purge" => \A j \in 1..k-1 : ~(l[j].type = "purge" /\ l[j].id = l[k].id)
  /\ l[k].type = "supersede" => Replaces(l, k)

\* What p has prepared fits what p had seen: new ids only, corrections in two
\* halves, and an event without a trace by itself.
PlanFits(p) ==
  \A k \in DOMAIN plan[p] : LET e == plan[p][k] IN
    /\ e.type = "remember" =>
         /\ e.trace.id = e.id /\ ~Known(View(p), e.id)
         /\ e.trace.supersedes # NoId =>
              k < Len(plan[p]) /\ plan[p][k+1] = Supersede(e.trace.supersedes, e.id)
    /\ e.type = "supersede" =>
         /\ k > 1
         /\ LET t == plan[p][k-1].trace IN
              /\ plan[p][k-1].type = "remember" /\ t.id = e.new
              /\ t.supersedes = e.id /\ ~t.model
              /\ Known(View(p), e.id)
              /\ TraceOf(View(p), e.id).verified => t.verified
    /\ e.type \in {"fulfill", "purge"} => Len(plan[p]) = 1

\* Each event in the log fits the events before it, and each plan fits the view
\* it was drafted on.
TracesInv ==
  /\ \A k \in DOMAIN log : FitsAt(log, k)
  /\ \A p \in Proc : PlanFits(p)

\* What holds of every log and every handle, and goes from each step to the next:
\* types, events that fit, plans that fit.
InductiveInv == TypeOK /\ TracesInv

\* Where no batch was cut short, every correction is whole.
CorrectionsAreWhole ==
  \A k \in DOMAIN log : log[k].type = "remember" /\ log[k].trace.supersedes # NoId =>
    k < Len(log) /\ log[k+1] = Supersede(log[k].trace.supersedes, log[k].id)

-----------------------------------------------------------------------------
(* What the read commands show *)

\* The traces recall's `successors' map and why's `successor' choose from: not
\* purged, and naming i as the trace they supersede.  Both take whichever comes
\* last or first in the order of the ids, which are hashes.
Successors(i) == {n \in Id : /\ Known(log, n) /\ Status(log, n) # "purged"
                             /\ TraceOf(log, n).supersedes = i}

\* The traces whose supersession of i is in the log.
Superseders(i) == {log[k].new : k \in {j \in DOMAIN log : log[j].type = "supersede" /\ log[j].id = i}}

-----------------------------------------------------------------------------
(* Properties *)

\* The life of a trace: resolved once, by a supersession or a fulfilment of an
\* active trace, and gone once it is purged.
Moves == {"unknown"} \X {"active"}
           \cup {"active"} \X {"superseded", "fulfilled", "purged"}
           \cup {"superseded", "fulfilled"} \X {"purged"}

\* However stale the handles that prepared the writes, no status is undone or
\* decided twice.
StatusMoves ==
  [][\A i \in Id : Status(log', i) # Status(log, i) =>
                     <<Status(log, i), Status(log', i)>> \in Moves]_log

\* Two corrections of one trace never both apply, even when both were prepared
\* while it was active.
OneSupersession == \A i \in Id : Cardinality(Superseders(i)) <= 1

\* No correction that applied was written by a model, and a verified trace was
\* corrected only by a verified one.
CorrectionsAreAuthorized ==
  \A i \in Id : \A n \in Superseders(i) :
    /\ ~TraceOf(log, n).model
    /\ TraceOf(log, i).verified => TraceOf(log, n).verified

\* Every stored outcome resolves a prediction that was stored, and still active,
\* when the outcome was written: it counts toward calibration.
OutcomesResolveOpenPredictions ==
  \A k \in DOMAIN log : log[k].type = "remember" /\ log[k].trace.outcome # NoId =>
    LET before == SubSeq(log, 1, k - 1) IN
    /\ Active(before, log[k].trace.outcome)
    /\ TraceOf(before, log[k].trace.outcome).kind = "prediction"

\* A trace id is given to one trace, also when two handles at the same sequence
\* number make up the same one.
IdsAreUnique ==
  \A j, k \in DOMAIN log : log[j].type = "remember" /\ log[k].type = "remember"
                           /\ log[j].id = log[k].id => j = k

\* remember_many: "either every trace is stored or none is".  No part of a batch
\* gets among the acknowledged events without the rest, unless a person looked
\* at it and accepted it.
AllOrNothing == \A k \in cuts : k > acked

\* recall annotates a superseded trace with the trace whose supersession applied.
RecallLinksApplied ==
  \A i \in Id : Status(log, i) = "superseded" => Successors(i) \subseteq Superseders(i)

\* why shows a successor only of a trace that was replaced: a correction and the
\* trace it corrects are never both active.
WhyLinksApplied == \A i \in Id : Successors(i) # {} => ~Active(log, i)

\* Both read commands link a trace to the one whose supersession applied.
LinksApplied == RecallLinksApplied /\ WhyLinksApplied

=============================================================================
