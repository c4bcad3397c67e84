-------------------------------- MODULE Batch --------------------------------
(***************************************************************************)
(* The commands `remember' and `remember-batch' (main.rs, principal.rs):   *)
(* every record of the input is built and stamped before the store is      *)
(* opened, and then the records are written one by one, each with its own  *)
(* remember.  `remember' is the batch of one record.  Other processes run  *)
(* the same commands, and purge, in between.  A command runs in a shell,   *)
(* of a person or of an AI agent, and can only look at its environment.    *)
(***************************************************************************)
EXTENDS Traces, Principal

CONSTANTS
  Agents,      \* the processes whose commands an AI agent runs
  Environment, \* the variables that may be set in the shell of each process
  Inputs       \* the inputs callers give, each a sequence of records

\* What is wrong with a record by itself: nothing, something that
\* build_remember_trace refuses, or something only Trace::validate does.
Flaws == {"none", "unbuildable", "invalid"}

Record == [draft : [kind : Kinds, model : BOOLEAN, verified : BOOLEAN],
           supersedes : Id \cup {NoId}, flaw : Flaws]

ASSUME BatchAssumption ==
  /\ Agents \subseteq Proc
  /\ Inputs \subseteq Seq(Record)

VARIABLES
  input,    \* input[p]: the records p's command was given, while it runs
  written,  \* written[p]: how many of them it has written, or had when it ended
  stage,    \* stage[p]: idle, writing or refused
  ids,      \* ids[p]: the traces the command wrote, in order
  byAgent   \* history: the traces that agents wrote

batchVars == <<input, written, stage, ids, byAgent>>
allVars   == <<vars, batchVars>>

BatchInit ==
  /\ Init
  /\ input = [p \in Proc |-> <<>>]
  /\ written = [p \in Proc |-> 0]
  /\ stage = [p \in Proc |-> "idle"]
  /\ ids = [p \in Proc |-> <<>>]
  /\ byAgent = {}

-----------------------------------------------------------------------------

\* The command ends, with what it has written.
End(p, s) ==
  /\ stage' = [stage EXCEPT ![p] = s]
  /\ input' = [input EXCEPT ![p] = <<>>]
  /\ ids' = [ids EXCEPT ![p] = <<>>]

Built(r) == r.flaw # "unbuildable" /\ r.draft.kind # "prediction"

\* AgentSession::stamp: an agent session cannot attest.
Stamped(session, r) == session => ~r.draft.verified

\* Slip: the session is not looked at.
Admitted_Unstamped(session, f) == \A k \in DOMAIN f : Built(f[k])

\* The checks on the whole input, before the store is opened.
Admitted(session, f) == \A k \in DOMAIN f : Built(f[k]) /\ Stamped(session, f[k])

\* The command begins, in what may be an agent's session: the whole input is
\* looked at, then the store is opened.
Start(p, f, session) ==
  /\ stage[p] # "writing" /\ plan[p] = <<>>
  /\ written' = [written EXCEPT ![p] = 0]
  /\ IF Admitted(session, f)
     THEN /\ stage' = [stage EXCEPT ![p] = "writing"]
          /\ input' = [input EXCEPT ![p] = f]
          /\ seen' = [seen EXCEPT ![p] = Len(log)]
          /\ UNCHANGED ids
     ELSE End(p, "refused") /\ UNCHANGED seen
  /\ UNCHANGED <<log, acked, headed, plan, torn, cuts, byAgent>>

\* The record p's command is at.
Current(p) == input[p][written[p] + 1]

TraceFor(p, i) == Draft(Current(p).draft, i, Current(p).supersedes, NoId)

Accepts(p, i) == Current(p).flaw = "none" /\ Preparable(View(p), TraceFor(p, i))

\* prepare_remember lets the next record through; its id is made up.
RecordPrepared(p) ==
  /\ stage[p] = "writing" /\ written[p] < Len(input[p]) /\ plan[p] = <<>>
  /\ \E i \in Id :
       /\ Accepts(p, i)
       /\ Len(log) + Len(EventsOf(TraceFor(p, i))) <= MaxLog
       /\ plan' = [plan EXCEPT ![p] = EventsOf(TraceFor(p, i))]
  /\ UNCHANGED <<log, acked, headed, seen, torn, cuts, batchVars>>

\* prepare_remember refuses the next record, whatever new id it is given: the
\* command stops there.
RecordRefused(p) ==
  LET fresh == {i \in Id : ~Known(log, i)} IN
  /\ stage[p] = "writing" /\ written[p] < Len(input[p]) /\ plan[p] = <<>>
  /\ fresh # {} /\ \A i \in fresh : ~Accepts(p, i)
  /\ End(p, "refused")
  /\ UNCHANGED <<vars, written, byAgent>>

\* The trace a plan of this command remembers.
Planned(p) == plan[p][1].id

\* append_batch stores the record; the loop goes on.
RecordCommitted(p) ==
  /\ stage[p] = "writing"
  /\ Commit(p)
  /\ written' = [written EXCEPT ![p] = @ + 1]
  /\ ids' = [ids EXCEPT ![p] = Append(@, Planned(p))]
  /\ byAgent' = IF p \in Agents THEN byAgent \cup {Planned(p)} ELSE byAgent
  /\ UNCHANGED <<input, stage>>

\* Slip: a refused record is left out and the next ones are written.
AppendRefused_GoesOn(p) ==
  /\ stage[p] = "writing"
  /\ Refuse(p)
  /\ written' = [written EXCEPT ![p] = @ + 1]
  /\ UNCHANGED <<input, stage, ids, byAgent>>

\* append_batch refuses the record: another process got in between.
AppendRefused(p) ==
  /\ stage[p] = "writing"
  /\ Refuse(p)
  /\ End(p, "refused")
  /\ UNCHANGED <<written, byAgent>>

\* The command is over: it has written all its records, or it is killed
\* between two appends.
Finish(p) ==
  /\ stage[p] = "writing"
  /\ End(p, "idle")
  /\ written' = [written EXCEPT ![p] = 0]
  /\ plan' = [plan EXCEPT ![p] = <<>>]
  /\ UNCHANGED <<log, acked, headed, seen, torn, cuts, byAgent>>

\* purge, by a process that runs none of these commands.
Other(p) ==
  /\ stage[p] # "writing"
  /\ \/ \E i \in Id : Change(p, Purge(i))
     \/ Commit(p)
     \/ Refuse(p)
  /\ UNCHANGED batchVars

BatchNext ==
  \E p \in Proc :
    \/ \E f \in Inputs, session \in {detect(vs) : vs \in Environment[p]} : Start(p, f, session)
    \/ RecordPrepared(p) \/ RecordRefused(p) \/ RecordCommitted(p) \/ AppendRefused(p)
    \/ Finish(p)
    \/ Other(p)

BatchSpec == BatchInit /\ [][BatchNext]_allVars

-----------------------------------------------------------------------------
(* Properties *)

\* Wherever the command is, and so wherever it stops, what it wrote is a
\* beginning of its input: those records, in that order, each acknowledged.
WritesABeginning ==
  \A p \in Proc : stage[p] = "writing" =>
    /\ \A k \in 1..Len(ids[p]) :
         \E n \in 1..acked :
           /\ Remembers(log, n, ids[p][k])
           /\ log[n].trace = Draft(input[p][k].draft, ids[p][k], input[p][k].supersedes, NoId)
    /\ \A j, k \in 1..Len(ids[p]) : ids[p][j] = ids[p][k] => j = k

\* The guard against self-verification, over every route: nothing an agent
\* writes is attested, and nothing attested is replaced by what an agent wrote.
AgentsAttestNothing ==
  /\ \A i \in byAgent : ~TraceOf(log, i).verified
  /\ \A i \in Id : Known(log, i) /\ TraceOf(log, i).verified =>
                   Superseders(i) \cap byAgent = {}

\* "Every record is validated before the store is opened, so a refused batch
\* writes nothing" (the help of remember-batch).
RefusedWritesNothing == \A p \in Proc : stage[p] = "refused" => written[p] = 0

=============================================================================
