------------------------------- MODULE Planner -------------------------------
(***************************************************************************)
(* The bounded planner (planner.rs): breadth-first search from a set of    *)
(* facts to a goal, stopped by a depth and by a budget of explored states. *)
(* One iteration of the search loop is one step.                           *)
(*                                                                         *)
(* A fact is a text, taken apart at the separator U+001F that state_key    *)
(* puts between facts: nearly every fact is a single word.                 *)
(***************************************************************************)
EXTENDS Naturals, Sequences, FiniteSets, SequencesExt

CONSTANTS
  Fact,             \* sequences of words; a word is a number, for the order
  MAX_DEPTH_LIMIT,
  Problems  \* the problems callers pose

State  == SUBSET Fact
Action == [requires : State, adds : State, removes : State]

\* Of an action only its place in the list matters; its name is that place.
Problem == [initial : State, goal : State, actions : Seq(Action),
            max_depth : Nat, max_states : Nat]

ASSUME PlannerAssumption ==
  /\ Fact \subseteq Seq(Nat) \ {<<>>}
  /\ MAX_DEPTH_LIMIT \in Nat
  /\ Problems \subseteq Problem

VARIABLES
  problem,
  queue,     \* the states to explore, each with the path that led to it
  seen,      \* the keys of the states that were ever put in the queue
  explored,
  answer     \* none yet, refused, or a PlanResult

planVars == <<problem, queue, seen, explored, answer>>

Path == Seq(Nat)
Node == [state : State, path : Path]

Searching  == [kind |-> "searching", path |-> <<>>]
Refused    == [kind |-> "refused", path |-> <<>>]
Found(p)   == [kind |-> "found", path |-> p]
NoPlan     == [kind |-> "no_plan", path |-> <<>>]
OutOfStates == [kind |-> "budget_exhausted", path |-> <<>>]

-----------------------------------------------------------------------------

\* The order of texts.
Lexically(f, g) ==
  \/ IsStrictPrefix(f, g)
  \/ \E i \in DOMAIN f \cap DOMAIN g :
       f[i] < g[i] /\ SubSeq(f, 1, i-1) = SubSeq(g, 1, i-1)

\* state_key: the facts in order, joined by the separator.  A fact that holds
\* the separator looks like two.
Key(s) == FlattenSeq(SetToSortSeq(s, Lexically))

Act(k) == problem.actions[k]

Applicable(s, k) == Act(k).requires \subseteq s

\* Facts are removed first, then added.
Apply(s, k) == (s \ Act(k).removes) \cup Act(k).adds

Reached(s) == problem.goal \subseteq s

\* The actions that lead from s to a goal, and the first of them.
Wins(s)     == {k \in DOMAIN problem.actions : Applicable(s, k) /\ Reached(Apply(s, k))}
FirstWin(s) == CHOOSE k \in Wins(s) : \A j \in Wins(s) : k <= j

\* Action k leads to a state whose key is not in the set yet.
IsNew(s, k) ==
  /\ Applicable(s, k)
  /\ Key(Apply(s, k)) \notin seen
  /\ \A j \in 1..k-1 : Applicable(s, j) => Key(Apply(s, j)) # Key(Apply(s, k))

\* Some of the actions, in the order of the list.
InOrder(S) ==
  CHOOSE f \in [1..Cardinality(S) -> S] : \A i, j \in DOMAIN f : i < j => f[i] < f[j]

\* What the loop over the actions puts in the queue, in the actions' order.
NewNodes(n) ==
  LET new == InOrder({k \in DOMAIN problem.actions : IsNew(n.state, k)})
  IN  [i \in DOMAIN new |-> [state |-> Apply(n.state, new[i]), path |-> Append(n.path, new[i])]]

-----------------------------------------------------------------------------

Rejected ==
  \/ problem.goal = {}
  \/ problem.max_depth > MAX_DEPTH_LIMIT
  \/ problem.max_states = 0

\* A goal that holds already is the empty plan, and counts as one state.
PlanInit ==
  /\ problem \in Problems
  /\ queue = << [state |-> problem.initial, path |-> <<>>] >>
  /\ seen = {Key(problem.initial)}
  /\ answer = IF Rejected THEN Refused
              ELSE IF Reached(problem.initial) THEN Found(<<>>)
              ELSE Searching
  /\ explored = IF answer = Found(<<>>) THEN 1 ELSE 0

Busy == answer = Searching

\* The queue is empty: every state within the depth was explored.
Exhausted ==
  /\ Busy /\ queue = <<>>
  /\ answer' = NoPlan
  /\ UNCHANGED <<problem, queue, seen, explored>>

BudgetStops ==
  /\ Busy /\ queue # <<>>
  /\ explored >= problem.max_states
  /\ answer' = OutOfStates
  /\ queue' = Tail(queue)
  /\ UNCHANGED <<problem, seen, explored>>

\* A state is taken from the queue.
Explore ==
  /\ Busy /\ queue # <<>>
  /\ explored < problem.max_states
  /\ explored' = explored + 1
  /\ UNCHANGED problem

\* At the depth limit its successors are not looked at.
TooDeep ==
  /\ Explore
  /\ Len(Head(queue).path) >= problem.max_depth
  /\ queue' = Tail(queue)
  /\ UNCHANGED <<seen, answer>>

\* One of its successors is a goal.  (The states that actions before the
\* winning one put in the queue are never looked at again.)
Win ==
  /\ Explore
  /\ Len(Head(queue).path) < problem.max_depth
  /\ LET n == Head(queue) IN
       /\ Wins(n.state) # {}
       /\ answer' = Found(Append(n.path, FirstWin(n.state)))
  /\ queue' = <<>>
  /\ UNCHANGED seen

\* Slip: new states go to the front of the queue.
Expand_DepthFirst ==
  /\ Explore
  /\ Len(Head(queue).path) < problem.max_depth
  /\ LET n == Head(queue) IN
       /\ Wins(n.state) = {}
       /\ queue' = NewNodes(n) \o Tail(queue)
       /\ seen' = seen \cup {Key(x.state) : x \in ToSet(NewNodes(n))}
  /\ UNCHANGED answer

\* None is: the new ones join the queue.
Expand ==
  /\ Explore
  /\ Len(Head(queue).path) < problem.max_depth
  /\ LET n == Head(queue) IN
       /\ Wins(n.state) = {}
       /\ queue' = Tail(queue) \o NewNodes(n)
       /\ seen' = seen \cup {Key(x.state) : x \in ToSet(NewNodes(n))}
  /\ UNCHANGED answer

PlanNext == Exhausted \/ BudgetStops \/ TooDeep \/ Win \/ Expand

PlanSpec == PlanInit /\ [][PlanNext]_planVars

-----------------------------------------------------------------------------
(* Planning itself, without a search *)

Successors(s) == {Apply(s, k) : k \in {j \in DOMAIN problem.actions : Applicable(s, j)}}

\* The states some sequence of exactly n actions leads to.
AtDepth ==
  LET at[n \in 0..problem.max_depth] ==
        IF n = 0 THEN {problem.initial} ELSE UNION {Successors(s) : s \in at[n-1]}
  IN at

\* The states the actions of p lead through.
Trail(p) ==
  LET at[n \in 0..Len(p)] == IF n = 0 THEN problem.initial ELSE Apply(at[n-1], p[n])
  IN at

\* p is a plan: every action applies where it comes, and the goal is reached.
IsPlan(p) ==
  /\ \A i \in DOMAIN p : p[i] \in DOMAIN problem.actions /\ Applicable(Trail(p)[i-1], p[i])
  /\ Reached(Trail(p)[Len(p)])

\* No two states within the depth have the same key.
KeysDiffer ==
  LET near == UNION {AtDepth[n] : n \in 0..problem.max_depth} IN
  \A s, t \in near : Key(s) = Key(t) => s = t

\* Some plan of n actions exists.
PlanExists(n) == \E s \in AtDepth[n] : Reached(s)

-----------------------------------------------------------------------------
(* Properties *)

\* A plan the search returns can be carried out and reaches the goal, within
\* the depth; and no plan is shorter, if states are told apart by their keys.
FoundIsShortest ==
  answer.kind = "found" =>
    /\ IsPlan(answer.path)
    /\ Len(answer.path) <= problem.max_depth
    /\ KeysDiffer => \A n \in 0..Len(answer.path) - 1 : ~PlanExists(n)

\* "Not found", without the mark that the budget ran out, is a proof that no
\* plan exists within the depth, if states are told apart by their keys.
NoPlanIsProof ==
  answer.kind = "no_plan" /\ KeysDiffer =>
    \A n \in 0..problem.max_depth : ~PlanExists(n)

\* No state is put in the queue twice, and every one is queued with a shortest
\* path to it: marking a state seen never hides a shorter way.
QueueIsNearest ==
  /\ \A i, j \in DOMAIN queue : queue[i].state = queue[j].state => i = j
  /\ \A n \in ToSet(queue) :
       /\ Trail(n.path)[Len(n.path)] = n.state
       /\ KeysDiffer => \A d \in 0..Len(n.path) - 1 : n.state \notin AtDepth[d]

\* The search is right at every step and in its answer: nothing is queued late,
\* a plan is a shortest one, and no plan means none (planner.rs, plan).
SearchIsRight == QueueIsNearest /\ FoundIsShortest /\ NoPlanIsProof

=============================================================================
