------------------------------ MODULE PathOrder ------------------------------
(***************************************************************************)
(* How core/learning/path_engine.py turns the gaps of a match into a       *)
(* learning path: a topological sort of their prerequisites (Kahn), which  *)
(* on a cycle is given up for the strongly connected components of Tarjan, *)
(* sorted in their turn, and the phases the path is cut into.              *)
(*                                                                         *)
(* A skill is its place in the list of gaps; graph[s] are the              *)
(* prerequisites of s among them.  Hours are integers.                     *)
(***************************************************************************)
EXTENDS Naturals, FiniteSets, Sequences, SequencesExt

CONSTANTS
    SkillCount,   \* gaps of the match
    HourChoices,  \* what estimate_learning_time may return
    Budget        \* two weeks of the reader's hours

PathAssumption ==
    /\ SkillCount \in Nat
    /\ HourChoices \subseteq Nat
    /\ Budget \in Nat

Skills == 1..SkillCount

VARIABLES
    graph,    \* the prerequisites of each skill
    step,     \* the part of generate_learning_path being executed
    waits,    \* prerequisites not yet ordered, of a skill or of a component
    queue,    \* the skills or components that wait for nothing
    order,    \* the skills ordered so far
    calls,    \* the calls of strongconnect under way, innermost last
    stack, index, lowlink, sccs,  \* the variables of _tarjan_scc
    placed,   \* how many skills of the order _build_phases has seen
    phases,   \* the phases, each a sequence of <<skill, hours>>
    current   \* the phase being filled

sortVars == <<waits, queue, order>>
tarjanVars == <<calls, stack, index, lowlink, sccs>>
phaseVars == <<placed, phases, current>>
vars == <<graph, step, sortVars, tarjanVars, phaseVars>>

Least(a, b) == IF a < b THEN a ELSE b

\* The members of a set of numbers, in order.
Ascending(set) ==
    CHOOSE q \in [1..Cardinality(set) -> set] :
        \A i, j \in 1..Cardinality(set) : i < j => q[i] < q[j]

-----------------------------------------------------------------------------
(* Kahn's algorithm, over the skills and later over their components.      *)

\* The node at the head of the queue is ordered; those that waited for it
\* alone join the queue.
TakeHead(after) ==
    /\ waits' = [n \in DOMAIN waits |-> IF n \in after THEN waits[n] - 1 ELSE waits[n]]
    /\ queue' = Tail(queue) \o Ascending({n \in after : waits[n] = 1})

Init ==
    /\ graph \in [Skills -> SUBSET Skills]
    /\ step = "kahn"
    /\ waits = [s \in Skills |-> Cardinality(graph[s])]
    /\ queue = Ascending({s \in Skills : graph[s] = {}})
    /\ order = <<>>
    /\ calls = <<>> /\ stack = <<>> /\ sccs = <<>>
    /\ index = [s \in Skills |-> 0]
    /\ lowlink = [s \in Skills |-> 0]
    /\ placed = 0 /\ phases = <<>> /\ current = <<>>

TakeSkill ==
    /\ step = "kahn" /\ queue # <<>>
    /\ TakeHead({s \in Skills : Head(queue) \in graph[s]})
    /\ order' = Append(order, Head(queue))
    /\ UNCHANGED <<graph, step, tarjanVars, phaseVars>>

\* An order of all skills is the result; otherwise there is a cycle.
FinishKahn ==
    /\ step = "kahn" /\ queue = <<>>
    /\ step' = IF Len(order) = SkillCount THEN "phases" ELSE "tarjan"
    /\ order' = IF Len(order) = SkillCount THEN order ELSE <<>>
    /\ UNCHANGED <<graph, waits, queue, tarjanVars, phaseVars>>

-----------------------------------------------------------------------------
(* Tarjan's algorithm.                                                     *)

Unseen == {s \in Skills : index[s] = 0}
Innermost == calls[Len(calls)]

\* strongconnect(s) begins, called by the innermost of outer.
Enter(s, outer) ==
    LET number == SkillCount - Cardinality(Unseen) + 1
    IN /\ index' = [index EXCEPT ![s] = number]
       /\ lowlink' = [lowlink EXCEPT ![s] = number]
       /\ stack' = Append(stack, s)
       /\ calls' = Append(outer, [skill |-> s, left |-> graph[s]])
       /\ UNCHANGED sccs

EnterRoot ==
    /\ step = "tarjan" /\ calls = <<>> /\ Unseen # {}
    /\ Enter(Head(Ascending(Unseen)), calls)
    /\ UNCHANGED <<graph, step, sortVars, phaseVars>>

\* Variant: the lowlink is lowered by a skill that is off the stack as well.
LookAtAll(p) ==
    LET s == Innermost.skill
        outer == [calls EXCEPT ![Len(calls)].left = @ \ {p}]
    IN IF index[p] = 0
       THEN Enter(p, outer)
       ELSE /\ calls' = outer
            /\ lowlink' = [lowlink EXCEPT ![s] = Least(@, index[p])]
            /\ UNCHANGED <<stack, index, sccs>>

\* The loop over the prerequisites looks at one of them, in the order of a
\* list that may be any.
LookAt(p) ==
    LET s == Innermost.skill
        outer == [calls EXCEPT ![Len(calls)].left = @ \ {p}]
    IN IF index[p] = 0
       THEN Enter(p, outer)
       ELSE /\ calls' = outer
            /\ lowlink' = [lowlink EXCEPT ![s] =
                   IF p \in Range(stack) THEN Least(@, index[p]) ELSE @]
            /\ UNCHANGED <<stack, index, sccs>>

Look ==
    /\ step = "tarjan" /\ calls # <<>>
    /\ \E p \in Innermost.left : LookAt(p)
    /\ UNCHANGED <<graph, step, sortVars, phaseVars>>

\* strongconnect returns: the root of a component takes it off the stack,
\* and the caller takes the lowlink over.
Leave ==
    /\ step = "tarjan" /\ calls # <<>>
    /\ Innermost.left = {}
    /\ LET s == Innermost.skill
           outer == Front(calls)
           at == CHOOSE i \in 1..Len(stack) : stack[i] = s
           isRoot == lowlink[s] = index[s]
       IN /\ calls' = outer
          /\ stack' = IF isRoot THEN SubSeq(stack, 1, at - 1) ELSE stack
          /\ sccs' = IF isRoot
                     THEN Append(sccs, Reverse(SubSeq(stack, at, Len(stack))))
                     ELSE sccs
          /\ lowlink' = IF outer = <<>> THEN lowlink
                        ELSE [lowlink EXCEPT ![outer[Len(outer)].skill] =
                                 Least(@, lowlink[s])]
    /\ UNCHANGED <<graph, step, index, sortVars, phaseVars>>

-----------------------------------------------------------------------------
(* The components sorted.                                                  *)

\* The components that need a skill of component i.
Above(i) ==
    {j \in DOMAIN sccs \ {i} :
        \E s \in Range(sccs[j]) : graph[s] \cap Range(sccs[i]) # {}}

Compress ==
    /\ step = "tarjan" /\ calls = <<>> /\ Unseen = {}
    /\ step' = "components"
    /\ waits' = [j \in DOMAIN sccs |-> Cardinality({i \in DOMAIN sccs : j \in Above(i)})]
    /\ queue' = Ascending({j \in DOMAIN sccs : \A i \in DOMAIN sccs : j \notin Above(i)})
    /\ UNCHANGED <<graph, order, tarjanVars, phaseVars>>

TakeComponent ==
    /\ step = "components" /\ queue # <<>>
    /\ TakeHead(Above(Head(queue)))
    /\ order' = order \o sccs[Head(queue)]
    /\ UNCHANGED <<graph, step, tarjanVars, phaseVars>>

FinishComponents ==
    /\ step = "components" /\ queue = <<>>
    /\ step' = "phases"
    /\ UNCHANGED <<graph, sortVars, tarjanVars, phaseVars>>

-----------------------------------------------------------------------------
(* The phases.                                                             *)

Hours(phase) == FoldLeft(LAMBDA sum, item : sum + item[2], 0, phase)

\* A skill that is mastered is left out.
Skip ==
    /\ step = "phases" /\ placed < Len(order)
    /\ placed' = placed + 1
    /\ UNCHANGED <<graph, step, sortVars, tarjanVars, phases, current>>

\* A skill joins the current phase, which is closed first when it would
\* hold more than the budget.
Place ==
    /\ step = "phases" /\ placed < Len(order)
    /\ placed' = placed + 1
    /\ \E hours \in HourChoices :
           LET item == <<order[placed + 1], hours>>
               full == Hours(current) + hours > Budget /\ current # <<>>
           IN /\ phases' = IF full THEN Append(phases, current) ELSE phases
              /\ current' = IF full THEN <<item>> ELSE Append(current, item)
    /\ UNCHANGED <<graph, step, sortVars, tarjanVars>>

FinishPhases ==
    /\ step = "phases" /\ placed = Len(order)
    /\ step' = "done"
    /\ phases' = IF current # <<>> THEN Append(phases, current) ELSE phases
    /\ current' = <<>>
    /\ UNCHANGED <<graph, sortVars, tarjanVars, placed>>

Next ==
    \/ TakeSkill \/ FinishKahn
    \/ EnterRoot \/ Look \/ Leave
    \/ Compress \/ TakeComponent \/ FinishComponents
    \/ Skip \/ Place \/ FinishPhases

Spec == Init /\ [][Next]_vars

-----------------------------------------------------------------------------
\* s needs p, directly or through others: every set of skills that holds s
\* and the prerequisites of its members holds p.
Needs(s, p) ==
    \A set \in SUBSET Skills :
        s \in set /\ (\A m \in set : graph[m] \subseteq set) => p \in set

Position(s) == CHOOSE i \in 1..Len(order) : order[i] = s

\* The order has each skill once, and a prerequisite before what needs it
\* unless each needs the other (_topological_sort: "prerequisites first").
OrderIsSound ==
    step = "phases" /\ placed = 0 =>
        /\ Len(order) = SkillCount /\ Range(order) = Skills
        /\ \A s \in Skills : \A p \in graph[s] :
               ~Needs(p, s) => Position(p) < Position(s)

\* The phases hold the skills placed in the order of the path, once each,
\* and only a skill that does not fit in any budget has one beyond it
\* (_build_phases).
PhasesAreSound ==
    step = "done" =>
        /\ \A i \in DOMAIN phases : Hours(phases[i]) > Budget => Len(phases[i]) = 1
        /\ LET listed == FlattenSeq(phases)
           IN \A i, j \in DOMAIN listed :
                  i < j => Position(listed[i][1]) < Position(listed[j][1])
=============================================================================
