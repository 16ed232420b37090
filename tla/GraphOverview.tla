--------------------------- MODULE GraphOverview ---------------------------
(***************************************************************************)
(* The overview of the graph that the API computes for a mode - bubbles    *)
(* with their positions and skills, connections, totals - and the list     *)
(* behind a bubble.  Each takes several queries in transactions of their   *)
(* own, so that reviews and pipeline runs may change the graph in between. *)
(***************************************************************************)
EXTENDS Naturals, FiniteSets

CONSTANTS
    PositionNodes, SkillNodes,
    StackOf, LevelOf,  \* what the classifiers say of a position
    Ladder,            \* the pairs of levels that a career leads through
    Areas, Belongs,    \* knowledge areas, the skills that belong to them
    MaxChanges         \* bound: changes of the graph during a request

OverviewAssumption ==
    /\ IsFiniteSet(PositionNodes) /\ IsFiniteSet(SkillNodes)
    /\ DOMAIN StackOf = PositionNodes /\ DOMAIN LevelOf = PositionNodes
    /\ Belongs \in [Areas -> SUBSET SkillNodes]
    /\ MaxChanges \in Nat

VARIABLES
    state,       \* of a position in the graph: "absent", "pending" or "approved"
    requires,    \* REQUIRES: positions with skills
    areas,       \* the knowledge areas in the graph
    mode, at,    \* the request: group_by, the query that is next
    members,     \* of a bubble: the positions and skills counted so far
    links,       \* connections,
    counts,      \* independent counts: positions, skills, edges
    opened,      \* the bubble opened after the answer, the positions listed
    changes,     \* bound: how often the graph changed
    moved        \* history: it did so since the request began

vars == <<state, requires, areas, mode, at, members, links, counts, opened, changes, moved>>
store == <<state, requires, areas>>

Range(f) == {f[x] : x \in DOMAIN f}
Bubbles ==
    ({"stack", "industry"} \X Range(StackOf)) \union ({"level"} \X Range(LevelOf))
        \union ({"area"} \X Areas) \union ({"skill"} \X SkillNodes)
Nothing == [b \in Bubbles |-> [positions |-> {}, skills |-> {}]]
NoCounts == [positions |-> 0, skills |-> 0, edges |-> 0]
Closed == [bubble |-> <<"none", "none">>, positions |-> {}]

Present == {p \in PositionNodes : state[p] # "absent"}
Approved == {p \in PositionNodes : state[p] = "approved"}
SkillsOf(p) == {s \in SkillNodes : <<p, s>> \in requires}

\* Whether a position falls under a bubble.
Under(p, b) ==
    CASE b[1] \in {"stack", "industry"} -> StackOf[p] = b[2]
      [] b[1] = "level" -> LevelOf[p] = b[2]
      [] b[1] = "area" -> SkillsOf(p) \intersect Belongs[b[2]] # {}
      [] OTHER -> b[2] \in SkillsOf(p)

\* Variant: those by level count every position.
CountsMore(kind) == IF kind = "stack" THEN Approved ELSE Present

\* The overviews by stack and by level are of approved positions, the others are not.
Counts(kind) == IF kind \in {"stack", "level"} THEN Approved ELSE Present

Init ==
    /\ state \in [PositionNodes -> {"absent", "pending", "approved"}]
    /\ requires \in SUBSET (Present \X SkillNodes)
    /\ areas \in {{}, Areas}
    /\ mode = "none" /\ at = "idle"
    /\ members = Nothing /\ links = {} /\ counts = NoCounts
    /\ opened = Closed /\ changes = 0 /\ moved = FALSE

-----------------------------------------------------------------------------
\* Reviews, imports and repairs: a position or an edge comes, changes or goes.
Change ==
    /\ changes < MaxChanges /\ changes' = changes + 1
    /\ \/ \E p \in PositionNodes, s \in {"absent", "pending", "approved"} :
             /\ state' = [state EXCEPT ![p] = s] /\ state' # state
             /\ requires' = {e \in requires : state'[e[1]] # "absent"}
       \/ \E p \in Present, s \in SkillNodes :
             /\ requires' \in {requires \union {<<p, s>>}, requires \ {<<p, s>>}}
             /\ requires' # requires /\ UNCHANGED state
    /\ moved' = (at # "idle")
    /\ UNCHANGED <<areas, mode, at, members, links, counts, opened>>

\* The answer of _fetch_independent_counts: one row, or none when nothing matches.
CountAll ==
    IF requires = {} THEN NoCounts
    ELSE [positions |-> Cardinality(Present), skills |-> Cardinality(SkillNodes),
          edges |-> Cardinality(requires)]

KindOf == CASE mode = "tech_stack" -> "stack" [] mode = "level" -> "level"
            [] mode = "heat" -> "skill" [] OTHER -> IF areas # {} THEN "area" ELSE "industry"
OfKind(kinds) == {b \in Bubbles : b[1] \in kinds}

\* The bubbles of the answer: those of a level stay when they are empty.
Kept == {b \in Bubbles : members[b] # Nothing[b]}
Domains ==
    IF at \in {"empty", "error"} THEN {}
    ELSE IF mode = "level" THEN OfKind({"level"})
    ELSE Kept

\* Variant: nothing is pruned.
PruneNone(connections) == connections

\* _prune_connections
Prune(connections) == {c \in connections : c \subseteq Domains}

Begin(m) ==
    /\ at = "idle" /\ mode = "none"
    /\ mode' = m
    /\ at' = CASE m = "domain" -> "areas" [] m = "heat" -> "counts" [] OTHER -> "positions"
    /\ moved' = FALSE
    /\ UNCHANGED <<store, members, links, counts, opened, changes>>

\* The areas with their distinct skills and positions, in one query.
ReadAreas ==
    /\ at = "areas" /\ at' = "counts"
    /\ members' = [b \in Bubbles |->
          IF b[1] = "area" /\ b[2] \in areas
          THEN [positions |-> {p \in Counts("area") : Under(p, b)}, skills |-> Belongs[b[2]]]
          ELSE members[b]]
    /\ UNCHANGED <<store, mode, links, counts, opened, changes, moved>>

\* Without areas the default overview goes on by industry, if there are positions.
ReadCounts ==
    /\ at = "counts"
    /\ counts' = CountAll
    /\ links' = IF mode = "level" THEN Prune({{<<"level", l>> : l \in step} : step \in Ladder})
                ELSE links
    /\ at' = CASE mode = "domain" ->
                    IF Kept = {} /\ CountAll.positions > 0 THEN "positions" ELSE "links"
               [] mode = "heat" -> "demand"
               [] OTHER -> "done"
    /\ UNCHANGED <<store, mode, members, opened, changes, moved>>

Grouping == IF mode = "domain" THEN "industry" ELSE KindOf

ReadPositions ==
    /\ at = "positions" /\ at' = "skills"
    /\ members' = [b \in Bubbles |->
          IF b[1] = Grouping
          THEN [members[b] EXCEPT !.positions = {p \in Counts(Grouping) : Under(p, b)}]
          ELSE members[b]]
    /\ UNCHANGED <<store, mode, links, counts, opened, changes, moved>>

\* The skills are grouped by the positions that require them now.
ReadSkills ==
    /\ at = "skills"
    /\ members' = [b \in Bubbles |->
          IF b[1] = Grouping
          THEN [members[b] EXCEPT !.skills =
                   UNION {SkillsOf(p) : p \in {q \in Counts(Grouping) : Under(q, b)}}]
          ELSE members[b]]
    /\ at' = CASE mode = "tech_stack" -> "links" [] mode = "level" -> "counts"
               [] OTHER -> IF Cardinality({b \in Bubbles : members'[b] # Nothing[b]}) > 1
                           THEN "links" ELSE "done"
    /\ UNCHANGED <<store, mode, links, counts, opened, changes, moved>>

\* The skills by demand.
ReadDemand ==
    /\ at = "demand"
    /\ members' = [b \in Bubbles |->
          IF b[1] = "skill" THEN [positions |-> {p \in Counts("skill") : Under(p, b)},
                                  skills |-> {}]
          ELSE members[b]]
    /\ at' = IF Cardinality({b \in Bubbles : members'[b] # Nothing[b]}) > 1
             THEN "links" ELSE "done"
    /\ UNCHANGED <<store, mode, links, counts, opened, changes, moved>>

\* Bubbles are connected by a skill that positions of both require, or, skills and
\* areas, by a position; the levels are a fixed ladder.
Shared(kind) ==
    LET of == Counts(kind)
    IN  {{ab[1], ab[2]} : ab \in
            {ab \in OfKind({kind}) \X OfKind({kind}) :
                /\ ab[1] # ab[2]
                /\ IF kind \in {"stack", "industry"}
                   THEN \E p, q \in of : /\ Under(p, ab[1]) /\ Under(q, ab[2])
                                         /\ SkillsOf(p) \intersect SkillsOf(q) # {}
                   ELSE \E p \in of : /\ Under(p, ab[1]) /\ Under(p, ab[2])
                                      /\ Cardinality(SkillsOf(p)) > 1}}

ReadLinks ==
    /\ at = "links"
    /\ links' = LET kind == IF mode = "domain" /\ Kept \intersect OfKind({"industry"}) # {}
                            THEN "industry" ELSE IF mode = "domain" THEN "area" ELSE KindOf
                    found == Shared(kind)
                IN  Prune({c \in found : kind # "skill" \/ c \subseteq Kept})
    /\ at' = IF mode = "tech_stack" THEN "counts" ELSE "done"
    /\ UNCHANGED <<store, mode, members, counts, opened, changes, moved>>

\* A query fails: the overviews by stack and level answer that there is nothing,
\* their counts that there are none, the others report an error.
Fail ==
    /\ at \notin {"idle", "done", "empty", "error"}
    /\ IF at = "counts" /\ mode # "domain"
       THEN /\ at' = IF mode = "heat" THEN "demand" ELSE "done"
            /\ links' = IF mode = "level"
                        THEN Prune({{<<"level", l>> : l \in step} : step \in Ladder})
                        ELSE links
       ELSE /\ at' = IF mode \in {"tech_stack", "level"} THEN "empty" ELSE "error"
            /\ links' = {}
    /\ UNCHANGED <<store, mode, members, counts, opened, changes, moved>>

\* Variant: every kind lists what is in the graph.
ListsPresent(kind) == Present

\* A bubble of the answer is opened: get_ka_positions by the prefix of its id.
Lists(kind) == IF kind = "area" THEN Present ELSE Approved

Open(b) ==
    /\ at = "done" /\ opened = Closed /\ b \in Domains
    /\ opened' = [bubble |-> b, positions |-> {p \in Lists(b[1]) : Under(p, b)}]
    /\ UNCHANGED <<store, mode, at, members, links, counts, changes, moved>>

Next ==
    \/ Change
    \/ \E m \in {"domain", "tech_stack", "level", "heat"} : Begin(m)
    \/ Fail
    \/ ReadAreas \/ ReadCounts \/ ReadPositions \/ ReadSkills \/ ReadDemand \/ ReadLinks
    \/ \E b \in Bubbles : Open(b)

Spec == Init /\ [][Next]_vars

-----------------------------------------------------------------------------
TypeOK ==
    /\ state \in [PositionNodes -> {"absent", "pending", "approved"}]
    /\ requires \subseteq Present \X SkillNodes /\ areas \subseteq Areas
    /\ mode \in {"none", "domain", "tech_stack", "level", "heat"}
    /\ at \in {"idle", "areas", "counts", "positions", "skills", "demand", "links",
               "done", "empty", "error"}
    /\ members \in [Bubbles -> [positions : SUBSET PositionNodes, skills : SUBSET SkillNodes]]
    /\ links \subseteq SUBSET Bubbles

\* Both ends of a connection are bubbles of the answer, whatever changed between the
\* queries (_prune_connections: the page cannot draw it otherwise).
ConnectionsHaveEnds == \A c \in links : c \subseteq Domains

\* An answer that nothing came in between has every position it is about in one
\* bubble - but by areas and skills, where a position may be in several or none,
\* and not by industry while no position requires a skill.
EveryPositionOnce ==
    at = "done" /\ ~moved /\ mode # "heat" /\ Kept \intersect OfKind({"area"}) = {} =>
        \A p \in IF mode # "domain" THEN Approved
                ELSE IF requires = {} THEN {} ELSE Present :
            Cardinality({b \in Domains : p \in members[b].positions}) = 1

\* A bubble opens on as many positions as it announced, or, where it counted the
\* positions that are not approved as well, on those of them that are.
BubbleOpens ==
    opened # Closed /\ ~moved =>
        LET announced == members[opened.bubble].positions
        IN  opened.positions = IF opened.bubble[1] \in {"industry", "skill"}
                               THEN announced \intersect Approved ELSE announced

\* The counts beside the overview are those of the graph or zero.
CountsTrue ==
    at = "done" /\ ~moved =>
        \/ counts = NoCounts
        \/ /\ counts.positions = Cardinality(Present)
           /\ counts.edges = Cardinality(requires)

OverviewSound == ConnectionsHaveEnds /\ EveryPositionOnce /\ BubbleOpens /\ CountsTrue

=============================================================================
