---------------------------- MODULE GraphBrowser ----------------------------
(***************************************************************************)
(* The three layers of the graph on the home page: the overview of a mode  *)
(* with its bubbles, the positions of the bubble that was entered and the  *)
(* skills of the position that was opened.  The store keeps them beside    *)
(* the pool of everything loaded and the evolution paths of a position     *)
(* while its requests are answered in any order; the user acts on what the *)
(* layer shows, not on what is under way.                                  *)
(***************************************************************************)
EXTENDS Naturals, FiniteSets, Sequences, SequencesExt

CONSTANTS
    Modes, StartMode,  \* what the overview can group by
    Bubbles,           \* the bubbles of a mode
    Requires,          \* the edges of a bubble: positions with the skills shown under it
    Slots, MaxAsked    \* bounds: requests under way at the same time, requests made

VARIABLES
    overview, domains,  \* the mode shown, its bubbles
    layer, island, named, opened,  \* currentLayer, expandedKAId, whether it has a
                        \* name, expandedPositionId
    cached,             \* positionsByKA: the bubbles in it, in the order of the Map
    links,              \* allEdges: how often each edge is in it
    known,              \* allNodes: the positions in it
    selected,           \* what the detail panel is about
    evolution,          \* whether evolution is shown
    paths, focus,       \* the paths loaded, and the position they are to be of
    edgesLoaded,        \* evolutionEdges are there
    answer, asked,      \* the requests under way, how many there were
    chosen,             \* history: the mode chosen last,
    doubled,            \* two loads of positions were under way together,
    unordered,          \* two overviews were, or the last one failed,
    strayed,            \* positions came after another overview, or one failed,
    behind,             \* positions came while the opened one was looked at,
    outrun              \* the focus changed while paths were on their way, or they failed

vars == <<overview, domains, layer, island, named, opened, cached, links, known, selected,
          evolution, paths, focus, edgesLoaded, answer, asked, chosen, doubled,
          unordered, strayed, behind, outrun>>
place == <<layer, island, named, opened>>
pool == <<links, known>>
requests == <<answer, asked, doubled>>
trends == <<evolution, paths, focus, edgesLoaded, outrun>>

None == "none"
Idle == [kind |-> "idle", of |-> None, keys |-> {}]
Edges == UNION {Requires[b] : b \in DOMAIN Requires}
Positions == {e[1] : e \in Edges}
PositionsIn(b) == {e[1] : e \in Requires[b]}

BrowserAssumption ==
    /\ StartMode \in Modes /\ Bubbles \in [Modes -> SUBSET DOMAIN Requires]
    /\ None \notin DOMAIN Requires /\ {None, "island", "skill"} \intersect Positions = {}
    /\ IsFiniteSet(Slots) /\ MaxAsked \in Nat

UnderWay(kinds) == {s \in Slots : answer[s].kind \in kinds}

Init ==
    /\ overview = StartMode /\ domains = {}
    /\ layer = "domain" /\ island = None /\ named = FALSE /\ opened = None
    /\ cached = <<>> /\ links = [e \in Edges |-> 0] /\ known = {}
    /\ selected = None
    /\ evolution = FALSE /\ paths = None /\ focus = None /\ edgesLoaded = FALSE
    /\ answer = [s \in Slots |-> Idle] /\ asked = 0
    /\ chosen = StartMode
    /\ doubled = FALSE /\ unordered = FALSE /\ strayed = FALSE
    /\ behind = FALSE /\ outrun = FALSE

Ask(kind, of, keys) ==
    /\ asked < MaxAsked /\ asked' = asked + 1
    /\ \E s \in Slots :
        /\ answer[s] = Idle
        /\ answer' = [answer EXCEPT ![s] = [kind |-> kind, of |-> of, keys |-> keys]]

-----------------------------------------------------------------------------
\* fetchOverview up to its answer.
FetchOverview(mode) ==
    /\ Ask("overview", mode, {})
    /\ chosen' = mode
    /\ unordered' = (UnderWay({"overview"}) # {})
    /\ UNCHANGED <<overview, domains, place, cached, pool, trends, doubled, strayed, behind>>

\* The home page is opened: its own state is new, the store keeps what it has.
OpenPage ==
    /\ Ask("overview", StartMode, {})
    /\ chosen' = StartMode
    /\ unordered' = (UnderWay({"overview"}) # {})
    /\ selected' = None /\ evolution' = FALSE
    /\ outrun' = (outrun \/ UnderWay({"edges", "paths"}) # {})
    /\ UNCHANGED <<overview, domains, place, cached, pool, paths, focus, edgesLoaded,
                   doubled, strayed, behind>>

\* The modes are offered above the bubbles only.
ChooseMode(mode) ==
    /\ layer = "domain" /\ mode # overview
    /\ FetchOverview(mode) /\ UNCHANGED selected

\* Variant: the cache stays.
RegroupOnly(mode) ==
    /\ overview' = mode /\ domains' = Bubbles[mode]
    /\ layer' = "domain" /\ island' = None /\ named' = FALSE /\ opened' = None
    /\ focus' = None /\ paths' = None
    /\ UNCHANGED cached

\* What fetchOverview assigns when it has its answer.
Regroup(mode) ==
    /\ overview' = mode /\ domains' = Bubbles[mode]
    /\ layer' = "domain" /\ island' = None /\ named' = FALSE /\ opened' = None
    /\ cached' = <<>>
    /\ focus' = None /\ paths' = None

\* The answer to an overview starts the navigation afresh, wherever the user is
\* by now; without an answer only the bubbles go.
Overview(s) ==
    /\ answer[s].kind = "overview"
    /\ answer' = [answer EXCEPT ![s] = Idle]
    /\ \/ /\ Regroup(answer[s].of)
          /\ outrun' = (UnderWay({"edges", "paths"}) # {})
          /\ strayed' = (strayed \/ UnderWay({"positions"}) # {})
          /\ UNCHANGED unordered
       \/ /\ domains' = {} /\ strayed' = TRUE /\ unordered' = TRUE
          /\ UNCHANGED <<overview, place, cached, focus, paths, outrun>>
    /\ UNCHANGED <<pool, selected, evolution, edgesLoaded, asked, chosen, doubled,
                   behind>>

-----------------------------------------------------------------------------
\* Variant: the keys are those of an empty pool.
FetchWithoutKeys(b) ==
    /\ Ask("positions", b, {})
    /\ doubled' = (doubled \/ UnderWay({"positions"}) # {})

\* fetchKAPositions up to its answer: the keys of the edges are taken here.
FetchPositions(b) ==
    /\ Ask("positions", b, {e \in Edges : links[e] > 0})
    /\ doubled' = (doubled \/ UnderWay({"positions"}) # {})

\* goToPositionLayer: what is not cached is loaded.
GoToPositionLayer(b, name) ==
    /\ layer' = "position" /\ island' = b /\ named' = name /\ opened' = None
    /\ IF Contains(cached, b) THEN UNCHANGED requests ELSE FetchPositions(b)

\* goToDomainLayer: the cache goes with the place.
GoToDomainLayer ==
    /\ layer' = "domain" /\ island' = None /\ named' = FALSE /\ opened' = None
    /\ cached' = <<>>

\* The cached bubbles that hold a position, by their places, and the first of them.
Holding(p) == {i \in DOMAIN cached : p \in PositionsIn(cached[i])}
FirstHolding(p) == cached[Min(Holding(p))]

\* Variant: the bubble stays as it is.
GoToDetailAnyhow(p, b, name) ==
    /\ layer' = "detail" /\ opened' = p /\ island' = b /\ named' = name

\* goToDetailLayer, from bubble b (or none): one that does not hold the position
\* gives way to the first cached one that does.
GoToDetailLayer(p, b, name) ==
    /\ layer' = "detail" /\ opened' = p
    /\ IF b = None \/ (Contains(cached, b) /\ p \in PositionsIn(b)) \/ Holding(p) = {}
       THEN island' = b /\ named' = name
       ELSE island' = FirstHolding(p) /\ named' = (island' \in domains)

\* The positions of a bubble: cached and merged into the pool - unless the answer
\* is an error, which leaves all as it was.
PositionsLoaded(s) ==
    /\ answer[s].kind = "positions"
    /\ answer' = [answer EXCEPT ![s] = Idle]
    /\ LET b == answer[s].of
           fresh == Requires[b] \ answer[s].keys
       IN  \/ /\ cached' = IF Contains(cached, b) THEN cached ELSE Append(cached, b)
              /\ links' = [e \in Edges |-> links[e] + IF e \in fresh THEN 1 ELSE 0]
              /\ known' = known \union PositionsIn(b)
              /\ strayed' = (strayed \/ b \notin domains)
              /\ behind' = (behind \/ layer = "detail")
           \/ UNCHANGED <<cached, pool, strayed, behind>>
    /\ UNCHANGED <<overview, domains, place, selected, trends, asked, chosen, doubled,
                   unordered>>

-----------------------------------------------------------------------------
loads == <<overview, domains, trends, chosen, unordered, strayed, behind>>

\* A bubble of the overview is clicked, or double-clicked where it is shown.
EnterBubble(b) ==
    /\ layer = "domain" /\ b \in domains
    /\ selected' \in {"island", selected}
    /\ GoToPositionLayer(b, TRUE)
    /\ UNCHANGED <<loads, cached, pool>>

\* A double click on the bubble that was entered.
EnterAgain ==
    /\ layer # "domain" /\ island \in domains
    /\ GoToPositionLayer(island, TRUE)
    /\ UNCHANGED <<loads, cached, pool, selected>>

\* A position below its bubble is clicked.
OpenPosition(p) ==
    /\ layer = "position" /\ Contains(cached, island)
    /\ p \in PositionsIn(island)
    /\ selected' = p
    /\ GoToDetailLayer(p, island, named)
    /\ UNCHANGED <<loads, cached, pool, requests>>

\* Clicks that only select: the bubble below which the user is, the position
\* or a skill on the layer of details, the canvas.
Select ==
    /\ \/ layer = "position" /\ island # None
          /\ selected' = IF island \in domains THEN "island" ELSE None
       \/ layer = "detail" /\ opened \in known /\ selected' = opened
       \/ layer = "detail" /\ (\E e \in Edges : e[1] = opened /\ links[e] > 0)
          /\ selected' = "skill"
       \/ selected' = None
    /\ UNCHANGED <<loads, place, cached, pool, requests>>

\* The detail panel of a skill lists positions that require it.
OpenRelated(p) ==
    /\ selected = "skill" /\ p \in known
    /\ selected' = p
    /\ GoToDetailLayer(p, island, named)
    /\ UNCHANGED <<loads, cached, pool, requests>>

\* The breadcrumb: up to the bubble, or up to all of them.
UpToBubble ==
    /\ named /\ opened # None
    /\ GoToPositionLayer(island, TRUE)
    /\ UNCHANGED <<loads, cached, pool, selected>>

UpToOverview ==
    /\ named \/ opened # None
    /\ GoToDomainLayer
    /\ UNCHANGED <<loads, pool, selected, requests>>

\* handleSearchSelect: a bubble is entered; a position of the pool, or one that
\* requires the skill found, is opened below the first cached bubble with it -
\* without one nothing happens.
Search ==
    \/ \E b \in domains :
          GoToPositionLayer(b, TRUE) /\ UNCHANGED <<loads, cached, pool, selected>>
    \/ \E p \in known :
          /\ Holding(p) # {}
          /\ LET b == FirstHolding(p) IN GoToDetailLayer(p, b, b \in domains)
          /\ selected' \in {p, "skill"}
          /\ UNCHANGED <<loads, cached, pool, requests>>

-----------------------------------------------------------------------------
\* fetchEvolutionPathsForPosition of what is selected, or of the first position
\* below the bubble; s is the request this continues, if there is one.
FirstOf(b) == CHOOSE p \in PositionsIn(b) : TRUE
Focus(s) ==
    LET below == island # None /\ Contains(cached, island) /\ PositionsIn(island) # {}
        p == IF selected \in Positions THEN selected ELSE FirstOf(island)
        request == [kind |-> "paths", of |-> p, keys |-> {}]
    IN  IF selected \in Positions \/ below
        THEN /\ focus' = p
             /\ answer' = [answer EXCEPT ![s] = request]
        ELSE focus' = focus /\ answer' = [answer EXCEPT ![s] = Idle]

\* toggleEvolution: the edges are loaded first, the paths after them.
ShowEvolution ==
    /\ ~evolution /\ evolution' = TRUE
    /\ outrun' = (outrun \/ UnderWay({"edges", "paths"}) # {})
    /\ asked < MaxAsked /\ asked' = asked + 1
    /\ \E s \in Slots :
          /\ answer[s] = Idle
          /\ IF edgesLoaded THEN Focus(s)
             ELSE /\ answer' = [answer EXCEPT ![s] = [Idle EXCEPT !.kind = "edges"]]
                  /\ UNCHANGED focus
    /\ UNCHANGED <<overview, domains, place, cached, pool, selected, paths, edgesLoaded,
                   chosen, doubled, unordered, strayed, behind>>

\* Variant: what was loaded stays.
HideEvolutionOnly ==
    /\ evolution /\ evolution' = FALSE
    /\ outrun' = (UnderWay({"edges", "paths"}) # {})
    /\ UNCHANGED <<overview, domains, place, cached, pool, selected, edgesLoaded, requests,
                   chosen, unordered, strayed, behind, paths, focus>>

HideEvolution ==
    /\ evolution /\ evolution' = FALSE
    /\ paths' = None /\ focus' = None
    /\ outrun' = (UnderWay({"edges", "paths"}) # {})
    /\ UNCHANGED <<overview, domains, place, cached, pool, selected, edgesLoaded, requests,
                   chosen, unordered, strayed, behind>>

\* The edges arrive or do not; the handler goes on with what is selected now.
EvolutionEdges(s) ==
    /\ answer[s].kind = "edges"
    /\ edgesLoaded' \in BOOLEAN
    /\ Focus(s)
    /\ UNCHANGED <<overview, domains, place, cached, pool, selected, evolution, paths,
                   outrun, asked, chosen, doubled, unordered, strayed, behind>>

Paths(s) ==
    /\ answer[s].kind = "paths"
    /\ answer' = [answer EXCEPT ![s] = Idle]
    /\ \/ paths' = answer[s].of /\ UNCHANGED outrun
       \/ paths' = None /\ outrun' = TRUE
    /\ UNCHANGED <<overview, domains, place, cached, pool, selected, evolution, focus,
                   edgesLoaded, asked, chosen, doubled, unordered, strayed, behind>>

Next ==
    \/ OpenPage \/ Select \/ EnterAgain \/ UpToBubble \/ UpToOverview \/ Search
    \/ ShowEvolution \/ HideEvolution
    \/ \E mode \in Modes : ChooseMode(mode)
    \/ \E b \in DOMAIN Requires : EnterBubble(b)
    \/ \E p \in Positions : OpenPosition(p) \/ OpenRelated(p)
    \/ \E s \in Slots :
          Overview(s) \/ PositionsLoaded(s) \/ EvolutionEdges(s) \/ Paths(s)

Spec == Init /\ [][Next]_vars

-----------------------------------------------------------------------------
TypeOK ==
    /\ overview \in Modes /\ chosen \in Modes /\ domains \subseteq DOMAIN Requires
    /\ layer \in {"domain", "position", "detail"}
    /\ island \in DOMAIN Requires \union {None} /\ opened \in Positions \union {None}
    /\ named \in BOOLEAN /\ evolution \in BOOLEAN /\ edgesLoaded \in BOOLEAN
    /\ ToSet(cached) \subseteq DOMAIN Requires /\ known \subseteq Positions
    /\ asked \in 0 .. MaxAsked
    /\ links \in [Edges -> 0 .. Cardinality(Slots)]
    /\ selected \in Positions \union {None, "island", "skill"}
    /\ paths \in Positions \union {None} /\ focus \in Positions \union {None}
    /\ answer \in [Slots -> [kind : {"idle", "overview", "positions", "edges", "paths"},
                             of : Modes \union DOMAIN Requires \union Positions \union {None},
                             keys : SUBSET Edges]]

\* An edge is in the pool once, unless two bubbles were loading together: a double
\* click is enough for that (fetchKAPositions takes its keys before it waits).
EachEdgeOnce == ~doubled => \A e \in Edges : links[e] <= 1

\* The user is below a bubble of the overview shown, and the cache has no others,
\* unless an overview failed or positions arrived after another overview.
PlaceIsShown ==
    ~strayed => /\ island # None => island \in domains
                /\ ToSet(cached) \subseteq domains

\* An opened position is below a bubble that holds it, where one was loaded.
OpenedBelow ==
    layer = "detail" /\ island # None /\ Holding(opened) # {} /\ ~behind =>
        opened \in PositionsIn(island)

\* When nothing is under way the overview shown is the mode chosen last.
ChosenModeShown ==
    UnderWay({"overview"}) = {} /\ ~unordered => chosen = overview

\* The paths are those of the position in focus, once they are there.
PathsOfFocus ==
    UnderWay({"edges", "paths"}) = {} /\ ~outrun => paths = focus

BrowserSound ==
    EachEdgeOnce /\ PlaceIsShown /\ OpenedBelow /\ ChosenModeShown /\ PathsOfFocus

=============================================================================
