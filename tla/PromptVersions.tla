---------------------------- MODULE PromptVersions ----------------------------
(***************************************************************************)
(* The versions of one prompt: the registry in the memory of the API       *)
(* process (core/extraction/prompt.py) and the table prompt_versions, as   *)
(* the two requests of api/v1/admin_prompts.py change them and as the      *)
(* start of the process (main.py) merges the second into the first.        *)
(*                                                                         *)
(* A request is a transaction and a change of the memory, in an order that *)
(* differs between the two.  A text is "" in the row that only marks a     *)
(* built-in version as active.                                             *)
(***************************************************************************)
EXTENDS Naturals, FiniteSets

CONSTANTS
    Admins,    \* requests that may be under way
    Versions,  \* version tags, "v1" among them
    Templates  \* texts an administrator may register

PromptAssumption ==
    /\ IsFiniteSet(Versions) /\ "v1" \in Versions
    /\ Templates \intersect {"", "builtin", "absent"} = {}

Absent == "absent"  \* no text, no active version
Contents == Templates \cup {"builtin", "", Absent}
NoRow == [text |-> Absent, active |-> FALSE]
Idle == [step |-> "idle"]

VARIABLES
    builtin,   \* the built-in versions: of a known prompt, or none of a new one
    registry,  \* _PROMPT_VERSIONS
    active,    \* _ACTIVE_VERSIONS
    rows,      \* the rows of prompt_versions
    request,   \* what each administrator is doing
    excused    \* memory and table may differ until the next start

vars == <<builtin, registry, active, rows, request, excused>>

TypeOK ==
    /\ builtin \subseteq Versions
    /\ registry \in [Versions -> Contents]
    /\ active \in Versions \cup {Absent}
    /\ rows \in [Versions -> [text : Contents, active : BOOLEAN]]
    /\ DOMAIN request = Admins
    /\ excused \in BOOLEAN

-----------------------------------------------------------------------------
Stored == {v \in Versions : rows[v] # NoRow}
ActiveRows == {v \in Versions : rows[v].active}

\* apply_custom_prompt_versions, over the built-in registry.
MergedRegistry ==
    [v \in Versions |->
        IF rows[v].text \notin {Absent, ""} THEN rows[v].text
        ELSE IF v \in builtin THEN "builtin" ELSE Absent]

\* The active row seen last wins, and the query has no order.
MergedActive ==
    IF ActiveRows # {} THEN ActiveRows
    ELSE IF builtin # {} THEN {"v1"} ELSE {Absent}

Init ==
    /\ builtin \in {{"v1"}, {}}
    /\ registry = [v \in Versions |-> IF v \in builtin THEN "builtin" ELSE Absent]
    /\ active = IF builtin # {} THEN "v1" ELSE Absent
    /\ rows = [v \in Versions |-> NoRow]
    /\ request = [a \in Admins |-> Idle]
    /\ excused = FALSE

\* Requests that touch the same version, or that both activate one, may end
\* up in one order in the table and in the other in memory.
Overlaps(a, version, activate) ==
    \E other \in Admins \ {a} :
        /\ request[other] # Idle
        /\ request[other].version = version \/ (activate /\ request[other].activate)

Begin(a, req) ==
    /\ request[a] = Idle
    /\ request' = [request EXCEPT ![a] = req]
    /\ excused' = (excused \/ Overlaps(a, req.version, req.activate))

End(a) == request' = [request EXCEPT ![a] = Idle]

\* Variant: the marks of the other versions stay.
CommitMarks(req, text) ==
    rows' = [rows EXCEPT ![req.version] =
                [text |-> text, active |-> @.active \/ req.activate]]

\* The transaction: the rows that were there when its first statement began
\* lose the mark, the row of the version is inserted or changed.
Commit(req, text) ==
    rows' = [v \in Versions |->
        IF v = req.version
        THEN [text |-> text, active |-> \/ req.activate
                                        \/ rows[v].active]
        ELSE [rows[v] EXCEPT !.active = @ /\ ~(req.activate /\ v \in req.seen)]]

-----------------------------------------------------------------------------
(* create_prompt_version: the table first, then the memory.                *)

BeginCreate(a) ==
    /\ \E version \in Versions, text \in Templates, activate \in BOOLEAN :
           Begin(a, [step |-> "create", version |-> version, text |-> text,
                     activate |-> activate, seen |-> Stored])
    /\ UNCHANGED <<builtin, registry, active, rows>>

CommitCreate(a) ==
    /\ request[a].step = "create"
    /\ Commit(request[a], request[a].text)
    /\ request' = [request EXCEPT ![a].step = "register"]
    /\ UNCHANGED <<builtin, registry, active, excused>>

\* register_prompt_version: the first version of a name becomes active even
\* when nobody asked for it, in memory alone.
Register(a) ==
    /\ request[a].step = "register"
    /\ LET req == request[a]
       IN /\ registry' = [registry EXCEPT ![req.version] = req.text]
          /\ active' = IF req.activate \/ active = Absent THEN req.version ELSE active
          /\ excused' = (excused \/ (active = Absent /\ ~req.activate))
    /\ End(a)
    /\ UNCHANGED <<builtin, rows>>

-----------------------------------------------------------------------------
(* change_active_version: the memory first, then the table.                *)

BeginActivate(a) ==
    /\ \E version \in Versions :
           /\ registry[version] # Absent
           /\ active' = version
           /\ Begin(a, [step |-> "activate", version |-> version, text |-> "",
                        activate |-> TRUE, seen |-> {}])
    /\ UNCHANGED <<builtin, registry, rows>>

\* The statement that clears the marks begins.
Clear(a) ==
    /\ request[a].step = "activate"
    /\ request' = [request EXCEPT ![a].step = "mark", ![a].seen = Stored]
    /\ UNCHANGED <<builtin, registry, active, rows, excused>>

CommitActivate(a) ==
    /\ request[a].step = "mark"
    /\ LET text == rows[request[a].version].text
       IN Commit(request[a], IF text = Absent THEN "" ELSE text)
    /\ End(a)
    /\ UNCHANGED <<builtin, registry, active, excused>>

-----------------------------------------------------------------------------
\* The transaction fails: the connection is lost, or another request has
\* inserted the same version.
Fail(a) ==
    /\ request[a].step \in {"create", "activate", "mark"}
    /\ excused' = (excused \/ request[a].step # "create")
    /\ End(a)
    /\ UNCHANGED <<builtin, registry, active, rows>>

\* The process is started again; requests under way are lost.
Restart ==
    /\ registry' = MergedRegistry
    /\ active' \in MergedActive
    /\ request' = [a \in Admins |-> Idle]
    /\ excused' = (excused /\ Cardinality(ActiveRows) > 1)
    /\ UNCHANGED <<builtin, rows>>

Next ==
    \/ \E a \in Admins :
           \/ BeginCreate(a) \/ CommitCreate(a) \/ Register(a)
           \/ BeginActivate(a) \/ Clear(a) \/ CommitActivate(a)
           \/ Fail(a)
    \/ Restart

Spec == Init /\ [][Next]_vars

-----------------------------------------------------------------------------
\* What the process would serve: a prompt without an active version is
\* asked for its v1 (_get_prompt_versioned).
Served(texts, version) == texts[IF version = Absent THEN "v1" ELSE version]

\* With no request under way a restart changes neither the texts nor the
\* version that is served, unless two requests for one version or two
\* activations overlapped, an activation failed halfway, or the first
\* version of a new prompt became active of itself.
RestartChangesNothing ==
    (\A a \in Admins : request[a] = Idle) /\ ~excused =>
        /\ registry = MergedRegistry
        /\ \A version \in MergedActive :
               Served(MergedRegistry, version) = Served(registry, active)
=============================================================================
