--------------------------- MODULE BuilderSession ---------------------------
(***************************************************************************)
(* Clients of the builder's endpoints: a session of api/ui/builder.js, or  *)
(* one POST of an API client.                                              *)
(*                                                                         *)
(* Every edit in the page restarts a 400 ms timer; when it ends the page   *)
(* posts the project and shows what comes back.  Restarting the timer does *)
(* not cancel a request under way, so answers come in any order, and a     *)
(* page without schema URL is emptied at once.  The page's Download button *)
(* posts the same project: the archive is Respond(BuildState).files.       *)
(***************************************************************************)
EXTENDS WeaverBuilder

CONSTANTS
    Seeds,          \* rows the seed endpoint may answer with
    NamespaceTexts, TypeTexts, ListTexts,   \* what is typed into the forms
    Posts,          \* projects an API client may post
    MaxEdits        \* bound of the model: edits of a session

ASSUME InputsAssumption ==
    /\ Seeds \subseteq Seq([id : STRING, namespace : STRING, type : STRING])
    /\ ListTexts \subseteq Seq(STRING)
    /\ \A s \in Posts :
        /\ s.groups \in Seq(GroupInput) /\ s.policies \in Seq(PolicyInput)
        /\ \A i \in DOMAIN s.policies : NameText(s.policies[i]) \in DOMAIN Sanitized

VARIABLES
    client,     \* a session of the page, or one POST
    ui,         \* the form: schema, rows, checks, config
    seeded,     \* the seed endpoint has answered
    timer,      \* the debounce timer runs
    inflight,   \* requests under way: [edit, state]
    preview,    \* what is shown: [edit, status, files]; status 0: no answer
    edits,      \* edits so far
    answered,   \* the last request answered, by page or API: [state, answer]
    newest      \* history: the latest edit the preview was ever shown for

sessionVars == <<client, ui, seeded, timer, inflight, preview, edits, answered, newest>>

-----------------------------------------------------------------------------
(* buildState: one group per row, complete checks only.                    *)

(* A list field of one separator is not blank; the server finds it empty.  *)
CheckComplete_Any(c) == TRUE
CheckComplete(c) ==
    \A key \in Required[c.template] : c.params[key] # <<Absent>>
KeepComplete(kept, c) == IF CheckComplete(c) THEN Append(kept, c) ELSE kept

RowGroup(r) ==
    [id |-> Absent, namespace |-> FirstNonEmpty(r.namespace, "custom"), type |-> Absent,
     stability |-> Absent, brief |-> << >>,
     attributes |-> <<[id |-> r.id, type |-> r.type, stability |-> "development",
                       requirement_level |-> "recommended"]>>]
BuildState(u) ==
    [manifest |-> [schema_url |-> u.schema, dependencies |-> << >>],
     groups |-> [i \in DOMAIN u.rows |-> RowGroup(u.rows[i])],
     policies |-> FoldLeft(KeepComplete, << >>, u.checks),
     config |-> u.config]

(* A check as the catalog card adds it, with the template's defaults.      *)
DefaultParams(t) ==
    [key \in Keys |->
        IF key \notin Required[t] THEN << >>
        ELSE CASE key = "prefix" -> <<"acme.">>
               [] key = "expected_type" -> <<"int">>
               [] OTHER -> <<Absent>>]
NewCheck(t) == [raw |-> Absent, template |-> t, name |-> Absent, params |-> DefaultParams(t)]

DefaultConfig ==
    [enabled |-> TRUE, registry_path |-> Absent, policy_paths |-> {},
     policy_skip |-> FALSE, filters |-> << >>]

(* What an edit may leave of the schema URL, the rows, the checks.         *)
Schemas == {Absent, "unversioned", "versioned"}
EditedRows(rows) ==
    {[i \in DOMAIN rows |-> IF i \in sel THEN [rows[i] EXCEPT !.namespace = ns] ELSE rows[i]] :
        sel \in SUBSET DOMAIN rows, ns \in NamespaceTexts}
    \union {[rows EXCEPT ![i].type = t] : i \in DOMAIN rows, t \in TypeTexts}
EditedChecks(checks) ==
    {Append(checks, NewCheck(t)) : t \in Templates}
    \union {RemoveAt(checks, i) : i \in DOMAIN checks}
    \union {[checks EXCEPT ![i].params.allowed = x] :
                i \in {i \in DOMAIN checks : "allowed" \in Required[checks[i].template]},
                x \in ListTexts}

-----------------------------------------------------------------------------

Nothing == [edit |-> 0, status |-> 200, files |-> NoFiles]

SessionInit ==
    /\ client \in {"page", "api"}
    /\ ui = [schema |-> "versioned", rows |-> << >>, checks |-> << >>, config |-> NoConfig]
    /\ seeded = FALSE
    /\ timer = TRUE /\ inflight = {} /\ preview = Nothing /\ edits = 0
    /\ answered = << >> /\ newest = 0

(* The effect over [manifest, rows, checks, catalog, config].              *)
Regenerates_OnRows(what) == what \in {"manifest", "rows"}
Regenerates(what) == TRUE
Changed(what, to) ==
    /\ to # ui
    /\ ui' = to /\ edits' = edits + 1
    /\ \/ /\ to.schema = Absent
          /\ timer' = FALSE
          /\ preview' = [Nothing EXCEPT !.edit = edits + 1]
          /\ newest' = edits + 1
       \/ /\ to.schema # Absent
          /\ timer' = (timer \/ Regenerates(what))
          /\ UNCHANGED <<preview, newest>>
    /\ UNCHANGED <<client, inflight, answered>>

Seed ==
    /\ client = "page" /\ ~seeded
    /\ seeded' = TRUE
    /\ \E rows \in Seeds : Changed("rows", [ui EXCEPT !.rows = rows])

Edit ==
    /\ seeded /\ edits < MaxEdits
    /\ \/ \E s \in Schemas : Changed("manifest", [ui EXCEPT !.schema = s])
       \/ \E rows \in EditedRows(ui.rows) : Changed("rows", [ui EXCEPT !.rows = rows])
       \/ \E cs \in EditedChecks(ui.checks) : Changed("checks", [ui EXCEPT !.checks = cs])
       \/ \E c \in {NoConfig, DefaultConfig} : Changed("config", [ui EXCEPT !.config = c])
    /\ UNCHANGED seeded

(* The timer ends: POST /api/v1/builder/generate.                          *)
Fire ==
    /\ client = "page" /\ timer
    /\ timer' = FALSE
    /\ inflight' = inflight \union {[edit |-> edits, state |-> BuildState(ui)]}
    /\ UNCHANGED <<client, ui, seeded, preview, edits, answered, newest>>

Show(r, answer) ==
    /\ inflight' = inflight \ {r}
    /\ preview' = [edit |-> r.edit, status |-> answer.status, files |-> answer.files]
    /\ newest' = IF r.edit > newest THEN r.edit ELSE newest
    /\ UNCHANGED <<client, ui, seeded, timer, edits>>

(* An answer arrives: files, or an error, which empties the tree.          *)
Arrive ==
    \E r \in inflight :
        /\ Show(r, Respond(r.state))
        /\ answered' = [state |-> r.state, answer |-> Respond(r.state)]

(* fetch fails.                                                            *)
Lose ==
    \E r \in inflight :
        /\ Show(r, [status |-> 0, files |-> NoFiles])
        /\ UNCHANGED answered

(* An API client; the handlers keep no state, so one request shows all.    *)
Post ==
    /\ client = "api" /\ answered = << >>
    /\ \E s \in Posts : answered' = [state |-> s, answer |-> Respond(s)]
    /\ UNCHANGED <<client, ui, seeded, timer, inflight, preview, edits, newest>>

SessionNext == Seed \/ Edit \/ Fire \/ Arrive \/ Lose \/ Post

SessionSpec == SessionInit /\ [][SessionNext]_sessionVars

-----------------------------------------------------------------------------
(* What the last answer says, and what its project asked for.              *)

State == answered.state
Files == answered.answer.files
Generated == answered # << >> /\ answered.answer.status = 200

(* Every authored attribute is in the file of its namespace, once, in the  *)
(* order of the inputs and with its defaults, whichever inputs share the   *)
(* file after sanitizing; the first type and stability given count, the    *)
(* text of every brief is found in the file's, if only within a word of an *)
(* earlier one, and there is no other group.                               *)
(* (weaver.go:187-252, "a later group's fields are not silently dropped")  *)
NoGroup == [type |-> Absent, stability |-> Absent, brief |-> << >>, attributes |-> << >>]
In(ns) ==
    [i \in DOMAIN State.groups |->
        IF Sanitized[Namespace(State.groups[i])] = ns THEN State.groups[i] ELSE NoGroup]
First(given, default) ==
    LET places == {i \in DOMAIN given : given[i] # Absent}
    IN IF places = {} THEN default ELSE given[Min(places)]
SaysAll(file, inputs) ==
    LET all == DOMAIN inputs IN
    /\ file.type = First([i \in all |-> inputs[i].type], "attribute_group")
    /\ file.stability = First([i \in all |-> inputs[i].stability], "development")
    /\ file.attributes = FlattenSeq([i \in all |-> EnrichedAll(inputs[i].attributes)])
    /\ \A i \in all : inputs[i].brief \in SubSeqs(file.brief)
NothingAuthoredIsLost ==
    Generated =>
        /\ DOMAIN Files.groups =
              {Sanitized[Namespace(State.groups[i])] : i \in DOMAIN State.groups}
        /\ \A ns \in DOMAIN Files.groups : SaysAll(Files.groups[ns], In(ns))

(* Weaver's side: the rules of the policy files share one package, so that *)
(* helpers of one name are one rule; a config may lead it elsewhere.       *)
Rules == {r \in Range(Files.policies) : r.raw = Absent}
Attributes == UNION {ToSet(g.attributes) : g \in Range(Files.groups)}
Denies(rule, a) ==
    LET p == rule.params IN
    \/ /\ rule.template = "naming_prefix_required"
       /\ \A x \in Param(p, "prefix") : <<a.id, x>> \notin Prefixed
    \/ /\ rule.template = "namespace_allow_list"
       /\ \A q \in {q \in Rules : q.template = rule.template /\ q.token = rule.token} :
            \A x \in Param(q.params, "allowed") : <<a.id, x>> \notin Prefixed
    \/ rule.template = "stability_required" /\ a.stability = Absent
    \/ rule.template = "requirement_level_required" /\ a.requirement_level = Absent
    \/ /\ rule.template = "type_consistency"
       /\ a.id \in Param(p, "attribute") /\ a.type \notin Param(p, "expected_type")
Runs ==
    Files.config.enabled => ~Files.config.policy_skip /\ "policies" \in Files.config.policy_paths
Finding(template, params, a) == [template |-> template, params |-> params, attribute |-> a.id]
Findings ==
    UNION {{Finding(rule.template, rule.params, a) :
                a \in {a \in Attributes : Runs /\ Denies(rule, a)}} : rule \in Rules}

(* Weaver reports an attribute under a check exactly when it breaks that   *)
(* check: no check is lost to a file of the same name, and an emitted      *)
(* config leads to the checks unless it was told otherwise.  An attribute  *)
(* has a stability and a level by default: those checks find nothing here. *)
(* Allow-lists of one (sanitized) name are one list, the union of theirs.  *)
(* (policy.go:117-166, 194-250, weaver.go:254-283)                         *)
Authored == UNION {ToSet(State.groups[i].attributes) : i \in DOMAIN State.groups}
Checks == {c \in ToSet(State.policies) : c.raw = Absent}
Breaks(check, a) ==
    CASE check.template = "naming_prefix_required" ->
            <<a.id, Head(check.params.prefix)>> \notin Prefixed
      [] check.template = "namespace_allow_list" ->
            \A other \in Checks :
                other.template = check.template /\ BaseName(other) = BaseName(check) =>
                    \A x \in ToSet(other.params.allowed) \ {Absent} : <<a.id, x>> \notin Prefixed
      [] check.template = "type_consistency" ->
            /\ check.params.attribute = <<a.id>>
            /\ check.params.expected_type # <<FirstNonEmpty(a.type, "string")>>
      [] OTHER -> FALSE
Told ==
    State.config.enabled =>
        /\ ~State.config.policy_skip
        /\ State.config.policy_paths = {} \/ "policies" \in State.config.policy_paths
FindingsAreDeserved ==
    Generated =>
        Findings = UNION {{Finding(check.template, check.params, a) :
                              a \in {a \in Authored : Told /\ Breaks(check, a)}} : check \in Checks}

(* Generation never fails on what validation let through, but for a check: *)
(* and of the page's, which leaves out incomplete ones, only for an        *)
(* allow-list of nothing but separators, which page and server judge       *)
(* differently. (handlers_builder.go:38-78, builder.js:74-79, policy.go:297-325)*)
ValidationCoversGeneration ==
    answered # << >> /\ answered.answer.status = 500 =>
        \E i \in DOMAIN State.policies :
            LET check == State.policies[i] IN
            /\ ~Emits(check)
            /\ client = "page" =>
                check.template = "namespace_allow_list" /\ Param(check.params, "allowed") = {}

(* At rest the preview is what the Download button would fetch, unless the *)
(* last answer was overtaken by a newer one or its request failed; and it  *)
(* is empty without a schema URL. (builder.js:667-699)                     *)
AtRest == client = "page" /\ ~timer /\ inflight = {}
PreviewIsCurrent ==
    AtRest /\ preview.edit = newest /\ preview.status # 0 =>
        preview.files = IF ui.schema = Absent THEN NoFiles ELSE Respond(BuildState(ui)).files
=============================================================================
