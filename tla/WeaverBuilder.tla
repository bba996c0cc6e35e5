--------------------------- MODULE WeaverBuilder ----------------------------
(***************************************************************************)
(* internal/export (Generate, policies, .weaver.toml) and the validation   *)
(* in api/handlers_builder.go: from a posted project to the files of a     *)
(* Weaver registry, as operators.  BuilderSession adds the clients.        *)
(*                                                                         *)
(* The files stand by place: the manifest, groups/ and policies/ by the    *)
(* name of the file, the config; the content of each is a record of what   *)
(* the YAML, rego or TOML says.  A brief is the sequence of its pieces of  *)
(* text, at the finest its characters: "payments due" may stand as "pay",  *)
(* "ments", Space and "due".  The other conversions on text are constants: *)
(* functions over an instance's texts.                                     *)
(***************************************************************************)
EXTENDS Naturals, SequencesExt

CONSTANTS
    Sanitized,      \* sanitizePolicyName
    Leading,        \* namespaceFromID: up to the first dot
    Prefixed,       \* the pairs <<text, prefix>>
    DefaultDeps     \* <<the pinned OTel registry>>, or << >> if none is loaded

Absent == ""        \* an omitted text; << >> is an omitted list
FirstNonEmpty(a, b) == IF a # Absent THEN a ELSE b

(* A sanitized name: "mine_2" is the stem "mine" and the number 2.         *)
Name == [stem : STRING, nums : Seq(Nat)]

ASSUME DepsAssumption == Len(DefaultDeps) <= 1

-----------------------------------------------------------------------------
(* What is posted: the handler decodes JSON into these.                    *)

AttributeInput ==
    [id : STRING, type : STRING, stability : STRING, requirement_level : STRING]
GroupInput ==
    [id : STRING, namespace : STRING, type : STRING, stability : STRING,
     brief : Seq(STRING), attributes : Seq(AttributeInput)]

(* A parameter is the list of what separators leave of it, trimmed: only   *)
(* "allowed" may have several pieces; one that is not posted has none.     *)
Keys == {"prefix", "allowed", "attribute", "expected_type"}
PolicyInput ==
    {c \in [raw : STRING, template : STRING, name : STRING, params : [Keys -> Seq(STRING)]] :
        \A key \in Keys \ {"allowed"} : Len(c.params[key]) <= 1}

-----------------------------------------------------------------------------
(* Groups: one file per sanitized namespace.                               *)

Namespace(g) == FirstNonEmpty(FirstNonEmpty(g.namespace, Leading[g.id]), "custom")
FileKey_Raw(g) == [stem |-> Namespace(g), nums |-> << >>]
FileKey(g) == Sanitized[Namespace(g)]

Enriched(a) ==
    [id |-> a.id,
     type |-> FirstNonEmpty(a.type, "string"),
     stability |-> FirstNonEmpty(a.stability, "development"),
     requirement_level |-> FirstNonEmpty(a.requirement_level, "recommended")]
EnrichedAll(attrs) == [i \in DOMAIN attrs |-> Enriched(attrs[i])]

(* The first input of a namespace names the group, or else the file does.  *)
NewGroup(g) ==
    [id |-> g.id, type |-> Absent, stability |-> Absent, brief |-> << >>,
     attributes |-> << >>]

(* strings.Contains: a run of pieces is found inside a word as well.       *)
Space == "space"    \* between two briefs
WithSpace(text, more) == IF text = << >> THEN more ELSE text \o <<Space>> \o more
WithBrief(text, more) == IF more \in SubSeqs(text) THEN text ELSE WithSpace(text, more)
Joined(grp, g) ==
    [id |-> grp.id,
     type |-> FirstNonEmpty(grp.type, g.type),
     stability |-> FirstNonEmpty(grp.stability, g.stability),
     brief |-> WithBrief(grp.brief, g.brief),
     attributes |-> grp.attributes \o EnrichedAll(g.attributes)]
Part(groups, g) == IF FileKey(g) \in DOMAIN groups THEN groups[FileKey(g)] ELSE NewGroup(g)
MergeGroup(groups, g) ==
    [ns \in DOMAIN groups \union {FileKey(g)} |->
        IF ns = FileKey(g) THEN Joined(Part(groups, g), g) ELSE groups[ns]]

Finished(grp) ==
    [id |-> grp.id,
     type |-> FirstNonEmpty(grp.type, "attribute_group"),
     stability |-> FirstNonEmpty(grp.stability, "development"),
     brief |-> IF grp.brief = << >> THEN <<"default">> ELSE grp.brief,
     attributes |-> grp.attributes]

NoFiles == [n \in {} |-> 0]
GroupFiles(groups) ==
    LET byNS == FoldLeft(MergeGroup, NoFiles, groups)
    IN [ns \in DOMAIN byNS |-> Finished(byNS[ns])]

-----------------------------------------------------------------------------
(* Policies: one file per check.                                           *)

(* The parameters a template cannot do without.                            *)
Required ==
    [naming_prefix_required |-> {"prefix"}, namespace_allow_list |-> {"allowed"},
     stability_required |-> {}, requirement_level_required |-> {},
     no_deprecated_without_replacement |-> {},
     type_consistency |-> {"attribute", "expected_type"}]
Templates == DOMAIN Required

ASSUME SanitizedAssumption ==
    /\ \A t \in DOMAIN Sanitized : Sanitized[t] \in Name
    /\ Templates \subseteq DOMAIN Sanitized

Param(params, key) == ToSet(params[key]) \ {Absent}

Emits(check) ==
    \/ check.raw # Absent
    \/ /\ check.template \in Templates
       /\ \A key \in Required[check.template] : Param(check.params, key) # {}

NameText(check) ==
    FirstNonEmpty(check.name,
        IF check.raw # Absent THEN "custom_check" ELSE check.template)
BaseName(check) == Sanitized[NameText(check)]

(* The helper rule of an allow-list has its name from the base name.       *)
EmitPolicyRego(check) ==
    [raw |-> check.raw, template |-> check.template, params |-> check.params,
     token |-> BaseName(check)]

Suffixed(base, i) ==
    IF i = 1 THEN base ELSE [stem |-> base.stem, nums |-> Append(base.nums, i)]
UniquePolicyName_Unchecked(base, used) == base
UniquePolicyName(base, used) ==
    LET free == {i \in 1..(Cardinality(used) + 1) : Suffixed(base, i) \notin used}
    IN Suffixed(base, Min(free))
AddPolicy(policies, check) ==
    LET name == UniquePolicyName(BaseName(check), DOMAIN policies)
    IN [n \in DOMAIN policies \union {name} |->
            IF n = name THEN EmitPolicyRego(check) ELSE policies[n]]
PolicyFiles(checks) == FoldLeft(AddPolicy, NoFiles, checks)

-----------------------------------------------------------------------------
(* .weaver.toml: sections only where they say something.                   *)

NoConfig == [enabled |-> FALSE]

FindingLevels == {"information", "improvement", "violation"}
ValidLevels(config) ==
    \A i \in DOMAIN config.filters : config.filters[i].min_level \in FindingLevels \union {Absent}
Constrains(filter) == filter.exclude # {} \/ filter.min_level # Absent

PolicyPaths(config, checks) ==
    IF config.policy_paths = {} /\ checks # << >> THEN {"policies"}
    ELSE config.policy_paths
EmitWeaverConfig(config, checks) ==
    [enabled |-> TRUE,
     registry |-> FirstNonEmpty(config.registry_path, "."),
     policy_paths |-> PolicyPaths(config, checks),
     policy_skip |-> config.policy_skip,
     filters |-> SelectSeq(config.filters, Constrains)]

-----------------------------------------------------------------------------
(* Generate, after the handler's validation.                               *)

Dependencies(manifest) ==
    IF manifest.dependencies = << >> THEN DefaultDeps ELSE manifest.dependencies
Manifest(state) ==
    [schema_url |-> state.manifest.schema_url,
     dependencies |-> Dependencies(state.manifest)]

CanGenerate(state) ==
    /\ Len(Dependencies(state.manifest)) <= 1
    /\ \A i \in DOMAIN state.policies : Emits(state.policies[i])
    /\ state.config.enabled => ValidLevels(state.config)

Generate(state) ==
    [manifest |-> Manifest(state),
     groups |-> GroupFiles(state.groups),
     policies |-> PolicyFiles(state.policies),
     config |-> IF ~state.config.enabled THEN NoConfig
                ELSE EmitWeaverConfig(state.config, state.policies)]

(* decodeAndGenerate: a schema URL is absent, unversioned or versioned.    *)
Valid(state) ==
    /\ state.manifest.schema_url = "versioned"
    /\ Len(state.manifest.dependencies) <= 1
    /\ state.config.enabled => ValidLevels(state.config)

Respond(state) ==
    IF ~Valid(state) THEN [status |-> 400, files |-> NoFiles]
    ELSE IF ~CanGenerate(state) THEN [status |-> 500, files |-> NoFiles]
    ELSE [status |-> 200, files |-> Generate(state)]
=============================================================================
