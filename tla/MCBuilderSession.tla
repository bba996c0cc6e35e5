-------------------------- MODULE MCBuilderSession --------------------------
EXTENDS BuilderSession

(* "acme.pay" and "acme_pay" are one namespace once sanitized.             *)
Stem(t) == [stem |-> t, nums |-> << >>]
MCSanitized ==
    [t \in {"acme.pay", "acme_pay"} |-> Stem("acme_pay")]
        @@ [t \in Templates \union {"acme", "custom", "custom_check", "internal"} |-> Stem(t)]
        @@ [t \in {"mine", "Mine"} |-> Stem("mine")]
        @@ ("mine_2" :> [Stem("mine") EXCEPT !.nums = <<2>>]) @@ ("" :> Stem("check"))
MCLeading == ("" :> "") @@ ("acme.pay" :> "acme") @@ ("internal" :> "internal")
MCPrefixed == {<<"acme.id", "acme.">>, <<"acme.id", "">>, <<"host", "">>, <<"host", "host">>}
MCDefaultDeps == <<"otel">>

Row(id, ns, type) == [id |-> id, namespace |-> ns, type |-> type]
MCSeeds == {<<Row("acme.id", "acme", "string"), Row("host", "custom", "int")>>}
MCNamespaceTexts == {"acme.pay", ""}
MCTypeTexts == {""}
MCListTexts == {<<"", "">>, <<"acme.">>}

-----------------------------------------------------------------------------
(* Projects an API client posts: every sequence of up to three groups, with*)
(* some checks; every sequence of up to three checks, with some groups;    *)
(* every manifest and config.                                              *)
Attribute(id, type, stability) ==
    [id |-> id, type |-> type, stability |-> stability, requirement_level |-> ""]
AttrA == Attribute("acme.id", "", "")
AttrB == Attribute("host", "int", "stable")
Group(id, ns, type, brief, attrs) ==
    [id |-> id, namespace |-> ns, type |-> type, stability |-> "", brief |-> brief,
     attributes |-> attrs]
GroupChoices ==
    {Group("", "acme.pay", "", <<"pay">>, <<AttrA>>),
     Group("acme.pay", "", "span", << >>, <<AttrB>>),
     Group("internal", "acme_pay", "metric", <<"pay", "ments", Space, "due">>, <<AttrB, AttrA>>),
     Group("", "acme.pay", "", <<"due">>, << >>), Group("", "", "", <<"due">>, << >>)}
Check(raw, t, name, params) == [raw |-> raw, template |-> t, name |-> name, params |-> params]
Params(given) == given @@ [key \in Keys |-> << >>]
None == [key \in Keys |-> << >>]
Allow(name, list) == Check("", "namespace_allow_list", name, Params("allowed" :> list))
CheckChoices ==
    {Allow("", <<"acme.">>), Allow("mine", <<"host">>), Allow("Mine", <<"", "acme.">>),
     Check("", "naming_prefix_required", "mine_2", Params("prefix" :> <<"acme.">>)),
     Check("", "type_consistency", "mine",
            Params("attribute" :> <<"host">> @@ "expected_type" :> <<"string">>)),
     Check("", "type_consistency", "mine", Params("attribute" :> <<"host">>)),
     Check("", "stability_required", "", None),
     Check("rego", "", "", None), Check("", "", "", None)}
UpToThree(S) == UNION {[1..n -> S] : n \in 0..3}

Config(paths, skip, filters) ==
    [enabled |-> TRUE, registry_path |-> "", policy_paths |-> paths,
     policy_skip |-> skip, filters |-> filters]
Filter(level) == [exclude |-> {}, min_level |-> level]
Configs ==
    {NoConfig} \union {Config(paths, skip, filters) :
        paths \in {{}, {"policies"}, {"elsewhere"}}, skip \in BOOLEAN,
        filters \in {<<Filter("")>>, <<Filter("violation")>>, <<Filter("loud")>>}}
Project(schema, deps, groups, checks, config) ==
    [manifest |-> [schema_url |-> schema, dependencies |-> deps],
     groups |-> groups, policies |-> checks, config |-> config]
TwoGroups == <<Group("", "acme", "", << >>, <<AttrA>>), Group("", "", "", << >>, <<AttrB>>)>>
MCPosts ==
    {Project("versioned", << >>, groups, <<Allow("", <<"acme.">>)>>, NoConfig) :
        groups \in UpToThree(GroupChoices)}
    \union {Project("versioned", << >>, TwoGroups, checks, NoConfig) :
        checks \in UpToThree(CheckChoices)}
    \union {Project(schema, deps, TwoGroups, checks, config) :
        schema \in {"", "unversioned", "versioned"},
        deps \in {<< >>, <<"own">>, <<"own", "otel">>},
        checks \in {<< >>, <<Allow("", <<"acme.">>)>>}, config \in Configs}
=============================================================================
