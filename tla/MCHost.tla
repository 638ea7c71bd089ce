------------------------------- MODULE MCHost -------------------------------
(***************************************************************************)
(* Two flat systems, seven kinds of builder calls of which a host makes up *)
(* to three, a policy store with good and bad documents, two edits or      *)
(* documents and two syncs; captures through a channel of two.             *)
(***************************************************************************)
EXTENDS CaptureHost, PolicyDeclaration

Str(x) == JsonString(x)
Both(p, q) == JsonObject([p |-> Str(p), q |-> Str(q)])

MCTextOrder == <<"erp", "new", "old", "own", "seed">>
MCLabels    == [system_a |-> "erp", system_b |-> "shop"]

MCInitialRecords ==
    {[s \in Sides |-> Both("old", IF s = SideA THEN "erp" ELSE "shop")],
     [s \in Sides |-> IF s = SideA THEN Both("old", "erp") ELSE None]}

MCSourceSide == SideOf(MCLabels.system_a, MCLabels)

MCPoliciesOf(json) == BuildDocument(json, MCLabels)

MCFieldsOf(d) == DOMAIN d[2]

MCSameField(d, e, f) == SameJson(Child(d, f), Child(e, f))

MCCustomHolds == {None, Both("own", "own")}

MCEditions(s, d) == {JsonObject("p" :> Str(IF s = SideA THEN "new" ELSE "own") @@ d[2])} \ {d}

Keyed == DefaultSetByKey(<<"id">>, "aid", "bid")

MCBuilderCalls ==
    {[call |-> "policy", path |-> <<"p">>, policy |-> OwnedBy(SideB)],
     [call |-> "policy", path |-> <<"q">>, policy |-> SetByKeyPolicy(Keyed)],
     [call |-> "one_way"],
     [call |-> "invariant", invariant |-> "own"],
     [call |-> "ancestor_store"],
     [call |-> "policy_store"],
     [call |-> "seed_ancestor", canonical |-> Both("seed", "erp")],
     [call |-> "seed_ancestor", canonical |-> Both("seed", "shop")],
     [call |-> "validate_against_schema"]}

\* Both fields are texts: the keyed policy does not fit.
MCCifFields == [f \in {"p", "q"} |-> [type |-> "string", anchor |-> None, element |-> None]]

MCPolicyDocuments ==
    {[fields |-> <<"p">> :> [kind |-> "owned_by", system |-> "shop"],
      default |-> [kind |-> "owned_by", system |-> "erp"]],
     [default |-> [kind |-> "owned_by", system |-> "shop"]],
     [default |-> [kind |-> "owned_by"]]}

\* B's own text is rewritten, and rejected where B owns the other field too.
MCCheck(invariant, previous, candidate) ==
    CASE Get(candidate, "p") # Str(invariant) -> candidate
      [] Get(candidate, "p") = Str(invariant) /\ Get(candidate, "q") = Str("shop") -> None
      [] OTHER -> JsonObject("p" :> Str("new") @@ candidate[2])
=============================================================================
