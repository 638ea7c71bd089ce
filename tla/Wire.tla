-------------------------------- MODULE Wire --------------------------------
(***************************************************************************)
(* The pure functions behind the exports of the kernel: JSON texts in, a   *)
(* JSON text or an error out (core/src/drivers/wire.rs, wasip1.rs).        *)
(*                                                                         *)
(* A text is a pair of what it spells and its content: a JSON value, a     *)
(* change, the changes of a diff, a policy, a context or a schema, in the  *)
(* spelling that serde_json gives it; "respelled" is a value with its keys *)
(* in another order, "plain" a string that is not JSON, and "binary" is    *)
(* not even UTF-8.                                                         *)
(*                                                                         *)
(* What the wire adds holds for any diff, comparison, merge, declaration   *)
(* and transformation: they are parameters, which the model checker is     *)
(* given as JsonDiff, SetByKey, PolicyDeclaration and CifTransform define  *)
(* them.                                                                   *)
(***************************************************************************)
EXTENDS WireChange

CONSTANTS
    Diff(_, _, _),          \* three_way_diff: the changes, each with its path
    Compare(_, _),          \* compare_json
    Resolve(_, _),          \* what a policy makes of a change: a value, or None for a conflict
    IsPolicyRef(_),         \* what serde takes for a MergePolicyRef
    BuildPolicy(_, _),      \* its policy for the systems of a merge context
    ToCif(_, _, _),         \* transform_to_cif: the canonical document, or NoCif
    NoCif                   \* an error of the transformation

JsonText(v)  == <<"value", v>>
PlainText(x) == <<"plain", x>>
Ok(text)     == <<"ok", text>>
Err          == <<"err", 0>>
Trap         == <<"trap", 0>>     \* the guest panics: no answer

\* serde_json::from_str
Parse(kind, text) ==
    IF text[1] = kind \/ (kind = "value" /\ text[1] = "respelled") THEN text[2] ELSE None

-----------------------------------------------------------------------------
(* The functions.                                                          *)

ThreeWayDiffImpl(ancestor, a, b) ==
    LET base   == Parse("value", ancestor)
        side_a == Parse("value", a)
        side_b == Parse("value", b)
    IN  IF None \in {base, side_a, side_b} THEN Err
        ELSE Ok(<<"changes", {WireFieldChange(c) : c \in Diff(base, side_a, side_b)}>>)

\* The merge of a change that came over the wire.
MergeWire(policy, w) ==
    IF HasMisfit(policy, w) THEN None ELSE Resolve(policy, FieldChangeFrom(policy, w))

Outcome(v) == IF v = None THEN [kind |-> "Conflict"] ELSE [kind |-> "Resolved", value |-> v]

MergeFieldImpl(change, policy_ref, ctx) ==
    LET w      == Parse("change", change)
        decl   == Parse("policy", policy_ref)
        c      == Parse("context", ctx)
        policy == BuildPolicy(decl, c)
    IN  CASE None \in {w, decl, c} \/ ~Consistent(w) \/ ~IsPolicyRef(decl) -> Err
          [] OTHER -> IF MergePanics(policy, w) THEN Trap
                      ELSE Ok(<<"outcome", Outcome(MergeWire(policy, w))>>)

CompareJsonImpl(a, b) ==
    LET old == Parse("value", a)
        new == Parse("value", b)
    IN  IF None \in {old, new} THEN Err ELSE Ok(<<"diffs", Compare(old, new)>>)

TransformToCifImpl(source, schema, format_id) ==
    LET record == Parse("value", source)
        rules  == Parse("schema", schema)
    IN  IF record = None \/ rules = None \/ ToCif(record, rules, format_id[2]) = NoCif THEN Err
        ELSE Ok(JsonText(ToCif(record, rules, format_id[2])))

CanonicalJsonImpl(doc) ==
    IF Parse("value", doc) = None THEN Err ELSE Ok(JsonText(Parse("value", doc)))

\* blake3 is taken for injective: the key is what it is computed from.
IdempotencyKeyHexImpl(id, op, payload) ==
    IF Parse("value", payload) = None THEN Err
    ELSE Ok(<<"key", <<id, op, Parse("value", payload)>>>>)

Exports == {"df_three_way_diff", "df_merge_field", "df_canonical_json", "df_compare_json",
            "df_transform_to_cif", "df_idempotency_key_hex"}

\* The exports: every argument is decoded as UTF-8 first.
WireExport(name, args) ==
    CASE \E i \in DOMAIN args : args[i][1] = "binary" -> Err
      [] OTHER ->
          CASE name = "df_three_way_diff"      -> ThreeWayDiffImpl(args[1], args[2], args[3])
            [] name = "df_merge_field"         -> MergeFieldImpl(args[1], args[2], args[3])
            [] name = "df_canonical_json"      -> CanonicalJsonImpl(args[1])
            [] name = "df_compare_json"        -> CompareJsonImpl(args[1], args[2])
            [] name = "df_transform_to_cif"    -> TransformToCifImpl(args[1], args[2], args[3])
            [] name = "df_idempotency_key_hex" -> IdempotencyKeyHexImpl(args[1], args[2], args[3])
=============================================================================
