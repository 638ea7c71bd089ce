------------------------- MODULE PolicyDeclaration -------------------------
(***************************************************************************)
(* The declarations of policies that a schema or a policy document holds   *)
(* as JSON (core/src/application/policy/declaration.rs), and the policies  *)
(* that are built from them.  A declaration is a record [kind, ...] that   *)
(* may lack the keys that have defaults; systems are named by their label. *)
(***************************************************************************)
EXTENDS SetByKey

\* The keys without a default, per kind.
RequiredKeys ==
    [owned_by        |-> {"system"},
     additive        |-> {},
     append          |-> {},
     state_machine   |-> {"transitions"},
     last_write_wins |-> {"reason", "timestamp_a", "timestamp_b"},
     set_by_key      |-> {"identity", "a_anchor", "b_anchor"}]

\* What serde takes for a MergePolicyRef.
IsDeclaration(decl) ==
    /\ "kind" \in DOMAIN decl
    /\ decl.kind \in DOMAIN RequiredKeys
    /\ RequiredKeys[decl.kind] \subseteq DOMAIN decl

\* Mutant: one default drifts from that of SetByKey::new.
DriftedDefaults ==
    [on_added_in_a |-> "Include", on_added_in_b |-> "Include",
     on_removed_in_a |-> "EscalateIfChanged", on_removed_in_b |-> "EscalateIfChanged",
     on_both_changed |-> "PreferA", prefer_a_on_field_conflict |-> TRUE,
     nested |-> <<>>]

\* default_on_added, default_on_removed, default_on_both_changed, default_true: the
\* declaration has its own defaults, beside those of SetByKey::new.
DeclarationDefaults ==
    [on_added_in_a |-> "Include", on_added_in_b |-> "Include",
     on_removed_in_a |-> "EscalateIfChanged", on_removed_in_b |-> "EscalateIfChanged",
     on_both_changed |-> "Escalate", prefer_a_on_field_conflict |-> TRUE,
     nested |-> <<>>]

\* SetByKey::from(&SetByKeyRef)
RECURSIVE SetByKeyFrom(_)
SetByKeyFrom(ref) ==
    LET config == [key \in RequiredKeys.set_by_key \cup DOMAIN DeclarationDefaults |->
                     IF key \in DOMAIN ref THEN ref[key] ELSE DeclarationDefaults[key]]
    IN  [config EXCEPT !.nested = [f \in DOMAIN @ |-> SetByKeyFrom(@[f])]]

\* OwnedBy compares the label with those of the context, A's first.
SideOf(label, ctx) ==
    CASE label = ctx.system_a -> SideA
      [] label # ctx.system_a /\ label = ctx.system_b -> SideB
      [] OTHER -> "neither"

Newer(timestamp_a, timestamp_b) ==
    CASE timestamp_a > timestamp_b -> SideA
      [] timestamp_a < timestamp_b -> SideB
      [] OTHER -> "neither"

\* MergePolicyRef::build, for the systems of a merge context.
Build(decl, ctx) ==
    CASE decl.kind = "owned_by"        -> OwnedBy(SideOf(decl.system, ctx))
      [] decl.kind = "additive"        -> Additive
      [] decl.kind = "append"          -> AppendItems
      [] decl.kind = "state_machine"   -> StateMachine(decl.transitions)
      [] decl.kind = "last_write_wins" -> LastWriteWins(Newer(decl.timestamp_a, decl.timestamp_b))
      [] decl.kind = "set_by_key"      -> SetByKeyPolicy(SetByKeyFrom(decl))

\* What serde takes for a PolicyDocument.
IsDocument(json) ==
    /\ "fields" \in DOMAIN json => \A path \in DOMAIN json.fields : IsDeclaration(json.fields[path])
    /\ "default" \in DOMAIN json => IsDeclaration(json.default)

\* PolicyDocument::build: fields and the default may be missing.
BuildDocument(document, ctx) ==
    [by_path |-> IF "fields" \in DOMAIN document
                 THEN [path \in DOMAIN document.fields |-> Build(document.fields[path], ctx)]
                 ELSE <<>>,
     default |-> IF "default" \in DOMAIN document THEN Build(document.default, ctx) ELSE NoPolicy]
=============================================================================
