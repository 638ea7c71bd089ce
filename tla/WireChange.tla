---------------------------- MODULE WireChange ----------------------------
(***************************************************************************)
(* A change as it crosses the boundary of the kernel: the wire form of a   *)
(* FieldChange, what is checked of one that comes in, and what a policy    *)
(* takes for granted of it (core/src/drivers/wire.rs).                     *)
(*                                                                         *)
(* A side that did not touch the field has no key on the wire, a side that *)
(* cleared it has one that holds null.                                     *)
(***************************************************************************)
EXTENDS MergePolicies

\* A change of the diff: some side moved.
Movement(c) ==
    /\ c = [path |-> c.path, old_value |-> c.old_value,
            new_from_a |-> c.new_from_a, new_from_b |-> c.new_from_b]
    /\ c.new_from_a # None \/ c.new_from_b # None

SourceOf(c) ==
    CASE BothMoved(c) -> "both"
      [] c.new_from_a # None /\ c.new_from_b = None -> "a"
      [] OTHER -> "b"

SideKeys == {"new_from_a", "new_from_b"}

WireFieldChange(c) ==
    [key \in {"path", "old_value", "source"} \cup {k \in SideKeys : c[k] # None} |->
        IF key = "source" THEN SourceOf(c) ELSE c[key]]

\* The keys of the sides that the source names (needs_a, needs_b).
SourceKeys(w) ==
    {key \in SideKeys : w.source \in {"both", IF key = "new_from_a" THEN "a" ELSE "b"}}

\* Mutant: only the change that both sides made is looked at.
ConsistentBoth(w) == w.source = "both" => SourceKeys(w) \subseteq DOMAIN w

\* A side that the source names has its key.  It need not be the other way
\* round: a key may stray, there without its side being named.
Consistent(w) == SourceKeys(w) \subseteq DOMAIN w

\* OwnedBy and SetByKey never ask for the source.
IgnoresSource(policy) == DOMAIN policy \cap {"owned_by", "set_by_key"} # {}

\* The change that a policy makes out (double_option and unwrap_presence for
\* its keys): the others match on the source, and use the sides it names only.
FieldChangeFrom(policy, w) ==
    LET used == IF IgnoresSource(policy) THEN SideKeys ELSE SourceKeys(w)
        Present(key) == IF key \in DOMAIN w \cap used THEN w[key] ELSE None
    IN  [path |-> w.path, old_value |-> w.old_value,
         new_from_a |-> Present("new_from_a"), new_from_b |-> Present("new_from_b")]

\* A stray key still has to hold what the policy merges: side_f64, side_array
\* and side_str look at every value that is there.
Misfit(policy, v) ==
    \/ "additive" \in DOMAIN policy /\ ~IsNumber(v)
    \/ "append" \in DOMAIN policy /\ v[1] # "array"
    \/ "state_machine" \in DOMAIN policy /\ v[1] # "string"

HasMisfit(policy, w) == \E key \in (SideKeys \cap DOMAIN w) \ SourceKeys(w) : Misfit(policy, w[key])

\* The keys that a policy takes for granted (new_from_a.expect): those of the
\* source, or of the side that LastWriteWins picks.
ExpectedKeys(policy, w) ==
    {key \in SourceKeys(w) :
        \/ /\ "last_write_wins" \in DOMAIN policy
           /\ w.source = "both" =>
                 policy.last_write_wins = IF key = "new_from_a" THEN SideA ELSE SideB
        \/ "state_machine" \in DOMAIN policy}

\* StateMachine first looks whether the values that are there are strings.
MergePanics(policy, w) ==
    /\ ~(ExpectedKeys(policy, w) \subseteq DOMAIN w)
    /\ "state_machine" \in DOMAIN policy =>
          \A key \in ({"old_value"} \cup SideKeys) \cap DOMAIN w : w[key][1] = "string"
=============================================================================
