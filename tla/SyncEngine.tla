----------------------------- MODULE SyncEngine -----------------------------
(***************************************************************************)
(* The facade: the builder that a host configures by calls in an order of  *)
(* its own, and the engine's sync and preview                              *)
(* (core/src/drivers/sync_engine.rs, run_shadow of                         *)
(* core/src/application/orchestrator.rs).  One entity; a sync is one step  *)
(* here: what may come in between its calls is SyncCycle's subject.        *)
(*                                                                         *)
(* What the engine does holds for any diff, merge, validation and adapter: *)
(* they are parameters, which the model checker is given as JsonDiff,      *)
(* SetByKey and PolicyDeclaration define them.                             *)
(***************************************************************************)
EXTENDS MergePolicies, FiniteSetsExt

CONSTANTS
    Diff(_, _, _),      \* three_way_diff: the changes of the two sides, each with its path
    Resolve(_, _),      \* what a policy makes of a change: a value, or None for a conflict
    Overlay(_, _),      \* apply_resolution: the ancestor overlaid with what was resolved
    Upsert(_, _),       \* what a system makes of a record and a document it is sent
    Misaligned(_, _),   \* validate_against_schema: the paths it complains about
    IsPolicyJson(_),    \* what the policy store accepts as a document
    PoliciesOf(_),      \* the policy map of a document
    FieldsOf(_),        \* the top-level fields of a document
    SameField(_, _, _), \* two documents have the same value in a field
    SourceSide,         \* the side that OwnedBy takes system_a's label for
    BuilderCalls,       \* the calls of the builder that the host may make
    MaxCalls,           \* bound on them
    CifFields,          \* the schema it validates against
    InitialRecords,     \* per side, the document it stores at first, or None
    CustomHolds,        \* what the host's own ancestor store may hold at first
    PolicyDocuments,    \* what the host may put into the policy store as JSON
    Editions(_, _),     \* what the application of a side may make of its document
    Check(_, _, _),     \* an invariant: what it makes of a candidate, or None to reject
    MaxSyncs,           \* bound on the calls of sync
    MaxChanges          \* bound on edits and policy documents

Setters == {"policy", "invariant", "one_way", "ancestor_store", "policy_store"}

ASSUME BuilderCallsAssumption ==
    \A c \in BuilderCalls : c.call \in Setters \cup {"seed_ancestor", "validate_against_schema"}

VARIABLES
    builder,    \* the fields of the builder, which are the engine's once it is built
    calls,      \* history: the calls made on the builder
    phase,      \* "building", "refused" by the validation, or "built"
    stores,     \* the ancestor stores: 0 is the host's own, the others are in memory
    document,   \* the document in the policy store, or None
    record,     \* per side, the document it stores, or None
    report,     \* what the last preview reported, until anything changes; or None
    outcome,    \* of the last sync
    syncs,      \* calls of sync so far
    changes     \* edits and policy documents so far

evars == <<builder, calls, phase, stores, document, record, report, outcome, syncs, changes>>

EmptyMap == [by_path |-> <<>>, default |-> NoPolicy]
Custom   == 0

-----------------------------------------------------------------------------
(* The builder.                                                            *)

\* A map with a new entry, or a new value for an entry that it has.
Insert(map, key, value) ==
    [k \in DOMAIN map \cup {key} |-> IF k = key THEN value ELSE map[k]]

WithPolicy(b, path, policy) ==
    [b EXCEPT !.policies = [by_path |-> Insert(@.by_path, path, policy), default |-> @.default]]

WithInvariant(b, invariant) == [b EXCEPT !.invariants = Append(@, invariant)]

\* Mutant: policies that are there already survive the preset.
OneWayKeeping(b) == [b EXCEPT !.policies.default = OwnedBy(SourceSide)]

OneWay(b) == [b EXCEPT !.policies = OwnedByDefault(SourceSide)]

\* Mutant: a store that is there already stays.
WithAncestorStoreFirst(b) ==
    IF b.ancestor = None THEN [b EXCEPT !.ancestor = Custom, !.default_ancestor = None] ELSE b

WithAncestorStore(b) == [b EXCEPT !.ancestor = Custom, !.default_ancestor = None]

WithPolicyStore(b) == [b EXCEPT !.policy_store = TRUE]

Configured(b, c) ==
    CASE c.call = "policy"         -> WithPolicy(b, c.path, c.policy)
      [] c.call = "invariant"      -> WithInvariant(b, c.invariant)
      [] c.call = "one_way"        -> OneWay(b)
      [] c.call = "ancestor_store" -> WithAncestorStore(b)
      [] c.call = "policy_store"   -> WithPolicyStore(b)

FreshStore == Cardinality(DOMAIN stores)

\* ensure_default_ancestor: a seed goes to the default store, and makes one that
\* takes the place of any other.
Seeded ==
    LET id == IF builder.default_ancestor = None THEN FreshStore ELSE builder.default_ancestor
    IN  [id       |-> id,
         ancestor |-> IF builder.default_ancestor = None THEN id ELSE builder.ancestor]

EInit ==
    /\ builder  = [policies |-> EmptyMap, invariants |-> <<>>, ancestor |-> None,
                   default_ancestor |-> None, policy_store |-> FALSE]
    /\ calls    = <<>>
    /\ phase    = "building"
    /\ \E d \in CustomHolds : stores = [id \in {Custom} |-> d]
    /\ document = None
    /\ record \in InitialRecords
    /\ report   = None
    /\ outcome  = None
    /\ syncs    = 0
    /\ changes  = 0

Called(c) ==
    /\ phase = "building"
    /\ Len(calls) < MaxCalls
    /\ calls' = Append(calls, c)
    /\ UNCHANGED <<document, record, report, outcome, syncs, changes>>

Configure(c) ==
    /\ c.call \in Setters
    /\ Called(c)
    /\ builder' = Configured(builder, c)
    /\ UNCHANGED <<phase, stores>>

SeedAncestor(c) ==
    /\ c.call = "seed_ancestor"
    /\ Called(c)
    /\ stores'  = Insert(stores, Seeded.id, c.canonical)
    /\ builder' = [builder EXCEPT !.default_ancestor = Seeded.id, !.ancestor = Seeded.ancestor]
    /\ UNCHANGED phase

\* An error takes the builder with it.
ValidateAgainstSchema(c) ==
    /\ c.call = "validate_against_schema"
    /\ Called(c)
    /\ phase' = IF Misaligned(builder.policies, CifFields) = {} THEN phase ELSE "refused"
    /\ UNCHANGED <<builder, stores>>

\* Without a store the engine gets one in memory.
BuildEngine ==
    /\ phase = "building"
    /\ phase' = "built"
    /\ IF builder.ancestor = None
       THEN /\ stores'  = Insert(stores, FreshStore, None)
            /\ builder' = [builder EXCEPT !.ancestor = FreshStore]
       ELSE UNCHANGED <<stores, builder>>
    /\ UNCHANGED <<calls, document, record, report, outcome, syncs, changes>>

-----------------------------------------------------------------------------
(* The engine.                                                             *)

Ready == phase = "built" /\ \A s \in Sides : record[s] # None

AncestorView == IF stores[builder.ancestor] = None THEN record[SideA] ELSE stores[builder.ancestor]

Changelog == Diff(AncestorView, record[SideA], record[SideB])

\* load_policy_override: the policy store, if there is one, replaces the policies;
\* without a document every path is a conflict.
PolicyOverride ==
    CASE ~builder.policy_store                     -> builder.policies
      [] builder.policy_store /\ document = None   -> EmptyMap
      [] builder.policy_store /\ document # None   -> PoliciesOf(document)

Resolution(map) == {[path |-> c.path, value |-> Resolve(Lookup(map, c.path), c)] : c \in Changelog}

ConflictPaths(resolution) == {r.path : r \in {q \in resolution : q.value = None}}

\* InvariantSet::apply: each invariant sees what those before it made of the
\* candidate; of the first i, Applied(candidate)[i].
Applied(candidate) ==
    LET applied[i \in 0..Len(builder.invariants)] ==
            IF i = 0 THEN candidate
            ELSE IF applied[i - 1] = None THEN None
            ELSE Check(builder.invariants[i], AncestorView, applied[i - 1])
    IN  applied

Rejected(candidate) == \E i \in DOMAIN builder.invariants : Applied(candidate)[i] = None

AfterInvariants(candidate) == Applied(candidate)[Len(builder.invariants)]

\* Only a side that is not as it should be is pushed to.
Pushed(stored, merged) == IF merged = stored THEN stored ELSE Upsert(stored, merged)

ReportOf(map) ==
    [moved       |-> Changelog # {},
     conflicts   |-> ConflictPaths(Resolution(map)),
     would_write |-> IF Changelog = {} \/ ConflictPaths(Resolution(map)) # {} THEN None
                     ELSE Overlay(AncestorView, Resolution(map))]

\* Mutant: the policy store is not asked.
PreviewUnderStaticPolicies ==
    /\ Ready
    /\ report' = ReportOf(builder.policies)
    /\ UNCHANGED <<builder, calls, phase, stores, document, record, outcome, syncs, changes>>

\* run_shadow
Preview ==
    /\ Ready
    /\ report' = ReportOf(PolicyOverride)
    /\ UNCHANGED <<builder, calls, phase, stores, document, record, outcome, syncs, changes>>

SyncBegins ==
    /\ Ready
    /\ syncs < MaxSyncs
    /\ syncs'  = syncs + 1
    /\ report' = None
    /\ UNCHANGED <<builder, calls, phase, document, changes>>

SyncNoOp ==
    /\ SyncBegins
    /\ Changelog = {}
    /\ outcome' = "NoOp"
    /\ UNCHANGED <<stores, record>>

SyncEscalates ==
    LET resolution == Resolution(PolicyOverride)
    IN  /\ SyncBegins
        /\ Changelog # {}
        /\ \/ ConflictPaths(resolution) # {}
           \/ /\ ConflictPaths(resolution) = {}
              /\ Rejected(Overlay(AncestorView, resolution))
        /\ outcome' = "Escalated"
        /\ UNCHANGED <<stores, record>>

SyncPushes ==
    LET resolution == Resolution(PolicyOverride)
        merged     == AfterInvariants(Overlay(AncestorView, resolution))
    IN  /\ SyncBegins
        /\ Changelog # {}
        /\ ConflictPaths(resolution) = {}
        /\ ~Rejected(Overlay(AncestorView, resolution))
        /\ record'  = [s \in Sides |-> Pushed(record[s], merged)]
        /\ stores'  = [stores EXCEPT ![builder.ancestor] = merged]
        /\ outcome' = "Synced"

-----------------------------------------------------------------------------
(* The environment.                                                        *)

Edit(s) ==
    /\ phase = "built"
    /\ record[s] # None
    /\ changes < MaxChanges
    /\ \E d \in Editions(s, record[s]) : record' = [record EXCEPT ![s] = d]
    /\ changes' = changes + 1
    /\ report'  = None
    /\ UNCHANGED <<builder, calls, phase, stores, document, outcome, syncs>>

\* set_json of the policy store: a malformed document is an error and changes nothing.
SetJson(json) ==
    /\ phase = "built"
    /\ builder.policy_store
    /\ changes < MaxChanges
    /\ document' = IF IsPolicyJson(json) THEN json ELSE document
    /\ changes'  = changes + 1
    /\ report'   = None
    /\ UNCHANGED <<builder, calls, phase, stores, record, outcome, syncs>>

ENext ==
    \/ \E c \in BuilderCalls : Configure(c) \/ SeedAncestor(c) \/ ValidateAgainstSchema(c)
    \/ BuildEngine
    \/ Preview \/ SyncNoOp \/ SyncEscalates \/ SyncPushes
    \/ \E s \in Sides : Edit(s)
    \/ \E json \in PolicyDocuments : SetJson(json)

ESpec == EInit /\ [][ENext]_evars

-----------------------------------------------------------------------------
(* Properties.                                                             *)

CallsOf(kind) == {i \in DOMAIN calls : calls[i].call = kind}

Latest(kinds) == Max({0} \cup UNION {CallsOf(kind) : kind \in kinds})

SyncHappens == syncs' # syncs

\* A preview tells what sync does next, if nothing changes in between and the
\* engine has no tier-2 invariants, which only sync applies: the paths that
\* conflict, that nothing would be written, or the very document that both sides
\* and the ancestor come to hold (sync_engine.rs: "Preview what sync would do").
PreviewForetells ==
    [][SyncHappens /\ report # None /\ builder.invariants = <<>> =>
          CASE outcome' = "NoOp"      -> ~report.moved
            [] outcome' = "Escalated" -> report.moved /\ report.conflicts # {}
            [] outcome' = "Synced"    ->
                  /\ report.moved /\ report.conflicts = {}
                  /\ stores'[builder.ancestor] = report.would_write
                  /\ \A s \in Sides : record'[s] = Pushed(record[s], report.would_write)]_evars

\* The order of the calls decides: what is not overridden by a policy call after
\* the last one_way belongs to side A, whatever was configured before, and no sync
\* changes it there (sync_engine.rs, one_way: "any field not overridden by a
\* subsequent policy(...) call is owned by side_a").  Fields are top-level ones.
OneWayOwnsTheRest ==
    [][SyncHappens /\ CallsOf("one_way") # {} /\ ~builder.policy_store /\ builder.invariants = <<>> =>
          \A f \in FieldsOf(record'[SideA]) :
             \/ \E i \in CallsOf("policy") : i > Latest({"one_way"}) /\ calls[i].path = <<f>>
             \/ SameField(record[SideA], record'[SideA], f)]_evars

\* The store of an engine is the one of the last call that is about it, in any
\* order of the calls on which code and docs agree: the host's own, with what it
\* held and no seed in it, or, if the host never supplied one, the one in memory
\* with the last seed, which is then the baseline of the first cycle.
BaselineAsAsked ==
    phase = "built" /\ syncs = 0 =>
        LET last == Latest({"ancestor_store", "seed_ancestor"})
        IN  /\ last = 0 => stores[builder.ancestor] = None
            /\ last \in CallsOf("ancestor_store") =>
                  builder.ancestor = Custom /\ stores[Custom] \in CustomHolds
            /\ last \in CallsOf("seed_ancestor") /\ CallsOf("ancestor_store") = {} =>
                  /\ builder.ancestor # Custom
                  /\ stores[builder.ancestor] = calls[last].canonical
=============================================================================
