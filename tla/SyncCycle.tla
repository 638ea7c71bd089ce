----------------------------- MODULE SyncCycle -----------------------------
(***************************************************************************)
(* The sync cycle of one entity: the orchestrator's run_cycle_at           *)
(* (core/src/application/orchestrator.rs) against two systems that behave  *)
(* as TestMemoryAdapter does (core/src/adapters/test_memory.rs), with an   *)
(* ancestor store, an escalation queue and a policy store.                 *)
(*                                                                         *)
(* Workers are calls of sync() that may be in progress at the same time: a *)
(* worker runs one cycle after another.  Each await of the cycle is a step *)
(* of its own, so other workers, the applications that own the two systems *)
(* and the host that edits the policies run in between.  A cycle may stop  *)
(* at any step: an Err of a port, a future that is dropped, a process that *)
(* dies.  The next cycle starts from nothing but what is stored.           *)
(***************************************************************************)
EXTENDS MergePolicies

CONSTANTS
    Workers,                \* cycles that may run at the same time
    PolicyMaps,             \* the policy maps the host may install
    Initial,                \* initial [a, b, ancestor], each a Doc or None
    AppPatch(_, _),         \* what the application of a side may upsert, given its document
    Tier2,                  \* the tier-2 invariants: what they make of a pair <<previous,
                            \* candidate>>, a Doc or None to reject; the other pairs pass
    DurableAncestor,        \* the ancestor store survives a restart
    MaxEdits,               \* bound on the edits of the applications and the host
    MaxFaults,              \* bound on failures
    MaxVersion,             \* no cycle starts once a record has had more versions
    MaxQueue                \* no cycle starts once the queue has this many items

ASSUME PolicyMapsAssumption == \A p \in PolicyMaps : IsPolicyMap(p)

ASSUME InitialAssumption ==
    Initial \subseteq [a : Doc \cup {None}, b : Doc \cup {None}, ancestor : Doc \cup {None}]

ASSUME Tier2Assumption == Tier2 \in [DOMAIN Tier2 -> Doc \cup {None}]

VARIABLES
    store,      \* per side, the entity as the system stores it
    ancestor,   \* the entry of the ancestor store, or None
    queue,      \* the escalation queue: a sequence of sets of conflicts
    policies,   \* what the policy store returns
    pc,         \* per worker, the call its cycle makes next
    view,       \* per worker and side, the fetched document and version
    base,       \* per worker, ancestor_view
    merged,     \* per worker, the document it pushes
    edits,      \* edits so far
    faults,     \* failures so far
    held        \* history: what each side has ever stored; an initial ancestor counts as held

locals == <<view, base, merged>>
vars == <<store, ancestor, queue, policies, pc, view, base, merged, edits, faults, held>>

-----------------------------------------------------------------------------
(* The record of an adapter.  blake3 takes the pushed payload to its key:  *)
(* the payload stands for the key, canonical id and operation being fixed. *)

Record == [present : BOOLEAN, doc : Doc, version : Nat, last_key : Doc \cup {None}]

Seeded(d) ==
    IF d = None
    THEN [present |-> FALSE, doc |-> EmptyDoc, version |-> 0, last_key |-> None]
    ELSE [present |-> TRUE, doc |-> d, version |-> 1, last_key |-> None]

\* Mutant: the payload is left out of the key.
KeyOfEntity(payload) == EmptyDoc

idempotency_key(payload) == payload

ShallowMerge(current, patch) ==
    [f \in Fields |-> IF patch[f] = Absent THEN current[f] ELSE patch[f]]

\* Mutant: any earlier key will do.
DuplicateOfAny(r, key) == r.present /\ r.last_key # None

Duplicate(r, key) == r.present /\ r.last_key = key

\* Mutant: the version is not compared.
StaleIfMissing(r, expect) == expect # None /\ ~r.present

Stale(r, expect) == expect # None /\ (~r.present \/ r.version # expect)

\* Mutant: the version is not counted up.
WrittenSameVersion(r, patch, key) ==
    [present  |-> TRUE,
     doc      |-> IF r.present THEN ShallowMerge(r.doc, patch) ELSE patch,
     version  |-> r.version,
     last_key |-> key]

Written(r, patch, key) ==
    [present  |-> TRUE,
     doc      |-> IF r.present THEN ShallowMerge(r.doc, patch) ELSE patch,
     version  |-> r.version + 1,
     last_key |-> key]

-----------------------------------------------------------------------------
(* The program counter, and what a worker forgets when its cycle returns.  *)

PC == {"idle", "read_a", "read_b", "read_ancestor", "decide", "push_a", "push_b", "commit"}

ReadPC(s) == IF s = SideA THEN "read_a" ELSE "read_b"
PushPC(s) == IF s = SideA THEN "push_a" ELSE "push_b"

\* The first call after the push to A: B is pushed to only if it is stale.
AfterPushA(m, b) == IF m # b THEN "push_b" ELSE "commit"

\* Mutant: B is not looked at when A is up to date.
AfterMergeOfA(m, a, b) == IF m # a THEN "push_a" ELSE "commit"

\* The first call after the merge.
AfterMerge(m, a, b) == IF m # a THEN "push_a" ELSE AfterPushA(m, b)

NothingRead == [s \in Sides |-> [doc |-> EmptyDoc, version |-> 0]]

Return(w) ==
    /\ pc'     = [pc EXCEPT ![w] = "idle"]
    /\ view'   = [view EXCEPT ![w] = NothingRead]
    /\ base'   = [base EXCEPT ![w] = EmptyDoc]
    /\ merged' = [merged EXCEPT ![w] = EmptyDoc]

GoTo(w, label) == pc' = [pc EXCEPT ![w] = label]

Store(s, r) ==
    /\ store' = [store EXCEPT ![s] = r]
    /\ held'  = [held EXCEPT ![s] = @ \cup {r.doc}]

Init ==
    \E i \in Initial, p \in PolicyMaps :
        /\ store    = [s \in Sides |-> Seeded(IF s = SideA THEN i.a ELSE i.b)]
        /\ ancestor = i.ancestor
        /\ queue    = <<>>
        /\ policies = p
        /\ pc       = [w \in Workers |-> "idle"]
        /\ view     = [w \in Workers |-> NothingRead]
        /\ base     = [w \in Workers |-> EmptyDoc]
        /\ merged   = [w \in Workers |-> EmptyDoc]
        /\ edits    = 0
        /\ faults   = 0
        /\ held     = [s \in Sides |-> {IF s = SideA THEN i.a ELSE i.b, i.ancestor} \ {None}]

-----------------------------------------------------------------------------
(* Steps of a cycle.                                                       *)

\* The bounds: a model starts no more cycles once its queue or a version is full.
MayStart ==
    /\ Len(queue) < MaxQueue
    /\ \A s \in Sides : store[s].version <= MaxVersion

StartCycle(w) ==
    /\ pc[w] = "idle"
    /\ MayStart
    /\ GoTo(w, "read_a")
    /\ UNCHANGED <<store, ancestor, queue, policies, locals, edits, faults, held>>

\* find_by_canonical_id and fetch of one side.  An entity is never removed,
\* so the two lookups, which the code makes before the two fetches, can only
\* tell whether the entity is there.
ReadSide(w, s) ==
    /\ pc[w] = ReadPC(s)
    /\ store[s].present
    /\ view' = [view EXCEPT ![w][s] = [doc |-> store[s].doc, version |-> store[s].version]]
    /\ GoTo(w, IF s = SideA THEN "read_b" ELSE "read_ancestor")
    /\ UNCHANGED <<store, ancestor, queue, policies, base, merged, edits, faults, held>>

\* Entity not found on one side: a transient error.
NotFound(w, s) ==
    /\ pc[w] = ReadPC(s)
    /\ ~store[s].present
    /\ Return(w)
    /\ UNCHANGED <<store, ancestor, queue, policies, edits, faults, held>>

\* The bootstrap: without an entry the ancestor is A's view.
AncestorView(w) == IF ancestor = None THEN view[w][SideA].doc ELSE ancestor

\* Neither side moved: the cycle is a NoOp and writes nothing, no ancestor either.
NoOp(w) ==
    /\ pc[w] = "read_ancestor"
    /\ Changes(AncestorView(w), view[w][SideA].doc, view[w][SideB].doc) = {}
    /\ Return(w)
    /\ UNCHANGED <<store, ancestor, queue, policies, edits, faults, held>>

ReadAncestor(w) ==
    /\ pc[w] = "read_ancestor"
    /\ Changes(AncestorView(w), view[w][SideA].doc, view[w][SideB].doc) # {}
    /\ base' = [base EXCEPT ![w] = AncestorView(w)]
    /\ GoTo(w, "decide")
    /\ UNCHANGED <<store, ancestor, queue, policies, view, merged, edits, faults, held>>

\* What the worker's cycle makes of what it has read under a policy map.
CycleConflicts(w, map) == Conflicts(map, base[w], view[w][SideA].doc, view[w][SideB].doc)
CycleCandidate(w, map) == Candidate(map, base[w], view[w][SideA].doc, view[w][SideB].doc)

\* InvariantSet::apply: Pass and Transform both yield a document.
ApplyInvariants(previous, candidate) ==
    IF <<previous, candidate>> \in DOMAIN Tier2 THEN Tier2[<<previous, candidate>>] ELSE candidate

FieldConflict(map, f) ==
    [path |-> f, class |-> IF Lookup(map, f) = NoPolicy THEN "NoPolicy" ELSE "PolicyConflict"]

InvariantConflict == [path |-> None, class |-> "InvariantViolation"]

\* Some path has a conflict: the cycle ends as Escalated.
Escalate(w) ==
    /\ pc[w] = "decide"
    /\ CycleConflicts(w, policies) # {}
    /\ queue' = Append(queue, {FieldConflict(policies, f) : f \in CycleConflicts(w, policies)})
    /\ Return(w)
    /\ UNCHANGED <<store, ancestor, policies, edits, faults, held>>

\* The tier-2 invariants reject the candidate.
RejectCandidate(w) ==
    /\ pc[w] = "decide"
    /\ CycleConflicts(w, policies) = {}
    /\ ApplyInvariants(base[w], CycleCandidate(w, policies)) = None
    /\ queue' = Append(queue, {InvariantConflict})
    /\ Return(w)
    /\ UNCHANGED <<store, ancestor, policies, edits, faults, held>>

Decide(w) ==
    LET m == ApplyInvariants(base[w], CycleCandidate(w, policies))
    IN  /\ pc[w] = "decide"
        /\ CycleConflicts(w, policies) = {}
        /\ m # None
        /\ merged' = [merged EXCEPT ![w] = m]
        /\ GoTo(w, AfterMerge(m, view[w][SideA].doc, view[w][SideB].doc))
        /\ UNCHANGED <<store, ancestor, queue, policies, view, base, edits, faults, held>>

\* push_to: expect_version is the version of the fetch.
ExpectVersion(w, s) == view[w][s].version

AfterPush(w, s) ==
    GoTo(w, IF s = SideA THEN AfterPushA(merged[w], view[w][SideB].doc) ELSE "commit")

\* The key is the one of the last write: Ok, and nothing is written.
PushDuplicate(w, s) ==
    /\ pc[w] = PushPC(s)
    /\ Duplicate(store[s], idempotency_key(merged[w]))
    /\ AfterPush(w, s)
    /\ UNCHANGED <<store, ancestor, queue, policies, locals, edits, faults, held>>

PushStale(w, s) ==
    /\ pc[w] = PushPC(s)
    /\ ~Duplicate(store[s], idempotency_key(merged[w]))
    /\ Stale(store[s], ExpectVersion(w, s))
    /\ Return(w)
    /\ UNCHANGED <<store, ancestor, queue, policies, edits, faults, held>>

\* The write of an upsert that the system accepts.
WritePush(w, s) ==
    /\ pc[w] = PushPC(s)
    /\ ~Duplicate(store[s], idempotency_key(merged[w]))
    /\ ~Stale(store[s], ExpectVersion(w, s))
    /\ Store(s, Written(store[s], merged[w], idempotency_key(merged[w])))

PushApplied(w, s) ==
    /\ WritePush(w, s)
    /\ AfterPush(w, s)
    /\ UNCHANGED <<ancestor, queue, policies, locals, edits, faults>>

\* Both sides confirmed: the merged document becomes the ancestor.
Commit(w) ==
    /\ pc[w] = "commit"
    /\ ancestor' = merged[w]
    /\ Return(w)
    /\ UNCHANGED <<store, queue, policies, edits, faults, held>>

CycleStep(w) ==
    \/ \E s \in Sides : ReadSide(w, s) \/ NotFound(w, s)
    \/ NoOp(w) \/ ReadAncestor(w)
    \/ Escalate(w) \/ RejectCandidate(w) \/ Decide(w)
    \/ \E s \in Sides : PushDuplicate(w, s) \/ PushStale(w, s) \/ PushApplied(w, s)
    \/ Commit(w)

-----------------------------------------------------------------------------
(* Failures.                                                               *)

\* The call the worker makes next fails without effect (a port returns Err)
\* or is never made (the future is dropped, its thread dies).
Fail(w) ==
    /\ faults < MaxFaults
    /\ pc[w] # "idle"
    /\ Return(w)
    /\ faults' = faults + 1
    /\ UNCHANGED <<store, ancestor, queue, policies, edits, held>>

\* The system writes but the answer is lost: push_to returns Err.
PushResponseLost(w, s) ==
    /\ faults < MaxFaults
    /\ WritePush(w, s)
    /\ Return(w)
    /\ faults' = faults + 1
    /\ UNCHANGED <<ancestor, queue, policies, edits>>

\* The process dies with all its workers, the escalation queue, the policy store
\* and, unless it is durable, the ancestor store; the host then starts with a
\* policy map of its own again.
Restart ==
    /\ faults < MaxFaults
    /\ pc'       = [w \in Workers |-> "idle"]
    /\ view'     = [w \in Workers |-> NothingRead]
    /\ base'     = [w \in Workers |-> EmptyDoc]
    /\ merged'   = [w \in Workers |-> EmptyDoc]
    /\ ancestor' = IF DurableAncestor THEN ancestor ELSE None
    /\ queue'    = <<>>
    /\ policies' \in PolicyMaps
    /\ faults'   = faults + 1
    /\ UNCHANGED <<store, edits, held>>

-----------------------------------------------------------------------------
(* The environment.                                                        *)

\* The application of a side upserts a document of its own, with the key of
\* its payload and whatever version is current.
AppEdit(s) ==
    \E p \in AppPatch(s, store[s].doc) \cap Doc :
        /\ edits < MaxEdits
        /\ ~Duplicate(store[s], idempotency_key(p))
        /\ Store(s, Written(store[s], p, idempotency_key(p)))
        /\ edits' = edits + 1
        /\ UNCHANGED <<ancestor, queue, policies, pc, locals, faults>>

\* The host replaces the policy map in the policy store.
SetPolicies ==
    /\ edits < MaxEdits
    /\ \E p \in PolicyMaps \ {policies} : policies' = p
    /\ edits' = edits + 1
    /\ UNCHANGED <<store, ancestor, queue, pc, locals, faults, held>>

Next ==
    \/ \E w \in Workers : StartCycle(w) \/ CycleStep(w) \/ Fail(w)
    \/ \E w \in Workers, s \in Sides : PushResponseLost(w, s)
    \/ \E s \in Sides : AppEdit(s)
    \/ SetPolicies
    \/ Restart

Spec == Init /\ [][Next]_vars

\* A cycle that is started comes to its end: it awaits nothing but its ports.  A
\* host syncs an entity again and again (every webhook, every poll).
Fairness ==
    \A w \in Workers : []<>(pc[w] = "idle") /\ []<>(pc[w] # "idle" \/ ~MayStart)

FairSpec == Spec /\ Fairness

-----------------------------------------------------------------------------
(* What a host grants.  The library leaves these to whoever deploys it; the *)
(* theorems name the ones they need.                                       *)

\* The host lets a cycle of the entity end before it starts the next one.
OneCycleAtATime == \A v, w \in Workers : v = w

\* A field of which side s is the source, whichever map the host installs: after
\* one_way, every field and side A.
OwnedAlways(s, f) == \A map \in PolicyMaps : Lookup(map, f) = OwnedBy(s)

\* The tier-2 invariants do not overrule the source of a field.
InvariantsLeaveOwned ==
    \A s \in Sides, f \in Fields : OwnedAlways(s, f) =>
        \A pair \in DOMAIN Tier2 : Tier2[pair] # None => Same(Tier2[pair][f], pair[2][f])

UnderStateMachine(map, f) == "state_machine" \in DOMAIN Lookup(map, f)

\* The host never redeclares a path that is under a state machine, and no
\* tier-2 invariant rewrites one.
SteadyStateMachines ==
    /\ \A p, q \in PolicyMaps, f \in Fields :
          UnderStateMachine(p, f) => Lookup(q, f) = Lookup(p, f)
    /\ \A p \in PolicyMaps, f \in Fields, pair \in DOMAIN Tier2 :
          UnderStateMachine(p, f) /\ Tier2[pair] # None => Tier2[pair][f] = pair[2][f]

\* Wherever the last write wins, there is a last write: no two timestamps tie.
NoTies ==
    \A map \in PolicyMaps, f \in Fields :
        "last_write_wins" \in DOMAIN Lookup(map, f)
            => Lookup(map, f).last_write_wins \in Sides

-----------------------------------------------------------------------------
(* Properties.                                                             *)

Conflict == [path : Fields \cup {None},
             class : {"NoPolicy", "PolicyConflict", "InvariantViolation"}]

\* Every variable has its type.
TypeOK ==
    /\ store \in [Sides -> Record]
    /\ ancestor \in Doc \cup {None}
    /\ queue \in Seq(SUBSET Conflict)
    /\ policies \in PolicyMaps
    /\ pc \in [Workers -> PC]
    /\ view \in [Workers -> [Sides -> [doc : Doc, version : Nat]]]
    /\ base \in [Workers -> Doc]
    /\ merged \in [Workers -> Doc]
    /\ edits \in Nat
    /\ faults \in Nat
    /\ held \in [Sides -> SUBSET Doc]

\* d holds every key of e, with e's value.
Covers(d, e) == \A f \in Fields : e[f] # Absent => d[f] = e[f]

Holds(s, d) == \E e \in held[s] : Covers(e, d)

\* The ancestor is a document both systems have really held: it is put only
\* after both pushes were confirmed (orchestrator.rs, "Commit the new ancestor
\* LAST"), whatever failed before and whichever other cycles ran meanwhile.
\* It needs the idempotency short-circuit of upsert to be sound: Ok for a
\* repeated key although nothing is written.
AncestorConfirmed ==
    ancestor # None => \A s \in Sides : Holds(s, ancestor)

\* Has the cycle of w fetched side s, and been told that it holds the merged document?
HasRead(w, s) ==
    pc[w] \notin IF s = SideA THEN {"idle", "read_a"} ELSE {"idle", "read_a", "read_b"}

HasPushed(w, s) == pc[w] \in IF s = SideA THEN {"push_b", "commit"} ELSE {"commit"}

\* A fetched version pins its document: until the record is written again it is
\* what the cycle fetched (the premise of the optimistic concurrency check).
Pinned(w, s) ==
    /\ view[w][s].doc \in held[s]
    /\ store[s].present
    /\ view[w][s].version <= store[s].version
    /\ view[w][s].version = store[s].version => view[w][s].doc = store[s].doc

VersionsPin == \A w \in Workers, s \in Sides : HasRead(w, s) => Pinned(w, s)

\* A stored key tells the truth: the record still holds what was pushed with it
\* (the premise of the idempotency short-circuit).
KeysTellTheTruth ==
    \A s \in Sides :
        /\ store[s].present => store[s].doc \in held[s]
        /\ store[s].last_key # None => Covers(store[s].doc, store[s].last_key)

PushesConfirmed ==
    \A w \in Workers, s \in Sides : HasPushed(w, s) => Holds(s, merged[w])

\* Why a cycle is safe at each of its steps, whichever other cycles, edits and
\* failures come in between: what it has fetched is pinned by its version, what
\* a key vouches for is stored, and what it commits both systems have held.
CycleInvariant == VersionsPin /\ KeysTellTheTruth /\ PushesConfirmed /\ AncestorConfirmed

\* No lost update: when a cycle's push changes a side, the document it
\* replaces is the very document the cycle fetched and merged, so no edit it
\* has not seen is overwritten (SystemPort::upsert: stale writes are refused,
\* "rather than silently overwriting").
PushReplacesRead ==
    [][\A w \in Workers, s \in Sides :
          pc[w] = PushPC(s) /\ pc'[w] # pc[w] /\ store'[s].doc # store[s].doc
             => store[s].doc = view[w][s].doc]_vars

\* The source of a field ("side_a is the source of truth", of one_way) keeps its
\* values: only its own application changes them, whatever the other side, a cycle
\* that races and a lost ancestor do.  A cycle may rewrite it with an equal value
\* in another form: 5.0 for 5, null for a missing key.
SourceKeepsItsValues ==
    [][edits' = edits =>
          \A s \in Sides, f \in Fields :
              OwnedAlways(s, f) => Same(store[s].doc[f], store'[s].doc[f])]_vars

\* A path under a state machine: every ancestor after the first is reached
\* from the one before by one of its transitions, even when each side made
\* moves that are allowed one by one (state_machine.rs: illegal and divergent
\* moves are conflicts).
LegalTransitions ==
    [][\A f \in Fields :
          ancestor # None /\ ancestor' # None /\ "state_machine" \in DOMAIN Lookup(policies, f)
            => \/ Same(ancestor[f], ancestor'[f])
               \/ <<ancestor[f][2], ancestor'[f][2]>> \in Lookup(policies, f).state_machine]_vars

BothPresent == \A s \in Sides : store[s].present

Converged == Agree(store[SideA].doc, store[SideB].doc)

\* Self-healing: once the applications and the failures stop, the two systems
\* come to hold the same values and keep them, whatever was cut short before.
Converges == <>[](BothPresent => Converged)

\* No difference is dropped silently: in the end the two systems agree, or
\* somebody has been asked (ports/escalation.rs: throwing conflicts away "is
\* worse than not reconciling at all").
ConvergesOrEscalates == <>[](BothPresent => Converged \/ queue # <<>>)
=============================================================================
