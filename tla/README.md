# diff-fusion in TLA+

diff-fusion keeps one business entity in step between two systems of record.
A *sync cycle* fetches both systems' canonical views, diffs them against the
*ancestor* (the document last confirmed on both sides), resolves every changed
path by a declared merge policy, checks the result against tier-2 invariants,
pushes it to the sides that are stale and only then stores it as the new
ancestor. There is no lock and no transaction across the two systems: safety
rests on optimistic versions, idempotency keys and the order of the steps.

This directory models that protocol, the merge it decides by, the stores it
stands on, the engine a host builds around it and the kernel a host in another
language calls instead, checks all of it with TLC and proves the parts of it
that hold for every value of the constants with TLAPS.

## Inventory

Paths are under `src/`; `core` is `core/src`.

| component | state | operations | talks to |
|---|---|---|---|
| orchestrator `core/application/orchestrator.rs` | none between cycles; per cycle the two views, their versions, the ancestor view, the merged document | `run_cycle_at`, `run_shadow` | everything below; each call of a port is an await or a lock |
| memory adapter `core/adapters/test_memory.rs` (port `ports/system.rs`) | per entity: document, version, last idempotency key | `fetch`, `find_by_canonical_id`, `upsert`, `seed` | the applications that own the systems use the same `upsert` |
| diff `core/domain/compare.rs`, `diff/three_way.rs`, `json_path.rs` | pure | `three_way_diff`, `compare_json`, `set_at_path` | orchestrator |
| policies `core/application/policy/` | a policy map | `resolve`, `merge` of OwnedBy, Additive, Append, StateMachine, LastWriteWins, SetByKey; `validate_against_schema` | orchestrator |
| policy declarations `policy/declaration.rs` | pure | `build` of a JSON declaration | policy store, wire |
| tier-2 invariants `policy/invariants.rs` | a list of rules | `InvariantSet::apply` | orchestrator |
| policy store `ports/policy_store.rs`, `adapters/in_memory_policy_store.rs` | a document per entity type | `set`, `set_json`, `load` | loaded by every cycle, replaced by the host at any time |
| ancestor store `ports/ancestor.rs`, `adapters/in_memory_ancestor.rs`, `adapters/filesystem_ancestor.rs` | an entry per (type, id); for the filesystem a file per entry | `get`, `put` | orchestrator; several cycles and processes |
| escalation queue `ports/escalation.rs`, `adapters/in_memory_escalation.rs` | a queue of conflicts | `push` | orchestrator |
| sync engine `core/drivers/sync_engine.rs` | the builder's choices, then an orchestrator | builder, `sync`, `preview`, `one_way` | hosts |
| capture and observers `core/application/capture.rs`, `core/crates/observe` | a bounded channel and a task | `capture`, `on_capture` | HTTP endpoint |
| transform and facade `core/application/transform.rs`, `drivers/facade.rs` | pure | `transform_to_cif`, `transform_and_compare`, `validate_cif` | wire, CLI |
| wire functions and exports `core/drivers/wire.rs`, `wasip1.rs` | pure; buffers of an export | six functions, JSON in and out | hosts |
| Go kernel host `sdk/golang/kernel/kernel.go` | guest buffers of the call in progress | `call` | the WASM module |
| TypeScript SDK, CLI, generated code, examples, tests | – | – | not modelled, see below |

What is hard, and what makes each part correct:

* *Orchestrator.* Cycles of one entity may run at the same time, in one
  process or several; applications edit both systems at any moment; any call
  may fail, succeed without an answer, or never be made. Correct means: no edit
  is overwritten unseen, the ancestor is never ahead of either side, an
  interrupted cycle is repaired by a later one, no difference stays without
  being resolved or escalated.
* *Adapter.* The repeated-key short-circuit comes before the version check.
  Correct means that both together never confirm a document that was not
  stored, and never replace a document that was not read.
* *Diff and policies.* Numbers have two forms, keys may be missing or null,
  changed paths may lie inside each other, rows are renamed, and a merge is
  repeated after a failure with half of its result in place. Correct means:
  legal transitions only, no contribution lost or doubled, the owner's value
  wins, a row stays the same row, neither side is privileged but by a policy.
* *Ancestor store.* Correct means an atomic register per key that survives a
  crash of the process and of the machine.
* *Engine.* The builder's calls come in any order, a preview is a computation
  of its own. Correct means that the order decides as documented and that the
  preview tells what sync does.
* *Observer.* A bounded channel and a detached task. Correct means that every
  capture is posted at most once and in order, or is lost and stays lost.
* *Kernel.* Buffers cross a language border and the guest may trap. Correct
  means that each buffer is freed once, that an answer is the answer to its own
  request, and that a host decides every change as an engine in process does.

## Modules

| module | models | builds on |
|---|---|---|
| `MergePolicies` | the pure half of a cycle on flat documents: comparison, diff, policies, `resolve`, `apply_resolution` | – |
| `SyncCycle` | `run_cycle_at` against two adapters, an ancestor store, an escalation queue and a policy store, every await a step | `MergePolicies` |
| `SyncHistory` | `SyncCycle` with history variables: what is being pushed, what the applications put in, whether a cycle was cut short | `SyncCycle` |
| `AncestorStore` | the port: an atomic register per key, with what a loss of power may undo | – |
| `FilesystemAncestor` | the filesystem store at the granularity of system calls; it refines `AncestorStore` | `INSTANCE AncestorStore` |
| `JsonDiff` | diff and overlay of nested documents, with paths that are prefixes of each other, as recursive functions of the keys walked | `MergePolicies` |
| `SetByKey` | the keyed merge of tables: identities, anchors, nested tables, validation against a schema | `JsonDiff` |
| `DocumentSync` | cycles on nested documents, whole or cut short between the pushes, over a history of edits; the keyed merge of tables is a parameter | `JsonDiff` |
| `TableSync` | those cycles with the keyed merge of `SetByKey`: what becomes of a row | `DocumentSync`, `SetByKey` |
| `PolicyDeclaration` | which JSON declares a policy, its defaults, and the policy it builds | `SetByKey` |
| `CifTransform` | records of a system to canonical documents, comparison of two of them, validation | `SetByKey` |
| `WireChange` | a change on the wire: its form, the checks of it, what a policy takes for granted | `MergePolicies` |
| `Wire` | the functions behind the exports, with their checks and errors; diff, merge, declaration and transformation are parameters | `WireChange` |
| `KernelCall` | a call of the kernel: the buffers of host and guest, traps, errors | – |
| `KernelHost` | a host that reconciles two systems by kernel calls | `Wire`, `KernelCall` |
| `SyncEngine` | the builder, `sync`, `preview`, the policy store and the chain of invariants; diff, merge, overlay and adapter are parameters | `MergePolicies` |
| `HttpObserver` | the bounded channel and the task that posts | – |
| `CaptureHost` | a host that syncs and captures | `SyncEngine`, `HttpObserver` |
| `MergePoliciesProofs`, `SyncCycleProofs`, `SyncHistoryProofs`, `SyncEngineProofs`, `FilesystemAncestorProofs`, `KernelCallProofs`, `JsonDiffProofs`, `DocumentSyncProofs` | theorems | the module of that name; `SyncEngineProofs` also `CaptureHost` and `HttpObserver`, `KernelCallProofs` also `KernelHost` |
| `MC*` | instances for TLC | – |

### The cycle (`SyncCycle`)

A worker is one call of `sync()` after another. `pc[w]` is the call its cycle
makes next; the cycle's locals are `view` (document and version fetched per
side), `base` (`ancestor_view`) and `merged`. A step of the model is what the
code does from one awaited or locked call to the next, so anything may happen
between two calls and nothing inside one.

| action | code (`orchestrator.rs`) |
|---|---|
| `StartCycle` | `SyncEngine::sync` |
| `ReadSide`, `NotFound` | `prepare`: find and fetch of a side, missing entity |
| `NoOp`, `ReadAncestor` | `prepare`: `ancestor.get`, the bootstrap, the diff; an empty changelog |
| `Escalate`, `RejectCandidate`, `Decide` | load the policies, `resolve`, `apply_resolution`, the invariants, then which side is pushed to first |
| `PushDuplicate`, `PushStale`, `PushApplied` | `push_to` and `TestMemoryAdapter::upsert`: repeated key, refused version, write |
| `Commit` | `ancestor.put` |
| `Fail`, `PushResponseLost`, `Restart` | an `Err` of any port, a dropped future, a dead process; a write whose answer is lost; the process dies with its queue, its policy store and, unless it is durable, its ancestor store, and the host starts again with a policy map of its own |
| `AppEdit`, `SetPolicies` | the application of a side upserts; the host replaces the policy map |

Both lookups come before both fetches in the code. Nothing removes an entity,
so a lookup tells only whether the entity is there and is one step with the
fetch. Entities are independent of each other, except that one adapter draws
its versions from one counter; one entity is modelled.

Abstractions: a document is a function from its top-level keys to values; a
value is a kind with a payload, and the two forms of a number are different
values, as in `serde_json`. An idempotency key is the payload (the canonical id
and the operation are fixed, blake3 is taken as free of collisions). A
last-write-wins policy carries the side whose timestamp is newer. The tier-2
invariants are given as a whole, as a table from (previous, candidate) to a
document or a rejection; `SyncEngine` has the chain they are made of.

### The files (`FilesystemAncestor`)

| action | code (`filesystem_ancestor.rs`) |
|---|---|
| `StartPut` | `put`: the path, the serialised bytes |
| `CreateTmp`, `WriteChunk`, `SyncAll`, `Rename`, `RenameNotFound` | `File::create`, one write of `write_all`, `sync_all`, `fs::rename` and its error when another put renamed the file away |
| `FailPut` | an error of any of them, or a thread that dies |
| `OpenForRead`, `ReadAndParse` | `fs::read` and `from_slice` |
| `SettleDirectory`, `PowerLoss` | the operating system: nothing syncs the directory, so a rename may be lost; unsynced bytes may be lost |

A path is the sanitised entity type and the id: `Sanitize` turns each character
outside `Allowed` into one and the same other, so two types may share a path, and
`Collides` names the keys to which that happens. The id is hashed (blake3), which
keeps ids apart.

Files are inodes under names. `Exclusive` is the set of paths of which the
surroundings run one put at a time (a queue, one process); `alone` is a history
variable that marks puts which no other put of their path has overlapped.

### Documents and tables (`JsonDiff`, `SetByKey`, `DocumentSync`, `TableSync`)

The operators carry the functions' names. The code walks nested objects by
calling itself; here `CompareJson` is what is seen after `MaxDepth` rounds of
entering objects (`Seen`), and `Node` and `SetAtPath` go down and up a path as
functions of the number of keys, so that all of `JsonDiff` can be reasoned about
by the prover. `ApplyResolution` overlays in the order of the changelog.
`SetByKeyMerge` indexes both sides by composite key or by the key of the
ancestor's row with the same anchor (`SideKey`), merges row by row
(`MergeRow`, with `Nested` tables through `Resolved`), and orders the result;
its tables nest, and it stays recursive.
`DocumentSync` makes a cycle one step (`Sync`, `SyncEscalated`) or two when it
is cut short after the push to A (`SyncCutShort`): the interleavings of single
calls are `SyncCycle`'s subject. It takes the keyed merge as CONSTANT operators
(`MergeTable`, `MirrorTable`, `Misaligned`), which the runs give as `SetByKey`
defines them. `TableSync` puts the two together and follows a row by its anchors.

### Engine and observer (`SyncEngine`, `HttpObserver`, `CaptureHost`)

`Configure`, `SeedAncestor` and `ValidateAgainstSchema` are the builder's calls
in whatever order the host makes them, `BuildEngine` ends them. `Preview` is
`run_shadow`, `SyncNoOp`, `SyncEscalates` and `SyncPushes` are the endings of a
sync; `SetJson` is the policy store with good and malformed documents.
`Offer` is `on_capture` (`try_send`, lost when the channel is full or closed),
`StartTask`, `ClientPanics`, `Receive`, `Posted` and `EndTask` are the task,
`DropObserver` the drop of the sender, `ShutDown` the end of the runtime, which
drops the task wherever it is. `CaptureHost` interleaves both with
`capture`, whose two fetches are two steps.

What the engine promises does not depend on how documents are compared and
merged, so `SyncEngine` takes `Diff`, `Resolve`, `Overlay`, `Upsert`, `Check`
and the reading of policy documents as CONSTANT operators. `MCHost` gives TLC
the ones of `JsonDiff`, `SetByKey` and `PolicyDeclaration`; the theorems hold for
any.

### Kernel (`KernelCall`, `Wire`, `KernelHost`)

| action | code |
|---|---|
| `Call`, `Return`, `CallFails` | `call` of `kernel.go`: entry, answer, error |
| `Alloc`, `Write` | `df_alloc` and the write of an argument, with the deferred `df_dealloc` |
| `Export` | an export of `wasip1.rs`: reads its arguments, computes, packs pointer and length of the envelope |
| `Read`, `ReadFails` | reading the envelope, freeing it, unwrapping it |
| a trap in any of these | the guest stops in the middle and the instance stays in use |
| `Dealloc` | the `df_dealloc` of each buffer; where it traps the error is ignored (kernel.go 109, 133, 138), the buffer is `stranded`, and the next one is freed all the same |

`Wire` gives `Compute` its meaning: six functions on texts and their parse
errors. `WireChange` has the wire form of a change, `Consistent` (the checks of
it), `FieldChangeFrom` (how a change is read: of the sides only those its source
names, whatever else it holds) and `MergePanics` (an unwrap that the checks must
make unreachable). What
`Wire` hands on to – diff, merge, declaration, transformation – it takes as
CONSTANT operators, for which `MCKernel` gives TLC those of `JsonDiff`,
`SetByKey`, `PolicyDeclaration` and `CifTransform`; the theorems hold for any.
`KernelHost` asks for the views of both systems, the changelog, and the merge of
every change, and mixes in calls that make no sense.

## Properties and runs

Every passing run ends within three minutes with two workers of TLC.

| run | distinct states | shows |
|---|---|---|
| `race` | 1 027 133 | two cycles race; A owns the price, which an invariant does not let go down; only B moves the status, under a state machine or as its owner; int/float, null/absent and an entity missing on B; 2 edits or changes of the map, 1 fault; a restart loses the ancestor. `AncestorConfirmed`: the ancestor is a document both sides have held. `PushReplacesRead`: no edit is overwritten unseen. `SourceKeepsItsValues`: no cycle changes a value of the side that is the source of a field. `Converges`, although a cycle that read A before and B after a rival's pushes may escalate. `CycleInvariant`: the inductive invariant of the proofs. `TypeOK` |
| `history` | 755 302 | cycles one after another: a state machine, an owned field, a note that is undeclared or under last-write-wins, invariants that clamp and reject, or a counter and a list; edits, lost answers, an entity missing on B; a restart loses the queue and comes with either policy map. `ContributionsKept`: Additive and Append lose and double nothing unless a cycle was cut short. `RetryIdempotentUnlessAccumulating`: the cycle after an interrupted one comes to the same document. `LegalTransitions`: the ancestor moves along allowed transitions. `ConvergesOrEscalates`: a difference that stays has been escalated. `HistoryTypeOK` |
| `files` | 1 652 845 | two writers on two paths, one exclusive, a reader, one failure or loss of power; two of the three keys have types that `sanitize` makes one path of. `NeverPartialIfExclusive`, `GetReturnsWhole`, `GetReturnsOwnEntry`, `LonePutRepairs`: a put that ran alone stores its entry, whatever is left behind. `ImplementsAncestorStore` |
| `documents` | 100 010 | nested objects and tables, six policy maps (a seventh is there to be refused by the validation against the schema), cycles cut short. `SidesAreSymmetric`: with the systems swapped and the policies mirrored a cycle decides the same. `RetryNeverForks`: a retry comes to the document that was being pushed, or asks. `OwnerKeepsItsValues`. `AnchoredRowsFollowed`: what becomes of an anchored row is the merge of exactly its former and its two present selves |
| `kernel` | 329 801 | a host reconciles an ERP and a shop by kernel calls, and sends changes with a side too few or too many; one trap, of `df_dealloc` too. `NothingLeaks`, `FreedOnce`, `AnswerIsOwn`, `NeverPanics`. `HostDecidesAsEngine`: changes merged through the wire are merged as in process. `FormatsMeet`: two records of one document in two formats map to one view. `ViewsAreValid` |
| `host` | 310 750 | up to three builder calls in any order, previews, syncs, edits, policy documents, captures through a channel of two. `BaselineAsAsked`, `OneWayOwnsTheRest`, `PreviewForetells`, `EveryCaptureAccounted`, `AcceptedIsAttempted` |

### Disagreements with the documentation

Six runs check a sentence of the repository that the code does not keep; each
ends in a short trace.

* `retry_append` – "Every earlier step retries idempotently"
  (orchestrator.rs 207): under Append a retry appends B's items again.
  `history` shows the sentence for the policies that do not accumulate.
* `two_writers` – "the store must never observe partial state"
  (filesystem_ancestor.rs 21): two puts of one key share the temporary file.
  `files` and the theorems show it where puts of a path do not overlap.
* `nested_source` – one_way makes A "the source of truth" (sync_engine.rs 131):
  not when A removes or replaces an object and B changes a key inside it; the
  overlay then writes the inner path after the outer one.
* `rows` – a renamed row "still matches its former self" (structural.rs 67):
  not when A gives it the name that B gives a new row in the same cycle; the
  cycle after that loses it. `documents` shows the sentence where names do not
  clash.
* `colliding_keys` – "`entity_type` keeps different canonical shapes in the same
  store from colliding" (ports/ancestor.rs 17): not for types that `sanitize`
  (filesystem_ancestor.rs 99) makes one directory of, such as "a b" and "a_b".
  `get` does not compare the key in the file with the one it was asked for, so
  it returns the other type's entry. `files` and `GetIsOwn` show it for the other
  keys.
* `dropped_observer` – the task "aborts when the observer is dropped"
  (observe/lib.rs 36): a tokio handle that is dropped detaches its task, which
  goes on posting what waits in the channel.

### Divergences and limits met while modelling, without a run

* ARCHITECTURE.md 706 asks that two cycles' puts "must not both win"; `put`
  takes no expected version, and both win. Nothing in the cycle relies on it:
  `AncestorConfirmed` and its proof hold without.
* orchestrator.rs 337: without an ancestor A's view stands in for it, so on the
  first cycle a difference counts as a change of B.
* docs of the Go SDK (go.md 46) say that a declared `set_by_key` cannot reach
  Union, PreferA and PreferB; declaration.rs 58-90 reads them.
* `seed_ancestor` has "No effect when a custom ancestor store was supplied"
  (sync_engine.rs 166, and 98-99). `ancestor_store` clears the default store, so
  a seed after it finds none, makes a new one in memory and puts it in the place
  of the custom one (`Seeded`, from sync_engine.rs 183). `BaselineAsAsked` claims
  nothing of an engine that was seeded after a store was supplied; it says what
  code and docs agree on: the custom store if no seed came after it, the last
  seed if no store was ever supplied.
* A preview does not apply the tier-2 invariants (orchestrator.rs 295);
  `PreviewForetells` is stated for engines without any.
* validate_against_schema (sync_engine.rs 193) checks the policies given so
  far; a `set_by_key` for a nested path never validates (policy/mod.rs 139).
* A later invariant may undo an earlier one (invariants.rs 57).
* Under last-write-wins with a tie a retry need not repeat. In the first cycle
  only one side had changed; A was written and the answer lost, so on the retry
  both sides count as changed (to the same value), and with timestamps that tie
  that is a conflict (escape_hatch.rs 53-72). `RetriesRepeat` therefore assumes
  `NoTies`.
* The repeated-key check of `upsert` comes before the version check
  (test_memory.rs 150) and asks only what was written, not by whom. An
  application that, between a cycle's fetch and its push, writes the very
  document the cycle is about to push is taken for that push: with an Additive
  field two equal increments then count once. Cycles write Additive fields as
  floats, so an application that writes integers is safe, and
  `ContributionsAreKept` assumes one.
* Numeric leniency does not reach into arrays (compare.rs 41).
* The shallow merge of the memory adapter replaces a nested object whole, with
  the keys only the system knows (test_memory.rs 217).
* Under Union a retry may come to another row than the one that was pushed
  (structural.rs 352); a row that reached A by an interrupted push and is then
  renamed becomes two (structural.rs 475).
* A required field without a rule is not missed (transform.rs 59), null under
  "string" becomes "null" (267), "inf" and "NaN" under "number" become null (271).
* The post of a capture has no timeout (observe/lib.rs 66).
* A trap leaks what the guest itself had allocated; only buffers the host
  knows are counted in `NothingLeaks`. A buffer on which `df_dealloc` itself traps
  stays in the guest, since nothing tries again.
* Additive refuses a sum that is not finite (additive.rs 48). The model's numbers
  are small, so that conflict is never reached.

### Bounds

`MaxEdits` bounds what the applications and the host do, `MaxFaults` the
failures, `MaxVersion` and `MaxQueue` keep new cycles from starting once a
record or the queue has grown; cycles under way run on. Two workers make every
race of a pair of cycles; a third adds nothing a pair and an edit do not, since
cycles interact only through the record and the ancestor, and the safety
theorems hold for any number. In `race` two edits are one of each side, or one
before and one between a fetch and its push, or an edit under a policy map that
changes; one fault is the cut at every point. In `history` three edits make both
sides contribute and one of them again, and two faults cut a retry as well. Both
check liveness: `MaxVersion` is above what the edits and the cycles can reach.
`MaxQueue` is above what is ever escalated in `race`; in `history` it stops new
cycles only where somebody has been asked twice. Neither cuts a run short.

In `files` two chunks tell partial from whole files, five inodes are as many as
names and descriptors can hold, three puts are a torn one, a rival and a
repair. Three keys are two that share a path and one that shares none.
`MaxDepth` is how deep documents may nest: serde_json refuses what is deeper than
128, and a run sets it to the depth of its own documents (2 in `documents`,
`nested_source` and `rows`, 3 in `kernel`, 1 in `host`), so it cuts nothing off.
The theorems hold for any. In `documents` two edits per side rename, change,
remove and add rows
of a table of two, before and after a cut-short cycle. In `kernel` four
addresses hold the three arguments of the largest call and its envelope, so
every address is used again; one trap at every step and a call after it. In
`host` three builder calls make every order of any three of the nine, and a
channel of two with four offers is empty, in order behind another, full and
overfull. A host that
captures makes at most one builder call (`MaxCallsWithCaptures`): the two halves
share no state but the records.

### Fairness

`Converges` (`race`) and `ConvergesOrEscalates` (`history`) assume of each worker
that a cycle which is started comes to its end, and that a cycle is started
again and again (`Fairness`; it is what weak fairness of `StartCycle` and of the
cycle's steps comes to where failures are bounded). The code does not schedule
itself: its guide speaks of retries and periodic re-sync
(docs/guides/two-way-sync.md 124), and a cycle awaits nothing but its ports.
Edits and failures are bounded, which is the "once they stop" of the property;
no fairness is assumed of them.

`AcceptedIsAttempted` assumes weak fairness of the task's first step and of
`Receive`: the runtime polls a spawned task that is ready. No fairness is
assumed of `Posted`, since the client sets no timeout; the property is
conditional on no single post hanging for ever. It speaks of an observer that is
kept and of a task that is there: a panic of the client and the end of the
runtime (`ClientPanics`, `ShutDown`) take the task and what waits for it.

## What is proved

For all values of the constants, without any of the bounds of the runs, from
the named assumptions of the modules only. TLC evaluates each assumption in
every run that extends its module.

**`SyncCycleProofs`** – any number of workers, any fields, documents, policies,
tier-2 invariants and edits. `TypeCorrect`; `CycleSafe`
(`Spec => []CycleInvariant`), and from it `AncestorIsConfirmed`; `NoLostUpdate`
(`PushReplacesRead`); `SourceIsKept` (`SourceKeepsItsValues`), for every side and
every field that all the policy maps the host installs leave to it – after
`one_way` every field and side A – where no tier-2 invariant overrules it
(`InvariantsLeaveOwned`). The other fields' policies may be any and change while
cycles run; what a cycle pushes has the source's values (`KeepsSource`, by
`OwnerMergesItsOwn`), and a version pins what they were merged from.

`AncestorConfirmed` is not inductive: at the commit it says nothing of the
merged document. `CycleInvariant` adds what carries it there:

* `VersionsPin`: a fetched version pins its document. A version only grows and
  each write takes a new one, so while the version of the record is the one
  fetched, its document is the one fetched. This is what makes the version
  check of `upsert` a check of the document.
* `KeysTellTheTruth`: the record covers the document its last key stands for.
  This is what makes the repeated-key short-circuit sound even though it comes
  before the version check.
* `PushesConfirmed`: after a push, or where none was needed, the side has held
  the merged document. It follows from the two, and gives `AncestorConfirmed`
  when the cycle commits.

The lemma `Frame` states the part all steps share: nothing a side has held is
forgotten; the step lemmas are one per kind of step.

`StateMachinesAreKept` (`LegalTransitions`) is proved from the invariant
`MovesLegally`: whatever a cycle is about to commit lies one legal move away
from the ancestor it was computed from, and that ancestor is still the one in
the store. The second half is why it needs `OneCycleAtATime`, which is the
host's duty (ARCHITECTURE.md 698: cycles of one entity are serialised), and
`SteadyStateMachines`: all the policy maps the host switches between keep the
path under one machine, and the tier-2 invariants leave the path alone. Both
are assumed by the run `history`, which TLC evaluates (`HistoryHost`).

**`MergePoliciesProofs`** – `MergeType` (a merge of any policy is a value or a
conflict), `CandidateType` (a cycle without conflicts merges documents into a
document), `OwnerMergesItsOwn` and from it `OneWayMergesA`; then one
lemma per policy on what its merge makes of a change (`StateMachineMovesLegally`, `RepeatedOwnedBy`,
`RepeatedLastWriteWins`, `RepeatedStateMachine`, ...), and that `Same` is an
equivalence (`SameIsEquivalence`).

**`SyncHistoryProofs`** – `HistoryRefines`: the history variables constrain
nothing. `HistoryTypeCorrect`. `RetriesRepeat`
(`RetryIdempotentUnlessAccumulating`) and, where no policy accumulates,
`RetriesAreIdempotent`: the comment before the commit of `run_cycle_at`, for any
policies, documents and failures. The invariant `RetryInvariant` has four
parts: the base of a cycle that decides is still the ancestor it would see
(`Based`); what it pushes is what the policies make of what it has read, and the
tier-2 invariants accept it (`Decided`); what it has read while a push is pending
is what is stored (`SeesStore`); and a pending `intent` is the candidate of some
`o`, `a` and `b` (`Planned`), where the stored ancestor is still that of the
cycle that pushed and each side has, at each path, what that cycle read or what
it pushed. `Repeats` says the last for one path, and each policy's lemma shows
that a change of that shape merges to the same value.
The hypotheses, all of them of the host: `OneCycleAtATime`; `NoTies`, that
last-write-wins names a winner; `InvariantsOnlyJudge`, that the tier-2
invariants pass or reject a candidate for its own values. An invariant that
rewrites a candidate may come to another document the second time, since its
own result is then an input. TLC evaluates the first two in the run `history`. The
third does not hold there: one of that instance's invariants clamps a stock, and
to the same stock whatever was there before. So TLC finds the property in a
case that the theorem leaves out.

In the same module `ContributionsAreKept` (`ContributionsKept`): Additive
and Append lose and double nothing, for any history of edits, cycles, failures
and restarts in which every cycle that writes gets to its commit. `Balanced` is
the equation behind it: what the applications have put in is what A and B hold
together, less what their common origin holds. The invariant `Kept` says from
which origin it counts:

* `Counted`: from the ancestor, until a cycle has the merged value in A; from
  then until its commit from the merged value, which stands for B and for the
  ancestor at once. The counting changes over in one step, whether that step is
  the push to A, a push taken for a repeated one, or the merge when A had the
  value already (`BalancedPush`, `BalancedKept`).
* `ViewedA`: between fetch and push A's application has only contributed, so a
  push that is not refused replaces what the cycle has merged (`WrittenValue`,
  from `CycleInvariant`), and one taken for repeated has found the value there.
* `ViewedB`, `CommitsB`: B has not moved since it was fetched, and holds the
  merged value when the cycle commits. `NothingYet`: before the first commit
  there is nothing to merge.
* For arrays `Balanced` also says that each side is the origin with items of its
  own behind it (`Extends`). Then Append's result is A's array with B's items
  behind it (`AdditionsOfGrown`, `GrownSideways`), and the items count linearly
  (`OccurrencesOfConcat`).

Its hypotheses. `OneCycleAtATime` and `DurableAncestor`: a second cycle, or a
process that forgets the ancestor, may count a contribution twice.
`SteadyContributions`: a restart may bring other policies, but none that stop or
start to accumulate on a path.
`InSyncAtFirst`: what differs on the first cycle has no origin to count from.
`InvariantsLeaveContributions`: the tier-2 invariants leave such paths alone.
`EditsContribute(own)`, of the applications: a counter is written as another
integer, a list grows at its end by new items, each of which only one side ever
adds (`own`). The run `history` is such a host (`HistoryHost`,
`ContributingHost`). The integer matters: see the repeated key under
"Divergences and limits".

**`SyncEngineProofs`** – `BaselineIsAsAsked` (`BaselineAsAsked`), for any calls of
the builder in any order: the host's own store where no seed came after it, the
last seed where the host supplied no store. Its invariant `EngineInv` says of the builder under
construction what the property says of the engine (`ChosenAsAsked`), that a
default store is never the host's own, and that a new store is really new.
`PreviewsForetell` (`PreviewForetells`): what a preview reported stays what it
would report until a step clears it (`EngineReady`). `HostRefinesItsParts`: a
host that captures behaves towards the engine and towards the observer as their
own specifications say, so `HostKeepsPromises` has the same properties of the
composition, which is what the run `host` checks. `EveryCaptureIsAccounted`, of
the observer alone, for any capacity and number of captures: with its types the
property is inductive.

`OneWayOwns` (`OneWayOwnsTheRest`): after a `one_way` no sync changes a field of
the source that no later policy call declares. It has two halves. The invariant
`OwnedAsAsked` follows the builder: as long as the last word on policies is the
preset's, the default is `OwnedBy` of the source, and each path with a policy of
its own was named by a later `policy` call. The other half is about one sync and needs
to know of the merge, which is a parameter here, what its name says:
`OwnersKeepFields`, that a field which the map leaves to the source has the
source's value in the result; and `HoldDocs`, that documents merge to documents,
which the invariant `DocsKept` carries along. Both are proved of `JsonDiff` for
flat documents in `DocumentSyncProofs`. For nested ones they are false, and the
run `nested_source` shows how: that is why the property speaks of whole fields and
`host` has flat records.

**`FilesystemAncestorProofs`** – any keys, characters that `sanitize` allows,
writers, readers, chunks, puts, failures and losses of power. `ImplementsPort`:
where the keys of exclusive paths have paths of their own, the files of those
refine `AncestorStore`, a rename being the abstract put. `ExclusiveNeverPartial`,
`GetIsWhole`, `GetIsOwn` and `LonePutStores` are the safety properties of the run
`files`. They follow from `StoreInvariant` (`StoreSafe`):

* `Apart`: an inode is held (by a name or an open descriptor) by one path, so
  what overlapping puts do to one path never touches another.
* `Fresh`: what is under a temporary name is under no other and is not being
  read. A put truncates only what nobody can read.
* `AloneIsAlone`, `Progress`: the temporary file of a put that runs alone holds
  exactly what it has written; after the sync its whole entry is on the disk.
* `Published`: what a get of an exclusive path may come to read is whole and
  synced. A rename gives it from `Progress`; no write takes it away, by `Apart`
  and `Fresh`; a loss of power touches only what is not synced.
* `OwnPieces`: the pieces in a path's files are those of keys with that path,
  whoever puts and however puts overlap. `GetIsOwn` follows for every key that no
  other collides with.

The inheritance lemmas (`HeldInherited`, `ReadableInherited`, `TmpInherited`,
`BytesInherited`) say once, action by action, where a held inode and changed
bytes can come from; the preservation lemmas use only them.

**`KernelCallProofs`** – any requests, addresses, word width and number of
traps, those of `df_dealloc` among them. `KernelNeverLeaks` (what stays is only
what `df_dealloc` trapped on), `KernelFreesOnce`, `KernelAnswersItsCaller`. The
invariant `KInv` adds to them how far a call has got (`Progress`), that each
argument lies in a buffer of its size (`AllPlaced`), that buffers are different
(`Apart`), and that the packed word of an export points to the answer of the
call's own arguments (`EnvelopeKept`, by `UnpackOfPack` and
`ArgumentsArrive`). `WireKeepsChanges`: every change of a diff, written to the
wire and handed back, passes the checks of `merge_field`, panics no policy and is
read as the change that was sent. `KernelNeverPanics` (`NeverPanics`) follows for
every parameter of `Wire` (`ExportsNeverPanic`): the only panic of an export is
that of `MergeFieldImpl`, behind `Consistent`.
`HostUsesKernel`: what a host does to its kernel is what the kernel's own
specification allows, so the four hold for a host too. `HostDecides`
(`HostDecidesAsEngine`): what a host decides by asking is what the policies
decide in process, for any documents, maps, memory and traps. Its invariant
`HInv` follows the answers: a request under way is one of the job's own
(`AskedOwn`), the views, the changelog and every outcome are those of the
documents (`ViewsOwn`, `ChangelogOwn`, `DecidedOwn`); each answer is that of its
own arguments (`KernelAnswersItsCaller`) and a change goes over the wire and back
unharmed (`WireKeepsChanges`). It supposes that the host's declarations are the
text of the engine's map (`LoadedMap(Document, Context) = EngineMap`), which is
what the host of the run `kernel` writes; the assumptions on the parameters
(`KernelAssumption`, `CoreAssumption`) TLC evaluates there.

**`JsonDiffProofs`** – documents of any depth up to `MaxDepth`, any keys.
What is shown of a document is shown of its paths: `At(v, q)` is what is at the
end of a path, and every fact about a document is one about `At` at every path,
which needs induction on the length of a path and not on data.

* `ChangelogIs`: the changelog has exactly one change for each path at which a
  side parts from the ancestor (`Differs`: both are objects all the way down,
  and what is there differs and is not two objects), with the values found there.
* `WhereTheyPart`: at any path two documents are equal, or both have objects, or
  they part at or above it. This is what makes an empty changelog mean equality.
* `OverlayHolds`: an overlay whose paths do not lie inside each other holds each
  value at its path, objects on the way there, and the base's value at every path
  apart from them. The writes go in some order and each walks the result of the
  others; `WrittenAbove` and `WrittenBeside` say what one write leaves alone, and
  the induction is on the number of writes.
* Where one path does lie inside another (`Overlaps`) the last statement is
  false, and `nested_source` is the case; what holds of both is only that the
  result is JSON again (`OverlayIsJson`).

**`DocumentSyncProofs`** – any history of edits, cycles and cut-short cycles, on
documents of any depth, from any JSON the applications write (`HoldJson`: a set
`Json` of values that is closed under what the code builds, and both
applications keep to it).

* `JsonStaysJson`: the sides and the ancestor hold JSON objects, with policies
  that decide value by value (`OfValues`). This is the invariant the others stand
  on (`IInv`).
* `OwnerKeepsItsDocument` (`OwnerKeepsItsValues`): under the policy map of the
  one-way preset, of either side, a cycle whose changed paths do not lie inside
  each other changes no value of the owner. By `OwnerKeepsNodes` the overlay has
  at every path what the owner has, whether the owner moved there or not.
* `NeitherSideIsPrivileged` (`SidesAreSymmetric`): with the systems swapped and
  the policies mirrored, a cycle comes to the same document or to a conflict
  again. Each policy's merge is its mirror's of the swapped change
  (`MirroredDecides`), and the changelog of the swapped documents is the swapped
  changelog. The policies are those of values; Append is none of them, since it
  puts A's items first and is no more than symmetric up to their order.
* `RetryComesToTheSame` (`RetryNeverForks`): right after a cycle was cut short,
  the next one comes to the document that was being pushed, or asks. It needs
  policies that take what a side holds (`TakesSides`: OwnedBy, LastWriteWins,
  StateMachine) and changed paths apart from each other. Additive and Append make
  a value neither side holds, and count it again in a retry (the run
  `retry_append`).
  After the push A has at each path what it had or what was resolved, so each
  path that still differs is resolved to the same value again (`DecidesAgain`),
  and one that does not differ any more had it already (`PlannedAgain`).
* `FlatOwnerKeepsFields` and `FlatStaysFlat`: of flat documents, whose changed
  paths are their fields, each merged field is what its own policy makes of its
  own change (`FlatPlan`), so what a policy gives to A stays A's under any policies
  of the other fields.
* `FlatRetriesNeverFork`: of flat documents `RetryNeverForks` is an invariant, over
  any number of cycles that are cut short or escalated in a row. Its inductive part
  is `FlatRetries`: documents stay flat, so no two changes overlap
  (`FlatApart`), and each cut-short cycle is one to which `RetryStep` applies.

Only model-checked:

* liveness (`Converges`, `ConvergesOrEscalates`, `AcceptedIsAttempted`), which is
  out of the prover's reach;
* `AnchoredRowsFollowed`, and `SidesAreSymmetric` and `RetryNeverForks` where a
  policy is SetByKey: tables nest, and `SetByKey` walks them by RECURSIVE
  operators. `RetryNeverForks` also where a changed path lies inside another one;
* `FormatsMeet` and `ViewsAreValid`, which are about what the recursive
  transformation of a record computes; the theorems on the kernel take it as a
  parameter.

## What is not modelled

* The TypeScript SDK: a port of the Rust core with the same structure; its
  cycle is that of `SyncCycle`.
* The CLI, `wasm.rs`, `schema.go` and the examples: one call of a modelled
  function with I/O around it, or declarations of types. Generated code, JSON
  schemas and vectors are data; the conformance suite and the tests are tests.
* Texts: reports, error messages, keys of objects with a dot in them, the
  canonical serialisation and blake3 (taken as injective), timestamps of
  ancestors and escalations (nothing reads them).
* Integers beyond 2^53, which the comparison rounds (compare.rs 19).
* Several entities of one adapter, which share its version counter, and `seed`
  while cycles run, which only tests do.
* Draining the escalation queue, which an operator does outside the cycle.
* What a capture holds: `CaptureHost` keeps its number and progress. That it is
  no snapshot of one moment follows from its two awaits.
* The name of a temporary file coming back after a loss of power undid its
  rename; the next create truncates it as it would any other.

Hazards that no property covers are in PROJECT.json with the reason: a delta that
Additive counts again in a retry (the run `retry_append` shows the like for
Append), the row a retry under Union comes to, the two moments of a capture, and
numerals that are no JSON numbers.
