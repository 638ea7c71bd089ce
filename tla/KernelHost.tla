----------------------------- MODULE KernelHost -----------------------------
(***************************************************************************)
(* A host without an engine of its own, which does by calls of the kernel  *)
(* what a sync cycle does in process: it maps the records of both systems  *)
(* to canonical documents, has them compared with the ancestor and every   *)
(* change merged under a declared policy.  A call that failed is made      *)
(* again, and calls that make no sense may come in between.                *)
(***************************************************************************)
EXTENDS Wire, KernelCall

CONSTANTS
    Jobs,           \* [ancestor, canonical, native]: canonical and native per side
    CifSchema,      \* the schema and its transformations
    Formats,        \* per side, the format of its records
    Document,       \* the policy document of the host
    Context,        \* [system_a, system_b]: the labels of the systems
    EngineMap,      \* the policy map that an engine would be built with
    Probes,         \* the other calls that the host makes
    LoadedMap(_, _),            \* the policy map of a document for those systems
    CompareNative(_, _, _, _, _),   \* transform_and_compare: the differences, or None
    InvalidIn(_, _)             \* validate_cif: the fields with errors

\* The canonical document of a side, and the changes that an engine sees in process.
ViewOf(j, s) == ToCif(j.native[s], CifSchema, Formats[s])
ChangesOf(j) == Diff(j.ancestor, ViewOf(j, SideA), ViewOf(j, SideB))

DeclarationFor(path) ==
    IF path \in DOMAIN Document.fields THEN Document.fields[path] ELSE Document.default

\* The calls a job comes to.
ViewRequest(j, s) ==
    [name |-> "df_transform_to_cif",
     args |-> <<JsonText(j.native[s]), <<"schema", CifSchema>>, PlainText(Formats[s])>>]

ChangelogRequest(j, a, b) ==
    [name |-> "df_three_way_diff", args |-> <<JsonText(j.ancestor), JsonText(a), JsonText(b)>>]

MergeRequest(w) ==
    [name |-> "df_merge_field",
     args |-> <<<<"change", w>>, <<"policy", DeclarationFor(w.path)>>, <<"context", Context>>>>]

Comparable(j) == NoCif \notin {ViewOf(j, s) : s \in Sides}

JobRequests(j) ==
    {ViewRequest(j, s) : s \in Sides}
    \cup IF Comparable(j)
         THEN {ChangelogRequest(j, ViewOf(j, SideA), ViewOf(j, SideB))}
              \cup {MergeRequest(WireFieldChange(c)) : c \in ChangesOf(j)}
         ELSE {}

\* The kernel computes what Wire defines, and the host asks it nothing else.
ASSUME KernelAssumption ==
    /\ \A r \in Requests : r.name \in Exports /\ Compute(r.name, r.args) = WireExport(r.name, r.args)
    /\ Trapped = Trap
    /\ HostError[1] # "ok"
    /\ Probes \cup UNION {JobRequests(j) : j \in Jobs} \subseteq Requests

\* In every change some side moved, and a document is built declaration by declaration.
ASSUME CoreAssumption ==
    /\ \A j \in Jobs : Comparable(j) => \A c \in ChangesOf(j) : Movement(c)
    /\ LoadedMap(Document, Context) =
          [by_path |-> [path \in DOMAIN Document.fields |-> BuildPolicy(Document.fields[path], Context)],
           default |-> BuildPolicy(Document.default, Context)]

VARIABLES
    job,            \* the entity that is being reconciled
    asked,          \* what the call in progress is for: <<kind, what>>
    views,          \* per side, the canonical document that the host got, or None
    changelog,      \* the changes, as they are on the wire, or None
    decided         \* the outcome of each path merged so far

hvars == <<job, asked, views, changelog, decided>>

HostInit ==
    /\ Init
    /\ job \in Jobs
    /\ asked     = <<"nothing", 0>>
    /\ views     = [s \in Sides |-> None]
    /\ changelog = None
    /\ decided   = <<>>

Ask(what, r) ==
    /\ Call(r)
    /\ asked' = what
    /\ UNCHANGED <<job, views, changelog, decided>>

AskView(s) ==
    /\ views[s] = None
    /\ Ask(<<"view", s>>, ViewRequest(job, s))

AskChangelog ==
    /\ None \notin {views[s] : s \in Sides}
    /\ changelog = None
    /\ Ask(<<"changelog", 0>>, ChangelogRequest(job, views[SideA], views[SideB]))

AskMerge ==
    /\ changelog # None
    /\ \E w \in changelog :
        /\ w.path \notin DOMAIN decided
        /\ Ask(<<"merge", w.path>>, MergeRequest(w))

Probe == \E r \in Probes : Ask(<<"nothing", 0>>, r)

Answered(kind) == asked[1] = kind /\ pc' = "idle" /\ reply'[1] = "ok"

WithOutcome(path, outcome) ==
    [p \in DOMAIN decided \cup {path} |-> IF p = path THEN outcome ELSE decided[p]]

\* A step of the call in progress; the host keeps what it is answered.
Proceed ==
    /\ KernelStep
    /\ views'     = [s \in Sides |-> IF Answered("view") /\ asked[2] = s
                                     THEN reply'[2][2] ELSE views[s]]
    /\ changelog' = IF Answered("changelog") THEN reply'[2][2] ELSE changelog
    /\ decided'   = IF Answered("merge") THEN WithOutcome(asked[2], reply'[2][2]) ELSE decided
    /\ asked'     = IF pc' = "idle" THEN <<"nothing", 0>> ELSE asked
    /\ UNCHANGED job

HostNext ==
    \/ \E s \in Sides : AskView(s)
    \/ AskChangelog \/ AskMerge \/ Probe
    \/ Proceed

HostSpec == HostInit /\ [][HostNext]_<<kvars, hvars>>

-----------------------------------------------------------------------------
(* Properties.                                                             *)

\* A host that works over the wire sees the changes an engine sees in process and
\* decides each of them alike: no null is lost for an absent key, no default of a
\* declaration differs from the constructors', no call answers for another one.
HostDecidesAsEngine ==
    pc = "idle" =>
        LET changes == ChangesOf(job)
            loaded  == LoadedMap(Document, Context)
        IN  /\ changelog # None => {w.path : w \in changelog} = {c.path : c \in changes}
            /\ \A path \in DOMAIN decided :
                  /\ \E c \in changes :
                        c.path = path /\ decided[path] = Outcome(Resolve(Lookup(EngineMap, path), c))
                  /\ Lookup(loaded, path) = Lookup(EngineMap, path)

PathsOf(diffs) == {d.path : d \in diffs}

\* Two systems that keep a record in formats of their own are compared by what
\* they mean: the report on their records names exactly the paths in which their
\* canonical documents differ (facade.rs, transform_and_compare).
FormatsMeet ==
    pc = "idle" /\ asked[1] = "nothing" =>
        LET report == CompareNative(CifSchema, job.native[SideA], Formats[SideA],
                                               job.native[SideB], Formats[SideB])
        IN  /\ report # None
            /\ PathsOf(report) = PathsOf(Compare(job.canonical[SideA], job.canonical[SideB]))

\* What the transformation makes of a record its own validation accepts, whatever
\* mix of texts and numbers the format uses (validate_cif).  Texts such as "inf"
\* are no numerals of these records: they become null.
ViewsAreValid ==
    \A s \in Sides : views[s] # None => InvalidIn(CifSchema, views[s]) = {}
=============================================================================
