---------------------------- MODULE SyncHistory ----------------------------
(***************************************************************************)
(* SyncCycle with history variables, for what the documentation says of    *)
(* whole histories of cycles: that a retry repeats what it retries, and    *)
(* that no contribution to a counter or a list is lost or counted twice.   *)
(* The history variables constrain nothing.                                *)
(***************************************************************************)
EXTENDS SyncCycle, FiniteSets

VARIABLES
    intent,     \* what was last pushed and is neither committed nor overtaken, or None
    tally,      \* per field, what the applications put in: a sum, or items with their number
    interrupted \* a cycle has written to A and may not have got to its commit

histories == <<intent, tally, interrupted>>
hvars == <<vars, histories>>

-----------------------------------------------------------------------------
Occurrences(v, x) == Cardinality({i \in DOMAIN v[2] : v[2][i] = x})

\* The contents of a value that a merge must conserve.
Contents(v) ==
    CASE IsNumber(v)    -> [sum |-> v[2], items |-> [x \in Items |-> 0]]
      [] v[1] = "array" -> [sum |-> 0, items |-> [x \in Items |-> Occurrences(v, x)]]
      [] OTHER          -> [sum |-> 0, items |-> [x \in Items |-> 0]]

\* The tally after an edit that replaces the value u by v.
Contribute(t, u, v) ==
    [sum   |-> t.sum + Contents(v).sum - Contents(u).sum,
     items |-> [x \in Items |-> t.items[x] + Contents(v).items[x] - Contents(u).items[x]]]

HInit ==
    /\ Init
    /\ intent = None
    /\ tally = [f \in Fields |-> Contents(IF ancestor = None THEN Absent ELSE ancestor[f])]
    /\ interrupted = FALSE

\* Some cycle has written to A, or is about to, and a failure would stop it.
Writing == \E w \in Workers : pc[w] \in {"push_b", "commit"}

\* Some cycle holds B's view: its push to B is stale once B is edited.
ViewOfBHeld == \E w \in Workers : pc[w] \notin {"idle", "read_a", "read_b"}

\* No application has edited side s since the worker fetched it.
Unmoved(w, s) == \E d \in {view[w][s].doc, merged[w]} : Agree(store[s].doc, d)

HPush(w, s) ==
    /\ \/ PushApplied(w, s) /\ UNCHANGED interrupted
       \/ PushResponseLost(w, s) /\ interrupted' = TRUE
    /\ intent' = IF \A t \in Sides : Unmoved(w, t) THEN merged[w] ELSE None
    /\ UNCHANGED tally

HCommit(w) ==
    /\ Commit(w)
    /\ intent' = None
    /\ UNCHANGED <<tally, interrupted>>

HEdit(s) ==
    /\ AppEdit(s)
    /\ tally' = [f \in Fields |-> Contribute(tally[f], store[s].doc[f], store'[s].doc[f])]
    /\ intent' = None
    /\ interrupted' = (interrupted \/ (s = SideB /\ ViewOfBHeld))

HFail(w) ==
    /\ Fail(w)
    /\ interrupted' = (interrupted \/ Writing)
    /\ UNCHANGED <<intent, tally>>

HRestart ==
    /\ Restart
    /\ intent' = IF DurableAncestor /\ policies' = policies THEN intent ELSE None
    /\ interrupted' = (interrupted \/ Writing)
    /\ UNCHANGED tally

\* The steps of a cycle that the histories do not record.
HOther(w) ==
    /\ \/ StartCycle(w)
       \/ \E s \in Sides : ReadSide(w, s) \/ NotFound(w, s)
       \/ NoOp(w) \/ ReadAncestor(w) \/ Escalate(w) \/ RejectCandidate(w) \/ Decide(w)
       \/ \E s \in Sides : PushDuplicate(w, s) \/ PushStale(w, s)
    /\ UNCHANGED histories

HNext ==
    \/ \E w \in Workers : HCommit(w) \/ HFail(w) \/ HOther(w)
    \/ \E w \in Workers, s \in Sides : HPush(w, s)
    \/ \E s \in Sides : HEdit(s)
    \/ HRestart

HSpec == HInit /\ [][HNext]_hvars

FairHSpec == HSpec /\ Fairness

-----------------------------------------------------------------------------
(* Properties.                                                             *)

\* Every history variable has its type.
HistoryTypeOK ==
    /\ intent \in Doc \cup {None}
    /\ tally \in [Fields -> [sum : Int, items : [Items -> Int]]]
    /\ interrupted \in BOOLEAN

\* The cycle of w has merged what an interrupted one was pushing, with no edit
\* in between.
Retries(w) == pc[w] = "decide" /\ pc'[w] # "decide" /\ faults' = faults /\ intent # None

\* "Every earlier step retries idempotently" (orchestrator.rs, before the
\* commit): the cycle after one that wrote and was cut short comes to the very
\* document that was being pushed, and never to a conflict.
RetryIdempotent ==
    [][\A w \in Workers :
          Retries(w) => pc'[w] # "idle" /\ Agree(merged'[w], intent)]_hvars

Accumulates(policy) == DOMAIN policy \cap {"additive", "append"} # {}

\* Two documents have the same values but for what accumulates.
AgreeElsewhere(map, d, e) ==
    \A f \in Fields : Accumulates(Lookup(map, f)) \/ Same(d[f], e[f])

\* What the theorem about retries asks of the tier-2 invariants: they pass a
\* candidate or reject it, for its values alone, whatever was there before, and
\* not for what accumulates.
InvariantsOnlyJudge ==
    \A map \in PolicyMaps, p, q, c, d \in Doc :
        AgreeElsewhere(map, c, d)
          => /\ ApplyInvariants(p, c) \in {c, None}
             /\ (ApplyInvariants(p, c) = None) <=> (ApplyInvariants(q, d) = None)

\* What the theorem about contributions asks of the host, wherever a policy
\* accumulates.  At first the systems are in sync there ...
InSyncAtFirst ==
    \A map \in PolicyMaps, f \in Fields, i \in Initial :
        Accumulates(Lookup(map, f))
          => \A d \in {i.a, i.b} :
                Same(Seeded(d).doc[f], IF i.ancestor = None THEN Absent ELSE i.ancestor[f])

\* ... every map it installs accumulates there in the same way ...
SteadyContributions ==
    \A p, q \in PolicyMaps, f \in Fields :
        Accumulates(Lookup(p, f)) => Lookup(q, f) = Lookup(p, f)

\* ... and the tier-2 invariants leave the merged value alone.
InvariantsLeaveContributions ==
    \A map \in PolicyMaps, f \in Fields, pair \in DOMAIN Tier2 :
        Accumulates(Lookup(map, f)) /\ Tier2[pair] # None => Tier2[pair][f] = pair[2][f]

\* r is q with items of mine behind it that q does not hold.
Grown(q, r, mine) ==
    /\ Len(q) <= Len(r)
    /\ \A i \in 1..Len(q) : r[i] = q[i]
    /\ \A i \in (Len(q) + 1)..Len(r) : r[i] \in mine \ {q[j] : j \in 1..Len(q)}

\* An edit that contributes: another integer (a cycle pushes floats, so no edit
\* repeats the payload of a push, which upsert would take for that push), or an
\* array with new items at its end, of those that only this side adds.
Contribution(mine, policy, u, v) ==
    \/ v = u
    \/ "additive" \in DOMAIN policy /\ IsNumber(u) /\ v[1] = "int"
    \/ /\ "append" \in DOMAIN policy
       /\ u[1] = "array" /\ v[1] = "array"
       /\ Grown(u[2], v[2], mine)

\* Where a policy accumulates, the applications contribute, the one of side s
\* adding items of own[s].
EditContributes(own) ==
    \A s \in Sides, f \in Fields :
        HEdit(s) /\ Accumulates(Lookup(policies, f))
          => Contribution(own[s], Lookup(policies, f), store[s].doc[f], store'[s].doc[f])

EditsContribute(own) == [][EditContributes(own)]_hvars

\* So it is for every path whose policy does not accumulate, also in a document
\* that has paths whose policy does.
RetryIdempotentUnlessAccumulating ==
    [][\A w \in Workers :
          Retries(w)
            => pc'[w] # "idle" /\ AgreeElsewhere(policies, merged'[w], intent)]_hvars

\* In sync and at rest: no cycle runs and all three copies hold the same values.
AtRest ==
    /\ \A w \in Workers : pc[w] = "idle"
    /\ ancestor # None
    /\ \A s \in Sides : Agree(store[s].doc, ancestor)

\* No delta of a counter and no item of a list is lost, and none counts twice:
\* as long as every cycle that writes gets to its commit, the systems hold what
\* the applications put in whenever they are in sync (Additive: "both sides'
\* deltas accumulate"; Append: "the union of A's and B's additions").
ContributionsKept ==
    AtRest /\ ~interrupted
      => \A f \in Fields :
            Accumulates(Lookup(policies, f)) => Contents(store[SideA].doc[f]) = tally[f]
=============================================================================
