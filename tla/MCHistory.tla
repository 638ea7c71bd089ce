----------------------------- MODULE MCHistory -----------------------------
(***************************************************************************)
(* Cycles that are cut short by lost answers, stale writes, failures and   *)
(* restarts, and the cycles that follow them.  Either a stock owned by B,  *)
(* a status under a state machine, a note that is undeclared or under      *)
(* last-write-wins, and tier-2 invariants that clamp and reject; or a      *)
(* counter and a list to which both applications add.  A restart loses the *)
(* queue, and the host comes back with either of its policy maps.          *)
(***************************************************************************)
EXTENDS SyncHistory, TLC

MCFields  == {"stock", "status", "note", "qty", "tags"}
MCItems   == {"a1", "a2", "b1", "b2", "old"}
MCStrings == {"open", "held", "closed"}

St(x) == JsonString(x)

Transitions == {<<"open", "held">>, <<"held", "open">>, <<"open", "closed">>, <<"held", "closed">>}

MCDeclared == [stock |-> OwnedBy(SideB), status |-> StateMachine(Transitions),
               qty |-> Additive, tags |-> AppendItems]

\* The note: whoever wrote last, or nobody has declared it yet.
MCPolicyMaps ==
    {[by_path |-> [note |-> LastWriteWins(SideA)] @@ MCDeclared, default |-> NoPolicy],
     [by_path |-> MCDeclared, default |-> NoPolicy]}

\* Only the policies that accumulate, for what a retry of Append does.
MCListPolicyMaps == {[by_path |-> <<>>, default |-> AppendItems]}

Item(k, s, n) == [stock |-> k, status |-> s, note |-> n, qty |-> Absent, tags |-> Absent]

Line(q, t) == [stock |-> Absent, status |-> Absent, note |-> Absent, qty |-> q, tags |-> t]

Seed == Line(IntNumber(5), JsonArray(<<"old">>))

MCInitial ==
    {[a |-> Item(IntNumber(1), St("open"), Null), b |-> Item(IntNumber(2), St("open"), Null),
      ancestor |-> Item(IntNumber(1), St("open"), Null)],
     [a |-> Item(IntNumber(1), St("held"), Absent), b |-> Item(FloatNumber(1), St("open"), Null),
      ancestor |-> None],
     [a |-> Item(IntNumber(1), St("open"), Null), b |-> None, ancestor |-> None],
     [a |-> Seed, b |-> Seed, ancestor |-> Seed]}

MCListInitial == {[a |-> Line(Absent, JsonArray(<<"old">>)), b |-> Line(Absent, JsonArray(<<"old">>)),
                   ancestor |-> Line(Absent, JsonArray(<<"old">>))]}

\* Two tier-2 invariants: what is closed is not out of stock, and no stock is above two.
MCDocs == {Item(k, St(x), n) : k \in {IntNumber(1), IntNumber(2), IntNumber(3), FloatNumber(1)},
                               x \in MCStrings, n \in {Null, Absent, IntNumber(1), IntNumber(2)}}

MCTier2 ==
    [pair \in MCDocs \X {d \in MCDocs : d.stock = IntNumber(3)} |->
        IF pair[2].status = St("closed") THEN None
        ELSE [pair[2] EXCEPT !.stock = IntNumber(2)]]

MCNoInvariants == <<>>

\* The next item of a side's own that its list does not hold yet.
FreshItem(s, d) ==
    LET first == IF s = SideA THEN "a1" ELSE "b1"
        other == IF s = SideA THEN "a2" ELSE "b2"
    IN  {x \in {first, other} : Occurrences(d.tags, x) = 0 /\ (x = other => Occurrences(d.tags, first) > 0)}

AppendFresh(s, d) == {Line(Absent, JsonArray(Append(d.tags[2], x))) : x \in FreshItem(s, d)}

MCAppPatch(s, d) ==
    IF d.tags # Absent
    THEN {Line(IntNumber(d.qty[2] + (IF s = SideA THEN 1 ELSE 3)), Absent)} \cup AppendFresh(s, d)
    ELSE IF s = SideA
         THEN {Item(Absent, St("held"), IntNumber(1)), Item(IntNumber(3), Absent, Absent)}
         ELSE {Item(IntNumber(3), Absent, IntNumber(2)), Item(Absent, St("closed"), Absent),
               Item(IntNumber(2), St("open"), Null)}

MCListPatch(s, d) == AppendFresh(s, d)

\* Hypotheses of the theorems about this host (SyncCycleProofs, SyncHistoryProofs).
ASSUME HistoryHost ==
    /\ OneCycleAtATime
    /\ SteadyStateMachines
    /\ NoTies
    /\ DurableAncestor
    /\ InSyncAtFirst
    /\ SteadyContributions
    /\ InvariantsLeaveContributions

MCOwn == [s \in Sides |-> IF s = SideA THEN {"a1", "a2"} ELSE {"b1", "b2"}]

\* Behind whatever lists, what either application adds is a contribution of its own items.
ASSUME ContributingHost ==
    \A s \in Sides, n \in 0..3 : \A tail \in [1..n -> MCItems] :
        LET u == JsonArray(<<"old">> \o tail)
        IN  \A p \in AppendFresh(s, Line(Absent, u)) : Contribution(MCOwn[s], AppendItems, u, p.tags)
=============================================================================
