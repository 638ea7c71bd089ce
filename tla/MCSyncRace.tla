----------------------------- MODULE MCSyncRace -----------------------------
(***************************************************************************)
(* Two cycles of one entity racing with each other, with the applications  *)
(* of both sides, with failures, and with restarts that lose the in-memory *)
(* ancestor.  A is the source of the price, which an invariant does not    *)
(* let go down; only B moves the status, which is under a state machine or *)
(* B's.  No application breaks a rule, but a cycle that fetched A before   *)
(* and B after a rival's pushes sees A go back, and escalates.  The        *)
(* applications drop a key by writing null and change the form of numbers. *)
(***************************************************************************)
EXTENDS SyncCycle

CONSTANTS w1, w2

MCWorkers  == {w1, w2}
MCFields   == {"price", "status"}
MCItems    == {}
MCStrings  == {"open", "held"}

Pair(p, x) == [price |-> p, status |-> x]

One == IntNumber(1)
Two == IntNumber(2)

Open == JsonString("open")
Held == JsonString("held")

MCPolicyMaps ==
    {[by_path |-> [status |-> p], default |-> OwnedBy(SideA)] :
        p \in {StateMachine({<<"open", "held">>}), OwnedBy(SideB)}}

\* In sync; A has dropped the price, which B holds as a float; no ancestor, and the
\* sides differ in form and in value; the entity missing on B.
MCInitial ==
    {[a |-> Pair(One, Open), b |-> Pair(One, Open), ancestor |-> Pair(One, Open)],
     [a |-> Pair(Absent, Open), b |-> Pair(FloatNumber(1), Open),
      ancestor |-> Pair(FloatNumber(1), Open)],
     [a |-> Pair(One, Open), b |-> Pair(FloatNumber(1), Held), ancestor |-> None],
     [a |-> Pair(One, Open), b |-> None, ancestor |-> None]}

\* A patch of one field, or of both.
MCAppPatch(s, d) ==
    IF s = SideA THEN {Pair(Two, Absent), Pair(Null, Absent)} ELSE {Pair(FloatNumber(1), Held)}

\* The tier-2 invariant: the price does not go down.
MCTier2 ==
    [pair \in {Pair(Two, x) : x \in {Open, Held}} \X {Pair(One, x) : x \in {Open, Held}} |-> None]

\* The hypothesis of the theorem about this host (SyncCycleProofs).
ASSUME SourceHost == InvariantsLeaveOwned /\ OwnedAlways(SideA, "price")
=============================================================================
