---------------------------- MODULE CaptureHost ----------------------------
(***************************************************************************)
(* A host that syncs two systems with an engine and captures what they     *)
(* hold: capture (core/src/application/capture.rs) fetches one side after  *)
(* the other, while the engine and the applications go on, and hands both  *)
(* views to an observer that ships them over HTTP.  Of a capture this      *)
(* module keeps the number and the progress, not the views.                *)
(***************************************************************************)
EXTENDS SyncEngine, HttpObserver

CONSTANT MaxCallsWithCaptures   \* bound on the builder calls of a host that captures

VARIABLE capturing      \* the side that the capture in progress fetches, or None

hostvars == <<evars, ovars, capturing>>

\* The bound: a host that captures waits for its engine and configures it little.
Captures == phase = "built" /\ Len(calls) <= MaxCallsWithCaptures

HostInit == EInit /\ OInit /\ capturing = None

Capture ==
    /\ capturing = None
    /\ handle
    /\ offers < MaxOffers
    /\ Captures
    /\ capturing' = SideA
    /\ UNCHANGED <<evars, ovars>>

\* An entity that is missing on the side, or a fetch that fails: nothing is offered.
CaptureFails ==
    /\ capturing # None
    /\ capturing' = None
    /\ UNCHANGED <<evars, ovars>>

CaptureSideA ==
    /\ capturing = SideA
    /\ record[SideA] # None
    /\ capturing' = SideB
    /\ UNCHANGED <<evars, ovars>>

\* The observer lives as long as the capture that borrows it.
CaptureSideB ==
    /\ capturing = SideB
    /\ record[SideB] # None
    /\ Offer
    /\ capturing' = None
    /\ UNCHANGED evars

HostNext ==
    \/ ENext /\ UNCHANGED <<ovars, capturing>>
    \/ Capture \/ CaptureFails \/ CaptureSideA \/ CaptureSideB
    \/ Captures /\ TaskStep /\ UNCHANGED <<evars, capturing>>
    \/ Captures /\ capturing = None /\ DropObserver /\ UNCHANGED <<evars, capturing>>

\* A runtime that does not shut down polls a spawned task until it ends; how long a
\* post takes is the endpoint's affair.
HostFairness ==
    /\ WF_hostvars(Captures /\ (StartTask \/ ClientPanics) /\ UNCHANGED <<evars, capturing>>)
    /\ WF_hostvars(Captures /\ Receive /\ UNCHANGED <<evars, capturing>>)

HostSpec == HostInit /\ [][HostNext]_hostvars /\ HostFairness
=============================================================================
