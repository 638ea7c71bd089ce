---------------------------- MODULE HttpObserver ----------------------------
(***************************************************************************)
(* The observer that ships captures over HTTP                              *)
(* (core/crates/observe/src/lib.rs): on_capture puts a capture into a      *)
(* bounded channel and never waits, a background task takes them out and   *)
(* posts one after the other.  Captures are numbered in the order in which *)
(* they are offered.                                                       *)
(***************************************************************************)
EXTENDS Naturals, Sequences

CONSTANTS
    Capacity,       \* of the channel
    MaxOffers       \* bound on the captures

ASSUME CapacityAssumption == Capacity \in Nat \ {0}    \* mpsc::channel panics on 0

VARIABLES
    offers,     \* how many captures on_capture was given
    channel,    \* the accepted captures that wait
    posting,    \* the capture that the task is posting, or 0
    attempted,  \* the captures whose post is over, whatever became of it
    lost,       \* the captures that nobody will post
    handle,     \* the observer, and with it the sender, is still there
    task        \* the background task: "starting", "running", "ended", or gone
                \* without an end of its own, "panicked" or "dropped"

ovars == <<offers, channel, posting, attempted, lost, handle, task>>

Waiting == {channel[i] : i \in DOMAIN channel}

\* The task and the receiver in it are gone while the sender may be there.
TaskGone == task \in {"panicked", "dropped"}

OInit ==
    /\ offers    = 0
    /\ channel   = <<>>
    /\ posting   = 0
    /\ attempted = <<>>
    /\ lost      = {}
    /\ handle    = TRUE
    /\ task      = "starting"

\* on_capture: try_send fails on a full channel and on one without a receiver.
Offer ==
    /\ handle
    /\ offers < MaxOffers
    /\ offers' = offers + 1
    /\ IF Len(channel) < Capacity /\ ~TaskGone
       THEN channel' = Append(channel, offers + 1) /\ UNCHANGED lost
       ELSE lost' = lost \cup {offers + 1} /\ UNCHANGED channel
    /\ UNCHANGED <<posting, attempted, handle, task>>

\* The first poll of the task makes the client.
StartTask ==
    /\ task = "starting"
    /\ task' = "running"
    /\ UNCHANGED <<offers, channel, posting, attempted, lost, handle>>

\* Client::new panics without a TLS backend or a resolver: the receiver is gone,
\* and nobody looks at the handle of the task.
ClientPanics ==
    /\ task = "starting"
    /\ task'    = "panicked"
    /\ lost'    = lost \cup Waiting
    /\ channel' = <<>>
    /\ UNCHANGED <<offers, posting, attempted, handle>>

Receive ==
    /\ task = "running"
    /\ posting = 0
    /\ channel # <<>>
    /\ posting' = Head(channel)
    /\ channel' = Tail(channel)
    /\ UNCHANGED <<offers, attempted, lost, handle, task>>

\* Mutant: a capture whose post fails is put into the channel again.
PostedOrRequeued ==
    /\ posting # 0
    /\ posting' = 0
    /\ \/ attempted' = Append(attempted, posting) /\ UNCHANGED channel
       \/ /\ Len(channel) < Capacity
          /\ channel' = Append(channel, posting)
          /\ UNCHANGED attempted
    /\ UNCHANGED <<offers, lost, handle, task>>

\* Mutant: a failed post ends the task.
PostedOrQuits ==
    /\ posting # 0
    /\ attempted' = Append(attempted, posting)
    /\ posting'   = 0
    /\ task' \in {task, "ended"}
    /\ UNCHANGED <<offers, channel, lost, handle>>

\* The post is answered or fails, which the task does not look at.
Posted ==
    /\ posting # 0
    /\ attempted' = Append(attempted, posting)
    /\ posting'   = 0
    /\ UNCHANGED <<offers, channel, lost, handle, task>>

\* The observer goes away: the sender closes, the task is detached.
DropObserver ==
    /\ handle
    /\ handle' = FALSE
    /\ UNCHANGED <<offers, channel, posting, attempted, lost, task>>

\* recv returns None once the closed channel is empty.
EndTask ==
    /\ task = "running"
    /\ ~handle
    /\ channel = <<>>
    /\ posting = 0
    /\ task' = "ended"
    /\ UNCHANGED <<offers, channel, posting, attempted, lost, handle>>

\* The runtime that the task was spawned on shuts down and drops it where it is:
\* the post in flight is over, what waits is lost with the receiver.
ShutDown ==
    /\ task \in {"starting", "running"}
    /\ task'      = "dropped"
    /\ attempted' = IF posting = 0 THEN attempted ELSE Append(attempted, posting)
    /\ posting'   = 0
    /\ lost'      = lost \cup Waiting
    /\ channel'   = <<>>
    /\ UNCHANGED <<offers, handle>>

TaskStep == StartTask \/ ClientPanics \/ Receive \/ Posted \/ EndTask \/ ShutDown

ONext == Offer \/ DropObserver \/ TaskStep

OSpec == OInit /\ [][ONext]_ovars

-----------------------------------------------------------------------------
(* Properties.                                                             *)

Increasing(s) == \A i, j \in DOMAIN s : i < j => s[i] < s[j]

\* Every capture is in one place: posted or given up for good, in flight, waiting,
\* or lost; none is posted twice, and they are posted in the order of the offers
\* (lib.rs: captures "are dropped rather than backpressuring the caller").
EveryCaptureAccounted ==
    LET done == {attempted[i] : i \in DOMAIN attempted}
        now  == {posting} \ {0}
    IN  /\ Increasing(attempted) /\ Increasing(channel)
        /\ \A n \in done : \A m \in now \cup Waiting : n < m
        /\ \A n \in now : \A m \in Waiting : n < m
        /\ lost \cap (done \cup now \cup Waiting) = {}
        /\ lost \cup done \cup now \cup Waiting = 1 .. offers

\* While the observer is kept, whatever was accepted is posted in the end, however
\* the posts before it went, unless the task is gone: its client panicked or its
\* runtime shut down.  No single post hangs for ever (the client sets no timeout).
AcceptedIsAttempted ==
    []<>(posting = 0) =>
        \A n \in 1 .. MaxOffers :
            (n \in Waiting) ~> (~handle \/ TaskGone \/ \E i \in DOMAIN attempted : attempted[i] = n)

\* The task "aborts when the observer is dropped" (lib.rs): from then on it starts
\* no post.
AbortsWhenDropped == [][~handle => posting' \in {0, posting}]_ovars
=============================================================================
