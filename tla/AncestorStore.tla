--------------------------- MODULE AncestorStore ---------------------------
(***************************************************************************)
(* What the AncestorStore port promises (core/src/ports/ancestor.rs): one  *)
(* entry per key, put replaces it whole, get returns it whole.  A put that *)
(* has returned survives the death of the process; until the medium has    *)
(* settled, a loss of power may take the key back to the entry it had      *)
(* settled on before.                                                      *)
(***************************************************************************)
CONSTANTS
    Keys,       \* (entity type, canonical id)
    Entries,    \* what is stored under a key
    None        \* Option::None

VARIABLES
    entry,      \* what get returns, per key
    settled     \* what a loss of power cannot take away, per key

avars == <<entry, settled>>

AInit ==
    /\ entry   = [k \in Keys |-> None]
    /\ settled = [k \in Keys |-> None]

APut(k) ==
    /\ \E e \in Entries : entry' = [entry EXCEPT ![k] = e]
    /\ UNCHANGED settled

ASettle(k) ==
    /\ settled' = [settled EXCEPT ![k] = entry[k]]
    /\ UNCHANGED entry

\* Each key keeps its entry or falls back to the settled one.
APowerLoss ==
    /\ entry' \in [Keys -> Entries \cup {None}]
    /\ \A k \in Keys : entry'[k] \in {entry[k], settled[k]}
    /\ settled' = entry'

ANext == APowerLoss \/ \E k \in Keys : APut(k) \/ ASettle(k)

ASpec == AInit /\ [][ANext]_avars
=============================================================================
