---------------------------- MODULE MCFilesystem ----------------------------
(***************************************************************************)
(* Two writers and a reader on three keys of one id, with one failure or   *)
(* loss of power.  Puts of "o" run one at a time.  The types "a b" and     *)
(* "a_b" come out of sanitize the same; their puts may overlap.            *)
(***************************************************************************)
EXTENDS FilesystemAncestor, TLC

CONSTANTS w1, w2, r1, e1, e2

MCOrder  == [type |-> <<"o">>, id |-> 1]
MCSpaced == [type |-> <<"a", " ", "b">>, id |-> 1]
MCJoined == [type |-> <<"a", "_", "b">>, id |-> 1]

MCKeys    == {MCOrder, MCSpaced, MCJoined}
MCWriters == {w1, w2}
MCEntries == {e1, e2}
MCAllowed == {"a", "b", "o", "_"}
MCInodes  == 1..5

MCExclusive == {PathFor(MCOrder)}

\* For the runs on a single path.
MCNoPath == {}
MCOneKey == {MCOrder}
MCTwoTypes == {MCSpaced, MCJoined}
=============================================================================
