------------------------------ MODULE MCSpool ------------------------------
(***************************************************************************)
(* Spool on a small instance.  Messages are named by their payload: with   *)
(* an overhead of one byte, "s" costs 1, "m" 2, "l" 3 and "x" 6 bytes,     *)
(* against a cap of 4: "x" alone exceeds the whole cap.                    *)
(***************************************************************************)
EXTENDS Spool

CONSTANT MaxIds  \* bound: rows ever inserted

MCMessage == {"s", "m", "l", "x"}
MCPayloadBytes == [s |-> 0, m |-> 1, l |-> 2, x |-> 5]

MCNext == SpoolNext /\ Len(log') <= MaxIds
MCSpec == SpoolInit /\ [][MCNext]_spoolVars
=============================================================================
