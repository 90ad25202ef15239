---------------------------- MODULE DurableCursor ----------------------------
(***************************************************************************)
(* What the hub promises of its notification watermarks (_notified_seq in  *)
(* hub.py): a cursor per session that only moves forward, of which a copy  *)
(* is made durable now and then, and which falls back to that copy, and to *)
(* nothing else, when the process ends.                                    *)
(***************************************************************************)
EXTENDS Naturals

CONSTANT Sessions    (* ids of agent sessions                              *)

VARIABLES volatile,  (* session -> watermark in memory, 0 for none         *)
          durable    (* session -> watermark in the state file             *)

cursorVars == <<volatile, durable>>
Marks == [Sessions -> Nat]

CursorInit == volatile = [s \in Sessions |-> 0] /\ durable = [s \in Sessions |-> 0]

(* Watermarks only grow. *)
Forwards == volatile' \in Marks /\ \A s \in Sessions : volatile[s] <= volatile'[s]

Advance == Forwards /\ UNCHANGED durable

Persist == Forwards /\ durable' = volatile'

FallBack == volatile' = durable /\ UNCHANGED durable

CursorNext == Advance \/ Persist \/ FallBack

CursorSpec == CursorInit /\ [][CursorNext]_cursorVars
-----------------------------------------------------------------------------
(* Marks are numbers, and the durable one is never ahead: what the file    *)
(* says was forwarded has been forwarded.                                  *)
DurableNotAhead ==
  /\ volatile \in Marks /\ durable \in Marks
  /\ \A s \in Sessions : durable[s] <= volatile[s]

(* The watermark in the state file never moves back, crashes included.     *)
DurableNeverRegresses == [][\A s \in Sessions : durable[s] <= durable'[s]]_cursorVars
=============================================================================
