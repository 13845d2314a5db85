------------------------- MODULE MCOperationsRedrive -------------------------
(***************************************************************************)
(* Values for the constants of OperationsRedrive: one event fanned out to   *)
(* two queues, of which two receivers poll one.                             *)
(***************************************************************************)
EXTENDS OperationsRedrive, TLC

CONSTANTS e1, notify, search, r1, r2, q1, o1, o2

MCServes == (r1 :> notify) @@ (r2 :> notify)
=============================================================================
