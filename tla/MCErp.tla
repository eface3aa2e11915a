------------------------------- MODULE MCErp -------------------------------
(* Two customers, one slot, two handlers in progress, three rows.            *)
EXTENDS Erp

CONSTANTS ann, bob, noon, w1, w2
=============================================================================
