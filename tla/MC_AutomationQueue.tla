------------------------- MODULE MC_AutomationQueue ------------------------
(* The queue of the code, four masks long, over two fields: every mask     *)
(* that can be merged into another one, and every content of the queue.    *)
EXTENDS AutomationQueue

CONSTANTS speed, soc

MCFields == {speed, soc}
=============================================================================
