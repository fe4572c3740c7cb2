----------------------------- MODULE MCReports -----------------------------
(***************************************************************************)
(* Instance of Reports for TLC: rows 1 to N in the order of their creation *)
(* over two days, the decisions in turn, the first row before the period.  *)
(***************************************************************************)
EXTENDS Reports

CONSTANTS N

MCRow     == 1 .. N
MCCreated == [v \in MCRow |-> v]
MCDay     == [v \in MCRow |-> v \div 3]
MCRecent  == 2 .. N
MCDecided == [v \in MCRow |-> <<"APPROVED", "REJECT", "REVIEW">>[1 + (v % 3)]]
=============================================================================
