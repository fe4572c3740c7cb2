--------------------------- MODULE MCPageSession ---------------------------
(* The page in two tabs, with two calls under way: in one tab, as          *)
(* renderDashboard makes them, or one in each.                             *)
EXTENDS PageSession, TLC

CONSTANTS t1, t2, c1, c2

TabsAndCalls == Permutations(Tab) \cup Permutations(Call)
=============================================================================
