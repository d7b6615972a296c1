-------------------------- MODULE MCCrawlScheduler ---------------------------
(* Instances of CrawlScheduler for TLC: one connection, a few session ids and *)
(* claims, one tick or two overlapping ones, a threshold of one failure.      *)
EXTENDS CrawlScheduler, TLC

CONSTANTS s1, s2, t1, t2, c1, c2, c3

\* Ids and claims are interchangeable (used for safety only).
Symmetry == Permutations(Sessions) \cup Permutations(Tokens) \cup Permutations(Ticks)
=============================================================================
