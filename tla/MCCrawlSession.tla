--------------------------- MODULE MCCrawlSession ----------------------------
(* Instances of CrawlSession for TLC: two sessions of the connection, the     *)
(* second one created after the first released the lock.                      *)
EXTENDS CrawlSession, TLC

CONSTANTS s1, s2

\* Session ids are interchangeable (used for safety only).
Symmetry == Permutations(Sessions)
=============================================================================
