------------------------------- MODULE MCOAuth -------------------------------
(* OAuthGrants for TLC.  Requests in flight are interchangeable.               *)
EXTENDS OAuthGrants, TLC

CONSTANTS r1, r2, c1

RequestSym == Permutations({r1, r2})
=============================================================================
