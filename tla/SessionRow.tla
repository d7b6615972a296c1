----------------------------- MODULE SessionRow ------------------------------
(***************************************************************************)
(* What the crawl sessions of one connection promise to whoever reads      *)
(* their rows (the public API, the console, webhooks, the next crawl): the *)
(* abstract specification that module CrawlSession implements.  It says    *)
(* which outcomes a session may have, when its data may appear and when    *)
(* the connection's lock is free, and nothing of processes, messages,      *)
(* clocks or faults.                                                       *)
(***************************************************************************)

CONSTANT Sessions

VARIABLES row,      \* "ready" is an active row with a successful 'done' event
          promoted  \* sessions whose data is in the canonical tables

Holding == {"active", "ready", "cancelling"}     \* the lock is taken
Finished == {"completed", "failed", "cancelled"}

TypeOK ==
  /\ row \in [Sessions -> Holding \cup Finished \cup {"none", "purged"}]
  /\ promoted \in SUBSET Sessions

Init == row = [s \in Sessions |-> "none"] /\ promoted = {}

Become(s, from, to) ==
  /\ row[s] = from
  /\ row' = [row EXCEPT ![s] = to]
  /\ UNCHANGED promoted

\* A session starts only while no other one of the connection holds the lock.
Start(s) ==
  /\ \A t \in Sessions : row[t] \notin Holding
  /\ Become(s, "none", "active")

\* A crawl under way succeeds, fails, or is asked to stop; success can no
\* longer be stopped.
Extract(s) == Become(s, "active", "ready")
Fail(s) == Become(s, "active", "failed")
RequestCancel(s) == Become(s, "active", "cancelling")

\* A stopped crawl ends without data, as cancelled by its user or as failed
\* because it took too long.
Stopped(s) ==
  Become(s, "cancelling", "cancelled") \/ Become(s, "cancelling", "failed")

\* The data appears while the session still looks active, and only then does
\* the session become 'completed'.
Promote(s) ==
  /\ row[s] = "ready"
  /\ promoted' = promoted \cup {s}
  /\ UNCHANGED row

Complete(s) == s \in promoted /\ Become(s, "ready", "completed")

\* Retention deletes any rows.
Purge(S) ==
  /\ \A s \in S : row[s] # "none"
  /\ row' = [s \in Sessions |-> IF s \in S THEN "purged" ELSE row[s]]
  /\ UNCHANGED promoted

Next ==
  \/ \E s \in Sessions : Start(s) \/ Extract(s) \/ Fail(s) \/ RequestCancel(s)
                         \/ Stopped(s) \/ Promote(s) \/ Complete(s)
  \/ \E S \in SUBSET Sessions : Purge(S)

Spec == Init /\ [][Next]_<<row, promoted>>
=============================================================================
