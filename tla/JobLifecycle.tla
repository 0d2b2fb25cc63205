---------------------------- MODULE JobLifecycle ----------------------------
(***************************************************************************)
(* What a research job promises to whoever holds its id: the row moves      *)
(* queued -> running -> completed | partial | failed | cancelled, may be    *)
(* settled straight from queued, and is never touched again once settled.   *)
(***************************************************************************)
CONSTANT Jobs          \* ids a research_jobs row may carry

VARIABLE status        \* status[j], "absent" while no row has id j

Settled  == {"completed", "partial", "failed", "cancelled"}
Open     == {"queued", "running"}
Statuses == Open \cup Settled \cup {"absent"}

TypeOK == status \in [Jobs -> Statuses]

\* Rows written by an earlier process are already there.
Init == status \in [Jobs -> Statuses]

Move(j, from, to) ==
  /\ status[j] \in from
  /\ status' = [status EXCEPT ![j] = to]

Submit(j)    == Move(j, {"absent"}, "queued")
Start(j)     == Move(j, {"queued"}, "running")
Settle(j, s) == Move(j, Open, s)

Next == \E j \in Jobs :
          \/ Submit(j)
          \/ Start(j)
          \/ \E s \in Settled : Settle(j, s)

Spec == Init /\ [][Next]_status
=============================================================================
