---------------------------- MODULE ImportReport ----------------------------
(***************************************************************************)
(* What whoever uploads files is promised: one report on each.  However    *)
(* often the queue delivers a job, its import is under way or reported on, *)
(* and what a report says is final: "a retry of an already-finished job    *)
(* ... would double-apply every create" (product-import.service.ts:167).   *)
(***************************************************************************)
EXTENDS Sequences

CONSTANTS Uploads, Outcomes

VARIABLES
  status,    \* of each upload
  results    \* what its report says of each row

ReportInit == \A u \in Uploads : status[u] = "NONE" /\ results[u] = <<>>

MoveTo(u, to) == status' = [status EXCEPT ![u] = to]

Accept(u) == status[u] = "NONE" /\ MoveTo(u, "QUEUED") /\ UNCHANGED results

UnderWay(u) == status[u] = "QUEUED" /\ MoveTo(u, "RUNNING") /\ UNCHANGED results

Report(u) ==
  /\ status[u] = "RUNNING"
  /\ \/ /\ MoveTo(u, "COMPLETED")
        /\ results'[u] \in Seq(Outcomes)
        /\ results' = [results EXCEPT ![u] = results'[u]]
     \/ MoveTo(u, "FAILED") /\ UNCHANGED results

ReportNext == \E u \in Uploads : Accept(u) \/ UnderWay(u) \/ Report(u)

ReportSpec == ReportInit /\ [][ReportNext]_<<status, results>>
=============================================================================
