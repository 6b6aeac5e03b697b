------------------------- MODULE MCApprovalsSerial -------------------------
(***************************************************************************)
(* An instance of Approvals with one decision at a time, and the pure      *)
(* rules it decides by over every small input: a behaviour is about one or *)
(* the other.                                                              *)
(***************************************************************************)
EXTENDS MCApprovals, ApprovalRules

MCApprovers == {[role |-> "HEAD_OFFICE"], [user |-> "boss"]}

VARIABLE focus

SerialInit ==
  /\ ApprovalsInit
  /\ EngineInit
  /\ focus \in {"requests", "rules"}

RequestStep ==
  /\ focus = "requests"
  /\ ApprovalsNext
  /\ UNCHANGED <<focus, engineVars>>

RuleStep ==
  /\ focus = "rules"
  /\ EngineNext
  /\ UNCHANGED <<focus, allVars>>

SerialNext == RequestStep \/ RuleStep

SerialSpec == SerialInit /\ [][SerialNext]_<<focus, engineVars, allVars>>
=============================================================================
