----------------------------- MODULE Approvals -----------------------------
(***************************************************************************)
(* Orders and their approval requests together: raiseFor inside the        *)
(* placement, decide in its three parts, and changeStatus moving the same  *)
(* orders from the other side, each with the people who may do it; and the *)
(* warehouse at work on the shelves meanwhile.                             *)
(*                                                                         *)
(* decide READS the step, the request and the order and checks them        *)
(* outside any transaction (CheckDecision).  Its transaction then writes   *)
(* the step and re-reads all steps, seeing its own write and only what     *)
(* others have committed (StageDecision), and writes the request and the   *)
(* order from that reading (CommitDecision).  Until it commits it holds    *)
(* the row lock of its step and nothing that would hold back a decision on *)
(* another step.                                                           *)
(***************************************************************************)
EXTENDS OrderLifecycle, ApprovalEngine

CONSTANTS
  Users, RoleOf,  \* people, and the role of each
  PlacedBy,       \* who places each order
  Facts,          \* what the rules look at, per order
  Rules,          \* approval rules an administrator may have active
  Threshold,      \* Account.approvalThreshold
  NoThreshold,    \* its null
  Deciders        \* decisions that can be in flight at once

ASSUME PeopleAssumption ==
  /\ RoleOf \in [Users -> Role]
  /\ PlacedBy \in [Orders -> Users]

ASSUME RulesAssumption == \A rule \in Rules : rule.tier \in Nat \ {0}

VARIABLES
  approval,    \* the order's approval request: its status and current tier
  step,        \* step[o][rule]: the status of the step a rule was copied to
  decision     \* what each decision in flight has read, then staged

approvalVars == <<approval, step, decision>>
allVars == <<vars, approvalVars>>

NoRequest == [status |-> Absent, currentTier |-> 0]

CheckedDecision ==
  [op : {"checked"}, order : Orders, step : Rules, verdict : Decision,
   seen : Status]

StagedDecision ==
  [op : {"staged"}, order : Orders, step : Rules, verdict : Decision,
   seen : Status, progress :
     [outcome : Outcome, currentTier : Nat, skipTiersAbove : Nat]]

ApprovalsTypeOK ==
  /\ TypeOK
  /\ approval \in [Orders -> [status : Outcome \cup {Absent}, currentTier : Nat]]
  /\ step \in [Orders -> [Rules -> StepStatus \cup {Absent}]]
  /\ decision \in [Deciders -> CheckedDecision \cup StagedDecision \cup {Idle}]

ApprovalsInit ==
  /\ Init
  /\ approval = [o \in Orders |-> NoRequest]
  /\ step = [o \in Orders |-> [rule \in Rules |-> Absent]]
  /\ decision = [d \in Deciders |-> Idle]

-----------------------------------------------------------------------------
(***************************************************************************)
(* Placement.  The rules active at that moment are any the administrators' *)
(* createRule, updateRule and removeRule may have left; a step copies its  *)
(* rule, so later edits do not reach it.                                   *)
(***************************************************************************)
raiseForLastTier(o, plan) ==                         \* mutant: plan not in order
  IF plan = {}
    THEN UNCHANGED <<approval, step>>
    ELSE /\ \E tier \in Highest({rule.tier : rule \in plan}) :
              approval' = [approval EXCEPT ![o] =
                             [status |-> "PENDING", currentTier |-> tier]]
         /\ step' = [step EXCEPT ![o] =
                       [rule \in Rules |-> IF rule \in plan THEN "PENDING" ELSE Absent]]
raiseFor(o, plan) ==
  IF plan = {}
    THEN UNCHANGED <<approval, step>>
    ELSE /\ \E tier \in Lowest({rule.tier : rule \in plan}) :
              approval' = [approval EXCEPT ![o] =
                             [status |-> "PENDING", currentTier |-> tier]]
         /\ step' = [step EXCEPT ![o] =
                       [rule \in Rules |-> IF rule \in plan THEN "PENDING" ELSE Absent]]

PlaceRouted(o, active) ==
  LET plan == planApproval(active, Facts[o])
      overThreshold == requiresApproval(Facts[o].total, Threshold, NoThreshold)
  IN  /\ Place(o, plan # {} \/ (active = {} /\ overThreshold))
      /\ raiseFor(o, plan)
      /\ UNCHANGED decision

-----------------------------------------------------------------------------
(***************************************************************************)
(* changeStatus, by somebody who may.                                      *)
(***************************************************************************)

\* The order permissions of each role (permissions.ts).
Permissions(role) ==
  CASE role = "ADMIN" -> {"APPROVAL_ACT", "ORDER_CREATE", "ORDER_CANCEL", "ORDER_MANAGE"}
    [] role = "HEAD_OFFICE" -> {"APPROVAL_ACT", "ORDER_CREATE", "ORDER_CANCEL"}
    [] role = "SITE_USER" -> {"ORDER_CREATE"}

Has(user, permission) == permission \in Permissions(RoleOf[user])

mayMakeTransition(user, o, to) ==
  CASE to \in {"APPROVED", "REJECTED", "CHANGES_REQUESTED"} ->
         Has(user, "APPROVAL_ACT") /\ (user # PlacedBy[o] \/ RoleOf[user] = "ADMIN")
    [] to = "PENDING_APPROVAL" -> user = PlacedBy[o] \/ Has(user, "ORDER_CREATE")
    [] to = "CANCELLED" -> user = PlacedBy[o] \/ Has(user, "ORDER_CANCEL")
    [] OTHER -> Has(user, "ORDER_MANAGE")

ReadForChangeBy(user, r, o, to) ==
  /\ mayMakeTransition(user, o, to)
  /\ ReadForChange(r, o, to)
  /\ UNCHANGED approvalVars

CommitChangeBy(r) == CommitChange(r) /\ UNCHANGED approvalVars

AbandonChangeBy(r) == AbandonChange(r) /\ UNCHANGED approvalVars

-----------------------------------------------------------------------------
(***************************************************************************)
(* decide.                                                                 *)
(***************************************************************************)

\* The checks, on what was read.
CheckDecisionAnyTier(d, user, o, rule, verdict) ==   \* mutant: tier not checked
  /\ decision[d] = Idle
  /\ approval[o].status = "PENDING"
  /\ step[o][rule] = "PENDING"
  /\ canDecideStep(rule.approver, user, RoleOf[user], PlacedBy[o])
  /\ decision' = [decision EXCEPT ![d] =
       [op |-> "checked", order |-> o, step |-> rule, verdict |-> verdict,
        seen |-> status[o]]]
  /\ UNCHANGED <<vars, approval, step>>
CheckDecision(d, user, o, rule, verdict) ==
  /\ decision[d] = Idle
  /\ approval[o].status = "PENDING"
  /\ stepIsOpen(step[o][rule], rule.tier, approval[o].currentTier)
  /\ canDecideStep(rule.approver, user, RoleOf[user], PlacedBy[o])
  /\ decision' = [decision EXCEPT ![d] =
       [op |-> "checked", order |-> o, step |-> rule, verdict |-> verdict,
        seen |-> status[o]]]
  /\ UNCHANGED <<vars, approval, step>>

\* Another transaction holds the lock of a step's row.
LockedByOther(d, o, rule) ==
  \E e \in Deciders \ {d} :
    decision[e].op = "staged" /\ decision[e].order = o /\ decision[e].step = rule

\* The step is written by id alone, and the steps are read back.
StageDecision(d) ==
  /\ decision[d].op = "checked"
  /\ LET k == decision[d]
         o == k.order
     IN  /\ ~LockedByOther(d, o, k.step)
         /\ \E p \in evaluateProgress([step[o] EXCEPT ![k.step] = k.verdict]) :
              decision' = [decision EXCEPT ![d] =
                [op |-> "staged", order |-> o, step |-> k.step, verdict |-> k.verdict,
                 seen |-> k.seen, progress |-> p]]
  /\ UNCHANGED <<vars, approval, step>>

\* Steps above a refusal that nobody has decided.
SkippedNone(o, p) == {}                              \* mutant: updateMany dropped
Skipped(o, p) ==
  IF p.skipTiersAbove = NoSkip THEN {}
  ELSE {rule \in Rules : rule.tier > p.skipTiersAbove /\ step[o][rule] = "PENDING"}

\* The order follows the request, unless it was read with that status.
MovesOrderAlways(k) == k.progress.outcome # k.seen   \* mutant: PENDING mapped too
MovesOrder(k) == k.progress.outcome # "PENDING" /\ k.progress.outcome # k.seen

CommitDecision(d) ==
  /\ decision[d].op = "staged"
  /\ LET k == decision[d]
         o == k.order
         p == k.progress
     IN  /\ \A rule \in Skipped(o, p) : ~LockedByOther(d, o, rule)
         /\ step' = [step EXCEPT ![o] =
              [rule \in Rules |-> CASE rule = k.step -> k.verdict
                                    [] rule # k.step /\ rule \in Skipped(o, p) -> "SKIPPED"
                                    [] OTHER -> step[o][rule]]]
         /\ approval' = [approval EXCEPT ![o] =
              [status |-> p.outcome, currentTier |-> p.currentTier]]
         /\ status' = IF MovesOrder(k) THEN [status EXCEPT ![o] = p.outcome] ELSE status
  /\ decision' = [decision EXCEPT ![d] = Idle]
  /\ UNCHANGED <<stockState, shelfVars, request, clerk>>

\* The process stops before the transaction commits, which rolls it back.
AbandonDecision(d) ==
  /\ decision[d] # Idle
  /\ decision' = [decision EXCEPT ![d] = Idle]
  /\ UNCHANGED <<vars, approval, step>>

-----------------------------------------------------------------------------
ApprovalsNext ==
  \/ \E o \in Orders, active \in SUBSET Rules : PlaceRouted(o, active)
  \/ \E user \in Users, r \in Requests, o \in Orders, to \in Status :
       ReadForChangeBy(user, r, o, to)
  \/ \E r \in Requests : CommitChangeBy(r)
  \/ \E r \in Requests : AbandonChangeBy(r)
  \/ \E d \in Deciders, user \in Users, o \in Orders, rule \in Rules, v \in Decision :
       CheckDecision(d, user, o, rule, v)
  \/ \E d \in Deciders : StageDecision(d)
  \/ \E d \in Deciders : CommitDecision(d)
  \/ \E d \in Deciders : AbandonDecision(d)
  \/ WarehouseStep /\ UNCHANGED approvalVars

ApprovalsSpec == ApprovalsInit /\ [][ApprovalsNext]_allVars

-----------------------------------------------------------------------------
(***************************************************************************)
(* What holds however decisions interleave.                                *)
(***************************************************************************)

\* A tier's signature is only ever given once nobody below it is still to be
\* asked: "tier two is a second signature on an order tier one has already
\* accepted" (approval-engine.ts), even when decisions overtake one another.
TierOrdered(st) ==
  \A p, q \in Rules :
    p.tier < q.tier /\ st[q] \in Decision => st[p] # "PENDING"
NoSignatureAheadOfTier == \A o \in Orders : TierOrdered(step[o])

\* A refused request leaves nothing in the queues of the approvers above the
\* tier that refused, although a decision written over another may have
\* reopened the request, or refused it at another tier, in the meantime.
NothingAwaitsAfterRefusal ==
  \A o \in Orders : approval[o].status = "REJECTED" =>
    \A rule \in Rules : rule.tier > approval[o].currentTier => step[o][rule] # "PENDING"

(***************************************************************************)
(* What holds when one decision is made at a time.                         *)
(***************************************************************************)

\* The request says what its steps come to: the outcome is the engine's
\* answer, and while it is pending the tier it names has a step to decide.
RequestMatchesSteps ==
  \A o \in Orders : approval[o] # NoRequest =>
    \E p \in evaluateProgress(step[o]) :
      approval[o] = [status |-> p.outcome, currentTier |-> p.currentTier]

\* A decision once recorded is never replaced, nor a finished request reopened
\* (approval-engine.ts:205).
DecisionIsFinal ==
  [][\A o \in Orders :
       /\ \A rule \in Rules : step[o][rule] \in Decision => step'[o][rule] = step[o][rule]
       /\ approval[o].status \in Decision => approval'[o] = approval[o]]_allVars
=============================================================================
