--------------------------- MODULE ApprovalRules ---------------------------
(***************************************************************************)
(* The pure rules of ApprovalEngine put to use: an account configures its  *)
(* rules one at a time, an order is put to them, and its steps are then    *)
(* answered in any order whatever.                                         *)
(***************************************************************************)
EXTENDS ApprovalEngine

CONSTANTS
  Approvers,    \* who may be asked
  Totals,       \* order totals and rule minimums, the least being no minimum
  Tiers,
  MaxRules      \* bound on the rules an account configures

ASSUME TiersAssumption == Totals \subseteq Nat /\ Tiers \subseteq Nat

Spending(total) ==
  [total |-> total, site |-> "north", requesterRole |-> "SITE_USER",
   categories |-> {"signage"}]

VARIABLES
  configured,   \* the account's active rules
  answers       \* the steps of the order put to them

engineVars == <<configured, answers>>

\* Rules are added in id order.
NewRule(id, tier, minTotal, category, approver) ==
  [id |-> id, tier |-> tier, minTotal |-> minTotal, site |-> "ANY",
   requesterRole |-> "ANY", category |-> category, approver |-> approver]

NotPut == [r \in {} |-> Absent]

EngineInit == configured = {} /\ answers = NotPut

AddRule(tier, minTotal, category, approver) ==
  /\ Cardinality(configured) < MaxRules
  /\ answers = NotPut
  /\ configured' = configured \cup
       {NewRule(Cardinality(configured) + 1, tier, minTotal, category, approver)}
  /\ UNCHANGED answers

PutOrder(total) ==
  /\ answers = NotPut
  /\ planApproval(configured, Spending(total)) # {}
  /\ answers' = [r \in planApproval(configured, Spending(total)) |-> "PENDING"]
  /\ UNCHANGED configured

Answer(r, s) ==
  /\ answers[r] = "PENDING"
  /\ answers' = [answers EXCEPT ![r] = s]
  /\ UNCHANGED configured

EngineNext ==
  \/ \E tier \in Tiers, minTotal \in Totals, category \in {"ANY", "mugs"},
        approver \in Approvers : AddRule(tier, minTotal, category, approver)
  \/ \E total \in Totals : PutOrder(total)
  \/ \E r \in DOMAIN answers, s \in StepStatus \ {"PENDING"} : Answer(r, s)

RulesSpec == EngineInit /\ [][EngineNext]_engineVars

-----------------------------------------------------------------------------
Asked(rules, facts) ==
  {<<p.tier, p.approver>> : p \in planApproval(rules, facts)}

\* Collapsing duplicates loses nobody: every approver a tripped rule names is
\* asked once in that rule's tier, and nobody else is asked at all; and a bigger
\* order never needs fewer signatures (planApproval, approval-engine.ts).
EachApproverAskedOncePerTier ==
  /\ \A total \in Totals :
       LET facts == Spending(total)
           plan == planApproval(configured, facts)
           tripped == {rule \in configured : ruleMatches(rule, facts)}
       IN  /\ Asked(configured, facts) = {<<rule.tier, rule.approver>> : rule \in tripped}
           /\ Cardinality(plan) = Cardinality(Asked(configured, facts))
  /\ \A total, more \in Totals :
       total <= more => Asked(configured, Spending(total)) \subseteq Asked(configured, Spending(more))

\* The documented rules of evaluateProgress: one refusal ends the round, one
\* request for changes pauses it, otherwise the open tier is the only one with
\* every tier below it settled and a step of its own to decide, and the round
\* completes exactly when no step is left.
ProgressIsHierarchical ==
  answers # NotPut =>
    \A p \in evaluateProgress(answers) :
      LET Has(s) == \E r \in DOMAIN answers : answers[r] = s
      IN  /\ p.outcome = "REJECTED" <=> Has("REJECTED")
          /\ p.outcome = "CHANGES_REQUESTED"
               <=> Has("CHANGES_REQUESTED") /\ ~Has("REJECTED")
          /\ p.outcome = "PENDING" =>
               /\ \E r \in DOMAIN answers : answers[r] = "PENDING" /\ r.tier = p.currentTier
               /\ \A r \in DOMAIN answers : r.tier < p.currentTier =>
                    answers[r] \in {"APPROVED", "SKIPPED"}
          /\ p.outcome = "APPROVED" =>
               \A r \in DOMAIN answers : answers[r] \in {"APPROVED", "SKIPPED"}
=============================================================================
