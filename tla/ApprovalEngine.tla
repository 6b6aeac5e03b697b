--------------------------- MODULE ApprovalEngine ---------------------------
(***************************************************************************)
(* The pure rules of approval-engine.ts: which approval rules an order     *)
(* trips, who may decide a step, and what a set of step statuses comes to. *)
(*                                                                         *)
(* A rule is a record; "ANY" in one of its conditions is the null that     *)
(* does not constrain, and a minTotal of 0 the null minimum.  Rule ids are *)
(* numbers in the order the database returns them within a tier.           *)
(***************************************************************************)
EXTENDS Integers, FiniteSets

Role == {"ADMIN", "HEAD_OFFICE", "SITE_USER"}

StepStatus == {"PENDING", "APPROVED", "REJECTED", "CHANGES_REQUESTED", "SKIPPED"}
Decision == {"APPROVED", "REJECTED", "CHANGES_REQUESTED"}
Outcome == {"PENDING"} \cup Decision

ruleMatches(rule, facts) ==
  /\ facts.total >= rule.minTotal
  /\ rule.site \in {"ANY", facts.site}
  /\ rule.requesterRole \in {"ANY", facts.requesterRole}
  /\ rule.category \in {"ANY"} \cup facts.categories

\* Two rules that ask the same approver in the same tier.
SameKeyAnyTier(p, q) == p.approver = q.approver      \* mutant: tier not in the key
SameKey(p, q) == p.tier = q.tier /\ p.approver = q.approver

\* The rules kept as steps: the matching ones, first of each key.
planApproval(rules, facts) ==
  LET matched == {rule \in rules : ruleMatches(rule, facts)}
  IN  {p \in matched : \A q \in matched : SameKey(p, q) => p.id <= q.id}

\* An approver is [user |-> u] or [role |-> r].
canDecideStep(approver, user, role, requester) ==
  /\ user # requester
  /\ \/ approver = [user |-> user]
     \/ approver = [role |-> role]
     \/ "role" \in DOMAIN approver /\ role = "ADMIN"

-----------------------------------------------------------------------------
(***************************************************************************)
(* A request's steps are a function st from the rules that may be planned  *)
(* to a status, "ABSENT" for a rule the order did not trip.                *)
(***************************************************************************)
Absent == "ABSENT"
NoSkip == 0

Planned(st) == {r \in DOMAIN st : st[r] # Absent}

\* Tiers that still wait for a signature; SKIPPED counts as settled.
UnsettledTiers(st) ==
  {r.tier : r \in {q \in Planned(st) : st[q] \notin {"APPROVED", "SKIPPED"}}}

Lowest(T) == {t \in T : \A u \in T : t <= u}
Highest(T) == {t \in T : \A u \in T : u <= t}

Progress(outcome, tier, skip) ==
  [outcome |-> outcome, currentTier |-> tier, skipTiersAbove |-> skip]

\* The set of answers evaluateProgress can give: one, except that `find`
\* returns whichever refused step the database lists first.
evaluateProgressNoTiers(st) ==                       \* mutant: tiers not walked
  IF "REJECTED" \in {st[r] : r \in Planned(st)}
    THEN {Progress("REJECTED", r.tier, r.tier) :
            r \in {q \in Planned(st) : st[q] = "REJECTED"}}
  ELSE IF "CHANGES_REQUESTED" \in {st[r] : r \in Planned(st)}
    THEN {Progress("CHANGES_REQUESTED", r.tier, NoSkip) :
            r \in {q \in Planned(st) : st[q] = "CHANGES_REQUESTED"}}
  ELSE IF UnsettledTiers(st) # {}
    THEN {Progress("PENDING", t, NoSkip) : t \in Highest(UnsettledTiers(st))}
  ELSE {Progress("APPROVED", t, NoSkip) : t \in Highest({r.tier : r \in Planned(st)})}
evaluateProgress(st) ==
  IF Planned(st) = {} THEN {Progress("APPROVED", 1, NoSkip)}
  ELSE IF \E r \in Planned(st) : st[r] = "REJECTED"
    THEN {Progress("REJECTED", r.tier, r.tier) :
            r \in {q \in Planned(st) : st[q] = "REJECTED"}}
  ELSE IF \E r \in Planned(st) : st[r] = "CHANGES_REQUESTED"
    THEN {Progress("CHANGES_REQUESTED", r.tier, NoSkip) :
            r \in {q \in Planned(st) : st[q] = "CHANGES_REQUESTED"}}
  ELSE IF UnsettledTiers(st) # {}
    THEN {Progress("PENDING", t, NoSkip) : t \in Lowest(UnsettledTiers(st))}
  ELSE {Progress("APPROVED", t, NoSkip) : t \in Highest({r.tier : r \in Planned(st)})}

\* assertStepOpen: undecided, and its tier is the one being walked.
stepIsOpenTierOnly(stepStatus, tier, currentTier) == \* mutant: may be decided
  tier = currentTier
stepIsOpen(stepStatus, tier, currentTier) ==
  stepStatus = "PENDING" /\ tier = currentTier
=============================================================================
