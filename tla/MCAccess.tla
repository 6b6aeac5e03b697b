------------------------------ MODULE MCAccess ------------------------------
(***************************************************************************)
(* Instances for TLC of who gets in and what they may do: sessions,        *)
(* invitations, staff, the organisation's own records and permissions.     *)
(* The parts share no state: each behaviour is about one of them, and the  *)
(* others stay as they start.                                              *)
(***************************************************************************)
EXTENDS Sessions, Invitations, Organisation, CallerGrants, TLC

CONSTANTS u1, x1, x2, t1, t2, t3, r1, r2

VARIABLE focus    \* the part this behaviour is about

MCInit ==
  /\ SessionsInit /\ InvitesInit /\ OrganisationInit /\ GrantsInit
  /\ focus \in {"sessions", "invitations", "staff", "grants", "sites", "settings",
               "permissions"}
  /\ focus # "sessions" => \A u \in Users : person[u] # Absent /\ person[u].password = x1
  /\ focus \notin {"staff", "grants"} => \A p \in People : staff[p].role = "SITE_USER" /\ ~staff[p].external
  /\ focus = "grants" => \A p \in People : ~staff[p].external
  /\ focus # "permissions" => caller = [role |-> "ADMIN", userType |-> "NEW"]

About(part, others) == focus = part /\ UNCHANGED <<focus, others>>

SessionStep == About("sessions", <<inviteVars, staffVars, organisationVars, callerVars>>) /\ SessionsNext
InviteStep == About("invitations", <<sessionVars, staffVars, organisationVars, callerVars>>) /\ InvitesNext

StaffStep ==
  /\ About("staff", <<sessionVars, inviteVars, organisationVars, callerVars, grant>>)
  /\ StaffNext
  /\ \A w \in Windows : window'[w].op \notin {"grant", "revoke"}

\* Grants beside demotions and removals; status and branches are above.
HandoutStep ==
  /\ About("grants", <<sessionVars, inviteVars, organisationVars, callerVars>>)
  /\ StaffNext
  /\ \A w \in Windows : window'[w].op = "update" => window'[w].dto.role # Same

SiteStep ==
  /\ About("sites", <<sessionVars, inviteVars, staffVars, callerVars>>)
  /\ OrganisationNext
  /\ \A c \in Clerks : clerk'[c].op \notin {"settings", "record"}

SettingStep ==
  /\ About("settings", <<sessionVars, inviteVars, staffVars, callerVars, site, address>>)
  /\ OrganisationNext
  /\ \A c \in Clerks : clerk'[c].op \in {"none", "settings", "record"}

GrantStep ==
  /\ About("permissions", <<sessionVars, inviteVars, staffVars, organisationVars>>)
  /\ \E row \in Grant : ReadGrant(row)

MCNext ==
  \/ SessionStep \/ InviteStep \/ StaffStep \/ HandoutStep
  \/ SiteStep \/ SettingStep \/ GrantStep

MCSpec ==
  MCInit /\ [][MCNext]_<<focus, sessionVars, inviteVars, staffVars, organisationVars, callerVars>>

\* Without the overlaps the modules name, where the code promises nothing.
InTurn == ~raced /\ ~outdated /\ ~renounced /\ ~hurried

Symmetry == Permutations({x1, x2}) \cup Permutations({r1, r2}) \cup Permutations({t1, t2, t3})
=============================================================================
