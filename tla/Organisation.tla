---------------------------- MODULE Organisation ----------------------------
(***************************************************************************)
(* An account's own records: its sites and their addresses (sites.service  *)
(* and, for the codes that name them, accounts.service), its settings      *)
(* (settings.service) and the audit trail of what was changed in them      *)
(* (audit.service).                                                        *)
(*                                                                         *)
(* A change is read, written and recorded in three separate database       *)
(* calls; `clerk` is what each request in flight has read or has still to  *)
(* record.                                                                 *)
(***************************************************************************)
EXTENDS Naturals, FiniteSets

CONSTANTS
  Sites, Addresses,   \* ids of rows
  Codes,              \* site codes
  Clerks,             \* requests that can be in flight at once
  Editors            \* who may change the settings

ASSUME AddressesAssumption == IsFiniteSet(Addresses)

VARIABLES
  site, address,
  setting,            \* the value of each field, and who wrote it last
  trail,              \* the newest audit entry that names each field
  clerk,
  hurried             \* history: two of these requests overlapped, or an entry
                      \* was not written, or a site came with two defaults

organisationVars == <<site, address, setting, trail, clerk, hurried>>

NoSite == [code |-> "none"]
NoAddress == [kind |-> "none"]
AtEase == [op |-> "none"]

\* One column of accounts and one of account_settings, which are written apart.
Fields == {"requirePoNumber", "enforceMoq"}
SettingOf(value, by) == [value |-> value, by |-> by]
Setting == [value : BOOLEAN, by : Editors \cup {"nobody"}]

Site == [code : Codes, deleted : BOOLEAN]
Address == [site : Sites, kind : {"BILLING", "SHIPPING"}, isDefault : BOOLEAN]

Clerk ==
  {AtEase}
    \cup [op : {"settings"}, by : Editors, before : [Fields -> BOOLEAN]]
    \cup (UNION {[op : {"record"}, by : Editors, diff : [fields -> BOOLEAN]] :
                 fields \in SUBSET Fields})
    \cup [op : {"address"}, site : Sites, kind : {"BILLING", "SHIPPING"},
          defaults : SUBSET Addresses]

OrganisationTypeOK ==
  /\ site \in [Sites -> Site \cup {NoSite}]
  /\ address \in [Addresses -> Address \cup {NoAddress}]
  /\ setting \in [Fields -> Setting]
  /\ trail \in [Fields -> Setting]
  /\ clerk \in [Clerks -> Clerk]
  /\ hurried \in BOOLEAN

OrganisationInit ==
  /\ site = [s \in Sites |-> NoSite]
  /\ address = [a \in Addresses |-> NoAddress]
  /\ setting = [f \in Fields |-> SettingOf(FALSE, "nobody")]
  /\ trail = setting
  /\ clerk = [c \in Clerks |-> AtEase]
  /\ hurried = FALSE

-----------------------------------------------------------------------------
Do(c, k) == clerk' = [clerk EXCEPT ![c] = k]

\* Somebody else is half way through the same kind of change.
Crowded(c, ops) == \E d \in Clerks \ {c} : clerk[d].op \in ops

Open(s) == site[s] # NoSite /\ ~site[s].deleted
DefaultsOf(s, kind) ==
  {a \in Addresses : address[a] # NoAddress /\ address[a].site = s
                       /\ address[a].kind = kind /\ address[a].isDefault}

\* assertCodeIsFree and the index behind it: a deactivated site keeps its code.
CodeIsFreeAmongOpen(code) ==             \* mutant: only live sites looked at
  \A s \in Sites : Open(s) => site[s].code # code
CodeIsFree(code) == \A s \in Sites : site[s].code # code

\* create: the site and its addresses in one transaction.
CreateSite(s, code, own, defaults) ==
  /\ site[s] = NoSite
  /\ CodeIsFree(code)
  /\ \A a \in own : address[a] = NoAddress
  /\ defaults \subseteq own
  /\ site' = [site EXCEPT ![s] = [code |-> code, deleted |-> FALSE]]
  /\ address' = [a \in Addresses |->
       IF a \in own THEN [site |-> s, kind |-> "SHIPPING", isDefault |-> a \in defaults]
                    ELSE address[a]]
  /\ hurried' = (hurried \/ Cardinality(defaults) > 1)
  /\ UNCHANGED <<setting, trail, clerk>>

DeactivateSite(s) ==
  /\ Open(s)
  /\ site' = [site EXCEPT ![s].deleted = TRUE]
  /\ UNCHANGED <<address, setting, trail, clerk, hurried>>

\* addAddress: a transaction that clears the defaults its first statement
\* finds, and inserts; one that is not committed yet is not found.
BeginAddress(c, s, kind) ==
  /\ clerk[c] = AtEase
  /\ Open(s)
  /\ Do(c, [op |-> "address", site |-> s, kind |-> kind, defaults |-> DefaultsOf(s, kind)])
  /\ hurried' = (hurried \/ Crowded(c, {"address"}))
  /\ UNCHANGED <<site, address, setting, trail>>

InsertBesides(c, a, isDefault) ==        \* mutant: the old default stays
  /\ clerk[c].op = "address"
  /\ address[a] = NoAddress
  /\ address' = [address EXCEPT ![a] =
       [site |-> clerk[c].site, kind |-> clerk[c].kind, isDefault |-> isDefault]]
  /\ Do(c, AtEase)
  /\ UNCHANGED <<site, setting, trail, hurried>>
InsertAddress(c, a, isDefault) ==
  /\ clerk[c].op = "address"
  /\ address[a] = NoAddress
  /\ LET k == clerk[c]
         cleared == IF isDefault THEN k.defaults ELSE {}
     IN  address' = [b \in Addresses |->
           IF b = a THEN [site |-> k.site, kind |-> k.kind, isDefault |-> isDefault]
           ELSE IF b \in cleared THEN [address[b] EXCEPT !.isDefault = FALSE]
           ELSE address[b]]
  /\ Do(c, AtEase)
  /\ UNCHANGED <<site, setting, trail, hurried>>

-----------------------------------------------------------------------------
(***************************************************************************)
(* settings.update: what it read, outside the transaction that writes, is  *)
(* what its audit entry compares the result with.                          *)
(***************************************************************************)
BeginSettings(c, m) ==
  /\ clerk[c] = AtEase
  /\ Do(c, [op |-> "settings", by |-> m, before |-> [f \in Fields |-> setting[f].value]])
  /\ hurried' = (hurried \/ Crowded(c, {"settings", "record"}))
  /\ UNCHANGED <<site, address, setting, trail>>

\* The fields given are written; a table none of whose fields is given is not
\* read again.
WriteSettings(c, given) ==
  /\ clerk[c].op = "settings"
  /\ LET k == clerk[c]
         after == [f \in Fields |-> IF f \in DOMAIN given THEN given[f] ELSE k.before[f]]
         changed == {f \in Fields : after[f] # k.before[f]}
     IN  /\ setting' = [f \in Fields |->
              IF f \in DOMAIN given /\ given[f] # setting[f].value
              THEN SettingOf(given[f], k.by) ELSE setting[f]]
         /\ Do(c, IF changed = {} THEN AtEase
                  ELSE [op |-> "record", by |-> k.by, diff |-> [f \in changed |-> after[f]]])
  /\ UNCHANGED <<site, address, trail, hurried>>

\* audit.record: after the change committed, in a transaction of its own.
RecordGiven(c) ==                        \* mutant: an entry for one field only
  /\ clerk[c].op = "record"
  /\ LET k == clerk[c]
         f == CHOOSE g \in DOMAIN k.diff : TRUE
     IN  trail' = [trail EXCEPT ![f] = SettingOf(k.diff[f], k.by)]
  /\ Do(c, AtEase)
  /\ UNCHANGED <<site, address, setting, hurried>>
RecordSettings(c) ==
  /\ clerk[c].op = "record"
  /\ LET k == clerk[c]
     IN  trail' = [f \in Fields |->
           IF f \in DOMAIN k.diff THEN SettingOf(k.diff[f], k.by) ELSE trail[f]]
  /\ Do(c, AtEase)
  /\ UNCHANGED <<site, address, setting, hurried>>

\* A request fails, or only its entry does: "the change itself succeeded".
DropClerk(c) ==
  /\ clerk[c] # AtEase
  /\ Do(c, AtEase)
  /\ hurried' = (hurried \/ clerk[c].op = "record")
  /\ UNCHANGED <<site, address, setting, trail>>

OrganisationNext ==
  \/ \E s \in Sites :
       \/ \E code \in Codes, own, defaults \in SUBSET Addresses :
            CreateSite(s, code, own, defaults)
       \/ DeactivateSite(s)
  \/ \E c \in Clerks :
       \/ \E s \in Sites, kind \in {"BILLING", "SHIPPING"} : BeginAddress(c, s, kind)
       \/ \E a \in Addresses, isDefault \in BOOLEAN : InsertAddress(c, a, isDefault)
       \/ \E m \in Editors : BeginSettings(c, m)
       \/ \E fields \in SUBSET Fields : \E given \in [fields -> BOOLEAN] :
            WriteSettings(c, given)
       \/ RecordSettings(c) \/ DropClerk(c)

OrganisationSpec == OrganisationInit /\ [][OrganisationNext]_organisationVars

-----------------------------------------------------------------------------
(***************************************************************************)
(* "Exactly one default per site and kind" (sites.service.ts:218), and a   *)
(* code names one site for ever: only two addresses added at once, or a    *)
(* site created with two defaults, leave the checkout two to choose from.  *)
(***************************************************************************)
AddressesAreClear ==
  /\ \A s, t \in Sites : site[s] # NoSite /\ site[s].code = site[t].code => s = t
  /\ ~hurried => \A s \in Sites, kind \in {"BILLING", "SHIPPING"} :
                   Cardinality(DefaultsOf(s, kind)) <= 1

(***************************************************************************)
(* The audit trail accounts for the settings: once nobody is at work, the  *)
(* newest entry on a field says the value it has and who gave it that one  *)
(* (settings.service.ts:100, audit.service.ts:93).  It takes two updates   *)
(* that overlap, or an entry that failed, for the trail to be wrong.       *)
(***************************************************************************)
TrailTellsSettings ==
  ~hurried /\ (\A c \in Clerks : clerk[c].op \notin {"settings", "record"}) => trail = setting

(***************************************************************************)
(* The records of the organisation are unambiguous, and the audit trail    *)
(* says who made the settings what they are (sites.service.ts,             *)
(* settings.service.ts).                                                   *)
(***************************************************************************)
OrganisationIsOnRecord == AddressesAreClear /\ TrailTellsSettings
=============================================================================
