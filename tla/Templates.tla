----------------------------- MODULE Templates -----------------------------
(***************************************************************************)
(* One template: templates.service.ts with the lifecycle and the rules of  *)
(* template-status.ts.  Designers work on its draft, numbered by version;  *)
(* versions are kept in template_versions, and the one published is what   *)
(* buyers personalise and orders point at.                                 *)
(*                                                                         *)
(* Every handler first finds the template and writes by id in a later      *)
(* call; `desk` is what each request in flight has read.                   *)
(***************************************************************************)
EXTENDS Naturals, FiniteSets

CONSTANTS
  Documents,     \* what a draft can hold
  Printable,     \* those assertPublishable lets through
  Desks,         \* requests that can be in flight at once
  Accounts,
  MaxVersion     \* bound on the versions of the template

ASSUME PrintableAssumption == Printable \subseteq Documents
ASSUME VersionAssumption == MaxVersion \in Nat \ {0}

VARIABLES
  template,      \* the templates row
  versions,      \* the template_versions rows, by number
  desk,
  pinned,        \* what buyers ordered from it
  drafted        \* history: the draft as each version number was given out

templateVars == <<template, versions, desk, pinned, drafted>>

Unkept == "unkept"
Clear == [op |-> "clear"]

Numbers == 1..MaxVersion
Audience ==
  [visibility : {"ALL_ACCOUNTS"}, visibleTo : {{}}]
    \cup [visibility : {"RESTRICTED"}, visibleTo : SUBSET Accounts]
Everyone == [visibility |-> "ALL_ACCOUNTS", visibleTo |-> {}]

TemplateStatus == {"DRAFT", "PUBLISHED", "ARCHIVED"}
Template ==
  [document : Documents, version : Numbers, status : TemplateStatus, deleted : BOOLEAN,
   published : Numbers \cup {0}, audience : Audience]
Pin == [version : Numbers, document : Documents]

Desk ==
  {Clear}
    \cup [op : {"edit"}, expected : Numbers \cup {0}, document : Documents]
    \cup [op : {"snapshot"}, version : Numbers, document : Documents]
    \cup [op : {"publishing"}]
    \cup [op : {"publish"}, version : Numbers, document : Documents]
    \cup [op : {"status"}, to : TemplateStatus \ {"PUBLISHED"}]
    \cup [op : {"restore"}, document : Documents]
    \cup [op : {"remove"}]
    \cup [op : {"visibility"}, to : Audience]

TemplatesTypeOK ==
  /\ template \in Template
  /\ versions \in [Numbers -> Documents \cup {Unkept}]
  /\ desk \in [Desks -> Desk]
  /\ pinned \subseteq Pin
  /\ drafted \in [Numbers -> Documents \cup {Unkept}]

\* create, or duplicate: always a draft, with no history of its own.
TemplatesInit ==
  \E document \in Documents :
    /\ template = [document |-> document, version |-> 1, status |-> "DRAFT",
                   deleted |-> FALSE, published |-> 0, audience |-> Everyone]
    /\ versions = [n \in Numbers |-> Unkept]
    /\ desk = [d \in Desks |-> Clear]
    /\ pinned = {}
    /\ drafted = [n \in Numbers |-> IF n = 1 THEN document ELSE Unkept]

-----------------------------------------------------------------------------
ALLOWED_TRANSITIONS ==
  [DRAFT |-> {"PUBLISHED", "ARCHIVED"}, PUBLISHED |-> {"DRAFT", "ARCHIVED"},
   ARCHIVED |-> {"DRAFT"}]
canTransition(from, to) == to \in ALLOWED_TRANSITIONS[from]

requireManageable == ~template.deleted

At(d, k) == desk' = [desk EXCEPT ![d] = k]

Take(d, k) ==
  /\ desk[d] = Clear
  /\ requireManageable
  /\ At(d, k)
  /\ UNCHANGED <<template, versions, pinned, drafted>>

\* A write of the draft takes the next number in the same statement.
SaveDraft(document) ==
  /\ template.version < MaxVersion
  /\ template' = [template EXCEPT !.document = document, !.version = @ + 1]
  /\ drafted' = [drafted EXCEPT ![template.version + 1] = document]

-----------------------------------------------------------------------------
\* update: the designer works from what they opened; an expected version of 0
\* is one the client did not send.
OpenDraft(d, document, checked) ==
  Take(d, [op |-> "edit", document |-> document,
           expected |-> IF checked THEN template.version ELSE 0])

UpdateTemplate(d) ==
  /\ desk[d].op = "edit"
  /\ \/ /\ requireManageable
        /\ desk[d].expected \in {0, template.version}
        /\ SaveDraft(desk[d].document)
     \/ /\ \/ template.deleted
           \/ desk[d].expected \notin {0, template.version}
        /\ UNCHANGED <<template, drafted>>
  /\ At(d, Clear)
  /\ UNCHANGED <<versions, pinned>>

\* snapshot: keeps the draft it read under its own number, unless one is kept.
BeginSnapshot(d) ==
  Take(d, [op |-> "snapshot", version |-> template.version, document |-> template.document])

Snapshot(d) ==
  /\ desk[d].op = "snapshot"
  /\ LET k == desk[d]
     IN  versions' = [versions EXCEPT ![k.version] = IF @ = Unkept THEN k.document ELSE @]
  /\ At(d, Clear)
  /\ UNCHANGED <<template, pinned, drafted>>

\* publish: checked once outside and once inside its transaction.
BeginPublish(d) ==
  /\ template.document \in Printable
  /\ Take(d, [op |-> "publishing"])

ReadAgainUnchecked(d) ==                 \* mutant: only the first read is checked
  /\ desk[d].op = "publishing"
  /\ At(d, [op |-> "publish", version |-> template.version, document |-> template.document])
  /\ UNCHANGED <<template, versions, pinned, drafted>>
ReadAgain(d) ==
  /\ desk[d].op = "publishing"
  /\ template.document \in Printable
  /\ At(d, [op |-> "publish", version |-> template.version, document |-> template.document])
  /\ UNCHANGED <<template, versions, pinned, drafted>>

\* The index on (templateId, version) refuses a number that is kept already.
Publish(d) ==
  /\ desk[d].op = "publish"
  /\ LET k == desk[d]
     IN  \/ /\ versions[k.version] = Unkept
            /\ versions' = [versions EXCEPT ![k.version] = k.document]
            /\ template' = [template EXCEPT !.status = "PUBLISHED", !.published = k.version]
         \/ /\ versions[k.version] # Unkept
            /\ UNCHANGED <<template, versions>>
  /\ At(d, Clear)
  /\ UNCHANGED <<pinned, drafted>>

\* changeStatus: publishing is not reachable here.
BeginStatus(d, to) ==
  /\ to # "PUBLISHED"
  /\ canTransition(template.status, to)
  /\ Take(d, [op |-> "status", to |-> to])

ClearPointer(d) ==                       \* mutant: publishedVersionId: null
  /\ desk[d].op = "status"
  /\ template' = [template EXCEPT !.status = desk[d].to, !.published = 0]
  /\ At(d, Clear)
  /\ UNCHANGED <<versions, pinned, drafted>>
ChangeStatus(d) ==
  /\ desk[d].op = "status"
  /\ template' = [template EXCEPT !.status = desk[d].to]
  /\ At(d, Clear)
  /\ UNCHANGED <<versions, pinned, drafted>>

\* restoreVersion: a save like any other, whatever was saved meanwhile.
BeginRestore(d, n) ==
  /\ versions[n] # Unkept
  /\ Take(d, [op |-> "restore", document |-> versions[n]])

RestoreInPlace(d) ==                     \* mutant: the version number is not bumped
  /\ desk[d].op = "restore"
  /\ template' = [template EXCEPT !.document = desk[d].document]
  /\ At(d, Clear)
  /\ UNCHANGED <<versions, pinned, drafted>>
RestoreVersion(d) ==
  /\ desk[d].op = "restore"
  /\ SaveDraft(desk[d].document)
  /\ At(d, Clear)
  /\ UNCHANGED <<versions, pinned>>

RemoveTemplate(d) ==
  \/ Take(d, [op |-> "remove"])
  \/ /\ desk[d].op = "remove"
     /\ template' = [template EXCEPT !.deleted = TRUE, !.status = "ARCHIVED"]
     /\ At(d, Clear)
     /\ UNCHANGED <<versions, pinned, drafted>>

SetVisibility(d) ==
  \/ \E to \in Audience : Take(d, [op |-> "visibility", to |-> to])
  \/ /\ desk[d].op = "visibility"
     /\ template' = [template EXCEPT !.audience = desk[d].to]
     /\ At(d, Clear)
     /\ UNCHANGED <<versions, pinned, drafted>>

LeaveDesk(d) ==
  /\ desk[d] # Clear
  /\ At(d, Clear)
  /\ UNCHANGED <<template, versions, pinned, drafted>>

\* getCustomisable and customise: one query, of the version on show.
visibilityFilter(account) ==
  /\ template.status = "PUBLISHED"
  /\ template.audience = Everyone \/ account \in template.audience.visibleTo

Customise(account) ==
  /\ ~template.deleted
  /\ visibilityFilter(account)
  /\ template.published # 0
  /\ pinned' = pinned \cup
       {[version |-> template.published, document |-> versions[template.published]]}
  /\ UNCHANGED <<template, versions, desk, drafted>>

TemplatesNext ==
  \/ \E d \in Desks :
       \/ \E document \in Documents, checked \in BOOLEAN : OpenDraft(d, document, checked)
       \/ UpdateTemplate(d) \/ BeginSnapshot(d) \/ Snapshot(d)
       \/ BeginPublish(d) \/ ReadAgain(d) \/ Publish(d)
       \/ \E to \in TemplateStatus : BeginStatus(d, to)
       \/ ChangeStatus(d)
       \/ \E n \in Numbers : BeginRestore(d, n)
       \/ RestoreVersion(d) \/ RemoveTemplate(d) \/ SetVisibility(d) \/ LeaveDesk(d)
  \/ \E account \in Accounts : Customise(account)

TemplatesSpec == TemplatesInit /\ [][TemplatesNext]_templateVars

-----------------------------------------------------------------------------
(***************************************************************************)
(* The history implements the archive that orders rely on, whatever        *)
(* designers do to the draft at the same time (TemplateVersion,            *)
(* schema.prisma; publish, snapshot, changeStatus, templates.service.ts).  *)
(***************************************************************************)
Archive == INSTANCE VersionArchive WITH
  Contents <- Documents, Empty <- Unkept, Nowhere <- 0,
  kept <- versions, shown <- template.published

KeepsArchive == Archive!ArchiveSpec

(***************************************************************************)
(* A number means one document, in the draft, in a version kept under it   *)
(* and in what was ordered from it: a publication numbered for one         *)
(* document and holding another is "the one corruption this table cannot   *)
(* recover from" (templates.service.ts:463), and what is on show is always *)
(* something that can be printed.                                          *)
(***************************************************************************)
NumbersMeanDocuments ==
  /\ template.document = drafted[template.version]
  /\ \A n \in Numbers : versions[n] \in {Unkept, drafted[n]}
  /\ \A pin \in pinned : pin.document = drafted[pin.version]

ShowsPrintable ==
  template.status = "PUBLISHED" =>
    template.published # 0 /\ versions[template.published] \in Printable

(***************************************************************************)
(* Whatever designers do at the same time, a version number means one      *)
(* document and what is on show can be printed (templates.service.ts).     *)
(***************************************************************************)
ShownMeansPrintable == NumbersMeanDocuments /\ ShowsPrintable
=============================================================================
