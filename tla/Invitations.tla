---------------------------- MODULE Invitations ----------------------------
(***************************************************************************)
(* Users who come by invitation: invitation.service.ts.                    *)
(*                                                                         *)
(* The user is created when the invitation is accepted, by a request that  *)
(* read the invitation before it hashed a password, and that writes it     *)
(* back by id.  A user may also arrive from the legacy system under the    *)
(* same login.  Mail and audit entries follow the commit and are left out. *)
(***************************************************************************)
EXTENDS Naturals, FiniteSets

CONSTANTS
  Emails,      \* which are the logins of invited users
  Invites,     \* ids of invitations rows
  Desks        \* requests that can be in flight at once

VARIABLES
  invite,      \* the invitations rows
  member,      \* the users rows with an invited login
  accountOpen, \* the account is not deleted
  desk,        \* what each request in flight has read
  crossed      \* history: a request wrote an invitation changed since it was
               \* read, or two were raised for one person at once

inviteVars == <<invite, member, accountOpen, desk, crossed>>

NoRow == [status |-> "ABSENT"]
Vacant == [op |-> "vacant"]
ASSUME NoRowAssumption == NoRow \notin Invites

\* `revoked` and `accepted` are revokedAt and acceptedUserId.
Invite == [email : Emails, status : {"PENDING", "ACCEPTED", "REVOKED", "EXPIRED"},
           late : BOOLEAN, revoked : BOOLEAN, accepted : BOOLEAN]

\* A user, and the invitation it came by, or none.
Member == [email : Emails, by : Invites \cup {NoRow}]

Desk == {Vacant}
  \cup [op : {"create"}, email : Emails, outstanding : Invites \cup {NoRow}]
  \cup [op : {"accept", "expire"}, invite : Invites]

InvitesTypeOK ==
  /\ invite \in [Invites -> Invite \cup {NoRow}]
  /\ member \subseteq Member
  /\ accountOpen \in BOOLEAN
  /\ desk \in [Desks -> Desk]
  /\ crossed \in BOOLEAN

InvitesInit ==
  /\ invite = [i \in Invites |-> NoRow]
  /\ member = {}
  /\ accountOpen = TRUE
  /\ desk = [d \in Desks |-> Vacant]
  /\ crossed = FALSE

-----------------------------------------------------------------------------
Pending(i) == invite[i].status = "PENDING"
PendingFor(email) == {i \in Invites : Pending(i) /\ invite[i].email = email}
Sit(d, w) == desk' = [desk EXCEPT ![d] = w]

\* The unique index on login, which also answers accept's own look-up.
LoginAlwaysFree(email) == TRUE          \* mutant: neither look-up nor index
LoginFree(email) == \A m \in member : m.email # email

BeginCreate(d, email) ==
  /\ desk[d] = Vacant
  /\ accountOpen
  /\ LoginFree(email)
  /\ \/ /\ PendingFor(email) = {}
        /\ Sit(d, [op |-> "create", email |-> email, outstanding |-> NoRow])
     \/ \E i \in PendingFor(email) :
          Sit(d, [op |-> "create", email |-> email, outstanding |-> i])
  /\ UNCHANGED <<invite, member, accountOpen, crossed>>

Fresh(email) == [email |-> email, status |-> "PENDING", late |-> FALSE, revoked |-> FALSE,
                 accepted |-> FALSE]

CreateBesides(d) ==                     \* mutant: the outstanding one is left
  /\ desk[d].op = "create"
  /\ \E n \in {i \in Invites : invite[i] = NoRow} :
       invite' = [invite EXCEPT ![n] = Fresh(desk[d].email)]
  /\ Sit(d, Vacant)
  /\ UNCHANGED <<member, accountOpen, crossed>>

\* create: the one outstanding invitation it found is revoked, by id.
Create(d) ==
  /\ desk[d].op = "create"
  /\ LET k == desk[d]
     IN  /\ \E n \in {i \in Invites : invite[i] = NoRow} :
              invite' = [i \in Invites |->
                IF i = n THEN Fresh(k.email)
                ELSE IF i = k.outstanding
                  THEN [invite[i] EXCEPT !.status = "REVOKED", !.revoked = TRUE]
                ELSE invite[i]]
         /\ crossed' = (crossed \/ PendingFor(k.email) # {k.outstanding} \ {NoRow})
  /\ Sit(d, Vacant)
  /\ UNCHANGED <<member, accountOpen>>

\* revoke: conditional on PENDING, in one statement.
RevokeInvite(i) ==
  /\ Pending(i)
  /\ invite' = [invite EXCEPT ![i].status = "REVOKED", ![i].revoked = TRUE]
  /\ UNCHANGED <<member, accountOpen, desk, crossed>>

\* accept: refused unless pending, in date, and its account still open.
BeginAccept(d, i) ==
  /\ desk[d] = Vacant
  /\ Pending(i)
  /\ \/ /\ invite[i].late
        /\ Sit(d, [op |-> "expire", invite |-> i])
     \/ /\ ~invite[i].late
        /\ accountOpen
        /\ Sit(d, [op |-> "accept", invite |-> i])
  /\ UNCHANGED <<invite, member, accountOpen, crossed>>

\* Its transaction: the user and the invitation, or nothing if the login is taken.
AcceptAgain(d) ==                       \* mutant: the invitation is left PENDING
  /\ desk[d].op = "accept"
  /\ LET i == desk[d].invite
     IN  /\ LoginFree(invite[i].email)
         /\ member' = member \cup {[email |-> invite[i].email, by |-> i]}
         /\ invite' = [invite EXCEPT ![i].accepted = TRUE]
  /\ Sit(d, Vacant)
  /\ UNCHANGED <<accountOpen, crossed>>
Accept(d) ==
  /\ desk[d].op = "accept"
  /\ LET i == desk[d].invite
     IN  /\ LoginFree(invite[i].email)
         /\ member' = member \cup {[email |-> invite[i].email, by |-> i]}
         /\ invite' = [invite EXCEPT ![i].status = "ACCEPTED", ![i].accepted = TRUE]
         /\ crossed' = (crossed \/ ~Pending(i))
  /\ Sit(d, Vacant)
  /\ UNCHANGED accountOpen

MarkExpired(d) ==
  /\ desk[d].op = "expire"
  /\ LET i == desk[d].invite
     IN  /\ invite' = [invite EXCEPT ![i].status = "EXPIRED"]
         /\ crossed' = (crossed \/ ~Pending(i))
  /\ Sit(d, Vacant)
  /\ UNCHANGED <<member, accountOpen>>

Drop(d) ==
  /\ desk[d] # Vacant
  /\ Sit(d, Vacant)
  /\ UNCHANGED <<invite, member, accountOpen, crossed>>

\* Time passes; the account is deleted; a user arrives from the legacy system.
Happens ==
  \/ /\ \E i \in Invites : Pending(i) /\ invite' = [invite EXCEPT ![i].late = TRUE]
     /\ UNCHANGED <<member, accountOpen>>
  \/ /\ accountOpen' = FALSE
     /\ UNCHANGED <<invite, member>>
  \/ /\ \E email \in Emails :
          /\ LoginFree(email)
          /\ member' = member \cup {[email |-> email, by |-> NoRow]}
     /\ UNCHANGED <<invite, accountOpen>>

InvitesNext ==
  \/ \E d \in Desks :
       \/ \E email \in Emails : BeginCreate(d, email)
       \/ \E i \in Invites : BeginAccept(d, i)
       \/ Create(d) \/ Accept(d) \/ MarkExpired(d) \/ Drop(d)
  \/ \E i \in Invites : RevokeInvite(i)
  \/ Happens /\ UNCHANGED <<desk, crossed>>

InvitesSpec == InvitesInit /\ [][InvitesNext]_inviteVars

-----------------------------------------------------------------------------
(***************************************************************************)
(* However many invitations a person was sent and however their acceptance *)
(* overlaps with a first login from legacy, they become one user, and an   *)
(* invitation made at most one (accept, invitation.service.ts).            *)
(***************************************************************************)
OneUserPerPerson ==
  /\ \A m, n \in member : m.email = n.email => m = n
  /\ \A i \in Invites :
       invite[i] # NoRow =>
         (invite[i].accepted <=> [email |-> invite[i].email, by |-> i] \in member)

(***************************************************************************)
(* An invitation's status tells what became of it: there is a user by it   *)
(* exactly when it is ACCEPTED, which is for good, and only the last one   *)
(* sent to a person is open.  Only a request that wrote an invitation      *)
(* changed since it read it, or two raised at once, can break this.        *)
(***************************************************************************)
StatusTellsOutcome ==
  ~crossed =>
    /\ \A i \in Invites :
         invite[i] # NoRow =>
           /\ invite[i].accepted <=> invite[i].status = "ACCEPTED"
           /\ invite[i].revoked <=> invite[i].status = "REVOKED"
    /\ \A email \in Emails : Cardinality(PendingFor(email)) <= 1

(***************************************************************************)
(* Whichever way two desks handle the invitations of one person, they end  *)
(* up as one user, and each invitation says what came of it                *)
(* (invitation.service.ts).                                                *)
(***************************************************************************)
InvitationTellsOutcome == OneUserPerPerson /\ StatusTellsOutcome
=============================================================================
