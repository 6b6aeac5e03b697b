---------------------------- MODULE OfficeProofs ----------------------------
(***************************************************************************)
(* Proofs about the people and the records of an account, for any number   *)
(* of invitations, people, sites and requests in flight: Invitations,      *)
(* Staff and Organisation; and about what a caller may do with grants of   *)
(* any number: CallerGrants.                                               *)
(***************************************************************************)
EXTENDS Invitations, Organisation, CallerGrants, Sums

-----------------------------------------------------------------------------
\* A set no two members of which differ, and one with at most one member.
LEMMA AtMostOne ==
  ASSUME NEW S, \A x, y \in S : x = y
  PROVE  Cardinality(S) <= 1
<1>1. CASE S = {}
  BY <1>1, FS_EmptySet
<1>2. CASE S # {}
  <2>1. PICK x \in S : S = {x}
    BY <1>2
  <2> QED
    BY <2>1, FS_Singleton
<1> QED
  BY <1>1, <1>2

LEMMA NoTwo ==
  ASSUME NEW S, IsFiniteSet(S), ~(Cardinality(S) > 1), NEW x \in S, NEW y \in S
  PROVE  x = y
<1> SUFFICES ASSUME x # y
             PROVE  FALSE
  OBVIOUS
<1>1. Cardinality(S) \in Nat /\ Cardinality(S) <= 1
  BY FS_CardinalityType
<1>2. IsFiniteSet(S \ {x}) /\ Cardinality(S \ {x}) = Cardinality(S) - 1
  BY FS_RemoveElement
<1>3. Cardinality(S \ {x}) \in Nat
  BY <1>2, FS_CardinalityType
<1>4. Cardinality(S \ {x}) = 0
  BY <1>1, <1>2, <1>3
<1>5. S \ {x} = {}
  BY <1>2, <1>4, FS_EmptySet
<1> QED
  BY <1>5

-----------------------------------------------------------------------------
(***************************************************************************)
(* Invitations.                                                            *)
(***************************************************************************)
\* A user or a request in flight names an invitation that was sent.
InvitesAreSent ==
  /\ \A m \in member : m.by # NoRow => invite[m.by] # NoRow
  /\ \A d \in Desks :
       /\ desk[d].op \in {"accept", "expire"} => invite[desk[d].invite] # NoRow
       /\ desk[d].op = "create" /\ desk[d].outstanding # NoRow
            => invite[desk[d].outstanding] # NoRow

StatusFits(i) ==
  /\ invite[i].accepted <=> invite[i].status = "ACCEPTED"
  /\ invite[i].revoked <=> invite[i].status = "REVOKED"

OneIsPending ==
  \A i, j \in Invites : Pending(i) /\ Pending(j) /\ invite[i].email = invite[j].email => i = j

InvitesInv ==
  /\ InvitesTypeOK /\ InvitesAreSent /\ OneUserPerPerson
  /\ ~crossed => /\ \A i \in Invites : invite[i] # NoRow => StatusFits(i)
                 /\ OneIsPending

LEMMA InvitesAreRows ==
  ASSUME InvitesTypeOK
  PROVE  /\ NoRow \notin Invite
         /\ \A i \in Invites : invite[i] # NoRow <=> invite[i] \in Invite
         /\ \A i \in Invites : Pending(i) => invite[i] # NoRow
<1>1. NoRow \notin Invite
  BY DEF NoRow, Invite
<1> QED
  BY <1>1 DEF InvitesTypeOK, Pending, NoRow

LEMMA InviteDeskShapes ==
  ASSUME NEW k \in Desk
  PROVE  /\ k.op = "create" => k.email \in Emails /\ k.outstanding \in Invites \cup {NoRow}
         /\ k.op \in {"accept", "expire"} => k.invite \in Invites
BY DEF Desk, Vacant

\* The requests in flight still name invitations, when rows only grow.
LEMMA SentLasts ==
  ASSUME InvitesTypeOK, InvitesAreSent, NEW d \in Desks, NEW k \in Desk, Sit(d, k),
         \A i \in Invites : invite[i] # NoRow => invite'[i] # NoRow,
         \A m \in member' : m.by = NoRow \/ m \in member \/ invite'[m.by] # NoRow,
         k.op \in {"accept", "expire"} => invite'[k.invite] # NoRow,
         k.op = "create" /\ k.outstanding # NoRow => invite'[k.outstanding] # NoRow
  PROVE  InvitesAreSent' /\ desk' \in [Desks -> Desk]
<1>1. /\ desk' \in [Desks -> Desk]
      /\ \A e \in Desks : desk'[e] = IF e = d THEN k ELSE desk[e]
  BY DEF InvitesTypeOK, Sit
<1>2. \A m \in member' : m.by # NoRow => invite'[m.by] # NoRow
  BY DEF InvitesTypeOK, InvitesAreSent, Member
<1>3. ASSUME NEW e \in Desks
      PROVE  /\ desk'[e].op \in {"accept", "expire"} => invite'[desk'[e].invite] # NoRow
             /\ desk'[e].op = "create" /\ desk'[e].outstanding # NoRow
                  => invite'[desk'[e].outstanding] # NoRow
  <2>1. CASE e = d
    BY <1>1, <2>1
  <2>2. CASE e # d
    BY <1>1, <2>2, InviteDeskShapes DEF InvitesTypeOK, InvitesAreSent
  <2> QED
    BY <2>1, <2>2
<1> QED
  BY <1>1, <1>2, <1>3 DEF InvitesAreSent

\* One invitation is written by id, and nothing else but the desk.
LEMMA WriteInvite ==
  ASSUME InvitesInv, NEW i \in Invites, invite[i] # NoRow, NEW row \in Invite,
         row.email = invite[i].email, row.accepted = invite[i].accepted,
         invite' = [invite EXCEPT ![i] = row], UNCHANGED member,
         accountOpen' \in BOOLEAN, crossed' \in BOOLEAN,
         InvitesAreSent', desk' \in [Desks -> Desk],
         ~crossed' => ~crossed,
         ~crossed' => /\ row.accepted <=> row.status = "ACCEPTED"
                      /\ row.revoked <=> row.status = "REVOKED"
                      /\ row.status = "PENDING" => Pending(i)
  PROVE  InvitesInv'
<1> USE DEF InvitesInv
<1>1. /\ invite \in [Invites -> Invite \cup {NoRow}] /\ row # NoRow
      /\ \A j \in Invites : invite'[j] = IF j = i THEN row ELSE invite[j]
  BY InvitesAreRows DEF InvitesTypeOK
<1>2. InvitesTypeOK'
  BY <1>1 DEF InvitesTypeOK
<1>3. OneUserPerPerson'
  BY <1>1 DEF OneUserPerPerson
<1>4. ASSUME ~crossed'
      PROVE  (\A j \in Invites : invite[j] # NoRow => StatusFits(j))' /\ OneIsPending'
  <2>1. (\A j \in Invites : invite[j] # NoRow => StatusFits(j)) /\ OneIsPending
    BY <1>4
  <2>2. \A j \in Invites : Pending(j)' => Pending(j)
    BY <1>1, <1>4 DEF Pending
  <2>3. OneIsPending'
    BY <1>1, <2>1, <2>2 DEF OneIsPending
  <2>4. \A j \in Invites : invite'[j] # NoRow => StatusFits(j)'
    BY <1>1, <1>4, <2>1 DEF StatusFits
  <2> QED
    BY <2>3, <2>4
<1> QED
  BY <1>2, <1>3, <1>4

LEMMA InviteEdits ==
  ASSUME NEW row \in Invite
  PROVE  /\ [row EXCEPT !.status = "REVOKED", !.revoked = TRUE] \in Invite
         /\ [row EXCEPT !.status = "EXPIRED"] \in Invite
         /\ [row EXCEPT !.late = TRUE] \in Invite
         /\ [row EXCEPT !.status = "ACCEPTED", !.accepted = TRUE] \in Invite
BY DEF Invite

\* A new invitation, with the outstanding one it found revoked.
LEMMA CreateInvite ==
  ASSUME InvitesInv, NEW d \in Desks, Create(d)
  PROVE  InvitesInv'
<1> USE DEF InvitesInv
<1> DEFINE k == desk[d]
<1>0. /\ invite \in [Invites -> Invite \cup {NoRow}] /\ crossed \in BOOLEAN
      /\ k \in Desk /\ k.op = "create" /\ Sit(d, Vacant) /\ Vacant \in Desk
      /\ UNCHANGED <<member, accountOpen>>
  BY DEF InvitesTypeOK, Create, Desk
<1>1. k.email \in Emails /\ k.outstanding \in Invites \cup {NoRow}
  BY <1>0, InviteDeskShapes
<1>2. PICK n \in Invites :
        /\ invite[n] = NoRow
        /\ invite' = [i \in Invites |->
             IF i = n THEN Fresh(k.email)
             ELSE IF i = k.outstanding
               THEN [invite[i] EXCEPT !.status = "REVOKED", !.revoked = TRUE]
             ELSE invite[i]]
  BY DEF Create
<1>3. /\ Fresh(k.email) \in Invite /\ Fresh(k.email).email = k.email
      /\ Fresh(k.email).status = "PENDING"
      /\ Fresh(k.email).accepted = FALSE /\ Fresh(k.email).revoked = FALSE
  BY <1>1 DEF Fresh, Invite
<1>4. k.outstanding \in Invites => invite[k.outstanding] \in Invite
  BY <1>0, NoRowAssumption, InvitesAreRows DEF InvitesAreSent
<1> HIDE DEF k
<1>5. ASSUME k.outstanding \in Invites
      PROVE  /\ invite'[k.outstanding] \in Invite
             /\ invite'[k.outstanding].status = "REVOKED"
             /\ invite'[k.outstanding].revoked = TRUE
             /\ invite'[k.outstanding].email = invite[k.outstanding].email
             /\ invite'[k.outstanding].accepted = invite[k.outstanding].accepted
  <2>1. k.outstanding # n
    BY <1>2, <1>4, <1>5, InvitesAreRows
  <2>2. invite'[k.outstanding]
          = [invite[k.outstanding] EXCEPT !.status = "REVOKED", !.revoked = TRUE]
    BY <1>2, <1>5, <2>1
  <2> DEFINE old == invite[k.outstanding]
             row == [old EXCEPT !.status = "REVOKED", !.revoked = TRUE]
  <2>3. old \in Invite
    BY <1>4, <1>5
  <2>4. /\ row \in Invite /\ row.status = "REVOKED" /\ row.revoked = TRUE
        /\ row.email = old.email /\ row.accepted = old.accepted
    BY <2>3, InviteEdits DEF Invite
  <2> QED
    BY <2>2, <2>4
<1>6. /\ invite'[n] = Fresh(k.email)
      /\ \A i \in Invites : i # n /\ i # k.outstanding => invite'[i] = invite[i]
  BY <1>2
<1>7. invite' \in [Invites -> Invite \cup {NoRow}]
  <2>1. \A i \in Invites : invite'[i] \in Invite \cup {NoRow}
    BY <1>0, <1>3, <1>5, <1>6
  <2> QED
    BY <1>2, <2>1
<1>8. \A i \in Invites : invite[i] # NoRow => invite'[i] # NoRow /\ invite'[i].email = invite[i].email
                                              /\ invite'[i].accepted = invite[i].accepted
  BY <1>2, <1>5, <1>6, InvitesAreRows
<1>9. InvitesAreSent' /\ desk' \in [Desks -> Desk]
  <2>1. \A m \in member' : m \in member
    BY <1>0
  <2> QED
    BY <1>0, <1>8, <2>1, SentLasts DEF Vacant
<1>10. crossed' = (crossed \/ PendingFor(k.email) # {k.outstanding} \ {NoRow})
  BY DEF Create, k
<1>11. crossed' \in BOOLEAN
  BY <1>0, <1>10
<1>12. InvitesTypeOK'
  BY <1>0, <1>7, <1>9, <1>11 DEF InvitesTypeOK
<1>13. OneUserPerPerson'
  <2>1. \A m, o \in member' : m.email = o.email => m = o
    BY <1>0 DEF OneUserPerPerson
  <2>2. ASSUME NEW i \in Invites, invite'[i] # NoRow
        PROVE  invite'[i].accepted <=> [email |-> invite'[i].email, by |-> i] \in member'
    <3>1. CASE invite[i] # NoRow
      BY <1>0, <1>8, <3>1 DEF OneUserPerPerson
    <3>2. CASE invite[i] = NoRow
      <4>1. i = n
        BY <1>2, <1>4, <1>6, <2>2, <3>2, InvitesAreRows
      <4>2. ~([email |-> k.email, by |-> n] \in member)
        BY <1>2, NoRowAssumption DEF InvitesAreSent
      <4> QED
        BY <1>0, <1>3, <1>6, <4>1, <4>2
    <3> QED
      BY <3>1, <3>2
  <2> QED
    BY <2>1, <2>2 DEF OneUserPerPerson
<1>14. ASSUME ~crossed'
       PROVE  (\A i \in Invites : invite[i] # NoRow => StatusFits(i))' /\ OneIsPending'
  <2>1. /\ \A i \in Invites : invite[i] # NoRow => StatusFits(i)
        /\ OneIsPending
        /\ PendingFor(k.email) = {k.outstanding} \ {NoRow}
    BY <1>10, <1>14
  <2>2. ASSUME NEW i \in Invites, invite'[i] # NoRow
        PROVE  StatusFits(i)'
    <3>1. CASE i = n
      BY <1>3, <1>6, <3>1 DEF StatusFits
    <3>2. CASE i = k.outstanding
      <4>1. invite[i].status = "PENDING" /\ invite[i] # NoRow
        BY <2>1, <3>2, NoRowAssumption, InvitesAreRows DEF PendingFor, Pending
      <4> QED
        BY <1>5, <2>1, <3>2, <4>1 DEF StatusFits
    <3>3. CASE i # n /\ i # k.outstanding
      BY <1>6, <2>1, <2>2, <3>3 DEF StatusFits
    <3> QED
      BY <3>1, <3>2, <3>3
  <2>3. \A i \in Invites : Pending(i)' => i = n \/ (Pending(i) /\ invite'[i] = invite[i]
                                                    /\ invite[i].email # k.email)
    <3> SUFFICES ASSUME NEW i \in Invites, Pending(i)', i # n
                 PROVE  Pending(i) /\ invite'[i] = invite[i] /\ invite[i].email # k.email
      OBVIOUS
    <3>1. i # k.outstanding
      BY <1>5 DEF Pending
    <3>2. invite'[i] = invite[i] /\ Pending(i)
      BY <1>6, <3>1 DEF Pending
    <3> QED
      BY <2>1, <3>1, <3>2 DEF PendingFor
  <2>4. OneIsPending'
    <3> SUFFICES ASSUME NEW i \in Invites, NEW j \in Invites, Pending(i)', Pending(j)',
                        invite'[i].email = invite'[j].email
                 PROVE  i = j
      BY DEF OneIsPending
    <3> QED
      BY <1>3, <1>6, <2>1, <2>3 DEF OneIsPending
  <2> QED
    BY <2>2, <2>4
<1> QED
  BY <1>9, <1>12, <1>13, <1>14

\* The invitation becomes a user, unless there is one with that login.
LEMMA AcceptInvite ==
  ASSUME InvitesInv, NEW d \in Desks, Accept(d)
  PROVE  InvitesInv'
<1> USE DEF InvitesInv
<1>0. /\ invite \in [Invites -> Invite \cup {NoRow}] /\ crossed \in BOOLEAN
      /\ desk[d] \in Desk /\ desk[d].op = "accept" /\ Sit(d, Vacant) /\ Vacant \in Desk
      /\ UNCHANGED accountOpen
  BY DEF InvitesTypeOK, Accept, Desk
<1>1. PICK i \in Invites : i = desk[d].invite /\ invite[i] \in Invite /\ invite[i] # NoRow
  BY <1>0, InviteDeskShapes, InvitesAreRows DEF InvitesAreSent
<1> DEFINE row == [invite[i] EXCEPT !.status = "ACCEPTED", !.accepted = TRUE]
           user == [email |-> invite[i].email, by |-> i]
<1>2. /\ LoginFree(invite[i].email) /\ member' = member \cup {user}
      /\ invite' = [invite EXCEPT ![i] = row]
      /\ crossed' = (crossed \/ ~Pending(i))
  BY <1>0, <1>1 DEF Accept
<1>3. /\ row \in Invite /\ row.email = invite[i].email /\ row.status = "ACCEPTED"
      /\ row.accepted = TRUE /\ row.revoked = invite[i].revoked
  BY <1>1, InviteEdits DEF Invite
<1>4. user \in Member /\ user.email = invite[i].email /\ user.by = i
  BY <1>1 DEF Member, Invite
<1> HIDE DEF row
<1>5. /\ \A j \in Invites : invite'[j] = IF j = i THEN row ELSE invite[j]
      /\ row # NoRow
  BY <1>0, <1>2, <1>3, InvitesAreRows
<1>6. InvitesAreSent' /\ desk' \in [Desks -> Desk]
  BY <1>0, <1>2, <1>4, <1>5, SentLasts DEF Vacant
<1>7. crossed' \in BOOLEAN
  BY <1>0, <1>2
<1>8. InvitesTypeOK'
  BY <1>0, <1>2, <1>3, <1>4, <1>6, <1>7 DEF InvitesTypeOK
<1>9. OneUserPerPerson'
  <2>1. \A m, o \in member' : m.email = o.email => m = o
    BY <1>2, <1>4 DEF OneUserPerPerson, LoginFree
  <2>2. ASSUME NEW j \in Invites, invite'[j] # NoRow
        PROVE  invite'[j].accepted <=> [email |-> invite'[j].email, by |-> j] \in member'
    <3>1. CASE j = i
      BY <1>2, <1>3, <1>5, <3>1
    <3>2. CASE j # i
      <4>1. [email |-> invite[j].email, by |-> j] # user
        BY <1>4, <3>2
      <4> QED
        BY <1>2, <1>5, <2>2, <3>2, <4>1 DEF OneUserPerPerson
    <3> QED
      BY <3>1, <3>2
  <2> QED
    BY <2>1, <2>2 DEF OneUserPerPerson
<1>10. ASSUME ~crossed'
       PROVE  (\A j \in Invites : invite[j] # NoRow => StatusFits(j))' /\ OneIsPending'
  <2>1. /\ \A j \in Invites : invite[j] # NoRow => StatusFits(j)
        /\ OneIsPending /\ Pending(i)
    BY <1>2, <1>10
  <2>2. \A j \in Invites : invite'[j] # NoRow => StatusFits(j)'
    BY <1>1, <1>3, <1>5, <2>1 DEF StatusFits, Pending
  <2>3. OneIsPending'
    BY <1>3, <1>5, <2>1 DEF OneIsPending, Pending
  <2> QED
    BY <2>2, <2>3
<1> QED
  BY <1>6, <1>8, <1>9, <1>10

\* Steps that read, give up, or change neither invitations nor users.
LEMMA DeskMoves ==
  ASSUME InvitesInv, UNCHANGED <<invite, member, crossed>>, accountOpen' \in BOOLEAN,
         InvitesAreSent', desk' \in [Desks -> Desk]
  PROVE  InvitesInv'
<1>1. InvitesTypeOK' /\ OneUserPerPerson'
  BY DEF InvitesInv, InvitesTypeOK, OneUserPerPerson
<1>2. /\ (\A i \in Invites : invite[i] # NoRow => StatusFits(i))
           => (\A i \in Invites : invite[i] # NoRow => StatusFits(i))'
      /\ OneIsPending => OneIsPending'
  BY DEF StatusFits, OneIsPending, Pending
<1> QED
  BY <1>1, <1>2 DEF InvitesInv

LEMMA InvitesStep ==
  ASSUME InvitesInv, [InvitesNext]_inviteVars
  PROVE  InvitesInv'
<1> USE DEF InvitesInv
<1>0. /\ invite \in [Invites -> Invite \cup {NoRow}] /\ desk \in [Desks -> Desk]
      /\ accountOpen \in BOOLEAN /\ crossed \in BOOLEAN /\ Vacant \in Desk
  BY DEF InvitesTypeOK, Desk
<1>1. ASSUME NEW d \in Desks, NEW email \in Emails, BeginCreate(d, email)
      PROVE  InvitesInv'
  <2>1. PICK o \in Invites \cup {NoRow} :
          /\ o # NoRow => invite[o] # NoRow
          /\ Sit(d, [op |-> "create", email |-> email, outstanding |-> o])
    BY <1>1, InvitesAreRows DEF BeginCreate, PendingFor
  <2> DEFINE k == [op |-> "create", email |-> email, outstanding |-> o]
  <2>2. k \in Desk /\ k.op = "create" /\ k.outstanding = o
    BY DEF Desk
  <2>3. UNCHANGED <<invite, member, accountOpen, crossed>>
    BY <1>1 DEF BeginCreate
  <2> HIDE DEF k
  <2>4. InvitesAreSent' /\ desk' \in [Desks -> Desk]
    BY <2>1, <2>2, <2>3, SentLasts DEF k
  <2> QED
    BY <1>0, <2>3, <2>4, DeskMoves
<1>2. ASSUME NEW d \in Desks, NEW i \in Invites, BeginAccept(d, i)
      PROVE  InvitesInv'
  <2>1. PICK op \in {"accept", "expire"} : Sit(d, [op |-> op, invite |-> i])
    BY <1>2 DEF BeginAccept
  <2> DEFINE k == [op |-> op, invite |-> i]
  <2>2. k \in Desk /\ k.op = op /\ k.invite = i
    BY DEF Desk
  <2>3. UNCHANGED <<invite, member, accountOpen, crossed>> /\ invite[i] # NoRow
    BY <1>2, InvitesAreRows DEF BeginAccept
  <2> HIDE DEF k
  <2>4. InvitesAreSent' /\ desk' \in [Desks -> Desk]
    BY <2>1, <2>2, <2>3, SentLasts DEF k
  <2> QED
    BY <1>0, <2>3, <2>4, DeskMoves
<1>3. ASSUME NEW d \in Desks, Drop(d)
      PROVE  InvitesInv'
  <2>1. InvitesAreSent' /\ desk' \in [Desks -> Desk]
    BY <1>0, <1>3, SentLasts DEF Drop, Vacant
  <2> QED
    BY <1>0, <1>3, <2>1, DeskMoves DEF Drop
<1>4. ASSUME NEW d \in Desks, MarkExpired(d)
      PROVE  InvitesInv'
  <2>1. PICK i \in Invites : i = desk[d].invite /\ invite[i] \in Invite /\ invite[i] # NoRow
    BY <1>0, <1>4, InviteDeskShapes, InvitesAreRows DEF MarkExpired, InvitesAreSent
  <2> DEFINE row == [invite[i] EXCEPT !.status = "EXPIRED"]
  <2>2. /\ row \in Invite /\ row.email = invite[i].email /\ row.accepted = invite[i].accepted
        /\ row.revoked = invite[i].revoked /\ row.status = "EXPIRED"
    BY <2>1, InviteEdits DEF Invite
  <2>3. /\ invite' = [invite EXCEPT ![i] = row] /\ UNCHANGED <<member, accountOpen>>
        /\ crossed' = (crossed \/ ~Pending(i)) /\ Sit(d, Vacant)
    BY <1>0, <1>4, <2>1 DEF MarkExpired
  <2> HIDE DEF row
  <2>4. InvitesAreSent' /\ desk' \in [Desks -> Desk]
    BY <1>0, <2>2, <2>3, SentLasts, InvitesAreRows DEF Vacant
  <2>5. crossed' \in BOOLEAN
    BY <1>0, <2>3
  <2>6. ~crossed' => ~crossed /\ Pending(i)
    BY <2>3
  <2>7. ~crossed' => /\ row.accepted <=> row.status = "ACCEPTED"
                     /\ row.revoked <=> row.status = "REVOKED"
    BY <2>1, <2>2, <2>6 DEF StatusFits, Pending
  <2> QED
    BY <1>0, <2>1, <2>2, <2>3, <2>4, <2>5, <2>6, <2>7, WriteInvite
<1>5. ASSUME NEW i \in Invites, RevokeInvite(i)
      PROVE  InvitesInv'
  <2>1. Pending(i) /\ invite[i] \in Invite /\ invite[i] # NoRow
    BY <1>5, InvitesAreRows DEF RevokeInvite
  <2> DEFINE row == [invite[i] EXCEPT !.status = "REVOKED", !.revoked = TRUE]
  <2>2. /\ row \in Invite /\ row.email = invite[i].email /\ row.accepted = invite[i].accepted
        /\ row.revoked = TRUE /\ row.status = "REVOKED"
    BY <2>1, InviteEdits DEF Invite
  <2>3. /\ invite' = [invite EXCEPT ![i] = row]
        /\ UNCHANGED <<member, accountOpen, desk, crossed>>
    BY <1>0, <1>5 DEF RevokeInvite
  <2> HIDE DEF row
  <2>4. InvitesAreSent' /\ desk' \in [Desks -> Desk]
    <3>1. \A j \in Invites : invite'[j] = IF j = i THEN row ELSE invite[j]
      BY <1>0, <2>3
    <3>2. row # NoRow
      BY <2>2, InvitesAreRows
    <3> QED
      BY <1>0, <2>3, <3>1, <3>2, InviteDeskShapes DEF InvitesAreSent, InvitesTypeOK, Member
  <2>5. ~crossed' => row.accepted <=> row.status = "ACCEPTED"
    BY <2>1, <2>2, <2>3 DEF StatusFits, Pending
  <2> QED
    BY <1>0, <2>1, <2>2, <2>3, <2>4, <2>5, WriteInvite
<1>6. ASSUME Happens, UNCHANGED <<desk, crossed>>
      PROVE  InvitesInv'
  <2>1. ASSUME NEW i \in Invites, Pending(i), invite' = [invite EXCEPT ![i].late = TRUE],
               UNCHANGED <<member, accountOpen>>
        PROVE  InvitesInv'
    <3>1. invite[i] \in Invite /\ invite[i] # NoRow
      BY <2>1, InvitesAreRows
    <3> DEFINE row == [invite[i] EXCEPT !.late = TRUE]
    <3>2. /\ row \in Invite /\ row.email = invite[i].email
          /\ row.accepted = invite[i].accepted
          /\ row.revoked = invite[i].revoked /\ row.status = invite[i].status
      BY <3>1, InviteEdits DEF Invite
    <3>3. invite' = [invite EXCEPT ![i] = row]
      BY <1>0, <2>1
    <3> HIDE DEF row
    <3>4. InvitesAreSent' /\ desk' \in [Desks -> Desk]
      <4>1. \A j \in Invites : invite'[j] = IF j = i THEN row ELSE invite[j]
        BY <1>0, <3>3
      <4>2. row # NoRow
        BY <3>2, InvitesAreRows
      <4> QED
        BY <1>0, <1>6, <2>1, <4>1, <4>2, InviteDeskShapes
          DEF InvitesAreSent, InvitesTypeOK, Member
    <3>5. ~crossed' => /\ row.accepted <=> row.status = "ACCEPTED"
                       /\ row.revoked <=> row.status = "REVOKED"
      BY <1>6, <3>1, <3>2 DEF StatusFits
    <3> QED
      BY <1>0, <1>6, <2>1, <3>1, <3>2, <3>3, <3>4, <3>5, WriteInvite
  <2>2. ASSUME accountOpen' = FALSE, UNCHANGED <<invite, member>>
        PROVE  InvitesInv'
    <3>1. InvitesAreSent'
      BY <1>6, <2>2 DEF InvitesAreSent
    <3> QED
      BY <1>0, <1>6, <2>2, <3>1, DeskMoves
  <2>3. ASSUME NEW email \in Emails, LoginFree(email),
               member' = member \cup {[email |-> email, by |-> NoRow]},
               UNCHANGED <<invite, accountOpen>>
        PROVE  InvitesInv'
    <3> DEFINE user == [email |-> email, by |-> NoRow]
    <3>1. user \in Member /\ user.by = NoRow /\ user.email = email
      BY DEF Member
    <3>2. InvitesTypeOK' /\ InvitesAreSent'
      BY <1>6, <2>3, <3>1 DEF InvitesTypeOK, InvitesAreSent
    <3>3. OneUserPerPerson'
      <4>1. \A m, o \in member' : m.email = o.email => m = o
        BY <2>3, <3>1 DEF OneUserPerPerson, LoginFree
      <4>2. \A i \in Invites : [email |-> invite[i].email, by |-> i] # user
        BY <3>1, NoRowAssumption
      <4>3. \A i \in Invites : invite[i] # NoRow =>
              (invite[i].accepted <=> [email |-> invite[i].email, by |-> i] \in member')
        BY <2>3, <4>2 DEF OneUserPerPerson
      <4> QED
        BY <2>3, <4>1, <4>3 DEF OneUserPerPerson
    <3>4. /\ (\A i \in Invites : invite[i] # NoRow => StatusFits(i))
               => (\A i \in Invites : invite[i] # NoRow => StatusFits(i))'
          /\ OneIsPending => OneIsPending'
      BY <2>3 DEF StatusFits, OneIsPending, Pending
    <3> QED
      BY <1>6, <3>2, <3>3, <3>4
  <2> QED
    BY <1>6, <2>1, <2>2, <2>3 DEF Happens
<1>7. CASE UNCHANGED inviteVars
  <2>1. InvitesAreSent' /\ UNCHANGED <<invite, member, crossed, desk, accountOpen>>
    BY <1>7 DEF InvitesAreSent, inviteVars
  <2> QED
    BY <1>0, <2>1, DeskMoves
<1> QED
  BY <1>1, <1>2, <1>3, <1>4, <1>5, <1>6, <1>7, CreateInvite, AcceptInvite DEF InvitesNext

LEMMA InvitesStart == InvitesInit => InvitesInv
<1> SUFFICES ASSUME InvitesInit
             PROVE  InvitesInv
  OBVIOUS
<1>1. InvitesTypeOK
  BY DEF InvitesInit, InvitesTypeOK, Desk
<1>2. InvitesAreSent
  BY DEF InvitesInit, InvitesAreSent, Vacant
<1>3. \A i \in Invites : invite[i] = NoRow /\ ~Pending(i)
  BY DEF InvitesInit, Pending, NoRow
<1>4. OneUserPerPerson
  BY <1>3 DEF InvitesInit, OneUserPerPerson
<1> QED
  BY <1>1, <1>2, <1>3, <1>4 DEF InvitesInv, OneIsPending

LEMMA InvitesAlways == InvitesSpec => []InvitesInv
<1> QED
  BY InvitesStart, InvitesStep, PTL DEF InvitesSpec

(***************************************************************************)
(* Invitations, users and the requests between them keep their shapes      *)
(* (invitation.service.ts).                                                *)
(***************************************************************************)
THEOREM InvitesTypeCorrect == InvitesSpec => []InvitesTypeOK
<1> QED
  BY InvitesAlways, PTL DEF InvitesInv

(***************************************************************************)
(* However many invitations, people and desks: a login is one user, an     *)
(* invitation made at most one, and as long as nobody wrote an invitation  *)
(* that had changed since it was read, its status says what came of it and *)
(* one at most is open per person (invitation.service.ts).                 *)
(***************************************************************************)
THEOREM InvitationsAreTold == InvitesSpec => []InvitationTellsOutcome
<1>1. InvitesInv => InvitationTellsOutcome
  <2> SUFFICES ASSUME InvitesInv, ~crossed, NEW email \in Emails
               PROVE  Cardinality(PendingFor(email)) <= 1
    BY DEF InvitesInv, InvitationTellsOutcome, StatusTellsOutcome, StatusFits
  <2>1. \A i, j \in PendingFor(email) : i = j
    BY DEF InvitesInv, OneIsPending, PendingFor
  <2> QED
    BY <2>1, AtMostOne
<1> QED
  BY <1>1, InvitesAlways, PTL

-----------------------------------------------------------------------------
(***************************************************************************)
(* Staff.                                                                  *)
(***************************************************************************)
\* A manager who will still be one when the request in window w is written.
Remains(w, a) ==
  /\ a \in Managers
  /\ window[w].user = a =>
       /\ window[w].op = "update"
       /\ window[w].dto.role \in {Same, staff[a].role}
       /\ window[w].dto.status # "DISABLED"

\* Only by a grant can a request be turned on its own sender.
Selfward(k) == k.op \in {"grant", "revoke"} /\ k.own
LeavesOne(w) ==
  Takes(window[w]) => Selfward(window[w]) \/ \E a \in People : Remains(w, a)

NothingBegun ==
  /\ \A w \in Windows : window[w] = Shut
  /\ \A g \in Grants : grant[g] = NoGrant
  /\ \A p \in People : ~MayManage(p)

\* Nobody can have been written over since a request was begun: two such
\* requests in flight are what `outdated` records when the first one writes.
Standing ==
  /\ Managers = {} => NothingBegun
  /\ Managers # {} => \A w \in Windows : LeavesOne(w)

OneGrantRow == \A p \in People : \A g, h \in RowsOf(p) : g = h

StaffInv ==
  /\ StaffTypeOK
  /\ ~outdated => OneGrantRow
  /\ ~outdated /\ ~renounced => Standing

LEMMA WindowShapes ==
  ASSUME NEW k \in Window
  PROVE  /\ k.op \in {"shut", "update", "deactivate", "grant", "revoke"}
         /\ k.op = "update" => k.user \in People /\ k.dto \in Change
         /\ k.op = "deactivate" => k.user \in People
         /\ k.op = "grant" => /\ k.user \in People /\ k.effect \in {"ALLOW", "DENY"}
                              /\ k.found \in Grants \cup {NoGrant} /\ k.own \in BOOLEAN
         /\ k.op = "revoke" => k.user \in People /\ k.own \in BOOLEAN
         /\ k = Shut <=> k.op = "shut"
BY DEF Window, Shut

LEMMA ChangeShapes ==
  ASSUME NEW dto \in Change
  PROVE  /\ dto.role \in StaffRoles \cup {Same} /\ dto.detach \in BOOLEAN
         /\ dto.status \in {Same, "ACTIVE", "DISABLED"}
BY DEF Change

LEMMA GrantShapes == NoGrant \notin GrantRow /\ Gone \notin GrantRow
BY DEF NoGrant, Gone, GrantRow

\* Which row a grant is written to, and what it says then.
LEMMA GrantWritten ==
  ASSUME StaffTypeOK, NEW w \in Windows, GrantPermission(w)
  PROVE  \E g \in Grants, row \in GrantRow :
           /\ grant' = [grant EXCEPT ![g] = row]
           /\ row.user = window[w].user /\ row.effect = window[w].effect /\ ~row.lapsed
           /\ \/ window[w].found = NoGrant /\ grant[g] = NoGrant
              \/ g \in RowsOf(window[w].user)
<1> DEFINE k == window[w]
           row == [user |-> k.user, effect |-> k.effect, lapsed |-> FALSE]
<1>1. k \in Window /\ k.op = "grant"
  BY DEF StaffTypeOK, GrantPermission
<1>2. row \in GrantRow
  BY <1>1, WindowShapes DEF GrantRow
<1>3. \E g \in Grants :
        /\ IF k.found = NoGrant THEN grant[g] = NoGrant ELSE g = k.found /\ g \in RowsOf(k.user)
        /\ grant' = [grant EXCEPT ![g] = row]
  BY DEF GrantPermission
<1> QED
  BY <1>2, <1>3

LEMMA StaffTypesStep ==
  ASSUME StaffTypeOK, [StaffNext]_staffVars
  PROVE  StaffTypeOK'
<1>0. /\ staff \in [People -> StaffRow] /\ window \in [Windows -> Window]
      /\ badge \in [People -> StaffRoles \cup {NoBadge}]
      /\ grant \in [Grants -> GrantRow \cup {NoGrant, Gone}]
      /\ outdated \in BOOLEAN /\ renounced \in BOOLEAN /\ Shut \in Window
  BY DEF StaffTypeOK, Window
<1>1. ASSUME NEW p \in People, SignIn(p) \/ TokenExpires(p)
      PROVE  StaffTypeOK'
  BY <1>0, <1>1 DEF SignIn, TokenExpires, StaffTypeOK, StaffRow
<1>2. ASSUME NEW w \in Windows, NEW actor \in People, NEW p \in People,
             NEW dto \in Change, BeginUpdateUser(w, actor, p, dto)
      PROVE  StaffTypeOK'
  <2>1. [op |-> "update", user |-> p, dto |-> dto] \in Window
    BY DEF Window
  <2> QED
    BY <1>0, <1>2, <2>1 DEF BeginUpdateUser, Await, StaffTypeOK
<1>3. ASSUME NEW w \in Windows, NEW actor \in People, NEW p \in People,
             BeginDeactivateUser(w, actor, p)
      PROVE  StaffTypeOK'
  <2>1. [op |-> "deactivate", user |-> p] \in Window
    BY DEF Window
  <2> QED
    BY <1>0, <1>3, <2>1 DEF BeginDeactivateUser, Await, StaffTypeOK
<1>4. ASSUME NEW w \in Windows, NEW actor \in People, NEW p \in People,
             NEW effect \in {"ALLOW", "DENY"}, BeginGrant(w, actor, p, effect)
      PROVE  StaffTypeOK'
  <2>1. PICK g \in Grants \cup {NoGrant} :
          Await(w, [op |-> "grant", user |-> p, effect |-> effect, found |-> g,
                    own |-> p = actor])
    BY <1>4 DEF BeginGrant, RowsOf
  <2>2. (p = actor) \in BOOLEAN
    OBVIOUS
  <2>3. [op |-> "grant", user |-> p, effect |-> effect, found |-> g,
         own |-> p = actor] \in Window
    BY <2>2 DEF Window
  <2> QED
    BY <1>0, <1>4, <2>1, <2>3 DEF BeginGrant, Await, StaffTypeOK
<1>5. ASSUME NEW w \in Windows, NEW actor \in People, NEW p \in People,
             BeginRevokeGrant(w, actor, p)
      PROVE  StaffTypeOK'
  <2>1. (p = actor) \in BOOLEAN
    OBVIOUS
  <2>2. [op |-> "revoke", user |-> p, own |-> p = actor] \in Window
    BY <2>1 DEF Window
  <2> QED
    BY <1>0, <1>5, <2>2 DEF BeginRevokeGrant, Await, StaffTypeOK
<1>6. ASSUME NEW w \in Windows, UpdateUser(w)
      PROVE  StaffTypeOK'
  <2>1. window[w].user \in People /\ window[w].dto \in Change
    BY <1>0, <1>6, WindowShapes DEF UpdateUser
  <2> DEFINE row == staff[window[w].user]
             dto == window[w].dto
             new == [row EXCEPT !.role = IF dto.role = Same THEN @ ELSE dto.role,
                                !.status = IF dto.status = Same THEN @ ELSE dto.status,
                                !.site = @ /\ ~dto.detach]
  <2>3. row \in StaffRow
    BY <1>0, <2>1
  <2>4. /\ (IF dto.role = Same THEN row.role ELSE dto.role) \in StaffRoles
        /\ (IF dto.status = Same THEN row.status ELSE dto.status) \in {"ACTIVE", "DISABLED"}
        /\ (row.site /\ ~dto.detach) \in BOOLEAN
    BY <2>1, <2>3, ChangeShapes DEF StaffRow
  <2>5. new \in StaffRow
    BY <2>3, <2>4 DEF StaffRow
  <2>6. staff' = [staff EXCEPT ![window[w].user] = new]
    BY <1>6 DEF UpdateUser
  <2>2. staff' \in [People -> StaffRow]
    BY <1>0, <2>1, <2>5, <2>6
  <2> QED
    BY <1>0, <1>6, <2>2 DEF UpdateUser, Await, StaffTypeOK
<1>7. ASSUME NEW w \in Windows, DeactivateUser(w)
      PROVE  StaffTypeOK'
  <2>1. window[w].user \in People
    BY <1>0, <1>7, WindowShapes DEF DeactivateUser
  <2>2. staff' \in [People -> StaffRow]
    BY <1>0, <1>7, <2>1 DEF DeactivateUser, StaffRow
  <2> QED
    BY <1>0, <1>7, <2>2 DEF DeactivateUser, Await, StaffTypeOK
<1>8. ASSUME NEW w \in Windows, GrantPermission(w)
      PROVE  StaffTypeOK'
  <2>1. grant' \in [Grants -> GrantRow \cup {NoGrant, Gone}]
    BY <1>0, <1>8, GrantWritten
  <2>2. outdated' \in BOOLEAN /\ renounced' \in BOOLEAN /\ UNCHANGED <<staff, badge>>
    BY <1>8 DEF GrantPermission
  <2>3. Await(w, Shut)
    BY <1>8 DEF GrantPermission
  <2> QED
    BY <1>0, <2>1, <2>2, <2>3 DEF Await, StaffTypeOK
<1>9. ASSUME NEW w \in Windows, RevokeGrant(w)
      PROVE  StaffTypeOK'
  <2>1. grant' \in [Grants -> GrantRow \cup {NoGrant, Gone}]
    BY <1>0, <1>9 DEF RevokeGrant
  <2>2. outdated' \in BOOLEAN /\ renounced' \in BOOLEAN /\ UNCHANGED <<staff, badge>>
    BY <1>9 DEF RevokeGrant
  <2>3. Await(w, Shut)
    BY <1>9 DEF RevokeGrant
  <2> QED
    BY <1>0, <2>1, <2>2, <2>3 DEF Await, StaffTypeOK
<1>10. ASSUME NEW g \in Grants, GrantLapses(g)
       PROVE  StaffTypeOK'
  <2>1. [grant[g] EXCEPT !.lapsed = TRUE] \in GrantRow
    BY <1>0, <1>10 DEF GrantLapses, GrantRow
  <2> QED
    BY <1>0, <1>10, <2>1 DEF GrantLapses, StaffTypeOK
<1>11. ASSUME NEW w \in Windows, GiveUp(w)
       PROVE  StaffTypeOK'
  BY <1>0, <1>11 DEF GiveUp, Await, StaffTypeOK
<1>12. CASE UNCHANGED staffVars
  BY <1>12 DEF staffVars, StaffTypeOK
<1> QED
  BY <1>1, <1>2, <1>3, <1>4, <1>5, <1>6, <1>7, <1>8, <1>9, <1>10, <1>11, <1>12 DEF StaffNext

\* What was once the case is remembered, and three steps write grants.
LEMMA HistoryLasts ==
  ASSUME StaffTypeOK, [StaffNext]_staffVars
  PROVE  /\ ~outdated' => ~outdated
         /\ ~renounced' => ~renounced
         /\ \/ UNCHANGED grant
            \/ \E w \in Windows : GrantPermission(w) \/ RevokeGrant(w)
            \/ \E g \in Grants : GrantLapses(g)
<1> DEFINE Fine == /\ ~outdated' => ~outdated
                   /\ ~renounced' => ~renounced
<1>0. outdated \in BOOLEAN /\ renounced \in BOOLEAN
  BY DEF StaffTypeOK
<1>1. ASSUME NEW p \in People, SignIn(p) \/ TokenExpires(p)
      PROVE  Fine /\ UNCHANGED grant
  BY <1>1 DEF SignIn, TokenExpires
<1>2. ASSUME NEW w \in Windows, NEW actor \in People, NEW p \in People,
             \/ \E dto \in Change : BeginUpdateUser(w, actor, p, dto)
             \/ BeginDeactivateUser(w, actor, p)
             \/ \E effect \in {"ALLOW", "DENY"} : BeginGrant(w, actor, p, effect)
             \/ BeginRevokeGrant(w, actor, p)
      PROVE  Fine /\ UNCHANGED grant
  BY <1>0, <1>2 DEF BeginUpdateUser, BeginDeactivateUser, BeginGrant, BeginRevokeGrant
<1>3. ASSUME NEW w \in Windows, UpdateUser(w) \/ DeactivateUser(w) \/ GiveUp(w)
      PROVE  Fine /\ UNCHANGED grant
  BY <1>0, <1>3 DEF UpdateUser, DeactivateUser, GiveUp
<1>4. ASSUME NEW w \in Windows, GrantPermission(w) \/ RevokeGrant(w)
      PROVE  Fine
  BY <1>0, <1>4 DEF GrantPermission, RevokeGrant
<1>5. ASSUME NEW g \in Grants, GrantLapses(g)
      PROVE  Fine
  BY <1>0, <1>5 DEF GrantLapses
<1>6. ASSUME UNCHANGED staffVars
      PROVE  Fine /\ UNCHANGED grant
  BY <1>6 DEF staffVars
<1> QED
  BY <1>1, <1>2, <1>3, <1>4, <1>5, <1>6 DEF StaffNext

\* A row that is lost, changed or renewed is a user's own; a new one is written
\* for a user who has none, or `outdated` says so.
LEMMA OneRowStep ==
  ASSUME StaffTypeOK, ~outdated => OneGrantRow, [StaffNext]_staffVars
  PROVE  ~outdated' => OneGrantRow'
<1>1. SUFFICES ASSUME ~outdated'
               PROVE  OneGrantRow'
  OBVIOUS
<1>2. ~outdated
  BY <1>1, HistoryLasts
<1>3. OneGrantRow
  BY <1>2
<1>4. CASE UNCHANGED grant
  BY <1>3, <1>4 DEF OneGrantRow, RowsOf
<1>5. ASSUME NEW w \in Windows, GrantPermission(w)
      PROVE  OneGrantRow'
  <2>1. PICK g \in Grants, row \in GrantRow :
          /\ grant' = [grant EXCEPT ![g] = row] /\ row.user = window[w].user
          /\ window[w].found = NoGrant \/ g \in RowsOf(window[w].user)
    BY <1>5, GrantWritten
  <2>2. g \in RowsOf(window[w].user) \/ RowsOf(window[w].user) = {}
    BY <1>1, <1>5, <2>1 DEF GrantPermission
  <2>3. window[w].user \in People
    BY <1>5, WindowShapes DEF StaffTypeOK, GrantPermission
  <2>4. \A x \in Grants : grant'[x] = IF x = g THEN row ELSE grant[x]
    BY <2>1 DEF StaffTypeOK
  <2>5. ASSUME NEW p \in People, NEW x \in RowsOf(p)'
        PROVE  IF p = window[w].user THEN x = g ELSE x \in RowsOf(p)
    BY <1>3, <2>1, <2>2, <2>3, <2>4 DEF OneGrantRow, RowsOf
  <2> QED
    BY <1>3, <2>3, <2>5 DEF OneGrantRow
<1>6. ASSUME NEW w \in Windows, RevokeGrant(w)
      PROVE  OneGrantRow'
  BY <1>3, <1>6 DEF RevokeGrant, OneGrantRow, RowsOf
<1>7. ASSUME NEW g \in Grants, GrantLapses(g)
      PROVE  OneGrantRow'
  <2>1. grant[g] \in GrantRow /\ grant' = [grant EXCEPT ![g] = [grant[g] EXCEPT !.lapsed = TRUE]]
    BY <1>7 DEF GrantLapses, StaffTypeOK
  <2>2. \A x \in Grants : grant'[x] = IF x = g THEN [grant[g] EXCEPT !.lapsed = TRUE] ELSE grant[x]
    BY <2>1 DEF StaffTypeOK
  <2>3. [grant[g] EXCEPT !.lapsed = TRUE].user = grant[g].user
    BY <2>1 DEF GrantRow
  <2>4. \A p \in People : RowsOf(p)' \subseteq RowsOf(p)
    BY <2>1, <2>2, <2>3, GrantShapes DEF RowsOf
  <2> QED
    BY <1>3, <2>4 DEF OneGrantRow
<1> QED
  BY <1>4, <1>5, <1>6, <1>7, HistoryLasts

\* Somebody whose token is good and lets them manage is a manager.
LEMMA GoodTokenManages ==
  ASSUME StaffTypeOK, NEW a \in People, MayManage(a), ~Stale(a)
  PROVE  a \in Managers /\ badge[a] = staff[a].role
BY DEF MayManage, Stale, Managers

\* The people are as they were and no manager is lost; a request that was begun
\* leaves one.
LEMMA StandingLasts ==
  ASSUME Standing, Managers # {}, UNCHANGED staff, Managers \subseteq Managers',
         \A w \in Windows : \/ window'[w] = window[w]
                            \/ ~Takes(window'[w])
                            \/ LeavesOne(w)'
  PROVE  Standing'
<1>1. ASSUME NEW w \in Windows, window'[w] = window[w]
      PROVE  LeavesOne(w)'
  <2>1. \A a \in People : Remains(w, a) => Remains(w, a)'
    BY <1>1 DEF Remains
  <2> QED
    BY <1>1, <2>1 DEF Standing, LeavesOne
<1> QED
  BY <1>1 DEF Standing, LeavesOne

\* A request is decided, by somebody whose token tells the truth.
LEMMA StandingBegins ==
  ASSUME StaffTypeOK, Standing, NEW w \in Windows, NEW actor \in People,
         MayManage(actor), ~Stale(actor), UNCHANGED <<staff, grant>>,
         NEW k \in Window, Await(w, k),
         \/ ~Takes(k)
         \/ Selfward(k)
         \/ k.user # actor
         \/ /\ k.op = "update" /\ k.dto.role \in {Same, badge[actor]}
            /\ k.dto.status # "DISABLED"
  PROVE  Standing'
<1>1. actor \in Managers /\ badge[actor] = staff[actor].role
  BY GoodTokenManages
<1>2. Managers' = Managers
  BY DEF Managers, Working, HoldsManage, Told, RowsOf
<1>3. /\ \A v \in Windows \ {w} : window'[v] = window[v]
      /\ window'[w] = k
  BY DEF StaffTypeOK, Await
<1>4. ~Takes(window'[w]) \/ LeavesOne(w)'
  BY <1>1, <1>2, <1>3 DEF LeavesOne, Remains, Takes, Selfward
<1> QED
  BY <1>1, <1>2, <1>3, <1>4, StandingLasts

\* A request against somebody is written.  Any other such request in flight
\* makes the write outdated; the manager who remains is one still.
LEMMA StandingWritten ==
  ASSUME StaffTypeOK, Standing, NEW w \in Windows, Takes(window[w]), ~Selfward(window[w]),
         ~Overtaken(w), Await(w, Shut),
         \A a \in People : Remains(w, a) => a \in Managers'
  PROVE  Standing'
<1>1. \A v \in Windows : window'[v] = IF v = w THEN Shut ELSE window[v]
  BY DEF StaffTypeOK, Await
<1>2. \A v \in Windows : ~Takes(window'[v])
  BY <1>1 DEF Overtaken, Takes, Shut
<1>3. Managers # {}
  BY DEF Standing, NothingBegun, Takes, Shut
<1>4. PICK a \in People : Remains(w, a)
  BY <1>3 DEF Standing, LeavesOne
<1> QED
  BY <1>2, <1>4 DEF Standing, LeavesOne

\* What somebody may do changes with their own rows alone.
LEMMA OthersKeepTheirRows ==
  ASSUME UNCHANGED staff, NEW p, NEW a \in People, a # p,
         \A g \in Grants : \/ grant'[g] = grant[g]
                           \/ g \in RowsOf(p) /\ (grant'[g] = Gone \/ grant'[g].user = p)
                           \/ grant[g] = NoGrant /\ grant'[g].user = p
  PROVE  a \in Managers => a \in Managers'
<1>1. \A g \in Grants : grant'[g] # grant[g] => g \notin RowsOf(a) /\ g \notin RowsOf(a)'
  BY DEF RowsOf
<1>2. \A effect \in {"ALLOW", "DENY"} : Told(a, effect)' <=> Told(a, effect)
  BY <1>1 DEF Told, RowsOf
<1> QED
  BY <1>2 DEF Managers, Working, HoldsManage

LEMMA StandingStep ==
  ASSUME StaffTypeOK, StaffTypeOK', ~outdated /\ ~renounced => Standing,
         [StaffNext]_staffVars, ~outdated', ~renounced'
  PROVE  Standing'
<1>0. /\ staff \in [People -> StaffRow] /\ window \in [Windows -> Window]
      /\ badge \in [People -> StaffRoles \cup {NoBadge}]
      /\ grant \in [Grants -> GrantRow \cup {NoGrant, Gone}]
  BY DEF StaffTypeOK
<1>1. ~outdated /\ ~renounced
  BY HistoryLasts
<1>2. Standing
  BY <1>1
<1>3. ASSUME UNCHANGED <<staff, grant>>
      PROVE  /\ Managers' = Managers
             /\ \A p \in People, role \in StaffRoles : HoldsManage(role, p)' <=> HoldsManage(role, p)
  BY <1>3 DEF Managers, Working, HoldsManage, Told, RowsOf
<1>4. \A v \in Windows : window[v] # Shut => Managers # {}
  BY <1>2 DEF Standing, NothingBegun
<1>5. ASSUME NEW p \in People, SignIn(p) \/ TokenExpires(p)
      PROVE  Standing'
  <2>1. UNCHANGED <<staff, grant, window>> /\ Managers' = Managers
    BY <1>3, <1>5 DEF SignIn, TokenExpires
  <2>2. CASE Managers # {}
    BY <1>2, <2>1, <2>2, StandingLasts
  <2>3. ASSUME Managers = {}, NEW q \in People
        PROVE  ~MayManage(q)'
    <3>1. ~MayManage(q)
      BY <1>2, <2>3 DEF Standing, NothingBegun
    <3>2. CASE badge'[q] \in {badge[q], NoBadge}
      BY <1>0, <1>3, <2>1, <3>1, <3>2 DEF MayManage, HoldsManage, Told, RowsOf
    <3>3. CASE badge'[q] = staff[q].role /\ Working(q)
      BY <2>1, <2>3, <3>3 DEF MayManage, Managers, HoldsManage, Told, RowsOf
    <3> QED
      BY <1>0, <1>5, <3>2, <3>3 DEF SignIn, TokenExpires
  <2> QED
    BY <1>2, <2>1, <2>2, <2>3 DEF Standing, NothingBegun
<1>6. ASSUME NEW w \in Windows, NEW actor \in People, NEW p \in People,
             NEW dto \in Change, BeginUpdateUser(w, actor, p, dto)
      PROVE  Standing'
  <2> DEFINE k == [op |-> "update", user |-> p, dto |-> dto]
  <2>1. k \in Window /\ k.op = "update" /\ k.user = p /\ k.dto = dto
    BY DEF Window
  <2>2. /\ MayManage(actor) /\ ~Stale(actor) /\ UNCHANGED <<staff, grant>> /\ Await(w, k)
        /\ assertNotSelfDemotion(p, dto, actor)
    BY <1>6 DEF BeginUpdateUser
  <2> HIDE DEF k
  <2> QED
    BY <1>2, <2>1, <2>2, StandingBegins DEF assertNotSelfDemotion
<1>7. ASSUME NEW w \in Windows, NEW actor \in People, NEW p \in People,
             BeginDeactivateUser(w, actor, p)
      PROVE  Standing'
  <2> DEFINE k == [op |-> "deactivate", user |-> p]
  <2>1. k \in Window /\ k.user = p
    BY DEF Window
  <2>2. /\ MayManage(actor) /\ ~Stale(actor) /\ UNCHANGED <<staff, grant>> /\ Await(w, k)
        /\ p # actor
    BY <1>7 DEF BeginDeactivateUser
  <2> HIDE DEF k
  <2> QED
    BY <1>2, <2>1, <2>2, StandingBegins
<1>8. ASSUME NEW w \in Windows, NEW actor \in People, NEW p \in People,
             NEW effect \in {"ALLOW", "DENY"}, BeginGrant(w, actor, p, effect)
      PROVE  Standing'
  <2>1. PICK g : Await(w, [op |-> "grant", user |-> p, effect |-> effect, found |-> g,
                           own |-> p = actor])
    BY <1>8 DEF BeginGrant
  <2> DEFINE k == [op |-> "grant", user |-> p, effect |-> effect, found |-> g,
                   own |-> p = actor]
  <2>2. k.op = "grant" /\ k.user = p /\ (k.own <=> p = actor)
    OBVIOUS
  <2>3. /\ MayManage(actor) /\ ~Stale(actor) /\ UNCHANGED <<staff, grant>> /\ Await(w, k)
    BY <1>8, <2>1 DEF BeginGrant
  <2>4. k \in Window
    <3>1. window'[w] = k /\ window'[w] \in Window
      BY <1>0, <2>1 DEF Await, StaffTypeOK
    <3> QED
      BY <3>1
  <2> HIDE DEF k
  <2> QED
    BY <1>2, <2>2, <2>3, <2>4, StandingBegins DEF Selfward
<1>9. ASSUME NEW w \in Windows, NEW actor \in People, NEW p \in People,
             BeginRevokeGrant(w, actor, p)
      PROVE  Standing'
  <2> DEFINE k == [op |-> "revoke", user |-> p, own |-> p = actor]
  <2>1. k.op = "revoke" /\ k.user = p /\ (k.own <=> p = actor)
    OBVIOUS
  <2>2. /\ MayManage(actor) /\ ~Stale(actor) /\ UNCHANGED <<staff, grant>> /\ Await(w, k)
    BY <1>9 DEF BeginRevokeGrant
  <2>3. k \in Window
    <3>1. window'[w] = k /\ window'[w] \in Window
      BY <1>0, <2>2 DEF Await, StaffTypeOK
    <3> QED
      BY <3>1
  <2> HIDE DEF k
  <2> QED
    BY <1>2, <2>1, <2>2, <2>3, StandingBegins DEF Selfward
<1>10. ASSUME NEW w \in Windows, UpdateUser(w)
       PROVE  Standing'
  <2> DEFINE k == window[w]
             p == window[w].user
             row == [staff[p] EXCEPT
                       !.role = IF k.dto.role = Same THEN @ ELSE k.dto.role,
                       !.status = IF k.dto.status = Same THEN @ ELSE k.dto.status,
                       !.site = @ /\ ~k.dto.detach]
  <2>1. /\ k.op = "update" /\ p \in People /\ k.dto \in Change /\ staff[p] \in StaffRow
        /\ staff' = [staff EXCEPT ![p] = row] /\ UNCHANGED grant
        /\ ~Overtaken(w) /\ Await(w, Shut)
    BY <1>0, <1>10, WindowShapes DEF UpdateUser
  <2>2. /\ row.external = staff[p].external /\ row.deleted = staff[p].deleted
        /\ row.role = IF k.dto.role = Same THEN staff[p].role ELSE k.dto.role
        /\ row.status = IF k.dto.status = Same THEN staff[p].status ELSE k.dto.status
    BY <2>1 DEF StaffRow
  <2>3. k.dto.status \in {Same, "ACTIVE", "DISABLED"}
    BY <2>1, ChangeShapes
  <2> HIDE DEF row
  <2>4. ASSUME NEW a \in People, Remains(w, a)
        PROVE  a \in Managers'
    <3>1. staff'[a] = IF a = p THEN row ELSE staff[a]
      BY <1>0, <2>1
    <3>2. /\ staff'[a].external = staff[a].external /\ staff'[a].deleted = staff[a].deleted
          /\ staff'[a].role = staff[a].role /\ staff'[a].status = "ACTIVE"
      BY <2>2, <2>3, <2>4, <3>1 DEF Remains, Managers, Working
    <3> QED
      BY <2>1, <2>4, <3>2 DEF Remains, Managers, Working, HoldsManage, Told, RowsOf
  <2> QED
    BY <1>2, <2>1, <2>4, StandingWritten DEF Takes, Selfward
<1>11. ASSUME NEW w \in Windows, DeactivateUser(w)
       PROVE  Standing'
  <2>1. /\ window[w].op = "deactivate" /\ ~Overtaken(w) /\ Await(w, Shut) /\ UNCHANGED grant
        /\ \A a \in People : a # window[w].user => staff'[a] = staff[a]
    BY <1>0, <1>11 DEF DeactivateUser
  <2>2. ASSUME NEW a \in People, Remains(w, a)
        PROVE  a \in Managers'
    BY <2>1, <2>2 DEF Remains, Managers, Working, HoldsManage, Told, RowsOf
  <2> QED
    BY <1>2, <2>1, <2>2, StandingWritten DEF Takes, Selfward
<1>12. ASSUME NEW w \in Windows, GrantPermission(w)
       PROVE  Standing'
  <2> DEFINE k == window[w]
  <2>1. PICK g \in Grants, row \in GrantRow :
          /\ grant' = [grant EXCEPT ![g] = row]
          /\ row.user = k.user /\ row.effect = k.effect /\ ~row.lapsed
          /\ (k.found = NoGrant /\ grant[g] = NoGrant) \/ g \in RowsOf(k.user)
    BY <1>12, GrantWritten
  <2>2. /\ k.op = "grant" /\ Await(w, Shut) /\ UNCHANGED staff
        /\ k.effect = "DENY" => ~Overtaken(w) /\ ~k.own
    BY <1>12 DEF GrantPermission
  <2>3. k.user \in People /\ k.effect \in {"ALLOW", "DENY"}
    BY <1>0, <2>2, WindowShapes
  <2>4. \A x \in Grants : grant'[x] = IF x = g THEN row ELSE grant[x]
    BY <1>0, <2>1
  <2>5. \A a \in People : a # k.user /\ a \in Managers => a \in Managers'
    BY <2>1, <2>2, <2>4, OthersKeepTheirRows
  <2>6. CASE k.effect = "DENY"
    <3>1. Takes(k) /\ ~Selfward(k)
      BY <2>2, <2>6 DEF Takes, Selfward
    <3>2. \A a \in People : Remains(w, a) => a \in Managers'
      BY <2>2, <2>5 DEF Remains
    <3> QED
      BY <1>2, <2>2, <2>6, <3>1, <3>2, StandingWritten
  <2>7. CASE k.effect = "ALLOW"
    <3>1. k.user \in Managers => k.user \in Managers'
      <4>0. PICK p \in People : p = k.user
        BY <2>3
      <4>1. Told(p, "ALLOW")'
        BY <2>1, <2>4, <2>7, <4>0, GrantShapes DEF Told, RowsOf
      <4>2. Told(p, "DENY")' => Told(p, "DENY")
        BY <2>1, <2>4, <2>7, <4>0 DEF Told, RowsOf
      <4>3. p \in Managers => p \in Managers'
        BY <2>2, <4>1, <4>2 DEF Managers, Working, HoldsManage
      <4> QED
        BY <4>0, <4>3
    <3>2. Managers \subseteq Managers'
      BY <2>5, <3>1 DEF Managers
    <3>3. \A v \in Windows : window'[v] = window[v] \/ ~Takes(window'[v])
      BY <1>0, <2>2 DEF Await, Takes, Shut
    <3>4. Managers # {}
      BY <1>4, <2>2 DEF Shut
    <3> QED
      BY <1>2, <2>2, <3>2, <3>3, <3>4, StandingLasts
  <2> QED
    BY <2>3, <2>6, <2>7
<1>13. ASSUME NEW w \in Windows, RevokeGrant(w)
       PROVE  Standing'
  <2>1. /\ window[w].op = "revoke" /\ ~Overtaken(w) /\ Await(w, Shut) /\ UNCHANGED staff
        /\ ~window[w].own
        /\ \A g \in Grants : grant'[g] = IF g \in RowsOf(window[w].user) THEN Gone ELSE grant[g]
    BY <1>13 DEF RevokeGrant
  <2>2. \A a \in People : a # window[w].user /\ a \in Managers => a \in Managers'
    BY <2>1, OthersKeepTheirRows
  <2>3. \A a \in People : Remains(w, a) => a \in Managers'
    BY <2>1, <2>2 DEF Remains
  <2> QED
    BY <1>2, <2>1, <2>3, StandingWritten DEF Takes, Selfward
<1>14. ASSUME NEW g \in Grants, GrantLapses(g)
       PROVE  Standing'
  <2>1. /\ grant[g] \in GrantRow /\ UNCHANGED <<staff, window>>
        /\ grant' = [grant EXCEPT ![g] = [grant[g] EXCEPT !.lapsed = TRUE]]
        /\ grant[g].effect # "ALLOW" /\ grant[g] # NoGrant
    BY <1>0, <1>14 DEF GrantLapses
  <2> DEFINE row == [grant[g] EXCEPT !.lapsed = TRUE]
  <2>2. row.user = grant[g].user /\ row.effect = grant[g].effect /\ row.lapsed
    BY <2>1 DEF GrantRow
  <2>3. \A x \in Grants : grant'[x] = IF x = g THEN row ELSE grant[x]
    BY <1>0, <2>1
  <2> HIDE DEF row
  <2>4. ASSUME NEW a \in People
        PROVE  /\ Told(a, "ALLOW") => Told(a, "ALLOW")'
               /\ Told(a, "DENY")' => Told(a, "DENY")
    BY <2>1, <2>2, <2>3 DEF Told, RowsOf
  <2>5. Managers \subseteq Managers'
    BY <2>1, <2>4 DEF Managers, Working, HoldsManage
  <2>6. Managers # {}
    BY <1>2, <2>1 DEF Standing, NothingBegun
  <2> QED
    BY <1>2, <2>1, <2>5, <2>6, StandingLasts
<1>15. ASSUME NEW w \in Windows, GiveUp(w)
       PROVE  Standing'
  <2>1. Managers' = Managers /\ Managers # {} /\ UNCHANGED staff
    BY <1>3, <1>4, <1>15 DEF GiveUp
  <2>2. \A v \in Windows : window'[v] = window[v] \/ ~Takes(window'[v])
    BY <1>0, <1>15 DEF GiveUp, Await, Takes, Shut
  <2> QED
    BY <1>2, <2>1, <2>2, StandingLasts
<1>16. CASE UNCHANGED staffVars
  <2>1. UNCHANGED <<staff, grant, badge, window>> /\ Managers' = Managers
    BY <1>3, <1>16 DEF staffVars
  <2>2. \A p \in People : MayManage(p)' <=> MayManage(p)
    BY <2>1 DEF MayManage, HoldsManage, Told, RowsOf
  <2> QED
    BY <1>2, <2>1, <2>2, StandingLasts DEF Standing, NothingBegun
<1> QED
  BY <1>5, <1>6, <1>7, <1>8, <1>9, <1>10, <1>11, <1>12, <1>13, <1>14, <1>15, <1>16 DEF StaffNext

LEMMA StaffStep ==
  ASSUME StaffInv, [StaffNext]_staffVars
  PROVE  StaffInv'
BY StaffTypesStep, OneRowStep, StandingStep DEF StaffInv

LEMMA StaffStart == StaffInit => StaffInv
<1> SUFFICES ASSUME StaffInit
             PROVE  StaffInv
  OBVIOUS
<1>1. StaffTypeOK
  BY DEF StaffInit, StaffTypeOK, StaffRow, Window
<1>2. OneGrantRow
  BY DEF StaffInit, OneGrantRow, RowsOf
<1>3. NothingBegun /\ \A w \in Windows : LeavesOne(w)
  BY DEF StaffInit, NothingBegun, MayManage, LeavesOne, Takes, Shut
<1> QED
  BY <1>1, <1>2, <1>3 DEF StaffInv, Standing

LEMMA StaffAlways == StaffSpec => []StaffInv
<1> QED
  BY StaffStart, StaffStep, PTL DEF StaffSpec

(***************************************************************************)
(* Users, their grants and the requests against them keep their shapes     *)
(* (users.service.ts).                                                     *)
(***************************************************************************)
THEOREM StaffTypeCorrect == StaffSpec => []StaffTypeOK
<1> QED
  BY StaffAlways, PTL DEF StaffInv

(***************************************************************************)
(* With any number of people, roles, grants and requests: whatever the     *)
(* managers of an account allow, deny, take back, demote or remove, one of *)
(* them is left, as long as every token that was acted on told the truth,  *)
(* no two were at work at once, nobody turned a grant on themself and none *)
(* they lived by ran out (users.service.ts, permission.service.ts).        *)
(***************************************************************************)
THEOREM AManagerIsLeft == StaffSpec => []SomebodyManages
<1>1. StaffInv => SomebodyManages
  BY DEF StaffInv, Standing, NothingBegun, SomebodyManages
<1> QED
  BY <1>1, StaffAlways, PTL

(***************************************************************************)
(* And each permission of a user is one row (grant, users.service.ts).     *)
(***************************************************************************)
THEOREM GrantsAreOneRow == StaffSpec => []OneGrantPerUser
<1>1. StaffInv => OneGrantPerUser
  BY AtMostOne DEF StaffInv, OneGrantRow, OneGrantPerUser
<1> QED
  BY <1>1, StaffAlways, PTL

-----------------------------------------------------------------------------
(***************************************************************************)
(* Sites, addresses and settings.                                          *)
(***************************************************************************)
\* An address is a site's, and so is one that is being added; the defaults it
\* is to replace are addresses.
SitesAreKept ==
  /\ \A a \in Addresses : address[a] # NoAddress => site[address[a].site] # NoSite
  /\ \A c \in Clerks : clerk[c].op = "address" =>
       /\ site[clerk[c].site] # NoSite
       /\ \A a \in clerk[c].defaults : address[a] # NoAddress

\* No site bears the name of none, so that the look-up of a code finds it.
CodesApart ==
  \A s, t \in Sites : site[s] # NoSite /\ site[s].code = site[t].code => s = t

OneDefault ==
  \A s \in Sites, kind \in {"BILLING", "SHIPPING"} :
    \A a, b \in DefaultsOf(s, kind) : a = b

OneAddressClerk ==
  /\ \A c, d \in Clerks : clerk[c].op = "address" /\ clerk[d].op = "address" => c = d
  /\ \A c \in Clerks : clerk[c].op = "address" =>
       clerk[c].defaults = DefaultsOf(clerk[c].site, clerk[c].kind)

AtSettings == {"settings", "record"}

OneSettingsClerk ==
  \A c, d \in Clerks : clerk[c].op \in AtSettings /\ clerk[d].op \in AtSettings => c = d

\* The trail lags behind the settings by what the one clerk has to record.
TrailFollows ==
  /\ \A c \in Clerks :
       /\ clerk[c].op = "settings" =>
            /\ trail = setting
            /\ \A f \in Fields : clerk[c].before[f] = setting[f].value
       /\ clerk[c].op = "record" =>
            \A f \in Fields : setting[f] = IF f \in DOMAIN clerk[c].diff
                                           THEN SettingOf(clerk[c].diff[f], clerk[c].by)
                                           ELSE trail[f]
  /\ (\A c \in Clerks : clerk[c].op \notin AtSettings) => trail = setting

OrganisationInv ==
  /\ OrganisationTypeOK /\ SitesAreKept /\ CodesApart
  /\ ~hurried => /\ OneDefault /\ OneAddressClerk
                 /\ OneSettingsClerk /\ TrailFollows

LEMMA OfficeRows ==
  ASSUME OrganisationTypeOK
  PROVE  /\ NoSite \notin Site /\ NoAddress \notin Address
         /\ \A s \in Sites : site[s] # NoSite <=> site[s] \in Site
         /\ \A a \in Addresses : address[a] # NoAddress <=> address[a] \in Address
<1>1. NoSite \notin Site /\ NoAddress \notin Address
  BY DEF NoSite, Site, NoAddress, Address
<1> QED
  BY <1>1 DEF OrganisationTypeOK

LEMMA ClerkShapes ==
  ASSUME NEW k \in Clerk
  PROVE  /\ k.op = "settings" => k.by \in Editors /\ k.before \in [Fields -> BOOLEAN]
         /\ k.op = "record" => /\ k.by \in Editors
                               /\ DOMAIN k.diff \subseteq Fields
                               /\ k.diff \in [DOMAIN k.diff -> BOOLEAN]
         /\ k.op = "address" => /\ k.site \in Sites /\ k.kind \in {"BILLING", "SHIPPING"}
                                /\ k.defaults \subseteq Addresses
         /\ k = AtEase <=> k.op = "none"
<1>1. \/ k = AtEase
      \/ k \in [op : {"settings"}, by : Editors, before : [Fields -> BOOLEAN]]
      \/ \E fields \in SUBSET Fields :
           k \in [op : {"record"}, by : Editors, diff : [fields -> BOOLEAN]]
      \/ k \in [op : {"address"}, site : Sites, kind : {"BILLING", "SHIPPING"},
                defaults : SUBSET Addresses]
  BY DEF Clerk
<1>2. ASSUME NEW fields \in SUBSET Fields,
             k \in [op : {"record"}, by : Editors, diff : [fields -> BOOLEAN]]
      PROVE  /\ k.op = "record" /\ k.by \in Editors /\ k # AtEase
             /\ DOMAIN k.diff = fields /\ k.diff \in [fields -> BOOLEAN]
  BY <1>2 DEF AtEase
<1>3. CASE k = AtEase
  BY <1>3 DEF AtEase
<1>4. CASE k \in [op : {"settings"}, by : Editors, before : [Fields -> BOOLEAN]]
  BY <1>4 DEF AtEase
<1>5. CASE k \in [op : {"address"}, site : Sites, kind : {"BILLING", "SHIPPING"},
                  defaults : SUBSET Addresses]
  BY <1>5 DEF AtEase
<1> QED
  BY <1>1, <1>2, <1>3, <1>4, <1>5

\* The settings and their trail are left alone, and so are those at work on them.
LEMMA SettingsRest ==
  ASSUME OneSettingsClerk, TrailFollows, UNCHANGED <<setting, trail>>,
         \A c \in Clerks : \/ clerk'[c] = clerk[c]
                           \/ clerk[c].op \notin AtSettings /\ clerk'[c].op \notin AtSettings
  PROVE  OneSettingsClerk' /\ TrailFollows'
<1>1. \A c \in Clerks : /\ clerk'[c].op \in AtSettings <=> clerk[c].op \in AtSettings
                        /\ clerk[c].op \in AtSettings => clerk'[c] = clerk[c]
  OBVIOUS
<1>2. OneSettingsClerk'
  BY <1>1 DEF OneSettingsClerk
<1>3. \A c \in Clerks : clerk'[c].op \in {"settings", "record"} => clerk'[c] = clerk[c]
  BY <1>1 DEF AtSettings
<1>4. TrailFollows'
  BY <1>1, <1>3 DEF TrailFollows
<1> QED
  BY <1>2, <1>4

\* The addresses are left alone, and so are those at work on them.
LEMMA AddressesRest ==
  ASSUME SitesAreKept, UNCHANGED address,
         \A s \in Sites : site[s] # NoSite => site'[s] # NoSite,
         OrganisationTypeOK,
         \A c \in Clerks : clerk'[c] = clerk[c] \/ clerk'[c].op # "address"
  PROVE  /\ SitesAreKept'
         /\ OneDefault => OneDefault'
         /\ OneAddressClerk => OneAddressClerk'
<1>1. \A a \in Addresses : address[a] # NoAddress => address[a].site \in Sites
  BY OfficeRows DEF Address
<1>2. \A c \in Clerks : clerk[c].op = "address" => clerk[c].site \in Sites
  BY ClerkShapes DEF OrganisationTypeOK
<1>3. SitesAreKept'
  BY <1>1, <1>2 DEF SitesAreKept
<1>4. OneDefault => OneDefault'
  BY DEF OneDefault, DefaultsOf
<1>5. OneAddressClerk => OneAddressClerk'
  BY DEF OneAddressClerk, DefaultsOf
<1> QED
  BY <1>3, <1>4, <1>5

\* A site and its addresses in one transaction.
LEMMA CreateSiteStep ==
  ASSUME OrganisationInv, NEW s \in Sites, NEW code \in Codes,
         NEW own \in SUBSET Addresses, NEW defaults \in SUBSET Addresses,
         CreateSite(s, code, own, defaults)
  PROVE  OrganisationInv'
<1> USE DEF OrganisationInv
<1>0. /\ site \in [Sites -> Site \cup {NoSite}]
      /\ address \in [Addresses -> Address \cup {NoAddress}]
      /\ clerk \in [Clerks -> Clerk] /\ hurried \in BOOLEAN
      /\ UNCHANGED <<setting, trail, clerk>>
  BY DEF OrganisationTypeOK, CreateSite
<1>1. /\ site[s] = NoSite /\ CodeIsFree(code) /\ defaults \subseteq own
      /\ \A a \in own : address[a] = NoAddress
      /\ hurried' = (hurried \/ Cardinality(defaults) > 1)
  BY DEF CreateSite
<1> DEFINE row == [code |-> code, deleted |-> FALSE]
           new(a) == [site |-> s, kind |-> "SHIPPING", isDefault |-> a \in defaults]
<1>2. /\ row \in Site /\ row.code = code
      /\ \A t \in Sites : site'[t] = IF t = s THEN row ELSE site[t]
      /\ site' \in [Sites -> Site \cup {NoSite}]
  BY <1>0 DEF CreateSite, Site
<1>3. \A a \in Addresses : /\ new(a) \in Address /\ new(a).site = s
                           /\ new(a).kind = "SHIPPING" /\ new(a).isDefault = (a \in defaults)
  BY DEF Address
<1>4. /\ \A a \in Addresses : address'[a] = IF a \in own THEN new(a) ELSE address[a]
      /\ address' = [a \in Addresses |-> IF a \in own THEN new(a) ELSE address[a]]
  BY DEF CreateSite
<1> HIDE DEF row, new
<1>5. address' \in [Addresses -> Address \cup {NoAddress}]
  BY <1>0, <1>3, <1>4
<1>6. hurried' \in BOOLEAN
  BY <1>0, <1>1
<1>7. OrganisationTypeOK'
  BY <1>0, <1>2, <1>5, <1>6 DEF OrganisationTypeOK
<1>8. /\ \A t \in Sites : site[t] # NoSite => site'[t] = site[t]
      /\ \A a \in Addresses : address[a] # NoAddress => address'[a] = address[a]
  BY <1>1, <1>2, <1>4
<1>9. SitesAreKept'
  <2>1. ASSUME NEW a \in Addresses, address'[a] # NoAddress
        PROVE  site'[address'[a].site] # NoSite
    <3>1. CASE a \in own
      BY <1>2, <1>3, <1>4, <3>1, OfficeRows
    <3>2. CASE a \notin own
      BY <1>4, <1>8, <2>1, <3>2, OfficeRows DEF SitesAreKept, Address
    <3> QED
      BY <3>1, <3>2
  <2>2. ASSUME NEW c \in Clerks, clerk[c].op = "address"
        PROVE  /\ site'[clerk[c].site] # NoSite
               /\ \A a \in clerk[c].defaults : address'[a] # NoAddress
    BY <1>0, <1>8, <2>2, ClerkShapes DEF SitesAreKept
  <2> QED
    BY <1>0, <2>1, <2>2 DEF SitesAreKept
<1>10. CodesApart'
  <2>1. \A t \in Sites : site[t].code # code
    BY <1>1 DEF CodeIsFree
  <2> QED
    BY <1>2, <2>1 DEF CodesApart
<1>11. ASSUME ~hurried'
       PROVE  OneDefault' /\ OneAddressClerk' /\ OneSettingsClerk' /\ TrailFollows'
  <2>1. /\ OneDefault /\ OneAddressClerk /\ OneSettingsClerk /\ TrailFollows
        /\ ~(Cardinality(defaults) > 1)
    BY <1>1, <1>11
  <2>2. \A x, y \in defaults : x = y
    <3>1. IsFiniteSet(defaults)
      BY AddressesAssumption, FS_Subset
    <3> QED
      BY <2>1, <3>1, NoTwo
  <2>3. ASSUME NEW t \in Sites, NEW kind \in {"BILLING", "SHIPPING"}
        PROVE  /\ t = s => \A a \in DefaultsOf(t, kind)' : a \in defaults
               /\ t # s => DefaultsOf(t, kind)' = DefaultsOf(t, kind)
    <3>1. \A a \in Addresses : address[a] # NoAddress => address[a].site # s
      BY <1>1 DEF SitesAreKept
    <3>2. ASSUME t = s, NEW a \in DefaultsOf(t, kind)'
          PROVE  a \in defaults
      <4>1. a \in own
        BY <1>4, <3>1, <3>2 DEF DefaultsOf
      <4> QED
        BY <1>3, <1>4, <3>2, <4>1 DEF DefaultsOf
    <3>3. ASSUME t # s
          PROVE  DefaultsOf(t, kind)' = DefaultsOf(t, kind)
      BY <1>1, <1>3, <1>4, <3>3 DEF DefaultsOf
    <3> QED
      BY <3>2, <3>3
  <2>4. OneDefault'
    BY <2>1, <2>2, <2>3 DEF OneDefault
  <2>5. OneAddressClerk'
    <3> SUFFICES ASSUME NEW c \in Clerks, clerk[c].op = "address"
                 PROVE  clerk[c].defaults = DefaultsOf(clerk[c].site, clerk[c].kind)'
      BY <1>0, <2>1 DEF OneAddressClerk
    <3>1. /\ clerk[c].site \in Sites /\ clerk[c].kind \in {"BILLING", "SHIPPING"}
          /\ clerk[c].site # s
      BY <1>0, <1>1, ClerkShapes DEF SitesAreKept
    <3>2. PICK t \in Sites, kind \in {"BILLING", "SHIPPING"} :
            t = clerk[c].site /\ kind = clerk[c].kind /\ t # s
      BY <3>1
    <3>3. DefaultsOf(t, kind)' = DefaultsOf(t, kind)
      BY <2>3, <3>2
    <3> QED
      BY <1>0, <2>1, <3>2, <3>3 DEF OneAddressClerk, DefaultsOf
  <2>6. OneSettingsClerk' /\ TrailFollows'
    BY <1>0, <2>1, SettingsRest
  <2> QED
    BY <2>4, <2>5, <2>6
<1> QED
  BY <1>7, <1>9, <1>10, <1>11

\* An address is added, and the defaults its transaction found are cleared.
LEMMA InsertAddressStep ==
  ASSUME OrganisationInv, NEW c \in Clerks, NEW n \in Addresses, NEW isDefault \in BOOLEAN,
         InsertAddress(c, n, isDefault)
  PROVE  OrganisationInv'
<1> USE DEF OrganisationInv
<1>0. /\ site \in [Sites -> Site \cup {NoSite}]
      /\ address \in [Addresses -> Address \cup {NoAddress}]
      /\ clerk \in [Clerks -> Clerk] /\ hurried \in BOOLEAN /\ AtEase \in Clerk
      /\ UNCHANGED <<site, setting, trail, hurried>>
  BY DEF OrganisationTypeOK, InsertAddress, Clerk
<1> DEFINE k == clerk[c]
           cleared == IF isDefault THEN k.defaults ELSE {}
           row == [site |-> k.site, kind |-> k.kind, isDefault |-> isDefault]
<1>1. /\ k.op = "address" /\ address[n] = NoAddress /\ Do(c, AtEase)
      /\ address' = [b \in Addresses |->
           IF b = n THEN row
           ELSE IF b \in cleared THEN [address[b] EXCEPT !.isDefault = FALSE]
           ELSE address[b]]
  BY DEF InsertAddress
<1>2. /\ k.site \in Sites /\ k.kind \in {"BILLING", "SHIPPING"} /\ cleared \subseteq Addresses
      /\ site[k.site] # NoSite /\ \A a \in cleared : address[a] # NoAddress
  BY <1>0, <1>1, ClerkShapes DEF SitesAreKept
<1>3. row \in Address /\ row.site = k.site /\ row.kind = k.kind /\ row.isDefault = isDefault
  BY <1>2 DEF Address
<1>4. \A b \in cleared : /\ [address[b] EXCEPT !.isDefault = FALSE] \in Address
                         /\ [address[b] EXCEPT !.isDefault = FALSE].site = address[b].site
                         /\ [address[b] EXCEPT !.isDefault = FALSE].isDefault = FALSE
  BY <1>2, OfficeRows DEF Address
<1> HIDE DEF row, cleared, k
<1>5. /\ address'[n] = row
      /\ \A b \in Addresses \ {n} :
           /\ b \in cleared => /\ address'[b] \in Address /\ address'[b].isDefault = FALSE
                               /\ address'[b].site = address[b].site
           /\ b \notin cleared => address'[b] = address[b]
  BY <1>1, <1>4
<1>6. address' \in [Addresses -> Address \cup {NoAddress}]
  <2>1. \A b \in Addresses : address'[b] \in Address \cup {NoAddress}
    BY <1>0, <1>3, <1>5
  <2> QED
    BY <1>1, <2>1
<1>7. /\ clerk' \in [Clerks -> Clerk]
      /\ \A d \in Clerks : clerk'[d] = IF d = c THEN AtEase ELSE clerk[d]
  BY <1>0, <1>1 DEF Do
<1>8. OrganisationTypeOK'
  BY <1>0, <1>6, <1>7 DEF OrganisationTypeOK
<1>9. \A a \in Addresses : address[a] # NoAddress => address'[a] # NoAddress
  BY <1>2, <1>3, <1>5, OfficeRows
<1>10. SitesAreKept'
  <2>1. ASSUME NEW a \in Addresses, address'[a] # NoAddress
        PROVE  site[address'[a].site] # NoSite
    <3>1. CASE a = n
      BY <1>2, <1>3, <1>5, <3>1
    <3>2. CASE a # n
      BY <1>2, <1>5, <2>1, <3>2 DEF SitesAreKept
    <3> QED
      BY <3>1, <3>2
  <2>2. ASSUME NEW d \in Clerks, clerk'[d].op = "address"
        PROVE  /\ site[clerk'[d].site] # NoSite
               /\ \A a \in clerk'[d].defaults : address'[a] # NoAddress
    <3>1. clerk'[d] = clerk[d] /\ clerk[d].defaults \subseteq Addresses
      BY <1>0, <1>7, <2>2, ClerkShapes DEF AtEase
    <3> QED
      BY <1>9, <2>2, <3>1 DEF SitesAreKept
  <2> QED
    BY <1>0, <2>1, <2>2 DEF SitesAreKept
<1>11. CodesApart'
  BY <1>0 DEF CodesApart
<1>12. ASSUME ~hurried'
       PROVE  OneDefault' /\ OneAddressClerk' /\ OneSettingsClerk' /\ TrailFollows'
  <2>1. OneDefault /\ OneAddressClerk /\ OneSettingsClerk /\ TrailFollows
    BY <1>0, <1>12
  <2>2. \A d \in Clerks : clerk'[d].op # "address"
    BY <1>1, <1>7, <2>1 DEF OneAddressClerk, AtEase, k
  <2>3. OneAddressClerk'
    BY <2>2 DEF OneAddressClerk
  <2>4. isDefault => cleared = DefaultsOf(k.site, k.kind)
    BY <1>1, <2>1 DEF OneAddressClerk, cleared, k
  <2>5. ASSUME NEW s \in Sites, NEW kind \in {"BILLING", "SHIPPING"},
               NEW a \in DefaultsOf(s, kind)'
        PROVE  IF a = n THEN s = k.site /\ kind = k.kind /\ isDefault
                        ELSE a \in DefaultsOf(s, kind) /\ a \notin cleared
    <3>1. CASE a = n
      BY <1>3, <1>5, <2>5, <3>1 DEF DefaultsOf
    <3>2. CASE a # n
      BY <1>5, <2>5, <3>2 DEF DefaultsOf
    <3> QED
      BY <3>1, <3>2
  <2>6. OneDefault'
    BY <2>1, <2>4, <2>5 DEF OneDefault
  <2>7. OneSettingsClerk' /\ TrailFollows'
    BY <1>0, <1>1, <1>7, <2>1, SettingsRest DEF AtSettings, AtEase, k
  <2> QED
    BY <2>3, <2>6, <2>7
<1> QED
  BY <1>8, <1>10, <1>11, <1>12

LEMMA BeginAddressStep ==
  ASSUME OrganisationInv, NEW c \in Clerks, NEW s \in Sites,
         NEW kind \in {"BILLING", "SHIPPING"}, BeginAddress(c, s, kind)
  PROVE  OrganisationInv'
<1> USE DEF OrganisationInv
<1> DEFINE k == [op |-> "address", site |-> s, kind |-> kind, defaults |-> DefaultsOf(s, kind)]
<1>0. /\ clerk \in [Clerks -> Clerk] /\ hurried \in BOOLEAN
      /\ UNCHANGED <<site, address, setting, trail>>
      /\ clerk[c] = AtEase /\ Open(s) /\ Do(c, k)
      /\ hurried' = (hurried \/ Crowded(c, {"address"}))
  BY DEF OrganisationTypeOK, BeginAddress
<1>1. /\ k \in Clerk /\ k.op = "address" /\ k.site = s /\ k.kind = kind
      /\ k.defaults = DefaultsOf(s, kind)
  <2>1. DefaultsOf(s, kind) \in SUBSET Addresses
    BY DEF DefaultsOf
  <2>2. k \in [op : {"address"}, site : Sites, kind : {"BILLING", "SHIPPING"},
              defaults : SUBSET Addresses]
    BY <2>1
  <2>3. k \in Clerk
    BY <2>2 DEF Clerk
  <2> QED
    BY <2>3
<1> HIDE DEF k
<1>2. /\ clerk' \in [Clerks -> Clerk]
      /\ \A d \in Clerks : clerk'[d] = IF d = c THEN k ELSE clerk[d]
  BY <1>0, <1>1 DEF Do
<1>3. hurried' \in BOOLEAN
  BY <1>0
<1>4. OrganisationTypeOK'
  BY <1>0, <1>2, <1>3 DEF OrganisationTypeOK
<1>5. SitesAreKept'
  <2>1. /\ site[k.site] # NoSite
        /\ \A a \in k.defaults : address[a] # NoAddress
    BY <1>0, <1>1 DEF Open, DefaultsOf
  <2> QED
    BY <1>0, <1>2, <2>1 DEF SitesAreKept
<1>6. CodesApart'
  BY <1>0 DEF CodesApart
<1>7. ASSUME ~hurried'
      PROVE  OneDefault' /\ OneAddressClerk' /\ OneSettingsClerk' /\ TrailFollows'
  <2>1. /\ OneDefault /\ OneAddressClerk /\ OneSettingsClerk /\ TrailFollows
        /\ ~Crowded(c, {"address"})
    BY <1>0, <1>7
  <2>2. OneDefault'
    BY <1>0, <2>1 DEF OneDefault, DefaultsOf
  <2>3. \A d \in Clerks : clerk'[d].op = "address" => d = c
    BY <1>2, <2>1 DEF Crowded
  <2>4. OneAddressClerk'
    <3>1. /\ clerk'[c].site = s /\ clerk'[c].kind = kind
          /\ clerk'[c].defaults = DefaultsOf(s, kind)
      BY <1>1, <1>2
    <3>2. clerk'[c].defaults = DefaultsOf(clerk[c].site, clerk[c].kind)'
      BY <1>0, <3>1 DEF DefaultsOf
    <3> QED
      BY <2>3, <3>2 DEF OneAddressClerk
  <2>5. OneSettingsClerk' /\ TrailFollows'
    BY <1>0, <1>1, <1>2, <2>1, SettingsRest DEF AtSettings, AtEase
  <2> QED
    BY <2>2, <2>4, <2>5
<1> QED
  BY <1>4, <1>5, <1>6, <1>7

\* One clerk's step on the settings leaves sites and addresses alone.
LEMMA SettingsStep ==
  ASSUME OrganisationInv, NEW c \in Clerks, NEW k \in Clerk, k.op # "address", Do(c, k),
         UNCHANGED <<site, address>>,
         setting' \in [Fields -> Setting], trail' \in [Fields -> Setting],
         hurried' \in BOOLEAN,
         ~hurried' => ~hurried /\ OneSettingsClerk' /\ TrailFollows'
  PROVE  OrganisationInv'
<1> USE DEF OrganisationInv
<1>1. /\ clerk' \in [Clerks -> Clerk]
      /\ \A d \in Clerks : clerk'[d] = IF d = c THEN k ELSE clerk[d]
  BY DEF OrganisationTypeOK, Do
<1>2. OrganisationTypeOK' /\ CodesApart'
  BY <1>1 DEF OrganisationTypeOK, CodesApart
<1>3. /\ SitesAreKept'
      /\ OneDefault => OneDefault'
      /\ OneAddressClerk => OneAddressClerk'
  BY <1>1, AddressesRest
<1> QED
  BY <1>2, <1>3

LEMMA BeginSettingsStep ==
  ASSUME OrganisationInv, NEW c \in Clerks, NEW m \in Editors, BeginSettings(c, m)
  PROVE  OrganisationInv'
<1> DEFINE k == [op |-> "settings", by |-> m, before |-> [f \in Fields |-> setting[f].value]]
<1>0. /\ clerk \in [Clerks -> Clerk] /\ hurried \in BOOLEAN
      /\ setting \in [Fields -> Setting] /\ trail \in [Fields -> Setting]
      /\ UNCHANGED <<site, address, setting, trail>>
      /\ clerk[c] = AtEase /\ Do(c, k)
      /\ hurried' = (hurried \/ Crowded(c, AtSettings))
  BY DEF OrganisationInv, OrganisationTypeOK, BeginSettings, AtSettings
<1>1. /\ k \in Clerk /\ k.op = "settings"
      /\ \A f \in Fields : k.before[f] = setting[f].value
  <2>1. \A f \in Fields : setting[f].value \in BOOLEAN
    BY <1>0 DEF Setting
  <2>2. [f \in Fields |-> setting[f].value] \in [Fields -> BOOLEAN]
    BY <2>1
  <2> QED
    BY <2>2 DEF Clerk
<1> HIDE DEF k
<1>2. \A d \in Clerks : clerk'[d] = IF d = c THEN k ELSE clerk[d]
  BY <1>0 DEF Do
<1>3. hurried' \in BOOLEAN
  BY <1>0
<1>4. ASSUME ~hurried'
      PROVE  ~hurried /\ OneSettingsClerk' /\ TrailFollows'
  <2>1. ~hurried /\ ~Crowded(c, AtSettings) /\ TrailFollows
    BY <1>0, <1>4 DEF OrganisationInv
  <2>2. \A d \in Clerks : d # c => clerk[d].op \notin AtSettings
    BY <2>1 DEF Crowded
  <2>3. \A d \in Clerks : clerk[d].op \notin AtSettings
    BY <1>0, <2>2 DEF AtSettings, AtEase
  <2>4. trail = setting
    BY <2>1, <2>3 DEF TrailFollows
  <2>5. \A d \in Clerks : d # c => clerk'[d].op \notin AtSettings
    BY <1>2, <2>2
  <2>6. OneSettingsClerk'
    BY <2>5 DEF OneSettingsClerk
  <2>7. TrailFollows'
    BY <1>0, <1>1, <1>2, <2>4, <2>5 DEF TrailFollows, AtSettings
  <2> QED
    BY <2>1, <2>6, <2>7
<1> QED
  BY <1>0, <1>1, <1>3, <1>4, SettingsStep

\* What is written differs from what was read by what is left to record.
LEMMA WriteSettingsStep ==
  ASSUME OrganisationInv, NEW c \in Clerks, NEW fields \in SUBSET Fields,
         NEW given \in [fields -> BOOLEAN], WriteSettings(c, given)
  PROVE  OrganisationInv'
<1> DEFINE old == clerk[c]
           after == [f \in Fields |-> IF f \in fields THEN given[f] ELSE old.before[f]]
           changed == {f \in Fields : after[f] # old.before[f]}
           k == IF changed = {} THEN AtEase
                ELSE [op |-> "record", by |-> old.by, diff |-> [f \in changed |-> after[f]]]
<1>0. /\ clerk \in [Clerks -> Clerk] /\ hurried \in BOOLEAN
      /\ setting \in [Fields -> Setting] /\ trail \in [Fields -> Setting]
      /\ UNCHANGED <<site, address, trail, hurried>>
      /\ old.op = "settings" /\ DOMAIN given = fields
  BY DEF OrganisationInv, OrganisationTypeOK, WriteSettings
<1>1. old.by \in Editors /\ old.before \in [Fields -> BOOLEAN]
  BY <1>0, ClerkShapes
<1>2. /\ Do(c, k)
      /\ setting' = [f \in Fields |->
           IF f \in fields /\ given[f] # setting[f].value
           THEN SettingOf(given[f], old.by) ELSE setting[f]]
  BY <1>0 DEF WriteSettings
<1>3. /\ \A f \in Fields : after[f] = IF f \in fields THEN given[f] ELSE old.before[f]
      /\ \A f \in Fields : after[f] \in BOOLEAN
  BY <1>1
<1> HIDE DEF after
<1>4. /\ k \in Clerk
      /\ IF changed = {} THEN k.op = "none"
         ELSE /\ k.op = "record" /\ k.by = old.by /\ DOMAIN k.diff = changed
              /\ \A f \in changed : k.diff[f] = after[f]
  <2>1. CASE changed = {}
    BY <2>1 DEF Clerk, AtEase
  <2>2. CASE changed # {}
    <3>1. k \in [op : {"record"}, by : Editors, diff : [changed -> BOOLEAN]]
      BY <1>1, <1>3, <2>2
    <3>2. changed \in SUBSET Fields
      OBVIOUS
    <3>3. k \in Clerk
      BY <3>1, <3>2 DEF Clerk
    <3> QED
      BY <2>2, <3>3
  <2> QED
    BY <2>1, <2>2
<1>5. setting' \in [Fields -> Setting]
  <2>1. \A f \in fields : SettingOf(given[f], old.by) \in Setting
    BY <1>1 DEF SettingOf, Setting
  <2> QED
    BY <1>0, <1>2, <2>1
<1>6. \A d \in Clerks : clerk'[d] = IF d = c THEN k ELSE clerk[d]
  BY <1>0, <1>2 DEF Do
<1> HIDE DEF k, old
<1>7. ASSUME ~hurried'
      PROVE  ~hurried /\ OneSettingsClerk' /\ TrailFollows'
  <2>1. ~hurried /\ OneSettingsClerk /\ TrailFollows
    BY <1>0, <1>7 DEF OrganisationInv
  <2>2. /\ trail = setting /\ \A f \in Fields : old.before[f] = setting[f].value
        /\ \A d \in Clerks : d # c => clerk[d].op \notin AtSettings
    BY <1>0, <2>1 DEF TrailFollows, OneSettingsClerk, AtSettings, old
  <2>3. \A d \in Clerks : d # c => clerk'[d].op \notin AtSettings
    BY <1>6, <2>2
  <2>4. OneSettingsClerk'
    BY <2>3 DEF OneSettingsClerk
  <2>5. \A f \in Fields : setting'[f] = IF f \in changed THEN SettingOf(after[f], old.by)
                                                         ELSE trail[f]
    BY <1>2, <1>3, <2>2
  <2>6. changed = {} => trail' = setting'
    BY <1>0, <1>5, <2>5
  <2>7. TrailFollows'
    <3>1. CASE changed = {}
      <4>1. \A d \in Clerks : clerk'[d].op \notin AtSettings
        BY <1>4, <1>6, <2>3, <3>1 DEF AtSettings
      <4> QED
        BY <2>6, <3>1, <4>1 DEF TrailFollows, AtSettings
    <3>2. CASE changed # {}
      <4>1. k.op = "record" /\ clerk'[c] = k /\ k.by = old.by /\ DOMAIN k.diff = changed
        BY <1>4, <1>6, <3>2
      <4>2. \A f \in changed : k.diff[f] = after[f]
        BY <1>4, <3>2
      <4>3. \A f \in Fields : setting'[f] = IF f \in DOMAIN k.diff
                                            THEN SettingOf(k.diff[f], k.by) ELSE trail'[f]
        BY <1>0, <2>5, <4>1, <4>2
      <4> HIDE DEF changed
      <4> QED
        BY <2>3, <4>1, <4>3 DEF TrailFollows, AtSettings
    <3> QED
      BY <3>1, <3>2
  <2> QED
    BY <2>1, <2>4, <2>7
<1>8. k.op # "address"
  BY <1>4
<1> QED
  BY <1>0, <1>2, <1>4, <1>5, <1>7, <1>8, SettingsStep

LEMMA RecordSettingsStep ==
  ASSUME OrganisationInv, NEW c \in Clerks, RecordSettings(c)
  PROVE  OrganisationInv'
<1> DEFINE old == clerk[c]
<1>0. /\ clerk \in [Clerks -> Clerk] /\ hurried \in BOOLEAN /\ AtEase \in Clerk
      /\ setting \in [Fields -> Setting] /\ trail \in [Fields -> Setting]
      /\ UNCHANGED <<site, address, setting, hurried>>
      /\ old.op = "record" /\ Do(c, AtEase)
      /\ trail' = [f \in Fields |->
           IF f \in DOMAIN old.diff THEN SettingOf(old.diff[f], old.by) ELSE trail[f]]
  BY DEF OrganisationInv, OrganisationTypeOK, RecordSettings, Clerk
<1>1. /\ old.by \in Editors /\ DOMAIN old.diff \subseteq Fields
      /\ old.diff \in [DOMAIN old.diff -> BOOLEAN]
  BY <1>0, ClerkShapes
<1>2. trail' \in [Fields -> Setting]
  <2>1. \A f \in DOMAIN old.diff : SettingOf(old.diff[f], old.by) \in Setting
    BY <1>1 DEF SettingOf, Setting
  <2> QED
    BY <1>0, <2>1
<1>3. \A d \in Clerks : clerk'[d] = IF d = c THEN AtEase ELSE clerk[d]
  BY <1>0 DEF Do
<1>4. ASSUME ~hurried'
      PROVE  ~hurried /\ OneSettingsClerk' /\ TrailFollows'
  <2>1. ~hurried /\ OneSettingsClerk /\ TrailFollows
    BY <1>0, <1>4 DEF OrganisationInv
  <2>2. \A d \in Clerks : clerk'[d].op \notin AtSettings
    BY <1>0, <1>3, <2>1 DEF OneSettingsClerk, AtSettings, AtEase
  <2>3. \A f \in Fields : setting[f] = trail'[f]
    BY <1>0, <2>1 DEF TrailFollows
  <2>4. trail' = setting'
    BY <1>0, <1>2, <2>3
  <2> QED
    BY <2>1, <2>2, <2>4 DEF OneSettingsClerk, TrailFollows, AtSettings
<1>5. AtEase.op # "address"
  BY DEF AtEase
<1> QED
  BY <1>0, <1>2, <1>4, <1>5, SettingsStep

\* Giving up before the write leaves the trail right; after it, it is noted.
LEMMA DropClerkStep ==
  ASSUME OrganisationInv, NEW c \in Clerks, DropClerk(c)
  PROVE  OrganisationInv'
<1>0. /\ clerk \in [Clerks -> Clerk] /\ hurried \in BOOLEAN /\ AtEase \in Clerk
      /\ setting \in [Fields -> Setting] /\ trail \in [Fields -> Setting]
      /\ UNCHANGED <<site, address, setting, trail>> /\ Do(c, AtEase)
      /\ hurried' = (hurried \/ clerk[c].op = "record")
  BY DEF OrganisationInv, OrganisationTypeOK, DropClerk, Clerk
<1>1. \A d \in Clerks : clerk'[d] = IF d = c THEN AtEase ELSE clerk[d]
  BY <1>0 DEF Do
<1>2. hurried' \in BOOLEAN
  BY <1>0
<1>3. ASSUME ~hurried'
      PROVE  ~hurried /\ OneSettingsClerk' /\ TrailFollows'
  <2>1. ~hurried /\ clerk[c].op # "record" /\ OneSettingsClerk /\ TrailFollows
    BY <1>0, <1>3 DEF OrganisationInv
  <2>2. \A d \in Clerks : clerk'[d].op \in AtSettings => d # c /\ clerk'[d] = clerk[d]
    BY <1>1 DEF AtSettings, AtEase
  <2>3. OneSettingsClerk'
    BY <2>1, <2>2 DEF OneSettingsClerk
  <2>4. (\A d \in Clerks : clerk'[d].op \notin AtSettings) => trail = setting
    <3>1. CASE clerk[c].op = "settings"
      BY <2>1, <3>1 DEF TrailFollows
    <3>2. CASE clerk[c].op # "settings"
      BY <1>1, <2>1, <3>2 DEF TrailFollows, AtSettings
    <3> QED
      BY <3>1, <3>2
  <2>5. TrailFollows'
    BY <1>0, <2>1, <2>2, <2>4 DEF TrailFollows, AtSettings
  <2> QED
    BY <2>1, <2>3, <2>5
<1>4. AtEase.op # "address"
  BY DEF AtEase
<1> QED
  BY <1>0, <1>2, <1>3, <1>4, SettingsStep

LEMMA DeactivateSiteStep ==
  ASSUME OrganisationInv, NEW s \in Sites, DeactivateSite(s)
  PROVE  OrganisationInv'
<1> USE DEF OrganisationInv
<1>0. /\ site \in [Sites -> Site \cup {NoSite}] /\ site[s] \in Site
      /\ UNCHANGED <<address, setting, trail, clerk, hurried>>
  BY OfficeRows DEF OrganisationTypeOK, DeactivateSite, Open
<1> DEFINE row == [site[s] EXCEPT !.deleted = TRUE]
<1>1. row \in Site /\ row.code = site[s].code
  BY <1>0 DEF Site
<1>2. /\ \A t \in Sites : site'[t] = IF t = s THEN row ELSE site[t]
      /\ site' \in [Sites -> Site \cup {NoSite}]
  BY <1>0, <1>1 DEF DeactivateSite
<1> HIDE DEF row
<1>3. OrganisationTypeOK'
  BY <1>0, <1>2 DEF OrganisationTypeOK
<1>4. CodesApart'
  BY <1>0, <1>1, <1>2, OfficeRows DEF CodesApart
<1>5. /\ SitesAreKept'
      /\ OneDefault => OneDefault'
      /\ OneAddressClerk => OneAddressClerk'
  BY <1>0, <1>1, <1>2, OfficeRows, AddressesRest
<1>6. OneSettingsClerk /\ TrailFollows => OneSettingsClerk' /\ TrailFollows'
  BY <1>0, SettingsRest
<1> QED
  BY <1>0, <1>3, <1>4, <1>5, <1>6

LEMMA OrganisationStep ==
  ASSUME OrganisationInv, [OrganisationNext]_organisationVars
  PROVE  OrganisationInv'
<1>1. CASE UNCHANGED organisationVars
  <2>1. UNCHANGED <<site, address, setting, trail, clerk, hurried>>
    BY <1>1 DEF organisationVars
  <2>2. OrganisationTypeOK' /\ CodesApart'
    BY <2>1 DEF OrganisationInv, OrganisationTypeOK, CodesApart
  <2>3. /\ SitesAreKept'
        /\ OneDefault => OneDefault'
        /\ OneAddressClerk => OneAddressClerk'
    BY <2>1, AddressesRest DEF OrganisationInv
  <2>4. OneSettingsClerk /\ TrailFollows => OneSettingsClerk' /\ TrailFollows'
    BY <2>1, SettingsRest
  <2> QED
    BY <2>1, <2>2, <2>3, <2>4 DEF OrganisationInv
<1> QED
  BY <1>1, CreateSiteStep, DeactivateSiteStep, BeginAddressStep, InsertAddressStep,
    BeginSettingsStep, WriteSettingsStep, RecordSettingsStep, DropClerkStep
    DEF OrganisationNext

LEMMA OrganisationStart == OrganisationInit => OrganisationInv
<1> SUFFICES ASSUME OrganisationInit
             PROVE  OrganisationInv
  OBVIOUS
<1>1. OrganisationTypeOK
  BY DEF OrganisationInit, OrganisationTypeOK, Clerk, SettingOf, Setting
<1>2. /\ \A c \in Clerks : clerk[c].op = "none"
      /\ \A a \in Addresses : address[a] = NoAddress
      /\ \A s \in Sites : site[s] = NoSite
      /\ trail = setting
  BY DEF OrganisationInit, AtEase
<1>3. SitesAreKept /\ CodesApart
  BY <1>2 DEF SitesAreKept, CodesApart
<1>4. OneDefault /\ OneAddressClerk /\ OneSettingsClerk /\ TrailFollows
  BY <1>2 DEF OneDefault, DefaultsOf, OneAddressClerk, OneSettingsClerk, TrailFollows, AtSettings
<1> QED
  BY <1>1, <1>3, <1>4 DEF OrganisationInv

LEMMA OrganisationAlways == OrganisationSpec => []OrganisationInv
<1> QED
  BY OrganisationStart, OrganisationStep, PTL DEF OrganisationSpec

(***************************************************************************)
(* Sites, addresses, settings, their trail and the requests that change    *)
(* them keep their shapes (sites.service.ts, settings.service.ts).         *)
(***************************************************************************)
THEOREM OrganisationTypeCorrect == OrganisationSpec => []OrganisationTypeOK
<1> QED
  BY OrganisationAlways, PTL DEF OrganisationInv

(***************************************************************************)
(* With any number of sites, addresses and requests: a code names one site *)
(* for ever, and as long as no two changes of a kind overlapped and no     *)
(* entry was lost, a site has one default address of a kind and the audit  *)
(* trail says who gave every setting the value it has (sites.service.ts,   *)
(* settings.service.ts, audit.service.ts).                                 *)
(***************************************************************************)
THEOREM RecordsAreClear == OrganisationSpec => []OrganisationIsOnRecord
<1>1. OrganisationInv => AddressesAreClear
  BY AtMostOne DEF OrganisationInv, AddressesAreClear, CodesApart, OneDefault
<1>2. OrganisationInv => TrailTellsSettings
  BY DEF OrganisationInv, TrailTellsSettings, TrailFollows, AtSettings
<1> QED
  BY <1>1, <1>2, OrganisationAlways, PTL DEF OrganisationIsOnRecord

-----------------------------------------------------------------------------
(***************************************************************************)
(* Permissions.                                                            *)
(***************************************************************************)
\* The permissions that the first n rows say so of, account-wide.
Named(rs, n, effect) ==
  {rs[k].permission :
     k \in {j \in 1..n : Counts(rs[j]) /\ rs[j].resource = "ANY" /\ rs[j].effect = effect}}

\* The objects, each with a permission, that they say so of.
Narrowed(rs, n, effect) ==
  {<<rs[k].permission, rs[k].resource>> :
     k \in {j \in 1..n : Counts(rs[j]) /\ rs[j].resource # "ANY" /\ rs[j].effect = effect}}

\* What load gathers in, and what it has gathered from the base and the first
\* n rows, in any order.
Gatherings(b, d, a, x) == [base |-> b, denied |-> d, allowOn |-> a, denyOn |-> x]
Gathered(base, rs, n) ==
  Gatherings(base \cup Named(rs, n, "ALLOW"), Named(rs, n, "DENY"),
             Narrowed(rs, n, "ALLOW"), Narrowed(rs, n, "DENY"))

IsReading(read, base, rs) ==
  read = [n \in 0..Len(rs) |-> IF n = 0 THEN [Nothing EXCEPT !.base = base]
                               ELSE readRow(read[n - 1], rs[n])]

\* The name or the pair that one row adds to those.
NameOf(row, effect) ==
  IF Counts(row) /\ row.resource = "ANY" /\ row.effect = effect THEN {row.permission} ELSE {}
PairOf(row, effect) ==
  IF Counts(row) /\ row.resource # "ANY" /\ row.effect = effect
  THEN {<<row.permission, row.resource>>} ELSE {}

\* Reading a row adds what is its own, and leaves the rest.
LEMMA RowIsGathered ==
  ASSUME NEW b, NEW d, NEW a, NEW x, NEW row, row.effect \in {"ALLOW", "DENY"}
  PROVE  readRow(Gatherings(b, d, a, x), row) =
           Gatherings(b \cup NameOf(row, "ALLOW"), d \cup NameOf(row, "DENY"),
                      a \cup PairOf(row, "ALLOW"), x \cup PairOf(row, "DENY"))
<1> DEFINE acc == Gatherings(b, d, a, x)
<1>1. acc \in [{"base", "denied", "allowOn", "denyOn"} -> {b, d, a, x}]
  BY DEF Gatherings
<1>2. acc.base = b /\ acc.denied = d /\ acc.allowOn = a /\ acc.denyOn = x
  BY DEF Gatherings
<1>3. \A S : S \cup {} = S
  OBVIOUS
<1>4. CASE ~Counts(row)
  <2>1. readRow(acc, row) = acc
    BY <1>4, SMT DEF readRow
  <2>2. \A effect : NameOf(row, effect) = {} /\ PairOf(row, effect) = {}
    BY <1>4, Zenon DEF NameOf, PairOf
  <2> QED
    BY <1>3, <2>1, <2>2, Zenon
<1>5. CASE Counts(row) /\ row.resource = "ANY" /\ row.effect = "ALLOW"
  <2>1. readRow(acc, row) = [acc EXCEPT !.base = @ \cup {row.permission}]
    BY <1>5, SMT DEF readRow
  <2>2. [acc EXCEPT !.base = @ \cup {row.permission}] = Gatherings(b \cup {row.permission}, d, a, x)
    BY <1>1, <1>2 DEF Gatherings
  <2>3. /\ NameOf(row, "ALLOW") = {row.permission}
        /\ NameOf(row, "DENY") = {}
        /\ PairOf(row, "ALLOW") = {} /\ PairOf(row, "DENY") = {}
    BY <1>5, SMT DEF NameOf, PairOf
  <2> QED
    BY <1>3, <2>1, <2>2, <2>3, Zenon
<1>6. CASE Counts(row) /\ row.resource = "ANY" /\ row.effect = "DENY"
  <2>1. readRow(acc, row) = [acc EXCEPT !.denied = @ \cup {row.permission}]
    BY <1>6, SMT DEF readRow
  <2>2. [acc EXCEPT !.denied = @ \cup {row.permission}] = Gatherings(b, d \cup {row.permission}, a, x)
    BY <1>1, <1>2 DEF Gatherings
  <2>3. /\ NameOf(row, "DENY") = {row.permission}
        /\ NameOf(row, "ALLOW") = {}
        /\ PairOf(row, "ALLOW") = {} /\ PairOf(row, "DENY") = {}
    BY <1>6, SMT DEF NameOf, PairOf
  <2> QED
    BY <1>3, <2>1, <2>2, <2>3, Zenon
<1>7. CASE Counts(row) /\ row.resource # "ANY" /\ row.effect = "ALLOW"
  <2>1. readRow(acc, row) = [acc EXCEPT !.allowOn = @ \cup {<<row.permission, row.resource>>}]
    BY <1>7, SMT DEF readRow
  <2>2. [acc EXCEPT !.allowOn = @ \cup {<<row.permission, row.resource>>}] = Gatherings(b, d, a \cup {<<row.permission, row.resource>>}, x)
    BY <1>1, <1>2 DEF Gatherings
  <2>3. /\ PairOf(row, "ALLOW") = {<<row.permission, row.resource>>}
        /\ PairOf(row, "DENY") = {}
        /\ NameOf(row, "ALLOW") = {} /\ NameOf(row, "DENY") = {}
    BY <1>7, SMT DEF NameOf, PairOf
  <2> QED
    BY <1>3, <2>1, <2>2, <2>3, Zenon
<1>8. CASE Counts(row) /\ row.resource # "ANY" /\ row.effect = "DENY"
  <2>1. readRow(acc, row) = [acc EXCEPT !.denyOn = @ \cup {<<row.permission, row.resource>>}]
    BY <1>8, SMT DEF readRow
  <2>2. [acc EXCEPT !.denyOn = @ \cup {<<row.permission, row.resource>>}] = Gatherings(b, d, a, x \cup {<<row.permission, row.resource>>})
    BY <1>1, <1>2 DEF Gatherings
  <2>3. /\ PairOf(row, "DENY") = {<<row.permission, row.resource>>}
        /\ PairOf(row, "ALLOW") = {}
        /\ NameOf(row, "ALLOW") = {} /\ NameOf(row, "DENY") = {}
    BY <1>8, SMT DEF NameOf, PairOf
  <2> QED
    BY <1>3, <2>1, <2>2, <2>3, Zenon
<1> QED
  BY <1>4, <1>5, <1>6, <1>7, <1>8

\* One more row is one more name or pair, or nothing.
LEMMA OneMoreRow ==
  ASSUME NEW rs \in Seq(Grant), NEW n \in 1..Len(rs), NEW base
  PROVE  Gathered(base, rs, n) = readRow(Gathered(base, rs, n - 1), rs[n])
<1>1. rs[n] \in Grant /\ n \in Nat /\ 1..n = 1..(n - 1) \cup {n}
  OBVIOUS
<1>2. rs[n].effect \in {"ALLOW", "DENY"}
  BY <1>1 DEF Grant
<1>3. \A effect : /\ Named(rs, n, effect) = Named(rs, n - 1, effect) \cup NameOf(rs[n], effect)
                  /\ Narrowed(rs, n, effect) = Narrowed(rs, n - 1, effect) \cup PairOf(rs[n], effect)
  BY <1>1, Zenon DEF Named, Narrowed, NameOf, PairOf
<1>4. base \cup (Named(rs, n - 1, "ALLOW") \cup NameOf(rs[n], "ALLOW"))
        = (base \cup Named(rs, n - 1, "ALLOW")) \cup NameOf(rs[n], "ALLOW")
  OBVIOUS
<1> DEFINE read == Gatherings((base \cup Named(rs, n - 1, "ALLOW")) \cup NameOf(rs[n], "ALLOW"),
                              Named(rs, n - 1, "DENY") \cup NameOf(rs[n], "DENY"),
                              Narrowed(rs, n - 1, "ALLOW") \cup PairOf(rs[n], "ALLOW"),
                              Narrowed(rs, n - 1, "DENY") \cup PairOf(rs[n], "DENY"))
<1>5. Gathered(base, rs, n) = read
  BY <1>3, <1>4, Zenon DEF Gathered
<1>6. readRow(Gathered(base, rs, n - 1), rs[n]) = read
  BY <1>2, RowIsGathered DEF Gathered
<1> QED
  BY <1>5, <1>6, Zenon

\* There is one way of reading a list, whatever way it is written down.
LEMMA ReadingsAgree ==
  ASSUME NEW rs \in Seq(Grant), NEW base, NEW f, NEW g,
         IsReading(f, base, rs), IsReading(g, base, rs)
  PROVE  f[Len(rs)] = g[Len(rs)]
<1> DEFINE Bad == {n \in 0..Len(rs) : f[n] # g[n]}
<1>0. Len(rs) \in Nat
  OBVIOUS
<1>1. SUFFICES ASSUME Bad # {} PROVE FALSE
  BY <1>0
<1>2. PICK n \in Bad : \A m \in Bad : n <= m
  <2>1. Bad \subseteq Nat
    OBVIOUS
  <2> HIDE DEF Bad
  <2> QED
    BY <1>1, <2>1, LeastNumber
<1>3. n \in 0..Len(rs) /\ f[n] # g[n]
  OBVIOUS
<1>4. CASE n = 0
  BY <1>0, <1>3, <1>4 DEF IsReading
<1>5. CASE n # 0
  <2>1. n - 1 \in 0..Len(rs) /\ n - 1 \notin Bad
    BY <1>2, <1>3, <1>5
  <2>2. f[n - 1] = g[n - 1]
    BY <2>1
  <2>3. f[n] = readRow(f[n - 1], rs[n]) /\ g[n] = readRow(g[n - 1], rs[n])
    BY <1>3, <1>5 DEF IsReading
  <2> QED
    BY <1>3, <2>2, <2>3
<1> QED
  BY <1>4, <1>5

\* What load starts from.
LEMMA NothingYet ==
  ASSUME NEW b
  PROVE  [Nothing EXCEPT !.base = b] = [base |-> b, denied |-> {}, allowOn |-> {}, denyOn |-> {}]
<1>1. Nothing \in [{"base", "denied", "allowOn", "denyOn"} -> {{}}]
  BY DEF Nothing
<1> QED
  BY <1>1 DEF Nothing

\* What load makes of a list, row by row or all at once.
LEMMA LoadTells ==
  ASSUME NEW role, NEW userType, NEW rs \in Seq(Grant)
  PROVE  load(role, userType, rs) =
           [accountWide |-> (basePermissionsFor(role, userType) \cup Named(rs, Len(rs), "ALLOW"))
                              \ Named(rs, Len(rs), "DENY"),
            allowOn |-> Narrowed(rs, Len(rs), "ALLOW"),
            denyOn |-> Narrowed(rs, Len(rs), "DENY")]
<1> DEFINE base == basePermissionsFor(role, userType)
           read == CHOOSE f : IsReading(f, base, rs)
           told == [n \in 0..Len(rs) |-> Gathered(base, rs, n)]
           all == read[Len(rs)]
<1>1. load(role, userType, rs) =
        [accountWide |-> all.base \ all.denied, allowOn |-> all.allowOn, denyOn |-> all.denyOn]
  BY DEF load, IsReading
<1>2. IsReading(told, base, rs)
  <2> HIDE DEF base
  <2>1. Gathered(base, rs, 0) = [Nothing EXCEPT !.base = base]
    <3>0. 1..0 = {}
      OBVIOUS
    <3>1. \A effect : Named(rs, 0, effect) = {} /\ Narrowed(rs, 0, effect) = {}
      BY <3>0, Zenon DEF Named, Narrowed
    <3>2. base \cup {} = base
      OBVIOUS
    <3>3. Gathered(base, rs, 0) = [base |-> base, denied |-> {}, allowOn |-> {}, denyOn |-> {}]
      BY <3>1, <3>2, Zenon DEF Gathered, Gatherings
    <3>4. [Nothing EXCEPT !.base = base]
            = [base |-> base, denied |-> {}, allowOn |-> {}, denyOn |-> {}]
      BY NothingYet
    <3> QED
      BY <3>3, <3>4, Zenon
  <2>2. ASSUME NEW n \in 0..Len(rs)
        PROVE  Gathered(base, rs, n) = IF n = 0 THEN [Nothing EXCEPT !.base = base]
                                       ELSE readRow(told[n - 1], rs[n])
    <3>1. CASE n = 0
      BY <2>1, <3>1
    <3>2. CASE n # 0
      <4>1. n \in 1..Len(rs) /\ n - 1 \in 0..Len(rs)
        BY <3>2
      <4>2. told[n - 1] = Gathered(base, rs, n - 1)
        BY <4>1
      <4> QED
        BY <3>2, <4>1, <4>2, OneMoreRow
    <3> QED
      BY <3>1, <3>2
  <2> DEFINE once(n) == Gathered(base, rs, n)
             row(n) == IF n = 0 THEN [Nothing EXCEPT !.base = base]
                       ELSE readRow(told[n - 1], rs[n])
  <2>3. \A n \in 0..Len(rs) : once(n) = row(n)
    BY <2>2
  <2>4. told = [n \in 0..Len(rs) |-> once(n)]
    OBVIOUS
  <2> HIDE DEF once, row, told
  <2>5. told = [n \in 0..Len(rs) |-> row(n)]
    BY <2>3, <2>4
  <2> QED
    BY <2>5 DEF row, IsReading
<1>3. IsReading(read, base, rs)
  <2> HIDE DEF told, base
  <2> QED
    BY <1>2
<1>4. all = Gathered(base, rs, Len(rs))
  <2>1. told[Len(rs)] = Gathered(base, rs, Len(rs))
    OBVIOUS
  <2> HIDE DEF told, base, read
  <2> QED
    BY <1>2, <1>3, <2>1, ReadingsAgree
<1> HIDE DEF all
<1> QED
  BY <1>1, <1>4 DEF Gathered, Gatherings

(***************************************************************************)
(* For every list of rows, role and type of user: a permission is held     *)
(* account-wide if the role or a row gives it and no row denies it, and on *)
(* an object if no row denies it there and one allows it there or it is    *)
(* held account-wide (load, permission.service.ts).                        *)
(***************************************************************************)
THEOREM GrantsAreTold ==
  ASSUME NEW role, NEW userType, NEW rs \in Seq(Grant), NEW p \in ALL_PERMISSIONS
  PROVE  LET mine == load(role, userType, rs)
         IN  /\ has(mine, p) <=>
                  /\ p \in basePermissionsFor(role, userType) \/ Says(rs, "ALLOW", p, "ANY")
                  /\ ~Says(rs, "DENY", p, "ANY")
             /\ \A o \in Objects \ {"ANY"} :
                  hasOn(mine, p, o) <=>
                    /\ ~Says(rs, "DENY", p, o)
                    /\ Says(rs, "ALLOW", p, o) \/ has(mine, p)
<1> DEFINE mine == load(role, userType, rs)
<1>0. DOMAIN rs = 1..Len(rs)
  OBVIOUS
<1>1. \A effect : p \in Named(rs, Len(rs), effect) <=> Says(rs, effect, p, "ANY")
  BY <1>0, Zenon DEF Named, Says
<1>2. ASSUME NEW effect, NEW o \in Objects \ {"ANY"}
      PROVE  <<p, o>> \in Narrowed(rs, Len(rs), effect) <=> Says(rs, effect, p, o)
  <2>1. ASSUME <<p, o>> \in Narrowed(rs, Len(rs), effect)
        PROVE  Says(rs, effect, p, o)
    <3>1. PICK k \in 1..Len(rs) :
            /\ Counts(rs[k]) /\ rs[k].effect = effect
            /\ <<p, o>> = <<rs[k].permission, rs[k].resource>>
      BY <2>1, Zenon DEF Narrowed
    <3>2. p = rs[k].permission /\ o = rs[k].resource
      BY <3>1
    <3> QED
      BY <1>0, <3>1, <3>2, Zenon DEF Says
  <2>2. ASSUME Says(rs, effect, p, o)
        PROVE  <<p, o>> \in Narrowed(rs, Len(rs), effect)
    <3>1. PICK k \in 1..Len(rs) : /\ Counts(rs[k]) /\ rs[k].effect = effect
                                  /\ rs[k].permission = p /\ rs[k].resource = o
      BY <1>0, <2>2, Zenon DEF Says
    <3>2. rs[k].resource # "ANY"
      BY <3>1
    <3> QED
      BY <3>1, <3>2, Zenon DEF Narrowed
  <2> QED
    BY <2>1, <2>2
<1>3. /\ mine.accountWide =
           (basePermissionsFor(role, userType) \cup Named(rs, Len(rs), "ALLOW"))
             \ Named(rs, Len(rs), "DENY")
      /\ mine.allowOn = Narrowed(rs, Len(rs), "ALLOW")
      /\ mine.denyOn = Narrowed(rs, Len(rs), "DENY")
  BY LoadTells
<1> HIDE DEF mine
<1>4. has(mine, p) <=>
        /\ p \in basePermissionsFor(role, userType) \/ Says(rs, "ALLOW", p, "ANY")
        /\ ~Says(rs, "DENY", p, "ANY")
  BY <1>1, <1>3 DEF has
<1>5. ASSUME NEW o \in Objects \ {"ANY"}
      PROVE  hasOn(mine, p, o) <=>
               /\ ~Says(rs, "DENY", p, o)
               /\ Says(rs, "ALLOW", p, o) \/ has(mine, p)
  BY <1>2, <1>3 DEF hasOn
<1> QED
  BY <1>4, <1>5 DEF mine

\* Lists of which the same rows count come to the same.
LEMMA SameRowsSameAnswer ==
  ASSUME NEW role, NEW userType, NEW rs \in Seq(Grant), NEW qs \in Seq(Grant),
         \A row \in Grant : Counts(row) =>
           ((\E n \in 1..Len(rs) : rs[n] = row) <=> (\E n \in 1..Len(qs) : qs[n] = row))
  PROVE  load(role, userType, rs) = load(role, userType, qs)
<1>0. /\ \A n \in 1..Len(rs) : rs[n] \in Grant
      /\ \A n \in 1..Len(qs) : qs[n] \in Grant
  OBVIOUS
<1>1. ASSUME NEW row, Counts(row)
      PROVE  (\E k \in 1..Len(rs) : rs[k] = row) <=> (\E k \in 1..Len(qs) : qs[k] = row)
  BY <1>0, <1>1, Zenon
<1>2. ASSUME NEW effect, NEW p
      PROVE  p \in Named(rs, Len(rs), effect) <=> p \in Named(qs, Len(qs), effect)
  <2>1. ASSUME NEW k \in 1..Len(rs), Counts(rs[k]), rs[k].resource = "ANY", rs[k].effect = effect
        PROVE  rs[k].permission \in Named(qs, Len(qs), effect)
    <3>1. PICK j \in 1..Len(qs) : qs[j] = rs[k]
      BY <1>1, <2>1, Zenon
    <3> QED
      BY <2>1, <3>1, Zenon DEF Named
  <2>2. ASSUME NEW k \in 1..Len(qs), Counts(qs[k]), qs[k].resource = "ANY", qs[k].effect = effect
        PROVE  qs[k].permission \in Named(rs, Len(rs), effect)
    <3>1. PICK j \in 1..Len(rs) : rs[j] = qs[k]
      BY <1>1, <2>2, Zenon
    <3> QED
      BY <2>2, <3>1, Zenon DEF Named
  <2> QED
    BY <2>1, <2>2, Zenon DEF Named
<1>3. ASSUME NEW effect, NEW pair
      PROVE  pair \in Narrowed(rs, Len(rs), effect) <=> pair \in Narrowed(qs, Len(qs), effect)
  <2>1. ASSUME NEW k \in 1..Len(rs), Counts(rs[k]), rs[k].resource # "ANY", rs[k].effect = effect
        PROVE  <<rs[k].permission, rs[k].resource>> \in Narrowed(qs, Len(qs), effect)
    <3>1. PICK j \in 1..Len(qs) : qs[j] = rs[k]
      BY <1>1, <2>1, Zenon
    <3> QED
      BY <2>1, <3>1, Zenon DEF Narrowed
  <2>2. ASSUME NEW k \in 1..Len(qs), Counts(qs[k]), qs[k].resource # "ANY", qs[k].effect = effect
        PROVE  <<qs[k].permission, qs[k].resource>> \in Narrowed(rs, Len(rs), effect)
    <3>1. PICK j \in 1..Len(rs) : rs[j] = qs[k]
      BY <1>1, <2>2, Zenon
    <3> QED
      BY <2>2, <3>1, Zenon DEF Narrowed
  <2> QED
    BY <2>1, <2>2, Zenon DEF Narrowed
<1>4. ASSUME NEW effect
      PROVE  /\ Named(rs, Len(rs), effect) = Named(qs, Len(qs), effect)
             /\ Narrowed(rs, Len(rs), effect) = Narrowed(qs, Len(qs), effect)
  <2>1. \A p : p \in Named(rs, Len(rs), effect) <=> p \in Named(qs, Len(qs), effect)
    BY <1>2
  <2>2. \A pair : pair \in Narrowed(rs, Len(rs), effect) <=> pair \in Narrowed(qs, Len(qs), effect)
    BY <1>3
  <2>3. Named(rs, Len(rs), effect) = Named(qs, Len(qs), effect)
    BY <2>1
  <2>4. Narrowed(rs, Len(rs), effect) = Narrowed(qs, Len(qs), effect)
    BY <2>2
  <2> QED
    BY <2>3, <2>4
<1>5. /\ Named(rs, Len(rs), "ALLOW") = Named(qs, Len(qs), "ALLOW")
      /\ Named(rs, Len(rs), "DENY") = Named(qs, Len(qs), "DENY")
      /\ Narrowed(rs, Len(rs), "ALLOW") = Narrowed(qs, Len(qs), "ALLOW")
      /\ Narrowed(rs, Len(rs), "DENY") = Narrowed(qs, Len(qs), "DENY")
  BY <1>4
<1>6. \A list \in {rs, qs} :
        load(role, userType, list) =
          [accountWide |-> (basePermissionsFor(role, userType) \cup Named(list, Len(list), "ALLOW"))
                             \ Named(list, Len(list), "DENY"),
           allowOn |-> Narrowed(list, Len(list), "ALLOW"),
           denyOn |-> Narrowed(list, Len(list), "DENY")]
  BY LoadTells
<1> QED
  BY <1>5, <1>6

LEMMA DenialsAlwaysWin ==
  ASSUME rows \in Seq(Grant)
  PROVE  DenialsWin
<1> DEFINE mine == Effective(caller.role, rows)
<1>0. mine = load(caller.role, caller.userType, rows)
  BY DEF Effective
<1> HIDE DEF mine
<1>1. Effective(caller.role, Reverse(rows)) = mine
  <2>1. /\ Reverse(rows) \in Seq(Grant) /\ Len(Reverse(rows)) = Len(rows)
        /\ \A n \in 1..Len(rows) : /\ Reverse(rows)[n] = rows[Len(rows) - n + 1]
                                   /\ Len(rows) - n + 1 \in 1..Len(rows)
                                   /\ Reverse(rows)[Len(rows) - n + 1] = rows[n]
    BY DEF Reverse
  <2>2. ASSUME NEW row
        PROVE  (\E n \in 1..Len(Reverse(rows)) : Reverse(rows)[n] = row)
                 <=> (\E n \in 1..Len(rows) : rows[n] = row)
    <3>1. ASSUME NEW n \in 1..Len(rows) PROVE Reverse(rows)[Len(rows) - n + 1] = rows[n]
      BY <2>1
    <3> QED
      BY <2>1, Zenon
  <2>3. load(caller.role, caller.userType, Reverse(rows)) = load(caller.role, caller.userType, rows)
    <3> DEFINE back == Reverse(rows)
    <3>1. back \in Seq(Grant)
      BY <2>1
    <3>2. \A row \in Grant : Counts(row) =>
            ((\E n \in 1..Len(back) : back[n] = row) <=> (\E n \in 1..Len(rows) : rows[n] = row))
      BY <2>2
    <3> HIDE DEF back
    <3>3. load(caller.role, caller.userType, back) = load(caller.role, caller.userType, rows)
      BY <3>1, <3>2, SameRowsSameAnswer, Zenon
    <3> QED
      BY <3>3 DEF back
  <2> QED
    BY <1>0, <2>3 DEF Effective
<1>2. ASSUME NEW p \in ALL_PERMISSIONS
      PROVE  /\ Says(rows, "DENY", p, "ANY") => ~has(mine, p)
             /\ Says(rows, "ALLOW", p, "ANY") /\ ~Says(rows, "DENY", p, "ANY") => has(mine, p)
             /\ \A o \in Objects : Says(rows, "DENY", p, o) => ~hasOn(mine, p, o)
  <2>1. /\ has(mine, p) <=>
             /\ p \in basePermissionsFor(caller.role, caller.userType) \/ Says(rows, "ALLOW", p, "ANY")
             /\ ~Says(rows, "DENY", p, "ANY")
        /\ \A o \in Objects \ {"ANY"} :
             hasOn(mine, p, o) <=>
               /\ ~Says(rows, "DENY", p, o)
               /\ Says(rows, "ALLOW", p, o) \/ has(mine, p)
    BY <1>0, GrantsAreTold, Zenon
  <2>2. ASSUME Says(rows, "DENY", p, "ANY")
        PROVE  ~hasOn(mine, p, "ANY")
    <3>1. <<p, "ANY">> \notin mine.allowOn
      <4>1. mine.allowOn = Narrowed(rows, Len(rows), "ALLOW")
        BY <1>0, LoadTells
      <4>2. ASSUME NEW k \in 1..Len(rows), rows[k].resource # "ANY"
            PROVE  <<p, "ANY">> # <<rows[k].permission, rows[k].resource>>
        BY <4>2
      <4> QED
        BY <4>1, <4>2, Zenon DEF Narrowed
    <3> QED
      BY <2>1, <2>2, <3>1 DEF hasOn
  <2> QED
    BY <2>1, <2>2
<1>3. ASSUME \A n \in DOMAIN rows : ~Counts(rows[n])
      PROVE  mine = Effective(caller.role, <<>>)
  <2>1. <<>> \in Seq(Grant) /\ Len(<<>>) = 0
    OBVIOUS
  <2>2. ASSUME NEW row \in Grant, Counts(row)
        PROVE  (\E n \in 1..Len(rows) : rows[n] = row) <=> (\E n \in 1..0 : <<>>[n] = row)
    BY <1>3, <2>2
  <2>3. load(caller.role, caller.userType, rows) = load(caller.role, caller.userType, <<>>)
    <3> DEFINE none == <<>>
    <3>1. none \in Seq(Grant) /\ Len(none) = 0
      BY <2>1
    <3>2. \A row \in Grant : Counts(row) =>
            ((\E n \in 1..Len(rows) : rows[n] = row) <=> (\E n \in 1..Len(none) : none[n] = row))
      BY <2>1, <2>2
    <3> HIDE DEF none
    <3>3. load(caller.role, caller.userType, rows) = load(caller.role, caller.userType, none)
      BY <3>1, <3>2, SameRowsSameAnswer, Zenon
    <3> QED
      BY <3>3 DEF none
  <2> QED
    BY <1>0, <2>3 DEF Effective
<1> QED
  BY <1>1, <1>2, <1>3 DEF DenialsWin, mine

\* Of a set of routes, an external user changes things by its own ones only.
ExternalChangesOwn(routes) ==
  \A r \in routes :
    r.writes /\ (r.public \/ r.needs \subseteq EXTERNAL_PERMISSIONS) => r.name \in OwnRoutes

LEMMA RoutesTogether ==
  ASSUME NEW some, NEW others, ExternalChangesOwn(some), ExternalChangesOwn(others)
  PROVE  ExternalChangesOwn(some \cup others)
BY DEF ExternalChangesOwn

LEMMA ReadsChangeNothing ==
  ASSUME NEW names, NEW permission
  PROVE  /\ ExternalChangesOwn(Reads(names, permission))
         /\ ExternalChangesOwn(Public(names, FALSE))
         /\ ExternalChangesOwn(SignedIn(names, FALSE))
BY DEF ExternalChangesOwn, Reads, Guarded, Public, SignedIn

LEMMA OthersWritesAreClosed ==
  ASSUME NEW names, NEW permission, permission \notin EXTERNAL_PERMISSIONS
  PROVE  ExternalChangesOwn(Writes(names, permission))
BY DEF ExternalChangesOwn, Writes, Guarded

LEMMA OwnWritesAreOwn ==
  ASSUME NEW names \in SUBSET OwnRoutes, NEW permission
  PROVE  /\ ExternalChangesOwn(Writes(names, permission))
         /\ ExternalChangesOwn(Public(names, TRUE))
         /\ ExternalChangesOwn(SignedIn(names, TRUE))
BY DEF ExternalChangesOwn, Writes, Guarded, Public, SignedIn

\* No decorator is left off, controller by controller.
LEMMA NoRouteLeftOpen == ExternalChangesOwn(AllRoutes)
<1> USE RoutesTogether, ReadsChangeNothing, OthersWritesAreClosed
<1>0. /\ {"auth.login", "auth.refresh", "auth.logout"} \in SUBSET OwnRoutes
      /\ {"password.forgot", "password.reset"} \in SUBSET OwnRoutes
      /\ {"password.change"} \in SUBSET OwnRoutes
      /\ {"invitations.accept"} \in SUBSET OwnRoutes
      /\ {"orders.status"} \in SUBSET OwnRoutes
  BY DEF OwnRoutes
<1>1. ExternalChangesOwn(AuthRoutes)
  BY <1>0, OwnWritesAreOwn DEF AuthRoutes, EXTERNAL_PERMISSIONS
<1>2. ExternalChangesOwn(PasswordRoutes)
  BY <1>0, OwnWritesAreOwn DEF PasswordRoutes, EXTERNAL_PERMISSIONS
<1>3. ExternalChangesOwn(InvitationRoutes)
  BY <1>0, OwnWritesAreOwn DEF InvitationRoutes, EXTERNAL_PERMISSIONS
<1>4. ExternalChangesOwn(UserRoutes)
  BY DEF UserRoutes, EXTERNAL_PERMISSIONS
<1>5. ExternalChangesOwn(AuthorizationRoutes)
  BY DEF AuthorizationRoutes, EXTERNAL_PERMISSIONS
<1>6. ExternalChangesOwn(AccountRoutes)
  BY DEF AccountRoutes, EXTERNAL_PERMISSIONS
<1>7. ExternalChangesOwn(SiteRoutes)
  BY DEF SiteRoutes, EXTERNAL_PERMISSIONS
<1>8. ExternalChangesOwn(SettingsRoutes)
  BY DEF SettingsRoutes, EXTERNAL_PERMISSIONS
<1>9. ExternalChangesOwn(AuditRoutes)
  BY DEF AuditRoutes, EXTERNAL_PERMISSIONS
<1>10. ExternalChangesOwn(CategoryRoutes)
  BY DEF CategoryRoutes, EXTERNAL_PERMISSIONS
<1>11. ExternalChangesOwn(ProductRoutes)
  BY DEF ProductRoutes, EXTERNAL_PERMISSIONS
<1>12. ExternalChangesOwn(ProductPartRoutes)
  BY DEF ProductPartRoutes, EXTERNAL_PERMISSIONS
<1>13. ExternalChangesOwn(ProductFileRoutes)
  BY DEF ProductFileRoutes, EXTERNAL_PERMISSIONS
<1>14. ExternalChangesOwn(InventoryRoutes)
  BY DEF InventoryRoutes, EXTERNAL_PERMISSIONS
<1>15. ExternalChangesOwn(PricingRoutes)
  BY DEF PricingRoutes, EXTERNAL_PERMISSIONS
<1>16. ExternalChangesOwn(RateCardRoutes)
  BY DEF RateCardRoutes, EXTERNAL_PERMISSIONS
<1>17. ExternalChangesOwn(RateCardItemRoutes)
  BY DEF RateCardItemRoutes, EXTERNAL_PERMISSIONS
<1>18. ExternalChangesOwn(CartRoutes)
  BY DEF CartRoutes, EXTERNAL_PERMISSIONS
<1>19. ExternalChangesOwn(OrderRoutes)
  BY <1>0, OwnWritesAreOwn DEF OrderRoutes, EXTERNAL_PERMISSIONS
<1>20. ExternalChangesOwn(ApprovalRoutes)
  BY DEF ApprovalRoutes, EXTERNAL_PERMISSIONS
<1>21. ExternalChangesOwn(BillingRoutes)
  BY DEF BillingRoutes, EXTERNAL_PERMISSIONS
<1>22. ExternalChangesOwn(InvoiceFileRoutes)
  BY DEF InvoiceFileRoutes, EXTERNAL_PERMISSIONS
<1>23. ExternalChangesOwn(SpendRoutes)
  BY DEF SpendRoutes, EXTERNAL_PERMISSIONS
<1>24. ExternalChangesOwn(OperationRoutes)
  BY DEF OperationRoutes, EXTERNAL_PERMISSIONS
<1>25. ExternalChangesOwn(ReportFileRoutes)
  BY DEF ReportFileRoutes, EXTERNAL_PERMISSIONS
<1>26. ExternalChangesOwn(TemplateRoutes)
  BY DEF TemplateRoutes, EXTERNAL_PERMISSIONS
<1>27. ExternalChangesOwn(TemplateVersionRoutes)
  BY DEF TemplateVersionRoutes, EXTERNAL_PERMISSIONS
<1>28. ExternalChangesOwn(TemplateFileRoutes)
  BY DEF TemplateFileRoutes, EXTERNAL_PERMISSIONS
<1>29. ExternalChangesOwn(CustomiseRoutes)
  BY DEF CustomiseRoutes, EXTERNAL_PERMISSIONS
<1>30. ExternalChangesOwn(HealthRoutes)
  BY DEF HealthRoutes, EXTERNAL_PERMISSIONS
<1> QED
  BY <1>1, <1>2, <1>3, <1>4, <1>5, <1>6, <1>7, <1>8, <1>9, <1>10, <1>11, <1>12, <1>13, <1>14, <1>15,
     <1>16, <1>17, <1>18, <1>19, <1>20, <1>21, <1>22, <1>23, <1>24, <1>25, <1>26, <1>27, <1>28, <1>29, <1>30
  DEF AllRoutes, ExternalChangesOwn

LEMMA RolesAlwaysNested ==
  ASSUME rows \in Seq(Grant), caller.role \in Roles
  PROVE  RolesAreNested
<1>1. ASSUME NEW role
      PROVE  Effective(role, rows).accountWide =
               (basePermissionsFor(role, caller.userType) \cup Named(rows, Len(rows), "ALLOW"))
                 \ Named(rows, Len(rows), "DENY")
  BY LoadTells DEF Effective
<1>2. /\ basePermissionsFor("SITE_USER", caller.userType)
           \subseteq basePermissionsFor("HEAD_OFFICE", caller.userType)
      /\ basePermissionsFor("HEAD_OFFICE", caller.userType)
           \subseteq basePermissionsFor("ADMIN", caller.userType)
  BY DEF basePermissionsFor, HEAD_OFFICE_PERMISSIONS, ALL_PERMISSIONS
<1>3. ASSUME caller.userType = "EXTERNAL", rows = <<>>,
             NEW r \in AllRoutes, r.writes,
             canActivate(r, TRUE, Effective(caller.role, rows))
      PROVE  r.name \in OwnRoutes
  <2>1. 1..Len(rows) = {}
    BY <1>3
  <2>2. Named(rows, Len(rows), "ALLOW") = {}
    BY <2>1, Zenon DEF Named
  <2>3. basePermissionsFor(caller.role, caller.userType) = EXTERNAL_PERMISSIONS
    BY <1>3 DEF basePermissionsFor
  <2>4. Effective(caller.role, rows).accountWide \subseteq EXTERNAL_PERMISSIONS
    BY <1>1, <2>2, <2>3
  <2>5. r.public \/ r.needs \subseteq EXTERNAL_PERMISSIONS
    BY <1>3, <2>4 DEF canActivate, has
  <2> QED
    BY <1>3, <2>5, NoRouteLeftOpen DEF ExternalChangesOwn
<1>4. caller.userType = "EXTERNAL" /\ rows = <<>> =>
        {r.name : r \in {q \in OpenTo(caller.role) : q.writes}} \subseteq OwnRoutes
  BY <1>3 DEF OpenTo
<1> QED
  BY <1>1, <1>2, <1>4 DEF RolesAreNested

LEMMA OrdersAlwaysApart == OrdersStayApart
<1> DEFINE mine == Effective(caller.role, rows)
           me == [user |-> "me", role |-> caller.role, account |-> "mine", sites |-> {"north"}]
<1>1. SUFFICES ASSUME caller.role # "ADMIN"
               PROVE  /\ \A account \in {"own", "mine", "theirs"} :
                           resolveAccountId(me, account) \in {"mine", Refused}
                      /\ \A o \in [account : {"mine", "theirs"}, site : {"north"},
                                  placedBy : {"me", "you"}] :
                           /\ mayRead(me, mine, o) => o.account = "mine"
                           /\ o.placedBy = "me" => ~mayMoveOrder(me, mine, o, "APPROVED")
  BY DEF OrdersStayApart
<1>2. me.role # "ADMIN" /\ me.account = "mine" /\ me.user = "me"
  BY <1>1
<1> HIDE DEF mine, me
<1> QED
  BY <1>2 DEF resolveAccountId, mayRead, mayMoveOrder

CallerInv == rows \in Seq(Grant) /\ caller \in [role : Roles, userType : UserTypes]

(***************************************************************************)
(* For any number of grants of any permissions, people and requests: what  *)
(* a caller may do follows the grants and not their order, roles are       *)
(* nested, no route is left open and orders stay apart; and while grants   *)
(* of one permission do not overlap, a user has one row of each            *)
(* (permission.service.ts, authorization.guard.ts, orders.service.ts).     *)
(***************************************************************************)
THEOREM PermissionsAreFollowed == GrantsSpec => []PermissionsFollowGrants
<1>1. GrantsInit => CallerInv
  BY DEF GrantsInit, CallerInit, CallerInv
<1>2. CallerInv /\ [GrantsNext]_<<staffVars, callerVars>> => CallerInv'
  <2> SUFFICES ASSUME CallerInv, [GrantsNext]_<<staffVars, callerVars>>
               PROVE  CallerInv'
    OBVIOUS
  <2>1. CASE UNCHANGED callerVars
    BY <2>1 DEF CallerInv, callerVars
  <2>2. ASSUME NEW row \in Grant, ReadGrant(row)
        PROVE  CallerInv'
    BY <2>2 DEF CallerInv, ReadGrant
  <2> QED
    BY <2>1, <2>2 DEF GrantsNext
<1>3. GrantsInit => StaffInit
  BY DEF GrantsInit
<1>4. [GrantsNext]_<<staffVars, callerVars>> => [StaffNext]_staffVars
  BY DEF GrantsNext
<1>5. CallerInv => DenialsWin /\ RolesAreNested /\ OrdersStayApart
  BY DenialsAlwaysWin, RolesAlwaysNested, OrdersAlwaysApart DEF CallerInv
<1>6. GrantsSpec => StaffSpec
  BY <1>3, <1>4, PTL DEF GrantsSpec, StaffSpec
<1> QED
  BY <1>1, <1>2, <1>5, <1>6, GrantsAreOneRow, PTL DEF GrantsSpec, PermissionsFollowGrants

\* Routes that need permissions of the catalogue only.
AskOfCatalogue(routes) == \A r \in routes : r.needs \subseteq ALL_PERMISSIONS

LEMMA DecoratorsAskOfCatalogue ==
  ASSUME NEW names, NEW permission \in ALL_PERMISSIONS, NEW writes
  PROVE  /\ AskOfCatalogue(Guarded(names, permission, writes))
         /\ AskOfCatalogue(Public(names, writes))
         /\ AskOfCatalogue(SignedIn(names, writes))
BY DEF AskOfCatalogue, Guarded, Public, SignedIn

LEMMA AskedTogether ==
  ASSUME NEW some, NEW others, AskOfCatalogue(some), AskOfCatalogue(others)
  PROVE  AskOfCatalogue(some \cup others)
BY DEF AskOfCatalogue

\* No decorator asks for what nobody can hold, controller by controller.
LEMMA EveryRouteCanBeOpened == AskOfCatalogue(AllRoutes)
<1> USE DecoratorsAskOfCatalogue, AskedTogether
    DEF Reads, Writes, ALL_PERMISSIONS, HEAD_OFFICE_PERMISSIONS, SITE_USER_PERMISSIONS,
        EXTERNAL_PERMISSIONS
<1>1. AskOfCatalogue(AuthRoutes)
  BY DEF AuthRoutes
<1>2. AskOfCatalogue(PasswordRoutes)
  BY DEF PasswordRoutes
<1>3. AskOfCatalogue(InvitationRoutes)
  BY DEF InvitationRoutes
<1>4. AskOfCatalogue(UserRoutes)
  BY DEF UserRoutes
<1>5. AskOfCatalogue(AuthorizationRoutes)
  BY DEF AuthorizationRoutes
<1>6. AskOfCatalogue(AccountRoutes)
  BY DEF AccountRoutes
<1>7. AskOfCatalogue(SiteRoutes)
  BY DEF SiteRoutes
<1>8. AskOfCatalogue(SettingsRoutes)
  BY DEF SettingsRoutes
<1>9. AskOfCatalogue(AuditRoutes)
  BY DEF AuditRoutes
<1>10. AskOfCatalogue(CategoryRoutes)
  BY DEF CategoryRoutes
<1>11. AskOfCatalogue(ProductRoutes)
  BY DEF ProductRoutes
<1>12. AskOfCatalogue(ProductPartRoutes)
  BY DEF ProductPartRoutes
<1>13. AskOfCatalogue(ProductFileRoutes)
  BY DEF ProductFileRoutes
<1>14. AskOfCatalogue(InventoryRoutes)
  BY DEF InventoryRoutes
<1>15. AskOfCatalogue(PricingRoutes)
  BY DEF PricingRoutes
<1>16. AskOfCatalogue(RateCardRoutes)
  BY DEF RateCardRoutes
<1>17. AskOfCatalogue(RateCardItemRoutes)
  BY DEF RateCardItemRoutes
<1>18. AskOfCatalogue(CartRoutes)
  BY DEF CartRoutes
<1>19. AskOfCatalogue(OrderRoutes)
  BY DEF OrderRoutes
<1>20. AskOfCatalogue(ApprovalRoutes)
  BY DEF ApprovalRoutes
<1>21. AskOfCatalogue(BillingRoutes)
  BY DEF BillingRoutes
<1>22. AskOfCatalogue(InvoiceFileRoutes)
  BY DEF InvoiceFileRoutes
<1>23. AskOfCatalogue(SpendRoutes)
  BY DEF SpendRoutes
<1>24. AskOfCatalogue(OperationRoutes)
  BY DEF OperationRoutes
<1>25. AskOfCatalogue(ReportFileRoutes)
  BY DEF ReportFileRoutes
<1>26. AskOfCatalogue(TemplateRoutes)
  BY DEF TemplateRoutes
<1>27. AskOfCatalogue(TemplateVersionRoutes)
  BY DEF TemplateVersionRoutes
<1>28. AskOfCatalogue(TemplateFileRoutes)
  BY DEF TemplateFileRoutes
<1>29. AskOfCatalogue(CustomiseRoutes)
  BY DEF CustomiseRoutes
<1>30. AskOfCatalogue(HealthRoutes)
  BY DEF HealthRoutes
<1> HIDE DecoratorsAskOfCatalogue, AskedTogether
<1> QED
  BY <1>1, <1>2, <1>3, <1>4, <1>5, <1>6, <1>7, <1>8, <1>9, <1>10, <1>11, <1>12, <1>13, <1>14,
     <1>15, <1>16, <1>17, <1>18, <1>19, <1>20, <1>21, <1>22, <1>23, <1>24, <1>25, <1>26, <1>27,
     <1>28, <1>29, <1>30
  DEF AllRoutes, AskOfCatalogue

(***************************************************************************)
(* The guard of every route follows the grants, in whatever order they     *)
(* are read: who is signed in passes exactly if each permission the route  *)
(* names is the role's or allowed account-wide, and denied account-wide by *)
(* no row that counts.  No route is closed to an administrator who was     *)
(* denied nothing (authorization.guard.ts, the controllers' decorators).   *)
(***************************************************************************)
THEOREM GuardFollowsGrants ==
  ASSUME NEW role, NEW userType, NEW rs \in Seq(Grant), NEW r \in AllRoutes
  PROVE  LET passes == canActivate(r, TRUE, load(role, userType, rs))
         IN  /\ passes <=>
                  \/ r.public
                  \/ \A p \in r.needs :
                       /\ p \in basePermissionsFor(role, userType) \/ Says(rs, "ALLOW", p, "ANY")
                       /\ ~Says(rs, "DENY", p, "ANY")
             /\ role = "ADMIN" /\ userType # "EXTERNAL"
                  /\ (\A p \in ALL_PERMISSIONS : ~Says(rs, "DENY", p, "ANY")) => passes
<1> DEFINE mine == load(role, userType, rs)
<1>1. r.needs \subseteq ALL_PERMISSIONS
  BY EveryRouteCanBeOpened DEF AskOfCatalogue
<1>2. ASSUME NEW p \in r.needs
      PROVE  has(mine, p) <=>
               /\ p \in basePermissionsFor(role, userType) \/ Says(rs, "ALLOW", p, "ANY")
               /\ ~Says(rs, "DENY", p, "ANY")
  BY <1>1, GrantsAreTold, Zenon
<1> HIDE DEF mine
<1>3. canActivate(r, TRUE, mine) <=>
        \/ r.public
        \/ \A p \in r.needs :
             /\ p \in basePermissionsFor(role, userType) \/ Says(rs, "ALLOW", p, "ANY")
             /\ ~Says(rs, "DENY", p, "ANY")
  BY <1>2, Zenon DEF canActivate
<1>4. role = "ADMIN" /\ userType # "EXTERNAL" => basePermissionsFor(role, userType) = ALL_PERMISSIONS
  BY DEF basePermissionsFor
<1> QED
  BY <1>1, <1>3, <1>4 DEF mine
=============================================================================
