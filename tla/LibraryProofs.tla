--------------------------- MODULE LibraryProofs ---------------------------
(***************************************************************************)
(* Proofs about what is sold and on which terms, for any number of cards,  *)
(* versions, products, parts and requests in flight: RateCards, Templates  *)
(* (with the archive it implements), Catalogue and ProductParts; and about *)
(* prices, baskets and answers of any size: Prices and BasketRules.        *)
(***************************************************************************)
EXTENDS Templates, RateCards, Catalogue, ProductParts, Offers, Sums

-----------------------------------------------------------------------------
(***************************************************************************)
(* Rate cards.                                                             *)
(***************************************************************************)
\* What the exclusion constraint of the table keeps, row against row.
ContractsApart ==
  \A c, d \in Cards :
    c # d /\ InForce(c) /\ InForce(d) => ~Overlap(card[c].window, card[d].window)

ArchivedStaysArchived == ~misled => \A c \in retired : card[c].status = "ARCHIVED"

\* A request edits a card that exists.
EditorsReferToCards ==
  \A e \in Editors : editor[e] # Still => card[editor[e].card] # NoCard

CardsInv ==
  /\ RateCardsTypeOK /\ EditorsReferToCards
  /\ ContractsApart /\ ArchivedStaysArchived

LEMMA CardsAreRows ==
  ASSUME RateCardsTypeOK
  PROVE  /\ \A c \in Cards : card[c] # NoCard <=> card[c] \in Card
         /\ \A e \in Editors : editor[e].op # "still" => editor[e] \in Editor
         /\ \A e \in Editors : editor[e] # Still => editor[e] \in Editor
<1>1. NoCard \notin Card
  BY DEF NoCard, Card, CardStatus
<1> QED
  BY <1>1 DEF RateCardsTypeOK, Still

\* A write of a card by id, of a row that keeps an archived card archived.
LEMMA WriteKeepsContracts ==
  ASSUME CardsInv, NEW e \in Editors, editor[e] \in Editor, NEW row \in Card,
         card[editor[e].card].status = editor[e].was.status
           /\ card[editor[e].card].status = "ARCHIVED" => row.status = "ARCHIVED",
         Write(e, row), Set(e, Still), UNCHANGED terms
  PROVE  CardsInv'
<1> DEFINE c == editor[e].card
<1>0. c \in Cards /\ RateCardsTypeOK
  BY DEF Editor, CardsInv
<1>1. misled' \in BOOLEAN /\ (misled => misled')
      /\ (~misled' => card[c].status = editor[e].was.status)
  BY <1>0 DEF Write, RateCardsTypeOK, CardsInv
<1>2. /\ editor' \in [Editors -> Editor \cup {Still}]
      /\ \A f \in Editors : editor'[f] # Still => editor'[f] = editor[f]
  BY <1>0 DEF Set, RateCardsTypeOK
<1>3. CASE UNCHANGED <<card, retired>>
  BY <1>0, <1>1, <1>2, <1>3
  DEF CardsInv, RateCardsTypeOK, EditorsReferToCards, ContractsApart, InForce, Alive,
      ArchivedStaysArchived
<1>4. CASE /\ ConstraintHolds(c, row)
           /\ card' = [card EXCEPT ![c] = row]
           /\ retired' = IF row.status = "ARCHIVED" THEN retired \cup {c} ELSE retired
  <2>1. /\ card'[c] = row /\ \A d \in Cards \ {c} : card'[d] = card[d]
        /\ card' \in [Cards -> Card \cup {NoCard}] /\ retired' \subseteq Cards
    BY <1>0, <1>4 DEF RateCardsTypeOK
  <2>2. RateCardsTypeOK'
    BY <1>0, <1>1, <1>2, <2>1 DEF RateCardsTypeOK
  <2>3. row # NoCard
    BY DEF NoCard, Card, CardStatus
  <2>4. EditorsReferToCards'
    BY <1>0, <1>2, <2>1, <2>3, CardsAreRows DEF EditorsReferToCards, CardsInv, Editor
  <2>5. ContractsApart'
    <3>1. ASSUME NEW d \in Cards \ {c}, InForce(d)', row.status = "ACTIVE", ~row.deleted
          PROVE  ~Overlap(card'[d].window, row.window) /\ ~Overlap(row.window, card'[d].window)
      BY <1>4, <2>1, <3>1 DEF ConstraintHolds, InForce, Alive, Overlap
    <3>2. SUFFICES ASSUME NEW x \in Cards, NEW y \in Cards, x # y, InForce(x)', InForce(y)'
                   PROVE  ~Overlap(card'[x].window, card'[y].window)
      BY DEF ContractsApart, InForce, Alive, Overlap
    <3>3. CASE x # c /\ y # c
      BY <2>1, <3>2, <3>3 DEF CardsInv, ContractsApart, InForce, Alive
    <3>4. CASE x = c
      BY <2>1, <3>1, <3>2, <3>4 DEF InForce, Alive
    <3>5. CASE y = c
      BY <2>1, <3>1, <3>2, <3>5 DEF InForce, Alive
    <3> QED
      BY <3>3, <3>4, <3>5
  <2>6. ArchivedStaysArchived'
    BY <1>1, <1>4, <2>1 DEF ArchivedStaysArchived, CardsInv
  <2> QED
    BY <2>2, <2>4, <2>5, <2>6 DEF CardsInv
<1> QED
  BY <1>3, <1>4 DEF Write

\* A step that leaves the cards alone.
LEMMA CardsLeftAlone ==
  ASSUME CardsInv, UNCHANGED <<card, retired>>, misled' \in BOOLEAN, misled => misled',
         terms' \in [Cards -> [Products -> Terms \cup {NoTerms}]],
         NEW e \in Editors, NEW k \in Editor \cup {Still}, Set(e, k),
         k # Still => card[k.card] # NoCard
  PROVE  CardsInv'
<1>1. RateCardsTypeOK'
  BY DEF CardsInv, RateCardsTypeOK, Set
<1>2. EditorsReferToCards'
  BY DEF CardsInv, RateCardsTypeOK, Set, EditorsReferToCards
<1> QED
  BY <1>1, <1>2 DEF CardsInv, ContractsApart, ArchivedStaysArchived, InForce, Alive

LEMMA CardsStep ==
  ASSUME CardsInv, [RateCardsNext]_cardVars
  PROVE  CardsInv'
<1>0. RateCardsTypeOK /\ EditorsReferToCards
  BY DEF CardsInv
<1>1. CASE UNCHANGED cardVars
  BY <1>1
  DEF CardsInv, RateCardsTypeOK, EditorsReferToCards, ContractsApart, ArchivedStaysArchived,
      InForce, Alive, cardVars
<1>2. ASSUME NEW c \in Cards, NEW window \in Windows,
             NEW given \in [Products -> Terms \cup {NoTerms}], CreateCard(c, window, given)
      PROVE  CardsInv'
  <2> DEFINE row == [status |-> "DRAFT", deleted |-> FALSE, window |-> window]
  <2>1. row \in Card /\ row # NoCard
    BY DEF Card, CardStatus, NoCard
  <2>2. /\ card[c] = NoCard /\ card' = [card EXCEPT ![c] = row]
        /\ UNCHANGED <<editor, retired, misled>>
    BY <1>2 DEF CreateCard
  <2>3. card'[c] = row /\ \A d \in Cards \ {c} : card'[d] = card[d]
    BY <1>0, <2>2 DEF RateCardsTypeOK
  <2>4. RateCardsTypeOK'
    BY <1>0, <1>2, <2>1, <2>2 DEF CreateCard, RateCardsTypeOK
  <2>5. EditorsReferToCards'
    BY <1>0, <2>1, <2>2, <2>3 DEF EditorsReferToCards
  <2>6. ~InForce(c)'
    BY <2>3 DEF InForce
  <2>7. ContractsApart'
    BY <2>3, <2>6 DEF CardsInv, ContractsApart, InForce, Alive
  <2>8. ~misled => c \notin retired
    BY <2>2 DEF CardsInv, ArchivedStaysArchived, NoCard
  <2> QED
    BY <1>0, <2>2, <2>3, <2>4, <2>5, <2>7, <2>8
    DEF CardsInv, ArchivedStaysArchived, RateCardsTypeOK
<1>3. ASSUME NEW e \in Editors, NEW c \in Cards,
             NEW op \in {"update", "status", "items", "removeItem", "remove"}, Begin(e, c, op)
      PROVE  CardsInv'
  <2> DEFINE k == [op |-> op, card |-> c, was |-> card[c]]
  <2>1. k \in Editor /\ card[k.card] # NoCard
    BY <1>0, <1>3, CardsAreRows DEF Begin, Alive, Editor
  <2> QED
    BY <1>0, <1>3, <2>1, CardsLeftAlone DEF Begin, RateCardsTypeOK
<1>4. ASSUME NEW e \in Editors, editor[e] # Still
      PROVE  /\ editor[e] \in Editor /\ editor[e].card \in Cards
             /\ card[editor[e].card] \in Card /\ editor[e].was \in Card
  BY <1>0, <1>4, CardsAreRows DEF EditorsReferToCards, Editor
<1>5. ASSUME NEW e \in Editors, NEW window \in Windows, NEW ends \in SUBSET {"from", "to"},
             UpdateCard(e, window, ends)
      PROVE  CardsInv'
  <2> DEFINE c == editor[e].card
             now == card[c]
             moved == [end \in {"from", "to"} |->
                         IF end \in ends THEN window[end] ELSE now.window[end]]
             row == [now EXCEPT !.window = moved]
  <2>1. editor[e] \in Editor /\ now \in Card
    BY <1>4, <1>5 DEF UpdateCard, Still
  <2>2. moved \in Windows /\ Write(e, row) /\ Set(e, Still) /\ UNCHANGED terms
    BY <1>5 DEF UpdateCard
  <2>3. row \in Card /\ row.status = now.status
    BY <2>1, <2>2 DEF Card
  <2> QED
    BY <2>1, <2>2, <2>3, WriteKeepsContracts
<1>6. ASSUME NEW e \in Editors, NEW to \in CardStatus, ChangeCardStatus(e, to)
      PROVE  CardsInv'
  <2> DEFINE now == card[editor[e].card]
             row == [now EXCEPT !.status = to]
  <2>1. editor[e] \in Editor /\ now \in Card /\ editor[e].was \in Card
    BY <1>4, <1>6 DEF ChangeCardStatus, Still
  <2>2. row \in Card /\ row.status = to
    BY <2>1 DEF Card
  <2>3. editor[e].was.status # "ARCHIVED"
    BY <1>6 DEF ChangeCardStatus, mayStep, ALLOWED_STEPS
  <2> QED
    BY <1>6, <2>1, <2>2, <2>3, WriteKeepsContracts DEF ChangeCardStatus
<1>7. ASSUME NEW e \in Editors, RemoveCard(e)
      PROVE  CardsInv'
  <2> DEFINE row == [card[editor[e].card] EXCEPT !.status = "ARCHIVED", !.deleted = TRUE]
  <2>1. editor[e] \in Editor /\ card[editor[e].card] \in Card
    BY <1>4, <1>7 DEF RemoveCard, Still
  <2>2. row \in Card /\ row.status = "ARCHIVED"
    BY <2>1 DEF Card, CardStatus
  <2> QED
    BY <1>7, <2>1, <2>2, WriteKeepsContracts DEF RemoveCard
<1>8. ASSUME NEW e \in Editors, LeaveEditor(e)
      PROVE  CardsInv'
  BY <1>0, <1>8, CardsLeftAlone DEF LeaveEditor, RateCardsTypeOK
<1>9. ASSUME NEW e \in Editors, NEW given \in [Products -> Terms \cup {NoTerms}],
             NEW replaceAll \in BOOLEAN, SetItems(e, given, replaceAll)
      PROVE  CardsInv'
  <2>1. editor[e].card \in Cards
    BY <1>4, <1>9 DEF SetItems, Still
  <2>2. terms' \in [Cards -> [Products -> Terms \cup {NoTerms}]]
    BY <1>0, <1>9, <2>1 DEF SetItems, RateCardsTypeOK
  <2> QED
    BY <1>0, <1>9, <2>2, CardsLeftAlone DEF SetItems, RateCardsTypeOK
<1>10. ASSUME NEW e \in Editors, NEW p \in Products, RemoveCardItem(e, p)
       PROVE  CardsInv'
  <2>1. terms' \in [Cards -> [Products -> Terms \cup {NoTerms}]]
    BY <1>0, <1>10 DEF RemoveCardItem, RateCardsTypeOK
  <2> QED
    BY <1>0, <1>10, <2>1, CardsLeftAlone DEF RemoveCardItem, RateCardsTypeOK
<1> QED
  BY <1>1, <1>2, <1>3, <1>5, <1>6, <1>7, <1>8, <1>9, <1>10 DEF RateCardsNext

LEMMA CardsStart == RateCardsInit => CardsInv
BY DEF RateCardsInit, CardsInv, RateCardsTypeOK, EditorsReferToCards, ContractsApart,
       ArchivedStaysArchived, InForce, Alive

LEMMA CardsAlways == RateCardsSpec => []CardsInv
BY CardsStart, CardsStep, PTL DEF RateCardsSpec

(***************************************************************************)
(* Cards, their items and requests keep their types.                       *)
(***************************************************************************)
THEOREM RateCardsTypeCorrect == RateCardsSpec => []RateCardsTypeOK
<1>1. CardsInv => RateCardsTypeOK
  BY DEF CardsInv
<1> QED
  BY <1>1, CardsAlways, PTL

(***************************************************************************)
(* On any day at most one contract of the account is in force, and a card  *)
(* once archived stays out of force, unless whoever activated it had read  *)
(* it before (rate-cards.service.ts).                                      *)
(***************************************************************************)
THEOREM NeverTwoContracts == RateCardsSpec => []OneContractAtATime
<1>1. CardsInv => OneContractAtATime
  <2> SUFFICES ASSUME CardsInv PROVE OneContractAtATime
    OBVIOUS
  <2>1. ASSUME NEW day \in Days PROVE Cardinality(Covering(day)) <= 1
    <3>1. ASSUME NEW c \in Covering(day), NEW d \in Covering(day) PROVE c = d
      <4>1. /\ c \in Cards /\ InForce(c) /\ card[c] \in Card
            /\ d \in Cards /\ InForce(d) /\ card[d] \in Card
        BY CardsAreRows DEF Covering, InForce, Alive, CardsInv
      <4>2. /\ card[c].window.from \in Nat /\ card[c].window.to \in Nat
            /\ card[d].window.from \in Nat /\ card[d].window.to \in Nat /\ day \in Nat
        BY <4>1, DayAssumption DEF Card, Windows, Days
      <4>3. Overlap(card[c].window, card[d].window)
        BY <4>2 DEF Covering, Overlap
      <4> QED
        BY <4>1, <4>3 DEF CardsInv, ContractsApart
    <3>2. CASE Covering(day) = {}
      BY <3>2, FS_EmptySet
    <3>3. CASE Covering(day) # {}
      <4>1. PICK c \in Covering(day) : Covering(day) = {c}
        BY <3>1, <3>3
      <4> QED
        BY <4>1, FS_Singleton
    <3> QED
      BY <3>2, <3>3
  <2> QED
    BY <2>1 DEF OneContractAtATime, CardsInv, ArchivedStaysArchived
<1> QED
  BY <1>1, CardsAlways, PTL

-----------------------------------------------------------------------------
(***************************************************************************)
(* Templates.                                                              *)
(***************************************************************************)
\* What a request has read still says which document its number means.
DeskTellsTruth(k) ==
  /\ k.op \in {"snapshot", "publish"} =>
       k.version <= template.version /\ k.document = drafted[k.version]
  /\ k.op = "publish" => k.document \in Printable

\* A number beyond the draft's is not in use yet.
NothingAhead ==
  /\ \A n \in Numbers : n > template.version => versions[n] = Unkept
  /\ \A pin \in pinned : pin.version <= template.version

\* What is pointed at was kept to be shown, whatever became of the template since.
PointerIsKept ==
  template.published # 0 =>
    /\ versions[template.published] = drafted[template.published]
    /\ versions[template.published] \in Printable
    /\ template.published <= template.version

TemplatesInv ==
  /\ TemplatesTypeOK /\ NumbersMeanDocuments /\ NothingAhead /\ PointerIsKept
  /\ template.status = "PUBLISHED" => template.published # 0
  /\ \A d \in Desks : DeskTellsTruth(desk[d])

LEMMA DeskShapes ==
  ASSUME TemplatesTypeOK, NEW d \in Desks
  PROVE  /\ desk[d].op = "edit" => desk[d].document \in Documents
         /\ desk[d].op \in {"snapshot", "publish"} =>
              desk[d].document \in Documents /\ desk[d].version \in Numbers
         /\ desk[d].op = "status" => desk[d].to \in TemplateStatus \ {"PUBLISHED"}
         /\ desk[d].op = "restore" => desk[d].document \in Documents
         /\ desk[d].op = "visibility" => desk[d].to \in Audience
BY DEF TemplatesTypeOK, Desk, Clear

\* A request takes what it has read, or is done.
LEMMA DeskStep ==
  ASSUME TemplatesInv, NEW d \in Desks, NEW k \in Desk, At(d, k), DeskTellsTruth(k),
         UNCHANGED <<template, versions, pinned, drafted>>
  PROVE  TemplatesInv'
<1>1. TemplatesTypeOK'
  BY DEF TemplatesInv, TemplatesTypeOK, At
<1>2. \A e \in Desks : desk'[e] = desk[e] \/ desk'[e] = k
  BY DEF TemplatesInv, TemplatesTypeOK, At
<1>3. \A e \in Desks : DeskTellsTruth(desk[e])'
  BY <1>2 DEF TemplatesInv, DeskTellsTruth
<1> QED
  BY <1>1, <1>3 DEF TemplatesInv, NumbersMeanDocuments, NothingAhead, PointerIsKept

\* A write of anything but the draft.
LEMMA TemplateWriteStep ==
  ASSUME TemplatesInv, NEW d \in Desks, At(d, Clear), UNCHANGED <<pinned, drafted>>,
         template' \in Template, template'.document = template.document,
         template'.version = template.version,
         versions' \in [Numbers -> Documents \cup {Unkept}],
         \A n \in Numbers : \/ versions'[n] = versions[n]
                            \/ versions'[n] = drafted[n] /\ n <= template.version,
         PointerIsKept', template'.status = "PUBLISHED" => template'.published # 0
  PROVE  TemplatesInv'
<1>1. Clear \in Desk
  BY DEF Desk
<1>2. TemplatesTypeOK'
  BY <1>1 DEF TemplatesInv, TemplatesTypeOK, At
<1>3. \A e \in Desks : desk'[e] = desk[e] \/ desk'[e] = Clear
  BY DEF TemplatesInv, TemplatesTypeOK, At
<1>4. \A e \in Desks : DeskTellsTruth(desk[e])'
  BY <1>3 DEF TemplatesInv, DeskTellsTruth, Clear
<1>5. NumbersMeanDocuments'
  BY DEF TemplatesInv, NumbersMeanDocuments
<1>6. template.version \in Nat /\ \A n \in Numbers : n \in Nat
  BY DEF TemplatesInv, TemplatesTypeOK, Template, Numbers
<1>7. NothingAhead'
  BY <1>6 DEF TemplatesInv, NothingAhead
<1> QED
  BY <1>2, <1>4, <1>5, <1>7 DEF TemplatesInv

\* A write of the draft, under the next number.
LEMMA SaveStep ==
  ASSUME TemplatesInv, NEW d \in Desks, At(d, Clear), NEW document \in Documents,
         SaveDraft(document), UNCHANGED <<versions, pinned>>
  PROVE  TemplatesInv'
<1> DEFINE next == template.version + 1
<1>1. /\ template \in Template /\ template.version \in Numbers /\ template.version \in Nat
      /\ next \in Numbers
  BY VersionAssumption DEF TemplatesInv, TemplatesTypeOK, Template, Numbers, SaveDraft
<1>2. /\ template' = [template EXCEPT !.document = document, !.version = next]
      /\ drafted' = [drafted EXCEPT ![next] = document]
  BY DEF SaveDraft
<1>3. /\ template' \in Template
      /\ template'.document = document /\ template'.version = next
      /\ template'.status = template.status /\ template'.published = template.published
  BY <1>1, <1>2 DEF Template
<1>4. /\ drafted' \in [Numbers -> Documents \cup {Unkept}]
      /\ drafted'[next] = document
      /\ \A n \in Numbers : n <= template.version => drafted'[n] = drafted[n]
      /\ \A n \in Numbers : n # next => drafted'[n] = drafted[n]
  BY <1>1, <1>2 DEF TemplatesInv, TemplatesTypeOK
<1>5. Clear \in Desk
  BY DEF Desk
<1>6. TemplatesTypeOK'
  BY <1>3, <1>4, <1>5 DEF TemplatesInv, TemplatesTypeOK, At
<1>7. \A e \in Desks : desk'[e] = desk[e] \/ desk'[e] = Clear
  BY DEF TemplatesInv, TemplatesTypeOK, At
<1>8. \A n \in Numbers : n \in Nat
  BY DEF Numbers
<1>9. ASSUME NEW e \in Desks PROVE DeskTellsTruth(desk[e])'
  <2>1. CASE desk'[e] = Clear
    BY <2>1 DEF DeskTellsTruth, Clear
  <2>2. CASE desk'[e] = desk[e]
    <3>1. desk[e].op \in {"snapshot", "publish"} => desk[e].version \in Numbers
      BY DeskShapes DEF TemplatesInv
    <3>2. DeskTellsTruth(desk[e])
      BY DEF TemplatesInv
    <3> QED
      BY <1>1, <1>3, <1>4, <1>8, <2>2, <3>1, <3>2 DEF DeskTellsTruth
  <2> QED
    BY <1>7, <2>1, <2>2
<1>10. \A pin \in pinned : pin.version \in Numbers /\ pin.version <= template.version
  BY DEF TemplatesInv, TemplatesTypeOK, Pin, NothingAhead
<1>11. NumbersMeanDocuments'
  BY <1>1, <1>3, <1>4, <1>8, <1>10 DEF TemplatesInv, NumbersMeanDocuments, NothingAhead
<1>12. NothingAhead'
  BY <1>1, <1>3, <1>8, <1>10 DEF TemplatesInv, NothingAhead
<1>13. template.published \in Numbers \cup {0}
  BY <1>1 DEF Template
<1>14. PointerIsKept'
  BY <1>1, <1>3, <1>4, <1>8, <1>13 DEF TemplatesInv, PointerIsKept
<1> QED
  BY <1>3, <1>6, <1>9, <1>11, <1>12, <1>14 DEF TemplatesInv

\* The steps that find the template, and those that give up.
FindsTemplate(d) ==
  \/ \E document \in Documents, checked \in BOOLEAN : OpenDraft(d, document, checked)
  \/ BeginSnapshot(d) \/ BeginPublish(d) \/ ReadAgain(d)
  \/ \E to \in TemplateStatus : BeginStatus(d, to)
  \/ \E n \in Numbers : BeginRestore(d, n)
  \/ Take(d, [op |-> "remove"])
  \/ \E to \in Audience : Take(d, [op |-> "visibility", to |-> to])
  \/ LeaveDesk(d)

LEMMA FindingTellsTruth ==
  ASSUME TemplatesInv, NEW d \in Desks, FindsTemplate(d)
  PROVE  TemplatesInv' /\ UNCHANGED <<template, versions>>
<1>1. /\ TemplatesTypeOK
      /\ template.document \in Documents /\ template.version \in Numbers
      /\ template.document = drafted[template.version]
      /\ template.version <= template.version
  BY VersionAssumption DEF TemplatesInv, TemplatesTypeOK, NumbersMeanDocuments, Template, Numbers
<1>2. ASSUME NEW k \in Desk, Take(d, k), DeskTellsTruth(k) PROVE TemplatesInv'
  BY <1>2, DeskStep DEF Take
<1>3. ASSUME NEW document \in Documents, NEW checked \in BOOLEAN, OpenDraft(d, document, checked)
      PROVE  TemplatesInv'
  <2> DEFINE k == [op |-> "edit", document |-> document,
                   expected |-> IF checked THEN template.version ELSE 0]
  <2>1. k \in Desk /\ DeskTellsTruth(k)
    BY <1>1 DEF Desk, DeskTellsTruth
  <2> QED
    BY <1>2, <1>3, <2>1 DEF OpenDraft
<1>4. ASSUME BeginSnapshot(d) PROVE TemplatesInv'
  <2> DEFINE k == [op |-> "snapshot", version |-> template.version, document |-> template.document]
  <2>1. k \in Desk /\ DeskTellsTruth(k)
    BY <1>1 DEF Desk, DeskTellsTruth
  <2> QED
    BY <1>2, <1>4, <2>1 DEF BeginSnapshot
<1>5. ASSUME BeginPublish(d) PROVE TemplatesInv'
  <2>1. [op |-> "publishing"] \in Desk /\ DeskTellsTruth([op |-> "publishing"])
    BY DEF Desk, DeskTellsTruth
  <2> QED
    BY <1>2, <1>5, <2>1 DEF BeginPublish
<1>6. ASSUME ReadAgain(d) PROVE TemplatesInv'
  <2> DEFINE k == [op |-> "publish", version |-> template.version, document |-> template.document]
  <2>1. k \in Desk /\ DeskTellsTruth(k)
    BY <1>1, <1>6 DEF Desk, DeskTellsTruth, ReadAgain
  <2> QED
    BY <1>6, <2>1, DeskStep DEF ReadAgain
<1>7. ASSUME NEW to \in TemplateStatus, BeginStatus(d, to) PROVE TemplatesInv'
  <2>1. [op |-> "status", to |-> to] \in Desk /\ DeskTellsTruth([op |-> "status", to |-> to])
    BY <1>7 DEF Desk, DeskTellsTruth, BeginStatus
  <2> QED
    BY <1>2, <1>7, <2>1 DEF BeginStatus
<1>8. ASSUME NEW n \in Numbers, BeginRestore(d, n) PROVE TemplatesInv'
  <2> DEFINE k == [op |-> "restore", document |-> versions[n]]
  <2>1. k \in Desk /\ DeskTellsTruth(k)
    BY <1>1, <1>8 DEF Desk, DeskTellsTruth, BeginRestore, TemplatesTypeOK
  <2> QED
    BY <1>2, <1>8, <2>1 DEF BeginRestore
<1>9. ASSUME Take(d, [op |-> "remove"]) PROVE TemplatesInv'
  <2>1. [op |-> "remove"] \in Desk /\ DeskTellsTruth([op |-> "remove"])
    BY DEF Desk, DeskTellsTruth
  <2> QED
    BY <1>2, <1>9, <2>1
<1>10. ASSUME NEW to \in Audience, Take(d, [op |-> "visibility", to |-> to]) PROVE TemplatesInv'
  <2>1. /\ [op |-> "visibility", to |-> to] \in Desk
        /\ DeskTellsTruth([op |-> "visibility", to |-> to])
    BY DEF Desk, DeskTellsTruth
  <2> QED
    BY <1>2, <1>10, <2>1
<1>11. ASSUME LeaveDesk(d) PROVE TemplatesInv'
  <2>1. Clear \in Desk /\ DeskTellsTruth(Clear)
    BY DEF Desk, DeskTellsTruth, Clear
  <2> QED
    BY <1>11, <2>1, DeskStep DEF LeaveDesk
<1>12. UNCHANGED <<template, versions>>
  BY DEF FindsTemplate, OpenDraft, BeginSnapshot, BeginPublish, ReadAgain, BeginStatus,
         BeginRestore, LeaveDesk, Take
<1> QED
  BY <1>3, <1>4, <1>5, <1>6, <1>7, <1>8, <1>9, <1>10, <1>11, <1>12 DEF FindsTemplate

\* The steps that keep a version: the only ones that write the history.
LEMMA SnapshotStep ==
  ASSUME TemplatesInv, NEW d \in Desks, Snapshot(d)
  PROVE  TemplatesInv' /\ [Archive!ArchiveNext]_<<versions, template.published>>
<1> DEFINE k == desk[d]
<1>1. /\ TemplatesTypeOK /\ k.document \in Documents /\ k.version \in Numbers
      /\ k.version <= template.version /\ k.document = drafted[k.version]
  BY DeskShapes DEF TemplatesInv, DeskTellsTruth, Snapshot
<1>2. CASE versions[k.version] = Unkept
  <2>1. versions' = [versions EXCEPT ![k.version] = k.document] /\ UNCHANGED template
    BY <1>2 DEF Snapshot
  <2>2. /\ versions' \in [Numbers -> Documents \cup {Unkept}]
        /\ \A n \in Numbers : \/ versions'[n] = versions[n]
                              \/ versions'[n] = drafted[n] /\ n <= template.version
    BY <1>1, <2>1 DEF TemplatesTypeOK
  <2>3. template.published \in Numbers \cup {0}
    BY <1>1 DEF TemplatesTypeOK, Template
  <2>4. PointerIsKept'
    <3>1. CASE template.published = k.version
      BY <1>1, <1>2, <2>1, <3>1 DEF TemplatesInv, PointerIsKept, TemplatesTypeOK, Snapshot
    <3>2. CASE template.published # k.version
      BY <1>1, <2>1, <2>3, <3>2 DEF TemplatesInv, PointerIsKept, TemplatesTypeOK, Snapshot
    <3> QED
      BY <3>1, <3>2
  <2>5. TemplatesInv'
    BY <1>1, <2>1, <2>2, <2>4, TemplateWriteStep
    DEF Snapshot, TemplatesTypeOK, TemplatesInv
  <2> QED
    BY <1>1, <1>2, <2>1, <2>5 DEF Archive!ArchiveNext, Archive!Keep
<1>3. CASE versions[k.version] # Unkept
  <2>1. UNCHANGED <<template, versions>>
    BY <1>1, <1>3 DEF Snapshot, TemplatesTypeOK
  <2>2. TemplatesInv'
    BY <1>1, <2>1, TemplateWriteStep
    DEF Snapshot, TemplatesTypeOK, TemplatesInv, PointerIsKept
  <2> QED
    BY <2>1, <2>2
<1> QED
  BY <1>2, <1>3

LEMMA PublishStep ==
  ASSUME TemplatesInv, NEW d \in Desks, Publish(d)
  PROVE  TemplatesInv' /\ [Archive!ArchiveNext]_<<versions, template.published>>
<1> DEFINE k == desk[d]
<1>1. /\ TemplatesTypeOK /\ k.document \in Documents /\ k.version \in Numbers
      /\ k.version <= template.version /\ k.document = drafted[k.version]
      /\ k.document \in Printable
  BY DeskShapes DEF TemplatesInv, DeskTellsTruth, Publish
<1>2. CASE UNCHANGED <<template, versions>>
  <2>1. TemplatesInv'
    BY <1>1, <1>2, TemplateWriteStep
    DEF Publish, TemplatesTypeOK, TemplatesInv, PointerIsKept
  <2> QED
    BY <1>2, <2>1
<1>3. CASE /\ versions[k.version] = Unkept
           /\ versions' = [versions EXCEPT ![k.version] = k.document]
           /\ template' = [template EXCEPT !.status = "PUBLISHED", !.published = k.version]
  <2>1. /\ template' \in Template
        /\ template'.document = template.document /\ template'.version = template.version
        /\ template'.published = k.version
    BY <1>1, <1>3 DEF TemplatesTypeOK, Template, TemplateStatus
  <2>2. /\ versions' \in [Numbers -> Documents \cup {Unkept}]
        /\ versions'[k.version] = k.document
        /\ \A n \in Numbers : \/ versions'[n] = versions[n]
                              \/ versions'[n] = drafted[n] /\ n <= template.version
    BY <1>1, <1>3 DEF TemplatesTypeOK
  <2>3. PointerIsKept'
    BY <1>1, <2>1, <2>2 DEF PointerIsKept, Publish
  <2>4. k.version # 0
    BY <1>1 DEF Numbers
  <2>5. TemplatesInv'
    BY <2>1, <2>2, <2>3, <2>4, TemplateWriteStep DEF Publish
  <2> QED
    BY <1>1, <1>3, <2>1, <2>5 DEF Archive!ArchiveNext, Archive!Keep
<1> QED
  BY <1>2, <1>3 DEF Publish

\* The other writes: of the draft, the standing or the audience.
LEMMA EditStep ==
  ASSUME TemplatesInv, NEW d \in Desks,
         UpdateTemplate(d) \/ ChangeStatus(d) \/ RestoreVersion(d)
           \/ RemoveTemplate(d) \/ SetVisibility(d)
  PROVE  TemplatesInv' /\ UNCHANGED <<versions, template.published>>
<1>1. TemplatesTypeOK /\ template \in Template
  BY DEF TemplatesInv, TemplatesTypeOK
<1>2. ASSUME At(d, Clear), UNCHANGED <<versions, pinned, drafted>>, template' \in Template,
             template'.document = template.document, template'.version = template.version,
             template'.published = template.published,
             template'.status = "PUBLISHED" => template.status = "PUBLISHED"
      PROVE  TemplatesInv' /\ UNCHANGED <<versions, template.published>>
  BY <1>1, <1>2, TemplateWriteStep DEF TemplatesInv, TemplatesTypeOK, PointerIsKept
<1>3. ASSUME NEW document \in Documents, SaveDraft(document), At(d, Clear),
             UNCHANGED <<versions, pinned>>
      PROVE  TemplatesInv' /\ UNCHANGED <<versions, template.published>>
  <2>1. template'.published = template.published
    BY <1>1, <1>3 DEF SaveDraft, Template
  <2> QED
    BY <1>3, <2>1, SaveStep
<1>4. CASE UpdateTemplate(d)
  <2>1. CASE UNCHANGED <<template, drafted>>
    BY <1>1, <1>2, <1>4, <2>1 DEF UpdateTemplate
  <2>2. CASE SaveDraft(desk[d].document)
    BY <1>1, <1>3, <1>4, <2>2, DeskShapes DEF UpdateTemplate
  <2> QED
    BY <1>4, <2>1, <2>2 DEF UpdateTemplate
<1>5. CASE ChangeStatus(d)
  <2>1. desk[d].to \in TemplateStatus \ {"PUBLISHED"}
    BY <1>1, <1>5, DeskShapes DEF ChangeStatus
  <2> QED
    BY <1>1, <1>2, <1>5, <2>1 DEF ChangeStatus, Template
<1>6. CASE RestoreVersion(d)
  BY <1>1, <1>3, <1>6, DeskShapes DEF RestoreVersion
<1>7. CASE RemoveTemplate(d)
  <2>1. CASE Take(d, [op |-> "remove"])
    BY <2>1, FindingTellsTruth DEF FindsTemplate
  <2>2. CASE ~Take(d, [op |-> "remove"])
    BY <1>1, <1>2, <1>7, <2>2 DEF RemoveTemplate, Template, TemplateStatus
  <2> QED
    BY <2>1, <2>2
<1>8. CASE SetVisibility(d)
  <2>1. CASE \E to \in Audience : Take(d, [op |-> "visibility", to |-> to])
    BY <2>1, FindingTellsTruth DEF FindsTemplate
  <2>2. CASE ~ \E to \in Audience : Take(d, [op |-> "visibility", to |-> to])
    <3>1. desk[d].to \in Audience
      BY <1>1, <1>8, <2>2, DeskShapes DEF SetVisibility
    <3> QED
      BY <1>1, <1>2, <1>8, <2>2, <3>1 DEF SetVisibility, Template
  <2> QED
    BY <2>1, <2>2
<1> QED
  BY <1>4, <1>5, <1>6, <1>7, <1>8

\* An order points at what is on show.
LEMMA CustomiseStep ==
  ASSUME TemplatesInv, NEW account \in Accounts, Customise(account)
  PROVE  TemplatesInv'
<1> DEFINE pin == [version |-> template.published, document |-> versions[template.published]]
<1>1. pin \in Pin /\ pin.version <= template.version /\ pin.document = drafted[pin.version]
  BY PrintableAssumption
  DEF TemplatesInv, TemplatesTypeOK, PointerIsKept, Customise, Template, Pin
<1>2. pinned' = pinned \cup {pin} /\ UNCHANGED <<template, versions, desk, drafted>>
  BY DEF Customise
<1>3. \A d \in Desks : DeskTellsTruth(desk[d])'
  BY <1>2 DEF TemplatesInv, DeskTellsTruth
<1> QED
  BY <1>1, <1>2, <1>3
  DEF TemplatesInv, TemplatesTypeOK, NumbersMeanDocuments, NothingAhead, PointerIsKept

LEMMA TemplatesStep ==
  ASSUME TemplatesInv, [TemplatesNext]_templateVars
  PROVE  TemplatesInv' /\ [Archive!ArchiveNext]_<<versions, template.published>>
<1>1. CASE UNCHANGED templateVars
  <2>1. \A d \in Desks : DeskTellsTruth(desk[d])'
    BY <1>1 DEF TemplatesInv, DeskTellsTruth, templateVars
  <2> QED
    BY <1>1, <2>1
    DEF TemplatesInv, TemplatesTypeOK, NumbersMeanDocuments, NothingAhead, PointerIsKept,
        templateVars
<1>2. CASE TemplatesNext
  <2>1. CASE \E account \in Accounts : Customise(account)
    BY <2>1, CustomiseStep DEF Customise
  <2>2. ASSUME NEW d \in Desks, FindsTemplate(d)
        PROVE  TemplatesInv' /\ [Archive!ArchiveNext]_<<versions, template.published>>
    BY <2>2, FindingTellsTruth
  <2> QED
    BY <1>2, <2>1, <2>2, SnapshotStep, PublishStep, EditStep DEF TemplatesNext, FindsTemplate
<1> QED
  BY <1>1, <1>2

LEMMA TemplatesStart == TemplatesInit => TemplatesInv /\ Archive!ArchiveInit
<1> SUFFICES ASSUME TemplatesInit PROVE TemplatesInv /\ Archive!ArchiveInit
  OBVIOUS
<1>1. PICK document \in Documents :
        template = [document |-> document, version |-> 1, status |-> "DRAFT",
                    deleted |-> FALSE, published |-> 0, audience |-> Everyone]
        /\ drafted = [n \in Numbers |-> IF n = 1 THEN document ELSE Unkept]
  BY DEF TemplatesInit
<1>2. /\ versions = [n \in Numbers |-> Unkept] /\ desk = [d \in Desks |-> Clear] /\ pinned = {}
  BY DEF TemplatesInit
<1>3. 1 \in Numbers
  BY VersionAssumption DEF Numbers
<1>4. template \in Template
  BY <1>1, <1>3 DEF Template, TemplateStatus, Audience, Everyone
<1>5. TemplatesTypeOK
  BY <1>1, <1>2, <1>4 DEF TemplatesTypeOK, Desk
<1> QED
  BY <1>1, <1>2, <1>3, <1>5
  DEF TemplatesInv, NumbersMeanDocuments, NothingAhead, PointerIsKept, DeskTellsTruth, Clear,
      Archive!ArchiveInit

LEMMA TemplatesAlways == TemplatesSpec => []TemplatesInv
BY TemplatesStart, TemplatesStep, PTL DEF TemplatesSpec

(***************************************************************************)
(* The template, its versions, what was ordered from it and the requests   *)
(* keep their types.                                                       *)
(***************************************************************************)
THEOREM TemplatesTypeCorrect == TemplatesSpec => []TemplatesTypeOK
<1>1. TemplatesInv => TemplatesTypeOK
  BY DEF TemplatesInv
<1> QED
  BY <1>1, TemplatesAlways, PTL

(***************************************************************************)
(* A version number means one document wherever it appears, and what is on *)
(* show can be printed, whatever designers do to the draft meanwhile       *)
(* (templates.service.ts).                                                 *)
(***************************************************************************)
THEOREM ShownIsPrintable == TemplatesSpec => []ShownMeansPrintable
<1>1. TemplatesInv => ShownMeansPrintable
  BY DEF TemplatesInv, ShownMeansPrintable, ShowsPrintable, PointerIsKept
<1> QED
  BY <1>1, TemplatesAlways, PTL

(***************************************************************************)
(* The history of a template implements the archive that orders rely on:   *)
(* versions are added one at a time, under numbers not used before, and    *)
(* the storefront points at one that was just kept to be shown.            *)
(***************************************************************************)
THEOREM HistoryIsAnArchive == TemplatesSpec => KeepsArchive
BY TemplatesStart, TemplatesStep, TemplatesAlways, PTL
DEF TemplatesSpec, KeepsArchive, Archive!ArchiveSpec

-----------------------------------------------------------------------------
(***************************************************************************)
(* Products and categories.                                                *)
(***************************************************************************)
\* A request changes a row that exists; rows are never taken out.
RefersToRow(k) ==
  /\ k.op \in {"move", "status", "remove", "restrict"} => item[k.item] # NoItem
  /\ k.op = "import" /\ k.found # Nil => item[k.found] # NoItem
MerchantsReferToRows == \A m \in Merchants : RefersToRow(merchant[m])

\* A request that has nothing to write, or an import between two rows.
BetweenRows(k) == k.op \in {"idle", "file"}

CatalogueInv == CatalogueTypeOK /\ MerchantsReferToRows /\ CatalogueIsSound

LEMMA ItemsAreRows ==
  ASSUME CatalogueTypeOK
  PROVE  \A i \in Items : item[i] # NoItem <=> item[i] \in Item
<1>1. NoItem \notin Item
  BY DEF NoItem, Item, ProductStatus
<1> QED
  BY <1>1 DEF CatalogueTypeOK

LEMMA MerchantShapes ==
  ASSUME NEW k \in Merchant
  PROVE  /\ k.op = "create" => k.sku \in Skus /\ k.category \in Categories
         /\ k.op = "move" => k.item \in Items /\ k.category \in Categories
         /\ k.op = "status" => /\ k.item \in Items
                               /\ k.from \in ProductStatus /\ k.to \in ProductStatus
                               /\ k.successor \in Items \cup {Nil}
         /\ k.op = "remove" => k.item \in Items
         /\ k.op = "restrict" => k.item \in Items /\ k.firms \in SUBSET Firms
         /\ k.op = "variant" => k.sku \in Skus
         /\ k.op \in {"deactivate", "file"} => k.category \in Categories
         /\ k.op = "import" => /\ k.category \in Categories /\ k.sku \in Skus
                               /\ k.found \in Items \cup {Nil}
BY DEF Merchant, Request, Idle

\* What every write of a request does, whatever it writes.
LEMMA CommitStep ==
  ASSUME CatalogueTypeOK, NEW m \in Merchants, NEW op, Commit(m, op)
  PROVE  /\ merchant[m] \in Merchant
         /\ merchant' \in [Merchants -> Merchant] /\ overlapped' \in BOOLEAN
         /\ \A n \in Merchants : BetweenRows(merchant'[n]) \/ merchant'[n] = merchant[n]
         /\ ~overlapped' => ~overlapped /\ Holds(merchant[m])
<1>1. Idle \in Merchant
  BY DEF Merchant
<1>2. merchant \in [Merchants -> Merchant] /\ overlapped \in BOOLEAN
  BY DEF CatalogueTypeOK
<1>3. /\ merchant' = [merchant EXCEPT ![m] = Idle]
      /\ overlapped' = (overlapped \/ ~Holds(merchant[m]))
  BY DEF Commit
<1>4. overlapped' \in BOOLEAN
  BY <1>2, <1>3
<1>5. ASSUME ~overlapped'
      PROVE  ~overlapped /\ Holds(merchant[m])
  BY <1>3, <1>5
<1>6. BetweenRows(Idle)
  BY DEF BetweenRows, Idle
<1> QED
  BY <1>1, <1>2, <1>3, <1>4, <1>5, <1>6

\* The requests left in flight still refer to rows, when rows only grow.
LEMMA ReferencesLast ==
  ASSUME CatalogueTypeOK, MerchantsReferToRows,
         \A i \in Items : item[i] # NoItem => item'[i] # NoItem,
         \A n \in Merchants : BetweenRows(merchant'[n]) \/ merchant'[n] = merchant[n]
  PROVE  MerchantsReferToRows'
<1> SUFFICES ASSUME NEW n \in Merchants
             PROVE  RefersToRow(merchant[n])'
  BY DEF MerchantsReferToRows
<1>1. CASE BetweenRows(merchant'[n])
  BY <1>1 DEF BetweenRows, RefersToRow
<1>2. CASE merchant'[n] = merchant[n]
  <2>1. RefersToRow(merchant[n]) /\ merchant[n] \in Merchant
    BY DEF MerchantsReferToRows, CatalogueTypeOK
  <2> QED
    BY <1>2, <2>1, MerchantShapes DEF RefersToRow
<1> QED
  BY <1>1, <1>2

\* A write of one product by id.  It leads on to another product only when
\* that one leads nowhere itself, so that it closes no circle.
LEMMA WriteOneItem ==
  ASSUME CatalogueInv, NEW i \in Items, item[i] # NoItem,
         NEW row \in Item, row.sku = item[i].sku, row.imported = item[i].imported,
         item' = [item EXCEPT ![i] = row], UNCHANGED <<variantSku, category>>,
         merchant' \in [Merchants -> Merchant], overlapped' \in BOOLEAN,
         \A n \in Merchants : BetweenRows(merchant'[n]) \/ merchant'[n] = merchant[n],
         ~overlapped' =>
           /\ ~overlapped
           /\ ~row.deleted => category[row.category] # "DELETED"
           /\ row.deleted \/ row.status = "DRAFT" => \A j \in Items : Successor(j) # i
           /\ row.status = "SUPERSEDED" <=> row.successor # Nil
           /\ \/ row.successor \in {item[i].successor, Nil}
              \/ assertUsableSuccessor(i, row.successor)
  PROVE  CatalogueInv'
<1> USE DEF CatalogueInv
<1>1. /\ item \in [Items -> Item \cup {NoItem}] /\ row # NoItem
      /\ \A j \in Items : item'[j] = IF j = i THEN row ELSE item[j]
  <2>1. item \in [Items -> Item \cup {NoItem}]
    BY DEF CatalogueTypeOK
  <2>2. row # NoItem
    BY DEF NoItem, Item, ProductStatus
  <2> QED
    BY <2>1, <2>2
<1>2. CatalogueTypeOK'
  BY <1>1 DEF CatalogueTypeOK
<1>3. MerchantsReferToRows'
  BY <1>1, ReferencesLast
<1>4. \A j \in Items : /\ item'[j] = NoItem <=> item[j] = NoItem
                       /\ item[j] # NoItem => /\ item'[j].sku = item[j].sku
                                              /\ item'[j].imported = item[j].imported
  BY <1>1
<1>5. EverythingIsFound'
  <2>1. EverythingIsFound
    BY DEF CatalogueIsSound
  <2>2. ASSUME ~overlapped', NEW j \in Items, item'[j] # NoItem, item'[j].sku \in variantSku'
        PROVE  item'[j].imported
    BY <1>4, <2>1, <2>2 DEF EverythingIsFound
  <2>3. \A j, l \in Items : item'[j] # NoItem /\ item'[l] # NoItem /\ item'[j].sku = item'[l].sku
                              => j = l
    BY <1>4, <2>1 DEF EverythingIsFound
  <2>4. ASSUME ~overlapped', NEW j \in Items, Listed(j)'
        PROVE  category'[item'[j].category] # "DELETED"
    BY <1>1, <2>1, <2>4 DEF EverythingIsFound, Listed
  <2> QED
    BY <2>1, <2>2, <2>3, <2>4 DEF EverythingIsFound
<1>6. SuccessorsLeadSomewhere'
  <2> SUFFICES ASSUME ~overlapped'
               PROVE  /\ \A circle \in (SUBSET Items) \ {{}} :
                           \E j \in circle : Successor(j)' \notin circle
                      /\ \A j \in Items :
                           /\ Successor(j)' # Nil =>
                                Listed(Successor(j))' /\ item'[Successor(j)'].status # "DRAFT"
                           /\ item'[j] # NoItem
                                => (item'[j].status = "SUPERSEDED" <=> Successor(j)' # Nil)
    BY DEF SuccessorsLeadSomewhere
  <2>1. SuccessorsLeadSomewhere /\ ~overlapped
    BY DEF CatalogueIsSound
  <2>2. \A j \in Items : Successor(j)' = IF j = i THEN row.successor ELSE Successor(j)
    BY <1>1 DEF Successor
  <2>3. \A j \in Items : Successor(j) \in Items \cup {Nil}
    <3>1. \A r \in Item : r.successor \in Items \cup {Nil}
      BY DEF Item
    <3> QED
      BY <3>1, <1>1 DEF Successor
  <2>4. Successor(i) = item[i].successor
    BY DEF Successor
  <2>5. ASSUME row.successor \notin {item[i].successor, Nil}
        PROVE  /\ row.successor \in Items /\ row.successor # i
               /\ Successor(row.successor) = Nil
               /\ Listed(row.successor) /\ item[row.successor].status # "DRAFT"
    <3>1. assertUsableSuccessor(i, row.successor) /\ row.successor \in Items
      <4>1. row.successor \in Items \cup {Nil}
        BY DEF Item
      <4> QED
        BY <4>1, <2>5
    <3> QED
      BY <3>1, <2>1 DEF assertUsableSuccessor, SuccessorsLeadSomewhere, Listed
  <2>6. ASSUME NEW circle \in (SUBSET Items) \ {{}}
        PROVE  \E j \in circle : Successor(j)' \notin circle
    <3>0. Nil \notin circle
      BY NilAssumption
    <3>1. CASE i \notin circle \/ row.successor = item[i].successor
      <4>1. \A j \in circle : Successor(j)' = Successor(j)
        BY <3>1, <2>2, <2>4
      <4> QED
        BY <4>1, <2>1 DEF SuccessorsLeadSomewhere
    <3>2. CASE i \in circle /\ row.successor \notin circle
      BY <3>2, <2>2
    <3>3. CASE i \in circle /\ row.successor \in circle /\ row.successor # item[i].successor
      <4>1. row.successor \in circle /\ Successor(row.successor)' = Nil
        BY <3>0, <3>3, <2>2, <2>5
      <4> QED
        BY <3>0, <4>1
    <3> QED
      BY <3>1, <3>2, <3>3
  <2>7. ASSUME NEW j \in Items, Successor(j)' # Nil
        PROVE  Listed(Successor(j))' /\ item'[Successor(j)'].status # "DRAFT"
    <3> DEFINE s == IF j = i THEN row.successor ELSE Successor(j)
    <3>1. PICK t \in Items : t = s /\ t = Successor(j)'
      <4>1. row.successor \in Items \cup {Nil}
        BY DEF Item
      <4> QED
        BY <4>1, <2>2, <2>3, <2>7
    <3>2. /\ Listed(t) /\ item[t].status # "DRAFT"
          /\ t = i => Successor(j) = i
      <4>1. CASE j # i \/ row.successor = item[i].successor
        <5>1. t = Successor(j) /\ t # Nil
          BY <3>1, <4>1, <2>4, NilAssumption
        <5> QED
          BY <5>1, <2>1 DEF SuccessorsLeadSomewhere
      <4>2. CASE j = i /\ row.successor # item[i].successor
        BY <3>1, <4>2, <2>5, NilAssumption
      <4> QED
        BY <4>1, <4>2
    <3>3. Listed(t)' /\ item'[t].status # "DRAFT"
      BY <1>1, <3>2 DEF Listed
    <3> QED
      BY <3>1, <3>3 DEF Listed
  <2>8. ASSUME NEW j \in Items, item'[j] # NoItem
        PROVE  item'[j].status = "SUPERSEDED" <=> Successor(j)' # Nil
    BY <1>1, <2>1, <2>2, <2>8 DEF SuccessorsLeadSomewhere
  <2> QED
    BY <2>6, <2>7, <2>8
<1> QED
  BY <1>2, <1>3, <1>5, <1>6 DEF CatalogueIsSound

\* A product that is changed keeps the shape of its row.
LEMMA RowEdits ==
  ASSUME NEW row \in Item
  PROVE  /\ \A c \in Categories : [row EXCEPT !.category = c] \in Item
         /\ \A t \in ProductStatus, s \in Items \cup {Nil} :
              [row EXCEPT !.status = t, !.successor = s] \in Item
         /\ [row EXCEPT !.deleted = TRUE] \in Item
         /\ [row EXCEPT !.restricted = FALSE] \in Item
         /\ \A f \in SUBSET Firms : [row EXCEPT !.restricted = TRUE, !.firms = f] \in Item
BY DEF Item

\* One step per request that changes a product it looked at.
LEMMA ItemWrites ==
  ASSUME CatalogueInv, NEW m \in Merchants,
         MoveItem(m) \/ ChangeItemStatus(m) \/ RemoveItem(m) \/ SetItemVisibility(m)
  PROVE  CatalogueInv'
<1> DEFINE k == merchant[m]
           i == k.item
<1> USE DEF CatalogueInv
<1>1. /\ k \in Merchant /\ merchant' \in [Merchants -> Merchant] /\ overlapped' \in BOOLEAN
      /\ \A n \in Merchants : BetweenRows(merchant'[n]) \/ merchant'[n] = merchant[n]
      /\ ~overlapped' => ~overlapped /\ Holds(k)
  <2>1. Commit(m, "move") \/ Commit(m, "status") \/ Commit(m, "remove") \/ Commit(m, "restrict")
    BY DEF MoveItem, ChangeItemStatus, RemoveItem, SetItemVisibility
  <2> QED
    BY <2>1, CommitStep
<1>2. k.op \in {"move", "status", "remove", "restrict"}
  BY DEF MoveItem, ChangeItemStatus, RemoveItem, SetItemVisibility, Commit
<1>3. i \in Items /\ item[i] # NoItem /\ item[i] \in Item
  BY <1>1, <1>2, MerchantShapes, ItemsAreRows DEF MerchantsReferToRows, RefersToRow
<1>4. item \in [Items -> Item \cup {NoItem}]
  BY DEF CatalogueTypeOK
<1>5. item[i].successor \in Items \cup {Nil} /\ item[i].status \in ProductStatus
  BY <1>3 DEF Item
<1>6. ASSUME ~overlapped'
      PROVE  /\ Listed(i) => category[item[i].category] # "DELETED"
             /\ item[i].status = "SUPERSEDED" <=> item[i].successor # Nil
             /\ item[i].deleted \/ item[i].status = "DRAFT" => \A j \in Items : Successor(j) # i
  <2>1. CatalogueIsSound /\ ~overlapped
    BY <1>1, <1>6
  <2>2. \A j \in Items : Successor(j) = i => Listed(i) /\ item[i].status # "DRAFT"
    BY <2>1, <1>3, NilAssumption DEF CatalogueIsSound, SuccessorsLeadSomewhere
  <2> QED
    BY <2>1, <2>2, <1>3
      DEF CatalogueIsSound, SuccessorsLeadSomewhere, EverythingIsFound, Listed, Successor
<1>7. CASE MoveItem(m)
  <2> DEFINE row == [item[i] EXCEPT !.category = k.category]
  <2>1. k.op = "move" /\ k.category \in Categories
    BY <1>1, <1>7, MerchantShapes DEF MoveItem, Commit
  <2>2. row \in Item /\ item' = [item EXCEPT ![i] = row] /\ UNCHANGED <<variantSku, category>>
    BY <1>3, <1>4, <1>7, <2>1, RowEdits DEF MoveItem
  <2>3. /\ row.sku = item[i].sku /\ row.status = item[i].status /\ row.category = k.category
        /\ row.imported = item[i].imported
        /\ row.deleted = item[i].deleted /\ row.successor = item[i].successor
    BY <1>3 DEF Item
  <2>4. ~overlapped' => category[k.category] = "ACTIVE"
    BY <1>1, <2>1 DEF Holds, assertCategoryExists
  <2> HIDE DEF row, i, k
  <2> QED
    BY <1>1, <1>3, <1>6, <2>2, <2>3, <2>4, WriteOneItem
<1>8. CASE ChangeItemStatus(m)
  <2> DEFINE row == [item[i] EXCEPT !.status = k.to, !.successor = k.successor]
  <2>1. /\ k.op = "status" /\ k.to \in ProductStatus /\ k.successor \in Items \cup {Nil}
    BY <1>1, <1>8, MerchantShapes DEF ChangeItemStatus, Commit
  <2>2. row \in Item /\ item' = [item EXCEPT ![i] = row] /\ UNCHANGED <<variantSku, category>>
    BY <1>3, <1>4, <1>8, <2>1, RowEdits DEF ChangeItemStatus
  <2>3. /\ row.sku = item[i].sku /\ row.status = k.to /\ row.category = item[i].category
        /\ row.imported = item[i].imported
        /\ row.deleted = item[i].deleted /\ row.successor = k.successor
    BY <1>3 DEF Item
  <2>4. ASSUME ~overlapped'
        PROVE  /\ Listed(i) /\ k.to # "DRAFT"
               /\ k.to = "SUPERSEDED" <=> k.successor # Nil
               /\ k.successor = Nil \/ assertUsableSuccessor(i, k.successor)
    <3>1. /\ Listed(i) /\ item[i].status = k.from
          /\ canTransitionProduct(k.from, k.to)
          /\ IF requiresSuccessor(k.to) THEN k.successor # Nil ELSE k.successor = Nil
          /\ k.successor # Nil => assertUsableSuccessor(i, k.successor)
      BY <1>1, <2>1, <2>4 DEF Holds
    <3>2. k.to # "DRAFT"
      BY <3>1, <1>5, <2>1 DEF canTransitionProduct, PRODUCT_TRANSITIONS, ProductStatus
    <3> QED
      BY <3>1, <3>2 DEF requiresSuccessor
  <2>5. ~overlapped' => ~item[i].deleted
    BY <2>4 DEF Listed
  <2> HIDE DEF row, i, k
  <2> QED
    BY <1>1, <1>3, <1>6, <2>2, <2>3, <2>4, <2>5, WriteOneItem
<1>9. CASE RemoveItem(m)
  <2> DEFINE row == [item[i] EXCEPT !.deleted = TRUE]
  <2>1. k.op = "remove"
    BY <1>9 DEF RemoveItem, Commit
  <2>2. row \in Item /\ item' = [item EXCEPT ![i] = row] /\ UNCHANGED <<variantSku, category>>
    BY <1>3, <1>4, <1>9, RowEdits DEF RemoveItem
  <2>3. /\ row.sku = item[i].sku /\ row.status = item[i].status
        /\ row.deleted /\ row.successor = item[i].successor
        /\ row.imported = item[i].imported
    BY <1>3 DEF Item
  <2>4. ~overlapped' => item[i].status = "DRAFT"
    BY <1>1, <2>1 DEF Holds
  <2> HIDE DEF row, i, k
  <2> QED
    BY <1>1, <1>3, <1>6, <2>2, <2>3, <2>4, WriteOneItem
<1>10. CASE SetItemVisibility(m)
  <2> DEFINE row == IF k.firms = {} THEN [item[i] EXCEPT !.restricted = FALSE]
                    ELSE [item[i] EXCEPT !.restricted = TRUE, !.firms = k.firms]
  <2>1. k.op = "restrict" /\ k.firms \in SUBSET Firms
    BY <1>1, <1>10, MerchantShapes DEF SetItemVisibility, Commit
  <2>2. row \in Item /\ item' = [item EXCEPT ![i] = row] /\ UNCHANGED <<variantSku, category>>
    BY <1>3, <1>4, <1>10, <2>1, RowEdits DEF SetItemVisibility
  <2>3. /\ row.sku = item[i].sku /\ row.status = item[i].status
        /\ row.category = item[i].category
        /\ row.imported = item[i].imported
        /\ row.deleted = item[i].deleted /\ row.successor = item[i].successor
    BY <1>3 DEF Item
  <2>4. ~overlapped' => Listed(i)
    BY <1>1, <2>1 DEF Holds
  <2> HIDE DEF row, i, k
  <2> QED
    BY <1>1, <1>3, <1>6, <2>2, <2>3, <2>4, WriteOneItem
<1> QED
  BY <1>7, <1>8, <1>9, <1>10

\* A variant's SKU, a category taken away, one closed or reopened, and the
\* steps that write nothing.
LEMMA OtherTablesStep ==
  ASSUME CatalogueInv, UNCHANGED item, CatalogueTypeOK',
         \A n \in Merchants : BetweenRows(merchant'[n]) \/ merchant'[n] = merchant[n],
         ~overlapped' => ~overlapped,
         ~overlapped' =>
           \A i \in Items : item[i] # NoItem /\ item[i].sku \in variantSku' => item[i].imported,
         ~overlapped' =>
           \A i \in Items : Listed(i) => category'[item[i].category] # "DELETED"
  PROVE  CatalogueInv'
<1> USE DEF CatalogueInv
<1>1. MerchantsReferToRows'
  BY ReferencesLast
<1>2. SuccessorsLeadSomewhere'
  BY DEF CatalogueIsSound, SuccessorsLeadSomewhere, Successor, Listed
<1>3. EverythingIsFound'
  BY DEF CatalogueIsSound, EverythingIsFound, Listed
<1> QED
  BY <1>1, <1>2, <1>3 DEF CatalogueIsSound

\* A new product is a draft nobody follows, under a SKU no product has.
LEMMA NewItem ==
  ASSUME CatalogueInv, NEW i \in Items, item[i] = NoItem,
         NEW row \in Item, row.sku \notin SkusOfItems, row.status = "DRAFT", row.successor = Nil,
         item' = [item EXCEPT ![i] = row], UNCHANGED <<variantSku, category>>,
         merchant' \in [Merchants -> Merchant], overlapped' \in BOOLEAN,
         \A n \in Merchants : BetweenRows(merchant'[n]) \/ merchant'[n] = merchant[n],
         ~overlapped' =>
           /\ ~overlapped
           /\ row.sku \in variantSku => row.imported
           /\ category[row.category] # "DELETED"
  PROVE  CatalogueInv'
<1> USE DEF CatalogueInv
<1>1. row # NoItem
  BY DEF Item, ProductStatus, NoItem
<1>2. \A j \in Items : item'[j] = IF j = i THEN row ELSE item[j]
  BY DEF CatalogueTypeOK
<1>3. CatalogueTypeOK'
  BY <1>1 DEF CatalogueTypeOK
<1>4. MerchantsReferToRows'
  BY <1>1, <1>2, ReferencesLast
<1>5. \A j \in Items : Successor(j)' = Successor(j)
  BY <1>1, <1>2 DEF Successor
<1>6. \A j \in Items : Listed(j) => Listed(j)' /\ item'[j] = item[j]
  BY <1>2 DEF Listed
<1>7. SuccessorsLeadSomewhere'
  <2> SUFFICES ASSUME ~overlapped'
               PROVE  /\ \A circle \in (SUBSET Items) \ {{}} :
                           \E j \in circle : Successor(j)' \notin circle
                      /\ \A j \in Items :
                           /\ Successor(j)' # Nil =>
                                Listed(Successor(j))' /\ item'[Successor(j)'].status # "DRAFT"
                           /\ item'[j] # NoItem
                                => (item'[j].status = "SUPERSEDED" <=> Successor(j)' # Nil)
    BY DEF SuccessorsLeadSomewhere
  <2>1. SuccessorsLeadSomewhere /\ ~overlapped
    BY DEF CatalogueIsSound
  <2>2. \A circle \in (SUBSET Items) \ {{}} : \E j \in circle : Successor(j)' \notin circle
    BY <2>1, <1>5 DEF SuccessorsLeadSomewhere
  <2>3. ASSUME NEW j \in Items, Successor(j)' # Nil
        PROVE  Listed(Successor(j))' /\ item'[Successor(j)'].status # "DRAFT"
    <3>1. Successor(j) \in Items \cup {Nil}
      <4>1. \A r \in Item : r.successor \in Items \cup {Nil}
        BY DEF Item
      <4> QED
        BY <4>1, ItemsAreRows DEF Successor
    <3>2. PICK t \in Items : t = Successor(j) /\ t = Successor(j)'
      BY <3>1, <1>5, <2>3
    <3>3. Listed(t) /\ item[t].status # "DRAFT"
      BY <3>2, <2>1, <2>3, <1>5 DEF SuccessorsLeadSomewhere
    <3>4. Listed(t)' /\ item'[t].status # "DRAFT"
      BY <3>3, <1>6
    <3> QED
      BY <3>2, <3>4 DEF Listed
  <2>4. ASSUME NEW j \in Items, item'[j] # NoItem
        PROVE  item'[j].status = "SUPERSEDED" <=> Successor(j)' # Nil
    BY <1>2, <1>5, <2>1, <2>4 DEF SuccessorsLeadSomewhere, Successor
  <2> QED
    BY <2>2, <2>3, <2>4
<1>8. EverythingIsFound'
  <2>1. EverythingIsFound
    BY DEF CatalogueIsSound
  <2>2. \A j, l \in Items : item'[j] # NoItem /\ item'[l] # NoItem /\ item'[j].sku = item'[l].sku
                              => j = l
    BY <1>2, <2>1 DEF EverythingIsFound, SkusOfItems
  <2>3. ASSUME ~overlapped', NEW j \in Items, item'[j] # NoItem, item'[j].sku \in variantSku'
        PROVE  item'[j].imported
    BY <1>2, <2>1, <2>3 DEF EverythingIsFound
  <2>4. ASSUME ~overlapped', NEW j \in Items, Listed(j)'
        PROVE  category'[item'[j].category] # "DELETED"
    BY <1>2, <2>1, <2>4 DEF EverythingIsFound, Listed
  <2> QED
    BY <2>2, <2>3, <2>4 DEF EverythingIsFound
<1> QED
  BY <1>3, <1>4, <1>7, <1>8 DEF CatalogueIsSound

LEMMA CreateItemStep ==
  ASSUME CatalogueInv, NEW m \in Merchants, CreateItem(m)
  PROVE  CatalogueInv'
<1> DEFINE k == merchant[m]
           row == [sku |-> k.sku, category |-> k.category, status |-> "DRAFT",
                   deleted |-> FALSE, successor |-> Nil, restricted |-> FALSE,
                   firms |-> {}, imported |-> FALSE]
<1>0. CatalogueTypeOK
  BY DEF CatalogueInv
<1>1. /\ k \in Merchant /\ merchant' \in [Merchants -> Merchant] /\ overlapped' \in BOOLEAN
      /\ \A n \in Merchants : BetweenRows(merchant'[n]) \/ merchant'[n] = merchant[n]
      /\ ~overlapped' => ~overlapped /\ Holds(k)
  BY <1>0, CommitStep DEF CreateItem
<1>2. k.op = "create" /\ k.sku \in Skus /\ k.category \in Categories
  BY <1>1, MerchantShapes DEF CreateItem, Commit
<1>3. UNCHANGED <<variantSku, category>>
  BY DEF CreateItem
<1>4. ~overlapped' => k.sku \notin variantSku /\ category[k.category] = "ACTIVE"
  BY <1>1, <1>2 DEF Holds, assertSkuIsFree, assertCategoryExists
<1>5. CASE UNCHANGED item
  <2>1. CatalogueTypeOK'
    BY <1>0, <1>1, <1>3, <1>5 DEF CatalogueTypeOK
  <2> QED
    BY <1>1, <1>3, <1>5, <2>1, OtherTablesStep
      DEF CatalogueInv, CatalogueIsSound, EverythingIsFound
<1>6. ASSUME k.sku \notin SkusOfItems, NEW i \in Items, item[i] = NoItem,
             item' = [item EXCEPT ![i] = row]
      PROVE  CatalogueInv'
  <2>1. row \in Item /\ row.sku = k.sku /\ row.status = "DRAFT" /\ row.successor = Nil
        /\ row.category = k.category
    BY <1>2 DEF Item, ProductStatus
  <2> HIDE DEF row, k
  <2> QED
    BY <1>1, <1>3, <1>4, <1>6, <2>1, NewItem
<1> QED
  BY <1>5, <1>6 DEF CreateItem

\* A row of a file is written: a new product, or another category for one that
\* is there.
LEMMA WriteImportRowStep ==
  ASSUME CatalogueInv, NEW m \in Merchants, WriteImportRow(m)
  PROVE  CatalogueInv'
<1> DEFINE k == merchant[m]
<1>0. /\ CatalogueTypeOK /\ item \in [Items -> Item \cup {NoItem}]
      /\ merchant \in [Merchants -> Merchant] /\ overlapped \in BOOLEAN
  BY DEF CatalogueInv, CatalogueTypeOK
<1>1. /\ k.op = "import" /\ k \in Merchant /\ k.category \in Categories /\ k.sku \in Skus
      /\ k.found \in Items \cup {Nil} /\ UNCHANGED <<variantSku, category>>
  BY <1>0, MerchantShapes DEF WriteImportRow
<1>2. /\ merchant' \in [Merchants -> Merchant]
      /\ \A n \in Merchants : BetweenRows(merchant'[n]) \/ merchant'[n] = merchant[n]
  <2>1. merchant' = [merchant EXCEPT ![m] = [op |-> "file", category |-> k.category]]
    BY DEF WriteImportRow
  <2>2. [op |-> "file", category |-> k.category] \in Merchant
    BY <1>1 DEF Merchant, Request
  <2>3. BetweenRows([op |-> "file", category |-> k.category])
    BY DEF BetweenRows
  <2> QED
    BY <1>0, <2>1, <2>2, <2>3
<1>3. overlapped' \in BOOLEAN /\ (~overlapped' => ~overlapped /\ Holds(k))
  <2>1. overlapped' = (overlapped \/ ~Holds(k))
    BY DEF WriteImportRow
  <2>2. overlapped' \in BOOLEAN
    BY <1>0, <2>1
  <2>3. ASSUME ~overlapped'
        PROVE  ~overlapped /\ Holds(k)
    BY <2>1, <2>3
  <2> QED
    BY <2>2, <2>3
<1>4. ~overlapped' => /\ category[k.category] # "DELETED"
                      /\ k.found # Nil => Listed(k.found)
  BY <1>1, <1>3 DEF Holds, findIdByCode
<1>5. CASE UNCHANGED item
  <2>1. CatalogueTypeOK'
    BY <1>0, <1>1, <1>2, <1>3, <1>5 DEF CatalogueTypeOK
  <2> QED
    BY <1>1, <1>2, <1>3, <1>5, <2>1, OtherTablesStep
      DEF CatalogueInv, CatalogueIsSound, EverythingIsFound
<1>6. ASSUME k.sku \notin SkusOfItems, NEW i \in Items, item[i] = NoItem,
             item' = [item EXCEPT ![i] =
               [sku |-> k.sku, category |-> k.category, status |-> "DRAFT",
                deleted |-> FALSE, successor |-> Nil, restricted |-> FALSE,
                firms |-> {}, imported |-> TRUE]]
      PROVE  CatalogueInv'
  <2> DEFINE row == [sku |-> k.sku, category |-> k.category, status |-> "DRAFT",
                     deleted |-> FALSE, successor |-> Nil, restricted |-> FALSE,
                     firms |-> {}, imported |-> TRUE]
  <2>1. row \in Item /\ row.sku = k.sku /\ row.status = "DRAFT" /\ row.successor = Nil
        /\ row.category = k.category /\ row.imported
    BY <1>1 DEF Item, ProductStatus
  <2>2. item' = [item EXCEPT ![i] = row]
    BY <1>6
  <2>3. row.sku \notin SkusOfItems /\ item[i] = NoItem
    BY <1>6, <2>1
  <2>4. ~overlapped' => /\ ~overlapped
                        /\ row.sku \in variantSku => row.imported
                        /\ category[row.category] # "DELETED"
    BY <1>3, <1>4, <2>1
  <2> HIDE DEF row, k
  <2> QED
    BY <1>1, <1>2, <1>3, <2>1, <2>2, <2>3, <2>4, NewItem
<1>7. CASE k.found # Nil /\ item' = [item EXCEPT ![k.found].category = k.category]
  <2>1. PICK i \in Items : i = k.found
    BY <1>1, <1>7
  <2>2. item[i] # NoItem /\ item[i] \in Item
    BY <1>0, <1>1, <1>7, <2>1, ItemsAreRows
      DEF CatalogueInv, MerchantsReferToRows, RefersToRow
  <2> DEFINE row == [item[i] EXCEPT !.category = k.category]
  <2>3. row \in Item /\ item' = [item EXCEPT ![i] = row]
    BY <1>0, <1>1, <1>7, <2>1, <2>2, RowEdits
  <2>4. /\ row.sku = item[i].sku /\ row.status = item[i].status /\ row.category = k.category
        /\ row.imported = item[i].imported
        /\ row.deleted = item[i].deleted /\ row.successor = item[i].successor
    BY <2>2 DEF Item
  <2>5. ASSUME ~overlapped'
        PROVE  /\ item[i].status = "SUPERSEDED" <=> item[i].successor # Nil
               /\ item[i].deleted \/ item[i].status = "DRAFT" => \A j \in Items : Successor(j) # i
    <3>1. SuccessorsLeadSomewhere /\ ~overlapped
      BY <1>3, <2>5 DEF CatalogueInv, CatalogueIsSound
    <3>2. \A j \in Items : Successor(j) = i => Listed(i) /\ item[i].status # "DRAFT"
      BY <3>1, NilAssumption DEF SuccessorsLeadSomewhere
    <3> QED
      BY <3>1, <3>2, <2>2 DEF SuccessorsLeadSomewhere, Listed, Successor
  <2> HIDE DEF row, k
  <2> QED
    BY <1>1, <1>2, <1>3, <1>4, <2>2, <2>3, <2>4, <2>5, WriteOneItem
<1> QED
  BY <1>5, <1>6, <1>7 DEF WriteImportRow

LEMMA CatalogueStep ==
  ASSUME CatalogueInv, [CatalogueNext]_catalogueVars
  PROVE  CatalogueInv'
<1> USE DEF CatalogueInv
<1>0. /\ item \in [Items -> Item \cup {NoItem}] /\ merchant \in [Merchants -> Merchant]
      /\ category \in [Categories -> {"ACTIVE", "INACTIVE", "DELETED"}]
      /\ variantSku \subseteq Skus /\ overlapped \in BOOLEAN
  BY DEF CatalogueTypeOK
<1>1. ASSUME NEW m \in Merchants, NEW k \in Merchant, RefersToRow(k),
             merchant' = [merchant EXCEPT ![m] = k],
             UNCHANGED <<item, variantSku, category, overlapped>>
      PROVE  CatalogueInv'
  <2>1. CatalogueTypeOK'
    BY <1>0, <1>1 DEF CatalogueTypeOK
  <2>2. MerchantsReferToRows'
    BY <1>0, <1>1 DEF MerchantsReferToRows, RefersToRow
  <2>3. CatalogueIsSound'
    BY <1>1 DEF CatalogueIsSound, SuccessorsLeadSomewhere, EverythingIsFound,
      Successor, Listed
  <2> QED
    BY <2>1, <2>2, <2>3
<1>7. ASSUME NEW m \in Merchants, NEW k \in Request, Look(m, k)
      PROVE  CatalogueInv'
  <2>1. k.op \in {"move", "status", "remove", "restrict"} => item[k.item] # NoItem
    BY <1>7 DEF Look, Holds, Listed
  <2>2. k \in Merchant /\ k.op # "import"
    BY DEF Merchant, Request
  <2> QED
    BY <1>1, <1>7, <2>1, <2>2 DEF Look, RefersToRow
<1>8. ASSUME NEW m \in Merchants, NEW s \in Skus, ReadImportRow(m, s)
      PROVE  CatalogueInv'
  <2>1. PICK found \in Items \cup {Nil} :
          /\ found # Nil => Listed(found)
          /\ merchant' = [merchant EXCEPT ![m] =
               [op |-> "import", category |-> merchant[m].category, sku |-> s, found |-> found]]
    BY <1>8 DEF ReadImportRow
  <2>2. merchant[m].category \in Categories
    BY <1>0, <1>8, MerchantShapes DEF ReadImportRow
  <2> DEFINE k == [op |-> "import", category |-> merchant[m].category, sku |-> s, found |-> found]
  <2>3. k \in Merchant /\ RefersToRow(k)
    BY <2>1, <2>2 DEF Merchant, RefersToRow, Listed
  <2>4. /\ merchant' = [merchant EXCEPT ![m] = k]
        /\ UNCHANGED <<item, variantSku, category, overlapped>>
    BY <1>8, <2>1 DEF ReadImportRow
  <2> HIDE DEF k
  <2> QED
    BY <1>1, <2>3, <2>4
<1>2. ASSUME NEW m \in Merchants, CreateVariantSku(m)
      PROVE  CatalogueInv'
  <2>1. /\ merchant[m] \in Merchant /\ merchant[m].op = "variant" /\ merchant[m].sku \in Skus
        /\ merchant' \in [Merchants -> Merchant] /\ overlapped' \in BOOLEAN
        /\ \A n \in Merchants : BetweenRows(merchant'[n]) \/ merchant'[n] = merchant[n]
        /\ ~overlapped' => ~overlapped /\ merchant[m].sku \notin SkusOfItems
        /\ variantSku' = variantSku \cup {merchant[m].sku} /\ UNCHANGED <<item, category>>
    BY <1>2, CommitStep, MerchantShapes DEF CreateVariantSku, Commit, Holds, assertSkuIsFree
  <2>2. CatalogueTypeOK'
    BY <1>2, <2>1 DEF CreateVariantSku, CatalogueTypeOK
  <2>3. ~overlapped' => \A i \in Items :
          item[i] # NoItem /\ item[i].sku \in variantSku' => item[i].imported
    BY <2>1 DEF CatalogueIsSound, EverythingIsFound, SkusOfItems
  <2>4. ~overlapped' => \A i \in Items : Listed(i) => category'[item[i].category] # "DELETED"
    BY <2>1 DEF CatalogueIsSound, EverythingIsFound
  <2> QED
    BY <2>1, <2>2, <2>3, <2>4, OtherTablesStep
<1>3. ASSUME NEW m \in Merchants, DeactivateCategory(m)
      PROVE  CatalogueInv'
  <2>1. /\ merchant[m] \in Merchant /\ merchant[m].op = "deactivate"
        /\ merchant[m].category \in Categories
        /\ merchant' \in [Merchants -> Merchant] /\ overlapped' \in BOOLEAN
        /\ \A n \in Merchants : BetweenRows(merchant'[n]) \/ merchant'[n] = merchant[n]
        /\ ~overlapped' => ~overlapped /\ NothingLeftIn(merchant[m].category)
    BY <1>3, CommitStep, MerchantShapes DEF DeactivateCategory, Commit, Holds
  <2>2. CatalogueTypeOK'
    BY <1>0, <1>3, <2>1 DEF DeactivateCategory, CatalogueTypeOK
  <2>3. ~overlapped' =>
          \A i \in Items : Listed(i) => category'[item[i].category] # "DELETED"
    <3>1. \A i \in Items : Listed(i) => item[i].category \in Categories
      BY ItemsAreRows DEF Listed, Item
    <3> QED
      BY <1>0, <1>3, <2>1, <3>1
        DEF DeactivateCategory, NothingLeftIn, CatalogueIsSound, EverythingIsFound
  <2> QED
    BY <1>3, <2>1, <2>2, <2>3, OtherTablesStep
      DEF DeactivateCategory, CatalogueIsSound, EverythingIsFound
<1>4. ASSUME NEW m \in Merchants, WalkAway(m)
      PROVE  CatalogueInv'
  <2>1. CatalogueTypeOK'
    BY <1>0, <1>4 DEF WalkAway, CatalogueTypeOK, Merchant
  <2>2. \A n \in Merchants : BetweenRows(merchant'[n]) \/ merchant'[n] = merchant[n]
    BY <1>0, <1>4 DEF WalkAway, BetweenRows, Idle
  <2> QED
    BY <1>4, <2>1, <2>2, OtherTablesStep DEF WalkAway, CatalogueIsSound, EverythingIsFound
<1>5. ASSUME NEW c \in Categories, NEW status \in {"ACTIVE", "INACTIVE"},
             UpdateCategory(c, status)
      PROVE  CatalogueInv'
  <2>1. CatalogueTypeOK'
    BY <1>0, <1>5 DEF UpdateCategory, CatalogueTypeOK
  <2>2. \A i \in Items : Listed(i) => item[i].category \in Categories
    BY ItemsAreRows DEF Listed, Item
  <2> QED
    BY <1>0, <1>5, <2>1, <2>2, OtherTablesStep
      DEF UpdateCategory, CatalogueIsSound, EverythingIsFound
<1>6. CASE UNCHANGED catalogueVars
  <2>1. CatalogueTypeOK'
    BY <1>6 DEF catalogueVars, CatalogueTypeOK
  <2> QED
    BY <1>6, <2>1, OtherTablesStep DEF catalogueVars, CatalogueIsSound, EverythingIsFound
<1> QED
  BY <1>2, <1>3, <1>4, <1>5, <1>6, <1>7, <1>8, CreateItemStep, WriteImportRowStep, ItemWrites
    DEF CatalogueNext

LEMMA CatalogueStart == CatalogueInit => CatalogueInv
<1> SUFFICES ASSUME CatalogueInit
             PROVE  CatalogueInv
  OBVIOUS
<1>1. CatalogueTypeOK
  BY DEF CatalogueInit, CatalogueTypeOK, Merchant
<1>2. MerchantsReferToRows
  BY DEF CatalogueInit, MerchantsReferToRows, RefersToRow, Idle
<1>3. /\ \A i \in Items : item[i] = NoItem /\ Successor(i) = Nil /\ ~Listed(i)
      /\ variantSku = {}
  BY DEF CatalogueInit, Successor, Listed
<1>4. SuccessorsLeadSomewhere
  <2>1. ASSUME NEW circle \in (SUBSET Items) \ {{}}
        PROVE  \E i \in circle : Successor(i) \notin circle
    <3>0. circle # {}
      BY <2>1
    <3>1. PICK i \in circle : TRUE
      BY <3>0
    <3> QED
      BY <1>3, <3>1, NilAssumption
  <2> QED
    BY <1>3, <2>1 DEF SuccessorsLeadSomewhere
<1>5. EverythingIsFound
  BY <1>3 DEF EverythingIsFound
<1> QED
  BY <1>1, <1>2, <1>4, <1>5 DEF CatalogueInv, CatalogueIsSound

LEMMA CatalogueAlways == CatalogueSpec => []CatalogueInv
<1> QED
  BY CatalogueStart, CatalogueStep, PTL DEF CatalogueSpec

(***************************************************************************)
(* The rows of the catalogue and the requests that change them keep their  *)
(* shapes, whatever the requests had read before they write                *)
(* (products.service.ts, categories.service.ts).                           *)
(***************************************************************************)
THEOREM CatalogueTypeCorrect == CatalogueSpec => []CatalogueTypeOK
<1> QED
  BY CatalogueAlways, PTL DEF CatalogueInv

(***************************************************************************)
(* With any number of products and requests: no two products share a SKU,  *)
(* and as long as every request wrote what it had looked at, a variant has *)
(* the SKU only of a product that an import made, no listed product lost   *)
(* its category, not even to an import, and following successors ends at a *)
(* product that was sold (products.service.ts,                             *)
(* product-import.service.ts).                                             *)
(***************************************************************************)
THEOREM CatalogueStaysSound == CatalogueSpec => []CatalogueIsSound
<1> QED
  BY CatalogueAlways, PTL DEF CatalogueInv

-----------------------------------------------------------------------------
(***************************************************************************)
(* What a product is made of.                                              *)
(***************************************************************************)
ChangesOptions == {"options", "replaceOptions", "variant"}

\* Of the requests that change the same parts only one is in flight.
HandsApart ==
  \A g, h \in Hands :
    g # h => /\ ~(hand[g].op \in ChangesOptions /\ hand[h].op \in ChangesOptions)
             /\ ~(hand[g].op = "replaceTiers" /\ hand[h].op = "replaceTiers")

\* What each request made sure of when it began still holds.
StillRight(h) ==
  /\ hand[h].op \in {"options", "replaceOptions"} => FitsVariants(hand[h].given)
  /\ hand[h].op = "replaceOptions" => hand[h].seen = DOMAIN option
  /\ hand[h].op = "replaceTiers" => hand[h].seen = DOMAIN tier /\ Rises(hand[h].given)
  /\ hand[h].op = "variant" => /\ attributesMatchOptions(hand[h].chosen, option)
                               /\ NewCombination(hand[h].chosen)

HandsStillRight == \A h \in Hands : StillRight(h)

PartsInv ==
  /\ PartsTypeOK /\ PartsFit
  /\ ~tangled => HandsApart /\ HandsStillRight

LEMMA TableIs ==
  ASSUME NEW K, NEW C, NEW t
  PROVE  t \in TablesOf(K, C) <=> DOMAIN t \subseteq K /\ t \in [DOMAIN t -> C]
BY DEF TablesOf

\* What a replacement leaves is a table whatever it had seen, and the table
\* it was given when it had seen every row.
LEMMA ReplacedIsTable ==
  ASSUME NEW K, NEW C, NEW t \in TablesOf(K, C), NEW given \in TablesOf(K, C), NEW seen
  PROVE  /\ Replaced(t, seen, given) \in TablesOf(K, C)
         /\ seen = DOMAIN t => Replaced(t, seen, given) = given
<1>1. /\ DOMAIN t \subseteq K /\ t \in [DOMAIN t -> C]
      /\ DOMAIN given \subseteq K /\ given \in [DOMAIN given -> C]
  BY TableIs
<1> DEFINE D == Left(t, seen) \cup DOMAIN given
<1>2. D \subseteq K /\ D \subseteq DOMAIN t \cup DOMAIN given
  BY <1>1 DEF Left
<1>3. Replaced(t, seen, given) \in [D -> C]
  <2> SUFFICES ASSUME NEW k \in D
               PROVE  (IF k \in DOMAIN given THEN given[k] ELSE t[k]) \in C
    BY DEF Replaced
  <2> QED
    BY <1>1, <1>2
<1>4. ASSUME seen = DOMAIN t
      PROVE  Replaced(t, seen, given) = given
  <2>1. D = DOMAIN given
    BY <1>4 DEF Left
  <2>2. Replaced(t, seen, given) = [k \in DOMAIN given |-> given[k]]
    BY <2>1 DEF Replaced
  <2> QED
    BY <1>1, <2>2
<1> QED
  BY <1>2, <1>3, <1>4 DEF TablesOf

LEMMA HandShapes ==
  ASSUME NEW k \in Hand
  PROVE  /\ k.op = "options" => k.given \in Offers
         /\ k.op = "replaceOptions" =>
              /\ k.given \in Offers /\ k.seen \in SUBSET OptionNames
              /\ \A s : [k EXCEPT !.seen = @ \ s] \in Hand
         /\ k.op = "replaceTiers" =>
              /\ k.given \in Ladders /\ k.seen \in SUBSET Quantities
              /\ \A s : [k EXCEPT !.seen = @ \ s] \in Hand
         /\ k.op = "variant" => k.chosen \in Choices
         /\ k = Resting <=> k.op = "resting"
<1>1. /\ k.op = "options" => k.given \in Offers
      /\ k.op = "variant" => k.chosen \in Choices
      /\ k = Resting <=> k.op = "resting"
  BY DEF Hand, Resting
<1>2. ASSUME k.op = "replaceOptions"
      PROVE  /\ k.given \in Offers /\ k.seen \in SUBSET OptionNames
             /\ \A s : [k EXCEPT !.seen = @ \ s] \in Hand
  <2> DEFINE Such == [op : {"replaceOptions"}, given : Offers, seen : SUBSET OptionNames]
  <2>1. k \in Such
    BY <1>2 DEF Hand, Resting
  <2>2. \A s : [k EXCEPT !.seen = @ \ s] \in Such
    BY <2>1
  <2> QED
    BY <2>1, <2>2 DEF Hand
<1>3. ASSUME k.op = "replaceTiers"
      PROVE  /\ k.given \in Ladders /\ k.seen \in SUBSET Quantities
             /\ \A s : [k EXCEPT !.seen = @ \ s] \in Hand
  <2> DEFINE Such == [op : {"replaceTiers"}, given : Ladders, seen : SUBSET Quantities]
  <2>1. k \in Such
    BY <1>3 DEF Hand, Resting
  <2>2. \A s : [k EXCEPT !.seen = @ \ s] \in Such
    BY <2>1
  <2> QED
    BY <2>1, <2>2 DEF Hand
<1> QED
  BY <1>1, <1>2, <1>3

LEMMA VariantsAreRows ==
  ASSUME PartsTypeOK
  PROVE  \A v \in Variants : Kept(v) => variant[v] \in VariantRow
BY DEF PartsTypeOK, Kept

\* A request begins.
LEMMA BeginStep ==
  ASSUME PartsInv, NEW h \in Hands, hand[h] = Resting, NEW k \in Hand, Hold(h, k),
         UNCHANGED <<option, tier, variant>>, tangled' \in BOOLEAN,
         ~tangled' =>
           /\ ~tangled
           /\ k.op \in ChangesOptions => ~Joined(h, ChangesOptions)
           /\ k.op = "replaceTiers" => ~Joined(h, {"replaceTiers"})
           /\ \/ k.op = "options" /\ FitsVariants(k.given)
              \/ /\ k.op = "replaceTiers" /\ k.seen = DOMAIN tier /\ Rises(k.given)
              \/ /\ k.op = "variant" /\ attributesMatchOptions(k.chosen, option)
                 /\ NewCombination(k.chosen)
  PROVE  PartsInv'
<1> USE DEF PartsInv
<1>1. \A g \in Hands : hand'[g] = IF g = h THEN k ELSE hand[g]
  BY DEF PartsTypeOK, Hold
<1>2. PartsTypeOK'
  BY DEF PartsTypeOK, Hold
<1>3. /\ \A v : Kept(v)' <=> Kept(v)
      /\ \A given : FitsVariants(given)' <=> FitsVariants(given)
      /\ \A chosen : NewCombination(chosen)' <=> NewCombination(chosen)
  BY DEF Kept, FitsVariants, NewCombination
<1>4. PartsFit'
  BY <1>3 DEF PartsFit
<1>5. ASSUME ~tangled'
      PROVE  HandsApart' /\ HandsStillRight'
  <2>1. HandsApart'
    BY <1>1, <1>5 DEF HandsApart, Joined, ChangesOptions
  <2>2. HandsStillRight'
    BY <1>1, <1>3, <1>5 DEF HandsStillRight, StillRight
  <2> QED
    BY <2>1, <2>2
<1> QED
  BY <1>2, <1>4, <1>5

LEMMA BeginSteps ==
  ASSUME PartsInv, NEW h \in Hands,
         \/ \E given \in Offers : BeginOptions(h, given)
         \/ \E chosen \in Choices : BeginVariant(h, chosen)
         \/ \E given \in Ladders : DeleteTiers(h, given)
  PROVE  PartsInv'
<1>0. tangled \in BOOLEAN /\ tier \in Ladders
  BY DEF PartsInv, PartsTypeOK
<1>1. ASSUME NEW given \in Offers, BeginOptions(h, given)
      PROVE  PartsInv'
  <2> DEFINE k == [op |-> "options", given |-> given]
  <2>1. k \in Hand /\ k.op = "options" /\ k.given = given
    BY DEF Hand
  <2>2. /\ hand[h] = Resting /\ Hold(h, k) /\ UNCHANGED <<option, tier, variant>>
        /\ FitsVariants(given) /\ tangled' = (tangled \/ Joined(h, ChangesOptions))
    BY <1>1 DEF BeginOptions, ChangesOptions
  <2>3. tangled' \in BOOLEAN
    BY <1>0, <2>2
  <2>4. ~tangled' => ~tangled /\ ~Joined(h, ChangesOptions)
    BY <2>2
  <2> HIDE DEF k
  <2> QED
    BY <2>1, <2>2, <2>3, <2>4, BeginStep
<1>2. ASSUME NEW chosen \in Choices, BeginVariant(h, chosen)
      PROVE  PartsInv'
  <2> DEFINE k == [op |-> "variant", chosen |-> chosen]
  <2>1. k \in Hand /\ k.op = "variant" /\ k.chosen = chosen
    BY DEF Hand
  <2>2. /\ hand[h] = Resting /\ Hold(h, k) /\ UNCHANGED <<option, tier, variant>>
        /\ attributesMatchOptions(chosen, option) /\ NewCombination(chosen)
        /\ tangled' = (tangled \/ Joined(h, ChangesOptions))
    BY <1>2 DEF BeginVariant, ChangesOptions
  <2>3. tangled' \in BOOLEAN
    BY <1>0, <2>2
  <2>4. ~tangled' => ~tangled /\ ~Joined(h, ChangesOptions)
    BY <2>2
  <2> HIDE DEF k
  <2> QED
    BY <2>1, <2>2, <2>3, <2>4, BeginStep
<1>3. ASSUME NEW given \in Ladders, DeleteTiers(h, given)
      PROVE  PartsInv'
  <2> DEFINE k == [op |-> "replaceTiers", given |-> given, seen |-> DOMAIN tier]
  <2>1. k \in Hand /\ k.op = "replaceTiers" /\ k.given = given /\ k.seen = DOMAIN tier
    <3>1. DOMAIN tier \in SUBSET Quantities
      BY <1>0, TableIs DEF Ladders
    <3> QED
      BY <3>1 DEF Hand
  <2>2. /\ hand[h] = Resting /\ Hold(h, k) /\ UNCHANGED <<option, tier, variant>>
        /\ Rises(given) /\ tangled' = (tangled \/ Joined(h, {"replaceTiers"}))
    BY <1>3 DEF DeleteTiers
  <2>3. tangled' \in BOOLEAN
    BY <1>0, <2>2
  <2>4. ~tangled' => ~tangled /\ ~Joined(h, {"replaceTiers"})
    BY <2>2
  <2>5. k.op \notin ChangesOptions
    BY <2>1 DEF ChangesOptions
  <2> HIDE DEF k
  <2> QED
    BY <2>1, <2>2, <2>3, <2>4, <2>5, BeginStep
<1> QED
  BY <1>1, <1>2, <1>3

\* A request goes on or ends while the parts stay as they are.
LEMMA HandMoves ==
  ASSUME PartsInv, NEW h \in Hands, NEW k \in Hand, Hold(h, k),
         UNCHANGED <<option, tier, variant, tangled>>,
         \/ k = Resting
         \/ /\ hand[h].op = "options" /\ k.op = "replaceOptions"
            /\ k.given = hand[h].given /\ k.seen = DOMAIN option
  PROVE  PartsInv'
<1> USE DEF PartsInv
<1>1. \A g \in Hands : hand'[g] = IF g = h THEN k ELSE hand[g]
  BY DEF PartsTypeOK, Hold
<1>2. PartsTypeOK'
  BY DEF PartsTypeOK, Hold
<1>3. /\ \A v : Kept(v)' <=> Kept(v)
      /\ \A given : FitsVariants(given)' <=> FitsVariants(given)
      /\ \A chosen : NewCombination(chosen)' <=> NewCombination(chosen)
  BY DEF Kept, FitsVariants, NewCombination
<1>4. PartsFit'
  BY <1>3 DEF PartsFit
<1>5. ASSUME ~tangled'
      PROVE  HandsApart' /\ HandsStillRight'
  <2>1. HandsApart /\ HandsStillRight
    BY <1>5
  <2>2. HandsApart'
    BY <1>1, <2>1 DEF HandsApart, ChangesOptions, Resting
  <2>3. HandsStillRight'
    BY <1>1, <1>3, <2>1 DEF HandsStillRight, StillRight, Resting
  <2> QED
    BY <2>2, <2>3
<1> QED
  BY <1>2, <1>4, <1>5

\* The rows of a table are exchanged: of options, then of tiers.
LEMMA ReplaceShapes ==
  ASSUME PartsTypeOK, NEW h \in Hands, NEW op \in {"replaceOptions", "replaceTiers"},
         NEW table, NEW seen, Replace(h, op, table, seen)
  PROVE  /\ hand' \in [Hands -> Hand]
         /\ hand'[h] = Resting
         /\ \A g \in Hands \ {h} : /\ hand'[g].op = hand[g].op
                                   /\ hand[g].op # op => hand'[g] = hand[g]
<1>1. /\ hand \in [Hands -> Hand]
      /\ \A g \in Hands : hand'[g] =
           IF g = h THEN Resting
           ELSE IF hand[g].op = op THEN [hand[g] EXCEPT !.seen = @ \ seen] ELSE hand[g]
      /\ hand' = [g \in Hands |-> hand'[g]]
  BY DEF PartsTypeOK, Replace
<1>2. Resting \in Hand
  BY DEF Hand
<1>3. \A g \in Hands : hand[g].op = op =>
        /\ [hand[g] EXCEPT !.seen = @ \ seen] \in Hand
        /\ [hand[g] EXCEPT !.seen = @ \ seen].op = hand[g].op
  <2> SUFFICES ASSUME NEW g \in Hands, hand[g].op = op
               PROVE  /\ [hand[g] EXCEPT !.seen = @ \ seen] \in Hand
                      /\ [hand[g] EXCEPT !.seen = @ \ seen].op = hand[g].op
    OBVIOUS
  <2>1. [hand[g] EXCEPT !.seen = @ \ seen] \in Hand
    BY <1>1, HandShapes
  <2>2. "op" \in DOMAIN hand[g]
    BY <1>1 DEF Hand, Resting
  <2> QED
    BY <2>1, <2>2
<1>4. \A g \in Hands : hand'[g] \in Hand
  BY <1>1, <1>2, <1>3
<1> QED
  BY <1>1, <1>3, <1>4

LEMMA InsertOptionsStep ==
  ASSUME PartsInv, NEW h \in Hands, InsertOptions(h),
         option' = Replaced(option, hand[h].seen, hand[h].given),
         Replace(h, "replaceOptions", option, hand[h].seen)
  PROVE  PartsInv'
<1> USE DEF PartsInv
<1>1. /\ hand[h].op = "replaceOptions" /\ UNCHANGED <<tier, variant, tangled>>
      /\ hand[h] \in Hand /\ hand[h].given \in Offers /\ option \in Offers
  BY HandShapes DEF InsertOptions, PartsTypeOK
<1>2. /\ option' \in Offers
      /\ hand[h].seen = DOMAIN option => option' = hand[h].given
  BY <1>1, ReplacedIsTable DEF Offers
<1>3. /\ hand' \in [Hands -> Hand]
      /\ hand'[h] = Resting
      /\ \A g \in Hands \ {h} : /\ hand'[g].op = hand[g].op
                                /\ hand[g].op # "replaceOptions" => hand'[g] = hand[g]
  BY ReplaceShapes
<1>4. PartsTypeOK'
  BY <1>1, <1>2, <1>3 DEF PartsTypeOK
<1>5. /\ \A v : Kept(v)' <=> Kept(v)
      /\ \A given : FitsVariants(given)' <=> FitsVariants(given)
      /\ \A chosen : NewCombination(chosen)' <=> NewCombination(chosen)
  BY <1>1 DEF Kept, FitsVariants, NewCombination
<1>6. ASSUME ~tangled'
      PROVE  HandsApart' /\ HandsStillRight' /\ PartsFit'
  <2>1. HandsApart /\ HandsStillRight /\ PartsFit /\ ~tangled
    BY <1>1, <1>6
  <2>2. \A g \in Hands \ {h} : hand[g].op \notin ChangesOptions /\ hand'[g] = hand[g]
    BY <1>1, <1>3, <2>1 DEF HandsApart, ChangesOptions
  <2>3. HandsApart'
    BY <1>3, <2>1, <2>2 DEF HandsApart, Resting, ChangesOptions
  <2>4. HandsStillRight'
    <3> SUFFICES ASSUME NEW g \in Hands
                 PROVE  StillRight(g)'
      BY DEF HandsStillRight
    <3>1. CASE g = h
      BY <1>3, <3>1 DEF Resting, StillRight
    <3>2. CASE g # h
      BY <1>1, <2>1, <2>2, <3>2 DEF HandsStillRight, StillRight, ChangesOptions
    <3> QED
      BY <3>1, <3>2
  <2>5. PartsFit'
    <3>1. FitsVariants(hand[h].given) /\ option' = hand[h].given
      BY <1>1, <1>2, <2>1 DEF HandsStillRight, StillRight
    <3>2. \A v \in Variants : Kept(v) => attributesMatchOptions(variant[v].chosen, option')
      BY <3>1 DEF FitsVariants
    <3> QED
      BY <1>1, <1>5, <2>1, <3>2 DEF PartsFit
  <2> QED
    BY <2>3, <2>4, <2>5
<1> QED
  BY <1>4, <1>6 DEF PartsFit

LEMMA InsertTiersStep ==
  ASSUME PartsInv, NEW h \in Hands, InsertTiers(h),
         tier' = Replaced(tier, hand[h].seen, hand[h].given),
         Replace(h, "replaceTiers", tier, hand[h].seen)
  PROVE  PartsInv'
<1> USE DEF PartsInv
<1>1. /\ hand[h].op = "replaceTiers" /\ UNCHANGED <<option, variant, tangled>>
      /\ hand[h] \in Hand /\ hand[h].given \in Ladders /\ tier \in Ladders
  BY HandShapes DEF InsertTiers, PartsTypeOK
<1>2. /\ tier' \in Ladders
      /\ hand[h].seen = DOMAIN tier => tier' = hand[h].given
  BY <1>1, ReplacedIsTable DEF Ladders
<1>3. /\ hand' \in [Hands -> Hand]
      /\ hand'[h] = Resting
      /\ \A g \in Hands \ {h} : /\ hand'[g].op = hand[g].op
                                /\ hand[g].op # "replaceTiers" => hand'[g] = hand[g]
  BY ReplaceShapes
<1>4. PartsTypeOK'
  BY <1>1, <1>2, <1>3 DEF PartsTypeOK
<1>5. /\ \A v : Kept(v)' <=> Kept(v)
      /\ \A given : FitsVariants(given)' <=> FitsVariants(given)
      /\ \A chosen : NewCombination(chosen)' <=> NewCombination(chosen)
  BY <1>1 DEF Kept, FitsVariants, NewCombination
<1>6. ASSUME ~tangled'
      PROVE  HandsApart' /\ HandsStillRight' /\ PartsFit'
  <2>1. HandsApart /\ HandsStillRight /\ PartsFit /\ ~tangled
    BY <1>1, <1>6
  <2>2. \A g \in Hands \ {h} : hand[g].op # "replaceTiers" /\ hand'[g] = hand[g]
    BY <1>1, <1>3, <2>1 DEF HandsApart
  <2>3. HandsApart'
    BY <1>3, <2>1, <2>2 DEF HandsApart, Resting, ChangesOptions
  <2>4. HandsStillRight'
    <3> SUFFICES ASSUME NEW g \in Hands
                 PROVE  StillRight(g)'
      BY DEF HandsStillRight
    <3>1. CASE g = h
      BY <1>3, <3>1 DEF Resting, StillRight
    <3>2. CASE g # h
      BY <1>1, <1>5, <2>1, <2>2, <3>2 DEF HandsStillRight, StillRight
    <3> QED
      BY <3>1, <3>2
  <2>5. PartsFit'
    <3>1. Rises(tier')
      BY <1>1, <1>2, <2>1 DEF HandsStillRight, StillRight
    <3> QED
      BY <1>1, <1>5, <2>1, <3>1 DEF PartsFit, Rises
  <2> QED
    BY <2>3, <2>4, <2>5
<1> QED
  BY <1>4, <1>6 DEF PartsFit

\* The request that adds a variant found room for it, and nobody else in
\* flight can have taken that combination or the values it chose.
LEMMA CreateVariantStep ==
  ASSUME PartsInv, NEW h \in Hands, CreateVariant(h)
  PROVE  PartsInv'
<1> USE DEF PartsInv
<1> DEFINE row == [chosen |-> hand[h].chosen, status |-> "ACTIVE", deleted |-> FALSE]
<1>1. /\ hand[h].op = "variant" /\ UNCHANGED <<option, tier, tangled>> /\ Hold(h, Resting)
      /\ hand[h] \in Hand /\ hand[h].chosen \in Choices
  BY HandShapes DEF CreateVariant, PartsTypeOK
<1>2. PICK v \in Variants : variant[v] = NoVariant /\ variant' = [variant EXCEPT ![v] = row]
  BY DEF CreateVariant
<1>3. row \in VariantRow /\ row # NoVariant /\ row.chosen = hand[h].chosen /\ ~row.deleted
  BY <1>1 DEF VariantRow, NoVariant
<1> HIDE DEF row
<1>4. /\ \A w \in Variants : variant'[w] = IF w = v THEN row ELSE variant[w]
      /\ \A g \in Hands : hand'[g] = IF g = h THEN Resting ELSE hand[g]
      /\ Resting \in Hand
  BY <1>1, <1>2 DEF PartsTypeOK, Hold, Hand
<1>5. PartsTypeOK'
  BY <1>1, <1>2, <1>3, <1>4 DEF PartsTypeOK, Hold
<1>6. \A w \in Variants : Kept(w)' <=> Kept(w) \/ w = v
  BY <1>2, <1>3, <1>4 DEF Kept
<1>7. ASSUME ~tangled'
      PROVE  HandsApart' /\ HandsStillRight' /\ PartsFit'
  <2>1. HandsApart /\ HandsStillRight /\ PartsFit /\ ~tangled
    BY <1>1, <1>7
  <2>2. HandsApart'
    BY <1>4, <2>1 DEF HandsApart, Resting, ChangesOptions
  <2>3. \A g \in Hands \ {h} : hand[g].op \notin ChangesOptions
    BY <1>1, <2>1 DEF HandsApart, ChangesOptions
  <2>4. HandsStillRight'
    BY <1>1, <1>4, <2>1, <2>3 DEF HandsStillRight, StillRight, ChangesOptions, Resting
  <2>5. /\ attributesMatchOptions(row.chosen, option)
        /\ \A w \in Variants : Kept(w) => variant[w].chosen # row.chosen
    BY <1>1, <1>3, <2>1 DEF HandsStillRight, StillRight, NewCombination
  <2>6. PartsFit'
    <3>1. \A w \in Variants : Kept(w)' => attributesMatchOptions(variant'[w].chosen, option')
      BY <1>1, <1>4, <1>6, <2>1, <2>5 DEF PartsFit
    <3>2. \A w, x \in Variants :
            Kept(w)' /\ Kept(x)' /\ variant'[w].chosen = variant'[x].chosen => w = x
      BY <1>4, <1>6, <2>1, <2>5 DEF PartsFit
    <3> QED
      BY <1>1, <2>1, <3>1, <3>2 DEF PartsFit
  <2> QED
    BY <2>2, <2>4, <2>6
<1> QED
  BY <1>5, <1>7 DEF PartsFit

\* A variant keeps what it chose, on sale or not.
LEMMA VariantChanges ==
  ASSUME PartsInv, NEW v \in Variants, Kept(v), NEW row \in VariantRow,
         row.chosen = variant[v].chosen, variant' = [variant EXCEPT ![v] = row],
         UNCHANGED <<option, tier, hand, tangled>>
  PROVE  PartsInv'
<1> USE DEF PartsInv
<1>1. \A w \in Variants : variant'[w] = IF w = v THEN row ELSE variant[w]
  BY DEF PartsTypeOK
<1>2. PartsTypeOK'
  BY DEF PartsTypeOK
<1>3. \A w \in Variants : Kept(w)' => Kept(w) /\ variant'[w].chosen = variant[w].chosen
  BY <1>1 DEF Kept
<1>4. /\ \A given : FitsVariants(given) => FitsVariants(given)'
      /\ \A chosen : NewCombination(chosen) => NewCombination(chosen)'
  BY <1>3 DEF FitsVariants, NewCombination
<1>5. PartsFit'
  BY <1>3 DEF PartsFit
<1>6. ASSUME ~tangled'
      PROVE  HandsApart' /\ HandsStillRight'
  BY <1>4, <1>6 DEF HandsApart, HandsStillRight, StillRight
<1> QED
  BY <1>2, <1>5, <1>6

LEMMA PartsStep ==
  ASSUME PartsInv, [PartsNext]_partVars
  PROVE  PartsInv'
<1>0. Resting \in Hand
  BY DEF Hand
<1>1. ASSUME NEW h \in Hands, DeleteOptions(h)
      PROVE  PartsInv'
  <2> DEFINE k == [op |-> "replaceOptions", given |-> hand[h].given, seen |-> DOMAIN option]
  <2>1. /\ hand[h].op = "options" /\ Hold(h, k) /\ UNCHANGED <<option, tier, variant, tangled>>
    BY <1>1 DEF DeleteOptions
  <2>2. hand[h].given \in Offers /\ DOMAIN option \in SUBSET OptionNames
    BY <2>1, HandShapes, TableIs DEF PartsInv, PartsTypeOK, Offers
  <2>3. /\ k \in Hand /\ k.op = "replaceOptions"
        /\ k.given = hand[h].given /\ k.seen = DOMAIN option
    BY <2>2 DEF Hand
  <2> HIDE DEF k
  <2> QED
    BY <2>1, <2>3, HandMoves
<1>2. ASSUME NEW h \in Hands, InsertOptions(h)
      PROVE  PartsInv'
  <2>1. CASE Hold(h, Resting) /\ UNCHANGED option
    BY <1>0, <1>2, <2>1, HandMoves DEF InsertOptions
  <2> QED
    BY <1>2, <2>1, InsertOptionsStep DEF InsertOptions
<1>3. ASSUME NEW h \in Hands, InsertTiers(h)
      PROVE  PartsInv'
  <2>1. CASE Hold(h, Resting) /\ UNCHANGED tier
    BY <1>0, <1>3, <2>1, HandMoves DEF InsertTiers
  <2> QED
    BY <1>3, <2>1, InsertTiersStep DEF InsertTiers
<1>4. ASSUME NEW h \in Hands, LetGo(h)
      PROVE  PartsInv'
  BY <1>0, <1>4, HandMoves DEF LetGo
<1>5. ASSUME NEW v \in Variants, NEW status \in {"ACTIVE", "INACTIVE"},
             UpdateVariant(v, status)
      PROVE  PartsInv'
  <2> DEFINE row == [variant[v] EXCEPT !.status = status]
  <2>1. variant[v] \in VariantRow /\ Kept(v)
    BY <1>5, VariantsAreRows DEF UpdateVariant, PartsInv
  <2>2. row \in VariantRow /\ row.chosen = variant[v].chosen
    BY <2>1 DEF VariantRow
  <2>3. variant' = [variant EXCEPT ![v] = row] /\ UNCHANGED <<option, tier, hand, tangled>>
    BY <1>5 DEF UpdateVariant
  <2> HIDE DEF row
  <2> QED
    BY <2>1, <2>2, <2>3, VariantChanges
<1>6. ASSUME NEW v \in Variants, RemoveVariant(v)
      PROVE  PartsInv'
  <2> DEFINE row == [variant[v] EXCEPT !.status = "INACTIVE", !.deleted = TRUE]
  <2>1. variant[v] \in VariantRow /\ Kept(v)
    BY <1>6, VariantsAreRows DEF RemoveVariant, PartsInv
  <2>2. row \in VariantRow /\ row.chosen = variant[v].chosen
    BY <2>1 DEF VariantRow
  <2>3. variant' = [variant EXCEPT ![v] = row] /\ UNCHANGED <<option, tier, hand, tangled>>
    BY <1>6 DEF RemoveVariant, PartsInv, PartsTypeOK
  <2> HIDE DEF row
  <2> QED
    BY <2>1, <2>2, <2>3, VariantChanges
<1>7. CASE UNCHANGED partVars
  BY <1>7 DEF partVars, PartsInv, PartsTypeOK, PartsFit, HandsApart, HandsStillRight, StillRight,
    FitsVariants, NewCombination, Kept
<1> QED
  BY <1>1, <1>2, <1>3, <1>4, <1>5, <1>6, <1>7, BeginSteps, CreateVariantStep DEF PartsNext

LEMMA PartsStart == PartsInit => PartsInv
<1> SUFFICES ASSUME PartsInit
             PROVE  PartsInv
  OBVIOUS
<1>1. option \in Offers /\ tier \in Ladders
  BY TableIs DEF PartsInit, Offers, Ladders
<1>2. PartsTypeOK
  BY <1>1 DEF PartsInit, PartsTypeOK, Hand
<1>3. PartsFit
  BY DEF PartsInit, PartsFit, Kept
<1>4. HandsApart /\ HandsStillRight
  BY DEF PartsInit, HandsApart, HandsStillRight, StillRight, ChangesOptions, Resting
<1> QED
  BY <1>2, <1>3, <1>4 DEF PartsInv

LEMMA PartsAlways == PartsSpec => []PartsInv
<1> QED
  BY PartsStart, PartsStep, PTL DEF PartsSpec

(***************************************************************************)
(* Options and tiers stay tables of what can be offered, and variants      *)
(* choices from them, however replacements overtake each other             *)
(* (setOptions, setVolumeTiers, products.service.ts).                      *)
(***************************************************************************)
THEOREM PartsTypeCorrect == PartsSpec => []PartsTypeOK
<1> QED
  BY PartsAlways, PTL DEF PartsInv

(***************************************************************************)
(* For any options, variants and thresholds: when no two requests changed  *)
(* the same parts at once, every variant chooses what is offered, no two   *)
(* choose alike and a bigger order is never dearer (products.service.ts).  *)
(***************************************************************************)
THEOREM PartsAlwaysFit == PartsSpec => []PartsFit
<1> QED
  BY PartsAlways, PTL DEF PartsInv

-----------------------------------------------------------------------------
(***************************************************************************)
(* Prices.  Ladders are of percentages, and so is what a card takes off.   *)
(***************************************************************************)
LEMMA GreatestOf ==
  ASSUME NEW S \in SUBSET Nat, S # {}, NEW n \in Nat, \A m \in S : m <= n
  PROVE  \E m \in S : \A k \in S : k <= m
<1> DEFINE T == {n - m : m \in S}
<1>1. T \in SUBSET Nat /\ T # {}
  <2>1. ASSUME NEW m \in S PROVE n - m \in Nat
    <3>1. m \in Nat /\ m <= n
      OBVIOUS
    <3> QED
      BY <3>1
  <2>2. PICK m \in S : TRUE
    OBVIOUS
  <2>3. n - m \in T
    OBVIOUS
  <2> QED
    BY <2>1, <2>3
<1>2. PICK t \in T : \A u \in T : t <= u
  <2> HIDE DEF T
  <2> QED
    BY <1>1, LeastNumber
<1>3. PICK m \in S : t = n - m
  OBVIOUS
<1>4. ASSUME NEW k \in S PROVE k <= m
  <2>1. n - m <= n - k
    BY <1>2, <1>3
  <2>2. m \in Nat /\ k \in Nat
    OBVIOUS
  <2> QED
    BY <2>1, <2>2
<1> QED
  BY <1>4

\* The rung selected is the last one reached.
LEMMA TierIs ==
  ASSUME NEW tiers, DOMAIN tiers \subseteq Nat, NEW quantity \in Nat
  PROVE  LET reached == {m \in DOMAIN tiers : m <= quantity}
             rung == selectTier(quantity, tiers)
         IN  /\ reached = {} => rung = None
             /\ reached # {} => /\ rung \in reached
                                /\ \A n \in reached : n <= rung
                                /\ rung # None
<1> DEFINE reached == {m \in DOMAIN tiers : m <= quantity}
<1>1. CASE reached = {}
  BY <1>1 DEF selectTier
<1>2. CASE reached # {}
  <2>1. reached \in SUBSET Nat /\ \A m \in reached : m <= quantity /\ m \in Int
    OBVIOUS
  <2>2. \E m \in reached : \A n \in reached : n <= m
    <3> HIDE DEF reached
    <3> QED
      BY <1>2, <2>1, GreatestOf
  <2>3. selectTier(quantity, tiers) = CHOOSE m \in reached : \A n \in reached : n <= m
    BY <1>2 DEF selectTier
  <2> HIDE DEF reached
  <2>4. selectTier(quantity, tiers) \in reached /\ \A n \in reached : n <= selectTier(quantity, tiers)
    BY <2>2, <2>3
  <2>5. selectTier(quantity, tiers) \in Int
    BY <2>1, <2>4
  <2> QED
    BY <1>2, <2>4, <2>5, NoneAssumption DEF reached
<1> QED
  BY <1>1, <1>2

\* Quantities that have reached the same rungs are on the same one.
LEMMA SameTier ==
  ASSUME NEW tiers, NEW a, NEW b, \A m \in DOMAIN tiers : m <= a <=> m <= b
  PROVE  selectTier(a, tiers) = selectTier(b, tiers)
<1> DEFINE reached(q) == {m \in DOMAIN tiers : m <= q}
<1>1. reached(a) = reached(b)
  OBVIOUS
<1>2. \A q : selectTier(q, tiers) =
               IF reached(q) = {} THEN None
               ELSE CHOOSE m \in reached(q) : \A n \in reached(q) : n <= m
  BY DEF selectTier
<1> HIDE DEF reached
<1> QED
  BY <1>1, <1>2

LEMMA SamePrice ==
  ASSUME NEW base, NEW tiers, NEW contract, NEW a, NEW b,
         \A m \in DOMAIN tiers \cup contractRungs(contract) : m <= a <=> m <= b
  PROVE  priceForContract(base, a, tiers, contract) = priceForContract(base, b, tiers, contract)
<1>1. selectTier(a, tiers) = selectTier(b, tiers)
  BY SameTier
<1>2. ASSUME contract # NoContract, contract.item # NoRule
      PROVE  selectTier(a, contract.item.tiers) = selectTier(b, contract.item.tiers)
  BY <1>2, SameTier DEF contractRungs
<1>3. priceLine(base, a, tiers) = priceLine(base, b, tiers)
  BY <1>1 DEF priceLine
<1>4. resolveContract(base, a, contract) = resolveContract(base, b, contract)
  BY <1>2 DEF resolveContract
<1> QED
  BY <1>3, <1>4 DEF priceForContract

LEMMA NothingOff ==
  ASSUME NEW price \in Nat
  PROVE  applyDiscount(price, 0) = price
<1>1. 2 * price * (100 - 0) + 100 = 200 * price + 100
  OBVIOUS
<1>2. (200 * price + 100) \div 200 = price
  OBVIOUS
<1> QED
  BY <1>1, <1>2 DEF applyDiscount

\* A quantity is rounded up to the least that can be ordered, once.
LEMMA Rounded ==
  ASSUME NEW quantity \in Nat, NEW moq \in Nat \ {0}, NEW multiple \in Nat \ {0}
  PROVE  LET ordered == roundToOrderable(quantity, moq, multiple)
         IN  /\ ordered \in Nat
             /\ ordered >= Max(quantity, moq)
             /\ ordered - multiple < Max(quantity, moq)
             /\ (ordered - moq) % multiple = 0
<1> DEFINE above == Max(quantity, moq) - moq
           steps == (above + multiple - 1) \div multiple
<1>1. Max(quantity, moq) \in Nat /\ above \in Nat
  BY DEF Max
<1>2. CASE multiple <= 1
  <2>1. multiple = 1
    BY <1>2
  <2>2. roundToOrderable(quantity, moq, multiple) = Max(quantity, moq)
    BY <1>2 DEF roundToOrderable
  <2>3. (Max(quantity, moq) - moq) % 1 = 0
    BY <1>1
  <2> QED
    BY <1>1, <2>1, <2>2, <2>3
<1>3. CASE multiple > 1
  <2>1. roundToOrderable(quantity, moq, multiple) = moq + steps * multiple
    BY <1>3 DEF roundToOrderable
  <2>2. /\ steps \in Nat
        /\ steps * multiple <= above + multiple - 1
        /\ above + multiple - 1 < steps * multiple + multiple
    <3>1. \A n \in Nat : /\ n \div multiple \in Nat
                         /\ (n \div multiple) * multiple <= n
                         /\ n < (n \div multiple) * multiple + multiple
      OBVIOUS
    <3>2. above + multiple - 1 \in Nat
      BY <1>1
    <3> HIDE DEF above
    <3> QED
      BY <3>1, <3>2
  <2> HIDE DEF steps
  <2>3. steps * multiple \in Nat
    BY <2>2
  <2>4. (steps * multiple) % multiple = 0
    BY <2>2
  <2> QED
    BY <1>1, <2>1, <2>2, <2>3, <2>4
<1> QED
  BY <1>2, <1>3

LEMMA RoundedIsOrderable ==
  ASSUME NEW quantity \in Nat, NEW moq \in Nat \ {0}, NEW multiple \in Nat \ {0},
         quantity >= moq, (quantity - moq) % multiple = 0
  PROVE  isOrderableQuantity(quantity, moq, multiple)
<1>1. PICK ordered : ordered = roundToOrderable(quantity, moq, multiple)
  OBVIOUS
<1>2. Max(quantity, moq) = quantity
  BY DEF Max
<1>3. /\ ordered \in Nat /\ ordered >= quantity /\ ordered - multiple < quantity
      /\ (ordered - moq) % multiple = 0
  BY <1>1, <1>2, Rounded
<1>4. PICK far, near \in Int : ordered - moq = multiple * far /\ quantity - moq = multiple * near
  <2>1. \A n \in Nat : n % multiple = 0 => n = multiple * (n \div multiple) /\ n \div multiple \in Int
    OBVIOUS
  <2>2. ordered - moq \in Nat /\ quantity - moq \in Nat
    BY <1>3
  <2> QED
    BY <1>3, <2>1, <2>2
<1>5. far = near
  <2>1. multiple * (far - near) = ordered - quantity
    BY <1>3, <1>4
  <2>2. 0 <= multiple * (far - near) /\ multiple * (far - near) < multiple
    BY <1>3, <2>1
  <2>3. \A d \in Int : 0 <= multiple * d /\ multiple * d < multiple => d = 0
    OBVIOUS
  <2> QED
    BY <2>2, <2>3
<1>6. ordered = quantity
  BY <1>3, <1>4, <1>5
<1> QED
  BY <1>1, <1>6 DEF isOrderableQuantity

(***************************************************************************)
(* What the page shows is what is charged, for every price, quantity,      *)
(* minimum, multiple, ladder and contract (rate-card-pricing.ts).          *)
(***************************************************************************)
THEOREM LadderIsTold ==
  ASSUME NEW base \in Nat, NEW quantity \in Nat, NEW moq \in Nat \ {0}, NEW multiple \in Nat \ {0},
         NEW tiers, IsLadder(tiers), NEW contract, IsCard(contract)
  PROVE  LadderTellsPrice(base, quantity, moq, multiple, tiers, contract)
<1>1. PICK ordered : ordered = roundToOrderable(quantity, moq, multiple)
  OBVIOUS
<1>2. /\ ordered \in Nat
      /\ ordered >= Max(quantity, moq)
      /\ ordered - multiple < Max(quantity, moq)
      /\ (ordered - moq) % multiple = 0
  BY <1>1, Rounded
<1>3. ordered >= moq /\ Max(1, moq) = moq
  BY <1>2 DEF Max
<1> DEFINE rungs == DOMAIN tiers \cup contractRungs(contract)
           thresholds == LadderThresholds(moq, tiers, contract)
           ladder == priceLadderForContract(base, moq, tiers, contract)
<1>4. rungs \subseteq Nat
  BY DEF IsLadder, IsCard, IsRule, contractRungs
<1>5. thresholds = {q \in {moq} \cup rungs : q >= moq}
  BY <1>3 DEF LadderThresholds
<1>6. thresholds \subseteq Nat /\ moq \in thresholds
  BY <1>4, <1>5
<1>7. DOMAIN ladder = thresholds /\ \A q \in thresholds : ladder[q] = priceForContract(base, q, tiers, contract)
  BY DEF priceLadderForContract
<1> HIDE DEF ladder, thresholds, rungs
<1>8. PICK rung : rung = selectTier(ordered, ladder)
  OBVIOUS
<1>9. /\ rung \in thresholds /\ rung <= ordered /\ rung # None
      /\ \A n \in thresholds : n <= ordered => n <= rung
  <2>1. moq \in {m \in DOMAIN ladder : m <= ordered}
    BY <1>3, <1>6, <1>7
  <2> QED
    BY <1>2, <1>6, <1>7, <1>8, <2>1, TierIs
<1>10. \A m \in rungs : m <= rung <=> m <= ordered
  <2> SUFFICES ASSUME NEW m \in rungs PROVE m <= rung <=> m <= ordered
    OBVIOUS
  <2>1. m \in Nat /\ rung \in Nat /\ rung >= moq
    BY <1>4, <1>5, <1>6, <1>9
  <2>2. CASE m >= moq
    <3>1. m \in thresholds
      BY <1>5, <2>2
    <3> QED
      BY <1>2, <1>9, <2>1, <3>1
  <2>3. CASE m < moq
    BY <1>2, <1>3, <2>1, <2>3
  <2> QED
    BY <2>1, <2>2, <2>3
<1>11. ladder[rung] = priceForContract(base, ordered, tiers, contract)
  BY <1>7, <1>9, <1>10, SamePrice DEF rungs
<1> QED
  BY <1>1, <1>2, <1>8, <1>9, <1>11 DEF LadderTellsPrice, ladder

(***************************************************************************)
(* Discounts never stack, whatever the price, the ladder and the contract  *)
(* (rate-card-pricing.ts).                                                 *)
(***************************************************************************)
THEOREM NoDiscountStacks ==
  ASSUME NEW base \in Nat, NEW quantity \in Nat, NEW tiers, IsLadder(tiers), NEW contract, IsCard(contract)
  PROVE  DiscountsNeverStack(base, quantity, tiers, contract)
<1> DEFINE line == priceLine(base, quantity, tiers)
           negotiated == resolveContract(base, quantity, contract)
           published == {tiers[m] : m \in DOMAIN tiers}
           isOne(price) == \E percent \in {0} \cup Percentages(contract) \cup published :
                             price = applyDiscount(base, percent)
<1>1. isOne(line)
  <2>1. CASE selectTier(quantity, tiers) = None
    BY <2>1, NothingOff DEF priceLine
  <2>2. CASE selectTier(quantity, tiers) # None
    <3>1. selectTier(quantity, tiers) \in DOMAIN tiers
      BY <2>2, TierIs DEF IsLadder
    <3> QED
      BY <2>2, <3>1 DEF priceLine
  <2> QED
    BY <2>1, <2>2
<1>2. \/ negotiated = None
      \/ contract # NoContract /\ contract.item # NoRule /\ negotiated = contract.item.fixed
      \/ isOne(negotiated)
  <2>1. CASE contract = NoContract
    BY <2>1 DEF resolveContract
  <2>2. CASE contract # NoContract /\ contract.item = NoRule
    BY <2>2 DEF resolveContract, Percentages
  <2>3. CASE contract # NoContract /\ contract.item # NoRule
    <3> DEFINE rung == selectTier(quantity, contract.item.tiers)
    <3>1. rung # None => rung \in contractRungs(contract)
      BY <2>3, TierIs DEF IsCard, IsRule, IsLadder, contractRungs
    <3>2. rung # None => contract.item.tiers[rung] \in Percentages(contract)
      BY <2>3, <3>1 DEF Percentages
    <3>3. /\ contract.item.percent # None => contract.item.percent \in Percentages(contract)
          /\ contract.default \in Percentages(contract)
      BY <2>3 DEF Percentages
    <3>4. negotiated = IF contract.item.fixed # None THEN contract.item.fixed
                     ELSE IF rung # None THEN applyDiscount(base, contract.item.tiers[rung])
                     ELSE IF contract.item.percent # None THEN applyDiscount(base, contract.item.percent)
                     ELSE IF contract.default > 0 THEN applyDiscount(base, contract.default)
                     ELSE None
      BY <2>3 DEF resolveContract
    <3> HIDE DEF rung, negotiated
    <3> QED
      BY <2>3, <3>2, <3>3, <3>4
  <2> QED
    BY <2>1, <2>2, <2>3
<1>3. priceForContract(base, quantity, tiers, contract) = IF negotiated # None THEN negotiated ELSE line
  BY DEF priceForContract
<1> HIDE DEF line, negotiated
<1> QED
  BY <1>1, <1>2, <1>3 DEF DiscountsNeverStack

(***************************************************************************)
(* A value that is accepted is for one box that was opened, and no box     *)
(* that must be filled in is left empty, whatever the layers and the       *)
(* answers (template-status.ts).                                           *)
(***************************************************************************)
THEOREM AnswersReachOneBox ==
  ASSUME NEW layers, NEW submitted
  PROVE  AnswersReachTheirBox(layers, submitted)
<1> DEFINE editable == editableLayers(layers)
           keys == {editableFieldKey(l) : l \in editable}
           answered == {k \in DOMAIN submitted : submitted[k] # ""}
           boxes(key) == {l \in layers : l.editable /\ l.holdsContent /\ editableFieldKey(l) = key}
           accepted == acceptCustomisation(layers, submitted)
<1> SUFFICES ASSUME assertLayersWellFormed(layers), accepted # Refused
             PROVE  /\ \A key \in DOMAIN accepted :
                         Cardinality(boxes(key)) = 1 /\ accepted[key] = submitted[key]
                    /\ \A l \in editable : l.required => editableFieldKey(l) \in DOMAIN accepted
  BY DEF AnswersReachTheirBox
<1>1. /\ DOMAIN submitted \subseteq keys
      /\ \A l \in editable : l.required => editableFieldKey(l) \in answered
      /\ accepted = [k \in answered |-> submitted[k]]
  BY DEF acceptCustomisation
<1>2. ASSUME NEW key \in DOMAIN accepted PROVE Cardinality(boxes(key)) = 1
  <2>1. PICK l \in editable : editableFieldKey(l) = key
    BY <1>1
  <2>2. boxes(key) = {l}
    BY <2>1 DEF editableLayers, assertLayersWellFormed
  <2> QED
    BY <2>2, FS_Singleton
<1> QED
  BY <1>1, <1>2

(***************************************************************************)
(* Baskets.  Lines of one product name the same product.                   *)
(***************************************************************************)
LEMMA NoIssues ==
  ASSUME NEW basket, IsBasket(basket), NEW contract, validate(basket, contract).issues = {},
         NEW i \in DOMAIN basket
  PROVE  /\ basket[i].good.visible
         /\ basket[i].good.orderable
         /\ basket[i].good.tracked =>
              orderableQuantityOf(basket[i]) <= availableStock(basket[i])
<1>1. checkLine(basket[i]) = {}
  <2>1. validate(basket, contract).issues =
          UNION {checkLine(basket[j]) : j \in DOMAIN basket}
            \cup (IF basket = <<>> THEN {"EMPTY_CART"} ELSE {})
    BY DEF validate
  <2> QED
    BY <2>1
<1>2. basket[i].good.visible
  BY <1>1 DEF checkLine
<1>3. \A code \in {"PRODUCT_UNAVAILABLE", "INSUFFICIENT_STOCK"} :
        ~(CASE code = "TEMPLATE_UNAVAILABLE" ->
                 basket[i].template # BlankLine /\ ~basket[i].template.available
            [] code = "PRODUCT_UNAVAILABLE" -> ~basket[i].good.orderable
            [] code = "VARIANT_UNAVAILABLE" ->
                 basket[i].variant # PlainLine /\ ~basket[i].variant.active
            [] code = "INSUFFICIENT_STOCK" ->
                 basket[i].good.tracked
                   /\ orderableQuantityOf(basket[i]) > availableStock(basket[i]))
  BY <1>1, <1>2 DEF checkLine
<1>4. /\ basket[i].good.orderable
      /\ ~(basket[i].good.tracked /\ orderableQuantityOf(basket[i]) > availableStock(basket[i]))
  BY <1>3
<1>5. orderableQuantityOf(basket[i]) \in Nat /\ availableStock(basket[i]) \in Int
  BY Rounded DEF orderableQuantityOf, IsBasket, IsLine
<1> QED
  BY <1>2, <1>4, <1>5

LEMMA QuoteIs ==
  ASSUME NEW basket, IsBasket(basket), NEW contract,
         \A i \in DOMAIN basket : basket[i].good.visible, NEW i \in DOMAIN basket
  PROVE  LET quotes == quoteLines(basket, contract)
             ordered == orderableQuantityOf(basket[i])
             price == unitPriceFor(basket[i].good, ordered, contract)
         IN  /\ quoteKey(basket[i]) \in DOMAIN quotes
             /\ quotes[quoteKey(basket[i])].unitPrice = price
             /\ quotes[quoteKey(basket[i])].lineTotal = ordered * price
<1> DEFINE visible == {j \in DOMAIN basket : basket[j].good.visible}
           same == {j \in visible : quoteKey(basket[j]) = quoteKey(basket[i])}
           last == CHOOSE j \in visible :
                     /\ quoteKey(basket[j]) = quoteKey(basket[i])
                     /\ \A k \in visible : quoteKey(basket[k]) = quoteKey(basket[i]) => k <= j
<1>1. visible = DOMAIN basket
  OBVIOUS
<1>2. last \in same
  <2>1. PICK n \in Nat : DOMAIN basket = 1..n
    BY DEF IsBasket
  <2>2. same \in SUBSET Nat /\ same # {} /\ \A j \in same : j <= n
    BY <1>1, <2>1
  <2>3. PICK j \in same : \A k \in same : k <= j
    <3> HIDE DEF same
    <3> QED
      BY <2>2, GreatestOf
  <2> HIDE DEF visible
  <2>4. \E m \in visible :
          /\ quoteKey(basket[m]) = quoteKey(basket[i])
          /\ \A k \in visible : quoteKey(basket[k]) = quoteKey(basket[i]) => k <= m
    BY <2>3
  <2> QED
    BY <2>4
<1>3. LET line == basket[last]
          quantity == orderableQuantityOf(line)
          key == quoteKey(basket[i])
      IN  /\ key \in DOMAIN quoteLines(basket, contract)
          /\ quoteLines(basket, contract)[key] =
               [unitPrice |-> unitPriceFor(line.good, quantity, contract),
                lineTotal |-> quantity * unitPriceFor(line.good, quantity, contract),
                catalogUnitPrice |-> priceLine(line.good.base, quantity, line.good.tiers)]
  <2>1. quoteKey(basket[i]) \in {quoteKey(basket[j]) : j \in visible}
    BY <1>1
  <2> QED
    BY <2>1 DEF quoteLines
<1> HIDE DEF last
<1>4. last \in DOMAIN basket /\ quoteKey(basket[last]) = quoteKey(basket[i])
  BY <1>1, <1>2
<1>5. /\ basket[last].good = basket[i].good
      /\ orderableQuantityOf(basket[last]) = orderableQuantityOf(basket[i])
  BY <1>4 DEF quoteKey, IsBasket
<1> QED
  BY <1>3, <1>5

(***************************************************************************)
(* The order a basket becomes is the one the buyer was told of, whatever   *)
(* is in the basket and whatever the contract (cart.service.ts).           *)
(***************************************************************************)
THEOREM BasketIsTold ==
  ASSUME NEW basket, IsBasket(basket), NEW contract, IsCard(contract)
  PROVE  BasketTellsOrder(basket, contract)
<1> DEFINE session == validate(basket, contract)
           order == placed(basket, contract)
           quotes == quoteLines(basket, contract)
           ordered(i) == orderableQuantityOf(basket[i])
           price(i) == unitPriceFor(basket[i].good, ordered(i), contract)
<1> SUFFICES ASSUME session.issues = {}
             PROVE  /\ session.subtotal =
                         SumFunction([i \in DOMAIN order |-> order[i].quantity * order[i].quote.unitPrice])
                    /\ \A i \in DOMAIN basket :
                         LET good == basket[i].good
                             ladder == priceLadderForContract(good.base, good.moq, good.tiers, contract)
                         IN  /\ order[i].quote.unitPrice = ladder[selectTier(order[i].quantity, ladder)]
                             /\ good.orderable /\ isOrderableQuantity(order[i].quantity, good.moq, good.multiple)
                             /\ order[i].quantity >= basket[i].quantity
                             /\ session.warnings = {} => order[i].quantity = basket[i].quantity
                             /\ good.tracked => order[i].quantity <= availableStock(basket[i])
  BY DEF BasketTellsOrder
<1>1. \A i \in DOMAIN basket : basket[i].good.visible
  BY NoIssues
<1>2. ASSUME NEW i \in DOMAIN basket
      PROVE  /\ quoteKey(basket[i]) \in DOMAIN quotes
             /\ quotes[quoteKey(basket[i])].unitPrice = price(i)
             /\ quotes[quoteKey(basket[i])].lineTotal = ordered(i) * price(i)
  BY <1>1, QuoteIs
<1>3. /\ DOMAIN order = DOMAIN basket
      /\ \A i \in DOMAIN basket : order[i].quantity = ordered(i) /\ order[i].quote = quotes[quoteKey(basket[i])]
  BY DEF placed
<1>4. session.subtotal = SumFunction([i \in DOMAIN basket |-> quotes[quoteKey(basket[i])].lineTotal])
  <2>1. {i \in DOMAIN basket : quoteKey(basket[i]) \in DOMAIN quotes} = DOMAIN basket
    BY <1>2
  <2>2. session.subtotal =
          SumFunction([i \in {j \in DOMAIN basket : quoteKey(basket[j]) \in DOMAIN quotes} |->
                         quotes[quoteKey(basket[i])].lineTotal])
    BY DEF validate
  <2> HIDE DEF session, quotes
  <2> QED
    BY <2>1, <2>2
<1> HIDE DEF order, quotes, price, ordered
<1>5. [i \in DOMAIN basket |-> quotes[quoteKey(basket[i])].lineTotal]
        = [i \in DOMAIN order |-> order[i].quantity * order[i].quote.unitPrice]
  BY <1>2, <1>3
<1>6. ASSUME NEW i \in DOMAIN basket, NEW good, good = basket[i].good,
             NEW ladder, ladder = priceLadderForContract(good.base, good.moq, good.tiers, contract)
      PROVE  /\ order[i].quote.unitPrice = ladder[selectTier(order[i].quantity, ladder)]
             /\ good.orderable /\ isOrderableQuantity(order[i].quantity, good.moq, good.multiple)
             /\ order[i].quantity >= basket[i].quantity
             /\ session.warnings = {} => order[i].quantity = basket[i].quantity
             /\ good.tracked => order[i].quantity <= availableStock(basket[i])
  <2>1. /\ basket[i].quantity \in Nat /\ good.base \in Nat
        /\ good.moq \in Nat \ {0} /\ good.multiple \in Nat \ {0} /\ IsLadder(good.tiers)
    BY <1>6 DEF IsBasket, IsLine
  <2>2. ordered(i) = roundToOrderable(basket[i].quantity, good.moq, good.multiple)
    BY <1>6 DEF ordered, orderableQuantityOf
  <2>3. /\ ordered(i) \in Nat /\ ordered(i) >= Max(basket[i].quantity, good.moq)
        /\ (ordered(i) - good.moq) % good.multiple = 0
    BY <2>1, <2>2, Rounded
  <2>4. ordered(i) >= basket[i].quantity /\ ordered(i) >= good.moq
    BY <2>1, <2>3 DEF Max
  <2>5. isOrderableQuantity(ordered(i), good.moq, good.multiple)
    BY <2>1, <2>3, <2>4, RoundedIsOrderable
  <2>6. ladder[selectTier(ordered(i), ladder)] = price(i)
    <3>1. LadderTellsPrice(good.base, basket[i].quantity, good.moq, good.multiple, good.tiers, contract)
      BY <2>1, LadderIsTold
    <3> QED
      BY <1>6, <2>2, <3>1 DEF LadderTellsPrice, price, unitPriceFor
  <2>7. session.warnings = {} => ordered(i) = basket[i].quantity
    <3> SUFFICES ASSUME session.warnings = {} PROVE ordered(i) = basket[i].quantity
      OBVIOUS
    <3>1. warnings(basket[i]) = {}
      <4>1. session.warnings = UNION {warnings(basket[j]) : j \in DOMAIN basket}
        BY DEF validate
      <4> QED
        BY <4>1
    <3>2. isOrderableQuantity(basket[i].quantity, good.moq, good.multiple)
      BY <1>1, <1>6, <3>1 DEF warnings
    <3> QED
      BY <2>2, <3>2 DEF isOrderableQuantity
  <2>8. good.orderable /\ (good.tracked => ordered(i) <= availableStock(basket[i]))
    BY <1>6, NoIssues DEF ordered
  <2>9. order[i].quantity = ordered(i) /\ order[i].quote.unitPrice = price(i)
    BY <1>2, <1>3
  <2> QED
    BY <2>4, <2>5, <2>6, <2>7, <2>8, <2>9
<1> QED
  BY <1>4, <1>5, <1>6

(***************************************************************************)
(* Offers: whatever a request finds, what a buyer is told is what is       *)
(* charged, ordered and printed.                                           *)
(***************************************************************************)
OfferIsOne == offer \in {NothingAsked} \cup Quotes \cup Baskets \cup Designs

\* What is told of one offer rests on the theorems about its kind.
LEMMA OfferIsTold == OfferIsOne => OrderedAsTold
<1> SUFFICES ASSUME OfferIsOne PROVE OrderedAsTold
  OBVIOUS
<1>1. CASE offer \in Quotes
  <2>1. /\ offer.asks = "price" /\ offer.base \in Nat
        /\ IsLadder(offer.catalogTiers) /\ IsCard(offer.card)
    BY <1>1, OffersAssumption
  <2>2. ASSUME NEW quantity \in AskedQuantities, NEW moq \in Minimums, NEW multiple \in Multiples
        PROVE  /\ LadderTellsPrice(offer.base, quantity, moq, multiple, offer.catalogTiers, offer.card)
               /\ DiscountsNeverStack(offer.base, quantity, offer.catalogTiers, offer.card)
    <3>1. quantity \in Nat /\ moq \in Nat \ {0} /\ multiple \in Nat \ {0}
      BY OffersAssumption
    <3> QED
      BY <2>1, <3>1, LadderIsTold, NoDiscountStacks
  <2> QED
    BY <2>1, <2>2 DEF OrderedAsTold
<1>2. CASE offer \in Baskets
  <2>1. offer.asks = "basket" /\ IsBasket(offer.basket) /\ IsCard(offer.card)
    BY <1>2, OffersAssumption
  <2>2. BasketTellsOrder(offer.basket, offer.card)
    BY <2>1, BasketIsTold
  <2> QED
    BY <2>1, <2>2 DEF OrderedAsTold
<1>3. CASE offer \in Designs
  <2>1. offer.asks = "design"
    BY <1>3, OffersAssumption
  <2>2. AnswersReachTheirBox(offer.layers, offer.submitted)
    BY AnswersReachOneBox
  <2> QED
    BY <2>1, <2>2 DEF OrderedAsTold
<1>4. CASE offer = NothingAsked
  <2>1. offer.asks = "nothing"
    BY <1>4 DEF NothingAsked
  <2> QED
    BY <2>1 DEF OrderedAsTold
<1> QED
  BY <1>1, <1>2, <1>3, <1>4 DEF OfferIsOne

(***************************************************************************)
(* What the page shows is what is charged, no discounts add up, an order   *)
(* is what its basket said and an answer reaches its box, whatever state   *)
(* of products, contracts, baskets and designs the constraints allow       *)
(* (pricing.service.ts, cart.service.ts, template-status.ts).              *)
(***************************************************************************)
THEOREM OrdersAreAsTold == OffersSpec => []OrderedAsTold
<1>1. OffersInit => OfferIsOne
  BY DEF OffersInit, OfferIsOne
<1>2. OfferIsOne /\ [OffersNext]_offer => OfferIsOne'
  BY DEF OffersNext, Ask, Answer, OfferIsOne
<1>3. QED
  BY <1>1, <1>2, OfferIsTold, PTL DEF OffersSpec
=============================================================================
