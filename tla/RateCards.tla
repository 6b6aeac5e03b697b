----------------------------- MODULE RateCards -----------------------------
(***************************************************************************)
(* The contracts of one account: rate-cards.service.ts, the constraint     *)
(* behind it, and the card pricing.service.ts prices a quote with.  What a *)
(* card makes of a price is in Prices.                                     *)
(*                                                                         *)
(* Every handler reads the card (requireCard) and writes it by id in a     *)
(* later transaction.                                                      *)
(***************************************************************************)
EXTENDS Naturals, FiniteSets

CONSTANTS
  Cards, Products, Terms,
  Editors,        \* requests that can be in flight at once
  LastDay         \* bound: windows lie within 0..LastDay

ASSUME DayAssumption == LastDay \in Nat

VARIABLES
  card,           \* the rate_cards rows
  terms,          \* their rate_card_items, with the ladder of each
  editor,
  retired,        \* history: cards that were archived
  misled          \* history: a card was written from a status it no longer had

cardVars == <<card, terms, editor, retired, misled>>

NoCard == [status |-> "none"]
NoTerms == "no terms"
Still == [op |-> "still"]

Days == 0..LastDay
\* [from, to): an open-ended card ends after the last day.
Windows == {w \in [from : Days, to : Days \cup {LastDay + 1}] : w.from < w.to}
CardStatus == {"DRAFT", "ACTIVE", "ARCHIVED"}
Card == [status : CardStatus, deleted : BOOLEAN, window : Windows]
Editor ==
  [op : {"update", "status", "items", "removeItem", "remove"}, card : Cards, was : Card]

RateCardsTypeOK ==
  /\ card \in [Cards -> Card \cup {NoCard}]
  /\ terms \in [Cards -> [Products -> Terms \cup {NoTerms}]]
  /\ editor \in [Editors -> Editor \cup {Still}]
  /\ retired \subseteq Cards
  /\ misled \in BOOLEAN

RateCardsInit ==
  /\ card = [c \in Cards |-> NoCard]
  /\ terms = [c \in Cards |-> [p \in Products |-> NoTerms]]
  /\ editor = [e \in Editors |-> Still]
  /\ retired = {}
  /\ misled = FALSE

-----------------------------------------------------------------------------
ALLOWED_STEPS ==
  [DRAFT |-> {"ACTIVE", "ARCHIVED"}, ACTIVE |-> {"ARCHIVED"}, ARCHIVED |-> {}]

mayStepFreely(from, to) == from # to                 \* mutant: the table not consulted
mayStep(from, to) == to \in ALLOWED_STEPS[from]

Alive(c) == card[c] # NoCard /\ ~card[c].deleted
InForce(c) == Alive(c) /\ card[c].status = "ACTIVE"
Overlap(v, w) == v.from < w.to /\ w.from < v.to

\* rate_cards_no_overlapping_active, on every insert and update of a row.
ConstraintOnActivation(c, row) ==                        \* mutant: not on a re-dated card
  row.status = "ACTIVE" /\ ~row.deleted /\ card[c].status # "ACTIVE" =>
    \A d \in Cards \ {c} : InForce(d) => ~Overlap(card[d].window, row.window)
ConstraintHolds(c, row) ==
  row.status = "ACTIVE" /\ ~row.deleted =>
    \A d \in Cards \ {c} : InForce(d) => ~Overlap(card[d].window, row.window)

Set(e, k) == editor' = [editor EXCEPT ![e] = k]

\* requireCard and, for an edit of what is in it, assertMutable.
Begin(e, c, op) ==
  /\ editor[e] = Still
  /\ Alive(c)
  /\ op \in {"update", "items", "removeItem"} => card[c].status # "ARCHIVED"
  /\ Set(e, [op |-> op, card |-> c, was |-> card[c]])
  /\ UNCHANGED <<card, terms, retired, misled>>

\* The card is written; the constraint may turn it away.
Write(e, row) ==
  LET c == editor[e].card
  IN  /\ \/ /\ ConstraintHolds(c, row)
            /\ card' = [card EXCEPT ![c] = row]
            /\ retired' = IF row.status = "ARCHIVED" THEN retired \cup {c} ELSE retired
         \/ /\ ~ConstraintHolds(c, row)
            /\ UNCHANGED <<card, retired>>
      /\ misled' = (misled \/ card[c].status # editor[e].was.status)

-----------------------------------------------------------------------------
CreateCard(c, window, given) ==
  /\ card[c] = NoCard
  /\ card' = [card EXCEPT ![c] = [status |-> "DRAFT", deleted |-> FALSE, window |-> window]]
  /\ terms' = [terms EXCEPT ![c] = given]
  /\ UNCHANGED <<editor, retired, misled>>

\* update: the ends given, checked against the other end as it was read; the
\* row has a constraint of its own for what they then make together.
UpdateCard(e, window, ends) ==
  /\ editor[e].op = "update"
  /\ LET k == editor[e]
         now == card[k.card]
         onto(w) == [end \in {"from", "to"} |-> IF end \in ends THEN window[end] ELSE w[end]]
     IN  /\ onto(k.was.window) \in Windows
         /\ onto(now.window) \in Windows
         /\ Write(e, [now EXCEPT !.window = onto(@)])
  /\ Set(e, Still)
  /\ UNCHANGED terms

ChangeCardStatus(e, to) ==
  /\ editor[e].op = "status"
  /\ mayStep(editor[e].was.status, to)
  /\ Write(e, [card[editor[e].card] EXCEPT !.status = to])
  /\ Set(e, Still)
  /\ UNCHANGED terms

\* remove: soft, and out of force in the same write.
RemoveCard(e) ==
  /\ editor[e].op = "remove"
  /\ Write(e, [card[editor[e].card] EXCEPT !.status = "ARCHIVED", !.deleted = TRUE])
  /\ Set(e, Still)
  /\ UNCHANGED terms

\* setItems: the whole payload in one transaction; replaceAll drops the rest.
SetItems(e, given, replaceAll) ==
  /\ editor[e].op = "items"
  /\ terms' = [terms EXCEPT ![editor[e].card] =
       [p \in Products |-> IF given[p] # NoTerms THEN given[p]
                           ELSE IF replaceAll THEN NoTerms ELSE @[p]]]
  /\ misled' = (misled \/ card[editor[e].card].status # editor[e].was.status)
  /\ Set(e, Still)
  /\ UNCHANGED <<card, retired>>

RemoveCardItem(e, p) ==
  /\ editor[e].op = "removeItem"
  /\ terms' = [terms EXCEPT ![editor[e].card][p] = NoTerms]
  /\ misled' = (misled \/ card[editor[e].card].status # editor[e].was.status)
  /\ Set(e, Still)
  /\ UNCHANGED <<card, retired>>

LeaveEditor(e) ==
  /\ editor[e] # Still
  /\ Set(e, Still)
  /\ UNCHANGED <<card, terms, retired, misled>>

-----------------------------------------------------------------------------
\* activeCardFor of pricing.service.ts: of these, the one that began last.
Covering(day) ==
  {c \in Cards : InForce(c) /\ card[c].window.from <= day /\ day < card[c].window.to}

RateCardsNext ==
  \/ \E c \in Cards, window \in Windows, given \in [Products -> Terms \cup {NoTerms}] :
       CreateCard(c, window, given)
  \/ \E e \in Editors :
       \/ \E c \in Cards, op \in {"update", "status", "items", "removeItem", "remove"} :
            Begin(e, c, op)
       \/ \E window \in Windows, ends \in SUBSET {"from", "to"} : UpdateCard(e, window, ends)
       \/ \E to \in CardStatus : ChangeCardStatus(e, to)
       \/ RemoveCard(e) \/ LeaveEditor(e)
       \/ \E given \in [Products -> Terms \cup {NoTerms}], replaceAll \in BOOLEAN :
            SetItems(e, given, replaceAll)
       \/ \E p \in Products : RemoveCardItem(e, p)

RateCardsSpec == RateCardsInit /\ [][RateCardsNext]_cardVars

-----------------------------------------------------------------------------
(***************************************************************************)
(* An account has one contract at a time, whichever way two came to        *)
(* overlap: activated in the same second, or one of them re-dated; and a   *)
(* card once archived never prices anything again, unless whoever          *)
(* activated it had read it before (changeStatus, rate-cards.service.ts).  *)
(***************************************************************************)
OneContractAtATime ==
  /\ \A day \in Days : Cardinality(Covering(day)) <= 1
  /\ ~misled => \A c \in retired : card[c].status = "ARCHIVED"
=============================================================================
