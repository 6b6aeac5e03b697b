----------------------------- MODULE MCLibrary -----------------------------
(***************************************************************************)
(* Instances for TLC of what is sold and on which terms: templates, rate   *)
(* cards, products and their parts, and what is offered.  The parts share  *)
(* no state: each behaviour is about one of them, and the others stay as   *)
(* they start.                                                             *)
(***************************************************************************)
EXTENDS Templates, RateCards, Catalogue, ProductParts, Offers, TLC

CONSTANTS x1, x2, d1, d2, k1, k2, c1, c2, r1, r2

VARIABLE focus     \* the part this behaviour is about

\* Bounds: a list price that rounds at every percentage below, one that does
\* not, and nothing; two thresholds of each ladder, and a fixed price of zero.
Bases == {0, 7, 100}
CatalogLadders == UNION {[rungs -> {10, 50}] : rungs \in SUBSET {2, 5}}
ContractLadders == UNION {[rungs -> {0, 15}] : rungs \in SUBSET {3, 5}}
Rules ==
  {rule \in [fixed : {None, 0, 9}, percent : {None, 25}, tiers : ContractLadders] :
     rule.fixed = None \/ rule.percent = None}
Contracts == {NoContract} \cup [default : {0, 15}, item : {NoRule} \cup Rules]
MCQuotes == [asks : {"price"}, base : Bases, catalogTiers : CatalogLadders, card : Contracts]

\* Bounds: one product on one or two lines of 1 to 3, where 2 earns half off
\* the list and 3 another rung of a contract; what may be wrong with a product
\* is wrong with it alone.
Good(moq, multiple, tracked, visible, orderable) ==
  [sku |-> k1, visible |-> visible, orderable |-> orderable, moq |-> moq, multiple |-> multiple,
   tracked |-> tracked, available |-> 3, base |-> 100, tiers |-> 2 :> 50]
Goods ==
  {Good(moq, multiple, tracked, TRUE, TRUE) : moq \in {1, 2}, multiple \in {1, 2}, tracked \in BOOLEAN}
    \cup {Good(1, 1, FALSE, FALSE, TRUE), Good(1, 1, FALSE, TRUE, FALSE)}
VariantsOf ==
  {PlainLine} \cup [active : {TRUE}, available : {2}, price : {None, 120}]
    \cup [active : {FALSE}, available : {9}, price : {None}]
LinesOf(good) ==
  [good : {good}, variant : VariantsOf, quantity : 1..3,
   template : {BlankLine, [available |-> FALSE]}]
SomeContract == [default |-> 10, item |-> [fixed |-> None, percent |-> None, tiers |-> 3 :> 60]]
MCBaskets ==
  UNION {[asks : {"basket"},
          basket : {<<>>} \cup {<<l>> : l \in LinesOf(good)} \cup (LinesOf(good) \X LinesOf(good)),
          card : {NoContract, SomeContract}] : good \in Goods}

\* Two layers under two ids and two keys, one of which is also an id.
Layers ==
  [id : {k1, k2}, fieldKey : {None, k1, c1}, editable : BOOLEAN, holdsContent : BOOLEAN,
   required : BOOLEAN]
Answers == UNION {[keys -> {"", "text"}] : keys \in SUBSET {k1, k2, c1}}
MCDesigns == [asks : {"design"}, layers : {{l, m} : l, m \in Layers}, submitted : Answers]

\* Bounds: below, at and above every rung, minimum and multiple.
MCQuantities == 1..7
MCMinimums == 1..4
MCMultiples == 1..3

MCInit ==
  /\ TemplatesInit /\ RateCardsInit /\ CatalogueInit /\ PartsInit /\ OffersInit
  /\ focus \in {"templates", "cards", "catalogue", "imports", "parts",
               "offers"}
  /\ focus # "templates" => template.document = d1

About(part, others) == focus = part /\ UNCHANGED <<focus, others>>

TemplateStep == About("templates", <<cardVars, catalogueVars, partVars, offer>>) /\ TemplatesNext
CardStep == About("cards", <<templateVars, catalogueVars, partVars, offer>>) /\ RateCardsNext

CatalogueStep ==
  /\ About("catalogue", <<templateVars, cardVars, partVars, offer>>)
  /\ CatalogueNext
  /\ \A m \in Merchants : merchant'[m].op # "file"

\* Imports, one at a time as their one worker takes them, of files of one
\* category, beside the requests that could disturb them.
ImportStep ==
  /\ About("imports", <<templateVars, cardVars, partVars, offer>>)
  /\ CatalogueNext
  /\ \A m \in Merchants :
       /\ merchant'[m].op \notin {"status", "restrict"}
       /\ merchant'[m].op \in {"file", "import"} =>
            /\ merchant'[m].category = c2
            /\ \A n \in Merchants \ {m} : merchant'[n].op \notin {"file", "import"}

PartStep == About("parts", <<templateVars, cardVars, catalogueVars, offer>>) /\ PartsNext
OfferStep == About("offers", <<templateVars, cardVars, catalogueVars, partVars>>) /\ OffersNext

MCNext == TemplateStep \/ CardStep \/ CatalogueStep \/ ImportStep \/ PartStep \/ OfferStep

\* Without the overlaps Catalogue names, where the code promises nothing.
InTurn == ~overlapped

MCSpec == MCInit /\ [][MCNext]_<<focus, offer, templateVars, cardVars, catalogueVars, partVars>>

Symmetry == Permutations({x1, x2}) \cup Permutations({k1, k2}) \cup Permutations({r1, r2})

-----------------------------------------------------------------------------

(***************************************************************************)
(* A variant with a price of its own is ordered at that price              *)
(* (schema.prisma, ProductVariant.priceOverride).                          *)
(***************************************************************************)
VariantSellsAtItsPrice == offer.asks = "basket" => VariantCostsItsPrice(offer.basket, offer.card)
=============================================================================
