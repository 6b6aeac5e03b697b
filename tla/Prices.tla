------------------------------- MODULE Prices -------------------------------
(***************************************************************************)
(* What an account pays for a line: the arithmetic of product-pricing.ts   *)
(* and rate-card-pricing.ts, in whole cents.                               *)
(*                                                                         *)
(* A ladder is a function from minimum quantities to percentages.  A card  *)
(* is [default, item] or NoContract, an item [fixed, percent, tiers] or        *)
(* NoRule, and None a price or a percentage that is null.                  *)
(***************************************************************************)
EXTENDS Integers, FiniteSets

CONSTANTS None, NoContract, NoRule

ASSUME NoneAssumption == None \notin Int

-----------------------------------------------------------------------------
Max(a, b) == IF a >= b THEN a ELSE b

\* The rung a quantity has reached, or None below the first.
selectTier(quantity, tiers) ==
  LET reached == {m \in DOMAIN tiers : m <= quantity}
  IN  IF reached = {} THEN None ELSE CHOOSE m \in reached : \A n \in reached : n <= m

\* Halves round up.
applyDiscount(unitPrice, percent) == (2 * unitPrice * (100 - percent) + 100) \div 200

priceLine(base, quantity, tiers) ==
  LET tier == selectTier(quantity, tiers)
  IN  IF tier = None THEN base ELSE applyDiscount(base, tiers[tier])

\* The contract's price, or None where the contract says nothing: the first
\* rule that applies, alone.
resolveContractStacked(base, quantity, card) ==       \* mutant: the discounts compound
  LET item == card.item
      off == IF item # NoRule /\ item.percent # None THEN item.percent ELSE 0
  IN  IF card = NoContract THEN None
      ELSE applyDiscount(applyDiscount(base, off), card.default)
resolveContract(base, quantity, card) ==
  IF card = NoContract THEN None
  ELSE LET item == card.item
           rung == IF item = NoRule THEN None ELSE selectTier(quantity, item.tiers)
       IN  IF item # NoRule /\ item.fixed # None THEN item.fixed
           ELSE IF rung # None THEN applyDiscount(base, item.tiers[rung])
           ELSE IF item # NoRule /\ item.percent # None THEN applyDiscount(base, item.percent)
           ELSE IF card.default > 0 THEN applyDiscount(base, card.default)
           ELSE None

\* priceForContract, the unit price.
priceForContract(base, quantity, catalogTiers, card) ==
  LET contract == resolveContract(base, quantity, card)
  IN  IF contract # None THEN contract ELSE priceLine(base, quantity, catalogTiers)

aboveCatalogPrice(base, quantity, catalogTiers, card) ==
  priceForContract(base, quantity, catalogTiers, card)
    > priceLine(base, quantity, catalogTiers)

-----------------------------------------------------------------------------
(***************************************************************************)
(* The ladder on the page, and what a quantity is rounded to.              *)
(***************************************************************************)
contractRungs(card) ==
  IF card = NoContract THEN {} ELSE IF card.item = NoRule THEN {} ELSE DOMAIN card.item.tiers

PublicThresholds(moq, catalogTiers, card) ==    \* mutant: the card's rungs are not shown
  {q \in {Max(1, moq)} \cup DOMAIN catalogTiers : q >= moq}
LadderThresholds(moq, catalogTiers, card) ==
  {q \in {Max(1, moq)} \cup DOMAIN catalogTiers \cup contractRungs(card) : q >= moq}

priceLadderForContract(base, moq, catalogTiers, card) ==
  [q \in LadderThresholds(moq, catalogTiers, card) |->
     priceForContract(base, q, catalogTiers, card)]

roundToOrderable(quantity, moq, multiple) ==
  LET above == Max(quantity, moq) - moq
  IN  IF multiple <= 1 THEN Max(quantity, moq)
      ELSE moq + ((above + multiple - 1) \div multiple) * multiple

-----------------------------------------------------------------------------
(***************************************************************************)
(* "Discounts never stack" (rate-card-pricing.ts): a price is the fixed    *)
(* one or a single negotiated or published percentage off the list price,  *)
(* and never a contract term while there is no contract.                   *)
(***************************************************************************)
Percentages(card) ==
  IF card = NoContract THEN {}
  ELSE {card.default} \cup
       (IF card.item = NoRule THEN {}
        ELSE ({card.item.percent} \ {None}) \cup {card.item.tiers[m] : m \in contractRungs(card)})

DiscountsNeverStack(base, quantity, catalogTiers, card) ==
  LET price == priceForContract(base, quantity, catalogTiers, card)
  IN  \/ card # NoContract /\ card.item # NoRule /\ price = card.item.fixed
      \/ \E percent \in {0} \cup Percentages(card) \cup {catalogTiers[m] : m \in DOMAIN catalogTiers} :
           price = applyDiscount(base, percent)

(***************************************************************************)
(* What the page shows is what is charged: any quantity that can be        *)
(* ordered costs what the last rung of the ladder it has reached says, and *)
(* so does the quantity it is rounded up to, which is the least that fits. *)
(***************************************************************************)
LadderTellsPrice(base, quantity, moq, multiple, catalogTiers, card) ==
  LET ladder == priceLadderForContract(base, moq, catalogTiers, card)
      ordered == roundToOrderable(quantity, moq, multiple)
  IN  /\ selectTier(ordered, ladder) # None
      /\ ladder[selectTier(ordered, ladder)] = priceForContract(base, ordered, catalogTiers, card)
      /\ ordered >= Max(quantity, moq)
      /\ ordered - multiple < Max(quantity, moq)
      /\ (ordered - moq) % multiple = 0
=============================================================================
