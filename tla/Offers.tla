------------------------------- MODULE Offers -------------------------------
(***************************************************************************)
(* What a buyer is told and then charged: a page asks for the price of a   *)
(* product (pricing.service.ts), a basket is put to checkout               *)
(* (cart.service.ts), or answers to a design are submitted                 *)
(* (template-status.ts), one request after another.  Each finds products,  *)
(* contract and design in any state that the request schemas and the       *)
(* constraints of the database let them be in.                             *)
(***************************************************************************)
EXTENDS BasketRules

CONSTANTS
  Quotes,      \* products with an account's terms: [asks, base, catalogTiers, card]
  Baskets,     \* baskets with an account's terms: [asks, basket, card]
  Designs,     \* layers with answers to them: [asks, layers, submitted]
  AskedQuantities, Minimums, Multiples   \* what is typed, and what a product asks for

VARIABLE offer    \* what the request being answered has found

-----------------------------------------------------------------------------
\* A volume ladder, public or negotiated.
IsLadder(tiers) == DOMAIN tiers \subseteq Nat \ {0} /\ \A m \in DOMAIN tiers : tiers[m] \in 0..100

\* A contract's word on one product: a fixed price or a percentage, not both.
IsRule(rule) ==
  /\ rule.fixed \in Nat \cup {None}
  /\ rule.percent \in (0..100) \cup {None}
  /\ rule.fixed = None \/ rule.percent = None
  /\ IsLadder(rule.tiers)

IsCard(contract) ==
  contract # NoContract =>
    /\ contract.default \in 0..100
    /\ contract.item # NoRule => IsRule(contract.item)

IsLine(line) ==
  /\ line.quantity \in Nat
  /\ availableStock(line) \in Int
  /\ line.good.base \in Nat
  /\ line.good.moq \in Nat \ {0}
  /\ line.good.multiple \in Nat \ {0}
  /\ IsLadder(line.good.tiers)

\* Lines of one product read the same product.
IsBasket(basket) ==
  /\ Len(basket) \in Nat /\ DOMAIN basket = 1..Len(basket)
  /\ \A i \in DOMAIN basket : IsLine(basket[i])
  /\ \A i, j \in DOMAIN basket : basket[i].good.sku = basket[j].good.sku =>
                                   basket[i].good = basket[j].good

ASSUME OffersAssumption ==
  /\ \A o \in Quotes :
       o.asks = "price" /\ o.base \in Nat /\ IsLadder(o.catalogTiers) /\ IsCard(o.card)
  /\ \A o \in Baskets : o.asks = "basket" /\ IsBasket(o.basket) /\ IsCard(o.card)
  /\ \A o \in Designs : o.asks = "design"
  /\ AskedQuantities \subseteq Nat
  /\ Minimums \cup Multiples \subseteq Nat \ {0}

-----------------------------------------------------------------------------
NothingAsked == [asks |-> "nothing"]

OffersInit == offer = NothingAsked

Ask ==
  /\ offer = NothingAsked
  /\ offer' \in Quotes \cup Baskets \cup Designs

Answer ==
  /\ offer # NothingAsked
  /\ offer' = NothingAsked

OffersNext == Ask \/ Answer

OffersSpec == OffersInit /\ [][OffersNext]_offer

-----------------------------------------------------------------------------
(***************************************************************************)
(* What the page shows is what is charged, for every quantity, minimum and *)
(* multiple, and no discounts are added up; the order is what the basket   *)
(* said, and what is printed on it what the buyer typed                    *)
(* (rate-card-pricing.ts, product-pricing.ts, cart.service.ts,             *)
(* template-status.ts).                                                    *)
(***************************************************************************)
OrderedAsTold ==
  CASE offer.asks = "price" ->
         \A quantity \in AskedQuantities, moq \in Minimums, multiple \in Multiples :
           /\ LadderTellsPrice(offer.base, quantity, moq, multiple, offer.catalogTiers, offer.card)
           /\ DiscountsNeverStack(offer.base, quantity, offer.catalogTiers, offer.card)
    [] offer.asks = "basket" -> BasketTellsOrder(offer.basket, offer.card)
    [] offer.asks = "design" -> AnswersReachTheirBox(offer.layers, offer.submitted)
    [] OTHER -> TRUE
=============================================================================
