---------------------------- MODULE BasketRules ----------------------------
(***************************************************************************)
(* Which basket may be ordered, what it comes to, and what a buyer may     *)
(* have printed: cart-validation.ts, the validation of cart.service.ts,    *)
(* the lines place() writes, and the personalisation rules of              *)
(* template-status.ts.                                                     *)
(*                                                                         *)
(* A line is [good, variant, quantity, template].  A good says what the    *)
(* line's product is at checkout: [sku, visible, orderable, moq, multiple, *)
(* tracked, available, base, tiers]; a variant [active, available, price], *)
(* where price is its own or None; a template, whether it is still there.  *)
(***************************************************************************)
EXTENDS Prices, Sequences, Functions

CONSTANTS PlainLine, BlankLine, Refused   \* no variant, no template, no record

-----------------------------------------------------------------------------
isOrderableQuantity(quantity, moq, multiple) ==
  quantity = roundToOrderable(quantity, moq, multiple)

orderableQuantityOf(line) ==
  roundToOrderable(line.quantity, line.good.moq, line.good.multiple)

availableStock(line) ==
  IF line.variant = PlainLine THEN line.good.available ELSE line.variant.available

\* A product that is not in the quote is reported as gone, and as nothing else.
checkLine(line) ==
  IF ~line.good.visible THEN {"PRODUCT_UNAVAILABLE"}
  ELSE {code \in {"TEMPLATE_UNAVAILABLE", "PRODUCT_UNAVAILABLE", "VARIANT_UNAVAILABLE",
                  "INSUFFICIENT_STOCK"} :
          CASE code = "TEMPLATE_UNAVAILABLE" -> line.template # BlankLine /\ ~line.template.available
            [] code = "PRODUCT_UNAVAILABLE" -> ~line.good.orderable
            [] code = "VARIANT_UNAVAILABLE" -> line.variant # PlainLine /\ ~line.variant.active
            [] code = "INSUFFICIENT_STOCK" ->
                 line.good.tracked /\ orderableQuantityOf(line) > availableStock(line)}

warnings(line) ==
  IF ~line.good.visible
     \/ isOrderableQuantity(line.quantity, line.good.moq, line.good.multiple) THEN {}
  ELSE IF line.quantity < line.good.moq THEN {"QUANTITY_BELOW_MOQ"}
  ELSE {"QUANTITY_NOT_MULTIPLE"}

-----------------------------------------------------------------------------
(***************************************************************************)
(* The quotes of a basket, by what the price depends on: equal lines are   *)
(* asked for once, and a later line replaces an earlier one of its key.    *)
(***************************************************************************)
quoteKeyOfProduct(line) == <<line.good.sku>>       \* mutant: the quantity is not in the key
quoteKey(line) == <<line.good.sku, orderableQuantityOf(line)>>

unitPriceFor(good, quantity, card) ==
  priceForContract(good.base, quantity, good.tiers, card)

quoteLines(basket, card) ==
  LET visible == {i \in DOMAIN basket : basket[i].good.visible}
      last(key) == CHOOSE i \in visible :
                     /\ quoteKey(basket[i]) = key
                     /\ \A j \in visible : quoteKey(basket[j]) = key => j <= i
  IN  [key \in {quoteKey(basket[i]) : i \in visible} |->
         LET line == basket[last(key)]
             quantity == orderableQuantityOf(line)
         IN  [unitPrice |-> unitPriceFor(line.good, quantity, card),
              lineTotal |-> quantity * unitPriceFor(line.good, quantity, card),
              catalogUnitPrice |-> priceLine(line.good.base, quantity, line.good.tiers)]]

validate(basket, card) ==
  LET quotes == quoteLines(basket, card)
      priced == {i \in DOMAIN basket : quoteKey(basket[i]) \in DOMAIN quotes}
  IN  [issues |-> UNION {checkLine(basket[i]) : i \in DOMAIN basket}
                    \cup (IF basket = <<>> THEN {"EMPTY_CART"} ELSE {}),
       warnings |-> UNION {warnings(basket[i]) : i \in DOMAIN basket},
       subtotal |-> SumFunction([i \in priced |-> quotes[quoteKey(basket[i])].lineTotal])]

\* The order's lines, from the session the basket passed with.
placed(basket, card) ==
  [i \in DOMAIN basket |->
     [quantity |-> orderableQuantityOf(basket[i]), variant |-> basket[i].variant,
      quote |-> quoteLines(basket, card)[quoteKey(basket[i])]]]

-----------------------------------------------------------------------------
(***************************************************************************)
(* Personalisation.  A layer is [id, fieldKey, editable, holdsContent,     *)
(* required]; what was submitted maps keys to values, "" for a blank.      *)
(***************************************************************************)
editableLayers(layers) == {l \in layers : l.editable /\ l.holdsContent}

editableFieldKey(layer) == IF layer.fieldKey = None THEN layer.id ELSE layer.fieldKey

assertKeysDiffer(layers) ==              \* mutant: ids that serve as keys not looked at
  /\ \A l, m \in layers : l.id = m.id => l = m
  /\ \A l, m \in editableLayers(layers) : l.fieldKey # None /\ l.fieldKey = m.fieldKey => l = m
assertLayersWellFormed(layers) ==
  /\ \A l, m \in layers : l.id = m.id => l = m
  /\ \A l, m \in editableLayers(layers) : editableFieldKey(l) = editableFieldKey(m) => l = m

acceptCustomisation(layers, submitted) ==
  LET editable == editableLayers(layers)
      keys == {editableFieldKey(l) : l \in editable}
      answered == {k \in DOMAIN submitted : submitted[k] # ""}
  IN  IF DOMAIN submitted \subseteq keys
         /\ \A l \in editable : l.required => editableFieldKey(l) \in answered
      THEN [k \in answered |-> submitted[k]]
      ELSE Refused

-----------------------------------------------------------------------------
(***************************************************************************)
(* The order a basket becomes is the one the buyer was told of: each line  *)
(* costs what the page's ladder says for the quantity ordered, which is    *)
(* never less than was typed nor more than is there, and is what was typed *)
(* unless the buyer was warned; the lines add up to the total the budget   *)
(* and the approval rules were asked about (cart.service.ts: a wrong key   *)
(* is "a wrong number on an invoice").                                     *)
(***************************************************************************)
BasketTellsOrder(basket, card) ==
  LET session == validate(basket, card)
      order == placed(basket, card)
  IN  session.issues = {} =>
        /\ session.subtotal =
             SumFunction([i \in DOMAIN order |-> order[i].quantity * order[i].quote.unitPrice])
        /\ \A i \in DOMAIN basket :
             LET good == basket[i].good
                 ladder == priceLadderForContract(good.base, good.moq, good.tiers, card)
             IN  /\ order[i].quote.unitPrice = ladder[selectTier(order[i].quantity, ladder)]
                 /\ good.orderable /\ isOrderableQuantity(order[i].quantity, good.moq, good.multiple)
                 /\ order[i].quantity >= basket[i].quantity
                 /\ session.warnings = {} => order[i].quantity = basket[i].quantity
                 /\ good.tracked => order[i].quantity <= availableStock(basket[i])

(***************************************************************************)
(* Whatever a page submits, a value that is accepted is for one box that   *)
(* the designer opened, and no box that must be filled in is left empty    *)
(* (template-status.ts: two boxes must not "fight over one input").        *)
(***************************************************************************)
AnswersReachTheirBox(layers, submitted) ==
  LET accepted == acceptCustomisation(layers, submitted)
      boxes(key) == {l \in layers : l.editable /\ l.holdsContent /\ editableFieldKey(l) = key}
  IN  assertLayersWellFormed(layers) /\ accepted # Refused =>
        /\ \A key \in DOMAIN accepted : Cardinality(boxes(key)) = 1 /\ accepted[key] = submitted[key]
        /\ \A l \in editableLayers(layers) : l.required => editableFieldKey(l) \in DOMAIN accepted

(***************************************************************************)
(* schema.prisma says of a variant's price: "Absolute price for this       *)
(* variant".  So it is what the line costs with no contract and below the  *)
(* first rung of the ladder.                                               *)
(***************************************************************************)
VariantCostsItsPrice(basket, card) ==
  validate(basket, card).issues = {} /\ card = NoContract =>
    \A i \in DOMAIN basket :
      LET line == basket[i]
      IN  line.variant # PlainLine
          /\ line.variant.price # None
          /\ selectTier(orderableQuantityOf(line), line.good.tiers) = None
            => placed(basket, card)[i].quote.unitPrice = line.variant.price
=============================================================================
