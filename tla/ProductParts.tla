---------------------------- MODULE ProductParts ----------------------------
(***************************************************************************)
(* What one product is made of: its options, the variants that choose one  *)
(* value of each, and its volume tiers (products.service.ts).              *)
(*                                                                         *)
(* Options and tiers are replaced whole, by a transaction that deletes the *)
(* rows its statement sees and inserts the new ones: rows another such     *)
(* transaction commits in between are not seen and stay.  SKUs are in      *)
(* Catalogue.                                                              *)
(***************************************************************************)
EXTENDS Naturals, FiniteSets

CONSTANTS
  OptionNames, OptionValues,
  Variants,            \* ids of product_variants rows
  Quantities,          \* thresholds a tier can have
  Percents,            \* discounts a tier can give
  Hands                \* requests that can be in flight at once

ASSUME LadderAssumption == Quantities \subseteq Nat /\ Percents \subseteq Nat \ {0}

VARIABLES
  option,              \* the values each option offers
  tier,                \* the discount at each threshold
  variant,             \* the product_variants rows
  hand,
  tangled              \* history: two requests changed parts of it at once

partVars == <<option, tier, variant, hand, tangled>>

Resting == [op |-> "resting"]
NoVariant == [status |-> "none"]

\* A table is a function of its keys.
TablesOf(keys, columns) == UNION {[present -> columns] : present \in SUBSET keys}
Offers == TablesOf(OptionNames, (SUBSET OptionValues) \ {{}})
Ladders == TablesOf(Quantities, Percents)
Choices == TablesOf(OptionNames, OptionValues)
VariantRow == [chosen : Choices, status : {"ACTIVE", "INACTIVE"}, deleted : BOOLEAN]

\* `seen` is what is left of the rows the deletion found.
Hand ==
  {Resting}
    \cup [op : {"options"}, given : Offers]
    \cup [op : {"replaceOptions"}, given : Offers, seen : SUBSET OptionNames]
    \cup [op : {"replaceTiers"}, given : Ladders, seen : SUBSET Quantities]
    \cup [op : {"variant"}, chosen : Choices]

PartsTypeOK ==
  /\ option \in Offers
  /\ tier \in Ladders
  /\ variant \in [Variants -> VariantRow \cup {NoVariant}]
  /\ hand \in [Hands -> Hand]
  /\ tangled \in BOOLEAN

PartsInit ==
  /\ option = [n \in {} |-> {}]
  /\ tier = [q \in {} |-> 0]
  /\ variant = [v \in Variants |-> NoVariant]
  /\ hand = [h \in Hands |-> Resting]
  /\ tangled = FALSE

-----------------------------------------------------------------------------
Hold(h, k) == hand' = [hand EXCEPT ![h] = k]

\* Another request for this product, of this kind or that, has begun.
Joined(h, ops) == \E g \in Hands \ {h} : hand[g].op \in ops

attributesMatchOptions(chosen, offers) ==
  \A n \in DOMAIN chosen : n \in DOMAIN offers /\ chosen[n] \in offers[n]

Kept(v) == variant[v] # NoVariant /\ ~variant[v].deleted

\* The transaction's outcome, or a refusal by the index on the key of a row.
Left(table, seen) == DOMAIN table \ seen
Collides(table, seen, given) == Left(table, seen) \cap DOMAIN given # {}
Replaced(table, seen, given) ==
  [k \in Left(table, seen) \cup DOMAIN given |->
     IF k \in DOMAIN given THEN given[k] ELSE table[k]]

\* Rows one transaction replaced are no longer there for another to delete.
Replace(h, op, table, seen) ==
  hand' = [g \in Hands |->
    IF g = h THEN Resting
    ELSE IF hand[g].op = op THEN [hand[g] EXCEPT !.seen = @ \ seen]
    ELSE hand[g]]

-----------------------------------------------------------------------------
\* setOptions: refused if a variant would be left with a value not offered.
OfferWhatever(given) == TRUE                         \* mutant: orphans not looked for
FitsVariants(given) ==
  \A v \in Variants : Kept(v) => attributesMatchOptions(variant[v].chosen, given)

BeginOptions(h, given) ==
  /\ hand[h] = Resting
  /\ FitsVariants(given)
  /\ Hold(h, [op |-> "options", given |-> given])
  /\ tangled' = (tangled \/ Joined(h, {"options", "replaceOptions", "variant"}))
  /\ UNCHANGED <<option, tier, variant>>

DeleteOptions(h) ==
  /\ hand[h].op = "options"
  /\ Hold(h, [op |-> "replaceOptions", given |-> hand[h].given, seen |-> DOMAIN option])
  /\ UNCHANGED <<option, tier, variant, tangled>>

InsertOptions(h) ==
  /\ hand[h].op = "replaceOptions"
  /\ LET k == hand[h]
     IN  \/ /\ Collides(option, k.seen, k.given)
            /\ Hold(h, Resting)
            /\ UNCHANGED option
         \/ /\ ~Collides(option, k.seen, k.given)
            /\ option' = Replaced(option, k.seen, k.given)
            /\ Replace(h, "replaceOptions", option, k.seen)
  /\ UNCHANGED <<tier, variant, tangled>>

\* createVariant: a value for every option, in a combination nobody has.
AnyOneSold(chosen) ==                                \* mutant: among variants on sale
  \A v \in Variants : Kept(v) /\ variant[v].status = "ACTIVE" => variant[v].chosen # chosen
NewCombination(chosen) == \A v \in Variants : Kept(v) => variant[v].chosen # chosen

BeginVariant(h, chosen) ==
  /\ hand[h] = Resting
  /\ attributesMatchOptions(chosen, option)
  /\ DOMAIN chosen = DOMAIN option
  /\ NewCombination(chosen)
  /\ Hold(h, [op |-> "variant", chosen |-> chosen])
  /\ tangled' = (tangled \/ Joined(h, {"options", "replaceOptions", "variant"}))
  /\ UNCHANGED <<option, tier, variant>>

CreateVariant(h) ==
  /\ hand[h].op = "variant"
  /\ \E v \in {w \in Variants : variant[w] = NoVariant} :
       variant' = [variant EXCEPT ![v] =
         [chosen |-> hand[h].chosen, status |-> "ACTIVE", deleted |-> FALSE]]
  /\ Hold(h, Resting)
  /\ UNCHANGED <<option, tier, tangled>>

\* updateVariant never changes what a variant chose.
UpdateVariant(v, status) ==
  /\ Kept(v)
  /\ variant' = [variant EXCEPT ![v].status = status]
  /\ UNCHANGED <<option, tier, hand, tangled>>

RemoveVariant(v) ==
  /\ Kept(v)
  /\ variant' = [variant EXCEPT ![v].status = "INACTIVE", ![v].deleted = TRUE]
  /\ UNCHANGED <<option, tier, hand, tangled>>

\* setVolumeTiers: each tier of the payload must discount more than the last.
NeverFalls(given) ==                                 \* mutant: < for <=
  \A p, q \in DOMAIN given : p < q => given[p] <= given[q]
Rises(given) == \A p, q \in DOMAIN given : p < q => given[p] < given[q]

DeleteTiers(h, given) ==
  /\ hand[h] = Resting
  /\ Rises(given)
  /\ Hold(h, [op |-> "replaceTiers", given |-> given, seen |-> DOMAIN tier])
  /\ tangled' = (tangled \/ Joined(h, {"replaceTiers"}))
  /\ UNCHANGED <<option, tier, variant>>

InsertTiers(h) ==
  /\ hand[h].op = "replaceTiers"
  /\ LET k == hand[h]
     IN  \/ /\ Collides(tier, k.seen, k.given)
            /\ Hold(h, Resting)
            /\ UNCHANGED tier
         \/ /\ ~Collides(tier, k.seen, k.given)
            /\ tier' = Replaced(tier, k.seen, k.given)
            /\ Replace(h, "replaceTiers", tier, k.seen)
  /\ UNCHANGED <<option, variant, tangled>>

LetGo(h) ==
  /\ hand[h] # Resting
  /\ Hold(h, Resting)
  /\ UNCHANGED <<option, tier, variant, tangled>>

PartsNext ==
  \/ \E h \in Hands :
       \/ \E given \in Offers : BeginOptions(h, given)
       \/ \E chosen \in Choices : BeginVariant(h, chosen)
       \/ \E given \in Ladders : DeleteTiers(h, given)
       \/ DeleteOptions(h) \/ InsertOptions(h) \/ CreateVariant(h) \/ InsertTiers(h)
       \/ LetGo(h)
  \/ \E v \in Variants :
       \/ \E status \in {"ACTIVE", "INACTIVE"} : UpdateVariant(v, status)
       \/ RemoveVariant(v)

PartsSpec == PartsInit /\ [][PartsNext]_partVars

-----------------------------------------------------------------------------
(***************************************************************************)
(* A combination a buyer picks is one variant, of values the product still *)
(* offers, and a bigger order is never dearer by the piece, "a pricing     *)
(* error that customers find before we do" (products.service.ts:662).  Each *)
(* is checked on what one request read, so two at once can break it: two   *)
(* ladders saved together are interleaved, rung by rung.                   *)
(***************************************************************************)
PartsFit ==
  ~tangled =>
    /\ \A v \in Variants : Kept(v) => attributesMatchOptions(variant[v].chosen, option)
    /\ \A v, w \in Variants :
         Kept(v) /\ Kept(w) /\ variant[v].chosen = variant[w].chosen => v = w
    /\ \A p, q \in DOMAIN tier : p < q => tier[p] < tier[q]
=============================================================================
