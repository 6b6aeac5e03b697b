----------------------------- MODULE Catalogue -----------------------------
(***************************************************************************)
(* The products of the catalogue and their categories: products.service,   *)
(* product-status.ts, categories.service and the rows that the bulk        *)
(* importer writes (product-import.service; its jobs are in Background).   *)
(* What a product is made of is in ProductParts, its stock in              *)
(* OrderLifecycle.                                                         *)
(*                                                                         *)
(* Every handler looks the catalogue over and writes by id in a later      *)
(* call; `merchant` is what each request in flight has still to write.     *)
(***************************************************************************)
EXTENDS Naturals

CONSTANTS
  Items, Categories, Skus,
  Firms,           \* the accounts a product can be restricted to
  Merchants        \* requests that can be in flight at once

VARIABLES
  item,            \* the products rows
  variantSku,      \* the SKUs of product_variants rows, deleted ones included
  category,        \* the status of each product_categories row
  merchant,
  overlapped       \* history: what a request had looked at no longer held

catalogueVars == <<item, variantSku, category, merchant, overlapped>>

NoItem == [status |-> "none"]
Nil == "nil"
Idle == [op |-> "idle"]
ASSUME NilAssumption == Nil \notin Items

ProductStatus == {"DRAFT", "ACTIVE", "UNAVAILABLE", "SUPERSEDED"}
Item == [sku : Skus, category : Categories, status : ProductStatus, deleted : BOOLEAN,
         successor : Items \cup {Nil}, restricted : BOOLEAN, firms : SUBSET Firms,
         imported : BOOLEAN]      \* history: an import made it

Request ==
  [op : {"create"}, sku : Skus, category : Categories]
    \cup [op : {"move"}, item : Items, category : Categories]
    \cup [op : {"status"}, item : Items, from : ProductStatus, to : ProductStatus,
          successor : Items \cup {Nil}]
    \cup [op : {"remove"}, item : Items]
    \cup [op : {"restrict"}, item : Items, firms : SUBSET Firms]
    \cup [op : {"variant"}, sku : Skus]
    \cup [op : {"deactivate"}, category : Categories]
    \cup [op : {"file"}, category : Categories]

\* An import remembers the category its file names, and what it read of a row.
Merchant ==
  {Idle} \cup Request
    \cup [op : {"import"}, category : Categories, sku : Skus, found : Items \cup {Nil}]

CatalogueTypeOK ==
  /\ item \in [Items -> Item \cup {NoItem}]
  /\ variantSku \subseteq Skus
  /\ category \in [Categories -> {"ACTIVE", "INACTIVE", "DELETED"}]
  /\ merchant \in [Merchants -> Merchant]
  /\ overlapped \in BOOLEAN

CatalogueInit ==
  /\ item = [i \in Items |-> NoItem]
  /\ variantSku = {}
  /\ category = [c \in Categories |-> "ACTIVE"]
  /\ merchant = [m \in Merchants |-> Idle]
  /\ overlapped = FALSE

-----------------------------------------------------------------------------
PRODUCT_TRANSITIONS ==
  [DRAFT |-> {"ACTIVE"}, ACTIVE |-> {"UNAVAILABLE", "SUPERSEDED"},
   UNAVAILABLE |-> {"ACTIVE", "SUPERSEDED"}, SUPERSEDED |-> {}]
canTransitionProduct(from, to) == to \in PRODUCT_TRANSITIONS[from]
requiresSuccessor(to) == to = "SUPERSEDED"

Listed(i) == item[i] # NoItem /\ ~item[i].deleted
SkusOfItems == {item[i].sku : i \in {j \in Items : item[j] # NoItem}}

assertCategoryExists(c) == category[c] = "ACTIVE"

\* The SKU of a deleted product stays taken; each table has an index of its own.
\* The importer looks for it among the products alone.
SkuFreeAmongProducts(sku) == sku \notin SkusOfItems
assertSkuIsFree(sku) == sku \notin SkusOfItems \cup variantSku

AnyCategoryOfCode(c) == TRUE                         \* mutant: removed ones too
findIdByCode(c) == category[c] # "DELETED"

OldProductWillDo(i, s) == s # i /\ Listed(s)         \* mutant: whatever its status
assertUsableSuccessor(i, s) ==
  /\ s # i
  /\ Listed(s)
  /\ item[s].status \in {"ACTIVE", "UNAVAILABLE"}

\* categories.deactivate: nothing may be left in it, a draft included.
NothingOnSaleIn(c) ==                                \* mutant: drafts overlooked
  \A i \in Items : Listed(i) /\ item[i].status # "DRAFT" => item[i].category # c
NothingLeftIn(c) == \A i \in Items : Listed(i) => item[i].category # c

\* What each request looks at before it writes.
Holds(k) ==
  CASE k.op = "create" -> assertCategoryExists(k.category) /\ assertSkuIsFree(k.sku)
    [] k.op = "move" -> Listed(k.item) /\ assertCategoryExists(k.category)
    [] k.op = "status" ->
         /\ Listed(k.item)
         /\ item[k.item].status = k.from
         /\ canTransitionProduct(k.from, k.to)
         /\ IF requiresSuccessor(k.to) THEN k.successor # Nil ELSE k.successor = Nil
         /\ k.successor # Nil => assertUsableSuccessor(k.item, k.successor)
    [] k.op = "remove" -> Listed(k.item) /\ item[k.item].status = "DRAFT"
    [] k.op = "restrict" -> Listed(k.item)
    [] k.op = "variant" -> assertSkuIsFree(k.sku)
    [] k.op = "deactivate" -> category[k.category] # "DELETED" /\ NothingLeftIn(k.category)
    [] k.op = "file" -> findIdByCode(k.category)
    [] k.op = "import" ->
         /\ findIdByCode(k.category)
         /\ IF k.found = Nil THEN SkuFreeAmongProducts(k.sku) ELSE Listed(k.found)
    [] OTHER -> FALSE

Look(m, k) ==
  /\ merchant[m] = Idle
  /\ Holds(k)
  /\ merchant' = [merchant EXCEPT ![m] = k]
  /\ UNCHANGED <<item, variantSku, category, overlapped>>

\* The write itself, of whatever the rows have become by then.
Commit(m, op) ==
  /\ merchant[m].op = op
  /\ merchant' = [merchant EXCEPT ![m] = Idle]
  /\ overlapped' = (overlapped \/ ~Holds(merchant[m]))

-----------------------------------------------------------------------------
\* The index on products.sku refuses a second product; nothing else does.
CreateItem(m) ==
  /\ Commit(m, "create")
  /\ LET k == merchant[m]
     IN  \/ /\ k.sku \in SkusOfItems
            /\ UNCHANGED item
         \/ /\ k.sku \notin SkusOfItems
            /\ \E i \in {j \in Items : item[j] = NoItem} :
                 item' = [item EXCEPT ![i] =
                   [sku |-> k.sku, category |-> k.category, status |-> "DRAFT",
                    deleted |-> FALSE, successor |-> Nil, restricted |-> FALSE,
                    firms |-> {}, imported |-> FALSE]]
  /\ UNCHANGED <<variantSku, category>>

\* applyRows, for a row it neither skips nor refuses: an SKU nobody has, or that
\* of a product still there when existing ones are to be overwritten.
ReadImportRow(m, sku) ==
  /\ merchant[m].op = "file"
  /\ \E found \in Items \cup {Nil} :
       /\ IF found = Nil THEN SkuFreeAmongProducts(sku)
          ELSE Listed(found) /\ item[found].sku = sku
       /\ merchant' = [merchant EXCEPT ![m] =
            [op |-> "import", category |-> merchant[m].category, sku |-> sku, found |-> found]]
  /\ UNCHANGED <<item, variantSku, category, overlapped>>

\* The row is written, or refused by the index; the next of the file follows,
\* under the category looked up once.
WriteImportRow(m) ==
  /\ merchant[m].op = "import"
  /\ LET k == merchant[m]
     IN  \/ /\ k.found = Nil /\ k.sku \in SkusOfItems
            /\ UNCHANGED item
         \/ /\ k.found = Nil /\ k.sku \notin SkusOfItems
            /\ \E i \in {j \in Items : item[j] = NoItem} :
                 item' = [item EXCEPT ![i] =
                   [sku |-> k.sku, category |-> k.category, status |-> "DRAFT",
                    deleted |-> FALSE, successor |-> Nil, restricted |-> FALSE,
                    firms |-> {}, imported |-> TRUE]]
         \/ /\ k.found # Nil
            /\ item' = [item EXCEPT ![k.found].category = k.category]
  /\ merchant' = [merchant EXCEPT ![m] = [op |-> "file", category |-> merchant[m].category]]
  /\ overlapped' = (overlapped \/ ~Holds(merchant[m]))
  /\ UNCHANGED <<variantSku, category>>

\* update, of the one field this module tells apart.
MoveItem(m) ==
  /\ Commit(m, "move")
  /\ item' = [item EXCEPT ![merchant[m].item].category = merchant[m].category]
  /\ UNCHANGED <<variantSku, category>>

ChangeItemStatus(m) ==
  /\ Commit(m, "status")
  /\ item' = [item EXCEPT ![merchant[m].item].status = merchant[m].to,
                          ![merchant[m].item].successor = merchant[m].successor]
  /\ UNCHANGED <<variantSku, category>>

RemoveItem(m) ==
  /\ Commit(m, "remove")
  /\ item' = [item EXCEPT ![merchant[m].item].deleted = TRUE]
  /\ UNCHANGED <<variantSku, category>>

\* setVisibility: the list of a product opened to all again is left as it was.
SetItemVisibility(m) ==
  /\ Commit(m, "restrict")
  /\ LET k == merchant[m]
     IN  item' = [item EXCEPT ![k.item] =
           IF k.firms = {} THEN [@ EXCEPT !.restricted = FALSE]
                           ELSE [@ EXCEPT !.restricted = TRUE, !.firms = k.firms]]
  /\ UNCHANGED <<variantSku, category>>

\* createVariant, and its own table's index.
CreateVariantSku(m) ==
  /\ Commit(m, "variant")
  /\ variantSku' = variantSku \cup {merchant[m].sku}
  /\ UNCHANGED <<item, category>>

DeactivateCategory(m) ==
  /\ Commit(m, "deactivate")
  /\ category' = [category EXCEPT ![merchant[m].category] = "DELETED"]
  /\ UNCHANGED <<item, variantSku>>

\* categories.update: a category may be closed to new products and reopened.
UpdateCategory(c, status) ==
  /\ category[c] # "DELETED"
  /\ category' = [category EXCEPT ![c] = status]
  /\ UNCHANGED <<item, variantSku, merchant, overlapped>>

WalkAway(m) ==
  /\ merchant[m] # Idle
  /\ merchant' = [merchant EXCEPT ![m] = Idle]
  /\ UNCHANGED <<item, variantSku, category, overlapped>>

\* visibilityFilter of products.service.ts, for a buyer of a firm.
visibleTo(i, firm) ==
  /\ Listed(i)
  /\ item[i].status # "DRAFT"
  /\ item[i].restricted => firm \in item[i].firms

CatalogueNext ==
  \/ \E m \in Merchants :
       \/ \E k \in Request : Look(m, k)
       \/ \E sku \in Skus : ReadImportRow(m, sku)
       \/ WriteImportRow(m)
       \/ CreateItem(m) \/ MoveItem(m) \/ ChangeItemStatus(m) \/ RemoveItem(m)
       \/ SetItemVisibility(m) \/ CreateVariantSku(m) \/ DeactivateCategory(m)
       \/ WalkAway(m)
  \/ \E c \in Categories, status \in {"ACTIVE", "INACTIVE"} : UpdateCategory(c, status)

CatalogueSpec == CatalogueInit /\ [][CatalogueNext]_catalogueVars

-----------------------------------------------------------------------------
Successor(i) == IF item[i] = NoItem THEN Nil ELSE item[i].successor

(***************************************************************************)
(* A buyer who meets a superseded product can follow it to one that was    *)
(* really sold in its place, never round in a circle or to a deleted one   *)
(* (assertUsableSuccessor, products.service.ts): only two requests that    *)
(* looked before either wrote can tie two products to each other.          *)
(***************************************************************************)
SuccessorsLeadSomewhere ==
  ~overlapped =>
    /\ \A circle \in (SUBSET Items) \ {{}} : \E i \in circle : Successor(i) \notin circle
    /\ \A i \in Items :
       /\ Successor(i) # Nil => Listed(Successor(i)) /\ item[Successor(i)].status # "DRAFT"
       /\ item[i] # NoItem => (item[i].status = "SUPERSEDED" <=> Successor(i) # Nil)

(***************************************************************************)
(* A SKU is one thing that can be ordered, across the two tables that hold *)
(* them, whoever else is at work; an import is the one exception, for it   *)
(* asks the products table alone (assertSkuIsFree, products.service.ts;    *)
(* applyRows, product-import.service.ts).  And what is listed, or was      *)
(* moved by an import, has a category to be found in (deactivate,          *)
(* categories.service.ts).                                                 *)
(***************************************************************************)
EverythingIsFound ==
  /\ \A i, j \in Items : item[i] # NoItem /\ item[j] # NoItem /\ item[i].sku = item[j].sku => i = j
  /\ ~overlapped =>
       /\ \A i \in Items : item[i] # NoItem /\ item[i].sku \in variantSku => item[i].imported
       /\ \A i \in Items : Listed(i) => category[item[i].category] # "DELETED"

(***************************************************************************)
(* Every product that is listed or followed to can be found, and ordered   *)
(* under one SKU unless an import made it (products.service.ts,            *)
(* categories.service.ts, product-import.service.ts).                      *)
(***************************************************************************)
CatalogueIsSound == SuccessorsLeadSomewhere /\ EverythingIsFound
=============================================================================
