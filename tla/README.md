# Ticket-IT Portal: formal model

TLA+ specifications of the Ticket-IT print-procurement backend (NestJS over
PostgreSQL through Prisma, Redis/BullMQ queues), the TLC configurations that
check them on small instances, and TLAPS proofs of what holds for every
instance. Paths below are relative to the repository root; the program is under
`src/`, its migrations under `src/database/migrations`.

## 1. The system

### How it runs

Every domain operation is an HTTP handler of a NestJS service. There is no lock
and no actor: several Node processes handle requests at once, and what they
share is the database. Two facts decide which interleavings exist.

* `withTenantScope` (`src/database/tenant-scope.ts`) opens one interactive
  transaction. No caller asks for an isolation level, so each runs at
  READ COMMITTED: a statement sees what others committed before it began.
* Services usually **read in one such transaction and write in another** and
  check in between in TypeScript, and the write names the row by id alone. So
  a check is about the past when the write happens.

What does hold under concurrency is in the database itself: conditional
`UPDATE`s (`StockService.take`), atomic increments, CHECK constraints, unique
and partial unique indexes, the exclusion constraint on rate cards, and row
locks held to the end of a transaction.

### Components

| component | source | state | operations | what makes it correct |
|---|---|---|---|---|
| Order lifecycle | `modules/orders` | `orders.status`, `stockState`, payment columns, timeline | `place`, `changeStatus`, `recordPayment` | moves only along `TRANSITIONS`; terminal statuses are final; a reservation is settled once |
| Warehouse stock | `catalog/stock.service.ts`, `products.service.ts` | `stockOnHand`, `stockReserved`, `trackInventory` of products and variants | `reserve`, `release`, `consume`, `adjustStock`, `reconcileStock` | never promises more than it holds; keeps back exactly what live orders hold; a stocktake applies the variance it shows |
| Approval engine | `approvals/approval-engine.ts` | none (pure) | `ruleMatches`, `planApproval`, `canDecideStep`, `evaluateProgress`, `assertStepOpen` | everybody a tripped rule names is asked once per tier; tiers in order |
| Approvals service | `approvals/approvals.service.ts` | `approval_requests`, `approval_steps`, rules | `raiseFor`, `decide`, rule CRUD | no tier signed ahead of a lower one; the request says what its steps come to; a decision is final |
| Billing | `billing/billing.service.ts` | `invoices`, `invoice_lines`, `invoice_sequences` | `generate`, `issue`, `markPaid`, `voidInvoice` | one draft a period; unbroken, distinct numbers; no order billed twice; issued lines frozen |
| Invoice export | `billing/invoice-export.service.ts` | none | renders PDF/CSV/XLSX | layout only |
| Cart and checkout | `modules/cart` | `carts`, `cart_lines` | add, merge, update, remove, validate, place, PO number, budget | an ordered cart is closed exactly once; a branch stays within its budget; the order is what the basket said |
| Catalogue | `catalog/products.service.ts`, `categories.service.ts` | products, variants, options, tiers, categories | create, move, status, supersede, remove, restrict | a SKU is one thing across two tables, unless an import made the product; a successor leads somewhere; a variant is one choice of what is offered; a ladder rises |
| Catalogue import | `catalog/product-import.service.ts`, `import.processor.ts` | `catalog_import_jobs` | enqueue, run row by row, fail | a report tells what was made and is final; every job ends |
| Asset derivatives | `catalog/asset-derivative.service.ts`, `derivative.processor.ts` | asset rows, stored objects | attach, generate, remove | READY has its pictures; every image leaves PENDING or goes |
| Pricing, rate cards | `modules/pricing` | `rate_cards`, `rate_card_items` | create, re-date, activate, items, remove, quote | one contract a day; archived stays archived; the ladder shown is the price charged |
| Templates | `modules/templates` | templates, versions, assignments | edit under a version lock, snapshot, publish, restore, status | a version number is one document for ever; what is shown can be printed |
| Authentication, tokens | `modules/auth` | `refresh_tokens`, the replica of legacy users | login, rotate, logout, revoke, sync | one live token a session; no session outlives its password or its user |
| Users, invitations, resets | `modules/users` | users, invitations, reset tokens | invite, accept, revoke, reset, change, disable, grant | one user per person; an invitation says what became of it; somebody can manage the account |
| Permissions | `modules/authorization`, `common/authorization`, the controllers' decorators | grants, denials | resolve, guard a route | order of grants is irrelevant; a denial wins; roles are nested; no route is left open |
| Accounts, sites, settings | `modules/accounts`, `sites`, `settings` | sites, addresses, settings | create, close, add address, write settings | one default; a code is one site; the trail leads to the settings in force |
| Reports | `modules/reports`, `shared/cache` | cached answers | queries in order, cached under a key | figures of one answer agree; the branches listed are the biggest; nobody reads another account's |
| Audit | `modules/audit` | append-only log | record, list | nothing feeds back from it |
| Mail, queues, cache | `shared/mailer`, `queue`, `cache` | Redis jobs, entries that expire | enqueue, take, retry, read through | bounded retries; every job ends |
| Storage and DAM | `shared/storage`, `shared/dam` | external | presign, upload | clients |
| Database access, tenancy | `database` | none | `withTenantScope` | row-level security |
| Legacy identity | `database/legacy`, `auth/legacy-user.repository.ts` | external, read only | look up | read only |
| Bootstrap, config, health | `main.ts`, `config`, `health` | none | wiring | |

### How they interact

* `OrdersService.place` prices the cart, decides whether approval is needed
  (`planApproval`, or the account's threshold), and in ONE transaction writes
  the order, closes the cart, calls `StockService.reserve` and
  `ApprovalsService.raiseFor`.
* `OrdersService.changeStatus` and `ApprovalsService.decide` both write
  `orders.status`. Only the first asks the transition table and only the first
  moves stock; neither knows of the other.
* `StockService.release`/`consume` are called from `changeStatus`; adjustments
  and stocktakes write the same counts from the catalogue.
* `BillingService.generate` selects orders by their status and by what other
  invoices already hold.
* `AuthService`, `PasswordResetService` and `UsersService` all end sessions
  through `TokenService.revokeAllForUser`, each after a write of its own; a login
  may rewrite the user from the legacy system.
* `CartService` prices lines with `PricingService.quote`, which takes the card in
  force from `rate_cards` and the list price and ladder from the catalogue.
* An import writes the same `products` rows as the catalogue's own handlers, with
  fewer checks: it asks the products table alone whether a SKU is taken, and takes
  any category that is not removed, a closed one included.
* Imports, derivatives and mail are queued after a commit, in a call of their
  own, and delivered at least once.
* `ReportsService` reads orders in several statements and keeps the answer in
  Redis under a key made of the query and, where it matters, the account.

### What is hard here

Reads that are stale when they are used; two transactions that each miss the
other's uncommitted row; two components writing one column; partial failures of
row-by-row writes; jobs delivered twice, abandoned half way or never; answers
cached under a key that forgets something; legal sequences of moves nobody
tried. `PROJECT.json` lists
each with its line under `hazards`.

## 2. Modules

```
OrderStatus          transition table, status classes (data)
  OrderContract      abstract: placed once, moves by the table, hold settled once
  OrderLifecycle     orders + shelves; Contract == INSTANCE OrderContract
    MCOrders         OrdersConcurrent, OrdersSerial
  Reports            what was sold, query by query, through the cache
ApprovalEngine       which rules an order trips and what its steps come to (pure)
  Approvals          EXTENDS OrderLifecycle, ApprovalEngine: the two composed
    MCApprovals      ApprovalsConcurrent
  ApprovalRules      an account's rules, any order, any answers: the engine at work
    MCApprovalsSerial  (with MCApprovals) ApprovalsSerial
  OrderProofs        about OrderLifecycle, Approvals and ApprovalRules
Checkout             baskets, lines, the branch's budget; orders as placed
  CheckoutProofs
  MCCheckout         CheckoutTabs
Billing              invoices, lines and the counter
  BillingProofs
  MCBilling          BillingConcurrent, BillingSerial, BilledTwice
Sessions             users' standing, refresh tokens, reset links, legacy replica
  SessionsProofs
Invitations          invitations and the users they become
Staff                who manages whom, by role and by grants of USER_MANAGE
Organisation         sites, addresses, settings and their trail
Permissions          permission catalogue, grants, the guard (pure)
  Routes             every route and what its decorators demand (data)
  CallerGrants       EXTENDS Staff, Routes: a caller's grants, read in any order
  OfficeProofs       about Invitations, Staff, Organisation and CallerGrants
  MCAccess           Sessions to CallerGrants: Access
VersionArchive       abstract: a kept version is never lost or altered
Templates            one template; Archive == INSTANCE VersionArchive
RateCards            an account's contracts
Catalogue            products, SKUs, successors, categories; what imports write of them
ProductParts         one product's options, variants and volume tiers
Prices               the two ladders (pure)
  BasketRules        validation, quotes, placed lines, personalisation (pure)
    Offers           requests for a price, a basket, a design, in any state
    LibraryProofs    about Templates to Offers
    MCLibrary        Templates to Offers: Library, VariantPrice
ImportReport         abstract: one final report on each upload
Background           imports, renderings, mail; Reported == INSTANCE ImportReport
  BackgroundProofs   about Background and Reports
  MCBackground       Background and Reports: Background
Sums                 lemmas about sums over finite sets, for five of the proof modules
```

**One convention** throughout: a handler that reads, checks and then writes in
another transaction is at least two actions. The first carries the code's
guards and stores what was read in a per-request record (`request`, `clerk`,
`decision`, `task`); the second carries only the guards the *write* has (WHERE
clauses, constraints, locks) and uses the stored values wherever the code uses
its earlier read. An `Abandon` action (`GiveUp`, `LeaveDesk`, `WalkAway`...) is
the process stopping, or a check that throws, between the two. Updates of one
row write the whole row, one `EXCEPT` clause per index.

**History variables.** Most checks in this code are about the past when the
write happens, and the code promises nothing when what they looked at has
changed. Where that is so, a Boolean that nothing reads but the properties
records it at the very step: `raced` (Sessions), `crossed` (Invitations),
`outdated` and
`renounced` (Staff), `hurried` (Organisation), `misled` (RateCards), `overlapped`
(Catalogue), `tangled` (ProductParts), `outage` (Background), `torn` (a report).
A property guarded by one says exactly which overlaps break it: everything else
that two requests, crashes and retries can do is still in the run. Parts of a
property that a constraint or a unique index upholds are not guarded.

### OrderLifecycle

| code | model |
|---|---|
| `orders.status`, `stockState` | `status`, `stockState` (`"UNPLACED"` before the row) |
| `stockOnHand`, `stockReserved`, `trackInventory` | `onHand`, `reserved`, `tracked` per shelf |
| `place` (write transaction) | `Place`: one step; `Reserve`'s guard is `take`'s WHERE |
| `changeStatus` up to its transaction / its transaction | `ReadForChange` / `CommitChange` (with `MoveStock`) |
| `adjustStock` read / atomic increment | `BeginAdjust` / `CommitAdjust` |
| `reconcileStock` read / each row's write | `BeginStocktake` / `CountRow` |
| trackInventory edited by `update` | `SetTracking` |

A basket is an order id with its lines; what it costs and who pays is not in
this module. Whether a placement needs approval is both answers here, and
decided in `Approvals`. The CHECK `stockReserved <= stockOnHand` is
`CheckConstraintHolds` for the two warehouse writes; `take`, `release` and
`consume` cannot break it (proved, not assumed).

### ApprovalEngine and Approvals

Rules are records; a step is a rule the order tripped, so
`step[o][rule]` is a status or `"ABSENT"`. `evaluateProgress` is a *set* of
answers, because the code's `find` takes the first refused step in whatever
order the database returned the rows. `decide` is three actions:
`CheckDecision` (the reads and checks outside any transaction),
`StageDecision` (the step's UPDATE, which waits on that row's lock, and the
re-read of all steps that sees only what is committed) and `CommitDecision`
(the request, the skipped steps and the order, from that re-read).
`changeStatus` is here again with `mayMakeTransition`, the role check of each
move. Rule CRUD is the choice of any active subset of `Rules` at a placement:
a step copies its rule, so edits never reach it later. The warehouse
(`WarehouseStep` of `OrderLifecycle`) is at work beside all of it, as decisions
do not know that it is: what the shelves are promised there is promised here.

### Checkout

| code | model |
|---|---|
| `carts`, `cart_lines`, `orders` as the budget sums them | `basket`, `line`, `order`: a row or `None` per id |
| `openCart`: find / create | `Open` / `CreateBasket` (`BasketSlotFree` is the partial unique index) |
| `addLine`: find a line to merge into / write | `FindMergeable` / `InsertLine` or `WriteLines` |
| `updateLine`, `removeLine`, `normaliseQuantities`: read / write by id | `BeginUpdateLine`, `BeginRemoveLine`, `BeginNormalise` / `WriteLines`, `RemoveLine` |
| `clear`, `setDetails` after `openCart` | `Clear`, `SetDetails` |
| `checkoutSession`: price / sum the spend | `BeginPlace` / `CheckBudget` |
| the placement transaction | `CommitPlace` (`BasketUnordered` is `orders.cartId @unique`) |

The payment, address, terms and delivery-date checks of `checkCheckoutDetails`
are one bit of the basket, `ready`. Availability, template and purchase-order
checks can only refuse, so they are the choice of `Abandon`. What the placement
does to stock and approvals is in `OrderLifecycle` and `Approvals`. `DropOrder`
is a refusal or cancellation, which releases budget; it takes an order's
terminal status to be final, which is `SerialTerminalIsFinal`. Baskets without
a branch are left out: they cannot be ordered. The status ABANDONED is never
written by the code.

### Billing

`generate` is six actions, because its result depends on what commits between
its statements: the orders of the period, the orders already billed, finding a
draft, `deleteMany` on its lines, and then either the insert of a draft (whose
partial unique index is `DraftSlotFree`) or the header update and insert of
lines. `issue`, `markPaid` and `voidInvoice` are `Begin` and a `Commit`. An
invoice keeps the set of orders its totals were computed from (`summed`) and
the set it has lines for (`lines`), so that a total that disagrees with its
lines can be seen. `Ship` and `Withdraw` are the order lifecycle as billing
sees it. One year is modelled, hence one row of `invoice_sequences`;
the unique index on `invoiceNumber` is left out because `NumbersAreDistinct`
shows it never has to refuse anything.

### Sessions, Invitations, Staff

| code | model |
|---|---|
| `users` (status, deletedAt, password), the legacy record | `person`, `upstream` (`Elsewhere` changes it from outside) |
| `refresh_tokens`, `password_reset_tokens` | `token`, `link` |
| `login`: look-up and verification / provisioning / `mint` | `LoginFirstTime`, `RetryAgainstLegacy`, `LoginExistingUser`, `RefreshIfStale` / `SyncFromLegacy` / `Mint` |
| `rotate`: read and reuse check / `mint` / retire the old one | `Rotate` / `Mint` / `Retire` |
| `revokeAllForUser`, `revoke` | `RevokeAll`, after the write that calls for it; `Revoke` |
| `PasswordResetService` request, complete; `changePassword` | `RequestReset`/`SendLink`, `BeginReset`/`CompleteReset`, `BeginChange`/`ChangePassword` |
| `UsersService.update`, `deactivate` as sessions see them | `Manage` / `Update`, `Deactivate` |
| `InvitationService.create` / `accept` / `revoke`, expiry seen | `BeginCreate`/`Create`, `BeginAccept`/`Accept`, `RevokeInvite`, `MarkExpired`; `Happens` is time, the account's removal and a login from legacy |
| `UsersService.update`, `deactivate`, `grant`, `revokeGrant` as managers see them | `BeginUpdateUser`/`UpdateUser`, `BeginDeactivateUser`/`DeactivateUser`, `BeginGrant`/`GrantPermission`, `BeginRevokeGrant`/`RevokeGrant`; `badge` is the role an access token was issued with |
| `permission.service.ts` `load`, for USER_MANAGE; `assertMayGrantRole`, `assertMayGrantPermission` of `users.controller.ts` | `HoldsManage` (what the role carries, or an allowance, and no denial, of the rows that have not run out), asked by every request (`MayManage`); `GrantLapses` is `expiresAt` going by |

What a manager may do is their token's role with their own grants, and both can be
taken from them: by a demotion (once the token expires), a removal, a denial, the
revocation of the allowance they manage by, or its end. Only the first two of these
the code keeps a manager from doing to themself.

Passwords are values: hashing takes time, which is why its two sides are two
actions, and nothing else. An expired token or link is one nobody presents again.

### Organisation, Permissions, Routes, CallerGrants

`BeginAddress` clears the defaults of a branch and `InsertAddress` adds the new
address; `BeginSettings`, `WriteSettings` and `RecordSettings` are the reading of
the settings, their upsert and the audit entry with the difference of the two;
`CreateSite` is one transaction. `Permissions` is the permission catalogue, the
reading of a user's rows one by one into an effective set (`readRow`, `load`,
`has`, `hasOn`), the guard (`canActivate`) and what `orders.service.ts` asks of an actor on top
(`mayRead`, `mayMoveOrder`). `Routes` lists every handler of every controller
with what its decorators demand and whether it writes: the guard lets anyone
signed in through where a decorator is missing, so the list is what decides.
`CallerGrants` puts them to a caller of any role and type (`caller`) whose grants
arrive in any order (`rows`, by `ReadGrant`), beside `Staff`, where a permission
is granted a user by one row of the table.

### Templates, RateCards, Catalogue, ProductParts

| code | model |
|---|---|
| `templates`, `template_versions` | `template`, `versions` by number |
| `update` with its `version` in the WHERE | `OpenDraft` / `UpdateTemplate` |
| `snapshot`, `publish`, `changeStatus`, `restoreVersion` | `BeginSnapshot`/`Snapshot`, `BeginPublish`/`ReadAgain`/`Publish`, `BeginStatus`/`ChangeStatus`, `BeginRestore`/`RestoreVersion` |
| `setVisibility`, `remove` | `SetVisibility`, `RemoveTemplate` |
| `requireCard` then each write of `rate-cards.service.ts` | `Begin` then `UpdateCard`, `ChangeCardStatus`, `RemoveCard`, `SetItems`, `RemoveCardItem`; `CreateCard` |
| exclusion constraint `rate_cards_no_overlapping_active` | `ConstraintHolds`, on every insert and update of a row |
| checks of `products.service.ts`, `categories.service.ts` / the write by id | `Look` (with `Holds`) / `CreateItem`, `MoveItem`, `ChangeItemStatus`, `RemoveItem`, `SetItemVisibility`, `CreateVariantSku`, `DeactivateCategory` |
| `applyRows` of `product-import.service.ts`: the category by its code / the row's SKU / the insert or update | `Look` at a `file` (`findIdByCode`) / `ReadImportRow` (`SkuFreeAmongProducts`, the products table alone) / `WriteImportRow`, and on to the next row under the same category |
| `replaceOptions`, `replaceVolumeTiers`: deleteMany / createMany | `BeginOptions`/`DeleteOptions`/`InsertOptions`, `DeleteTiers`/`InsertTiers`: what a concurrent replacement commits in between is not seen by the deletion and stays, or collides with a unique key |
| variants | `BeginVariant`/`CreateVariant`, `UpdateVariant`, `RemoveVariant` |

A row that an import skips, refuses or only previews writes nothing and is no step of
`Catalogue`; what the import's report then says is in `Background`. A category is
looked up once for a file, so the rows that follow may be written into one removed
meanwhile (`overlapped`). Every product remembers whether an import made it
(`imported`, history).

`VersionArchive` is what orders that point at a version rely on: `Keep` writes
an empty number once. `Templates` maps `kept` to `versions` and `shown` to the
published number; everything else a designer does is a stutter.

### Prices, BasketRules and Offers

Whole cents and whole percentages (the code keeps two decimals of each percentage;
what is told apart is where a price rounds, which whole ones reach); a ladder is a
function from thresholds to percentages, a contract a
default percentage and the terms of one product. `priceLadderForContract` is
what a product page shows, `priceForContract` what a quote charges. `BasketRules`
takes a basket with the facts `factsFor` reads about each line: `checkLine` and
`warnings` are the validation, `quoteLines` the pricing through the map keyed by
`quoteKey`, `validate` the session, `placed` the lines of the order.
`acceptCustomisation` and `assertLayersWellFormed` are what a buyer may have
printed on a template. All pure. `Offers` is a request that finds a product, a
basket or a design in some state (`Ask`) and is answered (`Answer`). Which states
there can be is an assumption on the sets it chooses from: a ladder starts at
one or more and takes off a percentage, a contract's term is a price or a percentage
but not both (the CHECKs of the rate-card migration), minimum and multiple are at
least one (`product.dto.ts`), lines of one product read one product. TLC goes
through every small one.

### Background and ImportReport

| code | model |
|---|---|
| BullMQ (external): attempts, retries, stalled jobs | `job`: `Add`, `Take`, `Throw`, `Done`, `Stall` (a dead worker; given up the second time, which is the library's default) |
| `enqueue`: the row / its job | `SubmitImport` / `QueueImport`; a crash in between is the second never happening |
| `run`, `applyRows`: status / read a row's product / write it / report | `StartImport` / `ReadRow` (or `RefuseRow`) / `WriteRow` / `FinishImport`, `FailImport` |
| `generate`: status check / `putObject` twice / the row | `StartImage` / `PutObject` / `FinishImage`, `FailImage` |
| `removeAsset`: row / objects | `RemoveAsset`, in as many steps |
| `MailDispatcher`, `EmailProcessor` | `QueueLetter`, `TakeLetter`, `SendLetter`, `FailLetter` |

Imports are started one at a time: the processor has a concurrency of one
(`import.processor.ts:16`), and one process that works the queue is modelled. With
two, imports would overlap; here an import races with products made by hand
(`CreateByHand`), and follows what another, or a worker of its own that died half
way, left. A row of a file is its SKU.
`ImportReport` knows an upload's status and its report only.

### Reports

A viewer asks (`ServeCached` or `Compute`), runs the queries of the report in
the order of the code (`RunQuery`; each sees the orders as they are then, and
`inOneTransaction` those of one transaction, which at READ COMMITTED is no more),
and `Answer`s, which caches. `cacheKey` has the dimensions that
`reports.service.ts` gives it, the number of branches asked for among them. A
dashboard counts its branches with its headline (`"branches"`), reads them in a query
of its own (`"sites"`, not sent when none were asked for) and carries the first
`topSites` of them by what they spent (`topOf`; of two that spent as much either may
come first); the report by branch carries all. Orders are placed and move along `TRANSITIONS`
meanwhile. Days, weeks and months are sets of starting moments (`Starts`), so
that a range of a few moments crosses several of each.

## 3. Runs

| run | shows | instance and why it is enough |
|---|---|---|
| `OrdersConcurrent` | `ShelfNeverOversold`, `NoStrandedHold`, `NothingHeldForNobody` survive any stale write | 2 orders of 2 and 1 units on a shelf of 2: they cannot both fit. 2 status changes (the least that can race) and one clerk; the requests are symmetric |
| `OrdersSerial` | the code implements `OrderContract`; `reserved` is exactly what live orders hold | one request and one clerk at a time; a product, a variant and a product whose tracking is switched, one order over all three |
| `CheckoutTabs` | a basket is ordered at most once and closed exactly then; never two open baskets; the budget holds | one buyer and branch, two requests in flight, 2 baskets, 2 lines, 2 orders; a line of 1 is ordered as 2 (minimum and multiple), and the cap of 3 has room for one such order. Baskets, lines, orders and requests are symmetric |
| `ApprovalsConcurrent` | no signature ahead of a lower tier; a refusal empties the queues above it | 3 people, 2 approvers in tier one and one above, 2 decisions and a status change in flight, the warehouse before and after. Deciders are symmetric |
| `ApprovalsSerial` | request and steps agree; decisions are final; duplicates collapse within a tier only; the documented hierarchy of outcomes | 3 tiers, a rule that is not tripped, the threshold in play, one decision, one status change and one clerk at a time; of the engine alone, every set of up to 3 over 2 tiers, 2 approvers, 2 totals, 2 categories, and every way its steps may be answered |
| `BillingConcurrent` | numbers distinct and within the counter; one draft per period | 2 operators, 2 orders, 2 invoice rows, 2 numbers; ids symmetric |
| `BillingSerial` | no order billed twice, totals equal lines, numbers unbroken, issued invoices frozen, invoice life cycle | 3 orders over 2 periods, 3 invoices, one operator, orders still shipping and being withdrawn between its statements |
| `BilledTwice` (violation) | an order reaches two issued invoices | 2 operators, one period |
| `Access` | a session is one line of tokens; a lost password or place ends it; an invited person is one user; somebody can manage; addresses, codes and the trail are clear; permissions follow the grants | two requests in flight in every part. Sessions: one user, 3 tokens (a login, a rotation and a rival), one link, 2 passwords. Staff: 2 people, each a manager or not, external or not; USER_MANAGE granted, denied, revoked and run out in 2 rows, beside changes of role and removals. 2 invitations of one person, 2 sites, 2 codes, 2 addresses, 2 settings. Every sequence of up to 2 grants out of 24, for every role and type of user |
| `Library` | a version is one document for ever (implements `VersionArchive`) and what is shown is printable; one contract a day; SKUs, successors and categories hold; variants and ladders fit; page, quote and order agree; answers reach their box | two editors in every part. 3 versions, 2 documents of which one is printable; 2 cards over 2 days and an open end; 2 products, SKUs and categories (two products are a cycle), two requests at once, or one and an import; 2 variants of one option with 2 values, 2 tiers. Prices: 3 list prices, 9 list ladders, every contract of 3 kinds of term, quantities to 7, minimums to 4, multiples to 3. Baskets of up to 2 lines of one product; designs of 2 layers and every answer over 3 keys |
| `VariantPrice` (violation) | a variant with a price of its own is ordered at the product's | the instance of `Library` |
| `Background` | records say what happened; with working workers every job ends; the code implements `ImportReport`; figures agree and are the caller's own | files of one SKU, one SKU twice and two; two imports of one SKU; an image and a letter; 2 attempts, so that there is a retry and a last one. Reports: 2 orders of 2 accounts, an administrator and a user of each account, 5 queries, a range over several days, weeks and months; dashboards that list no branch, the bigger of two, and all there are |

**Bounds**, all named constants: `MaxOnHand` caps stock and counted quantities (2
in `OrdersConcurrent`, else 1: enough for shelves that are empty, partly and
fully reserved), `Deltas` is one unit up or down, `MaxNumber` caps the invoice
counter at the number of invoice rows, `MaxQuantity` the quantity of a basket
line (2), `MaxRules` the rules an account configures, `MaxVersion` a template's
versions, `LastDay` the days of contracts, `MaxRows` the grants of a caller,
`Tries` the attempts of a job, `Horizon` the time reports are watched for,
`MaxBuckets` the columns of a chart (3 for the code's 1000, so that a chart is
cut). The theorems of section 4 have no such bound on what they prove.

**Focus.** `MCAccess`, `MCLibrary`, `MCBackground` and `MCApprovalsSerial`
instantiate several modules that share no state. A variable `focus`, chosen at
the start and never changed, says which of them a behaviour is about; the others
stay as they start. Nothing is lost by it, since no action of one reads or
writes a variable of another. In `MCAccess`, `MCLibrary` and `MCBackground` one module has
several, looked at in turn to keep their product out of reach: staff (all edits of
users of either type) and grants (changes of role, removals and every use of
USER_MANAGE's grants, of internal users); sites and settings; the catalogue under two
requests, and under one import beside everything but changes of status and of
visibility; the files of one import and the race of two. The theorems about these
modules know no such division.

**Constraints.** `ClerkAlone` lets the clerk of `ApprovalsConcurrent` work while no
approval is pending and nobody else is in flight; `ApprovalsSerial` has no such
limit. `InTurn` stops `Access` at states in which `raced`, `outdated`, `renounced`
or `hurried` holds and `Library` at those in which `overlapped` does: what is
promised of the parts concerned is promised without such an overlap, or by a
unique index, and is still checked in the state that raises the flag. Beyond
`misled`, `crossed` and `tangled` the runs go on. `InView` in
`MCBackground` lets an order change once while a report is computed, and only
while nothing has been cached; more changes tear an answer no more than one. Of the
queries that are sent together outside a transaction, one at most is answered before
its turn.

**Symmetry** is used for ids that the module only compares; `Background`, which
has a liveness property, has none.

**Fairness.** `Workers` is weak fairness of the workers' own steps: BullMQ
workers poll their queues for as long as the process runs and are started with
it (`modules/*/*.processor.ts`), so a job that can be taken or carried on is in
the end. Nothing is assumed of users, of errors, of crashes or of the queue's
stalled check: a job may fail every attempt, its worker may die twice, and
`EverythingEnds` says what is then on record. No other module has a fairness
condition, nothing in the code obliges a user to act; `CHECK_DEADLOCK FALSE` is
set because the system may really stop (every order terminal, every number used,
no request in flight).

*Serial* runs say what the code guarantees when one request is handled at a
time; all their properties fail with a second request in flight, but
those of `ApprovalRules`, where there is none. *Concurrent* runs say what
survives, and the history variables of section 2 do the same for one property at
a time. Each passing property comes with at least one mutant, an operator beside the
one it replaces and marked `mutant`, under which the run fails; a property that joins
several parts has a mutant for each part.

### Known disagreements between the code and its comments

Shown by a run (quotes are in `PROJECT.json`, `findings`): `BilledTwice` and
`VariantPrice`.

Seen while modelling, and reproducible by changing a constant or a guard, but not
kept as runs of their own:

* **Approvals.** Two approvers of one tier approve at once: neither transaction
  sees the other's step, and the request stays PENDING with nothing left to
  decide (`approvals.service.ts:216`; `RequestMatchesSteps` with two
  `Deciders`). A decision moves an order that was cancelled meanwhile, although
  `order-status.ts:48` calls CANCELLED terminal. A refusal through `decide`
  keeps the order's stock reserved for good; `changeStatus` would release it.
* `ReservedMatchesOrders`, `KeepsContract` and `TerminalIsFinal` fail with
  `Requests = {r1, r2}`: two `changeStatus` of one order release or consume its
  units twice, out of what another order holds, and move an order that has
  become terminal.
* A stocktake writes the count over a row that has moved since it was read
  (`products.service.ts:925`), so the movement made is not the variance shown
  and audited, and what moved in between is lost.
* `WithinBudget` fails with a second buyer of the branch (`Buyers = {ann, bob}`):
  both sum the branch's spend before either order is written. `budget.ts` says
  "BE-06 re-checks the same sum when an order is placed", and `place` that "a
  budget can be consumed by a colleague"; the sum is repeated, but before and
  outside the placement transaction.
* Two adds of one product from two tabs each read the line's quantity and write
  their own sum: one add is lost (`cart.service.ts:334`). A line added after the
  session was read is in a closed basket and not in its order.
* With a product in `Retrackable` counted by `NothingHeldForNobody` (which
  excludes them), placing an order, switching tracking off and cancelling leaves
  its units reserved: `release` is conditional on `trackInventory`
  (`stock.service.ts:101`).
* `DecisionIsFinal` fails with two `Deciders`: the second decision of a step
  overwrites the first (`approvals.service.ts:205`).
* `NumbersAreGapless`, `IssuedIsFrozen` and `InvoiceLifecycle` fail with two
  `Operators`: a draft issued twice loses its first number, a draft issued
  while `generate` holds it is rewritten, a voided invoice is settled.
* An order sent back with CHANGES_REQUESTED and resubmitted has no open request:
  `raiseFor` is called from `place` only, although the approvals migration says
  "Resubmission starts a fresh request".
* An order above the account's threshold, in an account without rules, is placed
  PENDING_APPROVAL with no request, which `approvals.service.ts:99` calls
  "invisible to every approver".
* **Sessions.** Two rotations of one token that both read it as live both mint,
  and a crash between `mint` and the retirement of the old token leaves both live
  (`token.service.ts:104`, `:147`): one login, two lines of tokens. A login or
  reset that wrote from an earlier read makes a disabled user active again.
* **Staff.** Two grants of one permission to one user at once make two rows, no
  index forbids it (`users.service.ts:270`). Two managers who demote each other,
  or one whose token is older than his demotion, leave nobody. And one is enough:
  `assertNotSelfDemotion` is a guard against "an administrator locking themselves — and
  possibly the account — out", a mistake its comment calls unrecoverable through the
  API (`users.service.ts:356`), but `grant` has no such check, and a lone
  manager may DENY themself USER_MANAGE, revoke the allowance they manage by, or let
  it run out (`SomebodyManages` without `~renounced`).
* **Imported products.** `products.service.ts:1262` wants SKUs "unique across products
  *and* variants"; `applyRows` looks at `products` alone
  (`product-import.service.ts:291`) and makes a product under a variant's SKU, with
  nobody else at work (`EverythingIsFound` without its exception). It also files
  products under a category closed to new ones, which `assertCategoryExists` refuses
  everybody else.
* **Templates.** `template-status.ts:43` says an archived template comes back as
  a draft; `publish` takes it straight to PUBLISHED. Publishing a draft again
  unchanged is refused by the index on its versions, not by a check. The schema
  says that the canvas margins are checked against the product's on publish
  (`schema.prisma:2160`); nothing compares them.
* **Baskets.** Two lines of one shelf each fit and together may not: `checkLine`
  looks at one line, and only `StockService.take` refuses the order.
* **Imports.** `product-import.service.ts:237` speaks of retrying a failed
  import "from the top"; it has been marked FAILED by then and the retry does
  nothing. A preview of a file with one SKU twice reports two creations. A worker
  that dies twice leaves the row RUNNING.
* **Images.** `sweepPending` is called by nothing, so an image whose job was not
  queued stays PENDING. Objects of an image removed while it is drawn remain.
* **Reports.** The dashboard's queries run in one transaction at READ COMMITTED
  and can disagree when an order moves between them (`reports.service.ts:940`).
  A chart of more than 1000 columns is cut and its figures with it. A query
  without dates has a key without dates, so that until the entry expires
  yesterday's range is shown.
* **Designs.** A locked layer may have the key of an editable one: keys are
  compared among editable layers only.

## 4. Proofs

TLC shows a property on the instances of section 3; the theorems show it for
every value of the constants: any number of rows, people, requests in flight,
attempts and days, and files, baskets and ladders of any size. Each listed
theorem (`PROJECT.json`, `theorems`) is `Spec => []property` or, for the pure
rules, a statement about every input.

**Assumptions.** Only named ones, in the module that declares the constant; TLC
evaluates each on its runs.

| assumption | what it asks |
|---|---|
| `LinesAssumption`, `StockAssumption`, `ShelfAssumption` | an order's lines and the stock at the start are natural numbers, the tracked and retrackable shelves are shelves |
| `BuyersAssumption`, `ProductsAssumption`, `BudgetAssumption` | buyers have branches; prices, minimums and multiples are numbers, a multiple not zero; a cap is a number or none |
| `PeriodAssumption`, `NumberAssumption` | an order falls in one period; the bound on numbers is a number |
| `PeopleAssumption`, `RulesAssumption`, `TiersAssumption` | people and tiers are what they are called; tiers of routed rules start at one |
| `SentinelsAssumption`, `NoRowAssumption`, `NilAssumption`, `NoneAssumption` | the value for "no row" or "not given" is not a row or a price |
| `AddressesAssumption` | finitely many address ids, so that defaults can be counted |
| `DayAssumption`, `PrintableAssumption`, `VersionAssumption`, `LadderAssumption` | days, versions, quantities and percentages are numbers; what is printable is a document |
| `TriesAssumption`, `FilesAssumption`, `QueuesAssumption` | at least one attempt; a file is a sequence of SKUs; imports, images and letters are different jobs |
| `SalesAssumption`, `AskersAssumption`, `BoundsAssumption`, `KindsAssumption` | finitely many orders of known branches; callers and queries are what they are called |
| `OffersAssumption` | ladders, terms, contracts, lines and baskets are what the database's constraints and the request schemas let them be; quantities asked for are numbers, minimums and multiples at least one |
| `CalendarAssumption` | days, weeks and months cover every moment a report is asked for, and a week or a month starts with a day |

Three more are hypotheses of single theorems, because the code does not promise
the property otherwise (section 3): `OneAtATime` (one `changeStatus`, or one
billing request), `OneDecision` (one `decide`) and `OneBuyerPerBranch`. The
theorems they belong to are named `Serial...`, `RoutedShelvesMatch` and
`BudgetHolds`.

**The arguments**, one proof module after another. Where a property was not
inductive, the invariant that carries it is named.

* **Sums.** What the sum of a function over a finite set does when an element
  changes or is added, and that it can be taken class by class. The induction these
  need is done without an induction theorem (those of the library take an
  operator): a failing subset would have a smallest one (`SmallestSet`), of which
  one element is then counted. `LeastNumber` is the same for natural numbers.
* **OrderProofs**, orders and shelves. `TypeCorrect`: types are inductive as
  stated. `ShelfSafe`: what carries `ShelfNeverOversold` is that release floors
  at zero and that consume takes the same units off both counts
  (`FlooredTogether`), even when it runs twice. `HoldSafe` needs `HoldInv`: a
  request that read no hold cannot be for an order that has got one since.
  `NothingKeptBackForNobody` sums what is owed over the orders that hold
  something; `ShelfInv` keeps these finitely many and the steady shelves as they
  were set, and the floor is what makes a second release harmless to the bound.
  `SerialKeepsContract`, `SerialTerminalIsFinal` and `SerialShelvesMatch` use
  that the one request in flight has read what still is: `Init` maps to
  `Contract!Init`, every step to `Contract!Next` or a stutter, and the same sum
  moves on both sides of the equation.
* **OrderProofs**, approvals. `ApprovalsTypeCorrect` needs that an unplaced order has
  no request and nobody deciding it. `TiersInOrder` is the argument of
  interest: the tier a commit opens was computed from a reading that may have
  missed others' steps. `WalkInv` adds that below the open tier of a pending
  request, and below the step of every decision in flight, nobody is still to
  be asked; steps only ever *close* (`StepsOnlyClose`), so a stale reading can
  only be too cautious. `RefusalEmptiesQueues`: the engine names a refusal's
  tier twice (`RefusalSkipsAbove`), and what is skipped is chosen on the steps
  as they are at the commit. `SerialRequestMatches` and `SerialDecisionFinal`
  rest on `OneDecisionInv`: what the decision in flight read is still so when it
  is written. `ApproversAskedOnce` and `TiersAreWalked` are about the engine
  alone, for any set of rules and any answers (`EngineInv`: finitely many rules,
  told apart by their ids).
* **OrderProofs**, the two together. A step of `Approvals` is a step of
  `OrderLifecycle` on everything but `orders.status`, which `decide` also writes:
  that is not a step `OrderLifecycle` has, so its theorems do not carry over by
  themselves. What its shelves promise does: `RoutedShelfSafe`,
  `RoutedNothingKeptBack` and `RoutedShelvesMatch`. The sum of what is owed is
  taken over `stockState`, which no decision touches, so a decision leaves both
  sides alone whatever it makes of the order; placing (`PlacingHolds`) and
  committing a change move them as before, and all that is needed of an order's
  status is that one not yet placed holds nothing (`UnplacedHoldsNothing`).
  `RoutedShelvesMatch` asks for one status change at a time and lets any number
  of decisions and clerks in. `NoStrandedHold` does not carry over, and is false
  there: a refusal by `decide` keeps its hold.
* **CheckoutProofs.** `BasketsStaySingle` and `BasketsOrderedOnce` rest on
  `Shape`: a request in flight and an order refer to baskets that exist, and
  rows are kept. Every step is one of four things done to the two tables
  (`TablesStep`), and the unique indexes are what each property needs of the two
  inserts. `CheckoutTypeCorrect` needs that only finitely many lines and orders
  are ever written (`TypeInv`), or their sums would be no numbers. `BudgetHolds`:
  between the sum and the placement nobody spends (`NothingSpent`) unless it is
  the basket itself that is ordered, which the unique index lets happen once;
  so a checkout that was let through still `Fits`.
* **BillingProofs.** `BillingTypeCorrect` needs that a task refers to a row
  that exists (`TasksReferToRows`; rows are never deleted).
  `NumbersStayDistinct` and `DraftsStaySingle` rest on what steps do to
  invoice headers (`HeaderStep`, `CommitEffect`, `CreateEffect`). The five serial
  theorems share `SerialInv`: lines are those summed and of the month, two
  invoices not voided share none, drafts have no number and numbers no gap, and
  what the request in flight has read (`ReadingsHold`) still is so. Orders come
  and go all the while: only the billing requests are one at a time.
* **SessionsProofs.** `RowsInv`: everything refers to rows, and what a request
  read of them it may still rely on. `LoginsNeverFork` and
  `LosingAccessEndsSessions` need `SessionsInv`: beside the properties, who is
  deleted is disabled, and who is not active holds no live token that nobody is
  about to end. A new token is the only step that could break any of it; all
  others only end tokens (`QuietUnlessMint`).
* **OfficeProofs.** `InvitationsAreTold` (`InvitesInv`): the two dates of an
  invitation agree with its status, and one per address is pending.
  `AManagerIsLeft` (`StaffInv`): for every request in flight that takes the right
  from somebody there is a manager it will leave (`Remains`): its sender, who can turn
  only a grant or a revocation on themself, which is `renounced` when it is written. A
  second such request might take the right from that one; the first of the two to be
  written finds the other in flight and is `outdated`, and so is a request as it
  begins when its token no longer tells the truth. While nobody manages, none has
  ever begun. `RecordsAreClear`
  (`OrganisationInv`): one address clerk and one settings clerk is what
  `hurried` leaves, and the trail is behind by exactly what that clerk has yet to
  record (`TrailFollows`).
* **OfficeProofs**, permissions. `GrantsAreTold`: what `load` returns is, for
  every list of rows, the base with what the rows name (`Gathered`). Reading row
  by row and this set agree because both satisfy the equation `load` is defined
  by (`OneMoreRow`), and two functions that do cannot differ first anywhere
  (`ReadingsAgree`). That denials win and order is nothing then follows from
  which rows there are (`SameRowsSameAnswer`). `PermissionsAreFollowed` adds the
  nesting of roles, the walk of every controller (`NoRouteLeftOpen`: a route that
  writes and needs no more than an external user has is one of the caller's own),
  the rules on orders, and `GrantsAreOneRow` of `Staff`, whose steps are all of
  the module's that touch it. `GuardFollowsGrants` takes it to the routes: the guard
  lets a caller through exactly as the rows say, and since every decorator asks for
  permissions of the catalogue (`EveryRouteCanBeOpened`, controller by controller), no
  route is closed to an administrator who was denied nothing.
* **LibraryProofs**, state machines. `NeverTwoContracts` (`CardsInv`): two rows
  in force do not overlap, so at most one covers a day. `ShownIsPrintable` and
  `HistoryIsAnArchive` (`TemplatesInv`): a number beyond the draft's is unused
  (`NothingAhead`), and whoever holds a number holds the document it means
  (`DeskTellsTruth`); a version is then kept into an empty place, which is a step of
  `VersionArchive`, and all else a stutter. `CatalogueStaysSound` (`CatalogueInv`):
  a circle of successors is a set of products each followed within it, and what a
  product is followed to leads nowhere itself when that is written, so it closes none.
  That no product but an imported one has a variant's SKU, and that nothing is listed
  in a removed category, hold because what a write looked at holds when it comes
  (`~overlapped`), an import's category and row included.
  `PartsAlwaysFit` (`PartsInv`): of the requests on the same parts one is in
  flight (`HandsApart`), and what it made sure of still holds.
* **LibraryProofs**, prices and baskets, for every price, quantity, ladder,
  contract and basket. `LadderIsTold`: a quantity is rounded to the least that may
  be ordered (`Rounded`), and the last rung it reaches is the same on the page
  and in the quote, whatever rungs lie below the minimum. `NoDiscountStacks`:
  a price is a fixed one of the contract or the list price with one discount
  taken off. `BasketIsTold`: the map of quotes is
  keyed by product and quantity, so the last quote under a key is one's own; then
  session, total and placed lines agree.
  `AnswersReachOneBox` is about personalisation, for any layers and answers.
  `OrdersAreAsTold` puts the four together: whatever a request of `Offers` finds
  is one of the states they are about (`OfferIsOne`), so what it is told is so.
* **BackgroundProofs.** `FinishedWorkIsSo` (`BackgroundInv`): a job that may run
  has an attempt left (`AttemptsLeft`), an import's worker and row are in step unless a
  death or an outage parted them, and what the report says so far is what was
  written (`TellsSoFar`); of an image, each picture drawn is stored.
  `ImportsAreReportedOnce` maps every step to one of `ImportReport` or a stutter.
  `ReportsAreTold` (`ReportsInv`): what a report is about is settled when it is
  asked, each figure read is what its query would still answer unless the report
  is torn, and a cached report fits its key. That the columns of a chart, and all branches,
  come to the total is a sum taken class by class, one class for each (`BranchesAddUp`).
  Of the branches listed (`TopBranches`): none left out outspent one that is listed, so
  what is missing of the total is at most that much for each (`SumOfTheRest`).

**Only model-checked:**

* `EverythingEnds`: liveness under fairness, and ENABLED, are beyond the prover. It
  is the one property of a passing run that no theorem states.
* `OrderBilledOnce` in `BilledTwice` and `VariantSellsAtItsPrice` are refuted, not
  proved.

No module uses RECURSIVE.

## 5. Not modelled, and why

`PROJECT.json` gives every component's status.

* Invoice and report exports, storage, configuration, health, the legacy client:
  they render or fetch and hold no state that decides anything.
* Row-level security and the isolation level are PostgreSQL's and are taken as
  given. A deadlock of two placements that lock shelves in different orders is
  resolved by the database aborting one, which is a placement that did not
  happen.
* `recordPayment` (its own axis of an order), the purchase-order rule and the
  required details of the checkout: each looks at one row and can only refuse.
* `accounts.service.ts` and `sites.update`: single-row edits by one role; what
  other parts read of them is a constant there. `deriveCode` invents a spare
  code, of which `CreateSite` takes any.
* Pagination, search, sorting, thumbnails and duplication of templates, image
  order, presigned links; reports of products, categories, inventory and
  regions, which rank the rows of one query.
* What a product needs before it is published (`assertPublishable` of
  `products.service.ts`) reads options and variants; `ProductParts` has both but
  no status.
* Amounts of money outside `Prices` and `BasketRules` are abstracted to the
  orders or lines they come from; in `Checkout` a unit price per product stands
  for them.

## 6. Plan

Every component that decides something is modelled, and every safety property
of a passing run is a theorem, each of `OrderLifecycle` that holds beside approvals
for the two together. Next:

1. `recordPayment` beside `changeStatus`: two columns written from one read.
2. Publishing a product over its options and variants (`assertPublishable`).
3. An approver who is also the requester, on both sides of one rule.
