------------------------------- MODULE Routes -------------------------------
(***************************************************************************)
(* Every route of the portal: what its decorators demand and whether it    *)
(* changes anything.  A handler without a decorator is open to anyone      *)
(* signed in, so what is left off here is a permission too.  A read that   *)
(* first makes the caller's own empty basket, or an account's row of       *)
(* default settings, counts as a read.                                     *)
(***************************************************************************)
EXTENDS Permissions

Guarded(names, permission, writes) ==
  {[name |-> n, public |-> FALSE, needs |-> {permission}, writes |-> writes] : n \in names}
Reads(names, permission) == Guarded(names, permission, FALSE)
Writes(names, permission) == Guarded(names, permission, TRUE)

Public(names, writes) ==
  {[name |-> n, public |-> TRUE, needs |-> {}, writes |-> writes] : n \in names}
SignedIn(names, writes) ==
  {[name |-> n, public |-> FALSE, needs |-> {}, writes |-> writes] : n \in names}

AuthRoutes ==
  Public({"auth.login", "auth.refresh", "auth.logout"}, TRUE)
    \cup SignedIn({"auth.me"}, FALSE)

PasswordRoutes ==
  Public({"password.forgot", "password.reset"}, TRUE)
    \cup SignedIn({"password.change"}, TRUE)

InvitationRoutes ==
  Writes({"invitations.create", "invitations.revoke"}, "USER_INVITE")
    \cup Reads({"invitations.list"}, "USER_INVITE")
    \cup Public({"invitations.accept"}, TRUE)

UserRoutesUnguarded ==                   \* mutant: a decorator left off
  SignedIn({"users.permissions"}, FALSE)
    \cup SignedIn({"users.grant"}, TRUE)
UserRoutes ==
  SignedIn({"users.permissions"}, FALSE)
    \cup Reads({"users.list", "users.find", "users.grants"}, "USER_MANAGE")
    \cup Writes({"users.update", "users.deactivate", "users.grant", "users.revoke"},
                "USER_MANAGE")

AuthorizationRoutes == Reads({"authorization.permissions"}, "USER_MANAGE")

AccountRoutes ==
  Reads({"accounts.list", "accounts.find"}, "ACCOUNT_MANAGE")
    \cup Writes({"accounts.create", "accounts.update", "accounts.deactivate"}, "ACCOUNT_MANAGE")

SiteRoutes ==
  Reads({"sites.list", "sites.find"}, "APPLICATION_VIEW")
    \cup Writes({"sites.create", "sites.update", "sites.address", "sites.deactivate"},
                "SITE_MANAGE")

SettingsRoutes ==
  Reads({"settings.find"}, "ACCOUNT_MANAGE") \cup Writes({"settings.update"}, "ACCOUNT_MANAGE")

AuditRoutes == Reads({"audit.list"}, "AUDIT_VIEW")

CategoryRoutes ==
  Reads({"categories.list", "categories.find"}, "CATALOG_VIEW")
    \cup Writes({"categories.create", "categories.update", "categories.remove"},
                "CATALOG_MANAGE")

ProductRoutes ==
  Reads({"products.list", "products.find"}, "CATALOG_VIEW")
    \cup Writes({"products.create", "products.update", "products.status"}, "CATALOG_MANAGE")

ProductPartRoutes ==
  Writes({"products.remove", "products.options", "products.variant.add",
          "products.variant.update", "products.variant.remove", "products.visibility"},
         "CATALOG_MANAGE")
    \cup Writes({"products.tiers"}, "PRICING_MANAGE")

ProductFileRoutes ==
  Writes({"products.stock"}, "INVENTORY_MANAGE")
    \cup Writes({"products.asset.presign", "products.asset.add", "products.asset.remove",
                 "products.import"}, "CATALOG_MANAGE")
    \cup Reads({"products.import.list", "products.import.find"}, "CATALOG_MANAGE")

InventoryRoutes == Writes({"inventory.reconcile"}, "INVENTORY_MANAGE")

PricingRoutes == Reads({"pricing.quote", "pricing.active"}, "PRICING_VIEW")

RateCardRoutes ==
  Reads({"cards.list", "cards.find", "cards.items"}, "PRICING_VIEW")
    \cup Writes({"cards.create", "cards.update", "cards.status"}, "PRICING_MANAGE")

RateCardItemRoutes ==
  Writes({"cards.item.put", "cards.item.remove", "cards.remove"}, "PRICING_MANAGE")

CartRoutes ==
  Reads({"cart.find"}, "ORDER_CREATE")
    \cup Writes({"cart.add", "cart.line", "cart.line.remove", "cart.clear", "cart.normalise",
                 "cart.details"}, "ORDER_CREATE")
    \cup Reads({"cart.validate", "cart.session"}, "ORDER_CREATE")

OrderRoutes ==
  Writes({"orders.place"}, "ORDER_CREATE")
    \cup Reads({"orders.list", "orders.find"}, "ORDER_VIEW_OWN")
    \cup Writes({"orders.status"}, "ORDER_VIEW_OWN")
    \cup Writes({"orders.payment"}, "BILLING_VIEW")

ApprovalRoutes ==
  Reads({"approvals.queue"}, "APPROVAL_ACT")
    \cup Reads({"approvals.order"}, "ORDER_VIEW_OWN")
    \cup Writes({"approvals.decide"}, "APPROVAL_ACT")
    \cup Reads({"approvals.rules"}, "USER_MANAGE")
    \cup Writes({"approvals.rule.add", "approvals.rule.update", "approvals.rule.remove"},
                "USER_MANAGE")

BillingRoutes ==
  Reads({"billing.period", "billing.list", "billing.find"}, "BILLING_VIEW")
    \cup Writes({"billing.generate", "billing.issue", "billing.paid", "billing.void"},
                "BILLING_MANAGE")

InvoiceFileRoutes == Reads({"billing.pdf", "billing.csv", "billing.xlsx"}, "BILLING_VIEW")

SpendRoutes ==
  Reads({"reports.dashboard", "reports.summary", "reports.overTime", "reports.bySite",
         "reports.byCategory", "reports.topProducts"}, "REPORT_VIEW")
    \cup Reads({"reports.byAccount"}, "ACCOUNT_MANAGE")

OperationRoutes ==
  Reads({"reports.byRegion", "reports.byStatus", "reports.velocity"}, "REPORT_VIEW")
    \cup Reads({"reports.turnover", "reports.inventory"}, "INVENTORY_MANAGE")

ReportFileRoutes == Reads({"reports.bySite.csv", "reports.byCategory.csv"}, "REPORT_VIEW")

TemplateRoutes ==
  Reads({"templates.list", "templates.find"}, "TEMPLATE_USE")
    \cup Reads({"templates.versions"}, "TEMPLATE_MANAGE")
    \cup Writes({"templates.create", "templates.update"}, "TEMPLATE_MANAGE")

TemplateVersionRoutes ==
  Writes({"templates.publish", "templates.status", "templates.version", "templates.restore",
          "templates.duplicate", "templates.visibility"}, "TEMPLATE_MANAGE")

TemplateFileRoutes ==
  Writes({"templates.remove", "templates.asset.presign", "templates.asset.add",
          "templates.asset.remove"}, "TEMPLATE_MANAGE")

CustomiseRoutes ==
  Reads({"templates.customise", "templates.validate"}, "TEMPLATE_USE")

HealthRoutes == Public({"health.live", "health.ready", "health.dependencies", "health"}, FALSE)

AllRoutes ==
  UNION {AuthRoutes, PasswordRoutes, InvitationRoutes, UserRoutes, AuthorizationRoutes,
         AccountRoutes, SiteRoutes, SettingsRoutes, AuditRoutes, CategoryRoutes,
         ProductRoutes, ProductPartRoutes, ProductFileRoutes, InventoryRoutes,
         PricingRoutes, RateCardRoutes, RateCardItemRoutes, CartRoutes, OrderRoutes,
         ApprovalRoutes, BillingRoutes, InvoiceFileRoutes, SpendRoutes, OperationRoutes,
         ReportFileRoutes, TemplateRoutes, TemplateVersionRoutes, TemplateFileRoutes,
         CustomiseRoutes, HealthRoutes}
=============================================================================
