----------------------------- MODULE WebScreens -----------------------------
(***************************************************************************)
(* The web client's screens: the queries each page mounts, the mutations   *)
(* it offers, the queries a dialog mounts while it is open, and which      *)
(* query keys the success of a mutation invalidates.                       *)
(*                                                                         *)
(* A query is named by its key without parameters: a list under two        *)
(* filters is one query here, since no invalidation tells them apart.      *)
(***************************************************************************)
LOCAL INSTANCE SequencesExt

Of(root, names) == {root} \X names

-----------------------------------------------------------------------------
(* Hooks: queries and mutations                                            *)

PortfolioHooks ==
    Of("properties", {"list", "detail", "summary"})
    \cup Of("buildings", {"list", "detail"})
    \cup Of("units", {"list", "detail", "vacant"})

PortfolioMutations ==
    Of("properties", {"create", "update", "archive", "remove"})
    \cup Of("buildings", {"create", "update", "remove"})
    \cup Of("units", {"create", "update", "setStatus", "remove"})

OccupancyHooks ==
    Of("tenants", {"list", "profile"}) \cup Of("leases", {"list", "detail", "expiring"})

OccupancyMutations ==
    Of("tenants", {"create", "update", "remove"})
    \cup Of("leases", {"create", "update", "renew", "terminate"})

FinanceHooks ==
    Of("rent", {"list", "detail", "summary", "outstanding"})
    \cup Of("payments", {"list"})
    \cup Of("receipts", {"list", "detail"})
    \cup Of("expenses", {"list", "summary"})

FinanceMutations ==
    Of("rent", {"generate"})
    \cup Of("payments", {"create", "void"})
    \cup Of("expenses", {"create", "update", "remove"})

MaintenanceMutations ==
    Of("maintenance", {"create", "update", "assign", "changeStatus", "addUpdate"})

StaffMutations ==
    Of("staff", {"create", "update", "assignProperties", "setActive", "remove"})

DocumentMutations == Of("documents", {"upload", "remove"})

NotificationMutations == Of("notifications", {"markRead", "markAllRead"})

OperationsHooks ==
    Of("maintenance", {"list", "detail", "summary"})
    \cup Of("staff", {"list", "properties"})
    \cup Of("documents", {"list"})
    \cup Of("notifications", {"list", "unread-count"})
    \cup Of("audit-logs", {"list", "actions"})

\* The reports the catalogue lists.
ReportKeys ==
    {"rent-collection", "outstanding-rent", "expenses", "income", "profit-loss",
     "tenants", "occupancy", "maintenance", "lease-expiry"}

InsightHooks ==
    Of("dashboard", {"summary", "charts", "worklists"})
    \cup Of("reports", {"catalogue"} \cup ReportKeys)

-----------------------------------------------------------------------------
(* Invalidation                                                            *)

Roots(names) == {<<n>> : n \in names}

PORTFOLIO_ROOTS == Roots({"properties", "buildings", "units"})
OCCUPANCY_ROOTS == Roots({"tenants", "leases", "units", "properties", "buildings"})
\* Mutant: the money screens without the people who pay.
MoneyOnly == Roots({"rent", "payments", "receipts", "expenses"})

FINANCE_ROOTS == Roots({"rent", "payments", "receipts", "expenses", "tenants", "leases"})
MAINTENANCE_ROOTS == Roots({"maintenance", "notifications"})
STAFF_ROOTS == Roots({"staff", "users", "properties"})
DOCUMENT_ROOTS == Roots({"documents"})
INSIGHT_ROOTS == Roots({"dashboard", "reports"})

\* The keys the hooks invalidate when a mutation of the kind has succeeded.
InvalidatedByHooks(kind) ==
    CASE kind \in PortfolioMutations    -> PORTFOLIO_ROOTS
      [] kind \in OccupancyMutations    -> OCCUPANCY_ROOTS
      [] kind \in FinanceMutations      -> FINANCE_ROOTS \cup INSIGHT_ROOTS
      [] kind \in MaintenanceMutations  -> MAINTENANCE_ROOTS \cup INSIGHT_ROOTS
      [] kind \in StaffMutations        -> STAFF_ROOTS \cup INSIGHT_ROOTS
      [] kind \in DocumentMutations     -> DOCUMENT_ROOTS \cup INSIGHT_ROOTS
      [] kind \in NotificationMutations -> Roots({"notifications"})
      [] OTHER                          -> {}

\* The settings page: both forms.
InvalidatedBySettings(kind) ==
    CASE kind = <<"organization", "update">> -> {<<"organization">>, <<"auth", "me">>}
      [] kind = <<"settings", "update">>     -> {<<"settings">>}
      [] OTHER                               -> {}

\* The profile page: a changed password and an ended session.
InvalidatedByProfile(kind) ==
    IF kind \in Of("auth", {"changePassword", "revokeSession"})
    THEN {<<"auth", "sessions">>} ELSE {}

Invalidated(kind) ==
    InvalidatedByHooks(kind) \cup InvalidatedBySettings(kind) \cup InvalidatedByProfile(kind)

\* invalidateQueries matches every query whose key begins with the one given.
Invalidates(kind, query) == \E key \in Invalidated(kind) : IsPrefix(key, query)

\* A changed profile is put in the cache as the answer brought it.
SetsData(kind, query) == kind = <<"auth", "updateProfile">> /\ query = <<"auth", "me">>

-----------------------------------------------------------------------------
(* Dialogs: the queries they mount                                         *)
(*                                                                         *)
(* Held: as long as the page that offers the mutation, since the dialog is *)
(* mounted shut.  Picked: while the dialog is open.  A list that follows a *)
(* property chosen in the form counts as picked.                           *)

LeaseFormPicks ==
    {<<"leases", "create">>} \X {<<"tenants", "list">>, <<"units", "vacant">>}

ExpenseFormHolds == Of("expenses", {"create", "update"}) \X {<<"properties", "list">>}

BuildingFormHolds == Of("buildings", {"create", "update"}) \X {<<"properties", "list">>}

UnitFormHolds == Of("units", {"create", "update"}) \X {<<"properties", "list">>}

UnitFormPicks == Of("units", {"create", "update"}) \X {<<"buildings", "list">>}

UploadHolds == {<<"documents", "upload">>} \X {<<"properties", "list">>}

UploadPicks ==
    {<<"documents", "upload">>} \X {<<"units", "list">>, <<"tenants", "list">>}

MaintenanceFormHolds ==
    Of("maintenance", {"create", "update"}) \X {<<"properties", "list">>}

MaintenanceFormPicks == Of("maintenance", {"create", "update"}) \X {<<"units", "list">>}

AssignMaintenanceHolds == {<<"maintenance", "assign">>} \X {<<"staff", "list">>}

\* This dialog is mounted only while it is open.
AssignPropertiesPicks ==
    {<<"staff", "assignProperties">>}
    \X {<<"properties", "list">>, <<"staff", "properties">>}

Held ==
    UNION {ExpenseFormHolds, BuildingFormHolds, UnitFormHolds, UploadHolds,
           MaintenanceFormHolds, AssignMaintenanceHolds}

Picked ==
    UNION {LeaseFormPicks, UnitFormPicks, UploadPicks, MaintenanceFormPicks,
           AssignPropertiesPicks}

\* The dialogs that say, while they are open, that a list could not be had.
DialogSays ==
    LeaseFormPicks \cup AssignMaintenanceHolds
    \cup {<<<<"staff", "assignProperties">>, <<"properties", "list">>>>}

-----------------------------------------------------------------------------
(* Pages                                                                   *)

\* A page says of what it shows that it could not be had, but for what is silent.
Page(shows, silent, offers) == [shows |-> shows, silent |-> silent, offers |-> offers]

\* The list every page with a property filter mounts.
PropertyFilter == {<<"properties", "list">>}

\* A record's documents, on a tab of its page.
EntityDocuments == Page({<<"documents", "list">>}, {}, Of("documents", {"upload", "remove"}))

DashboardPage ==
    Page(Of("dashboard", {"summary", "charts", "worklists"}) \cup PropertyFilter,
         Of("dashboard", {"charts", "worklists"}) \cup PropertyFilter, {})

PropertiesPage == Page({<<"properties", "list">>}, {}, {<<"properties", "create">>})

PropertyDetailPage ==
    Page(Of("properties", {"detail", "summary"}) \cup {<<"buildings", "list">>, <<"units", "list">>}
            \cup EntityDocuments.shows,
         {<<"properties", "summary">>, <<"buildings", "list">>, <<"units", "list">>},
         Of("properties", {"update", "archive", "remove"})
            \cup {<<"buildings", "create">>, <<"units", "create">>} \cup EntityDocuments.offers)

BuildingsPage ==
    Page({<<"buildings", "list">>} \cup PropertyFilter, PropertyFilter,
         {<<"buildings", "create">>})

BuildingDetailPage ==
    Page({<<"buildings", "detail">>, <<"units", "list">>}, {<<"units", "list">>},
         Of("buildings", {"update", "remove"}) \cup {<<"units", "create">>})

UnitsPage ==
    Page({<<"units", "list">>} \cup PropertyFilter, PropertyFilter, {<<"units", "create">>})

UnitDetailPage ==
    Page({<<"units", "detail">>}, {}, Of("units", {"update", "setStatus", "remove"}))

TenantsPage ==
    Page({<<"tenants", "list">>} \cup PropertyFilter, PropertyFilter, {<<"tenants", "create">>})

TenantProfilePage ==
    Page({<<"tenants", "profile">>} \cup EntityDocuments.shows, {},
         Of("tenants", {"update", "remove"}) \cup {<<"leases", "create">>}
            \cup EntityDocuments.offers)

LeasesPage ==
    Page(Of("leases", {"list", "expiring"}) \cup PropertyFilter,
         {<<"leases", "expiring">>} \cup PropertyFilter, {<<"leases", "create">>})

LeaseRentCard == Page({<<"rent", "list">>}, {}, {<<"payments", "create">>})

LeaseDetailPage ==
    Page({<<"leases", "detail">>} \cup LeaseRentCard.shows, {},
         Of("leases", {"renew", "terminate"}) \cup LeaseRentCard.offers)

RentPage ==
    Page(Of("rent", {"list", "summary"}) \cup PropertyFilter,
         {<<"rent", "summary">>} \cup PropertyFilter,
         {<<"rent", "generate">>, <<"payments", "create">>})

PaymentsPage ==
    Page({<<"payments", "list">>} \cup PropertyFilter, PropertyFilter, {<<"payments", "void">>})

ReceiptsPage == Page({<<"receipts", "list">>} \cup PropertyFilter, PropertyFilter, {})

ReceiptDetailPage == Page({<<"receipts", "detail">>}, {}, {})

ExpensesPage ==
    Page(Of("expenses", {"list", "summary"}) \cup PropertyFilter,
         {<<"expenses", "summary">>} \cup PropertyFilter,
         Of("expenses", {"create", "update", "remove"}))

MaintenancePage ==
    Page(Of("maintenance", {"list", "summary"}) \cup PropertyFilter,
         {<<"maintenance", "summary">>} \cup PropertyFilter, {<<"maintenance", "create">>})

MaintenanceDetailPage ==
    Page({<<"maintenance", "detail">>}, {},
         Of("maintenance", {"update", "assign", "changeStatus", "addUpdate"}))

StaffPage == Page({<<"staff", "list">>}, {}, StaffMutations)

DocumentsPage == Page({<<"documents", "list">>}, {}, DocumentMutations)

NotificationsPage == Page({<<"notifications", "list">>}, {}, NotificationMutations)

ReportsPage == Page({<<"reports", "catalogue">>}, {}, {})

ReportRunnerPage ==
    Page(Of("reports", {"catalogue"} \cup ReportKeys) \cup PropertyFilter,
         {<<"reports", "catalogue">>} \cup PropertyFilter, {})

AuditLogPanel == Of("audit-logs", {"list", "actions"})

SettingsPage ==
    Page({<<"organization">>, <<"settings">>} \cup AuditLogPanel,
         {<<"settings">>, <<"audit-logs", "actions">>},
         {<<"organization", "update">>, <<"settings", "update">>})

ProfilePage ==
    Page({<<"auth", "sessions">>}, {<<"auth", "sessions">>},
         Of("auth", {"updateProfile", "changePassword", "revokeSession"}))

\* The layout around every page: the session, and the bell.
AppLayout == {<<"auth", "me">>, <<"notifications", "unread-count">>}

Pages ==
    {DashboardPage, PropertiesPage, PropertyDetailPage, BuildingsPage, BuildingDetailPage,
     UnitsPage, UnitDetailPage, TenantsPage, TenantProfilePage, LeasesPage, LeaseDetailPage,
     RentPage, PaymentsPage, ReceiptsPage, ReceiptDetailPage, ExpensesPage, MaintenancePage,
     MaintenanceDetailPage, StaffPage, DocumentsPage, NotificationsPage, ReportsPage,
     ReportRunnerPage, SettingsPage, ProfilePage}
=============================================================================
