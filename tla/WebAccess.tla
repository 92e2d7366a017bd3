------------------------------ MODULE WebAccess ------------------------------
(***************************************************************************)
(* What a role sees of the web client: which pages the sidebar and the     *)
(* links lead it to, which buttons they show it, and the request behind    *)
(* every query and mutation.                                               *)
(***************************************************************************)
EXTENDS ApiRoutes, WebScreens, Naturals, Sequences

-----------------------------------------------------------------------------
(* The request of each query and mutation                                  *)

\* What most resources have; any other query is read under its own name.
Usual(hook) ==
    CASE hook[2] = "list"              -> HttpRequest("GET", <<hook[1]>>)
      [] hook[2] = "detail"            -> HttpRequest("GET", <<hook[1], "*">>)
      [] hook[2] = "create"            -> HttpRequest("POST", <<hook[1]>>)
      [] hook[2] = "update"            -> HttpRequest("PATCH", <<hook[1], "*">>)
      [] hook[2] = "remove"            -> HttpRequest("DELETE", <<hook[1], "*">>)
      [] OTHER                         -> HttpRequest("GET", hook)

PortfolioApi(hook) ==
    CASE hook = <<"properties", "summary">> -> HttpRequest("GET", <<"properties", "*", "summary">>)
      [] hook = <<"properties", "archive">> -> HttpRequest("POST", <<"properties", "*", "archive">>)
      [] hook = <<"units", "setStatus">>    -> HttpRequest("PATCH", <<"units", "*", "status">>)
      [] OTHER                              -> Usual(hook)

OccupancyApi(hook) ==
    CASE hook = <<"tenants", "profile">>  -> HttpRequest("GET", <<"tenants", "*", "profile">>)
      [] hook = <<"leases", "renew">>     -> HttpRequest("POST", <<"leases", "*", "renew">>)
      [] hook = <<"leases", "terminate">> -> HttpRequest("POST", <<"leases", "*", "terminate">>)
      [] OTHER                            -> Usual(hook)

FinanceApi(hook) ==
    CASE hook = <<"rent", "generate">> -> HttpRequest("POST", hook)
      [] hook = <<"payments", "void">> -> HttpRequest("POST", <<"payments", "*", "void">>)
      [] OTHER                         -> Usual(hook)

OperationsApi(hook) ==
    CASE hook = <<"maintenance", "assign">>        -> HttpRequest("POST", <<"maintenance", "*", "assign">>)
      [] hook = <<"maintenance", "changeStatus">>  -> HttpRequest("POST", <<"maintenance", "*", "status">>)
      [] hook = <<"maintenance", "addUpdate">>     -> HttpRequest("POST", <<"maintenance", "*", "updates">>)
      [] hook = <<"staff", "properties">>          -> HttpRequest("GET", <<"staff", "*", "properties">>)
      [] hook = <<"staff", "assignProperties">>    -> HttpRequest("PUT", <<"staff", "*", "properties">>)
      [] hook = <<"staff", "setActive">>           -> HttpRequest("POST", <<"staff", "*", "activate">>)
      [] hook = <<"documents", "upload">>          -> HttpRequest("POST", <<"documents">>)
      [] hook = <<"notifications", "markRead">>    -> HttpRequest("POST", <<"notifications", "*", "read">>)
      [] hook = <<"notifications", "markAllRead">> -> HttpRequest("POST", <<"notifications", "read-all">>)
      [] OTHER                                     -> Usual(hook)

InsightsApi(hook) ==
    IF hook = <<"reports", "catalogue">> THEN HttpRequest("GET", <<"reports">>) ELSE Usual(hook)

AuthApi(hook) ==
    CASE hook = <<"auth", "updateProfile">>  -> HttpRequest("PATCH", <<"auth", "profile">>)
      [] hook = <<"auth", "changePassword">> -> HttpRequest("POST", <<"auth", "change-password">>)
      [] hook = <<"auth", "revokeSession">>  -> HttpRequest("DELETE", <<"auth", "sessions", "*">>)
      [] OTHER                               -> Usual(hook)

SettingsApi(hook) == HttpRequest(IF Len(hook) = 2 THEN "PATCH" ELSE "GET", <<hook[1]>>)

RequestOf(hook) ==
    CASE hook[1] \in {"properties", "buildings", "units"}          -> PortfolioApi(hook)
      [] hook[1] \in {"tenants", "leases"}                         -> OccupancyApi(hook)
      [] hook[1] \in {"rent", "payments", "receipts", "expenses"}  -> FinanceApi(hook)
      [] hook[1] \in {"maintenance", "staff", "documents", "notifications", "audit-logs"}
                                                                   -> OperationsApi(hook)
      [] hook[1] \in {"dashboard", "reports"}                      -> InsightsApi(hook)
      [] hook[1] = "auth"                                          -> AuthApi(hook)
      [] hook[1] \in {"organization", "settings"}                  -> SettingsApi(hook)

-----------------------------------------------------------------------------
(* Buttons: the permission a page asks for before it shows one             *)

Button(resource, action, kinds) == {<<resource, action>>} \X kinds

\* A button to create a record.
CreateButton(resource) == Button(resource, "create", {<<resource, "create">>})

AddPropertyButton == CreateButton("properties")
AddBuildingButton == CreateButton("buildings")
AddUnitButton == CreateButton("units")
AddTenantButton == CreateButton("tenants")
CreateLeaseButton == CreateButton("leases")
RecordExpenseButton == CreateButton("expenses")
RaiseRequestButton == CreateButton("maintenance")
InviteStaffButton == CreateButton("staff")

EntityDocumentButtons ==
    Button("documents", "upload", {<<"documents", "upload">>})
    \cup Button("documents", "delete", {<<"documents", "remove">>})

PropertyButtons ==
    Button("properties", "update", Of("properties", {"update", "archive"}))
    \cup Button("properties", "delete", {<<"properties", "remove">>})

PropertyTabButtons == CreateButton("buildings") \cup CreateButton("units")

BuildingButtons ==
    Button("buildings", "update", {<<"buildings", "update">>})
    \cup Button("buildings", "delete", {<<"buildings", "remove">>})

BuildingUnitsButton == CreateButton("units")

UnitButtons ==
    Button("units", "update", {<<"units", "update">>})
    \cup Button("units", "delete", {<<"units", "remove">>})

UnitStatusSelect == Button("units", "update", {<<"units", "setStatus">>})

TenantButtons ==
    CreateButton("leases")
    \cup Button("tenants", "update", {<<"tenants", "update">>})
    \cup Button("tenants", "delete", {<<"tenants", "remove">>})

LeaseButtons ==
    Button("leases", "update", {<<"leases", "renew">>})
    \cup Button("leases", "terminate", {<<"leases", "terminate">>})

LeaseRentButton == CreateButton("payments")

GenerateButton == Button("rent", "generate", {<<"rent", "generate">>})

RecordPaymentButton == CreateButton("payments")

VoidButton == Button("payments", "void", {<<"payments", "void">>})

\* Mutant: whoever may edit an expense is shown the bin as well.
EditorsDelete == Button("expenses", "update", Of("expenses", {"update", "remove"}))

ExpenseRowButtons ==
    Button("expenses", "update", {<<"expenses", "update">>})
    \cup Button("expenses", "delete", {<<"expenses", "remove">>})

MaintenanceButtons ==
    Button("maintenance", "update", Of("maintenance", {"assign", "update", "addUpdate"}))

StatusButtons == Button("maintenance", "update", {<<"maintenance", "changeStatus">>})

StaffRowButtons ==
    Button("staff", "update", Of("staff", {"assignProperties", "update", "setActive"}))
    \cup Button("staff", "delete", {<<"staff", "remove">>})

UploadButton == Button("documents", "upload", {<<"documents", "upload">>})

DocumentRowButtons == Button("documents", "delete", {<<"documents", "remove">>})

OrganizationForm == Button("organization", "update", {<<"organization", "update">>})

SettingsForm == Button("settings", "update", {<<"settings", "update">>})

-----------------------------------------------------------------------------
(* Pages by path                                                           *)

Site(screen, buttons) == [screen |-> screen, buttons |-> buttons]

\* A page without buttons offers what it offers to everybody.
SiteMap ==
    [ dashboard     |-> Site(DashboardPage, {}),
      properties    |-> Site(PropertiesPage, AddPropertyButton),
      property      |-> Site(PropertyDetailPage,
                             PropertyButtons \cup PropertyTabButtons \cup EntityDocumentButtons),
      buildings     |-> Site(BuildingsPage, AddBuildingButton),
      building      |-> Site(BuildingDetailPage, BuildingButtons \cup BuildingUnitsButton),
      units         |-> Site(UnitsPage, AddUnitButton),
      unit          |-> Site(UnitDetailPage, UnitButtons \cup UnitStatusSelect),
      tenants       |-> Site(TenantsPage, AddTenantButton),
      tenant        |-> Site(TenantProfilePage, TenantButtons \cup EntityDocumentButtons),
      leases        |-> Site(LeasesPage, CreateLeaseButton),
      lease         |-> Site(LeaseDetailPage, LeaseButtons \cup LeaseRentButton),
      rent          |-> Site(RentPage, GenerateButton \cup RecordPaymentButton),
      payments      |-> Site(PaymentsPage, VoidButton),
      receipts      |-> Site(ReceiptsPage, {}),
      receipt       |-> Site(ReceiptDetailPage, {}),
      expenses      |-> Site(ExpensesPage, RecordExpenseButton \cup ExpenseRowButtons),
      maintenance   |-> Site(MaintenancePage, RaiseRequestButton),
      request       |-> Site(MaintenanceDetailPage, MaintenanceButtons \cup StatusButtons),
      staff         |-> Site(StaffPage, InviteStaffButton \cup StaffRowButtons),
      documents     |-> Site(DocumentsPage, UploadButton \cup DocumentRowButtons),
      notifications |-> Site(NotificationsPage, {}),
      reports       |-> Site(ReportsPage, {}),
      report        |-> Site(ReportRunnerPage, {}),
      settings      |-> Site(SettingsPage, OrganizationForm \cup SettingsForm),
      profile       |-> Site(ProfilePage, {}) ]

Sites == DOMAIN SiteMap

\* The kinds the page's buttons show this role; a kind no button holds back is
\* for everybody.
Offered(site, role) ==
    LET hidden == {b \in SiteMap[site].buttons : ~Holds(role, b[1])}
    IN  SiteMap[site].screen.offers \ {b[2] : b \in hidden}

\* The trail's panel is mounted for those who may read it; a dialog is mounted
\* beside its button, whoever is shown the button.
Shown(site, role) ==
    LET screen == SiteMap[site].screen
        kept == IF Holds(role, <<"auditlogs", "view">>) THEN {} ELSE AuditLogPanel
    IN  (screen.shows \ kept) \cup {h[2] : h \in {h \in Held : h[1] \in screen.offers}}
        \cup AppLayout

\* What it shows without a word when it cannot be had: what the page is silent
\* about, what its shut dialogs hold, and the layout's own.
Silent(site) ==
    LET screen == SiteMap[site].screen
    IN  screen.silent \cup {h[2] : h \in {h \in Held : h[1] \in screen.offers}} \cup AppLayout

-----------------------------------------------------------------------------
(* Navigation                                                              *)

Everybody == <<"everybody">>

\* Sidebar: <<page, permission it is listed under>>.
NAV_GROUPS ==
    {<<"dashboard", Everybody>>}
    \cup {<<site, <<site, "view">>>> :
            site \in {"properties", "buildings", "units", "tenants", "leases", "rent",
                      "payments", "receipts", "expenses", "maintenance", "staff",
                      "documents", "reports", "settings"}}

SidebarNav(role) ==
    {item[1] : item \in {item \in NAV_GROUPS : item[2] = Everybody \/ Holds(role, item[2])}}

\* The user menu and the bell, on every page.
Topbar == {"profile", "notifications"}

\* A list opens its rows, and the crumb before a record's leads back.
RowLink(list, record) == {<<list, record>>, <<record, list>>}

PropertyRow == RowLink("properties", "property")
BuildingRow == RowLink("buildings", "building")
UnitRow == RowLink("units", "unit")
TenantRow == RowLink("tenants", "tenant")
LeaseRow == RowLink("leases", "lease")
ReceiptRow == RowLink("receipts", "receipt")
RequestRow == RowLink("maintenance", "request")
ReportCard == RowLink("reports", "report")

RowLinks ==
    UNION {PropertyRow, BuildingRow, UnitRow, TenantRow, LeaseRow, ReceiptRow, RequestRow,
           ReportCard}

PropertyTabs == {"property"} \X {"building", "unit"}
BuildingLinks == {"building"} \X {"property", "unit"}
UnitLinks == {"unit"} \X {"property", "building"}
TenantLinks == {<<"tenant", "lease">>}
LeaseLinks == {"lease"} \X {"tenant", "property", "unit"}
RequestLinks == {<<"request", "property">>}
DashboardLink == {<<"dashboard", "maintenance">>}

RecordLinks ==
    UNION {PropertyTabs, BuildingLinks, UnitLinks, TenantLinks, LeaseLinks, RequestLinks,
           DashboardLink}

\* An empty list of money points to the rent roll.
EmptyStateLinks == {<<"payments", "rent">>, <<"receipts", "rent">>}

ReceiptLinks(role) ==
    IF Holds(role, <<"receipts", "view">>)
    THEN {<<"tenant", "receipt">>, <<"payments", "receipt">>} ELSE {}

\* The dashboard shows its lists of work to those who may see reports.
WorklistLinks(role) ==
    IF Holds(role, <<"reports", "view">>)
    THEN {"dashboard"} \X {"rent", "leases", "lease", "maintenance", "request",
                           "payments", "receipt"}
    ELSE {}

\* A notification leads to what it is about.  One of a charge, a payment or a
\* lease was sent to those who may view such; one of a job also to the person
\* who raised it or has it.
NotificationLinks(role) ==
    {<<"notifications", "request">>}
    \cup {<<"notifications", site>> :
            site \in {site \in {"payments", "rent"} : Holds(role, <<site, "view">>)}}
    \cup (IF Holds(role, <<"leases", "view">>) THEN {<<"notifications", "lease">>} ELSE {})

PageLinks(role) ==
    UNION {RowLinks, RecordLinks, EmptyStateLinks, ReceiptLinks(role),
           WorklistLinks(role), NotificationLinks(role)}

\* The pages at most n links away from the sidebar and the top bar.
Within(role) ==
    LET links == PageLinks(role)
        f[n \in 0 .. 4] ==
            IF n = 0 THEN SidebarNav(role) \cup Topbar
            ELSE LET near == f[n - 1]
                 IN  near \cup {link[2] : link \in {link \in links : link[1] \in near}}
    IN  f[4]

\* <<role, page>> where the role comes to the page.
Reach == UNION {{role} \X Within(role) : role \in Roles}

ASSUME ReachAssumption ==
    \A role \in Roles : \A link \in PageLinks(role) :
        <<role, link[1]>> \in Reach => <<role, link[2]>> \in Reach

\* Everything each role comes to see, page by page.
Seen ==
    {[role |-> r[1], shows |-> Shown(r[2], r[1]), silent |-> Silent(r[2]),
      offers |-> Offered(r[2], r[1])] : r \in Reach}
=============================================================================
