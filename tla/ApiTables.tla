------------------------------ MODULE ApiTables ------------------------------
(***************************************************************************)
(* What the API's endpoints touch: the tables each query's handler reads   *)
(* for its rows and figures, and the tables each mutation's handler        *)
(* writes, as relations.  A query or a mutation is named by a tuple, as    *)
(* the web client names its query keys.                                    *)
(*                                                                         *)
(* A name joined in beside a row (a tenant's on a payment) is not a read   *)
(* of the table it comes from.  "Self" is the caller's own row of User.    *)
(***************************************************************************)

On(root, names, tables) == ({root} \X names) \X tables

-----------------------------------------------------------------------------
(* Reads                                                                   *)

PropertiesRead ==
    On("properties", {"list", "detail", "summary"}, {"Property", "Building", "Unit"})

BuildingsRead == On("buildings", {"list", "detail"}, {"Building", "Unit"})

UnitsRead == On("units", {"list", "vacant", "detail"}, {"Unit"})

\* Each tenant with the live lease.
TenantsRead == On("tenants", {"list"}, {"Tenant", "Lease"})

TenantProfileRead ==
    On("tenants", {"profile"}, {"Tenant", "Lease", "RentRecord", "Payment", "Receipt"})

LeasesRead == On("leases", {"list", "expiring", "detail"}, {"Lease"})

RentListRead == On("rent", {"list"}, {"RentRecord"})

\* One charge shows its completed payments and their receipts.
RentDetailRead == On("rent", {"detail"}, {"RentRecord", "Payment", "Receipt"})

OutstandingRead == On("rent", {"outstanding"}, {"RentRecord"})

RentSummaryRead == On("rent", {"summary"}, {"RentRecord", "Payment"})

PaymentsRead == On("payments", {"list"}, {"Payment", "Receipt"})

ReceiptsRead == On("receipts", {"list"}, {"Receipt"})

\* The letterhead is the organization as it is today.
ReceiptDetailRead == On("receipts", {"detail"}, {"Receipt", "Organization"})

ExpensesRead == On("expenses", {"list", "summary"}, {"Expense"})

MaintenanceListRead == On("maintenance", {"list", "summary"}, {"MaintenanceRequest"})

MaintenanceDetailRead ==
    On("maintenance", {"detail"}, {"MaintenanceRequest", "MaintenanceUpdate"})

StaffRead == On("staff", {"list", "properties"}, {"User", "Self", "StaffAssignment"})

DocumentsRead == On("documents", {"list"}, {"Document"})

NotificationsRead == On("notifications", {"list", "unread-count"}, {"Notification"})

AuditRead == On("audit-logs", {"list", "actions"}, {"AuditLog"})

OrganizationRead == {<<"organization">>} \X {"Organization"}

SettingsRead == {<<"settings">>} \X {"Settings"}

MeRead == On("auth", {"me"}, {"Self", "Organization"})

SessionsRead == On("auth", {"sessions"}, {"Session"})

DashboardSummaryRead ==
    On("dashboard", {"summary"},
       {"Property", "Building", "Unit", "Lease", "RentRecord", "Payment", "Expense"})

DashboardChartsRead ==
    On("dashboard", {"charts"},
       {"Property", "Unit", "Lease", "RentRecord", "Payment", "Expense"})

WorklistsRead ==
    On("dashboard", {"worklists"}, {"RentRecord", "Lease", "MaintenanceRequest", "Payment"})

RentCollectionReads == On("reports", {"rent-collection"}, {"Payment", "Receipt"})

OutstandingRentReads == On("reports", {"outstanding-rent"}, {"RentRecord"})

ExpenseReportReads == On("reports", {"expenses"}, {"Expense"})

\* Both sides of it are columns of the charges.
IncomeReads == On("reports", {"income"}, {"RentRecord"})

ProfitLossReads == On("reports", {"profit-loss"}, {"Property", "Payment", "Expense"})

TenantReportReads == On("reports", {"tenants"}, {"Tenant", "Lease", "RentRecord"})

OccupancyReportReads == On("reports", {"occupancy"}, {"Property", "Unit"})

MaintenanceReportReads == On("reports", {"maintenance"}, {"MaintenanceRequest"})

LeaseExpiryReads == On("reports", {"lease-expiry"}, {"Lease"})

ReportsRead ==
    UNION {RentCollectionReads, OutstandingRentReads, ExpenseReportReads, IncomeReads,
           ProfitLossReads, TenantReportReads, OccupancyReportReads,
           MaintenanceReportReads, LeaseExpiryReads}

ReadsFrom ==
    UNION {PropertiesRead, BuildingsRead, UnitsRead, TenantsRead, TenantProfileRead,
           LeasesRead, RentListRead, RentDetailRead, OutstandingRead, RentSummaryRead,
           PaymentsRead, ReceiptsRead, ReceiptDetailRead, ExpensesRead,
           MaintenanceListRead, MaintenanceDetailRead, StaffRead, DocumentsRead,
           NotificationsRead, AuditRead, OrganizationRead, SettingsRead, MeRead,
           SessionsRead, DashboardSummaryRead, DashboardChartsRead, WorklistsRead,
           ReportsRead}

-----------------------------------------------------------------------------
(* Writes                                                                  *)

\* Removing a property takes the assignments to it along.
PropertiesWrite ==
    On("properties", {"create", "update", "archive"}, {"Property"})
    \cup On("properties", {"remove"}, {"Property", "StaffAssignment"})

\* Removing a block detaches its units.
BuildingsWrite ==
    On("buildings", {"create", "update"}, {"Building"})
    \cup On("buildings", {"remove"}, {"Building", "Unit"})

UnitsWrite == On("units", {"create", "update", "setStatus", "remove"}, {"Unit"})

TenantsWrite == On("tenants", {"create", "update", "remove"}, {"Tenant"})

LeasesWrite ==
    On("leases", {"create", "terminate"}, {"Lease", "Unit"})
    \cup On("leases", {"update", "renew"}, {"Lease"})

RentWrite == On("rent", {"generate"}, {"RentRecord"})

\* The notice of a payment goes to everybody but the one who took it.
PaymentsWrite == On("payments", {"create", "void"}, {"Payment", "RentRecord", "Receipt"})

ExpensesWrite == On("expenses", {"create", "update", "remove"}, {"Expense"})

MaintenanceWrite ==
    On("maintenance", {"create", "assign", "changeStatus"},
       {"MaintenanceRequest", "MaintenanceUpdate", "Notification"})
    \cup On("maintenance", {"update"}, {"MaintenanceRequest"})
    \cup On("maintenance", {"addUpdate"}, {"MaintenanceUpdate"})

\* Anybody's name can be changed here, the caller's own too; removing a person
\* unassigns their jobs.
StaffWrite ==
    On("staff", {"create", "update", "remove"}, {"User", "StaffAssignment"})
    \cup On("staff", {"update"}, {"Self"})
    \cup On("staff", {"setActive"}, {"User"})
    \cup On("staff", {"assignProperties"}, {"StaffAssignment"})
    \cup On("staff", {"remove"}, {"MaintenanceRequest"})

DocumentsWrite == On("documents", {"upload", "remove"}, {"Document"})

NotificationsWrite == On("notifications", {"markRead", "markAllRead"}, {"Notification"})

OrganizationWrite == On("organization", {"update"}, {"Organization"})

SettingsWrite == On("settings", {"update"}, {"Settings"})

ProfileWrite == On("auth", {"updateProfile"}, {"Self"})

\* A change of password ends the other sessions.
SessionsWrite == On("auth", {"changePassword", "revokeSession"}, {"Session"})

Writes ==
    UNION {PropertiesWrite, BuildingsWrite, UnitsWrite, TenantsWrite, LeasesWrite,
           RentWrite, PaymentsWrite, ExpensesWrite, MaintenanceWrite, StaffWrite,
           DocumentsWrite, NotificationsWrite, OrganizationWrite, SettingsWrite,
           ProfileWrite, SessionsWrite}

\* The handlers that leave no row in the audit trail.
Unaudited == {<<"notifications", "markRead">>, <<"notifications", "markAllRead">>,
              <<"maintenance", "addUpdate">>}

WritesTo ==
    Writes \cup ({w[1] : w \in Writes} \ Unaudited) \X {"AuditLog"}

\* The mutation changes rows that the query shows.
Touches(kind, query) == \E w \in WritesTo : w[1] = kind /\ <<query, w[2]>> \in ReadsFrom
=============================================================================
