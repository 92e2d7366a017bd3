------------------------------ MODULE ApiRoutes ------------------------------
(***************************************************************************)
(* Who may call what: the permissions of each role, the routes every       *)
(* controller declares with their access policies, and the guard that      *)
(* admits a request.                                                       *)
(*                                                                         *)
(* A path is a sequence of segments; a request writes "*" where a record's *)
(* id stands.                                                              *)
(***************************************************************************)
LOCAL INSTANCE Integers
LOCAL INSTANCE Sequences

-----------------------------------------------------------------------------
(* Roles and permissions                                                   *)

Actions(resource, names) == {resource} \X names

\* A permission is <<resource, action>>.
PERMISSIONS ==
    Actions("properties", {"view", "create", "update", "delete"})
    \cup Actions("buildings", {"view", "create", "update", "delete"})
    \cup Actions("units", {"view", "create", "update", "delete"})
    \cup Actions("tenants", {"view", "create", "update", "delete"})
    \cup Actions("leases", {"view", "create", "update", "terminate"})
    \cup Actions("rent", {"view", "generate"})
    \cup Actions("payments", {"view", "create", "void"})
    \cup Actions("receipts", {"view"})
    \cup Actions("expenses", {"view", "create", "update", "delete"})
    \cup Actions("maintenance", {"view", "create", "update"})
    \cup Actions("staff", {"view", "create", "update", "delete"})
    \cup Actions("documents", {"view", "upload", "delete"})
    \cup Actions("reports", {"view", "export"})
    \cup Actions("notifications", {"view"})
    \cup Actions("settings", {"view", "update"})
    \cup {<<"auditlogs", "view">>, <<"organization", "update">>}

\* The roles that sign in.
Roles == {"PROPERTY_OWNER", "PROPERTY_MANAGER", "ACCOUNTANT", "CARETAKER"}

MANAGER ==
    Actions("properties", {"view", "create", "update"})
    \cup Actions("buildings", {"view", "create", "update"})
    \cup Actions("units", {"view", "create", "update"})
    \cup Actions("tenants", {"view", "create", "update"})
    \cup Actions("leases", {"view", "create", "update", "terminate"})
    \cup Actions("rent", {"view", "generate"})
    \cup Actions("payments", {"view", "create"})
    \cup Actions("expenses", {"view", "create", "update"})
    \cup Actions("maintenance", {"view", "create", "update"})
    \cup Actions("documents", {"view", "upload", "delete"})
    \cup Actions("reports", {"view", "export"})
    \cup {"receipts", "staff", "notifications", "settings"} \X {"view"}

ACCOUNTANT ==
    {"properties", "buildings", "units", "tenants", "leases", "rent", "payments",
     "receipts", "expenses", "maintenance", "documents", "reports", "notifications"}
        \X {"view"}
    \cup Actions("expenses", {"create", "update"})
    \cup {<<"rent", "generate">>, <<"payments", "create">>, <<"documents", "upload">>,
          <<"reports", "export">>}

CARETAKER ==
    {"properties", "buildings", "units", "tenants", "leases", "expenses",
     "maintenance", "documents", "notifications"} \X {"view"}
    \cup Actions("maintenance", {"create", "update"})
    \cup {<<"units", "update">>, <<"expenses", "create">>, <<"documents", "upload">>}

ROLE_PERMISSIONS ==
    [role \in Roles |->
        CASE role = "PROPERTY_OWNER"   -> PERMISSIONS
          [] role = "PROPERTY_MANAGER" -> MANAGER
          [] role = "ACCOUNTANT"       -> ACCOUNTANT
          [] role = "CARETAKER"        -> CARETAKER]

Holds(role, permission) == permission \in ROLE_PERMISSIONS[role]

-----------------------------------------------------------------------------
(* Access policies                                                         *)

\* A public route asks for no session either; here everybody has one.
Public == [open |-> TRUE, needs |-> {}]
AuthenticatedOnly == [open |-> TRUE, needs |-> {}]
RequirePermissions(permissions) == [open |-> FALSE, needs |-> permissions]

\* May somebody signed in with the role go on?  A policy that asks for nothing
\* is one nobody declared.
PermissionsGuard(role, policy) ==
    \/ policy.open
    \/ policy.needs # {} /\ policy.needs \subseteq ROLE_PERMISSIONS[role]

-----------------------------------------------------------------------------
(* Controllers: their routes, in the order they are declared               *)

Route(verb, path, policy) == [verb |-> verb, path |-> path, policy |-> policy]

Needs(verb, path, resource, action) ==
    Route(verb, path, RequirePermissions({<<resource, action>>}))

AuditLogsController ==
    << Needs("GET", <<"audit-logs">>, "auditlogs", "view"),
       Needs("GET", <<"audit-logs", "actions">>, "auditlogs", "view") >>

AuthEntryRoutes ==
    << Route("POST", <<"auth", "register">>, Public),
       Route("POST", <<"auth", "login">>, Public),
       Route("POST", <<"auth", "logout">>, AuthenticatedOnly),
       Route("POST", <<"auth", "logout-all">>, AuthenticatedOnly),
       Route("GET", <<"auth", "me">>, AuthenticatedOnly),
       Route("PATCH", <<"auth", "profile">>, AuthenticatedOnly) >>

AuthRecoveryRoutes ==
    << Route("POST", <<"auth", "forgot-password">>, Public),
       Route("POST", <<"auth", "reset-password">>, Public),
       Route("POST", <<"auth", "change-password">>, AuthenticatedOnly),
       Route("POST", <<"auth", "verify-email">>, Public),
       Route("POST", <<"auth", "resend-verification">>, AuthenticatedOnly),
       Route("GET", <<"auth", "sessions">>, AuthenticatedOnly),
       Route("DELETE", <<"auth", "sessions", ":id">>, AuthenticatedOnly) >>

BuildingsController ==
    << Needs("GET", <<"buildings">>, "buildings", "view"),
       Needs("GET", <<"buildings", ":id">>, "buildings", "view"),
       Needs("POST", <<"buildings">>, "buildings", "create"),
       Needs("PATCH", <<"buildings", ":id">>, "buildings", "update"),
       Needs("DELETE", <<"buildings", ":id">>, "buildings", "delete") >>

DashboardController ==
    << Needs("GET", <<"dashboard", "summary">>, "reports", "view"),
       Needs("GET", <<"dashboard", "charts">>, "reports", "view"),
       Needs("GET", <<"dashboard", "worklists">>, "reports", "view") >>

DocumentsController ==
    << Needs("GET", <<"documents">>, "documents", "view"),
       Needs("GET", <<"documents", ":id">>, "documents", "view"),
       Needs("GET", <<"documents", ":id", "download">>, "documents", "view"),
       Needs("POST", <<"documents">>, "documents", "upload"),
       Needs("DELETE", <<"documents", ":id">>, "documents", "delete") >>

ExpensesController ==
    << Needs("GET", <<"expenses">>, "expenses", "view"),
       Needs("GET", <<"expenses", "summary">>, "expenses", "view"),
       Needs("GET", <<"expenses", ":id">>, "expenses", "view"),
       Needs("POST", <<"expenses">>, "expenses", "create"),
       Needs("PATCH", <<"expenses", ":id">>, "expenses", "update"),
       Needs("DELETE", <<"expenses", ":id">>, "expenses", "delete") >>

HealthController ==
    << Route("GET", <<"health", "live">>, Public),
       Route("GET", <<"health", "ready">>, Public) >>

LeasesController ==
    << Needs("GET", <<"leases">>, "leases", "view"),
       Needs("GET", <<"leases", "expiring">>, "leases", "view"),
       Needs("GET", <<"leases", ":id">>, "leases", "view"),
       Needs("POST", <<"leases">>, "leases", "create"),
       Needs("PATCH", <<"leases", ":id">>, "leases", "update"),
       Needs("POST", <<"leases", ":id", "renew">>, "leases", "update"),
       Needs("POST", <<"leases", ":id", "terminate">>, "leases", "terminate") >>

MaintenanceController ==
    << Needs("GET", <<"maintenance">>, "maintenance", "view"),
       Needs("GET", <<"maintenance", "summary">>, "maintenance", "view"),
       Needs("GET", <<"maintenance", ":id">>, "maintenance", "view"),
       Needs("GET", <<"maintenance", ":id", "updates">>, "maintenance", "view"),
       Needs("POST", <<"maintenance">>, "maintenance", "create"),
       Needs("PATCH", <<"maintenance", ":id">>, "maintenance", "update"),
       Needs("POST", <<"maintenance", ":id", "assign">>, "maintenance", "update"),
       Needs("POST", <<"maintenance", ":id", "status">>, "maintenance", "update"),
       Needs("POST", <<"maintenance", ":id", "updates">>, "maintenance", "update") >>

NotificationsController ==
    << Route("GET", <<"notifications">>, AuthenticatedOnly),
       Route("GET", <<"notifications", "unread-count">>, AuthenticatedOnly),
       Route("POST", <<"notifications", ":id", "read">>, AuthenticatedOnly),
       Route("POST", <<"notifications", "read-all">>, AuthenticatedOnly) >>

OrganizationsController ==
    << Needs("GET", <<"organization">>, "settings", "view"),
       Needs("PATCH", <<"organization">>, "organization", "update"),
       Needs("GET", <<"settings">>, "settings", "view"),
       Needs("PATCH", <<"settings">>, "settings", "update") >>

PaymentsController ==
    << Needs("GET", <<"payments">>, "payments", "view"),
       Needs("GET", <<"payments", ":id">>, "payments", "view"),
       Needs("POST", <<"payments">>, "payments", "create"),
       Needs("POST", <<"payments", ":id", "void">>, "payments", "void") >>

PermissionsController == << Needs("GET", <<"permissions">>, "staff", "view") >>

PropertiesController ==
    << Needs("GET", <<"properties">>, "properties", "view"),
       Needs("GET", <<"properties", ":id">>, "properties", "view"),
       Needs("GET", <<"properties", ":id", "summary">>, "properties", "view"),
       Needs("POST", <<"properties">>, "properties", "create"),
       Needs("PATCH", <<"properties", ":id">>, "properties", "update"),
       Needs("POST", <<"properties", ":id", "archive">>, "properties", "update"),
       Needs("DELETE", <<"properties", ":id">>, "properties", "delete") >>

ReceiptsController ==
    << Needs("GET", <<"receipts">>, "receipts", "view"),
       Needs("GET", <<"receipts", ":id">>, "receipts", "view") >>

RentController ==
    << Needs("GET", <<"rent">>, "rent", "view"),
       Needs("GET", <<"rent", "outstanding">>, "rent", "view"),
       Needs("GET", <<"rent", "summary">>, "rent", "view"),
       Needs("POST", <<"rent", "generate">>, "rent", "generate"),
       Needs("GET", <<"rent", ":id">>, "rent", "view") >>

ReportsController ==
    << Needs("GET", <<"reports">>, "reports", "view"),
       Needs("GET", <<"reports", ":report">>, "reports", "view"),
       Needs("GET", <<"reports", ":report", "export">>, "reports", "export") >>

RolesController == << Needs("GET", <<"roles">>, "staff", "view") >>

StaffController ==
    << Needs("GET", <<"staff">>, "staff", "view"),
       Needs("GET", <<"staff", ":id">>, "staff", "view"),
       Needs("GET", <<"staff", ":id", "properties">>, "staff", "view"),
       Needs("POST", <<"staff">>, "staff", "create"),
       Needs("PATCH", <<"staff", ":id">>, "staff", "update"),
       Needs("PUT", <<"staff", ":id", "properties">>, "staff", "update"),
       Needs("POST", <<"staff", ":id", "activate">>, "staff", "update"),
       Needs("POST", <<"staff", ":id", "deactivate">>, "staff", "update"),
       Needs("DELETE", <<"staff", ":id">>, "staff", "delete") >>

TenantsController ==
    << Needs("GET", <<"tenants">>, "tenants", "view"),
       Needs("GET", <<"tenants", ":id">>, "tenants", "view"),
       Needs("GET", <<"tenants", ":id", "profile">>, "tenants", "view"),
       Needs("POST", <<"tenants">>, "tenants", "create"),
       Needs("PATCH", <<"tenants", ":id">>, "tenants", "update"),
       Needs("DELETE", <<"tenants", ":id">>, "tenants", "delete") >>

UnitsController ==
    << Needs("GET", <<"units">>, "units", "view"),
       Needs("GET", <<"units", "vacant">>, "units", "view"),
       Needs("GET", <<"units", ":id">>, "units", "view"),
       Needs("POST", <<"units">>, "units", "create"),
       Needs("PATCH", <<"units", ":id">>, "units", "update"),
       Needs("PATCH", <<"units", ":id", "status">>, "units", "update"),
       Needs("DELETE", <<"units", ":id">>, "units", "delete") >>

UsersController ==
    << Needs("GET", <<"users">>, "staff", "view"),
       Needs("GET", <<"users", ":id">>, "staff", "view") >>

\* No two of them answer the same path.
Controllers ==
    { AuditLogsController, NotificationsController, PermissionsController,
      AuthEntryRoutes, AuthRecoveryRoutes, OrganizationsController, UsersController,
      RolesController, PropertiesController, BuildingsController, UnitsController,
      TenantsController, LeasesController, RentController, PaymentsController,
      ReceiptsController, ExpensesController, MaintenanceController, StaffController,
      DocumentsController, DashboardController, ReportsController, HealthController }

-----------------------------------------------------------------------------
(* Requests                                                                *)

HttpRequest(verb, path) == [verb |-> verb, path |-> path]

Parameters == {":id", ":report"}

Matches(request, route) ==
    /\ request.verb = route.verb
    /\ Len(request.path) = Len(route.path)
    /\ \A i \in DOMAIN route.path :
        route.path[i] \in Parameters \/ route.path[i] = request.path[i]

\* The first of a controller's routes that matches decides; a request that none
\* matches is not found.
Admits(role, request) ==
    \E routes \in Controllers : \E i \in DOMAIN routes :
        /\ Matches(request, routes[i])
        /\ \A j \in 1 .. i - 1 : ~Matches(request, routes[j])
        /\ PermissionsGuard(role, routes[i].policy)
=============================================================================
