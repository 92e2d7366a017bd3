------------------------------ MODULE Portfolio ------------------------------
(***************************************************************************)
(* What hangs on a property: blocks, units, tenants, leases, expenses and  *)
(* the documents filed on any of them (PropertiesService, BuildingsService,*)
(* UnitsService, TenantsService, ExpensesService, DocumentsService), over  *)
(* the foreign keys and partial unique indexes of the schema.              *)
(*                                                                         *)
(* A client is one request between its checks and its write: what it       *)
(* checked may be gone by then, and only the database decides.  Leases are *)
(* history here: they are signed and never deleted, and stand for the rent *)
(* and the payments booked on them.  A document is a row and a stored      *)
(* object under the same key; storage is not in the database's             *)
(* transactions.  Names, amounts and statuses are left out.                *)
(***************************************************************************)
EXTENDS Integers, FiniteSets

CONSTANTS
    Clients,   \* requests handled at the same time
    Props, Blocks, Units, Tenants, Expenses, Docs,   \* ids that are ever given out
    Numbers,   \* unit numbers
    Entities,  \* records documents are filed on
    MaxLeases, \* bound: leases that are ever signed
    None,      \* no row yet, no block, no unit, no request
    Keep,      \* a field an edit does not mention
    Gone       \* the row was deleted

Block == [property : Props]
Unit == [property : Props, block : Blocks \cup {None}, number : Numbers]
Lease == [unit : Units, block : Blocks \cup {None}, tenant : Tenants]
Expense == [property : Props, block : Blocks \cup {None}, unit : Units \cup {None}]
Document == [about : Entities]

Request ==
    [op : {"addBlock"}, row : Block]
    \cup [op : {"addUnit"}, row : Unit]
    \cup [op : {"editUnit"}, id : Units, block : Blocks \cup {None, Keep},
          number : Numbers \cup {Keep}]
    \cup [op : {"sign"}, row : Lease]
    \cup [op : {"spend"}, row : Expense]
    \cup [op : {"respend"}, id : Expenses, block : Blocks \cup {None, Keep},
          unit : Units \cup {None, Keep}]
    \cup [op : {"dropProperty"}, id : Props]
    \cup [op : {"dropUnit"}, id : Units]
    \cup [op : {"dropTenant"}, id : Tenants]
    \cup [op : {"file"}, id : Docs, about : Entities]
    \cup [op : {"shred"}, id : Docs]

ASSUME PortfolioConstants ==
    /\ Entities \subseteq Props \cup Blocks \cup Units \cup Tenants \cup Expenses
    /\ None \notin Props \cup Blocks \cup Units \cup Tenants \cup Expenses \cup Request
    /\ None \notin Block \cup Unit \cup Expense \cup Document
    /\ Gone \notin Block \cup Unit \cup Expense \cup Document
    /\ None # Gone
    /\ MaxLeases \in Nat
    /\ Keep \notin Blocks \cup Units \cup Numbers \cup {None}

VARIABLES
    property,  \* ids of Property rows that exist
    tenant,    \* ids of Tenant rows that exist
    retired,   \* ids whose Property or Tenant row was deleted
    block,     \* Building rows
    unit,      \* Unit rows
    lease,     \* Lease rows
    expense,   \* Expense rows
    document,  \* Document rows
    stored,    \* keys of stored objects
    unheard,   \* ids of Document rows whose upload never heard of the commit
    request    \* what each client's handler is about to write

rows == <<property, tenant, retired, block, unit, lease, expense>>
files == <<document, stored, unheard>>
vars ==
    <<property, tenant, retired, block, unit, lease, expense, document, stored, unheard, request>>

IsRow(r) == r \notin {None, Gone}
BlockIds == {b \in Blocks : IsRow(block[b])}
UnitIds == {u \in Units : IsRow(unit[u])}
ExpenseIds == {x \in Expenses : IsRow(expense[x])}
DocIds == {d \in Docs : IsRow(document[d])}
Existing == property \cup tenant \cup BlockIds \cup UnitIds \cup ExpenseIds

Init ==
    /\ property = {} /\ tenant = {} /\ retired = {}
    /\ block = [b \in Blocks |-> None]
    /\ unit = [u \in Units |-> None]
    /\ lease = {}
    /\ expense = [x \in Expenses |-> None]
    /\ document = [d \in Docs |-> None]
    /\ stored = {} /\ unheard = {}
    /\ request = [c \in Clients |-> None]

Doing(c, op) == request[c] # None /\ request[c].op = op

\* The checks are done, the write is still to come.
Passed(c, r) ==
    /\ request[c] = None
    /\ request' = [request EXCEPT ![c] = r]
    /\ UNCHANGED <<rows, files>>

Finish(c) == request' = [request EXCEPT ![c] = None]

\* Bound: an id of the kind is left to give out.
IdLeft(table) == \E id \in DOMAIN table : table[id] = None

Given(field, current) == IF field = Keep THEN current ELSE field

-----------------------------------------------------------------------------
(* What the database admits                                                *)

\* Foreign keys of a row that is written; a null refers to nothing.
BlockRefs(r) == r.property \in property
UnitRefs(r) == r.property \in property /\ r.block \in BlockIds \cup {None}
LeaseRefs(r) ==
    r.unit \in UnitIds /\ r.block \in BlockIds \cup {None} /\ r.tenant \in tenant
ExpenseRefs(r) ==
    /\ r.property \in property
    /\ r.block \in BlockIds \cup {None}
    /\ r.unit \in UnitIds \cup {None}

NothingNamed(id) == TRUE
\* onDelete: Restrict, on every relation.
Unreferenced(id) ==
    /\ \A b \in BlockIds : block[b].property # id
    /\ \A u \in UnitIds : unit[u].property # id /\ unit[u].block # id
    /\ \A l \in lease : id \notin {l.unit, l.block, l.tenant}
    /\ \A x \in ExpenseIds : id \notin {expense[x].property, expense[x].block, expense[x].unit}

SamePlace(r, s) == r.property = s.property /\ r.block = s.block /\ r.number = s.number

\* Mutant: an index under which two rows without a block are never the same.
InBlocksOnly(us) ==
    \A u, v \in Units :
        u # v /\ IsRow(us[u]) /\ IsRow(us[v]) /\ us[u].block # None => ~SamePlace(us[u], us[v])

\* Unit_building_number_key and Unit_property_number_key
NumbersApart(us) ==
    \A u, v \in Units :
        u # v /\ IsRow(us[u]) /\ IsRow(us[v]) => ~SamePlace(us[u], us[v])

-----------------------------------------------------------------------------
(* Properties and blocks                                                   *)

AddProperty ==
    \E p \in Props \ (property \cup retired) :
        /\ property' = property \cup {p}
        /\ UNCHANGED <<tenant, retired, block, unit, lease, expense, files, request>>

\* PropertiesService.remove: what it counts, and then the delete.
CheckDropProperty(c) ==
    \E p \in property :
        /\ \A b \in BlockIds : block[b].property # p
        /\ \A u \in UnitIds : unit[u].property # p
        /\ \A x \in ExpenseIds : expense[x].property # p
        /\ Passed(c, [op |-> "dropProperty", id |-> p])

DropProperty(c) ==
    LET p == request[c].id IN
    /\ Doing(c, "dropProperty")
    /\ p \in property /\ Unreferenced(p)
    /\ property' = property \ {p}
    /\ retired' = retired \cup {p}
    /\ Finish(c)
    /\ UNCHANGED <<tenant, block, unit, lease, expense, files>>

CheckAddBlock(c) ==
    /\ IdLeft(block)
    /\ \E p \in property : Passed(c, [op |-> "addBlock", row |-> [property |-> p]])

AddBlock(c) ==
    \E b \in Blocks :
        /\ Doing(c, "addBlock")
        /\ block[b] = None
        /\ BlockRefs(request[c].row)
        /\ block' = [block EXCEPT ![b] = request[c].row]
        /\ Finish(c)
        /\ UNCHANGED <<property, tenant, retired, unit, lease, expense, files>>

Detached(b) ==
    [u \in Units |-> IF IsRow(unit[u]) /\ unit[u].block = b
                     THEN [unit[u] EXCEPT !.block = None] ELSE unit[u]]

\* BuildingsService.remove: one transaction detaches the units and deletes the
\* block; a number that would then be taken twice, or a lease or an expense that
\* names the block, takes both back.
DropBlock ==
    \E b \in BlockIds :
        /\ NumbersApart(Detached(b))
        /\ \A l \in lease : l.block # b
        /\ \A x \in ExpenseIds : expense[x].block # b
        /\ unit' = Detached(b)
        /\ block' = [block EXCEPT ![b] = Gone]
        /\ UNCHANGED <<property, tenant, retired, lease, expense, files, request>>

-----------------------------------------------------------------------------
(* Units                                                                   *)

\* A block inside the property, or none.
BlocksOf(p) == {b \in BlockIds : block[b].property = p} \cup {None}

\* assertUnitNumberFree
NumberFree(p, b, n, except) ==
    \A u \in UnitIds \ except :
        ~SamePlace(unit[u], [property |-> p, block |-> b, number |-> n])

CheckAddUnit(c) ==
    \E p \in property, n \in Numbers : \E b \in BlocksOf(p) :
        /\ IdLeft(unit)
        /\ NumberFree(p, b, n, {})
        /\ Passed(c, [op |-> "addUnit", row |-> [property |-> p, block |-> b, number |-> n]])

AddUnit(c) ==
    \E u \in Units :
        LET after == [unit EXCEPT ![u] = request[c].row] IN
        /\ Doing(c, "addUnit")
        /\ unit[u] = None
        /\ UnitRefs(request[c].row) /\ NumbersApart(after)
        /\ unit' = after
        /\ Finish(c)
        /\ UNCHANGED <<property, tenant, retired, block, lease, expense, files>>

\* The block is checked unless it is the one the unit is in.  Inputs: some field
\* is given, and a value that is not the current one.
CheckEditUnit(c) ==
    \E u \in UnitIds, b \in Blocks \cup {None, Keep}, n \in Numbers \cup {Keep} :
        /\ <<b, n>> # <<Keep, Keep>> /\ b # unit[u].block /\ n # unit[u].number
        /\ Given(b, unit[u].block) \in BlocksOf(unit[u].property) \cup {unit[u].block}
        /\ NumberFree(unit[u].property, Given(b, unit[u].block), Given(n, unit[u].number), {u})
        /\ Passed(c, [op |-> "editUnit", id |-> u, block |-> b, number |-> n])

\* Only the fields that were given; a unit never changes its property.
Edited(u, b, n) ==
    [unit EXCEPT ![u] = [property |-> @.property, block |-> Given(b, @.block),
                         number |-> Given(n, @.number)]]

EditUnit(c) ==
    LET r == request[c]
        after == Edited(r.id, r.block, r.number) IN
    /\ Doing(c, "editUnit")
    /\ r.id \in UnitIds
    /\ UnitRefs(after[r.id]) /\ NumbersApart(after)
    /\ unit' = after
    /\ Finish(c)
    /\ UNCHANGED <<property, tenant, retired, block, lease, expense, files>>

\* Leases are not counted: a lease without rent stops the delete itself.
CheckDropUnit(c) ==
    \E u \in UnitIds :
        /\ \A x \in ExpenseIds : expense[x].unit # u
        /\ Passed(c, [op |-> "dropUnit", id |-> u])

DropUnit(c) ==
    LET u == request[c].id IN
    /\ Doing(c, "dropUnit")
    /\ u \in UnitIds /\ Unreferenced(u)
    /\ unit' = [unit EXCEPT ![u] = Gone]
    /\ Finish(c)
    /\ UNCHANGED <<property, tenant, retired, block, lease, expense, files>>

-----------------------------------------------------------------------------
(* Tenants and leases                                                      *)

AddTenant ==
    \E t \in Tenants \ (tenant \cup retired) :
        /\ tenant' = tenant \cup {t}
        /\ UNCHANGED <<property, retired, block, unit, lease, expense, files, request>>

CheckDropTenant(c) ==
    \E t \in tenant :
        /\ \A l \in lease : l.tenant # t
        /\ Passed(c, [op |-> "dropTenant", id |-> t])

DropTenant(c) ==
    LET t == request[c].id IN
    /\ Doing(c, "dropTenant")
    /\ t \in tenant /\ Unreferenced(t)
    /\ tenant' = tenant \ {t}
    /\ retired' = retired \cup {t}
    /\ Finish(c)
    /\ UNCHANGED <<property, block, unit, lease, expense, files>>

\* LeasesService.create copies the block from the unit it read.
CheckSign(c) ==
    \E u \in UnitIds, t \in tenant :
        /\ Cardinality(lease) < MaxLeases
        /\ Passed(c, [op |-> "sign", row |-> [unit |-> u, block |-> unit[u].block, tenant |-> t]])

Sign(c) ==
    /\ Doing(c, "sign")
    /\ Cardinality(lease) < MaxLeases
    /\ LeaseRefs(request[c].row)
    /\ lease' = lease \cup {request[c].row}
    /\ Finish(c)
    /\ UNCHANGED <<property, tenant, retired, block, unit, expense, files>>

-----------------------------------------------------------------------------
(* Expenses                                                                *)

UnitsOf(p) == {u \in UnitIds : unit[u].property = p} \cup {None}

\* assertBelongsToProperty
CheckSpend(c) ==
    /\ IdLeft(expense)
    /\ \E p \in property : \E b \in BlocksOf(p), u \in UnitsOf(p) :
        Passed(c, [op |-> "spend", row |-> [property |-> p, block |-> b, unit |-> u]])

Spend(c) ==
    \E x \in Expenses :
        /\ Doing(c, "spend")
        /\ expense[x] = None
        /\ ExpenseRefs(request[c].row)
        /\ expense' = [expense EXCEPT ![x] = request[c].row]
        /\ Finish(c)
        /\ UNCHANGED <<property, tenant, retired, block, unit, lease, files>>

CheckRespend(c) ==
    \E x \in ExpenseIds, b \in Blocks \cup {None, Keep}, u \in Units \cup {None, Keep} :
        /\ <<b, u>> # <<Keep, Keep>> /\ b # expense[x].block /\ u # expense[x].unit
        /\ Given(b, expense[x].block) \in BlocksOf(expense[x].property)
        /\ Given(u, expense[x].unit) \in UnitsOf(expense[x].property)
        /\ Passed(c, [op |-> "respend", id |-> x, block |-> b, unit |-> u])

Respend(c) ==
    LET r == request[c]
        after == [expense EXCEPT ![r.id] =
                    [property |-> @.property, block |-> Given(r.block, @.block),
                     unit |-> Given(r.unit, @.unit)]] IN
    /\ Doing(c, "respend")
    /\ r.id \in ExpenseIds
    /\ ExpenseRefs(after[r.id])
    /\ expense' = after
    /\ Finish(c)
    /\ UNCHANGED <<property, tenant, retired, block, unit, lease, files>>

\* The one financial record that can be deleted.
DropExpense ==
    \E x \in ExpenseIds :
        /\ expense' = [expense EXCEPT ![x] = Gone]
        /\ UNCHANGED <<property, tenant, retired, block, unit, lease, files, request>>

-----------------------------------------------------------------------------
(* Documents                                                               *)

\* A key is never drawn twice: a new one is like one that left no trace.
Fresh(d) ==
    /\ document[d] = None /\ d \notin stored
    /\ \A c \in Clients : ~(Doing(c, "shred") /\ request[c].id = d)

\* upload: assertEntity, the bytes, and then the row.  Nothing the check read is
\* used again, so the check and the bytes are one step.
PutObject(c) ==
    \E d \in Docs, e \in Entities \cap Existing :
        /\ Fresh(d)
        /\ request[c] = None
        /\ stored' = stored \cup {d}
        /\ request' = [request EXCEPT ![c] = [op |-> "file", id |-> d, about |-> e]]
        /\ UNCHANGED <<rows, document, unheard>>

Shred(c, d) == request' = [request EXCEPT ![c] = [op |-> "shred", id |-> d]]

Filed(r) == [document EXCEPT ![r.id] = [about |-> r.about]]

\* The record it is filed on has no foreign key.
CreateRow(c) ==
    /\ Doing(c, "file")
    /\ document' = Filed(request[c])
    /\ Finish(c)
    /\ UNCHANGED <<rows, stored, unheard>>

\* The create failed, and the catch deletes the object: there is no row ...
RefuseRow(c) ==
    /\ Doing(c, "file")
    /\ Shred(c, request[c].id)
    /\ UNCHANGED <<rows, files>>

\* ... or there is one, committed with its answer lost.  The catch is the same.
LoseAnswer(c) ==
    /\ Doing(c, "file")
    /\ document' = Filed(request[c])
    /\ unheard' = unheard \cup {request[c].id}
    /\ Shred(c, request[c].id)
    /\ UNCHANGED <<rows, stored>>

RowLeft(d) == document
RowDropped(d) == [document EXCEPT ![d] = None]

\* remove: findOne and its assertEntity, the row, and then the object.
DeleteRow(c) ==
    \E d \in DocIds :
        /\ request[c] = None
        /\ document[d].about \in Existing
        /\ document' = RowDropped(d)
        /\ unheard' = unheard \ {d}
        /\ Shred(c, d)
        /\ UNCHANGED <<rows, stored>>

DeleteObject(c) ==
    /\ Doing(c, "shred")
    /\ stored' = stored \ {request[c].id}
    /\ Finish(c)
    /\ UNCHANGED <<rows, document, unheard>>

-----------------------------------------------------------------------------

\* The write was refused, storage failed, or the process went down.
Leave(c) ==
    /\ request[c] # None
    /\ Finish(c)
    /\ UNCHANGED <<rows, files>>

ClientStep(c) ==
    \/ CheckDropProperty(c) \/ DropProperty(c) \/ CheckAddBlock(c) \/ AddBlock(c)
    \/ CheckAddUnit(c) \/ AddUnit(c) \/ CheckEditUnit(c) \/ EditUnit(c)
    \/ CheckDropUnit(c) \/ DropUnit(c)
    \/ CheckDropTenant(c) \/ DropTenant(c) \/ CheckSign(c) \/ Sign(c)
    \/ CheckSpend(c) \/ Spend(c) \/ CheckRespend(c) \/ Respend(c)
    \/ PutObject(c) \/ CreateRow(c) \/ RefuseRow(c) \/ LoseAnswer(c)
    \/ DeleteRow(c) \/ DeleteObject(c) \/ Leave(c)

Next ==
    \/ AddProperty \/ AddTenant \/ DropBlock \/ DropExpense
    \/ \E c \in Clients : ClientStep(c)

Spec == Init /\ [][Next]_vars

-----------------------------------------------------------------------------
(* Properties.                                                             *)

\* Rows and requests have their types.
TypeOK ==
    /\ property \subseteq Props /\ tenant \subseteq Tenants
    /\ retired \subseteq Props \cup Tenants
    /\ block \in [Blocks -> Block \cup {None, Gone}]
    /\ unit \in [Units -> Unit \cup {None, Gone}]
    /\ lease \subseteq Lease
    /\ expense \in [Expenses -> Expense \cup {None, Gone}]
    /\ document \in [Docs -> Document \cup {None}]
    /\ stored \subseteq Docs /\ unheard \subseteq Docs
    /\ request \in [Clients -> Request \cup {None}]

\* Whatever is deleted between a handler's counts and its delete, or between its
\* checks and its insert, nothing that is still there names it: no lease without
\* its unit and tenant, no unit or expense on a block that is gone.
NothingDangles ==
    /\ \A b \in BlockIds : BlockRefs(block[b])
    /\ \A u \in UnitIds : UnitRefs(unit[u])
    /\ \A l \in lease : LeaseRefs(l)
    /\ \A x \in ExpenseIds : ExpenseRefs(expense[x])

\* A unit's block, and an expense's block and unit, are of its own property, not
\* merely of the organization: no foreign key says so.
StaysInProperty ==
    /\ \A u \in UnitIds : unit[u].block # None =>
          block[unit[u].block].property = unit[u].property
    /\ \A x \in ExpenseIds :
          /\ expense[x].block # None => block[expense[x].block].property = expense[x].property
          /\ expense[x].unit # None => unit[expense[x].unit].property = expense[x].property

\* Two units of one block, or two directly under one property, never carry the
\* same number: not by two inserts at once, and not by deleting the block that
\* told them apart.
NumbersUnique ==
    \A u, v \in UnitIds :
        /\ u # v
        /\ unit[u].property = unit[v].property
        /\ unit[u].block = unit[v].block
        => unit[u].number # unit[v].number

\* Every unit and every expense has a place of its own in one property: what the
\* handlers and two unique indexes see to between them.
WellPlaced == StaysInProperty /\ NumbersUnique

\* A row without its object is a broken download.  Whatever is refused, fails or
\* crashes on the way in or out, and whoever deletes at the same time, a document
\* has its object, except in one case: its create was committed and the upload
\* did not hear of it, so that the upload's own catch takes the object away.
DocumentHasObject == DocIds \ unheard \subseteq stored

-----------------------------------------------------------------------------
(* The inductive invariant behind them.                                    *)

BlockIn(b, p) == block[b] # None /\ (IsRow(block[b]) => block[b].property = p)
UnitIn(u, p) == unit[u] # None /\ (IsRow(unit[u]) => unit[u].property = p)

\* What was checked was there, and stays in its property while it is.
Checked(r) ==
    /\ r.op = "addUnit" =>
          (r.row.block \in Blocks => BlockIn(r.row.block, r.row.property))
    /\ r.op = "editUnit" =>
          /\ unit[r.id] # None
          /\ IsRow(unit[r.id]) /\ r.block \in Blocks => BlockIn(r.block, unit[r.id].property)
    /\ r.op = "spend" =>
          /\ r.row.block \in Blocks => BlockIn(r.row.block, r.row.property)
          /\ r.row.unit \in Units => UnitIn(r.row.unit, r.row.property)
    /\ r.op = "respend" =>
          /\ expense[r.id] # None
          /\ IsRow(expense[r.id]) =>
                /\ r.block \in Blocks => BlockIn(r.block, expense[r.id].property)
                /\ r.unit \in Units => UnitIn(r.unit, expense[r.id].property)

ChecksHold == \A c \in Clients : request[c] # None => Checked(request[c])

\* An object under way is in one request: its row is to come, will not, is gone,
\* or was never heard of.
KeysApart ==
    /\ \A c \in Clients :
          /\ Doing(c, "file") => document[request[c].id] = None /\ request[c].id \in stored
          /\ Doing(c, "shred") => request[c].id \notin DocIds \ unheard
    /\ \A c, e \in Clients :
          c # e /\ Doing(c, "file") /\ (Doing(e, "file") \/ Doing(e, "shred"))
          => request[c].id # request[e].id

PortfolioInv ==
    /\ TypeOK
    /\ NothingDangles
    /\ StaysInProperty
    /\ NumbersUnique
    /\ DocumentHasObject
    /\ ChecksHold
    /\ KeysApart
=============================================================================
