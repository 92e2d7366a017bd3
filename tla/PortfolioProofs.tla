--------------------------- MODULE PortfolioProofs ---------------------------
(***************************************************************************)
(* What holds of Portfolio for any number of requests, properties, blocks, *)
(* units, tenants, leases, expenses and documents.                         *)
(***************************************************************************)
EXTENDS Portfolio, TLAPS

-----------------------------------------------------------------------------
(* Values.                                                                 *)

LEMMA RowValues ==
    /\ \A r \in Block \cup Unit \cup Expense \cup Document : IsRow(r)
    /\ \A r \in Request : r # None
BY PortfolioConstants DEF IsRow

\* Each kind of request carries the fields its write uses.
LEMMA RequestFields ==
    ASSUME NEW r \in Request
    PROVE  /\ r.op = "addBlock" => r.row \in Block
           /\ r.op = "addUnit" => r.row \in Unit
           /\ r.op = "editUnit" => /\ r.id \in Units /\ r.block \in Blocks \cup {None, Keep}
                                   /\ r.number \in Numbers \cup {Keep}
           /\ r.op = "sign" => r.row \in Lease
           /\ r.op = "spend" => r.row \in Expense
           /\ r.op = "respend" => /\ r.id \in Expenses /\ r.block \in Blocks \cup {None, Keep}
                                  /\ r.unit \in Units \cup {None, Keep}
           /\ r.op = "dropProperty" => r.id \in Props
           /\ r.op = "dropUnit" => r.id \in Units
           /\ r.op = "dropTenant" => r.id \in Tenants
           /\ r.op = "file" => r.id \in Docs /\ r.about \in Entities
           /\ r.op = "shred" => r.id \in Docs
BY DEF Request

LEMMA InHand ==
    ASSUME TypeOK, NEW c \in Clients, NEW op, Doing(c, op)
    PROVE  request[c] \in Request /\ request[c].op = op
BY DEF TypeOK, Doing

LEMMA RowsHaveTypes ==
    ASSUME TypeOK
    PROVE  /\ \A b \in BlockIds : block[b] \in Block
           /\ \A u \in UnitIds : unit[u] \in Unit
           /\ \A x \in ExpenseIds : expense[x] \in Expense
BY DEF TypeOK, BlockIds, UnitIds, ExpenseIds, IsRow

-----------------------------------------------------------------------------
(* The parts of PortfolioInv.                                              *)

RowsTyped ==
    /\ property \subseteq Props /\ tenant \subseteq Tenants
    /\ retired \subseteq Props \cup Tenants
    /\ block \in [Blocks -> Block \cup {None, Gone}]
    /\ unit \in [Units -> Unit \cup {None, Gone}]
    /\ lease \subseteq Lease
    /\ expense \in [Expenses -> Expense \cup {None, Gone}]

RowsSound == RowsTyped /\ NothingDangles /\ StaysInProperty /\ NumbersUnique

FilesSound ==
    /\ document \in [Docs -> Document \cup {None}]
    /\ stored \subseteq Docs /\ unheard \subseteq Docs
    /\ DocumentHasObject
    /\ KeysApart

RequestsSound ==
    /\ request \in [Clients -> Request \cup {None}]
    /\ ChecksHold

LEMMA Parts ==
    ASSUME PortfolioInv
    PROVE  RowsSound /\ FilesSound /\ RequestsSound
BY DEF PortfolioInv, TypeOK, RowsSound, RowsTyped, FilesSound, RequestsSound

LEMMA Together ==
    ASSUME RowsSound', FilesSound', RequestsSound'
    PROVE  PortfolioInv'
BY DEF PortfolioInv, TypeOK, RowsSound, RowsTyped, FilesSound, RequestsSound

LEMMA RowsAlone ==
    ASSUME PortfolioInv, UNCHANGED rows
    PROVE  RowsSound'
BY Parts DEF rows, RowsSound, RowsTyped, NothingDangles, StaysInProperty, NumbersUnique,
   BlockRefs, UnitRefs, LeaseRefs, ExpenseRefs, BlockIds, UnitIds, ExpenseIds, IsRow

\* Requests that do not carry a document may come and go.
LEMMA FilesAlone ==
    ASSUME PortfolioInv, UNCHANGED files,
           NEW c \in Clients, NEW q, request' = [request EXCEPT ![c] = q],
           q = None \/ q.op \notin {"file", "shred"}
    PROVE  FilesSound'
PROOF
<1>1. \A e \in Clients : request'[e] = IF e = c THEN q ELSE request[e]
  BY DEF PortfolioInv, TypeOK
<1>2. \A e \in Clients : /\ Doing(e, "file")' => e # c /\ Doing(e, "file")
                         /\ Doing(e, "shred")' => e # c /\ Doing(e, "shred")
  BY <1>1 DEF Doing
<1>3. KeysApart'
  BY <1>1, <1>2 DEF PortfolioInv, KeysApart, files, DocIds, IsRow
<1> QED
  BY <1>3 DEF PortfolioInv, TypeOK, FilesSound, files, DocumentHasObject, DocIds, IsRow

\* Ids are never given out twice, and nothing moves to another property.
IdsKept ==
    /\ \A b \in Blocks : block[b] # None =>
          /\ block'[b] # None
          /\ block'[b] # Gone => block[b] # Gone /\ block'[b].property = block[b].property
    /\ \A u \in Units : unit[u] # None =>
          /\ unit'[u] # None
          /\ unit'[u] # Gone => unit[u] # Gone /\ unit'[u].property = unit[u].property
    /\ \A x \in Expenses : expense[x] # None =>
          /\ expense'[x] # None
          /\ expense'[x] # Gone =>
                expense[x] # Gone /\ expense'[x].property = expense[x].property

LEMMA PlacesStay ==
    ASSUME IdsKept
    PROVE  /\ \A b \in Blocks, p \in Props : BlockIn(b, p) => BlockIn(b, p)'
           /\ \A u \in Units, p \in Props : UnitIn(u, p) => UnitIn(u, p)'
BY DEF IdsKept, BlockIn, UnitIn, IsRow

\* So what was checked still holds at the write.
LEMMA CheckedStays ==
    ASSUME PortfolioInv, IdsKept, NEW q \in Request, Checked(q)
    PROVE  Checked(q)'
PROOF
<1>1. CASE q.op = "addUnit"
  <2>1. q.row.property \in Props
    BY <1>1, RequestFields DEF Unit
  <2> QED
    BY <1>1, <2>1, PlacesStay DEF Checked
<1>2. CASE q.op = "editUnit"
  <2>1. q.id \in Units /\ unit[q.id] # None
    BY <1>2, RequestFields DEF Checked
  <2>2. IsRow(unit'[q.id]) => IsRow(unit[q.id]) /\ unit'[q.id].property = unit[q.id].property
    BY <2>1 DEF IdsKept, IsRow
  <2>3. IsRow(unit[q.id]) => unit[q.id].property \in Props
    BY <2>1 DEF PortfolioInv, TypeOK, IsRow, Unit
  <2>4. unit'[q.id] # None
    BY <2>1 DEF IdsKept
  <2>5. ASSUME IsRow(unit'[q.id]), q.block \in Blocks
        PROVE  BlockIn(q.block, unit[q.id].property)'
    <3>1. BlockIn(q.block, unit[q.id].property)
      BY <1>2, <2>2, <2>5 DEF Checked
    <3>2. PICK p \in Props : p = unit[q.id].property
      BY <2>2, <2>3, <2>5
    <3>3. BlockIn(q.block, p)'
      BY <2>5, <3>1, <3>2, PlacesStay
    <3> QED
      BY <2>2, <2>5, <3>2, <3>3 DEF BlockIn
  <2> QED
    BY <1>2, <2>4, <2>5 DEF Checked, IsRow
<1>3. CASE q.op = "spend"
  <2>1. q.row.property \in Props
    BY <1>3, RequestFields DEF Expense
  <2> QED
    BY <1>3, <2>1, PlacesStay DEF Checked
<1>4. CASE q.op = "respend"
  <2>1. q.id \in Expenses /\ expense[q.id] # None
    BY <1>4, RequestFields DEF Checked
  <2>2. IsRow(expense'[q.id]) =>
            IsRow(expense[q.id]) /\ expense'[q.id].property = expense[q.id].property
    BY <2>1 DEF IdsKept, IsRow
  <2>3. IsRow(expense[q.id]) => expense[q.id].property \in Props
    BY <2>1 DEF PortfolioInv, TypeOK, IsRow, Expense
  <2>4. expense'[q.id] # None
    BY <2>1 DEF IdsKept
  <2>5. ASSUME IsRow(expense'[q.id])
        PROVE  /\ q.block \in Blocks => BlockIn(q.block, expense[q.id].property)'
               /\ q.unit \in Units => UnitIn(q.unit, expense[q.id].property)'
    <3>1. /\ q.block \in Blocks => BlockIn(q.block, expense[q.id].property)
          /\ q.unit \in Units => UnitIn(q.unit, expense[q.id].property)
      BY <1>4, <2>2, <2>5 DEF Checked
    <3>2. PICK p \in Props : p = expense[q.id].property
      BY <2>2, <2>3, <2>5
    <3>3. /\ q.block \in Blocks => BlockIn(q.block, p)'
          /\ q.unit \in Units => UnitIn(q.unit, p)'
      BY <3>1, <3>2, PlacesStay
    <3> QED
      BY <2>2, <2>5, <3>2, <3>3 DEF BlockIn, UnitIn
  <2> QED
    BY <1>4, <2>4, <2>5 DEF Checked, IsRow
<1> QED
  BY <1>1, <1>2, <1>3, <1>4 DEF Checked

\* One client's request ends, or is a new one that was checked.
LEMMA RequestsStay ==
    ASSUME PortfolioInv, IdsKept, NEW c \in Clients, NEW q \in Request \cup {None},
           request' = [request EXCEPT ![c] = q], q \in Request => Checked(q)
    PROVE  RequestsSound'
PROOF
<1>1. \A e \in Clients : request'[e] = IF e = c THEN q ELSE request[e]
  BY DEF PortfolioInv, TypeOK
<1>2. request' \in [Clients -> Request \cup {None}]
  BY DEF PortfolioInv, TypeOK
<1>3. \A r \in Request : Checked(r) => Checked(r)'
  BY CheckedStays
<1>4. ASSUME NEW e \in Clients, request'[e] # None PROVE Checked(request[e])'
  <2> DEFINE r == IF e = c THEN q ELSE request[e]
  <2>1. r \in Request /\ Checked(r) /\ request'[e] = r
    BY <1>1, <1>2, <1>4 DEF PortfolioInv, TypeOK, ChecksHold
  <2> HIDE DEF r
  <2> QED
    BY <1>3, <2>1 DEF Checked
<1> QED
  BY <1>2, <1>4 DEF RequestsSound, ChecksHold

LEMMA SameIds ==
    ASSUME UNCHANGED rows
    PROVE  IdsKept
BY DEF rows, IdsKept

\* The checks of a request write nothing.
LEMMA PassingKeeps ==
    ASSUME PortfolioInv, NEW c \in Clients, NEW q \in Request,
           q.op \notin {"file", "shred"}, Checked(q), Passed(c, q)
    PROVE  PortfolioInv'
BY RowsAlone, FilesAlone, SameIds, RequestsStay, Together DEF Passed

\* A write keeps the rows sound and finishes its request.
LEMMA WritingKeeps ==
    ASSUME PortfolioInv, NEW c \in Clients, RowsSound', IdsKept, Finish(c), UNCHANGED files
    PROVE  PortfolioInv'
BY FilesAlone, RequestsStay, Together, PortfolioConstants DEF Finish

\* A write no client's request stands for.
LEMMA OneStepKeeps ==
    ASSUME PortfolioInv, RowsSound', IdsKept, UNCHANGED <<files, request>>
    PROVE  PortfolioInv'
PROOF
<1>1. FilesSound'
  BY Parts DEF FilesSound, KeysApart, Doing, DocumentHasObject, DocIds, IsRow, files
<1>2. \A r \in Request : Checked(r) => Checked(r)'
  BY CheckedStays
<1>3. RequestsSound'
  <2>1. ASSUME NEW e \in Clients, request'[e] # None PROVE Checked(request[e])'
    <3>1. PICK r \in Request : r = request[e] /\ Checked(r)
      BY <2>1 DEF PortfolioInv, TypeOK, ChecksHold
    <3> QED
      BY <1>2, <3>1 DEF Checked
  <2> QED
    BY <2>1 DEF PortfolioInv, TypeOK, RequestsSound, ChecksHold
<1> QED
  BY <1>1, <1>3, Together

-----------------------------------------------------------------------------
(* Properties, tenants and leases.                                         *)

LEMMA AddPropertyKeeps ==
    ASSUME PortfolioInv, AddProperty
    PROVE  PortfolioInv'
PROOF
<1>1. PICK p \in Props : property' = property \cup {p}
  BY DEF AddProperty
<1>2. UNCHANGED <<tenant, retired, block, unit, lease, expense>>
  BY DEF AddProperty
<1>3. RowsSound'
  BY <1>1, <1>2, Parts DEF RowsSound, RowsTyped, NothingDangles, StaysInProperty,
     NumbersUnique, BlockRefs, UnitRefs, LeaseRefs, ExpenseRefs, BlockIds, UnitIds,
     ExpenseIds, IsRow
<1>4. IdsKept
  BY <1>2 DEF IdsKept
<1> QED
  BY <1>3, <1>4, OneStepKeeps DEF AddProperty

LEMMA AddTenantKeeps ==
    ASSUME PortfolioInv, AddTenant
    PROVE  PortfolioInv'
PROOF
<1>1. PICK t \in Tenants : tenant' = tenant \cup {t}
  BY DEF AddTenant
<1>2. UNCHANGED <<property, retired, block, unit, lease, expense>>
  BY DEF AddTenant
<1>3. RowsSound'
  BY <1>1, <1>2, Parts DEF RowsSound, RowsTyped, NothingDangles, StaysInProperty,
     NumbersUnique, BlockRefs, UnitRefs, LeaseRefs, ExpenseRefs, BlockIds, UnitIds,
     ExpenseIds, IsRow
<1>4. IdsKept
  BY <1>2 DEF IdsKept
<1> QED
  BY <1>3, <1>4, OneStepKeeps DEF AddTenant

LEMMA DropPropertyKeeps ==
    ASSUME PortfolioInv, NEW c \in Clients, DropProperty(c)
    PROVE  PortfolioInv'
PROOF
<1>1. PICK p \in property : /\ Unreferenced(p)
                            /\ property' = property \ {p} /\ retired' = retired \cup {p}
  BY DEF DropProperty
<1>2. UNCHANGED <<tenant, block, unit, lease, expense>>
  BY DEF DropProperty
<1>3. p \in Props
  BY DEF PortfolioInv, TypeOK
<1>4. RowsTyped'
  BY <1>1, <1>2, <1>3, Parts DEF RowsSound, RowsTyped
<1>5. NothingDangles'
  BY <1>1, <1>2, Parts DEF RowsSound, Unreferenced, NothingDangles, BlockRefs, UnitRefs,
     LeaseRefs, ExpenseRefs, BlockIds, UnitIds, ExpenseIds, IsRow
<1>6. StaysInProperty' /\ NumbersUnique'
  BY <1>2, Parts DEF RowsSound, StaysInProperty, NumbersUnique, UnitIds, ExpenseIds, IsRow
<1>7. IdsKept
  BY <1>2 DEF IdsKept
<1> QED
  BY <1>4, <1>5, <1>6, <1>7, WritingKeeps DEF DropProperty, RowsSound

LEMMA DropTenantKeeps ==
    ASSUME PortfolioInv, NEW c \in Clients, DropTenant(c)
    PROVE  PortfolioInv'
PROOF
<1>1. PICK t \in tenant : /\ Unreferenced(t)
                          /\ tenant' = tenant \ {t} /\ retired' = retired \cup {t}
  BY DEF DropTenant
<1>2. UNCHANGED <<property, block, unit, lease, expense>>
  BY DEF DropTenant
<1>3. t \in Tenants
  BY DEF PortfolioInv, TypeOK
<1>4. RowsTyped'
  BY <1>1, <1>2, <1>3, Parts DEF RowsSound, RowsTyped
<1>5. NothingDangles'
  BY <1>1, <1>2, Parts DEF RowsSound, Unreferenced, NothingDangles, BlockRefs, UnitRefs,
     LeaseRefs, ExpenseRefs, BlockIds, UnitIds, ExpenseIds, IsRow
<1>6. StaysInProperty' /\ NumbersUnique'
  BY <1>2, Parts DEF RowsSound, StaysInProperty, NumbersUnique, UnitIds, ExpenseIds, IsRow
<1>7. IdsKept
  BY <1>2 DEF IdsKept
<1> QED
  BY <1>4, <1>5, <1>6, <1>7, WritingKeeps DEF DropTenant, RowsSound

LEMMA SignKeeps ==
    ASSUME PortfolioInv, NEW c \in Clients, Sign(c)
    PROVE  PortfolioInv'
PROOF
<1>1. PICK l : l = request[c].row
  OBVIOUS
<1>2. l \in Lease
  BY <1>1, InHand, RequestFields DEF Sign, PortfolioInv
<1>3. LeaseRefs(l) /\ lease' = lease \cup {l}
  BY <1>1 DEF Sign
<1>4. UNCHANGED <<property, tenant, retired, block, unit, expense>>
  BY DEF Sign
<1>5. RowsSound'
  BY <1>2, <1>3, <1>4, Parts DEF RowsSound, RowsTyped, NothingDangles, StaysInProperty,
     NumbersUnique, BlockRefs, UnitRefs, LeaseRefs, ExpenseRefs, BlockIds, UnitIds,
     ExpenseIds, IsRow
<1>6. IdsKept
  BY <1>4 DEF IdsKept
<1> QED
  BY <1>5, <1>6, WritingKeeps DEF Sign

-----------------------------------------------------------------------------
(* Blocks.                                                                 *)

LEMMA AddBlockKeeps ==
    ASSUME PortfolioInv, NEW c \in Clients, AddBlock(c)
    PROVE  PortfolioInv'
PROOF
<1>1. PICK b \in Blocks : /\ block[b] = None /\ BlockRefs(request[c].row)
                          /\ block' = [block EXCEPT ![b] = request[c].row]
  BY DEF AddBlock
<1>2. PICK r \in Block : r = request[c].row
  BY InHand, RequestFields DEF AddBlock, PortfolioInv
<1>3. UNCHANGED <<property, tenant, retired, unit, lease, expense>>
  BY DEF AddBlock
<1>4. \A a \in Blocks : block'[a] = IF a = b THEN r ELSE block[a]
  BY <1>1, <1>2 DEF PortfolioInv, TypeOK
<1>5. RowsTyped'
  BY <1>1, <1>2, <1>3, Parts DEF RowsSound, RowsTyped
<1>6. IsRow(r) /\ ~IsRow(block[b])
  BY <1>1, RowValues DEF IsRow
<1>7. BlockIds' = BlockIds \cup {b} /\ UnitIds' = UnitIds /\ ExpenseIds' = ExpenseIds
  BY <1>3, <1>4, <1>6 DEF BlockIds, UnitIds, ExpenseIds, IsRow
<1>8. b \notin BlockIds
  BY <1>6 DEF BlockIds
<1>9. NothingDangles'
  BY <1>1, <1>2, <1>3, <1>4, <1>7, Parts DEF RowsSound, NothingDangles, BlockRefs, UnitRefs,
     LeaseRefs, ExpenseRefs, BlockIds
<1>10. StaysInProperty'
  <2>1. \A u \in UnitIds : unit[u].block # None => unit[u].block \in BlockIds
    BY Parts DEF RowsSound, NothingDangles, UnitRefs
  <2>2. \A x \in ExpenseIds : expense[x].block # None => expense[x].block \in BlockIds
    BY Parts DEF RowsSound, NothingDangles, ExpenseRefs
  <2>3. \A a \in BlockIds : block'[a] = block[a]
    BY <1>4, <1>8 DEF BlockIds
  <2> QED
    BY <1>3, <1>7, <2>1, <2>2, <2>3, Parts DEF RowsSound, StaysInProperty
<1>11. NumbersUnique'
  BY <1>3, <1>7, Parts DEF RowsSound, NumbersUnique
<1>12. IdsKept
  BY <1>1, <1>3, <1>4 DEF IdsKept
<1> QED
  BY <1>5, <1>9, <1>10, <1>11, <1>12, WritingKeeps DEF AddBlock, RowsSound

LEMMA DropBlockKeeps ==
    ASSUME PortfolioInv, DropBlock
    PROVE  PortfolioInv'
PROOF
<1>1. PICK b \in BlockIds : /\ NumbersApart(Detached(b))
                            /\ \A l \in lease : l.block # b
                            /\ \A x \in ExpenseIds : expense[x].block # b
                            /\ unit' = Detached(b)
                            /\ block' = [block EXCEPT ![b] = Gone]
  BY DEF DropBlock
<1>2. UNCHANGED <<property, tenant, retired, lease, expense>>
  BY DEF DropBlock
<1>3. b \in Blocks /\ b # None /\ IsRow(block[b])
      /\ \A a \in Blocks : a # None
  BY PortfolioConstants DEF BlockIds
<1>4. \A a \in Blocks : block'[a] = IF a = b THEN Gone ELSE block[a]
  BY <1>1, <1>3 DEF PortfolioInv, TypeOK
<1>5. \A u \in UnitIds : unit[u] \in Unit
  BY RowsHaveTypes DEF PortfolioInv
<1>6. \A u \in Units :
        unit'[u] = IF IsRow(unit[u]) /\ unit[u].block = b
                   THEN [property |-> unit[u].property, block |-> None,
                         number |-> unit[u].number]
                   ELSE unit[u]
  BY <1>1, <1>5 DEF Detached, UnitIds, Unit
<1>7. \A u \in UnitIds : /\ unit'[u] \in Unit /\ IsRow(unit'[u])
                         /\ unit'[u].property = unit[u].property
                         /\ unit'[u].number = unit[u].number
                         /\ unit'[u].block = IF unit[u].block = b THEN None ELSE unit[u].block
  <2> SUFFICES ASSUME NEW u \in UnitIds
               PROVE  /\ unit'[u] \in Unit /\ IsRow(unit'[u])
                      /\ unit'[u].property = unit[u].property
                      /\ unit'[u].number = unit[u].number
                      /\ unit'[u].block = IF unit[u].block = b THEN None ELSE unit[u].block
    OBVIOUS
  <2>1. unit[u] \in Unit /\ IsRow(unit[u]) /\ u \in Units
    BY <1>5 DEF UnitIds
  <2>2. CASE unit[u].block = b
    <3>1. unit'[u] = [property |-> unit[u].property, block |-> None, number |-> unit[u].number]
      BY <1>6, <2>1, <2>2
    <3>2. unit'[u] \in Unit
      BY <2>1, <3>1 DEF Unit
    <3> QED
      BY <2>2, <3>1, <3>2, RowValues
  <2>3. CASE unit[u].block # b
    BY <1>6, <2>1, <2>3
  <2> QED
    BY <2>2, <2>3
<1>8. UnitIds' = UnitIds /\ ExpenseIds' = ExpenseIds /\ BlockIds' = BlockIds \ {b}
  BY <1>2, <1>4, <1>6, <1>7 DEF UnitIds, ExpenseIds, BlockIds, IsRow
<1>9. RowsTyped'
  <2>1. block' \in [Blocks -> Block \cup {None, Gone}]
    BY <1>1 DEF PortfolioInv, TypeOK
  <2>2. unit' \in [Units -> Unit \cup {None, Gone}]
    <3>1. unit' = [u \in Units |-> unit'[u]]
      BY <1>1 DEF Detached
    <3>2. \A u \in Units : unit'[u] \in Unit \cup {None, Gone}
      BY <1>6, <1>7 DEF UnitIds, PortfolioInv, TypeOK
    <3> QED
      BY <3>1, <3>2
  <2> QED
    BY <1>2, <2>1, <2>2, Parts DEF RowsSound, RowsTyped
<1>10. NothingDangles'
  <2>1. \A a \in BlockIds' : BlockRefs(block[a])'
    BY <1>2, <1>4, <1>8, Parts DEF RowsSound, NothingDangles, BlockRefs, BlockIds
  <2>2. \A u \in UnitIds' : UnitRefs(unit[u])'
    BY <1>2, <1>7, <1>8, Parts DEF RowsSound, NothingDangles, UnitRefs
  <2>3. \A l \in lease' : LeaseRefs(l)'
    BY <1>1, <1>2, <1>8, Parts DEF RowsSound, NothingDangles, LeaseRefs
  <2>4. \A x \in ExpenseIds' : ExpenseRefs(expense[x])'
    BY <1>1, <1>2, <1>8, Parts DEF RowsSound, NothingDangles, ExpenseRefs
  <2> QED
    BY <2>1, <2>2, <2>3, <2>4 DEF NothingDangles
<1>11. StaysInProperty'
  <2>1. \A a \in BlockIds : a # b => block'[a] = block[a]
    BY <1>4 DEF BlockIds
  <2>2. \A u \in UnitIds : unit[u].block # None => unit[u].block \in BlockIds
    BY Parts DEF RowsSound, NothingDangles, UnitRefs
  <2>3. \A x \in ExpenseIds : /\ expense[x].block # None => expense[x].block \in BlockIds
                              /\ expense[x].unit # None => expense[x].unit \in UnitIds
    BY Parts DEF RowsSound, NothingDangles, ExpenseRefs
  <2>4. \A u \in UnitIds' : unit'[u].block # None =>
            block'[unit'[u].block].property = unit'[u].property
    BY <1>7, <1>8, <2>1, <2>2, Parts DEF RowsSound, StaysInProperty
  <2>5. \A x \in ExpenseIds' :
            /\ expense'[x].block # None =>
                  block'[expense'[x].block].property = expense'[x].property
            /\ expense'[x].unit # None =>
                  unit'[expense'[x].unit].property = expense'[x].property
    BY <1>1, <1>2, <1>7, <1>8, <2>1, <2>3, Parts DEF RowsSound, StaysInProperty
  <2> QED
    BY <2>4, <2>5 DEF StaysInProperty
<1>12. NumbersUnique'
  BY <1>1, <1>7, <1>8 DEF NumbersUnique, NumbersApart, SamePlace, UnitIds
<1>13. IdsKept
  <2>1. \A u \in Units : unit[u] # None =>
            /\ unit'[u] # None
            /\ unit'[u] # Gone => unit[u] # Gone /\ unit'[u].property = unit[u].property
    BY <1>6, <1>7 DEF UnitIds, IsRow
  <2>2. \A a \in Blocks : block[a] # None =>
            /\ block'[a] # None
            /\ block'[a] # Gone => block[a] # Gone /\ block'[a].property = block[a].property
    BY <1>4, PortfolioConstants
  <2> QED
    BY <1>2, <2>1, <2>2 DEF IdsKept
<1> QED
  BY <1>9, <1>10, <1>11, <1>12, <1>13, OneStepKeeps DEF DropBlock, RowsSound

-----------------------------------------------------------------------------
(* Units.                                                                  *)

\* A unit row that is new, or changes but not its property, and passes the
\* database's checks in a block of its property.
LEMMA UnitWritten ==
    ASSUME PortfolioInv, NEW u \in Units, NEW r \in Unit,
           unit[u] = None \/ (IsRow(unit[u]) /\ unit[u].property = r.property),
           unit' = [unit EXCEPT ![u] = r],
           UnitRefs(r), NumbersApart(unit'),
           r.block # None => block[r.block].property = r.property,
           UNCHANGED <<property, tenant, retired, block, lease, expense>>
    PROVE  RowsSound' /\ IdsKept
PROOF
<1>1. \A v \in Units : unit'[v] = IF v = u THEN r ELSE unit[v]
  BY DEF PortfolioInv, TypeOK
<1>2. RowsTyped'
  BY Parts DEF RowsSound, RowsTyped
<1>3. IsRow(r)
  BY RowValues
<1>4. UnitIds' = UnitIds \cup {u} /\ BlockIds' = BlockIds /\ ExpenseIds' = ExpenseIds
  BY <1>1, <1>3 DEF UnitIds, BlockIds, ExpenseIds, IsRow
<1>5. NothingDangles'
  <2>1. \A v \in UnitIds' : UnitRefs(unit[v])'
    BY <1>1, <1>4, Parts DEF RowsSound, NothingDangles, UnitRefs, UnitIds
  <2> QED
    BY <1>4, <2>1, Parts DEF RowsSound, NothingDangles, BlockRefs, LeaseRefs, ExpenseRefs
<1>6. \A v \in UnitIds : unit'[v].property = unit[v].property
  BY <1>1 DEF UnitIds, IsRow
<1>7. StaysInProperty'
  <2>1. \A v \in UnitIds' : unit'[v].block # None =>
            block'[unit'[v].block].property = unit'[v].property
    BY <1>1, <1>4, Parts DEF RowsSound, StaysInProperty
  <2>2. \A x \in ExpenseIds : expense[x].unit # None => expense[x].unit \in UnitIds
    BY Parts DEF RowsSound, NothingDangles, ExpenseRefs
  <2>3. \A x \in ExpenseIds' :
            /\ expense'[x].block # None =>
                  block'[expense'[x].block].property = expense'[x].property
            /\ expense'[x].unit # None =>
                  unit'[expense'[x].unit].property = expense'[x].property
    BY <1>4, <1>6, <2>2, Parts DEF RowsSound, StaysInProperty
  <2> QED
    BY <2>1, <2>3 DEF StaysInProperty
<1>8. NumbersUnique'
  BY DEF NumbersUnique, NumbersApart, SamePlace, UnitIds
<1>9. IdsKept
  BY <1>1, <1>3 DEF IdsKept, IsRow
<1> QED
  BY <1>2, <1>5, <1>7, <1>8, <1>9 DEF RowsSound

LEMMA RequestChecked ==
    ASSUME PortfolioInv, NEW c \in Clients, NEW op, Doing(c, op)
    PROVE  Checked(request[c])
BY DEF PortfolioInv, ChecksHold, Doing

LEMMA AddUnitKeeps ==
    ASSUME PortfolioInv, NEW c \in Clients, AddUnit(c)
    PROVE  PortfolioInv'
PROOF
<1>1. PICK u \in Units : /\ unit[u] = None
                         /\ unit' = [unit EXCEPT ![u] = request[c].row]
                         /\ UnitRefs(request[c].row) /\ NumbersApart(unit')
  BY DEF AddUnit
<1>2. PICK r \in Unit : r = request[c].row
  BY InHand, RequestFields DEF AddUnit, PortfolioInv
<1>3. request[c].op = "addUnit" /\ Checked(request[c])
  BY InHand, RequestChecked DEF AddUnit, PortfolioInv
<1>4. r.block # None => block[r.block].property = r.property
  <2>1. r.block # None => r.block \in Blocks /\ IsRow(block[r.block])
    BY <1>1, <1>2 DEF UnitRefs, BlockIds
  <2>2. r.block \in Blocks => BlockIn(r.block, r.property)
    BY <1>2, <1>3 DEF Checked
  <2> QED
    BY <2>1, <2>2 DEF BlockIn
<1>5. RowsSound' /\ IdsKept
  BY <1>1, <1>2, <1>4, UnitWritten DEF AddUnit
<1> QED
  BY <1>5, WritingKeeps DEF AddUnit

LEMMA EditUnitKeeps ==
    ASSUME PortfolioInv, NEW c \in Clients, EditUnit(c)
    PROVE  PortfolioInv'
PROOF
<1> DEFINE q == request[c]
           u == q.id
<1>1. /\ u \in UnitIds /\ UnitRefs(unit'[u]) /\ NumbersApart(unit')
      /\ unit' = Edited(u, q.block, q.number)
  BY DEF EditUnit
<1>2. q \in Request /\ q.op = "editUnit" /\ Checked(q)
  BY InHand, RequestChecked DEF EditUnit, PortfolioInv
<1>3. q.block \in Blocks \cup {None, Keep} /\ q.number \in Numbers \cup {Keep}
  BY <1>2, RequestFields
<1>4. u \in Units /\ IsRow(unit[u]) /\ unit[u] \in Unit
  BY <1>1, RowsHaveTypes DEF UnitIds, PortfolioInv
<1> HIDE DEF q
<1> HIDE DEF u
<1> DEFINE r == [property |-> unit[u].property, block |-> Given(q.block, unit[u].block),
                 number |-> Given(q.number, unit[u].number)]
<1>5. r \in Unit
  BY <1>3, <1>4 DEF Given, Unit
<1>6. unit' = [unit EXCEPT ![u] = r] /\ unit'[u] = r
  BY <1>1, <1>4 DEF Edited, PortfolioInv, TypeOK
<1>7. r.block # None => block[r.block].property = r.property
  <2>1. r.block # None => r.block \in Blocks /\ IsRow(block[r.block])
    BY <1>1, <1>5, <1>6 DEF UnitRefs, BlockIds, Unit
  <2>2. CASE q.block = Keep
    <3>1. unit[u].block # None => block[unit[u].block].property = unit[u].property
      BY <1>1, Parts DEF RowsSound, StaysInProperty
    <3> QED
      BY <2>2, <3>1 DEF Given
  <2>3. CASE q.block \in Blocks
    <3>1. BlockIn(q.block, unit[u].property)
      BY <1>2, <1>4, <2>3 DEF Checked, u
    <3>2. r.block = q.block
      BY <2>3, PortfolioConstants DEF Given
    <3> QED
      BY <2>1, <3>1, <3>2 DEF BlockIn
  <2>4. CASE q.block = None
    BY <2>4, PortfolioConstants DEF Given
  <2> QED
    BY <1>3, <2>2, <2>3, <2>4
<1>8. UNCHANGED <<property, tenant, retired, block, lease, expense>>
  BY DEF EditUnit
<1>9. IsRow(unit[u]) /\ unit[u].property = r.property
  BY <1>4
<1> HIDE DEF r
<1>10. RowsSound' /\ IdsKept
  BY <1>1, <1>4, <1>5, <1>6, <1>7, <1>8, <1>9, UnitWritten
<1> QED
  BY <1>10, WritingKeeps DEF EditUnit

LEMMA DropUnitKeeps ==
    ASSUME PortfolioInv, NEW c \in Clients, DropUnit(c)
    PROVE  PortfolioInv'
PROOF
<1>1. PICK u \in UnitIds : Unreferenced(u) /\ unit' = [unit EXCEPT ![u] = Gone]
  BY DEF DropUnit
<1>2. UNCHANGED <<property, tenant, retired, block, lease, expense>>
  BY DEF DropUnit
<1>3. u \in Units /\ u # None
  BY PortfolioConstants DEF UnitIds
<1>4. \A v \in Units : unit'[v] = IF v = u THEN Gone ELSE unit[v]
  BY <1>1, <1>3 DEF PortfolioInv, TypeOK
<1>5. UnitIds' = UnitIds \ {u} /\ BlockIds' = BlockIds /\ ExpenseIds' = ExpenseIds
  BY <1>2, <1>4 DEF UnitIds, BlockIds, ExpenseIds, IsRow
<1>6. RowsTyped'
  BY <1>1, <1>2, Parts DEF RowsSound, RowsTyped
<1>7. \A v \in UnitIds' : unit'[v] = unit[v] /\ v \in UnitIds
  BY <1>4, <1>5 DEF UnitIds
<1>8. NothingDangles'
  <2>1. \A v \in UnitIds' : UnitRefs(unit[v])'
    BY <1>2, <1>5, <1>7, Parts DEF RowsSound, NothingDangles, UnitRefs
  <2>2. \A l \in lease' : LeaseRefs(l)'
    BY <1>1, <1>2, <1>5, Parts DEF RowsSound, NothingDangles, LeaseRefs, Unreferenced
  <2>3. \A x \in ExpenseIds' : ExpenseRefs(expense[x])'
    BY <1>1, <1>2, <1>5, Parts DEF RowsSound, NothingDangles, ExpenseRefs, Unreferenced
  <2>4. \A b \in BlockIds' : BlockRefs(block[b])'
    BY <1>2, <1>5, Parts DEF RowsSound, NothingDangles, BlockRefs
  <2> QED
    BY <2>1, <2>2, <2>3, <2>4 DEF NothingDangles
<1>9. StaysInProperty'
  <2>1. \A x \in ExpenseIds : expense[x].unit # None => expense[x].unit \in UnitIds \ {u}
    BY <1>1, Parts DEF RowsSound, NothingDangles, ExpenseRefs, Unreferenced
  <2> QED
    BY <1>2, <1>5, <1>7, <2>1, Parts DEF RowsSound, StaysInProperty
<1>10. NumbersUnique'
  BY <1>7, Parts DEF RowsSound, NumbersUnique
<1>11. IdsKept
  BY <1>2, <1>4, PortfolioConstants DEF IdsKept
<1> QED
  BY <1>6, <1>8, <1>9, <1>10, <1>11, WritingKeeps DEF DropUnit, RowsSound

-----------------------------------------------------------------------------
(* Expenses.                                                               *)

LEMMA ExpenseWritten ==
    ASSUME PortfolioInv, NEW x \in Expenses, NEW r \in Expense,
           expense[x] = None \/ (IsRow(expense[x]) /\ expense[x].property = r.property),
           expense' = [expense EXCEPT ![x] = r],
           ExpenseRefs(r),
           r.block # None => block[r.block].property = r.property,
           r.unit # None => unit[r.unit].property = r.property,
           UNCHANGED <<property, tenant, retired, block, unit, lease>>
    PROVE  RowsSound' /\ IdsKept
PROOF
<1>1. \A y \in Expenses : expense'[y] = IF y = x THEN r ELSE expense[y]
  BY DEF PortfolioInv, TypeOK
<1>2. RowsTyped'
  BY Parts DEF RowsSound, RowsTyped
<1>3. IsRow(r)
  BY RowValues
<1>4. ExpenseIds' = ExpenseIds \cup {x} /\ BlockIds' = BlockIds /\ UnitIds' = UnitIds
  BY <1>1, <1>3 DEF UnitIds, BlockIds, ExpenseIds, IsRow
<1>5. NothingDangles'
  <2>1. \A y \in ExpenseIds' : ExpenseRefs(expense[y])'
    BY <1>1, <1>4, Parts DEF RowsSound, NothingDangles, ExpenseRefs, ExpenseIds
  <2> QED
    BY <1>4, <2>1, Parts DEF RowsSound, NothingDangles, BlockRefs, LeaseRefs, UnitRefs
<1>6. StaysInProperty'
  BY <1>1, <1>4, Parts DEF RowsSound, StaysInProperty
<1>7. NumbersUnique'
  BY <1>4, Parts DEF RowsSound, NumbersUnique
<1>8. IdsKept
  BY <1>1, <1>3 DEF IdsKept, IsRow
<1> QED
  BY <1>2, <1>5, <1>6, <1>7, <1>8 DEF RowsSound

LEMMA SpendKeeps ==
    ASSUME PortfolioInv, NEW c \in Clients, Spend(c)
    PROVE  PortfolioInv'
PROOF
<1>1. PICK x \in Expenses : /\ expense[x] = None /\ ExpenseRefs(request[c].row)
                            /\ expense' = [expense EXCEPT ![x] = request[c].row]
  BY DEF Spend
<1>2. PICK r \in Expense : r = request[c].row
  BY InHand, RequestFields DEF Spend, PortfolioInv
<1>3. request[c].op = "spend" /\ Checked(request[c])
  BY InHand, RequestChecked DEF Spend, PortfolioInv
<1>4. /\ r.block # None => block[r.block].property = r.property
      /\ r.unit # None => unit[r.unit].property = r.property
  <2>1. /\ r.block # None => r.block \in Blocks /\ IsRow(block[r.block])
        /\ r.unit # None => r.unit \in Units /\ IsRow(unit[r.unit])
    BY <1>1, <1>2 DEF ExpenseRefs, BlockIds, UnitIds
  <2>2. /\ r.block \in Blocks => BlockIn(r.block, r.property)
        /\ r.unit \in Units => UnitIn(r.unit, r.property)
    BY <1>2, <1>3 DEF Checked
  <2> QED
    BY <2>1, <2>2 DEF BlockIn, UnitIn
<1>5. RowsSound' /\ IdsKept
  BY <1>1, <1>2, <1>4, ExpenseWritten DEF Spend
<1> QED
  BY <1>5, WritingKeeps DEF Spend

LEMMA RespendKeeps ==
    ASSUME PortfolioInv, NEW c \in Clients, Respend(c)
    PROVE  PortfolioInv'
PROOF
<1> DEFINE q == request[c]
           x == q.id
<1>1. /\ x \in ExpenseIds /\ ExpenseRefs(expense'[x])
      /\ expense' = [expense EXCEPT ![x] =
                        [property |-> @.property, block |-> Given(q.block, @.block),
                         unit |-> Given(q.unit, @.unit)]]
  BY DEF Respend
<1>2. q \in Request /\ q.op = "respend" /\ Checked(q)
  BY InHand, RequestChecked DEF Respend, PortfolioInv
<1>3. q.block \in Blocks \cup {None, Keep} /\ q.unit \in Units \cup {None, Keep}
  BY <1>2, RequestFields
<1>4. x \in Expenses /\ IsRow(expense[x]) /\ expense[x] \in Expense
  BY <1>1, RowsHaveTypes DEF ExpenseIds, PortfolioInv
<1>5. /\ q.block \in Blocks => BlockIn(q.block, expense[x].property)
      /\ q.unit \in Units => UnitIn(q.unit, expense[x].property)
  BY <1>2, <1>4 DEF Checked
<1> HIDE DEF q
<1> HIDE DEF x
<1> DEFINE r == [property |-> expense[x].property, block |-> Given(q.block, expense[x].block),
                 unit |-> Given(q.unit, expense[x].unit)]
<1>6. r \in Expense
  BY <1>3, <1>4 DEF Given, Expense
<1>7. expense' = [expense EXCEPT ![x] = r] /\ expense'[x] = r
  BY <1>1, <1>4 DEF PortfolioInv, TypeOK
<1>8. /\ r.block # None => r.block \in Blocks /\ IsRow(block[r.block])
      /\ r.unit # None => r.unit \in Units /\ IsRow(unit[r.unit])
  BY <1>1, <1>6, <1>7 DEF ExpenseRefs, BlockIds, UnitIds, Expense
<1>9. /\ expense[x].block # None => block[expense[x].block].property = expense[x].property
      /\ expense[x].unit # None => unit[expense[x].unit].property = expense[x].property
  BY <1>1, Parts DEF RowsSound, StaysInProperty
<1>10. r.block # None => block[r.block].property = r.property
  BY <1>3, <1>5, <1>8, <1>9 DEF Given, BlockIn
<1>11. r.unit # None => unit[r.unit].property = r.property
  BY <1>3, <1>5, <1>8, <1>9 DEF Given, UnitIn
<1>12. UNCHANGED <<property, tenant, retired, block, unit, lease>>
  BY DEF Respend
<1>13. IsRow(expense[x]) /\ expense[x].property = r.property
  BY <1>4
<1> HIDE DEF r
<1>14. RowsSound' /\ IdsKept
  BY <1>1, <1>4, <1>6, <1>7, <1>10, <1>11, <1>12, <1>13, ExpenseWritten
<1> QED
  BY <1>14, WritingKeeps DEF Respend

LEMMA DropExpenseKeeps ==
    ASSUME PortfolioInv, DropExpense
    PROVE  PortfolioInv'
PROOF
<1>1. PICK x \in ExpenseIds : expense' = [expense EXCEPT ![x] = Gone]
  BY DEF DropExpense
<1>2. UNCHANGED <<property, tenant, retired, block, unit, lease>>
  BY DEF DropExpense
<1>3. \A y \in Expenses : expense'[y] = IF y = x THEN Gone ELSE expense[y]
  BY <1>1 DEF PortfolioInv, TypeOK, ExpenseIds
<1>4. ExpenseIds' = ExpenseIds \ {x} /\ BlockIds' = BlockIds /\ UnitIds' = UnitIds
  BY <1>2, <1>3 DEF UnitIds, BlockIds, ExpenseIds, IsRow
<1>5. \A y \in ExpenseIds' : expense'[y] = expense[y] /\ y \in ExpenseIds
  BY <1>3, <1>4 DEF ExpenseIds
<1>6. RowsTyped'
  BY <1>1, <1>2, Parts DEF RowsSound, RowsTyped
<1>7. NothingDangles' /\ StaysInProperty' /\ NumbersUnique'
  BY <1>2, <1>4, <1>5, Parts DEF RowsSound, NothingDangles, StaysInProperty, NumbersUnique,
     BlockRefs, UnitRefs, LeaseRefs, ExpenseRefs
<1>8. IdsKept
  BY <1>2, <1>3, PortfolioConstants DEF IdsKept
<1> QED
  BY <1>6, <1>7, <1>8, OneStepKeeps DEF DropExpense, RowsSound

-----------------------------------------------------------------------------
(* The checks: what a client takes along was there when it looked.         *)

LEMMA Placed ==
    ASSUME PortfolioInv, NEW p \in Props
    PROVE  /\ \A b \in BlocksOf(p) : /\ b \in Blocks \cup {None}
                                     /\ b \in Blocks => BlockIn(b, p)
           /\ \A u \in UnitsOf(p) : /\ u \in Units \cup {None}
                                    /\ u \in Units => UnitIn(u, p)
BY PortfolioConstants DEF BlocksOf, UnitsOf, BlockIds, UnitIds, BlockIn, UnitIn, IsRow

LEMMA CheckDropsKeep ==
    ASSUME PortfolioInv, NEW c \in Clients,
           CheckDropProperty(c) \/ CheckDropUnit(c) \/ CheckDropTenant(c)
    PROVE  PortfolioInv'
PROOF
<1>1. CASE CheckDropProperty(c)
  <2>1. PICK p \in property : Passed(c, [op |-> "dropProperty", id |-> p])
    BY <1>1 DEF CheckDropProperty
  <2> DEFINE q == [op |-> "dropProperty", id |-> p]
  <2>2. q \in Request /\ Checked(q) /\ q.op \notin {"file", "shred"}
    BY DEF Request, Checked, PortfolioInv, TypeOK
  <2> QED
    BY <2>1, <2>2, PassingKeeps
<1>2. CASE CheckDropUnit(c)
  <2>1. PICK u \in UnitIds : Passed(c, [op |-> "dropUnit", id |-> u])
    BY <1>2 DEF CheckDropUnit
  <2> DEFINE q == [op |-> "dropUnit", id |-> u]
  <2>2. q \in Request /\ Checked(q) /\ q.op \notin {"file", "shred"}
    BY DEF Request, Checked, UnitIds
  <2> QED
    BY <2>1, <2>2, PassingKeeps
<1>3. CASE CheckDropTenant(c)
  <2>1. PICK t \in tenant : Passed(c, [op |-> "dropTenant", id |-> t])
    BY <1>3 DEF CheckDropTenant
  <2> DEFINE q == [op |-> "dropTenant", id |-> t]
  <2>2. q \in Request /\ Checked(q) /\ q.op \notin {"file", "shred"}
    BY DEF Request, Checked, PortfolioInv, TypeOK
  <2> QED
    BY <2>1, <2>2, PassingKeeps
<1> QED
  BY <1>1, <1>2, <1>3

LEMMA CheckAddBlockKeeps ==
    ASSUME PortfolioInv, NEW c \in Clients, CheckAddBlock(c)
    PROVE  PortfolioInv'
PROOF
<1>1. PICK p \in property : Passed(c, [op |-> "addBlock", row |-> [property |-> p]])
  BY DEF CheckAddBlock
<1> DEFINE q == [op |-> "addBlock", row |-> [property |-> p]]
<1>2. q \in Request /\ Checked(q) /\ q.op \notin {"file", "shred"}
  BY DEF Request, Block, Checked, PortfolioInv, TypeOK
<1> QED
  BY <1>1, <1>2, PassingKeeps

LEMMA CheckSignKeeps ==
    ASSUME PortfolioInv, NEW c \in Clients, CheckSign(c)
    PROVE  PortfolioInv'
PROOF
<1>1. PICK u \in UnitIds, t \in tenant :
        Passed(c, [op |-> "sign", row |-> [unit |-> u, block |-> unit[u].block, tenant |-> t]])
  BY DEF CheckSign
<1> DEFINE l == [unit |-> u, block |-> unit[u].block, tenant |-> t]
           q == [op |-> "sign", row |-> l]
<1>2. l \in Lease
  BY RowsHaveTypes DEF Lease, Unit, UnitIds, PortfolioInv, TypeOK
<1>3. q \in Request /\ Checked(q) /\ q.op \notin {"file", "shred"}
  BY <1>2 DEF Request, Checked
<1> QED
  BY <1>1, <1>3, PassingKeeps

LEMMA CheckAddUnitKeeps ==
    ASSUME PortfolioInv, NEW c \in Clients, CheckAddUnit(c)
    PROVE  PortfolioInv'
PROOF
<1>1. PICK p \in property, n \in Numbers : \E b \in BlocksOf(p) :
        Passed(c, [op |-> "addUnit", row |-> [property |-> p, block |-> b, number |-> n]])
  BY DEF CheckAddUnit
<1>2. PICK b \in BlocksOf(p) :
        Passed(c, [op |-> "addUnit", row |-> [property |-> p, block |-> b, number |-> n]])
  BY <1>1
<1>3. p \in Props
  BY DEF PortfolioInv, TypeOK
<1>4. b \in Blocks \cup {None} /\ (b \in Blocks => BlockIn(b, p))
  BY <1>3, Placed
<1> DEFINE r == [property |-> p, block |-> b, number |-> n]
           q == [op |-> "addUnit", row |-> r]
<1>5. r \in Unit
  BY <1>3, <1>4 DEF Unit
<1>6. q \in Request /\ Checked(q) /\ q.op \notin {"file", "shred"}
  BY <1>4, <1>5 DEF Request, Checked
<1> QED
  BY <1>2, <1>6, PassingKeeps

LEMMA CheckEditUnitKeeps ==
    ASSUME PortfolioInv, NEW c \in Clients, CheckEditUnit(c)
    PROVE  PortfolioInv'
PROOF
<1>1. PICK u \in UnitIds, b \in Blocks \cup {None, Keep}, n \in Numbers \cup {Keep} :
        /\ b # unit[u].block
        /\ Given(b, unit[u].block) \in BlocksOf(unit[u].property) \cup {unit[u].block}
        /\ Passed(c, [op |-> "editUnit", id |-> u, block |-> b, number |-> n])
  BY DEF CheckEditUnit
<1>2. u \in Units /\ IsRow(unit[u]) /\ unit[u].property \in Props
  BY RowsHaveTypes DEF UnitIds, Unit, PortfolioInv
<1>3. b \in Blocks => BlockIn(b, unit[u].property)
  BY <1>1, <1>2, Placed, PortfolioConstants DEF Given
<1> DEFINE q == [op |-> "editUnit", id |-> u, block |-> b, number |-> n]
<1>4. q \in Request
  BY <1>1, <1>2 DEF Request
<1>5. Checked(q) /\ q.op \notin {"file", "shred"}
  BY <1>2, <1>3 DEF Checked, IsRow
<1> QED
  BY <1>1, <1>4, <1>5, PassingKeeps

LEMMA CheckSpendKeeps ==
    ASSUME PortfolioInv, NEW c \in Clients, CheckSpend(c)
    PROVE  PortfolioInv'
PROOF
<1>1. PICK p \in property : \E b \in BlocksOf(p), u \in UnitsOf(p) :
        Passed(c, [op |-> "spend", row |-> [property |-> p, block |-> b, unit |-> u]])
  BY DEF CheckSpend
<1>2. PICK b \in BlocksOf(p), u \in UnitsOf(p) :
        Passed(c, [op |-> "spend", row |-> [property |-> p, block |-> b, unit |-> u]])
  BY <1>1
<1>3. p \in Props
  BY DEF PortfolioInv, TypeOK
<1>4. /\ b \in Blocks \cup {None} /\ (b \in Blocks => BlockIn(b, p))
      /\ u \in Units \cup {None} /\ (u \in Units => UnitIn(u, p))
  BY <1>3, Placed
<1> DEFINE r == [property |-> p, block |-> b, unit |-> u]
           q == [op |-> "spend", row |-> r]
<1>5. r \in Expense
  BY <1>3, <1>4 DEF Expense
<1>6. q \in Request /\ Checked(q) /\ q.op \notin {"file", "shred"}
  BY <1>4, <1>5 DEF Request, Checked
<1> QED
  BY <1>2, <1>6, PassingKeeps

LEMMA CheckRespendKeeps ==
    ASSUME PortfolioInv, NEW c \in Clients, CheckRespend(c)
    PROVE  PortfolioInv'
PROOF
<1>1. PICK x \in ExpenseIds, b \in Blocks \cup {None, Keep}, u \in Units \cup {None, Keep} :
        /\ Given(b, expense[x].block) \in BlocksOf(expense[x].property)
        /\ Given(u, expense[x].unit) \in UnitsOf(expense[x].property)
        /\ Passed(c, [op |-> "respend", id |-> x, block |-> b, unit |-> u])
  BY DEF CheckRespend
<1>2. x \in Expenses /\ IsRow(expense[x]) /\ expense[x].property \in Props
  BY RowsHaveTypes DEF ExpenseIds, Expense, PortfolioInv
<1>3. /\ b \in Blocks => BlockIn(b, expense[x].property)
      /\ u \in Units => UnitIn(u, expense[x].property)
  BY <1>1, <1>2, Placed, PortfolioConstants DEF Given
<1> DEFINE q == [op |-> "respend", id |-> x, block |-> b, unit |-> u]
<1>4. q \in Request
  BY <1>1, <1>2 DEF Request
<1>5. Checked(q) /\ q.op \notin {"file", "shred"}
  BY <1>2, <1>3 DEF Checked, IsRow
<1> QED
  BY <1>1, <1>4, <1>5, PassingKeeps

-----------------------------------------------------------------------------
(* Documents.                                                              *)

\* Requests that carry a document say nothing of the rows.
LEMMA FilingKeeps ==
    ASSUME PortfolioInv, NEW c \in Clients, NEW q \in Request \cup {None},
           q = None \/ q.op \in {"file", "shred"},
           request' = [request EXCEPT ![c] = q], UNCHANGED rows, FilesSound'
    PROVE  PortfolioInv'
PROOF
<1>1. q \in Request => Checked(q)
  BY RowValues DEF Checked
<1> QED
  BY <1>1, RowsAlone, SameIds, RequestsStay, Together

LEMMA Filing ==
    ASSUME NEW d \in Docs, NEW e \in Entities
    PROVE  /\ [op |-> "file", id |-> d, about |-> e] \in Request
           /\ [op |-> "shred", id |-> d] \in Request
BY DEF Request

LEMMA PutObjectKeeps ==
    ASSUME PortfolioInv, NEW c \in Clients, PutObject(c)
    PROVE  PortfolioInv'
PROOF
<1>1. PICK d \in Docs, e \in Entities :
        /\ Fresh(d)
        /\ stored' = stored \cup {d}
        /\ request' = [request EXCEPT ![c] = [op |-> "file", id |-> d, about |-> e]]
  BY DEF PutObject
<1> DEFINE q == [op |-> "file", id |-> d, about |-> e]
<1>2. q \in Request /\ q # None /\ q.op = "file" /\ q.id = d
  BY Filing, RowValues
<1> HIDE DEF q
<1>3. \A f \in Clients : request'[f] = IF f = c THEN q ELSE request[f]
  BY <1>1 DEF PortfolioInv, TypeOK, q
<1>4. UNCHANGED <<rows, document, unheard>>
  BY DEF PutObject
<1>5. KeysApart'
  <2>1. \A f \in Clients : /\ Doing(f, "file")' => f = c \/ Doing(f, "file")
                           /\ Doing(f, "shred")' => f # c /\ Doing(f, "shred")
    BY <1>2, <1>3 DEF Doing
  <2>2. \A f \in Clients : Doing(f, "file") \/ Doing(f, "shred") => request[f].id # d
    BY <1>1 DEF Fresh, PortfolioInv, KeysApart
  <2>3. \A f \in Clients : /\ Doing(f, "file")' => document'[request'[f].id] = None
                                                   /\ request'[f].id \in stored'
                           /\ Doing(f, "shred")' => request'[f].id \notin (DocIds \ unheard)'
    BY <1>1, <1>2, <1>3, <1>4, <2>1 DEF Fresh, PortfolioInv, KeysApart, DocIds
  <2>4. \A f, g \in Clients :
          f # g /\ Doing(f, "file")' /\ (Doing(g, "file")' \/ Doing(g, "shred")')
          => request'[f].id # request'[g].id
    BY <1>2, <1>3, <2>1, <2>2 DEF PortfolioInv, KeysApart
  <2> QED
    BY <2>3, <2>4 DEF KeysApart
<1>6. FilesSound'
  BY <1>1, <1>4, <1>5 DEF FilesSound, PortfolioInv, TypeOK, DocumentHasObject, DocIds
<1> QED
  BY <1>1, <1>2, <1>4, <1>6, FilingKeeps DEF q

LEMMA CreateRowKeeps ==
    ASSUME PortfolioInv, NEW c \in Clients, CreateRow(c)
    PROVE  PortfolioInv'
PROOF
<1>1. PICK d \in Docs, e \in Entities :
        /\ d = request[c].id /\ e = request[c].about
        /\ Doing(c, "file")
        /\ document' = [document EXCEPT ![d] = [about |-> e]]
        /\ request' = [request EXCEPT ![c] = None]
  BY InHand, RequestFields DEF CreateRow, Filed, Finish, PortfolioInv
<1>2. UNCHANGED <<rows, stored, unheard>>
  BY DEF CreateRow
<1>3. \A f \in Clients : request'[f] = IF f = c THEN None ELSE request[f]
  BY <1>1 DEF PortfolioInv, TypeOK
<1>4. \A x \in Docs : document'[x] = IF x = d THEN [about |-> e] ELSE document[x]
  BY <1>1 DEF PortfolioInv, TypeOK
<1>5. DocIds' \subseteq DocIds \cup {d}
  BY <1>4 DEF DocIds, IsRow
<1>6. \A f \in Clients : /\ Doing(f, "file")' => f # c /\ Doing(f, "file")
                         /\ Doing(f, "shred")' => f # c /\ Doing(f, "shred")
  BY <1>3 DEF Doing
<1>7. \A f \in Clients : Doing(f, "file") \/ Doing(f, "shred") => request[f].id \in Docs
  BY InHand, RequestFields DEF PortfolioInv
<1>8. \A f \in Clients : f # c /\ (Doing(f, "file") \/ Doing(f, "shred")) => request[f].id # d
  BY <1>1 DEF PortfolioInv, KeysApart
<1>9. KeysApart'
  BY <1>2, <1>3, <1>4, <1>5, <1>6, <1>7, <1>8 DEF PortfolioInv, KeysApart
<1>10. [about |-> e] \in Document
  BY DEF Document
<1>11. d \in stored
  BY <1>1 DEF PortfolioInv, KeysApart
<1>12. FilesSound'
  BY <1>1, <1>2, <1>5, <1>9, <1>10, <1>11 DEF FilesSound, PortfolioInv, TypeOK,
     DocumentHasObject
<1> QED
  BY <1>1, <1>2, <1>12, FilingKeeps

LEMMA LoseAnswerKeeps ==
    ASSUME PortfolioInv, NEW c \in Clients, LoseAnswer(c)
    PROVE  PortfolioInv'
PROOF
<1>1. PICK d \in Docs, e \in Entities :
        /\ d = request[c].id /\ e = request[c].about
        /\ Doing(c, "file")
        /\ document' = [document EXCEPT ![d] = [about |-> e]]
        /\ unheard' = unheard \cup {d}
        /\ Shred(c, d)
  BY InHand, RequestFields DEF LoseAnswer, Filed, PortfolioInv
<1> DEFINE q == [op |-> "shred", id |-> d]
<1>2. q \in Request /\ q # None /\ q.op = "shred" /\ q.id = d
  BY RowValues DEF Request
<1> HIDE DEF q
<1>3. UNCHANGED <<rows, stored>> /\ request' = [request EXCEPT ![c] = q]
  BY <1>1 DEF LoseAnswer, Shred, q
<1>4. \A f \in Clients : request'[f] = IF f = c THEN q ELSE request[f]
  BY <1>3 DEF PortfolioInv, TypeOK
<1>5. \A f \in Clients : /\ Doing(f, "file")' => f # c /\ Doing(f, "file")
                         /\ Doing(f, "shred")' => f = c \/ Doing(f, "shred")
  BY <1>2, <1>4 DEF Doing
<1>6. \A x \in Docs : document'[x] = IF x = d THEN [about |-> e] ELSE document[x]
  BY <1>1 DEF PortfolioInv, TypeOK
<1>7. (DocIds \ unheard)' \subseteq DocIds \ unheard /\ d \notin (DocIds \ unheard)'
  BY <1>1, <1>6 DEF DocIds, IsRow
<1>8. \A f \in Clients : f # c /\ Doing(f, "file") => request[f].id \in Docs \ {d}
  BY <1>1, InHand, RequestFields DEF PortfolioInv, KeysApart
<1>9. KeysApart'
  BY <1>2, <1>3, <1>4, <1>5, <1>6, <1>7, <1>8 DEF PortfolioInv, KeysApart
<1>10. [about |-> e] \in Document
  BY DEF Document
<1>11. FilesSound'
  BY <1>1, <1>3, <1>7, <1>9, <1>10 DEF FilesSound, PortfolioInv, TypeOK, DocumentHasObject
<1> QED
  BY <1>2, <1>3, <1>11, FilingKeeps

LEMMA RefuseRowKeeps ==
    ASSUME PortfolioInv, NEW c \in Clients, RefuseRow(c)
    PROVE  PortfolioInv'
PROOF
<1>1. PICK d \in Docs : d = request[c].id /\ Doing(c, "file") /\ Shred(c, d)
  BY InHand, RequestFields DEF RefuseRow, PortfolioInv
<1> DEFINE q == [op |-> "shred", id |-> d]
<1>2. q \in Request /\ q # None /\ q.op = "shred" /\ q.id = d
  BY RowValues DEF Request
<1> HIDE DEF q
<1>3. UNCHANGED <<rows, files>> /\ request' = [request EXCEPT ![c] = q]
  BY <1>1 DEF RefuseRow, Shred, q
<1>4. \A f \in Clients : request'[f] = IF f = c THEN q ELSE request[f]
  BY <1>3 DEF PortfolioInv, TypeOK
<1>5. \A f \in Clients : /\ Doing(f, "file")' => f # c /\ Doing(f, "file")
                         /\ Doing(f, "shred")' => f = c \/ Doing(f, "shred")
  BY <1>2, <1>4 DEF Doing
<1>6. d \notin DocIds /\ DocIds' = DocIds
  BY <1>1, <1>3 DEF PortfolioInv, KeysApart, DocIds, IsRow, files
<1>7. \A f \in Clients : f # c /\ Doing(f, "file") => request[f].id # d
  BY <1>1 DEF PortfolioInv, KeysApart
<1>8. KeysApart'
  BY <1>2, <1>3, <1>4, <1>5, <1>6, <1>7 DEF PortfolioInv, KeysApart, files
<1>9. FilesSound'
  BY <1>3, <1>6, <1>8 DEF FilesSound, PortfolioInv, TypeOK, DocumentHasObject, files
<1> QED
  BY <1>2, <1>3, <1>9, FilingKeeps

LEMMA DeleteRowKeeps ==
    ASSUME PortfolioInv, NEW c \in Clients, DeleteRow(c)
    PROVE  PortfolioInv'
PROOF
<1>1. PICK d \in DocIds : /\ document' = [document EXCEPT ![d] = None]
                          /\ unheard' = unheard \ {d}
                          /\ Shred(c, d)
  BY DEF DeleteRow, RowDropped
<1> DEFINE q == [op |-> "shred", id |-> d]
<1>2. d \in Docs /\ q \in Request /\ q # None /\ q.op = "shred" /\ q.id = d
  BY RowValues DEF Request, DocIds
<1> HIDE DEF q
<1>3. UNCHANGED <<rows, stored>> /\ request' = [request EXCEPT ![c] = q]
  BY <1>1 DEF DeleteRow, Shred, q
<1>4. \A f \in Clients : request'[f] = IF f = c THEN q ELSE request[f]
  BY <1>3 DEF PortfolioInv, TypeOK
<1>5. \A f \in Clients : /\ Doing(f, "file")' => f # c /\ Doing(f, "file")
                         /\ Doing(f, "shred")' => f = c \/ Doing(f, "shred")
  BY <1>2, <1>4 DEF Doing
<1>6. \A x \in Docs : document'[x] = IF x = d THEN None ELSE document[x]
  BY <1>1, <1>2 DEF PortfolioInv, TypeOK
<1>7. (DocIds \ unheard)' = (DocIds \ unheard) \ {d}
  BY <1>1, <1>6 DEF DocIds, IsRow
<1>8. \A f \in Clients : Doing(f, "file") => request[f].id \in Docs /\ request[f].id # d
  BY InHand, RequestFields DEF PortfolioInv, KeysApart, DocIds, IsRow
<1>9. KeysApart'
  BY <1>2, <1>3, <1>4, <1>5, <1>6, <1>7, <1>8 DEF PortfolioInv, KeysApart
<1>10. FilesSound'
  BY <1>1, <1>3, <1>7, <1>9 DEF FilesSound, PortfolioInv, TypeOK, DocumentHasObject
<1> QED
  BY <1>2, <1>3, <1>10, FilingKeeps

LEMMA DeleteObjectKeeps ==
    ASSUME PortfolioInv, NEW c \in Clients, DeleteObject(c)
    PROVE  PortfolioInv'
PROOF
<1>1. PICK d \in Docs : /\ d = request[c].id /\ Doing(c, "shred")
                        /\ stored' = stored \ {d}
                        /\ request' = [request EXCEPT ![c] = None]
  BY InHand, RequestFields DEF DeleteObject, Finish, PortfolioInv
<1>2. UNCHANGED <<rows, document, unheard>>
  BY DEF DeleteObject
<1>3. \A f \in Clients : request'[f] = IF f = c THEN None ELSE request[f]
  BY <1>1 DEF PortfolioInv, TypeOK
<1>4. \A f \in Clients : /\ Doing(f, "file")' => f # c /\ Doing(f, "file")
                         /\ Doing(f, "shred")' => f # c /\ Doing(f, "shred")
  BY <1>3 DEF Doing
<1>5. DocIds' = DocIds /\ d \notin DocIds \ unheard
  BY <1>1, <1>2 DEF DocIds, IsRow, PortfolioInv, KeysApart
<1>6. \A f \in Clients : Doing(f, "file") => request[f].id # d
  BY <1>1 DEF PortfolioInv, KeysApart, Doing
<1>7. KeysApart'
  BY <1>1, <1>2, <1>3, <1>4, <1>5, <1>6 DEF PortfolioInv, KeysApart
<1>8. FilesSound'
  BY <1>1, <1>2, <1>5, <1>7 DEF FilesSound, PortfolioInv, TypeOK, DocumentHasObject
<1> QED
  BY <1>1, <1>2, <1>8, FilingKeeps

\* A request that is given up: what it carried stays where it is.
LEMMA LeaveKeeps ==
    ASSUME PortfolioInv, NEW c \in Clients, Leave(c)
    PROVE  PortfolioInv'
PROOF
<1>1. FilesSound'
  BY FilesAlone DEF Leave, Finish
<1> QED
  BY <1>1, FilingKeeps DEF Leave, Finish

-----------------------------------------------------------------------------
(* The theorems.                                                           *)

LEMMA PortfolioStarts ==
    ASSUME Init
    PROVE  PortfolioInv
PROOF
<1>1. BlockIds = {} /\ UnitIds = {} /\ ExpenseIds = {} /\ DocIds = {}
  BY DEF Init, BlockIds, UnitIds, ExpenseIds, DocIds, IsRow
<1>2. \A c \in Clients : request[c] = None
  BY DEF Init
<1>3. TypeOK
  BY DEF Init, TypeOK
<1>4. NothingDangles /\ StaysInProperty /\ NumbersUnique /\ DocumentHasObject
  BY <1>1 DEF Init, NothingDangles, StaysInProperty, NumbersUnique, DocumentHasObject
<1> QED
  BY <1>2, <1>3, <1>4 DEF PortfolioInv, ChecksHold, KeysApart, Doing

LEMMA PortfolioSteps ==
    ASSUME PortfolioInv, [Next]_vars
    PROVE  PortfolioInv'
PROOF
<1>1. CASE UNCHANGED vars
  <2>1. UNCHANGED <<rows, files, request>>
    BY <1>1 DEF vars, rows, files
  <2> QED
    BY <2>1, RowsAlone, SameIds, OneStepKeeps
<1>2. CASE AddProperty \/ AddTenant \/ DropBlock \/ DropExpense
  BY <1>2, AddPropertyKeeps, AddTenantKeeps, DropBlockKeeps, DropExpenseKeeps
<1>3. ASSUME NEW c \in Clients, ClientStep(c) PROVE PortfolioInv'
  <2>1. CASE CheckDropProperty(c) \/ CheckDropUnit(c) \/ CheckDropTenant(c)
             \/ CheckAddBlock(c) \/ CheckSign(c) \/ CheckAddUnit(c) \/ CheckEditUnit(c)
             \/ CheckSpend(c) \/ CheckRespend(c)
    BY <2>1, CheckDropsKeep, CheckAddBlockKeeps, CheckSignKeeps, CheckAddUnitKeeps,
       CheckEditUnitKeeps, CheckSpendKeeps, CheckRespendKeeps
  <2>2. CASE DropProperty(c) \/ AddBlock(c) \/ AddUnit(c) \/ EditUnit(c) \/ DropUnit(c)
             \/ DropTenant(c) \/ Sign(c) \/ Spend(c) \/ Respend(c)
    BY <2>2, DropPropertyKeeps, AddBlockKeeps, AddUnitKeeps, EditUnitKeeps, DropUnitKeeps,
       DropTenantKeeps, SignKeeps, SpendKeeps, RespendKeeps
  <2>3. CASE PutObject(c) \/ CreateRow(c) \/ RefuseRow(c) \/ LoseAnswer(c)
             \/ DeleteRow(c) \/ DeleteObject(c) \/ Leave(c)
    BY <2>3, PutObjectKeeps, CreateRowKeeps, RefuseRowKeeps, LoseAnswerKeeps,
       DeleteRowKeeps, DeleteObjectKeeps, LeaveKeeps
  <2> QED
    BY <1>3, <2>1, <2>2, <2>3 DEF ClientStep
<1> QED
  BY <1>1, <1>2, <1>3 DEF Next

\* The rows are sound and the requests under way fit them, whatever runs at once.
THEOREM PortfolioSafe == Spec => []PortfolioInv
PROOF
<1>1. Init => PortfolioInv
  BY PortfolioStarts
<1>2. PortfolioInv /\ [Next]_vars => PortfolioInv'
  BY PortfolioSteps
<1> QED
  BY <1>1, <1>2, PTL DEF Spec

\* Nothing that exists names a row that does not.
THEOREM NothingEverDangles == Spec => []NothingDangles
PROOF
<1>1. PortfolioInv => NothingDangles
  BY DEF PortfolioInv
<1> QED
  BY <1>1, PortfolioSafe, PTL

\* Blocks and units that are named are of the property of the row that names
\* them, although no foreign key says so, and no two units in one place have one
\* number, with or without a block.
THEOREM PlacesHold == Spec => []WellPlaced
PROOF
<1>1. PortfolioInv => WellPlaced
  BY DEF PortfolioInv, WellPlaced
<1> QED
  BY <1>1, PortfolioSafe, PTL

\* Every document row has its object, whatever was refused, failed or crashed on
\* the way, unless it was committed without its upload hearing of it.
THEOREM EveryDownloadWorks == Spec => []DocumentHasObject
PROOF
<1>1. PortfolioInv => DocumentHasObject
  BY DEF PortfolioInv
<1> QED
  BY <1>1, PortfolioSafe, PTL
=============================================================================
