---------------------------- MODULE InvoiceProofs ----------------------------
(***************************************************************************)
(* Proofs about Invoice, for every set of requests, invoices, lines and    *)
(* amounts.                                                                *)
(***************************************************************************)
EXTENDS Invoice, TLAPS

\* A request that writes a line and has not committed it yet.
Writing(c) == pc[c] \in {"sum", "totals"}

Adding(c) == Writing(c) /\ op[c] = "item_added"

\* What an open transaction knows of the invoice it works on.
Txn(c) ==
    /\ pc[c] \notin {"idle", "create"} =>
          /\ on[c] \in InvoiceId
          /\ invoices[on[c]].status # "absent"
          /\ invoices[on[c]].tax = before[c].tax
    /\ pc[c] \in {"position", "insert"} => op[c] = "item_added"
    /\ pc[c] = "delete" => op[c] = "item_removed"
    /\ Writing(c) => op[c] \in {"item_added", "item_removed"}
    /\ pc[c] = "delete" \/ Writing(c) => line[c] \in Line /\ line[c].invoice = on[c]
    /\ pc[c] = "totals" => num[c] \in 0..MaxAmount /\ num[c] + before[c].tax <= MaxAmount
    /\ pc[c] = "cas" => /\ op[c] \in {"issued", "paid", "voided"}
                        /\ CanTransition(before[c].status, TransitionTo[op[c]])

TxnInv == \A c \in Client : Txn(c)

\* An invoice nobody created has no row, no line, no event and no notification.
AbsentInv ==
    /\ \A i \in InvoiceId : invoices[i].status = "absent" =>
          invoices[i] = NoRow /\ events[i] = <<>> /\ announced[i] = <<>>
    /\ \A l \in items : invoices[l.invoice].status # "absent"

\* One request at a time has the next number, and has it right.
NumberInv ==
    /\ counter >= 1
    /\ \A c \in Client : pc[c] = "create" => num[c] = counter
    /\ \A c, d \in Client : pc[c] = "create" /\ pc[d] = "create" => c = d
    /\ NumbersContiguous

\* The end of an invoice is announced when it has come, and not before.
ReplayInv ==
    /\ EventsReplay
    /\ \A i \in InvoiceId : invoices[i].status \notin {"paid", "void"} =>
          \A k \in DOMAIN announced[i] : announced[i][k] \notin {"paid", "voided"}

\* The unique index, over the committed lines and the ones being added.
PositionInv ==
    /\ \A k, l \in items : k # l => k.invoice # l.invoice \/ k.position # l.position
    /\ \A c \in Client : Adding(c) =>
          \A l \in items : l.invoice # on[c] \/ l.position # line[c].position
    /\ \A c, d \in Client : c # d /\ Adding(c) /\ Adding(d) =>
          on[c] # on[d] \/ line[c].position # line[d].position

\* No line of the invoice was ever removed.
Growing(i) ==
    /\ invoices[i].status # "absent"
    /\ \A k \in DOMAIN events[i] : events[i][k].kind # "item_removed"

\* The invoice has lines at all positions below p.
FilledBelow(i, p) == \A q \in 0..(p - 1) : \E l \in LinesOf(i) : l.position = q

\* Lines that are only added fill the positions from 0 without a gap, so that
\* whoever adds one adds it at the end, alone, and sums up what is there.
GrowthInv ==
    \A i \in InvoiceId : Growing(i) =>
        /\ invoices[i].subtotal = Total(LinesOf(i))
        /\ \A l \in LinesOf(i) : FilledBelow(i, l.position)
        /\ \A c \in Client : on[c] = i =>
              /\ pc[c] = "insert" => FilledBelow(i, num[c])
              /\ Adding(c) => FilledBelow(i, line[c].position)
              /\ Adding(c) /\ pc[c] = "totals" => num[c] = Total(LinesOf(i) \cup {line[c]})

IInv == TypeOK /\ TxnInv /\ AbsentInv /\ NumberInv /\ ReplayInv /\ PositionInv /\ GrowthInv
-----------------------------------------------------------------------------
(* What the steps do to a request. *)

\* A request that begins has what Begin was given, the others keep theirs.
LEMMA BeginStep ==
    ASSUME TypeOK, NEW c \in Client, NEW label, NEW i, NEW kind, NEW row, NEW l, NEW n,
           Begin(c, label, i, kind, row, l, n)
    PROVE  /\ pc[c] = "idle"
           /\ pc'[c] = label /\ on'[c] = i /\ op'[c] = kind
           /\ before'[c] = row /\ line'[c] = l /\ num'[c] = n
           /\ \A d \in Client : d # c =>
                 /\ pc'[d] = pc[d] /\ on'[d] = on[d] /\ op'[d] = op[d]
                 /\ before'[d] = before[d] /\ line'[d] = line[d] /\ num'[d] = num[d]
  BY DEF Begin, TypeOK

\* A request that ends is idle, the others keep what they have.
LEMMA EndStep ==
    ASSUME TypeOK, NEW c \in Client, End(c)
    PROVE  /\ pc'[c] = "idle"
           /\ \A d \in Client : d # c =>
                 /\ pc'[d] = pc[d] /\ on'[d] = on[d] /\ op'[d] = op[d]
                 /\ before'[d] = before[d] /\ line'[d] = line[d] /\ num'[d] = num[d]
  BY DEF End, TypeOK

\* Begin and End keep the types of the transaction variables.
LEMMA BeginType ==
    ASSUME TypeOK, NEW c \in Client, NEW label, NEW i \in InvoiceId \cup {NoInvoice},
           NEW kind \in Kind, NEW row \in InvoiceRow, NEW l \in Line \cup {NoLine}, NEW n \in Nat,
           label \in {"create", "position", "delete", "cas"},
           Begin(c, label, i, kind, row, l, n), UNCHANGED <<tables, spent>>
    PROVE  TypeOK'
  BY DEF Begin, TypeOK, tables

\* The row of an invoice that was not created is a row.
LEMMA NoRowType == NoRow \in InvoiceRow
  BY InvoiceAssumption DEF NoRow, Row, InvoiceRow

\* A commit keeps the types if the tables keep theirs.
LEMMA EndType ==
    ASSUME TypeOK, NEW c \in Client, End(c),
           invoices' \in [InvoiceId -> InvoiceRow],
           \A i \in InvoiceId : invoices'[i].subtotal + invoices'[i].tax <= MaxAmount,
           items' \subseteq Line, spent' \subseteq ItemId, counter' \in Nat,
           events' \in [InvoiceId -> Seq([kind : Kind, from : Status, to : Status])],
           announced' \in [InvoiceId -> Seq(Kind)]
    PROVE  TypeOK'
  BY NoRowType DEF End, TypeOK

\* The lines a Create carries are lines of its invoice.
LEMMA NewLinesType ==
    ASSUME NEW i \in InvoiceId, NEW lines \in NewLines(i)
    PROVE  lines \subseteq Line
  BY DEF NewLines, Line

\* Appending to one of several logs leaves all of them logs.
LEMMA AppendType ==
    ASSUME NEW S, NEW logs \in [InvoiceId -> Seq(S)], NEW i \in InvoiceId, NEW e \in S
    PROVE  [logs EXCEPT ![i] = Append(@, e)] \in [InvoiceId -> Seq(S)]
<1>1. Append(logs[i], e) \in Seq(S)
  OBVIOUS
<1> QED
  BY <1>1

\* Initially the types hold.
LEMMA InitType == Init => TypeOK
<1> SUFFICES ASSUME Init PROVE TypeOK
  OBVIOUS
<1>1. \A i \in InvoiceId : invoices[i].subtotal + invoices[i].tax <= MaxAmount
  BY InvoiceAssumption DEF Init, NoRow, Row
<1> QED
  BY <1>1, NoRowType DEF Init, TypeOK

\* Every step keeps the types.
LEMMA NextType == TypeOK /\ TxnInv /\ NumberInv /\ [Next]_vars => TypeOK'
<1> SUFFICES ASSUME TypeOK, TxnInv, NumberInv, [Next]_vars PROVE TypeOK'
  OBVIOUS
<1>1. ASSUME NEW c \in Client, AllocateNumber(c) PROVE TypeOK'
  BY <1>1, BeginType, NoRowType DEF AllocateNumber, Kind, TypeOK
<1>2. ASSUME NEW c \in Client, NEW i \in InvoiceId, NEW tax \in Tax, NEW lines \in NewLines(i),
             Create(c, i, lines, tax)
      PROVE  TypeOK'
  <2>1. /\ num[c] \in Nat
        /\ Total(lines) \in 0..MaxAmount /\ tax \in Nat /\ Total(lines) + tax <= MaxAmount
    BY <1>2, InvoiceAssumption DEF Create, Representable, TypeOK
  <2>2. Row("draft", 1, Total(lines), tax, num[c]) \in InvoiceRow
    BY <2>1 DEF Row, InvoiceRow
  <2>3. invoices' \in [InvoiceId -> InvoiceRow]
    BY <1>2, <2>2 DEF Create, TypeOK
  <2>4. \A j \in InvoiceId : invoices'[j].subtotal + invoices'[j].tax <= MaxAmount
    BY <1>2, <2>1 DEF Create, TypeOK, Row
  <2>5. items' \subseteq Line /\ spent' \subseteq ItemId
    BY <1>2, NewLinesType DEF Create, TypeOK, Line
  <2>6. Event("created", "null", "draft") \in [kind : Kind, from : Status, to : Status]
    BY DEF Event, Kind, Status
  <2>7. /\ events' \in [InvoiceId -> Seq([kind : Kind, from : Status, to : Status])]
        /\ announced' \in [InvoiceId -> Seq(Kind)]
    <3>1. "created" \in Kind
      BY DEF Kind
    <3> QED
      BY <1>2, <2>6, <3>1, AppendType DEF Create, TypeOK
  <2>8. counter' \in Nat /\ End(c)
    BY <1>2, <2>1 DEF Create
  <2> QED
    BY <2>3, <2>4, <2>5, <2>7, <2>8, EndType
<1>3. ASSUME NEW c \in Client, NEW i \in InvoiceId, ReadForAdd(c, i) PROVE TypeOK'
  BY <1>3, BeginType DEF ReadForAdd, Kind, TypeOK
<1>4. ASSUME NEW c \in Client, NEW l \in items, ReadForRemove(c, l) PROVE TypeOK'
  <2>1. l \in Line /\ l.invoice \in InvoiceId
    BY DEF TypeOK, Line
  <2> QED
    BY <1>4, <2>1, BeginType DEF ReadForRemove, Kind, TypeOK
<1>5. ASSUME NEW c \in Client, FindPosition(c) PROVE TypeOK'
  <2>1. PICK p \in {0} \cup {l.position + 1 : l \in LinesOf(on[c])} :
             num' = [num EXCEPT ![c] = p]
    BY <1>5 DEF FindPosition
  <2>2. p \in Nat
    BY <2>1 DEF LinesOf, TypeOK, Line
  <2> QED
    BY <1>5, <2>1, <2>2 DEF FindPosition, TypeOK, tables
<1>6. ASSUME NEW c \in Client, NEW id \in ItemId, NEW amount \in LineTotal, InsertItem(c, id, amount)
      PROVE  TypeOK'
  <2>1. on[c] \in InvoiceId /\ num[c] \in Nat
    BY <1>6 DEF InsertItem, TxnInv, Txn, TypeOK
  <2>2. [id |-> id, invoice |-> on[c], position |-> num[c], amount |-> amount] \in Line
    BY <2>1 DEF Line
  <2> QED
    BY <1>6, <2>2 DEF InsertItem, TypeOK, tables
<1>7. ASSUME NEW c \in Client, DeleteItem(c) PROVE TypeOK'
  BY <1>7 DEF DeleteItem, TypeOK, tables
<1>8. ASSUME NEW c \in Client, SumLines(c) PROVE TypeOK'
  <2>1. Total(Visible(c)) \in Nat
    BY <1>8, InvoiceAssumption DEF SumLines, Representable
  <2> QED
    BY <1>8, <2>1 DEF SumLines, TypeOK, tables
<1>9. ASSUME NEW c \in Client, UpdateTotals(c) PROVE TypeOK'
  <2> DEFINE i == on[c]
  <2>1. /\ i \in InvoiceId /\ op[c] \in Kind /\ line[c] \in Line
        /\ num[c] \in 0..MaxAmount /\ num[c] + invoices[i].tax <= MaxAmount
    BY <1>9 DEF UpdateTotals, TxnInv, Txn, Writing, TypeOK, Kind
  <2>2. WithTotals(invoices[i], num[c]) \in InvoiceRow
    BY <2>1 DEF WithTotals, Row, InvoiceRow, TypeOK
  <2>3. invoices' \in [InvoiceId -> InvoiceRow]
    BY <1>9, <2>1, <2>2 DEF UpdateTotals, TypeOK
  <2>4. \A j \in InvoiceId : invoices'[j].subtotal + invoices'[j].tax <= MaxAmount
    BY <1>9, <2>1 DEF UpdateTotals, WithTotals, Row, TypeOK
  <2>5. items' \subseteq Line
    BY <1>9, <2>1 DEF UpdateTotals, TypeOK
  <2>6. Event(op[c], "null", "null") \in [kind : Kind, from : Status, to : Status]
    BY <2>1 DEF Event, Status
  <2>7. events' \in [InvoiceId -> Seq([kind : Kind, from : Status, to : Status])]
    BY <1>9, <2>1, <2>6, AppendType DEF UpdateTotals, TypeOK
  <2>8. End(c) /\ spent' \subseteq ItemId /\ counter' \in Nat /\ announced' \in [InvoiceId -> Seq(Kind)]
    BY <1>9 DEF UpdateTotals, TypeOK
  <2> QED
    BY <2>3, <2>4, <2>5, <2>7, <2>8, EndType
<1>10. ASSUME NEW c \in Client, NEW i \in InvoiceId, NEW kind \in {"issued", "paid", "voided"},
              NEW expected \in 1..MaxVersion, ReadForTransition(c, i, kind, expected)
       PROVE  TypeOK'
  <2>1. kind \in Kind /\ expected \in Nat
    BY InvoiceAssumption DEF Kind
  <2> QED
    BY <1>10, <2>1, BeginType DEF ReadForTransition, TypeOK
<1>11. ASSUME NEW c \in Client, CompareAndSet(c) PROVE TypeOK'
  <2> DEFINE i == on[c]
  <2>1. /\ i \in InvoiceId /\ op[c] \in {"issued", "paid", "voided"}
        /\ before[c].status \in Status
    BY <1>11 DEF CompareAndSet, TxnInv, Txn, CanTransition, Status
  <2>2. op[c] \in Kind /\ TransitionTo[op[c]] \in {"open", "paid", "void"}
    BY <2>1 DEF Kind, TransitionTo
  <2>3. WithStatus(invoices[i], TransitionTo[op[c]]) \in InvoiceRow
    BY <2>1, <2>2 DEF WithStatus, Row, InvoiceRow, TypeOK
  <2>4. invoices' \in [InvoiceId -> InvoiceRow]
    BY <1>11, <2>1, <2>3 DEF CompareAndSet, TypeOK
  <2>5. \A j \in InvoiceId : invoices'[j].subtotal + invoices'[j].tax <= MaxAmount
    BY <1>11, <2>1 DEF CompareAndSet, WithStatus, Row, TypeOK
  <2>6. Event(op[c], before[c].status, TransitionTo[op[c]])
            \in [kind : Kind, from : Status, to : Status]
    BY <2>1, <2>2 DEF Event, Status
  <2>7. /\ events' \in [InvoiceId -> Seq([kind : Kind, from : Status, to : Status])]
        /\ announced' \in [InvoiceId -> Seq(Kind)]
    BY <1>11, <2>1, <2>2, <2>6, AppendType DEF CompareAndSet, TypeOK
  <2>8. End(c) /\ items' \subseteq Line /\ spent' \subseteq ItemId /\ counter' \in Nat
    BY <1>11 DEF CompareAndSet, TypeOK
  <2> QED
    BY <2>4, <2>5, <2>7, <2>8, EndType
<1>12. ASSUME NEW c \in Client, Rollback(c) PROVE TypeOK'
  BY <1>12, EndType DEF Rollback, TypeOK, tables
<1>13. CASE UNCHANGED vars
  BY <1>13 DEF vars, tables, txn, TypeOK
<1> QED
  BY <1>1, <1>2, <1>3, <1>4, <1>5, <1>6, <1>7, <1>8, <1>9, <1>10, <1>11, <1>12, <1>13 DEF Next

\* The status a transition leads to.
LEMMA TransitionTarget ==
    ASSUME NEW kind \in {"issued", "paid", "voided"}
    PROVE  /\ TransitionTo[kind] \in {"open", "paid", "void"}
           /\ TransitionTo[kind] \in {"paid", "void"} <=> kind \in {"paid", "voided"}
  BY DEF TransitionTo

\* An invoice that exists keeps existing, with its tax and its number.
LEMMA RowsKept ==
    ASSUME TypeOK, TxnInv, [Next]_vars, NEW i \in InvoiceId, invoices[i].status # "absent"
    PROVE  /\ invoices'[i].status # "absent"
           /\ invoices'[i].tax = invoices[i].tax
           /\ invoices'[i].number = invoices[i].number
<1> DEFINE Kept == /\ invoices'[i].status # "absent"
                   /\ invoices'[i].tax = invoices[i].tax
                   /\ invoices'[i].number = invoices[i].number
<1>1. ASSUME NEW c \in Client, NEW j \in InvoiceId, NEW tax \in Tax, NEW lines,
             Create(c, j, lines, tax)
      PROVE  Kept
  BY <1>1 DEF Create, TypeOK
<1>2. ASSUME NEW c \in Client, UpdateTotals(c) PROVE Kept
  BY <1>2 DEF UpdateTotals, WithTotals, Row, TypeOK
<1>3. ASSUME NEW c \in Client, CompareAndSet(c) PROVE Kept
  <2>1. TransitionTo[op[c]] # "absent"
    BY <1>3, TransitionTarget DEF CompareAndSet, TxnInv, Txn
  <2> QED
    BY <1>3, <2>1 DEF CompareAndSet, WithStatus, Row, TypeOK
<1>4. ASSUME invoices' = invoices PROVE Kept
  BY <1>4
<1> QED
  BY <1>1, <1>2, <1>3, <1>4 DEF Next, AllocateNumber, ReadForAdd, ReadForRemove, FindPosition,
     InsertItem, DeleteItem, SumLines, ReadForTransition, Rollback, vars, tables

\* A request that a step does not touch knows what it knew.
LEMMA TxnKept ==
    ASSUME TypeOK, TxnInv, [Next]_vars, NEW d \in Client,
           pc'[d] = pc[d], on'[d] = on[d], op'[d] = op[d],
           before'[d] = before[d], line'[d] = line[d], num'[d] = num[d]
    PROVE  Txn(d)'
<1>1. Txn(d)
  BY DEF TxnInv
<1>2. pc[d] \notin {"idle", "create"} =>
        invoices'[on[d]].status # "absent" /\ invoices'[on[d]].tax = invoices[on[d]].tax
  BY <1>1, RowsKept DEF Txn
<1> QED
  BY <1>1, <1>2 DEF Txn, Writing

\* Open transactions keep knowing their invoice.
LEMMA NextTxn ==
    ASSUME TypeOK, TxnInv, AbsentInv, [Next]_vars
    PROVE  TxnInv'
<1>1. ASSUME NEW c \in Client, Txn(c)',
             \A d \in Client : d # c =>
                 /\ pc'[d] = pc[d] /\ on'[d] = on[d] /\ op'[d] = op[d]
                 /\ before'[d] = before[d] /\ line'[d] = line[d] /\ num'[d] = num[d]
      PROVE  TxnInv'
  BY <1>1, TxnKept DEF TxnInv
<1>2. ASSUME NEW c \in Client, AllocateNumber(c) PROVE TxnInv'
  <2>1. Txn(c)'
    BY <1>2, BeginStep DEF AllocateNumber, Txn, Writing
  <2> QED
    BY <1>1, <1>2, <2>1, BeginStep DEF AllocateNumber
<1>3. ASSUME NEW c \in Client, End(c) PROVE TxnInv'
  <2>1. Txn(c)'
    BY <1>3, EndStep DEF Txn, Writing
  <2> QED
    BY <1>1, <1>3, <2>1, EndStep
<1>4. ASSUME NEW c \in Client, NEW i \in InvoiceId, ReadForAdd(c, i) PROVE TxnInv'
  <2>1. Txn(c)'
    BY <1>4, BeginStep DEF ReadForAdd, Editable, Txn, Writing, tables
  <2> QED
    BY <1>1, <1>4, <2>1, BeginStep DEF ReadForAdd
<1>5. ASSUME NEW c \in Client, NEW l \in items, ReadForRemove(c, l) PROVE TxnInv'
  <2>1. l \in Line /\ l.invoice \in InvoiceId
    BY DEF TypeOK, Line
  <2>2. Txn(c)'
    BY <1>5, <2>1, BeginStep DEF ReadForRemove, Editable, Txn, Writing, tables
  <2> QED
    BY <1>1, <1>5, <2>2, BeginStep DEF ReadForRemove
<1>6. ASSUME NEW c \in Client, FindPosition(c) PROVE TxnInv'
  <2>1. Txn(c)
    BY DEF TxnInv
  <2>2. Txn(c)'
    BY <1>6, <2>1 DEF FindPosition, Txn, Writing, tables, TypeOK
  <2> QED
    BY <1>1, <1>6, <2>2 DEF FindPosition, TypeOK
<1>7. ASSUME NEW c \in Client, NEW id \in ItemId, NEW amount \in LineTotal, InsertItem(c, id, amount)
      PROVE  TxnInv'
  <2>1. Txn(c) /\ num[c] \in Nat
    BY DEF TxnInv, TypeOK
  <2>2. /\ line'[c] = [id |-> id, invoice |-> on[c], position |-> num[c], amount |-> amount]
        /\ pc'[c] = "sum"
        /\ UNCHANGED <<invoices, on, op, before, num>>
    BY <1>7 DEF InsertItem, TypeOK, tables
  <2>3. line'[c] \in Line /\ line'[c].invoice = on[c]
    BY <1>7, <2>1, <2>2 DEF InsertItem, Txn, Line
  <2>4. Txn(c)'
    BY <1>7, <2>1, <2>2, <2>3 DEF InsertItem, Txn, Writing
  <2> QED
    BY <1>1, <1>7, <2>4 DEF InsertItem, TypeOK
<1>8. ASSUME NEW c \in Client, DeleteItem(c) PROVE TxnInv'
  <2>1. Txn(c)
    BY DEF TxnInv
  <2>2. Txn(c)'
    BY <1>8, <2>1 DEF DeleteItem, Txn, Writing, tables, TypeOK
  <2> QED
    BY <1>1, <1>8, <2>2 DEF DeleteItem, TypeOK
<1>9. ASSUME NEW c \in Client, SumLines(c) PROVE TxnInv'
  <2>1. Txn(c)
    BY DEF TxnInv
  <2>2. /\ num'[c] \in 0..MaxAmount /\ num'[c] + before[c].tax <= MaxAmount
        /\ pc[c] = "sum" /\ pc'[c] = "totals"
        /\ UNCHANGED <<invoices, on, op, before, line>>
    BY <1>9 DEF SumLines, Representable, TypeOK, tables
  <2>3. Txn(c)'
    BY <2>1, <2>2 DEF Txn, Writing
  <2> QED
    BY <1>1, <1>9, <2>3 DEF SumLines, TypeOK
<1>10. ASSUME NEW c \in Client, NEW i \in InvoiceId, NEW kind \in {"issued", "paid", "voided"},
              NEW expected \in 1..MaxVersion, ReadForTransition(c, i, kind, expected)
       PROVE  TxnInv'
  <2>1. /\ pc'[c] = "cas" /\ on'[c] = i /\ op'[c] = kind /\ before'[c] = invoices[i]
        /\ invoices' = invoices
        /\ CanTransition(invoices[i].status, TransitionTo[kind])
    BY <1>10, BeginStep DEF ReadForTransition, tables
  <2>2. invoices[i].status # "absent"
    BY <2>1 DEF CanTransition
  <2>3. Txn(c)'
    BY <2>1, <2>2 DEF Txn, Writing
  <2> QED
    BY <1>1, <1>10, <2>3, BeginStep DEF ReadForTransition
<1>11. ASSUME UNCHANGED vars PROVE TxnInv'
  BY <1>11, TxnKept DEF TxnInv, vars, txn
<1> QED
  BY <1>2, <1>3, <1>4, <1>5, <1>6, <1>7, <1>8, <1>9, <1>10, <1>11
     DEF Next, Create, UpdateTotals, CompareAndSet, Rollback
-----------------------------------------------------------------------------
(* What the steps do to the tables. *)

\* Three kinds of step commit changes.
TableStep ==
    \/ UNCHANGED tables
    \/ \E c \in Client, i \in InvoiceId, tax \in Tax : \E lines \in NewLines(i) :
          Create(c, i, lines, tax)
    \/ \E c \in Client : UpdateTotals(c)
    \/ \E c \in Client : CompareAndSet(c)

\* All other steps leave the tables alone.
LEMMA StepTables == [Next]_vars => TableStep
  BY DEF Next, TableStep, AllocateNumber, ReadForAdd, ReadForRemove, FindPosition,
     InsertItem, DeleteItem, SumLines, ReadForTransition, Rollback, vars

\* The invoice a Create fills.
LEMMA CreateStep ==
    ASSUME TypeOK, NEW c \in Client, NEW i \in InvoiceId, NEW tax \in Tax,
           NEW lines \in NewLines(i), Create(c, i, lines, tax)
    PROVE  /\ pc[c] = "create" /\ invoices[i].status = "absent"
           /\ invoices'[i].status = "draft" /\ invoices'[i].version = 1
           /\ invoices'[i].subtotal = Total(lines) /\ invoices'[i].number = num[c]
           /\ events'[i] = Append(events[i], Event("created", "null", "draft"))
           /\ announced'[i] = Append(announced[i], "created")
           /\ \A j \in InvoiceId : j # i => /\ invoices'[j] = invoices[j]
                                            /\ events'[j] = events[j]
                                            /\ announced'[j] = announced[j]
           /\ items' = items \cup lines /\ counter' = num[c] + 1
           /\ lines \subseteq Line /\ \A l \in lines : l.invoice = i
<1>1. invoices'[i] = Row("draft", 1, Total(lines), tax, num[c])
  BY DEF Create, TypeOK
<1>2. /\ invoices'[i].status = "draft" /\ invoices'[i].version = 1
      /\ invoices'[i].subtotal = Total(lines) /\ invoices'[i].number = num[c]
  BY <1>1 DEF Row
<1> QED
  BY <1>2, NewLinesType DEF Create, TypeOK

\* The invoice an edit changes.
LEMMA EditStep ==
    ASSUME TypeOK, TxnInv, NEW c \in Client, UpdateTotals(c)
    PROVE  LET i == on[c]
           IN  /\ pc[c] = "totals" /\ i \in InvoiceId /\ invoices[i].status = "draft"
               /\ op[c] \in {"item_added", "item_removed"}
               /\ line[c] \in Line /\ line[c].invoice = i
               /\ invoices'[i].status = "draft" /\ invoices'[i].version = invoices[i].version + 1
               /\ invoices'[i].subtotal = num[c] /\ invoices'[i].number = invoices[i].number
               /\ events'[i] = Append(events[i], Event(op[c], "null", "null"))
               /\ \A j \in InvoiceId : j # i => invoices'[j] = invoices[j] /\ events'[j] = events[j]
               /\ items' = IF op[c] = "item_added" THEN items \cup {line[c]} ELSE items \ {line[c]}
               /\ announced' = announced /\ counter' = counter
<1>1. /\ pc[c] = "totals" /\ on[c] \in InvoiceId /\ line[c] \in Line /\ line[c].invoice = on[c]
      /\ op[c] \in {"item_added", "item_removed"}
  BY DEF UpdateTotals, TxnInv, Txn, Writing
<1>2. invoices'[on[c]] = WithTotals(invoices[on[c]], num[c]) /\ invoices[on[c]].status = "draft"
  BY <1>1 DEF UpdateTotals, TypeOK
<1>3. LET i == on[c]
      IN  /\ invoices'[i].status = "draft" /\ invoices'[i].version = invoices[i].version + 1
          /\ invoices'[i].subtotal = num[c] /\ invoices'[i].number = invoices[i].number
  BY <1>2 DEF WithTotals, Row
<1> QED
  BY <1>1, <1>3 DEF UpdateTotals, TypeOK

\* The invoice a transition changes.
LEMMA TransitionStep ==
    ASSUME TypeOK, TxnInv, NEW c \in Client, CompareAndSet(c)
    PROVE  LET i == on[c]
           IN  /\ pc[c] = "cas" /\ i \in InvoiceId /\ op[c] \in {"issued", "paid", "voided"}
               /\ CanTransition(invoices[i].status, TransitionTo[op[c]])
               /\ invoices'[i].status = TransitionTo[op[c]]
               /\ invoices'[i].version = invoices[i].version + 1
               /\ invoices'[i].subtotal = invoices[i].subtotal
               /\ invoices'[i].tax = invoices[i].tax
               /\ invoices'[i].number = invoices[i].number
               /\ events'[i] = Append(events[i],
                                      Event(op[c], invoices[i].status, TransitionTo[op[c]]))
               /\ announced'[i] = Append(announced[i], op[c])
               /\ \A j \in InvoiceId : j # i => /\ invoices'[j] = invoices[j]
                                                /\ events'[j] = events[j]
                                                /\ announced'[j] = announced[j]
               /\ items' = items /\ counter' = counter
<1>1. /\ pc[c] = "cas" /\ on[c] \in InvoiceId /\ op[c] \in {"issued", "paid", "voided"}
      /\ CanTransition(before[c].status, TransitionTo[op[c]])
      /\ invoices[on[c]].status = before[c].status
  BY DEF CompareAndSet, Unchanged, TxnInv, Txn
<1>2. invoices'[on[c]] = WithStatus(invoices[on[c]], TransitionTo[op[c]])
  BY <1>1 DEF CompareAndSet, TypeOK
<1>3. LET i == on[c]
      IN  /\ invoices'[i].status = TransitionTo[op[c]]
          /\ invoices'[i].version = invoices[i].version + 1
          /\ invoices'[i].subtotal = invoices[i].subtotal
          /\ invoices'[i].tax = invoices[i].tax
          /\ invoices'[i].number = invoices[i].number
  BY <1>2 DEF WithStatus, Row
<1> QED
  BY <1>1, <1>3 DEF CompareAndSet, TypeOK

\* Invoices nobody created stay without row, line, event and notification.
LEMMA NextAbsent ==
    ASSUME TypeOK, TxnInv, AbsentInv, [Next]_vars
    PROVE  AbsentInv'
<1>1. ASSUME NEW i \in InvoiceId, invoices'[i].status = "absent"
      PROVE  invoices'[i] = NoRow /\ events'[i] = <<>> /\ announced'[i] = <<>>
  <2>0. invoices[i] = NoRow /\ events[i] = <<>> /\ announced[i] = <<>>
    BY <1>1, RowsKept DEF AbsentInv
  <2>1. CASE UNCHANGED tables
    BY <2>0, <2>1 DEF tables
  <2>2. ASSUME NEW c \in Client, NEW j \in InvoiceId, NEW tax \in Tax, NEW lines \in NewLines(j),
               Create(c, j, lines, tax)
        PROVE  invoices'[i] = NoRow /\ events'[i] = <<>> /\ announced'[i] = <<>>
    <3>1. i # j
      BY <1>1, <2>2, CreateStep
    <3> QED
      BY <2>0, <2>2, <3>1, CreateStep
  <2>3. ASSUME NEW c \in Client, UpdateTotals(c)
        PROVE  invoices'[i] = NoRow /\ events'[i] = <<>> /\ announced'[i] = <<>>
    <3>1. i # on[c]
      BY <2>0, <2>3, EditStep DEF NoRow, Row
    <3> QED
      BY <2>0, <2>3, <3>1, EditStep
  <2>4. ASSUME NEW c \in Client, CompareAndSet(c)
        PROVE  invoices'[i] = NoRow /\ events'[i] = <<>> /\ announced'[i] = <<>>
    <3>1. i # on[c]
      BY <2>0, <2>4, TransitionStep DEF NoRow, Row, CanTransition
    <3> QED
      BY <2>0, <2>4, <3>1, TransitionStep
  <2> QED
    BY <2>1, <2>2, <2>3, <2>4, StepTables DEF TableStep
<1>2. ASSUME NEW l \in items' PROVE invoices'[l.invoice].status # "absent"
  <2>1. CASE l \in items
    <3>1. l.invoice \in InvoiceId /\ invoices[l.invoice].status # "absent"
      BY <2>1 DEF AbsentInv, TypeOK, Line
    <3> QED
      BY <3>1, RowsKept
  <2>2. ASSUME NEW c \in Client, NEW j \in InvoiceId, NEW tax \in Tax, NEW lines \in NewLines(j),
               Create(c, j, lines, tax)
        PROVE  invoices'[l.invoice].status # "absent"
    BY <1>2, <2>1, <2>2, CreateStep
  <2>3. ASSUME NEW c \in Client, UpdateTotals(c)
        PROVE  invoices'[l.invoice].status # "absent"
    <3>1. l \in items \/ l = line[c]
      BY <1>2, <2>3, EditStep
    <3> QED
      BY <2>1, <2>3, <3>1, EditStep
  <2>4. ASSUME NEW c \in Client, CompareAndSet(c) PROVE l \in items
    BY <1>2, <2>4, TransitionStep
  <2> QED
    BY <1>2, <2>1, <2>2, <2>3, <2>4, StepTables DEF TableStep, tables
<1> QED
  BY <1>1, <1>2 DEF AbsentInv

\* The numbers in use, and the invoices that have them.
Used == {i \in InvoiceId : invoices[i].status # "absent"}

\* Numbers stay distinct and without a gap.
LEMMA NextNumber ==
    ASSUME TypeOK, TxnInv, AbsentInv, NumberInv, [Next]_vars
    PROVE  NumberInv'
<1>0. /\ counter \in Nat /\ counter >= 1
      /\ \A i, j \in Used : i # j => invoices[i].number # invoices[j].number
      /\ {invoices[i].number : i \in Used} = 1..(counter - 1)
  BY DEF NumberInv, NumbersContiguous, Used, TypeOK
<1>1. ASSUME counter' = counter, \A i \in InvoiceId : /\ i \in Used <=> i \in Used'
                                                      /\ invoices'[i].number = invoices[i].number
      PROVE  counter' >= 1 /\ NumbersContiguous'
  <2>1. Used' = Used
    BY <1>1 DEF Used
  <2>2. {invoices'[i].number : i \in Used} = {invoices[i].number : i \in Used}
    BY <1>1 DEF Used
  <2>3. \A i, j \in Used : i # j => invoices'[i].number # invoices'[j].number
    BY <1>0, <1>1 DEF Used
  <2> QED
    BY <1>0, <1>1, <2>1, <2>2, <2>3 DEF NumbersContiguous, Used
<1>2. ASSUME NEW c \in Client, NEW i \in InvoiceId, NEW tax \in Tax, NEW lines \in NewLines(i),
             Create(c, i, lines, tax)
      PROVE  NumberInv'
  <2>1. /\ num[c] = counter /\ counter' = counter + 1
        /\ invoices'[i].number = counter /\ Used' = Used \cup {i} /\ i \notin Used
        /\ \A j \in Used : invoices'[j].number = invoices[j].number
    BY <1>2, CreateStep DEF NumberInv, Used
  <2>2. \A j \in Used : invoices[j].number \in 1..(counter - 1)
    BY <1>0
  <2>3. \A j, k \in Used' : j # k => invoices'[j].number # invoices'[k].number
    BY <1>0, <2>1, <2>2
  <2>4. {invoices'[j].number : j \in Used'} = 1..(counter' - 1)
    <3>1. ASSUME NEW j \in Used' PROVE invoices'[j].number \in 1..(counter' - 1)
      BY <1>0, <2>1, <2>2, <3>1
    <3>2. ASSUME NEW n \in 1..(counter' - 1) PROVE \E j \in Used' : n = invoices'[j].number
      <4>1. CASE n = counter
        BY <2>1, <4>1
      <4>2. CASE n # counter
        <5>1. n \in 1..(counter - 1)
          BY <1>0, <2>1, <4>2
        <5>2. PICK j \in Used : n = invoices[j].number
          BY <1>0, <5>1
        <5> QED
          BY <2>1, <5>2
      <4> QED
        BY <4>1, <4>2
    <3> QED
      BY <3>1, <3>2
  <2>5. NumbersContiguous'
    BY <2>3, <2>4 DEF NumbersContiguous, Used
  <2>6. \A d \in Client : pc'[d] # "create"
    BY <1>2, EndStep DEF Create, NumberInv
  <2> QED
    BY <1>0, <2>1, <2>5, <2>6 DEF NumberInv
<1>3. ASSUME NEW c \in Client, UpdateTotals(c) \/ CompareAndSet(c) PROVE NumberInv'
  <2>1. counter' = counter /\ End(c)
    BY <1>3 DEF UpdateTotals, CompareAndSet
  <2>2. ASSUME NEW i \in InvoiceId
        PROVE  (i \in Used <=> i \in Used') /\ invoices'[i].number = invoices[i].number
    <3>1. CASE UpdateTotals(c)
      BY <3>1, EditStep DEF Used
    <3>2. CASE CompareAndSet(c)
      BY <3>2, TransitionStep, TransitionTarget DEF Used, CanTransition
    <3> QED
      BY <1>3, <3>1, <3>2
  <2>3. counter' >= 1 /\ NumbersContiguous'
    BY <1>1, <2>1, <2>2
  <2> QED
    BY <2>1, <2>3, EndStep DEF NumberInv
<1>4. ASSUME UNCHANGED tables PROVE counter' >= 1 /\ NumbersContiguous' /\ counter' = counter
  BY <1>1, <1>4 DEF tables, Used
<1>5. ASSUME NEW c \in Client, AllocateNumber(c) PROVE NumberInv'
  <2>1. /\ \A d \in Client : pc[d] # "create"
        /\ UNCHANGED tables /\ pc'[c] = "create" /\ num'[c] = counter
        /\ \A d \in Client : d # c => pc'[d] = pc[d] /\ num'[d] = num[d]
    BY <1>5, BeginStep DEF AllocateNumber
  <2> QED
    BY <1>4, <2>1 DEF NumberInv
<1>6. ASSUME UNCHANGED tables,
             \A d \in Client : pc'[d] = "create" => pc[d] = "create" /\ num'[d] = num[d]
      PROVE  NumberInv'
  BY <1>4, <1>6 DEF NumberInv
<1>7. ASSUME NEW c \in Client, Rollback(c) PROVE NumberInv'
  BY <1>6, <1>7, EndStep DEF Rollback
<1>8. ASSUME NEW c \in Client, NEW i \in InvoiceId, ReadForAdd(c, i) PROVE NumberInv'
  BY <1>6, <1>8, BeginStep DEF ReadForAdd
<1>9. ASSUME NEW c \in Client, NEW l \in items, ReadForRemove(c, l) PROVE NumberInv'
  BY <1>6, <1>9, BeginStep DEF ReadForRemove
<1>10. ASSUME NEW c \in Client, NEW i \in InvoiceId, NEW kind, NEW expected,
              ReadForTransition(c, i, kind, expected)
       PROVE  NumberInv'
  BY <1>6, <1>10, BeginStep DEF ReadForTransition
<1>11. ASSUME NEW c \in Client, FindPosition(c) \/ DeleteItem(c) \/ SumLines(c) PROVE NumberInv'
  BY <1>6, <1>11 DEF FindPosition, DeleteItem, SumLines, TypeOK
<1>12. ASSUME NEW c \in Client, NEW id \in ItemId, NEW amount \in LineTotal, InsertItem(c, id, amount)
       PROVE  NumberInv'
  BY <1>6, <1>12 DEF InsertItem, TypeOK
<1>13. CASE UNCHANGED vars
  BY <1>6, <1>13 DEF vars, txn
<1> QED
  BY <1>2, <1>3, <1>5, <1>7, <1>8, <1>9, <1>10, <1>11, <1>12, <1>13 DEF Next
-----------------------------------------------------------------------------
(* Event logs. *)

\* The entries of a log with one more entry.
LEMMA AppendEntries ==
    ASSUME NEW S, NEW log \in Seq(S), NEW e \in S
    PROVE  /\ Len(log) \in Nat /\ DOMAIN log = 1..Len(log)
           /\ DOMAIN Append(log, e) = 1..(Len(log) + 1)
           /\ \A k \in 1..Len(log) : Append(log, e)[k] = log[k]
           /\ Append(log, e)[Len(log) + 1] = e
  OBVIOUS

\* An event that sets no status leads where the log led.
LEMMA LeadsOn ==
    ASSUME NEW S, NEW log \in Seq(S), NEW e \in S, NEW status, LeadsTo(log, status), e.to = "null"
    PROVE  LeadsTo(Append(log, e), status)
<1> DEFINE new == Append(log, e)
<1>1. /\ Len(log) \in Nat /\ DOMAIN log = 1..Len(log) /\ DOMAIN new = 1..(Len(log) + 1)
      /\ \A k \in 1..Len(log) : new[k] = log[k]
      /\ new[Len(log) + 1] = e
  BY AppendEntries
<1> HIDE DEF new
<1>2. Steps(new) = Steps(log) /\ \A k \in Steps(log) : new[k] = log[k]
  BY <1>1 DEF Steps
<1>3. LeadsTo(new, status)
  BY <1>2 DEF LeadsTo
<1> QED
  BY <1>3 DEF new

\* A transition from where the log led leads to its target.
LEMMA LeadsFurther ==
    ASSUME NEW S, NEW log \in Seq(S), NEW e \in S, LeadsTo(log, e.from), e.to # "null"
    PROVE  LeadsTo(Append(log, e), e.to)
<1> DEFINE new == Append(log, e)
           n == Len(log) + 1
<1>1. /\ Len(log) \in Nat /\ DOMAIN log = 1..Len(log) /\ DOMAIN new = 1..n
      /\ \A k \in 1..Len(log) : new[k] = log[k]
      /\ new[n] = e
  BY AppendEntries
<1>2. n \in Nat /\ \A k \in DOMAIN log : k \in Nat /\ k < n /\ k # n
  BY <1>1
<1> HIDE DEF new
<1>3. Steps(new) = Steps(log) \cup {n} /\ \A k \in Steps(log) : new[k] = log[k]
  BY <1>1 DEF Steps
<1> HIDE DEF n
<1>4. \A k \in Steps(log) : k \in Nat /\ k < n /\ k # n
  BY <1>2 DEF Steps
<1>5. PICK last \in Steps(log) : (\A j \in Steps(log) : j <= last) /\ log[last].to = e.from
  BY DEF LeadsTo
<1>6. ASSUME NEW k \in Steps(new), \A j \in Steps(new) : k <= j PROVE new[k].from = "null"
  <2>1. k # n
    BY <1>2, <1>3, <1>4, <1>5, <1>6
  <2> QED
    BY <1>3, <1>6, <2>1 DEF LeadsTo
<1>7. ASSUME NEW j \in Steps(new), NEW k \in Steps(new), j < k,
             \A m \in Steps(new) : m <= j \/ k <= m
      PROVE  new[k].from = new[j].to
  <2>1. CASE k = n
    <3>1. j \in Steps(log)
      BY <1>2, <1>3, <1>7, <2>1
    <3>2. last \in Steps(new) /\ last \in Nat /\ j \in Nat /\ n \in Nat /\ last < n
      BY <1>2, <1>3, <1>4, <1>5, <3>1
    <3>3. last <= j
      BY <1>7, <2>1, <3>2
    <3>4. j = last
      BY <1>5, <3>1, <3>2, <3>3
    <3> QED
      BY <1>1, <1>3, <1>5, <2>1, <3>4
  <2>2. CASE k # n
    <3>1. k \in Steps(log) /\ j \in Steps(log)
      BY <1>2, <1>3, <1>4, <1>7, <2>2
    <3> QED
      BY <1>3, <1>7, <3>1 DEF LeadsTo
  <2> QED
    BY <2>1, <2>2
<1>8. \A j \in Steps(new) : j <= n
  BY <1>2, <1>3, <1>4
<1>9. LeadsTo(new, e.to)
  BY <1>1, <1>3, <1>6, <1>7, <1>8 DEF LeadsTo
<1> QED
  BY <1>9 DEF new

\* A log that starts from nothing leads where its first event does.
LEMMA LeadsFirst ==
    ASSUME NEW S, NEW e \in S, e.from = "null", e.to # "null"
    PROVE  LeadsTo(Append(<<>>, e), e.to)
<1> DEFINE new == Append(<<>>, e)
<1>1. DOMAIN new = 1..1 /\ new[1] = e
  OBVIOUS
<1> HIDE DEF new
<1>2. Steps(new) = {1}
  BY <1>1 DEF Steps
<1>3. LeadsTo(new, e.to)
  BY <1>1, <1>2 DEF LeadsTo
<1> QED
  BY <1>3 DEF new

\* The events of one invoice.
Announces(log) == {k \in DOMAIN log : log[k] \in {"paid", "voided"}}

\* Logs keep leading to the status, and the end is announced once.
LEMMA NextReplay ==
    ASSUME TypeOK, TxnInv, AbsentInv, ReplayInv, [Next]_vars
    PROVE  ReplayInv'
<1> SUFFICES ASSUME NEW i \in InvoiceId
             PROVE  /\ invoices'[i].status # "absent" => LeadsTo(events'[i], invoices'[i].status)
                    /\ \A j, k \in Announces(announced'[i]) : j = k
                    /\ invoices'[i].status \notin {"paid", "void"} => Announces(announced'[i]) = {}
  BY DEF ReplayInv, EventsReplay, Announces
<1> DEFINE EventRow == [kind : Kind, from : Status, to : Status]
           Goal == /\ invoices'[i].status # "absent" => LeadsTo(events'[i], invoices'[i].status)
                   /\ \A j, k \in Announces(announced'[i]) : j = k
                   /\ invoices'[i].status \notin {"paid", "void"} => Announces(announced'[i]) = {}
<1>0. /\ invoices[i].status # "absent" => LeadsTo(events[i], invoices[i].status)
      /\ \A j, k \in Announces(announced[i]) : j = k
      /\ invoices[i].status \notin {"paid", "void"} => Announces(announced[i]) = {}
      /\ events[i] \in Seq(EventRow) /\ announced[i] \in Seq(Kind)
  BY DEF ReplayInv, EventsReplay, Announces, TypeOK
<1>1. ASSUME invoices'[i] = invoices[i], events'[i] = events[i], announced'[i] = announced[i]
      PROVE  Goal
  BY <1>0, <1>1
<1> HIDE DEF EventRow
<1>2. ASSUME NEW e \in Kind, announced'[i] = Append(announced[i], e), Announces(announced[i]) = {},
             invoices'[i].status \notin {"paid", "void"} => e \notin {"paid", "voided"}
      PROVE  /\ \A j, k \in Announces(announced'[i]) : j = k
             /\ invoices'[i].status \notin {"paid", "void"} => Announces(announced'[i]) = {}
  <2>1. /\ Len(announced[i]) \in Nat /\ DOMAIN announced[i] = 1..Len(announced[i])
        /\ DOMAIN announced'[i] = 1..(Len(announced[i]) + 1)
        /\ \A k \in 1..Len(announced[i]) : announced'[i][k] = announced[i][k]
        /\ announced'[i][Len(announced[i]) + 1] = e
    BY <1>0, <1>2, AppendEntries
  <2>2. \A k \in Announces(announced'[i]) : k = Len(announced[i]) + 1 /\ e \in {"paid", "voided"}
    <3> SUFFICES ASSUME NEW k \in DOMAIN announced'[i], announced'[i][k] \in {"paid", "voided"}
                 PROVE  k = Len(announced[i]) + 1
      BY <2>1 DEF Announces
    <3>1. k \notin 1..Len(announced[i])
      BY <1>2, <2>1 DEF Announces
    <3> QED
      BY <2>1, <3>1
  <2> QED
    BY <1>2, <2>2
<1>3. ASSUME NEW c \in Client, NEW j \in InvoiceId, NEW tax \in Tax, NEW lines \in NewLines(j),
             Create(c, j, lines, tax)
      PROVE  Goal
  <2>1. CASE i = j
    <3> DEFINE e == Event("created", "null", "draft")
    <3>1. e \in EventRow /\ e.from = "null" /\ e.to = "draft"
      BY DEF Event, EventRow, Kind, Status
    <3>2. /\ events[i] = <<>> /\ announced[i] = <<>> /\ invoices'[i].status = "draft"
          /\ events'[i] = Append(<<>>, e) /\ announced'[i] = Append(announced[i], "created")
      BY <1>3, <2>1, CreateStep DEF AbsentInv
    <3> HIDE DEF e
    <3>3. LeadsTo(events'[i], "draft")
      BY <3>1, <3>2, LeadsFirst
    <3>4. Announces(announced[i]) = {} /\ "created" \in Kind
      BY <3>2 DEF Announces, Kind
    <3> QED
      BY <1>2, <3>2, <3>3, <3>4
  <2>2. CASE i # j
    BY <1>1, <1>3, <2>2, CreateStep
  <2> QED
    BY <2>1, <2>2
<1>4. ASSUME NEW c \in Client, UpdateTotals(c) PROVE Goal
  <2>1. CASE i = on[c]
    <3> DEFINE e == Event(op[c], "null", "null")
    <3>1. /\ op[c] \in Kind /\ invoices[i].status = "draft" /\ invoices'[i].status = "draft"
          /\ events'[i] = Append(events[i], e) /\ announced' = announced
      BY <1>4, <2>1, EditStep DEF Kind
    <3>2. e \in EventRow /\ e.to = "null"
      BY <3>1 DEF Event, EventRow, Status
    <3> HIDE DEF e
    <3>3. LeadsTo(events'[i], "draft")
      <4>1. LeadsTo(events[i], "draft") /\ events[i] \in Seq(EventRow)
        BY <1>0, <3>1
      <4>2. LeadsTo(Append(events[i], e), "draft")
        BY <3>2, <4>1, LeadsOn
      <4> QED
        BY <3>1, <4>2
    <3> QED
      BY <1>0, <3>1, <3>3
  <2>2. CASE i # on[c]
    BY <1>1, <1>4, <2>2, EditStep
  <2> QED
    BY <2>1, <2>2
<1>5. ASSUME NEW c \in Client, CompareAndSet(c) PROVE Goal
  <2>1. CASE i = on[c]
    <3> DEFINE to == TransitionTo[op[c]]
               e == Event(op[c], invoices[i].status, to)
    <3>1. /\ op[c] \in {"issued", "paid", "voided"}
          /\ CanTransition(invoices[i].status, to) /\ invoices'[i].status = to
          /\ events'[i] = Append(events[i], e)
          /\ announced'[i] = Append(announced[i], op[c])
      BY <1>5, <2>1, TransitionStep
    <3>2. /\ to \in {"open", "paid", "void"}
          /\ to \in {"paid", "void"} <=> op[c] \in {"paid", "voided"}
      BY <3>1, TransitionTarget
    <3>3. invoices[i].status \in {"draft", "open"} /\ op[c] \in Kind
      BY <3>1 DEF CanTransition, Kind
    <3>4. e \in EventRow /\ e.from = invoices[i].status /\ e.to = to
      BY <3>2, <3>3 DEF Event, EventRow, Status
    <3> HIDE DEF e, to
    <3>5. LeadsTo(events'[i], to)
      <4>1. LeadsTo(events[i], e.from) /\ e.to # "null"
        BY <1>0, <3>2, <3>3, <3>4
      <4>2. events[i] \in Seq(EventRow) /\ e \in EventRow
        BY <1>0, <3>4
      <4>3. LeadsTo(Append(events[i], e), e.to)
        BY <4>1, <4>2, LeadsFurther
      <4> QED
        BY <3>1, <3>4, <4>3
    <3>6. Announces(announced[i]) = {}
      BY <1>0, <3>3
    <3>7. /\ \A j, k \in Announces(announced'[i]) : j = k
          /\ invoices'[i].status \notin {"paid", "void"} => Announces(announced'[i]) = {}
      BY <1>2, <3>1, <3>2, <3>3, <3>6
    <3> QED
      BY <3>1, <3>5, <3>7
  <2>2. CASE i # on[c]
    BY <1>1, <1>5, <2>2, TransitionStep
  <2> QED
    BY <2>1, <2>2
<1>6. ASSUME UNCHANGED tables PROVE Goal
  BY <1>1, <1>6 DEF tables
<1> QED
  BY <1>3, <1>4, <1>5, <1>6, StepTables DEF TableStep
-----------------------------------------------------------------------------
(* Positions and subtotals. *)

\* A step leaves a request alone, ends it, starts it, or is one of the four
\* steps that take an edit from reading the invoice to updating it.
LEMMA RequestStep ==
    ASSUME TypeOK, [Next]_vars, NEW d \in Client
    PROVE  \/ pc'[d] = pc[d] /\ on'[d] = on[d] /\ op'[d] = op[d] /\ line'[d] = line[d] /\ num'[d] = num[d]
           \/ pc'[d] \in {"idle", "create", "position", "delete", "cas"}
           \/ FindPosition(d) \/ DeleteItem(d) \/ SumLines(d)
           \/ \E id \in ItemId, amount \in LineTotal : InsertItem(d, id, amount)
<1> DEFINE Same == /\ pc'[d] = pc[d] /\ on'[d] = on[d] /\ op'[d] = op[d]
                   /\ line'[d] = line[d] /\ num'[d] = num[d]
           Goal == \/ Same
                   \/ pc'[d] \in {"idle", "create", "position", "delete", "cas"}
                   \/ FindPosition(d) \/ DeleteItem(d) \/ SumLines(d)
                   \/ \E id \in ItemId, amount \in LineTotal : InsertItem(d, id, amount)
<1>1. ASSUME NEW c \in Client, End(c) PROVE Goal
  BY <1>1, EndStep
<1>2. ASSUME NEW c \in Client, NEW label \in {"create", "position", "delete", "cas"},
             NEW i, NEW kind, NEW row, NEW l, NEW n, Begin(c, label, i, kind, row, l, n)
      PROVE  Goal
  BY <1>2, BeginStep
<1>3. ASSUME NEW c \in Client, FindPosition(c) PROVE Goal
  <2>1. CASE c = d
    BY <1>3, <2>1
  <2>2. CASE c # d
    BY <1>3, <2>2 DEF FindPosition, TypeOK
  <2> QED
    BY <2>1, <2>2
<1>4. ASSUME NEW c \in Client, DeleteItem(c) PROVE Goal
  <2>1. CASE c = d
    BY <1>4, <2>1
  <2>2. CASE c # d
    BY <1>4, <2>2 DEF DeleteItem, TypeOK
  <2> QED
    BY <2>1, <2>2
<1>5. ASSUME NEW c \in Client, SumLines(c) PROVE Goal
  <2>1. CASE c = d
    BY <1>5, <2>1
  <2>2. CASE c # d
    BY <1>5, <2>2 DEF SumLines, TypeOK
  <2> QED
    BY <2>1, <2>2
<1>6. ASSUME NEW c \in Client, NEW id \in ItemId, NEW amount \in LineTotal, InsertItem(c, id, amount)
      PROVE  Goal
  <2>1. CASE c = d
    BY <1>6, <2>1
  <2>2. CASE c # d
    BY <1>6, <2>2 DEF InsertItem, TypeOK
  <2> QED
    BY <2>1, <2>2
<1>7. ASSUME NEW c \in Client, AllocateNumber(c) PROVE Goal
  BY <1>2, <1>7 DEF AllocateNumber
<1>8. ASSUME NEW c \in Client, NEW i \in InvoiceId, ReadForAdd(c, i) PROVE Goal
  BY <1>2, <1>8 DEF ReadForAdd
<1>9. ASSUME NEW c \in Client, NEW l \in items, ReadForRemove(c, l) PROVE Goal
  BY <1>2, <1>9 DEF ReadForRemove
<1>10. ASSUME NEW c \in Client, NEW i \in InvoiceId, NEW kind \in {"issued", "paid", "voided"},
              NEW expected \in 1..MaxVersion, ReadForTransition(c, i, kind, expected)
       PROVE  Goal
  BY <1>2, <1>10 DEF ReadForTransition
<1>11. ASSUME UNCHANGED vars PROVE Goal
  BY <1>11 DEF vars, txn
<1> HIDE DEF Goal
<1>12. Goal
  <2>1. ASSUME NEW c \in Client, NEW i \in InvoiceId, NEW tax \in Tax, NEW lines \in NewLines(i),
               Create(c, i, lines, tax)
        PROVE  Goal
    BY <1>1, <2>1 DEF Create
  <2>2. ASSUME NEW c \in Client, UpdateTotals(c) \/ CompareAndSet(c) \/ Rollback(c) PROVE Goal
    BY <1>1, <2>2 DEF UpdateTotals, CompareAndSet, Rollback
  <2> QED
    BY <1>3, <1>4, <1>5, <1>6, <1>7, <1>8, <1>9, <1>10, <1>11, <2>1, <2>2 DEF Next
<1> QED
  BY <1>12 DEF Goal

\* The line a request adds is the one it was adding, or the one it just wrote
\* at a position that nobody has.
LEMMA AddingStep ==
    ASSUME TypeOK, TxnInv, [Next]_vars, NEW d \in Client, Adding(d)'
    PROVE  /\ on'[d] = on[d] /\ on[d] \in InvoiceId /\ invoices[on[d]].status # "absent"
           /\ \/ Adding(d) /\ line'[d] = line[d]
              \/ /\ pc[d] = "insert" /\ line'[d].position = num[d]
                 /\ PositionFree(on[d], num[d]) /\ items' = items
                 /\ \A c \in Client : Adding(c)' /\ c # d =>
                       Adding(c) /\ line'[c] = line[c] /\ on'[c] = on[c]
<1>0. Txn(d)
  BY DEF TxnInv
<1>1. CASE pc'[d] = pc[d] /\ on'[d] = on[d] /\ op'[d] = op[d] /\ line'[d] = line[d]
  BY <1>0, <1>1 DEF Adding, Writing, Txn
<1>2. CASE FindPosition(d) \/ DeleteItem(d)
  BY <1>0, <1>2 DEF FindPosition, DeleteItem, Adding, Writing, Txn, TypeOK
<1>3. CASE SumLines(d)
  BY <1>0, <1>3 DEF SumLines, Adding, Writing, Txn, TypeOK
<1>4. ASSUME NEW id \in ItemId, NEW amount \in LineTotal, InsertItem(d, id, amount)
      PROVE  /\ on'[d] = on[d] /\ on[d] \in InvoiceId /\ invoices[on[d]].status # "absent"
             /\ pc[d] = "insert" /\ line'[d].position = num[d]
             /\ PositionFree(on[d], num[d]) /\ items' = items
             /\ \A c \in Client : Adding(c)' /\ c # d =>
                   Adding(c) /\ line'[c] = line[c] /\ on'[c] = on[c]
  BY <1>0, <1>4 DEF InsertItem, Adding, Writing, Txn, TypeOK, tables
<1>5. CASE pc'[d] \in {"idle", "create", "position", "delete", "cas"}
  BY <1>5 DEF Adding, Writing
<1> QED
  BY <1>1, <1>2, <1>3, <1>4, <1>5, RequestStep

\* The lines that a step commits: those of a new invoice, or the one that a
\* request was adding.
LEMMA ItemsStep ==
    ASSUME TypeOK, TxnInv, AbsentInv, [Next]_vars, NEW l \in items', l \notin items
    PROVE  \/ \E c \in Client, i \in InvoiceId, tax \in Tax : \E lines \in NewLines(i) :
                 Create(c, i, lines, tax) /\ l \in lines /\ l.invoice = i
           \/ \E c \in Client : /\ UpdateTotals(c) /\ Adding(c) /\ ~Adding(c)'
                                /\ items' = items \cup {line[c]}
                                /\ l = line[c] /\ l.invoice = on[c]
<1>1. ASSUME NEW c \in Client, NEW i \in InvoiceId, NEW tax \in Tax, NEW lines \in NewLines(i),
             Create(c, i, lines, tax)
      PROVE  l \in lines /\ l.invoice = i
  BY <1>1, CreateStep
<1>2. ASSUME NEW c \in Client, UpdateTotals(c)
      PROVE  /\ Adding(c) /\ ~Adding(c)' /\ items' = items \cup {line[c]}
             /\ l = line[c] /\ l.invoice = on[c]
  <2>1. /\ pc[c] = "totals" /\ op[c] = "item_added" /\ line[c].invoice = on[c]
        /\ items' = items \cup {line[c]} /\ l = line[c]
    BY <1>2, EditStep
  <2>2. pc'[c] = "idle"
    BY <1>2, EndStep DEF UpdateTotals
  <2> QED
    BY <2>1, <2>2 DEF Adding, Writing
<1>3. ASSUME NEW c \in Client, CompareAndSet(c) PROVE FALSE
  BY <1>3, TransitionStep
<1>4. ASSUME UNCHANGED tables PROVE FALSE
  BY <1>4 DEF tables
<1> QED
  BY <1>1, <1>2, <1>3, <1>4, StepTables DEF TableStep

\* No two lines of an invoice get the same position.
LEMMA NextPosition ==
    ASSUME TypeOK, TxnInv, AbsentInv, PositionInv, [Next]_vars
    PROVE  PositionInv'
<1>1. ASSUME NEW k \in items', NEW l \in items', k # l, k \notin items
      PROVE  k.invoice # l.invoice \/ k.position # l.position
  <2>1. ASSUME NEW c \in Client, NEW i \in InvoiceId, NEW tax \in Tax, NEW lines \in NewLines(i),
               Create(c, i, lines, tax), k \in lines, k.invoice = i
        PROVE  k.invoice # l.invoice \/ k.position # l.position
    <3>1. CASE l \in items
      BY <2>1, <3>1, CreateStep DEF AbsentInv
    <3>2. CASE l \in lines
      BY <1>1, <2>1, <3>2 DEF Create
    <3> QED
      BY <2>1, <3>1, <3>2, CreateStep
  <2>2. ASSUME NEW c \in Client, Adding(c), items' = items \cup {line[c]},
               k = line[c], k.invoice = on[c]
        PROVE  k.invoice # l.invoice \/ k.position # l.position
    BY <1>1, <2>2 DEF PositionInv
  <2> QED
    BY <1>1, <2>1, <2>2, ItemsStep
<1>2. \A k, l \in items' : k # l => k.invoice # l.invoice \/ k.position # l.position
  <2> SUFFICES ASSUME NEW k \in items', NEW l \in items', k # l
               PROVE  k.invoice # l.invoice \/ k.position # l.position
    OBVIOUS
  <2>1. CASE k \in items /\ l \in items
    BY <2>1 DEF PositionInv
  <2>2. CASE k \notin items
    BY <1>1, <2>2
  <2>3. CASE l \notin items
    <3>1. l.invoice # k.invoice \/ l.position # k.position
      BY <1>1, <2>3
    <3> QED
      BY <3>1
  <2> QED
    BY <2>1, <2>2, <2>3
<1>3. ASSUME NEW c \in Client, Adding(c)', NEW l \in items'
      PROVE  l.invoice # on'[c] \/ l.position # line'[c].position
  <2>1. on'[c] = on[c] /\ on[c] \in InvoiceId /\ invoices[on[c]].status # "absent"
    BY <1>3, AddingStep
  <2>2. CASE line'[c].position = num[c] /\ PositionFree(on[c], num[c]) /\ items' = items
    BY <2>1, <2>2 DEF PositionFree, LinesOf
  <2>3. CASE Adding(c) /\ line'[c] = line[c]
    <3>1. CASE l \in items
      BY <2>1, <2>3, <3>1 DEF PositionInv
    <3>2. ASSUME NEW d \in Client, NEW i \in InvoiceId, NEW tax \in Tax, NEW lines \in NewLines(i),
                 Create(d, i, lines, tax), l.invoice = i
          PROVE  l.invoice # on'[c]
      BY <2>1, <3>2, CreateStep
    <3>3. ASSUME NEW d \in Client, Adding(d), ~Adding(d)', l = line[d], l.invoice = on[d]
          PROVE  l.invoice # on'[c] \/ l.position # line'[c].position
      <4>1. c # d
        BY <1>3, <3>3
      <4> QED
        BY <2>1, <2>3, <3>3, <4>1 DEF PositionInv
    <3> QED
      BY <3>1, <3>2, <3>3, ItemsStep
  <2> QED
    BY <1>3, <2>2, <2>3, AddingStep
<1>4. ASSUME NEW c \in Client, NEW d \in Client, c # d, Adding(c)', Adding(d)'
      PROVE  on'[c] # on'[d] \/ line'[c].position # line'[d].position
  <2>0. on'[c] = on[c] /\ on'[d] = on[d]
    BY <1>4, AddingStep
  <2>1. ASSUME NEW a \in Client, NEW b \in Client, a # b, Adding(b), line'[b] = line[b],
               line'[a].position = num[a], PositionFree(on[a], num[a])
        PROVE  on[a] # on[b] \/ line'[a].position # line'[b].position
    <3>1. line[b].invoice = on[b]
      BY <2>1 DEF TxnInv, Txn, Adding
    <3> QED
      BY <2>1, <3>1 DEF PositionFree, Adding, Writing
  <2>2. CASE Adding(c) /\ line'[c] = line[c] /\ Adding(d) /\ line'[d] = line[d]
    BY <1>4, <2>0, <2>2 DEF PositionInv
  <2>3. CASE ~(Adding(c) /\ line'[c] = line[c])
    BY <1>4, <2>0, <2>1, <2>3, AddingStep
  <2>4. CASE ~(Adding(d) /\ line'[d] = line[d])
    BY <1>4, <2>0, <2>1, <2>4, AddingStep
  <2> QED
    BY <2>2, <2>3, <2>4
<1> QED
  BY <1>2, <1>3, <1>4 DEF PositionInv

\* An invoice to which lines were only added has at most one line under way.
LEMMA OneAdder ==
    ASSUME TypeOK, TxnInv, PositionInv, GrowthInv, NEW i \in InvoiceId, Growing(i),
           NEW c \in Client, NEW d \in Client, Adding(c), Adding(d), on[c] = i, on[d] = i
    PROVE  c = d
<1>1. line[c].position \in Nat /\ line[d].position \in Nat
  BY DEF TxnInv, Txn, Adding, Line
<1>2. FilledBelow(i, line[c].position) /\ FilledBelow(i, line[d].position)
  BY DEF GrowthInv
<1>3. ASSUME NEW a \in Client, NEW b \in Client, Adding(a), on[a] = i, FilledBelow(i, line[b].position),
             line[a].position \in Nat, line[b].position \in Nat, line[a].position < line[b].position
      PROVE  FALSE
  <2>1. line[a].position \in 0..(line[b].position - 1)
    BY <1>3
  <2>2. PICK l \in LinesOf(i) : l.position = line[a].position
    BY <1>3, <2>1 DEF FilledBelow
  <2> QED
    BY <1>3, <2>2 DEF PositionInv, LinesOf
<1>4. line[c].position = line[d].position
  BY <1>1, <1>2, <1>3
<1> QED
  BY <1>4 DEF PositionInv

\* An invoice of which a line was removed is not one to which lines were only
\* added, and never becomes one again.
LEMMA GrowingBefore ==
    ASSUME TypeOK, TxnInv, [Next]_vars, NEW i \in InvoiceId, invoices[i].status # "absent", Growing(i)'
    PROVE  /\ Growing(i)
           /\ \A c \in Client : UpdateTotals(c) /\ on[c] = i => op[c] = "item_added"
<1> DEFINE EventRow == [kind : Kind, from : Status, to : Status]
<1>0. events[i] \in Seq(EventRow)
  BY DEF TypeOK
<1> HIDE DEF EventRow
<1>1. ASSUME NEW e \in EventRow, events'[i] = Append(events[i], e)
      PROVE  Growing(i) /\ e.kind # "item_removed"
  <2>1. /\ Len(events[i]) \in Nat /\ DOMAIN events[i] = 1..Len(events[i])
        /\ DOMAIN events'[i] = 1..(Len(events[i]) + 1)
        /\ \A k \in 1..Len(events[i]) : events'[i][k] = events[i][k]
        /\ events'[i][Len(events[i]) + 1] = e
    BY <1>0, <1>1, AppendEntries
  <2>2. /\ Len(events[i]) + 1 \in DOMAIN events'[i]
        /\ \A k \in DOMAIN events[i] : k \in DOMAIN events'[i] /\ events'[i][k] = events[i][k]
    BY <2>1
  <2> QED
    BY <2>1, <2>2 DEF Growing
<1>2. ASSUME events'[i] = events[i] PROVE Growing(i)
  BY <1>2 DEF Growing
<1>3. ASSUME NEW c \in Client, NEW j \in InvoiceId, NEW tax \in Tax, NEW lines \in NewLines(j),
             Create(c, j, lines, tax)
      PROVE  events'[i] = events[i]
  BY <1>3, CreateStep
<1>4. ASSUME NEW c \in Client, UpdateTotals(c), on[c] = i
      PROVE  Growing(i) /\ op[c] = "item_added"
  <2> DEFINE e == Event(op[c], "null", "null")
  <2>1. op[c] \in {"item_added", "item_removed"} /\ events'[i] = Append(events[i], e)
    BY <1>4, EditStep
  <2>2. e \in EventRow /\ e.kind = op[c]
    BY <2>1 DEF EventRow, Event, Kind, Status
  <2> HIDE DEF e
  <2> QED
    BY <1>1, <2>1, <2>2
<1>5. ASSUME NEW c \in Client, UpdateTotals(c), on[c] # i PROVE events'[i] = events[i]
  BY <1>5, EditStep
<1>6. ASSUME NEW c \in Client, CompareAndSet(c) PROVE Growing(i)
  <2>1. CASE on[c] = i
    <3> DEFINE e == Event(op[c], invoices[i].status, TransitionTo[op[c]])
    <3>1. /\ op[c] \in {"issued", "paid", "voided"} /\ events'[i] = Append(events[i], e)
          /\ CanTransition(invoices[i].status, TransitionTo[op[c]])
      BY <1>6, <2>1, TransitionStep
    <3>2. e \in EventRow
      BY <3>1, TransitionTarget DEF EventRow, Event, Kind, Status, CanTransition
    <3> HIDE DEF e
    <3> QED
      BY <1>1, <3>1, <3>2
  <2>2. CASE on[c] # i
    BY <1>2, <1>6, <2>2, TransitionStep
  <2> QED
    BY <2>1, <2>2
<1>7. ASSUME UNCHANGED tables PROVE events'[i] = events[i]
  BY <1>7 DEF tables
<1> QED
  BY <1>2, <1>3, <1>4, <1>5, <1>6, <1>7, StepTables DEF TableStep

\* Unless an edit of it commits, an invoice keeps its lines and its subtotal.
LEMMA LinesKept ==
    ASSUME TypeOK, TxnInv, [Next]_vars, NEW i \in InvoiceId, invoices[i].status # "absent",
           \A c \in Client : UpdateTotals(c) => on[c] # i
    PROVE  LinesOf(i)' = LinesOf(i) /\ invoices'[i].subtotal = invoices[i].subtotal
<1>1. ASSUME NEW c \in Client, NEW j \in InvoiceId, NEW tax \in Tax, NEW lines \in NewLines(j),
             Create(c, j, lines, tax)
      PROVE  LinesOf(i)' = LinesOf(i) /\ invoices'[i].subtotal = invoices[i].subtotal
  <2>1. i # j /\ items' = items \cup lines /\ \A l \in lines : l.invoice = j
    BY <1>1, CreateStep
  <2>2. invoices'[i] = invoices[i]
    BY <1>1, <2>1, CreateStep
  <2> QED
    BY <2>1, <2>2 DEF LinesOf
<1>2. ASSUME NEW c \in Client, UpdateTotals(c)
      PROVE  LinesOf(i)' = LinesOf(i) /\ invoices'[i].subtotal = invoices[i].subtotal
  <2>1. /\ on[c] # i /\ line[c].invoice = on[c] /\ invoices'[i] = invoices[i]
        /\ items' = IF op[c] = "item_added" THEN items \cup {line[c]} ELSE items \ {line[c]}
    BY <1>2, EditStep
  <2> QED
    BY <2>1 DEF LinesOf
<1>3. ASSUME NEW c \in Client, CompareAndSet(c)
      PROVE  LinesOf(i)' = LinesOf(i) /\ invoices'[i].subtotal = invoices[i].subtotal
  BY <1>3, TransitionStep DEF LinesOf
<1>4. ASSUME UNCHANGED tables
      PROVE  LinesOf(i)' = LinesOf(i) /\ invoices'[i].subtotal = invoices[i].subtotal
  BY <1>4 DEF LinesOf, tables
<1> QED
  BY <1>1, <1>2, <1>3, <1>4, StepTables DEF TableStep

\* The subtotal stays the sum of the lines while lines are only added.
LEMMA NextGrowth ==
    ASSUME TypeOK, TxnInv, AbsentInv, PositionInv, GrowthInv, [Next]_vars
    PROVE  GrowthInv'
<1> SUFFICES ASSUME NEW i \in InvoiceId, Growing(i)'
             PROVE  /\ invoices'[i].subtotal = Total(LinesOf(i)')
                    /\ \A l \in LinesOf(i)' : FilledBelow(i, l.position)'
                    /\ \A d \in Client : on'[d] = i =>
                          /\ pc'[d] = "insert" => FilledBelow(i, num[d])'
                          /\ Adding(d)' => FilledBelow(i, line[d].position)'
                          /\ Adding(d)' /\ pc'[d] = "totals" =>
                                num'[d] = Total(LinesOf(i)' \cup {line'[d]})
  BY DEF GrowthInv
<1> DEFINE Sums == /\ invoices'[i].subtotal = Total(LinesOf(i)')
                   /\ \A l \in LinesOf(i)' : FilledBelow(i, l.position)'
           Fills(d) == /\ pc'[d] = "insert" => FilledBelow(i, num[d])'
                       /\ Adding(d)' => FilledBelow(i, line[d].position)'
                       /\ Adding(d)' /\ pc'[d] = "totals" =>
                             num'[d] = Total(LinesOf(i)' \cup {line'[d]})
<1>1. CASE invoices[i].status = "absent"
  <2>1. PICK c \in Client, tax \in Tax, lines \in NewLines(i) : Create(c, i, lines, tax)
    <3>1. invoices'[i].status # "absent"
      BY DEF Growing
    <3>2. ASSUME NEW c \in Client, NEW j \in InvoiceId, NEW tax \in Tax, NEW lines \in NewLines(j),
                 Create(c, j, lines, tax)
          PROVE  i = j
      BY <1>1, <3>1, <3>2, CreateStep
    <3>3. ASSUME NEW c \in Client, UpdateTotals(c) PROVE FALSE
      BY <1>1, <3>1, <3>3, EditStep
    <3>4. ASSUME NEW c \in Client, CompareAndSet(c) PROVE FALSE
      BY <1>1, <3>1, <3>4, TransitionStep DEF CanTransition
    <3>5. ~ UNCHANGED tables
      BY <1>1, <3>1 DEF tables
    <3> QED
      BY <3>2, <3>3, <3>4, <3>5, StepTables DEF TableStep
  <2>2. /\ LinesOf(i)' = lines /\ invoices'[i].subtotal = Total(lines) /\ lines \subseteq Line
    <3>1. LinesOf(i) = {}
      BY <1>1 DEF LinesOf, AbsentInv
    <3>2. /\ items' = items \cup lines /\ invoices'[i].subtotal = Total(lines)
          /\ lines \subseteq Line /\ \A l \in lines : l.invoice = i
      BY <2>1, CreateStep
    <3> QED
      BY <3>1, <3>2 DEF LinesOf
  <2>3. \A l \in lines : FilledBelow(i, l.position)'
    <3> SUFFICES ASSUME NEW l \in lines, NEW q \in 0..(l.position - 1)
                 PROVE  \E m \in lines : m.position = q
      BY <2>2 DEF FilledBelow
    <3>1. l.position \in Nat
      BY <2>2 DEF Line
    <3>2. q \in 0..l.position
      BY <3>1
    <3> QED
      BY <2>1, <3>2 DEF Create
  <2>4. ASSUME NEW d \in Client, on'[d] = i PROVE pc'[d] # "insert" /\ ~Adding(d)'
    <3>1. /\ pc'[c] = "idle" /\ pc[c] = "create"
          /\ d # c => pc'[d] = pc[d] /\ on'[d] = on[d] /\ op'[d] = op[d]
      BY <2>1, EndStep DEF Create
    <3>2. d # c => pc[d] \in {"idle", "create"}
      BY <1>1, <2>4, <3>1 DEF TxnInv, Txn
    <3> QED
      BY <3>1, <3>2 DEF Adding, Writing
  <2> QED
    BY <2>2, <2>3, <2>4
<1>2. CASE invoices[i].status # "absent"
  <2>0. Growing(i) /\ \A c \in Client : UpdateTotals(c) /\ on[c] = i => op[c] = "item_added"
    BY <1>2, GrowingBefore
  <2>1. /\ invoices[i].subtotal = Total(LinesOf(i))
        /\ \A l \in LinesOf(i) : FilledBelow(i, l.position)
        /\ \A d \in Client : on[d] = i =>
              /\ pc[d] = "insert" => FilledBelow(i, num[d])
              /\ Adding(d) => FilledBelow(i, line[d].position)
              /\ Adding(d) /\ pc[d] = "totals" => num[d] = Total(LinesOf(i) \cup {line[d]})
    BY <2>0 DEF GrowthInv
  <2>2. ASSUME NEW c \in Client, UpdateTotals(c), on[c] = i
        PROVE  Sums /\ \A d \in Client : on'[d] = i => Fills(d)
    <3>1. /\ op[c] = "item_added" /\ pc[c] = "totals" /\ line[c] \in Line /\ line[c].invoice = i
          /\ invoices'[i].subtotal = num[c] /\ items' = items \cup {line[c]}
      BY <2>0, <2>2, EditStep
    <3>2. Adding(c)
      BY <3>1 DEF Adding, Writing
    <3>3. LinesOf(i)' = LinesOf(i) \cup {line[c]}
      BY <3>1 DEF LinesOf
    <3>4. invoices'[i].subtotal = Total(LinesOf(i)')
      BY <2>1, <2>2, <3>1, <3>2, <3>3
    <3>5. ASSUME NEW p, FilledBelow(i, p)
          PROVE  \A q \in 0..(p - 1) : \E l \in LinesOf(i)' : l.position = q
      BY <3>3, <3>5 DEF FilledBelow
    <3>6. \A l \in LinesOf(i)' : FilledBelow(i, l.position)
      BY <2>1, <2>2, <3>2, <3>3
    <3>7. \A l \in LinesOf(i)' : FilledBelow(i, l.position)'
      BY <3>5, <3>6 DEF FilledBelow
    <3>8. /\ pc'[c] = "idle"
          /\ \A d \in Client : d # c => /\ pc'[d] = pc[d] /\ on'[d] = on[d] /\ op'[d] = op[d]
                                        /\ line'[d] = line[d] /\ num'[d] = num[d]
      BY <2>2, EndStep DEF UpdateTotals
    <3>9. ASSUME NEW d \in Client, on'[d] = i PROVE Fills(d)
      <4>1. ~Adding(d)'
        <5>1. CASE d = c
          BY <3>8, <5>1 DEF Adding, Writing
        <5>2. CASE d # c
          BY <2>0, <2>2, <3>2, <3>8, <3>9, <5>2, OneAdder DEF Adding, Writing
        <5> QED
          BY <5>1, <5>2
      <4>2. ASSUME pc'[d] = "insert" PROVE FilledBelow(i, num[d])'
        <5>1. d # c /\ FilledBelow(i, num[d]) /\ num'[d] = num[d]
          BY <2>1, <3>8, <3>9, <4>2
        <5> QED
          BY <3>5, <5>1 DEF FilledBelow
      <4> QED
        BY <4>1, <4>2
    <3> QED
      BY <3>4, <3>7, <3>9
  <2>3. CASE \A c \in Client : UpdateTotals(c) => on[c] # i
    <3>1. LinesOf(i)' = LinesOf(i) /\ invoices'[i].subtotal = invoices[i].subtotal
      BY <1>2, <2>3, LinesKept
    <3>2. ASSUME NEW p, FilledBelow(i, p)
          PROVE  \A q \in 0..(p - 1) : \E l \in LinesOf(i)' : l.position = q
      BY <3>1, <3>2 DEF FilledBelow
    <3>3. Sums
      BY <2>1, <3>1, <3>2 DEF FilledBelow
    <3>4. ASSUME NEW d \in Client, on'[d] = i PROVE Fills(d)
      <4>1. CASE pc'[d] = pc[d] /\ on'[d] = on[d] /\ op'[d] = op[d] /\ line'[d] = line[d] /\ num'[d] = num[d]
        <5>1. Adding(d)' <=> Adding(d)
          BY <4>1 DEF Adding, Writing
        <5>2. /\ pc'[d] = "insert" => FilledBelow(i, num'[d])
              /\ Adding(d)' => FilledBelow(i, line'[d].position)
              /\ Adding(d)' /\ pc'[d] = "totals" => num'[d] = Total(LinesOf(i) \cup {line'[d]})
          BY <2>1, <3>4, <4>1, <5>1
        <5> QED
          BY <3>1, <3>2, <5>2 DEF FilledBelow
      <4>2. CASE pc'[d] \in {"idle", "create", "position", "delete", "cas"}
        BY <4>2 DEF Adding, Writing
      <4>3. CASE FindPosition(d)
        <5>1. PICK p \in {0} \cup {l.position + 1 : l \in LinesOf(on[d])} :
                   num' = [num EXCEPT ![d] = p]
          BY <4>3 DEF FindPosition
        <5>2. on[d] = i /\ pc'[d] = "insert" /\ num'[d] = p
          BY <3>4, <4>3, <5>1 DEF FindPosition, TypeOK
        <5>3. \A q \in 0..(p - 1) : \E l \in LinesOf(i) : l.position = q
          <6>1. CASE p = 0
            BY <6>1
          <6>2. ASSUME NEW l \in LinesOf(i), p = l.position + 1, NEW q \in 0..(p - 1)
                PROVE  \E m \in LinesOf(i) : m.position = q
            <7>1. l.position \in Nat
              BY DEF LinesOf, TypeOK, Line
            <7>2. q = l.position \/ q \in 0..(l.position - 1)
              BY <6>2, <7>1
            <7> QED
              BY <2>1, <7>2 DEF FilledBelow
          <6> QED
            BY <5>2, <6>1, <6>2
        <5> QED
          BY <3>1, <5>2, <5>3 DEF Adding, Writing, FilledBelow
      <4>4. CASE DeleteItem(d)
        BY <4>4 DEF DeleteItem, TypeOK, TxnInv, Txn, Adding, Writing
      <4>5. CASE SumLines(d)
        <5>1. /\ pc[d] = "sum" /\ pc'[d] = "totals" /\ on[d] = i /\ op'[d] = op[d] /\ line'[d] = line[d]
              /\ num'[d] = Total(Visible(d))
          BY <3>4, <4>5 DEF SumLines, TypeOK
        <5>2. ASSUME Adding(d)'
              PROVE  Adding(d) /\ num'[d] = Total(LinesOf(i)' \cup {line'[d]})
          BY <3>1, <5>1, <5>2 DEF Adding, Writing, Visible
        <5>3. Adding(d)' => FilledBelow(i, line'[d].position)
          BY <2>1, <5>1, <5>2
        <5> QED
          BY <3>2, <5>1, <5>2, <5>3 DEF FilledBelow
      <4>6. ASSUME NEW id \in ItemId, NEW amount \in LineTotal, InsertItem(d, id, amount)
            PROVE  Fills(d)
        <5>1. pc[d] = "insert" /\ pc'[d] = "sum" /\ on[d] = i /\ line'[d].position = num[d]
          BY <3>4, <4>6 DEF InsertItem, TypeOK
        <5>2. FilledBelow(i, line'[d].position)
          BY <2>1, <5>1
        <5> QED
          BY <3>2, <5>1, <5>2 DEF FilledBelow
      <4> QED
        BY <4>1, <4>2, <4>3, <4>4, <4>5, <4>6, RequestStep
    <3> QED
      BY <3>3, <3>4
  <2> QED
    BY <2>2, <2>3
<1> QED
  BY <1>1, <1>2
-----------------------------------------------------------------------------
(* Theorems. *)

\* The empty tables satisfy the invariant.
LEMMA InitInv == Init => IInv
<1> SUFFICES ASSUME Init PROVE IInv
  OBVIOUS
<1>1. TypeOK
  BY InitType
<1>2. /\ \A c \in Client : pc[c] = "idle" /\ ~Adding(c)
      /\ \A i \in InvoiceId : /\ invoices[i] = NoRow /\ invoices[i].status = "absent"
                              /\ events[i] = <<>> /\ announced[i] = <<>>
      /\ items = {} /\ counter = 1
  BY DEF Init, Adding, Writing, NoRow, Row
<1>3. TxnInv /\ AbsentInv
  BY <1>2 DEF TxnInv, Txn, Writing, AbsentInv
<1>4. NumberInv
  <2>1. Used = {}
    BY <1>2 DEF Used
  <2>2. {invoices[i].number : i \in Used} = {} /\ 1..(counter - 1) = {}
    BY <1>2, <2>1
  <2> QED
    BY <1>2, <2>1, <2>2 DEF NumberInv, NumbersContiguous, Used
<1>5. ReplayInv
  <2>1. \A i \in InvoiceId : DOMAIN announced[i] = {}
    BY <1>2
  <2> QED
    BY <1>2, <2>1 DEF ReplayInv, EventsReplay
<1>6. PositionInv /\ GrowthInv
  BY <1>2 DEF PositionInv, GrowthInv, Growing
<1> QED
  BY <1>1, <1>3, <1>4, <1>5, <1>6 DEF IInv

\* Every step keeps the invariant.
LEMMA NextInv == IInv /\ [Next]_vars => IInv'
<1> SUFFICES ASSUME IInv, [Next]_vars PROVE IInv'
  OBVIOUS
<1> USE DEF IInv
<1>1. TypeOK'
  BY NextType
<1>2. TxnInv' /\ AbsentInv' /\ NumberInv' /\ ReplayInv' /\ PositionInv' /\ GrowthInv'
  BY NextTxn, NextAbsent, NextNumber, NextReplay, NextPosition, NextGrowth
<1> QED
  BY <1>1, <1>2

\* The invariant holds in every reachable state of the invoice store.
THEOREM Invariance == Spec => []IInv
  BY InitInv, NextInv, PTL DEF Spec

\* Tables and open transactions keep their types, and the subtotal plus the tax
\* of every invoice fits an int64 (SumTotals, InvoiceTotal).
THEOREM TypeCorrect == Spec => []TypeOK
<1>1. IInv => TypeOK
  BY DEF IInv
<1> QED
  BY <1>1, Invariance, PTL

\* Invoice numbers are distinct and without a gap (invoice_counters), however
\* many creates run at once and roll back.
THEOREM NumbersRun == Spec => []NumbersContiguous
<1>1. IInv => NumbersContiguous
  BY DEF IInv, NumberInv
<1> QED
  BY <1>1, Invariance, PTL

\* The event log of every invoice replays to its status, and its end is
\* announced at most once (Transition).
THEOREM LogsReplay == Spec => []EventsReplay
<1>1. IInv => EventsReplay
  BY DEF IInv, ReplayInv
<1> QED
  BY <1>1, Invariance, PTL

\* As long as no line of an invoice was removed its subtotal is the sum of its
\* lines (AddItem, recomputeTotals, UNIQUE (invoice_id, position)), although the
\* sum is read before the invoice is locked.
THEOREM SubtotalOfGrowing == Spec => []SubtotalWhileGrowing
<1>1. IInv => SubtotalWhileGrowing
  BY DEF IInv, PositionInv, GrowthInv, Growing, SubtotalWhileGrowing
<1> QED
  BY <1>1, Invariance, PTL

\* Past draft, amounts, number and lines are final (recomputeTotals' WHERE,
\* invoice_items_guard).
THEOREM MoneyIsFrozen == Spec => MoneyFrozen
<1>1. ASSUME IInv, [Next]_vars, NEW i \in InvoiceId, invoices[i].status \notin {"absent", "draft"}
      PROVE  /\ LinesOf(i)' = LinesOf(i)
             /\ invoices'[i].subtotal = invoices[i].subtotal
             /\ invoices'[i].tax = invoices[i].tax
             /\ invoices'[i].number = invoices[i].number
  <2>1. \A c \in Client : UpdateTotals(c) => on[c] # i
    BY <1>1 DEF UpdateTotals
  <2> QED
    BY <1>1, <2>1, LinesKept, RowsKept DEF IInv
<1>2. IInv /\ [Next]_vars =>
        [\A i \in InvoiceId : invoices[i].status \notin {"absent", "draft"} =>
            /\ LinesOf(i)' = LinesOf(i)
            /\ invoices'[i].subtotal = invoices[i].subtotal
            /\ invoices'[i].tax = invoices[i].tax
            /\ invoices'[i].number = invoices[i].number]_vars
  BY <1>1
<1> QED
  BY <1>2, Invariance, PTL DEF Spec, MoneyFrozen

\* Neither the row nor the lines of an invoice change without its version
\* (AddItem, RemoveItem and Transition all increment it).
THEOREM VersionsName == Spec => VersionNamesContent
<1>1. ASSUME IInv, [Next]_vars, NEW i \in InvoiceId, invoices'[i].version = invoices[i].version
      PROVE  invoices'[i] = invoices[i] /\ LinesOf(i)' = LinesOf(i)
  <2>0. TypeOK /\ TxnInv /\ AbsentInv /\ invoices[i].version \in Nat
    BY <1>1 DEF IInv, TypeOK, InvoiceRow
  <2>1. ASSUME NEW c \in Client, NEW j \in InvoiceId, NEW tax \in Tax, NEW lines \in NewLines(j),
               Create(c, j, lines, tax)
        PROVE  invoices'[i] = invoices[i] /\ LinesOf(i)' = LinesOf(i)
    <3>1. i # j
      BY <1>1, <2>0, <2>1, CreateStep DEF AbsentInv, NoRow, Row
    <3>2. invoices'[i] = invoices[i] /\ items' = items \cup lines /\ \A l \in lines : l.invoice = j
      BY <2>0, <2>1, <3>1, CreateStep
    <3> QED
      BY <3>1, <3>2 DEF LinesOf
  <2>2. ASSUME NEW c \in Client, UpdateTotals(c)
        PROVE  invoices'[i] = invoices[i] /\ LinesOf(i)' = LinesOf(i)
    <3>1. i # on[c]
      BY <1>1, <2>0, <2>2, EditStep
    <3>2. /\ invoices'[i] = invoices[i] /\ line[c].invoice = on[c]
          /\ items' = IF op[c] = "item_added" THEN items \cup {line[c]} ELSE items \ {line[c]}
      BY <2>0, <2>2, <3>1, EditStep
    <3> QED
      BY <3>1, <3>2 DEF LinesOf
  <2>3. ASSUME NEW c \in Client, CompareAndSet(c)
        PROVE  invoices'[i] = invoices[i] /\ LinesOf(i)' = LinesOf(i)
    <3>1. i # on[c]
      BY <1>1, <2>0, <2>3, TransitionStep
    <3> QED
      BY <2>0, <2>3, <3>1, TransitionStep DEF LinesOf
  <2>4. ASSUME UNCHANGED tables
        PROVE  invoices'[i] = invoices[i] /\ LinesOf(i)' = LinesOf(i)
    BY <2>4 DEF tables, LinesOf
  <2> QED
    BY <1>1, <2>1, <2>2, <2>3, <2>4, StepTables DEF TableStep
<1>2. IInv /\ [Next]_vars =>
        [\A i \in InvoiceId : invoices'[i].version = invoices[i].version =>
            invoices'[i] = invoices[i] /\ LinesOf(i)' = LinesOf(i)]_vars
  BY <1>1
<1> QED
  BY <1>2, Invariance, PTL DEF Spec, VersionNamesContent
=============================================================================
