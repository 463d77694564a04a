------------------------------- MODULE Invoice -------------------------------
(***************************************************************************)
(* The invoices of one tenant (internal/invoice and the triggers of        *)
(* migrations 0008 and 0009).  Each store method is a READ COMMITTED       *)
(* transaction; its statements are steps, so transactions interleave       *)
(* between them, and each statement sees what has committed by then plus   *)
(* the transaction's own writes.  The statement that updates the invoice   *)
(* row and the commit are one step: the row lock keeps other updates out   *)
(* in between, and reads see the old row until the commit.                 *)
(***************************************************************************)
EXTENDS Integers, Sequences, FiniteSets, FiniteSetsExt

CONSTANTS
    Client,      \* concurrent API requests
    InvoiceId,
    ItemId,      \* identities of invoice lines
    LineTotal,   \* the line totals clients may ask for, quantity times price
    Tax,         \* the tax amounts clients may ask for
    MaxAmount,   \* math.MaxInt64
    MaxItems,    \* MaxItemsPerInvoice
    MaxPayload,  \* lines that fit a notification of MaxPayloadBytes
    NoInvoice, NoLine,
    MaxVersion,  \* bound: changes to one invoice
    MaxNumber    \* bound: numbers handed out

Line == [id : ItemId, invoice : InvoiceId, position : Nat, amount : LineTotal]

ASSUME InvoiceAssumption ==
    /\ LineTotal \subseteq Nat /\ Tax \subseteq Nat
    /\ MaxAmount \in Nat /\ MaxItems \in Nat /\ MaxPayload \in Nat
    /\ MaxVersion \in Nat /\ MaxNumber \in Nat
    /\ NoInvoice \notin InvoiceId /\ NoLine \notin Line

VARIABLES
    invoices,   \* the invoices table
    items,      \* the committed rows of invoice_items
    spent,      \* line identities handed out
    counter,    \* invoice_counters.next_number
    events,     \* invoice_events, per invoice, in order
    announced,  \* the events enqueued in the outbox, per invoice, in order
    pc,         \* the statement a request's open transaction has come to
    on,         \* the invoice it works on
    op,         \* the kind of event it will record
    before,     \* the invoice row it read first
    line,       \* the line it inserts or deletes
    num         \* next position, then subtotal; expected version; number

tables == <<invoices, items, counter, events, announced>>
txn    == <<pc, on, op, before, line, num>>
vars   == <<tables, spent, txn>>
-----------------------------------------------------------------------------
(* Rows and amounts. *)

Row(status, version, subtotal, tax, number) ==
    [status |-> status, version |-> version, subtotal |-> subtotal, tax |-> tax,
     number |-> number]

NoRow == Row("absent", 0, 0, 0, 0)

LinesOf(i) == {l \in items : l.invoice = i}

Total(lines) == MapThenSumSet(LAMBDA l : l.amount, lines)

\* Mutant: the sum is not checked.
RepresentableAlways(subtotal, tax) == subtotal >= 0 /\ tax >= 0

\* SumTotals and InvoiceTotal: an amount past MaxInt64 is refused.
Representable(subtotal, tax) ==
    subtotal \in 0..MaxAmount /\ tax \in 0..MaxAmount /\ subtotal + tax <= MaxAmount

\* CanTransition, and TransitionTo under the kind of event it records.
CanTransition(from, to) ==
    \/ from = "draft" /\ to \in {"open", "void"}
    \/ from = "open" /\ to \in {"paid", "void"}

TransitionTo == [issued |-> "open", paid |-> "paid", voided |-> "void"]

\* eventPayload carries every line, and Enqueue refuses a payload over the limit,
\* with the transaction that asked for it.
PayloadFits(lines) == Cardinality(lines) <= MaxPayload

\* invoice_events; "null" where the column is NULL.
Event(kind, from, to) == [kind |-> kind, from |-> from, to |-> to]
-----------------------------------------------------------------------------
(* Transactions. *)

Begin(c, label, i, kind, row, l, n) ==
    /\ pc[c] = "idle"
    /\ pc' = [pc EXCEPT ![c] = label]
    /\ on' = [on EXCEPT ![c] = i]
    /\ op' = [op EXCEPT ![c] = kind]
    /\ before' = [before EXCEPT ![c] = row]
    /\ line' = [line EXCEPT ![c] = l]
    /\ num' = [num EXCEPT ![c] = n]

End(c) ==
    /\ pc' = [pc EXCEPT ![c] = "idle"]
    /\ on' = [on EXCEPT ![c] = NoInvoice]
    /\ op' = [op EXCEPT ![c] = "none"]
    /\ before' = [before EXCEPT ![c] = NoRow]
    /\ line' = [line EXCEPT ![c] = NoLine]
    /\ num' = [num EXCEPT ![c] = 0]

\* An error, a conflict, a cancelled request or a crash before the commit.
Rollback(c) ==
    /\ pc[c] # "idle"
    /\ End(c)
    /\ UNCHANGED <<tables, spent>>
-----------------------------------------------------------------------------
(* Create. *)

\* Mutant: the next number is read without a lock.
AllocateUnlocked(c) ==
    /\ counter <= MaxNumber
    /\ Begin(c, "create", NoInvoice, "created", NoRow, NoLine, counter)
    /\ UNCHANGED <<tables, spent>>

\* The counter row is locked until the transaction ends.
AllocateNumber(c) ==
    /\ \A d \in Client : pc[d] # "create"
    /\ counter <= MaxNumber
    /\ Begin(c, "create", NoInvoice, "created", NoRow, NoLine, counter)
    /\ UNCHANGED <<tables, spent>>

\* The invoice, its lines, its event and its notification commit together.
\* Lines get their positions in order.
Create(c, i, lines, tax) ==
    /\ pc[c] = "create"
    /\ invoices[i].status = "absent"
    /\ \A l \in lines : l.invoice = i /\ l.id \notin spent
    /\ \A l, m \in lines : l # m => l.id # m.id /\ l.position # m.position
    /\ \A l \in lines : \A p \in 0..l.position : \E m \in lines : m.position = p
    /\ Cardinality(lines) <= MaxItems
    /\ Representable(Total(lines), tax)
    /\ PayloadFits(lines)
    /\ invoices' = [invoices EXCEPT ![i] = Row("draft", 1, Total(lines), tax, num[c])]
    /\ items' = items \cup lines
    /\ spent' = spent \cup {l.id : l \in lines}
    /\ counter' = num[c] + 1
    /\ events' = [events EXCEPT ![i] = Append(@, Event("created", "null", "draft"))]
    /\ announced' = [announced EXCEPT ![i] = Append(@, "created")]
    /\ End(c)
-----------------------------------------------------------------------------
(* AddItem and RemoveItem. *)

Editable(i) == invoices[i].status = "draft" /\ invoices[i].version < MaxVersion

\* Both read the invoice first, without locking it, and refuse all but a draft.
ReadForAdd(c, i) ==
    /\ Editable(i)
    /\ Begin(c, "position", i, "item_added", invoices[i], NoLine, 0)
    /\ UNCHANGED <<tables, spent>>

ReadForRemove(c, l) ==
    /\ Editable(l.invoice)
    /\ Begin(c, "delete", l.invoice, "item_removed", invoices[l.invoice], l, 0)
    /\ UNCHANGED <<tables, spent>>

\* SELECT COALESCE(max(position) + 1, 0).
FindPosition(c) ==
    /\ pc[c] = "position"
    /\ \E p \in {0} \cup {l.position + 1 : l \in LinesOf(on[c])} :
          /\ \A l \in LinesOf(on[c]) : l.position < p
          /\ num' = [num EXCEPT ![c] = p]
    /\ pc' = [pc EXCEPT ![c] = "insert"]
    /\ UNCHANGED <<tables, spent, on, op, before, line>>

\* UNIQUE (invoice_id, position): an insert waits for an open transaction that
\* wrote the same position, and fails once it is committed.
PositionFree(i, p) ==
    /\ \A l \in LinesOf(i) : l.position # p
    /\ \A d \in Client : pc[d] \in {"sum", "totals"} /\ op[d] = "item_added"
          => line[d].invoice # i \/ line[d].position # p

\* invoice_items_guard reads the invoice again: items of a draft only.
InsertItem(c, id, amount) ==
    /\ pc[c] = "insert"
    /\ invoices[on[c]].status = "draft"
    /\ id \notin spent
    /\ PositionFree(on[c], num[c])
    /\ line' = [line EXCEPT ![c] = [id |-> id, invoice |-> on[c], position |-> num[c],
                                    amount |-> amount]]
    /\ spent' = spent \cup {id}
    /\ pc' = [pc EXCEPT ![c] = "sum"]
    /\ UNCHANGED <<tables, on, op, before, num>>

\* Deleting a line waits for an open transaction that deletes it.
DeleteItem(c) ==
    /\ pc[c] = "delete"
    /\ invoices[on[c]].status = "draft"
    /\ line[c] \in items
    /\ \A d \in Client : pc[d] \in {"sum", "totals"} /\ op[d] = "item_removed"
          => line[d] # line[c]
    /\ pc' = [pc EXCEPT ![c] = "sum"]
    /\ UNCHANGED <<tables, spent, on, op, before, line, num>>

\* The committed lines, with the transaction's own change.
Visible(c) ==
    IF op[c] = "item_added" THEN LinesOf(on[c]) \cup {line[c]}
                            ELSE LinesOf(on[c]) \ {line[c]}

\* Mutant: the sum misses the line just written.
SumCommittedLines(c) ==
    /\ pc[c] = "sum"
    /\ Representable(Total(LinesOf(on[c])), before[c].tax)
    /\ num' = [num EXCEPT ![c] = Total(LinesOf(on[c]))]
    /\ pc' = [pc EXCEPT ![c] = "totals"]
    /\ UNCHANGED <<tables, spent, on, op, before, line>>

\* recomputeTotals reads the sum ...
SumLines(c) ==
    /\ pc[c] = "sum"
    /\ Representable(Total(Visible(c)), before[c].tax)
    /\ num' = [num EXCEPT ![c] = Total(Visible(c))]
    /\ pc' = [pc EXCEPT ![c] = "totals"]
    /\ UNCHANGED <<tables, spent, on, op, before, line>>

\* Mutant: an edit leaves the version alone.
WithTotalsOnly(row, subtotal) ==
    Row(row.status, row.version, subtotal, row.tax, row.number)

WithTotals(row, subtotal) ==
    Row(row.status, row.version + 1, subtotal, row.tax, row.number)

\* Mutant: ... and writes it, whatever became of the invoice.
UpdateTotalsAnyStatus(c) ==
    /\ pc[c] = "totals"
    /\ invoices' = [invoices EXCEPT ![on[c]] = WithTotals(@, num[c])]
    /\ items' = IF op[c] = "item_added" THEN items \cup {line[c]} ELSE items \ {line[c]}
    /\ events' = [events EXCEPT ![on[c]] = Append(@, Event(op[c], "null", "null"))]
    /\ End(c)
    /\ UNCHANGED <<counter, announced, spent>>

\* ... and writes it, if the invoice is a draft still.
UpdateTotals(c) ==
    /\ pc[c] = "totals"
    /\ invoices[on[c]].status = "draft"
    /\ invoices' = [invoices EXCEPT ![on[c]] = WithTotals(@, num[c])]
    /\ items' = IF op[c] = "item_added" THEN items \cup {line[c]} ELSE items \ {line[c]}
    /\ events' = [events EXCEPT ![on[c]] = Append(@, Event(op[c], "null", "null"))]
    /\ End(c)
    /\ UNCHANGED <<counter, announced, spent>>
-----------------------------------------------------------------------------
(* Transition. *)

\* The client names the version it expects; the row is read without a lock.
ReadForTransition(c, i, kind, expected) ==
    /\ invoices[i].version < MaxVersion
    /\ CanTransition(invoices[i].status, TransitionTo[kind])
    /\ Begin(c, "cas", i, kind, invoices[i], NoLine, expected)
    /\ UNCHANGED <<tables, spent>>

\* Mutant: only the version is compared.
UnchangedVersion(c) == invoices[on[c]].version = num[c]

\* The WHERE clause of the UPDATE.
Unchanged(c) ==
    /\ invoices[on[c]].version = num[c]
    /\ invoices[on[c]].status = before[c].status

WithStatus(row, status) ==
    Row(status, row.version + 1, row.subtotal, row.tax, row.number)

CompareAndSet(c) ==
    /\ pc[c] = "cas" /\ Unchanged(c)
    /\ PayloadFits(LinesOf(on[c]))
    /\ invoices' = [invoices EXCEPT ![on[c]] = WithStatus(@, TransitionTo[op[c]])]
    /\ events' = [events EXCEPT ![on[c]] =
                    Append(@, Event(op[c], before[c].status, TransitionTo[op[c]]))]
    /\ announced' = [announced EXCEPT ![on[c]] = Append(@, op[c])]
    /\ End(c)
    /\ UNCHANGED <<items, counter, spent>>
-----------------------------------------------------------------------------
Init ==
    /\ invoices = [i \in InvoiceId |-> NoRow]
    /\ items = {} /\ spent = {}
    /\ counter = 1
    /\ events = [i \in InvoiceId |-> <<>>]
    /\ announced = [i \in InvoiceId |-> <<>>]
    /\ pc = [c \in Client |-> "idle"]
    /\ on = [c \in Client |-> NoInvoice]
    /\ op = [c \in Client |-> "none"]
    /\ before = [c \in Client |-> NoRow]
    /\ line = [c \in Client |-> NoLine]
    /\ num = [c \in Client |-> 0]

\* The lines a Create may carry: at most two, in this model.
NewLines(i) ==
    {{}} \cup {{[id |-> a, invoice |-> i, position |-> 0, amount |-> x]} :
                  a \in ItemId, x \in LineTotal}
         \cup {{[id |-> a, invoice |-> i, position |-> 0, amount |-> x],
                [id |-> b, invoice |-> i, position |-> 1, amount |-> y]} :
                  a, b \in ItemId, x, y \in LineTotal}

Next ==
    \E c \in Client :
        \/ AllocateNumber(c)
        \/ \E i \in InvoiceId, tax \in Tax : \E lines \in NewLines(i) : Create(c, i, lines, tax)
        \/ \E i \in InvoiceId : ReadForAdd(c, i)
        \/ \E l \in items : ReadForRemove(c, l)
        \/ FindPosition(c)
        \/ \E id \in ItemId, amount \in LineTotal : InsertItem(c, id, amount)
        \/ DeleteItem(c) \/ SumLines(c) \/ UpdateTotals(c)
        \/ \E i \in InvoiceId, kind \in {"issued", "paid", "voided"} :
              \E expected \in 1..MaxVersion : ReadForTransition(c, i, kind, expected)
        \/ CompareAndSet(c)
        \/ Rollback(c)

Spec == Init /\ [][Next]_vars
-----------------------------------------------------------------------------
(* Properties. *)

InvoiceRow == [status : {"absent", "draft", "open", "paid", "void"}, version : Nat,
               subtotal : 0..MaxAmount, tax : Nat, number : Nat]

Status == {"null", "draft", "open", "paid", "void"}

Kind == {"created", "item_added", "item_removed", "issued", "paid", "voided"}

\* The tables and the open transactions keep their types; amounts fit an int64.
TypeOK ==
    /\ invoices \in [InvoiceId -> InvoiceRow]
    /\ \A i \in InvoiceId : invoices[i].subtotal + invoices[i].tax <= MaxAmount
    /\ items \subseteq Line
    /\ spent \subseteq ItemId
    /\ counter \in Nat
    /\ events \in [InvoiceId -> Seq([kind : Kind, from : Status, to : Status])]
    /\ announced \in [InvoiceId -> Seq(Kind)]
    /\ pc \in [Client -> {"idle", "create", "position", "insert", "delete", "sum", "totals", "cas"}]
    /\ on \in [Client -> InvoiceId \cup {NoInvoice}]
    /\ op \in [Client -> Kind \cup {"none"}]
    /\ before \in [Client -> InvoiceRow]
    /\ line \in [Client -> Line \cup {NoLine}]
    /\ num \in [Client -> Nat]

\* The subtotal of an invoice is the sum of its lines ("the subtotal is a
\* function of the rows that exist", recomputeTotals).
SubtotalIsSum ==
    \A i \in InvoiceId : invoices[i].subtotal = Total(LinesOf(i))

\* While lines are only added the subtotal is their sum: no two lines of an
\* invoice share a position, which makes its adds wait for each other.
SubtotalWhileGrowing ==
    /\ \A k, l \in items : k # l => k.invoice # l.invoice \/ k.position # l.position
    /\ \A i \in InvoiceId :
          /\ invoices[i].status # "absent"
          /\ \A k \in DOMAIN events[i] : events[i][k].kind # "item_removed"
          => invoices[i].subtotal = Total(LinesOf(i))

\* Once an invoice has left draft its amounts, its number and its lines are
\* final, even for an edit that read the invoice while it was a draft.
MoneyFrozen ==
    [][\A i \in InvoiceId : invoices[i].status \notin {"absent", "draft"} =>
          /\ LinesOf(i)' = LinesOf(i)
          /\ invoices'[i].subtotal = invoices[i].subtotal
          /\ invoices'[i].tax = invoices[i].tax
          /\ invoices'[i].number = invoices[i].number]_vars

\* A version names one content: lines and row change only together with the
\* version, so a transition at the version a client saw is one of what it saw.
VersionNamesContent ==
    [][\A i \in InvoiceId : invoices'[i].version = invoices[i].version =>
          invoices'[i] = invoices[i] /\ LinesOf(i)' = LinesOf(i)]_vars

\* The positions in an event log of the events that set the status.
Steps(log) == {k \in DOMAIN log : log[k].to # "null"}

\* The log leads to a status: its first step starts from nothing, every other
\* step from where the one before it led, and the last one leads there.
LeadsTo(log, status) ==
    /\ \A k \in Steps(log) : (\A j \in Steps(log) : k <= j) => log[k].from = "null"
    /\ \A j, k \in Steps(log) :
          j < k /\ (\A m \in Steps(log) : m <= j \/ k <= m) => log[k].from = log[j].to
    /\ \E k \in Steps(log) : (\A j \in Steps(log) : j <= k) /\ log[k].to = status

\* The event log of an invoice replays to its status ("the event log can be
\* replayed into the current state", migration 0008).  So it is announced as paid
\* at most once, and never as paid and voided ("Settling an invoice twice is the
\* failure that costs money").
EventsReplay ==
    \A i \in InvoiceId :
        /\ invoices[i].status # "absent" => LeadsTo(events[i], invoices[i].status)
        /\ \A j, k \in DOMAIN announced[i] :
              announced[i][j] \in {"paid", "voided"} /\ announced[i][k] \in {"paid", "voided"}
              => j = k

\* The numbers in use are distinct and run from 1 without a gap, also when
\* creates that had taken a number are rolled back: what Create promises ("a
\* failure anywhere leaves nothing behind", of the number too).  The comment of
\* allocateNumber ("consumed even if the transaction later rolls back, leaving
\* gaps") and 0008_invoices.sql say the contrary: the counter is a row like any
\* other, the rollback restores it, and the next create reuses the number.
NumbersContiguous ==
    LET used == {i \in InvoiceId : invoices[i].status # "absent"}
    IN  /\ \A i, j \in used : i # j => invoices[i].number # invoices[j].number
        /\ {invoices[i].number : i \in used} = 1..(counter - 1)
=============================================================================
