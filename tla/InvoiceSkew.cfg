SPECIFICATION Spec
CONSTANTS
  Client = {c1, c2}
  InvoiceId = {i1}
  ItemId = {a, b}
  LineTotal = {1}
  Tax = {0}
  MaxAmount = 4
  MaxItems = 2
  MaxPayload = 2
  NoInvoice = NoInvoice
  NoLine = NoLine
  MaxVersion = 3
  MaxNumber = 2
INVARIANTS
  SubtotalIsSum
SYMMETRY Symmetric
