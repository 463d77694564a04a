SPECIFICATION Spec
CONSTANTS
  Client = {c1, c2}
  InvoiceId = {i1, i2}
  ItemId = {a, b}
  LineTotal = {0, 2}
  Tax = {1}
  MaxAmount = 4
  MaxItems = 2
  MaxPayload = 2
  NoInvoice = NoInvoice
  NoLine = NoLine
  MaxVersion = 4
  MaxNumber = 3
INVARIANTS
  TypeOK
  SubtotalWhileGrowing
  EventsReplay
  NumbersContiguous
PROPERTIES
  MoneyFrozen
  VersionNamesContent
SYMMETRY Symmetric
