SPECIFICATION Spec
CONSTANTS
  Invoices = {i1, i2}
  Addresses = {a1, a2}
  Transfers = {t1}
  Requests = {r1}
  NoInvoice = NoInvoice
  NoAddress = NoAddress
  cryptoAmount = 4
  underpaymentToleranceBps = 2500
  overpaymentToleranceBps = 2500
  requiredConfirmations = 1
  AcceptPartial = FALSE
  AcceptFull = TRUE
  feeBps = 5000
  minDepositUnits = 2
  blockBatchSize = 2
  MaxTip = 2
  Amounts = {3}
  Assets = {"PAYMENT"}
  MaxReorgDepth = 2
  MaxReorgs = 0
  MaxFaults = 1
SYMMETRY PoolSymmetry
INVARIANTS
  AddressUsedOnce
PROPERTIES
  AddressNeverReassigned
