SPECIFICATION Spec
CONSTANTS
  Invoices = {i1}
  Addresses = {a1}
  Transfers = {t1}
  Requests = {r1}
  NoInvoice = NoInvoice
  NoAddress = NoAddress
  cryptoAmount = 4
  underpaymentToleranceBps = 2500
  overpaymentToleranceBps = 2500
  requiredConfirmations = 2
  AcceptPartial = FALSE
  AcceptFull = TRUE
  feeBps = 5000
  minDepositUnits = 2
  blockBatchSize = 2
  MaxTip = 4
  Amounts = {2, 3}
  Assets = {"PAYMENT"}
  MaxReorgDepth = 2
  MaxReorgs = 0
  MaxFaults = 0
PROPERTIES
  StatusFollowsTable
