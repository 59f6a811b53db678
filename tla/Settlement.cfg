SPECIFICATION Spec
CONSTANTS
  Invoices = {i1}
  Addresses = {a1}
  Transfers = {t1, t2}
  Requests = {}
  NoInvoice = NoInvoice
  NoAddress = NoAddress
  cryptoAmount = 4
  underpaymentToleranceBps = 2500
  overpaymentToleranceBps = 2500
  requiredConfirmations = 2
  AcceptPartial = FALSE
  AcceptFull = TRUE
  feeBps = 5000
  minDepositUnits = 2
  blockBatchSize = 2
  MaxTip = 4
  Amounts = {2, 3}
  Assets = {"PAYMENT"}
  MaxReorgDepth = 2
  MaxReorgs = 1
  MaxFaults = 0
SYMMETRY TransferSymmetry
INVARIANTS
  TypeOK
  CreditedOnce
  PaidIsFunded
  PaidIsAnnounced
  OrphanedCreditFreezesInvoice
PROPERTIES
  CreditIsForever
  CreditIsConfirmed
  InternalMovesFollowTable
