--------------------------- MODULE ChainViewProofs ---------------------------
(***************************************************************************)
(* Proofs about what the store says of the chain: the depth at which money *)
(* is credited, and the transactions recorded below the scanner's cursor.  *)
(***************************************************************************)
EXTENDS PaymentPipelineProofs

-----------------------------------------------------------------------------
(* Depth                                                                   *)

\* The confirmations column never runs ahead of the chain while no block has
\* been replaced.
DepthInv ==
  reorgs = 0 => \A t \in Transfers : confirmations[t] <= getConfirmations(t)

\* Only the world changes the chain.
LEMMA ChainCases ==
  ASSUME [Next]_vars
  PROVE  \/ UNCHANGED chainVars
         \/ \E B \in SUBSET Transfers : MineBlock(B)
         \/ \E f \in 2..MaxTip : \E tip \in f..MaxTip : Reorg(f, tip)
<1> USE DEF worldVars
<1>1. CASE Tick
  <2>1. ASSUME NEW t \in Transfers,
               \/ processTransaction(t) \/ confirmTransfer(t)
               \/ confirmFails(t) \/ orphanTransaction(t)
        PROVE  UNCHANGED chainVars
    BY <2>1 DEF processTransaction, confirmTransfer, confirmFails, orphanTransaction
  <2> QED
    BY <1>1, <2>1 DEF Tick, beginTick, rewindCursor, scanBlock, saveCursor, endTick
<1>2. CASE Serve
  BY <1>2 DEF Serve, reserveAddress, createInvoice, createFails, expireOne, loadAndMaybeExpire,
              readForCancel, cancelInvoice, cancelFails
<1>3. CASE tickFails
  BY <1>3 DEF tickFails
<1>4. CASE World
  BY <1>4 DEF World, AdvanceClock
<1>5. CASE UNCHANGED vars
  BY <1>5 DEF vars
<1> QED
  BY <1>1, <1>2, <1>3, <1>4, <1>5 DEF Next

\* The confirmations column is written with what the adapter reports.
LEMMA ConfirmationCases ==
  ASSUME TypeOK, [Next]_vars
  PROVE  \/ UNCHANGED confirmations
         \/ /\ UNCHANGED chainVars
            /\ \E t \in Transfers : confirmations' = [confirmations EXCEPT ![t] = getConfirmations(t)]
<1> USE DEF storeVars, transferVars, worldVars
<1>1. ASSUME NEW t \in Transfers, processTransaction(t)
      PROVE  \/ UNCHANGED confirmations
             \/ confirmations' = [confirmations EXCEPT ![t] = getConfirmations(t)]
  BY <1>1 DEF processTransaction, recordTransfer
<1>2. ASSUME NEW t \in Transfers, processTransaction(t) \/ confirmTransfer(t)
      PROVE  UNCHANGED chainVars
  BY <1>2 DEF processTransaction, confirmTransfer
<1>3. ASSUME NEW t \in Transfers, confirmTransfer(t)
      PROVE  confirmations' = [confirmations EXCEPT ![t] = getConfirmations(t)]
  BY <1>3 DEF confirmTransfer
<1>4. ASSUME \/ Quiet
             \/ \E t \in Transfers : orphanTransaction(t)
             \/ \E i \in Invoices : createInvoice(i) \/ expireOne(i)
             \/ \E r \in Requests : cancelInvoice(r)
      PROVE  UNCHANGED confirmations
  BY <1>4 DEF Quiet, orphanTransaction, createInvoice, expireOne, cancelInvoice
<1> QED
  BY <1>1, <1>2, <1>3, <1>4, StepCases

\* Every step keeps the column behind the chain: a block mined only deepens
\* what is on it.
LEMMA DepthStep ==
  ASSUME TypeOK, TypeOK', DepthInv, [Next]_vars
  PROVE  DepthInv'
<1> SUFFICES ASSUME reorgs' = 0, NEW t \in Transfers
             PROVE  confirmations'[t] <= getConfirmations(t)'
  BY DEF DepthInv
<1> USE DEF getConfirmations, countConfirmations
<1>1. /\ minedAt[t] \in Nat /\ minedAt'[t] \in Nat /\ chainTip \in Nat /\ chainTip' \in Nat
      /\ reorgs \in Nat /\ MaxTip \in Nat
      /\ confirmations \in [Transfers -> Nat]
  <2>1. MaxTip \in Nat
    BY StoreConstants DEF StoreConstants
  <2>2. minedAt' \in [Transfers -> 0..MaxTip] /\ chainTip' \in 1..MaxTip
    BY DEF TypeOK, WorldTypeOK, Heights
  <2> QED
    BY <2>1, <2>2 DEF TypeOK, WorldTypeOK, StoreTypeOK, Heights
<1>2. reorgs = 0 /\ getConfirmations(t)' >= getConfirmations(t)
  <2>1. CASE UNCHANGED chainVars
    BY <1>1, <2>1 DEF chainVars
  <2>2. ASSUME NEW B \in SUBSET Transfers, MineBlock(B)
        PROVE  reorgs = 0 /\ getConfirmations(t)' >= getConfirmations(t)
    <3>1. reorgs = 0 /\ chainTip' = chainTip + 1 /\ (minedAt[t] # 0 => minedAt'[t] = minedAt[t])
      BY <2>2 DEF MineBlock
    <3>2. CASE minedAt[t] = 0
      BY <1>1, <3>1, <3>2
    <3>3. CASE minedAt[t] # 0
      BY <1>1, <3>1, <3>3
    <3> QED
      BY <3>2, <3>3
  <2>3. ASSUME NEW f, NEW tip, Reorg(f, tip) PROVE FALSE
    BY <1>1, <2>3 DEF Reorg
  <2> QED
    BY <2>1, <2>2, <2>3, ChainCases
<1>3. getConfirmations(t) \in Nat /\ getConfirmations(t)' \in Nat
  BY <1>1, <1>2
<1>4. confirmations[t] <= getConfirmations(t)
  BY <1>2 DEF DepthInv
<1> HIDE DEF getConfirmations
<1>5. CASE UNCHANGED confirmations
  BY <1>1, <1>2, <1>3, <1>4, <1>5
<1>6. CASE \E u \in Transfers : confirmations' = [confirmations EXCEPT ![u] = getConfirmations(u)]
  <2>1. confirmations'[t] \in {confirmations[t], getConfirmations(t)}
    BY <1>1, <1>6
  <2> QED
    BY <1>1, <1>2, <1>3, <1>4, <2>1
<1> QED
  BY <1>5, <1>6, ConfirmationCases

\* finalizeInvoice credits a transfer it did not look up, on the strength of
\* the confirmations column; unless blocks have been replaced, the chain holds
\* every transfer credited at the required depth.
THEOREM CreditsAreConfirmed == Spec => CreditIsConfirmed
<1>1. Init => DepthInv
  BY DEF Init, DepthInv, getConfirmations
<1>2. ASSUME PipelineInv, DepthInv, [Next]_vars
      PROVE  \A t \in Transfers : creditedAt'[t] /\ ~creditedAt[t] /\ reorgs = 0 =>
               getConfirmations(t) >= requiredConfirmations
  <2> SUFFICES ASSUME NEW t \in Transfers, creditedAt'[t], ~creditedAt[t], reorgs = 0
               PROVE  getConfirmations(t) >= requiredConfirmations
    OBVIOUS
  <2>1. TypeOK
    BY <1>2 DEF PipelineInv
  <2>2. PICK u \in Transfers : confirmTransfer(u)
    BY <1>2, CreditCases DEF KeepsCredits
  <2>3. t \in creditedBy(advanceConfirming(status[invoiceId[u]], getConfirmations(u)),
                         settling(u, getConfirmations(u)))
    BY <2>2 DEF confirmTransfer
  <2>4. t \in confirmedTransfers(invoiceId[u], [confirmations EXCEPT ![u] = getConfirmations(u)])
    BY <2>3 DEF creditedBy, settling
  <2>5. [confirmations EXCEPT ![u] = getConfirmations(u)][t] >= requiredConfirmations
    BY <2>4 DEF confirmedTransfers
  <2>6. confirmations \in [Transfers -> Nat] /\ confirmations[t] <= getConfirmations(t)
    BY <1>2, <2>1 DEF DepthInv, TypeOK, StoreTypeOK
  <2>7. getConfirmations(t) \in Nat /\ requiredConfirmations \in Nat
    BY <2>1, ConfirmationsNat, StoreConstants DEF StoreConstants
  <2>8. CASE t = u
    BY <2>5, <2>6, <2>8
  <2>9. CASE t # u
    <3>1. confirmations[t] >= requiredConfirmations
      BY <2>5, <2>6, <2>9
    <3> QED
      BY <2>6, <2>7, <3>1
  <2> QED
    BY <2>8, <2>9
<1>3. PipelineInv /\ PipelineInv' /\ DepthInv /\ [Next]_vars => DepthInv'
  BY DepthStep DEF PipelineInv
<1> QED
  BY <1>1, <1>2, <1>3, PipelineInvariant, PTL DEF Spec, CreditIsConfirmed

-----------------------------------------------------------------------------
(* The scanner's position                                                  *)

\* The block b, read with hash h, is still on the chain.
Stands(b, h) == b = 0 \/ blockHash[b] = h

\* b and h are a block the chain reaches and a hash it has had.
Position(b, h) ==
  /\ b \in 0..chainTip
  /\ IF b = 0 THEN h = NoHash ELSE h \in 0..reorgs

\* The transactions recorded by a scanner that has got as far as block b, read
\* with hash h: below b they are where the chain has them, and if block b
\* still stands that goes for all of them and none is above it.
SeenTo(b, h) ==
  \A t \in Transfers : txStatus[t] = "MINED" =>
    /\ blockNumber[t] >= 1
    /\ blockNumber[t] < b => minedAt[t] = blockNumber[t]
    /\ Stands(b, h) => minedAt[t] = blockNumber[t] /\ blockNumber[t] <= b

\* A rewind is of a cursor whose block is gone, and every transaction at or
\* above it is still on the list to orphan until it is orphaned.
RewindSound ==
  /\ monitor.at = cursor.block /\ ~Stands(cursor.block, cursor.hash)
  /\ \A t \in Transfers : txStatus[t] = "MINED" =>
       blockNumber[t] < cursor.block \/ t \in monitor.work

\* A scan has read blocks up to the tip it was told of; only the last of them
\* can have been replaced since, and its candidates moved.
ScanSound ==
  /\ Position(monitor.at, monitor.hash) /\ SeenTo(monitor.at, monitor.hash)
  /\ monitor.at < monitor.tip => Stands(monitor.at, monitor.hash)
  /\ \A t \in monitor.work : Stands(monitor.at, monitor.hash) => minedAt[t] \in 1..monitor.at

ScanInv ==
  /\ \A k \in Heights : blockHash[k] <= reorgs
  /\ monitor.job # "scan" => Position(cursor.block, cursor.hash) /\ SeenTo(cursor.block, cursor.hash)
  /\ monitor.job = "reorg" => RewindSound
  /\ monitor.job \in {"scan", "reorg"} => monitor.at <= monitor.tip /\ monitor.tip <= chainTip
  /\ monitor.job = "scan" => ScanSound

\* What a world step means for a scanner at block b: its position stays one,
\* its records stay as good, a block that is gone does not come back, what it
\* holds stays while it stands, and only the tip can be replaced.
Follows(b, h) ==
  /\ Position(b, h)' /\ SeenTo(b, h)'
  /\ Stands(b, h)' => Stands(b, h)
  /\ Stands(b, h)' => \A t \in Transfers : minedAt[t] \in 1..b => minedAt'[t] = minedAt[t]
  /\ b < chainTip /\ Stands(b, h) => Stands(b, h)'

\* A block mined changes only transfers that were in none.
LEMMA MineKeeps ==
  ASSUME TypeOK, NEW B \in SUBSET Transfers, MineBlock(B),
         NEW b, NEW h, Position(b, h), SeenTo(b, h)
  PROVE  Follows(b, h)
<1>1. /\ chainTip' = chainTip + 1 /\ blockHash' = blockHash /\ reorgs' = reorgs
      /\ UNCHANGED <<txStatus, blockNumber>>
      /\ \A t \in Transfers : minedAt[t] # 0 => minedAt'[t] = minedAt[t]
  BY DEF MineBlock, storeVars, txVars
<1>2. chainTip \in Nat /\ reorgs \in Nat /\ \A t \in Transfers : minedAt[t] \in Nat /\ blockNumber[t] \in Nat
  BY DEF TypeOK, WorldTypeOK, StoreTypeOK, Heights
<1>3. Position(b, h)'
  BY <1>1, <1>2 DEF Position
<1>4. Stands(b, h)' <=> Stands(b, h)
  BY <1>1 DEF Stands
<1>5. SeenTo(b, h)'
  <2> SUFFICES ASSUME NEW t \in Transfers, txStatus[t] = "MINED"
               PROVE  /\ blockNumber[t] >= 1
                      /\ blockNumber[t] < b => minedAt'[t] = blockNumber[t]
                      /\ Stands(b, h)' => minedAt'[t] = blockNumber[t] /\ blockNumber[t] <= b
    BY <1>1 DEF SeenTo
  <2>1. /\ blockNumber[t] >= 1
        /\ blockNumber[t] < b => minedAt[t] = blockNumber[t]
        /\ Stands(b, h) => minedAt[t] = blockNumber[t] /\ blockNumber[t] <= b
    BY DEF SeenTo
  <2> QED
    BY <1>1, <1>2, <1>4, <2>1
<1>6. \A t \in Transfers : minedAt[t] \in 1..b => minedAt'[t] = minedAt[t]
  BY <1>1, <1>2
<1> QED
  BY <1>3, <1>4, <1>5, <1>6 DEF Follows

\* A reorganisation of one block replaces at most the tip, with a hash that
\* has not been seen.
LEMMA ReorgKeeps ==
  ASSUME TypeOK, MaxReorgDepth <= 1,
         NEW f \in 2..MaxTip, NEW tip \in f..MaxTip, Reorg(f, tip),
         NEW b, NEW h, Position(b, h), SeenTo(b, h)
  PROVE  Follows(b, h) /\ chainTip' >= chainTip
<1>1. /\ chainTip' = tip /\ chainTip < f + MaxReorgDepth /\ reorgs' = reorgs + 1
      /\ blockHash' = [k \in Heights |-> IF k < f THEN blockHash[k] ELSE reorgs + 1]
      /\ UNCHANGED <<txStatus, blockNumber>>
      /\ \A t \in Transfers : minedAt[t] < f => minedAt'[t] = minedAt[t]
  <2>1. UNCHANGED <<txStatus, blockNumber>>
    BY DEF Reorg, storeVars, txVars
  <2>2. \A t \in Transfers : minedAt[t] \in Nat
    BY DEF TypeOK, WorldTypeOK
  <2> QED
    BY <2>1, <2>2 DEF Reorg
<1>2. /\ chainTip \in Heights /\ chainTip \in Nat /\ reorgs \in Nat
      /\ MaxReorgDepth \in Nat /\ MaxTip \in Nat
      /\ \A t \in Transfers : minedAt[t] \in Nat /\ blockNumber[t] \in Nat
  BY PipelineConstants, StoreConstants
     DEF TypeOK, WorldTypeOK, StoreTypeOK, Heights, PipelineConstants, StoreConstants
<1>3. chainTip <= f /\ chainTip <= tip
  BY <1>1, <1>2
<1>4. b \in Nat /\ b <= chainTip /\ (b # 0 => h \in 0..reorgs /\ b \in Heights)
  BY <1>2 DEF Position, Heights
<1>5. Position(b, h)'
  BY <1>1, <1>2, <1>3, <1>4 DEF Position
<1>6. Stands(b, h)' => (b = 0 \/ b < f) /\ Stands(b, h)
  <2> SUFFICES ASSUME b # 0, blockHash'[b] = h PROVE b < f /\ blockHash[b] = h
    BY DEF Stands
  <2>1. blockHash'[b] = IF b < f THEN blockHash[b] ELSE reorgs + 1
    BY <1>1, <1>4
  <2> QED
    BY <1>2, <1>4, <2>1
<1>7. b < chainTip /\ Stands(b, h) => Stands(b, h)'
  BY <1>1, <1>2, <1>3, <1>4 DEF Stands
<1>8. SeenTo(b, h)'
  <2> SUFFICES ASSUME NEW t \in Transfers, txStatus[t] = "MINED"
               PROVE  /\ blockNumber[t] >= 1
                      /\ blockNumber[t] < b => minedAt'[t] = blockNumber[t]
                      /\ Stands(b, h)' => minedAt'[t] = blockNumber[t] /\ blockNumber[t] <= b
    BY <1>1 DEF SeenTo
  <2>1. /\ blockNumber[t] >= 1
        /\ blockNumber[t] < b => minedAt[t] = blockNumber[t]
        /\ Stands(b, h) => minedAt[t] = blockNumber[t] /\ blockNumber[t] <= b
    BY DEF SeenTo
  <2>2. ASSUME blockNumber[t] < b PROVE minedAt'[t] = blockNumber[t]
    BY <1>1, <1>2, <1>3, <1>4, <2>1, <2>2
  <2>3. ASSUME Stands(b, h)' PROVE minedAt'[t] = blockNumber[t] /\ blockNumber[t] <= b
    BY <1>1, <1>2, <1>3, <1>4, <1>6, <2>1, <2>3
  <2> QED
    BY <2>1, <2>2, <2>3
<1>9. Stands(b, h)' => \A t \in Transfers : minedAt[t] \in 1..b => minedAt'[t] = minedAt[t]
  BY <1>1, <1>2, <1>3, <1>4, <1>6
<1> QED
  BY <1>1, <1>2, <1>3, <1>5, <1>6, <1>7, <1>8, <1>9 DEF Follows

\* The invariant holds when the monitor has been started.
LEMMA ScanInitInv == Init => ScanInv
BY DEF Init, ScanInv, Position, SeenTo, Idle

\* Requests, the clock and the confirmation engine do not touch what the
\* scanner knows.
LEMMA ScanUntouched ==
  ASSUME ScanInv, UNCHANGED <<txVars, cursor, chainVars>>,
         \/ monitor' = monitor
         \/ monitor.job = "confirm" /\ monitor'.job \in {"confirm", "idle"}
  PROVE  ScanInv'
BY DEF ScanInv, RewindSound, ScanSound, Position, SeenTo, Stands, txVars, chainVars

\* The chain grows or loses its tip.
LEMMA ScanWorld ==
  ASSUME TypeOK, TypeOK', ScanInv, UNCHANGED <<monitor, cursor, txVars>>,
         chainTip' >= chainTip, \A k \in Heights : blockHash'[k] <= reorgs',
         \A b, h : Position(b, h) /\ SeenTo(b, h) => Follows(b, h)
  PROVE  ScanInv'
<1>0. /\ monitor.at \in Nat /\ monitor.tip \in Nat /\ chainTip \in Nat /\ chainTip' \in Nat
      /\ MaxTip \in Nat /\ monitor.work \subseteq Transfers
  <2>1. MaxTip \in Nat
    BY StoreConstants DEF StoreConstants
  <2>2. chainTip' \in 1..MaxTip
    BY DEF TypeOK, WorldTypeOK, Heights
  <2> QED
    BY <2>1, <2>2 DEF TypeOK, WorldTypeOK, ServiceTypeOK, Heights
<1>1. ASSUME monitor.job # "scan"
      PROVE  /\ Position(cursor.block, cursor.hash)' /\ SeenTo(cursor.block, cursor.hash)'
             /\ Stands(cursor.block, cursor.hash)' => Stands(cursor.block, cursor.hash)
  <2>1. Follows(cursor.block, cursor.hash)
    BY <1>1 DEF ScanInv
  <2> QED
    BY <2>1 DEF Follows, Position, SeenTo, Stands
<1>2. ASSUME monitor.job = "reorg" PROVE RewindSound'
  BY <1>1, <1>2 DEF ScanInv, RewindSound, txVars
<1>3. ASSUME monitor.job = "scan" PROVE ScanSound'
  <2>1. /\ Follows(monitor.at, monitor.hash) /\ ScanSound
        /\ monitor.at <= monitor.tip /\ monitor.tip <= chainTip
    BY <1>3 DEF ScanInv, ScanSound
  <2>2. Position(monitor.at, monitor.hash)' /\ SeenTo(monitor.at, monitor.hash)'
    BY <2>1 DEF Follows, Position, SeenTo, Stands
  <2>3. monitor.at < monitor.tip => Stands(monitor.at, monitor.hash)'
    BY <1>0, <2>1 DEF Follows, ScanSound, Stands
  <2>4. \A t \in monitor.work : Stands(monitor.at, monitor.hash)' => minedAt'[t] \in 1..monitor.at
    BY <1>0, <2>1 DEF Follows, ScanSound, Stands
  <2> QED
    BY <2>2, <2>3, <2>4 DEF ScanSound
<1> QED
  BY <1>0, <1>1, <1>2, <1>3 DEF ScanInv

\* A tick begins: with a rewind if the cursor's block is gone, otherwise with
\* a scan above it.
LEMMA ScanBegin ==
  ASSUME TypeOK, ScanInv, beginTick
  PROVE  ScanInv'
<1>1. /\ monitor.job = "idle" /\ UNCHANGED <<cursor, txStatus, blockNumber, minedAt, chainTip, blockHash, reorgs>>
      /\ Position(cursor.block, cursor.hash) /\ SeenTo(cursor.block, cursor.hash)
      /\ \A k \in Heights : blockHash[k] <= reorgs
  BY DEF beginTick, Idle, ScanInv, storeVars, txVars, worldVars, chainVars
<1>2. chainTip \in Nat /\ cursor.block \in Nat /\ cursor.block <= chainTip /\ reorgs \in Nat
      /\ \A t \in Transfers : blockNumber[t] \in Nat
  BY <1>1 DEF TypeOK, WorldTypeOK, StoreTypeOK, ServiceTypeOK, Heights, Position
<1>3. checkForReorg <=> ~Stands(cursor.block, cursor.hash)
  BY <1>1, <1>2 DEF checkForReorg, getBlockHash, Stands, Position, NoHash
<1>4. CASE checkForReorg
  <2>1. monitor' = [Idle EXCEPT !.job = "reorg", !.tip = chainTip, !.at = cursor.block,
                                !.work = orphanedTxs(cursor.block)]
    BY <1>4 DEF beginTick
  <2>2. /\ monitor'.job = "reorg" /\ monitor'.tip = chainTip /\ monitor'.at = cursor.block
        /\ monitor'.work = orphanedTxs(cursor.block)
    BY <2>1 DEF Idle
  <2>3. RewindSound'
    BY <1>1, <1>2, <1>3, <1>4, <2>2 DEF RewindSound, orphanedTxs, Stands
  <2> QED
    BY <1>1, <1>2, <2>2, <2>3 DEF ScanInv, Position, SeenTo, Stands
<1>5. CASE ~checkForReorg
  <2>1. /\ monitor'.job = "scan" /\ monitor'.tip = chainTip /\ monitor'.at = cursor.block
        /\ monitor'.hash = cursor.hash /\ monitor'.work = {}
    BY <1>5 DEF beginTick, Scan
  <2>2. ScanSound'
    BY <1>1, <1>2, <1>3, <1>5, <2>1 DEF ScanSound, Position, SeenTo, Stands
  <2> QED
    BY <1>1, <1>2, <2>1, <2>2 DEF ScanInv
<1> QED
  BY <1>4, <1>5

\* handleReorg orphans one transaction.
LEMMA ScanOrphan ==
  ASSUME TypeOK, ScanInv, NEW t \in Transfers, orphanTransaction(t)
  PROVE  ScanInv'
<1>1. /\ monitor.job = "reorg" /\ monitor' = [monitor EXCEPT !.work = @ \ {t}]
      /\ txStatus' = [txStatus EXCEPT ![t] = "ORPHANED"]
      /\ UNCHANGED <<blockNumber, cursor, minedAt, chainTip, blockHash, reorgs>>
  BY DEF orphanTransaction, Done, worldVars, chainVars
<1>2. /\ monitor'.job = "reorg" /\ monitor'.tip = monitor.tip /\ monitor'.at = monitor.at
      /\ monitor'.work = monitor.work \ {t}
  BY <1>1 DEF TypeOK, ServiceTypeOK
<1>3. \A u \in Transfers : txStatus'[u] = "MINED" => txStatus[u] = "MINED" /\ u # t
  BY <1>1 DEF TypeOK, StoreTypeOK
<1>4. RewindSound'
  BY <1>1, <1>2, <1>3 DEF ScanInv, RewindSound, Stands
<1>5. Position(cursor.block, cursor.hash)' /\ SeenTo(cursor.block, cursor.hash)'
  BY <1>1, <1>3 DEF ScanInv, Position, SeenTo, Stands
<1> QED
  BY <1>1, <1>2, <1>4, <1>5 DEF ScanInv

\* The cursor goes one block back: everything recorded is below it, and the
\* block it names cannot be replaced any more.
LEMMA ScanRewind ==
  ASSUME TypeOK, PipelineInv, ScanInv, rewindCursor
  PROVE  ScanInv'
<1> DEFINE b == monitor.at - 1
           h == getBlockHash(b)
<1>1. /\ monitor.job = "reorg" /\ monitor.work = {}
      /\ UNCHANGED <<txStatus, blockNumber, minedAt, chainTip, blockHash, reorgs>>
      /\ cursor' = [block |-> b, hash |-> h]
      /\ monitor' = Scan([block |-> b, hash |-> h], monitor.tip)
  BY DEF rewindCursor, storeVars, txVars, worldVars, chainVars
<1>2. /\ monitor'.job = "scan" /\ monitor'.tip = monitor.tip /\ monitor'.at = b
      /\ monitor'.hash = h /\ monitor'.work = {}
  BY <1>1 DEF Scan
<1>3. monitor.at >= 1 /\ monitor.at <= monitor.tip /\ monitor.tip <= chainTip
      /\ monitor.at \in Nat /\ monitor.tip \in Nat /\ chainTip \in Nat
  BY <1>1 DEF PipelineInv, TickIsCurrent, ScanInv, TypeOK, ServiceTypeOK, WorldTypeOK, Heights
<1>4. b \in 0..chainTip /\ b \in Nat
  BY <1>3
<1>5. b # 0 => b \in 1..chainTip /\ b \in Heights /\ h = blockHash[b]
  BY <1>3, <1>4, StoreConstants DEF getBlockHash, Heights, StoreConstants, TypeOK, WorldTypeOK
<1>6. b = 0 => h = NoHash
  BY DEF getBlockHash
<1>7. \A k \in Heights : blockHash[k] \in Nat /\ blockHash[k] <= reorgs /\ reorgs \in Nat
  BY DEF ScanInv, TypeOK, WorldTypeOK
<1>8. Position(b, h) /\ Stands(b, h)
  BY <1>4, <1>5, <1>6, <1>7 DEF Position, Stands
<1>9. \A t \in Transfers : txStatus[t] = "MINED" =>
        /\ blockNumber[t] >= 1 /\ minedAt[t] = blockNumber[t] /\ blockNumber[t] <= b
  <2> SUFFICES ASSUME NEW t \in Transfers, txStatus[t] = "MINED"
               PROVE  blockNumber[t] >= 1 /\ minedAt[t] = blockNumber[t] /\ blockNumber[t] <= b
    OBVIOUS
  <2>1. blockNumber[t] < cursor.block /\ cursor.block = monitor.at
    BY <1>1 DEF ScanInv, RewindSound
  <2>2. blockNumber[t] >= 1 /\ minedAt[t] = blockNumber[t]
    BY <1>1, <2>1 DEF ScanInv, SeenTo
  <2>3. blockNumber[t] \in Nat
    BY DEF TypeOK, StoreTypeOK
  <2> QED
    BY <1>3, <2>1, <2>2, <2>3
<1> HIDE DEF b, h
<1>10. ScanSound'
  BY <1>1, <1>2, <1>4, <1>8, <1>9 DEF ScanSound, Position, SeenTo, Stands
<1>11. monitor'.at <= monitor'.tip /\ monitor'.tip <= chainTip'
  BY <1>1, <1>2, <1>3 DEF b
<1> QED
  BY <1>1, <1>2, <1>7, <1>10, <1>11 DEF ScanInv

\* One more block is read.  It is not above the tip the tick was told of, so
\* the block below it is final.
LEMMA ScanReads ==
  ASSUME TypeOK, ScanInv, scanBlock
  PROVE  ScanInv'
<1> DEFINE b == monitor.at + 1
           found == {t \in Transfers : minedAt[t] = b /\ payment[t].to \in monitor.tracked}
<1>1. /\ monitor.job = "scan" /\ b <= scanLimit /\ b <= chainTip
      /\ monitor' = [monitor EXCEPT !.at = b, !.hash = blockHash[b], !.work = @ \cup found]
      /\ UNCHANGED <<txStatus, blockNumber, minedAt, chainTip, blockHash, reorgs>>
  BY DEF scanBlock, storeVars, txVars, worldVars, chainVars
<1>2. /\ monitor'.job = "scan" /\ monitor'.tip = monitor.tip /\ monitor'.at = b
      /\ monitor'.hash = blockHash[b] /\ monitor'.work = monitor.work \cup found
  BY <1>1 DEF TypeOK, ServiceTypeOK
<1>3. /\ monitor.at \in Nat /\ monitor.tip \in Nat /\ chainTip \in Nat /\ cursor.block \in Nat
      /\ monitor.tip <= chainTip /\ chainTip <= MaxTip /\ MaxTip \in Nat
      /\ blockBatchSize \in Nat /\ monitor.work \subseteq Transfers
  BY <1>1, StoreConstants, ScannerConstants
     DEF ScanInv, TypeOK, ServiceTypeOK, WorldTypeOK, Heights, StoreConstants, ScannerConstants
<1>4. monitor.at < monitor.tip /\ b <= monitor.tip
  BY <1>1, <1>3 DEF scanLimit
<1>5. ScanSound /\ Stands(monitor.at, monitor.hash)
  BY <1>1, <1>4 DEF ScanInv, ScanSound
<1>6. b \in Heights /\ b \in 1..chainTip /\ b # 0
  BY <1>1, <1>3 DEF Heights
<1>7. \A k \in Heights : blockHash[k] \in Nat /\ blockHash[k] <= reorgs /\ reorgs \in Nat
  BY DEF ScanInv, TypeOK, WorldTypeOK
<1>8. Position(b, blockHash[b]) /\ Stands(b, blockHash[b])
  BY <1>3, <1>6, <1>7 DEF Position, Stands
<1>9. \A t \in Transfers : txStatus[t] = "MINED" =>
        /\ blockNumber[t] >= 1 /\ minedAt[t] = blockNumber[t] /\ blockNumber[t] <= b
  <2> SUFFICES ASSUME NEW t \in Transfers, txStatus[t] = "MINED"
               PROVE  blockNumber[t] >= 1 /\ minedAt[t] = blockNumber[t] /\ blockNumber[t] <= b
    OBVIOUS
  <2>1. blockNumber[t] >= 1 /\ minedAt[t] = blockNumber[t] /\ blockNumber[t] <= monitor.at
    BY <1>5 DEF ScanSound, SeenTo
  <2>2. blockNumber[t] \in Nat
    BY DEF TypeOK, StoreTypeOK
  <2> QED
    BY <1>3, <2>1, <2>2
<1>10. \A t \in monitor.work \cup found : minedAt[t] \in 1..b
  <2>1. \A t \in monitor.work : minedAt[t] \in 1..monitor.at
    BY <1>5 DEF ScanSound
  <2>2. \A t \in found : minedAt[t] \in 1..b
    BY <1>6
  <2> QED
    BY <1>3, <2>1, <2>2
<1> HIDE DEF b, found
<1>11. ScanSound'
  <2>1. Position(monitor.at, monitor.hash)' /\ SeenTo(monitor.at, monitor.hash)'
        /\ Stands(monitor.at, monitor.hash)'
    BY <1>1, <1>2, <1>8, <1>9 DEF Position, SeenTo, Stands
  <2> QED
    BY <1>1, <1>2, <1>10, <2>1 DEF ScanSound
<1> QED
  BY <1>1, <1>2, <1>3, <1>4, <1>7, <1>11 DEF ScanInv

\* A candidate is recorded where the chain has it now, or not at all.
LEMMA ScanProcesses ==
  ASSUME TypeOK, ScanInv, NEW t \in Transfers, processTransaction(t)
  PROVE  ScanInv'
<1>1. /\ monitor.job = "scan" /\ t \in monitor.work /\ monitor' = [monitor EXCEPT !.work = @ \ {t}]
      /\ UNCHANGED <<minedAt, chainTip, blockHash, reorgs>>
  BY DEF processTransaction, Done, worldVars, chainVars
<1>2. /\ monitor'.job = "scan" /\ monitor'.tip = monitor.tip /\ monitor'.at = monitor.at
      /\ monitor'.hash = monitor.hash /\ monitor'.work \subseteq monitor.work
  BY <1>1 DEF TypeOK, ServiceTypeOK
<1>3. ScanSound
  BY <1>1 DEF ScanInv
<1>4. \A u \in Transfers :
        \/ txStatus'[u] = txStatus[u] /\ blockNumber'[u] = blockNumber[u]
        \/ u = t /\ minedAt[t] # 0 /\ blockNumber'[t] = minedAt[t]
  <2>1. CASE minedAt[t] = 0
    BY <2>1 DEF processTransaction, txVars
  <2>2. CASE minedAt[t] # 0
    BY <2>2 DEF processTransaction, recordChainTransaction, TypeOK, StoreTypeOK
  <2> QED
    BY <2>1, <2>2
<1>5. minedAt[t] \in Nat /\ monitor.at \in Nat
  BY DEF TypeOK, WorldTypeOK, ServiceTypeOK
<1>6. SeenTo(monitor.at, monitor.hash)'
  <2> SUFFICES ASSUME NEW u \in Transfers, txStatus'[u] = "MINED"
               PROVE  /\ blockNumber'[u] >= 1
                      /\ blockNumber'[u] < monitor.at => minedAt[u] = blockNumber'[u]
                      /\ Stands(monitor.at, monitor.hash) =>
                           minedAt[u] = blockNumber'[u] /\ blockNumber'[u] <= monitor.at
    BY <1>1, <1>2 DEF SeenTo, Stands
  <2>1. CASE txStatus'[u] = txStatus[u] /\ blockNumber'[u] = blockNumber[u]
    BY <1>3, <2>1 DEF ScanSound, SeenTo
  <2>2. CASE u = t /\ minedAt[t] # 0 /\ blockNumber'[t] = minedAt[t]
    BY <1>1, <1>3, <1>5, <2>2 DEF ScanSound
  <2> QED
    BY <1>4, <2>1, <2>2
<1>7. ScanSound'
  BY <1>1, <1>2, <1>3, <1>6 DEF ScanSound, Position, Stands
<1> QED
  BY <1>1, <1>2, <1>7 DEF ScanInv

\* The cursor becomes the scanner's position.
LEMMA ScanSaves ==
  ASSUME TypeOK, ScanInv, saveCursor
  PROVE  ScanInv'
<1>1. /\ monitor.job = "scan" /\ cursor' = [block |-> monitor.at, hash |-> monitor.hash]
      /\ monitor'.job = "confirm"
      /\ UNCHANGED <<txStatus, blockNumber, minedAt, chainTip, blockHash, reorgs>>
  BY DEF saveCursor, Idle, storeVars, txVars, worldVars, chainVars
<1> QED
  BY <1>1 DEF ScanInv, ScanSound, Position, SeenTo, Stands

\* Every step keeps the invariant, as long as reorganisations replace one
\* block at a time and no tick dies half-way.
LEMMA ScanStepInv ==
  ASSUME MaxReorgDepth <= 1, MaxFaults = 0,
         PipelineInv, PipelineInv', ScanInv, [Next]_vars
  PROVE  ScanInv'
<1>0. TypeOK /\ TypeOK'
  BY DEF PipelineInv
<1>1. CASE Tick
  <2>1. ASSUME NEW t \in Transfers, confirmTransfer(t) \/ confirmFails(t) PROVE ScanInv'
    <3>1. /\ UNCHANGED <<txVars, cursor, chainVars>>
          /\ monitor.job = "confirm" /\ monitor'.job \in {"confirm", "idle"}
      BY <1>0, <2>1 DEF confirmTransfer, confirmFails, Done, Idle, storeVars, worldVars,
                        TypeOK, ServiceTypeOK
    <3> QED
      BY <3>1, ScanUntouched
  <2>2. ASSUME endTick PROVE ScanInv'
    <3>1. /\ UNCHANGED <<txVars, cursor, chainVars>>
          /\ monitor.job = "confirm" /\ monitor'.job = "idle"
      BY <2>2 DEF endTick, Idle, storeVars, worldVars
    <3> QED
      BY <3>1, ScanUntouched
  <2> QED
    BY <1>0, <1>1, <2>1, <2>2, ScanBegin, ScanRewind, ScanReads, ScanSaves,
       ScanProcesses, ScanOrphan DEF Tick
<1>2. CASE tickFails
  BY <1>0, <1>2 DEF tickFails, TypeOK, WorldTypeOK
<1>3. CASE Serve \/ (\E i \in Invoices : AdvanceClock(i)) \/ UNCHANGED vars
  <2>1. UNCHANGED <<txVars, cursor, chainVars>>
    BY <1>3 DEF Serve, AdvanceClock, reserveAddress, createInvoice, createFails, expireOne,
       loadAndMaybeExpire, readForCancel, cancelInvoice, cancelFails, vars, storeVars, worldVars
  <2>2. monitor' = monitor
    BY <1>3 DEF Serve, AdvanceClock, reserveAddress, createInvoice, createFails, expireOne,
       loadAndMaybeExpire, readForCancel, cancelInvoice, cancelFails, vars
  <2> QED
    BY <2>1, <2>2, ScanUntouched
<1>4. ASSUME NEW B \in SUBSET Transfers, MineBlock(B) PROVE ScanInv'
  <2>1. /\ UNCHANGED <<monitor, cursor, txVars>> /\ chainTip' = chainTip + 1
        /\ UNCHANGED <<blockHash, reorgs>>
    BY <1>4 DEF MineBlock, storeVars
  <2>2. chainTip' >= chainTip
    BY <1>0, <2>1 DEF TypeOK, WorldTypeOK, Heights
  <2>3. \A k \in Heights : blockHash'[k] <= reorgs'
    BY <2>1 DEF ScanInv
  <2>4. \A b, h : Position(b, h) /\ SeenTo(b, h) => Follows(b, h)
    BY <1>0, <1>4, MineKeeps
  <2> QED
    BY <1>0, <2>1, <2>2, <2>3, <2>4, ScanWorld
<1>5. ASSUME NEW f \in 2..MaxTip, NEW tip \in f..MaxTip, Reorg(f, tip) PROVE ScanInv'
  <2>1. UNCHANGED <<monitor, cursor, txVars>>
    BY <1>5 DEF Reorg, storeVars
  <2>2. \A k \in Heights : blockHash'[k] <= reorgs'
    <3>1. \A k \in Heights : blockHash[k] <= reorgs /\ blockHash[k] \in Nat /\ reorgs \in Nat
      BY <1>0 DEF ScanInv, TypeOK, WorldTypeOK
    <3>2. /\ reorgs' = reorgs + 1
          /\ blockHash' = [k \in Heights |-> IF k < f THEN blockHash[k] ELSE reorgs + 1]
      BY <1>5 DEF Reorg
    <3> QED
      BY <3>1, <3>2
  <2>3. chainTip' >= chainTip
    <3>1. chainTip \in Nat /\ MaxReorgDepth \in Nat /\ MaxTip \in Nat
      BY <1>0, PipelineConstants, StoreConstants
         DEF TypeOK, WorldTypeOK, Heights, PipelineConstants, StoreConstants
    <3>2. chainTip' = tip /\ chainTip < f + MaxReorgDepth
      BY <1>5 DEF Reorg
    <3> QED
      BY <3>1, <3>2
  <2>4. \A b, h : Position(b, h) /\ SeenTo(b, h) => Follows(b, h)
    BY <1>0, <1>5, ReorgKeeps
  <2> QED
    BY <1>0, <2>1, <2>2, <2>3, <2>4, ScanWorld
<1> QED
  BY <1>1, <1>2, <1>3, <1>4, <1>5 DEF Next, World

\* checkForReorg looks at one block, and a rewind goes back by one; that is
\* enough as long as reorganisations replace one block at a time and
\* every tick saves its cursor: then, for any chain, batch size and set of
\* transfers, a cursor whose block stands vouches for everything below it.
THEOREM CursorStaysAccurate ==
  ASSUME MaxReorgDepth <= 1, MaxFaults = 0
  PROVE  Spec => []CursorIsAccurate
<1>1. ScanInv /\ PipelineInv => CursorIsAccurate
  <2> SUFFICES ASSUME ScanInv, PipelineInv, monitor = Idle, ~checkForReorg,
                      NEW t \in Transfers, txStatus[t] = "MINED", blockNumber[t] <= cursor.block
               PROVE  minedAt[t] = blockNumber[t]
    BY DEF CursorIsAccurate
  <2>1. Position(cursor.block, cursor.hash) /\ SeenTo(cursor.block, cursor.hash)
    BY DEF ScanInv, Idle
  <2>2. chainTip \in Nat /\ cursor.block \in Nat /\ reorgs \in Nat
    BY DEF PipelineInv, TypeOK, WorldTypeOK, ServiceTypeOK, Heights
  <2>3. Stands(cursor.block, cursor.hash)
    BY <2>1, <2>2 DEF checkForReorg, getBlockHash, Stands, Position, NoHash
  <2> QED
    BY <2>1, <2>3 DEF SeenTo
<1>2. PipelineInv /\ PipelineInv' /\ ScanInv /\ [Next]_vars => ScanInv'
  BY ScanStepInv
<1> QED
  BY <1>1, <1>2, ScanInitInv, PipelineInvariant, PTL DEF Spec
=============================================================================
