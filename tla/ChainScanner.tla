---------------------------- MODULE ChainScanner -----------------------------
(***************************************************************************)
(* apps/blockchain-monitor/src/scanner.ts: the tick that follows the chain.*)
(* A tick compares the hash of the last processed block with the chain,    *)
(* rewinds the cursor by one block if it differs, reads the next blocks,   *)
(* hands the transactions that pay a tracked address to the monitor        *)
(* service, saves the cursor and re-checks confirmations.  Every block     *)
(* read is a step of its own: the chain, the API and the worker go on      *)
(* meanwhile.                                                              *)
(***************************************************************************)
EXTENDS MonitorService

CONSTANTS
  blockBatchSize,  \* most blocks scanned per tick
  MaxFaults        \* bound: ticks that die half-way

ASSUME ScannerConstants == blockBatchSize \in Nat \ {0} /\ MaxFaults \in Nat

\* getBlockHash: null (NoHash) for a height the chain does not reach.
getBlockHash(h) == IF h \in 1..chainTip THEN blockHash[h] ELSE NoHash

\* checkForReorg looks at the last processed block only.
checkForReorg ==
  /\ cursor.hash # NoHash
  /\ cursor.block > 0
  /\ getBlockHash(cursor.block) # cursor.hash

\* loadTrackedAddresses: the addresses handed to an invoice, live or closed.
loadTrackedAddresses == {a \in Addresses : addressStatus[a] \in {"ASSIGNED", "RETIRED"}}

\* The scanning loop about to read the block above c, up to the tip read.
Scan(c, tip) == [job |-> "scan", tip |-> tip, at |-> c.block, hash |-> c.hash,
                 tracked |-> loadTrackedAddresses, work |-> {}]

\* Last block this tick may read.
scanLimit ==
  IF monitor.tip < cursor.block + blockBatchSize THEN monitor.tip
  ELSE cursor.block + blockBatchSize

\* tick: read the tip and the cursor and look for a reorganisation.
beginTick ==
  /\ monitor = Idle
  /\ monitor' =
       IF checkForReorg
       THEN [Idle EXCEPT !.job = "reorg", !.tip = chainTip, !.at = cursor.block,
                         !.work = orphanedTxs(cursor.block)]
       ELSE Scan(cursor, chainTip)
  /\ UNCHANGED <<storeVars, requestVars, cursor, worldVars>>

\* handleReorg has returned: the cursor goes one block back, with the hash
\* that block has on the chain now, and the tick goes on to scan from there.
\* (Mutant: it goes back to the replaced block and not below it.)
rewindTooShort ==
  LET rewound == [block |-> monitor.at, hash |-> getBlockHash(monitor.at)]
  IN /\ monitor.job = "reorg"
     /\ monitor.work = {}
     /\ cursor' = rewound
     /\ monitor' = Scan(rewound, monitor.tip)
     /\ UNCHANGED <<storeVars, requestVars, worldVars>>
rewindCursor ==
  LET rewound == [block |-> monitor.at - 1, hash |-> getBlockHash(monitor.at - 1)]
  IN /\ monitor.job = "reorg"
     /\ monitor.work = {}
     /\ cursor' = rewound
     /\ monitor' = Scan(rewound, monitor.tip)
     /\ UNCHANGED <<storeVars, requestVars, worldVars>>

\* One block of scanRangeFast or scanRangeGeneric: its transactions that pay
\* a tracked address become candidates for processTransaction.
scanBlock ==
  LET h == monitor.at + 1
  IN /\ monitor.job = "scan"
     /\ h <= scanLimit
     /\ h <= chainTip
     /\ monitor' = [monitor EXCEPT
                      !.at = h, !.hash = blockHash[h],
                      !.work = @ \cup {t \in Transfers :
                                         /\ minedAt[t] = h
                                         /\ payment[t].to \in monitor.tracked}]
     /\ UNCHANGED <<storeVars, requestVars, cursor, worldVars>>

\* The range is done, or the provider has no further block: save the cursor
\* and go on to updateConfirmations with the rows its query returns.  (Mutant:
\* the cursor names the next block.)
saveNextBlock ==
  /\ monitor.job = "scan"
  /\ monitor.work = {}
  /\ monitor.at >= scanLimit \/ monitor.at >= chainTip
  /\ cursor' = [block |-> monitor.at + 1, hash |-> monitor.hash]
  /\ monitor' = [Idle EXCEPT !.job = "confirm", !.work = pendingTransfers]
  /\ UNCHANGED <<storeVars, requestVars, worldVars>>
saveCursor ==
  /\ monitor.job = "scan"
  /\ monitor.work = {}
  /\ monitor.at >= scanLimit \/ monitor.at >= chainTip
  /\ cursor' = [block |-> monitor.at, hash |-> monitor.hash]
  /\ monitor' = [Idle EXCEPT !.job = "confirm", !.work = pendingTransfers]
  /\ UNCHANGED <<storeVars, requestVars, worldVars>>

\* updateConfirmations returns, and the tick with it.
endTick ==
  /\ monitor.job = "confirm"
  /\ monitor.work = {}
  /\ monitor' = Idle
  /\ UNCHANGED <<storeVars, requestVars, cursor, worldVars>>

\* The process dies, or an RPC or database error ends the tick (runScanLoop
\* logs it): what was committed stays, the rest is forgotten.
tickFails ==
  /\ faults < MaxFaults
  /\ monitor # Idle
  /\ monitor' = Idle
  /\ faults' = faults + 1
  /\ UNCHANGED <<storeVars, requestVars, cursor, chainVars, phase>>
=============================================================================
