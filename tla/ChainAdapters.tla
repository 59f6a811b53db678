---------------------------- MODULE ChainAdapters ----------------------------
(***************************************************************************)
(* The two blockchain adapters, EvmJsonRpcAdapter and BitcoinRpcAdapter,   *)
(* over their JSON-RPC clients.  An adapter method makes several requests; *)
(* each is answered from the chain as it is at that moment, by the primary *)
(* or the fallback node, or fails.  Blocks are mined and replaced between  *)
(* two requests of one method.                                             *)
(*                                                                         *)
(* There is one transaction of interest, and one call: nothing is carried  *)
(* from one adapter call to the next.  A block is named by a number that   *)
(* is never used again (its hash), so a dropped block never returns.       *)
(***************************************************************************)
EXTENDS Naturals, Sequences

CONSTANTS
  HasFallback,   \* options.fallbackUrl is configured
  Polls,         \* timer ticks of monitorTransactions that may overlap
  MaxBlocks,     \* bound: blocks ever mined
  MaxRpcFaults   \* bound: requests that fail

ASSUME AdapterConstants ==
  /\ HasFallback \in BOOLEAN
  /\ MaxBlocks \in Nat \ {0} /\ MaxRpcFaults \in Nat

VARIABLES
  rpcChain,   \* the node's best chain: block hashes by height
  rpcMinted,  \* how many blocks were ever mined
  rpcTx,      \* the transaction: its kind, its block, whether it succeeded
  rpcCall,    \* the adapter method running
  rpcFaults,
  pollLast,   \* lastSeen of monitorTransactions
  pollFlight, \* getCurrentBlock requests of its ticks
  pollStopped

chainRpcVars == <<rpcChain, rpcMinted, rpcTx>>
callVars == <<rpcCall>>
pollVars == <<pollLast, pollFlight, pollStopped>>
adapterVars == <<chainRpcVars, callVars, rpcFaults, pollVars>>

-----------------------------------------------------------------------------
(* The chain (external).                                                   *)

Mempool == 0
UnknownTx == MaxBlocks + 1

Height(block) == IF \E h \in DOMAIN rpcChain : rpcChain[h] = block
                 THEN CHOOSE h \in DOMAIN rpcChain : rpcChain[h] = block ELSE 0
TxHeight == Height(rpcTx.block)
TxDepth == IF TxHeight > 0 THEN Len(rpcChain) - TxHeight + 1 ELSE 0

\* d blocks are dropped and one is added; the transaction may be in it.  A
\* transaction that loses its block goes back to the mempool or is dropped.
NewBlock(d) ==
  /\ rpcMinted < MaxBlocks /\ d < Len(rpcChain)
  /\ rpcMinted' = rpcMinted + 1
  /\ rpcChain' = Append(SubSeq(rpcChain, 1, Len(rpcChain) - d), rpcMinted + 1)
  /\ LET loses == TxHeight > Len(rpcChain) - d
         keep  == IF loses THEN Mempool ELSE rpcTx.block
     IN \/ rpcTx' = [rpcTx EXCEPT !.block = keep]
        \/ loses /\ rpcTx' = [rpcTx EXCEPT !.block = UnknownTx]
        \/ /\ keep = Mempool
           /\ \E status \in {"0x1", "0x0"} :
                rpcTx' = [rpcTx EXCEPT !.block = rpcMinted + 1, !.status = status]
  /\ rpcCall' = IF rpcCall.state = "idle" THEN rpcCall
                 ELSE [rpcCall EXCEPT !.reorged = @ \/ d > 0,
                         !.was = IF rpcCall.state = "reading" THEN @ \cup {rpcTx'} ELSE @]
  /\ UNCHANGED <<rpcFaults, pollVars>>

-----------------------------------------------------------------------------
(* What the nodes answer.                                                  *)

\* The logs of a receipt and the outputs of a Bitcoin transaction, one of
\* each sort.
ReceiptLogs == {"transfer", "zero_amount", "other_event", "malformed"}
Outputs == {"address", "op_return", "bad_address"}

KnownHeight == IF rpcTx.block = UnknownTx THEN UnknownTx ELSE TxHeight

\* What a call that has got `got` has read after each request.  Ethereum:
\* RawEvmTx, RawEvmReceipt, RawEvmBlock; `h` is the height asked for.
EvmAnswers(h, got) ==
  [tx      |-> [got EXCEPT !.tx = KnownHeight],
   receipt |-> [got EXCEPT !.receipt = IF TxHeight > 0 THEN rpcTx.status ELSE "none"],
   tip     |-> [got EXCEPT !.tip = Len(rpcChain)],
   block   |-> [got EXCEPT !.block = IF h <= Len(rpcChain) THEN rpcChain[h] ELSE 0,
                           !.inBlock = TxHeight = h],
   logs    |-> [got EXCEPT !.logged = TxHeight = h /\ rpcTx.status = "0x1"]]

\* Bitcoin: RawBitcoinTransaction carries its confirmations.  The hash at a
\* height is read first; the block with that hash never changes.
BitcoinAnswers(h, got) ==
  [raw   |-> [got EXCEPT !.tx = KnownHeight, !.conf = TxDepth],
   tip   |-> [got EXCEPT !.tip = Len(rpcChain)],
   block |-> [got EXCEPT !.block = IF h <= Len(rpcChain) THEN rpcChain[h] ELSE 0,
                         !.inBlock = TxHeight = h]]

-----------------------------------------------------------------------------
(* The requests each method makes, in order.                               *)

EvmGetTransaction == <<"tx", "receipt", "tip">>
EvmGetConfirmations == <<"tx", "tip">>
EvmGetLightBlock == <<"block">>
EvmGetTransferLogsTo == <<"logs">>

BitcoinGetTransaction == <<"raw", "tip">>
BitcoinGetConfirmations == <<"tip", "raw">>
BitcoinGetBlock == <<"block">>
BitcoinGetRawTransaction == <<"raw">>

\* discover is what ChainScanner does with one height: scanRangeFast on
\* Ethereum, scanRangeGeneric on Bitcoin.
\* (Mutant: the logs are read before the block.)
logsBeforeBlock ==
  [getTransaction   |-> EvmGetTransaction,
   getTransfers     |-> <<"tx", "receipt">>,
   getConfirmations |-> EvmGetConfirmations,
   discover         |-> EvmGetTransferLogsTo \o EvmGetLightBlock]
EvmRequests ==
  [getTransaction   |-> EvmGetTransaction,
   getTransfers     |-> <<"tx", "receipt">>,
   getConfirmations |-> EvmGetConfirmations,
   discover         |-> EvmGetLightBlock \o EvmGetTransferLogsTo]

BitcoinRequests ==
  [getTransaction   |-> BitcoinGetTransaction,
   getTransfers     |-> BitcoinGetRawTransaction,
   getConfirmations |-> BitcoinGetConfirmations,
   discover         |-> BitcoinGetBlock \o BitcoinGetRawTransaction]

\* BlockchainAdapter: the same methods for every chain.
AdapterRequests == [evm |-> EvmRequests, bitcoin |-> BitcoinRequests]

\* The methods that send their requests in one batch.
Batched(call) == call.family = "evm" /\ call.op # "discover"

-----------------------------------------------------------------------------
(* The methods' results, from what was read.                               *)

\* addressFromTopic and amountFromData throw on a malformed log.
TransferLogParses(log) == log # "malformed"

\* parseTransferLog: a Transfer event of a positive amount, or nothing.
parseTransferLog(log) ==
  IF TransferLogParses(log) /\ log \notin {"other_event", "zero_amount"} THEN {log} ELSE {}

parseTransferLogs(logs) == UNION {parseTransferLog(l) : l \in logs}

\* The value moved by the transaction itself, if it is positive.
nativeTransfer == IF rpcTx.kind = "native" THEN {"native"} ELSE {}

EvmConfirmations(got) ==
  IF got.tx > 0 /\ got.tx # UnknownTx /\ got.tip >= got.tx THEN got.tip - got.tx + 1 ELSE 0

BitcoinConfirmations(got) == got.conf

\* (Mutant: a reverted transaction counts.)
evmTransfersAnyStatus(got) ==
  IF got.tx # UnknownTx THEN nativeTransfer \cup parseTransferLogs(ReceiptLogs) ELSE {}
EvmTransfers(got) ==
  IF got.tx # UnknownTx /\ got.receipt = "0x1"
  THEN nativeTransfer \cup parseTransferLogs(ReceiptLogs) ELSE {}

\* Nothing without a blockhash; outputs without a valid address are skipped.
BitcoinTransfers(got) ==
  IF got.tx \notin {Mempool, UnknownTx} THEN Outputs \ {"op_return", "bad_address"} ELSE {}

Confirmations(call) ==
  IF call.family = "evm" THEN EvmConfirmations(call.got) ELSE BitcoinConfirmations(call.got)

Transfers(call) ==
  IF call.family = "evm" THEN EvmTransfers(call.got) ELSE BitcoinTransfers(call.got)

\* Discovery of one height: the light block shows native transfers, the logs
\* token transfers; Bitcoin's block lists hashes, each looked up by itself.
Found(call) ==
  \/ call.family = "bitcoin" /\ call.got.inBlock /\ BitcoinTransfers(call.got) # {}
  \/ call.family = "evm" /\ rpcTx.kind = "native" /\ call.got.inBlock
  \/ call.family = "evm" /\ rpcTx.kind = "token" /\ call.got.logged

NothingRead == [tx |-> 0, receipt |-> "none", tip |-> 0, conf |-> 0, block |-> 0,
                inBlock |-> FALSE, logged |-> FALSE]

NewRpcCall(op, family, state) ==
  [op |-> op, family |-> family, state |-> state, next |-> 1, url |-> "primary",
   got |-> NothingRead, height |-> Len(rpcChain), reorged |-> FALSE, was |-> {rpcTx}]

AdapterInit ==
  /\ rpcChain = <<1>> /\ rpcMinted = 1
  /\ rpcTx \in [kind : {"native", "token"}, block : {Mempool, UnknownTx}, status : {"0x1"}]
  /\ \E family \in DOMAIN AdapterRequests : rpcCall = NewRpcCall("none", family, "idle")
  /\ rpcFaults = 0
  /\ pollLast = [height |-> 0, block |-> 0]
  /\ pollFlight = [p \in Polls |-> [pc |-> "idle"]]
  /\ pollStopped = FALSE

-----------------------------------------------------------------------------
(* One adapter call.                                                       *)

BeginCall(op) ==
  /\ rpcCall.state = "idle"
  /\ rpcCall' = NewRpcCall(op, rpcCall.family, "reading")
  /\ UNCHANGED <<chainRpcVars, rpcFaults, pollVars>>

\* A request is answered.  An unknown transaction ends getTransaction with
\* null: for Ethereum it is a null result, for Bitcoin error -5.
RequestAnswered ==
  LET reads == AdapterRequests[rpcCall.family][rpcCall.op]
      read  == reads[rpcCall.next]
      got   == IF rpcCall.family = "evm" THEN EvmAnswers(rpcCall.height, rpcCall.got)[read]
               ELSE BitcoinAnswers(rpcCall.height, rpcCall.got)[read]
      last  == rpcCall.next = Len(reads)
  IN
  /\ rpcCall.state = "reading"
  /\ rpcCall' = [rpcCall EXCEPT
       !.got = got,
       !.next = @ + 1,
       !.url = IF Batched(rpcCall) THEN @ ELSE "primary",
       !.state = IF rpcCall.op = "getTransaction" /\ got.tx = UnknownTx
                    /\ (last \/ rpcCall.family = "bitcoin")
                 THEN "null" ELSE IF last THEN "done" ELSE "reading"]
  /\ UNCHANGED <<chainRpcVars, rpcFaults, pollVars>>

\* A transport failure goes to the fallback node once, with the whole batch;
\* BitcoinRpcClient has no fallback.
FallsBack(call) == call.family = "evm" /\ HasFallback /\ call.url = "primary"

\* A time-out, a refused connection, an HTTP error or a body that is not JSON.
TransportFails ==
  /\ rpcCall.state = "reading" /\ rpcFaults < MaxRpcFaults
  /\ rpcFaults' = rpcFaults + 1
  /\ rpcCall' =
       IF FallsBack(rpcCall)
       THEN [rpcCall EXCEPT !.url = "fallback",
                            !.next = IF Batched(rpcCall) THEN 1 ELSE @,
                            !.got = IF Batched(rpcCall) THEN NothingRead ELSE @]
       ELSE [rpcCall EXCEPT !.state = "thrown"]
  /\ UNCHANGED <<chainRpcVars, pollVars>>

\* An error the node reports is thrown at once (Bitcoin's -5, "not found",
\* is an answer: RequestAnswered).
NodeReportsError ==
  /\ rpcCall.state = "reading" /\ rpcFaults < MaxRpcFaults
  /\ rpcFaults' = rpcFaults + 1
  /\ rpcCall' = [rpcCall EXCEPT !.state = "thrown"]
  /\ UNCHANGED <<chainRpcVars, pollVars>>

\* blockHashAt maps only error -5 to null; a node that answers a height beyond
\* its tip with any other code makes it throw.
HeightOutOfRange ==
  /\ rpcCall.state = "reading" /\ rpcCall.family = "bitcoin"
  /\ AdapterRequests.bitcoin[rpcCall.op][rpcCall.next] = "block"
  /\ rpcCall.height > Len(rpcChain)
  /\ rpcCall' = [rpcCall EXCEPT !.state = "thrown"]
  /\ UNCHANGED <<chainRpcVars, rpcFaults, pollVars>>

-----------------------------------------------------------------------------
(* monitorTransactions: a timer asks for the current block; a tick does    *)
(* not wait for the one before.                                            *)

PollGoto(p, poll) == pollFlight' = [pollFlight EXCEPT ![p] = poll]

PollTip(p) ==
  /\ pollFlight[p].pc = "idle" /\ ~pollStopped
  /\ PollGoto(p, [pc |-> "header", height |-> Len(rpcChain), block |-> rpcChain[Len(rpcChain)]])
  /\ UNCHANGED <<chainRpcVars, callVars, rpcFaults, pollLast, pollStopped>>

\* Ethereum asks for the header by height, which fails if the chain has
\* become shorter; Bitcoin by the hash it was told, which nodes keep.
EvmHeader(poll) == IF poll.height <= Len(rpcChain) THEN rpcChain[poll.height] ELSE 0
BitcoinHeader(poll) == poll.block

PollHeader(p) ==
  LET poll   == pollFlight[p]
      header == IF rpcCall.family = "evm" THEN EvmHeader(poll) ELSE BitcoinHeader(poll)
  IN
  /\ poll.pc = "header"
  /\ PollGoto(p, IF header # 0 THEN [poll EXCEPT !.pc = "seen", !.block = header] ELSE [pc |-> "idle"])
  /\ UNCHANGED <<chainRpcVars, callVars, rpcFaults, pollLast, pollStopped>>

\* (Mutant: a block that is not higher is ignored.)
lastIfHigher(poll) ==
  IF poll.height > pollLast.height THEN [height |-> poll.height, block |-> poll.block] ELSE pollLast
LastSeen(poll) == [height |-> poll.height, block |-> poll.block]

\* The rest of the tick: lastSeen becomes what was read if its hash is new,
\* with a `block` event, or a `reorg` event if it is not higher.
PollSeen(p) ==
  /\ pollFlight[p].pc = "seen"
  /\ pollLast' = LastSeen(pollFlight[p])
  /\ PollGoto(p, [pc |-> "idle"])
  /\ UNCHANGED <<chainRpcVars, callVars, rpcFaults, pollStopped>>

\* The request fails; onError is called.
PollFails(p) ==
  /\ pollFlight[p].pc = "header" /\ rpcFaults < MaxRpcFaults
  /\ rpcFaults' = rpcFaults + 1
  /\ PollGoto(p, [pc |-> "idle"])
  /\ UNCHANGED <<chainRpcVars, callVars, pollLast, pollStopped>>

\* stop(): the timer is cleared; a tick under way goes on.
PollStop ==
  /\ ~pollStopped /\ pollStopped' = TRUE
  /\ UNCHANGED <<chainRpcVars, callVars, rpcFaults, pollLast, pollFlight>>

-----------------------------------------------------------------------------

ChainMoves == \E d \in 0..2 : NewBlock(d)

AdapterCallNext ==
  \/ \E op \in DOMAIN EvmRequests : BeginCall(op)
  \/ RequestAnswered
  \/ TransportFails \/ NodeReportsError \/ HeightOutOfRange
  \/ ChainMoves

PollStep(p) == PollTip(p) \/ PollHeader(p) \/ PollSeen(p)

PollNext ==
  \/ \E p \in Polls : PollStep(p) \/ PollFails(p)
  \/ PollStop \/ ChainMoves

\* The timer keeps firing and requests end.
PollFairness == \A p \in Polls : WF_adapterVars(PollStep(p))

\* Calls and polling share only the node, so each is looked at by itself.
AdapterCallSpec == AdapterInit /\ [][AdapterCallNext]_adapterVars
PollInit == AdapterInit /\ rpcTx.block = UnknownTx /\ rpcTx.kind = "native"
PollSpec == PollInit /\ [][PollNext]_adapterVars /\ PollFairness

-----------------------------------------------------------------------------

AdapterTypeOK ==
  /\ \A h \in DOMAIN rpcChain : rpcChain[h] \in 1..rpcMinted
  /\ rpcTx.block \in 0..UnknownTx
  /\ rpcCall.state \in {"idle", "reading", "done", "null", "thrown"}
  /\ pollLast \in [height : 0..MaxBlocks, block : 0..rpcMinted]

\* The confirmations an adapter reports never exceed the ones the transaction
\* has when the answer is complete, whatever is mined between the requests,
\* unless a block was replaced during the call (getTransaction and
\* getConfirmations read the transaction and the tip at different moments).
DepthIsReal ==
  /\ rpcCall.state = "done" /\ rpcCall.op \in {"getTransaction", "getConfirmations"}
  /\ ~rpcCall.reorged
  => Confirmations(rpcCall) <= TxDepth

\* What an answer says was true at some moment of the call: null means the
\* transaction was unknown, never that a request failed ("throw only for a
\* transport/provider failure", adapter.ts 15), and transfers mean that it
\* was mined and, on Ethereum, not reverted ("crediting from it would credit
\* something that never actually happened", evm/rpc-adapter.ts 74), although
\* the requests of one method see different chains.
AnswersHappened ==
  /\ rpcCall.state = "null" => \E tx \in rpcCall.was : tx.block = UnknownTx
  /\ rpcCall.state = "done" /\ rpcCall.op = "getTransfers" /\ Transfers(rpcCall) # {} =>
       \E tx \in rpcCall.was : /\ tx.block \in 1..MaxBlocks
                               /\ rpcCall.family = "evm" => tx.status = "0x1"

\* What a method of BlockchainAdapter answers is true of the chain: the depth
\* and the events it reports are real, however the node's view changes
\* between its requests and whichever of them fails.
AnswersAreTrue == DepthIsReal /\ AnswersHappened

\* Discovery misses nothing in a block it goes on to record: while the block
\* whose hash it read is still on the chain, a payment in it was found,
\* although logs are asked for by height, after the block (scanRangeFast).
DiscoveryComplete ==
  /\ rpcCall.state = "done" /\ rpcCall.op = "discover"
  /\ rpcTx.block = rpcCall.got.block /\ TxHeight > 0
  /\ rpcCall.family = "evm" => rpcTx.status = "0x1"
  => Found(rpcCall)

\* lastSeen is the block the chain ends with.
AtTip == pollLast.block = rpcChain[Len(rpcChain)]
=============================================================================
