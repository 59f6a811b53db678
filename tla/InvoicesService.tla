--------------------------- MODULE InvoicesService ---------------------------
(***************************************************************************)
(* apps/api/src/invoices/invoices.service.ts (creation, cancellation and   *)
(* read-time expiry) and the proactive sweep of                            *)
(* apps/worker/src/expiry-sweep.ts.                                        *)
(***************************************************************************)
EXTENDS GatewayStore

-----------------------------------------------------------------------------
(* createInvoice                                                           *)

\* Rows another creation's FOR UPDATE holds are skipped (SKIP LOCKED).
\* (Mutant: no row is locked.)
noLocks == {}
lockedAddresses == {creating[j] : j \in Invoices} \ {NoAddress}

\* The transaction's first statement: lock one AVAILABLE address row.  The
\* transaction is Read Committed, so the lock is all that keeps two creations
\* apart.  With nothing to lock the request fails (ADDRESS_POOL_EXHAUSTED).
reserveAddress(i, a) ==
  /\ status[i] = "none"
  /\ creating[i] = NoAddress
  /\ addressStatus[a] = "AVAILABLE"
  /\ a \notin lockedAddresses
  /\ creating' = [creating EXCEPT ![i] = a]
  /\ UNCHANGED <<storeVars, cancelling, monitor, cursor, worldVars>>

\* The rest of the transaction: the invoice goes CREATED -> PENDING and the
\* address is assigned to it.
createInvoice(i) ==
  /\ creating[i] # NoAddress
  /\ MoveInvoice(i, "PENDING", {"PENDING"})
  /\ addressStatus' = [addressStatus EXCEPT ![creating[i]] = "ASSIGNED"]
  /\ addressInvoice' = [addressInvoice EXCEPT ![creating[i]] = i]
  /\ creating' = [creating EXCEPT ![i] = NoAddress]
  /\ UNCHANGED <<txVars, transferVars, ledgerVars, cancelling, monitor,
                 cursor, worldVars>>

\* The creation transaction rolls back and its row lock is released.
createFails(i) ==
  /\ creating[i] # NoAddress
  /\ creating' = [creating EXCEPT ![i] = NoAddress]
  /\ UNCHANGED <<storeVars, cancelling, monitor, cursor, worldVars>>

-----------------------------------------------------------------------------
(* Expiry                                                                  *)

\* The check every expiry path repeats inside its transaction.
expirable(i) ==
  /\ status[i] # "none"
  /\ isActorAllowed(status[i], "EXPIRED", "system")
  /\ evaluateExpiry(phase[i])

\* expireOne of the worker's sweep: the webhook row is upserted.
expireOne(i) ==
  /\ expirable(i)
  /\ MoveInvoice(i, "EXPIRED", {"EXPIRED"})
  /\ UNCHANGED <<addressVars, txVars, transferVars, ledgerVars, requestVars,
                 monitor, cursor, worldVars>>

\* loadAndMaybeExpire: an API read of the invoice does the same, inserting
\* the webhook row with create.
loadAndMaybeExpire(i) ==
  /\ ~WebhookConflict(i, "EXPIRED")
  /\ expireOne(i)

-----------------------------------------------------------------------------
(* cancelInvoice                                                           *)

\* The invoice is read (and would have been expired by the read if it were
\* due) and assertTransition is asked about the status that was read.
readForCancel(r, i) ==
  /\ cancelling[r] = NoInvoice
  /\ status[i] # "none"
  /\ ~expirable(i)
  /\ assertTransition(status[i], "CANCELLED", "merchant")
  /\ cancelling' = [cancelling EXCEPT ![r] = i]
  /\ UNCHANGED <<storeVars, creating, monitor, cursor, worldVars>>

\* The transaction that follows writes CANCELLED without reading the status
\* again.  The address is retired, never returned to the pool.  (Mutant: it
\* is returned.)
cancelReturningAddress(r) ==
  LET i == cancelling[r]
  IN /\ i # NoInvoice
     /\ ~WebhookConflict(i, "CANCELLED")
     /\ MoveInvoice(i, "CANCELLED", {"CANCELLED"})
     /\ addressStatus' = [a \in Addresses |->
                            IF addressInvoice[a] = i THEN "AVAILABLE"
                            ELSE addressStatus[a]]
     /\ cancelling' = [cancelling EXCEPT ![r] = NoInvoice]
     /\ UNCHANGED <<addressInvoice, txVars, transferVars, ledgerVars, creating,
                    monitor, cursor, worldVars>>
cancelInvoice(r) ==
  LET i == cancelling[r]
  IN /\ i # NoInvoice
     /\ ~WebhookConflict(i, "CANCELLED")
     /\ MoveInvoice(i, "CANCELLED", {"CANCELLED"})
     /\ addressStatus' = [a \in Addresses |->
                            IF addressInvoice[a] = i THEN "RETIRED"
                            ELSE addressStatus[a]]
     /\ cancelling' = [cancelling EXCEPT ![r] = NoInvoice]
     /\ UNCHANGED <<addressInvoice, txVars, transferVars, ledgerVars, creating,
                    monitor, cursor, worldVars>>

\* The request dies, or its transaction hits the webhook row of an earlier
\* cancellation (P2002) and rolls back.
cancelFails(r) ==
  /\ cancelling[r] # NoInvoice
  /\ cancelling' = [cancelling EXCEPT ![r] = NoInvoice]
  /\ UNCHANGED <<storeVars, creating, monitor, cursor, worldVars>>
=============================================================================
