--------------------------- MODULE RelayerWorker ---------------------------
(***************************************************************************)
(* The relayer worker (src/src/relayer/worker.rs).  It follows the node's  *)
(* finalized height, acts on another chain once for every relay request in *)
(* a finalized block, and brings the verified result back in a transaction *)
(* of its own.  Two files survive a restart: the cursor (the last height   *)
(* whose requests are all dealt with) and the pending results.             *)
(*                                                                         *)
(* Every call to the chain actor or to an adapter is an await, so the      *)
(* chain moves between any two of them, and the process may stop at each.  *)
(* The chain's side (mempool, blocks, finality) is reduced to what the     *)
(* worker can tell apart: where its result transactions are.               *)
(*                                                                         *)
(* Left out: writes to the two files that fail (the code logs them), a     *)
(* cursor file that cannot be read, requests that can no longer be read    *)
(* from the chain, and a worker without a signing key.                     *)
(***************************************************************************)
EXTENDS Integers, FiniteSets, FiniteSetsExt

CONSTANTS
    Requests,
    HeightOf,    \* the finalized block that holds the request
    Bridged,     \* requests whose result carries a bridge message: the chain
                 \* executes one result of such a request and refuses another
    MaxHeight,   \* bound: the heights that hold requests
    MaxCopies,   \* bound: live result transactions of each request
    MaxNonce,    \* bound: the relayer account's nonces
    MaxRestarts, \* bound: crashes of the worker
    MaxFaults    \* bound: result transactions the chain loses

ASSUME RelayerAssumption ==
    /\ HeightOf \in [Requests -> 1..MaxHeight]
    /\ Bridged \subseteq Requests
    /\ MaxCopies \in [Requests -> Nat]
    /\ {MaxHeight, MaxNonce, MaxRestarts, MaxFaults} \subseteq Nat

VARIABLES
    finalized,  \* the finalized height
    mempool,    \* result transactions waiting for a block
    blocks,     \* result transactions in blocks that are not final
    final,      \* result transactions in final blocks
    faults,
    pc,         \* where the worker is
    at,         \* the request it is working on: a set of at most one
    back,       \* where a submission returns to
    todo,       \* requests left in this part of the pass
    read,       \* what the pass read at its start
    cursor,     \* relayed_through
    settled,
    observed,   \* the pending results, in memory
    next_nonce, \* a set of at most one
    signed,     \* the transaction handed to the chain: a set of at most one
    disk,       \* the cursor file and the pending-result file
    sent,       \* how often the request's external action was broadcast
    refused,    \* requests no adapter could take
    restarts

chain_vars == <<finalized, mempool, blocks, final, faults>>
pass_vars == <<at, back, todo, read, next_nonce, signed>>
store_vars == <<cursor, settled, observed, disk>>
vars == <<chain_vars, pc, pass_vars, store_vars, sent, refused, restarts>>

\* A signed result: a resubmission has another hash, so another copy number.
Tx == UNION {[request: {r}, copy: 1..MaxCopies[r], nonce: 0..MaxNonce] : r \in Requests}

\* PendingResult: a reservation, then a verified result; the transaction last
\* accepted for it.
Pending == [verified: BOOLEAN, submitted: {s \in SUBSET Tx : Cardinality(s) <= 1}]

Reservation == [verified |-> FALSE, submitted |-> {}]

With(f, x, y) == [z \in DOMAIN f \union {x} |-> IF z = x THEN y ELSE f[z]]
Without(f, x) == [z \in DOMAIN f \ {x} |-> f[z]]

-----------------------------------------------------------------------------
(* The chain *)

\* The account nonce of the relayer: how many of its results are in blocks.
account_nonce == Cardinality(blocks \union final)

ResultsOf(r, txs) == {tx \in txs : tx.request = r}

Executes(tx) ==
    /\ tx.nonce = account_nonce
    /\ tx.request \in Bridged => ResultsOf(tx.request, blocks \union final) = {}

finalize_requests ==
    /\ finalized < MaxHeight
    /\ finalized' = finalized + 1
    /\ UNCHANGED <<mempool, blocks, final, faults, pc, pass_vars, store_vars,
                   sent, refused, restarts>>

include(tx) ==
    /\ Executes(tx)
    /\ mempool' = mempool \ {tx}
    /\ blocks' = blocks \union {tx}
    /\ UNCHANGED <<finalized, final, faults, pc, pass_vars, store_vars, sent,
                   refused, restarts>>

finalize_results ==
    /\ blocks # {}
    /\ final' = final \union blocks
    /\ blocks' = {}
    /\ UNCHANGED <<finalized, mempool, faults, pc, pass_vars, store_vars, sent,
                   refused, restarts>>

\* The time to live of a transaction no block can take.
expire(tx) ==
    /\ ~Executes(tx)
    /\ mempool' = mempool \ {tx}
    /\ UNCHANGED <<finalized, blocks, final, faults, pc, pass_vars, store_vars,
                   sent, refused, restarts>>

\* The mempool is evicted or restarted, or a reorganisation abandons the
\* blocks that are not final (their transactions do not return to the mempool).
lose_results ==
    /\ faults < MaxFaults
    /\ faults' = faults + 1
    /\ \/ mempool # {} /\ mempool' = {} /\ UNCHANGED blocks
       \/ blocks # {} /\ blocks' = {} /\ UNCHANGED mempool
    /\ UNCHANGED <<finalized, final, pc, pass_vars, store_vars, sent, refused,
                   restarts>>

Chain ==
    \/ finalize_requests
    \/ finalize_results
    \/ lose_results
    \/ \E tx \in mempool : include(tx) \/ expire(tx)

-----------------------------------------------------------------------------
(* One pass: results of earlier passes first *)

Submitted == {r \in DOMAIN observed : observed[r].submitted # {}}

\* The top of the loop.
begin_pass ==
    /\ pc = "sleep"
    /\ read' = [height |-> finalized, results |-> final]
    /\ next_nonce' = {}
    /\ todo' = Submitted
    /\ pc' = "reap"
    /\ UNCHANGED <<chain_vars, at, back, signed, store_vars, sent, refused, restarts>>

\* A result is released when its block is at or below the finalized height
\* that the pass read.
Releases(txs) == txs \subseteq read.results

\* reap_finalized, the receipt: released, kept, or not in any block.
reap_receipt(r) ==
    /\ pc = "reap" /\ r \in todo
    /\ todo' = todo \ {r}
    /\ LET txs == observed[r].submitted IN
       \/ /\ Releases(txs)
          /\ observed' = Without(observed, r)
          /\ UNCHANGED <<pc, at>>
       \/ /\ ~Releases(txs) /\ txs \subseteq (blocks \union final)
          /\ UNCHANGED <<pc, at, observed>>
       \/ /\ txs \cap (blocks \union final) = {}
          /\ pc' = "reap_mempool" /\ at' = {r}
          /\ UNCHANGED observed
    /\ UNCHANGED <<chain_vars, back, read, next_nonce, signed, cursor, settled, disk, sent,
                   refused, restarts>>

\* Mutant: a result that the chain lost stays marked as submitted.
Unsubmitted_never(p) == p

Unsubmitted(p) == [p EXCEPT !.submitted = {}]

\* reap_finalized, the mempool: a result in neither is submitted again.
reap_mempool ==
    /\ pc = "reap_mempool"
    /\ \E r \in at :
          observed' = IF observed[r].submitted \subseteq mempool
                      THEN observed
                      ELSE [observed EXCEPT ![r] = Unsubmitted(@)]
    /\ pc' = "reap"
    /\ UNCHANGED <<chain_vars, pass_vars, cursor, settled, disk, sent, refused,
                   restarts>>

\* The set is written once, after the last of them; then resubmit_lost.
reap_done ==
    /\ pc = "reap" /\ todo = {}
    /\ disk' = [disk EXCEPT !.pending = observed]
    /\ todo' = {r \in DOMAIN observed : observed[r].verified} \ Submitted
    /\ pc' = "resubmit"
    /\ UNCHANGED <<chain_vars, at, back, read, next_nonce, signed, cursor, settled, observed,
                   sent, refused, restarts>>

resubmit_lost(r) ==
    /\ pc = "resubmit" /\ r \in todo
    /\ todo' = todo \ {r}
    /\ at' = {r} /\ back' = "resubmit" /\ pc' = "submit"
    /\ UNCHANGED <<chain_vars, read, next_nonce, signed, store_vars, sent, refused, restarts>>

resubmit_done ==
    /\ pc = "resubmit" /\ todo = {}
    /\ pc' = "scan"
    /\ UNCHANGED <<chain_vars, pass_vars, store_vars, sent, refused, restarts>>

-----------------------------------------------------------------------------
(* submit_result *)

nonce == IF next_nonce = {} THEN account_nonce ELSE Max(next_nonce)

\* The pool takes a transaction whose predecessors it holds; it replaces one
\* of the same nonce when the fee is enough higher.
Admits(n) == \A k \in account_nonce..(n - 1) : \E tx \in mempool : tx.nonce = k

\* The transactions that something still refers to.
Live == mempool \union blocks \union final
        \union UNION {observed[r].submitted : r \in DOMAIN observed}

add_transaction_accepted ==
    /\ pc = "submit"
    /\ nonce \in account_nonce..MaxNonce
    /\ Admits(nonce)
    /\ \E r \in at :
          LET copies == {c \in 1..MaxCopies[r] : \A tx \in ResultsOf(r, Live) : tx.copy # c}
              tx == [request |-> r, copy |-> Min(copies), nonce |-> nonce]
          IN  /\ copies # {}
              /\ mempool' = {other \in mempool : other.nonce # nonce} \union {tx}
              /\ signed' = {tx}
    /\ pc' = "record"
    /\ UNCHANGED <<finalized, blocks, final, faults, at, back, todo, read, next_nonce,
                   store_vars, sent, refused, restarts>>

\* The answer of the pool: the hash is kept under the request.
record_submission ==
    /\ pc = "record"
    /\ \E r \in at, tx \in signed :
          /\ observed' = [observed EXCEPT ![r].submitted = {tx}]
          /\ disk' = [disk EXCEPT !.pending = observed']
          /\ settled' = IF back = "block" THEN settled \union {r} ELSE settled
          /\ next_nonce' = {tx.nonce + 1}
    /\ signed' = {}
    /\ pc' = back
    /\ UNCHANGED <<chain_vars, at, back, todo, read, cursor, sent, refused, restarts>>

\* A full pool, a raced nonce: the pass goes on with the next lost result, or
\* ends with the block held under the cursor.
add_transaction_refused ==
    /\ pc = "submit"
    /\ pc' = IF back = "block" THEN "sleep" ELSE back
    /\ UNCHANGED <<chain_vars, pass_vars, store_vars, sent, refused, restarts>>

-----------------------------------------------------------------------------
(* The blocks above the cursor *)

\* The next block, if there is one and the chain hands it over.
get_block ==
    /\ pc = "scan" /\ cursor < read.height
    /\ todo' = {r \in Requests : HeightOf[r] = cursor + 1} \ settled
    /\ pc' = "block"
    /\ UNCHANGED <<chain_vars, at, back, read, next_nonce, signed, store_vars, sent,
                   refused, restarts>>

end_pass ==
    /\ pc = "scan"
    /\ pc' = "sleep"
    /\ UNCHANGED <<chain_vars, pass_vars, store_vars, sent, refused, restarts>>

\* Every request of the block has been attempted.
save_cursor ==
    /\ pc = "block" /\ todo = {}
    /\ cursor' = cursor + 1
    /\ disk' = [disk EXCEPT !.cursor = cursor + 1]
    /\ settled' = {}
    /\ pc' = "scan"
    /\ UNCHANGED <<chain_vars, pass_vars, observed, sent, refused, restarts>>

\* process_relay: reserve first, act second.
reserve(r) ==
    /\ pc = "block" /\ r \in todo
    /\ r \notin DOMAIN observed
    /\ observed' = With(observed, r, Reservation)
    /\ disk' = [disk EXCEPT !.pending = observed']
    /\ todo' = todo \ {r} /\ at' = {r}
    /\ pc' = "adapter"
    /\ UNCHANGED <<chain_vars, back, read, next_nonce, signed, cursor, settled, sent,
                   refused, restarts>>

\* Mutant: a reservation that an earlier run left behind is acted on.
HeldAt_adapter(p) == IF p.verified THEN "submit" ELSE "adapter"

\* A reservation without a result is reported and passed over.
HeldAt(p) == IF p.verified THEN "submit" ELSE "block"

\* process_relay with an entry of an earlier pass: already submitted, to be
\* submitted again, or held for the operator.
revisit(r) ==
    /\ pc = "block" /\ r \in todo
    /\ r \in DOMAIN observed
    /\ todo' = todo \ {r} /\ at' = {r} /\ back' = "block"
    /\ IF observed[r].submitted # {}
       THEN pc' = "block" /\ settled' = settled \union {r}
       ELSE pc' = HeldAt(observed[r]) /\ UNCHANGED settled
    /\ UNCHANGED <<chain_vars, read, next_nonce, signed, cursor, observed, disk, sent,
                   refused, restarts>>

-----------------------------------------------------------------------------
(* The adapter: build_verified_result *)

\* The error proves that nothing was sent: the reservation is released.  No
\* adapter for the chain is final, a refused submission is tried again.
broadcast_did_not_happen(permanent) ==
    /\ pc = "adapter"
    /\ \E r \in at :
          /\ observed' = Without(observed, r)
          /\ settled' = IF permanent THEN settled \union {r} ELSE settled
          /\ refused' = IF permanent THEN refused \union {r} ELSE refused
    /\ disk' = [disk EXCEPT !.pending = observed']
    /\ pc' = IF permanent THEN "block" ELSE "sleep"
    /\ UNCHANGED <<chain_vars, pass_vars, cursor, sent, restarts>>

submit_transaction ==
    /\ pc = "adapter"
    /\ \E r \in at : sent' = [sent EXCEPT ![r] = @ + 1]
    /\ pc' = "confirm"
    /\ UNCHANGED <<chain_vars, pass_vars, store_vars, refused, restarts>>

\* The observation verifies.
wait_for_confirmation ==
    /\ pc = "confirm"
    /\ \E r \in at : observed' = [observed EXCEPT ![r].verified = TRUE]
    /\ disk' = [disk EXCEPT !.pending = observed']
    /\ back' = "block" /\ pc' = "submit"
    /\ UNCHANGED <<chain_vars, at, todo, read, next_nonce, signed, cursor, settled,
                   sent, refused, restarts>>

\* Mutant: a confirmation that times out releases the reservation.
Kept_not(r) == Without(observed, r)

Kept(r) == observed

\* Every other failure may follow a broadcast: the reservation is kept.  A
\* proof that does not verify settles the request, anything else ends the pass.
adapter_failed(permanent) ==
    /\ pc \in {"adapter", "confirm"}
    /\ permanent => pc = "confirm"
    /\ \E r \in at :
          /\ observed' = Kept(r)
          /\ settled' = IF permanent THEN settled \union {r} ELSE settled
    /\ disk' = [disk EXCEPT !.pending = observed']
    /\ pc' = IF permanent THEN "block" ELSE "sleep"
    /\ UNCHANGED <<chain_vars, pass_vars, cursor, sent, refused, restarts>>

-----------------------------------------------------------------------------
crash ==
    /\ pc # "down" /\ restarts < MaxRestarts
    /\ restarts' = restarts + 1
    /\ pc' = "down"
    /\ at' = {} /\ back' = "block" /\ todo' = {} /\ next_nonce' = {} /\ signed' = {}
    /\ read' = [height |-> 0, results |-> {}]
    /\ cursor' = 0 /\ settled' = {} /\ observed' = [r \in {} |-> Reservation]
    /\ UNCHANGED <<chain_vars, disk, sent, refused>>

\* run: the cursor and the pending results come back, `settled` does not.
run ==
    /\ pc = "down"
    /\ cursor' = disk.cursor
    /\ observed' = disk.pending
    /\ pc' = "sleep"
    /\ UNCHANGED <<chain_vars, pass_vars, settled, disk, sent, refused, restarts>>

Pass ==
    \/ begin_pass \/ reap_mempool \/ reap_done \/ resubmit_done
    \/ record_submission \/ get_block \/ save_cursor \/ run
    \/ \E r \in Requests :
          reap_receipt(r) \/ resubmit_lost(r) \/ reserve(r) \/ revisit(r)

Adapter ==
    \/ submit_transaction
    \/ wait_for_confirmation
    \/ \E permanent \in BOOLEAN :
          broadcast_did_not_happen(permanent) \/ adapter_failed(permanent)

Init ==
    /\ finalized = 0 /\ mempool = {} /\ blocks = {} /\ final = {} /\ faults = 0
    /\ pc = "sleep" /\ at = {} /\ back = "block" /\ todo = {}
    /\ read = [height |-> 0, results |-> {}]
    /\ next_nonce = {} /\ signed = {}
    /\ cursor = 0 /\ settled = {} /\ observed = [r \in {} |-> Reservation]
    /\ disk = [cursor |-> 0, pending |-> [r \in {} |-> Reservation]]
    /\ sent = [r \in Requests |-> 0] /\ refused = {} /\ restarts = 0

Next ==
    \/ Chain
    \/ Pass
    \/ Adapter
    \/ add_transaction_accepted
    \/ add_transaction_refused
    \/ end_pass
    \/ crash

Spec == Init /\ [][Next]_vars

\* The worker's loop runs on; the pool takes a result sooner or later, a block
\* takes what it can execute, blocks become final, and what no block takes
\* expires.
Fairness ==
    /\ WF_vars(Pass)
    /\ WF_vars(Adapter)
    /\ WF_vars(pc = "scan" /\ (get_block \/ end_pass))
    /\ WF_vars(add_transaction_accepted \/ add_transaction_refused)
    /\ SF_vars(add_transaction_accepted)
    /\ WF_vars(finalize_results)
    /\ SF_vars(\E tx \in mempool : include(tx))
    /\ WF_vars(\E tx \in mempool : expire(tx))

FairSpec == Spec /\ Fairness

-----------------------------------------------------------------------------
(* Properties *)

\* Types; between two passes the pending file and the cursor file hold what
\* the worker has in memory, so a restart there loses only `settled`.
TypeOK ==
    /\ finalized \in 0..MaxHeight
    /\ {mempool, blocks, final, signed} \subseteq SUBSET Tx
    /\ \A t, u \in mempool : t.nonce = u.nonce => t = u
    /\ read.height \in 0..finalized /\ read.results \subseteq final
    /\ {at, todo, settled, refused} \subseteq SUBSET Requests
    /\ DOMAIN observed \subseteq Requests
    /\ \A r \in DOMAIN observed : observed[r] \in Pending
    /\ cursor \in 0..MaxHeight /\ disk.cursor \in 0..finalized
    /\ sent \in [Requests -> Nat]
    /\ pc = "sleep" => disk = [cursor |-> cursor, pending |-> observed]

HasFinalResult(r) == ResultsOf(r, final) # {}

\* "Never a request nothing knows about": whatever step the process stops at,
\* a request that the cursor file has passed, or whose external action was
\* broadcast, is in the pending file, or its result is final, or no adapter
\* could take it.
NothingForgotten ==
    \A r \in Requests :
       (HeightOf[r] <= disk.cursor \/ sent[r] > 0) =>
          r \in DOMAIN disk.pending \union refused \/ HasFinalResult(r)

\* No retry, lost result, timeout or restart makes the worker act again on a
\* request whose outcome it has not delivered: a second broadcast comes only
\* after a result of the request is final.  (Then it can
\* come: `settled` does not survive a restart and resubmit_lost does not add to
\* it, so a block still held under the cursor is relayed again.)
NoBlindResend ==
    \A r \in Requests : sent[r] > 1 => HasFinalResult(r)

\* The result of a bridged request waits in the pool although the chain has
\* executed another result of it.
Wedged ==
    \E tx \in mempool :
       /\ tx.request \in Bridged
       /\ ResultsOf(tx.request, blocks \union final) # {}

\* Every verified result reaches a final block, however often the chain loses
\* it, unless the pool comes to hold a result the chain will not execute.
ResultsLand ==
    \A r \in Requests :
       (r \in DOMAIN disk.pending /\ disk.pending[r].verified)
          ~> (HasFinalResult(r) \/ Wedged)
=============================================================================
