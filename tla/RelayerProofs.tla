---------------------------- MODULE RelayerProofs ----------------------------
(***************************************************************************)
(* Theorems about RelayerWorker, for any requests, blocks and numbers of   *)
(* restarts and faults.  The inductive invariant says what the worker's    *)
(* memory and its two files know of each request at each point of a pass:  *)
(* an entry leaves the pending results only when its result is final or    *)
(* when nothing was broadcast for it.                                      *)
(***************************************************************************)
EXTENDS RelayerWorker, FiniteSetTheorems, WellFoundedInduction, TLAPS

Points == {"down", "sleep", "reap", "reap_mempool", "resubmit", "submit",
           "record", "scan", "block", "adapter", "confirm"}

\* Pending results of requests, with no transaction of another request.
Entries(f) ==
    /\ f = [r \in DOMAIN f |-> f[r]]
    /\ DOMAIN f \subseteq Requests
    /\ \A r \in DOMAIN f : f[r] \in Pending /\ \A tx \in f[r].submitted : tx.request = r

\* What TypeOK leaves open.
Shapes ==
    /\ pc \in Points /\ back \in {"block", "resubmit"}
    /\ disk = [cursor |-> disk.cursor, pending |-> disk.pending]
    /\ read = [height |-> read.height, results |-> read.results]
    /\ Entries(observed) /\ Entries(disk.pending)
    /\ IsFiniteSet(blocks) /\ IsFiniteSet(final)
    /\ \A r, s \in at : r = s

\* The files against the memory: they agree but for the entries a reap has
\* released and not yet written.
Files ==
    /\ pc = "down" => settled = {}
    /\ pc # "down" => cursor = disk.cursor
    /\ pc \notin {"down", "reap", "reap_mempool"} => observed = disk.pending
    /\ pc \in {"reap", "reap_mempool"} =>
          /\ DOMAIN observed \subseteq DOMAIN disk.pending
          /\ \A r \in DOMAIN disk.pending \ DOMAIN observed : HasFinalResult(r)

\* A request the worker's memory accounts for.
Known(r) == r \in DOMAIN observed \/ r \in refused \/ HasFinalResult(r)

\* What a pass is doing.
Reaping ==
    /\ pc \in {"reap", "reap_mempool"} =>
          \A r \in todo : r \in DOMAIN observed /\ observed[r].submitted # {}
    /\ pc = "reap_mempool" => at \cap todo = {}

Signing == pc = "record" => \A r \in at, tx \in signed : tx.request = r

\* The worker is about to act on a request: nothing was sent for it, or its
\* result has landed.
Acting ==
    pc = "adapter" => \A r \in at :
        /\ r \in DOMAIN observed /\ r \notin settled /\ HeightOf[r] = cursor + 1
        /\ sent[r] = 0 \/ HasFinalResult(r)

OnRequest == pc \in {"adapter", "confirm"} \/ (pc \in {"submit", "record"} /\ back = "block")

\* The worker is in the block above the cursor: every request of it is still
\* to be attempted or accounted for.
InBlock ==
    (pc = "block" \/ OnRequest) =>
        /\ cursor < read.height
        /\ todo \cap settled = {}
        /\ OnRequest => at \cap todo = {} /\ at \subseteq DOMAIN observed
        /\ \A r \in todo : HeightOf[r] = cursor + 1
        /\ \A r \in Requests : HeightOf[r] = cursor + 1 => r \in todo \/ Known(r)

\* What is known of the requests sent, settled or passed by the cursor.
Accounted ==
    /\ \A r \in Requests : sent[r] > 0 =>
          /\ r \in DOMAIN disk.pending \/ HasFinalResult(r)
          /\ pc # "down" => r \in DOMAIN observed \/ HasFinalResult(r)
    /\ \A r \in settled : Known(r)
    /\ \A r \in Requests : HeightOf[r] <= disk.cursor =>
          r \in DOMAIN disk.pending \/ r \in refused \/ HasFinalResult(r)
    /\ NoBlindResend

RelayerInv ==
    /\ TypeOK /\ Shapes /\ Files
    /\ Reaping /\ Signing /\ Acting /\ InBlock
    /\ Accounted

-----------------------------------------------------------------------------
(* Facts about transactions and pending results.                           *)

\* The fields of a result transaction.
LEMMA TxFields ==
    ASSUME NEW tx \in Tx
    PROVE  /\ tx.request \in Requests /\ tx.nonce \in 0..MaxNonce
           /\ tx = [request |-> tx.request, copy |-> tx.copy, nonce |-> tx.nonce]
BY DEF Tx

\* A result built for a request is one of its transactions.
LEMMA TxBuilt ==
    ASSUME NEW r \in Requests, NEW c \in 1..MaxCopies[r], NEW n \in 0..MaxNonce
    PROVE  [request |-> r, copy |-> c, nonce |-> n] \in Tx
BY DEF Tx

\* Replacing the entry of a request by another of its own.
LEMMA EntriesUpdate ==
    ASSUME NEW f, Entries(f), NEW r, NEW p, NEW g,
           r \in DOMAIN f => p \in Pending /\ \A tx \in p.submitted : tx.request = r,
           g = [f EXCEPT ![r] = p]
    PROVE  Entries(g) /\ DOMAIN g = DOMAIN f
BY DEF Entries

\* Removing an entry.
LEMMA EntriesWithout ==
    ASSUME NEW f, Entries(f), NEW r
    PROVE  /\ Entries(Without(f, r)) /\ DOMAIN Without(f, r) = DOMAIN f \ {r}
           /\ \A s \in DOMAIN f \ {r} : Without(f, r)[s] = f[s]
BY DEF Entries, Without

\* Adding a reservation.
LEMMA EntriesReserve ==
    ASSUME NEW f, Entries(f), NEW r \in Requests
    PROVE  /\ Entries(With(f, r, Reservation))
           /\ DOMAIN With(f, r, Reservation) = DOMAIN f \cup {r}
<1>1. Reservation \in Pending
    <2>1. Cardinality({}) = 0
        BY FS_EmptySet
    <2>2. {} \in {s \in SUBSET Tx : Cardinality(s) <= 1}
        BY <2>1
    <2> QED
        BY <2>2 DEF Reservation, Pending
<1>2. Reservation.submitted = {}
    BY DEF Reservation
<1> QED
    BY <1>1, <1>2 DEF Entries, With

\* TypeOK says of the pending results what Entries says.
LEMMA EntriesTyped ==
    ASSUME NEW f, Entries(f)
    PROVE  DOMAIN f \subseteq Requests /\ \A r \in DOMAIN f : f[r] \in Pending
BY DEF Entries

-----------------------------------------------------------------------------
(* Steps of the chain.                                                     *)

\* The chain's own steps leave the worker alone, and what is final stays.
LEMMA ChainStep ==
    ASSUME RelayerInv, Chain
    PROVE  RelayerInv'
<1>1. /\ UNCHANGED <<pc, pass_vars, store_vars, sent, refused, restarts>>
      /\ final \subseteq final'
    BY DEF Chain, finalize_requests, finalize_results, lose_results, include, expire
<1>2. \A r : ResultsOf(r, final) # {} => ResultsOf(r, final') # {}
    BY <1>1 DEF ResultsOf
<1>3. IsFiniteSet(blocks') /\ IsFiniteSet(final')
    <2>1. IsFiniteSet(blocks) /\ IsFiniteSet(final)
        BY DEF RelayerInv, Shapes
    <2>2. CASE finalize_results
        BY <2>1, <2>2, FS_EmptySet, FS_Union DEF finalize_results
    <2>3. ASSUME NEW tx \in mempool, include(tx)
          PROVE  IsFiniteSet(blocks') /\ IsFiniteSet(final')
        BY <2>1, <2>3, FS_AddElement DEF include
    <2>4. CASE UNCHANGED <<blocks, final>>
        BY <2>1, <2>4
    <2>5. CASE lose_results
        BY <2>1, <2>5, FS_EmptySet DEF lose_results
    <2> QED
        BY <2>2, <2>3, <2>4, <2>5 DEF Chain, finalize_requests, expire
<1>4. TypeOK'
    <2>0. TypeOK /\ MaxHeight \in Nat
        BY RelayerAssumption DEF RelayerInv
    <2>1. finalized' \in 0..MaxHeight /\ finalized <= finalized'
        BY <2>0 DEF TypeOK, Chain, finalize_requests, finalize_results, lose_results,
                    include, expire
    <2>2. /\ mempool' \subseteq mempool /\ blocks' \subseteq blocks \union mempool
          /\ final' \subseteq final \union blocks
        BY DEF Chain, finalize_requests, finalize_results, lose_results, include, expire
    <2>3. {mempool', blocks', final', signed'} \subseteq SUBSET Tx
        BY <1>1, <2>0, <2>2 DEF TypeOK, pass_vars
    <2>4. \A t, u \in mempool' : t.nonce = u.nonce => t = u
        BY <2>0, <2>2 DEF TypeOK
    <2>5. read'.height \in 0..finalized' /\ read'.results \subseteq final'
          /\ disk'.cursor \in 0..finalized'
        BY <1>1, <2>0, <2>1 DEF TypeOK, pass_vars, store_vars
    <2> QED
        BY <1>1, <2>0, <2>1, <2>3, <2>4, <2>5 DEF TypeOK, pass_vars, store_vars
<1>5. Shapes'
    BY <1>1, <1>3 DEF RelayerInv, Shapes, pass_vars, store_vars
<1>6. Files'
    BY <1>1, <1>2 DEF RelayerInv, Files, HasFinalResult, pass_vars, store_vars
<1>7. (Reaping /\ Signing)'
    BY <1>1 DEF RelayerInv, Reaping, Signing, pass_vars, store_vars
<1>8. (Acting /\ InBlock)'
    BY <1>1, <1>2 DEF RelayerInv, Acting, InBlock, OnRequest, Known, HasFinalResult,
                      pass_vars, store_vars
<1>9. Accounted'
    BY <1>1, <1>2 DEF RelayerInv, Accounted, NoBlindResend, Known, HasFinalResult,
                      pass_vars, store_vars
<1> QED
    BY <1>4, <1>5, <1>6, <1>7, <1>8, <1>9 DEF RelayerInv

-----------------------------------------------------------------------------
(* Steps of a pass that change neither the memory of results nor the files. *)

\* The top of the loop.
LEMMA BeginStep ==
    ASSUME RelayerInv, begin_pass
    PROVE  RelayerInv'
<1> USE DEF begin_pass, chain_vars, store_vars
<1>1. TypeOK'
    BY DEF RelayerInv, TypeOK, Shapes, Submitted
<1>2. Shapes'
    BY DEF RelayerInv, Shapes, Points
<1>3. Files'
    BY DEF RelayerInv, Files
<1>4. (Reaping /\ Signing /\ Acting /\ InBlock)'
    BY DEF Reaping, Signing, Acting, InBlock, OnRequest, Submitted
<1>5. Accounted'
    BY DEF RelayerInv, Accounted, NoBlindResend, Known, HasFinalResult
<1> QED
    BY <1>1, <1>2, <1>3, <1>4, <1>5 DEF RelayerInv

\* Taking up a lost result, and leaving a submission the pool refused.
LEMMA ResubmitStep ==
    ASSUME RelayerInv,
           \/ \E r \in Requests : resubmit_lost(r)
           \/ resubmit_done \/ add_transaction_refused \/ end_pass
    PROVE  RelayerInv'
<1>1. /\ UNCHANGED <<chain_vars, read, next_nonce, signed, store_vars, sent, refused,
                     restarts>>
      /\ todo' \subseteq todo /\ {at', todo'} \subseteq SUBSET Requests
      /\ \A r, s \in at' : r = s
      /\ back' \in {"block", "resubmit"}
      /\ pc \notin {"down", "reap", "reap_mempool"}
      /\ \/ pc' \in {"sleep", "scan", "resubmit"}
         \/ pc' = "submit" /\ back' = "resubmit"
    BY DEF resubmit_lost, resubmit_done, add_transaction_refused, end_pass, pass_vars,
           RelayerInv, TypeOK, Shapes
<1>2. TypeOK'
    BY <1>1 DEF RelayerInv, TypeOK, Shapes, Files, chain_vars, store_vars
<1>3. Shapes'
    BY <1>1 DEF RelayerInv, Shapes, Points, chain_vars, store_vars
<1>4. Files'
    BY <1>1 DEF RelayerInv, Files, chain_vars, store_vars
<1>5. (Reaping /\ Signing /\ Acting /\ InBlock)'
    BY <1>1 DEF Reaping, Signing, Acting, InBlock, OnRequest
<1>6. Accounted'
    BY <1>1 DEF RelayerInv, Accounted, NoBlindResend, Known, HasFinalResult, chain_vars,
                store_vars
<1> QED
    BY <1>2, <1>3, <1>4, <1>5, <1>6 DEF RelayerInv

\* Opening the next block: what is not settled is to be attempted.
LEMMA BlockStep ==
    ASSUME RelayerInv, get_block
    PROVE  RelayerInv'
<1> USE DEF get_block, chain_vars, store_vars
<1>1. TypeOK'
    BY DEF RelayerInv, TypeOK
<1>2. Shapes'
    BY DEF RelayerInv, Shapes, Points
<1>3. Files'
    BY DEF RelayerInv, Files
<1>4. (Reaping /\ Signing /\ Acting)'
    BY DEF Reaping, Signing, Acting
<1>5. InBlock'
    BY DEF RelayerInv, InBlock, OnRequest, Accounted, Known, HasFinalResult
<1>6. Accounted'
    BY DEF RelayerInv, Accounted, NoBlindResend, Known, HasFinalResult
<1> QED
    BY <1>1, <1>2, <1>3, <1>4, <1>5, <1>6 DEF RelayerInv

\* Closing the block: every request of it is accounted for, in the file too.
LEMMA CursorStep ==
    ASSUME RelayerInv, save_cursor
    PROVE  RelayerInv'
<1> USE DEF save_cursor, chain_vars, pass_vars
<1>0. /\ cursor < read.height /\ cursor = disk.cursor /\ observed = disk.pending
      /\ cursor \in Nat /\ read.height \in 0..finalized /\ finalized \in 0..MaxHeight
      /\ MaxHeight \in Nat
    BY RelayerAssumption DEF RelayerInv, InBlock, Files, TypeOK
<1>1. /\ disk' = [cursor |-> cursor + 1, pending |-> observed]
      /\ disk'.cursor = cursor + 1 /\ disk'.pending = observed
    BY <1>0 DEF RelayerInv, Shapes
<1>2. TypeOK'
    BY <1>0, <1>1 DEF RelayerInv, TypeOK
<1>3. Shapes'
    BY <1>0, <1>1 DEF RelayerInv, Shapes, Points
<1>4. Files'
    BY <1>0, <1>1 DEF RelayerInv, Files
<1>5. (Reaping /\ Signing /\ Acting /\ InBlock)'
    BY DEF Reaping, Signing, Acting, InBlock, OnRequest
<1>6. \A r \in Requests : HeightOf[r] <= cursor + 1 => Known(r)
    <2>1. \A r \in Requests : HeightOf[r] \in Nat
        BY RelayerAssumption
    <2>2. \A r \in Requests : HeightOf[r] = cursor + 1 => Known(r)
        BY DEF RelayerInv, InBlock
    <2>3. \A r \in Requests : HeightOf[r] <= cursor => Known(r)
        BY <1>0 DEF RelayerInv, Accounted, Known
    <2> QED
        BY <1>0, <2>1, <2>2, <2>3
<1>7. Accounted'
    BY <1>0, <1>1, <1>6 DEF RelayerInv, Accounted, NoBlindResend, Known, HasFinalResult
<1> QED
    BY <1>2, <1>3, <1>4, <1>5, <1>7 DEF RelayerInv

-----------------------------------------------------------------------------
(* Reaping the results of earlier passes.                                  *)

\* An entry is released only when its transaction is final.
LEMMA ReceiptStep ==
    ASSUME RelayerInv, NEW r \in Requests, reap_receipt(r)
    PROVE  RelayerInv'
<1>0. /\ UNCHANGED <<chain_vars, back, read, next_nonce, signed, cursor, settled, disk,
                     sent, refused, restarts>>
      /\ pc = "reap" /\ r \in todo /\ todo' = todo \ {r}
      /\ Entries(observed) /\ r \in DOMAIN observed /\ observed[r].submitted # {}
    BY DEF reap_receipt, RelayerInv, Shapes, Reaping
<1>1. CASE UNCHANGED observed /\ \/ UNCHANGED <<pc, at>>
                                 \/ pc' = "reap_mempool" /\ at' = {r}
    <2>1. TypeOK'
        BY <1>0, <1>1 DEF RelayerInv, TypeOK, chain_vars
    <2>2. Shapes'
        BY <1>0, <1>1 DEF RelayerInv, Shapes, Points, chain_vars
    <2>3. Files'
        BY <1>0, <1>1 DEF RelayerInv, Files, HasFinalResult, chain_vars
    <2>4. (Reaping /\ Signing /\ Acting /\ InBlock)'
        BY <1>0, <1>1 DEF RelayerInv, Reaping, Signing, Acting, InBlock, OnRequest
    <2>5. Accounted'
        BY <1>0, <1>1 DEF RelayerInv, Accounted, NoBlindResend, Known, HasFinalResult,
                          chain_vars
    <2> QED
        BY <2>1, <2>2, <2>3, <2>4, <2>5 DEF RelayerInv
<1>2. CASE /\ observed[r].submitted \subseteq read.results
           /\ observed' = Without(observed, r) /\ UNCHANGED <<pc, at>>
    <2>1. HasFinalResult(r)
        <3>1. PICK tx \in observed[r].submitted : tx.request = r
            BY <1>0 DEF Entries
        <3>2. tx \in final
            BY <1>2, <3>1 DEF RelayerInv, TypeOK
        <3> QED
            BY <3>1, <3>2 DEF HasFinalResult, ResultsOf
    <2>2. /\ Entries(observed') /\ DOMAIN observed' = DOMAIN observed \ {r}
          /\ \A s \in DOMAIN observed \ {r} : observed'[s] = observed[s]
        BY <1>0, <1>2, EntriesWithout
    <2>3. TypeOK'
        BY <1>0, <1>2, <2>2, EntriesTyped DEF RelayerInv, TypeOK, chain_vars
    <2>4. Shapes'
        BY <1>0, <1>2, <2>2 DEF RelayerInv, Shapes, chain_vars
    <2>5. Files'
        BY <1>0, <1>2, <2>1, <2>2 DEF RelayerInv, Files, HasFinalResult, chain_vars
    <2>6. (Reaping /\ Signing /\ Acting /\ InBlock)'
        BY <1>0, <1>2, <2>2 DEF RelayerInv, Reaping, Signing, Acting, InBlock, OnRequest
    <2>7. Accounted'
        BY <1>0, <1>2, <2>1, <2>2 DEF RelayerInv, Accounted, NoBlindResend, Known,
                                      HasFinalResult, chain_vars
    <2> QED
        BY <2>3, <2>4, <2>5, <2>6, <2>7 DEF RelayerInv
<1> QED
    BY <1>1, <1>2 DEF reap_receipt, Releases

\* A result in no block and not in the pool is marked for another submission.
LEMMA ReapMempoolStep ==
    ASSUME RelayerInv, reap_mempool
    PROVE  RelayerInv'
<1>0. /\ UNCHANGED <<chain_vars, pass_vars, cursor, settled, disk, sent, refused, restarts>>
      /\ pc = "reap_mempool" /\ pc' = "reap" /\ Entries(observed)
    BY DEF reap_mempool, RelayerInv, Shapes
<1>1. PICK r \in at : observed' = IF observed[r].submitted \subseteq mempool
                                  THEN observed
                                  ELSE [observed EXCEPT ![r] = Unsubmitted(@)]
    BY DEF reap_mempool
<1>2. /\ Entries(observed') /\ DOMAIN observed' = DOMAIN observed
      /\ \A s \in DOMAIN observed \ {r} : observed'[s] = observed[s]
    <2>1. CASE observed' = observed
        BY <1>0, <2>1
    <2>2. CASE observed' = [observed EXCEPT ![r] = Unsubmitted(observed[r])]
        <3>1. PICK p : p = Unsubmitted(observed[r])
            OBVIOUS
        <3>2. ASSUME r \in DOMAIN observed
              PROVE  p \in Pending /\ \A tx \in p.submitted : tx.request = r
            <4>1. observed[r] \in Pending
                BY <1>0, <3>2 DEF Entries
            <4>2. p = [verified |-> observed[r].verified, submitted |-> {}]
                BY <3>1, <4>1 DEF Unsubmitted, Pending
            <4>3. Cardinality({}) = 0
                BY FS_EmptySet
            <4>4. {} \in {s \in SUBSET Tx : Cardinality(s) <= 1}
                BY <4>3
            <4> QED
                BY <4>1, <4>2, <4>4 DEF Pending
        <3>3. observed' = [observed EXCEPT ![r] = p]
            BY <2>2, <3>1
        <3>4. Entries(observed') /\ DOMAIN observed' = DOMAIN observed
            BY <1>0, <3>2, <3>3, EntriesUpdate
        <3> QED
            BY <3>3, <3>4
    <2> QED
        BY <1>1, <2>1, <2>2
<1>3. TypeOK'
    BY <1>0, <1>2, EntriesTyped DEF RelayerInv, TypeOK, chain_vars, pass_vars
<1>4. Shapes'
    BY <1>0, <1>2 DEF RelayerInv, Shapes, Points, chain_vars, pass_vars
<1>5. Files'
    BY <1>0, <1>2 DEF RelayerInv, Files, HasFinalResult, chain_vars
<1>6. (Reaping /\ Signing /\ Acting /\ InBlock)'
    BY <1>0, <1>1, <1>2 DEF RelayerInv, Reaping, Signing, Acting, InBlock, OnRequest,
                            pass_vars
<1>7. Accounted'
    BY <1>0, <1>2 DEF RelayerInv, Accounted, NoBlindResend, Known, HasFinalResult,
                      chain_vars
<1> QED
    BY <1>3, <1>4, <1>5, <1>6, <1>7 DEF RelayerInv

\* The file takes over what the reap left.
LEMMA ReapDoneStep ==
    ASSUME RelayerInv, reap_done
    PROVE  RelayerInv'
<1> USE DEF reap_done, chain_vars
<1>1. /\ disk' = [cursor |-> disk.cursor, pending |-> observed]
      /\ disk'.cursor = disk.cursor /\ disk'.pending = observed
    BY DEF RelayerInv, Shapes
<1>2. TypeOK'
    BY <1>1 DEF RelayerInv, TypeOK
<1>3. Shapes'
    BY <1>1 DEF RelayerInv, Shapes, Points
<1>4. Files'
    BY <1>1 DEF RelayerInv, Files
<1>5. (Reaping /\ Signing /\ Acting /\ InBlock)'
    BY DEF Reaping, Signing, Acting, InBlock, OnRequest
<1>6. Accounted'
    BY <1>1 DEF RelayerInv, Accounted, Files, NoBlindResend, Known, HasFinalResult
<1> QED
    BY <1>2, <1>3, <1>4, <1>5, <1>6 DEF RelayerInv

-----------------------------------------------------------------------------
(* Submitting a result.                                                    *)

\* A set of positive numbers that is not empty has a least member.
LEMMA LeastIn ==
    ASSUME NEW S \in SUBSET Nat, S # {}
    PROVE  Min(S) \in S
<1>1. PICK m \in S : \A y \in S : ~ (<<y, m>> \in OpToRel(<, Nat))
    BY NatLessThanWellFounded, WFMin
<1>2. \A y \in S : ~ (y < m)
    <2> SUFFICES ASSUME NEW y \in S, y < m PROVE FALSE
        OBVIOUS
    <2>1. y \in Nat /\ m \in Nat
        OBVIOUS
    <2>2. <<y, m>> \in OpToRel(<, Nat)
        BY <2>1, Zenon DEF OpToRel
    <2> QED
        BY <1>1, <2>2, Zenon
<1>3. \A y \in S : m <= y
    BY <1>2
<1> QED
    BY <1>3 DEF Min

\* The pool takes a new transaction of the request, in place of the one that
\* bore its nonce.
LEMMA AcceptedStep ==
    ASSUME RelayerInv, add_transaction_accepted
    PROVE  RelayerInv'
<1>0. /\ UNCHANGED <<finalized, blocks, final, faults, at, back, todo, read, next_nonce,
                     store_vars, sent, refused, restarts>>
      /\ pc = "submit" /\ pc' = "record"
    BY DEF add_transaction_accepted
<1>1. PICK n : n = nonce
    OBVIOUS
<1>2. n \in 0..MaxNonce
    <2>1. IsFiniteSet(blocks \union final)
        BY FS_Union DEF RelayerInv, Shapes
    <2>2. account_nonce \in Nat
        BY <2>1, FS_CardinalityType DEF account_nonce
    <2>3. n \in account_nonce..MaxNonce /\ MaxNonce \in Nat
        BY <1>1, RelayerAssumption DEF add_transaction_accepted
    <2> QED
        BY <2>2, <2>3
<1>2a. PICK r \in at : \E copies :
        /\ copies = {c \in 1..MaxCopies[r] : \A tx \in ResultsOf(r, Live) : tx.copy # c}
        /\ copies # {}
        /\ mempool' = {other \in mempool : other.nonce # n}
                        \union {[request |-> r, copy |-> Min(copies), nonce |-> n]}
        /\ signed' = {[request |-> r, copy |-> Min(copies), nonce |-> n]}
    BY <1>1 DEF add_transaction_accepted
<1>3. PICK copies :
        /\ copies = {c \in 1..MaxCopies[r] : \A tx \in ResultsOf(r, Live) : tx.copy # c}
        /\ copies # {}
        /\ mempool' = {other \in mempool : other.nonce # n}
                        \union {[request |-> r, copy |-> Min(copies), nonce |-> n]}
        /\ signed' = {[request |-> r, copy |-> Min(copies), nonce |-> n]}
    BY <1>2a
<1>4. PICK tx : tx = [request |-> r, copy |-> Min(copies), nonce |-> n]
    OBVIOUS
<1>5. r \in Requests /\ MaxCopies[r] \in Nat
    BY RelayerAssumption DEF RelayerInv, TypeOK
<1>6. Min(copies) \in copies
    <2>1. copies \in SUBSET Nat /\ copies # {}
        BY <1>3, <1>5
    <2> QED
        BY <2>1, LeastIn
<1>7. Min(copies) \in 1..MaxCopies[r]
    BY <1>3, <1>6
<1>8. tx \in Tx /\ tx.request = r /\ tx.nonce = n
    BY <1>2, <1>4, <1>5, <1>7, TxBuilt
<1>9. /\ mempool' = {other \in mempool : other.nonce # n} \union {tx}
      /\ signed' = {tx}
    BY <1>3, <1>4
<1>10. TypeOK'
    <2>1. mempool' \subseteq Tx /\ signed' \subseteq Tx
        BY <1>8, <1>9 DEF RelayerInv, TypeOK
    <2>2. \A t, u \in mempool' : t.nonce = u.nonce => t = u
        BY <1>8, <1>9 DEF RelayerInv, TypeOK
    <2> QED
        BY <1>0, <2>1, <2>2 DEF RelayerInv, TypeOK, store_vars
<1>11. Shapes'
    BY <1>0 DEF RelayerInv, Shapes, Points, store_vars
<1>12. Files'
    BY <1>0 DEF RelayerInv, Files, store_vars
<1>13. Signing'
    <2>1. \A s \in at : s = r
        BY <1>3 DEF RelayerInv, Shapes
    <2> QED
        BY <1>0, <1>8, <1>9, <2>1 DEF Signing
<1>14. (Reaping /\ Acting /\ InBlock)'
    BY <1>0 DEF RelayerInv, Reaping, Acting, InBlock, OnRequest, Known, HasFinalResult,
                store_vars
<1>15. Accounted'
    BY <1>0 DEF RelayerInv, Accounted, NoBlindResend, Known, HasFinalResult, store_vars
<1> QED
    BY <1>10, <1>11, <1>12, <1>13, <1>14, <1>15 DEF RelayerInv

\* A step that rewrites the entry of one request, in memory and in the file,
\* leaves the same requests in both.
LEMMA EntryWritten ==
    ASSUME RelayerInv, NEW r, NEW p,
           observed' = [observed EXCEPT ![r] = p],
           disk' = [disk EXCEPT !.pending = observed'],
           r \in DOMAIN observed => p \in Pending /\ \A tx \in p.submitted : tx.request = r,
           UNCHANGED cursor, pc \notin {"down", "reap", "reap_mempool"},
           pc' \notin {"down", "reap", "reap_mempool"}
    PROVE  /\ Entries(observed') /\ DOMAIN observed' = DOMAIN observed
           /\ disk' = [cursor |-> disk.cursor, pending |-> observed']
           /\ disk'.cursor = disk.cursor /\ disk'.pending = observed'
           /\ DOMAIN disk'.pending = DOMAIN disk.pending
           /\ Files'
<1>1. /\ Entries(observed) /\ disk = [cursor |-> disk.cursor, pending |-> disk.pending]
      /\ observed = disk.pending /\ cursor = disk.cursor
    BY DEF RelayerInv, Shapes, Files
<1>2. Entries(observed') /\ DOMAIN observed' = DOMAIN observed
    BY <1>1, EntriesUpdate
<1>3. /\ disk' = [cursor |-> disk.cursor, pending |-> observed']
      /\ disk'.cursor = disk.cursor /\ disk'.pending = observed'
    BY <1>1
<1> QED
    BY <1>1, <1>2, <1>3 DEF Files

\* The answer of the pool is kept under the request.
LEMMA RecordStep ==
    ASSUME RelayerInv, record_submission
    PROVE  RelayerInv'
<1>0. /\ UNCHANGED <<chain_vars, at, back, todo, read, cursor, sent, refused, restarts>>
      /\ pc = "record" /\ pc' = back /\ back \in {"block", "resubmit"} /\ signed' = {}
    BY DEF record_submission, RelayerInv, Shapes
<1>1. PICK r \in at, tx \in signed :
        /\ observed' = [observed EXCEPT ![r].submitted = {tx}]
        /\ disk' = [disk EXCEPT !.pending = observed']
        /\ settled' = IF back = "block" THEN settled \union {r} ELSE settled
    BY DEF record_submission
<1>2. tx \in Tx /\ tx.request = r /\ r \in Requests
    BY <1>0, <1>1 DEF RelayerInv, TypeOK, Signing
<1>3. PICK p : p = [observed[r] EXCEPT !.submitted = {tx}]
    OBVIOUS
<1>4. ASSUME r \in DOMAIN observed
      PROVE  p \in Pending /\ \A t \in p.submitted : t.request = r
    <2>1. observed[r] \in Pending
        BY <1>4 DEF RelayerInv, TypeOK
    <2>2. p = [verified |-> observed[r].verified, submitted |-> {tx}]
        BY <1>3, <2>1 DEF Pending
    <2>3. Cardinality({tx}) = 1
        BY FS_Singleton
    <2>4. {tx} \in {s \in SUBSET Tx : Cardinality(s) <= 1}
        BY <1>2, <2>3
    <2> QED
        BY <1>2, <2>1, <2>2, <2>4 DEF Pending
<1>5. observed' = [observed EXCEPT ![r] = p]
    BY <1>1, <1>3
<1>6. /\ Entries(observed') /\ DOMAIN observed' = DOMAIN observed
      /\ disk' = [cursor |-> disk.cursor, pending |-> observed']
      /\ disk'.cursor = disk.cursor /\ disk'.pending = observed'
      /\ DOMAIN disk'.pending = DOMAIN disk.pending
      /\ Files'
    BY <1>0, <1>1, <1>4, <1>5, EntryWritten
<1>7. TypeOK'
    <2>1. settled' \subseteq Requests /\ signed' \subseteq Tx
        BY <1>0, <1>1, <1>2 DEF RelayerInv, TypeOK
    <2> QED
        BY <1>0, <1>6, <2>1, EntriesTyped DEF RelayerInv, TypeOK, chain_vars
<1>8. Shapes'
    BY <1>0, <1>6 DEF RelayerInv, Shapes, Points, chain_vars
<1>9. (Reaping /\ Signing /\ Acting)'
    BY <1>0 DEF Reaping, Signing, Acting
<1>10. InBlock'
    <2>1. CASE back = "block"
        BY <1>0, <1>1, <1>6, <2>1 DEF RelayerInv, InBlock, OnRequest, Known,
                                      HasFinalResult, chain_vars
    <2>2. CASE back = "resubmit"
        BY <1>0, <2>2 DEF InBlock, OnRequest
    <2> QED
        BY <1>0, <2>1, <2>2
<1>11. Accounted'
    <2>1. back = "block" => r \in DOMAIN observed
        BY <1>0, <1>1 DEF RelayerInv, InBlock, OnRequest
    <2> QED
        BY <1>0, <1>1, <1>6, <2>1 DEF RelayerInv, Accounted, NoBlindResend, Known,
                                      HasFinalResult, chain_vars
<1> QED
    BY <1>6, <1>7, <1>8, <1>9, <1>10, <1>11 DEF RelayerInv

-----------------------------------------------------------------------------
(* The requests of a block.                                                *)

\* A reservation is made, and written, before anything is sent: what was
\* sent earlier without leaving an entry has a final result.
LEMMA ReserveStep ==
    ASSUME RelayerInv, NEW r \in Requests, reserve(r)
    PROVE  RelayerInv'
<1>0. /\ UNCHANGED <<chain_vars, back, read, next_nonce, signed, cursor, settled, sent,
                     refused, restarts>>
      /\ pc = "block" /\ pc' = "adapter" /\ r \in todo /\ r \notin DOMAIN observed
      /\ todo' = todo \ {r} /\ at' = {r}
      /\ observed' = With(observed, r, Reservation)
      /\ disk' = [disk EXCEPT !.pending = observed']
    BY DEF reserve
<1>1. /\ Entries(observed) /\ disk = [cursor |-> disk.cursor, pending |-> disk.pending]
      /\ observed = disk.pending /\ cursor = disk.cursor
    BY <1>0 DEF RelayerInv, Shapes, Files
<1>2. Entries(observed') /\ DOMAIN observed' = DOMAIN observed \cup {r}
    BY <1>0, <1>1, EntriesReserve
<1>3. /\ disk' = [cursor |-> disk.cursor, pending |-> observed']
      /\ disk'.cursor = disk.cursor /\ disk'.pending = observed'
    BY <1>0, <1>1
<1>4. TypeOK'
    BY <1>0, <1>2, <1>3, EntriesTyped DEF RelayerInv, TypeOK, chain_vars
<1>5. Shapes'
    BY <1>0, <1>2, <1>3 DEF RelayerInv, Shapes, Points, chain_vars
<1>6. Files'
    BY <1>0, <1>1, <1>3 DEF Files
<1>7. (Reaping /\ Signing)'
    BY <1>0 DEF Reaping, Signing
<1>8. Acting'
    <2>1. r \notin settled /\ HeightOf[r] = cursor + 1
        BY <1>0 DEF RelayerInv, InBlock
    <2>2. sent[r] = 0 \/ HasFinalResult(r)
        BY <1>0 DEF RelayerInv, Accounted, TypeOK
    <2> QED
        BY <1>0, <1>2, <2>1, <2>2 DEF Acting, HasFinalResult, chain_vars
<1>9. InBlock'
    BY <1>0, <1>2 DEF RelayerInv, InBlock, OnRequest, Known, HasFinalResult, chain_vars
<1>10. Accounted'
    BY <1>0, <1>1, <1>2, <1>3 DEF RelayerInv, Accounted, NoBlindResend, Known,
                                  HasFinalResult, chain_vars
<1> QED
    BY <1>4, <1>5, <1>6, <1>7, <1>8, <1>9, <1>10 DEF RelayerInv

\* An entry of an earlier pass is not acted on again.
LEMMA RevisitStep ==
    ASSUME RelayerInv, NEW r \in Requests, revisit(r)
    PROVE  RelayerInv'
<1>0. /\ UNCHANGED <<chain_vars, read, next_nonce, signed, cursor, observed, disk, sent,
                     refused, restarts>>
      /\ pc = "block" /\ r \in todo /\ r \in DOMAIN observed
      /\ todo' = todo \ {r} /\ at' = {r} /\ back' = "block"
      /\ pc' \in {"block", "submit"}
      /\ settled' \in {settled, settled \union {r}}
    BY DEF revisit, HeldAt
<1>1. TypeOK'
    BY <1>0 DEF RelayerInv, TypeOK, chain_vars
<1>2. Shapes'
    BY <1>0 DEF RelayerInv, Shapes, Points, chain_vars
<1>3. Files'
    BY <1>0 DEF RelayerInv, Files
<1>4. (Reaping /\ Signing /\ Acting)'
    BY <1>0 DEF Reaping, Signing, Acting
<1>5. InBlock'
    BY <1>0 DEF RelayerInv, InBlock, OnRequest, Known, HasFinalResult, chain_vars
<1>6. Accounted'
    BY <1>0 DEF RelayerInv, Accounted, NoBlindResend, Known, HasFinalResult, chain_vars
<1> QED
    BY <1>1, <1>2, <1>3, <1>4, <1>5, <1>6 DEF RelayerInv

-----------------------------------------------------------------------------
(* The adapter.                                                            *)

\* The reservation is released: nothing was sent, or a result is final.
LEMMA DidNotHappenStep ==
    ASSUME RelayerInv, NEW permanent \in BOOLEAN, broadcast_did_not_happen(permanent)
    PROVE  RelayerInv'
<1>0. /\ UNCHANGED <<chain_vars, pass_vars, cursor, sent, restarts>>
      /\ pc = "adapter" /\ disk' = [disk EXCEPT !.pending = observed']
      /\ pc' = IF permanent THEN "block" ELSE "sleep"
    BY DEF broadcast_did_not_happen
<1>1. PICK r \in at :
        /\ observed' = Without(observed, r)
        /\ settled' = IF permanent THEN settled \union {r} ELSE settled
        /\ refused' = IF permanent THEN refused \union {r} ELSE refused
    BY DEF broadcast_did_not_happen
<1>2. /\ r \in Requests /\ r \in DOMAIN observed /\ r \notin settled
      /\ HeightOf[r] = cursor + 1 /\ (sent[r] = 0 \/ HasFinalResult(r))
    BY <1>0, <1>1 DEF RelayerInv, Acting, TypeOK
<1>3. /\ Entries(observed) /\ disk = [cursor |-> disk.cursor, pending |-> disk.pending]
      /\ observed = disk.pending /\ cursor = disk.cursor
    BY <1>0 DEF RelayerInv, Shapes, Files
<1>4. Entries(observed') /\ DOMAIN observed' = DOMAIN observed \ {r}
    BY <1>1, <1>3, EntriesWithout
<1>5. /\ disk' = [cursor |-> disk.cursor, pending |-> observed']
      /\ disk'.cursor = disk.cursor /\ disk'.pending = observed'
    BY <1>0, <1>3
<1>6. /\ pc' \in {"block", "sleep"} /\ settled' \subseteq Requests /\ refused' \subseteq Requests
      /\ \/ pc' = "block" /\ settled' = settled \union {r} /\ refused' = refused \union {r}
         \/ pc' = "sleep" /\ settled' = settled /\ refused' = refused
    BY <1>0, <1>1, <1>2 DEF RelayerInv, TypeOK
<1>7. TypeOK'
    BY <1>0, <1>3, <1>4, <1>5, <1>6, EntriesTyped DEF RelayerInv, TypeOK, chain_vars, pass_vars
<1>8. Shapes'
    BY <1>0, <1>4, <1>5, <1>6 DEF RelayerInv, Shapes, Points, chain_vars, pass_vars
<1>9. Files'
    BY <1>0, <1>3, <1>5, <1>6 DEF Files
<1>10. (Reaping /\ Signing /\ Acting)'
    BY <1>6 DEF Reaping, Signing, Acting
<1>11. InBlock'
    <2>1. CASE pc' = "sleep"
        BY <2>1 DEF InBlock, OnRequest
    <2>2. CASE pc' = "block"
        BY <1>0, <1>1, <1>4, <1>6, <2>2 DEF RelayerInv, InBlock, OnRequest, Known,
           HasFinalResult, chain_vars, pass_vars
    <2> QED
        BY <1>6, <2>1, <2>2
<1>12. Accounted'
    <2>1. ASSUME NEW s \in Requests, sent'[s] > 0
          PROVE  s \in DOMAIN observed' \/ HasFinalResult(s)'
        BY <1>0, <1>2, <1>4, <2>1 DEF RelayerInv, Accounted, HasFinalResult, chain_vars
    <2>2. \A s \in settled' : Known(s)'
        BY <1>0, <1>2, <1>4, <1>6 DEF RelayerInv, Accounted, Known, HasFinalResult, chain_vars
    <2>3. ASSUME NEW s \in Requests, HeightOf[s] <= disk'.cursor
          PROVE  s \in DOMAIN disk'.pending \/ s \in refused' \/ HasFinalResult(s)'
        <3>1. s # r
            BY <1>2, <1>3, <1>5, <2>3, RelayerAssumption DEF RelayerInv, TypeOK
        <3> QED
            BY <1>0, <1>3, <1>4, <1>5, <1>6, <2>3, <3>1
               DEF RelayerInv, Accounted, HasFinalResult, chain_vars
    <2>4. NoBlindResend'
        BY <1>0 DEF RelayerInv, Accounted, NoBlindResend, HasFinalResult, chain_vars
    <2> QED
        BY <1>5, <2>1, <2>2, <2>3, <2>4 DEF Accounted
<1> QED
    BY <1>7, <1>8, <1>9, <1>10, <1>11, <1>12 DEF RelayerInv

\* The broadcast: the first of the request, or one after a final result.
LEMMA SendStep ==
    ASSUME RelayerInv, submit_transaction
    PROVE  RelayerInv'
<1>0. /\ UNCHANGED <<chain_vars, pass_vars, store_vars, refused, restarts>>
      /\ pc = "adapter" /\ pc' = "confirm"
    BY DEF submit_transaction
<1>1. PICK r \in at : sent' = [sent EXCEPT ![r] = @ + 1]
    BY DEF submit_transaction
<1>2. /\ r \in Requests /\ r \in DOMAIN observed /\ (sent[r] = 0 \/ HasFinalResult(r))
      /\ observed = disk.pending /\ sent \in [Requests -> Nat]
    BY <1>0, <1>1 DEF RelayerInv, Acting, TypeOK, Files
<1>3. /\ sent' \in [Requests -> Nat] /\ sent'[r] = sent[r] + 1
      /\ \A s \in Requests \ {r} : sent'[s] = sent[s]
    BY <1>1, <1>2
<1>4. TypeOK'
    BY <1>0, <1>3 DEF RelayerInv, TypeOK, chain_vars, pass_vars, store_vars
<1>5. Shapes'
    BY <1>0 DEF RelayerInv, Shapes, Points, chain_vars, pass_vars, store_vars
<1>6. Files'
    BY <1>0 DEF RelayerInv, Files, store_vars
<1>7. (Reaping /\ Signing /\ Acting)'
    BY <1>0 DEF Reaping, Signing, Acting
<1>8. InBlock'
    BY <1>0 DEF RelayerInv, InBlock, OnRequest, Known, HasFinalResult, chain_vars,
                pass_vars, store_vars
<1>9. NoBlindResend'
    BY <1>0, <1>2, <1>3 DEF RelayerInv, Accounted, NoBlindResend, HasFinalResult, chain_vars
<1>10. Accounted'
    BY <1>0, <1>2, <1>3, <1>9 DEF RelayerInv, Accounted, Known, HasFinalResult,
                                  chain_vars, store_vars
<1> QED
    BY <1>4, <1>5, <1>6, <1>7, <1>8, <1>10 DEF RelayerInv

\* The observation verifies.
LEMMA ConfirmStep ==
    ASSUME RelayerInv, wait_for_confirmation
    PROVE  RelayerInv'
<1>0. /\ UNCHANGED <<chain_vars, at, todo, read, next_nonce, signed, cursor, settled,
                     sent, refused, restarts>>
      /\ pc = "confirm" /\ pc' = "submit" /\ back' = "block"
      /\ disk' = [disk EXCEPT !.pending = observed']
    BY DEF wait_for_confirmation
<1>1. PICK r \in at : observed' = [observed EXCEPT ![r].verified = TRUE]
    BY DEF wait_for_confirmation
<1>2. PICK p : p = [observed[r] EXCEPT !.verified = TRUE]
    OBVIOUS
<1>3. ASSUME r \in DOMAIN observed
      PROVE  p \in Pending /\ \A t \in p.submitted : t.request = r
    <2>1. observed[r] \in Pending /\ \A t \in observed[r].submitted : t.request = r
        BY <1>3 DEF RelayerInv, Shapes, Entries
    <2>2. p = [verified |-> TRUE, submitted |-> observed[r].submitted]
        BY <1>2, <2>1 DEF Pending
    <2> QED
        BY <2>1, <2>2 DEF Pending
<1>4. observed' = [observed EXCEPT ![r] = p]
    BY <1>1, <1>2
<1>5. /\ Entries(observed') /\ DOMAIN observed' = DOMAIN observed
      /\ disk' = [cursor |-> disk.cursor, pending |-> observed']
      /\ disk'.cursor = disk.cursor /\ disk'.pending = observed'
      /\ DOMAIN disk'.pending = DOMAIN disk.pending
      /\ Files'
    BY <1>0, <1>3, <1>4, EntryWritten
<1>6. TypeOK'
    BY <1>0, <1>5, EntriesTyped DEF RelayerInv, TypeOK, chain_vars
<1>7. Shapes'
    BY <1>0, <1>5 DEF RelayerInv, Shapes, Points, chain_vars
<1>8. (Reaping /\ Signing /\ Acting)'
    BY <1>0 DEF Reaping, Signing, Acting
<1>9. InBlock'
    BY <1>0, <1>5 DEF RelayerInv, InBlock, OnRequest, Known, HasFinalResult, chain_vars
<1>10. Accounted'
    BY <1>0, <1>5 DEF RelayerInv, Accounted, NoBlindResend, Known, HasFinalResult, chain_vars
<1> QED
    BY <1>5, <1>6, <1>7, <1>8, <1>9, <1>10 DEF RelayerInv

\* Every other failure keeps the reservation.
LEMMA FailedStep ==
    ASSUME RelayerInv, NEW permanent \in BOOLEAN, adapter_failed(permanent)
    PROVE  RelayerInv'
<1>0. /\ UNCHANGED <<chain_vars, pass_vars, cursor, sent, refused, restarts, observed>>
      /\ pc \in {"adapter", "confirm"} /\ disk' = [disk EXCEPT !.pending = observed']
    BY DEF adapter_failed, Kept
<1>1. PICK r \in at :
        \/ pc' = "block" /\ settled' = settled \union {r}
        \/ pc' = "sleep" /\ settled' = settled
    BY DEF adapter_failed
<1>2. r \in DOMAIN observed /\ r \in Requests
    BY <1>0, <1>1 DEF RelayerInv, InBlock, OnRequest, TypeOK
<1>3. UNCHANGED disk /\ observed = disk.pending /\ cursor = disk.cursor
    BY <1>0 DEF RelayerInv, Shapes, Files
<1>4. TypeOK'
    <2>1. disk = [cursor |-> cursor, pending |-> observed]
        BY <1>3 DEF RelayerInv, Shapes
    <2> QED
        BY <1>0, <1>1, <1>2, <1>3, <2>1 DEF RelayerInv, TypeOK, chain_vars, pass_vars
<1>5. Shapes'
    BY <1>0, <1>1, <1>3 DEF RelayerInv, Shapes, Points, chain_vars, pass_vars
<1>6. Files'
    BY <1>0, <1>1, <1>3 DEF Files
<1>7. (Reaping /\ Signing /\ Acting)'
    BY <1>1 DEF Reaping, Signing, Acting
<1>8. InBlock'
    BY <1>0, <1>1, <1>2 DEF RelayerInv, InBlock, OnRequest, Known, HasFinalResult,
                            chain_vars, pass_vars
<1>9. Accounted'
    BY <1>0, <1>1, <1>2, <1>3 DEF RelayerInv, Accounted, NoBlindResend, Known,
                                  HasFinalResult, chain_vars
<1> QED
    BY <1>4, <1>5, <1>6, <1>7, <1>8, <1>9 DEF RelayerInv

-----------------------------------------------------------------------------
(* Stopping and starting.                                                  *)

\* A crash takes the memory, not the files.
LEMMA CrashStep ==
    ASSUME RelayerInv, crash
    PROVE  RelayerInv'
<1> USE DEF crash, chain_vars
<1>0. Entries(observed')
    BY DEF Entries
<1>1. TypeOK'
    <2>1. DOMAIN observed' = {}
        OBVIOUS
    <2>2. {at', todo', settled'} \subseteq SUBSET Requests /\ signed' \subseteq Tx
        OBVIOUS
    <2>3. read'.height \in 0..finalized' /\ read'.results \subseteq final' /\ cursor' \in 0..MaxHeight
        BY RelayerAssumption DEF RelayerInv, TypeOK
    <2> QED
        BY <2>1, <2>2, <2>3 DEF RelayerInv, TypeOK
<1>2. Shapes'
    BY <1>0 DEF RelayerInv, Shapes, Points
<1>3. Files'
    BY DEF Files
<1>4. (Reaping /\ Signing /\ Acting /\ InBlock)'
    BY DEF Reaping, Signing, Acting, InBlock, OnRequest
<1>5. Accounted'
    <2>1. UNCHANGED <<final, disk, sent, refused>> /\ pc' = "down" /\ settled' = {}
        OBVIOUS
    <2>2. \A r : HasFinalResult(r)' <=> HasFinalResult(r)
        BY <2>1 DEF HasFinalResult
    <2>3. \A r \in settled' : Known(r)'
        BY <2>1
    <2> HIDE DEF crash
    <2> QED
        BY <2>1, <2>2, <2>3 DEF RelayerInv, Accounted, NoBlindResend
<1> QED
    BY <1>1, <1>2, <1>3, <1>4, <1>5 DEF RelayerInv

\* A start reads the files.
LEMMA RunStep ==
    ASSUME RelayerInv, run
    PROVE  RelayerInv'
<1>0. /\ UNCHANGED <<chain_vars, pass_vars, settled, disk, sent, refused, restarts>>
      /\ pc = "down" /\ pc' = "sleep" /\ cursor' = disk.cursor /\ observed' = disk.pending
    BY DEF run
<1>1. Entries(observed') /\ disk = [cursor |-> disk.cursor, pending |-> disk.pending]
    BY <1>0 DEF RelayerInv, Shapes
<1>2. cursor' \in 0..MaxHeight
    BY <1>0, RelayerAssumption DEF RelayerInv, TypeOK
<1>3. TypeOK'
    BY <1>0, <1>1, <1>2, EntriesTyped DEF RelayerInv, TypeOK, chain_vars, pass_vars
<1>4. Shapes'
    BY <1>0, <1>1 DEF RelayerInv, Shapes, Points, chain_vars, pass_vars
<1>5. Files'
    BY <1>0 DEF Files
<1>6. (Reaping /\ Signing /\ Acting /\ InBlock)'
    BY <1>0 DEF Reaping, Signing, Acting, InBlock, OnRequest
<1>7. Accounted'
    <2>1. UNCHANGED <<final, disk, sent, refused>> /\ settled' = {}
        BY <1>0 DEF RelayerInv, Files, chain_vars
    <2>2. \A r : HasFinalResult(r)' <=> HasFinalResult(r)
        BY <2>1 DEF HasFinalResult
    <2>3. \A r \in settled' : Known(r)'
        BY <2>1
    <2> QED
        BY <1>0, <2>1, <2>2, <2>3 DEF RelayerInv, Accounted, NoBlindResend
<1> QED
    BY <1>3, <1>4, <1>5, <1>6, <1>7 DEF RelayerInv

\* Nothing is known and nothing has happened.
LEMMA RelayerInit ==
    ASSUME Init
    PROVE  RelayerInv
<1> USE DEF Init
<1>0. IsFiniteSet({}) /\ MaxHeight \in Nat
    BY FS_EmptySet, RelayerAssumption
<1>1. Entries(observed) /\ Entries(disk.pending)
    BY DEF Entries
<1>2. TypeOK
    BY <1>0 DEF TypeOK
<1>3. Shapes
    BY <1>0, <1>1 DEF Shapes, Points
<1>4. Files
    BY DEF Files
<1>5. Reaping /\ Signing /\ Acting /\ InBlock
    BY DEF Reaping, Signing, Acting, InBlock, OnRequest
<1>6. Accounted
    <2>1. \A r \in Requests : ~(HeightOf[r] <= disk.cursor)
        BY <1>0, RelayerAssumption
    <2> QED
        BY <2>1 DEF Accounted, NoBlindResend
<1> QED
    BY <1>2, <1>3, <1>4, <1>5, <1>6 DEF RelayerInv

\* Every step keeps the invariant.
LEMMA RelayerStep ==
    ASSUME RelayerInv, [Next]_vars
    PROVE  RelayerInv'
<1>1. CASE Chain
    BY <1>1, ChainStep
<1>2. CASE Pass
    BY <1>2, BeginStep, ReapMempoolStep, ReapDoneStep, ResubmitStep, RecordStep, BlockStep,
       CursorStep, RunStep, ReceiptStep, ReserveStep, RevisitStep DEF Pass
<1>3. CASE Adapter
    BY <1>3, SendStep, ConfirmStep, DidNotHappenStep, FailedStep DEF Adapter
<1>4. CASE add_transaction_accepted
    BY <1>4, AcceptedStep
<1>5. CASE add_transaction_refused \/ end_pass
    BY <1>5, ResubmitStep
<1>6. CASE crash
    BY <1>6, CrashStep
<1>7. CASE UNCHANGED vars
    <2>1. /\ UNCHANGED chain_vars /\ UNCHANGED pc /\ UNCHANGED pass_vars
          /\ UNCHANGED store_vars /\ UNCHANGED <<sent, refused, restarts>>
        BY <1>7 DEF vars
    <2>2. (TypeOK /\ Shapes /\ Files)'
        BY <2>1 DEF RelayerInv, TypeOK, Shapes, Files, HasFinalResult, chain_vars, pass_vars,
           store_vars
    <2>3. (Reaping /\ Signing /\ Acting /\ InBlock)'
        BY <2>1 DEF RelayerInv, Reaping, Signing, Acting, InBlock, OnRequest, Known,
           HasFinalResult, chain_vars, pass_vars, store_vars
    <2>4. Accounted'
        BY <2>1 DEF RelayerInv, Accounted, NoBlindResend, Known, HasFinalResult, chain_vars,
           pass_vars, store_vars
    <2> QED
        BY <2>2, <2>3, <2>4 DEF RelayerInv
<1> QED
    BY <1>1, <1>2, <1>3, <1>4, <1>5, <1>6, <1>7 DEF Next

\* The inductive invariant of the worker and its files.
THEOREM WorkerInvariant == Spec => []RelayerInv
BY RelayerInit, RelayerStep, PTL DEF Spec

-----------------------------------------------------------------------------
(* What follows from it.                                                   *)

\* Between two passes the cursor file and the pending-result file hold what
\* the worker has in memory (save_cursor and save_observed in
\* src/src/relayer/worker.rs), so a stop there loses only `settled`; the
\* finalized height is never below the cursor file.
THEOREM FilesInStep == Spec => []TypeOK
<1>1. RelayerInv => TypeOK
    BY DEF RelayerInv
<1> QED
    BY <1>1, WorkerInvariant, PTL

\* A request the cursor file has passed, or whose action was broadcast, is in
\* the pending file, has a final result, or has no adapter: whatever await
\* the process stops at, however many requests and restarts.
THEOREM NeverForgotten == Spec => []NothingForgotten
<1>1. RelayerInv => NothingForgotten
    BY DEF RelayerInv, Accounted, NothingForgotten
<1> QED
    BY <1>1, WorkerInvariant, PTL

\* The reservation that process_relay writes before the adapter acts keeps
\* every retry, timeout and restart from acting a second time before a result
\* of the request is final.
THEOREM NeverSentBlind == Spec => []NoBlindResend
<1>1. RelayerInv => NoBlindResend
    BY DEF RelayerInv, Accounted
<1> QED
    BY <1>1, WorkerInvariant, PTL
=============================================================================
