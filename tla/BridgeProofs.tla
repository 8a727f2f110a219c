---------------------------- MODULE BridgeProofs ----------------------------
(***************************************************************************)
(* Theorems about BridgeState and BridgeSettlement, for every value of     *)
(* their constants, in three parts: the inductive invariant of the bridge  *)
(* (BridgeInv; each of its parts is preserved with the help of the ones    *)
(* before it), the refinement of AssetCustody, and the settlement that a   *)
(* node builds on the bridge.                                              *)
(***************************************************************************)
EXTENDS BridgeSettlement, BridgeCustody, SumTheorems, TLAPS

BridgeInv ==
  BridgeTypeOK /\ ReplayMarkCovers /\ QueuesCoverRows /\ AssetInOnePlace

----------------------------------------------------------------------------
(* Facts about rows and statuses.                                          *)

\* A row's message, and with it its domains and owner, are typed.
LEMMA RowFacts ==
  ASSUME BridgeTypeOK, NEW m \in DOMAIN transfers
  PROVE  /\ m \in MessageId /\ m.dir \in Direction /\ m.nonce \in 0..MaxNonce
         /\ Source(m) \in Domains /\ Target(m) \in Domains
         /\ Source(m) # Target(m) /\ Owner(m) \in Accounts
         /\ transfers[m] \in BridgeTransfer
         /\ transfers[m].asset \in Assets /\ transfers[m].recipient \in Accounts
         /\ transfers[m].amount \in Amounts /\ transfers[m].expiry \in Expiries
         /\ transfers[m].status \in BridgeStatus
         /\ transfers[m].status.kind \in Kinds
         /\ transfers[m].status.domain \in Domains
<1>1. m \in MessageId /\ transfers[m] \in BridgeTransfer
  BY DEF BridgeTypeOK
<1>2. m.dir \in Direction /\ m.nonce \in 0..MaxNonce
  BY <1>1 DEF MessageId
<1>3. transfers[m].status \in BridgeStatus
  BY <1>1 DEF BridgeTransfer
<1> QED
  BY <1>1, <1>2, <1>3
     DEF Direction, BridgeTransfer, BridgeStatus, Source, Target, Owner

\* The five statuses are typed.
LEMMA StatusTypes ==
  ASSUME NEW d \in Domains
  PROVE  /\ Active(d) \in BridgeStatus /\ Locked(d) \in BridgeStatus
         /\ Minted(d) \in BridgeStatus /\ Burned(d) \in BridgeStatus
         /\ Unlocked(d) \in BridgeStatus
BY DEF Active, Locked, Minted, Burned, Unlocked, BridgeStatus, Kinds

\* An Active status has that kind, whatever the domain.
LEMMA ActiveKind == \A d : Active(d).kind = "Active"
BY DEF Active

\* Replacing the status of a row keeps the table typed, and the other rows.
LEMMA StatusUpdate ==
  ASSUME BridgeTypeOK, NEW m \in DOMAIN transfers, NEW s \in BridgeStatus,
         transfers' = [transfers EXCEPT ![m].status = s]
  PROVE  /\ DOMAIN transfers' = DOMAIN transfers
         /\ transfers' \in [DOMAIN transfers -> BridgeTransfer]
         /\ transfers'[m] = [transfers[m] EXCEPT !.status = s]
         /\ transfers'[m].status = s
         /\ transfers'[m].asset = transfers[m].asset
         /\ transfers'[m].expiry = transfers[m].expiry
         /\ transfers'[m].amount = transfers[m].amount
         /\ \A n \in DOMAIN transfers : n # m => transfers'[n] = transfers[n]
<1>1. transfers \in [DOMAIN transfers -> BridgeTransfer]
  BY DEF BridgeTypeOK
<1>2. transfers[m] \in BridgeTransfer
  BY <1>1
<1>3. [transfers[m] EXCEPT !.status = s] \in BridgeTransfer
  BY <1>2 DEF BridgeTransfer
<1> QED
  BY <1>1, <1>2, <1>3 DEF BridgeTransfer

\* Replacing or adding an entry of the asset locations keeps them typed.
LEMMA LocationUpdate ==
  ASSUME BridgeTypeOK, NEW a \in Assets, NEW s \in BridgeStatus,
         asset_locations' = Put(asset_locations, a, s)
  PROVE  /\ DOMAIN asset_locations' = DOMAIN asset_locations \cup {a}
         /\ DOMAIN asset_locations' \subseteq Assets
         /\ asset_locations' \in [DOMAIN asset_locations' -> BridgeStatus]
         /\ asset_locations'[a] = s
         /\ \A b \in DOMAIN asset_locations :
              b # a => asset_locations'[b] = asset_locations[b]
BY DEF BridgeTypeOK, Put

----------------------------------------------------------------------------
(* The sweep.                                                              *)

\* What the sweep leaves: the rows not dropped, released ones Active again.
LEMMA SweepFacts ==
  ASSUME BridgeTypeOK, sweep_expired_locks
  PROVE  /\ DOMAIN transfers' \subseteq DOMAIN transfers
         /\ transfers' \in [DOMAIN transfers' -> BridgeTransfer]
         /\ \A m \in DOMAIN transfers' :
              /\ transfers'[m].asset = transfers[m].asset
              /\ transfers'[m].expiry = transfers[m].expiry
              /\ transfers'[m].amount = transfers[m].amount
              /\ m \in Released =>
                   transfers'[m].status = Active(transfers[m].status.domain)
              /\ m \notin Released => transfers'[m] = transfers[m]
         /\ Released \subseteq DOMAIN transfers
         /\ \A m \in Released : transfers[m].status.kind = "Locked"
<1> DEFINE settled == settled_queue \cup mark_settled(Released)
           kept == DOMAIN transfers \ DroppedRows(settled)
<1>1. transfers' = [m \in kept |-> RowsAfterRelease[m]]
  BY DEF sweep_expired_locks
<1>2. /\ Released \subseteq DOMAIN transfers
      /\ \A m \in Released : transfers[m].status.kind = "Locked"
  BY DEF Released
<1>3. ASSUME NEW m \in DOMAIN transfers
      PROVE  /\ RowsAfterRelease[m] \in BridgeTransfer
             /\ RowsAfterRelease[m].asset = transfers[m].asset
             /\ RowsAfterRelease[m].expiry = transfers[m].expiry
             /\ RowsAfterRelease[m].amount = transfers[m].amount
             /\ m \in Released =>
                  RowsAfterRelease[m].status = Active(transfers[m].status.domain)
             /\ m \notin Released => RowsAfterRelease[m] = transfers[m]
  <2>1. /\ transfers[m] \in BridgeTransfer
        /\ transfers[m].status.domain \in Domains
    BY RowFacts
  <2>2. Active(transfers[m].status.domain) \in BridgeStatus
    BY <2>1, StatusTypes
  <2> QED
    BY <2>1, <2>2 DEF RowsAfterRelease, BridgeTransfer
<1>4. DOMAIN transfers' = kept
  BY <1>1
<1>5. \A m \in kept : transfers'[m] = RowsAfterRelease[m]
  BY <1>1
<1> HIDE DEF kept
<1>6. kept \subseteq DOMAIN transfers
  BY DEF kept
<1>7. transfers' \in [kept -> BridgeTransfer]
  BY <1>1, <1>3, <1>6
<1> QED
  BY <1>2, <1>3, <1>4, <1>5, <1>6, <1>7

----------------------------------------------------------------------------
(* Types.                                                                  *)

\* Every step keeps the state typed.
LEMMA TypeStep ==
  ASSUME BridgeTypeOK, [BridgeNext]_bridgeVars
  PROVE  BridgeTypeOK'
<1> USE BridgeConstants
<1>1. CASE UNCHANGED bridgeVars
  BY <1>1 DEF bridgeVars, BridgeTypeOK
<1>2. ASSUME NEW a \in Assets, NEW d \in Domains, register_asset(a, d)
      PROVE  BridgeTypeOK'
  BY <1>2, StatusTypes DEF BridgeTypeOK, register_asset, Put
<1>3. ASSUME NEW d \in Direction, NEW a \in Assets, NEW r \in Recipients,
             NEW x \in Amounts, NEW e \in Expiries, lock(d, a, r, x, e)
      PROVE  BridgeTypeOK'
  BY <1>3 DEF BridgeTypeOK, lock, Put, Locked, BridgeStatus, Kinds, LockMessage,
     next_nonce, MessageId, BridgeTransfer, ExpiryEntry, QueueEntry, Direction
<1>4. ASSUME NEW m \in DOMAIN transfers, mint(m)
      PROVE  BridgeTypeOK'
  <2>1. m.dir \in Direction /\ m.nonce \in 0..MaxNonce /\ Target(m) \in Domains
        /\ transfers[m].asset \in Assets
    BY RowFacts
  <2>2. Minted(Target(m)) \in BridgeStatus
    BY <2>1, StatusTypes
  <2>3. /\ DOMAIN transfers' = DOMAIN transfers
        /\ transfers' \in [DOMAIN transfers -> BridgeTransfer]
    BY <1>4, <2>2, StatusUpdate DEF mint
  <2>4. /\ DOMAIN asset_locations' \subseteq Assets
        /\ asset_locations' \in [DOMAIN asset_locations' -> BridgeStatus]
    BY <1>4, <2>1, <2>2, LocationUpdate DEF mint
  <2>5. processed_high_water' \in [Direction -> Int]
    BY <1>4, <2>1 DEF mint, mark_processed_at, BridgeTypeOK
  <2> QED
    BY <1>4, <2>3, <2>4, <2>5 DEF mint, BridgeTypeOK
<1>5. ASSUME NEW m \in DOMAIN transfers, NEW d \in Domains,
             burn_with_event(m, d)
      PROVE  BridgeTypeOK'
  <2>1. BurnDirection(m) \in Direction /\ transfers[m].asset \in Assets
    BY RowFacts DEF BurnDirection, Direction
  <2>2. Burned(d) \in BridgeStatus
    BY StatusTypes
  <2>3. /\ DOMAIN transfers' = DOMAIN transfers
        /\ transfers' \in [DOMAIN transfers -> BridgeTransfer]
    BY <1>5, <2>2, StatusUpdate DEF burn_with_event
  <2>4. /\ DOMAIN asset_locations' \subseteq Assets
        /\ asset_locations' \in [DOMAIN asset_locations' -> BridgeStatus]
    BY <1>5, <2>1, <2>2, LocationUpdate DEF burn_with_event
  <2>5. outbound_nonces' \in [Direction -> 0..MaxNonce]
    BY <1>5, <2>1 DEF burn_with_event, next_nonce, BridgeTypeOK
  <2> QED
    BY <1>5, <2>3, <2>4, <2>5 DEF burn_with_event, BridgeTypeOK
<1>6. ASSUME NEW m \in DOMAIN transfers, NEW d \in Domains, unlock(m, d)
      PROVE  BridgeTypeOK'
  <2>1. m \in MessageId /\ Source(m) \in Domains /\ transfers[m].asset \in Assets
    BY RowFacts
  <2>2. Unlocked(Source(m)) \in BridgeStatus /\ Active(Source(m)) \in BridgeStatus
    BY <2>1, StatusTypes
  <2>3. /\ DOMAIN transfers' = DOMAIN transfers
        /\ transfers' \in [DOMAIN transfers -> BridgeTransfer]
    BY <1>6, <2>2, StatusUpdate DEF unlock
  <2>4. /\ DOMAIN asset_locations' \subseteq Assets
        /\ asset_locations' \in [DOMAIN asset_locations' -> BridgeStatus]
    BY <1>6, <2>1, <2>2, LocationUpdate DEF unlock
  <2>5. settled_queue' \subseteq QueueEntry
    BY <1>6, <2>1 DEF unlock, mark_settled, QueueEntry, BridgeTypeOK
  <2> QED
    BY <1>6, <2>3, <2>4, <2>5 DEF unlock, BridgeTypeOK
<1>7. CASE CommitBlock
  <2>1. sweep_expired_locks
    BY <1>7 DEF CommitBlock
  <2>2. /\ DOMAIN transfers' \subseteq MessageId
        /\ transfers' \in [DOMAIN transfers' -> BridgeTransfer]
        /\ Released \subseteq MessageId
    BY <2>1, SweepFacts DEF BridgeTypeOK
  <2>3. \A m \in Released : Active(transfers[m].status.domain) \in BridgeStatus
    BY <2>1, SweepFacts, RowFacts, StatusTypes
  <2>4. /\ DOMAIN asset_locations' = DOMAIN asset_locations
        /\ asset_locations' \in [DOMAIN asset_locations -> BridgeStatus]
    BY <2>1, <2>3 DEF sweep_expired_locks, BridgeTypeOK
  <2>5. expiry_queue' \subseteq QueueEntry /\ settled_queue' \subseteq QueueEntry
    BY <2>1, <2>2 DEF sweep_expired_locks, NotDue, mark_settled, QueueEntry,
                      BridgeTypeOK
  <2>6. UNCHANGED <<outbound_nonces, processed_high_water>>
    BY <2>1 DEF sweep_expired_locks
  <2>7. chain_height' = chain_height + 1
    BY <1>7 DEF CommitBlock
  <2> QED
    BY <2>2, <2>4, <2>5, <2>6, <2>7 DEF BridgeTypeOK
<1> QED
  BY <1>1, <1>2, <1>3, <1>4, <1>5, <1>6, <1>7 DEF BridgeNext

----------------------------------------------------------------------------
(* The replay store.                                                       *)

\* Every step keeps the mark above the minted rows and below the nonces.
LEMMA ReplayStep ==
  ASSUME BridgeTypeOK, ReplayMarkCovers, [BridgeNext]_bridgeVars
  PROVE  ReplayMarkCovers'
<1> USE BridgeConstants
<1>1. CASE UNCHANGED bridgeVars
  BY <1>1 DEF bridgeVars, ReplayMarkCovers, is_processed
<1>2. ASSUME NEW a \in Assets, NEW d \in Domains, register_asset(a, d)
      PROVE  ReplayMarkCovers'
  BY <1>2 DEF ReplayMarkCovers, is_processed, register_asset
<1>3. ASSUME NEW d \in Direction, NEW a \in Assets, NEW r \in Recipients,
             NEW x \in Amounts, NEW e \in Expiries, lock(d, a, r, x, e)
      PROVE  ReplayMarkCovers'
  BY <1>3 DEF BridgeTypeOK, ReplayMarkCovers, is_processed, lock, Put, Locked,
     LockMessage, next_nonce, MessageId
<1>4. ASSUME NEW m \in DOMAIN transfers, mint(m)
      PROVE  ReplayMarkCovers'
  <2>1. m.dir \in Direction /\ m.nonce \in 0..MaxNonce /\ Target(m) \in Domains
        /\ DOMAIN transfers \subseteq MessageId
    BY RowFacts DEF BridgeTypeOK
  <2>2. Minted(Target(m)) \in BridgeStatus
    BY <2>1, StatusTypes
  <2>3. /\ DOMAIN transfers' = DOMAIN transfers
        /\ \A n \in DOMAIN transfers : n # m => transfers'[n] = transfers[n]
    BY <1>4, <2>2, StatusUpdate DEF mint
  <2>4. /\ ~ (m.nonce <= processed_high_water[m.dir])
        /\ processed_high_water' = [processed_high_water EXCEPT ![m.dir] = m.nonce]
        /\ outbound_nonces' = outbound_nonces
    BY <1>4 DEF mint, mark_processed_at, is_processed
  <2>5. \A d \in Direction : processed_high_water'[d] >= processed_high_water[d]
    BY <2>1, <2>4 DEF BridgeTypeOK
  <2>6. \A d \in Direction : processed_high_water'[d] < outbound_nonces'[d]
    BY <2>1, <2>4 DEF ReplayMarkCovers, BridgeTypeOK
  <2>7. \A n \in DOMAIN transfers : n.dir \in Direction /\ n.nonce \in 0..MaxNonce
    BY RowFacts
  <2>8. processed_high_water' \in [Direction -> Int]
    BY <2>1, <2>4 DEF BridgeTypeOK
  <2>9. ASSUME NEW n \in DOMAIN transfers,
               transfers'[n].status.kind \in {"Minted", "Burned", "Unlocked"}
        PROVE  n.nonce <= processed_high_water'[n.dir]
    <3>1. CASE n = m
      BY <2>1, <2>4, <3>1 DEF BridgeTypeOK
    <3>2. CASE n # m
      <4>1. n.nonce <= processed_high_water[n.dir]
        BY <2>3, <2>9, <3>2 DEF ReplayMarkCovers, is_processed
      <4> QED
        BY <4>1, <2>5, <2>7, <2>8 DEF BridgeTypeOK
    <3> QED
      BY <3>1, <3>2
  <2> QED
    BY <2>3, <2>4, <2>6, <2>9 DEF ReplayMarkCovers, is_processed
<1>5. ASSUME NEW m \in DOMAIN transfers, NEW d \in Domains,
             burn_with_event(m, d)
      PROVE  ReplayMarkCovers'
  <2>1. BurnDirection(m) \in Direction /\ Burned(d) \in BridgeStatus
    BY RowFacts, StatusTypes DEF BurnDirection, Direction
  <2>2. /\ DOMAIN transfers' = DOMAIN transfers
        /\ \A n \in DOMAIN transfers : n # m => transfers'[n] = transfers[n]
    BY <1>5, <2>1, StatusUpdate DEF burn_with_event
  <2>3. /\ processed_high_water' = processed_high_water
        /\ \A b \in Direction : outbound_nonces'[b] >= outbound_nonces[b]
        /\ outbound_nonces' \in [Direction -> Int]
    BY <1>5, <2>1 DEF burn_with_event, next_nonce, BridgeTypeOK
  <2>4. transfers[m].status.kind = "Minted"
    BY <1>5 DEF burn_with_event, HasStatus, Minted
  <2>5. \A n \in DOMAIN transfers : n.dir \in Direction /\ n.nonce \in 0..MaxNonce
    BY RowFacts
  <2>6. \A n \in DOMAIN transfers : n.nonce < outbound_nonces'[n.dir]
    BY <2>3, <2>5 DEF ReplayMarkCovers, BridgeTypeOK
  <2>7. \A b \in Direction : processed_high_water'[b] < outbound_nonces'[b]
    BY <2>3 DEF ReplayMarkCovers, BridgeTypeOK
  <2> QED
    BY <2>2, <2>3, <2>4, <2>6, <2>7 DEF ReplayMarkCovers, is_processed
<1>6. ASSUME NEW m \in DOMAIN transfers, NEW d \in Domains, unlock(m, d)
      PROVE  ReplayMarkCovers'
  <2>1. Unlocked(Source(m)) \in BridgeStatus
    BY RowFacts, StatusTypes
  <2>2. /\ DOMAIN transfers' = DOMAIN transfers
        /\ \A n \in DOMAIN transfers : n # m => transfers'[n] = transfers[n]
    BY <1>6, <2>1, StatusUpdate DEF unlock
  <2>3. transfers[m].status.kind = "Burned"
    BY <1>6 DEF unlock, CanUnlock, HasStatus, Burned
  <2> QED
    BY <1>6, <2>2, <2>3 DEF ReplayMarkCovers, is_processed, unlock
<1>7. CASE CommitBlock
  <2>1. sweep_expired_locks
    BY <1>7 DEF CommitBlock
  <2>2. /\ DOMAIN transfers' \subseteq DOMAIN transfers
        /\ \A m \in DOMAIN transfers' :
             /\ m \in Released =>
                  transfers'[m].status = Active(transfers[m].status.domain)
             /\ m \notin Released => transfers'[m] = transfers[m]
    BY <2>1, SweepFacts
  <2>3. UNCHANGED <<outbound_nonces, processed_high_water>>
    BY <2>1 DEF sweep_expired_locks
  <2> QED
    BY <2>2, <2>3, ActiveKind DEF ReplayMarkCovers, is_processed
<1> QED
  BY <1>1, <1>2, <1>3, <1>4, <1>5, <1>6, <1>7 DEF BridgeNext

----------------------------------------------------------------------------
(* The queues.                                                             *)

\* The message of a lock is new: its nonce was not issued before.
LEMMA LockMessageFresh ==
  ASSUME BridgeTypeOK, ReplayMarkCovers, NEW d \in Direction
  PROVE  LockMessage(d) \notin DOMAIN transfers
BY DEF BridgeTypeOK, ReplayMarkCovers, LockMessage, MessageId

\* What the sweep leaves in the settled queue, and which rows it drops.
LEMMA SweepSettled ==
  ASSUME BridgeTypeOK, QueuesCoverRows, sweep_expired_locks
  PROVE  /\ \A m \in DOMAIN transfers' :
              Terminal(transfers'[m].status) =>
                \E h \in 0..chain_height :
                  [height |-> h, id |-> m] \in settled_queue'
         /\ \A q \in settled_queue' :
              /\ q.id \in DOMAIN transfers' /\ Terminal(transfers'[q.id].status)
              /\ \A p \in settled_queue' : p.id = q.id => p = q
         /\ \A m \in DOMAIN transfers \ Released :
              Live(m) => m \in DOMAIN transfers'
<1> DEFINE settled == settled_queue \cup mark_settled(Released)
           kept == DOMAIN transfers \ DroppedRows(settled)
           After(m) == RowsAfterRelease[m].status
<1>1. transfers' = [m \in kept |-> RowsAfterRelease[m]]
  BY DEF sweep_expired_locks
<1>2. settled_queue' = NotDue(settled, cutoff)
  BY DEF sweep_expired_locks
<1>3. ASSUME NEW m \in DOMAIN transfers
      PROVE  /\ m \in Released => Terminal(After(m))
             /\ m \notin Released => After(m) = transfers[m].status
  BY RowFacts DEF RowsAfterRelease, Terminal, Active, BridgeTransfer
<1>4. Released \subseteq DOMAIN transfers
      /\ \A m \in Released : transfers[m].status.kind = "Locked"
  BY DEF Released
<1>5. ASSUME NEW q \in settled
      PROVE  /\ q.id \in DOMAIN transfers /\ Terminal(After(q.id))
             /\ q = [height |-> q.height, id |-> q.id]
             /\ q.height \in Nat
             /\ q \notin settled_queue => q.id \in Released /\ q.height = chain_height
  <2>1. CASE q \in settled_queue
    <3>1. q.id \in DOMAIN transfers /\ Terminal(transfers[q.id].status)
      BY <2>1 DEF QueuesCoverRows
    <3>2. q.id \notin Released
      BY <3>1, <1>4 DEF Terminal
    <3>3. q \in QueueEntry
      BY <2>1 DEF BridgeTypeOK
    <3> QED
      BY <2>1, <3>1, <3>2, <3>3, <1>3 DEF QueueEntry
  <2>2. CASE q \in mark_settled(Released)
    <3>1. q.id \in Released /\ q = [height |-> q.height, id |-> q.id]
          /\ q.height = chain_height
      BY <2>2 DEF mark_settled
    <3>2. chain_height \in Nat
      BY DEF BridgeTypeOK
    <3> QED
      BY <3>1, <3>2, <1>3, <1>4
  <2> QED
    BY <2>1, <2>2
<1>6. ASSUME NEW p \in settled, NEW q \in settled, p.id = q.id
      PROVE  p = q
  <2>1. ASSUME NEW r \in settled_queue PROVE r.id \notin Released
    BY <1>4, <2>1 DEF QueuesCoverRows, Terminal
  <2>2. CASE p \in settled_queue
    <3>1. q \in settled_queue
      BY <1>5, <1>6, <2>1, <2>2
    <3> QED
      BY <1>6, <2>2, <3>1 DEF QueuesCoverRows
  <2>3. CASE p \notin settled_queue
    <3>1. p.id \in Released /\ p.height = chain_height
          /\ p = [height |-> p.height, id |-> p.id]
      BY <1>5, <2>3
    <3>2. q \notin settled_queue
      BY <1>6, <2>1, <3>1
    <3>3. q.height = chain_height /\ q = [height |-> q.height, id |-> q.id]
      BY <1>5, <3>2
    <3> QED
      BY <1>6, <3>1, <3>3
  <2> QED
    BY <2>2, <2>3
<1>7. ASSUME NEW m \in DOMAIN transfers, Terminal(After(m))
      PROVE  \E q \in settled : q.id = m /\ q.height \in 0..chain_height
  <2>1. chain_height \in Nat
    BY DEF BridgeTypeOK
  <2>2. CASE m \in Released
    <3>1. [height |-> chain_height, id |-> m] \in settled
      BY <2>2 DEF mark_settled
    <3> QED
      BY <2>1, <3>1
  <2>3. CASE m \notin Released
    <3>1. Terminal(transfers[m].status)
      BY <1>3, <1>7, <2>3
    <3>2. PICK h \in 0..chain_height : [height |-> h, id |-> m] \in settled_queue
      BY <3>1 DEF QueuesCoverRows
    <3> QED
      BY <3>2
  <2> QED
    BY <2>2, <2>3
<1>8. cutoff \in Int
  BY BridgeConstants DEF cutoff, BridgeTypeOK
<1>9. \A m \in kept : m \in DOMAIN transfers
  OBVIOUS
<1>10. ASSUME NEW m \in DOMAIN transfers
       PROVE  m \notin kept <=>
                Terminal(After(m)) /\ \E q \in settled : q.id = m /\ q.height <= cutoff
  BY DEF DroppedRows, Due
<1>11. \A q : q \in settled_queue' <=> q \in settled /\ q.height > cutoff
  BY <1>2 DEF NotDue
<1>12. DOMAIN transfers' = kept /\ \A m \in kept : transfers'[m].status = After(m)
  BY <1>1
<1> HIDE DEF settled, kept, After
<1>13. ASSUME NEW m \in kept, Terminal(After(m))
       PROVE  \E h \in 0..chain_height : [height |-> h, id |-> m] \in settled_queue'
  <2>1. PICK q \in settled : q.id = m /\ q.height \in 0..chain_height
    BY <1>7, <1>9, <1>13
  <2>2. q.height > cutoff
    BY <1>5, <1>8, <1>9, <1>10, <1>13, <2>1
  <2>3. q = [height |-> q.height, id |-> m] /\ q \in settled_queue'
    BY <1>5, <1>11, <2>1, <2>2
  <2> QED
    BY <2>1, <2>3
<1>14. ASSUME NEW q \in settled_queue'
       PROVE  q.id \in kept /\ Terminal(After(q.id)) /\ q \in settled
  <2>1. q \in settled /\ q.height > cutoff
    BY <1>11
  <2>2. q.id \in DOMAIN transfers /\ Terminal(After(q.id)) /\ q.height \in Nat
    BY <1>5, <2>1
  <2>3. ASSUME NEW p \in settled, p.id = q.id, p.height <= cutoff PROVE FALSE
    <3>1. p = q
      BY <1>6, <2>1, <2>3
    <3> QED
      BY <1>8, <2>1, <2>2, <2>3, <3>1
  <2> QED
    BY <1>10, <2>1, <2>2, <2>3
<1>15. ASSUME NEW m \in DOMAIN transfers \ Released, Live(m)
       PROVE  m \in kept
  <2>1. ~ Terminal(transfers[m].status)
    BY <1>15 DEF Live, Terminal
  <2> QED
    BY <1>3, <1>10, <2>1
<1> QED
  BY <1>6, <1>12, <1>13, <1>14, <1>15

\* Every step keeps the rows covered by the queues.
LEMMA QueuesStep ==
  ASSUME BridgeTypeOK, ReplayMarkCovers, QueuesCoverRows,
         [BridgeNext]_bridgeVars
  PROVE  QueuesCoverRows'
<1> USE BridgeConstants
<1>1. CASE UNCHANGED bridgeVars
  BY <1>1 DEF bridgeVars, QueuesCoverRows
<1>2. ASSUME NEW a \in Assets, NEW d \in Domains, register_asset(a, d)
      PROVE  QueuesCoverRows'
  BY <1>2 DEF QueuesCoverRows, register_asset
<1>3. ASSUME NEW d \in Direction, NEW a \in Assets, NEW r \in Recipients,
             NEW x \in Amounts, NEW e \in Expiries, lock(d, a, r, x, e)
      PROVE  QueuesCoverRows'
  <2> DEFINE m == LockMessage(d)
  <2>1. m \notin DOMAIN transfers
    BY LockMessageFresh
  <2>2. /\ DOMAIN transfers' = DOMAIN transfers \cup {m}
        /\ \A n \in DOMAIN transfers : transfers'[n] = transfers[n]
        /\ transfers'[m].status.kind = "Locked" /\ transfers'[m].expiry = e
    BY <1>3, <2>1 DEF lock, Put, Locked
  <2>3. /\ settled_queue' = settled_queue /\ chain_height' = chain_height
        /\ expiry_queue' = expiry_queue \cup ExpiryEntry(m, e)
    BY <1>3 DEF lock
  <2>4. e > 0 => [height |-> e, id |-> m] \in expiry_queue'
    BY <2>3 DEF ExpiryEntry
  <2>5. ~ Terminal(transfers'[m].status)
    BY <2>2 DEF Terminal
  <2> HIDE DEF m
  <2> QED
    BY <2>1, <2>2, <2>3, <2>4, <2>5 DEF QueuesCoverRows
<1>4. ASSUME NEW m \in DOMAIN transfers, mint(m)
      PROVE  QueuesCoverRows'
  <2>1. Minted(Target(m)) \in BridgeStatus /\ Minted(Target(m)).kind = "Minted"
    BY RowFacts, StatusTypes DEF Minted
  <2>2. /\ DOMAIN transfers' = DOMAIN transfers
        /\ transfers'[m].status = Minted(Target(m))
        /\ \A n \in DOMAIN transfers : n # m => transfers'[n] = transfers[n]
    BY <1>4, <2>1, StatusUpdate DEF mint
  <2>3. UNCHANGED <<expiry_queue, settled_queue, chain_height>>
    BY <1>4 DEF mint
  <2>4. ~ Terminal(transfers[m].status) /\ ~ Terminal(transfers'[m].status)
    BY <1>4, <2>1, <2>2 DEF mint, CanMint, Locked, Terminal
  <2> QED
    BY <2>1, <2>2, <2>3, <2>4 DEF QueuesCoverRows
<1>5. ASSUME NEW m \in DOMAIN transfers, NEW d \in Domains,
             burn_with_event(m, d)
      PROVE  QueuesCoverRows'
  <2>1. Burned(d) \in BridgeStatus /\ Burned(d).kind = "Burned"
    BY StatusTypes DEF Burned
  <2>2. /\ DOMAIN transfers' = DOMAIN transfers
        /\ transfers'[m].status = Burned(d)
        /\ \A n \in DOMAIN transfers : n # m => transfers'[n] = transfers[n]
    BY <1>5, <2>1, StatusUpdate DEF burn_with_event
  <2>3. UNCHANGED <<expiry_queue, settled_queue, chain_height>>
    BY <1>5 DEF burn_with_event
  <2>4. ~ Terminal(transfers[m].status) /\ ~ Terminal(transfers'[m].status)
    BY <1>5, <2>1, <2>2 DEF burn_with_event, HasStatus, Minted, Terminal
  <2> QED
    BY <2>1, <2>2, <2>3, <2>4 DEF QueuesCoverRows
<1>6. ASSUME NEW m \in DOMAIN transfers, NEW d \in Domains, unlock(m, d)
      PROVE  QueuesCoverRows'
  <2> DEFINE entry == [height |-> chain_height, id |-> m]
  <2>1. Unlocked(Source(m)) \in BridgeStatus
        /\ Unlocked(Source(m)).kind = "Unlocked"
    BY RowFacts, StatusTypes DEF Unlocked
  <2>2. /\ DOMAIN transfers' = DOMAIN transfers
        /\ transfers'[m].status = Unlocked(Source(m))
        /\ \A n \in DOMAIN transfers : n # m => transfers'[n] = transfers[n]
    BY <1>6, <2>1, StatusUpdate DEF unlock
  <2>3. /\ UNCHANGED <<expiry_queue, chain_height>>
        /\ settled_queue' = settled_queue \cup {entry}
    BY <1>6 DEF unlock, mark_settled
  <2>4. ~ Terminal(transfers[m].status) /\ Terminal(transfers'[m].status)
    BY <1>6, <2>1, <2>2 DEF unlock, CanUnlock, HasStatus, Burned, Terminal
  <2>5. chain_height \in 0..chain_height /\ entry.id = m
    BY DEF BridgeTypeOK
  <2> HIDE DEF entry
  <2>6. \A q \in settled_queue : q.id \in DOMAIN transfers /\ q.id # m
    BY <2>4 DEF QueuesCoverRows
  <2>7. \E h \in 0..chain_height : [height |-> h, id |-> m] \in settled_queue'
    BY <2>3, <2>5 DEF entry
  <2> QED
    BY <2>1, <2>2, <2>3, <2>4, <2>5, <2>6, <2>7 DEF QueuesCoverRows
<1>7. CASE CommitBlock
  <2>1. sweep_expired_locks /\ chain_height' = chain_height + 1
    BY <1>7 DEF CommitBlock
  <2>2. 0..chain_height \subseteq 0..chain_height'
    BY <2>1 DEF BridgeTypeOK
  <2>3. ASSUME NEW m \in DOMAIN transfers',
               transfers'[m].status.kind = "Locked", transfers'[m].expiry > 0
        PROVE  [height |-> transfers'[m].expiry, id |-> m] \in expiry_queue'
    <3>1. /\ m \in DOMAIN transfers /\ m \notin Released
          /\ transfers'[m] = transfers[m]
      BY <2>1, <2>3, SweepFacts, ActiveKind
    <3>2. [height |-> transfers[m].expiry, id |-> m] \in expiry_queue
      BY <2>3, <3>1 DEF QueuesCoverRows
    <3>3. transfers[m].expiry \in Int /\ chain_height \in Int
      BY <3>1, RowFacts DEF BridgeTypeOK
    <3>4. ~ (transfers[m].expiry <= chain_height)
      BY <2>3, <3>1, <3>2 DEF Released, Due
    <3>5. expiry_queue' = NotDue(expiry_queue, chain_height)
      BY <2>1 DEF sweep_expired_locks
    <3> QED
      BY <3>1, <3>2, <3>3, <3>4, <3>5 DEF NotDue
  <2> QED
    BY <2>1, <2>2, <2>3, SweepSettled DEF QueuesCoverRows
<1> QED
  BY <1>1, <1>2, <1>3, <1>4, <1>5, <1>6, <1>7 DEF BridgeNext

----------------------------------------------------------------------------
(* One asset, one place.                                                   *)

\* Every step keeps each asset in one place.
LEMMA AssetStep ==
  ASSUME BridgeTypeOK, ReplayMarkCovers, QueuesCoverRows, AssetInOnePlace,
         [BridgeNext]_bridgeVars
  PROVE  AssetInOnePlace'
<1> USE BridgeConstants
<1>1. CASE UNCHANGED bridgeVars
  BY <1>1 DEF bridgeVars, AssetInOnePlace, Live
<1>2. ASSUME NEW a \in Assets, NEW d \in Domains, register_asset(a, d)
      PROVE  AssetInOnePlace'
  <2>1. /\ a \notin DOMAIN asset_locations /\ transfers' = transfers
        /\ DOMAIN asset_locations' = DOMAIN asset_locations \cup {a}
        /\ asset_locations'[a].kind = "Active"
        /\ \A b \in DOMAIN asset_locations :
             asset_locations'[b] = asset_locations[b]
    BY <1>2 DEF register_asset, Put, Active
  <2> QED
    BY <2>1 DEF AssetInOnePlace, Live
<1>3. ASSUME NEW d \in Direction, NEW a \in Assets, NEW r \in Recipients,
             NEW x \in Amounts, NEW e \in Expiries, lock(d, a, r, x, e)
      PROVE  AssetInOnePlace'
  <2>0. PICK m : m = LockMessage(d)
    OBVIOUS
  <2>1. m \notin DOMAIN transfers
    BY <2>0, LockMessageFresh
  <2>2. /\ DOMAIN transfers' = DOMAIN transfers \cup {m}
        /\ \A n \in DOMAIN transfers : transfers'[n] = transfers[n]
        /\ transfers'[m].status = Locked(d.source) /\ transfers'[m].asset = a
    BY <1>3, <2>0, <2>1 DEF lock, Put
  <2>3. /\ a \in DOMAIN asset_locations
        /\ asset_locations[a] = Active(d.source)
        /\ asset_locations' = Put(asset_locations, a, Locked(d.source))
    BY <1>3 DEF lock, require_asset_status
  <2>4. /\ DOMAIN asset_locations' = DOMAIN asset_locations
        /\ asset_locations'[a] = Locked(d.source)
        /\ \A b \in DOMAIN asset_locations :
             b # a => asset_locations'[b] = asset_locations[b]
    BY <2>3 DEF Put
  <2>5. asset_locations[a].kind = "Active" /\ Locked(d.source).kind = "Locked"
    BY <2>3 DEF Active, Locked
  <2>6. \A n \in DOMAIN transfers : transfers[n].asset = a => ~ Live(n)
    BY <2>5 DEF AssetInOnePlace, Live
  <2>7. Live(m)'
    BY <2>2, <2>5 DEF Live
  <2>8. \A n \in DOMAIN transfers : Live(n)' <=> Live(n)
    BY <2>2 DEF Live
  <2> QED
    BY <2>1, <2>2, <2>3, <2>4, <2>6, <2>7, <2>8 DEF AssetInOnePlace
<1>4. ASSUME NEW m \in DOMAIN transfers, NEW s \in BridgeStatus, Live(m),
             transfers' = [transfers EXCEPT ![m].status = s],
             asset_locations' = Put(asset_locations, transfers[m].asset, s),
             s.kind \in {"Minted", "Burned"}
      PROVE  AssetInOnePlace'
  <2> DEFINE a == transfers[m].asset
  <2>1. a \in Assets /\ a \in DOMAIN asset_locations
    BY RowFacts DEF AssetInOnePlace
  <2>2. /\ DOMAIN transfers' = DOMAIN transfers
        /\ transfers'[m].status = s /\ transfers'[m].asset = a
        /\ \A n \in DOMAIN transfers : n # m => transfers'[n] = transfers[n]
    BY <1>4, StatusUpdate
  <2>3. /\ DOMAIN asset_locations' = DOMAIN asset_locations
        /\ asset_locations'[a] = s
        /\ \A b \in DOMAIN asset_locations :
             b # a => asset_locations'[b] = asset_locations[b]
    BY <1>4, <2>1, LocationUpdate
  <2>4. \A n \in DOMAIN transfers : Live(n)' <=> Live(n)
    BY <1>4, <2>2 DEF Live
  <2>5. \A n \in DOMAIN transfers : transfers'[n].asset = transfers[n].asset
    BY <2>2
  <2> HIDE DEF a
  <2>6. a = transfers[m].asset
    BY DEF a
  <2> QED
    BY <1>4, <2>1, <2>2, <2>3, <2>4, <2>5, <2>6 DEF AssetInOnePlace
<1>5. ASSUME NEW m \in DOMAIN transfers, mint(m)
      PROVE  AssetInOnePlace'
  <2>1. Minted(Target(m)) \in BridgeStatus /\ Minted(Target(m)).kind = "Minted"
    BY RowFacts, StatusTypes DEF Minted
  <2>2. Live(m)
    BY <1>5 DEF mint, CanMint, Locked, Live
  <2>3. /\ transfers' = [transfers EXCEPT ![m].status = Minted(Target(m))]
        /\ asset_locations' =
             Put(asset_locations, transfers[m].asset, Minted(Target(m)))
    BY <1>5 DEF mint
  <2> QED
    BY <1>4, <2>1, <2>2, <2>3
<1>6. ASSUME NEW m \in DOMAIN transfers, NEW d \in Domains,
             burn_with_event(m, d)
      PROVE  AssetInOnePlace'
  <2>1. Burned(d) \in BridgeStatus /\ Burned(d).kind = "Burned"
    BY StatusTypes DEF Burned
  <2>2. Live(m)
    BY <1>6 DEF burn_with_event, HasStatus, Minted, Live
  <2>3. /\ transfers' = [transfers EXCEPT ![m].status = Burned(d)]
        /\ asset_locations' =
             Put(asset_locations, transfers[m].asset, Burned(d))
    BY <1>6 DEF burn_with_event
  <2> QED
    BY <1>4, <2>1, <2>2, <2>3
<1>7. ASSUME NEW m \in DOMAIN transfers, NEW d \in Domains, unlock(m, d)
      PROVE  AssetInOnePlace'
  <2> DEFINE a == transfers[m].asset
  <2>1. a \in Assets /\ a \in DOMAIN asset_locations
    BY RowFacts DEF AssetInOnePlace
  <2>2. /\ Unlocked(Source(m)) \in BridgeStatus /\ Active(Source(m)) \in BridgeStatus
        /\ Unlocked(Source(m)).kind = "Unlocked" /\ Active(Source(m)).kind = "Active"
    BY RowFacts, StatusTypes DEF Unlocked, Active
  <2>3. /\ DOMAIN transfers' = DOMAIN transfers
        /\ transfers'[m].status = Unlocked(Source(m)) /\ transfers'[m].asset = a
        /\ \A n \in DOMAIN transfers : n # m => transfers'[n] = transfers[n]
    BY <1>7, <2>2, StatusUpdate DEF unlock
  <2>4. /\ DOMAIN asset_locations' = DOMAIN asset_locations
        /\ asset_locations'[a].kind = "Active"
        /\ \A b \in DOMAIN asset_locations :
             b # a => asset_locations'[b] = asset_locations[b]
    BY <1>7, <2>1, <2>2, LocationUpdate, ZenonT(30) DEF unlock
  <2>5. Live(m) /\ ~ Live(m)'
    BY <1>7, <2>2, <2>3 DEF unlock, CanUnlock, HasStatus, Burned, Live
  <2>6. \A n \in DOMAIN transfers : n # m => (Live(n)' <=> Live(n))
    BY <2>3 DEF Live
  <2>7. \A n \in DOMAIN transfers : Live(n)' => transfers[n].asset # a /\ n # m
    BY <2>5, <2>6 DEF AssetInOnePlace
  <2>8. \A n \in DOMAIN transfers : transfers'[n].asset = transfers[n].asset
    BY <2>3
  <2> HIDE DEF a
  <2>9. a = transfers[m].asset
    BY DEF a
  <2> QED
    BY <2>1, <2>3, <2>4, <2>5, <2>6, <2>7, <2>8, <2>9 DEF AssetInOnePlace
<1>8. CASE CommitBlock
  <2>1. sweep_expired_locks
    BY <1>8 DEF CommitBlock
  <2>2. /\ DOMAIN asset_locations' = DOMAIN asset_locations
        /\ \A a \in DOMAIN asset_locations :
             /\ (\E m \in Released : transfers[m].asset = a) =>
                  asset_locations'[a].kind = "Active"
             /\ ~ (\E m \in Released : transfers[m].asset = a) =>
                  asset_locations'[a] = asset_locations[a]
    BY <2>1 DEF sweep_expired_locks, Active
  <2>3. /\ DOMAIN transfers' \subseteq DOMAIN transfers
        /\ \A m \in DOMAIN transfers' :
             /\ transfers'[m].asset = transfers[m].asset
             /\ m \in Released =>
                  transfers'[m].status = Active(transfers[m].status.domain)
             /\ m \notin Released => transfers'[m] = transfers[m]
        /\ Released \subseteq DOMAIN transfers
        /\ \A m \in Released : transfers[m].status.kind = "Locked"
    BY <2>1, SweepFacts
  <2>4. \A m \in Released : Live(m)
    BY <2>3 DEF Live
  <2>5. \A m \in DOMAIN transfers' : Live(m)' <=> Live(m) /\ m \notin Released
    BY <2>3, ActiveKind DEF Live
  <2>6. \A m \in DOMAIN transfers \ Released : Live(m) => m \in DOMAIN transfers'
    BY <2>1, SweepSettled
  <2>7. \A m \in DOMAIN transfers' :
          Live(m)' => ~ \E n \in Released : transfers[n].asset = transfers[m].asset
    BY <2>3, <2>4, <2>5 DEF AssetInOnePlace
  <2>8. \A m, n \in DOMAIN transfers' :
          Live(m)' /\ Live(n)' /\ transfers'[m].asset = transfers'[n].asset => m = n
    BY <2>3, <2>5 DEF AssetInOnePlace
  <2>9. \A m \in DOMAIN transfers' :
          /\ transfers'[m].asset \in DOMAIN asset_locations'
          /\ Live(m)' => asset_locations'[transfers'[m].asset] = transfers'[m].status
    BY <2>2, <2>3, <2>5, <2>7 DEF AssetInOnePlace
  <2>10. ASSUME NEW a \in DOMAIN asset_locations', asset_locations'[a].kind # "Active"
         PROVE  \E m \in DOMAIN transfers' : Live(m)' /\ transfers'[m].asset = a
    <3>1. asset_locations'[a] = asset_locations[a]
          /\ ~ \E m \in Released : transfers[m].asset = a
      BY <2>2, <2>10
    <3>2. PICK m \in DOMAIN transfers : Live(m) /\ transfers[m].asset = a
      BY <2>2, <2>10, <3>1 DEF AssetInOnePlace
    <3> QED
      BY <2>3, <2>5, <2>6, <3>1, <3>2
  <2> QED
    BY <2>8, <2>9, <2>10 DEF AssetInOnePlace
<1> QED
  BY <1>1, <1>2, <1>3, <1>5, <1>6, <1>7, <1>8 DEF BridgeNext

----------------------------------------------------------------------------
(* Two smaller parts of the invariant.                                     *)

\* Nothing settles before block 1, which is what saturating_sub in
\* drop_settled_rows relies on: at height 0 a cutoff of 0 would drop at once.
SettledAfterGenesis ==
  chain_height > 0 /\ \A q \in settled_queue : q.height > 0

\* A Locked row is locked on the source domain of its message.
LockedAtSource ==
  \A m \in DOMAIN transfers :
    transfers[m].status.kind = "Locked" => transfers[m].status.domain = Source(m)

FullInv == BridgeInv /\ SettledAfterGenesis /\ LockedAtSource

\* Every step keeps the settled heights positive.
LEMMA GenesisStep ==
  ASSUME BridgeTypeOK, SettledAfterGenesis, [BridgeNext]_bridgeVars
  PROVE  SettledAfterGenesis'
<1>1. CASE UNCHANGED <<chain_height, settled_queue>>
  BY <1>1 DEF SettledAfterGenesis
<1>2. ASSUME NEW m \in DOMAIN transfers, NEW d \in Domains, unlock(m, d)
      PROVE  SettledAfterGenesis'
  BY <1>2 DEF SettledAfterGenesis, unlock, mark_settled
<1>3. CASE CommitBlock
  <2>1. sweep_expired_locks /\ chain_height' = chain_height + 1
    BY <1>3 DEF CommitBlock
  <2>2. settled_queue' = NotDue(settled_queue \cup mark_settled(Released), cutoff)
    BY <2>1 DEF sweep_expired_locks
  <2>3. \A q \in settled_queue' :
          q \in settled_queue \/ q.height = chain_height
    BY <2>2 DEF NotDue, mark_settled
  <2> QED
    BY <2>1, <2>3 DEF SettledAfterGenesis, BridgeTypeOK
<1> QED
  BY <1>1, <1>2, <1>3 DEF BridgeNext, bridgeVars, register_asset, lock, mint,
                          burn_with_event

\* Every step keeps the Locked rows on their source.
LEMMA SourceStep ==
  ASSUME BridgeTypeOK, ReplayMarkCovers, LockedAtSource, [BridgeNext]_bridgeVars
  PROVE  LockedAtSource'
<1>1. CASE UNCHANGED transfers
  BY <1>1 DEF LockedAtSource
<1>2. ASSUME NEW d \in Direction, NEW a \in Assets, NEW r \in Recipients,
             NEW x \in Amounts, NEW e \in Expiries, lock(d, a, r, x, e)
      PROVE  LockedAtSource'
  <2>1. LockMessage(d) \notin DOMAIN transfers
    BY LockMessageFresh
  <2> QED
    BY <1>2, <2>1 DEF lock, Put, Locked, LockedAtSource, LockMessage, Source
<1>3. ASSUME NEW m \in DOMAIN transfers, NEW s \in BridgeStatus,
             s.kind # "Locked", transfers' = [transfers EXCEPT ![m].status = s]
      PROVE  LockedAtSource'
  BY <1>3, StatusUpdate DEF LockedAtSource
<1>4. ASSUME NEW m \in DOMAIN transfers, mint(m) PROVE LockedAtSource'
  <2>1. Minted(Target(m)) \in BridgeStatus /\ Minted(Target(m)).kind # "Locked"
    BY RowFacts, StatusTypes DEF Minted
  <2> QED
    BY <1>3, <1>4, <2>1 DEF mint
<1>5. ASSUME NEW m \in DOMAIN transfers, NEW d \in Domains,
             burn_with_event(m, d)
      PROVE  LockedAtSource'
  <2>1. Burned(d) \in BridgeStatus /\ Burned(d).kind # "Locked"
    BY StatusTypes DEF Burned
  <2> QED
    BY <1>3, <1>5, <2>1 DEF burn_with_event
<1>6. ASSUME NEW m \in DOMAIN transfers, NEW d \in Domains, unlock(m, d)
      PROVE  LockedAtSource'
  <2>1. Unlocked(Source(m)) \in BridgeStatus /\ Unlocked(Source(m)).kind # "Locked"
    BY RowFacts, StatusTypes DEF Unlocked
  <2> QED
    BY <1>3, <1>6, <2>1 DEF unlock
<1>7. CASE CommitBlock
  <2>1. sweep_expired_locks
    BY <1>7 DEF CommitBlock
  <2> QED
    BY <2>1, SweepFacts, ActiveKind DEF LockedAtSource
<1> QED
  BY <1>1, <1>2, <1>4, <1>5, <1>6, <1>7 DEF BridgeNext, bridgeVars, register_asset

----------------------------------------------------------------------------
(* The invariant.                                                          *)

\* The empty bridge satisfies the invariant.
LEMMA InitInv == BridgeInit => FullInv
<1> SUFFICES ASSUME BridgeInit PROVE FullInv
  OBVIOUS
<1> USE BridgeConstants
<1>1. DOMAIN transfers = {} /\ DOMAIN asset_locations = {}
  BY DEF BridgeInit
<1>2. BridgeTypeOK
  BY <1>1 DEF BridgeInit, BridgeTypeOK
<1>3. ReplayMarkCovers
  BY <1>1 DEF BridgeInit, ReplayMarkCovers
<1>4. QueuesCoverRows /\ AssetInOnePlace /\ SettledAfterGenesis /\ LockedAtSource
  BY <1>1 DEF BridgeInit, QueuesCoverRows, AssetInOnePlace, SettledAfterGenesis,
              LockedAtSource
<1> QED
  BY <1>2, <1>3, <1>4 DEF FullInv, BridgeInv

\* The invariant is inductive.
LEMMA InvStep ==
  ASSUME FullInv, [BridgeNext]_bridgeVars
  PROVE  FullInv'
BY TypeStep, ReplayStep, QueuesStep, AssetStep, GenesisStep, SourceStep
   DEF FullInv, BridgeInv

\* Every reachable state of the bridge satisfies the invariant.
THEOREM BridgeInvariant == BridgeSpec => []FullInv
<1>1. BridgeInit => FullInv
  BY InitInv
<1>2. FullInv /\ [BridgeNext]_bridgeVars => FullInv'
  BY InvStep
<1> QED
  BY <1>1, <1>2, PTL DEF BridgeSpec

\* The bridge's state is always typed.
THEOREM TypeCorrect == BridgeSpec => []BridgeTypeOK
<1>1. FullInv => BridgeTypeOK
  BY DEF FullInv, BridgeInv
<1> QED
  BY <1>1, BridgeInvariant, PTL

\* No sequence of lock, mint, burn, unlock and sweeps puts an asset in two
\* places or loses it.
THEOREM OnePlace == BridgeSpec => []AssetInOnePlace
<1>1. FullInv => AssetInOnePlace
  BY DEF FullInv, BridgeInv
<1> QED
  BY <1>1, BridgeInvariant, PTL

\* Every lock that can expire and every settled row is in its queue.
THEOREM QueuesCover == BridgeSpec => []QueuesCoverRows
<1>1. FullInv => QueuesCoverRows
  BY DEF FullInv, BridgeInv
<1> QED
  BY <1>1, BridgeInvariant, PTL

\* Every minted row is under the replay mark of its direction.
THEOREM ReplayCovered == BridgeSpec => []ReplayMarkCovers
<1>1. FullInv => ReplayMarkCovers
  BY DEF FullInv, BridgeInv
<1> QED
  BY <1>1, BridgeInvariant, PTL

----------------------------------------------------------------------------
(* What no step does.                                                      *)

\* No step moves a replay mark back.
THEOREM MarkRises == BridgeSpec => ReplayMarkRises
<1> DEFINE Rises ==
      \A d \in Direction : processed_high_water'[d] >= processed_high_water[d]
<1>1. ASSUME BridgeTypeOK, [BridgeNext]_bridgeVars PROVE Rises
  <2>1. CASE UNCHANGED processed_high_water
    BY <1>1, <2>1 DEF BridgeTypeOK
  <2>2. ASSUME NEW m \in DOMAIN transfers, mint(m) PROVE Rises
    <3>1. m.dir \in Direction /\ m.nonce \in 0..MaxNonce
      BY <1>1, RowFacts
    <3> QED
      BY <1>1, <2>2, <3>1, BridgeConstants
         DEF BridgeTypeOK, mint, mark_processed_at, is_processed
  <2>3. CommitBlock => UNCHANGED processed_high_water
    BY DEF CommitBlock, sweep_expired_locks
  <2> QED
    BY <1>1, <2>1, <2>2, <2>3 DEF BridgeNext, bridgeVars, register_asset, lock,
                             burn_with_event, unlock
<1>2. BridgeTypeOK /\ [BridgeNext]_bridgeVars => [Rises]_bridgeVars
  BY <1>1
<1> QED
  BY <1>2, TypeCorrect, PTL DEF BridgeSpec, ReplayMarkRises

\* No step drops a live row, or a settled one before its retention is over.
THEOREM DropsOld == BridgeSpec => DropsOnlyOldHistory
<1> DEFINE Drops ==
      \A m \in DOMAIN transfers \ DOMAIN transfers' :
        \E q \in settled_queue :
          /\ q.id = m /\ q.height + Retention <= chain_height
          /\ Terminal(transfers[m].status)
<1>1. ASSUME FullInv, [BridgeNext]_bridgeVars PROVE Drops
  <2>0. BridgeTypeOK /\ QueuesCoverRows /\ SettledAfterGenesis
    BY <1>1 DEF FullInv, BridgeInv
  <2>1. CASE DOMAIN transfers \subseteq DOMAIN transfers'
    BY <2>1
  <2>2. CASE CommitBlock
    <3> SUFFICES ASSUME NEW m \in DOMAIN transfers, m \notin DOMAIN transfers'
                 PROVE  \E q \in settled_queue :
                          /\ q.id = m /\ q.height + Retention <= chain_height
                          /\ Terminal(transfers[m].status)
      OBVIOUS
    <3> DEFINE settled == settled_queue \cup mark_settled(Released)
    <3>1. sweep_expired_locks
      BY <2>2 DEF CommitBlock
    <3>2. m \in DroppedRows(settled)
      BY <3>1 DEF sweep_expired_locks
    <3>3. PICK q \in settled : q.id = m /\ q.height <= cutoff
      BY <3>2 DEF DroppedRows, Due
    <3>4. /\ chain_height \in Nat /\ chain_height > 0 /\ Retention \in Nat
          /\ Retention > 0
      BY <2>0, BridgeConstants DEF BridgeTypeOK, SettledAfterGenesis
    <3>5. q \in settled_queue
      <4>1. q.height # chain_height
        BY <3>3, <3>4 DEF cutoff
      <4> QED
        BY <3>3, <4>1 DEF mark_settled
    <3>6. q.height \in Nat /\ q.height > 0 /\ Terminal(transfers[m].status)
      BY <2>0, <3>3, <3>5
         DEF BridgeTypeOK, QueueEntry, SettledAfterGenesis, QueuesCoverRows
    <3>7. q.height + Retention <= chain_height
      BY <3>3, <3>4, <3>6 DEF cutoff
    <3> QED
      BY <3>3, <3>5, <3>6, <3>7
  <2> QED
    BY <1>1, <2>1, <2>2 DEF BridgeNext, bridgeVars, register_asset, lock, mint,
                            burn_with_event, unlock, Put
<1>2. FullInv /\ [BridgeNext]_bridgeVars => [Drops]_bridgeVars
  BY <1>1
<1> QED
  BY <1>2, BridgeInvariant, PTL DEF BridgeSpec, DropsOnlyOldHistory

----------------------------------------------------------------------------
(* BridgeState implements AssetCustody.  By AssetInOnePlace the row that   *)
(* holds an asset is unique, so the mapping, which chooses it, has the     *)
(* value of that row; each action then changes the value at one asset      *)
(* only, the sweep at the released ones.                                   *)

(* The value of the mapping, before and after a step.                      *)

\* The mapping at an asset that a row holds.
LEMMA HeldCustody ==
  ASSUME AssetInOnePlace, NEW a \in DOMAIN asset_locations,
         NEW m \in DOMAIN transfers, Holds(m, a)
  PROVE  custodyOf[a] = [place |-> PlaceOf(transfers[m].status.kind),
                         home |-> Source(m), away |-> Target(m)]
<1>1. Holder(a) = m
  BY DEF Holder, Holds, AssetInOnePlace
<1> QED
  BY <1>1 DEF custodyOf

\* The same after a step.
LEMMA HeldCustodyNext ==
  ASSUME AssetInOnePlace', NEW a \in DOMAIN asset_locations',
         NEW m \in DOMAIN transfers', Holds(m, a)'
  PROVE  custodyOf'[a] = [place |-> PlaceOf(transfers'[m].status.kind),
                          home |-> Source(m), away |-> Target(m)]
<1>1. Holder(a)' = m
  BY DEF Holder, Holds, AssetInOnePlace
<1> QED
  BY <1>1 DEF custodyOf

\* The mapping at an asset no row holds.
LEMMA HomeCustody ==
  ASSUME NEW a \in DOMAIN asset_locations,
         ~ \E m \in DOMAIN transfers : Holds(m, a)
  PROVE  custodyOf[a] = Custody!Home(asset_locations[a].domain)
BY DEF custodyOf, Custody!Home

\* The same after a step.
LEMMA HomeCustodyNext ==
  ASSUME NEW a \in DOMAIN asset_locations',
         ~ \E m \in DOMAIN transfers' : Holds(m, a)'
  PROVE  custodyOf'[a] = Custody!Home(asset_locations'[a].domain)
BY DEF custodyOf, Custody!Home

\* The mapping is a function on the registered assets.
LEMMA CustodyDomain ==
  /\ DOMAIN custodyOf = DOMAIN asset_locations
  /\ custodyOf = [a \in DOMAIN asset_locations |-> custodyOf[a]]
BY DEF custodyOf

\* The same after a step.
LEMMA CustodyDomainNext ==
  /\ DOMAIN custodyOf' = DOMAIN asset_locations'
  /\ custodyOf' = [a \in DOMAIN asset_locations' |-> custodyOf'[a]]
BY DEF custodyOf

\* An asset whose location and rows a step leaves alone stays where it is.
LEMMA SameCustody ==
  ASSUME AssetInOnePlace, AssetInOnePlace',
         NEW a \in DOMAIN asset_locations, a \in DOMAIN asset_locations',
         asset_locations'[a] = asset_locations[a],
         \A m : m \in DOMAIN transfers /\ Holds(m, a) <=>
                m \in DOMAIN transfers' /\ Holds(m, a)',
         \A m \in DOMAIN transfers :
            Holds(m, a) => transfers'[m].status = transfers[m].status
  PROVE  custodyOf'[a] = custodyOf[a]
<1>1. CASE \E m \in DOMAIN transfers : Holds(m, a)
  <2>1. PICK m \in DOMAIN transfers : Holds(m, a)
    BY <1>1
  <2>2. m \in DOMAIN transfers' /\ Holds(m, a)'
    BY <2>1
  <2> QED
    BY <2>1, <2>2, HeldCustody, HeldCustodyNext, ZenonT(40)
<1>2. CASE ~ \E m \in DOMAIN transfers : Holds(m, a)
  <2>1. ~ \E m \in DOMAIN transfers' : Holds(m, a)'
    BY <1>2
  <2> QED
    BY <1>2, <2>1, HomeCustody, HomeCustodyNext
<1> QED
  BY <1>1, <1>2

----------------------------------------------------------------------------
(* The steps.                                                              *)

\* An operation gives the live row m status s and its asset location l.
Moves(m, s, l) ==
  /\ Live(m)
  /\ transfers' = [transfers EXCEPT ![m].status = s]
  /\ asset_locations' = Put(asset_locations, transfers[m].asset, l)

\* Such an operation moves that row's asset and no other.
LEMMA OneMoves ==
  ASSUME FullInv, FullInv', NEW m \in DOMAIN transfers, NEW s \in BridgeStatus,
         NEW l \in BridgeStatus, Moves(m, s, l)
  PROVE  LET a == transfers[m].asset
         IN  /\ a \in DOMAIN custodyOf
             /\ custodyOf[a] = [place |-> PlaceOf(transfers[m].status.kind),
                                home |-> Source(m), away |-> Target(m)]
             /\ s.kind \in {"Minted", "Burned"} =>
                  custodyOf' = [custodyOf EXCEPT ![a] =
                     [place |-> PlaceOf(s.kind),
                      home |-> Source(m), away |-> Target(m)]]
             /\ s.kind = "Unlocked" =>
                  custodyOf' = [custodyOf EXCEPT ![a] = Custody!Home(l.domain)]
<1> USE DEF Moves
<1>0. /\ BridgeTypeOK /\ AssetInOnePlace /\ AssetInOnePlace'
  BY DEF FullInv, BridgeInv
<1>1. PICK a : a = transfers[m].asset
  OBVIOUS
<1>2. a \in Assets /\ a \in DOMAIN asset_locations
  BY <1>0, <1>1, RowFacts DEF AssetInOnePlace
<1>3. /\ DOMAIN transfers' = DOMAIN transfers
      /\ transfers'[m].status = s /\ transfers'[m].asset = a
      /\ \A n \in DOMAIN transfers : n # m => transfers'[n] = transfers[n]
  BY <1>0, <1>1, StatusUpdate
<1>4. /\ DOMAIN asset_locations' = DOMAIN asset_locations
      /\ asset_locations'[a] = l
      /\ \A b \in DOMAIN asset_locations :
           b # a => asset_locations'[b] = asset_locations[b]
  BY <1>0, <1>1, <1>2, LocationUpdate
<1>5. Holds(m, a)
  BY <1>1 DEF Holds
<1>6. ASSUME NEW b \in DOMAIN asset_locations, b # a
      PROVE  custodyOf'[b] = custodyOf[b]
  <2>1. \A n : n \in DOMAIN transfers /\ Holds(n, b) <=>
               n \in DOMAIN transfers' /\ Holds(n, b)'
    BY <1>1, <1>3, <1>6 DEF Holds, Live
  <2>2. \A n \in DOMAIN transfers :
          Holds(n, b) => transfers'[n].status = transfers[n].status
    BY <1>1, <1>3, <1>6 DEF Holds
  <2> QED
    BY <1>0, <1>4, <1>6, <2>1, <2>2, SameCustody
<1>7. custodyOf[a] = [place |-> PlaceOf(transfers[m].status.kind),
                      home |-> Source(m), away |-> Target(m)]
  BY <1>0, <1>2, <1>5, HeldCustody
<1>8. ASSUME NEW v, custodyOf'[a] = v
      PROVE  custodyOf' = [custodyOf EXCEPT ![a] = v]
  BY <1>2, <1>4, <1>6, <1>8, CustodyDomain, CustodyDomainNext
<1>9. ASSUME s.kind \in {"Minted", "Burned"}
      PROVE  custodyOf'[a] = [place |-> PlaceOf(s.kind),
                              home |-> Source(m), away |-> Target(m)]
  <2>1. Holds(m, a)'
    BY <1>3, <1>9 DEF Holds, Live
  <2> QED
    BY <1>0, <1>2, <1>3, <1>4, <2>1, HeldCustodyNext
<1>10. ASSUME s.kind = "Unlocked"
       PROVE  custodyOf'[a] = Custody!Home(l.domain)
  <2>1. \A n \in DOMAIN transfers : n # m => ~ Holds(n, a)
    BY <1>0, <1>1 DEF Holds, AssetInOnePlace
  <2>2. ~ Holds(m, a)'
    BY <1>3, <1>10 DEF Holds, Live
  <2>3. \A n \in DOMAIN transfers' : ~ Holds(n, a)'
    BY <1>3, <2>1, <2>2 DEF Holds, Live
  <2> QED
    BY <1>2, <1>4, <2>3, HomeCustodyNext
<1> QED
  BY <1>1, <1>2, <1>7, <1>8, <1>9, <1>10, CustodyDomain

\* Registering an asset registers it at home.
LEMMA RegisterMoves ==
  ASSUME FullInv, FullInv', NEW a \in Assets, NEW d \in Domains,
         register_asset(a, d)
  PROVE  Custody!Register(a, d)
<1>0. AssetInOnePlace /\ AssetInOnePlace'
  BY DEF FullInv, BridgeInv
<1>1. /\ a \notin DOMAIN asset_locations /\ transfers' = transfers
      /\ DOMAIN asset_locations' = DOMAIN asset_locations \cup {a}
      /\ asset_locations'[a] = Active(d)
      /\ \A b \in DOMAIN asset_locations : asset_locations'[b] = asset_locations[b]
  BY DEF register_asset, Put
<1>2. ASSUME NEW b \in DOMAIN asset_locations PROVE custodyOf'[b] = custodyOf[b]
  <2>1. \A n : Holds(n, b) <=> Holds(n, b)'
    BY <1>1 DEF Holds, Live
  <2> QED
    BY <1>0, <1>1, <2>1, SameCustody
<1>3. \A n \in DOMAIN transfers' : ~ Holds(n, a)'
  BY <1>0, <1>1 DEF Holds, AssetInOnePlace
<1>4. custodyOf'[a] = Custody!Home(d)
  BY <1>1, <1>3, HomeCustodyNext DEF Active
<1> QED
  BY <1>1, <1>2, <1>4, CustodyDomain, CustodyDomainNext DEF Custody!Register

\* Locking an asset makes it leave its home for the target.
LEMMA LockMoves ==
  ASSUME FullInv, FullInv', NEW d \in Direction, NEW a \in Assets,
         NEW r \in Recipients, NEW x \in Amounts, NEW e \in Expiries,
         lock(d, a, r, x, e)
  PROVE  a \in DOMAIN custodyOf /\ Custody!Leave(a, d.source, d.target)
<1>0. BridgeTypeOK /\ ReplayMarkCovers /\ AssetInOnePlace /\ AssetInOnePlace'
  BY DEF FullInv, BridgeInv
<1>1. PICK m : m = LockMessage(d)
  OBVIOUS
<1>2. m \notin DOMAIN transfers /\ Source(m) = d.source /\ Target(m) = d.target
  BY <1>0, <1>1, LockMessageFresh DEF LockMessage, Source, Target
<1>3. /\ DOMAIN transfers' = DOMAIN transfers \cup {m}
      /\ \A n \in DOMAIN transfers : transfers'[n] = transfers[n]
      /\ transfers'[m].status = Locked(d.source) /\ transfers'[m].asset = a
  BY <1>1, <1>2 DEF lock, Put
<1>4. /\ a \in DOMAIN asset_locations /\ asset_locations[a] = Active(d.source)
      /\ DOMAIN asset_locations' = DOMAIN asset_locations
      /\ \A b \in DOMAIN asset_locations :
           b # a => asset_locations'[b] = asset_locations[b]
  BY DEF lock, require_asset_status, Put
<1>5. ASSUME NEW b \in DOMAIN asset_locations, b # a
      PROVE  custodyOf'[b] = custodyOf[b]
  <2>1. \A n : n \in DOMAIN transfers /\ Holds(n, b) <=>
               n \in DOMAIN transfers' /\ Holds(n, b)'
    BY <1>2, <1>3, <1>5 DEF Holds, Live
  <2> QED
    BY <1>0, <1>3, <1>4, <1>5, <2>1, SameCustody
<1>6. \A n \in DOMAIN transfers : ~ Holds(n, a)
  BY <1>0, <1>4, ActiveKind DEF Holds, Live, AssetInOnePlace
<1>7. custodyOf[a] = Custody!Home(d.source)
  BY <1>4, <1>6, HomeCustody DEF Active
<1>8. transfers'[m].status.kind = "Locked"
  BY <1>3 DEF Locked
<1>9. Holds(m, a)'
  BY <1>3, <1>8 DEF Holds, Live
<1>10. custodyOf'[a] = Custody!Leaving(d.source, d.target)
  BY <1>0, <1>2, <1>3, <1>4, <1>8, <1>9, HeldCustodyNext
     DEF PlaceOf, Custody!Leaving
<1>11. custodyOf' = [custodyOf EXCEPT ![a] = Custody!Leaving(d.source, d.target)]
  BY <1>4, <1>5, <1>10, CustodyDomain, CustodyDomainNext
<1> QED
  BY <1>4, <1>7, <1>11, CustodyDomain DEF Custody!Leave, Custody!Moved, Direction

\* Minting makes it arrive.
LEMMA MintMoves ==
  ASSUME FullInv, FullInv', NEW m \in DOMAIN transfers, mint(m)
  PROVE  /\ transfers[m].asset \in DOMAIN custodyOf
         /\ Custody!Arrive(transfers[m].asset, Source(m), Target(m))
<1>1. Minted(Target(m)) \in BridgeStatus /\ Minted(Target(m)).kind = "Minted"
  BY RowFacts, StatusTypes DEF FullInv, BridgeInv, Minted
<1>2. transfers[m].status.kind = "Locked"
  BY DEF mint, CanMint, Locked
<1>3. Moves(m, Minted(Target(m)), Minted(Target(m)))
  BY <1>2 DEF mint, Moves, Live
<1> QED
  BY <1>1, <1>2, <1>3, OneMoves
     DEF PlaceOf, Custody!Arrive, Custody!Leaving, Custody!Away, Custody!Moved

\* Burning sends it back.
LEMMA BurnMoves ==
  ASSUME FullInv, FullInv', NEW m \in DOMAIN transfers, NEW d \in Domains,
         burn_with_event(m, d)
  PROVE  /\ transfers[m].asset \in DOMAIN custodyOf
         /\ Custody!Return(transfers[m].asset, Source(m), Target(m))
<1>1. Burned(d) \in BridgeStatus /\ Burned(d).kind = "Burned"
  BY StatusTypes DEF Burned
<1>2. transfers[m].status.kind = "Minted"
  BY DEF burn_with_event, HasStatus, Minted
<1>3. Moves(m, Burned(d), Burned(d))
  BY <1>2 DEF burn_with_event, Moves, Live
<1> QED
  BY <1>1, <1>2, <1>3, OneMoves
     DEF PlaceOf, Custody!Return, Custody!Returning, Custody!Away, Custody!Moved

\* Unlocking brings it home.
LEMMA UnlockMoves ==
  ASSUME FullInv, FullInv', NEW m \in DOMAIN transfers, NEW d \in Domains,
         unlock(m, d)
  PROVE  /\ transfers[m].asset \in DOMAIN custodyOf
         /\ Custody!ComeHome(transfers[m].asset, Source(m), Target(m))
<1>1. /\ Unlocked(Source(m)) \in BridgeStatus /\ Active(Source(m)) \in BridgeStatus
      /\ Unlocked(Source(m)).kind = "Unlocked"
      /\ Active(Source(m)).domain = Source(m)
  BY RowFacts, StatusTypes DEF FullInv, BridgeInv, Unlocked, Active
<1>2. transfers[m].status.kind = "Burned"
  BY DEF unlock, CanUnlock, HasStatus, Burned
<1>3. Moves(m, Unlocked(Source(m)), Active(Source(m)))
  BY <1>2 DEF unlock, Moves, Live
<1> QED
  BY <1>1, <1>2, <1>3, OneMoves
     DEF PlaceOf, Custody!ComeHome, Custody!Returning, Custody!Moved

\* The sweep takes the released assets home and moves no other.
LEMMA SweepMoves ==
  ASSUME FullInv, FullInv', CommitBlock
  PROVE  Custody!Recall({transfers[m].asset : m \in Released})
<1> DEFINE S == {transfers[m].asset : m \in Released}
<1>0. /\ BridgeTypeOK /\ QueuesCoverRows /\ AssetInOnePlace /\ AssetInOnePlace'
      /\ LockedAtSource
  BY DEF FullInv, BridgeInv
<1>1. sweep_expired_locks
  BY DEF CommitBlock
<1>2. /\ DOMAIN transfers' \subseteq DOMAIN transfers
      /\ \A m \in DOMAIN transfers' :
           /\ transfers'[m].asset = transfers[m].asset
           /\ m \in Released =>
                transfers'[m].status = Active(transfers[m].status.domain)
           /\ m \notin Released => transfers'[m] = transfers[m]
      /\ Released \subseteq DOMAIN transfers
      /\ \A m \in Released : transfers[m].status.kind = "Locked"
  BY <1>0, <1>1, SweepFacts
<1>3. \A m \in DOMAIN transfers \ Released : Live(m) => m \in DOMAIN transfers'
  BY <1>0, <1>1, SweepSettled
<1>4. \A m \in Released : Holds(m, transfers[m].asset)
  BY <1>2 DEF Holds, Live
<1>5. S \subseteq DOMAIN asset_locations
  BY <1>0, <1>2 DEF AssetInOnePlace
<1>6. DOMAIN asset_locations' = DOMAIN asset_locations
  BY <1>1 DEF sweep_expired_locks
<1>7. ASSUME NEW a \in S
      PROVE  /\ custodyOf[a].place = "leaving"
             /\ custodyOf'[a] = Custody!Home(custodyOf[a].home)
  <2>1. PICK m \in Released : a = transfers[m].asset
    OBVIOUS
  <2>2. custodyOf[a] = [place |-> "leaving", home |-> Source(m), away |-> Target(m)]
    BY <1>0, <1>2, <1>4, <1>5, <2>1, HeldCustody DEF PlaceOf
  <2>3. \A n \in Released : transfers[n].asset = a => n = m
    BY <1>0, <1>2, <1>4, <2>1 DEF Holds, AssetInOnePlace
  <2>4. (CHOOSE n \in Released : transfers[n].asset = a) = m
    BY <2>1, <2>3
  <2>5. asset_locations'[a] = Active(transfers[m].status.domain)
    BY <1>1, <1>5, <2>1, <2>4 DEF sweep_expired_locks
  <2>6. asset_locations'[a].domain = Source(m)
    BY <1>0, <1>2, <2>5 DEF LockedAtSource, Active
  <2>7. \A n \in DOMAIN transfers' : ~ Holds(n, a)'
    <3>1. \A n \in DOMAIN transfers : n # m => ~ Holds(n, a)
      BY <1>0, <1>2, <1>4, <2>1 DEF Holds, AssetInOnePlace
    <3> QED
      BY <1>2, <3>1, ActiveKind DEF Holds, Live
  <2>8. custodyOf'[a] = Custody!Home(Source(m))
    BY <1>5, <1>6, <2>6, <2>7, HomeCustodyNext
  <2> QED
    BY <2>2, <2>8
<1>8. ASSUME NEW a \in DOMAIN asset_locations, a \notin S
      PROVE  custodyOf'[a] = custodyOf[a]
  <2>1. asset_locations'[a] = asset_locations[a]
    BY <1>1, <1>8 DEF sweep_expired_locks
  <2>2. \A n : n \in DOMAIN transfers /\ Holds(n, a) <=>
               n \in DOMAIN transfers' /\ Holds(n, a)'
    BY <1>2, <1>3, <1>8, ActiveKind DEF Holds, Live
  <2>3. \A n \in DOMAIN transfers :
          Holds(n, a) => transfers'[n].status = transfers[n].status
    BY <1>2, <1>8, <2>2 DEF Holds
  <2> QED
    BY <1>0, <1>6, <2>1, <2>2, <2>3, SameCustody
<1> HIDE DEF S
<1>9. Custody!Recall(S)
  BY <1>5, <1>6, <1>7, <1>8, CustodyDomain, CustodyDomainNext DEF Custody!Recall
<1> QED
  BY <1>9 DEF S

----------------------------------------------------------------------------
\* The bridge implements the custody of assets: every lock, mint, burn,
\* unlock, registration and sweep is a step of AssetCustody or moves nothing.
THEOREM CustodyRefined == BridgeSpec => ImplementsCustody
<1>1. BridgeInit => Custody!CustodyInit
  BY CustodyDomain DEF BridgeInit, Custody!CustodyInit
<1>2. ASSUME FullInv, FullInv', [BridgeNext]_bridgeVars
      PROVE  [Custody!CustodyNext]_custodyOf
  <2> USE <1>2
  <2>1. CASE UNCHANGED bridgeVars
    <3>1. custodyOf' = custodyOf
      BY <2>1 DEF bridgeVars, custodyOf, Holds, Holder, Live
    <3> QED
      BY <3>1
  <2>2. ASSUME NEW a \in Assets, NEW d \in Domains, register_asset(a, d)
        PROVE  Custody!CustodyNext
    BY <2>2, RegisterMoves DEF Custody!CustodyNext
  <2>3. ASSUME NEW d \in Direction, NEW a \in Assets, NEW r \in Recipients,
               NEW x \in Amounts, NEW e \in Expiries, lock(d, a, r, x, e)
        PROVE  Custody!CustodyNext
    BY <2>3, LockMoves DEF Custody!CustodyNext, Direction
  <2>4. ASSUME NEW m \in DOMAIN transfers, mint(m)
        PROVE  Custody!CustodyNext
    BY <2>4, MintMoves, RowFacts DEF Custody!CustodyNext, FullInv, BridgeInv
  <2>5. ASSUME NEW m \in DOMAIN transfers, NEW d \in Domains,
               burn_with_event(m, d)
        PROVE  Custody!CustodyNext
    BY <2>5, BurnMoves, RowFacts DEF Custody!CustodyNext, FullInv, BridgeInv
  <2>6. ASSUME NEW m \in DOMAIN transfers, NEW d \in Domains, unlock(m, d)
        PROVE  Custody!CustodyNext
    BY <2>6, UnlockMoves, RowFacts DEF Custody!CustodyNext, FullInv, BridgeInv
  <2>7. CASE CommitBlock
    <3>1. Custody!Recall({transfers[m].asset : m \in Released})
      BY <2>7, SweepMoves
    <3> QED
      BY <3>1 DEF Custody!CustodyNext, Custody!Recall
  <2> QED
    BY <2>1, <2>2, <2>3, <2>4, <2>5, <2>6, <2>7 DEF BridgeNext
<1> QED
  BY <1>1, <1>2, BridgeInvariant, PTL
     DEF BridgeSpec, ImplementsCustody, Custody!CustodySpec

----------------------------------------------------------------------------
(* BridgeSettlement.  Every step of the node, seen at the bridge's         *)
(* variables, is a step of BridgeState or a stutter, so the bridge's       *)
(* invariant carries over; on it rest the ledger of what each transfer     *)
(* took and paid, the relay queue and the value accounted for.             *)

(* The bridge inside the node.                                             *)

\* Every entry point, transaction and block takes a bridge step or none.
LEMMA NodeStepsBridge ==
  ASSUME FullInv, [Next]_vars
  PROVE  [BridgeNext]_bridgeVars
<1>0. BridgeTypeOK
  BY DEF FullInv, BridgeInv
<1>1. CASE UNCHANGED vars
  BY <1>1 DEF vars
<1>2. CASE OperatorCall
  BY <1>2, RowFacts, <1>0 DEF OperatorCall, BridgeNext, register_bridge_asset,
     lock_bridge_transfer, mint_bridge_transfer_from_verified_event,
     MintAndCredit, burn_bridge_transfer_with_event,
     unlock_bridge_transfer_from_verified_event
<1>3. ASSUME NEW id \in DOMAIN pending, NEW r \in Relayers,
             RelayMint(id, r) \/ RelayUnlock(id, r)
      PROVE  [BridgeNext]_bridgeVars
  <2>1. CASE RelayMint(id, r)
    BY <2>1 DEF RelayMint, MintAndCredit, mint, CanMint, BridgeNext
  <2>2. CASE RelayUnlock(id, r)
    <3>1. PICK m : m = pending[id].transfer
      OBVIOUS
    <3>2. unlock(m, id.dir.source)
      BY <2>2, <3>1 DEF RelayUnlock
    <3>3. m \in DOMAIN transfers /\ Target(m) = id.dir.source
      BY <3>2 DEF unlock, CanUnlock, HasStatus
    <3>4. id.dir.source \in Domains
      BY <1>0, <3>3, RowFacts
    <3> QED
      BY <3>2, <3>3, <3>4 DEF BridgeNext
  <2> QED
    BY <1>3, <2>1, <2>2
<1>4. ASSUME NEW id \in DOMAIN pending,
             RelayMintRefused(id) \/ RelayUnlockRefused(id)
      PROVE  [BridgeNext]_bridgeVars
  BY <1>4 DEF RelayMintRefused, RelayUnlockRefused, bridgeVars
<1>5. CASE BeginBlock
  BY <1>5 DEF BeginBlock, bridgeVars
<1>6. CASE Transaction
  BY <1>6, RowFacts, <1>0 DEF Transaction, ResultMint, MintAndCredit,
     ResultUnlock, ChangeMinFee, BridgeNext, bridgeVars
<1>7. CASE EndBlock
  BY <1>7 DEF EndBlock, BridgeNext
<1> QED
  BY <1>1, <1>2, <1>3, <1>4, <1>5, <1>6, <1>7 DEF Next, submit_relay_proof

\* The bridge's invariant holds in the node.
THEOREM NodeInvariant == Spec => []FullInv
<1>1. Init => FullInv
  BY InitInv DEF Init
<1>2. FullInv /\ [Next]_vars => FullInv'
  BY NodeStepsBridge, InvStep
<1> QED
  BY <1>1, <1>2, PTL DEF Spec

\* However operator calls, relays, transactions and blocks interleave, an
\* asset is in one place.
THEOREM NodeOnePlace == Spec => []AssetInOnePlace
<1>1. FullInv => AssetInOnePlace
  BY DEF FullInv, BridgeInv
<1> QED
  BY <1>1, NodeInvariant, PTL

----------------------------------------------------------------------------
(* The ledger of a transfer.                                               *)

\* What the ledger says of a message not issued yet and of a live row.
LedgerAgrees(m) ==
  /\ outbound_nonces[m.dir] <= m.nonce =>
       ledger[m] = [locked |-> 0, mint |-> 0, refund |-> 0, unlock |-> 0]
  /\ m \in DOMAIN transfers =>
       /\ transfers[m].status.kind = "Locked" =>
            ledger[m] = [locked |-> transfers[m].amount, mint |-> 0,
                         refund |-> 0, unlock |-> 0]
       /\ transfers[m].status.kind \in {"Minted", "Burned"} =>
            ledger[m] = [locked |-> transfers[m].amount,
                         mint |-> transfers[m].amount,
                         refund |-> 0, unlock |-> 0]

LedgerInv ==
  /\ ledger \in [MessageId -> Entry]
  /\ \A m \in MessageId : LedgerAgrees(m)
  /\ PaidOutOnce

\* A step that leaves the ledger alone and turns no row into one the ledger
\* would contradict keeps it right.
LEMMA LedgerKept ==
  ASSUME LedgerInv, FullInv, UNCHANGED ledger,
         \A d \in Direction : outbound_nonces'[d] >= outbound_nonces[d],
         outbound_nonces' \in [Direction -> 0..MaxNonce],
         \A m \in DOMAIN transfers' :
           /\ m \in DOMAIN transfers
           /\ transfers'[m].amount = transfers[m].amount
           /\ \/ transfers'[m].status.kind = transfers[m].status.kind
              \/ /\ transfers'[m].status.kind = "Burned"
                 /\ transfers[m].status.kind = "Minted"
              \/ transfers'[m].status.kind \in {"Unlocked", "Active"}
  PROVE  LedgerInv'
<1>0. BridgeTypeOK /\ BridgeConstants
  BY BridgeConstants DEF FullInv, BridgeInv
<1>1. \A m \in MessageId : m.dir \in Direction /\ m.nonce \in 0..MaxNonce
  BY DEF MessageId
<1>2. \A m \in MessageId : outbound_nonces'[m.dir] <= m.nonce =>
                             outbound_nonces[m.dir] <= m.nonce
  BY <1>0, <1>1 DEF BridgeTypeOK
<1>3. \A m \in MessageId : LedgerAgrees(m)'
  BY <1>2 DEF LedgerInv, LedgerAgrees
<1> QED
  BY <1>3 DEF LedgerInv, PaidOutOnce

\* A step that changes the ledger and the row of one message keeps the
\* ledger right when it is right for that message.
LEMMA LedgerMoved ==
  ASSUME LedgerInv, FullInv, NEW m \in MessageId, NEW v \in Entry,
         ledger' = [ledger EXCEPT ![m] = v],
         \A d \in Direction : outbound_nonces'[d] >= outbound_nonces[d],
         outbound_nonces' \in [Direction -> 0..MaxNonce],
         \A n \in DOMAIN transfers' :
           n # m => n \in DOMAIN transfers /\ transfers'[n] = transfers[n],
         LedgerAgrees(m)',
         v.mint + v.refund <= v.locked, v.unlock <= v.mint
  PROVE  LedgerInv'
<1>0. BridgeTypeOK /\ BridgeConstants
  BY BridgeConstants DEF FullInv, BridgeInv
<1>1. ledger' \in [MessageId -> Entry] /\ ledger'[m] = v
      /\ \A n \in MessageId : n # m => ledger'[n] = ledger[n]
  BY DEF LedgerInv
<1>2. \A n \in MessageId : outbound_nonces'[n.dir] <= n.nonce =>
                             outbound_nonces[n.dir] <= n.nonce
  <2>1. \A n \in MessageId : n.dir \in Direction /\ n.nonce \in 0..MaxNonce
    BY DEF MessageId
  <2> QED
    BY <1>0, <2>1 DEF BridgeTypeOK
<1>3. ASSUME NEW n \in MessageId, n # m PROVE LedgerAgrees(n)'
  BY <1>1, <1>2, <1>3 DEF LedgerInv, LedgerAgrees
<1>4. PaidOutOnce'
  BY <1>1 DEF LedgerInv, PaidOutOnce
<1> QED
  BY <1>1, <1>3, <1>4 DEF LedgerInv

\* Locking: the message was not issued, so its entry was empty.
LEMMA LockLedger ==
  ASSUME LedgerInv, FullInv, NEW d \in Direction, NEW a \in Assets,
         NEW r \in Recipients, NEW x \in Amounts, NEW e \in Expiries,
         lock_bridge_transfer(d, a, r, x, e)
  PROVE  LedgerInv'
<1>0. BridgeTypeOK /\ ReplayMarkCovers /\ BridgeConstants
  BY BridgeConstants DEF FullInv, BridgeInv
<1>1. lock(d, a, r, x, e) /\ ledger' = [ledger EXCEPT ![LockMessage(d)].locked = x]
  BY DEF lock_bridge_transfer
<1>2. PICK m : m = LockMessage(d)
  OBVIOUS
<1>3. /\ m \in MessageId /\ m \notin DOMAIN transfers
      /\ m.dir = d /\ m.nonce = outbound_nonces[d]
  <2>1. outbound_nonces[d] \in 0..MaxNonce
    BY <1>0 DEF BridgeTypeOK
  <2> QED
    BY <1>0, <1>2, <2>1, LockMessageFresh DEF LockMessage, MessageId
<1>4. /\ outbound_nonces' = [outbound_nonces EXCEPT ![d] = @ + 1]
      /\ outbound_nonces[d] < MaxNonce
  BY <1>1 DEF lock, next_nonce
<1>5. /\ outbound_nonces' \in [Direction -> 0..MaxNonce]
      /\ \A b \in Direction : outbound_nonces'[b] >= outbound_nonces[b]
      /\ ~ (outbound_nonces'[m.dir] <= m.nonce)
  BY <1>0, <1>3, <1>4 DEF BridgeTypeOK
<1>6. /\ DOMAIN transfers' = DOMAIN transfers \cup {m}
      /\ \A n \in DOMAIN transfers : transfers'[n] = transfers[n]
      /\ transfers'[m].status.kind = "Locked" /\ transfers'[m].amount = x
  BY <1>1, <1>2, <1>3 DEF lock, Put, Locked
<1>7. ledger[m] = [locked |-> 0, mint |-> 0, refund |-> 0, unlock |-> 0]
  <2>1. outbound_nonces[m.dir] <= m.nonce
    BY <1>0, <1>3 DEF BridgeTypeOK
  <2> QED
    BY <1>3, <2>1 DEF LedgerInv, LedgerAgrees
<1>8. PICK v : v = [locked |-> x, mint |-> 0, refund |-> 0, unlock |-> 0]
  OBVIOUS
<1>9. v \in Entry /\ v.mint + v.refund <= v.locked /\ v.unlock <= v.mint
  BY <1>0, <1>8 DEF Entry
<1>10. ledger' = [ledger EXCEPT ![m] = v]
  <2>1. [ledger[m] EXCEPT !.locked = x] = v
    BY <1>7, <1>8
  <2>2. ledger' = [ledger EXCEPT ![m] = [ledger[m] EXCEPT !.locked = x]]
    BY <1>1, <1>2
  <2> QED
    BY <2>1, <2>2
<1>11. LedgerAgrees(m)'
  <2>1. ledger'[m] = v
    BY <1>3, <1>10 DEF LedgerInv
  <2> QED
    BY <1>5, <1>6, <1>8, <2>1 DEF LedgerAgrees
<1> QED
  BY <1>3, <1>5, <1>6, <1>9, <1>10, <1>11, LedgerMoved

\* Minting: the row was Locked, so its entry held the amount and no payment.
LEMMA MintLedger ==
  ASSUME LedgerInv, FullInv, NEW m \in DOMAIN transfers, NEW r \in Relayers,
         MintAndCredit(m, r)
  PROVE  LedgerInv'
<1>0. BridgeTypeOK /\ BridgeConstants /\ UNCHANGED outbound_nonces
  BY BridgeConstants DEF FullInv, BridgeInv, MintAndCredit, mint
<1>1. PICK x : x = transfers[m].amount
  OBVIOUS
<1>2. /\ m \in MessageId /\ x \in Nat /\ Minted(Target(m)) \in BridgeStatus
      /\ Minted(Target(m)).kind = "Minted" /\ m.dir \in Direction
      /\ m.nonce \in 0..MaxNonce
  BY <1>0, <1>1, RowFacts, StatusTypes DEF Minted
<1>3. transfers[m].status.kind = "Locked"
  BY DEF MintAndCredit, mint, CanMint, Locked
<1>4. /\ DOMAIN transfers' = DOMAIN transfers
      /\ transfers'[m].status.kind = "Minted" /\ transfers'[m].amount = x
      /\ \A n \in DOMAIN transfers : n # m => transfers'[n] = transfers[n]
  BY <1>0, <1>1, <1>2, StatusUpdate DEF MintAndCredit, mint
<1>5. ledger[m] = [locked |-> x, mint |-> 0, refund |-> 0, unlock |-> 0]
  BY <1>1, <1>2, <1>3 DEF LedgerInv, LedgerAgrees
<1>6. PICK v : v = [locked |-> x, mint |-> x, refund |-> 0, unlock |-> 0]
  OBVIOUS
<1>7. v \in Entry /\ v.mint + v.refund <= v.locked /\ v.unlock <= v.mint
  BY <1>2, <1>6 DEF Entry
<1>8. ledger' = [ledger EXCEPT ![m] = v]
  <2>1. [ledger[m] EXCEPT !.mint = @ + x] = v
    BY <1>2, <1>5, <1>6
  <2>2. ledger' = [ledger EXCEPT ![m] = [ledger[m] EXCEPT !.mint = @ + x]]
    BY <1>1 DEF MintAndCredit
  <2> QED
    BY <2>1, <2>2
<1>9. outbound_nonces' \in [Direction -> 0..MaxNonce]
      /\ \A d \in Direction : outbound_nonces'[d] >= outbound_nonces[d]
  BY <1>0 DEF BridgeTypeOK
<1>10. LedgerAgrees(m)'
  <2>1. ledger'[m] = v
    BY <1>2, <1>8 DEF LedgerInv
  <2>2. ~ (outbound_nonces'[m.dir] <= m.nonce)
    BY <1>0, <1>2 DEF FullInv, BridgeInv, BridgeTypeOK, ReplayMarkCovers
  <2> QED
    BY <1>4, <1>6, <2>1, <2>2 DEF LedgerAgrees
<1> QED
  BY <1>2, <1>4, <1>7, <1>8, <1>9, <1>10, LedgerMoved

\* Unlocking with payment: the row was Burned, so it had minted the amount
\* and unlocked nothing.
LEMMA UnlockLedger ==
  ASSUME LedgerInv, FullInv, NEW m \in DOMAIN transfers, NEW d \in Domains,
         unlock(m, d),
         ledger' = [ledger EXCEPT ![m].unlock = @ + transfers[m].amount]
  PROVE  LedgerInv'
<1>0. BridgeTypeOK /\ BridgeConstants /\ UNCHANGED outbound_nonces
  BY BridgeConstants DEF FullInv, BridgeInv, unlock
<1>1. PICK x : x = transfers[m].amount
  OBVIOUS
<1>2. /\ m \in MessageId /\ x \in Nat /\ Unlocked(Source(m)) \in BridgeStatus
      /\ Unlocked(Source(m)).kind = "Unlocked" /\ m.dir \in Direction
      /\ m.nonce \in 0..MaxNonce
  BY <1>0, <1>1, RowFacts, StatusTypes DEF Unlocked
<1>3. transfers[m].status.kind = "Burned"
  BY DEF unlock, CanUnlock, HasStatus, Burned
<1>4. /\ DOMAIN transfers' = DOMAIN transfers
      /\ transfers'[m].status.kind = "Unlocked"
      /\ \A n \in DOMAIN transfers : n # m => transfers'[n] = transfers[n]
  BY <1>0, <1>2, StatusUpdate DEF unlock
<1>5. ledger[m] = [locked |-> x, mint |-> x, refund |-> 0, unlock |-> 0]
  BY <1>1, <1>2, <1>3 DEF LedgerInv, LedgerAgrees
<1>6. PICK v : v = [locked |-> x, mint |-> x, refund |-> 0, unlock |-> x]
  OBVIOUS
<1>7. v \in Entry /\ v.mint + v.refund <= v.locked /\ v.unlock <= v.mint
  BY <1>2, <1>6 DEF Entry
<1>8. ledger' = [ledger EXCEPT ![m] = v]
  <2>1. [ledger[m] EXCEPT !.unlock = @ + x] = v
    BY <1>2, <1>5, <1>6
  <2>2. ledger' = [ledger EXCEPT ![m] = [ledger[m] EXCEPT !.unlock = @ + x]]
    BY <1>1
  <2> QED
    BY <2>1, <2>2
<1>9. outbound_nonces' \in [Direction -> 0..MaxNonce]
      /\ \A b \in Direction : outbound_nonces'[b] >= outbound_nonces[b]
  BY <1>0 DEF BridgeTypeOK
<1>10. LedgerAgrees(m)'
  <2>1. ~ (outbound_nonces'[m.dir] <= m.nonce)
    BY <1>0, <1>2 DEF FullInv, BridgeInv, BridgeTypeOK, ReplayMarkCovers
  <2> QED
    BY <1>4, <2>1 DEF LedgerAgrees
<1> QED
  BY <1>2, <1>4, <1>7, <1>8, <1>9, <1>10, LedgerMoved

\* Unlocking without payment, and burning, leave the ledger alone.
LEMMA SilentLedger ==
  ASSUME LedgerInv, FullInv, NEW m \in DOMAIN transfers, NEW d \in Domains,
         unlock(m, d) \/ burn_with_event(m, d), UNCHANGED ledger
  PROVE  LedgerInv'
<1>0. BridgeTypeOK /\ BridgeConstants
  BY BridgeConstants DEF FullInv, BridgeInv
<1>1. CASE unlock(m, d)
  <2>1. Unlocked(Source(m)) \in BridgeStatus /\ Unlocked(Source(m)).kind = "Unlocked"
    BY <1>0, RowFacts, StatusTypes DEF Unlocked
  <2>2. /\ DOMAIN transfers' = DOMAIN transfers
        /\ transfers'[m].status.kind = "Unlocked"
        /\ transfers'[m].amount = transfers[m].amount
        /\ \A n \in DOMAIN transfers : n # m => transfers'[n] = transfers[n]
    BY <1>0, <1>1, <2>1, StatusUpdate DEF unlock
  <2>3. /\ outbound_nonces' \in [Direction -> 0..MaxNonce]
        /\ \A b \in Direction : outbound_nonces'[b] >= outbound_nonces[b]
    BY <1>0, <1>1 DEF unlock, BridgeTypeOK
  <2> QED
    BY <2>2, <2>3, LedgerKept
<1>2. CASE burn_with_event(m, d)
  <2>1. Burned(d) \in BridgeStatus /\ Burned(d).kind = "Burned"
    BY StatusTypes DEF Burned
  <2>2. /\ DOMAIN transfers' = DOMAIN transfers
        /\ transfers'[m].status.kind = "Burned"
        /\ transfers'[m].amount = transfers[m].amount
        /\ \A n \in DOMAIN transfers : n # m => transfers'[n] = transfers[n]
    BY <1>0, <1>2, <2>1, StatusUpdate DEF burn_with_event
  <2>3. transfers[m].status.kind = "Minted"
    BY <1>2 DEF burn_with_event, HasStatus, Minted
  <2>4. BurnDirection(m) \in Direction
    BY <1>0, RowFacts DEF BurnDirection, Direction
  <2>5. /\ outbound_nonces' \in [Direction -> 0..MaxNonce]
        /\ \A b \in Direction : outbound_nonces'[b] >= outbound_nonces[b]
    BY <1>0, <1>2, <2>4 DEF burn_with_event, next_nonce, BridgeTypeOK
  <2> QED
    BY <2>2, <2>3, <2>5, LedgerKept
<1> QED
  BY <1>1, <1>2

\* A block refunds rows that were Locked and had paid nothing.
LEMMA BlockLedger ==
  ASSUME LedgerInv, FullInv, EndBlock
  PROVE  LedgerInv'
<1>0. BridgeTypeOK /\ BridgeConstants /\ ReplayMarkCovers
  BY BridgeConstants DEF FullInv, BridgeInv
<1>1. sweep_expired_locks
  BY DEF EndBlock, CommitBlock
<1>2. /\ DOMAIN transfers' \subseteq DOMAIN transfers
      /\ \A m \in DOMAIN transfers' :
           /\ transfers'[m].amount = transfers[m].amount
           /\ m \in Released =>
                transfers'[m].status = Active(transfers[m].status.domain)
           /\ m \notin Released => transfers'[m] = transfers[m]
      /\ Released \subseteq DOMAIN transfers
      /\ \A m \in Released : transfers[m].status.kind = "Locked"
  BY <1>0, <1>1, SweepFacts
<1>3. UNCHANGED outbound_nonces
  BY <1>1 DEF sweep_expired_locks
<1>4. ledger' = [m \in MessageId |->
                   IF m \in Released
                   THEN [ledger[m] EXCEPT !.refund = @ + transfers[m].amount]
                   ELSE ledger[m]]
  BY DEF EndBlock
<1>5. ASSUME NEW m \in MessageId
      PROVE  /\ ledger'[m] \in Entry
             /\ LedgerAgrees(m)'
             /\ ledger'[m].mint + ledger'[m].refund <= ledger'[m].locked
             /\ ledger'[m].unlock <= ledger'[m].mint
  <2>1. CASE m \in Released
    <3>1. PICK x : x = transfers[m].amount
      OBVIOUS
    <3>2. /\ x \in Nat /\ m.dir \in Direction /\ m.nonce \in 0..MaxNonce
          /\ m \in DOMAIN transfers
      BY <1>0, <1>2, <2>1, <3>1, RowFacts
    <3>3. ledger[m] = [locked |-> x, mint |-> 0, refund |-> 0, unlock |-> 0]
      BY <1>2, <2>1, <3>1, <3>2 DEF LedgerInv, LedgerAgrees
    <3>4. ledger'[m] = [ledger[m] EXCEPT !.refund = @ + x]
      BY <1>4, <2>1, <3>1
    <3>5. ledger'[m] = [locked |-> x, mint |-> 0, refund |-> x, unlock |-> 0]
      BY <3>2, <3>3, <3>4
    <3>6. ~ (outbound_nonces'[m.dir] <= m.nonce)
      BY <1>0, <1>3, <3>2 DEF BridgeTypeOK, ReplayMarkCovers
    <3>7. LedgerAgrees(m)'
      BY <1>2, <2>1, <3>6, ActiveKind DEF LedgerAgrees
    <3> QED
      BY <3>2, <3>5, <3>7 DEF Entry
  <2>2. CASE m \notin Released
    <3>1. ledger'[m] = ledger[m]
      BY <1>4, <2>2
    <3> QED
      BY <1>2, <1>3, <2>2, <3>1 DEF LedgerInv, LedgerAgrees, PaidOutOnce
  <2> QED
    BY <2>1, <2>2
<1>6. ledger' \in [MessageId -> Entry]
  BY <1>4, <1>5
<1> QED
  BY <1>5, <1>6 DEF LedgerInv, PaidOutOnce

\* Every step of the node keeps the ledger right.
LEMMA LedgerStep ==
  ASSUME LedgerInv, FullInv, [Next]_vars
  PROVE  LedgerInv'
<1>0. BridgeTypeOK /\ BridgeConstants
  BY BridgeConstants DEF FullInv, BridgeInv
<1>1. CASE UNCHANGED <<transfers, outbound_nonces, ledger>>
  BY <1>1 DEF LedgerInv, LedgerAgrees, PaidOutOnce
<1>2. CASE OperatorCall
  <2>1. ASSUME NEW m \in DOMAIN transfers, NEW r \in Relayers,
               mint_bridge_transfer_from_verified_event(m, r)
        PROVE  LedgerInv'
    BY <2>1, MintLedger DEF mint_bridge_transfer_from_verified_event
  <2>2. ASSUME NEW m \in DOMAIN transfers, NEW d \in Domains, NEW e \in BurnExpiries,
               burn_bridge_transfer_with_event(m, d, e)
        PROVE  LedgerInv'
    BY <2>2, SilentLedger DEF burn_bridge_transfer_with_event
  <2>3. ASSUME NEW m \in DOMAIN transfers,
               unlock_bridge_transfer_from_verified_event(m)
        PROVE  LedgerInv'
    <3>1. unlock(m, Target(m)) /\ UNCHANGED ledger
      BY <2>3 DEF unlock_bridge_transfer_from_verified_event, settlementVars
    <3> QED
      BY <1>0, <3>1, RowFacts, SilentLedger
  <2>4. ASSUME NEW a \in Assets, NEW d \in Domains, register_bridge_asset(a, d)
        PROVE  LedgerInv'
    BY <1>1, <2>4 DEF register_bridge_asset, register_asset, settlementVars
  <2> QED
    BY <1>2, <2>1, <2>2, <2>3, <2>4, LockLedger DEF OperatorCall
<1>3. ASSUME NEW id \in DOMAIN pending, NEW r \in Relayers, RelayMint(id, r)
      PROVE  LedgerInv'
  BY <1>3, MintLedger DEF RelayMint, MintFunded
<1>4. ASSUME NEW id \in DOMAIN pending, NEW r \in Relayers, RelayUnlock(id, r)
      PROVE  LedgerInv'
  <2>1. PICK m : m = pending[id].transfer
    OBVIOUS
  <2>2. /\ unlock(m, id.dir.source)
        /\ \/ ledger' = [ledger EXCEPT ![m].unlock = @ + transfers[m].amount]
           \/ UNCHANGED ledger
    BY <1>4, <2>1 DEF RelayUnlock
  <2>3. m \in DOMAIN transfers /\ Target(m) = id.dir.source
    BY <2>2 DEF unlock, CanUnlock, HasStatus
  <2>4. id.dir.source \in Domains
    BY <1>0, <2>3, RowFacts
  <2> QED
    BY <2>2, <2>3, <2>4, UnlockLedger, SilentLedger
<1>5. ASSUME NEW id \in DOMAIN pending,
             RelayMintRefused(id) \/ RelayUnlockRefused(id)
      PROVE  LedgerInv'
  BY <1>1, <1>5 DEF RelayMintRefused, RelayUnlockRefused, bridgeVars
<1>6. CASE BeginBlock
  BY <1>1, <1>6 DEF BeginBlock, bridgeVars
<1>7. CASE Transaction
  <2>1. ASSUME NEW m \in DOMAIN transfers, NEW r \in Relayers, ResultMint(m, r)
        PROVE  LedgerInv'
    BY <2>1, MintLedger DEF ResultMint
  <2>2. ASSUME NEW m \in DOMAIN transfers, NEW r \in Relayers, ResultUnlock(m, r)
        PROVE  LedgerInv'
    <3>1. /\ unlock(m, Target(m))
          /\ ledger' = [ledger EXCEPT ![m].unlock = @ + transfers[m].amount]
      BY <2>2 DEF ResultUnlock
    <3>2. Target(m) \in Domains
      BY <1>0, RowFacts
    <3> QED
      BY <3>1, <3>2, UnlockLedger
  <2>3. ASSUME NEW f \in MinFees, ChangeMinFee(f)
        PROVE  LedgerInv'
    BY <1>1, <2>3 DEF ChangeMinFee, bridgeVars
  <2> QED
    BY <1>7, <2>1, <2>2, <2>3 DEF Transaction
<1>8. CASE UNCHANGED vars
  BY <1>1, <1>8 DEF vars, bridgeVars, settlementVars
<1> QED
  BY <1>2, <1>3, <1>4, <1>5, <1>6, <1>7, <1>8, BlockLedger
     DEF Next, submit_relay_proof

\* At genesis nothing was taken or paid.
LEMMA LedgerInit == Init => LedgerInv
<1> SUFFICES ASSUME Init PROVE LedgerInv
  OBVIOUS
<1>1. DOMAIN transfers = {}
  BY DEF Init, BridgeInit
<1>2. ledger = [m \in MessageId |->
                  [locked |-> 0, mint |-> 0, refund |-> 0, unlock |-> 0]]
  BY DEF Init
<1>3. ledger \in [MessageId -> Entry]
  BY <1>2 DEF Entry
<1> QED
  BY <1>1, <1>2, <1>3 DEF LedgerInv, LedgerAgrees, PaidOutOnce

\* A lock is paid out once, by whichever of the operator's mint, a relay, a
\* RelayerResult transaction or the sweep comes first.
THEOREM PaidOnce == Spec => []PaidOutOnce
<1>1. Init => LedgerInv
  BY LedgerInit
<1>2. LedgerInv /\ FullInv /\ [Next]_vars => LedgerInv'
  BY LedgerStep
<1>3. LedgerInv => PaidOutOnce
  BY DEF LedgerInv
<1> QED
  BY <1>1, <1>2, <1>3, NodeInvariant, PTL DEF Spec

----------------------------------------------------------------------------
(* The relay queue.                                                        *)

\* Messages were issued, queued relays were published, recorded relays were
\* published and have left the queue.
RelayInv ==
  /\ messages \subseteq MessageId
  /\ \A id \in messages : id.nonce < outbound_nonces[id.dir]
  /\ DOMAIN pending \subseteq messages
  /\ RecordedRelayLeftQueue

\* Publishing a message not issued before keeps the queue right.
LEMMA PublishStep ==
  ASSUME RelayInv, BridgeTypeOK, NEW d \in Direction, NEW kind, NEW m, NEW e,
         NEW id, id = [dir |-> d, nonce |-> outbound_nonces[d]],
         Publish(id, kind, m, e), next_nonce(d), UNCHANGED relayed
  PROVE  RelayInv'
<1>1. /\ outbound_nonces' = [outbound_nonces EXCEPT ![d] = @ + 1]
      /\ outbound_nonces \in [Direction -> 0..MaxNonce]
  BY DEF next_nonce, BridgeTypeOK
<1>2. id \in MessageId /\ id.dir = d /\ id.nonce = outbound_nonces[d]
  BY <1>1 DEF MessageId
<1>3. id \notin messages
  BY <1>1, <1>2, BridgeConstants DEF RelayInv
<1>4. \A n \in MessageId : n.dir \in Direction /\ n.nonce \in 0..MaxNonce
  BY DEF MessageId
<1>5. \A n \in messages : n.nonce < outbound_nonces'[n.dir]
  BY <1>1, <1>4, BridgeConstants DEF RelayInv
<1>6. id.nonce < outbound_nonces'[id.dir]
  BY <1>1, <1>2, BridgeConstants
<1>7. \/ UNCHANGED <<messages, pending>>
      \/ messages' = messages \cup {id} /\ DOMAIN pending' = DOMAIN pending \cup {id}
  BY DEF Publish, Put
<1> QED
  BY <1>2, <1>3, <1>5, <1>6, <1>7 DEF RelayInv, RecordedRelayLeftQueue

\* Taking a queued relay moves it from the queue to the record.
LEMMA TakeStep ==
  ASSUME RelayInv, NEW id \in DOMAIN pending, TakeRelay(id),
         UNCHANGED <<messages, outbound_nonces>>
  PROVE  RelayInv'
BY DEF RelayInv, TakeRelay, RecordedRelayLeftQueue

\* Every step of the node keeps the relay queue right.
LEMMA RelayStep ==
  ASSUME RelayInv, FullInv, [Next]_vars
  PROVE  RelayInv'
<1>0. BridgeTypeOK
  BY DEF FullInv, BridgeInv
<1>1. CASE UNCHANGED <<outbound_nonces, messages, pending, relayed>>
  BY <1>1 DEF RelayInv, RecordedRelayLeftQueue
<1>2. CASE OperatorCall
  <2>1. ASSUME NEW d \in Direction, NEW a \in Assets, NEW r \in Recipients,
               NEW x \in Amounts, NEW e \in Expiries,
               lock_bridge_transfer(d, a, r, x, e)
        PROVE  RelayInv'
    BY <1>0, <2>1, PublishStep DEF lock_bridge_transfer, lock, LockMessage
  <2>2. ASSUME NEW m \in DOMAIN transfers, NEW d \in Domains, NEW e \in BurnExpiries,
               burn_bridge_transfer_with_event(m, d, e)
        PROVE  RelayInv'
    <3>1. BurnDirection(m) \in Direction
      BY <1>0, RowFacts DEF BurnDirection, Direction
    <3>2. /\ Publish(BurnMessage(m), "BridgeBurn", m, e) /\ UNCHANGED relayed
          /\ next_nonce(BurnDirection(m))
      BY <2>2 DEF burn_bridge_transfer_with_event, burn_with_event
    <3> QED
      BY <1>0, <3>1, <3>2, PublishStep DEF BurnMessage
  <2> QED
    BY <1>1, <1>2, <2>1, <2>2 DEF OperatorCall, register_bridge_asset,
       register_asset, mint_bridge_transfer_from_verified_event, MintAndCredit,
       mint, unlock_bridge_transfer_from_verified_event, unlock, settlementVars
<1>3. ASSUME NEW id \in DOMAIN pending, NEW r \in Relayers,
             RelayMint(id, r) \/ RelayUnlock(id, r)
      PROVE  RelayInv'
  BY <1>3, TakeStep DEF RelayMint, MintAndCredit, mint, RelayUnlock, unlock
<1>4. ASSUME NEW id \in DOMAIN pending,
             RelayMintRefused(id) \/ RelayUnlockRefused(id)
      PROVE  RelayInv'
  BY <1>4, TakeStep DEF RelayMintRefused, RelayUnlockRefused, bridgeVars
<1>5. CASE BeginBlock
  BY <1>1, <1>5 DEF BeginBlock, bridgeVars
<1>6. CASE Transaction
  BY <1>1, <1>6 DEF Transaction, ResultMint, MintAndCredit, mint, ResultUnlock,
     unlock, ChangeMinFee, bridgeVars
<1>7. CASE EndBlock
  <2>1. UNCHANGED <<outbound_nonces, messages>>
    BY <1>7 DEF EndBlock, CommitBlock, sweep_expired_locks
  <2>2. DOMAIN pending' \subseteq DOMAIN pending /\ relayed' \subseteq relayed
    BY <1>7 DEF EndBlock, RetireRelays
  <2> QED
    BY <2>1, <2>2 DEF RelayInv, RecordedRelayLeftQueue
<1>8. CASE UNCHANGED vars
  BY <1>1, <1>8 DEF vars, bridgeVars, settlementVars
<1> QED
  BY <1>2, <1>3, <1>4, <1>5, <1>6, <1>7, <1>8 DEF Next, submit_relay_proof

\* At genesis there are no messages and no relays.
LEMMA RelayInit == Init => RelayInv
BY DEF Init, RelayInv, RecordedRelayLeftQueue

\* A relay that was recorded never returns to the queue, though the record
\* itself is dropped after its retention.
THEOREM RecordedLeft == Spec => []RecordedRelayLeftQueue
<1>1. Init => RelayInv
  BY RelayInit
<1>2. RelayInv /\ FullInv /\ [Next]_vars => RelayInv'
  BY RelayStep
<1>3. RelayInv => RecordedRelayLeftQueue
  BY DEF RelayInv
<1> QED
  BY <1>1, <1>2, <1>3, NodeInvariant, PTL DEF Spec

----------------------------------------------------------------------------
(* The relay deadline and the refund.                                      *)

\* An entry of the expiry queue stands at the height its lock asked for, a
\* queued lock relay has the deadline of its row, and one whose lock was
\* given back is past its deadline.
DeadlineInv ==
  /\ \A q \in expiry_queue :
       /\ q.height > 0 /\ q.id.nonce < outbound_nonces[q.id.dir]
       /\ q.id \in DOMAIN transfers => q.height = transfers[q.id].expiry
  /\ \A id \in DOMAIN pending : pending[id].kind = "BridgeLock" =>
       /\ pending[id].expiry \in Nat
       /\ id \in DOMAIN transfers => pending[id].expiry = transfers[id].expiry
       /\ ledger[id].refund > 0 => Expired(pending[id].expiry)

\* A step keeps the deadlines when the rows it leaves keep their expiry and
\* no queue entry, relay, refund or earlier height is new.
LEMMA DeadlineKept ==
  ASSUME DeadlineInv, BridgeTypeOK, RelayInv,
         expiry_queue' \subseteq expiry_queue,
         outbound_nonces' \in [Direction -> 0..MaxNonce],
         \A d \in Direction : outbound_nonces'[d] >= outbound_nonces[d],
         \A m \in DOMAIN transfers' :
           m \in DOMAIN transfers /\ transfers'[m].expiry = transfers[m].expiry,
         \A id \in DOMAIN pending' : pending'[id].kind = "BridgeLock" =>
           id \in DOMAIN pending /\ pending'[id] = pending[id],
         \A m \in MessageId : ledger'[m].refund = ledger[m].refund,
         UNCHANGED chain_height
  PROVE  DeadlineInv'
<1>0. BridgeConstants
  BY BridgeConstants
<1>1. ASSUME NEW q \in expiry_queue'
      PROVE  /\ q.height > 0 /\ q.id.nonce < outbound_nonces'[q.id.dir]
             /\ q.id \in DOMAIN transfers' => q.height = transfers'[q.id].expiry
  <2>1. q \in expiry_queue /\ q \in QueueEntry
    BY DEF BridgeTypeOK
  <2>2. q.id \in MessageId
    BY <2>1 DEF QueueEntry
  <2>3. q.id.dir \in Direction /\ q.id.nonce \in 0..MaxNonce
    BY <2>2 DEF MessageId
  <2>4. outbound_nonces[q.id.dir] \in 0..MaxNonce
    BY <2>3 DEF BridgeTypeOK
  <2>5. q.id.nonce < outbound_nonces[q.id.dir]
    BY <2>1 DEF DeadlineInv
  <2>6. q.id.nonce < outbound_nonces'[q.id.dir]
    BY <1>0, <2>3, <2>4, <2>5
  <2> QED
    BY <2>1, <2>6 DEF DeadlineInv
<1>2. ASSUME NEW id \in DOMAIN pending', pending'[id].kind = "BridgeLock"
      PROVE  /\ pending'[id].expiry \in Nat
             /\ id \in DOMAIN transfers' => pending'[id].expiry = transfers'[id].expiry
             /\ ledger'[id].refund > 0 => Expired(pending[id].expiry)'
  <2>1. id \in DOMAIN pending /\ pending'[id] = pending[id] /\ id \in MessageId
    BY <1>2 DEF RelayInv
  <2> QED
    BY <1>2, <2>1 DEF DeadlineInv, Expired
<1> QED
  BY <1>1, <1>2 DEF DeadlineInv

\* A lock enters the queues with one deadline, and nothing was refunded.
LEMMA DeadlineLock ==
  ASSUME DeadlineInv, FullInv, RelayInv, LedgerInv, NEW d \in Direction,
         NEW a \in Assets, NEW r \in Recipients, NEW x \in Amounts,
         NEW e \in Expiries, lock_bridge_transfer(d, a, r, x, e)
  PROVE  DeadlineInv'
<1>0. BridgeTypeOK /\ ReplayMarkCovers /\ BridgeConstants
  BY BridgeConstants DEF FullInv, BridgeInv
<1>1. PICK m : m = LockMessage(d)
  OBVIOUS
<1>2. outbound_nonces[d] \in 0..MaxNonce
  BY <1>0 DEF BridgeTypeOK
<1>3. /\ m \in MessageId /\ m \notin DOMAIN transfers
      /\ m.dir = d /\ m.nonce = outbound_nonces[d]
  BY <1>0, <1>1, <1>2, LockMessageFresh DEF LockMessage, MessageId
<1>4. m \notin messages /\ m \notin DOMAIN pending
  BY <1>0, <1>2, <1>3 DEF RelayInv
<1>5. ledger[m] = [locked |-> 0, mint |-> 0, refund |-> 0, unlock |-> 0]
  <2>1. outbound_nonces[m.dir] <= m.nonce
    BY <1>0, <1>2, <1>3
  <2> QED
    BY <1>3, <2>1 DEF LedgerInv, LedgerAgrees
<1>6. lock(d, a, r, x, e) /\ e > 0
  BY DEF lock_bridge_transfer
<1>7. /\ outbound_nonces' = [outbound_nonces EXCEPT ![d] = @ + 1]
      /\ outbound_nonces[d] < MaxNonce
      /\ UNCHANGED chain_height
  BY <1>6 DEF lock, next_nonce
<1>8. /\ outbound_nonces' \in [Direction -> 0..MaxNonce]
      /\ \A b \in Direction : outbound_nonces'[b] >= outbound_nonces[b]
      /\ m.nonce < outbound_nonces'[m.dir]
  BY <1>0, <1>3, <1>7 DEF BridgeTypeOK
<1>9. /\ DOMAIN transfers' = DOMAIN transfers \cup {m}
      /\ \A n \in DOMAIN transfers : transfers'[n] = transfers[n]
      /\ transfers'[m].expiry = e
  BY <1>1, <1>3, <1>6 DEF lock, Put
<1>10. expiry_queue' = expiry_queue \cup {[height |-> e, id |-> m]}
  BY <1>1, <1>6 DEF lock, ExpiryEntry
<1>11. ASSUME NEW id \in DOMAIN pending'
       PROVE  \/ id = m /\ pending'[id].expiry = e
              \/ id # m /\ id \in DOMAIN pending /\ pending'[id] = pending[id]
  <2>1. Publish(m, "BridgeLock", m, e)
    BY <1>1 DEF lock_bridge_transfer
  <2> QED
    BY <1>4, <2>1 DEF Publish, Put
<1>12. ledger' = [ledger EXCEPT ![m].locked = x]
  BY <1>1 DEF lock_bridge_transfer
<1>13. \A n \in MessageId : ledger'[n].refund = ledger[n].refund
  BY <1>12 DEF LedgerInv, Entry
<1>14. ASSUME NEW q \in expiry_queue'
       PROVE  /\ q.height > 0 /\ q.id.nonce < outbound_nonces'[q.id.dir]
              /\ q.id \in DOMAIN transfers' => q.height = transfers'[q.id].expiry
  <2>1. CASE q = [height |-> e, id |-> m]
    BY <1>6, <1>8, <1>9, <2>1
  <2>2. CASE q \in expiry_queue
    <3>1. q.id \in MessageId
      BY <1>0, <2>2 DEF BridgeTypeOK, QueueEntry
    <3>2. q.id.dir \in Direction /\ q.id.nonce \in 0..MaxNonce
      BY <3>1 DEF MessageId
    <3>3. outbound_nonces[q.id.dir] \in 0..MaxNonce
      BY <1>0, <3>2 DEF BridgeTypeOK
    <3>4. q.id.nonce < outbound_nonces[q.id.dir]
      BY <2>2 DEF DeadlineInv
    <3>5. q.id # m
      BY <1>0, <1>3, <3>2, <3>3, <3>4
    <3>6. q.id.nonce < outbound_nonces'[q.id.dir]
      BY <1>0, <1>8, <3>2, <3>3, <3>4
    <3> QED
      BY <1>9, <2>2, <3>5, <3>6 DEF DeadlineInv
  <2> QED
    BY <1>10, <2>1, <2>2
<1>15. ASSUME NEW id \in DOMAIN pending', pending'[id].kind = "BridgeLock"
       PROVE  /\ pending'[id].expiry \in Nat
              /\ id \in DOMAIN transfers' => pending'[id].expiry = transfers'[id].expiry
              /\ ledger'[id].refund > 0 => Expired(pending[id].expiry)'
  <2>1. CASE id = m
    <3>1. ledger'[m].refund = 0
      BY <1>3, <1>5, <1>13
    <3> QED
      BY <1>0, <1>4, <1>9, <1>11, <2>1, <3>1
  <2>2. CASE id # m
    <3>1. id \in DOMAIN pending /\ pending'[id] = pending[id] /\ id \in MessageId
      BY <1>11, <2>2 DEF RelayInv
    <3> QED
      BY <1>7, <1>9, <1>13, <1>15, <2>2, <3>1 DEF DeadlineInv, Expired
  <2> QED
    BY <2>1, <2>2
<1> QED
  BY <1>14, <1>15 DEF DeadlineInv

\* The block that gives a lock back is the one at its deadline or later, and
\* the clock then moves past it.
LEMMA DeadlineBlock ==
  ASSUME DeadlineInv, FullInv, RelayInv, LedgerInv, EndBlock
  PROVE  DeadlineInv'
<1>0. BridgeTypeOK /\ BridgeConstants
  BY BridgeConstants DEF FullInv, BridgeInv
<1>1. sweep_expired_locks /\ chain_height' = chain_height + 1 /\ chain_height \in Nat
  BY <1>0 DEF EndBlock, CommitBlock, BridgeTypeOK
<1>2. /\ DOMAIN transfers' \subseteq DOMAIN transfers
      /\ \A m \in DOMAIN transfers' : transfers'[m].expiry = transfers[m].expiry
      /\ Released \subseteq DOMAIN transfers
  BY <1>0, <1>1, SweepFacts
<1>3. UNCHANGED outbound_nonces /\ expiry_queue' \subseteq expiry_queue
  BY <1>1 DEF sweep_expired_locks, NotDue
<1>4. ASSUME NEW m \in Released
      PROVE  transfers[m].expiry > 0 /\ transfers[m].expiry <= chain_height
  <2>1. PICK q \in expiry_queue : q.id = m /\ q.height <= chain_height
    BY DEF Released, Due
  <2> QED
    BY <1>2, <2>1 DEF DeadlineInv
<1>5. \A id \in DOMAIN pending' : id \in DOMAIN pending /\ pending'[id] = pending[id]
  BY DEF EndBlock, RetireRelays
<1>6. \A m \in MessageId : m \notin Released => ledger'[m] = ledger[m]
  BY DEF EndBlock
<1>7. ASSUME NEW id \in DOMAIN pending', pending'[id].kind = "BridgeLock",
             ledger'[id].refund > 0
      PROVE  Expired(pending[id].expiry)'
  <2>1. id \in DOMAIN pending /\ pending'[id] = pending[id] /\ id \in MessageId
    BY <1>5 DEF RelayInv
  <2>2. CASE id \in Released
    <3>1. PICK x : x = transfers[id].expiry
      OBVIOUS
    <3>2. pending[id].expiry = x /\ x \in Nat /\ x > 0 /\ x <= chain_height
      BY <1>0, <1>2, <1>4, <1>7, <2>1, <2>2, <3>1, RowFacts DEF DeadlineInv
    <3> QED
      BY <1>1, <2>1, <3>2 DEF Expired
  <2>3. CASE id \notin Released
    <3>1. Expired(pending[id].expiry)
      BY <1>6, <1>7, <2>1, <2>3 DEF DeadlineInv
    <3>2. PICK x : x = pending[id].expiry
      OBVIOUS
    <3>3. x > 0 /\ chain_height > x
      BY <3>1, <3>2 DEF Expired
    <3>4. x \in Nat
      BY <1>7, <2>1, <3>2 DEF DeadlineInv
    <3> QED
      BY <1>1, <2>1, <3>2, <3>3, <3>4 DEF Expired
  <2> QED
    BY <2>2, <2>3
<1> QED
  BY <1>2, <1>3, <1>5, <1>7 DEF DeadlineInv

\* Every step of the node keeps the deadlines.
LEMMA DeadlineStep ==
  ASSUME DeadlineInv, FullInv, RelayInv, LedgerInv, [Next]_vars
  PROVE  DeadlineInv'
<1>0. BridgeTypeOK /\ BridgeConstants
  BY BridgeConstants DEF FullInv, BridgeInv
<1>n. /\ outbound_nonces \in [Direction -> 0..MaxNonce]
      /\ \A d \in Direction : outbound_nonces[d] >= outbound_nonces[d]
  BY <1>0 DEF BridgeTypeOK
<1>1. CASE UNCHANGED <<bridgeVars, pending, ledger>>
  BY <1>1 DEF DeadlineInv, bridgeVars, Expired
<1>2. ASSUME NEW m \in DOMAIN transfers, mint(m),
             ledger' = [ledger EXCEPT ![m].mint = @ + transfers[m].amount],
             \A id \in DOMAIN pending' :
               id \in DOMAIN pending /\ pending'[id] = pending[id]
      PROVE  DeadlineInv'
  <2>1. Minted(Target(m)) \in BridgeStatus
    BY <1>0, RowFacts, StatusTypes
  <2>2. /\ DOMAIN transfers' = DOMAIN transfers
        /\ transfers'[m].expiry = transfers[m].expiry
        /\ \A n \in DOMAIN transfers : n # m => transfers'[n] = transfers[n]
    BY <1>0, <1>2, <2>1, StatusUpdate DEF mint
  <2>3. UNCHANGED <<expiry_queue, outbound_nonces, chain_height>>
    BY <1>2 DEF mint
  <2>4. \A n \in MessageId : ledger'[n].refund = ledger[n].refund
    BY <1>2 DEF LedgerInv, Entry
  <2> QED
    BY <1>0, <1>n, <1>2, <2>2, <2>3, <2>4, DeadlineKept
<1>3. ASSUME NEW m \in DOMAIN transfers, NEW d \in Domains, unlock(m, d),
             \/ ledger' = [ledger EXCEPT ![m].unlock = @ + transfers[m].amount]
             \/ UNCHANGED ledger,
             \A id \in DOMAIN pending' :
               id \in DOMAIN pending /\ pending'[id] = pending[id]
      PROVE  DeadlineInv'
  <2>1. Unlocked(Source(m)) \in BridgeStatus
    BY <1>0, RowFacts, StatusTypes
  <2>2. /\ DOMAIN transfers' = DOMAIN transfers
        /\ transfers'[m].expiry = transfers[m].expiry
        /\ \A n \in DOMAIN transfers : n # m => transfers'[n] = transfers[n]
    BY <1>0, <1>3, <2>1, StatusUpdate DEF unlock
  <2>3. UNCHANGED <<expiry_queue, outbound_nonces, chain_height>>
    BY <1>3 DEF unlock
  <2>4. \A n \in MessageId : ledger'[n].refund = ledger[n].refund
    BY <1>3 DEF LedgerInv, Entry
  <2> QED
    BY <1>0, <1>n, <1>3, <2>2, <2>3, <2>4, DeadlineKept
<1>4. ASSUME NEW m \in DOMAIN transfers, NEW d \in Domains, NEW e \in BurnExpiries,
             burn_bridge_transfer_with_event(m, d, e)
      PROVE  DeadlineInv'
  <2>0. burn_with_event(m, d) /\ UNCHANGED ledger
    BY <1>4 DEF burn_bridge_transfer_with_event
  <2>1. Burned(d) \in BridgeStatus
    BY StatusTypes
  <2>2. /\ DOMAIN transfers' = DOMAIN transfers
        /\ transfers'[m].expiry = transfers[m].expiry
        /\ \A n \in DOMAIN transfers : n # m => transfers'[n] = transfers[n]
    BY <1>0, <2>0, <2>1, StatusUpdate DEF burn_with_event
  <2>3. UNCHANGED <<expiry_queue, chain_height>>
    BY <2>0 DEF burn_with_event
  <2>4. BurnDirection(m) \in Direction
    BY <1>0, RowFacts DEF BurnDirection, Direction
  <2>5. /\ outbound_nonces' \in [Direction -> 0..MaxNonce]
        /\ \A b \in Direction : outbound_nonces'[b] >= outbound_nonces[b]
    BY <1>0, <2>0, <2>4 DEF burn_with_event, next_nonce, BridgeTypeOK
  <2>6. \A id \in DOMAIN pending' : pending'[id].kind = "BridgeLock" =>
          id \in DOMAIN pending /\ pending'[id] = pending[id]
    BY <1>4 DEF burn_bridge_transfer_with_event, Publish, Put
  <2> QED
    BY <1>0, <2>0, <2>2, <2>3, <2>5, <2>6, DeadlineKept
<1>5. CASE OperatorCall
  <2>1. ASSUME NEW m \in DOMAIN transfers, NEW r \in Relayers,
               mint_bridge_transfer_from_verified_event(m, r)
        PROVE  DeadlineInv'
    BY <1>2, <2>1 DEF mint_bridge_transfer_from_verified_event, MintAndCredit
  <2>2. ASSUME NEW m \in DOMAIN transfers,
               unlock_bridge_transfer_from_verified_event(m)
        PROVE  DeadlineInv'
    <3>1. unlock(m, Target(m)) /\ UNCHANGED <<ledger, pending>> /\ Target(m) \in Domains
      BY <1>0, <2>2, RowFacts DEF unlock_bridge_transfer_from_verified_event, settlementVars
    <3> QED
      BY <1>3, <3>1
  <2>3. ASSUME NEW a \in Assets, NEW d \in Domains, register_bridge_asset(a, d)
        PROVE  DeadlineInv'
    BY <2>3 DEF register_bridge_asset, register_asset, settlementVars, DeadlineInv, Expired
  <2> QED
    BY <1>4, <1>5, <2>1, <2>2, <2>3, DeadlineLock DEF OperatorCall
<1>6. ASSUME NEW id \in DOMAIN pending, NEW r \in Relayers, RelayMint(id, r)
      PROVE  DeadlineInv'
  BY <1>2, <1>6 DEF RelayMint, MintFunded, MintAndCredit, TakeRelay
<1>7. ASSUME NEW id \in DOMAIN pending, NEW r \in Relayers, RelayUnlock(id, r)
      PROVE  DeadlineInv'
  <2>1. PICK m : m = pending[id].transfer
    OBVIOUS
  <2>2. /\ unlock(m, id.dir.source) /\ TakeRelay(id)
        /\ \/ ledger' = [ledger EXCEPT ![m].unlock = @ + transfers[m].amount]
           \/ UNCHANGED ledger
    BY <1>7, <2>1 DEF RelayUnlock
  <2>3. m \in DOMAIN transfers /\ Target(m) = id.dir.source
    BY <2>2 DEF unlock, CanUnlock, HasStatus
  <2>4. id.dir.source \in Domains
    BY <1>0, <2>3, RowFacts
  <2>5. \A i \in DOMAIN pending' : i \in DOMAIN pending /\ pending'[i] = pending[i]
    BY <2>2 DEF TakeRelay
  <2> QED
    BY <1>3, <2>2, <2>3, <2>4, <2>5
<1>8. ASSUME NEW id \in DOMAIN pending,
             RelayMintRefused(id) \/ RelayUnlockRefused(id)
      PROVE  DeadlineInv'
  <2>1. TakeRelay(id) /\ UNCHANGED <<bridgeVars, ledger>>
    BY <1>8 DEF RelayMintRefused, RelayUnlockRefused
  <2>2. \A i \in DOMAIN pending' : i \in DOMAIN pending /\ pending'[i] = pending[i]
    BY <2>1 DEF TakeRelay
  <2> QED
    BY <2>1, <2>2 DEF bridgeVars, DeadlineInv, Expired
<1>9. CASE Transaction
  <2>1. ASSUME NEW m \in DOMAIN transfers, NEW r \in Relayers, ResultMint(m, r)
        PROVE  DeadlineInv'
    BY <1>2, <2>1 DEF ResultMint, MintAndCredit
  <2>2. ASSUME NEW m \in DOMAIN transfers, NEW r \in Relayers, ResultUnlock(m, r)
        PROVE  DeadlineInv'
    <3>1. Target(m) \in Domains
      BY <1>0, RowFacts
    <3> QED
      BY <1>3, <2>2, <3>1 DEF ResultUnlock
  <2>3. ASSUME NEW f \in MinFees, ChangeMinFee(f)
        PROVE  DeadlineInv'
    BY <1>1, <2>3 DEF ChangeMinFee
  <2> QED
    BY <1>9, <2>1, <2>2, <2>3 DEF Transaction
<1>10. CASE BeginBlock
  BY <1>1, <1>10 DEF BeginBlock
<1>11. CASE UNCHANGED vars
  BY <1>1, <1>11 DEF vars, settlementVars
<1> QED
  BY <1>5, <1>6, <1>7, <1>8, <1>9, <1>10, <1>11, DeadlineBlock
     DEF Next, submit_relay_proof

\* At genesis no lock has a deadline.
LEMMA DeadlineInit == Init => DeadlineInv
BY DEF Init, BridgeInit, DeadlineInv

\* A lock that was given back cannot be relayed: while its relay is queued
\* its deadline has passed.
THEOREM RefundedNotRelayable == Spec => []RefundedLockNotRelayable
<1>1. Init => DeadlineInv /\ RelayInv /\ LedgerInv
  BY DeadlineInit, LedgerInit, RelayInit
<1>2. DeadlineInv /\ RelayInv /\ LedgerInv /\ FullInv /\ [Next]_vars
        => (DeadlineInv /\ RelayInv /\ LedgerInv)'
  BY DeadlineStep, RelayStep, LedgerStep
<1>3. DeadlineInv => RefundedLockNotRelayable
  BY DEF DeadlineInv, RefundedLockNotRelayable, Relayable
<1> QED
  BY <1>1, <1>2, <1>3, NodeInvariant, PTL DEF Spec

----------------------------------------------------------------------------
(* The supply.                                                             *)

\* There are finitely many messages, so the sums over them are sums.
LEMMA MessagesFinite == IsFiniteSet(MessageId) /\ IsFiniteSet(Accounts)
<1>0. /\ IsFiniteSet(Domains) /\ IsFiniteSet(Accounts) /\ MaxNonce \in Nat
  BY BridgeConstants
<1> DEFINE Ends == Domains \X Domains
           Legs == Ends \X Accounts
           Nonces == 0..MaxNonce
           AllDirs == [source : Domains, target : Domains, sender : Accounts]
<1>1. IsFiniteSet(Ends) /\ IsFiniteSet(Legs) /\ IsFiniteSet(Nonces)
  <2>1. IsFiniteSet(Ends)
    BY <1>0, FS_Product
  <2>2. IsFiniteSet(Legs)
    BY <1>0, <2>1, FS_Product
  <2>3. IsFiniteSet(Nonces)
    BY <1>0, FS_Interval
  <2> QED
    BY <2>1, <2>2, <2>3
<1>2. IsFiniteSet(AllDirs)
  <2> DEFINE f == [p \in Legs |->
               [source |-> p[1][1], target |-> p[1][2], sender |-> p[2]]]
  <2>1. f \in [Legs -> AllDirs]
    OBVIOUS
  <2>2. ASSUME NEW d \in AllDirs PROVE \E p \in Legs : f[p] = d
    <3>1. <<<<d.source, d.target>>, d.sender>> \in Legs
      OBVIOUS
    <3>2. f[<<<<d.source, d.target>>, d.sender>>] = d
      BY <3>1
    <3> QED
      BY <3>1, <3>2
  <2>3. f \in Surjection(Legs, AllDirs)
    BY <2>1, <2>2 DEF Surjection
  <2> QED
    BY <1>1, <2>3, FS_Surjection
<1>3. IsFiniteSet(Direction)
  BY <1>2, FS_Subset DEF Direction
<1>4. IsFiniteSet(MessageId)
  <2> DEFINE Pairs == Direction \X Nonces
             f == [p \in Pairs |-> [dir |-> p[1], nonce |-> p[2]]]
  <2>1. IsFiniteSet(Pairs)
    BY <1>1, <1>3, FS_Product
  <2>2. f \in [Pairs -> MessageId]
    BY DEF MessageId
  <2>3. ASSUME NEW m \in MessageId PROVE \E p \in Pairs : f[p] = m
    <3>1. <<m.dir, m.nonce>> \in Pairs
      BY DEF MessageId
    <3>2. f[<<m.dir, m.nonce>>] = m
      BY <3>1 DEF MessageId
    <3> QED
      BY <3>1, <3>2
  <2>4. f \in Surjection(Pairs, MessageId)
    BY <2>2, <2>3 DEF Surjection
  <2> QED
    BY <2>1, <2>4, FS_Surjection
<1> QED
  BY <1>0, <1>4

\* The balances are amounts, the fee floor one that governance allows, and
\* every unit is accounted for.
ValueInv ==
  /\ balance \in [Accounts -> Nat]
  /\ min_fee \in MinFees
  /\ ValueAccounted

\* What unlocks have paid so far.
UnlockedTotal == SumFunctionOnSet([m \in MessageId |-> ledger[m].unlock], MessageId)

\* The relayer's share is between nothing and the whole amount.
LEMMA FeeBound ==
  ASSUME NEW x \in Nat, min_fee \in Nat, CoversFee(x)
  PROVE  Fee(x) \in 0..x
<1>1. FeePpm \in Nat /\ FeePpm < 1000000
  BY SettlementConstants
<1>2. PICK p : p = Proportional(x)
  OBVIOUS
<1>3. p \in Nat /\ p <= x
  <2>1. PICK y : y = x * FeePpm
    OBVIOUS
  <2>2. y \in Nat /\ y <= x * 1000000
    <3>1. FeePpm \in Nat /\ 1000000 - FeePpm \in Nat
      BY <1>1
    <3>2. PICK k \in Nat : k = 1000000 - FeePpm
      BY <3>1
    <3>3. x * FeePpm + x * k = x * 1000000
      BY <3>1, <3>2
    <3>4. x * FeePpm \in Nat /\ x * k \in Nat
      BY <3>1, <3>2
    <3> QED
      BY <2>1, <3>3, <3>4
  <2>3. p = y \div 1000000
    BY <1>2, <2>1 DEF Proportional
  <2> QED
    BY <2>2, <2>3
<1>4. PICK S : S = {p, min_fee}
  OBVIOUS
<1>5. Fee(x) = Max(S)
  BY <1>2, <1>4 DEF Fee
<1>6. Max(S) \in S
  <2>1. \E y \in S : \A z \in S : y >= z
    BY <1>3, <1>4
  <2> QED
    BY <2>1 DEF Max
<1> QED
  BY <1>3, <1>4, <1>5, <1>6 DEF CoversFee

\* A split credit adds the amount to the balances, also when the relayer is
\* paid twice because it is the recipient.
LEMMA CreditSum ==
  ASSUME balance \in [Accounts -> Nat], min_fee \in Nat, NEW a \in Accounts,
         NEW r \in Accounts, NEW x \in Nat, CoversFee(x),
         balance' = Credit(a, r, x)
  PROVE  /\ balance' \in [Accounts -> Nat]
         /\ Circulating' = Circulating + x
<1>1. PICK fee \in 0..x : fee = Fee(x)
  BY FeeBound
<1>2. PICK g : g = [balance EXCEPT ![a] = @ + (x - fee)]
  OBVIOUS
<1>3. g \in [Accounts -> Nat] /\ g[a] = balance[a] + (x - fee)
      /\ \A b \in Accounts \ {a} : g[b] = balance[b]
  BY <1>2
<1>4. /\ DOMAIN balance' = Accounts
      /\ \A b \in Accounts : balance'[b] = balance[b]
           + (IF b = a THEN x - fee ELSE 0) + (IF b = r THEN fee ELSE 0)
      /\ balance' = [b \in Accounts |-> balance'[b]]
  BY <1>1 DEF Credit
<1>5. /\ balance'[r] = g[r] + fee
      /\ \A b \in Accounts \ {r} : balance'[b] = g[b]
      /\ \A b \in Accounts : balance'[b] \in Nat
  BY <1>3, <1>4
<1>6. balance' \in [Accounts -> Nat]
  BY <1>4, <1>5
<1>7. IsFiniteSet(Accounts)
  BY MessagesFinite
<1>8. SumFunctionOnSet(g, Accounts) =
        SumFunctionOnSet(balance, Accounts) + g[a] - balance[a]
  <2>1. \A b \in Accounts : balance[b] \in Int /\ g[b] \in Int
    BY <1>3
  <2> QED
    BY <1>3, <1>7, <2>1, SumUpdate
<1>9. SumFunctionOnSet(balance', Accounts) =
        SumFunctionOnSet(g, Accounts) + balance'[r] - g[r]
  <2>1. \A b \in Accounts : balance'[b] \in Int /\ g[b] \in Int
    BY <1>3, <1>5
  <2> QED
    BY <1>5, <1>7, <2>1, SumUpdate
<1>10. SumFunctionOnSet(balance, Accounts) \in Int
  BY <1>7, SumInt
<1>11. /\ Circulating = SumFunctionOnSet(balance, Accounts)
       /\ Circulating' = SumFunctionOnSet(balance', Accounts)
  BY <1>4 DEF Circulating, SumFunction
<1> QED
  BY <1>3, <1>5, <1>6, <1>8, <1>9, <1>10, <1>11

\* The balances sum to a number.
LEMMA CirculatingInt ==
  ASSUME balance \in [Accounts -> Nat]
  PROVE  Circulating \in Int
<1>1. DOMAIN balance = Accounts /\ \A a \in Accounts : balance[a] \in Int
  OBVIOUS
<1>2. SumFunctionOnSet(balance, Accounts) \in Int
  BY <1>1, MessagesFinite, SumInt
<1> QED
  BY <1>1, <1>2 DEF Circulating, SumFunction

\* So do those of genesis.
LEMMA GenesisInt == SumFunction(InitialBalance) \in Int
<1>1. DOMAIN InitialBalance = Accounts /\ \A a \in Accounts : InitialBalance[a] \in Int
  BY SettlementConstants
<1>2. SumFunctionOnSet(InitialBalance, Accounts) \in Int
  BY <1>1, MessagesFinite, SumInt
<1> QED
  BY <1>1, <1>2 DEF SumFunction

\* The table of rows is finite and its amounts are numbers.
LEMMA RowsSummable ==
  ASSUME BridgeTypeOK
  PROVE  /\ IsFiniteSet(DOMAIN transfers)
         /\ IsFiniteSet(LockedRows) /\ LockedRows \subseteq DOMAIN transfers
         /\ \A m \in DOMAIN transfers :
              RowAmounts[m] = transfers[m].amount /\ RowAmounts[m] \in Nat
<1>1. IsFiniteSet(DOMAIN transfers)
  BY MessagesFinite, FS_Subset DEF BridgeTypeOK
<1>2. LockedRows \in SUBSET DOMAIN transfers
  BY DEF LockedRows
<1>3. IsFiniteSet(LockedRows)
  BY <1>1, <1>2, FS_Subset
<1>4. \A m \in DOMAIN transfers : transfers[m].amount \in Nat
  BY RowFacts, BridgeConstants
<1> QED
  BY <1>1, <1>2, <1>3, <1>4 DEF RowAmounts

\* The same in the next state.
LEMMA RowsSummableNext ==
  ASSUME BridgeTypeOK'
  PROVE  /\ IsFiniteSet(DOMAIN transfers')
         /\ IsFiniteSet(LockedRows') /\ LockedRows' \subseteq DOMAIN transfers'
         /\ \A m \in DOMAIN transfers' :
              RowAmounts'[m] = transfers'[m].amount /\ RowAmounts'[m] \in Nat
<1>1. IsFiniteSet(DOMAIN transfers')
  BY MessagesFinite, FS_Subset DEF BridgeTypeOK
<1>2. LockedRows' \in SUBSET DOMAIN transfers'
  BY DEF LockedRows
<1>3. IsFiniteSet(LockedRows')
  BY <1>1, <1>2, FS_Subset
<1>4. ASSUME NEW m \in DOMAIN transfers' PROVE transfers'[m].amount \in Nat
  <2>1. transfers'[m] \in BridgeTransfer
    BY DEF BridgeTypeOK
  <2> QED
    BY <2>1, BridgeConstants DEF BridgeTransfer
<1> QED
  BY <1>1, <1>2, <1>3, <1>4 DEF RowAmounts

\* The locked total is a number.
LEMMA LockedTotalInt ==
  ASSUME BridgeTypeOK
  PROVE  locked_amount_total \in Int
<1>1. \A m \in LockedRows : RowAmounts[m] \in Int
  BY RowsSummable
<1> QED
  BY <1>1, RowsSummable, SumInt DEF locked_amount_total

\* When the Locked rows stay Locked with their amounts but for those of D,
\* which lose that status, the total falls by what D held.
LEMMA LockedTotalFalls ==
  ASSUME BridgeTypeOK, BridgeTypeOK', NEW D \in SUBSET LockedRows,
         LockedRows' = LockedRows \ D,
         \A m \in LockedRows' : transfers'[m].amount = transfers[m].amount
  PROVE  locked_amount_total' = locked_amount_total - SumFunctionOnSet(RowAmounts, D)
<1>1. PICK f, g, S, T : /\ f = RowAmounts /\ g = RowAmounts'
                        /\ S = LockedRows /\ T = LockedRows'
  OBVIOUS
<1>2. /\ IsFiniteSet(S) /\ IsFiniteSet(T) /\ T = S \ D /\ D \in SUBSET S
      /\ \A m \in S : f[m] \in Int
      /\ \A m \in T : g[m] = f[m]
  BY <1>1, RowsSummable, RowsSummableNext
<1>3. SumFunctionOnSet(f, S) = SumFunctionOnSet(f, D) + SumFunctionOnSet(f, S \ D)
  BY <1>2, SumSplit
<1>4. SumFunctionOnSet(g, T) = SumFunctionOnSet(f, T)
  BY <1>2, SumAgree
<1>5. IsFiniteSet(D) /\ \A m \in D : f[m] \in Int
  BY <1>2, FS_Subset
<1>6. SumFunctionOnSet(f, D) \in Int /\ SumFunctionOnSet(f, T) \in Int
  BY <1>2, <1>5, SumInt
<1>7. /\ locked_amount_total = SumFunctionOnSet(f, S)
      /\ locked_amount_total' = SumFunctionOnSet(g, T)
  BY <1>1 DEF locked_amount_total
<1> QED
  BY <1>1, <1>2, <1>3, <1>4, <1>6, <1>7

\* A step that leaves the Locked rows as they are keeps the total.
LEMMA LockedTotalKept ==
  ASSUME BridgeTypeOK, BridgeTypeOK', LockedRows' = LockedRows,
         \A m \in LockedRows : transfers'[m].amount = transfers[m].amount
  PROVE  locked_amount_total' = locked_amount_total
<1>1. locked_amount_total' = locked_amount_total - SumFunctionOnSet(RowAmounts, {})
  BY LockedTotalFalls
<1> QED
  BY <1>1, SumEmpty, LockedTotalInt

\* A row that leaves Locked takes its amount out of the total; one that was
\* not Locked and does not become so changes nothing.
LEMMA StatusTotal ==
  ASSUME BridgeTypeOK, BridgeTypeOK', NEW m \in DOMAIN transfers,
         NEW s \in BridgeStatus, s.kind # "Locked",
         transfers' = [transfers EXCEPT ![m].status = s]
  PROVE  locked_amount_total' = locked_amount_total
           - (IF transfers[m].status.kind = "Locked" THEN transfers[m].amount ELSE 0)
<1>1. /\ DOMAIN transfers' = DOMAIN transfers
      /\ transfers'[m].status = s
      /\ \A n \in DOMAIN transfers : n # m => transfers'[n] = transfers[n]
  BY StatusUpdate
<1>2. CASE transfers[m].status.kind = "Locked"
  <2>1. LockedRows' = LockedRows \ {m} /\ m \in LockedRows
    BY <1>1, <1>2 DEF LockedRows
  <2>2. \A n \in LockedRows' : transfers'[n].amount = transfers[n].amount
    BY <1>1, <2>1 DEF LockedRows
  <2>3. locked_amount_total' = locked_amount_total - SumFunctionOnSet(RowAmounts, {m})
    BY <2>1, <2>2, LockedTotalFalls
  <2>4. /\ IsFiniteSet({m}) /\ \A x \in {m} : RowAmounts[x] \in Int
        /\ RowAmounts[m] = transfers[m].amount /\ RowAmounts[m] \in Int
    <3>1. IsFiniteSet({m})
      BY FS_Singleton
    <3>2. RowAmounts[m] = transfers[m].amount /\ RowAmounts[m] \in Nat
      BY RowsSummable
    <3> QED
      BY <3>1, <3>2
  <2>5. SumFunctionOnSet(RowAmounts, {m}) = RowAmounts[m] + SumFunctionOnSet(RowAmounts, {m} \ {m})
    BY <2>4, SumRemove
  <2>6. {m} \ {m} = {}
    OBVIOUS
  <2>7. SumFunctionOnSet(RowAmounts, {m}) = transfers[m].amount
    <3>1. SumFunctionOnSet(RowAmounts, {}) = 0
      BY SumEmpty
    <3> QED
      BY <2>4, <2>5, <2>6, <3>1
  <2> QED
    BY <1>2, <2>3, <2>7
<1>3. CASE transfers[m].status.kind # "Locked"
  <2>1. LockedRows' = LockedRows
    BY <1>1, <1>3 DEF LockedRows
  <2>2. \A n \in LockedRows : transfers'[n].amount = transfers[n].amount
    BY <1>1, <1>3 DEF LockedRows
  <2> QED
    BY <1>3, <2>1, <2>2, LockedTotalKept, LockedTotalInt
<1> QED
  BY <1>2, <1>3

\* What unlocks have paid grows by what the step adds to one entry.
LEMMA UnlockedTotalMoves ==
  ASSUME LedgerInv, LedgerInv', NEW m \in MessageId,
         \A n \in MessageId \ {m} : ledger'[n].unlock = ledger[n].unlock
  PROVE  /\ UnlockedTotal' = UnlockedTotal + ledger'[m].unlock - ledger[m].unlock
         /\ UnlockedTotal \in Int
<1>1. PICK f, g : /\ f = [n \in MessageId |-> ledger[n].unlock]
                  /\ g = [n \in MessageId |-> ledger'[n].unlock]
  OBVIOUS
<1>2. \A n \in MessageId : f[n] \in Int /\ g[n] \in Int
  BY <1>1 DEF LedgerInv, Entry
<1>3. \A n \in MessageId \ {m} : g[n] = f[n]
  BY <1>1
<1>4. SumFunctionOnSet(g, MessageId) = SumFunctionOnSet(f, MessageId) + g[m] - f[m]
  BY <1>2, <1>3, MessagesFinite, SumUpdate
<1>5. SumFunctionOnSet(f, MessageId) \in Int
  BY <1>2, MessagesFinite, SumInt
<1>6. UnlockedTotal = SumFunctionOnSet(f, MessageId)
  BY <1>1 DEF UnlockedTotal
<1>7. UnlockedTotal' = SumFunctionOnSet(g, MessageId)
  BY <1>1 DEF UnlockedTotal
<1> QED
  BY <1>1, <1>4, <1>5, <1>6, <1>7

\* A step that pays no unlock keeps what unlocks have paid.
LEMMA UnlockedTotalKept ==
  ASSUME LedgerInv, LedgerInv',
         \A n \in MessageId : ledger'[n].unlock = ledger[n].unlock
  PROVE  UnlockedTotal' = UnlockedTotal /\ UnlockedTotal \in Int
<1>1. PICK f, g : /\ f = [n \in MessageId |-> ledger[n].unlock]
                  /\ g = [n \in MessageId |-> ledger'[n].unlock]
  OBVIOUS
<1>2. \A n \in MessageId : f[n] \in Int /\ g[n] = f[n]
  BY <1>1 DEF LedgerInv, Entry
<1>3. SumFunctionOnSet(g, MessageId) = SumFunctionOnSet(f, MessageId)
  BY <1>2, MessagesFinite, SumAgree
<1>4. SumFunctionOnSet(f, MessageId) \in Int
  BY <1>2, MessagesFinite, SumInt
<1> QED
  BY <1>1, <1>3, <1>4 DEF UnlockedTotal

\* A mint moves its amount from the locked rows to the balances.
LEMMA ValueMint ==
  ASSUME ValueInv, FullInv, FullInv', LedgerInv, LedgerInv',
         NEW m \in DOMAIN transfers, NEW r \in Relayers,
         MintFunded(m), MintAndCredit(m, r), UNCHANGED min_fee
  PROVE  ValueInv'
<1>0. /\ BridgeTypeOK /\ BridgeTypeOK' /\ r \in Accounts /\ min_fee \in Nat
      /\ balance \in [Accounts -> Nat]
  BY SettlementConstants DEF FullInv, BridgeInv, ValueInv
<1>1. PICK x \in Nat : x = transfers[m].amount
  BY <1>0, RowFacts, BridgeConstants
<1>2. /\ m \in MessageId /\ transfers[m].recipient \in Accounts
      /\ Minted(Target(m)) \in BridgeStatus /\ Minted(Target(m)).kind # "Locked"
      /\ transfers[m].status.kind = "Locked"
  <2>1. m \in MessageId /\ transfers[m].recipient \in Accounts /\ Target(m) \in Domains
    BY <1>0, RowFacts
  <2>2. Minted(Target(m)) \in BridgeStatus
    BY <2>1, StatusTypes
  <2>3. Minted(Target(m)).kind # "Locked" /\ transfers[m].status.kind = "Locked"
    BY DEF Minted, MintAndCredit, mint, CanMint, Locked
  <2> QED
    BY <2>1, <2>2, <2>3
<1>3. balance' \in [Accounts -> Nat] /\ Circulating' = Circulating + x
  BY <1>0, <1>1, <1>2, CreditSum DEF MintFunded, MintAndCredit
<1>4. locked_amount_total' = locked_amount_total - x
  <2>1. transfers' = [transfers EXCEPT ![m].status = Minted(Target(m))]
    BY DEF MintAndCredit, mint
  <2> QED
    BY <1>0, <1>1, <1>2, <2>1, StatusTotal
<1>5. UnlockedTotal' = UnlockedTotal
  <2>1. \A n \in MessageId : ledger'[n].unlock = ledger[n].unlock
    BY DEF LedgerInv, Entry, MintAndCredit
  <2> QED
    BY <2>1, UnlockedTotalKept
<1>6. locked_amount_total \in Int /\ Circulating \in Int
  BY <1>0, LockedTotalInt, CirculatingInt
<1>7. Circulating' + locked_amount_total' = Circulating + locked_amount_total
  BY <1>1, <1>3, <1>4, <1>6
<1> QED
  BY <1>3, <1>5, <1>7 DEF ValueInv, ValueAccounted, UnlockedTotal

\* A burn, and an unlock nobody is paid for, move nothing.
LEMMA ValueSilent ==
  ASSUME ValueInv, FullInv, FullInv', LedgerInv, LedgerInv',
         NEW m \in DOMAIN transfers, NEW d \in Domains,
         unlock(m, d) \/ burn_with_event(m, d), UNCHANGED <<balance, ledger, min_fee>>
  PROVE  ValueInv'
<1>0. BridgeTypeOK /\ BridgeTypeOK'
  BY DEF FullInv, BridgeInv
<1>1. PICK s \in BridgeStatus : s.kind # "Locked" /\
        transfers' = [transfers EXCEPT ![m].status = s]
  BY <1>0, RowFacts, StatusTypes DEF unlock, burn_with_event, Unlocked, Burned
<1>2. transfers[m].status.kind # "Locked"
  BY DEF unlock, CanUnlock, burn_with_event, HasStatus, Burned, Minted
<1>3. locked_amount_total' = locked_amount_total
  <2>1. locked_amount_total' = locked_amount_total - 0
    BY <1>0, <1>1, <1>2, StatusTotal
  <2>2. locked_amount_total \in Int
    BY <1>0, LockedTotalInt
  <2> QED
    BY <2>1, <2>2
<1>4. Circulating' = Circulating
  BY DEF Circulating
<1> QED
  BY <1>3, <1>4 DEF ValueInv, ValueAccounted

\* An unlock that pays adds to the balances what the ledger says it paid.
LEMMA ValueUnlock ==
  ASSUME ValueInv, FullInv, FullInv', LedgerInv, LedgerInv',
         NEW m \in DOMAIN transfers, NEW d \in Domains, NEW r \in Relayers,
         unlock(m, d), CoversFee(transfers[m].amount), UNCHANGED min_fee,
         balance' = Credit(Owner(m), r, transfers[m].amount),
         ledger' = [ledger EXCEPT ![m].unlock = @ + transfers[m].amount]
  PROVE  ValueInv'
<1>0. /\ BridgeTypeOK /\ BridgeTypeOK' /\ r \in Accounts /\ min_fee \in Nat
      /\ balance \in [Accounts -> Nat]
  BY SettlementConstants DEF FullInv, BridgeInv, ValueInv
<1>1. PICK x \in Nat : x = transfers[m].amount
  BY <1>0, RowFacts, BridgeConstants
<1>2. /\ m \in MessageId /\ Owner(m) \in Accounts
      /\ Unlocked(Source(m)) \in BridgeStatus /\ Unlocked(Source(m)).kind # "Locked"
      /\ transfers[m].status.kind # "Locked"
  <2>1. m \in MessageId /\ Owner(m) \in Accounts /\ Source(m) \in Domains
    BY <1>0, RowFacts
  <2>2. Unlocked(Source(m)) \in BridgeStatus
    BY <2>1, StatusTypes
  <2>3. Unlocked(Source(m)).kind # "Locked" /\ transfers[m].status.kind # "Locked"
    BY DEF Unlocked, unlock, CanUnlock, HasStatus, Burned
  <2> QED
    BY <2>1, <2>2, <2>3
<1>3. balance' \in [Accounts -> Nat] /\ Circulating' = Circulating + x
  BY <1>0, <1>1, <1>2, CreditSum
<1>4. locked_amount_total' = locked_amount_total
  <2>1. transfers' = [transfers EXCEPT ![m].status = Unlocked(Source(m))]
    BY DEF unlock
  <2>2. locked_amount_total' = locked_amount_total - 0
    BY <1>0, <1>2, <2>1, StatusTotal
  <2>3. locked_amount_total \in Int
    BY <1>0, LockedTotalInt
  <2> QED
    BY <2>2, <2>3
<1>5. UnlockedTotal' = UnlockedTotal + x /\ UnlockedTotal \in Int
  <2>1. /\ \A n \in MessageId \ {m} : ledger'[n].unlock = ledger[n].unlock
        /\ ledger'[m].unlock = ledger[m].unlock + x /\ ledger[m].unlock \in Nat
    BY <1>1, <1>2 DEF LedgerInv, Entry
  <2> QED
    BY <1>1, <1>2, <2>1, UnlockedTotalMoves
<1>6. locked_amount_total \in Int /\ Circulating \in Int
  BY <1>0, LockedTotalInt, CirculatingInt
<1>7. SumFunction(InitialBalance) \in Int
  BY GenesisInt
<1>8. Circulating' + locked_amount_total' = SumFunction(InitialBalance) + UnlockedTotal'
  BY <1>1, <1>3, <1>4, <1>5, <1>6, <1>7 DEF ValueInv, ValueAccounted, UnlockedTotal
<1> QED
  BY <1>3, <1>8 DEF ValueInv, ValueAccounted, UnlockedTotal

\* A lock moves its amount from a balance to a new Locked row.
LEMMA ValueLock ==
  ASSUME ValueInv, FullInv, FullInv', LedgerInv, LedgerInv', NEW d \in Direction,
         NEW a \in Assets, NEW r \in Recipients, NEW x \in Amounts,
         NEW e \in Expiries, lock_bridge_transfer(d, a, r, x, e)
  PROVE  ValueInv'
<1>0. /\ BridgeTypeOK /\ BridgeTypeOK' /\ ReplayMarkCovers /\ x \in Nat
      /\ balance \in [Accounts -> Nat] /\ min_fee \in MinFees
  BY BridgeConstants DEF FullInv, BridgeInv, ValueInv
<1>1. PICK m : m = LockMessage(d)
  OBVIOUS
<1>2. m \notin DOMAIN transfers
  BY <1>0, <1>1, LockMessageFresh
<1>3. lock(d, a, r, x, e)
  BY DEF lock_bridge_transfer
<1>4. /\ DOMAIN transfers' = DOMAIN transfers \cup {m}
      /\ \A n \in DOMAIN transfers : transfers'[n] = transfers[n]
      /\ transfers'[m].status.kind = "Locked" /\ transfers'[m].amount = x
  BY <1>1, <1>2, <1>3 DEF lock, Put, Locked
<1>5. locked_amount_total' = locked_amount_total + x
  <2>1. PICK f, g, S, T : /\ f = RowAmounts /\ g = RowAmounts'
                          /\ S = LockedRows /\ T = LockedRows'
    OBVIOUS
  <2>2. /\ IsFiniteSet(S) /\ T = S \cup {m} /\ m \notin S
    BY <1>0, <1>2, <1>4, <2>1, RowsSummable DEF LockedRows
  <2>3. /\ \A n \in S : f[n] \in Int /\ g[n] = f[n]
        /\ \A n \in T : g[n] \in Int
        /\ g[m] = x
    BY <1>0, <1>2, <1>4, <2>1, <2>2, RowsSummable, RowsSummableNext
  <2>4. SumFunctionOnSet(g, T) = g[m] + SumFunctionOnSet(g, S)
    BY <2>2, <2>3, SumAdd
  <2>5. SumFunctionOnSet(g, S) = SumFunctionOnSet(f, S)
    BY <2>2, <2>3, SumAgree
  <2>6. SumFunctionOnSet(f, S) \in Int
    BY <2>2, <2>3, SumInt
  <2> QED
    BY <1>0, <2>1, <2>3, <2>4, <2>5, <2>6 DEF locked_amount_total
<1>6. /\ d.sender \in Accounts /\ balance[d.sender] >= x
      /\ balance' = [balance EXCEPT ![d.sender] = @ - x] /\ UNCHANGED min_fee
  BY DEF Direction, lock_bridge_transfer, CanPay
<1>7. balance' \in [Accounts -> Nat] /\ Circulating' = Circulating - x
  <2>1. PICK p : p = d.sender
    OBVIOUS
  <2>2. /\ balance' \in [Accounts -> Nat] /\ p \in Accounts
        /\ balance'[p] = balance[p] - x
        /\ \A b \in Accounts \ {p} : balance'[b] = balance[b]
    BY <1>0, <1>6, <2>1
  <2>3. \A b \in Accounts : balance[b] \in Int /\ balance'[b] \in Int
    BY <1>0, <2>2
  <2>4. SumFunctionOnSet(balance', Accounts)
          = SumFunctionOnSet(balance, Accounts) + balance'[p] - balance[p]
    BY <2>2, <2>3, MessagesFinite, SumUpdate
  <2>5. /\ Circulating = SumFunctionOnSet(balance, Accounts) /\ Circulating \in Int
        /\ Circulating' = SumFunctionOnSet(balance', Accounts)
    <3>1. DOMAIN balance = Accounts /\ DOMAIN balance' = Accounts
      BY <1>0, <2>2
    <3> QED
      BY <1>0, <3>1, CirculatingInt DEF Circulating, SumFunction
  <2> QED
    BY <1>0, <2>2, <2>3, <2>4, <2>5
<1>8. UnlockedTotal' = UnlockedTotal
  <2>1. \A n \in MessageId : ledger'[n].unlock = ledger[n].unlock
    BY DEF LedgerInv, Entry, lock_bridge_transfer
  <2> QED
    BY <2>1, UnlockedTotalKept
<1>9. locked_amount_total \in Int /\ Circulating \in Int
  BY <1>0, LockedTotalInt, CirculatingInt
<1>10. Circulating' + locked_amount_total' = Circulating + locked_amount_total
  BY <1>0, <1>5, <1>7, <1>9
<1> QED
  BY <1>6, <1>7, <1>8, <1>10 DEF ValueInv, ValueAccounted, UnlockedTotal

\* The sweep moves the released amounts from the rows to their owners.
LEMMA ValueBlock ==
  ASSUME ValueInv, FullInv, FullInv', LedgerInv, LedgerInv', EndBlock
  PROVE  ValueInv'
<1>0. /\ BridgeTypeOK /\ BridgeTypeOK' /\ QueuesCoverRows
      /\ balance \in [Accounts -> Nat] /\ min_fee \in MinFees
  BY DEF FullInv, BridgeInv, ValueInv
<1>1. sweep_expired_locks /\ UNCHANGED min_fee
  BY DEF EndBlock, CommitBlock
<1>2. /\ DOMAIN transfers' \subseteq DOMAIN transfers
      /\ \A m \in DOMAIN transfers' :
           /\ transfers'[m].amount = transfers[m].amount
           /\ m \in Released =>
                transfers'[m].status = Active(transfers[m].status.domain)
           /\ m \notin Released => transfers'[m] = transfers[m]
      /\ Released \subseteq DOMAIN transfers
      /\ \A m \in Released : transfers[m].status.kind = "Locked"
  BY <1>0, <1>1, SweepFacts
<1>3. \A m \in DOMAIN transfers \ DOMAIN transfers' :
        m \in Released \/ transfers[m].status.kind # "Locked"
  <2> DEFINE settled == settled_queue \cup mark_settled(Released)
  <2>1. transfers' = [m \in DOMAIN transfers \ DroppedRows(settled) |->
                        RowsAfterRelease[m]]
    BY <1>1 DEF sweep_expired_locks
  <2>2. \A m \in DOMAIN transfers \ DOMAIN transfers' : m \in DroppedRows(settled)
    BY <2>1
  <2>3. ASSUME NEW m \in DroppedRows(settled), m \notin Released
        PROVE  transfers[m].status.kind # "Locked"
    BY <2>3 DEF DroppedRows, RowsAfterRelease, Terminal
  <2> QED
    BY <2>2, <2>3
<1>4. Released \in SUBSET LockedRows /\ LockedRows' = LockedRows \ Released
  <2>1. \A m : m \in LockedRows <=>
          m \in DOMAIN transfers /\ transfers[m].status.kind = "Locked"
    BY DEF LockedRows
  <2>2. \A m : m \in LockedRows' <=>
          m \in DOMAIN transfers' /\ transfers'[m].status.kind = "Locked"
    BY DEF LockedRows
  <2>3. \A m \in DOMAIN transfers' : m \in Released =>
          transfers'[m].status.kind # "Locked"
    BY <1>2, ActiveKind
  <2> QED
    BY <1>2, <1>3, <2>1, <2>2, <2>3
<1>5. PICK R : R = Released
  OBVIOUS
<1>6. PICK f : f = RowAmounts
  OBVIOUS
<1>7. locked_amount_total' = locked_amount_total - SumFunctionOnSet(f, R)
  BY <1>0, <1>2, <1>4, <1>5, <1>6, LockedTotalFalls, RowsSummableNext
<1>8. /\ IsFiniteSet(R) /\ \A m \in R : f[m] \in Nat /\ Owner(m) \in Accounts
  <2>1. R \in SUBSET DOMAIN transfers
    BY <1>2, <1>5
  <2>2. IsFiniteSet(DOMAIN transfers) /\ \A m \in DOMAIN transfers : f[m] \in Nat
    BY <1>0, <1>6, RowsSummable
  <2>3. IsFiniteSet(R)
    BY <2>1, <2>2, FS_Subset
  <2> QED
    BY <1>0, <2>1, <2>2, <2>3, RowFacts
<1> DEFINE own == [m \in R |-> Owner(m)]
           back == [a \in Accounts |-> GroupSum(f, own, R, a)]
<1>9. SumFunctionOnSet(back, Accounts) = SumFunctionOnSet(f, R)
  <2>1. \A m \in R : f[m] \in Int /\ own[m] \in Accounts
    BY <1>8
  <2> HIDE DEF own
  <2> QED
    BY <1>8, <2>1, MessagesFinite, SumByOwner
<1>10. \A a \in Accounts : back[a] \in Nat
  <2> SUFFICES ASSUME NEW a \in Accounts PROVE back[a] \in Nat
    OBVIOUS
  <2>1. PICK u : u = {m \in R : own[m] = a}
    OBVIOUS
  <2>2. u \in SUBSET R /\ \A m \in u : f[m] \in Nat
    BY <1>8, <2>1
  <2>3. IsFiniteSet(u)
    BY <1>8, <2>2, FS_Subset
  <2>4. SumFunctionOnSet(f, u) \in Nat
    BY <2>2, <2>3, SumNat
  <2>5. GroupSum(f, own, R, a) = SumFunctionOnSet(f, u)
    BY ONLY <2>1 DEF GroupSum
  <2> QED
    BY <2>4, <2>5
<1>11. \A a \in Accounts : Refund(a) = back[a]
  <2> SUFFICES ASSUME NEW a \in Accounts PROVE Refund(a) = back[a]
    OBVIOUS
  <2>1. {m \in Released : Owner(m) = a} = {m \in R : own[m] = a}
    BY <1>5
  <2>2. Refund(a) = SumFunctionOnSet(f, {m \in Released : Owner(m) = a})
    BY ONLY <1>6 DEF Refund
  <2>3. GroupSum(f, own, R, a) = SumFunctionOnSet(f, {m \in Released : Owner(m) = a})
    BY ONLY <2>1 DEF GroupSum
  <2> QED
    BY <2>2, <2>3
<1> HIDE DEF own, back
<1>12. /\ balance' \in [Accounts -> Nat]
       /\ \A a \in Accounts : balance'[a] = balance[a] + back[a]
  <2>1. balance' = [a \in Accounts |-> balance[a] + Refund(a)]
    BY DEF EndBlock
  <2>2. balance' = [a \in Accounts |-> balance[a] + back[a]]
    BY <1>11, <2>1
  <2> QED
    BY <1>0, <1>10, <2>2
<1>13. SumFunctionOnSet(balance', Accounts) =
         SumFunctionOnSet(balance, Accounts) + SumFunctionOnSet(back, Accounts)
  <2>1. \A a \in Accounts : /\ balance[a] \in Int /\ back[a] \in Int
                            /\ balance'[a] = balance[a] + back[a]
    BY <1>0, <1>10, <1>12
  <2> QED
    BY <2>1, MessagesFinite, SumPlus
<1>14. Circulating' = Circulating + SumFunctionOnSet(f, R)
  <2>1. DOMAIN balance = Accounts /\ DOMAIN balance' = Accounts
    BY <1>0, <1>12
  <2> QED
    BY <1>9, <1>13, <2>1 DEF Circulating, SumFunction
<1>15. UnlockedTotal' = UnlockedTotal
  <2>1. ledger' = [m \in MessageId |->
          IF m \in Released
          THEN [ledger[m] EXCEPT !.refund = @ + transfers[m].amount]
          ELSE ledger[m]]
    BY DEF EndBlock
  <2>2. \A n \in MessageId : ledger'[n].unlock = ledger[n].unlock
    BY <2>1 DEF LedgerInv, Entry
  <2> QED
    BY <2>2, UnlockedTotalKept
<1>16. /\ locked_amount_total \in Int /\ Circulating \in Int
       /\ SumFunctionOnSet(f, R) \in Int
  <2>1. \A m \in R : f[m] \in Int
    BY <1>8
  <2> QED
    BY <1>0, <1>8, <2>1, LockedTotalInt, CirculatingInt, SumInt
<1>17. Circulating' + locked_amount_total' = Circulating + locked_amount_total
  BY <1>7, <1>14, <1>16
<1> QED
  BY <1>0, <1>1, <1>12, <1>15, <1>17 DEF ValueInv, ValueAccounted, UnlockedTotal

\* Every step of the node keeps the accounts.
LEMMA ValueStep ==
  ASSUME ValueInv, FullInv, FullInv', LedgerInv, LedgerInv', [Next]_vars
  PROVE  ValueInv'
<1>0. BridgeTypeOK
  BY DEF FullInv, BridgeInv
<1>1. ASSUME UNCHANGED <<transfers, balance, ledger>>, min_fee' \in MinFees
      PROVE  ValueInv'
  <2>1. /\ locked_amount_total' = locked_amount_total
        /\ Circulating' = Circulating /\ UnlockedTotal' = UnlockedTotal
    BY <1>1 DEF locked_amount_total, RowAmounts, LockedRows, Circulating, UnlockedTotal
  <2> QED
    BY <1>1, <2>1 DEF ValueInv, ValueAccounted, UnlockedTotal
<1>2. CASE OperatorCall
  <2>1. ASSUME NEW m \in DOMAIN transfers, NEW r \in Relayers,
               mint_bridge_transfer_from_verified_event(m, r)
        PROVE  ValueInv'
    BY <2>1, ValueMint DEF mint_bridge_transfer_from_verified_event
  <2>2. ASSUME NEW m \in DOMAIN transfers, NEW d \in Domains, NEW e \in BurnExpiries,
               burn_bridge_transfer_with_event(m, d, e)
        PROVE  ValueInv'
    BY <2>2, ValueSilent DEF burn_bridge_transfer_with_event
  <2>3. ASSUME NEW m \in DOMAIN transfers,
               unlock_bridge_transfer_from_verified_event(m)
        PROVE  ValueInv'
    <3>1. unlock(m, Target(m)) /\ UNCHANGED <<balance, ledger, min_fee>>
      BY <2>3 DEF unlock_bridge_transfer_from_verified_event, settlementVars
    <3>2. Target(m) \in Domains
      BY <1>0, RowFacts
    <3> QED
      BY <3>1, <3>2, ValueSilent
  <2>4. ASSUME NEW a \in Assets, NEW d \in Domains, register_bridge_asset(a, d)
        PROVE  ValueInv'
    BY <1>1, <2>4 DEF register_bridge_asset, register_asset, settlementVars, ValueInv
  <2> QED
    BY <1>2, <2>1, <2>2, <2>3, <2>4, ValueLock DEF OperatorCall
<1>3. ASSUME NEW id \in DOMAIN pending, NEW r \in Relayers, RelayMint(id, r)
      PROVE  ValueInv'
  <2>1. /\ MintFunded(id) /\ MintAndCredit(id, r) /\ UNCHANGED min_fee
        /\ id \in DOMAIN transfers
    BY <1>3 DEF RelayMint, MintFunded
  <2> QED
    BY <2>1, ValueMint
<1>4. ASSUME NEW id \in DOMAIN pending, NEW r \in Relayers, RelayUnlock(id, r)
      PROVE  ValueInv'
  <2>1. PICK m : m = pending[id].transfer
    OBVIOUS
  <2>2. /\ unlock(m, id.dir.source) /\ UNCHANGED min_fee
        /\ \/ /\ CoversFee(transfers[m].amount)
              /\ balance' = Credit(Owner(m), r, transfers[m].amount)
              /\ ledger' = [ledger EXCEPT ![m].unlock = @ + transfers[m].amount]
           \/ UNCHANGED <<balance, ledger>>
    BY <1>4, <2>1 DEF RelayUnlock
  <2>3. m \in DOMAIN transfers /\ Target(m) = id.dir.source
    BY <2>2 DEF unlock, CanUnlock, HasStatus
  <2>4. id.dir.source \in Domains
    BY <1>0, <2>3, RowFacts
  <2> QED
    BY <2>2, <2>3, <2>4, ValueUnlock, ValueSilent
<1>5. ASSUME NEW id \in DOMAIN pending,
             RelayMintRefused(id) \/ RelayUnlockRefused(id)
      PROVE  ValueInv'
  BY <1>1, <1>5 DEF RelayMintRefused, RelayUnlockRefused, bridgeVars, ValueInv
<1>6. CASE BeginBlock
  BY <1>1, <1>6 DEF BeginBlock, bridgeVars, ValueInv
<1>7. CASE Transaction
  <2>1. ASSUME NEW m \in DOMAIN transfers, NEW r \in Relayers, ResultMint(m, r)
        PROVE  ValueInv'
    BY <2>1, ValueMint DEF ResultMint
  <2>2. ASSUME NEW m \in DOMAIN transfers, NEW r \in Relayers, ResultUnlock(m, r)
        PROVE  ValueInv'
    <3>1. Target(m) \in Domains
      BY <1>0, RowFacts
    <3> QED
      BY <2>2, <3>1, ValueUnlock DEF ResultUnlock
  <2>3. ASSUME NEW fee \in MinFees, ChangeMinFee(fee)
        PROVE  ValueInv'
    BY <1>1, <2>3 DEF ChangeMinFee, bridgeVars
  <2> QED
    BY <1>7, <2>1, <2>2, <2>3 DEF Transaction
<1>8. CASE UNCHANGED vars
  BY <1>1, <1>8 DEF vars, bridgeVars, settlementVars, ValueInv
<1> QED
  BY <1>2, <1>3, <1>4, <1>5, <1>6, <1>7, <1>8, ValueBlock
     DEF Next, submit_relay_proof

\* At genesis the balances are the supply.
LEMMA ValueInit == Init => ValueInv
<1> SUFFICES ASSUME Init PROVE ValueInv
  OBVIOUS
<1>1. balance = InitialBalance /\ balance \in [Accounts -> Nat] /\ min_fee \in MinFees
  BY SettlementConstants DEF Init
<1>2. locked_amount_total = 0
  <2>1. LockedRows = {}
    BY DEF Init, BridgeInit, LockedRows
  <2> QED
    BY <2>1, SumEmpty DEF locked_amount_total
<1>3. UnlockedTotal = 0
  <2>1. PICK f : f = [m \in MessageId |-> ledger[m].unlock]
    OBVIOUS
  <2>2. \A m \in MessageId : f[m] = 0
    BY <2>1 DEF Init
  <2> QED
    BY <2>1, <2>2, MessagesFinite, SumZero DEF UnlockedTotal
<1>4. Circulating = SumFunction(InitialBalance) /\ Circulating \in Int
  BY <1>1, CirculatingInt DEF Circulating
<1> QED
  BY <1>1, <1>2, <1>3, <1>4 DEF ValueInv, ValueAccounted, UnlockedTotal

\* Balances and locked rows are the genesis supply and what unlocks paid,
\* for any fee rate and through every entry point.
THEOREM EveryUnitAccounted == Spec => []ValueAccounted
<1>1. Init => FullInv /\ LedgerInv /\ ValueInv
  BY InitInv, LedgerInit, ValueInit DEF Init
<1>2. FullInv /\ LedgerInv /\ ValueInv /\ [Next]_vars
        => (FullInv /\ LedgerInv /\ ValueInv)'
  BY NodeStepsBridge, InvStep, LedgerStep, ValueStep
<1>3. ValueInv => ValueAccounted
  BY DEF ValueInv
<1> QED
  BY <1>1, <1>2, <1>3, PTL DEF Spec
============================================================================
