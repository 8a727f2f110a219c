------------------------------ MODULE ChainStore ------------------------------
(***************************************************************************)
(* The block store of one node and the writes the chain makes to it:       *)
(* commit_durable_batch with its IN_PROGRESS_HEIGHT marker, the rewriting  *)
(* of the stored blocks by try_reorg, pruning, the CANONICAL_HEIGHT key,   *)
(* recovery and loading at a restart, and the offline repair               *)
(* (src/src/storage/db.rs, src/src/chain/blockchain.rs, src/src/main.rs).  *)
(*                                                                         *)
(* A block is the path from genesis to it, so that its parent, its height  *)
(* and the chain below it can be read off its hash.  A handler changes the *)
(* memory and queues the atomic writes it makes, in the order of the code; *)
(* the chain actor serves nothing else until they are done.  A crash cuts  *)
(* the queue anywhere, a failed write ends or skips it as the code does.   *)
(* A bridge state is the sequence of blocks whose effects it holds; every  *)
(* block is taken to have some.  Certificates, blobs and the verification  *)
(* of blocks are CheckpointFinality's.                                     *)
(***************************************************************************)
EXTENDS Integers, Sequences, FiniteSets, FiniteSetsExt

CONSTANTS
    Branches,       \* names that tell two blocks with one parent apart
    Keep,           \* min_blocks_to_keep of the pruning manager
    SnapInterval,   \* snapshot_interval of the pruning manager
    Pruning,        \* whether the node runs with the pruning feature
    MaxHeight,      \* bound: height of the chain
    MaxReorgs,      \* bound: reorganisations
    MaxFaults       \* bound: crashes, failed writes and lost index entries

ASSUME StoreAssumption ==
    /\ Keep \in Nat /\ SnapInterval \in Nat \ {0} /\ Pruning \in BOOLEAN
    /\ MaxHeight \in Nat /\ MaxReorgs \in Nat /\ MaxFaults \in Nat

Paths == UNION {[1..n -> Branches] : n \in 0..MaxHeight}
Genesis == <<>>
Prefix(b, n) == SubSeq(b, 1, n)
Chain(b) == {Prefix(b, n) : n \in 0..Len(b)}

VARIABLES
    blocks,     \* on disk: the blocks stored under their hash
    index,      \* on disk: HEIGHT:h, the set of the blocks it points to
    last,       \* on disk: LAST, a set of at most one block
    canonical,  \* on disk: CANONICAL_HEIGHT
    marker,     \* on disk: IN_PROGRESS_HEIGHT, a set of at most one height
    bridge,     \* on disk: BRIDGE_STATE, a set of at most one bridge state
    bridgeAt,   \* on disk: BRIDGE_STATE_AT:h, a partial function of h
    snaps,      \* on disk: the state snapshots, [height, finalized]
    status,     \* "up", "down", or "refused": startup found a wrong genesis
    tip,        \* in memory: the last block, hence the chain
    finalized,  \* in memory: the last final block
    memBridge,  \* in memory: the bridge state
    todo,       \* the writes the present handler still has to make
    reorgs,     \* how many reorganisations there were
    faults,     \* how many faults there were
    committed,  \* ghost: the tip of the last batch that reached the disk
    scars       \* ghost: what happened to the store beyond whole commits

disk == <<blocks, index, last, canonical, marker, bridge, bridgeAt, snaps>>
memory == <<status, tip, finalized, memBridge, todo>>
ghosts == <<committed, scars>>
vars == <<disk, memory, reorgs, faults, ghosts>>

BridgeStates == UNION {[1..n -> Branches] : n \in 0..(2 * MaxHeight)}

Writes ==
    [w : {"mark", "push"}, b : Paths]
      \cup [w : {"batch"}, b : Paths, br : BridgeStates]
      \cup [w : {"delete", "canon"}, h : 0..MaxHeight]
      \cup [w : {"last"}, b : Paths]
      \cup [w : {"snap"}, h : 0..MaxHeight, f : Paths]

TypeOK ==
    /\ blocks \subseteq Paths
    /\ index \subseteq Paths
    /\ \A b, c \in index : Len(b) = Len(c) => b = c
    /\ last \subseteq Paths /\ Cardinality(last) <= 1
    /\ canonical \in 0..MaxHeight
    /\ marker \subseteq 0..MaxHeight /\ Cardinality(marker) <= 1
    /\ bridge \subseteq BridgeStates /\ Cardinality(bridge) <= 1
    /\ DOMAIN bridgeAt \subseteq 0..MaxHeight
    /\ \A h \in DOMAIN bridgeAt : bridgeAt[h] \in BridgeStates
    /\ snaps \subseteq [height : 0..MaxHeight, finalized : Paths]
    /\ status \in {"up", "down", "refused"}
    /\ tip \in Paths /\ finalized \in Paths /\ memBridge \in BridgeStates
    /\ todo \in Seq(Writes)
    /\ reorgs \in 0..MaxReorgs /\ faults \in 0..MaxFaults
    /\ committed \in Paths
    /\ scars \subseteq {"cut reorg", "no genesis", "lost entry", "lost chain", "pruned"}

-----------------------------------------------------------------------------
(* Single writes.  sled applies a batch as one step. *)

At(idx, h) == {b \in idx : Len(b) = h}
Without(f, h) == [x \in DOMAIN f \ {h} |-> f[x]]
With(f, h, v) == [x \in DOMAIN f \cup {h} |-> IF x = h THEN v ELSE f[x]]

Mark(b) == [w |-> "mark", b |-> b]
Batch(b, br) == [w |-> "batch", b |-> b, br |-> br]
Push(b) == [w |-> "push", b |-> b]
Delete(h) == [w |-> "delete", h |-> h]
Canon(h) == [w |-> "canon", h |-> h]
SaveLast(b) == [w |-> "last", b |-> b]
Snap(h, f) == [w |-> "snap", h |-> h, f |-> f]

\* commit_durable_batch, first write: the marker and a flush
write_marker(b) ==
    /\ marker' = {Len(b)}
    /\ UNCHANGED <<blocks, index, last, canonical, bridge, bridgeAt, snaps>>
    /\ UNCHANGED <<tip, memBridge, committed>>

\* Mutant: BRIDGE_STATE is written without its copy for the height.
commit_batch_no_copy(b, br) ==
    /\ blocks' = blocks \cup {b}
    /\ index' = (index \ At(index, Len(b))) \cup {b}
    /\ last' = {b}
    /\ canonical' = Len(b)
    /\ marker' = {}
    /\ bridge' = {br}
    /\ committed' = b
    /\ UNCHANGED <<bridgeAt, snaps, tip, memBridge>>

\* commit_durable_batch, second write: one batch, which also clears the marker
commit_batch(b, br) ==
    /\ blocks' = blocks \cup {b}
    /\ index' = (index \ At(index, Len(b))) \cup {b}
    /\ last' = {b}
    /\ canonical' = Len(b)
    /\ marker' = {}
    /\ bridge' = {br}
    /\ bridgeAt' = With(bridgeAt, Len(b), br)
    /\ committed' = b
    /\ UNCHANGED <<snaps, tip, memBridge>>

\* delete_block: nothing happens when the height is not indexed
delete_block(h) ==
    /\ blocks' = blocks \ At(index, h)
    /\ index' = index \ At(index, h)
    /\ UNCHANGED <<last, canonical, marker, bridge, bridgeAt, snaps>>
    /\ UNCHANGED <<tip, memBridge, committed>>

save_canonical_height(h) ==
    /\ canonical' = h
    /\ UNCHANGED <<blocks, index, last, marker, bridge, bridgeAt, snaps>>
    /\ UNCHANGED <<tip, memBridge, committed>>

save_last_hash(b) ==
    /\ last' = {b}
    /\ UNCHANGED <<blocks, index, canonical, marker, bridge, bridgeAt, snaps>>
    /\ UNCHANGED <<tip, memBridge, committed>>

save_snapshot(h, f) ==
    /\ snaps' = snaps \cup {[height |-> h, finalized |-> f]}
    /\ UNCHANGED <<blocks, index, last, canonical, marker, bridge, bridgeAt>>
    /\ UNCHANGED <<tip, memBridge, committed>>

\* The block joins the chain in memory once it is durable.
push_block(b) ==
    /\ tip' = b
    /\ memBridge' = Append(memBridge, b[Len(b)])
    /\ UNCHANGED <<disk, committed>>

Perform(x) ==
    \/ x.w = "mark" /\ write_marker(x.b)
    \/ x.w = "batch" /\ commit_batch(x.b, x.br)
    \/ x.w = "push" /\ push_block(x.b)
    \/ x.w = "delete" /\ delete_block(x.h)
    \/ x.w = "canon" /\ save_canonical_height(x.h)
    \/ x.w = "last" /\ save_last_hash(x.b)
    \/ x.w = "snap" /\ save_snapshot(x.h, x.f)

\* Only try_reorg ends with a write of LAST.
Reorganising == \E i \in DOMAIN todo : todo[i].w = "last"

DoWrite ==
    /\ todo # <<>>
    /\ Perform(Head(todo))
    /\ todo' = Tail(todo)
    /\ scars' = IF Head(todo).w = "delete" /\ ~Reorganising THEN scars \cup {"pruned"} ELSE scars
    /\ UNCHANGED <<status, finalized, reorgs, faults>>

-----------------------------------------------------------------------------
(* The chain actor's handlers *)

Idle == status = "up" /\ todo = <<>>

Commit(b, br) == <<Mark(b), Batch(b, br), Push(b)>>

\* get_prunable_blocks
Prunable(b) ==
    LET safe == Min({Len(b) + 1 - Keep, Len(b), Len(finalized)})
    IN  IF Len(b) + 1 <= Keep THEN <<>>
        ELSE [i \in 1..(IF safe > 1 THEN safe - 1 ELSE 0) |-> Delete(i)]

\* What follows a commit when a snapshot is due
Snapshotting(b) ==
    IF Pruning /\ Len(b) % SnapInterval = 0
    THEN <<Snap(Len(b), finalized)>> \o Prunable(b) ELSE <<>>

\* produce_block: the node's own block carries the roots of its own state
produce_block(x) ==
    /\ Idle /\ Len(tip) < MaxHeight
    /\ LET b == Append(tip, x)
       IN  todo' = Commit(b, Append(memBridge, x))
    /\ UNCHANGED <<disk, status, tip, finalized, memBridge, reorgs, faults, ghosts>>

\* validate_and_add_block: a block from elsewhere is refused when the state
\* root it carries is not the one this node's state leads to
validate_and_add_block(x) ==
    /\ Idle /\ Len(tip) < MaxHeight
    /\ memBridge = tip
    /\ LET b == Append(tip, x)
       IN  todo' = Commit(b, b) \o Snapshotting(b)
    /\ UNCHANGED <<disk, status, tip, finalized, memBridge, reorgs, faults, ghosts>>

\* handle_finality_cert: the canonical height key is set to the final height
Finalize(h) ==
    /\ Idle /\ h > Len(finalized) /\ h <= Len(tip)
    /\ finalized' = Prefix(tip, h)
    /\ todo' = <<Canon(h)>>
    /\ UNCHANGED <<disk, status, tip, memBridge, reorgs, faults, ghosts>>

\* The first height at which two chains differ (find_fork_point)
ForkPoint(b, c) ==
    Min({n \in 1..(Len(b) + 1) : n > Len(c) \/ n > Len(b) \/ b[n] # c[n]})

\* Mutant: the first abandoned block is not deleted.
Abandoned_late(fork) == [i \in 1..(Len(tip) - fork) |-> Delete(fork + i)]

Abandoned(fork) == [i \in 1..(Len(tip) - fork + 1) |-> Delete(fork + i - 1)]

\* Marker and batch for the blocks of c from the fork on; the states are
\* rebuilt from the blocks, so each has the bridge state of its own branch
Rewritten(c, fork) ==
    [i \in 1..(2 * (Len(c) - fork + 1)) |->
        LET b == Prefix(c, fork + (i - 1) \div 2)
        IN  IF i % 2 = 1 THEN Mark(b) ELSE Batch(b, b)]

\* try_reorg: the memory first, with BRIDGE_STATE read back from the store;
\* then the stored blocks, one by one
try_reorg(c) ==
    /\ Idle /\ reorgs < MaxReorgs
    /\ Len(c) >= Len(tip) /\ c # tip
    /\ LET fork == ForkPoint(tip, c)
       IN  /\ fork > Len(finalized)
           /\ tip' = c
           /\ memBridge' = IF bridge = {} THEN c ELSE CHOOSE br \in bridge : TRUE
           /\ snaps' = {s \in snaps : s.height < fork}
           /\ todo' = Abandoned(fork) \o Rewritten(c, fork) \o <<SaveLast(c)>>
    /\ reorgs' = reorgs + 1
    /\ UNCHANGED <<blocks, index, last, canonical, marker, bridge, bridgeAt>>
    /\ UNCHANGED <<status, finalized, faults, ghosts>>

-----------------------------------------------------------------------------
(* Faults *)

Fault == faults < MaxFaults /\ faults' = faults + 1

StoringGenesis == \E i \in DOMAIN todo : todo[i].w = "batch" /\ todo[i].b = Genesis

\* A write returns an error.  A marker or batch that fails ends the handler;
\* the results of the other writes are ignored.
WriteFails ==
    /\ Fault
    /\ todo # <<>> /\ Head(todo).w # "push"
    /\ todo' = IF Head(todo).w \in {"mark", "batch"} THEN <<>> ELSE Tail(todo)
    /\ scars' = scars \cup (IF Reorganising THEN {"cut reorg"} ELSE {})
                      \cup (IF StoringGenesis THEN {"no genesis"} ELSE {})
    /\ UNCHANGED <<disk, status, tip, finalized, memBridge, reorgs, committed>>

Crash ==
    /\ Fault
    /\ status = "up"
    /\ status' = "down"
    /\ todo' = <<>>
    /\ tip' = Genesis /\ finalized' = Genesis /\ memBridge' = Genesis
    /\ scars' = IF Reorganising THEN scars \cup {"cut reorg"} ELSE scars
    /\ UNCHANGED <<disk, reorgs, committed>>

\* A HEIGHT entry is lost, the damage --repair-db is there for
LoseIndex(b) ==
    /\ Fault
    /\ status = "down" /\ b \in index
    /\ index' = index \ {b}
    /\ UNCHANGED <<blocks, last, canonical, marker, bridge, bridgeAt, snaps>>
    /\ scars' = scars \cup {"lost entry"}
    /\ UNCHANGED <<memory, reorgs, committed>>

-----------------------------------------------------------------------------
(* Opening the store *)

Lookup(h) == At(index, h) \cap blocks

PreviousHeight(h) == IF h > 0 THEN h - 1 ELSE 0

\* recover_interrupted_commit: the store as it is after opening
Recovered ==
    IF marker = {}
    THEN [blocks |-> blocks, index |-> index, last |-> last, canonical |-> canonical,
          bridge |-> bridge, bridgeAt |-> bridgeAt]
    ELSE LET h == CHOOSE x \in marker : TRUE
         IN  [blocks    |-> blocks \ Lookup(h),
              index     |-> index \ At(index, h),
              last      |-> IF h > 0 THEN At(index, h - 1) ELSE {},
              canonical |-> PreviousHeight(h),
              bridge    |-> IF h > 0 /\ (h - 1) \in DOMAIN bridgeAt THEN {bridgeAt[h - 1]} ELSE {},
              bridgeAt  |-> Without(bridgeAt, h)]

Opened ==
    LET r == Recovered
    IN  /\ blocks' = r.blocks /\ index' = r.index /\ last' = r.last
        /\ canonical' = r.canonical /\ bridge' = r.bridge /\ bridgeAt' = r.bridgeAt
        /\ marker' = {}

\* load_chain: from LAST back as long as the parent is stored
Walk(r) ==
    UNION {{Prefix(t, n) : n \in {k \in 0..Len(t) : \A j \in k..Len(t) : Prefix(t, j) \in r.blocks}}
             : t \in r.last}

\* The newest snapshot tells what was final.
RestoredFinal ==
    IF snaps = {} THEN Genesis
    ELSE (CHOOSE s \in snaps : \A t \in snaps : t.height <= s.height).finalized

TheTip(S) == CHOOSE b \in S : \A c \in S : Len(c) <= Len(b)

\* new_with_genesis on an empty store, or one whose LAST leads nowhere
StartEmpty ==
    /\ status = "down"
    /\ Walk(Recovered) = {}
    /\ Opened
    /\ status' = "up" /\ tip' = Genesis /\ memBridge' = Genesis
    /\ finalized' = RestoredFinal
    /\ todo' = <<Mark(Genesis), Batch(Genesis, Genesis)>>
    /\ scars' = IF blocks = {} THEN scars ELSE scars \cup {"lost chain"}
    /\ UNCHANGED <<snaps, reorgs, faults, committed>>

\* Mutant: a store with an interrupted commit is left to the operator.
BeginsAtGenesis_unmarked(r) == marker = {} /\ Genesis \in Walk(r)

BeginsAtGenesis(r) == Genesis \in Walk(r)

\* new_with_genesis on a stored chain that begins at the configured genesis
Start ==
    /\ status = "down"
    /\ BeginsAtGenesis(Recovered)
    /\ Opened
    /\ status' = "up" /\ tip' = TheTip(Walk(Recovered))
    /\ memBridge' = IF Recovered.bridge = {} THEN tip' ELSE CHOOSE br \in Recovered.bridge : TRUE
    /\ finalized' = RestoredFinal
    /\ todo' = <<>>
    /\ UNCHANGED <<snaps, reorgs, faults, ghosts>>

\* "Startup Genesis Hash mismatch": the process exits
RefuseStart ==
    /\ status = "down"
    /\ Walk(Recovered) # {} /\ Genesis \notin Walk(Recovered)
    /\ Opened
    /\ status' = "refused"
    /\ UNCHANGED <<snaps, tip, finalized, memBridge, todo, reorgs, faults, ghosts>>

\* Mutant: the walk ends before genesis.
Reindexed_short(r) == {b \in Walk(r) : Len(b) > 0}

Reindexed(r) == Walk(r)

\* repair_index, walking from LAST down: the last block it sees sets the
\* canonical height when it is genesis
repair_db ==
    /\ status = "down"
    /\ Recovered.last # {}
    /\ LET r == Recovered
           again == Reindexed(r)
       IN  /\ index' = {b \in r.index : \A c \in again : Len(c) # Len(b)} \cup again
           /\ canonical' = IF Genesis \in again THEN 0
                           ELSE Max({r.canonical} \cup {Len(b) : b \in again})
           /\ blocks' = r.blocks /\ last' = r.last
           /\ bridge' = r.bridge /\ bridgeAt' = r.bridgeAt
           /\ marker' = {}
    /\ scars' = scars \ {"lost entry"}
    /\ UNCHANGED <<snaps, memory, reorgs, faults, committed>>

Init ==
    /\ blocks = {} /\ index = {} /\ last = {} /\ canonical = 0
    /\ marker = {} /\ bridge = {} /\ bridgeAt = [h \in {} |-> Genesis] /\ snaps = {}
    /\ status = "down" /\ tip = Genesis /\ finalized = Genesis /\ memBridge = Genesis
    /\ todo = <<>> /\ reorgs = 0 /\ faults = 0
    /\ committed = Genesis /\ scars = {}

Next ==
    \/ DoWrite
    \/ \E x \in Branches : produce_block(x) \/ validate_and_add_block(x)
    \/ \E h \in 1..MaxHeight : Finalize(h)
    \/ \E c \in Paths : try_reorg(c)
    \/ WriteFails
    \/ Crash
    \/ \E b \in index : LoseIndex(b)
    \/ StartEmpty \/ Start \/ RefuseStart
    \/ repair_db

Spec == Init /\ [][Next]_vars

\* The actor finishes what it began and the operator restarts a stopped node.
FairSpec ==
    /\ Spec
    /\ WF_vars(DoWrite)
    /\ WF_vars(StartEmpty \/ Start \/ RefuseStart)

-----------------------------------------------------------------------------
(* Properties *)

\* Wherever a crash hits the commit of a block (commit_durable_batch), a
\* restart (recover_interrupted_commit, load_chain) finds exactly the blocks
\* whose batch was written, each under its height, as long as no
\* reorganisation was cut short, genesis was stored, nothing was pruned and no
\* entry was lost.
CommittedSurvives ==
    scars = {} /\ ~Reorganising =>
        \/ committed = Genesis /\ Walk(Recovered) = {}
        \/ Walk(Recovered) = Chain(committed) /\ Recovered.index = Chain(committed)

\* recover_interrupted_commit never rolls back a block that was whole: under
\* the height of the marker there is nothing, also while try_reorg rewrites
\* the heights of the chain it replaced.
RecoveryTakesNothing ==
    scars \cap {"cut reorg", "lost chain"} = {} => \A h \in marker : At(index, h) = {}

\* "We must not leave a newer BRIDGE_STATE than the restored tip": whatever
\* was cut short, the bridge state a restart loads is the copy that was
\* committed with the block it starts from (BRIDGE_STATE_AT), and none if
\* there is no copy.  There is one, unless a reorganisation was cut short or
\* the stored chain lost: then --repair-db may index a block that was left
\* behind, whose copy recover_interrupted_commit has dropped.
BridgeOfRestoredTip ==
    LET r == Recovered
        h == Len(TheTip(Walk(r)))
    IN  Walk(r) # {} =>
          /\ r.bridge = {r.bridgeAt[k] : k \in {h} \cap DOMAIN r.bridgeAt}
          /\ h \in DOMAIN r.bridgeAt \/ scars \cap {"cut reorg", "lost chain"} # {}

\* A node that goes down comes back with every block it had committed
\* (new_with_genesis), unless the store was scarred.
ComesBack ==
    status = "down" ~> (scars # {} \/ (Idle /\ tip = committed))
=============================================================================
