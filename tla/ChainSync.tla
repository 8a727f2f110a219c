------------------------------ MODULE ChainSync ------------------------------
(***************************************************************************)
(* Chain synchronisation between honest nodes: the gossip of new blocks,   *)
(* the sync round over the /sync request-response protocol (GetHeaders,    *)
(* Headers, GetBlocksRange, Blocks), its timeout and its failures, and     *)
(* what the chain does with the blocks it is handed, fork choice and       *)
(* try_reorg included (src/src/network/node.rs,                            *)
(* src/src/chain/chain_actor.rs, src/src/chain/blockchain.rs,              *)
(* src/src/consensus).                                                     *)
(*                                                                         *)
(* A block is the path of the producers from genesis to it, so its parent, *)
(* its height and the chain below it can be read off its hash.  All blocks *)
(* are valid on their parent and no checkpoint is final yet (for both see  *)
(* CheckpointFinality), every peer has completed the handshake and none is *)
(* banned.  sync_state is 1 exactly while active_sync_request is set, so   *)
(* the two are one variable.  The event loop of a node applies the blocks  *)
(* of an answer one by one, each an await on the chain actor, which may    *)
(* produce a block of its own in between.                                  *)
(***************************************************************************)
EXTENDS Integers, Sequences, FiniteSets, FiniteSetsExt

CONSTANTS
    Nodes,          \* the nodes
    Producers,      \* the nodes that produce blocks
    Order,          \* Order[n]: how the hashes of n's blocks compare
    Ids,            \* the identifiers of requests in flight
    HeaderLimit,    \* limit of GetHeaders
    MaxSyncBlocks,  \* MAX_CHAIN_SYNC_BLOCKS
    MaxReorgDepth,  \* MAX_REORG_DEPTH
    LocatorSize,    \* how many hashes get_locator puts in a locator
    MaxHeight,      \* bound: MaxHeight[n], up to which height n produces
    MaxFaults       \* bound: lost messages, rounds closed by the sweep and
                    \* rounds opened by the operator

ASSUME SyncAssumption ==
    /\ Producers \subseteq Nodes /\ Order \in [Nodes -> Nat]
    /\ Ids \subseteq Nat \ {0}
    /\ HeaderLimit \in Nat \ {0} /\ MaxSyncBlocks \in Nat \ {0}
    /\ MaxReorgDepth \in Nat /\ LocatorSize \in Nat \ {0}
    /\ MaxHeight \in [Nodes -> Nat] /\ MaxFaults \in Nat

Block == Seq(Nodes)
Genesis == <<>>
Idle == 0

VARIABLES
    tip,      \* tip[n]: the last block of n's chain, hence the chain
    inbox,    \* inbox[n]: the gossiped blocks n has yet to receive
    active,   \* active[n]: the request n's sync round waits for, or Idle
    wire,     \* the requests and answers in flight
    batch,    \* batch[n]: the blocks of an answer n is adding one by one
    faults    \* how many of the events MaxFaults bounds there were

vars == <<tip, inbox, active, wire, batch, faults>>

(* What travels over /sync: "GetHeaders" with the blocks of the locator,   *)
(* "Headers" and "Blocks" with a run of consecutive blocks of the peer's   *)
(* chain, "GetBlocksRange" with a half-open range of heights.              *)
Message == [node : Nodes, peer : Nodes, id : Ids,
            kind : {"GetHeaders", "Headers", "GetBlocksRange", "Blocks"},
            locator : SUBSET Block, blocks : Seq(Block), range : Nat \X Nat]

(* The block of height h on the chain that ends in b.                      *)
At(b, h) == SubSeq(b, 1, h)
Extends(b, a) == Len(a) <= Len(b) /\ At(b, Len(a)) = a

(* The blocks of heights from..upto-1 of b's chain, in order.              *)
Run(b, from, upto) ==
    [i \in 1..(IF upto > from THEN upto - from ELSE 0) |-> At(b, from + i - 1)]

(* The chain that ends in b as the vector the node keeps.                  *)
Vector(b) == Run(b, 0, Len(b) + 1)

Init ==
    /\ tip = [n \in Nodes |-> Genesis]
    /\ inbox = [n \in Nodes |-> {}]
    /\ active = [n \in Nodes |-> Idle]
    /\ wire = {}
    /\ batch = [n \in Nodes |-> <<>>]
    /\ faults = 0

-----------------------------------------------------------------------------
(* Fork choice and reorganisation.                                         *)

(* split_resolver: the lower hash wins among tips of one height.           *)
LowerHash(a, b) ==
    \E i \in 1..Len(a) : At(a, i - 1) = At(b, i - 1) /\ Order[a[i]] < Order[b[i]]

(* is_better_chain: the longer slice, and among equals the tip the         *)
(* resolver prefers.                                                       *)
is_better_chain(current, candidate) ==
    LET ours == current[Len(current)]
        theirs == candidate[Len(candidate)]
    IN \/ Len(candidate) > Len(current)
       \/ /\ Len(candidate) = Len(current)
          /\ \/ Len(theirs) > Len(ours)
             \/ Len(theirs) = Len(ours) /\ LowerHash(theirs, ours)

(* find_fork_point: the first POSITION where the two slices differ, a set  *)
(* of at most one.                                                         *)
find_fork_point(ours, theirs) ==
    LET common == IF Len(ours) < Len(theirs) THEN Len(ours) ELSE Len(theirs)
        differ == {i \in 1..common : ours[i] # theirs[i]}
    IN IF differ # {} THEN {Min(differ) - 1}
       ELSE IF Len(ours) # Len(theirs) THEN {common} ELSE {}

(* validate_candidate_chain: from the configured genesis, each block on    *)
(* the one before it.                                                      *)
ValidChain(chain) ==
    /\ chain[1] = Genesis
    /\ \A i \in 2..Len(chain) :
          Len(chain[i]) = i - 1 /\ At(chain[i], i - 2) = chain[i - 1]

(* try_reorg, the chain part: the tip it leaves.                           *)
try_reorg(b, candidate) ==
    LET fork == find_fork_point(Vector(b), candidate)
    IN IF /\ is_better_chain(Vector(b), candidate)
          /\ \E f \in fork : f # 0 /\ Len(b) + 1 - f <= MaxReorgDepth
          /\ ValidChain(candidate)
       THEN candidate[Len(candidate)]
       ELSE b

(* validate_and_add_block: only the next height, only on our tip.          *)
Accepts(b, block) == Len(block) = Len(b) + 1 /\ At(block, Len(b)) = b

validate_and_add_block(b, block) == IF Accepts(b, block) THEN block ELSE b

-----------------------------------------------------------------------------
(* Sync rounds.                                                            *)

(* get_locator: the tip and blocks at distances 1, 3, 7, ... below it; the *)
(* genesis block only when there is no other.                              *)
get_locator(b) ==
    IF Len(b) = 0 THEN {Genesis}
    ELSE {At(b, h) : h \in {Len(b) - (2^k - 1) : k \in 0..LocatorSize-1} \cap 1..Len(b)}

(* Mutant: the answer starts one block too high.                           *)
FirstHeight_skips_one(b, locator) ==
    LET known == {Len(a) : a \in {l \in locator : Extends(b, l)}}
    IN IF known = {} THEN 0 ELSE Max(known) + 2

(* find_common_height and the first height the server answers with.        *)
FirstHeight(b, locator) ==
    LET known == {Len(a) : a \in {l \in locator : Extends(b, l)}}
    IN IF known = {} THEN 0 ELSE Max(known) + 1

(* Mutant: the header of the tip is never part of an answer.               *)
Upto_without_tip(h, limit, b) == IF h + limit <= Len(b) THEN h + limit ELSE Len(b)

Upto(h, limit, b) == IF h + limit <= Len(b) + 1 THEN h + limit ELSE Len(b) + 1

Busy(n) == batch[n] # <<>>

(* The identifier of n's next request, a set of at most one: one that no   *)
(* message in flight bears, the least of them.                             *)
Unused(n) == {i \in Ids : i # active[n] /\ \A m \in wire : m.node = n => m.id # i}
Fresh(n) == {i \in Unused(n) : \A j \in Unused(n) : i <= j}

(* The half-open range of heights a run of headers covers.                 *)
RangeOf(headers) == <<Len(headers[1]), Len(headers[Len(headers)]) + 1>>

GetHeaders(n, p, i) ==
    [node |-> n, peer |-> p, id |-> i, kind |-> "GetHeaders",
     locator |-> get_locator(tip[n]), blocks |-> <<>>, range |-> <<0, 0>>]

GetBlocksRange(n, p, i, range) ==
    [node |-> n, peer |-> p, id |-> i, kind |-> "GetBlocksRange",
     locator |-> {}, blocks |-> <<>>, range |-> range]

Answer(m, kind, blocks) ==
    [node |-> m.node, peer |-> m.peer, id |-> m.id, kind |-> kind,
     locator |-> {}, blocks |-> blocks, range |-> <<0, 0>>]

(* request_headers_from_peer: opens a round unless one is open.            *)
request_headers_from_peer(n, p) ==
    IF active[n] # Idle THEN UNCHANGED <<active, wire>>
    ELSE \E i \in Fresh(n) :
            /\ active' = [active EXCEPT ![n] = i]
            /\ wire' = wire \cup {GetHeaders(n, p, i)}

clear_sync_round(n) == active' = [active EXCEPT ![n] = Idle]

-----------------------------------------------------------------------------
(* The chain actor produces a block and gossips it.                        *)
ProduceBlock(n) ==
    /\ n \in Producers /\ Len(tip[n]) < MaxHeight[n]
    /\ LET block == Append(tip[n], n)
       IN /\ tip' = [tip EXCEPT ![n] = block]
          /\ inbox' = [p \in Nodes |-> IF p = n THEN inbox[p] ELSE inbox[p] \cup {block}]
    /\ UNCHANGED <<active, wire, batch, faults>>

(* A gossiped block reaches n through its peer p.  The duplicate filter    *)
(* lets it through once; gossip may also lose it (it is never received).   *)
ReceiveBlock(n, p) ==
    /\ ~Busy(n)
    /\ \E block \in inbox[n] :
          /\ inbox' = [inbox EXCEPT ![n] = @ \ {block}]
          /\ IF Len(block) = Len(tip[n]) + 1
             THEN /\ tip' = [tip EXCEPT ![n] = validate_and_add_block(@, block)]
                  /\ UNCHANGED <<active, wire>>
             ELSE /\ IF Extends(tip[n], block)
                     THEN UNCHANGED <<active, wire>>
                     ELSE request_headers_from_peer(n, p)
                  /\ UNCHANGED tip
    /\ UNCHANGED <<batch, faults>>

(* The operator's sync command.                                            *)
RequestSync(n, p) ==
    /\ faults < MaxFaults /\ faults' = faults + 1
    /\ ~Busy(n) /\ active[n] = Idle
    /\ request_headers_from_peer(n, p)
    /\ UNCHANGED <<tip, inbox, batch>>

(* sync_if_behind: a handshake tells n that p is ahead.                    *)
SyncIfBehind(n, p) ==
    /\ ~Busy(n) /\ active[n] = Idle /\ Len(tip[p]) > Len(tip[n])
    /\ request_headers_from_peer(n, p)
    /\ UNCHANGED <<tip, inbox, batch, faults>>

(* The peer answers GetHeaders from its chain as it is then.               *)
AnswerGetHeaders(m) ==
    /\ m.kind = "GetHeaders" /\ ~Busy(m.peer)
    /\ LET b == tip[m.peer]
           from == FirstHeight(b, m.locator)
       IN wire' = (wire \ {m}) \cup
             {Answer(m, "Headers", Run(b, from, Upto(from, HeaderLimit, b)))}
    /\ UNCHANGED <<tip, inbox, active, batch, faults>>

(* The peer answers GetBlocksRange, cut at its tip and MAX_CHAIN_SYNC_BLOCKS. *)
AnswerGetBlocksRange(m) ==
    /\ m.kind = "GetBlocksRange" /\ ~Busy(m.peer)
    /\ LET b == tip[m.peer]
           from == m.range[1]
           upto == Min({m.range[2], Len(b) + 1, from + MaxSyncBlocks})
       IN wire' = (wire \ {m}) \cup {Answer(m, "Blocks", Run(b, from, upto))}
    /\ UNCHANGED <<tip, inbox, active, batch, faults>>

(* Mutant: the round still waits for its first request.                    *)
HandleHeaders_keeps_id(m) ==
    /\ m.kind = "Headers" /\ ~Busy(m.node)
    /\ IF active[m.node] # m.id
       THEN wire' = wire \ {m} /\ UNCHANGED active
       ELSE IF m.blocks = <<>>
       THEN wire' = wire \ {m} /\ clear_sync_round(m.node)
       ELSE \E i \in Fresh(m.node) :
               /\ UNCHANGED active
               /\ wire' = (wire \ {m}) \cup
                     {GetBlocksRange(m.node, m.peer, i, RangeOf(m.blocks))}
    /\ UNCHANGED <<tip, inbox, batch, faults>>

(* The Headers arm of a response: an answer to another request is dropped, *)
(* an empty one closes the round, any other asks the same peer for the     *)
(* blocks, which gives the round a new request.                            *)
HandleHeaders(m) ==
    /\ m.kind = "Headers" /\ ~Busy(m.node)
    /\ IF active[m.node] # m.id
       THEN wire' = wire \ {m} /\ UNCHANGED active
       ELSE IF m.blocks = <<>>
       THEN wire' = wire \ {m} /\ clear_sync_round(m.node)
       ELSE \E i \in Fresh(m.node) :
               /\ active' = [active EXCEPT ![m.node] = i]
               /\ wire' = (wire \ {m}) \cup
                     {GetBlocksRange(m.node, m.peer, i, RangeOf(m.blocks))}
    /\ UNCHANGED <<tip, inbox, batch, faults>>

(* The Blocks arm: when our block at the first height differs, the whole   *)
(* slice goes to try_reorg; otherwise the blocks are added one by one.     *)
HandleBlocks(m) ==
    /\ m.kind = "Blocks" /\ ~Busy(m.node)
    /\ wire' = wire \ {m}
    /\ LET n == m.node
           conflict == LET first == m.blocks[1]
                       IN Len(first) <= Len(tip[n]) /\ ~Extends(tip[n], first)
       IN IF active[n] # m.id
          THEN UNCHANGED <<tip, active, batch>>
          ELSE IF m.blocks = <<>>
          THEN clear_sync_round(n) /\ UNCHANGED <<tip, batch>>
          ELSE IF conflict
          THEN /\ tip' = [tip EXCEPT ![n] = try_reorg(@, m.blocks)]
               /\ clear_sync_round(n)
               /\ UNCHANGED batch
          ELSE /\ batch' = [batch EXCEPT ![n] = m.blocks]
               /\ UNCHANGED <<tip, active>>
    /\ UNCHANGED <<inbox, faults>>

(* The next block of the answer; the round closes after the last one.      *)
AddNext(n) ==
    /\ Busy(n)
    /\ tip' = [tip EXCEPT ![n] = validate_and_add_block(@, Head(batch[n]))]
    /\ batch' = [batch EXCEPT ![n] = Tail(@)]
    /\ IF Len(batch[n]) = 1 THEN clear_sync_round(n) ELSE UNCHANGED active
    /\ UNCHANGED <<inbox, wire, faults>>

(* OutboundFailure: the request or its answer is lost; only the request of *)
(* the active round closes it.                                             *)
OutboundFailure(m) ==
    /\ faults < MaxFaults /\ faults' = faults + 1
    /\ ~Busy(m.node)
    /\ wire' = wire \ {m}
    /\ IF active[m.node] = m.id THEN clear_sync_round(m.node) ELSE UNCHANGED active
    /\ UNCHANGED <<tip, inbox, batch>>

(* The SYNC_TIMEOUT_SECS sweep: the answer may still be under way.         *)
TimeoutSweep(n) ==
    /\ faults < MaxFaults /\ faults' = faults + 1
    /\ ~Busy(n) /\ active[n] # Idle
    /\ clear_sync_round(n)
    /\ UNCHANGED <<tip, inbox, wire, batch>>

Peers(n) == Nodes \ {n}

RoundStep(m) ==
    AnswerGetHeaders(m) \/ AnswerGetBlocksRange(m) \/ HandleHeaders(m) \/ HandleBlocks(m)

Next ==
    \/ \E n \in Nodes : ProduceBlock(n) \/ AddNext(n) \/ TimeoutSweep(n)
    \/ \E n \in Nodes : \E p \in Peers(n) :
          ReceiveBlock(n, p) \/ RequestSync(n, p) \/ SyncIfBehind(n, p)
    \/ \E m \in wire :
          RoundStep(m) \/ OutboundFailure(m)

Spec == Init /\ [][Next]_vars

(* The event loops run and serve what is queued for them in its turn (a    *)
(* loop that is adding blocks gets to it afterwards), and a peer that is   *)
(* ahead keeps saying so: every block it produces and every new connection *)
(* does.                                                                   *)
Fairness ==
    /\ \A n \in Nodes : WF_vars(AddNext(n))
    /\ \A n \in Nodes : \A p \in Peers(n) : SF_vars(SyncIfBehind(n, p))
    /\ \A n \in Nodes : SF_vars(\E m \in wire : m.node = n /\ RoundStep(m))

FairSpec == Spec /\ Fairness

-----------------------------------------------------------------------------
TypeOK ==
    /\ tip \in [Nodes -> Block]
    /\ inbox \in [Nodes -> SUBSET Block]
    /\ active \in [Nodes -> Ids \cup {Idle}]
    /\ wire \subseteq Message
    /\ batch \in [Nodes -> Seq(Block)]
    /\ faults \in 0..MaxFaults

(* The blocks on the way to a node in answer to its round never start      *)
(* beyond the block after its tip, and while they are added one by one     *)
(* the next never leaves a gap unless a block of the node's own came       *)
(* between: locator, common height, range and cut fit together although    *)
(* both chains move in between.                                            *)
NoGap ==
    \A n \in Nodes :
       /\ \A m \in wire : m.node = n /\ m.blocks # <<>>
                             => Len(m.blocks[1]) <= Len(tip[n]) + 1
       /\ Busy(n) /\ Extends(batch[n][Len(batch[n])], tip[n])
             => Len(batch[n][1]) <= Len(tip[n]) + 1

(* An open round is always waiting for exactly one message in flight or    *)
(* for blocks being added: late answers of earlier rounds never take its   *)
(* place, and it is never left to the timeout alone.                       *)
RoundIsServed ==
    \A n \in Nodes :
       active[n] # Idle =>
          Cardinality({m \in wire : m.node = n /\ m.id = active[n]})
             = (IF Busy(n) THEN 0 ELSE 1)

(* A node that is behind on a peer's chain reaches the peer's tip, through *)
(* lost messages, lost gossip and answers cut at MAX_CHAIN_SYNC_BLOCKS,    *)
(* unless a block of its own takes it off that chain first.                *)
CatchesUpOrForks ==
    \A n \in Nodes : \A p \in Peers(n) :
       (Len(tip[p]) = MaxHeight[p]) ~> (Extends(tip[n], tip[p]) \/ ~Extends(tip[p], tip[n]))

(* Whatever a node is sent, its chain only ever grows: no block it has     *)
(* taken is replaced through gossip or synchronisation.  try_reorg is      *)
(* called only when the first block handed over differs from ours at its   *)
(* height, and it compares the slice from position 0, so it always sees a  *)
(* fork at genesis.  This is why ForksResolve fails.                       *)
ChainsOnlyGrow == [][\A n \in Nodes : Extends(tip'[n], tip[n])]_vars

(* What pos.rs says of honest nodes, that they "converge on the same tip", *)
(* and node.rs of the round opened for a fork, "sync to resolve fork": a   *)
(* node on a shorter branch than a peer that has stopped producing, the    *)
(* two sharing their first block, ends up on the peer's chain, unless it   *)
(* outgrows it.                                                            *)
ForksResolve ==
    \A n \in Nodes : \A p \in Peers(n) :
       (/\ Len(tip[p]) = MaxHeight[p] /\ Len(tip[n]) \in 1..(Len(tip[p]) - 1)
        /\ At(tip[n], 1) = At(tip[p], 1))
       ~> (Extends(tip[n], tip[p]) \/ Len(tip[n]) >= Len(tip[p]))
=============================================================================
