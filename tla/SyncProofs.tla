----------------------------- MODULE SyncProofs -----------------------------
(***************************************************************************)
(* Theorems about ChainSync, for any nodes, limits and numbers of faults.  *)
(* The inductive invariant says what is in flight for each node: one       *)
(* message at most for an open round, a locator and a range that begin no  *)
(* higher than the block after the node's tip, and runs of consecutive     *)
(* blocks of one chain.                                                    *)
(***************************************************************************)
EXTENDS ChainSync, SequenceTheorems, WellFoundedInduction, FiniteSetTheorems, TLAPS

\* Consecutive blocks of one chain.
IsRun(bs) ==
    \E b \in Block : \E from \in Nat :
        /\ from + Len(bs) <= Len(b) + 1
        /\ \A i \in 1..Len(bs) : bs[i] = At(b, from + i - 1)

\* The messages in flight for the open round of a node.
Serving(n) == {m \in wire : m.node = n /\ m.id = active[n]}

\* An open round waits for one message, or for blocks being added; a node
\* adds blocks only in an open round.
Round(n) ==
    /\ Busy(n) => active[n] # Idle
    /\ active[n] # Idle =>
          IF Busy(n) THEN Serving(n) = {} ELSE \E m \in wire : Serving(n) = {m}

\* What a node asked for, and what it is sent, begins no higher than the
\* block after its tip.
InFlight(m) ==
    /\ \A a \in m.locator : Len(a) <= Len(tip[m.node])
    /\ m.range[1] <= Len(tip[m.node]) + 1
    /\ IsRun(m.blocks)
    /\ m.blocks # <<>> => Len(m.blocks[1]) <= Len(tip[m.node]) + 1

\* So do the blocks it is adding, as long as they are of its chain.
Adding(n) ==
    /\ IsRun(batch[n])
    /\ Busy(n) /\ Extends(batch[n][Len(batch[n])], tip[n])
          => Len(batch[n][1]) <= Len(tip[n]) + 1

SyncInv ==
    /\ TypeOK
    /\ \A m \in wire : InFlight(m)
    /\ \A n \in Nodes : Round(n) /\ Adding(n)

-----------------------------------------------------------------------------
(* Blocks and the chains below them.                                       *)

\* The block of a height the chain has.
LEMMA AtBlock ==
    ASSUME NEW b \in Block, NEW h \in 0..Len(b)
    PROVE  /\ At(b, h) \in Block /\ Len(At(b, h)) = h
           /\ \A i \in 1..h : At(b, h)[i] = b[i]
BY DEF At, Block

\* A block is the block of its own height.
LEMMA AtTop ==
    ASSUME NEW b \in Block
    PROVE  At(b, Len(b)) = b
BY SubSeqFull DEF At, Block

\* The chain below a block of a chain is the chain's.
LEMMA AtAt ==
    ASSUME NEW b \in Block, NEW h \in 0..Len(b), NEW k \in 0..h
    PROVE  At(At(b, h), k) = At(b, k)
<1>1. At(b, h) \in Block /\ Len(At(b, h)) = h /\ \A i \in 1..h : At(b, h)[i] = b[i]
    BY AtBlock
<1>2. /\ At(At(b, h), k) \in Block /\ Len(At(At(b, h), k)) = k
      /\ \A i \in 1..k : At(At(b, h), k)[i] = At(b, h)[i]
    BY <1>1, AtBlock
<1>3. k \in 0..Len(b) /\ At(b, k) \in Block /\ Len(At(b, k)) = k
      /\ \A i \in 1..k : At(b, k)[i] = b[i]
    <2>1. k \in 0..Len(b)
        BY LenProperties DEF Block
    <2> QED
        BY <2>1, AtBlock
<1>4. \A i \in 1..k : At(At(b, h), k)[i] = At(b, k)[i]
    BY <1>1, <1>2, <1>3
<1> QED
    BY <1>2, <1>3, <1>4, SeqEqual DEF Block

\* Every chain extends itself, genesis, and its shorter parts.
LEMMA ExtendsSelf ==
    ASSUME NEW b \in Block
    PROVE  Extends(b, b) /\ Extends(b, Genesis)
<1>1. Extends(b, b)
    BY AtTop, LenProperties DEF Extends, Block
<1>2. Len(Genesis) = 0 /\ SubSeq(b, 1, 0) = << >> /\ Len(b) \in Nat
    BY DEF Genesis, Block
<1> QED
    BY <1>1, <1>2 DEF Extends, At, Genesis

\* A chain that extends one extends what that one extends.
LEMMA ExtendsTrans ==
    ASSUME NEW a \in Block, NEW b \in Block, NEW c \in Block, Extends(c, b), Extends(b, a)
    PROVE  Extends(c, a)
<1>1. Len(a) \in 0..Len(b) /\ Len(b) \in 0..Len(c) /\ At(c, Len(b)) = b
    BY DEF Extends, Block
<1>2. At(At(c, Len(b)), Len(a)) = At(c, Len(a))
    BY <1>1, AtAt, SMTT(20)
<1>3. At(c, Len(a)) = a
    BY <1>1, <1>2 DEF Extends
<1>4. Len(a) <= Len(c)
    BY <1>1, LenProperties DEF Block
<1> QED
    BY <1>3, <1>4 DEF Extends

\* A produced block extends the tip.
LEMMA ProducedExtends ==
    ASSUME NEW b \in Block, NEW n \in Nodes
    PROVE  /\ Append(b, n) \in Block /\ Len(Append(b, n)) = Len(b) + 1
           /\ Extends(Append(b, n), b)
<1>1. Append(b, n) \in Block /\ Len(Append(b, n)) = Len(b) + 1
      /\ \A i \in 1..Len(b) : Append(b, n)[i] = b[i]
    BY AppendProperties DEF Block
<1>2. Len(b) \in 0..Len(Append(b, n))
    BY <1>1, LenProperties DEF Block
<1>3. /\ At(Append(b, n), Len(b)) \in Block /\ Len(At(Append(b, n), Len(b))) = Len(b)
      /\ \A i \in 1..Len(b) : At(Append(b, n), Len(b))[i] = Append(b, n)[i]
    BY <1>1, <1>2, AtBlock
<1>4. At(Append(b, n), Len(b)) = b
    BY <1>1, <1>3, SeqEqual DEF Block
<1> QED
    BY <1>1, <1>2, <1>4 DEF Extends

-----------------------------------------------------------------------------
(* Runs of blocks.                                                         *)

\* No block is a run.
LEMMA EmptyRun == IsRun(<<>>)
<1>1. Genesis \in Block /\ Len(Genesis) = 0
    BY EmptySeq DEF Genesis, Block
<1>2. Len(<<>>) = 0
    BY EmptySeq
<1> QED
    BY <1>1, <1>2 DEF IsRun

\* The blocks of a range that ends at the tip or below it.
LEMMA RunFacts ==
    ASSUME NEW b \in Block, NEW from \in Nat, NEW upto \in Nat, upto <= Len(b) + 1
    PROVE  /\ Run(b, from, upto) \in Seq(Block) /\ IsRun(Run(b, from, upto))
           /\ Run(b, from, upto) # <<>> => Len(Run(b, from, upto)[1]) = from
<1>0. Len(b) \in Nat
    BY LenProperties DEF Block
<1>1. CASE upto <= from
    <2>1. Run(b, from, upto) = <<>>
        BY <1>1 DEF Run
    <2> QED
        BY <2>1, EmptyRun, EmptySeq
<1>2. CASE upto > from
    <2> DEFINE k == upto - from
               s == Run(b, from, upto)
    <2>1. k \in Nat /\ k >= 1 /\ from + k <= Len(b) + 1
        BY <1>0, <1>2
    <2>2. s = [i \in 1..k |-> At(b, from + i - 1)]
        BY <1>2 DEF Run
    <2>3. \A i \in 1..k : At(b, from + i - 1) \in Block /\ Len(At(b, from + i - 1)) = from + i - 1
        <3> SUFFICES ASSUME NEW i \in 1..k
                     PROVE  At(b, from + i - 1) \in Block /\ Len(At(b, from + i - 1)) = from + i - 1
            OBVIOUS
        <3>1. from + i - 1 \in 0..Len(b)
            BY <1>0, <2>1
        <3> HIDE DEF k
        <3> QED
            BY <3>1, AtBlock
    <2> HIDE DEF k, s
    <2>4. s \in Seq(Block) /\ Len(s) = k
        <3>1. s \in [1..k -> Block]
            BY <2>2, <2>3
        <3> QED
            BY <2>1, <3>1
    <2>5. \A i \in 1..Len(s) : s[i] = At(b, from + i - 1)
        BY <2>2, <2>4
    <2>6. IsRun(s)
        BY <2>1, <2>4, <2>5 DEF IsRun
    <2>7. Len(s[1]) = from
        <3>1. 1 \in 1..k
            BY <2>1
        <3>2. s[1] = At(b, from + 1 - 1) /\ Len(At(b, from + 1 - 1)) = from + 1 - 1
            BY <2>3, <2>4, <2>5, <3>1
        <3> QED
            BY <3>2
    <2> QED
        BY <2>4, <2>6, <2>7 DEF s
<1> QED
    BY <1>0, <1>1, <1>2

\* In a run the heights go up by one, and the last block extends the others.
LEMMA RunHeights ==
    ASSUME NEW bs \in Seq(Block), IsRun(bs), NEW i \in 1..Len(bs)
    PROVE  /\ bs[i] \in Block /\ bs[Len(bs)] \in Block
           /\ Len(bs[i]) = Len(bs[1]) + i - 1
           /\ Extends(bs[Len(bs)], bs[i])
<1>0. PICK b \in Block, from \in Nat :
         /\ from + Len(bs) <= Len(b) + 1
         /\ \A j \in 1..Len(bs) : bs[j] = At(b, from + j - 1)
    BY DEF IsRun
<1>1. Len(bs) \in Nat /\ Len(b) \in Nat
    BY LenProperties DEF Block
<1>2. \A j \in 1..Len(bs) : from + j - 1 \in 0..Len(b)
    BY <1>0, <1>1
<1>3. \A j \in 1..Len(bs) : bs[j] \in Block /\ Len(bs[j]) = from + j - 1
    BY <1>0, <1>2, AtBlock, ZenonT(30)
<1>4. 1 \in 1..Len(bs) /\ Len(bs) \in 1..Len(bs)
    BY <1>1
<1>5. Len(bs[1]) = from /\ Len(bs[i]) = Len(bs[1]) + i - 1
    <2>1. Len(bs[1]) = from + 1 - 1 /\ Len(bs[i]) = from + i - 1
        BY <1>3, <1>4
    <2> QED
        BY <2>1
<1>6. At(bs[Len(bs)], Len(bs[i])) = bs[i]
    <2>1. from + Len(bs) - 1 \in 0..Len(b) /\ from + i - 1 \in 0..(from + Len(bs) - 1)
        BY <1>1, <1>2, <1>4
    <2>2. At(At(b, from + Len(bs) - 1), from + i - 1) = At(b, from + i - 1)
        BY <2>1, AtAt
    <2> QED
        BY <1>0, <1>3, <1>4, <2>2
<1>7. Len(bs[i]) <= Len(bs[Len(bs)])
    BY <1>1, <1>3, <1>4
<1> QED
    BY <1>3, <1>4, <1>5, <1>6, <1>7 DEF Extends

\* What is left of a run after its first block is a run, with the same last.
LEMMA RunTail ==
    ASSUME NEW bs \in Seq(Block), IsRun(bs), bs # <<>>
    PROVE  /\ Tail(bs) \in Seq(Block) /\ IsRun(Tail(bs)) /\ Len(Tail(bs)) = Len(bs) - 1
           /\ Tail(bs) # <<>> => /\ Tail(bs)[1] = bs[2] /\ Len(bs) >= 2
                                 /\ Tail(bs)[Len(Tail(bs))] = bs[Len(bs)]
<1>0. PICK b \in Block, from \in Nat :
         /\ from + Len(bs) <= Len(b) + 1
         /\ \A j \in 1..Len(bs) : bs[j] = At(b, from + j - 1)
    BY DEF IsRun
<1>1. Len(bs) \in Nat \ {0} /\ Len(b) \in Nat
    BY LenProperties, EmptySeq DEF Block
<1>2. /\ Tail(bs) \in Seq(Block) /\ Len(Tail(bs)) = Len(bs) - 1
      /\ \A i \in 1..Len(Tail(bs)) : Tail(bs)[i] = bs[i + 1]
    BY HeadTailProperties
<1>3. IsRun(Tail(bs))
    <2>1. (from + 1) + Len(Tail(bs)) <= Len(b) + 1
        BY <1>0, <1>1, <1>2
    <2>2. \A i \in 1..Len(Tail(bs)) : Tail(bs)[i] = At(b, (from + 1) + i - 1)
        <3> SUFFICES ASSUME NEW i \in 1..Len(Tail(bs))
                     PROVE  Tail(bs)[i] = At(b, (from + 1) + i - 1)
            OBVIOUS
        <3>1. i + 1 \in 1..Len(bs) /\ from + (i + 1) - 1 = (from + 1) + i - 1
            BY <1>1, <1>2
        <3> QED
            BY <1>0, <1>2, <3>1
    <2>3. from + 1 \in Nat
        OBVIOUS
    <2> QED
        BY <2>1, <2>2, <2>3, Zenon DEF IsRun
<1>4. ASSUME Tail(bs) # <<>>
      PROVE  /\ Tail(bs)[1] = bs[2] /\ Len(bs) >= 2
             /\ Tail(bs)[Len(Tail(bs))] = bs[Len(bs)]
    <2>1. Len(Tail(bs)) \in Nat \ {0}
        BY <1>2, <1>4, EmptySeq
    <2>2. 1 \in 1..Len(Tail(bs)) /\ Len(Tail(bs)) \in 1..Len(Tail(bs))
          /\ Len(Tail(bs)) + 1 = Len(bs) /\ 1 + 1 = 2 /\ Len(bs) >= 2
        BY <1>1, <1>2, <2>1
    <2> QED
        BY <1>2, <2>2
<1> QED
    BY <1>2, <1>3, <1>4

-----------------------------------------------------------------------------
(* Locators, ranges and answers.                                           *)

\* A set of numbers that is not empty has a least member.
LEMMA LeastIn ==
    ASSUME NEW S \in SUBSET Nat, S # {}
    PROVE  Min(S) \in S /\ \A y \in S : Min(S) <= y
<1>1. PICK m \in S : \A y \in S : ~ (<<y, m>> \in OpToRel(<, Nat))
    BY NatLessThanWellFounded, WFMin
<1>2. \A y \in S : ~ (y < m)
    <2> SUFFICES ASSUME NEW y \in S, y < m PROVE FALSE
        OBVIOUS
    <2>1. y \in Nat /\ m \in Nat
        OBVIOUS
    <2>2. <<y, m>> \in OpToRel(<, Nat)
        BY <2>1, Zenon DEF OpToRel
    <2> QED
        BY <1>1, <2>2, Zenon
<1>3. \A y \in S : m <= y
    BY <1>2
<1> QED
    BY <1>3 DEF Min

\* A bounded one has a greatest.
LEMMA GreatestIn ==
    ASSUME NEW S \in SUBSET Nat, S # {}, NEW k \in Nat, \A x \in S : x <= k
    PROVE  Max(S) \in S
<1> DEFINE T == {k - x : x \in S}
<1>1. T \in SUBSET Nat /\ T # {}
    <2>1. \A x \in S : k - x \in Nat
        OBVIOUS
    <2>2. \A y \in T : y \in Nat
        BY <2>1
    <2> QED
        BY <2>2
<1>2. Min(T) \in T /\ \A y \in T : Min(T) <= y
    BY <1>1, LeastIn
<1>3. PICK x \in S : Min(T) = k - x
    BY <1>2
<1>4. \A y \in S : k - x <= k - y
    BY <1>2, <1>3
<1>5. \A y \in S : x >= y
    BY <1>4
<1> QED
    BY <1>5 DEF Max

\* The server answers from a height the client can use.
LEMMA FirstHeightBound ==
    ASSUME NEW b \in Block, NEW locator \in SUBSET Block, NEW k \in Nat,
           \A a \in locator : Len(a) <= k
    PROVE  FirstHeight(b, locator) \in Nat /\ FirstHeight(b, locator) <= k + 1
<1> DEFINE known == {Len(a) : a \in {l \in locator : Extends(b, l)}}
<1>1. known \in SUBSET Nat /\ \A x \in known : x <= k
    BY LenProperties DEF Block
<1>2. FirstHeight(b, locator) = IF known = {} THEN 0 ELSE Max(known) + 1
    BY DEF FirstHeight
<1> HIDE DEF known
<1>3. CASE known = {}
    BY <1>2, <1>3
<1>4. CASE known # {}
    <2>1. Max(known) \in known
        BY <1>1, <1>4, GreatestIn
    <2>2. Max(known) \in Nat /\ Max(known) <= k
        BY <1>1, <2>1
    <2>3. FirstHeight(b, locator) = Max(known) + 1
        BY <1>2, <1>4
    <2> QED
        BY <2>2, <2>3
<1> QED
    BY <1>3, <1>4

\* Answers end at the tip.
LEMMA UptoBound ==
    ASSUME NEW b \in Block, NEW h \in Nat, NEW limit \in Nat
    PROVE  Upto(h, limit, b) \in Nat /\ Upto(h, limit, b) <= Len(b) + 1
BY LenProperties DEF Upto, Block

\* The locator is made of blocks of the chain.
LEMMA LocatorBlocks ==
    ASSUME NEW b \in Block, NEW a \in get_locator(b)
    PROVE  a \in Block /\ Len(a) <= Len(b)
<1>0. Len(b) \in Nat
    BY LenProperties DEF Block
<1>1. \E h \in 0..Len(b) : a = At(b, h)
    <2>1. CASE Len(b) = 0
        <3>1. a = Genesis /\ At(b, 0) = Genesis
            BY <2>1, ExtendsSelf, EmptySeq DEF get_locator, Extends, Genesis
        <3> QED
            BY <1>0, <3>1
    <2>2. CASE Len(b) # 0
        <3> DEFINE K == {Len(b) - (2^k - 1) : k \in 0..LocatorSize-1}
        <3>1. a \in {At(b, h) : h \in K \cap 1..Len(b)}
            BY <2>2, Zenon DEF get_locator
        <3> HIDE DEF K
        <3> QED
            BY <1>0, <3>1
    <2> QED
        BY <2>1, <2>2
<1>2. PICK h \in 0..Len(b) : a = At(b, h)
    BY <1>1
<1> QED
    BY <1>0, <1>2, AtBlock

-----------------------------------------------------------------------------
(* The chains grow.                                                        *)

\* A step that leaves every chain alone or adds to it.
Grown ==
    /\ tip' \in [Nodes -> Block]
    /\ \A n \in Nodes : Extends(tip'[n], tip[n]) /\ Len(tip[n]) <= Len(tip'[n])

\* A new tip on top of the old one.
LEMMA GrownAt ==
    ASSUME TypeOK, NEW n \in Nodes, NEW x \in Block, Extends(x, tip[n]),
           tip' = [tip EXCEPT ![n] = x]
    PROVE  Grown
<1>1. tip \in [Nodes -> Block]
    BY DEF TypeOK
<1>2. tip' \in [Nodes -> Block] /\ tip'[n] = x /\ \A k \in Nodes \ {n} : tip'[k] = tip[k]
    BY <1>1
<1>3. \A k \in Nodes : Extends(tip[k], tip[k])
    BY <1>1, ExtendsSelf
<1>4. \A k \in Nodes : Extends(tip'[k], tip[k])
    BY <1>2, <1>3
<1> QED
    BY <1>2, <1>4 DEF Grown, Extends

\* No new tip.
LEMMA GrownNot ==
    ASSUME TypeOK, UNCHANGED tip
    PROVE  Grown
<1>1. tip \in [Nodes -> Block]
    BY DEF TypeOK
<1>2. \A k \in Nodes : Extends(tip[k], tip[k])
    BY <1>1, ExtendsSelf
<1> QED
    BY <1>1, <1>2 DEF Grown, Extends

\* validate_and_add_block keeps the chain or adds one block.
LEMMA AddedExtends ==
    ASSUME NEW b \in Block, NEW block \in Block
    PROVE  /\ validate_and_add_block(b, block) \in Block
           /\ Extends(validate_and_add_block(b, block), b)
<1>1. CASE Accepts(b, block)
    <2>1. Len(b) \in Nat /\ Len(block) \in Nat
        BY LenProperties DEF Block
    <2> QED
        BY <1>1, <2>1 DEF validate_and_add_block, Accepts, Extends
<1>2. CASE ~Accepts(b, block)
    BY <1>2, ExtendsSelf DEF validate_and_add_block
<1> QED
    BY <1>1, <1>2

\* Where it is called, try_reorg leaves the chain alone: the slice begins with
\* a block of another chain, so it does not begin at genesis.
LEMMA ReorgRefused ==
    ASSUME NEW b \in Block, NEW bs, ~Extends(b, bs[1])
    PROVE  try_reorg(b, bs) = b
<1>1. bs[1] # Genesis
    BY ExtendsSelf
<1>2. ~ValidChain(bs)
    BY <1>1, Zenon DEF ValidChain
<1> QED
    BY <1>2, Zenon DEF try_reorg

\* No step takes a block from a chain.
LEMMA StepGrows ==
    ASSUME TypeOK, [Next]_vars
    PROVE  Grown
<1>0. tip \in [Nodes -> Block] /\ wire \subseteq Message
      /\ inbox \in [Nodes -> SUBSET Block] /\ batch \in [Nodes -> Seq(Block)]
    BY DEF TypeOK
<1>1. ASSUME NEW n \in Nodes, ProduceBlock(n) PROVE Grown
    <2>1. tip' = [tip EXCEPT ![n] = Append(tip[n], n)] /\ tip[n] \in Block
        BY <1>0, <1>1 DEF ProduceBlock
    <2> QED
        BY <2>1, ProducedExtends, GrownAt
<1>2. ASSUME NEW n \in Nodes, AddNext(n) PROVE Grown
    <2>1. /\ tip' = [tip EXCEPT ![n] = validate_and_add_block(tip[n], Head(batch[n]))]
          /\ batch[n] # <<>> /\ tip[n] \in Block
        BY <1>0, <1>2 DEF AddNext, Busy
    <2>2. Head(batch[n]) \in Block
        BY <1>0, <2>1, HeadTailProperties
    <2> QED
        BY <2>1, <2>2, AddedExtends, GrownAt
<1>3. ASSUME NEW n \in Nodes, NEW p \in Peers(n), ReceiveBlock(n, p) PROVE Grown
    <2>1. PICK block \in inbox[n] :
             \/ tip' = [tip EXCEPT ![n] = validate_and_add_block(tip[n], block)]
             \/ UNCHANGED tip
        BY <1>3 DEF ReceiveBlock
    <2>2. block \in Block /\ tip[n] \in Block
        BY <1>0
    <2> QED
        BY <2>1, <2>2, AddedExtends, GrownAt, GrownNot
<1>4. ASSUME NEW m \in wire, HandleBlocks(m) PROVE Grown
    <2>1. \/ UNCHANGED tip
          \/ /\ tip' = [tip EXCEPT ![m.node] = try_reorg(tip[m.node], m.blocks)]
             /\ ~Extends(tip[m.node], m.blocks[1])
        BY <1>4 DEF HandleBlocks
    <2>2. m.node \in Nodes /\ tip[m.node] \in Block
        BY <1>0 DEF Message
    <2>3. ~Extends(tip[m.node], m.blocks[1]) => try_reorg(tip[m.node], m.blocks) = tip[m.node]
        BY <2>2, ReorgRefused
    <2> QED
        BY <2>1, <2>2, <2>3, ExtendsSelf, GrownAt, GrownNot
<1>5. ASSUME NEW n \in Nodes, NEW p \in Peers(n), RequestSync(n, p) \/ SyncIfBehind(n, p)
      PROVE  Grown
    BY <1>5, GrownNot DEF RequestSync, SyncIfBehind
<1>6. ASSUME NEW n \in Nodes, TimeoutSweep(n) PROVE Grown
    BY <1>6, GrownNot DEF TimeoutSweep
<1>7. ASSUME NEW m \in wire,
             AnswerGetHeaders(m) \/ AnswerGetBlocksRange(m) \/ HandleHeaders(m)
                \/ OutboundFailure(m)
      PROVE  Grown
    BY <1>7, GrownNot DEF AnswerGetHeaders, AnswerGetBlocksRange, HandleHeaders, OutboundFailure
<1>8. CASE UNCHANGED vars
    BY <1>8, GrownNot DEF vars
<1> QED
    BY <1>1, <1>2, <1>3, <1>4, <1>5, <1>6, <1>7, <1>8 DEF Next, RoundStep

\* What is in flight stays in order while the chains grow.
LEMMA InFlightKept ==
    ASSUME TypeOK, Grown, NEW m \in Message, InFlight(m)
    PROVE  InFlight(m)'
<1>1. m.node \in Nodes /\ m.locator \in SUBSET Block /\ m.blocks \in Seq(Block)
      /\ m.range[1] \in Nat
    BY DEF Message
<1>2. /\ Len(tip[m.node]) \in Nat /\ Len(tip'[m.node]) \in Nat
      /\ Len(tip[m.node]) <= Len(tip'[m.node])
    BY <1>1, LenProperties DEF TypeOK, Grown, Block
<1>3. \A a \in m.locator : Len(a) \in Nat
    BY <1>1, LenProperties DEF Block
<1>4. m.blocks # <<>> => Len(m.blocks[1]) \in Nat
    <2> SUFFICES ASSUME m.blocks # <<>> PROVE Len(m.blocks[1]) \in Nat
        OBVIOUS
    <2>1. 1 \in 1..Len(m.blocks)
        BY <1>1, EmptySeq
    <2>2. m.blocks[1] \in Block
        BY <1>1, <2>1, ElementOfSeq
    <2> QED
        BY <2>2, LenProperties DEF Block
<1>5. \A a \in m.locator : Len(a) <= Len(tip'[m.node])
    BY <1>2, <1>3 DEF InFlight
<1>6. m.range[1] <= Len(tip'[m.node]) + 1
    BY <1>1, <1>2 DEF InFlight
<1>7. m.blocks # <<>> => Len(m.blocks[1]) <= Len(tip'[m.node]) + 1
    BY <1>2, <1>4 DEF InFlight
<1> QED
    BY <1>5, <1>6, <1>7 DEF InFlight

\* So do the blocks a node is adding.
LEMMA AddingKept ==
    ASSUME TypeOK, Grown, NEW n \in Nodes, Adding(n), batch'[n] = batch[n]
    PROVE  Adding(n)'
<1>1. tip[n] \in Block /\ tip'[n] \in Block /\ batch[n] \in Seq(Block)
    BY DEF TypeOK, Grown
<1>2. Extends(tip'[n], tip[n]) /\ Len(tip[n]) <= Len(tip'[n])
    BY DEF Grown
<1>3. ASSUME batch[n] # <<>>, Extends(batch[n][Len(batch[n])], tip'[n])
      PROVE  Len(batch[n][1]) <= Len(tip'[n]) + 1
    <2>1. 1 \in 1..Len(batch[n]) /\ Len(batch[n]) \in 1..Len(batch[n])
        BY <1>1, <1>3, EmptySeq
    <2>2. batch[n][1] \in Block /\ batch[n][Len(batch[n])] \in Block
        BY <1>1, <2>1, ElementOfSeq
    <2>3. Extends(batch[n][Len(batch[n])], tip[n])
        BY <1>1, <1>2, <1>3, <2>2, ExtendsTrans
    <2>4. Len(batch[n][1]) <= Len(tip[n]) + 1
        BY <1>3, <2>3 DEF Adding, Busy
    <2>5. Len(batch[n][1]) \in Nat /\ Len(tip[n]) \in Nat /\ Len(tip'[n]) \in Nat
        BY <1>1, <2>2, LenProperties DEF Block
    <2> QED
        BY <1>2, <2>4, <2>5
<1> QED
    BY <1>3 DEF Adding, Busy

-----------------------------------------------------------------------------
(* What each kind of step does to the messages.                            *)

\* What was in flight before a step is still in order after it.
LEMMA WireKept ==
    ASSUME SyncInv, [Next]_vars
    PROVE  wire \subseteq Message /\ \A m \in wire : InFlight(m)'
<1>1. TypeOK /\ Grown /\ wire \subseteq Message
    BY StepGrows DEF SyncInv, TypeOK
<1> QED
    BY <1>1, InFlightKept DEF SyncInv

\* The messages and the round of the other nodes are left alone.
LEMMA RoundKept ==
    ASSUME NEW n \in Nodes, Round(n), active'[n] = active[n], batch'[n] = batch[n],
           \A m : m.node = n => (m \in wire' <=> m \in wire)
    PROVE  Round(n)'
<1>1. Serving(n)' = Serving(n)
    BY DEF Serving
<1> QED
    BY <1>1 DEF Round, Busy, Serving

\* A closed round.
LEMMA RoundClosed ==
    ASSUME NEW n \in Nodes, active'[n] = Idle, batch'[n] = <<>>
    PROVE  Round(n)'
BY DEF Round, Busy

\* A new request opens the round of a node that is not adding blocks.
LEMMA RoundOpened ==
    ASSUME NEW n \in Nodes, batch[n] = <<>>, batch'[n] = batch[n], NEW i \in Fresh(n),
           active'[n] = i, NEW W, W \subseteq wire, NEW q, q.node = n, q.id = i,
           wire' = W \cup {q}
    PROVE  Round(n)'
<1>1. \A m \in wire : m.node = n => m.id # i
    BY DEF Fresh, Unused
<1>2. Serving(n)' = {q}
    BY <1>1 DEF Serving
<1> QED
    BY <1>2 DEF Round, Busy

\* An answer takes the place of the request.
LEMMA RoundAnswered ==
    ASSUME NEW n \in Nodes, Round(n), active'[n] = active[n], batch'[n] = batch[n],
           NEW m \in wire, NEW a, a.node = m.node, a.id = m.id,
           wire' = (wire \ {m}) \cup {a}
    PROVE  Round(n)'
<1>1. CASE m \in Serving(n)
    <2>1. active[n] # Idle => ~Busy(n) /\ Serving(n) = {m}
        BY <1>1 DEF Round
    <2>2. active[n] # Idle => Serving(n)' = {a}
        BY <1>1, <2>1 DEF Serving
    <2> QED
        BY <2>1, <2>2 DEF Round, Busy
<1>2. CASE m \notin Serving(n)
    <2>1. Serving(n)' = Serving(n)
        BY <1>2 DEF Serving
    <2>2. \A s : Serving(n) = {s} => s \in wire'
        BY <1>2 DEF Serving
    <2> QED
        BY <2>1, <2>2 DEF Round, Busy
<1> QED
    BY <1>1, <1>2

\* A message of no open round is taken from the wire.
LEMMA RoundIgnores ==
    ASSUME NEW n \in Nodes, Round(n), active'[n] = active[n], batch'[n] = batch[n],
           NEW m, m \notin Serving(n), wire' = wire \ {m}
    PROVE  Round(n)'
<1>1. Serving(n)' = Serving(n)
    BY DEF Serving
<1> QED
    BY <1>1 DEF Round, Busy, Serving

-----------------------------------------------------------------------------
(* Every step keeps the invariant.                                         *)

\* A step that neither touches rounds nor what is in flight.
LEMMA QuietStep ==
    ASSUME SyncInv, [Next]_vars, UNCHANGED <<active, wire, batch, faults>>,
           inbox' \in [Nodes -> SUBSET Block]
    PROVE  SyncInv'
<1>1. TypeOK /\ Grown
    BY StepGrows DEF SyncInv
<1>2. TypeOK'
    BY <1>1 DEF TypeOK, Grown
<1>3. \A m \in wire' : InFlight(m)'
    BY WireKept
<1>4. \A n \in Nodes : Adding(n)'
    BY <1>1, AddingKept DEF SyncInv
<1>5. \A n \in Nodes : Round(n)'
    BY RoundKept DEF SyncInv
<1> QED
    BY <1>2, <1>3, <1>4, <1>5 DEF SyncInv

\* A produced block.
LEMMA ProduceStep ==
    ASSUME SyncInv, NEW n \in Nodes, ProduceBlock(n)
    PROVE  SyncInv'
<1>0. [Next]_vars
    BY DEF Next
<1>1. Append(tip[n], n) \in Block
    BY ProducedExtends DEF SyncInv, TypeOK
<1>2. inbox' \in [Nodes -> SUBSET Block]
    BY <1>1 DEF ProduceBlock, SyncInv, TypeOK
<1> QED
    BY <1>0, <1>2, QuietStep DEF ProduceBlock

\* The node asks a peer for headers; its tip may not move in the same step.
LEMMA RequestStep ==
    ASSUME SyncInv, [Next]_vars, NEW n \in Nodes, NEW p \in Peers(n),
           batch[n] = <<>>, active[n] = Idle, request_headers_from_peer(n, p),
           UNCHANGED <<tip, batch>>, inbox' \in [Nodes -> SUBSET Block],
           faults' \in 0..MaxFaults
    PROVE  SyncInv'
<1>0. TypeOK /\ Grown
    BY StepGrows DEF SyncInv
<1>0a. PICK i \in Fresh(n) :
         /\ active' = [active EXCEPT ![n] = i]
         /\ wire' = wire \cup {GetHeaders(n, p, i)}
    BY DEF request_headers_from_peer
<1>0b. PICK q : q = GetHeaders(n, p, i)
    OBVIOUS
<1>1. /\ q = GetHeaders(n, p, i)
      /\ active' = [active EXCEPT ![n] = i]
      /\ wire' = wire \cup {q}
    BY <1>0a, <1>0b
<1>2. i \in Ids /\ p \in Nodes /\ tip[n] \in Block
    BY <1>0 DEF Fresh, Unused, Peers, TypeOK
<1>3. /\ q.node = n /\ q.id = i /\ q.locator = get_locator(tip[n]) /\ q.blocks = <<>>
      /\ q.range = <<0, 0>> /\ q.range[1] = 0
    BY <1>1 DEF GetHeaders
<1>4. get_locator(tip[n]) \in SUBSET Block
    BY <1>2, LocatorBlocks
<1>5. q \in Message
    BY <1>1, <1>2, <1>4, EmptySeq DEF Message, GetHeaders
<1>6. InFlight(q)'
    <2>1. Len(tip[n]) \in Nat /\ tip' = tip
        BY <1>2, LenProperties DEF Block
    <2>2. \A a \in q.locator : Len(a) <= Len(tip[n])
        BY <1>2, <1>3, LocatorBlocks
    <2> QED
        BY <1>3, <2>1, <2>2, EmptyRun DEF InFlight
<1>7. wire' \subseteq Message /\ \A m \in wire' : InFlight(m)'
    <2>1. wire \subseteq Message /\ \A m \in wire : InFlight(m)'
        BY WireKept
    <2> QED
        BY <1>1, <1>5, <1>6, <2>1
<1>8. TypeOK'
    BY <1>0, <1>1, <1>2, <1>7 DEF TypeOK
<1>9. \A k \in Nodes : Adding(k)'
    BY <1>0, AddingKept DEF SyncInv
<1>10. \A k \in Nodes : Round(k)'
    <2>1. active \in [Nodes -> Ids \cup {Idle}]
        BY <1>0 DEF TypeOK
    <2>2. Round(n)'
        BY <1>1, <1>3, <2>1, RoundOpened
    <2>3. ASSUME NEW k \in Nodes \ {n} PROVE Round(k)'
        <3>1. active'[k] = active[k] /\ batch'[k] = batch[k] /\ Round(k)
            BY <1>1, <2>1, <2>3 DEF SyncInv
        <3>2. \A m : m.node = k => (m \in wire' <=> m \in wire)
            BY <1>1, <1>3
        <3> QED
            BY <3>1, <3>2, RoundKept
    <2> QED
        BY <2>2, <2>3
<1> QED
    BY <1>7, <1>8, <1>9, <1>10 DEF SyncInv

\* A gossiped block is added, known, or makes the node ask.
LEMMA ReceiveStep ==
    ASSUME SyncInv, NEW n \in Nodes, NEW p \in Peers(n), ReceiveBlock(n, p)
    PROVE  SyncInv'
<1>0. [Next]_vars
    BY DEF Next
<1>1. /\ inbox' \in [Nodes -> SUBSET Block] /\ UNCHANGED <<batch, faults>> /\ batch[n] = <<>>
      /\ faults' \in 0..MaxFaults
    BY DEF ReceiveBlock, SyncInv, TypeOK, Busy
<1>2. \/ UNCHANGED <<active, wire>>
      \/ UNCHANGED tip /\ request_headers_from_peer(n, p)
    BY DEF ReceiveBlock
<1>3. CASE UNCHANGED <<active, wire>>
    BY <1>0, <1>1, <1>3, QuietStep
<1>4. CASE UNCHANGED tip /\ request_headers_from_peer(n, p) /\ active[n] = Idle
    BY <1>0, <1>1, <1>4, RequestStep
<1>5. CASE request_headers_from_peer(n, p) /\ active[n] # Idle
    <2>1. UNCHANGED <<active, wire>>
        BY <1>5 DEF request_headers_from_peer
    <2> QED
        BY <2>1, <1>3
<1> QED
    BY <1>2, <1>3, <1>4, <1>5

\* The operator's command, and a peer that is ahead.
LEMMA AskStep ==
    ASSUME SyncInv, NEW n \in Nodes, NEW p \in Peers(n),
           RequestSync(n, p) \/ SyncIfBehind(n, p)
    PROVE  SyncInv'
<1>0. [Next]_vars
    BY DEF Next
<1>1. /\ UNCHANGED <<tip, inbox, batch>> /\ batch[n] = <<>> /\ active[n] = Idle
      /\ request_headers_from_peer(n, p)
    BY DEF RequestSync, SyncIfBehind, Busy
<1>1a. faults' \in 0..MaxFaults
    BY SyncAssumption DEF RequestSync, SyncIfBehind, SyncInv, TypeOK
<1>2. inbox' \in [Nodes -> SUBSET Block]
    BY <1>1 DEF SyncInv, TypeOK
<1> QED
    BY <1>0, <1>1, <1>1a, <1>2, RequestStep

\* An answer made of a run that the node can use.
LEMMA AnsweredStep ==
    ASSUME SyncInv, [Next]_vars, NEW m \in wire, UNCHANGED <<tip, inbox, active, batch, faults>>,
           NEW kind \in {"Headers", "Blocks"}, NEW bs \in Seq(Block), IsRun(bs),
           bs # <<>> => Len(bs[1]) <= Len(tip[m.node]) + 1,
           wire' = (wire \ {m}) \cup {Answer(m, kind, bs)}
    PROVE  SyncInv'
<1>0. TypeOK /\ Grown /\ m \in Message
    BY StepGrows DEF SyncInv, TypeOK
<1>1. PICK a : a = Answer(m, kind, bs)
    OBVIOUS
<1>2. /\ a.node = m.node /\ a.id = m.id /\ a.locator = {} /\ a.blocks = bs
      /\ a.range = <<0, 0>> /\ a.range[1] = 0
    BY <1>1 DEF Answer
<1>3. a \in Message
    BY <1>0, <1>1 DEF Answer, Message
<1>4. InFlight(a)'
    <2>1. tip' = tip /\ Len(tip[m.node]) \in Nat
        BY <1>0, LenProperties DEF TypeOK, Message, Block
    <2> QED
        BY <1>2, <2>1 DEF InFlight
<1>5. wire' \subseteq Message /\ \A q \in wire' : InFlight(q)'
    <2>1. wire \subseteq Message /\ \A q \in wire : InFlight(q)'
        BY WireKept
    <2> QED
        BY <1>1, <1>3, <1>4, <2>1
<1>6. TypeOK'
    BY <1>0, <1>5 DEF TypeOK
<1>7. \A n \in Nodes : Adding(n)'
    BY <1>0, AddingKept DEF SyncInv
<1>8. \A n \in Nodes : Round(n)'
    BY <1>1, <1>2, RoundAnswered DEF SyncInv
<1> QED
    BY <1>5, <1>6, <1>7, <1>8 DEF SyncInv

\* The answer to a locator.
LEMMA HeadersStep ==
    ASSUME SyncInv, NEW m \in wire, AnswerGetHeaders(m)
    PROVE  SyncInv'
<1>0. [Next]_vars
    BY DEF Next, RoundStep
<1>1. m.node \in Nodes /\ m.peer \in Nodes /\ m.locator \in SUBSET Block
    BY DEF SyncInv, TypeOK, Message
<1>2. tip[m.peer] \in Block /\ tip[m.node] \in Block /\ Len(tip[m.node]) \in Nat
    BY <1>1, LenProperties DEF SyncInv, TypeOK, Block
<1>3. PICK b, from, upto :
         /\ b = tip[m.peer] /\ from = FirstHeight(b, m.locator)
         /\ upto = Upto(from, HeaderLimit, b)
         /\ wire' = (wire \ {m}) \cup {Answer(m, "Headers", Run(b, from, upto))}
    BY DEF AnswerGetHeaders
<1>4. b \in Block /\ from \in Nat /\ from <= Len(tip[m.node]) + 1
    BY <1>1, <1>2, <1>3, FirstHeightBound DEF SyncInv, InFlight
<1>5. upto \in Nat /\ upto <= Len(b) + 1
    BY <1>3, <1>4, UptoBound, SyncAssumption
<1>6. /\ Run(b, from, upto) \in Seq(Block) /\ IsRun(Run(b, from, upto))
      /\ Run(b, from, upto) # <<>> => Len(Run(b, from, upto)[1]) <= Len(tip[m.node]) + 1
    BY <1>4, <1>5, RunFacts
<1>7. UNCHANGED <<tip, inbox, active, batch, faults>>
    BY DEF AnswerGetHeaders
<1> QED
    BY <1>0, <1>3, <1>6, <1>7, AnsweredStep

\* The answer to a range of heights.
LEMMA RangeStep ==
    ASSUME SyncInv, NEW m \in wire, AnswerGetBlocksRange(m)
    PROVE  SyncInv'
<1>0. [Next]_vars
    BY DEF Next, RoundStep
<1>1. m.node \in Nodes /\ m.peer \in Nodes /\ m.range[1] \in Nat /\ m.range[2] \in Nat
    BY DEF SyncInv, TypeOK, Message
<1>2. /\ tip[m.peer] \in Block /\ Len(tip[m.peer]) \in Nat
      /\ tip[m.node] \in Block /\ Len(tip[m.node]) \in Nat
    BY <1>1, LenProperties DEF SyncInv, TypeOK, Block
<1>3. PICK b, from, upto :
         /\ b = tip[m.peer] /\ from = m.range[1]
         /\ upto = Min({m.range[2], Len(b) + 1, from + MaxSyncBlocks})
         /\ wire' = (wire \ {m}) \cup {Answer(m, "Blocks", Run(b, from, upto))}
    BY DEF AnswerGetBlocksRange
<1>4. b \in Block /\ from \in Nat /\ from <= Len(tip[m.node]) + 1
    BY <1>1, <1>2, <1>3 DEF SyncInv, InFlight
<1>5. upto \in Nat /\ upto <= Len(b) + 1
    <2> DEFINE S == {m.range[2], Len(b) + 1, from + MaxSyncBlocks}
    <2>1. S \in SUBSET Nat /\ S # {} /\ Len(b) + 1 \in S
        BY <1>1, <1>2, <1>3, SyncAssumption
    <2> HIDE DEF S
    <2>2. Min(S) \in S /\ Min(S) <= Len(b) + 1
        BY <2>1, LeastIn
    <2>3. upto = Min(S)
        BY <1>3 DEF S
    <2> QED
        BY <2>1, <2>2, <2>3
<1>6. /\ Run(b, from, upto) \in Seq(Block) /\ IsRun(Run(b, from, upto))
      /\ Run(b, from, upto) # <<>> => Len(Run(b, from, upto)[1]) <= Len(tip[m.node]) + 1
    BY <1>4, <1>5, RunFacts
<1>7. UNCHANGED <<tip, inbox, active, batch, faults>>
    BY DEF AnswerGetBlocksRange
<1> QED
    BY <1>0, <1>3, <1>6, <1>7, AnsweredStep

\* A message leaves the wire; if the round waited for it, the round closes.
LEMMA DropStep ==
    ASSUME SyncInv, [Next]_vars, NEW m \in wire, batch[m.node] = <<>>, wire' = wire \ {m},
           UNCHANGED <<inbox, batch>>, faults' \in 0..MaxFaults,
           \/ active[m.node] # m.id /\ UNCHANGED active
           \/ clear_sync_round(m.node)
    PROVE  SyncInv'
<1>0. TypeOK /\ Grown /\ m \in Message /\ m.node \in Nodes
    BY StepGrows DEF SyncInv, TypeOK, Message
<1>1. wire' \subseteq Message /\ \A q \in wire' : InFlight(q)'
    BY WireKept
<1>2. active \in [Nodes -> Ids \cup {Idle}] /\ active' \in [Nodes -> Ids \cup {Idle}]
    BY <1>0 DEF TypeOK, clear_sync_round
<1>3. TypeOK'
    BY <1>0, <1>1, <1>2 DEF TypeOK, Grown
<1>4. \A n \in Nodes : Adding(n)'
    BY <1>0, AddingKept DEF SyncInv
<1>5. ASSUME NEW n \in Nodes, m \notin Serving(n), active'[n] = active[n] PROVE Round(n)'
    BY <1>5, RoundIgnores DEF SyncInv
<1>6. ASSUME NEW n \in Nodes PROVE Round(n)'
    <2>1. CASE n # m.node
        <3>1. m \notin Serving(n) /\ active'[n] = active[n]
            BY <2>1, <1>2 DEF Serving, clear_sync_round
        <3> QED
            BY <3>1, <1>5
    <2>2. CASE n = m.node /\ clear_sync_round(n)
        <3>1. active'[n] = Idle /\ batch'[n] = <<>>
            BY <1>2, <2>2 DEF clear_sync_round
        <3> QED
            BY <3>1, RoundClosed
    <2>3. CASE n = m.node /\ active[n] # m.id /\ UNCHANGED active
        <3>1. m \notin Serving(n) /\ active'[n] = active[n]
            BY <2>3 DEF Serving
        <3> QED
            BY <3>1, <1>5
    <2> QED
        BY <2>1, <2>2, <2>3
<1> QED
    BY <1>1, <1>3, <1>4, <1>6 DEF SyncInv

\* A lost request or answer.
LEMMA FailureStep ==
    ASSUME SyncInv, NEW m \in wire, OutboundFailure(m)
    PROVE  SyncInv'
<1>0. [Next]_vars
    BY DEF Next
<1>1. faults' \in 0..MaxFaults
    BY SyncAssumption DEF OutboundFailure, SyncInv, TypeOK
<1> QED
    BY <1>0, <1>1, DropStep DEF OutboundFailure, Busy

\* The sweep.
LEMMA SweepStep ==
    ASSUME SyncInv, NEW n \in Nodes, TimeoutSweep(n)
    PROVE  SyncInv'
<1>0. [Next]_vars
    BY DEF Next
<1>1. TypeOK /\ Grown
    BY <1>0, StepGrows DEF SyncInv
<1>2. /\ UNCHANGED <<tip, inbox, wire, batch>> /\ batch[n] = <<>>
      /\ active' = [active EXCEPT ![n] = Idle] /\ active \in [Nodes -> Ids \cup {Idle}]
    BY <1>1 DEF TimeoutSweep, Busy, clear_sync_round, TypeOK
<1>3. faults' \in 0..MaxFaults
    BY SyncAssumption DEF TimeoutSweep, SyncInv, TypeOK
<1>4. TypeOK'
    BY <1>1, <1>2, <1>3 DEF TypeOK
<1>5. \A m \in wire' : InFlight(m)'
    BY <1>0, <1>2, WireKept
<1>6. \A k \in Nodes : Adding(k)'
    BY <1>1, <1>2, AddingKept DEF SyncInv
<1>7. ASSUME NEW k \in Nodes PROVE Round(k)'
    <2>1. CASE k = n
        BY <1>2, <2>1, RoundClosed
    <2>2. CASE k # n
        <3>1. active'[k] = active[k] /\ batch'[k] = batch[k] /\ Round(k) /\ wire' = wire
            BY <1>2, <2>2 DEF SyncInv
        <3> QED
            BY <3>1, RoundKept
    <2> QED
        BY <2>1, <2>2
<1> QED
    BY <1>4, <1>5, <1>6, <1>7 DEF SyncInv

\* Headers give the round its next request.
LEMMA HandleHeadersStep ==
    ASSUME SyncInv, NEW m \in wire, HandleHeaders(m)
    PROVE  SyncInv'
<1>0. [Next]_vars
    BY DEF Next, RoundStep
<1>1. /\ TypeOK /\ Grown /\ m \in Message /\ m.node \in Nodes /\ m.peer \in Nodes
      /\ m.blocks \in Seq(Block) /\ InFlight(m)
    BY <1>0, StepGrows DEF SyncInv, TypeOK, Message
<1>2. UNCHANGED <<tip, inbox, batch, faults>> /\ batch[m.node] = <<>>
      /\ faults' \in 0..MaxFaults /\ active \in [Nodes -> Ids \cup {Idle}]
    BY <1>1 DEF HandleHeaders, Busy, TypeOK
<1>3. CASE active[m.node] # m.id \/ m.blocks = <<>>
    <2>1. /\ wire' = wire \ {m}
          /\ (active[m.node] # m.id /\ UNCHANGED active) \/ clear_sync_round(m.node)
        BY <1>3 DEF HandleHeaders
    <2> QED
        BY <1>0, <1>2, <2>1, DropStep
<1>4. CASE active[m.node] = m.id /\ m.blocks # <<>>
    <2> DEFINE n == m.node
    <2>0a. PICK i \in Fresh(n) :
             /\ active' = [active EXCEPT ![n] = i]
             /\ wire' = (wire \ {m}) \cup {GetBlocksRange(n, m.peer, i, RangeOf(m.blocks))}
        BY <1>4 DEF HandleHeaders
    <2>0b. PICK q : q = GetBlocksRange(n, m.peer, i, RangeOf(m.blocks))
        OBVIOUS
    <2>1. /\ q = GetBlocksRange(n, m.peer, i, RangeOf(m.blocks))
          /\ active' = [active EXCEPT ![n] = i]
          /\ wire' = (wire \ {m}) \cup {q}
        BY <2>0a, <2>0b
    <2>2. i \in Ids
        BY DEF Fresh, Unused
    <2>3. 1 \in 1..Len(m.blocks) /\ Len(m.blocks) \in 1..Len(m.blocks)
        BY <1>1, <1>4, EmptySeq
    <2>4. m.blocks[1] \in Block /\ m.blocks[Len(m.blocks)] \in Block
        BY <1>1, <2>3, ElementOfSeq
    <2>5. Len(m.blocks[1]) \in Nat /\ Len(m.blocks[Len(m.blocks)]) \in Nat
        BY <2>4, LenProperties DEF Block
    <2>6. /\ q.node = n /\ q.id = i /\ q.locator = {} /\ q.blocks = <<>>
          /\ q.range = <<Len(m.blocks[1]), Len(m.blocks[Len(m.blocks)]) + 1>>
          /\ q.range[1] = Len(m.blocks[1]) /\ q.range \in Nat \X Nat
        BY <2>1, <2>5 DEF GetBlocksRange, RangeOf
    <2>7. q \in Message
        <3>1. PICK rg \in Nat \X Nat : rg = q.range
            BY <2>6
        <3>2. q = [node |-> n, peer |-> m.peer, id |-> i, kind |-> "GetBlocksRange",
                   locator |-> {}, blocks |-> <<>>, range |-> rg]
            BY <2>1, <3>1 DEF GetBlocksRange
        <3>3. /\ <<>> \in Seq(Block) /\ {} \in SUBSET Block /\ n \in Nodes
              /\ "GetBlocksRange" \in {"GetHeaders", "Headers", "GetBlocksRange", "Blocks"}
            BY <1>1, EmptySeq
        <3> HIDE DEF n
        <3> QED
            BY <1>1, <2>2, <3>2, <3>3, Zenon DEF Message
    <2>8. InFlight(q)'
        <3>1. Len(m.blocks[1]) <= Len(tip[n]) + 1 /\ tip' = tip
            BY <1>1, <1>2, <1>4 DEF InFlight
        <3> QED
            BY <2>6, <3>1, EmptyRun DEF InFlight
    <2>9. wire' \subseteq Message /\ \A k \in wire' : InFlight(k)'
        <3>1. wire \subseteq Message /\ \A k \in wire : InFlight(k)'
            BY <1>0, WireKept
        <3> QED
            BY <2>1, <2>7, <2>8, <3>1
    <2>10. TypeOK'
        BY <1>1, <1>2, <2>1, <2>2, <2>9 DEF TypeOK
    <2>11. \A k \in Nodes : Adding(k)'
        BY <1>1, <1>2, AddingKept DEF SyncInv
    <2>12. Round(n)'
        <3>1. n \in Nodes /\ wire \ {m} \subseteq wire /\ active'[n] = i
              /\ batch[n] = <<>> /\ batch'[n] = batch[n]
            BY <1>1, <1>2, <2>1
        <3> HIDE DEF n
        <3> QED
            BY <2>1, <2>6, <3>1, RoundOpened
    <2>13. ASSUME NEW k \in Nodes \ {n} PROVE Round(k)'
        <3>1. active'[k] = active[k] /\ batch'[k] = batch[k] /\ Round(k)
            BY <1>2, <2>1, <2>13 DEF SyncInv
        <3>2. \A x : x.node = k => (x \in wire' <=> x \in wire)
            BY <2>1, <2>6, <2>13
        <3> QED
            BY <3>1, <3>2, RoundKept
    <2> QED
        BY <2>9, <2>10, <2>11, <2>12, <2>13 DEF SyncInv
<1> QED
    BY <1>3, <1>4

\* Blocks are dropped, handed to try_reorg, or added one by one.
LEMMA HandleBlocksStep ==
    ASSUME SyncInv, NEW m \in wire, HandleBlocks(m)
    PROVE  SyncInv'
<1>0. [Next]_vars
    BY DEF Next, RoundStep
<1>1. /\ TypeOK /\ Grown /\ m \in Message /\ m.node \in Nodes /\ m.id \in Ids
      /\ m.blocks \in Seq(Block) /\ InFlight(m)
    BY <1>0, StepGrows DEF SyncInv, TypeOK, Message
<1>2. /\ UNCHANGED <<inbox, faults>> /\ batch[m.node] = <<>> /\ wire' = wire \ {m}
      /\ faults' \in 0..MaxFaults /\ active \in [Nodes -> Ids \cup {Idle}]
      /\ batch \in [Nodes -> Seq(Block)]
    BY <1>1 DEF HandleBlocks, Busy, TypeOK
<1>3. \/ /\ UNCHANGED batch
         /\ (active[m.node] # m.id /\ UNCHANGED active) \/ clear_sync_round(m.node)
      \/ /\ active[m.node] = m.id /\ m.blocks # <<>>
         /\ batch' = [batch EXCEPT ![m.node] = m.blocks] /\ UNCHANGED <<tip, active>>
    BY DEF HandleBlocks
<1>4. CASE UNCHANGED batch /\ ((active[m.node] # m.id /\ UNCHANGED active) \/ clear_sync_round(m.node))
    BY <1>0, <1>2, <1>4, DropStep
<1>5. CASE /\ active[m.node] = m.id /\ m.blocks # <<>>
           /\ batch' = [batch EXCEPT ![m.node] = m.blocks] /\ UNCHANGED <<tip, active>>
    <2>1. wire' \subseteq Message /\ \A q \in wire' : InFlight(q)'
        BY <1>0, <1>2, WireKept
    <2>2. TypeOK'
        BY <1>1, <1>2, <1>5, <2>1 DEF TypeOK
    <2>3. batch'[m.node] = m.blocks /\ \A k \in Nodes \ {m.node} : batch'[k] = batch[k]
        BY <1>1, <1>2, <1>5
    <2>4. Adding(m.node)'
        BY <1>1, <1>5, <2>3 DEF Adding, InFlight
    <2>5. \A k \in Nodes \ {m.node} : Adding(k)'
        BY <1>1, <2>3, AddingKept DEF SyncInv
    <2>6. Round(m.node)'
        <3>1. active[m.node] # Idle
            BY <1>1, <1>5, SyncAssumption DEF Idle
        <3>2. Serving(m.node) = {m}
            <4>1. m \in Serving(m.node) /\ Round(m.node) /\ ~Busy(m.node)
                BY <1>1, <1>2, <1>5 DEF Serving, SyncInv, Busy
            <4> QED
                BY <3>1, <4>1 DEF Round
        <3>3. Serving(m.node)' = {}
            BY <1>2, <1>5, <3>2 DEF Serving
        <3> QED
            BY <1>5, <2>3, <3>1, <3>3 DEF Round, Busy
    <2>7. ASSUME NEW k \in Nodes \ {m.node} PROVE Round(k)'
        <3>1. /\ active'[k] = active[k] /\ batch'[k] = batch[k] /\ Round(k)
              /\ m \notin Serving(k)
            BY <1>5, <2>3, <2>7 DEF SyncInv, Serving
        <3> QED
            BY <1>2, <3>1, RoundIgnores
    <2> QED
        BY <2>1, <2>2, <2>4, <2>5, <2>6, <2>7 DEF SyncInv
<1> QED
    BY <1>3, <1>4, <1>5

\* The next block of a batch is of the node's chain, or below its tip, or on a
\* chain that a block of the node's own has left.
LEMMA AddStep ==
    ASSUME SyncInv, NEW n \in Nodes, AddNext(n)
    PROVE  SyncInv'
<1>0. [Next]_vars
    BY DEF Next
<1>1. TypeOK /\ Grown /\ Round(n) /\ Adding(n)
    BY <1>0, StepGrows DEF SyncInv
<1>2. PICK bs \in Seq(Block) : bs = batch[n]
    BY <1>1 DEF TypeOK
<1>3. /\ bs # <<>> /\ IsRun(bs) /\ UNCHANGED <<inbox, wire, faults>>
      /\ tip' = [tip EXCEPT ![n] = validate_and_add_block(tip[n], Head(bs))]
      /\ batch' = [batch EXCEPT ![n] = Tail(bs)]
      /\ IF Len(bs) = 1 THEN clear_sync_round(n) ELSE UNCHANGED active
    BY <1>1, <1>2 DEF AddNext, Busy, Adding
<1>4. /\ Tail(bs) \in Seq(Block) /\ IsRun(Tail(bs)) /\ Len(Tail(bs)) = Len(bs) - 1
      /\ Tail(bs) # <<>> => /\ Tail(bs)[1] = bs[2] /\ Len(bs) >= 2
                            /\ Tail(bs)[Len(Tail(bs))] = bs[Len(bs)]
    BY <1>3, RunTail
<1>5. /\ batch \in [Nodes -> Seq(Block)] /\ active \in [Nodes -> Ids \cup {Idle}]
      /\ tip \in [Nodes -> Block]
    BY <1>1 DEF TypeOK
<1>6. batch'[n] = Tail(bs) /\ \A k \in Nodes \ {n} : batch'[k] = batch[k]
    BY <1>3, <1>5
<1>7. TypeOK'
    <2>1. active' \in [Nodes -> Ids \cup {Idle}]
        BY <1>3, <1>5 DEF clear_sync_round
    <2>2. batch' \in [Nodes -> Seq(Block)]
        BY <1>3, <1>4, <1>5
    <2> QED
        BY <1>1, <1>3, <2>1, <2>2 DEF TypeOK, Grown
<1>8. \A m \in wire' : InFlight(m)'
    BY <1>0, <1>3, WireKept
<1>9. \A k \in Nodes \ {n} : Adding(k)'
    BY <1>1, <1>6, AddingKept DEF SyncInv
<1>10. Adding(n)'
    <2>1. ASSUME Tail(bs) # <<>>, Extends(bs[Len(bs)], tip'[n])
          PROVE  Len(bs[2]) <= Len(tip'[n]) + 1
        <3> DEFINE x == bs[1]
                   b == bs[Len(bs)]
        <3>1. Len(bs) >= 2 /\ Len(bs) \in Nat /\ 1 \in 1..Len(bs) /\ 2 \in 1..Len(bs)
            BY <1>4, <2>1, LenProperties
        <3>2. /\ x \in Block /\ b \in Block /\ bs[2] \in Block
              /\ Len(bs[2]) = Len(x) + 2 - 1 /\ Extends(b, x)
            BY <1>3, <3>1, RunHeights
        <3>3. Head(bs) = x
            BY <1>3, <3>1
        <3>4. tip[n] \in Block /\ tip'[n] = validate_and_add_block(tip[n], x)
            BY <1>3, <1>5, <3>3
        <3>5. Len(x) \in Nat /\ Len(tip[n]) \in Nat /\ Len(b) \in Nat
            BY <3>2, <3>4, LenProperties DEF Block
        <3>6. b = batch[n][Len(batch[n])] /\ x = batch[n][1] /\ Busy(n)
            BY <1>2, <1>3 DEF Busy
        <3> HIDE DEF x, b
        <3>7. CASE Accepts(tip[n], x)
            <4>1. tip'[n] = x
                BY <3>4, <3>7 DEF validate_and_add_block
            <4> QED
                BY <3>2, <3>5, <4>1
        <3>8. CASE ~Accepts(tip[n], x)
            <4>1. tip'[n] = tip[n]
                BY <3>4, <3>8 DEF validate_and_add_block
            <4>2. Extends(b, tip[n])
                BY <2>1, <4>1 DEF b
            <4>3. Len(x) <= Len(tip[n]) + 1
                BY <1>1, <3>6, <4>2 DEF Adding
            <4>4. Len(x) # Len(tip[n]) + 1
                <5> SUFFICES ASSUME Len(x) = Len(tip[n]) + 1 PROVE FALSE
                    OBVIOUS
                <5>1. At(b, Len(x)) = x /\ At(b, Len(tip[n])) = tip[n]
                    BY <3>2, <4>2 DEF Extends
                <5>2. Len(x) \in 0..Len(b) /\ Len(tip[n]) \in 0..Len(x)
                    BY <3>2, <3>5 DEF Extends
                <5>3. At(At(b, Len(x)), Len(tip[n])) = At(b, Len(tip[n]))
                    BY <3>2, <5>2, AtAt
                <5> QED
                    BY <3>8, <5>1, <5>3 DEF Accepts
            <4> QED
                BY <3>2, <3>5, <4>1, <4>3, <4>4
        <3> QED
            BY <3>7, <3>8
    <2> QED
        BY <1>4, <1>6, <2>1 DEF Adding, Busy
<1>11. Round(n)'
    <2>1. Busy(n) /\ active[n] # Idle /\ Serving(n) = {}
        BY <1>1, <1>2, <1>3 DEF Busy, Round
    <2>2. CASE Len(bs) = 1
        <3>1. batch'[n] = <<>>
            <4>1. Len(Tail(bs)) = 0
                BY <1>4, <2>2
            <4> QED
                BY <1>4, <1>6, <4>1, EmptySeq
        <3>2. active'[n] = Idle
            BY <1>3, <1>5, <2>2 DEF clear_sync_round
        <3> QED
            BY <3>1, <3>2, RoundClosed
    <2>3. CASE Len(bs) # 1
        <3>1. Tail(bs) # <<>>
            <4>1. Len(bs) \in Nat \ {0}
                BY <1>3, EmptySeq
            <4>2. Len(Tail(bs)) # 0
                BY <1>4, <2>3, <4>1
            <4> QED
                BY <4>2, EmptySeq
        <3>2. active' = active /\ wire' = wire
            BY <1>3, <2>3
        <3>3. Serving(n)' = {}
            BY <2>1, <3>2 DEF Serving
        <3> QED
            BY <1>6, <2>1, <3>1, <3>2, <3>3 DEF Round, Busy
    <2> QED
        BY <2>2, <2>3
<1>12. ASSUME NEW k \in Nodes \ {n} PROVE Round(k)'
    <2>1. active'[k] = active[k] /\ batch'[k] = batch[k] /\ Round(k) /\ wire' = wire
        BY <1>3, <1>5, <1>6, <1>12 DEF SyncInv, clear_sync_round
    <2> QED
        BY <2>1, RoundKept
<1> QED
    BY <1>7, <1>8, <1>9, <1>10, <1>11, <1>12 DEF SyncInv

\* One case per action.
LEMMA SyncStep ==
    ASSUME SyncInv, [Next]_vars
    PROVE  SyncInv'
<1>1. CASE UNCHANGED vars
    <2>1. inbox' \in [Nodes -> SUBSET Block]
        BY <1>1 DEF vars, SyncInv, TypeOK
    <2> QED
        BY <1>1, <2>1, QuietStep DEF vars
<1>2. CASE Next
    BY <1>2, ProduceStep, AddStep, SweepStep, ReceiveStep, AskStep, HeadersStep, RangeStep,
       HandleHeadersStep, HandleBlocksStep, FailureStep DEF Next, RoundStep
<1> QED
    BY <1>1, <1>2

\* Nothing is in flight, and every chain is genesis.
LEMMA SyncInit ==
    ASSUME Init
    PROVE  SyncInv
<1>1. Genesis \in Block /\ <<>> \in Seq(Block)
    BY EmptySeq DEF Genesis, Block
<1>2. TypeOK
    BY <1>1, SyncAssumption DEF Init, TypeOK
<1>3. \A n \in Nodes : Round(n)
    BY DEF Init, Round, Busy
<1>4. \A n \in Nodes : Adding(n)
    BY EmptyRun DEF Init, Adding, Busy
<1>5. \A m \in wire : InFlight(m)
    BY DEF Init
<1> QED
    BY <1>2, <1>3, <1>4, <1>5 DEF SyncInv

\* The inductive invariant of the sync rounds.
THEOREM SyncInvariant == Spec => []SyncInv
BY SyncInit, SyncStep, PTL DEF Spec

-----------------------------------------------------------------------------
(* What follows from it.                                                   *)

\* Gossip and synchronisation (validate_and_add_block, try_reorg as the
\* Blocks arm of src/src/network/node.rs calls it) never take a block from a
\* node's chain.
THEOREM ChainsGrow == Spec => ChainsOnlyGrow
<1>1. SyncInv /\ [Next]_vars => [\A n \in Nodes : Extends(tip'[n], tip[n])]_vars
    BY StepGrows DEF SyncInv, Grown
<1> QED
    BY <1>1, SyncInvariant, PTL DEF Spec, ChainsOnlyGrow

\* Locator, common height, range and cut fit together whatever the limits
\* are: what is sent to a node never starts beyond the block after its tip.
THEOREM SyncLeavesNoGap == Spec => []NoGap
<1>1. SyncInv => NoGap
    BY DEF SyncInv, NoGap, InFlight, Adding
<1> QED
    BY <1>1, SyncInvariant, PTL

\* An open round (active_sync_request) waits for exactly one message in
\* flight, or for blocks being added, through lost messages, sweeps and late
\* answers.
THEOREM RoundsServed == Spec => []RoundIsServed
<1>1. ASSUME SyncInv PROVE RoundIsServed
    <2> SUFFICES ASSUME NEW n \in Nodes, active[n] # Idle
                 PROVE  Cardinality(Serving(n)) = (IF Busy(n) THEN 0 ELSE 1)
        BY DEF RoundIsServed, Serving
    <2>1. IF Busy(n) THEN Serving(n) = {} ELSE \E m \in wire : Serving(n) = {m}
        BY <1>1 DEF SyncInv, Round
    <2>2. CASE Busy(n)
        BY <2>1, <2>2, FS_EmptySet
    <2>3. CASE ~Busy(n)
        <3>1. PICK m \in wire : Serving(n) = {m}
            BY <2>1, <2>3
        <3> QED
            BY <2>3, <3>1, FS_Singleton
    <2> QED
        BY <2>2, <2>3
<1> QED
    BY <1>1, SyncInvariant, PTL
=============================================================================
