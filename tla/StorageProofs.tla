---------------------------- MODULE StorageProofs ----------------------------
(***************************************************************************)
(* Theorems about what a node stores: its own chain, and the shards of     *)
(* others under deals.                                                     *)
(*                                                                         *)
(* ChainStore, for any branches, heights, intervals and numbers of         *)
(* reorganisations and faults.  The inductive invariant says what the      *)
(* writes that a handler still has to make can be, and what the store      *)
(* holds before each of them: in every case as far as the copies of the    *)
(* bridge state go, as long as no reorganisation was cut short and no      *)
(* chain was lost as far as heights go (Sound), and block by block as long *)
(* as nothing happened but lost index entries (Exact).                     *)
(*                                                                         *)
(* StorageDeals, for any operators, shards, prices, bounds and limits.     *)
(* The invariant is one of the books: it is shown for every method of the  *)
(* registry and of the accounting, then for the loops of the maintenance   *)
(* after a block, which may be entered at any books in reach.              *)
(***************************************************************************)
EXTENDS ChainStore, StorageDeals, SumTheorems, SequenceTheorems

Sound == scars \cap {"cut reorg", "lost chain"} = {}
Exact == scars \subseteq {"lost entry"}

\* The copy of the bridge state for a height, a set of at most one.
Copy(f, h) == {f[k] : k \in {h} \cap DOMAIN f}

-----------------------------------------------------------------------------
(* What the store holds.                                                   *)

Queue == \E S : todo \in Seq(S)

Typed ==
    /\ blocks \subseteq Paths /\ index \subseteq blocks /\ last \subseteq Paths
    /\ \A b, c \in index : Len(b) = Len(c) => b = c
    /\ \A b, c \in last : b = c
    /\ marker \subseteq Nat /\ \A g, h \in marker : g = h
    /\ \A s \in snaps : s.height \in 0..MaxHeight /\ s.finalized \in Paths
    /\ tip \in Paths /\ finalized \in Paths /\ committed \in Paths
    /\ Queue

\* BRIDGE_STATE is the copy of the tip's height, but for an open commit.
Copied == marker = {} => \A t \in last \cap blocks : bridge = Copy(bridgeAt, Len(t))

\* Nothing is indexed at height h or above.
Low(h) == \A b \in index : Len(b) < h

\* There are copies for the heights 1..h.
Covered(h) == 1..h \subseteq DOMAIN bridgeAt

\* The index below height n is a part of the chain of c, whose blocks are
\* stored, and the whole of it if no entry was lost.
Branch(c, n) ==
    /\ \A b \in index : Len(b) < n => b = Prefix(c, Len(b))
    /\ \A j \in 0..(n - 1) : /\ Prefix(c, j) \in blocks
                             /\ scars = {} => Prefix(c, j) \in index

\* A sound store, also in the middle of a handler.
Heights ==
    /\ \A h \in marker : Low(h) /\ Covered(h - 1) /\ (h = 0 => blocks = {})
    /\ \A t \in last : Covered(Len(t))
    /\ Genesis \in blocks => 0 \in DOMAIN bridgeAt

Empty == blocks = {} /\ last = {} /\ marker \subseteq {0, 1} /\ (Exact => committed = Genesis)

\* LAST is x, and nothing lies above it.
Stored(x) ==
    /\ last = {x} /\ x \in blocks /\ Low(Len(x) + 1) /\ marker \subseteq {Len(x) + 1}
    /\ Exact => committed = x /\ Branch(x, Len(x) + 1)

\* Between two handlers the store ends at the chain's tip; a store without a
\* genesis block may be empty.
Settled(x) == Stored(x) \/ (Empty /\ x = Genesis /\ ~Exact)

-----------------------------------------------------------------------------
(* The writes a handler still has to make.                                 *)

\* What may follow a commit: nothing at or above the tip is deleted.
Harmless(u, x) ==
    \/ u.w = "canon"
    \/ u.w = "snap" /\ u.h \in 0..MaxHeight /\ u.f \in Paths
    \/ u.w = "delete" /\ u.h < Len(x)

Quiet(i, x) == \A j \in i..Len(todo) : Harmless(todo[j], x)

\* b is a block on the tip.
OnTip(b) == Len(b) = Len(tip) + 1 /\ Prefix(b, Len(tip)) = tip

Marking(b) ==
    /\ Len(todo) >= 3 /\ todo[1] = Mark(b) /\ todo[2] = Batch(b, todo[2].br)
    /\ todo[3] = Push(b) /\ Quiet(4, b)

Batching(b) ==
    /\ Len(todo) >= 2 /\ todo[1] = Batch(b, todo[1].br)
    /\ todo[2] = Push(b) /\ Quiet(3, b)

Pushing(b) == Len(todo) >= 1 /\ todo[1] = Push(b) /\ Quiet(2, b)

\* After the first k writes come a marker and a batch for each block of c from
\* height n on, and LAST.
Rewrites(c, n, k) ==
    /\ n \in 1..(Len(c) + 1)
    /\ Len(todo) = k + 2 * (Len(c) - n + 1) + 1
    /\ \A j \in n..Len(c) :
          /\ todo[k + 2 * (j - n) + 1] = Mark(Prefix(c, j))
          /\ todo[k + 2 * (j - n) + 2] = Batch(Prefix(c, j), Prefix(c, j))
    /\ todo[Len(todo)] = SaveLast(c)

\* try_reorg is deleting the heights h..m of the old chain.
Deleting(n, h, m) ==
    /\ n <= Len(tip) /\ n <= h /\ h <= m + 1
    /\ Rewrites(tip, n, m - h + 1)
    /\ \A i \in 1..(m - h + 1) : todo[i] = Delete(h + i - 1)

\* It writes the marker for height n next, or LAST.
Rewriting(n) == Rewrites(tip, n, 0)

\* It writes the batch for height n next.
Storing(n) ==
    /\ n \in 1..Len(tip) /\ Rewrites(tip, n + 1, 1)
    /\ todo[1] = Batch(Prefix(tip, n), Prefix(tip, n))

\* The store holds the new chain below height n, and nothing above.
Rewritten_to(n) == Low(n) /\ Covered(n - 1) /\ (Exact => Branch(tip, n))

-----------------------------------------------------------------------------
Stopped ==
    /\ status # "up" /\ todo = <<>>
    /\ Sound => Empty \/ \E x \in Paths : Stored(x)

Calm == status = "up" /\ Quiet(1, tip) /\ (Sound => Settled(tip))

InCommit ==
    /\ status = "up"
    /\ \E b \in Paths :
          /\ OnTip(b)
          /\ \/ Marking(b) /\ (Sound => Settled(tip))
             \/ Batching(b) /\ marker = {Len(b)} /\ (Sound => Settled(tip))
             \/ Pushing(b) /\ (Sound => Stored(b))

InGenesis ==
    /\ status = "up" /\ tip = Genesis
    /\ \/ todo = <<Mark(Genesis), Batch(Genesis, Genesis)>>
       \/ todo = <<Batch(Genesis, Genesis)>> /\ marker = {0}
    /\ Sound => Empty

InReorg ==
    /\ status = "up"
    /\ \/ \E n, m \in Nat : \E h \in 1..(m + 1) :
             /\ Deleting(n, h, m)
             /\ Sound => /\ \A b \in index : Len(b) < n \/ (h <= Len(b) /\ Len(b) <= m)
                         /\ Covered(m) /\ Covered(n - 1) /\ (Exact => Branch(tip, n))
       \/ \E n \in 1..(Len(tip) + 1) :
             /\ Rewriting(n) /\ (Sound => Rewritten_to(n))
             /\ n = Len(tip) + 1 => /\ last = {tip} /\ marker = {} /\ tip \in blocks
                                    /\ committed = tip
       \/ \E n \in 1..Len(tip) : Storing(n) /\ marker = {n} /\ (Sound => Rewritten_to(n))

Doing == Stopped \/ Calm \/ InCommit \/ InGenesis \/ InReorg

StoreInv == Typed /\ Copied /\ (Sound => Heights) /\ Doing

-----------------------------------------------------------------------------
(* Paths and sequences.                                                    *)

\* A block is a sequence of branch names.
LEMMA PathSeq ==
    ASSUME NEW b \in Paths
    PROVE  b \in Seq(Branches) /\ Len(b) \in Nat /\ Len(b) <= MaxHeight
<1>1. PICK n \in 0..MaxHeight : b \in [1..n -> Branches]
    BY DEF Paths
<1>2. n \in Nat
    BY StoreAssumption
<1>3. b \in Seq(Branches) /\ Len(b) = n
    BY <1>1, <1>2
<1> QED
    BY <1>1, <1>2, <1>3, StoreAssumption

\* And the other way round.
LEMMA SeqPath ==
    ASSUME NEW b \in Seq(Branches), Len(b) <= MaxHeight
    PROVE  b \in Paths
<1>1. Len(b) \in 0..MaxHeight /\ b \in [1..Len(b) -> Branches]
    BY LenProperties, StoreAssumption
<1> QED
    BY <1>1 DEF Paths

LEMMA GenesisPath == Genesis \in Paths /\ Len(Genesis) = 0
<1>1. Genesis \in Seq(Branches) /\ Len(Genesis) = 0
    BY EmptySeq DEF Genesis
<1>2. Len(Genesis) <= MaxHeight
    BY <1>1, StoreAssumption
<1> QED
    BY <1>1, <1>2, SeqPath

\* The chain below a block.
LEMMA PrefixPath ==
    ASSUME NEW b \in Paths, NEW n \in 0..Len(b)
    PROVE  /\ Prefix(b, n) \in Paths /\ Len(Prefix(b, n)) = n
           /\ \A i \in 1..n : Prefix(b, n)[i] = b[i]
<1>1. b \in Seq(Branches) /\ Len(b) \in Nat /\ Len(b) <= MaxHeight
    BY PathSeq
<1>2. /\ Prefix(b, n) \in Seq(Branches) /\ Len(Prefix(b, n)) = n
      /\ \A i \in 1..n : Prefix(b, n)[i] = b[i]
    BY <1>1 DEF Prefix
<1>3. n <= MaxHeight
    BY <1>1, StoreAssumption
<1> QED
    BY <1>2, <1>3, SeqPath

LEMMA PrefixFull ==
    ASSUME NEW b \in Paths
    PROVE  Prefix(b, Len(b)) = b
BY PathSeq, SubSeqFull DEF Prefix

LEMMA PrefixPrefix ==
    ASSUME NEW b \in Paths, NEW n \in 0..Len(b), NEW k \in 0..n
    PROVE  Prefix(Prefix(b, n), k) = Prefix(b, k)
<1>0. Len(b) \in Nat /\ k \in 0..Len(b)
    BY PathSeq
<1>1. /\ Prefix(b, n) \in Paths /\ Len(Prefix(b, n)) = n
      /\ \A i \in 1..n : Prefix(b, n)[i] = b[i]
    BY PrefixPath
<1>2. /\ Prefix(Prefix(b, n), k) \in Paths /\ Len(Prefix(Prefix(b, n), k)) = k
      /\ \A i \in 1..k : Prefix(Prefix(b, n), k)[i] = Prefix(b, n)[i]
    BY <1>1, PrefixPath
<1>3. Prefix(b, k) \in Paths /\ Len(Prefix(b, k)) = k /\ \A i \in 1..k : Prefix(b, k)[i] = b[i]
    BY <1>0, PrefixPath
<1>4. \A i \in 1..k : Prefix(Prefix(b, n), k)[i] = Prefix(b, k)[i]
    BY <1>1, <1>2, <1>3
<1> QED
    BY <1>2, <1>3, <1>4, PathSeq, SeqEqual

\* A block of height 0 is genesis.
LEMMA HeightZero ==
    ASSUME NEW b \in Paths
    PROVE  (Len(b) = 0 => b = Genesis) /\ Prefix(b, 0) = Genesis
<1>1. b \in Seq(Branches)
    BY PathSeq
<1>2. Len(b) = 0 => b = Genesis
    BY <1>1, EmptySeq DEF Genesis
<1>3. 0 \in 0..Len(b)
    BY <1>1
<1> QED
    BY <1>2, <1>3, PrefixPath, PathSeq, EmptySeq DEF Genesis

\* A new block on a tip.
LEMMA AppendPath ==
    ASSUME NEW b \in Paths, Len(b) < MaxHeight, NEW x \in Branches
    PROVE  /\ Append(b, x) \in Paths /\ Len(Append(b, x)) = Len(b) + 1
           /\ Prefix(Append(b, x), Len(b)) = b
<1>0. b \in Seq(Branches) /\ Len(b) \in Nat
    BY PathSeq
<1>1. /\ Append(b, x) \in Seq(Branches) /\ Len(Append(b, x)) = Len(b) + 1
      /\ \A i \in 1..Len(b) : Append(b, x)[i] = b[i]
    BY <1>0, AppendProperties
<1>2. Append(b, x) \in Paths
    <2>1. Len(Append(b, x)) <= MaxHeight
        BY <1>0, <1>1, StoreAssumption
    <2> QED
        BY <1>1, <2>1, SeqPath
<1>3. /\ Prefix(Append(b, x), Len(b)) \in Paths /\ Len(Prefix(Append(b, x), Len(b))) = Len(b)
      /\ \A i \in 1..Len(b) : Prefix(Append(b, x), Len(b))[i] = Append(b, x)[i]
    <2>1. Len(b) \in 0..Len(Append(b, x))
        BY <1>0, <1>1
    <2> QED
        BY <1>2, <2>1, PrefixPath
<1>4. Prefix(Append(b, x), Len(b)) = b
    BY <1>0, <1>1, <1>3, PathSeq, SeqEqual
<1> QED
    BY <1>1, <1>2, <1>4

-----------------------------------------------------------------------------
(* The queue of writes.                                                    *)

\* The queue after its first write.
LEMMA TailOf ==
    ASSUME Typed, todo # <<>>, todo' = Tail(todo)
    PROVE  /\ Len(todo) \in Nat \ {0} /\ Len(todo') = Len(todo) - 1 /\ Head(todo) = todo[1]
           /\ \A i \in 1..(Len(todo) - 1) : todo'[i] = todo[i + 1]
           /\ Queue'
<1>1. PICK S : todo \in Seq(S)
    BY DEF Typed, Queue
<1>2. /\ Tail(todo) \in Seq(S) /\ Len(Tail(todo)) = Len(todo) - 1
      /\ \A i \in 1..Len(Tail(todo)) : Tail(todo)[i] = todo[i + 1]
    BY <1>1, HeadTailProperties
<1>3. Len(todo) \in Nat \ {0}
    BY <1>1, EmptySeq
<1>4. Head(todo) = todo[1]
    BY <1>1
<1>5. Queue'
    BY <1>2 DEF Queue
<1> QED
    BY <1>2, <1>3, <1>4, <1>5

\* A queue that has a write.
LEMMA Lengths ==
    ASSUME Typed
    PROVE  Len(todo) \in Nat /\ (todo = <<>> <=> Len(todo) = 0)
<1>1. PICK S : todo \in Seq(S)
    BY DEF Typed, Queue
<1> QED
    BY <1>1, EmptySeq

LEMMA QuietTail ==
    ASSUME Typed, todo # <<>>, todo' = Tail(todo), NEW x, NEW i \in Nat \ {0},
           Quiet(i + 1, x) \/ Quiet(i, x)
    PROVE  Quiet(i, x)'
<1>1. /\ Len(todo) \in Nat \ {0} /\ Len(todo') = Len(todo) - 1
      /\ \A j \in 1..(Len(todo) - 1) : todo'[j] = todo[j + 1]
    BY TailOf
<1> SUFFICES ASSUME NEW j \in i..Len(todo')
             PROVE  Harmless(todo'[j], x)
    BY DEF Quiet, Harmless
<1>2. todo'[j] = todo[j + 1] /\ j + 1 \in (i + 1)..Len(todo) /\ j + 1 \in i..Len(todo)
    BY <1>1
<1>3. Harmless(todo[j + 1], x)
    BY <1>2 DEF Quiet
<1> QED
    BY <1>2, <1>3

LEMMA RewritesTail ==
    ASSUME Typed, todo # <<>>, todo' = Tail(todo), NEW c \in Paths, NEW n, NEW k \in Nat \ {0},
           Rewrites(c, n, k)
    PROVE  Rewrites(c, n, k - 1)'
<1>1. /\ Len(todo) \in Nat \ {0} /\ Len(todo') = Len(todo) - 1
      /\ \A j \in 1..(Len(todo) - 1) : todo'[j] = todo[j + 1]
    BY TailOf
<1>2. /\ n \in 1..(Len(c) + 1) /\ Len(c) \in Nat
      /\ Len(todo) = k + 2 * (Len(c) - n + 1) + 1
    BY PathSeq DEF Rewrites
<1>3. Len(todo') = (k - 1) + 2 * (Len(c) - n + 1) + 1
    BY <1>1, <1>2
<1>4. ASSUME NEW j \in n..Len(c)
      PROVE  /\ todo'[(k - 1) + 2 * (j - n) + 1] = Mark(Prefix(c, j))
             /\ todo'[(k - 1) + 2 * (j - n) + 2] = Batch(Prefix(c, j), Prefix(c, j))
    <2>1. /\ todo[k + 2 * (j - n) + 1] = Mark(Prefix(c, j))
          /\ todo[k + 2 * (j - n) + 2] = Batch(Prefix(c, j), Prefix(c, j))
        BY DEF Rewrites
    <2>2. /\ (k - 1) + 2 * (j - n) + 1 \in 1..(Len(todo) - 1)
          /\ (k - 1) + 2 * (j - n) + 2 \in 1..(Len(todo) - 1)
          /\ ((k - 1) + 2 * (j - n) + 1) + 1 = k + 2 * (j - n) + 1
          /\ ((k - 1) + 2 * (j - n) + 2) + 1 = k + 2 * (j - n) + 2
        BY <1>2
    <2> QED
        BY <1>1, <2>1, <2>2
<1>5. todo'[Len(todo')] = SaveLast(c)
    <2>1. Len(todo') \in 1..(Len(todo) - 1) /\ Len(todo') + 1 = Len(todo)
        BY <1>1, <1>2
    <2> QED
        BY <1>1, <2>1 DEF Rewrites
<1> QED
    BY <1>2, <1>3, <1>4, <1>5 DEF Rewrites

\* The next two writes of a chain that is being rewritten.
LEMMA RewritesNext ==
    ASSUME Typed, NEW c \in Paths, NEW n, Rewrites(c, n, 0), n # Len(c) + 1
    PROVE  /\ todo # <<>> /\ todo[1] = Mark(Prefix(c, n))
           /\ todo[2] = Batch(Prefix(c, n), Prefix(c, n)) /\ Rewrites(c, n + 1, 2)
<1>1. /\ n \in 1..Len(c) /\ Len(c) \in Nat
      /\ Len(todo) = 0 + 2 * (Len(c) - n + 1) + 1
    BY PathSeq DEF Rewrites
<1>2. todo # <<>>
    BY <1>1, Lengths
<1>3. n \in n..Len(c) /\ 0 + 2 * (n - n) + 1 = 1 /\ 0 + 2 * (n - n) + 2 = 2
    BY <1>1
<1>4. todo[1] = Mark(Prefix(c, n)) /\ todo[2] = Batch(Prefix(c, n), Prefix(c, n))
    BY <1>3 DEF Rewrites
<1>5. Len(todo) = 2 + 2 * (Len(c) - (n + 1) + 1) + 1 /\ n + 1 \in 1..(Len(c) + 1)
    BY <1>1
<1>6. ASSUME NEW j \in (n + 1)..Len(c)
      PROVE  /\ todo[2 + 2 * (j - (n + 1)) + 1] = Mark(Prefix(c, j))
             /\ todo[2 + 2 * (j - (n + 1)) + 2] = Batch(Prefix(c, j), Prefix(c, j))
    <2>1. /\ j \in n..Len(c)
          /\ 2 + 2 * (j - (n + 1)) + 1 = 0 + 2 * (j - n) + 1
          /\ 2 + 2 * (j - (n + 1)) + 2 = 0 + 2 * (j - n) + 2
        BY <1>1
    <2> QED
        BY <2>1 DEF Rewrites
<1>7. todo[Len(todo)] = SaveLast(c)
    BY DEF Rewrites
<1> QED
    BY <1>2, <1>4, <1>5, <1>6, <1>7 DEF Rewrites

\* The last write of try_reorg.
LEMMA RewritesLast ==
    ASSUME Typed, NEW c \in Paths, Rewrites(c, Len(c) + 1, 0)
    PROVE  Len(todo) = 1 /\ todo # <<>> /\ todo[1] = SaveLast(c)
<1>1. Len(c) \in Nat
    BY PathSeq
<1>2. Len(todo) = 0 + 2 * (Len(c) - (Len(c) + 1) + 1) + 1
    BY DEF Rewrites
<1>3. Len(todo) = 1
    BY <1>1, <1>2
<1> QED
    BY <1>3, Lengths DEF Rewrites

-----------------------------------------------------------------------------
(* Single writes.                                                          *)

\* The write that is made is the one the queue names.
LEMMA Performs ==
    ASSUME NEW u, Perform(u)
    PROVE  /\ u.w = "mark" => write_marker(u.b)
           /\ u.w = "batch" => commit_batch(u.b, u.br)
           /\ u.w = "push" => push_block(u.b)
           /\ u.w = "delete" => delete_block(u.h)
           /\ u.w = "canon" => save_canonical_height(u.h)
           /\ u.w = "last" => save_last_hash(u.b)
           /\ u.w = "snap" => save_snapshot(u.h, u.f)
BY DEF Perform

\* The part of the store that the invariant is about is as it was, and no
\* scar went away.
Same ==
    /\ UNCHANGED <<blocks, index, last, marker, bridge, bridgeAt, committed>>
    /\ scars \subseteq scars'

LEMMA SameStore ==
    ASSUME Same, NEW x
    PROVE  /\ Sound' => Sound
           /\ Exact' => Exact
           /\ Copied => Copied'
           /\ Heights => Heights'
           /\ Stored(x) => Stored(x)'
           /\ Empty => Empty'
           /\ (Empty /\ ~Exact' => (Empty /\ ~Exact)')
<1>1. (Sound' => Sound) /\ (Exact' => Exact) /\ (scars' = {} => scars = {})
    BY DEF Same, Sound, Exact
<1>2. Copied => Copied'
    BY DEF Same, Copied, Copy
<1>3. Heights => Heights'
    BY DEF Same, Heights, Low, Covered
<1>4. Empty => Empty'
    BY <1>1 DEF Same, Empty
<1>5. Stored(x) => Stored(x)'
    <2>1. Branch(x, Len(x) + 1) => Branch(x, Len(x) + 1)'
        BY <1>1 DEF Same, Branch
    <2> QED
        BY <1>1, <2>1 DEF Same, Stored, Low
<1> QED
    BY <1>1, <1>2, <1>3, <1>4, <1>5

\* The memory but for the tip, and the queue.
Rest == Queue' /\ finalized' = finalized /\ scars' = scars

LEMMA MarkStore ==
    ASSUME Typed, NEW b \in Paths, write_marker(b), Rest, NEW x
    PROVE  /\ Typed' /\ Copied' /\ marker' = {Len(b)} /\ tip' = tip
           /\ Sound' = Sound /\ Exact' = Exact
           /\ Low(Len(b)) /\ Covered(Len(b) - 1) /\ (Len(b) = 0 => blocks = {}) /\ Heights => Heights'
           /\ Stored(x) /\ Len(b) = Len(x) + 1 => Stored(x)'
           /\ Empty /\ Len(b) \in {0, 1} => Empty'
<1>0. Len(b) \in Nat
    BY PathSeq
<1>1. Typed' /\ marker' = {Len(b)} /\ tip' = tip /\ (Sound' = Sound) /\ (Exact' = Exact)
    BY <1>0 DEF write_marker, Rest, Typed, Sound, Exact
<1>2. Copied'
    BY DEF Copied, write_marker
<1>3. Low(Len(b)) /\ Covered(Len(b) - 1) /\ (Len(b) = 0 => blocks = {}) /\ Heights => Heights'
    BY DEF Heights, Low, Covered, write_marker
<1>4. Stored(x) /\ Len(b) = Len(x) + 1 => Stored(x)'
    <2>1. Branch(x, Len(x) + 1) => Branch(x, Len(x) + 1)'
        BY DEF Branch, write_marker, Rest
    <2> QED
        BY <1>1, <2>1 DEF Stored, Low, write_marker
<1>5. Empty /\ Len(b) \in {0, 1} => Empty'
    BY <1>1 DEF Empty, write_marker
<1> QED
    BY <1>1, <1>2, <1>3, <1>4, <1>5

LEMMA BatchStore ==
    ASSUME Typed, NEW b \in Paths, NEW br, commit_batch(b, br), Rest, NEW c \in Paths, Len(b) <= Len(c), Low(Len(b)) \/ ~Sound
    PROVE  /\ Typed' /\ Copied' /\ marker' = {} /\ last' = {b} /\ b \in blocks' /\ committed' = b
           /\ tip' = tip /\ Sound' = Sound /\ Exact' = Exact
           /\ Sound => Low(Len(b) + 1)'
           /\ Covered(Len(b) - 1) => Covered(Len(b))'
           /\ Covered(Len(b) - 1) /\ Heights => Heights'
           /\ Prefix(c, Len(b)) = b /\ Branch(c, Len(b)) => Branch(c, Len(b) + 1)'
<1>0. Len(b) \in Nat /\ \A x \in index : Len(x) \in Nat
    BY PathSeq DEF Typed
<1>1. /\ blocks' = blocks \cup {b} /\ index' = (index \ At(index, Len(b))) \cup {b}
      /\ last' = {b} /\ marker' = {} /\ bridge' = {br} /\ committed' = b /\ tip' = tip
      /\ bridgeAt' = With(bridgeAt, Len(b), br) /\ snaps' = snaps
      /\ Queue' /\ finalized' = finalized /\ scars' = scars
    BY DEF commit_batch, Rest
<1>2. \A x \in index' : x = b \/ (x \in index /\ Len(x) # Len(b))
    BY <1>1 DEF At
<1>3. Typed'
    <2>1. index' \subseteq blocks' /\ blocks' \subseteq Paths
        BY <1>1 DEF Typed
    <2>2. \A x, y \in index' : Len(x) = Len(y) => x = y
        BY <1>2 DEF Typed
    <2> QED
        BY <1>1, <2>1, <2>2 DEF Typed
<1>4. /\ DOMAIN bridgeAt' = DOMAIN bridgeAt \cup {Len(b)}
      /\ bridgeAt'[Len(b)] = br
    BY <1>1 DEF With
<1>5. Copied'
    BY <1>1, <1>4 DEF Copied, Copy
<1>6. Sound' = Sound /\ Exact' = Exact
    BY <1>1 DEF Sound, Exact
<1>7. Sound => Low(Len(b) + 1)'
    BY <1>0, <1>2 DEF Low
<1>8. Covered(Len(b) - 1) => Covered(Len(b))'
    <2> SUFFICES ASSUME Covered(Len(b) - 1), NEW j \in 1..Len(b)
                 PROVE  j \in DOMAIN bridgeAt'
        BY DEF Covered
    <2>1. CASE j = Len(b)
        BY <2>1, <1>4
    <2>2. CASE j # Len(b)
        <3>1. j \in 1..(Len(b) - 1)
            BY <1>0, <2>2
        <3> QED
            BY <3>1, <1>4 DEF Covered
    <2> QED
        BY <2>1, <2>2
<1>9. Covered(Len(b) - 1) /\ Heights => Heights'
    <2>1. b = Genesis => 0 \in DOMAIN bridgeAt'
        BY <1>4, GenesisPath
    <2> QED
        BY <1>1, <1>4, <1>8, <2>1 DEF Heights
<1>10. Prefix(c, Len(b)) = b /\ Branch(c, Len(b)) => Branch(c, Len(b) + 1)'
    <2> SUFFICES ASSUME Prefix(c, Len(b)) = b, Branch(c, Len(b))
                 PROVE  Branch(c, Len(b) + 1)'
        OBVIOUS
    <2>1. ASSUME NEW x \in index', Len(x) < Len(b) + 1
          PROVE  x = Prefix(c, Len(x))
        BY <2>1, <1>0, <1>2 DEF Branch
    <2>2. ASSUME NEW j \in 0..Len(b)
          PROVE  Prefix(c, j) \in blocks' /\ (scars' = {} => Prefix(c, j) \in index')
        <3>1. CASE j = Len(b)
            BY <3>1, <1>1
        <3>2. CASE j # Len(b)
            <4>1. j \in 0..(Len(b) - 1)
                BY <1>0, <3>2
            <4>2. Prefix(c, j) \in blocks /\ (scars = {} => Prefix(c, j) \in index)
                BY <4>1 DEF Branch
            <4>3. Len(Prefix(c, j)) = j
                <5>1. j \in 0..Len(c)
                    BY <1>0, PathSeq
                <5> QED
                    BY <5>1, PrefixPath
            <4>4. Prefix(c, j) \notin At(index, Len(b))
                BY <3>2, <4>3 DEF At
            <4> QED
                BY <4>2, <4>4, <1>1
        <3> QED
            BY <3>1, <3>2
    <2>3. (Len(b) + 1) - 1 = Len(b)
        BY <1>0
    <2> QED
        BY <2>1, <2>2, <2>3 DEF Branch
<1> QED
    BY <1>1, <1>3, <1>5, <1>6, <1>7, <1>8, <1>9, <1>10

LEMMA DeleteStore ==
    ASSUME Typed, NEW h, delete_block(h), Queue', finalized' = finalized, scars \subseteq scars'
    PROVE  /\ Typed' /\ (Copied => Copied') /\ (Heights => Heights')
           /\ index' \subseteq index /\ (\A b \in index' : Len(b) # h)
           /\ blocks' \subseteq blocks /\ (\A b \in blocks : Len(b) # h => b \in blocks')
           /\ \A b \in index : Len(b) # h => b \in index'
           /\ UNCHANGED <<last, marker, bridge, bridgeAt, tip, committed>>
           /\ (Sound' => Sound) /\ (Exact' => Exact)
<1>1. /\ blocks' = blocks \ At(index, h) /\ index' = index \ At(index, h)
      /\ UNCHANGED <<last, marker, bridge, bridgeAt, tip, committed, snaps>>
    BY DEF delete_block
<1>2. /\ index' \subseteq index /\ (\A b \in index' : Len(b) # h)
      /\ blocks' \subseteq blocks /\ (\A b \in blocks : Len(b) # h => b \in blocks')
      /\ \A b \in index : Len(b) # h => b \in index'
    BY <1>1 DEF At
<1>3. Typed'
    BY <1>1 DEF Typed
<1>4. Copied => Copied'
    BY <1>1 DEF Copied, Copy
<1>5. Heights => Heights'
    BY <1>1, <1>2 DEF Heights, Low, Covered
<1>6. (Sound' => Sound) /\ (Exact' => Exact)
    BY DEF Sound, Exact
<1> QED
    BY <1>1, <1>2, <1>3, <1>4, <1>5, <1>6

\* Writes that the invariant does not see.
LEMMA QuietWrite ==
    ASSUME Typed, NEW u, Perform(u), Rest, u.w \in {"canon", "snap"},
           u.w = "snap" => u.h \in 0..MaxHeight /\ u.f \in Paths
    PROVE  Typed' /\ Same /\ tip' = tip
<1>1. CASE u.w = "canon"
    <2>1. save_canonical_height(u.h)
        BY <1>1, Performs
    <2> QED
        BY <2>1 DEF save_canonical_height, Rest, Typed, Same
<1>2. CASE u.w = "snap"
    <2>1. save_snapshot(u.h, u.f)
        BY <1>2, Performs
    <2>2. \A s \in snaps' : s.height \in 0..MaxHeight /\ s.finalized \in Paths
        BY <1>2, <2>1 DEF save_snapshot, Typed
    <2> QED
        BY <2>1, <2>2 DEF save_snapshot, Rest, Typed, Same
<1> QED
    BY <1>1, <1>2

\* Only a reorganisation has LAST to write.
LEMMA QuietNotReorg ==
    ASSUME Typed, NEW x, Quiet(1, x)
    PROVE  ~Reorganising
<1>1. DOMAIN todo = 1..Len(todo)
    BY DEF Typed, Queue
<1> QED
    BY <1>1 DEF Quiet, Harmless, Reorganising

-----------------------------------------------------------------------------
(* The next write of each handler.                                         *)

LEMMA CalmWrite ==
    ASSUME StoreInv, Calm, DoWrite
    PROVE  StoreInv'
<1>0. /\ Typed /\ Copied /\ (Sound => Heights) /\ todo # <<>> /\ todo' = Tail(todo)
      /\ Perform(Head(todo)) /\ finalized' = finalized /\ status' = "up" /\ status = "up"
      /\ Quiet(1, tip) /\ (Sound => Settled(tip))
    BY DEF StoreInv, DoWrite, Calm
<1>1. Len(todo) \in Nat \ {0} /\ Head(todo) = todo[1] /\ Queue'
    BY <1>0, TailOf
<1>2. Harmless(todo[1], tip)
    BY <1>0, <1>1 DEF Quiet
<1>3. ~Reorganising
    BY <1>0, QuietNotReorg
<1>4. PICK x \in Paths : x = tip
    BY <1>0 DEF Typed
<1>5. Quiet(1, x)'
    <2>1. Quiet(1, x)
        BY <1>0, <1>4
    <2> QED
        BY <1>0, <2>1, QuietTail
<1>6. CASE todo[1].w = "delete"
    <2>1. delete_block(todo[1].h) /\ scars' = scars \cup {"pruned"} /\ todo[1].h < Len(x)
        BY <1>0, <1>1, <1>2, <1>3, <1>4, <1>6, Performs DEF DoWrite, Harmless
    <2>2. PICK h : h = todo[1].h
        OBVIOUS
    <2>3. /\ Typed' /\ (Copied => Copied') /\ (Heights => Heights')
          /\ index' \subseteq index /\ (\A b \in index' : Len(b) # h)
          /\ blocks' \subseteq blocks /\ (\A b \in blocks : Len(b) # h => b \in blocks')
          /\ UNCHANGED <<last, marker, bridge, bridgeAt, tip, committed>>
          /\ (Sound' => Sound)
        <3>1. scars \subseteq scars'
            BY <2>1
        <3> QED
            BY <1>0, <1>1, <2>1, <2>2, <3>1, DeleteStore
    <2>4. ~Exact'
        BY <2>1 DEF Exact
    <2>5. Sound' => Settled(x)'
        <3>1. Stored(x) => Stored(x)'
            <4>1. Len(x) # h
                BY <1>4, <2>1, <2>2, PathSeq
            <4> QED
                BY <4>1, <2>3, <2>4 DEF Stored, Low
        <3>2. Empty => Empty'
            BY <2>3, <2>4 DEF Empty
        <3> QED
            BY <1>0, <1>4, <2>3, <2>4, <3>1, <3>2 DEF Settled
    <2>6. Calm'
        BY <1>0, <1>4, <1>5, <2>3, <2>5 DEF Calm
    <2> QED
        BY <1>0, <2>3, <2>6 DEF StoreInv, Doing
<1>7. CASE todo[1].w # "delete"
    <2>1. Rest
        BY <1>0, <1>1, <1>7 DEF DoWrite, Rest
    <2>2. Typed' /\ Same /\ tip' = tip
        BY <1>0, <1>1, <1>2, <1>7, <2>1, QuietWrite DEF Harmless
    <2>3. /\ (Sound' => Sound) /\ (Copied => Copied') /\ (Heights => Heights')
          /\ (Stored(x) => Stored(x)') /\ (Empty /\ ~Exact' => (Empty /\ ~Exact)')
        BY <2>2, SameStore
    <2>4. Exact' = Exact
        BY <2>1 DEF Rest, Exact
    <2>5. Sound' => Settled(x)'
        BY <1>0, <1>4, <2>3, <2>4 DEF Settled
    <2>6. Calm'
        BY <1>0, <1>4, <1>5, <2>2, <2>5 DEF Calm
    <2> QED
        BY <1>0, <2>2, <2>3, <2>6 DEF StoreInv, Doing
<1> QED
    BY <1>6, <1>7

\* commit_durable_batch and the push that follows it.
LEMMA CommitWrite ==
    ASSUME StoreInv, InCommit, DoWrite
    PROVE  StoreInv'
<1>0. /\ Typed /\ Copied /\ (Sound => Heights) /\ todo # <<>> /\ todo' = Tail(todo)
      /\ Perform(Head(todo)) /\ finalized' = finalized /\ status' = "up" /\ status = "up"
    BY DEF StoreInv, DoWrite, InCommit
<1>1. /\ Len(todo) \in Nat \ {0} /\ Head(todo) = todo[1] /\ Queue' /\ Len(todo') = Len(todo) - 1
      /\ \A i \in 1..(Len(todo) - 1) : todo'[i] = todo[i + 1]
    BY <1>0, TailOf
<1>2. PICK b \in Paths :
          /\ OnTip(b)
          /\ \/ Marking(b) /\ (Sound => Settled(tip))
             \/ Batching(b) /\ marker = {Len(b)} /\ (Sound => Settled(tip))
             \/ Pushing(b) /\ (Sound => Stored(b))
    BY DEF InCommit
<1>3. PICK x \in Paths : x = tip
    BY <1>0 DEF Typed
<1>4. /\ Len(b) \in Nat /\ Len(x) \in Nat /\ Len(b) = Len(x) + 1 /\ Prefix(b, Len(x)) = x
      /\ (x = Genesis => Len(b) = 1) /\ b # Genesis
    BY <1>2, <1>3, PathSeq, GenesisPath DEF OnTip
<1>5. Sound /\ Settled(tip) => Low(Len(b)) /\ Covered(Len(b) - 1)
    <2>1. Stored(x) => Low(Len(b))
        BY <1>4 DEF Stored
    <2>2. Sound /\ Stored(x) => Covered(Len(b) - 1)
        BY <1>0, <1>4 DEF Stored, Heights
    <2>3. Empty => Low(Len(b))
        BY <1>0 DEF Empty, Low, Typed
    <2>4. x = Genesis => Covered(Len(b) - 1)
        BY <1>4 DEF Covered
    <2> QED
        BY <1>3, <2>1, <2>2, <2>3, <2>4 DEF Settled
<1>6. CASE Marking(b) /\ (Sound => Settled(tip))
    <2>1. todo[1] = Mark(b) /\ todo[1].w = "mark" /\ todo[1].b = b /\ Len(todo) >= 3
        BY <1>6 DEF Marking, Mark
    <2>2. write_marker(b) /\ Rest
        BY <1>0, <1>1, <2>1, Performs DEF DoWrite, Rest
    <2>3. /\ Typed' /\ Copied' /\ marker' = {Len(b)} /\ tip' = tip
          /\ Sound' = Sound /\ Exact' = Exact
          /\ Low(Len(b)) /\ Covered(Len(b) - 1) /\ (Len(b) = 0 => blocks = {}) /\ Heights => Heights'
          /\ Stored(x) /\ Len(b) = Len(x) + 1 => Stored(x)'
          /\ Empty /\ Len(b) \in {0, 1} => Empty'
        BY <1>0, <2>2, MarkStore
    <2>4. Sound' => Heights'
        BY <1>0, <1>4, <1>5, <1>6, <2>3
    <2>5. Sound' => Settled(x)'
        BY <1>3, <1>4, <1>6, <2>3 DEF Settled
    <2>6. Batching(b)'
        <3>1. todo'[1] = todo[2] /\ todo'[2] = todo[3] /\ Len(todo') >= 2
            BY <1>1, <2>1
        <3>2. Quiet(3, b)'
            <4>1. Quiet(3 + 1, b)
                BY <1>6 DEF Marking
            <4> QED
                BY <1>0, <4>1, QuietTail
        <3> QED
            BY <1>6, <3>1, <3>2 DEF Marking, Batching, Batch, Push
    <2>7. InCommit'
        <3>1. OnTip(b)'
            BY <1>2, <2>3 DEF OnTip
        <3>2. Sound' => Settled(tip)'
            BY <1>3, <2>3, <2>5
        <3> QED
            BY <1>0, <2>3, <2>6, <3>1, <3>2 DEF InCommit
    <2> QED
        BY <2>3, <2>4, <2>7 DEF StoreInv, Doing
<1>7. CASE Batching(b) /\ marker = {Len(b)} /\ (Sound => Settled(tip))
    <2>0. PICK br : br = todo[1].br
        OBVIOUS
    <2>1. todo[1] = Batch(b, br) /\ todo[1].w = "batch" /\ todo[1].b = b /\ Len(todo) >= 2
        BY <1>7, <2>0 DEF Batching, Batch
    <2>2. commit_batch(b, br) /\ Rest
        BY <1>0, <1>1, <2>0, <2>1, Performs DEF DoWrite, Rest
    <2>3. /\ Typed' /\ Copied' /\ marker' = {} /\ last' = {b} /\ b \in blocks' /\ committed' = b
          /\ tip' = tip /\ Sound' = Sound /\ Exact' = Exact
          /\ Sound => Low(Len(b) + 1)'
          /\ Covered(Len(b) - 1) /\ Heights => Heights'
          /\ Prefix(b, Len(b)) = b /\ Branch(b, Len(b)) => Branch(b, Len(b) + 1)'
        BY <1>0, <1>4, <1>5, <1>7, <2>2, BatchStore
    <2>4. Sound' => Heights'
        BY <1>0, <1>5, <1>7, <2>3
    <2>5. Sound /\ Exact => Branch(b, Len(b) + 1)'
        <3>1. Sound /\ Exact => Branch(x, Len(b))
            BY <1>3, <1>4, <1>7 DEF Settled, Stored
        <3>2. ASSUME NEW j \in 0..(Len(b) - 1)
              PROVE  Prefix(x, j) = Prefix(b, j)
            <4>1. Len(x) \in 0..Len(b) /\ j \in 0..Len(x)
                BY <1>4
            <4> QED
                BY <1>4, <4>1, PrefixPrefix
        <3>3. Branch(x, Len(b)) => Branch(b, Len(b))
            <4>1. \A c \in index : Len(c) < Len(b) => Len(c) \in 0..(Len(b) - 1)
                BY <1>0, <1>4, PathSeq DEF Typed
            <4> QED
                BY <3>2, <4>1 DEF Branch
        <3> QED
            BY <2>3, <3>1, <3>3, PrefixFull
    <2>6. Sound' => Stored(b)'
        BY <2>3, <2>5 DEF Stored
    <2>7. Pushing(b)'
        <3>1. todo'[1] = todo[2] /\ Len(todo') >= 1
            BY <1>1, <2>1
        <3>2. Quiet(2, b)'
            <4>1. Quiet(2 + 1, b)
                BY <1>7 DEF Batching
            <4> QED
                BY <1>0, <4>1, QuietTail
        <3> QED
            BY <1>7, <3>1, <3>2 DEF Batching, Pushing, Push
    <2>8. InCommit'
        <3>1. OnTip(b)'
            BY <1>2, <2>3 DEF OnTip
        <3> QED
            BY <1>0, <2>6, <2>7, <3>1 DEF InCommit
    <2> QED
        BY <2>3, <2>4, <2>8 DEF StoreInv, Doing
<1>8. CASE Pushing(b) /\ (Sound => Stored(b))
    <2>1. todo[1] = Push(b) /\ todo[1].w = "push" /\ todo[1].b = b
        BY <1>8 DEF Pushing, Push
    <2>2. push_block(b) /\ scars' = scars
        BY <1>0, <1>1, <2>1, Performs DEF DoWrite
    <2>3. Same /\ tip' = b /\ snaps' = snaps
        BY <2>2 DEF push_block, Same, disk
    <2>4. Typed'
        BY <1>0, <1>1, <2>3 DEF Typed, Same
    <2>5. /\ (Sound' => Sound) /\ (Copied => Copied') /\ (Heights => Heights')
          /\ (Stored(b) => Stored(b)')
        BY <2>3, SameStore
    <2>6. Quiet(1, b)'
        <3>1. Quiet(1 + 1, b)
            BY <1>8 DEF Pushing
        <3> QED
            BY <1>0, <3>1, QuietTail
    <2>7. Calm'
        BY <1>0, <1>8, <2>3, <2>5, <2>6 DEF Calm, Settled
    <2> QED
        BY <1>0, <2>4, <2>5, <2>7 DEF StoreInv, Doing
<1> QED
    BY <1>2, <1>6, <1>7, <1>8

\* The genesis block of a new store.
LEMMA GenesisWrite ==
    ASSUME StoreInv, InGenesis, DoWrite
    PROVE  StoreInv'
<1>0. /\ Typed /\ Copied /\ (Sound => Heights) /\ todo # <<>> /\ todo' = Tail(todo)
      /\ Perform(Head(todo)) /\ finalized' = finalized /\ status' = "up" /\ status = "up"
      /\ tip = Genesis /\ (Sound => Empty)
    BY DEF StoreInv, DoWrite, InGenesis
<1>1. Queue'
    BY <1>0, TailOf
<1>2. Genesis \in Paths /\ Len(Genesis) = 0
    BY GenesisPath
<1>3. Sound => Low(0) /\ Covered(0 - 1)
    BY <1>0 DEF Empty, Low, Covered, Typed
<1>4. CASE todo = <<Mark(Genesis), Batch(Genesis, Genesis)>>
    <2>1. /\ Head(todo) = Mark(Genesis) /\ Head(todo).w = "mark" /\ Head(todo).b = Genesis
          /\ todo' = <<Batch(Genesis, Genesis)>>
        BY <1>0, <1>4 DEF Mark
    <2>2. write_marker(Genesis) /\ Rest
        BY <1>0, <1>1, <2>1, Performs DEF DoWrite, Rest
    <2>3. /\ Typed' /\ Copied' /\ marker' = {0} /\ tip' = tip /\ Sound' = Sound
          /\ Low(0) /\ Covered(0 - 1) /\ blocks = {} /\ Heights => Heights'
          /\ Empty => Empty'
        BY <1>0, <1>2, <2>2, MarkStore
    <2>4. Sound' => Heights'
        BY <1>0, <1>3, <2>3 DEF Empty
    <2>5. InGenesis'
        BY <1>0, <2>1, <2>3 DEF InGenesis, Batch, Mark, Genesis
    <2> QED
        BY <2>3, <2>4, <2>5 DEF StoreInv, Doing
<1>5. CASE todo = <<Batch(Genesis, Genesis)>> /\ marker = {0}
    <2>1. /\ Head(todo) = Batch(Genesis, Genesis) /\ Head(todo).w = "batch"
          /\ Head(todo).b = Genesis /\ Head(todo).br = Genesis /\ todo' = <<>>
        BY <1>0, <1>5 DEF Batch
    <2>2. commit_batch(Genesis, Genesis) /\ Rest
        BY <1>0, <1>1, <2>1, Performs DEF DoWrite, Rest
    <2>3. /\ Typed' /\ Copied' /\ marker' = {} /\ last' = {Genesis} /\ Genesis \in blocks'
          /\ committed' = Genesis /\ tip' = tip /\ Sound' = Sound
          /\ Sound => Low(0 + 1)'
          /\ Covered(0 - 1) /\ Heights => Heights'
          /\ Prefix(Genesis, 0) = Genesis /\ Branch(Genesis, 0) => Branch(Genesis, 0 + 1)'
        BY <1>0, <1>2, <1>3, <2>2, BatchStore
    <2>4. Sound' => Heights'
        BY <1>0, <1>3, <2>3
    <2>5. Sound => Branch(Genesis, 0)
        BY <1>0 DEF Empty, Branch, Typed
    <2>6. Sound' => Stored(Genesis)'
        BY <1>2, <2>3, <2>5, HeightZero DEF Stored
    <2>7. Calm'
        <3>1. Quiet(1, tip)'
            BY <2>1 DEF Quiet
        <3> QED
            BY <1>0, <2>3, <2>6, <3>1 DEF Calm, Settled
    <2> QED
        BY <2>3, <2>4, <2>7 DEF StoreInv, Doing
<1> QED
    BY <1>4, <1>5 DEF InGenesis

\* A queue that ends with LAST is a reorganisation's.
LEMMA RewritesReorganise ==
    ASSUME Typed, NEW c \in Paths, NEW n, NEW k \in Nat, Rewrites(c, n, k)
    PROVE  Reorganising /\ todo # <<>>
<1>1. Len(todo) = k + 2 * (Len(c) - n + 1) + 1 /\ n \in 1..(Len(c) + 1) /\ Len(c) \in Nat
    BY PathSeq DEF Rewrites
<1>2. Len(todo) \in Nat /\ Len(todo) >= 1
    BY <1>1
<1>3. DOMAIN todo = 1..Len(todo) /\ Len(todo) \in DOMAIN todo
    BY <1>2 DEF Typed, Queue
<1>4. todo[Len(todo)].w = "last"
    BY DEF Rewrites, SaveLast
<1> QED
    BY <1>2, <1>3, <1>4, Lengths DEF Reorganising

\* The states of a reorganisation, one by one.
InDelete(n, h, m) ==
    /\ Deleting(n, h, m)
    /\ Sound => /\ \A b \in index : Len(b) < n \/ (h <= Len(b) /\ Len(b) <= m)
                /\ Covered(m) /\ Covered(n - 1) /\ (Exact => Branch(tip, n))

InRewrite(n) ==
    /\ Rewriting(n) /\ (Sound => Rewritten_to(n))
    /\ n = Len(tip) + 1 => /\ last = {tip} /\ marker = {} /\ tip \in blocks
                           /\ committed = tip

InStore(n) == Storing(n) /\ marker = {n} /\ (Sound => Rewritten_to(n))

LEMMA ReorgStates ==
    InReorg <=> /\ status = "up"
                /\ \/ \E n, m \in Nat : \E h \in 1..(m + 1) : InDelete(n, h, m)
                   \/ \E n \in 1..(Len(tip) + 1) : InRewrite(n)
                   \/ \E n \in 1..Len(tip) : InStore(n)
BY DEF InReorg, InDelete, InRewrite, InStore

\* Once the old blocks are gone, the new ones are written.
LEMMA DeletedAll ==
    ASSUME Typed, NEW n \in Nat, NEW m \in Nat, NEW h \in 1..(m + 1), InDelete(n, h, m), h = m + 1
    PROVE  n \in 1..(Len(tip) + 1) /\ InRewrite(n)
<1>0. Len(tip) \in Nat /\ \A b \in index : Len(b) \in Nat
    BY PathSeq DEF Typed
<1>1. m - h + 1 = 0
    OBVIOUS
<1>2. Rewrites(tip, n, 0) /\ n <= Len(tip) /\ n \in 1..(Len(tip) + 1)
    BY <1>1 DEF InDelete, Deleting, Rewrites
<1>3. Sound => Low(n)
    BY <1>0 DEF InDelete, Low
<1> QED
    BY <1>0, <1>2, <1>3 DEF InDelete, InRewrite, Rewriting, Rewritten_to

\* The queue after a deletion.
LEMMA DeletedOne ==
    ASSUME Typed, NEW n \in Nat, NEW m \in Nat, NEW h \in 1..(m + 1), Deleting(n, h, m), h # m + 1,
           todo' = Tail(todo), tip' = tip
    PROVE  Deleting(n, h + 1, m)' /\ h + 1 \in 1..(m + 1) /\ todo[1] = Delete(h) /\ Reorganising
<1>0. PICK c \in Paths : c = tip
    BY DEF Typed
<1>1. m - h + 1 \in Nat \ {0} /\ (m - h + 1) - 1 = m - (h + 1) + 1 /\ h + 1 \in 1..(m + 1)
    BY DEF Deleting
<1>2. Rewrites(c, n, m - h + 1) /\ \A i \in 1..(m - h + 1) : todo[i] = Delete(h + i - 1)
    BY <1>0 DEF Deleting
<1>3. Reorganising /\ todo # <<>>
    BY <1>1, <1>2, RewritesReorganise
<1>4. Rewrites(c, n, m - (h + 1) + 1)'
    BY <1>1, <1>2, <1>3, RewritesTail
<1>5. /\ Len(todo) \in Nat \ {0}
      /\ \A j \in 1..(Len(todo) - 1) : todo'[j] = todo[j + 1]
    BY <1>3, TailOf
<1>6. ASSUME NEW i \in 1..(m - (h + 1) + 1)
      PROVE  todo'[i] = Delete((h + 1) + i - 1)
    <2>1. i + 1 \in 1..(m - h + 1) /\ h + (i + 1) - 1 = (h + 1) + i - 1
        BY <1>1
    <2>2. i \in 1..(Len(todo) - 1)
        <3>1. Len(todo) = (m - h + 1) + 2 * (Len(c) - n + 1) + 1 /\ n \in 1..(Len(c) + 1) /\ Len(c) \in Nat
            BY <1>2, PathSeq DEF Rewrites
        <3> QED
            BY <1>1, <3>1
    <2> QED
        BY <1>2, <1>5, <2>1, <2>2
<1>7. todo[1] = Delete(h)
    <2>1. 1 \in 1..(m - h + 1) /\ h + 1 - 1 = h
        BY <1>1
    <2> QED
        BY <1>2, <2>1
<1>8. Deleting(n, h + 1, m)'
    <2>1. n <= Len(tip') /\ n <= h + 1 /\ h + 1 <= m + 1
        BY <1>1 DEF Deleting
    <2>2. Rewrites(tip, n, m - (h + 1) + 1)'
        BY <1>0, <1>4 DEF Rewrites
    <2> QED
        BY <1>6, <2>1, <2>2 DEF Deleting
<1> QED
    BY <1>1, <1>3, <1>7, <1>8

\* try_reorg's writes.
LEMMA ReorgWrite ==
    ASSUME StoreInv, InReorg, DoWrite
    PROVE  StoreInv'
<1>0. /\ Typed /\ Copied /\ (Sound => Heights) /\ todo # <<>> /\ todo' = Tail(todo)
      /\ Perform(Head(todo)) /\ finalized' = finalized /\ status' = "up" /\ status = "up"
    BY DEF StoreInv, DoWrite, InReorg
<1>1. /\ Len(todo) \in Nat \ {0} /\ Head(todo) = todo[1] /\ Queue' /\ Len(todo') = Len(todo) - 1
      /\ \A i \in 1..(Len(todo) - 1) : todo'[i] = todo[i + 1]
    BY <1>0, TailOf
<1>2. PICK c \in Paths : c = tip
    BY <1>0 DEF Typed
<1>3. Len(c) \in Nat /\ \A b \in index : Len(b) \in Nat
    BY <1>0, PathSeq DEF Typed
<1>4. ASSUME NEW n \in Nat, NEW m \in Nat, NEW h \in 1..(m + 1), InDelete(n, h, m), h # m + 1
      PROVE  StoreInv'
    <2>1. Deleting(n, h, m) /\ n <= h /\ n \in 1..(Len(c) + 1)
        BY <1>2, <1>4 DEF InDelete, Deleting, Rewrites
    <2>2. todo[1] = Delete(h) /\ Reorganising
        <3>1. DOMAIN todo = 1..Len(todo) /\ 1 \in 1..(m - h + 1) /\ h + 1 - 1 = h /\ m - h + 1 \in Nat
            BY <1>0, <1>4 DEF Typed, Queue
        <3>2. Rewrites(c, n, m - h + 1)
            BY <1>2, <2>1 DEF Deleting
        <3> QED
            BY <1>0, <2>1, <3>1, <3>2, RewritesReorganise DEF Deleting
    <2>3. delete_block(h) /\ scars' = scars
        <3>1. todo[1].w = "delete" /\ todo[1].h = h
            BY <2>2 DEF Delete
        <3> QED
            BY <1>0, <1>1, <2>2, <3>1, Performs DEF DoWrite
    <2>4. /\ Typed' /\ (Copied => Copied') /\ (Heights => Heights')
          /\ index' \subseteq index /\ (\A b \in index' : Len(b) # h)
          /\ (\A b \in blocks : Len(b) # h => b \in blocks')
          /\ \A b \in index : Len(b) # h => b \in index'
          /\ UNCHANGED <<last, marker, bridge, bridgeAt, tip, committed>>
          /\ (Sound' => Sound) /\ (Exact' => Exact)
        BY <1>0, <1>1, <2>3, DeleteStore
    <2>5. Deleting(n, h + 1, m)' /\ h + 1 \in 1..(m + 1)
        BY <1>0, <1>4, <2>1, <2>4, DeletedOne
    <2>6. Branch(c, n) => Branch(c, n)'
        <3>1. ASSUME NEW j \in 0..(n - 1)
              PROVE  Len(Prefix(c, j)) = j /\ j # h
            <4>1. j \in 0..Len(c) /\ j # h
                BY <1>3, <2>1
            <4> QED
                BY <4>1, PrefixPath
        <3> QED
            BY <2>3, <2>4, <3>1 DEF Branch
    <2>7. InDelete(n, h + 1, m)'
        <3>1. Sound' => \A b \in index' : Len(b) < n \/ (h + 1 <= Len(b) /\ Len(b) <= m)
            BY <1>3, <1>4, <2>4 DEF InDelete
        <3>2. Sound' => Covered(m)' /\ Covered(n - 1)' /\ (Exact' => Branch(c, n)')
            BY <1>2, <1>4, <2>4, <2>6 DEF InDelete, Covered
        <3>3. Branch(c, n)' => Branch(tip, n)'
            BY <1>2, <2>4 DEF Branch
        <3> QED
            BY <2>5, <3>1, <3>2, <3>3 DEF InDelete
    <2>8. InReorg'
        <3>1. \E k, l \in Nat : \E g \in 1..(l + 1) : InDelete(k, g, l)'
            BY <2>5, <2>7
        <3> QED
            BY <1>0, <3>1 DEF InReorg, InDelete
    <2> QED
        BY <1>0, <2>4, <2>8 DEF StoreInv, Doing
<1>5. ASSUME NEW n \in 1..(Len(tip) + 1), InRewrite(n), n # Len(tip) + 1
      PROVE  StoreInv'
    <2>1. n \in 1..Len(c) /\ Rewrites(c, n, 0)
        BY <1>2, <1>3, <1>5 DEF InRewrite, Rewriting
    <2>2. /\ todo[1] = Mark(Prefix(c, n)) /\ todo[2] = Batch(Prefix(c, n), Prefix(c, n))
          /\ Rewrites(c, n + 1, 2)
        BY <1>0, <1>2, <1>5, <2>1, RewritesNext
    <2>3. PICK b \in Paths : b = Prefix(c, n) /\ Len(b) = n
        <3>1. n \in 0..Len(c)
            BY <1>3, <2>1
        <3> QED
            BY <3>1, PrefixPath
    <2>4. write_marker(b) /\ Rest
        <3>1. todo[1].w = "mark" /\ todo[1].b = b
            BY <2>2, <2>3 DEF Mark
        <3> QED
            BY <1>0, <1>1, <3>1, Performs DEF DoWrite, Rest
    <2>5. /\ Typed' /\ Copied' /\ marker' = {Len(b)} /\ tip' = tip
          /\ Sound' = Sound /\ Exact' = Exact
          /\ Low(Len(b)) /\ Covered(Len(b) - 1) /\ (Len(b) = 0 => blocks = {}) /\ Heights => Heights'
        BY <1>0, <2>4, MarkStore
    <2>6. Sound' => Heights'
        BY <1>0, <1>5, <2>3, <2>1, <2>5 DEF InRewrite, Rewritten_to
    <2>7. Rewritten_to(n) => Rewritten_to(n)'
        BY <2>4, <2>5 DEF Rewritten_to, Low, Covered, Branch, write_marker, Rest
    <2>8. Storing(n)'
        <3>1. Rewrites(c, n + 1, 2 - 1)'
            BY <1>0, <2>2, RewritesTail
        <3>2. todo'[1] = todo[2]
            <4>1. Len(todo) = 2 + 2 * (Len(c) - (n + 1) + 1) + 1
                BY <2>2 DEF Rewrites
            <4>2. 1 \in 1..(Len(todo) - 1)
                BY <1>3, <2>1, <4>1
            <4> QED
                BY <1>1, <4>2
        <3>3. Rewrites(tip, n + 1, 1)'
            BY <1>2, <2>5, <3>1 DEF Rewrites
        <3> QED
            BY <1>2, <2>1, <2>2, <2>5, <3>2, <3>3 DEF Storing, Batch
    <2>9. InReorg'
        <3>1. \E k \in 1..Len(tip') : InStore(k)'
            BY <1>2, <1>5, <2>1, <2>3, <2>5, <2>7, <2>8 DEF InStore, InRewrite
        <3> QED
            BY <1>0, <3>1 DEF InReorg, InStore
    <2> QED
        BY <2>5, <2>6, <2>9 DEF StoreInv, Doing
<1>6. ASSUME InRewrite(Len(tip) + 1)
      PROVE  StoreInv'
    <2>1. /\ Rewrites(c, Len(c) + 1, 0) /\ (Sound => Rewritten_to(Len(c) + 1))
          /\ last = {c} /\ marker = {} /\ c \in blocks /\ committed = c
        BY <1>2, <1>6 DEF InRewrite, Rewriting
    <2>2. Len(todo) = 1 /\ todo[1] = SaveLast(c)
        BY <1>0, <2>1, RewritesLast
    <2>3. save_last_hash(c) /\ scars' = scars
        <3>1. todo[1].w = "last" /\ todo[1].b = c
            BY <2>2 DEF SaveLast
        <3> QED
            BY <1>0, <1>1, <3>1, Performs DEF DoWrite
    <2>4. Same /\ tip' = tip /\ snaps' = snaps
        BY <2>1, <2>3 DEF Same, save_last_hash
    <2>5. Typed'
        BY <1>0, <1>1, <2>4 DEF Typed, Same
    <2>6. /\ (Sound' => Sound) /\ (Copied => Copied') /\ (Heights => Heights')
          /\ (Stored(c) => Stored(c)')
        BY <2>4, SameStore
    <2>7. Sound => Stored(c)
        BY <1>2, <2>1 DEF Stored, Rewritten_to
    <2>8. Calm'
        <3>1. Quiet(1, tip)'
            BY <1>1, <2>2 DEF Quiet
        <3> QED
            BY <1>0, <1>2, <2>4, <2>6, <2>7, <3>1 DEF Calm, Settled
    <2> QED
        BY <1>0, <2>5, <2>6, <2>8 DEF StoreInv, Doing
<1>7. ASSUME NEW n \in 1..Len(tip), InStore(n)
      PROVE  StoreInv'
    <2>1. /\ n \in 1..Len(c) /\ Rewrites(c, n + 1, 1) /\ todo[1] = Batch(Prefix(c, n), Prefix(c, n))
          /\ (Sound => Rewritten_to(n)) /\ marker = {n}
        BY <1>2, <1>7 DEF InStore, Storing
    <2>2. PICK b \in Paths : b = Prefix(c, n) /\ Len(b) = n
        <3>1. n \in 0..Len(c)
            BY <1>3, <2>1
        <3> QED
            BY <3>1, PrefixPath
    <2>3. commit_batch(b, b) /\ Rest
        <3>1. todo[1].w = "batch" /\ todo[1].b = b /\ todo[1].br = b
            BY <2>1, <2>2 DEF Batch
        <3> QED
            BY <1>0, <1>1, <3>1, Performs DEF DoWrite, Rest
    <2>4. /\ Typed' /\ Copied' /\ marker' = {} /\ last' = {b} /\ b \in blocks' /\ committed' = b
          /\ tip' = tip /\ Sound' = Sound /\ Exact' = Exact
          /\ Sound => Low(Len(b) + 1)'
          /\ Covered(Len(b) - 1) => Covered(Len(b))'
          /\ Covered(Len(b) - 1) /\ Heights => Heights'
          /\ Prefix(c, Len(b)) = b /\ Branch(c, Len(b)) => Branch(c, Len(b) + 1)'
        <3>1. Len(b) <= Len(c) /\ (Low(Len(b)) \/ ~Sound)
            BY <1>3, <2>1, <2>2 DEF Rewritten_to
        <3> QED
            BY <1>0, <2>3, <3>1, BatchStore
    <2>5. Sound' => Heights'
        BY <1>0, <2>1, <2>2, <2>4 DEF Rewritten_to
    <2>6. Sound' => Rewritten_to(n + 1)'
        <3>1. Branch(c, n + 1)' => Branch(tip, n + 1)'
            BY <1>2, <2>4 DEF Branch
        <3>2. (n + 1) - 1 = n
            BY <2>1
        <3> QED
            BY <1>2, <2>1, <2>2, <2>4, <3>1, <3>2 DEF Rewritten_to
    <2>7. Rewriting(n + 1)'
        <3>1. Rewrites(c, n + 1, 1 - 1)'
            BY <1>0, <2>1, RewritesTail
        <3> QED
            BY <1>2, <2>4, <3>1 DEF Rewriting, Rewrites
    <2>8. InReorg'
        <3>1. n + 1 = Len(c) + 1 => b = c
            BY <1>3, <2>1, <2>2, PrefixFull
        <3>2. n + 1 \in 1..(Len(tip') + 1) /\ InRewrite(n + 1)'
            BY <1>2, <1>3, <2>1, <2>4, <2>6, <2>7, <3>1 DEF InRewrite
        <3>3. \E k \in 1..(Len(tip') + 1) : InRewrite(k)'
            BY <3>2
        <3> QED
            BY <1>0, <3>3 DEF InReorg, InRewrite
    <2> QED
        BY <2>4, <2>5, <2>8 DEF StoreInv, Doing
<1>8. CASE \E n, m \in Nat : \E h \in 1..(m + 1) : InDelete(n, h, m)
    <2>1. PICK n \in Nat, m \in Nat : \E h \in 1..(m + 1) : InDelete(n, h, m)
        BY <1>8
    <2>2. PICK h \in 1..(m + 1) : InDelete(n, h, m)
        BY <2>1
    <2>3. CASE h = m + 1
        <3>1. n \in 1..(Len(tip) + 1) /\ InRewrite(n)
            BY <1>0, <2>2, <2>3, DeletedAll
        <3> QED
            BY <3>1, <1>5, <1>6
    <2> QED
        BY <2>2, <2>3, <1>4
<1> QED
    BY <1>5, <1>6, <1>7, <1>8, ReorgStates

LEMMA WriteStep ==
    ASSUME StoreInv, DoWrite
    PROVE  StoreInv'
<1>1. ~Stopped
    BY DEF Stopped, DoWrite
<1> QED
    BY <1>1, CalmWrite, CommitWrite, GenesisWrite, ReorgWrite DEF StoreInv, Doing

-----------------------------------------------------------------------------
(* Faults.                                                                 *)

LEMMA ReorgQueue ==
    ASSUME Typed, InReorg
    PROVE  Reorganising
<1>0. PICK c \in Paths : c = tip
    BY DEF Typed
<1>1. ASSUME NEW n \in Nat, NEW m \in Nat, NEW h \in 1..(m + 1), InDelete(n, h, m)
      PROVE  Reorganising
    <2>1. Rewrites(c, n, m - h + 1) /\ m - h + 1 \in Nat
        BY <1>0, <1>1 DEF InDelete, Deleting
    <2> QED
        BY <2>1, RewritesReorganise
<1>2. ASSUME NEW n \in 1..(Len(tip) + 1), InRewrite(n)
      PROVE  Reorganising
    BY <1>0, <1>2, RewritesReorganise DEF InRewrite, Rewriting
<1>3. ASSUME NEW n \in 1..Len(tip), InStore(n)
      PROVE  Reorganising
    BY <1>0, <1>3, RewritesReorganise DEF InStore, Storing
<1> QED
    BY <1>1, <1>2, <1>3, ReorgStates

\* Outside a reorganisation the store is empty or ends at LAST.
LEMMA AtRest ==
    ASSUME Typed, Doing, Sound, ~Reorganising
    PROVE  Empty \/ \E x \in Paths : Stored(x)
<1>1. ~InReorg
    BY ReorgQueue
<1>2. tip \in Paths
    BY DEF Typed
<1> QED
    BY <1>1, <1>2 DEF Doing, Stopped, Calm, InCommit, InGenesis, Settled

LEMMA FailStep ==
    ASSUME StoreInv, WriteFails
    PROVE  StoreInv'
<1>0. /\ Typed /\ Copied /\ (Sound => Heights) /\ todo # <<>> /\ status' = status
      /\ tip' = tip /\ finalized' = finalized /\ snaps' = snaps
      /\ todo' = IF Head(todo).w \in {"mark", "batch"} THEN <<>> ELSE Tail(todo)
      /\ Head(todo).w # "push" /\ Doing
    BY DEF StoreInv, WriteFails, disk
<1>1. Same
    BY DEF WriteFails, Same, disk
<1>2. PICK x \in Paths : x = tip
    BY <1>0 DEF Typed
<1>3. /\ (Sound' => Sound) /\ (Exact' => Exact) /\ (Copied => Copied') /\ (Heights => Heights')
      /\ (Stored(x) => Stored(x)') /\ (Empty => Empty')
    BY <1>1, SameStore
<1>4. Head(todo) = todo[1] /\ Len(todo) \in Nat \ {0}
    <2>1. PICK S : todo \in Seq(S)
        BY <1>0 DEF Typed, Queue
    <2> QED
        BY <1>0, <2>1, Lengths
<1>5. Queue'
    <2>1. CASE todo' = <<>>
        <3>1. <<>> \in Seq(Nat)
            OBVIOUS
        <3> QED
            BY <2>1, <3>1 DEF Queue
    <2>2. CASE todo' = Tail(todo)
        BY <1>0, <2>2, TailOf
    <2> QED
        BY <1>0, <2>1, <2>2
<1>6. Typed'
    BY <1>0, <1>1, <1>5 DEF Typed, Same
<1>7. todo' = <<>> => Quiet(1, x)'
    BY DEF Quiet
<1>8. Sound' /\ Settled(x) => Settled(x)'
    BY <1>3 DEF Settled
<1>9. SUFFICES Doing'
    BY <1>0, <1>3, <1>6 DEF StoreInv
<1>10. CASE Stopped
    BY <1>0, <1>10 DEF Stopped
<1>11. CASE Calm
    <2>1. Harmless(todo[1], x) /\ Quiet(1, x)
        BY <1>2, <1>4, <1>11 DEF Calm, Quiet
    <2>2. todo' = Tail(todo)
        BY <1>0, <1>4, <2>1 DEF Harmless
    <2>3. Quiet(1, x)'
        BY <1>0, <2>1, <2>2, QuietTail
    <2> QED
        BY <1>0, <1>2, <1>3, <1>8, <1>11, <2>3 DEF Calm, Doing
<1>12. CASE InCommit
    <2>1. todo[1].w \in {"mark", "batch"} /\ (Sound => Settled(tip))
        BY <1>0, <1>4, <1>12 DEF InCommit, Marking, Batching, Pushing, Mark, Batch, Push
    <2>2. todo' = <<>>
        BY <1>0, <1>4, <2>1
    <2> QED
        BY <1>0, <1>2, <1>3, <1>7, <1>8, <1>12, <2>1, <2>2 DEF InCommit, Calm, Doing
<1>13. CASE InGenesis
    <2>1. Head(todo).w \in {"mark", "batch"}
        BY <1>13 DEF InGenesis, Mark, Batch
    <2>2. StoringGenesis
        <3>1. CASE todo = <<Mark(Genesis), Batch(Genesis, Genesis)>>
            <4>1. 2 \in DOMAIN todo /\ todo[2] = Batch(Genesis, Genesis)
                BY <3>1
            <4> QED
                BY <4>1 DEF StoringGenesis, Batch
        <3>2. CASE todo = <<Batch(Genesis, Genesis)>>
            <4>1. 1 \in DOMAIN todo /\ todo[1] = Batch(Genesis, Genesis)
                BY <3>2
            <4> QED
                BY <4>1 DEF StoringGenesis, Batch
        <3> QED
            BY <1>13, <3>1, <3>2 DEF InGenesis
    <2>3. "no genesis" \in scars'
        BY <2>2 DEF WriteFails
    <2>4. ~Exact'
        BY <2>3 DEF Exact
    <2>5. Sound' => Settled(tip)'
        BY <1>0, <1>3, <1>13, <2>4 DEF InGenesis, Settled
    <2> QED
        BY <1>0, <1>2, <1>7, <1>13, <2>1, <2>5 DEF InGenesis, Calm, Doing
<1>14. CASE InReorg
    <2>1. Reorganising
        BY <1>0, <1>14, ReorgQueue
    <2>2. ~Sound'
        <3>1. "cut reorg" \in scars'
            BY <2>1 DEF WriteFails
        <3> QED
            BY <3>1 DEF Sound
    <2>3. status' = "up"
        BY <1>0, <1>14 DEF InReorg
    <2>4. todo' = <<>> => Calm'
        BY <1>0, <1>2, <1>7, <2>2, <2>3 DEF Calm
    <2>5. ASSUME NEW n \in 1..(Len(tip) + 1), InRewrite(n)
          PROVE  todo' = <<>>
        <3>1. Rewrites(x, n, 0)
            BY <1>2, <2>5 DEF InRewrite, Rewriting
        <3>2. CASE n = Len(x) + 1
            <4>1. Len(todo) = 1 /\ todo[1] = SaveLast(x)
                BY <1>0, <3>1, <3>2, RewritesLast
            <4>2. todo' = Tail(todo)
                BY <1>0, <1>4, <4>1 DEF SaveLast
            <4>3. Len(todo') = 0
                BY <1>0, <4>1, <4>2, TailOf
            <4> QED
                BY <1>6, <4>3, <1>5, EmptySeq DEF Queue
        <3>3. CASE n # Len(x) + 1
            <4>1. todo[1] = Mark(Prefix(x, n))
                BY <1>0, <3>1, <3>3, RewritesNext
            <4> QED
                BY <1>0, <1>4, <4>1 DEF Mark
        <3> QED
            BY <3>2, <3>3
    <2>6. ASSUME NEW n \in 1..Len(tip), InStore(n)
          PROVE  todo' = <<>>
        BY <1>0, <1>4, <2>6 DEF InStore, Storing, Batch
    <2>7. ASSUME NEW n \in Nat, NEW m \in Nat, NEW h \in 1..(m + 1), InDelete(n, h, m)
          PROVE  todo' = <<>> \/ InReorg'
        <3>1. CASE h = m + 1
            BY <1>0, <2>5, <2>7, <3>1, DeletedAll
        <3>2. CASE h # m + 1
            <4>1. todo[1] = Delete(h)
                <5>1. 1 \in 1..(m - h + 1) /\ h + 1 - 1 = h
                    BY <3>2
                <5> QED
                    BY <2>7, <5>1 DEF InDelete, Deleting
            <4>2. todo' = Tail(todo)
                BY <1>0, <1>4, <4>1 DEF Delete
            <4>3. Deleting(n, h + 1, m)' /\ h + 1 \in 1..(m + 1)
                BY <1>0, <2>7, <3>2, <4>2, DeletedOne DEF InDelete
            <4>4. InDelete(n, h + 1, m)'
                BY <2>2, <4>3 DEF InDelete
            <4>5. \E k, l \in Nat : \E g \in 1..(l + 1) : InDelete(k, g, l)'
                BY <4>3, <4>4
            <4> QED
                BY <2>3, <4>5 DEF InReorg, InDelete
        <3> QED
            BY <3>1, <3>2
    <2> QED
        BY <1>14, <2>4, <2>5, <2>6, <2>7, ReorgStates DEF Doing
<1> QED
    BY <1>0, <1>10, <1>11, <1>12, <1>13, <1>14 DEF Doing

LEMMA CrashStep ==
    ASSUME StoreInv, Crash
    PROVE  StoreInv'
<1>0. /\ Typed /\ Copied /\ (Sound => Heights) /\ Doing /\ status' = "down" /\ todo' = <<>>
      /\ tip' = Genesis /\ finalized' = Genesis /\ snaps' = snaps
    BY DEF StoreInv, Crash, disk
<1>1. Same
    BY DEF Crash, Same, disk
<1>2. /\ (Sound' => Sound) /\ (Copied => Copied') /\ (Heights => Heights') /\ (Empty => Empty')
      /\ \A x : Stored(x) => Stored(x)'
    BY <1>1, SameStore
<1>3. Typed'
    <2>1. <<>> \in Seq(Nat)
        OBVIOUS
    <2>2. Queue'
        BY <1>0, <2>1 DEF Queue
    <2> QED
        BY <1>0, <1>1, <2>2, GenesisPath DEF Typed, Same
<1>4. Sound' => ~Reorganising
    BY DEF Crash, Sound
<1>5. Stopped'
    <2>1. Sound' => (Empty \/ \E x \in Paths : Stored(x))
        BY <1>0, <1>2, <1>4, AtRest
    <2>2. Sound' => (Empty' \/ \E x \in Paths : Stored(x)')
        BY <1>2, <2>1
    <2> QED
        BY <1>0, <2>2 DEF Stopped
<1> QED
    BY <1>0, <1>2, <1>3, <1>5 DEF StoreInv, Doing

LEMMA LoseStep ==
    ASSUME StoreInv, NEW b \in index, LoseIndex(b)
    PROVE  StoreInv'
<1>0. /\ Typed /\ Copied /\ (Sound => Heights) /\ Doing /\ status = "down"
      /\ index' = index \ {b} /\ scars' = scars \cup {"lost entry"}
      /\ UNCHANGED <<blocks, last, marker, bridge, bridgeAt, snaps, status, tip, finalized, todo, committed>>
    BY DEF StoreInv, LoseIndex, memory
<1>1. Stopped
    BY <1>0 DEF Doing, Calm, InCommit, InGenesis, InReorg
<1>2. Typed'
    BY <1>0 DEF Typed, Queue
<1>3. (Sound' => Sound) /\ (Exact' => Exact) /\ scars' # {}
    BY <1>0 DEF Sound, Exact
<1>4. Copied' /\ (Heights => Heights')
  <2>1. Copied'
    BY <1>0, ZenonT(40) DEF Copied, Copy
  <2>2. Heights => Heights'
    BY <1>0 DEF Heights, Copy, Low, Covered
  <2> QED  BY <2>1, <2>2
<1>5. Empty => Empty'
    BY <1>0, <1>3 DEF Empty
<1>6. ASSUME NEW x \in Paths, Stored(x)
      PROVE  Stored(x)'
    <2>1. Branch(x, Len(x) + 1) => Branch(x, Len(x) + 1)'
        BY <1>0, <1>3 DEF Branch
    <2> QED
        BY <1>0, <1>3, <1>6, <2>1 DEF Stored, Low
<1>7. Stopped'
    BY <1>0, <1>1, <1>3, <1>5, <1>6 DEF Stopped
<1> QED
    BY <1>0, <1>2, <1>3, <1>4, <1>7 DEF StoreInv, Doing

-----------------------------------------------------------------------------
(* Opening the store.                                                      *)

\* What recover_interrupted_commit leaves, whatever it finds.
LEMMA RecoveredTyped ==
    ASSUME Typed, Copied
    PROVE  /\ Recovered.blocks \subseteq blocks /\ Recovered.index \subseteq Recovered.blocks
           /\ Recovered.index \subseteq index /\ Recovered.last \subseteq Paths
           /\ \A s, t \in Recovered.last : s = t
           /\ \A t \in Recovered.last \cap Recovered.blocks :
                 Recovered.bridge = Copy(Recovered.bridgeAt, Len(t))
           /\ Heights => /\ \A t \in Recovered.last : 1..Len(t) \subseteq DOMAIN Recovered.bridgeAt
                         /\ Genesis \in Recovered.blocks => 0 \in DOMAIN Recovered.bridgeAt
<1>1. CASE marker = {}
    BY <1>1 DEF Recovered, Typed, Copied, Heights, Covered
<1>2. CASE marker # {}
    <2>0. PICK h \in marker : TRUE
        BY <1>2
    <2>1. h \in Nat /\ marker = {h}
        BY <2>0 DEF Typed
    <2>2. /\ Recovered.blocks = blocks \ Lookup(h)
          /\ Recovered.index = index \ At(index, h)
          /\ Recovered.last = IF h > 0 THEN At(index, h - 1) ELSE {}
          /\ Recovered.bridge = IF h > 0 /\ (h - 1) \in DOMAIN bridgeAt THEN {bridgeAt[h - 1]} ELSE {}
          /\ Recovered.bridgeAt = Without(bridgeAt, h)
        <3>1. (CHOOSE x \in marker : TRUE) = h
            BY <2>1
        <3> QED
            BY <1>2, <3>1 DEF Recovered
    <2>3. /\ Recovered.blocks \subseteq blocks /\ Recovered.index \subseteq Recovered.blocks
          /\ Recovered.index \subseteq index /\ Recovered.last \subseteq Paths
        BY <2>2 DEF Typed, Lookup, At
    <2>4. \A t \in Recovered.last : h > 0 /\ t \in index /\ Len(t) = h - 1
        BY <2>2 DEF At
    <2>5. \A s, t \in Recovered.last : s = t
        BY <2>4 DEF Typed
    <2>6. /\ DOMAIN Recovered.bridgeAt = DOMAIN bridgeAt \ {h}
          /\ \A k \in DOMAIN bridgeAt : k # h => Recovered.bridgeAt[k] = bridgeAt[k]
        BY <2>2 DEF Without
    <2>7. h - 1 # h
        BY <2>1
    <2>8. ASSUME NEW t \in Recovered.last \cap Recovered.blocks
          PROVE  Recovered.bridge = Copy(Recovered.bridgeAt, Len(t))
        <3>1. h > 0 /\ Len(t) = h - 1
            BY <2>4
        <3>2. CASE (h - 1) \in DOMAIN bridgeAt
            BY <2>2, <2>6, <2>7, <3>1, <3>2 DEF Copy
        <3>3. CASE (h - 1) \notin DOMAIN bridgeAt
            BY <2>2, <2>6, <2>7, <3>1, <3>3 DEF Copy
        <3> QED
            BY <3>2, <3>3
    <2>9. ASSUME Heights
          PROVE  /\ \A t \in Recovered.last : 1..Len(t) \subseteq DOMAIN Recovered.bridgeAt
                 /\ Genesis \in Recovered.blocks => 0 \in DOMAIN Recovered.bridgeAt
        <3>1. Covered(h - 1) /\ (h = 0 => blocks = {}) /\ (Genesis \in blocks => 0 \in DOMAIN bridgeAt)
            BY <2>1, <2>9 DEF Heights
        <3>2. 1..(h - 1) \subseteq DOMAIN Recovered.bridgeAt
            BY <2>6, <3>1 DEF Covered
        <3> QED
            BY <2>3, <2>4, <2>6, <3>1, <3>2
    <2> QED
        BY <2>3, <2>5, <2>8, <2>9
<1> QED
    BY <1>1, <1>2

\* An empty store is still empty.
LEMMA RecoveredEmpty ==
    ASSUME Typed, Empty
    PROVE  Recovered.blocks = {} /\ Recovered.index = {} /\ Recovered.last = {}
<1>1. blocks = {} /\ index = {} /\ last = {}
    BY DEF Typed, Empty
<1>2. CASE marker = {}
    BY <1>1, <1>2 DEF Recovered
<1>3. CASE marker # {}
    BY <1>1, <1>3 DEF Recovered, Lookup, At
<1> QED
    BY <1>2, <1>3

\* A sound store loses nothing, and LAST is the block it was or, when the
\* index lost that one, nothing.
LEMMA RecoveredStored ==
    ASSUME Typed, NEW x \in Paths, Stored(x)
    PROVE  /\ Recovered.blocks = blocks /\ Recovered.index = index
           /\ \A y \in Recovered.last :
                 /\ y \in Paths /\ y \in blocks /\ Len(y) = Len(x) /\ (Exact => y = x)
                 /\ Recovered.last = {y}
           /\ scars = {} => Recovered.last = {x}
<1>0. Len(x) \in Nat
    BY PathSeq
<1>1. /\ last = {x} /\ x \in blocks /\ (\A b \in index : Len(b) < Len(x) + 1)
      /\ marker \subseteq {Len(x) + 1}
    BY DEF Stored, Low
<1>2. CASE marker = {}
    BY <1>1, <1>2 DEF Recovered
<1>3. CASE marker # {}
    <2>1. marker = {Len(x) + 1} /\ (CHOOSE h \in marker : TRUE) = Len(x) + 1
        BY <1>1, <1>3
    <2>2. /\ Recovered.blocks = blocks \ Lookup(Len(x) + 1)
          /\ Recovered.index = index \ At(index, Len(x) + 1)
          /\ Recovered.last = IF Len(x) + 1 > 0 THEN At(index, (Len(x) + 1) - 1) ELSE {}
        BY <1>3, <2>1 DEF Recovered
    <2>3. At(index, Len(x) + 1) = {}
        BY <1>0, <1>1 DEF At
    <2>4. Recovered.blocks = blocks /\ Recovered.index = index /\ Recovered.last = At(index, Len(x))
        <3>1. Len(x) + 1 > 0 /\ (Len(x) + 1) - 1 = Len(x)
            BY <1>0
        <3> QED
            BY <2>2, <2>3, <3>1 DEF Lookup
    <2>5. ASSUME NEW y \in Recovered.last
          PROVE  /\ y \in Paths /\ y \in blocks /\ Len(y) = Len(x) /\ (Exact => y = x)
                 /\ Recovered.last = {y}
        <3>1. y \in index /\ Len(y) = Len(x)
            BY <2>4 DEF At
        <3>2. Exact => y = x
            <4>1. Exact => y = Prefix(x, Len(y))
                BY <1>0, <3>1 DEF Stored, Branch
            <4> QED
                BY <3>1, <4>1, PrefixFull
        <3>3. Recovered.last = {y}
            BY <2>4, <3>1 DEF At, Typed
        <3> QED
            BY <3>1, <3>2, <3>3 DEF Typed
    <2>6. scars = {} => Recovered.last = {x}
        <3>1. scars = {} => Branch(x, Len(x) + 1)
            BY DEF Exact, Stored
        <3>2. Len(x) \in 0..((Len(x) + 1) - 1)
            BY <1>0
        <3>3. scars = {} => x \in index
            BY <3>1, <3>2, PrefixFull DEF Branch
        <3>4. scars = {} => x \in Recovered.last
            BY <2>4, <3>3 DEF At
        <3> QED
            BY <2>5, <3>4
    <2> QED
        BY <2>4, <2>5, <2>6
<1> QED
    BY <1>2, <1>3

\* load_chain walks from LAST: the tip is LAST, and the rest lies below it.
LEMMA WalkBelow ==
    ASSUME NEW r, r.last \subseteq Paths, \A s, t \in r.last : s = t
    PROVE  /\ \A b \in Walk(r) : \E t \in r.last : \E n \in 0..Len(t) : b = Prefix(t, n) /\ b \in r.blocks
           /\ Walk(r) # {} => \E t \in r.last : r.last = {t} /\ t \in r.blocks /\ TheTip(Walk(r)) = t
           /\ \A t \in r.last : t \in r.blocks => t \in Walk(r)
           /\ \A t \in r.last : (\A n \in 0..Len(t) : Prefix(t, n) \in r.blocks) => Walk(r) = Chain(t)
<1>1. ASSUME NEW b \in Walk(r)
      PROVE  \E t \in r.last : \E n \in 0..Len(t) :
                 b = Prefix(t, n) /\ \A j \in n..Len(t) : Prefix(t, j) \in r.blocks
    BY DEF Walk
<1>2. ASSUME NEW t \in r.last, NEW n \in 0..Len(t), \A j \in n..Len(t) : Prefix(t, j) \in r.blocks
      PROVE  Prefix(t, n) \in Walk(r)
    BY <1>2 DEF Walk
<1>3. ASSUME NEW b \in Walk(r)
      PROVE  \E t \in r.last : \E n \in 0..Len(t) : b = Prefix(t, n) /\ b \in r.blocks /\ t \in r.blocks
    <2>1. PICK t \in r.last : \E n \in 0..Len(t) :
                 b = Prefix(t, n) /\ \A j \in n..Len(t) : Prefix(t, j) \in r.blocks
        BY <1>1
    <2>2. PICK n \in 0..Len(t) : b = Prefix(t, n) /\ \A j \in n..Len(t) : Prefix(t, j) \in r.blocks
        BY <2>1
    <2>3. Len(t) \in Nat /\ n \in n..Len(t) /\ Len(t) \in n..Len(t) /\ Prefix(t, Len(t)) = t
        BY PathSeq, PrefixFull
    <2> QED
        BY <2>2, <2>3
<1>4. ASSUME NEW t \in r.last, t \in r.blocks
      PROVE  t \in Walk(r)
    <2>1. Len(t) \in Nat /\ Prefix(t, Len(t)) = t
        BY PathSeq, PrefixFull
    <2>2. Len(t) \in 0..Len(t) /\ \A j \in Len(t)..Len(t) : j = Len(t)
        BY <2>1
    <2> QED
        BY <1>2, <1>4, <2>1, <2>2
<1>5. ASSUME Walk(r) # {}
      PROVE  \E t \in r.last : r.last = {t} /\ t \in r.blocks /\ TheTip(Walk(r)) = t
    <2>1. PICK t \in r.last : t \in r.blocks
        BY <1>3, <1>5
    <2>2. r.last = {t} /\ t \in Walk(r)
        BY <1>4, <2>1
    <2>3. ASSUME NEW b \in Walk(r)
          PROVE  Len(b) <= Len(t) /\ (Len(b) >= Len(t) => b = t)
        <3>1. PICK n \in 0..Len(t) : b = Prefix(t, n)
            BY <1>3, <2>2
        <3>2. Len(b) = n /\ Len(t) \in Nat /\ Prefix(t, Len(t)) = t
            BY <3>1, PrefixPath, PrefixFull, PathSeq
        <3> QED
            BY <3>1, <3>2
    <2>4. PICK m : m = TheTip(Walk(r))
        OBVIOUS
    <2>5. m \in Walk(r) /\ \A c \in Walk(r) : Len(c) <= Len(m)
        <3>1. \E b \in Walk(r) : \A c \in Walk(r) : Len(c) <= Len(b)
            BY <2>2, <2>3
        <3> QED
            BY <2>4, <3>1 DEF TheTip
    <2>6. m = t
        <3>1. Len(m) >= Len(t)
            BY <2>2, <2>5
        <3> QED
            BY <2>3, <2>5, <3>1
    <2> QED
        BY <2>1, <2>2, <2>4, <2>6
<1>6. ASSUME NEW t \in r.last, \A n \in 0..Len(t) : Prefix(t, n) \in r.blocks
      PROVE  Walk(r) = Chain(t)
    <2>1. Len(t) \in Nat
        BY PathSeq
    <2>2. ASSUME NEW n \in 0..Len(t)
          PROVE  Prefix(t, n) \in Walk(r)
        <3>1. \A j \in n..Len(t) : j \in 0..Len(t)
            BY <2>1
        <3> QED
            BY <1>2, <1>6, <3>1
    <2>3. \A b \in Walk(r) : \E n \in 0..Len(t) : b = Prefix(t, n)
        BY <1>3
    <2> QED
        BY <2>2, <2>3 DEF Chain
<1> QED
    BY <1>3, <1>4, <1>5, <1>6

\* A set of naturals that is not empty has a least element.
LEMMA LeastNat ==
    ASSUME NEW T \in SUBSET Nat, T # {}
    PROVE  \E n \in T : \A k \in T : n <= k
<1>1. \E n \in T : \A k \in T : ~(<<k, n>> \in OpToRel(<, Nat))
    BY NatLessThanWellFounded, WFMin
<1>2. PICK n \in T : \A k \in T : ~(<<k, n>> \in OpToRel(<, Nat))
    BY <1>1
<1>3. ASSUME NEW k \in T
      PROVE  ~(k < n)
    <2>1. k \in Nat /\ n \in Nat
        OBVIOUS
    <2>2. ~(<<k, n>> \in OpToRel(<, Nat))
        BY <1>2
    <2> QED
        BY <2>1, <2>2, Zenon DEF OpToRel
<1>4. ASSUME NEW k \in T
      PROVE  n <= k
    BY <1>3
<1> QED
    BY <1>4

\* There is a newest snapshot, and what it calls final is a block.
LEMMA RestoredPath ==
    ASSUME Typed
    PROVE  RestoredFinal \in Paths
<1>1. CASE snaps = {}
    BY <1>1, GenesisPath DEF RestoredFinal
<1>2. CASE snaps # {}
    <2> DEFINE T == {MaxHeight - s.height : s \in snaps}
    <2>1. MaxHeight \in Nat /\ \A s \in snaps : s.height \in 0..MaxHeight /\ s.finalized \in Paths
        BY StoreAssumption DEF Typed
    <2>2. T \in SUBSET Nat /\ T # {}
        BY <1>2, <2>1
    <2> HIDE DEF T
    <2>3. PICK n \in T : \A k \in T : n <= k
        BY <2>2, LeastNat
    <2> USE DEF T
    <2>4. PICK s \in snaps : n = MaxHeight - s.height
        BY <2>3
    <2>5. ASSUME NEW t \in snaps
          PROVE  t.height <= s.height
        <3>1. MaxHeight - s.height <= MaxHeight - t.height
            BY <2>3, <2>4
        <3> QED
            BY <2>1, <3>1
    <2>6. \E q \in snaps : \A t \in snaps : t.height <= q.height
        BY <2>5
    <2>7. (CHOOSE q \in snaps : \A t \in snaps : t.height <= q.height) \in snaps
        BY <2>6
    <2> QED
        BY <1>2, <2>1, <2>7 DEF RestoredFinal
<1> QED
    BY <1>1, <1>2

\* The store after opening it.
LEMMA OpenedStore ==
    ASSUME Typed, Copied, Sound => Heights, Opened, snaps' = snaps, committed' = committed, Queue',
           tip' \in Paths, finalized' \in Paths, scars \subseteq scars'
    PROVE  Typed' /\ Copied' /\ (Sound' => Sound) /\ (Exact' => Exact) /\ (Sound' => Heights')
<1>1. /\ blocks' = Recovered.blocks /\ index' = Recovered.index /\ last' = Recovered.last
      /\ bridge' = Recovered.bridge /\ bridgeAt' = Recovered.bridgeAt /\ marker' = {}
    BY DEF Opened
<1>2. /\ Recovered.blocks \subseteq blocks /\ Recovered.index \subseteq Recovered.blocks
      /\ Recovered.index \subseteq index /\ Recovered.last \subseteq Paths
      /\ \A s, t \in Recovered.last : s = t
      /\ \A t \in Recovered.last \cap Recovered.blocks :
            Recovered.bridge = Copy(Recovered.bridgeAt, Len(t))
      /\ Heights => /\ \A t \in Recovered.last : 1..Len(t) \subseteq DOMAIN Recovered.bridgeAt
                    /\ Genesis \in Recovered.blocks => 0 \in DOMAIN Recovered.bridgeAt
    BY RecoveredTyped
<1>3. Typed'
    BY <1>1, <1>2 DEF Typed
<1>4. Copied'
    BY <1>1, <1>2 DEF Copied, Copy
<1>5. (Sound' => Sound) /\ (Exact' => Exact)
    BY DEF Sound, Exact
<1>6. Sound' => Heights'
    BY <1>1, <1>2, <1>5 DEF Heights, Covered
<1> QED
    BY <1>3, <1>4, <1>5, <1>6

\* A sound store, opened, ends at the LAST it then has.
LEMMA OpenedStored ==
    ASSUME Typed, Stopped, Sound, Opened, committed' = committed, scars' = scars, NEW y \in Recovered.last
    PROVE  y \in Paths /\ Stored(y)'
<1>1. ~Empty
    BY RecoveredEmpty
<1>2. PICK x \in Paths : Stored(x)
    BY <1>1 DEF Stopped
<1>3. /\ Recovered.blocks = blocks /\ Recovered.index = index
      /\ y \in Paths /\ y \in blocks /\ Len(y) = Len(x) /\ (Exact => y = x) /\ Recovered.last = {y}
    BY <1>2, RecoveredStored
<1>4. blocks' = blocks /\ index' = index /\ last' = {y} /\ marker' = {}
    BY <1>3 DEF Opened
<1>5. Low(Len(y) + 1)'
    BY <1>2, <1>3, <1>4 DEF Stored, Low
<1>6. Exact' => committed' = y /\ Branch(y, Len(y) + 1)'
    <2>1. Exact => committed = y /\ Branch(y, Len(y) + 1)
        BY <1>2, <1>3 DEF Stored
    <2> QED
        BY <1>4, <2>1 DEF Exact, Branch
<1> QED
    BY <1>3, <1>4, <1>5, <1>6 DEF Stored

LEMMA StartEmptyStep ==
    ASSUME StoreInv, StartEmpty
    PROVE  StoreInv'
<1>0. /\ Typed /\ Copied /\ (Sound => Heights) /\ Doing /\ status = "down" /\ status' = "up"
      /\ Opened /\ tip' = Genesis /\ finalized' = RestoredFinal
      /\ todo' = <<Mark(Genesis), Batch(Genesis, Genesis)>>
      /\ snaps' = snaps /\ committed' = committed
      /\ scars' = IF blocks = {} THEN scars ELSE scars \cup {"lost chain"}
    BY DEF StoreInv, StartEmpty
<1>1. Stopped
    BY <1>0 DEF Doing, Calm, InCommit, InGenesis, InReorg
<1>2. Queue'
    <2>1. <<Mark(Genesis), Batch(Genesis, Genesis)>> \in Seq({Mark(Genesis), Batch(Genesis, Genesis)})
        OBVIOUS
    <2> QED
        BY <1>0, <2>1 DEF Queue
<1>3. Typed' /\ Copied' /\ (Sound' => Sound) /\ (Exact' => Exact) /\ (Sound' => Heights')
    BY <1>0, <1>2, GenesisPath, RestoredPath, OpenedStore
<1>4. Sound' => blocks = {}
    BY <1>0 DEF Sound
<1>5. Sound' => Empty
    BY <1>1, <1>3, <1>4 DEF Stopped, Stored
<1>6. Sound' => Empty'
    BY <1>0, <1>3, <1>5, RecoveredEmpty DEF Opened, Empty
<1>7. InGenesis'
    BY <1>0, <1>6 DEF InGenesis, Mark, Batch, Genesis
<1> QED
    BY <1>3, <1>7 DEF StoreInv, Doing

LEMMA StartStep ==
    ASSUME StoreInv, Start
    PROVE  StoreInv'
<1>0. /\ Typed /\ Copied /\ (Sound => Heights) /\ Doing /\ status = "down" /\ status' = "up"
      /\ Opened /\ tip' = TheTip(Walk(Recovered)) /\ finalized' = RestoredFinal
      /\ todo' = <<>> /\ snaps' = snaps /\ committed' = committed /\ scars' = scars
      /\ Walk(Recovered) # {}
    BY DEF StoreInv, Start, ghosts, BeginsAtGenesis
<1>1. Stopped
    BY <1>0 DEF Doing, Calm, InCommit, InGenesis, InReorg
<1>2. Queue'
    <2>1. <<>> \in Seq(Nat)
        OBVIOUS
    <2> QED
        BY <1>0, <2>1 DEF Queue
<1>3. PICK t \in Recovered.last : t \in Paths /\ TheTip(Walk(Recovered)) = t
    BY <1>0, RecoveredTyped, WalkBelow
<1>4. Typed' /\ Copied' /\ (Sound' => Sound) /\ (Exact' => Exact) /\ (Sound' => Heights')
    BY <1>0, <1>2, <1>3, RestoredPath, OpenedStore
<1>5. Sound' => Stored(t)'
    BY <1>0, <1>1, <1>4, OpenedStored
<1>6. Calm'
    <2>1. Quiet(1, tip)'
        BY <1>0 DEF Quiet
    <2> QED
        BY <1>0, <1>3, <1>5, <2>1 DEF Calm, Settled
<1> QED
    BY <1>4, <1>6 DEF StoreInv, Doing

LEMMA RefuseStep ==
    ASSUME StoreInv, RefuseStart
    PROVE  StoreInv'
<1>0. /\ Typed /\ Copied /\ (Sound => Heights) /\ Doing /\ status = "down" /\ status' = "refused"
      /\ Opened /\ tip' = tip /\ finalized' = finalized
      /\ todo' = todo /\ snaps' = snaps /\ committed' = committed /\ scars' = scars
      /\ Walk(Recovered) # {}
    BY DEF StoreInv, RefuseStart, ghosts
<1>1. Stopped
    BY <1>0 DEF Doing, Calm, InCommit, InGenesis, InReorg
<1>2. Queue' /\ tip' \in Paths /\ finalized' \in Paths
    BY <1>0 DEF Queue, Typed
<1>3. PICK t \in Recovered.last : t \in Paths /\ TheTip(Walk(Recovered)) = t
    BY <1>0, RecoveredTyped, WalkBelow
<1>4. Typed' /\ Copied' /\ (Sound' => Sound) /\ (Exact' => Exact) /\ (Sound' => Heights')
    BY <1>0, <1>2, OpenedStore
<1>5. Sound' => Stored(t)'
    BY <1>0, <1>1, <1>4, OpenedStored
<1>6. Stopped'
    BY <1>0, <1>1, <1>3, <1>5 DEF Stopped
<1> QED
    BY <1>4, <1>6 DEF StoreInv, Doing

\* repair_index gives every block on the way down its height back.
LEMMA RepairStep ==
    ASSUME StoreInv, repair_db
    PROVE  StoreInv'
<1>0. /\ Typed /\ Copied /\ (Sound => Heights) /\ Doing /\ status = "down" /\ status' = "down"
      /\ blocks' = Recovered.blocks /\ last' = Recovered.last /\ marker' = {}
      /\ bridge' = Recovered.bridge /\ bridgeAt' = Recovered.bridgeAt
      /\ tip' = tip /\ finalized' = finalized /\ todo' = todo /\ snaps' = snaps
      /\ committed' = committed /\ scars' = scars \ {"lost entry"} /\ Recovered.last # {}
    BY DEF StoreInv, repair_db, memory
<1>1. Stopped
    BY <1>0 DEF Doing, Calm, InCommit, InGenesis, InReorg
<1>2. PICK W : W = Walk(Recovered)
    OBVIOUS
<1>3. index' = {b \in Recovered.index : \A c \in W : Len(c) # Len(b)} \cup W
    BY <1>2 DEF repair_db, Reindexed
<1>4. PICK t \in Recovered.last : TRUE
    BY <1>0
<1>5. /\ Recovered.blocks \subseteq blocks /\ Recovered.index \subseteq Recovered.blocks
      /\ Recovered.index \subseteq index /\ Recovered.last \subseteq Paths
      /\ \A s, u \in Recovered.last : s = u
      /\ \A u \in Recovered.last \cap Recovered.blocks :
            Recovered.bridge = Copy(Recovered.bridgeAt, Len(u))
      /\ Heights => /\ \A u \in Recovered.last : 1..Len(u) \subseteq DOMAIN Recovered.bridgeAt
                    /\ Genesis \in Recovered.blocks => 0 \in DOMAIN Recovered.bridgeAt
    BY <1>0, RecoveredTyped
<1>6. t \in Paths /\ Recovered.last = {t} /\ Len(t) \in Nat
    BY <1>4, <1>5, PathSeq
<1>7. ASSUME NEW b \in W
      PROVE  b \in Recovered.blocks /\ Len(b) \in 0..Len(t) /\ b = Prefix(t, Len(b))
    <2>1. \E u \in Recovered.last : \E n \in 0..Len(u) : b = Prefix(u, n) /\ b \in Recovered.blocks
        BY <1>2, <1>5, WalkBelow
    <2>2. PICK n \in 0..Len(t) : b = Prefix(t, n) /\ b \in Recovered.blocks
        BY <1>6, <2>1
    <2>3. Len(b) = n
        BY <1>6, <2>2, PrefixPath
    <2> QED
        BY <2>2, <2>3
<1>8. \A b \in index' : (b \in Recovered.index /\ \A c \in W : Len(c) # Len(b)) \/ b \in W
    BY <1>3
<1>9. Typed'
    <2>1. index' \subseteq blocks' /\ blocks' \subseteq Paths
        BY <1>0, <1>5, <1>7, <1>8 DEF Typed
    <2>2. ASSUME NEW b \in index', NEW c \in index', Len(b) = Len(c)
          PROVE  b = c
        <3>1. CASE b \in W /\ c \in W
            <4>1. b = Prefix(t, Len(b)) /\ c = Prefix(t, Len(c))
                BY <1>7, <3>1
            <4> QED
                BY <2>2, <4>1
        <3>2. CASE b \in Recovered.index /\ c \in Recovered.index
            BY <1>0, <1>5, <2>2, <3>2 DEF Typed
        <3> QED
            BY <1>8, <2>2, <3>1, <3>2
    <2>3. Queue'
        BY <1>0 DEF Queue, Typed
    <2> QED
        BY <1>0, <1>5, <2>1, <2>2, <2>3 DEF Typed
<1>10. Copied'
    <2>1. \A u \in last' \cap blocks' : bridge' = Copy(bridgeAt', Len(u))
        BY <1>0, <1>5
    <2> QED
        BY <2>1 DEF Copied, Copy
<1>11. (Sound' => Sound) /\ (Exact' => Exact)
    BY <1>0 DEF Sound, Exact
<1>12. Sound' => Heights'
    BY <1>0, <1>5, <1>11 DEF Heights, Covered
<1>13. ASSUME Sound'
       PROVE  Stored(t)'
    <2>1. ~Empty
        BY <1>0, RecoveredEmpty
    <2>2. PICK x \in Paths : Stored(x)
        BY <1>1, <1>11, <1>13, <2>1 DEF Stopped
    <2>3. /\ Recovered.blocks = blocks /\ Recovered.index = index
          /\ t \in blocks /\ Len(t) = Len(x) /\ (Exact => t = x)
        BY <1>0, <1>4, <2>2, RecoveredStored
    <2>4. \A b \in index' : Len(b) < Len(t) + 1
        BY <1>6, <1>7, <1>8, <2>2, <2>3 DEF Stored, Low
    <2>5. ASSUME Exact
          PROVE  committed = t /\ Branch(t, Len(t) + 1)'
        <3>1. committed = t /\ Branch(t, Len(t) + 1)
            BY <2>2, <2>3, <2>5 DEF Stored
        <3>2. (Len(t) + 1) - 1 = Len(t)
            BY <1>6
        <3>3. \A n \in 0..Len(t) : Prefix(t, n) \in blocks
            BY <3>1, <3>2 DEF Branch
        <3>4. W = Chain(t)
            BY <1>2, <1>4, <1>5, <2>3, <3>3, WalkBelow
        <3>5. \A n \in 0..Len(t) : Prefix(t, n) \in index'
            BY <1>3, <3>4 DEF Chain
        <3>6. \A b \in index' : b = Prefix(t, Len(b))
            BY <1>7, <1>8, <2>3, <2>4, <3>1 DEF Branch
        <3> QED
            BY <1>0, <2>3, <3>1, <3>2, <3>3, <3>5, <3>6 DEF Branch
    <2> QED
        BY <1>0, <1>6, <1>11, <2>3, <2>4, <2>5 DEF Stored, Low
<1>14. Stopped'
    BY <1>0, <1>1, <1>6, <1>13 DEF Stopped
<1> QED
    BY <1>9, <1>10, <1>12, <1>14 DEF StoreInv, Doing

-----------------------------------------------------------------------------
(* The chain actor's handlers.                                             *)

\* The writes of the handlers.
AnyWrite ==
    {Mark(b) : b \in Paths} \cup {Batch(b, c) : b \in Paths, c \in Paths} \cup {Push(b) : b \in Paths}
      \cup {SaveLast(b) : b \in Paths} \cup {Delete(h) : h \in Nat}
      \cup {Snap(h, f) : h \in Nat, f \in Paths}

LEMMA IdleCalm ==
    ASSUME Typed, Doing, Idle
    PROVE  Calm
<1>1. Len(todo) = 0 /\ status = "up"
    BY Lengths DEF Idle
<1>2. ~Reorganising
    <2>1. DOMAIN todo = 1..Len(todo)
        BY DEF Typed, Queue
    <2> QED
        BY <1>1, <2>1 DEF Reorganising
<1>3. ~InReorg
    BY <1>2, ReorgQueue
<1>4. ~InCommit
    BY <1>1 DEF InCommit, Marking, Batching, Pushing
<1>5. ~InGenesis
    BY DEF Idle, InGenesis
<1> QED
    BY <1>1, <1>3, <1>4, <1>5 DEF Doing, Stopped

\* A handler that queues the commit of a block on the tip and then nothing
\* that touches the tip.
LEMMA CommitQueued ==
    ASSUME StoreInv, Idle, UNCHANGED <<disk, status, tip, finalized, memBridge, ghosts>>, Queue',
           NEW b \in Paths, OnTip(b), Marking(b)'
    PROVE  StoreInv'
<1>0. /\ Typed /\ Copied /\ (Sound => Heights) /\ Doing
    BY DEF StoreInv
<1>1. Calm
    BY <1>0, IdleCalm
<1>2. Same /\ tip' = tip /\ finalized' = finalized /\ snaps' = snaps /\ status' = "up" /\ scars' = scars
    BY <1>1 DEF Same, disk, ghosts, Calm
<1>3. PICK x \in Paths : x = tip
    BY <1>0 DEF Typed
<1>4. /\ (Sound' => Sound) /\ (Exact' => Exact) /\ (Copied => Copied') /\ (Heights => Heights')
      /\ (Stored(x) => Stored(x)') /\ (Empty => Empty') /\ (~Exact => ~Exact')
    BY <1>2, SameStore DEF Exact
<1>5. Typed'
    BY <1>0, <1>2 DEF Typed, Same
<1>6. Sound' => Settled(tip)'
    BY <1>1, <1>2, <1>3, <1>4 DEF Calm, Settled
<1>7. InCommit'
    <2>1. OnTip(b)'
        BY <1>2 DEF OnTip
    <2> QED
        BY <1>2, <1>6, <2>1 DEF InCommit
<1> QED
    BY <1>0, <1>4, <1>5, <1>7 DEF StoreInv, Doing

LEMMA ProduceStep ==
    ASSUME StoreInv, NEW x \in Branches, produce_block(x)
    PROVE  StoreInv'
<1>0. Typed /\ tip \in Paths /\ Len(tip) < MaxHeight /\ Idle
    BY DEF StoreInv, Typed, produce_block
<1>1. PICK b \in Paths : b = Append(tip, x) /\ Len(b) = Len(tip) + 1 /\ Prefix(b, Len(tip)) = tip
    BY <1>0, AppendPath
<1>2. PICK br : br = Append(memBridge, x)
    OBVIOUS
<1>3. todo' = <<Mark(b), Batch(b, br), Push(b)>>
    BY <1>1, <1>2 DEF produce_block, Commit
<1>4. Queue' /\ Len(todo') = 3 /\ todo'[1] = Mark(b) /\ todo'[2] = Batch(b, br) /\ todo'[3] = Push(b)
    <2>1. <<Mark(b), Batch(b, br), Push(b)>> \in Seq({Mark(b), Batch(b, br), Push(b)})
        OBVIOUS
    <2> QED
        BY <1>3, <2>1 DEF Queue
<1>5. Marking(b)'
    BY <1>4 DEF Marking, Quiet, Batch, Mark, Push
<1>6. OnTip(b)
    BY <1>1 DEF OnTip
<1>7. UNCHANGED <<disk, status, tip, finalized, memBridge, ghosts>>
    BY DEF produce_block
<1> QED
    BY <1>0, <1>4, <1>5, <1>6, <1>7, CommitQueued

\* get_prunable_blocks stays below the block that was committed.
LEMMA PrunableBelow ==
    ASSUME Typed, NEW b \in Paths
    PROVE  /\ Prunable(b) \in Seq(AnyWrite)
           /\ \A i \in 1..Len(Prunable(b)) : Harmless(Prunable(b)[i], b)
<1>0. Len(b) \in Nat /\ Len(finalized) \in Nat /\ Keep \in Nat
    BY PathSeq, StoreAssumption DEF Typed
<1>1. PICK safe : safe = Min({Len(b) + 1 - Keep, Len(b), Len(finalized)})
    OBVIOUS
<1>2. safe \in Int /\ safe <= Len(b)
    <2> DEFINE T == {Len(b) + 1 - Keep, Len(b), Len(finalized)}
    <2>1. \E s \in T : \A u \in T : s <= u
        BY <1>0
    <2>2. safe \in T /\ \A u \in T : safe <= u
        BY <1>1, <2>1 DEF Min
    <2> QED
        BY <1>0, <2>2
<1>3. CASE Len(b) + 1 <= Keep
    <2>1. Prunable(b) = <<>>
        BY <1>3 DEF Prunable
    <2> QED
        BY <2>1
<1>4. CASE ~(Len(b) + 1 <= Keep)
    <2>1. PICK k \in Nat : k = (IF safe > 1 THEN safe - 1 ELSE 0) /\ k <= Len(b) /\ (k > 0 => k < Len(b))
        BY <1>0, <1>2
    <2>2. Prunable(b) = [i \in 1..k |-> Delete(i)]
        BY <1>1, <1>4, <2>1 DEF Prunable
    <2>3. \A i \in 1..k : Delete(i) \in AnyWrite
        BY DEF AnyWrite
    <2>4. Prunable(b) \in Seq(AnyWrite) /\ Len(Prunable(b)) = k
        BY <2>1, <2>2, <2>3
    <2>5. ASSUME NEW i \in 1..k
          PROVE  Harmless(Prunable(b)[i], b)
        <3>1. Prunable(b)[i] = Delete(i) /\ i < Len(b)
            BY <1>0, <2>1, <2>2
        <3> QED
            BY <3>1 DEF Harmless, Delete
    <2> QED
        BY <2>4, <2>5
<1> QED
    BY <1>3, <1>4

LEMMA SnapshottingQuiet ==
    ASSUME Typed, NEW b \in Paths
    PROVE  /\ Snapshotting(b) \in Seq(AnyWrite)
           /\ \A i \in 1..Len(Snapshotting(b)) : Harmless(Snapshotting(b)[i], b)
<1>0. Len(b) \in 0..MaxHeight /\ Len(b) \in Nat /\ finalized \in Paths
    BY PathSeq DEF Typed
<1>1. CASE ~(Pruning /\ Len(b) % SnapInterval = 0)
    <2>1. Snapshotting(b) = <<>>
        BY <1>1 DEF Snapshotting
    <2> QED
        BY <2>1
<1>2. CASE Pruning /\ Len(b) % SnapInterval = 0
    <2>1. PICK p \in Seq(AnyWrite) : p = Prunable(b) /\ \A i \in 1..Len(p) : Harmless(p[i], b)
        BY PrunableBelow
    <2>2. PICK s \in AnyWrite : s = Snap(Len(b), finalized) /\ Harmless(s, b)
        <3>1. Snap(Len(b), finalized) \in AnyWrite
            BY <1>0 DEF AnyWrite
        <3>2. Harmless(Snap(Len(b), finalized), b)
            BY <1>0 DEF Snap, Harmless
        <3> QED
            BY <3>1, <3>2
    <2>3. Snapshotting(b) = <<s>> \o p
        BY <1>2, <2>1, <2>2 DEF Snapshotting
    <2>4. <<s>> \in Seq(AnyWrite) /\ Len(<<s>>) = 1 /\ <<s>>[1] = s
        OBVIOUS
    <2>5. /\ <<s>> \o p \in Seq(AnyWrite) /\ Len(<<s>> \o p) = 1 + Len(p)
          /\ \A i \in 1..(1 + Len(p)) : (<<s>> \o p)[i] = IF i <= 1 THEN <<s>>[i] ELSE p[i - 1]
        BY <2>4, ConcatProperties
    <2>6. ASSUME NEW i \in 1..(1 + Len(p))
          PROVE  Harmless((<<s>> \o p)[i], b)
        <3>1. CASE i = 1
            BY <2>2, <2>4, <2>5, <3>1
        <3>2. CASE i # 1
            <4>1. i - 1 \in 1..Len(p) /\ ~(i <= 1)
                BY <3>2
            <4> QED
                BY <2>1, <2>5, <4>1
        <3> QED
            BY <3>1, <3>2
    <2> QED
        BY <2>3, <2>5, <2>6
<1> QED
    BY <1>1, <1>2

LEMMA ValidateStep ==
    ASSUME StoreInv, NEW x \in Branches, validate_and_add_block(x)
    PROVE  StoreInv'
<1>0. Typed /\ tip \in Paths /\ Len(tip) < MaxHeight /\ Idle
    BY DEF StoreInv, Typed, validate_and_add_block
<1>1. PICK b \in Paths : b = Append(tip, x) /\ Len(b) = Len(tip) + 1 /\ Prefix(b, Len(tip)) = tip
    BY <1>0, AppendPath
<1>2. PICK s \in Seq(AnyWrite) : s = Snapshotting(b) /\ \A i \in 1..Len(s) : Harmless(s[i], b)
    BY <1>0, SnapshottingQuiet
<1>3. todo' = <<Mark(b), Batch(b, b), Push(b)>> \o s
    BY <1>1, <1>2 DEF validate_and_add_block, Commit
<1>4. PICK p : p = <<Mark(b), Batch(b, b), Push(b)>>
    OBVIOUS
<1>5. /\ p \in Seq(AnyWrite) /\ Len(p) = 3
      /\ p[1] = Mark(b) /\ p[2] = Batch(b, b) /\ p[3] = Push(b)
    <2>1. Mark(b) \in AnyWrite /\ Batch(b, b) \in AnyWrite /\ Push(b) \in AnyWrite
        BY DEF AnyWrite
    <2> QED
        BY <1>4, <2>1
<1>6. /\ p \o s \in Seq(AnyWrite) /\ Len(p \o s) = 3 + Len(s)
      /\ \A i \in 1..(3 + Len(s)) : (p \o s)[i] = IF i <= 3 THEN p[i] ELSE s[i - 3]
    <2>1. /\ p \o s \in Seq(AnyWrite) /\ Len(p \o s) = Len(p) + Len(s)
          /\ \A i \in 1..(Len(p) + Len(s)) : (p \o s)[i] = IF i <= Len(p) THEN p[i] ELSE s[i - Len(p)]
        BY <1>2, <1>5, ConcatProperties
    <2> QED
        BY <1>5, <2>1
<1>7. /\ Queue' /\ Len(todo') = 3 + Len(s) /\ Len(s) \in Nat
      /\ \A i \in 1..(3 + Len(s)) : todo'[i] = IF i <= 3 THEN p[i] ELSE s[i - 3]
    BY <1>3, <1>4, <1>6 DEF Queue
<1>8. todo'[1] = Mark(b) /\ todo'[2] = Batch(b, b) /\ todo'[3] = Push(b) /\ Len(todo') >= 3
    BY <1>5, <1>7
<1>9. Quiet(4, b)'
    <2> SUFFICES ASSUME NEW j \in 4..Len(todo')
                 PROVE  Harmless(todo'[j], b)
        BY DEF Quiet, Harmless
    <2>1. j \in 1..(3 + Len(s)) /\ ~(j <= 3) /\ j - 3 \in 1..Len(s)
        BY <1>7
    <2> QED
        BY <1>2, <1>7, <2>1
<1>10. Marking(b)'
    BY <1>8, <1>9 DEF Marking, Batch, Mark, Push
<1>11. OnTip(b)
    BY <1>1 DEF OnTip
<1>12. UNCHANGED <<disk, status, tip, finalized, memBridge, ghosts>>
    BY DEF validate_and_add_block
<1> QED
    BY <1>0, <1>7, <1>10, <1>11, <1>12, CommitQueued

LEMMA FinalizeStep ==
    ASSUME StoreInv, NEW h \in 1..MaxHeight, Finalize(h)
    PROVE  StoreInv'
<1>0. /\ Typed /\ Copied /\ (Sound => Heights) /\ Doing /\ Idle /\ tip \in Paths /\ h <= Len(tip)
      /\ todo' = <<Canon(h)>> /\ finalized' = Prefix(tip, h)
    BY DEF StoreInv, Finalize, Typed
<1>1. Calm
    BY <1>0, IdleCalm
<1>2. Same /\ tip' = tip /\ snaps' = snaps /\ status' = "up" /\ scars' = scars
    BY <1>1 DEF Same, disk, ghosts, Calm, Finalize
<1>3. PICK x \in Paths : x = tip
    BY <1>0
<1>4. /\ (Sound' => Sound) /\ (Exact' => Exact) /\ (Copied => Copied') /\ (Heights => Heights')
      /\ (Stored(x) => Stored(x)') /\ (Empty => Empty') /\ (~Exact => ~Exact')
    BY <1>2, SameStore DEF Exact
<1>5. finalized' \in Paths
    <2>1. h \in 0..Len(x)
        BY <1>0, <1>3, PathSeq, StoreAssumption
    <2> QED
        BY <1>0, <1>3, <2>1, PrefixPath
<1>6. Queue' /\ Len(todo') = 1 /\ todo'[1] = Canon(h)
    <2>1. <<Canon(h)>> \in Seq({Canon(h)})
        OBVIOUS
    <2> QED
        BY <1>0, <2>1 DEF Queue
<1>7. Typed'
    BY <1>0, <1>2, <1>5, <1>6 DEF Typed, Same
<1>8. Quiet(1, tip)'
    <2>1. Harmless(Canon(h), x)
        BY DEF Harmless, Canon
    <2> QED
        BY <1>2, <1>3, <1>6, <2>1 DEF Quiet, Harmless
<1>9. Calm'
    BY <1>1, <1>2, <1>3, <1>4, <1>8 DEF Calm, Settled
<1> QED
    BY <1>0, <1>4, <1>7, <1>9 DEF StoreInv, Doing

\* find_fork_point on a chain that is no shorter and not the same: a height of
\* the new chain, below which the two agree.
LEMMA ForkProperties ==
    ASSUME NEW b \in Paths, NEW c \in Paths, Len(c) >= Len(b), c # b
    PROVE  /\ ForkPoint(b, c) \in 1..Len(c) /\ ForkPoint(b, c) <= Len(b) + 1
           /\ \A j \in 0..(ForkPoint(b, c) - 1) : Prefix(b, j) = Prefix(c, j)
<1>0. b \in Seq(Branches) /\ c \in Seq(Branches) /\ Len(b) \in Nat /\ Len(c) \in Nat
    BY PathSeq
<1> DEFINE T == {n \in 1..(Len(b) + 1) : n > Len(c) \/ n > Len(b) \/ b[n] # c[n]}
<1>1. T \in SUBSET Nat /\ Len(b) + 1 \in T
    BY <1>0
<1>2. \E n \in T : \A k \in T : n <= k
    <2> HIDE DEF T
    <2> QED
        BY <1>1, LeastNat
<1>3. PICK f : f = ForkPoint(b, c)
    OBVIOUS
<1>4. f \in T /\ \A k \in T : f <= k
    BY <1>2, <1>3 DEF ForkPoint, Min
<1>5. f \in 1..(Len(b) + 1)
    BY <1>4
<1>6. ASSUME NEW n \in 1..(f - 1)
      PROVE  n <= Len(b) /\ n <= Len(c) /\ b[n] = c[n]
    <2>1. n \in 1..(Len(b) + 1) /\ n \notin T
        BY <1>0, <1>4, <1>5
    <2> QED
        BY <1>0, <2>1
<1>7. f <= Len(c)
    <2> SUFFICES ASSUME f > Len(c)
                 PROVE  FALSE
        BY <1>0, <1>5
    <2>1. Len(b) = Len(c) /\ f = Len(b) + 1
        BY <1>0, <1>5
    <2>2. \A n \in 1..Len(b) : b[n] = c[n]
        BY <1>0, <1>6, <2>1
    <2> QED
        BY <1>0, <2>1, <2>2, SeqEqual
<1>8. ASSUME NEW j \in 0..(f - 1)
      PROVE  Prefix(b, j) = Prefix(c, j)
    <2>1. j \in 0..Len(b) /\ j \in 0..Len(c)
        BY <1>0, <1>5, <1>7
    <2>2. /\ Prefix(b, j) \in Paths /\ Len(Prefix(b, j)) = j /\ (\A i \in 1..j : Prefix(b, j)[i] = b[i])
          /\ Prefix(c, j) \in Paths /\ Len(Prefix(c, j)) = j /\ (\A i \in 1..j : Prefix(c, j)[i] = c[i])
        BY <2>1, PrefixPath
    <2>3. \A i \in 1..j : Prefix(b, j)[i] = Prefix(c, j)[i]
        <3>1. \A i \in 1..j : i \in 1..(f - 1)
            BY <1>5
        <3> QED
            BY <1>6, <2>2, <3>1
    <2> QED
        BY <2>2, <2>3, PathSeq, SeqEqual
<1> QED
    BY <1>0, <1>3, <1>5, <1>7, <1>8

\* The writes try_reorg queues: the heights to delete, marker and batch for
\* each new block, and LAST.
LEMMA ReorgQueued ==
    ASSUME Typed, NEW c \in Paths, NEW fork \in 1..Len(c), fork <= Len(tip) + 1,
           todo' = Abandoned(fork) \o Rewritten(c, fork) \o <<SaveLast(c)>>, tip' = c
    PROVE  Queue' /\ \A m \in Nat : m = Len(tip) => Deleting(fork, fork, m)'
<1>0. Len(c) \in Nat /\ Len(tip) \in Nat
    BY PathSeq DEF Typed
<1>1. PICK m \in Nat : m = Len(tip) /\ fork <= m + 1
    BY <1>0
<1>2. PICK d : d = Abandoned(fork)
    OBVIOUS
<1>3. PICK w : w = Rewritten(c, fork)
    OBVIOUS
<1>4. PICK l : l = <<SaveLast(c)>>
    OBVIOUS
<1>5. PICK k \in Nat : k = m - fork + 1
    <2>1. m - fork + 1 \in Nat
        BY <1>0, <1>1
    <2> QED
        BY <2>1
<1>6. PICK q \in Nat : q = 2 * (Len(c) - fork + 1)
    BY <1>0
<1>7. d \in Seq(AnyWrite) /\ Len(d) = k /\ \A i \in 1..k : d[i] = Delete(fork + i - 1)
    <2>1. d = [i \in 1..k |-> Delete(fork + i - 1)]
        BY <1>1, <1>2, <1>5 DEF Abandoned
    <2>2. \A i \in 1..k : fork + i - 1 \in Nat
        OBVIOUS
    <2>3. \A i \in 1..k : Delete(fork + i - 1) \in AnyWrite
        BY <2>2 DEF AnyWrite
    <2> QED
        BY <2>1, <2>3
<1>8. /\ w \in Seq(AnyWrite) /\ Len(w) = q
      /\ \A i \in 1..q : w[i] = LET b == Prefix(c, fork + (i - 1) \div 2)
                                IN  IF i % 2 = 1 THEN Mark(b) ELSE Batch(b, b)
    <2>1. w = [i \in 1..q |-> LET b == Prefix(c, fork + (i - 1) \div 2)
                              IN  IF i % 2 = 1 THEN Mark(b) ELSE Batch(b, b)]
        BY <1>3, <1>6 DEF Rewritten
    <2>2. ASSUME NEW i \in 1..q
          PROVE  Prefix(c, fork + (i - 1) \div 2) \in Paths
        <3>1. (i - 1) \div 2 \in Nat /\ 2 * ((i - 1) \div 2) <= i - 1
            OBVIOUS
        <3>2. fork + (i - 1) \div 2 \in 0..Len(c)
            BY <1>0, <1>6, <3>1
        <3> QED
            BY <3>2, PrefixPath
    <2>3. \A b \in Paths : Mark(b) \in AnyWrite /\ Batch(b, b) \in AnyWrite
        BY DEF AnyWrite
    <2>4. \A i \in 1..q : (LET b == Prefix(c, fork + (i - 1) \div 2)
                           IN  IF i % 2 = 1 THEN Mark(b) ELSE Batch(b, b)) \in AnyWrite
        BY <2>2, <2>3
    <2>5. w \in [1..q -> AnyWrite]
        BY <2>1, <2>4
    <2>6. w \in Seq(AnyWrite) /\ Len(w) = q
        BY <2>5
    <2> QED
        BY <2>1, <2>6
<1>9. l \in Seq(AnyWrite) /\ Len(l) = 1 /\ l[1] = SaveLast(c)
    <2>1. SaveLast(c) \in AnyWrite
        BY DEF AnyWrite
    <2> QED
        BY <1>4, <2>1
<1>10. PICK dw : dw = d \o w
    OBVIOUS
<1>11. /\ dw \in Seq(AnyWrite) /\ Len(dw) = k + q
       /\ \A i \in 1..(k + q) : dw[i] = IF i <= k THEN d[i] ELSE w[i - k]
    <2>1. /\ d \o w \in Seq(AnyWrite) /\ Len(d \o w) = Len(d) + Len(w)
          /\ \A i \in 1..(Len(d) + Len(w)) : (d \o w)[i] = IF i <= Len(d) THEN d[i] ELSE w[i - Len(d)]
        BY <1>7, <1>8, ConcatProperties
    <2> QED
        BY <1>7, <1>8, <1>10, <2>1
<1>12. /\ todo' \in Seq(AnyWrite) /\ Len(todo') = (k + q) + 1
       /\ \A i \in 1..((k + q) + 1) : todo'[i] = IF i <= k + q THEN dw[i] ELSE l[i - (k + q)]
    <2>1. /\ dw \o l \in Seq(AnyWrite) /\ Len(dw \o l) = Len(dw) + Len(l)
          /\ \A i \in 1..(Len(dw) + Len(l)) : (dw \o l)[i] = IF i <= Len(dw) THEN dw[i] ELSE l[i - Len(dw)]
        BY <1>9, <1>11, ConcatProperties
    <2>2. todo' = dw \o l
        BY <1>2, <1>3, <1>4, <1>10
    <2> QED
        BY <1>9, <1>11, <2>1, <2>2
<1>13. Queue'
    BY <1>12 DEF Queue
<1>14. \A i \in 1..k : todo'[i] = Delete(fork + i - 1)
    <2>1. \A i \in 1..k : i \in 1..((k + q) + 1) /\ i \in 1..(k + q) /\ i <= k + q /\ i <= k
        OBVIOUS
    <2> QED
        BY <1>7, <1>11, <1>12, <2>1
<1>15. ASSUME NEW j \in fork..Len(c)
       PROVE  /\ todo'[k + 2 * (j - fork) + 1] = Mark(Prefix(c, j))
              /\ todo'[k + 2 * (j - fork) + 2] = Batch(Prefix(c, j), Prefix(c, j))
    <2>1. PICK e \in Nat : e = j - fork /\ fork + e = j /\ 2 * e + 2 <= q
        BY <1>0, <1>6
    <2>2. /\ 2 * e + 1 \in 1..q /\ 2 * e + 2 \in 1..q
          /\ (2 * e + 1 - 1) \div 2 = e /\ (2 * e + 2 - 1) \div 2 = e
          /\ (2 * e + 1) % 2 = 1 /\ (2 * e + 2) % 2 # 1
        BY <2>1
    <2>3. w[2 * e + 1] = Mark(Prefix(c, j)) /\ w[2 * e + 2] = Batch(Prefix(c, j), Prefix(c, j))
        <3>1. ASSUME NEW i \in 1..q, (i - 1) \div 2 = e
              PROVE  w[i] = IF i % 2 = 1 THEN Mark(Prefix(c, j)) ELSE Batch(Prefix(c, j), Prefix(c, j))
            <4>1. w[i] = IF i % 2 = 1 THEN Mark(Prefix(c, fork + (i - 1) \div 2))
                         ELSE Batch(Prefix(c, fork + (i - 1) \div 2), Prefix(c, fork + (i - 1) \div 2))
                BY <1>8
            <4> QED
                BY <2>1, <3>1, <4>1
        <3>2. w[2 * e + 1] = IF (2 * e + 1) % 2 = 1 THEN Mark(Prefix(c, j)) ELSE Batch(Prefix(c, j), Prefix(c, j))
            BY <2>2, <3>1
        <3>3. w[2 * e + 2] = IF (2 * e + 2) % 2 = 1 THEN Mark(Prefix(c, j)) ELSE Batch(Prefix(c, j), Prefix(c, j))
            BY <2>2, <3>1
        <3> QED
            BY <2>2, <3>2, <3>3
    <2>4. ASSUME NEW i \in 1..q
          PROVE  todo'[k + i] = w[i]
        <3>1. k + i \in 1..((k + q) + 1) /\ k + i \in 1..(k + q) /\ k + i <= k + q /\ ~(k + i <= k) /\ (k + i) - k = i
            OBVIOUS
        <3> QED
            BY <1>11, <1>12, <3>1
    <2>5. k + 2 * (j - fork) + 1 = k + (2 * e + 1) /\ k + 2 * (j - fork) + 2 = k + (2 * e + 2)
        BY <2>1
    <2> QED
        BY <2>2, <2>3, <2>4, <2>5
<1>16. todo'[Len(todo')] = SaveLast(c)
    <2>1. (k + q) + 1 \in 1..((k + q) + 1) /\ ~((k + q) + 1 <= k + q) /\ ((k + q) + 1) - (k + q) = 1
        OBVIOUS
    <2> QED
        BY <1>9, <1>12, <2>1
<1>17. Rewrites(c, fork, m - fork + 1)'
    <2>1. Len(todo') = k + 2 * (Len(c) - fork + 1) + 1 /\ fork \in 1..(Len(c) + 1)
        BY <1>0, <1>6, <1>12
    <2> QED
        BY <1>5, <1>15, <1>16, <2>1 DEF Rewrites
<1>18. Deleting(fork, fork, m)'
    <2>1. Rewrites(tip, fork, m - fork + 1)'
        BY <1>17 DEF Rewrites
    <2>2. fork <= Len(tip') /\ fork <= fork /\ fork <= m + 1
        BY <1>0, <1>1
    <2>3. \A i \in 1..(m - fork + 1) : todo'[i] = Delete(fork + i - 1)
        BY <1>5, <1>14
    <2> QED
        BY <2>1, <2>2, <2>3 DEF Deleting
<1> QED
    BY <1>1, <1>13, <1>18

LEMMA ReorgStep ==
    ASSUME StoreInv, NEW c \in Paths, try_reorg(c)
    PROVE  StoreInv'
<1>0. /\ Typed /\ Copied /\ (Sound => Heights) /\ Doing /\ Idle /\ tip \in Paths
      /\ Len(c) >= Len(tip) /\ c # tip /\ tip' = c
    BY DEF StoreInv, try_reorg, Typed
<1>1. PICK fork : fork = ForkPoint(tip, c)
    OBVIOUS
<1>2. /\ snaps' = {s \in snaps : s.height < fork}
      /\ todo' = Abandoned(fork) \o Rewritten(c, fork) \o <<SaveLast(c)>>
    BY <1>1 DEF try_reorg
<1>3. Calm
    BY <1>0, IdleCalm
<1>4. Same /\ finalized' = finalized /\ status' = "up" /\ scars' = scars
    BY <1>3 DEF Same, ghosts, Calm, try_reorg
<1>5. PICK x \in Paths : x = tip
    BY <1>0
<1>6. Len(x) \in Nat /\ Len(c) \in Nat /\ \A b \in index : Len(b) \in Nat
    BY <1>0, PathSeq DEF Typed
<1>7. /\ fork \in 1..Len(c) /\ fork <= Len(x) + 1
      /\ \A j \in 0..(fork - 1) : Prefix(x, j) = Prefix(c, j)
    BY <1>0, <1>1, <1>5, ForkProperties
<1>8. Queue' /\ Deleting(fork, fork, Len(x))'
    <2>1. Queue' /\ \A m \in Nat : m = Len(tip) => Deleting(fork, fork, m)'
        BY <1>0, <1>2, <1>5, <1>7, ReorgQueued
    <2> QED
        BY <1>5, <1>6, <2>1
<1>9. /\ (Sound' => Sound) /\ (Exact' => Exact) /\ (Copied => Copied') /\ (Heights => Heights')
    BY <1>4, SameStore
<1>10. Typed'
    <2>1. \A s \in snaps' : s.height \in 0..MaxHeight /\ s.finalized \in Paths
        BY <1>0, <1>2 DEF Typed
    <2> QED
        BY <1>0, <1>4, <1>8, <2>1 DEF Typed, Same
<1>11. ASSUME Sound
       PROVE  Low(Len(x) + 1) /\ Covered(Len(x)) /\ (Exact => Branch(x, Len(x) + 1))
    <2>1. Settled(x)
        BY <1>3, <1>5, <1>11 DEF Calm
    <2>2. CASE Stored(x)
        BY <1>0, <1>11, <2>2 DEF Stored, Heights
    <2>3. CASE Empty /\ x = Genesis /\ ~Exact
        BY <1>0, <2>3, GenesisPath DEF Empty, Low, Covered, Typed
    <2> QED
        BY <2>1, <2>2, <2>3 DEF Settled
<1>12. ASSUME Sound
       PROVE  /\ \A b \in index : Len(b) < fork \/ (fork <= Len(b) /\ Len(b) <= Len(x))
              /\ Covered(Len(x)) /\ Covered(fork - 1) /\ (Exact => Branch(c, fork))
    <2>1. \A b \in index : Len(b) < fork \/ (fork <= Len(b) /\ Len(b) <= Len(x))
        BY <1>6, <1>7, <1>11, <1>12 DEF Low
    <2>2. Covered(fork - 1)
        <3>1. \A j \in 1..(fork - 1) : j \in 1..Len(x)
            BY <1>6, <1>7
        <3> QED
            BY <1>11, <1>12, <3>1 DEF Covered
    <2>3. Branch(x, Len(x) + 1) => Branch(c, fork)
        <3>1. ASSUME NEW j \in 0..(fork - 1)
              PROVE  j \in 0..((Len(x) + 1) - 1)
            BY <1>6, <1>7
        <3>2. ASSUME NEW b \in index, Len(b) < fork
              PROVE  Len(b) < Len(x) + 1 /\ Len(b) \in 0..(fork - 1)
            BY <1>6, <1>7, <3>2
        <3> QED
            BY <1>7, <3>1, <3>2 DEF Branch
    <2> QED
        BY <1>11, <1>12, <2>1, <2>2, <2>3
<1>13. InDelete(fork, fork, Len(x))'
    <2>1. ASSUME Sound'
          PROVE  /\ \A b \in index' : Len(b) < fork \/ (fork <= Len(b) /\ Len(b) <= Len(x))
                 /\ Covered(Len(x))' /\ Covered(fork - 1)' /\ (Exact' => Branch(tip, fork)')
        <3>1. Branch(c, fork) => Branch(tip, fork)'
            BY <1>0, <1>4 DEF Branch, Same
        <3>2. Covered(Len(x)) /\ Covered(fork - 1) => Covered(Len(x))' /\ Covered(fork - 1)'
            BY <1>4 DEF Covered, Same
        <3>3. index' = index
            BY <1>4 DEF Same
        <3> QED
            BY <1>9, <1>12, <2>1, <3>1, <3>2, <3>3
    <2> QED
        BY <1>8, <2>1 DEF InDelete
<1>14. InReorg'
    <2>1. Len(x) \in Nat /\ fork \in Nat /\ fork \in 1..(Len(x) + 1)
        BY <1>6, <1>7
    <2>2. \E n, m \in Nat : \E h \in 1..(m + 1) : InDelete(n, h, m)'
        BY <1>13, <2>1
    <2> QED
        BY <1>4, <2>2 DEF InReorg, InDelete
<1> QED
    BY <1>0, <1>9, <1>10, <1>14 DEF StoreInv, Doing

-----------------------------------------------------------------------------
(* The invariant.                                                          *)

LEMMA StoreInit ==
    ASSUME Init
    PROVE  StoreInv
<1>1. Queue
    <2>1. <<>> \in Seq(Nat)
        OBVIOUS
    <2> QED
        BY <2>1 DEF Init, Queue
<1>2. Typed
    BY <1>1, GenesisPath DEF Init, Typed
<1>3. Copied
    BY DEF Init, Copied
<1>4. Heights
    BY DEF Init, Heights
<1>5. Stopped
    BY DEF Init, Stopped, Empty
<1> QED
    BY <1>2, <1>3, <1>4, <1>5 DEF StoreInv, Doing

LEMMA StoreStep ==
    ASSUME StoreInv, [Next]_vars
    PROVE  StoreInv'
<1>1. CASE UNCHANGED vars
    <2>1. /\ UNCHANGED <<blocks, index, last, canonical, marker, bridge, bridgeAt, snaps>>
          /\ UNCHANGED <<status, tip, finalized, memBridge, todo, committed, scars>>
        BY <1>1 DEF vars, disk, memory, ghosts
    <2>2. Typed' /\ Copied' /\ (Sound' => Heights')
        BY <2>1 DEF StoreInv, Typed, Queue, Copied, Copy, Sound, Heights, Low, Covered
    <2>3. Same /\ (Sound' = Sound) /\ (Exact' = Exact)
        BY <2>1 DEF Same, Sound, Exact
    <2>4. Doing'
        <3>1. (Empty => Empty') /\ \A x : Stored(x) => Stored(x)'
            BY <2>3, SameStore
        <3>2. Settled(tip) => Settled(tip)'
            <4>1. PICK x \in Paths : x = tip
                BY DEF StoreInv, Typed
            <4>2. Settled(x) => Settled(x)'
                BY <2>3, <3>1 DEF Settled
            <4> QED
                BY <2>1, <4>1, <4>2 DEF Settled
        <3>3. Stopped => Stopped'
            BY <2>1, <2>3, <3>1 DEF Stopped
        <3>4. Calm => Calm'
            BY <2>1, <2>3, <3>2 DEF Calm, Quiet, Harmless
        <3>5. InCommit => InCommit'
            BY <2>1, <2>3, <3>1, <3>2 DEF InCommit, OnTip, Marking, Batching, Pushing, Quiet, Harmless,
                                          Mark, Batch, Push
        <3>6. InGenesis => InGenesis'
            BY <2>1, <2>3, <3>1 DEF InGenesis, Mark, Batch, Genesis
        <3>7. InReorg => InReorg'
            <4>1. ASSUME NEW c, NEW n, NEW k, Rewrites(c, n, k)
                  PROVE  Rewrites(c, n, k)'
                BY <2>1, <4>1 DEF Rewrites, Mark, Batch, SaveLast
            <4>2. PICK c : c = tip /\ c = tip'
                BY <2>1
            <4>3. ASSUME NEW n
                  PROVE  /\ Low(n) => Low(n)'
                         /\ Covered(n) => Covered(n)'
                         /\ Branch(c, n) => Branch(c, n)'
                BY <2>1 DEF Low, Covered, Branch
            <4>4. ASSUME NEW n
                  PROVE  (Branch(c, n)' => Branch(tip, n)') /\ (Branch(tip, n) => Branch(c, n))
                BY <4>2 DEF Branch
            <4>5. ASSUME NEW n, NEW k
                  PROVE  (Rewrites(c, n, k)' => Rewrites(tip, n, k)') /\ (Rewrites(tip, n, k) => Rewrites(c, n, k))
                BY <4>2 DEF Rewrites
            <4>6. ASSUME NEW n \in Nat, NEW m \in Nat, NEW h \in 1..(m + 1), InDelete(n, h, m)
                  PROVE  InDelete(n, h, m)'
                <5>1. Deleting(n, h, m)'
                    BY <2>1, <4>1, <4>5, <4>6 DEF InDelete, Deleting, Delete
                <5> QED
                    BY <2>1, <2>3, <4>3, <4>4, <4>6, <5>1 DEF InDelete
            <4>7. ASSUME NEW n, InRewrite(n)
                  PROVE  InRewrite(n)'
                BY <2>1, <2>3, <4>1, <4>3, <4>4, <4>5, <4>7 DEF InRewrite, Rewriting, Rewritten_to
            <4>8. ASSUME NEW n, InStore(n)
                  PROVE  InStore(n)'
                BY <2>1, <2>3, <4>1, <4>3, <4>4, <4>5, <4>8 DEF InStore, Storing, Rewritten_to, Batch
            <4>9. SUFFICES ASSUME InReorg
                           PROVE  InReorg'
                OBVIOUS
            <4>10. CASE \E n, m \in Nat : \E h \in 1..(m + 1) : InDelete(n, h, m)
                <5>1. \E n, m \in Nat : \E h \in 1..(m + 1) : InDelete(n, h, m)'
                    BY <4>6, <4>10
                <5> QED
                    BY <2>1, <4>9, <5>1 DEF InReorg, InDelete
            <4>11. CASE \E n \in 1..(Len(tip) + 1) : InRewrite(n)
                <5>1. \E n \in 1..(Len(tip') + 1) : InRewrite(n)'
                    BY <2>1, <4>7, <4>11
                <5> QED
                    BY <2>1, <4>9, <5>1 DEF InReorg, InRewrite
            <4>12. CASE \E n \in 1..Len(tip) : InStore(n)
                <5>1. \E n \in 1..Len(tip') : InStore(n)'
                    BY <2>1, <4>8, <4>12
                <5> QED
                    BY <2>1, <4>9, <5>1 DEF InReorg, InStore
            <4> QED
                BY <4>9, <4>10, <4>11, <4>12, ReorgStates
        <3> QED
            BY <3>3, <3>4, <3>5, <3>6, <3>7 DEF StoreInv, Doing
    <2> QED
        BY <2>2, <2>4 DEF StoreInv
<1>2. CASE Next
    <2>1. CASE \E x \in Branches : produce_block(x) \/ validate_and_add_block(x)
        BY <2>1, ProduceStep, ValidateStep
    <2>2. CASE \E h \in 1..MaxHeight : Finalize(h)
        BY <2>2, FinalizeStep
    <2>3. CASE \E c \in Paths : try_reorg(c)
        BY <2>3, ReorgStep
    <2>4. CASE \E b \in index : LoseIndex(b)
        BY <2>4, LoseStep
    <2> QED
        BY <1>2, <2>1, <2>2, <2>3, <2>4, WriteStep, FailStep, CrashStep, StartEmptyStep, StartStep,
           RefuseStep, RepairStep DEF Next
<1> QED
    BY <1>1, <1>2

\* The invariant holds in every behaviour of the store.
THEOREM StoreInvariant == Spec => []StoreInv
<1>1. Init => StoreInv
    BY StoreInit
<1>2. StoreInv /\ [Next]_vars => StoreInv'
    BY StoreStep
<1> QED
    BY <1>1, <1>2, PTL DEF Spec

-----------------------------------------------------------------------------
(* What a restart finds.                                                   *)

LEMMA CommittedSurvivesHere ==
    ASSUME StoreInv
    PROVE  CommittedSurvives
<1> SUFFICES ASSUME scars = {}, ~Reorganising
             PROVE  \/ committed = Genesis /\ Walk(Recovered) = {}
                    \/ Walk(Recovered) = Chain(committed) /\ Recovered.index = Chain(committed)
    BY DEF CommittedSurvives
<1>1. Typed /\ Copied /\ Doing /\ Sound /\ Exact
    BY DEF StoreInv, Sound, Exact
<1>2. /\ Recovered.last \subseteq Paths /\ \A s, t \in Recovered.last : s = t
    BY <1>1, RecoveredTyped
<1>3. CASE Empty
    <2>1. Recovered.last = {}
        BY <1>1, <1>3, RecoveredEmpty
    <2>2. Walk(Recovered) = {}
        BY <2>1 DEF Walk
    <2> QED
        BY <1>1, <1>3, <2>2 DEF Empty
<1>4. ASSUME NEW x \in Paths, Stored(x)
      PROVE  committed = x /\ Walk(Recovered) = Chain(x) /\ Recovered.index = Chain(x)
    <2>0. Len(x) \in Nat /\ (Len(x) + 1) - 1 = Len(x)
        BY PathSeq
    <2>1. Recovered.blocks = blocks /\ Recovered.index = index /\ Recovered.last = {x}
        BY <1>1, <1>4, RecoveredStored
    <2>2. committed = x /\ Branch(x, Len(x) + 1) /\ \A b \in index : Len(b) < Len(x) + 1
        BY <1>1, <1>4 DEF Stored, Low
    <2>3. \A n \in 0..Len(x) : Prefix(x, n) \in blocks /\ Prefix(x, n) \in index
        BY <2>0, <2>2 DEF Branch
    <2>4. Walk(Recovered) = Chain(x)
        BY <1>2, <2>1, <2>3, WalkBelow
    <2>5. ASSUME NEW b \in index
          PROVE  Len(b) \in 0..Len(x) /\ b = Prefix(x, Len(b))
        <3>1. Len(b) \in Nat
            BY <1>1, PathSeq DEF Typed
        <3> QED
            BY <2>0, <2>2, <3>1 DEF Branch
    <2>6. index = Chain(x)
        BY <2>3, <2>5 DEF Chain
    <2> QED
        BY <2>1, <2>2, <2>4, <2>6
<1> QED
    BY <1>1, <1>3, <1>4, AtRest

\* Wherever a crash or a failed write hits the commit of a block, a restart
\* finds exactly the blocks whose batch was written, each under its height, as
\* long as no reorganisation was cut short, genesis was stored, nothing was
\* pruned and no index entry was lost (commit_durable_batch,
\* recover_interrupted_commit, load_chain).
THEOREM CommitsSurvive == Spec => []CommittedSurvives
<1>1. StoreInv => CommittedSurvives
    BY CommittedSurvivesHere
<1> QED
    BY <1>1, StoreInvariant, PTL

\* recover_interrupted_commit never rolls back a block that was whole: nothing
\* is indexed at the height of the marker, also while try_reorg rewrites the
\* heights of the chain it replaced, unless a reorganisation was cut short or
\* the stored chain lost.
THEOREM NoBlockRolledBack == Spec => []RecoveryTakesNothing
<1>1. StoreInv => RecoveryTakesNothing
    <2>1. ASSUME StoreInv, Sound, NEW h \in marker
          PROVE  At(index, h) = {}
        <3>1. Low(h) /\ h \in Nat /\ \A b \in index : Len(b) \in Nat
            BY <2>1, PathSeq DEF StoreInv, Heights, Typed
        <3> QED
            BY <3>1 DEF Low, At
    <2> QED
        BY <2>1 DEF RecoveryTakesNothing, Sound
<1> QED
    BY <1>1, StoreInvariant, PTL

LEMMA BridgeRestoredHere ==
    ASSUME StoreInv
    PROVE  BridgeOfRestoredTip
<1>1. Typed /\ Copied /\ (Sound => Heights)
    BY DEF StoreInv
<1>2. /\ Recovered.last \subseteq Paths /\ (\A s, t \in Recovered.last : s = t)
      /\ \A t \in Recovered.last \cap Recovered.blocks :
            Recovered.bridge = Copy(Recovered.bridgeAt, Len(t))
      /\ Heights => /\ \A t \in Recovered.last : 1..Len(t) \subseteq DOMAIN Recovered.bridgeAt
                    /\ Genesis \in Recovered.blocks => 0 \in DOMAIN Recovered.bridgeAt
    BY <1>1, RecoveredTyped
<1> SUFFICES ASSUME Walk(Recovered) # {}
             PROVE  LET h == Len(TheTip(Walk(Recovered)))
                    IN  /\ Recovered.bridge = {Recovered.bridgeAt[k] : k \in {h} \cap DOMAIN Recovered.bridgeAt}
                        /\ h \in DOMAIN Recovered.bridgeAt \/ scars \cap {"cut reorg", "lost chain"} # {}
    BY DEF BridgeOfRestoredTip
<1>3. PICK t \in Recovered.last : t \in Recovered.blocks /\ TheTip(Walk(Recovered)) = t
    BY <1>2, WalkBelow
<1>4. Recovered.bridge = {Recovered.bridgeAt[k] : k \in {Len(t)} \cap DOMAIN Recovered.bridgeAt}
    BY <1>2, <1>3 DEF Copy
<1>5. Sound => Len(t) \in DOMAIN Recovered.bridgeAt
    <2>1. CASE Len(t) = 0
        BY <1>1, <1>2, <1>3, <2>1, HeightZero
    <2>2. CASE Len(t) # 0
        <3>1. Len(t) \in 1..Len(t)
            BY <1>2, <1>3, <2>2, PathSeq
        <3> QED
            BY <1>1, <1>2, <1>3, <3>1
    <2> QED
        BY <2>1, <2>2
<1> QED
    BY <1>3, <1>4, <1>5 DEF Sound

\* "We must not leave a newer BRIDGE_STATE than the restored tip": the bridge
\* state a restart loads is the copy committed with the block it starts from,
\* and there is one unless a reorganisation was cut short or the chain lost
\* (recover_interrupted_commit).
THEOREM RestoredBridgeIsTips == Spec => []BridgeOfRestoredTip
<1>1. StoreInv => BridgeOfRestoredTip
    BY BridgeRestoredHere
<1> QED
    BY <1>1, StoreInvariant, PTL

-----------------------------------------------------------------------------
(* What the books are.                                                     *)

DealRecord ==
    [shard : Shards, operator : Operators, replica_index : Slots \cup {0},
     start : Nat, end : Nat, status : {"Active", "Expired", "Slashed"}]

ChallengeRecord == [deal : Nat, from : Nat, deadline : Nat]

Outcome == {"Answered", "Mismatched", "Missed"}

TicketRecord ==
    [failed_deal_id : Nat, cause : {"FailedDeal", "NeverPlaced"}, shard : Shards,
     replica_index : Slots \cup {0}, slashed_operator : Operators \cup {NoOperator},
     opened : Nat, deadline : Nat,
     status : {"Pending", "UnderReplicated", "ActiveReplacement"},
     replacement : Int, settled : Int]

\* Maps keyed by consecutive ids, and by some ids.
Listed(V) == UNION {[0..(n - 1) -> V] : n \in Nat}
Keyed(V) == UNION {[D -> V] : D \in SUBSET Nat}

BookSet ==
    [deals : Listed(DealRecord), challenges : Listed(ChallengeRecord),
     results : Keyed(Outcome), reallocations : Keyed(TicketRecord), next : Nat,
     cooldowns : SUBSET Operators, balance : [Payers -> Nat], paid : Listed(Nat)]

\* A deal is paid through an epoch of its term.
PaidInTerm(b) ==
    /\ DOMAIN b.paid = DOMAIN b.deals
    /\ \A d \in DOMAIN b.deals :
          b.deals[d].start <= b.paid[d] /\ b.paid[d] <= b.deals[d].end

\* A challenge is about a deal, a result about a challenge.
Linked(b) ==
    /\ \A c \in DOMAIN b.challenges : b.challenges[c].deal \in DOMAIN b.deals
    /\ DOMAIN b.results \subseteq DOMAIN b.challenges

Judged(b) ==
    \A d \in DOMAIN b.deals :
        IF b.deals[d].status = "Slashed" THEN \E c : Guilty(b, d) = {c} ELSE Guilty(b, d) = {}

TicketsNumbered(b) ==
    \A t \in DOMAIN b.reallocations :
        /\ t < b.next
        /\ b.reallocations[t].cause = "NeverPlaced" => b.reallocations[t].failed_deal_id = 0

Dues(b) == [d \in DOMAIN b.deals |-> Outstanding(b, d)]

Worth(b) == SumFunction(b.balance) + SumFunction(Dues(b))

BookInv(b) ==
    b \in BookSet /\ PaidInTerm(b) /\ Linked(b) /\ Judged(b) /\ TicketsNumbered(b)
      /\ Worth(b) <= Supply

-----------------------------------------------------------------------------
(* Fees.                                                                   *)

LEMMA Numbers ==
    /\ Bond \in Nat /\ FeeRate \in Nat /\ OpenerBond \in Nat /\ OperatorFunds \in Nat
    /\ ClientFunds \in Nat /\ AcceptanceEpochs \in Nat /\ RetentionEpochs \in Nat
    /\ MaxEpoch \in Nat /\ FeeScale \in Nat \ {0} /\ AutoDeadline \in Nat \ {0}
    /\ IsFiniteSet(Operators) /\ IsFiniteSet(Shards) /\ Client \notin Operators
    /\ K \in Nat \ {0}
BY StorageAssumption, FS_CardinalityType

\* A quotient rounded down.
LEMMA Quotient ==
    ASSUME NEW a \in Nat, NEW f \in Nat \ {0}
    PROVE  a \div f \in Nat /\ f * (a \div f) <= a /\ a < f * (a \div f) + f
OBVIOUS

LEMMA ProductGrows ==
    ASSUME NEW a \in Nat, NEW x \in Nat, NEW y \in Nat, x <= y
    PROVE  a * x \in Nat /\ a * x <= a * y
OBVIOUS

LEMMA QuotientGrows ==
    ASSUME NEW a \in Nat, NEW c \in Nat, NEW f \in Nat \ {0}, a <= c
    PROVE  a \div f <= c \div f
<1>1. PICK p, q : p = a \div f /\ q = c \div f
    OBVIOUS
<1>2. p \in Nat /\ q \in Nat /\ f * p <= a /\ c < f * q + f
    BY <1>1, Quotient
<1>3. ASSUME q + 1 <= p PROVE FALSE
  <2>1. f * (q + 1) <= f * p
    BY <1>2, <1>3, ProductGrows
  <2>2. f * (q + 1) = f * q + f
    BY <1>2
  <2>3. f * p \in Nat /\ f * q \in Nat
    BY <1>2, ProductGrows
  <2> QED  BY <1>2, <2>1, <2>2, <2>3
<1> QED  BY <1>1, <1>2, <1>3

\* A longer term costs no less; no term costs nothing.
LEMMA FeeGrows ==
    ASSUME NEW x \in Nat, NEW y \in Nat, x <= y
    PROVE  total_fee(x) \in Nat /\ total_fee(y) \in Nat /\ total_fee(x) <= total_fee(y)
<1>1. FeeRate * x \in Nat /\ FeeRate * y \in Nat /\ FeeRate * x <= FeeRate * y
    BY Numbers, ProductGrows
<1>2. PICK a, c : a = FeeRate * x + FeeScale - 1 /\ c = FeeRate * y + FeeScale - 1
    OBVIOUS
<1>3. a \in Nat /\ c \in Nat /\ a <= c
    BY <1>1, <1>2, Numbers
<1> QED  BY <1>2, <1>3, Numbers, Quotient, QuotientGrows DEF total_fee

LEMMA NoFee == total_fee(0) = 0
<1>1. FeeRate * 0 = 0
    BY Numbers
<1>2. FeeRate * 0 + FeeScale - 1 = FeeScale - 1
    BY <1>1, Numbers
<1>3. PICK q : q = (FeeScale - 1) \div FeeScale
    OBVIOUS
<1>4. q \in Nat /\ FeeScale * q <= FeeScale - 1
    BY <1>3, Numbers, Quotient
<1>5. ASSUME q >= 1 PROVE FALSE
  <2>1. FeeScale * 1 <= FeeScale * q
    BY <1>4, <1>5, Numbers, ProductGrows
  <2> QED  BY <1>4, <2>1, Numbers
<1> QED  BY <1>2, <1>3, <1>4, <1>5 DEF total_fee

-----------------------------------------------------------------------------
(* Maps.                                                                   *)

LEMMA ListedFacts ==
    ASSUME NEW V, NEW f \in Listed(V)
    PROVE  /\ Cardinality(DOMAIN f) \in Nat
           /\ DOMAIN f = 0..(Cardinality(DOMAIN f) - 1)
           /\ IsFiniteSet(DOMAIN f)
           /\ f = [i \in DOMAIN f |-> f[i]]
           /\ \A i \in DOMAIN f : i \in Nat /\ f[i] \in V
<1>1. PICK n \in Nat : f \in [0..(n - 1) -> V]
    BY DEF Listed
<1>2. Cardinality(0..(n - 1)) = n /\ IsFiniteSet(0..(n - 1))
    BY FS_Interval
<1>3. DOMAIN f = 0..(n - 1)
    BY <1>1
<1> QED  BY <1>1, <1>2, <1>3

LEMMA ListedIntro ==
    ASSUME NEW V, NEW n \in Nat, NEW f \in [0..(n - 1) -> V]
    PROVE  f \in Listed(V)
BY DEF Listed

\* A new entry gets the next id.
LEMMA PutListed ==
    ASSUME NEW V, NEW f \in Listed(V), NEW v \in V, NEW k, k = Cardinality(DOMAIN f)
    PROVE  Enter(f, k, v) \in Listed(V) /\ k \in Nat /\ k \notin DOMAIN f
<1>1. k \in Nat /\ DOMAIN f = 0..(k - 1) /\ \A i \in DOMAIN f : f[i] \in V
    BY ListedFacts
<1>2. DOMAIN f \cup {k} = 0..((k + 1) - 1) /\ k \notin DOMAIN f
  <2>1. \A n \in Nat : (0..(n - 1)) \cup {n} = 0..((n + 1) - 1) /\ n \notin 0..(n - 1)
    OBVIOUS
  <2> QED  BY ONLY <1>1, <2>1
<1>3. Enter(f, k, v) \in [0..((k + 1) - 1) -> V]
    BY <1>1, <1>2 DEF Enter
<1>4. k + 1 \in Nat
    BY <1>1
<1>5. Enter(f, k, v) \in Listed(V)
    BY ONLY <1>3, <1>4, ListedIntro
<1> QED  BY <1>1, <1>2, <1>5

LEMMA UpdateListed ==
    ASSUME NEW V, NEW f \in Listed(V), NEW v \in V, NEW k \in DOMAIN f
    PROVE  [f EXCEPT ![k] = v] \in Listed(V)
<1>1. PICK n \in Nat : f \in [0..(n - 1) -> V]
    BY DEF Listed
<1>2. [f EXCEPT ![k] = v] \in [0..(n - 1) -> V]
    BY <1>1
<1> QED  BY <1>1, <1>2, ListedIntro

LEMMA KeyedFacts ==
    ASSUME NEW V, NEW f \in Keyed(V)
    PROVE  /\ DOMAIN f \subseteq Nat /\ f = [i \in DOMAIN f |-> f[i]]
           /\ \A i \in DOMAIN f : f[i] \in V
BY DEF Keyed

LEMMA KeyedIntro ==
    ASSUME NEW V, NEW D \in SUBSET Nat, NEW f \in [D -> V]
    PROVE  f \in Keyed(V)
BY DEF Keyed

LEMMA PutKeyed ==
    ASSUME NEW V, NEW f \in Keyed(V), NEW v \in V, NEW k \in Nat
    PROVE  Enter(f, k, v) \in Keyed(V)
<1>1. DOMAIN f \subseteq Nat /\ \A i \in DOMAIN f : f[i] \in V
    BY KeyedFacts
<1>2. PICK D \in SUBSET Nat : D = DOMAIN f \cup {k}
    BY <1>1
<1>3. Enter(f, k, v) \in [D -> V]
    BY <1>1, <1>2 DEF Enter
<1> QED  BY <1>2, <1>3, KeyedIntro

LEMMA UpdateKeyed ==
    ASSUME NEW V, NEW f \in Keyed(V), NEW v \in V, NEW k \in DOMAIN f
    PROVE  [f EXCEPT ![k] = v] \in Keyed(V)
<1>1. PICK D \in SUBSET Nat : f \in [D -> V]
    BY DEF Keyed
<1>2. [f EXCEPT ![k] = v] \in [D -> V]
    BY <1>1
<1> QED  BY <1>1, <1>2, KeyedIntro

\* The empty map.
LEMMA EmptyMap ==
    ASSUME NEW V
    PROVE  <<>> \in Listed(V) /\ <<>> \in Keyed(V) /\ DOMAIN <<>> = {}
<1>1. DOMAIN <<>> = {} /\ 0..(0 - 1) = {}
    OBVIOUS
<1>2. <<>> \in [0..(0 - 1) -> V] /\ <<>> \in [{} -> V]
    OBVIOUS
<1> QED  BY <1>1, <1>2, ListedIntro, KeyedIntro

-----------------------------------------------------------------------------
(* The books, field by field.                                              *)

LEMMA BookFields ==
    ASSUME NEW b \in BookSet
    PROVE  /\ b.deals \in Listed(DealRecord) /\ b.challenges \in Listed(ChallengeRecord)
           /\ b.results \in Keyed(Outcome) /\ b.reallocations \in Keyed(TicketRecord)
           /\ b.next \in Nat /\ b.cooldowns \in SUBSET Operators
           /\ b.balance \in [Payers -> Nat] /\ b.paid \in Listed(Nat)
           /\ b = [deals |-> b.deals, challenges |-> b.challenges, results |-> b.results,
                   reallocations |-> b.reallocations, next |-> b.next,
                   cooldowns |-> b.cooldowns, balance |-> b.balance, paid |-> b.paid]
BY DEF BookSet

LEMMA BookIntro ==
    ASSUME NEW b,
           b = [deals |-> b.deals, challenges |-> b.challenges, results |-> b.results,
                reallocations |-> b.reallocations, next |-> b.next,
                cooldowns |-> b.cooldowns, balance |-> b.balance, paid |-> b.paid],
           b.deals \in Listed(DealRecord), b.challenges \in Listed(ChallengeRecord),
           b.results \in Keyed(Outcome), b.reallocations \in Keyed(TicketRecord),
           b.next \in Nat, b.cooldowns \in SUBSET Operators,
           b.balance \in [Payers -> Nat], b.paid \in Listed(Nat)
    PROVE  b \in BookSet
BY DEF BookSet

\* Who is slashed and for what decides whether the books are judged.
LEMMA SameJudged ==
    ASSUME NEW x, NEW y, Judged(x), DOMAIN y.deals = DOMAIN x.deals,
           \A e : Guilty(y, e) = Guilty(x, e),
           \A e \in DOMAIN x.deals :
              y.deals[e].status = "Slashed" <=> x.deals[e].status = "Slashed"
    PROVE  Judged(y)
<1> SUFFICES ASSUME NEW e \in DOMAIN y.deals
             PROVE  IF y.deals[e].status = "Slashed" THEN \E c : Guilty(y, e) = {c}
                                                     ELSE Guilty(y, e) = {}
    BY DEF Judged
<1>1. IF x.deals[e].status = "Slashed" THEN \E c : Guilty(x, e) = {c} ELSE Guilty(x, e) = {}
    BY DEF Judged
<1>2. /\ y.deals[e].status = "Slashed" <=> x.deals[e].status = "Slashed"
      /\ Guilty(y, e) = Guilty(x, e)
    OBVIOUS
<1> QED  BY ONLY <1>1, <1>2

LEMMA DealFields ==
    ASSUME NEW b \in BookSet, NEW d \in DOMAIN b.deals
    PROVE  /\ d \in Nat /\ b.deals[d] \in DealRecord
           /\ b.deals[d].shard \in Shards /\ b.deals[d].operator \in Operators
           /\ b.deals[d].operator \in Payers
           /\ b.deals[d].replica_index \in Slots \cup {0}
           /\ b.deals[d].start \in Nat /\ b.deals[d].end \in Nat
           /\ b.deals[d].status \in {"Active", "Expired", "Slashed"}
<1>1. b.deals \in Listed(DealRecord)
    BY BookFields
<1>2. d \in Nat /\ b.deals[d] \in DealRecord
    BY <1>1, ListedFacts
<1> QED  BY <1>2 DEF DealRecord, Payers

-----------------------------------------------------------------------------
(* What the books are worth.                                               *)

\* What a deal is still owed is a number of coins.
LEMMA DueIsNat ==
    ASSUME NEW b \in BookSet, PaidInTerm(b), NEW d \in DOMAIN b.deals
    PROVE  /\ Outstanding(b, d) \in Nat
           /\ total_fee(b.deals[d].end - b.deals[d].start) \in Nat
           /\ total_fee(b.paid[d] - b.deals[d].start) \in Nat
           /\ total_fee(b.paid[d] - b.deals[d].start)
                <= total_fee(b.deals[d].end - b.deals[d].start)
<1>1. b.deals[d].start \in Nat /\ b.deals[d].end \in Nat
    BY DealFields
<1>2. b.paid[d] \in Nat /\ b.deals[d].start <= b.paid[d] /\ b.paid[d] <= b.deals[d].end
    BY BookFields, ListedFacts DEF PaidInTerm
<1>3. PICK x, y : x = b.paid[d] - b.deals[d].start /\ y = b.deals[d].end - b.deals[d].start
    OBVIOUS
<1>4. x \in Nat /\ y \in Nat /\ x <= y
    BY <1>1, <1>2, <1>3
<1>5. total_fee(x) \in Nat /\ total_fee(y) \in Nat /\ total_fee(x) <= total_fee(y)
    BY <1>4, FeeGrows
<1> QED  BY <1>3, <1>5, Numbers DEF Outstanding

LEMMA AccountsFinite == IsFiniteSet(Payers) /\ Client \in Payers
<1>1. IsFiniteSet(Operators \cup {Client})
    BY Numbers, FS_AddElement
<1> QED  BY <1>1 DEF Payers

LEMMA BalancesSum ==
    ASSUME NEW f \in [Payers -> Nat]
    PROVE  SumFunction(f) \in Nat /\ SumFunction(f) = SumFunctionOnSet(f, Payers)
<1>1. SumFunctionOnSet(f, Payers) \in Nat
    BY AccountsFinite, SumNat
<1> QED  BY <1>1 DEF SumFunction, FoldFunction, SumFunctionOnSet

LEMMA BalanceMoves ==
    ASSUME NEW f \in [Payers -> Nat], NEW a \in Payers, NEW v \in Nat
    PROVE  SumFunction([f EXCEPT ![a] = v]) = SumFunction(f) + v - f[a]
<1> DEFINE g == [f EXCEPT ![a] = v]
<1>1. g \in [Payers -> Nat] /\ g[a] = v /\ \A x \in Payers \ {a} : g[x] = f[x]
    OBVIOUS
<1>2. \A x \in Payers : f[x] \in Int /\ g[x] \in Int
    BY <1>1
<1> HIDE DEF g
<1>3. SumFunctionOnSet(g, Payers) = SumFunctionOnSet(f, Payers) + g[a] - f[a]
    BY <1>1, <1>2, AccountsFinite, SumUpdate
<1>4. SumFunction(g) = SumFunction(f) + v - f[a]
    BY <1>1, <1>3, BalancesSum
<1> QED  BY <1>4 DEF g

LEMMA DuesSum ==
    ASSUME NEW b \in BookSet, PaidInTerm(b)
    PROVE  /\ SumFunction(Dues(b)) \in Nat
           /\ SumFunction(Dues(b)) = SumFunctionOnSet(Dues(b), DOMAIN b.deals)
           /\ \A d \in DOMAIN b.deals : Dues(b)[d] = Outstanding(b, d) /\ Dues(b)[d] \in Nat
<1>1. \A d \in DOMAIN b.deals : Dues(b)[d] = Outstanding(b, d) /\ Dues(b)[d] \in Nat
    BY DueIsNat DEF Dues
<1>2. DOMAIN Dues(b) = DOMAIN b.deals
    BY DEF Dues
<1>3. IsFiniteSet(DOMAIN b.deals)
    BY BookFields, ListedFacts
<1>4. SumFunctionOnSet(Dues(b), DOMAIN b.deals) \in Nat
    BY <1>1, <1>3, SumNat
<1>5. SumFunction(Dues(b)) = SumFunctionOnSet(Dues(b), DOMAIN b.deals)
    BY ONLY <1>2 DEF SumFunction, FoldFunction, SumFunctionOnSet
<1> QED  BY <1>1, <1>4, <1>5

\* One deal is owed something else.
LEMMA DueMoves ==
    ASSUME NEW x \in BookSet, PaidInTerm(x), NEW y \in BookSet, PaidInTerm(y),
           DOMAIN y.deals = DOMAIN x.deals, NEW d \in DOMAIN x.deals,
           \A e \in DOMAIN x.deals : e # d => Outstanding(y, e) = Outstanding(x, e)
    PROVE  SumFunction(Dues(y))
             = SumFunction(Dues(x)) + Outstanding(y, d) - Outstanding(x, d)
<1>1. \A e \in DOMAIN x.deals : Dues(x)[e] \in Int /\ Dues(y)[e] \in Int
    BY DuesSum
<1>2. \A e \in DOMAIN x.deals \ {d} : Dues(y)[e] = Dues(x)[e]
    BY DuesSum
<1>3. IsFiniteSet(DOMAIN x.deals)
    BY BookFields, ListedFacts
<1>4. SumFunctionOnSet(Dues(y), DOMAIN x.deals)
        = SumFunctionOnSet(Dues(x), DOMAIN x.deals) + Dues(y)[d] - Dues(x)[d]
    BY <1>1, <1>2, <1>3, SumUpdate
<1> QED  BY <1>4, DuesSum

LEMMA DuesSame ==
    ASSUME NEW x \in BookSet, PaidInTerm(x), NEW y \in BookSet, PaidInTerm(y),
           DOMAIN y.deals = DOMAIN x.deals,
           \A e \in DOMAIN x.deals : Outstanding(y, e) = Outstanding(x, e)
    PROVE  SumFunction(Dues(y)) = SumFunction(Dues(x))
<1>1. Dues(y) = Dues(x)
    BY DEF Dues
<1> QED  BY <1>1

\* A deal is added.
LEMMA DueAdded ==
    ASSUME NEW x \in BookSet, PaidInTerm(x), NEW y \in BookSet, PaidInTerm(y),
           NEW d, d \notin DOMAIN x.deals, DOMAIN y.deals = DOMAIN x.deals \cup {d},
           \A e \in DOMAIN x.deals : Outstanding(y, e) = Outstanding(x, e)
    PROVE  SumFunction(Dues(y)) = SumFunction(Dues(x)) + Outstanding(y, d)
<1>1. \A e \in DOMAIN x.deals \cup {d} : Dues(y)[e] \in Int
    BY DuesSum
<1>2. IsFiniteSet(DOMAIN x.deals)
    BY BookFields, ListedFacts
<1>3. SumFunctionOnSet(Dues(y), DOMAIN x.deals \cup {d})
        = Dues(y)[d] + SumFunctionOnSet(Dues(y), DOMAIN x.deals)
    BY <1>1, <1>2, SumAdd
<1>4. \A e \in DOMAIN x.deals : Dues(y)[e] = Dues(x)[e]
    BY DuesSum
<1>5. SumFunctionOnSet(Dues(y), DOMAIN x.deals) = SumFunctionOnSet(Dues(x), DOMAIN x.deals)
    BY <1>2, <1>4, SumAgree
<1>6. SumFunction(Dues(x)) = SumFunctionOnSet(Dues(x), DOMAIN x.deals)
      /\ SumFunction(Dues(x)) \in Nat
    BY DuesSum
<1>7. SumFunction(Dues(y)) = SumFunctionOnSet(Dues(y), DOMAIN x.deals \cup {d})
      /\ Dues(y)[d] = Outstanding(y, d) /\ Dues(y)[d] \in Nat
    BY DuesSum
<1> QED  BY <1>3, <1>5, <1>6, <1>7

\* Every deal is owed as much or less.
LEMMA DuesShrink ==
    ASSUME NEW x \in BookSet, PaidInTerm(x), NEW y \in BookSet, PaidInTerm(y),
           DOMAIN y.deals = DOMAIN x.deals,
           \A e \in DOMAIN x.deals : Outstanding(y, e) <= Outstanding(x, e)
    PROVE  SumFunction(Dues(y)) <= SumFunction(Dues(x))
<1>1. \A e \in DOMAIN x.deals :
         Dues(y)[e] \in Int /\ Dues(x)[e] \in Int /\ Dues(y)[e] <= Dues(x)[e]
    BY DuesSum
<1>2. IsFiniteSet(DOMAIN x.deals)
    BY BookFields, ListedFacts
<1>3. SumFunctionOnSet(Dues(y), DOMAIN x.deals) <= SumFunctionOnSet(Dues(x), DOMAIN x.deals)
    BY <1>1, <1>2, SumMonotonic
<1> QED  BY <1>3, DuesSum

LEMMA SupplyNat == Supply \in Nat
<1>1. Cardinality(Operators) \in Nat
    BY Numbers, FS_CardinalityType
<1>2. Cardinality(Operators) * OperatorFunds \in Nat
    BY <1>1, Numbers, ProductGrows
<1> QED  BY <1>2, Numbers DEF Supply

-----------------------------------------------------------------------------
(* Tickets.                                                                *)

\* What only touches tickets and cooldowns keeps everything else.
LEMMA OnlyTickets ==
    ASSUME NEW x, BookInv(x), NEW y \in BookSet, y.deals = x.deals,
           y.challenges = x.challenges, y.results = x.results, y.balance = x.balance,
           y.paid = x.paid, TicketsNumbered(y)
    PROVE  BookInv(y)
<1>1. PaidInTerm(y) /\ Linked(y)
    BY DEF BookInv, PaidInTerm, Linked
<1>2. Judged(y)
  <2>1. \A d : Guilty(y, d) = Guilty(x, d)
    BY DEF Guilty
  <2> QED  BY <2>1 DEF BookInv, Judged
<1>3. \A d \in DOMAIN x.deals : Outstanding(y, d) = Outstanding(x, d)
    BY DEF Outstanding, is_active
<1>4. SumFunction(Dues(y)) = SumFunction(Dues(x))
    BY <1>1, <1>3, DuesSame DEF BookInv
<1> QED  BY <1>1, <1>2, <1>4 DEF BookInv, Worth

\* A ticket is added, and waits.
TicketAdded(y, x, failed, cause) ==
    /\ BookInv(y)
    /\ y.deals = x.deals /\ y.challenges = x.challenges /\ y.results = x.results
    /\ y.balance = x.balance /\ y.paid = x.paid /\ y.cooldowns = x.cooldowns
    /\ DOMAIN y.reallocations = DOMAIN x.reallocations \cup {x.next}
    /\ x.next \notin DOMAIN x.reallocations
    /\ \A t \in DOMAIN x.reallocations : y.reallocations[t] = x.reallocations[t]
    /\ y.reallocations[x.next].status = "Pending"
    /\ y.reallocations[x.next].failed_deal_id = failed
    /\ y.reallocations[x.next].cause = cause

LEMMA TicketOpened ==
    ASSUME NEW x, BookInv(x), NEW failed \in Nat, NEW cause \in {"FailedDeal", "NeverPlaced"},
           cause = "NeverPlaced" => failed = 0, NEW s \in Shards, NEW i \in Slots \cup {0},
           NEW barred \in Operators \cup {NoOperator}, NEW now \in Nat,
           NEW y, y = OpenTicket(x, failed, cause, s, i, barred, now)
    PROVE  TicketAdded(y, x, failed, cause)
<1>1. x \in BookSet
    BY DEF BookInv
<1> DEFINE ticket == [failed_deal_id |-> failed, cause |-> cause, shard |-> s,
                      replica_index |-> i, slashed_operator |-> barred, opened |-> now,
                      deadline |-> now + AcceptanceEpochs, status |-> "Pending",
                      replacement |-> -1, settled |-> -1]
<1>2. ticket \in TicketRecord
    BY Numbers DEF TicketRecord
<1>3. ticket.status = "Pending" /\ ticket.failed_deal_id = failed /\ ticket.cause = cause
    OBVIOUS
<1>4. y = [x EXCEPT !.reallocations = Enter(@, x.next, ticket), !.next = @ + 1]
    BY DEF OpenTicket
<1> HIDE DEF ticket
<1>5. /\ y.deals = x.deals /\ y.challenges = x.challenges /\ y.results = x.results
      /\ y.balance = x.balance /\ y.paid = x.paid /\ y.cooldowns = x.cooldowns
      /\ y.reallocations = Enter(x.reallocations, x.next, ticket) /\ y.next = x.next + 1
      /\ y = [deals |-> y.deals, challenges |-> y.challenges, results |-> y.results,
              reallocations |-> y.reallocations, next |-> y.next,
              cooldowns |-> y.cooldowns, balance |-> y.balance, paid |-> y.paid]
    BY <1>1, <1>4, BookFields
<1>6. x.next \in Nat /\ x.reallocations \in Keyed(TicketRecord)
    BY <1>1, BookFields
<1>7. /\ y.reallocations \in Keyed(TicketRecord)
      /\ DOMAIN y.reallocations = DOMAIN x.reallocations \cup {x.next}
      /\ y.reallocations[x.next] = ticket
      /\ \A t \in DOMAIN x.reallocations : t # x.next =>
            y.reallocations[t] = x.reallocations[t]
  <2>1. y.reallocations = Enter(x.reallocations, x.next, ticket)
    BY <1>5
  <2>2. y.reallocations \in Keyed(TicketRecord)
    BY <1>2, <1>6, <2>1, PutKeyed
  <2> QED  BY <2>1, <2>2 DEF Enter
<1>8. y \in BookSet
  <2>1. y.next \in Nat
    BY <1>5, <1>6
  <2> QED  BY <1>1, <1>5, <1>7, <2>1, BookFields, BookIntro
<1>9. \A t \in DOMAIN x.reallocations : t \in Nat /\ t < x.next
    BY <1>6, KeyedFacts DEF BookInv, TicketsNumbered
<1>10. x.next \notin DOMAIN x.reallocations
    BY <1>6, <1>9
<1>11. TicketsNumbered(y)
  <2>1. ASSUME NEW t \in DOMAIN y.reallocations
        PROVE  /\ t < y.next
               /\ y.reallocations[t].cause = "NeverPlaced" =>
                     y.reallocations[t].failed_deal_id = 0
    <3>1. CASE t = x.next
      BY <1>3, <1>5, <1>6, <1>7, <3>1
    <3>2. CASE t # x.next
      <4>1. t \in DOMAIN x.reallocations /\ y.reallocations[t] = x.reallocations[t]
        BY <1>7, <3>2
      <4> QED  BY <1>5, <1>6, <1>9, <4>1 DEF BookInv, TicketsNumbered
    <3> QED  BY <3>1, <3>2
  <2> QED  BY <2>1 DEF TicketsNumbered
<1>12. BookInv(y)
    BY <1>5, <1>8, <1>11, OnlyTickets
<1> QED  BY <1>3, <1>5, <1>7, <1>10, <1>12 DEF TicketAdded

\* The books with another balance, and with another payment on record.
LEMMA WithBalance ==
    ASSUME NEW x \in BookSet, NEW a, NEW v, NEW y, y = [x EXCEPT !.balance[a] = v]
    PROVE  /\ y.deals = x.deals /\ y.challenges = x.challenges /\ y.results = x.results
           /\ y.reallocations = x.reallocations /\ y.next = x.next
           /\ y.cooldowns = x.cooldowns /\ y.paid = x.paid
           /\ y.balance = [x.balance EXCEPT ![a] = v]
           /\ y = [deals |-> y.deals, challenges |-> y.challenges, results |-> y.results,
                   reallocations |-> y.reallocations, next |-> y.next,
                   cooldowns |-> y.cooldowns, balance |-> y.balance, paid |-> y.paid]
<1>1. y = [x EXCEPT !.balance = [x.balance EXCEPT ![a] = v]]
    OBVIOUS
<1>2. PICK f : f = [x.balance EXCEPT ![a] = v]
    OBVIOUS
<1>3. y = [x EXCEPT !.balance = f]
    BY <1>1, <1>2
<1> QED  BY <1>2, <1>3, BookFields

-----------------------------------------------------------------------------
(* Payments.                                                               *)

\* A payment is what the deal is owed less afterwards.
LEMMA PayStep ==
    ASSUME NEW x, BookInv(x), NEW d \in DOMAIN x.deals, NEW now \in Nat,
           NEW y, y = PayOperator(x, d, now)
    PROVE  /\ BookInv(y)
           /\ y.deals = x.deals /\ y.challenges = x.challenges /\ y.results = x.results
           /\ y.reallocations = x.reallocations /\ y.cooldowns = x.cooldowns
<1>0. x \in BookSet /\ PaidInTerm(x)
    BY DEF BookInv
<1>1. PICK deal : deal = x.deals[d]
    OBVIOUS
<1>2. PICK until : until = Min({now, deal.end})
    OBVIOUS
<1>3. PICK owed : owed = Owed(deal, x.paid[d], until)
    OBVIOUS
<1>4. CASE ~is_active(x, d) \/ until <= x.paid[d] \/ owed = 0
  <2>1. y = x
    BY <1>1, <1>2, <1>3, <1>4 DEF PayOperator
  <2> QED  BY <2>1
<1>5. CASE is_active(x, d) /\ ~(until <= x.paid[d]) /\ owed # 0
  <2>1. PICK op : op = deal.operator
    OBVIOUS
  <2>2. /\ op \in Payers /\ deal.start \in Nat /\ deal.end \in Nat
        /\ x.balance \in [Payers -> Nat] /\ x.paid \in Listed(Nat)
    BY <1>0, <1>1, <2>1, DealFields, BookFields
  <2>3. x.paid[d] \in Nat /\ deal.start <= x.paid[d] /\ x.paid[d] <= deal.end
    BY <1>0, <1>1, <2>2, ListedFacts DEF PaidInTerm
  <2>4. until \in Nat /\ until <= deal.end /\ x.paid[d] < until
    <3>1. until \in {now, deal.end} /\ until <= deal.end
      <4>1. now \in Int /\ deal.end \in Int
        BY <2>2
      <4> QED  BY ONLY <1>2, <4>1, MinOfTwo
    <3> QED  BY <1>5, <2>2, <2>3, <3>1
  <2>5. PICK f, g : f = total_fee(until - deal.start) /\ g = total_fee(x.paid[d] - deal.start)
    OBVIOUS
  <2>6. until - deal.start \in Nat /\ x.paid[d] - deal.start \in Nat
        /\ x.paid[d] - deal.start <= until - deal.start
    BY <2>2, <2>3, <2>4
  <2>7. f \in Nat /\ g \in Nat /\ g <= f /\ owed = f - g /\ owed \in Nat
    <3>1. f \in Nat /\ g \in Nat /\ g <= f
      BY <2>5, <2>6, FeeGrows
    <3>2. owed = f - g
      BY <1>3, <2>5 DEF Owed
    <3> QED  BY <3>1, <3>2
  <2>8. y = [[x EXCEPT !.balance[op] = @ + owed] EXCEPT !.paid[d] = until]
    BY <1>1, <1>2, <1>3, <1>5, <2>1 DEF PayOperator, Credit
  <2>9. /\ y.deals = x.deals /\ y.challenges = x.challenges /\ y.results = x.results
        /\ y.reallocations = x.reallocations /\ y.cooldowns = x.cooldowns /\ y.next = x.next
        /\ y.balance = [x.balance EXCEPT ![op] = @ + owed]
        /\ y.paid = [x.paid EXCEPT ![d] = until]
        /\ y = [deals |-> y.deals, challenges |-> y.challenges, results |-> y.results,
                reallocations |-> y.reallocations, next |-> y.next,
                cooldowns |-> y.cooldowns, balance |-> y.balance, paid |-> y.paid]
    <3>1. PICK z : z = [x EXCEPT !.balance[op] = x.balance[op] + owed]
      OBVIOUS
    <3>2. /\ z.deals = x.deals /\ z.challenges = x.challenges /\ z.results = x.results
          /\ z.reallocations = x.reallocations /\ z.next = x.next
          /\ z.cooldowns = x.cooldowns /\ z.paid = x.paid
          /\ z.balance = [x.balance EXCEPT ![op] = x.balance[op] + owed]
          /\ z = [deals |-> z.deals, challenges |-> z.challenges, results |-> z.results,
                  reallocations |-> z.reallocations, next |-> z.next,
                  cooldowns |-> z.cooldowns, balance |-> z.balance, paid |-> z.paid]
      BY <1>0, <3>1, WithBalance
    <3>3. PICK p : p = [x.paid EXCEPT ![d] = until]
      OBVIOUS
    <3>4. y = [z EXCEPT !.paid[d] = until]
      BY <2>8, <3>1
    <3>5. y = [z EXCEPT !.paid = p]
      BY <3>2, <3>3, <3>4
    <3> QED  BY <3>2, <3>3, <3>5
  <2>10. y \in BookSet
    <3>1. y.balance \in [Payers -> Nat]
      BY <2>2, <2>7, <2>9
    <3>2. y.paid \in Listed(Nat)
      <4>1. d \in DOMAIN x.paid
        BY <1>0 DEF PaidInTerm
      <4>2. [x.paid EXCEPT ![d] = until] \in Listed(Nat)
        BY <2>2, <2>4, <4>1, UpdateListed
      <4> QED  BY <2>9, <4>2
    <3> QED  BY <1>0, <2>9, <3>1, <3>2, BookFields, BookIntro
  <2>11. DOMAIN x.paid = DOMAIN x.deals /\ DOMAIN y.paid = DOMAIN x.paid
         /\ y.paid[d] = until /\ \A e \in DOMAIN x.deals : e # d => y.paid[e] = x.paid[e]
    BY <1>0, <2>9 DEF PaidInTerm
  <2>12. PaidInTerm(y)
    BY <1>0, <1>1, <2>2, <2>3, <2>4, <2>9, <2>11 DEF PaidInTerm
  <2>13. Linked(y)
    BY <2>9 DEF BookInv, Linked
  <2>14. Judged(y)
    <3>1. \A e : Guilty(y, e) = Guilty(x, e)
      BY <2>9 DEF Guilty
    <3>2. Judged(x) /\ y.deals = x.deals
      BY <2>9 DEF BookInv
    <3> QED  BY ONLY <3>1, <3>2, SameJudged
  <2>15. TicketsNumbered(y)
    BY <2>9 DEF BookInv, TicketsNumbered
  <2>16. Worth(y) = Worth(x)
    <3>1. \A e \in DOMAIN x.deals : e # d => Outstanding(y, e) = Outstanding(x, e)
      BY <2>9, <2>11 DEF Outstanding, is_active
    <3>2. SumFunction(Dues(y))
            = SumFunction(Dues(x)) + Outstanding(y, d) - Outstanding(x, d)
      BY <1>0, <2>9, <2>10, <2>12, <3>1, DueMoves
    <3>3. PICK h : h = total_fee(deal.end - deal.start)
      OBVIOUS
    <3>4. Outstanding(x, d) = Bond + h - g /\ Outstanding(y, d) = Bond + h - f
      BY <1>1, <1>5, <2>5, <2>9, <2>11, <3>3 DEF Outstanding, is_active
    <3>5. h \in Nat
      BY <1>0, <1>1, <3>3, DueIsNat
    <3>6. x.balance[op] + owed \in Nat /\ x.balance[op] \in Nat
      BY <2>2, <2>7
    <3>7. SumFunction(y.balance) = SumFunction(x.balance) + (x.balance[op] + owed) - x.balance[op]
      BY <2>2, <2>9, <3>6, BalanceMoves
    <3>8. SumFunction(x.balance) \in Nat /\ SumFunction(Dues(x)) \in Nat
      BY <1>0, <2>2, BalancesSum, DuesSum
    <3> QED  BY <2>7, <3>2, <3>4, <3>5, <3>6, <3>7, <3>8, Numbers DEF Worth
  <2> QED  BY <2>9, <2>10, <2>12, <2>13, <2>14, <2>15, <2>16 DEF BookInv
<1> QED  BY <1>4, <1>5

-----------------------------------------------------------------------------
(* The end of a deal.                                                      *)

\* A deal gets another status.
LEMMA StatusSet ==
    ASSUME NEW f \in Listed(DealRecord), NEW d \in DOMAIN f,
           NEW st \in {"Active", "Expired", "Slashed"}, NEW g,
           g = [f EXCEPT ![d].status = st]
    PROVE  /\ g \in Listed(DealRecord) /\ DOMAIN g = DOMAIN f /\ g[d].status = st
           /\ g[d].shard = f[d].shard /\ g[d].operator = f[d].operator
           /\ g[d].replica_index = f[d].replica_index
           /\ g[d].start = f[d].start /\ g[d].end = f[d].end
           /\ \A e \in DOMAIN f : e # d => g[e] = f[e]
<1>1. f[d] \in DealRecord
    BY ListedFacts
<1>2. PICK r : r = [f[d] EXCEPT !.status = st]
    OBVIOUS
<1>3. /\ r \in DealRecord /\ r.status = st /\ r.shard = f[d].shard
      /\ r.operator = f[d].operator /\ r.replica_index = f[d].replica_index
      /\ r.start = f[d].start /\ r.end = f[d].end
    BY <1>1, <1>2 DEF DealRecord
<1>4. g = [f EXCEPT ![d] = r]
    BY <1>2
<1>5. [f EXCEPT ![d] = r] \in Listed(DealRecord)
  <2>1. f \in Listed(DealRecord) /\ d \in DOMAIN f /\ r \in DealRecord
    BY <1>3
  <2> QED  BY ONLY <2>1, UpdateListed, Zenon
<1> QED  BY <1>3, <1>4, <1>5

\* What the slash writes.
SlashedBooks(y, x, c, d, outcome) ==
    /\ y \in BookSet /\ y.challenges = x.challenges
    /\ y.reallocations = x.reallocations /\ y.next = x.next /\ y.paid = x.paid
    /\ y.deals = [x.deals EXCEPT ![d].status = "Slashed"]
    /\ y.results = Enter(x.results, c, outcome)
    /\ \E v \in Nat : /\ v <= x.balance[x.deals[d].operator]
                      /\ y.balance = [x.balance EXCEPT ![x.deals[d].operator] = v]

LEMMA SlashFields ==
    ASSUME NEW x \in BookSet, NEW c \in Nat, NEW d \in DOMAIN x.deals,
           d = x.challenges[c].deal, NEW outcome \in Outcome, NEW y,
           y = Slashed(x, c, outcome)
    PROVE  SlashedBooks(y, x, c, d, outcome)
<1>1. PICK op : op = x.deals[d].operator
    OBVIOUS
<1>2. op \in Operators /\ op \in Payers /\ x.balance \in [Payers -> Nat]
    BY <1>1, DealFields, BookFields
<1>3. PICK v : v = x.balance[op] - Min({x.balance[op], Bond})
    OBVIOUS
<1>4. v \in Nat /\ v <= x.balance[op]
  <2>1. x.balance[op] \in Int /\ Bond \in Int /\ x.balance[op] \in Nat /\ Bond \in Nat
    BY <1>2, Numbers
  <2>2. PICK m : m = Min({x.balance[op], Bond})
    OBVIOUS
  <2>3. m \in {x.balance[op], Bond} /\ m <= x.balance[op]
    BY <2>1, <2>2, MinOfTwo
  <2> QED  BY <1>3, <2>1, <2>2, <2>3
<1>5. PICK cool : cool = x.cooldowns \cup {op}
    OBVIOUS
<1>6. PICK bal : bal = [x.balance EXCEPT ![op] = v]
    OBVIOUS
<1>7. PICK ds : ds = [x.deals EXCEPT ![d].status = "Slashed"]
    OBVIOUS
<1>8. PICK rs : rs = Enter(x.results, c, outcome)
    OBVIOUS
<1>9. PICK z : z = apply_storage_bond_slash(x, op)
    OBVIOUS
<1>10. z = [x EXCEPT !.cooldowns = cool, !.balance = bal]
  <2>1. z = [x EXCEPT !.cooldowns = x.cooldowns \cup {op},
                      !.balance[op] = x.balance[op] - Min({x.balance[op], Bond})]
    BY <1>9 DEF apply_storage_bond_slash
  <2>2. z = [x EXCEPT !.cooldowns = cool, !.balance[op] = v]
    BY <1>3, <1>5, <2>1
  <2> QED  BY <1>6, <2>2, BookFields
<1>11. /\ z.deals = x.deals /\ z.challenges = x.challenges /\ z.results = x.results
       /\ z.reallocations = x.reallocations /\ z.next = x.next /\ z.paid = x.paid
       /\ z.cooldowns = cool /\ z.balance = bal
       /\ z = [deals |-> z.deals, challenges |-> z.challenges, results |-> z.results,
               reallocations |-> z.reallocations, next |-> z.next,
               cooldowns |-> z.cooldowns, balance |-> z.balance, paid |-> z.paid]
  <2>1. x = [deals |-> x.deals, challenges |-> x.challenges, results |-> x.results,
             reallocations |-> x.reallocations, next |-> x.next,
             cooldowns |-> x.cooldowns, balance |-> x.balance, paid |-> x.paid]
    BY BookFields
  <2> QED  BY ONLY <1>10, <2>1
<1>12. y = [z EXCEPT !.deals = ds, !.results = rs]
  <2>1. y = [z EXCEPT !.deals[d].status = "Slashed", !.results = Enter(z.results, c, outcome)]
    BY <1>1, <1>9, Zenon DEF Slashed
  <2> QED  BY <1>7, <1>8, <1>11, <2>1
<1>13. /\ y.deals = ds /\ y.challenges = x.challenges /\ y.results = rs
       /\ y.reallocations = x.reallocations /\ y.next = x.next /\ y.paid = x.paid
       /\ y.cooldowns = cool /\ y.balance = bal
       /\ y = [deals |-> y.deals, challenges |-> y.challenges, results |-> y.results,
               reallocations |-> y.reallocations, next |-> y.next,
               cooldowns |-> y.cooldowns, balance |-> y.balance, paid |-> y.paid]
    BY <1>11, <1>12
<1>14. y \in BookSet
  <2>1. ds \in Listed(DealRecord)
    BY <1>7, BookFields, StatusSet
  <2>2. rs \in Keyed(Outcome)
    BY <1>8, BookFields, PutKeyed
  <2>3. cool \in SUBSET Operators
    BY <1>2, <1>5, BookFields
  <2>4. bal \in [Payers -> Nat]
    BY ONLY <1>2, <1>4, <1>6
  <2> QED  BY <1>13, <2>1, <2>2, <2>3, <2>4, BookFields, BookIntro
<1> QED  BY <1>1, <1>4, <1>6, <1>7, <1>8, <1>13, <1>14, Zenon DEF SlashedBooks

\* A slashed deal has lost this challenge and no other.
LEMMA SlashStep ==
    ASSUME NEW x, BookInv(x), NEW c \in DOMAIN x.challenges, Open(x, c),
           NEW d, d = x.challenges[c].deal, is_active(x, d),
           NEW outcome \in {"Mismatched", "Missed"}, NEW y, y = Slashed(x, c, outcome)
    PROVE  /\ BookInv(y) /\ y.challenges = x.challenges
           /\ y.reallocations = x.reallocations /\ y.next = x.next
           /\ d \in DOMAIN x.deals /\ DOMAIN y.deals = DOMAIN x.deals
           /\ y.deals[d].status = "Slashed" /\ y.deals[d].shard = x.deals[d].shard
           /\ y.deals[d].replica_index = x.deals[d].replica_index
           /\ \A e \in DOMAIN x.deals : e # d => y.deals[e] = x.deals[e]
           /\ c \in Guilty(y, d) /\ y.results[c] = outcome
<1>1. x \in BookSet /\ PaidInTerm(x) /\ Linked(x) /\ Judged(x)
    BY DEF BookInv
<1>2. d \in DOMAIN x.deals /\ c \in Nat /\ outcome \in Outcome /\ outcome # "Answered"
  <2>1. d \in DOMAIN x.deals
    BY <1>1 DEF Linked
  <2>2. c \in Nat
    BY <1>1, BookFields, ListedFacts
  <2> QED  BY <2>1, <2>2 DEF Outcome
<1>0. SlashedBooks(y, x, c, d, outcome)
    BY <1>1, <1>2, SlashFields
<1>3. /\ y \in BookSet /\ y.challenges = x.challenges
      /\ y.reallocations = x.reallocations /\ y.next = x.next /\ y.paid = x.paid
    BY ONLY <1>0 DEF SlashedBooks
<1>4. /\ DOMAIN y.deals = DOMAIN x.deals /\ y.deals[d].status = "Slashed"
      /\ y.deals[d].shard = x.deals[d].shard
      /\ y.deals[d].replica_index = x.deals[d].replica_index
      /\ y.deals[d].start = x.deals[d].start /\ y.deals[d].end = x.deals[d].end
      /\ \A e \in DOMAIN x.deals : e # d => y.deals[e] = x.deals[e]
  <2>1. x.deals \in Listed(DealRecord)
    BY <1>1, BookFields
  <2>2. d \in DOMAIN x.deals /\ y.deals = [x.deals EXCEPT ![d].status = "Slashed"]
    BY ONLY <1>0, <1>2 DEF SlashedBooks
  <2> QED  BY ONLY <2>1, <2>2, StatusSet
<1>5. /\ DOMAIN y.results = DOMAIN x.results \cup {c} /\ y.results[c] = outcome
      /\ \A k \in DOMAIN x.results : k # c => y.results[k] = x.results[k]
  <2>1. y.results = Enter(x.results, c, outcome)
    BY ONLY <1>0 DEF SlashedBooks
  <2> QED  BY ONLY <2>1 DEF Enter
<1>6. PaidInTerm(y)
  <2>1. \A e \in DOMAIN x.deals : y.deals[e].start = x.deals[e].start
                                  /\ y.deals[e].end = x.deals[e].end
    BY ONLY <1>4
  <2> QED  BY ONLY <1>1, <1>3, <1>4, <2>1 DEF PaidInTerm
<1>7. Linked(y)
    BY ONLY <1>1, <1>3, <1>4, <1>5, c \in DOMAIN x.challenges DEF Linked
<1>8. Guilty(x, d) = {} /\ c \notin DOMAIN x.results
  <2>1. x.deals[d].status # "Slashed"
    BY DEF is_active
  <2> QED  BY <1>1, <1>2, <2>1 DEF Judged, Open
<1>9. Guilty(y, d) = {c}
    BY ONLY <1>2, <1>3, <1>5, <1>8, c \in DOMAIN x.challenges, d = x.challenges[c].deal
       DEF Guilty
<1>10. \A e : e # d => Guilty(y, e) = Guilty(x, e)
    BY ONLY <1>3, <1>5, <1>8, d = x.challenges[c].deal DEF Guilty
<1>11. Judged(y)
  <2>1. ASSUME NEW e \in DOMAIN y.deals
        PROVE  IF y.deals[e].status = "Slashed" THEN \E k : Guilty(y, e) = {k}
                                                ELSE Guilty(y, e) = {}
    <3>1. CASE e = d
      BY <1>4, <1>9, <3>1
    <3>2. CASE e # d
      <4>1. e \in DOMAIN x.deals /\ y.deals[e] = x.deals[e] /\ Guilty(y, e) = Guilty(x, e)
        BY <1>4, <1>10, <3>2
      <4> QED  BY <1>1, <4>1 DEF Judged
    <3> QED  BY <3>1, <3>2
  <2> QED  BY <2>1 DEF Judged
<1>12. TicketsNumbered(y)
    BY <1>3 DEF BookInv, TicketsNumbered
<1>13. Worth(y) <= Worth(x)
  <2>1. \A e \in DOMAIN x.deals : e # d => Outstanding(y, e) = Outstanding(x, e)
    BY ONLY <1>3, <1>4 DEF Outstanding, is_active
  <2>2. SumFunction(Dues(y)) = SumFunction(Dues(x)) + Outstanding(y, d) - Outstanding(x, d)
    <3>1. x \in BookSet /\ PaidInTerm(x) /\ y \in BookSet /\ PaidInTerm(y)
      BY ONLY <1>1, <1>3, <1>6
    <3>2. DOMAIN y.deals = DOMAIN x.deals /\ d \in DOMAIN x.deals
      BY ONLY <1>2, <1>4, Zenon
    <3> QED  BY ONLY <2>1, <3>1, <3>2, DueMoves
  <2>3. Outstanding(y, d) = 0 /\ Outstanding(x, d) \in Nat
    BY <1>1, <1>2, <1>4, DueIsNat DEF Outstanding, is_active
  <2>4. PICK op : op = x.deals[d].operator
    OBVIOUS
  <2>5. op \in Payers /\ x.balance \in [Payers -> Nat]
    BY ONLY <1>1, <1>2, <2>4, DealFields, BookFields
  <2>6. PICK v \in Nat : v <= x.balance[op] /\ y.balance = [x.balance EXCEPT ![op] = v]
    BY ONLY <1>0, <2>4, Zenon DEF SlashedBooks
  <2>7. SumFunction(y.balance) = SumFunction(x.balance) + v - x.balance[op]
    BY ONLY <2>5, <2>6, BalanceMoves
  <2>8. SumFunction(x.balance) \in Nat /\ SumFunction(Dues(x)) \in Nat
        /\ x.balance[op] \in Nat
    BY ONLY <1>1, <2>5, BalancesSum, DuesSum
  <2> QED  BY ONLY <2>2, <2>3, <2>6, <2>7, <2>8 DEF Worth
<1>14. Worth(y) <= Supply
  <2>1. Worth(x) \in Int /\ Worth(y) \in Int /\ Worth(x) <= Supply
    BY ONLY <1>1, <1>3, <1>6, BookInv(x), BookFields, BalancesSum, DuesSum DEF BookInv, Worth
  <2> QED  BY ONLY <1>13, <2>1, SupplyNat
<1>15. BookInv(y)
    BY ONLY <1>3, <1>6, <1>7, <1>11, <1>12, <1>14 DEF BookInv
<1>16. c \in Guilty(y, d)
    BY ONLY <1>9
<1> QED  BY ONLY <1>2, <1>3, <1>4, <1>5, <1>15, <1>16

\* The term of a deal ends: the bond it was owed goes back.
LEMMA ExpiredStep ==
    ASSUME NEW x, BookInv(x), NEW d \in DOMAIN x.deals, is_active(x, d),
           NEW y, y = Expired(x, d)
    PROVE  /\ BookInv(y) /\ y.challenges = x.challenges /\ y.results = x.results
           /\ y.reallocations = x.reallocations /\ y.next = x.next
           /\ DOMAIN y.deals = DOMAIN x.deals
           /\ y.deals[d].status = "Expired" /\ y.deals[d].shard = x.deals[d].shard
           /\ y.deals[d].replica_index = x.deals[d].replica_index
           /\ \A e \in DOMAIN x.deals : e # d => y.deals[e] = x.deals[e]
<1>1. x \in BookSet /\ PaidInTerm(x) /\ Linked(x) /\ Judged(x)
    BY DEF BookInv
<1>2. PICK op : op = x.deals[d].operator
    OBVIOUS
<1>3. op \in Payers /\ x.balance \in [Payers -> Nat]
    BY <1>1, <1>2, DealFields, BookFields
<1>4. PICK v : v = x.balance[op] + Bond
    OBVIOUS
<1>5. v \in Nat /\ x.balance[op] \in Nat
    BY <1>3, <1>4, Numbers
<1>6. PICK ds : ds = [x.deals EXCEPT ![d].status = "Expired"]
    OBVIOUS
<1>7. PICK bal : bal = [x.balance EXCEPT ![op] = v]
    OBVIOUS
<1>8. /\ y.deals = ds /\ y.challenges = x.challenges /\ y.results = x.results
      /\ y.reallocations = x.reallocations /\ y.next = x.next
      /\ y.cooldowns = x.cooldowns /\ y.paid = x.paid /\ y.balance = bal
      /\ y = [deals |-> y.deals, challenges |-> y.challenges, results |-> y.results,
              reallocations |-> y.reallocations, next |-> y.next,
              cooldowns |-> y.cooldowns, balance |-> y.balance, paid |-> y.paid]
  <2>1. PICK z : z = [x EXCEPT !.deals = ds]
    OBVIOUS
  <2>2. /\ z.deals = ds /\ z.challenges = x.challenges /\ z.results = x.results
        /\ z.reallocations = x.reallocations /\ z.next = x.next
        /\ z.cooldowns = x.cooldowns /\ z.paid = x.paid /\ z.balance = x.balance
        /\ z = [deals |-> z.deals, challenges |-> z.challenges, results |-> z.results,
                reallocations |-> z.reallocations, next |-> z.next,
                cooldowns |-> z.cooldowns, balance |-> z.balance, paid |-> z.paid]
    <3>1. x = [deals |-> x.deals, challenges |-> x.challenges, results |-> x.results,
               reallocations |-> x.reallocations, next |-> x.next,
               cooldowns |-> x.cooldowns, balance |-> x.balance, paid |-> x.paid]
      BY <1>1, BookFields
    <3> QED  BY ONLY <2>1, <3>1
  <2>3. z = [x EXCEPT !.deals[d].status = "Expired"]
    BY <1>6, <2>1
  <2>4. y = [z EXCEPT !.balance[op] = z.balance[op] + Bond]
    BY <1>2, <2>3 DEF Expired, Credit
  <2>5. y = [z EXCEPT !.balance = bal]
    BY <1>4, <1>7, <2>2, <2>4
  <2> QED  BY ONLY <2>2, <2>5
<1>9. /\ ds \in Listed(DealRecord) /\ DOMAIN ds = DOMAIN x.deals
      /\ ds[d].status = "Expired" /\ ds[d].shard = x.deals[d].shard
      /\ ds[d].replica_index = x.deals[d].replica_index
      /\ ds[d].start = x.deals[d].start /\ ds[d].end = x.deals[d].end
      /\ \A e \in DOMAIN x.deals : e # d => ds[e] = x.deals[e]
  <2>1. x.deals \in Listed(DealRecord)
    BY <1>1, BookFields
  <2> QED  BY <1>6, <2>1, StatusSet
<1>10. y \in BookSet
  <2>1. bal \in [Payers -> Nat]
    BY <1>3, <1>5, <1>7
  <2> QED  BY <1>1, <1>8, <1>9, <2>1, BookFields, BookIntro
<1>11. PaidInTerm(y)
  <2>1. \A e \in DOMAIN x.deals : ds[e].start = x.deals[e].start
                                  /\ ds[e].end = x.deals[e].end
    BY <1>9
  <2> QED  BY ONLY <1>1, <1>8, <1>9, <2>1 DEF PaidInTerm
<1>12. Linked(y)
    BY <1>1, <1>8, <1>9 DEF Linked
<1>13. Judged(y)
  <2>1. \A e : Guilty(y, e) = Guilty(x, e)
    BY <1>8 DEF Guilty
  <2>2. \A e \in DOMAIN x.deals : y.deals[e].status = "Slashed" <=> x.deals[e].status = "Slashed"
    BY <1>8, <1>9 DEF is_active
  <2>3. Judged(x) /\ DOMAIN y.deals = DOMAIN x.deals
    BY <1>1, <1>8, <1>9
  <2> QED  BY ONLY <2>1, <2>2, <2>3, SameJudged
<1>14. TicketsNumbered(y)
    BY <1>8 DEF BookInv, TicketsNumbered
<1>15. Worth(y) <= Worth(x)
  <2>1. \A e \in DOMAIN x.deals : e # d => Outstanding(y, e) = Outstanding(x, e)
    BY <1>8, <1>9 DEF Outstanding, is_active
  <2>2. SumFunction(Dues(y)) = SumFunction(Dues(x)) + Outstanding(y, d) - Outstanding(x, d)
    <3>1. x \in BookSet /\ PaidInTerm(x) /\ y \in BookSet /\ PaidInTerm(y)
      BY <1>1, <1>10, <1>11
    <3>2. DOMAIN y.deals = DOMAIN x.deals /\ d \in DOMAIN x.deals
      BY <1>6, <1>8, <1>9
    <3> QED  BY ONLY <2>1, <3>1, <3>2, DueMoves
  <2>3. Outstanding(y, d) = 0
    BY <1>8, <1>9 DEF Outstanding, is_active
  <2>4. Outstanding(x, d) \in Nat /\ Outstanding(x, d) >= Bond
    <3>1. PICK f, g : /\ f = total_fee(x.deals[d].end - x.deals[d].start)
                      /\ g = total_fee(x.paid[d] - x.deals[d].start)
      OBVIOUS
    <3>2. f \in Nat /\ g \in Nat /\ g <= f /\ Outstanding(x, d) \in Nat
      BY <1>1, <3>1, DueIsNat
    <3>3. Outstanding(x, d) = Bond + f - g
      BY <3>1 DEF Outstanding
    <3> QED  BY <3>2, <3>3, Numbers
  <2>5. SumFunction(bal) = SumFunction(x.balance) + v - x.balance[op]
    BY <1>3, <1>5, <1>7, BalanceMoves
  <2>6. SumFunction(x.balance) \in Nat /\ SumFunction(Dues(x)) \in Nat
    BY <1>1, <1>3, BalancesSum, DuesSum
  <2> QED  BY <1>4, <1>5, <1>8, <2>2, <2>3, <2>4, <2>5, <2>6, Numbers DEF Worth
<1>16. Worth(y) <= Supply
  <2>1. Worth(x) \in Int /\ Worth(y) \in Int /\ Worth(x) <= Supply
    BY <1>1, <1>10, <1>11, BookFields, BalancesSum, DuesSum DEF BookInv, Worth
  <2> QED  BY <1>15, <2>1, SupplyNat
<1>17. BookInv(y)
    BY <1>10, <1>11, <1>12, <1>13, <1>14, <1>16 DEF BookInv
<1> QED  BY <1>8, <1>9, <1>17

\* A balance goes down.
LEMMA DebitStep ==
    ASSUME NEW x, BookInv(x), NEW a \in Payers, NEW amount \in Nat,
           amount <= x.balance[a], NEW y, y = Debit(x, a, amount)
    PROVE  /\ BookInv(y) /\ Worth(y) = Worth(x) - amount
           /\ y.deals = x.deals /\ y.challenges = x.challenges /\ y.results = x.results
           /\ y.reallocations = x.reallocations /\ y.next = x.next
           /\ Worth(x) \in Nat /\ y.balance \in [Payers -> Nat]
<1>1. x \in BookSet /\ PaidInTerm(x) /\ Linked(x) /\ Judged(x) /\ TicketsNumbered(x)
    BY DEF BookInv
<1>2. x.balance \in [Payers -> Nat]
    BY <1>1, BookFields
<1>3. PICK v : v = x.balance[a] - amount
    OBVIOUS
<1>4. v \in Nat /\ x.balance[a] \in Nat
    BY <1>2, <1>3
<1>5. y = [x EXCEPT !.balance[a] = v]
    BY <1>3 DEF Debit
<1>6. /\ y.deals = x.deals /\ y.challenges = x.challenges /\ y.results = x.results
      /\ y.reallocations = x.reallocations /\ y.next = x.next
      /\ y.cooldowns = x.cooldowns /\ y.paid = x.paid
      /\ y.balance = [x.balance EXCEPT ![a] = v]
      /\ y = [deals |-> y.deals, challenges |-> y.challenges, results |-> y.results,
              reallocations |-> y.reallocations, next |-> y.next,
              cooldowns |-> y.cooldowns, balance |-> y.balance, paid |-> y.paid]
    BY <1>1, <1>5, WithBalance
<1>7. y.balance \in [Payers -> Nat]
    BY <1>2, <1>4, <1>6
<1>8. y \in BookSet
    BY <1>1, <1>6, <1>7, BookFields, BookIntro
<1>9. PaidInTerm(y) /\ Linked(y) /\ TicketsNumbered(y)
    BY <1>1, <1>6 DEF PaidInTerm, Linked, TicketsNumbered
<1>10. Judged(y)
  <2>1. \A d : Guilty(y, d) = Guilty(x, d)
    BY <1>6 DEF Guilty
  <2>2. Judged(x) /\ y.deals = x.deals
    BY <1>1, <1>6
  <2> QED  BY ONLY <2>1, <2>2, SameJudged
<1>11. SumFunction(Dues(y)) = SumFunction(Dues(x))
  <2>1. \A e \in DOMAIN x.deals : Outstanding(y, e) = Outstanding(x, e)
    BY <1>6 DEF Outstanding, is_active
  <2> QED  BY <1>1, <1>6, <1>8, <1>9, <2>1, DuesSame
<1>12. SumFunction(y.balance) = SumFunction(x.balance) + v - x.balance[a]
    BY <1>2, <1>4, <1>6, BalanceMoves
<1>13. SumFunction(x.balance) \in Nat /\ SumFunction(Dues(x)) \in Nat
    BY <1>1, <1>2, BalancesSum, DuesSum
<1>14. Worth(y) = Worth(x) - amount /\ Worth(x) \in Nat
    BY <1>3, <1>4, <1>11, <1>12, <1>13 DEF Worth
<1>15. BookInv(y)
  <2>1. Worth(x) <= Supply
    BY DEF BookInv
  <2>2. Worth(y) <= Supply
    BY <1>14, <2>1, SupplyNat
  <2> QED  BY <1>8, <1>9, <1>10, <2>2 DEF BookInv
<1> QED  BY <1>3, <1>6, <1>7, <1>14, <1>15

-----------------------------------------------------------------------------
(* New deals, challenges and answers.                                      *)

\* A deal is opened once its fee and its bond have been taken.
LEMMA DealOpened ==
    ASSUME NEW x, BookInv(x), NEW s \in Shards, NEW op \in Operators,
           NEW i \in Slots \cup {0}, NEW term, term[1] \in Nat, term[2] \in Nat,
           term[1] < term[2],
           Worth(x) + Bond + total_fee(term[2] - term[1]) <= Supply,
           NEW y, y = open_deal(x, s, op, i, term), NEW d, d = Cardinality(DOMAIN x.deals)
    PROVE  /\ BookInv(y) /\ y.challenges = x.challenges /\ y.results = x.results
           /\ y.reallocations = x.reallocations /\ y.next = x.next
           /\ d \notin DOMAIN x.deals /\ DOMAIN y.deals = DOMAIN x.deals \cup {d}
           /\ y.deals[d].status = "Active" /\ y.deals[d].shard = s
           /\ y.deals[d].replica_index = i
           /\ \A e \in DOMAIN x.deals : y.deals[e] = x.deals[e]
<1>1. x \in BookSet /\ PaidInTerm(x) /\ Linked(x) /\ Judged(x) /\ TicketsNumbered(x)
    BY DEF BookInv
<1>2. PICK deal : deal = [shard |-> s, operator |-> op, replica_index |-> i,
                          start |-> term[1], end |-> term[2], status |-> "Active"]
    OBVIOUS
<1>3. /\ deal \in DealRecord /\ deal.status = "Active" /\ deal.shard = s
      /\ deal.replica_index = i /\ deal.start = term[1] /\ deal.end = term[2]
    BY <1>2 DEF DealRecord
<1>4. PICK ds, ps : ds = Enter(x.deals, d, deal) /\ ps = Enter(x.paid, d, term[1])
    OBVIOUS
<1>5. /\ y.deals = ds /\ y.challenges = x.challenges /\ y.results = x.results
      /\ y.reallocations = x.reallocations /\ y.next = x.next
      /\ y.cooldowns = x.cooldowns /\ y.paid = ps /\ y.balance = x.balance
      /\ y = [deals |-> y.deals, challenges |-> y.challenges, results |-> y.results,
              reallocations |-> y.reallocations, next |-> y.next,
              cooldowns |-> y.cooldowns, balance |-> y.balance, paid |-> y.paid]
  <2>1. y = [x EXCEPT !.deals = ds, !.paid = ps]
    BY <1>2, <1>4 DEF open_deal
  <2>2. x = [deals |-> x.deals, challenges |-> x.challenges, results |-> x.results,
             reallocations |-> x.reallocations, next |-> x.next,
             cooldowns |-> x.cooldowns, balance |-> x.balance, paid |-> x.paid]
    BY <1>1, BookFields
  <2> QED  BY ONLY <2>1, <2>2
<1>6. x.deals \in Listed(DealRecord) /\ x.paid \in Listed(Nat)
      /\ DOMAIN x.paid = DOMAIN x.deals
    BY <1>1, BookFields DEF PaidInTerm
<1>7. ds \in Listed(DealRecord) /\ d \in Nat /\ d \notin DOMAIN x.deals
    BY <1>3, <1>4, <1>6, PutListed
<1>8. ps \in Listed(Nat)
    BY <1>4, <1>6, PutListed
<1>9. /\ DOMAIN ds = DOMAIN x.deals \cup {d} /\ DOMAIN ps = DOMAIN x.deals \cup {d}
      /\ ds[d] = deal /\ ps[d] = term[1]
      /\ \A e \in DOMAIN x.deals : ds[e] = x.deals[e] /\ ps[e] = x.paid[e]
    BY <1>4, <1>6, <1>7 DEF Enter
<1>10. y \in BookSet
    BY <1>1, <1>5, <1>7, <1>8, BookFields, BookIntro
<1>11. PaidInTerm(y)
    BY <1>1, <1>3, <1>5, <1>9 DEF PaidInTerm
<1>12. Linked(y) /\ TicketsNumbered(y)
    BY <1>1, <1>5, <1>9 DEF Linked, TicketsNumbered
<1>13. Judged(y)
  <2>1. \A e : Guilty(y, e) = Guilty(x, e)
    BY <1>5 DEF Guilty
  <2>2. Guilty(x, d) = {}
    BY <1>1, <1>7 DEF Guilty, Linked
  <2>3. ASSUME NEW e \in DOMAIN y.deals
        PROVE  IF y.deals[e].status = "Slashed" THEN \E k : Guilty(y, e) = {k}
                                                ELSE Guilty(y, e) = {}
    <3>1. CASE e = d
      BY <1>3, <1>5, <1>9, <2>1, <2>2, <3>1
    <3>2. CASE e # d
      <4>1. e \in DOMAIN x.deals /\ y.deals[e] = x.deals[e]
        BY <1>5, <1>9, <3>2
      <4> QED  BY <1>1, <2>1, <4>1 DEF Judged
    <3> QED  BY <3>1, <3>2
  <2> QED  BY <2>3 DEF Judged
<1>14. Worth(y) <= Supply
  <2>1. \A e \in DOMAIN x.deals : Outstanding(y, e) = Outstanding(x, e)
    BY <1>5, <1>9 DEF Outstanding, is_active
  <2>2. SumFunction(Dues(y)) = SumFunction(Dues(x)) + Outstanding(y, d)
    BY <1>1, <1>5, <1>7, <1>9, <1>10, <1>11, <2>1, DueAdded
  <2>3. Outstanding(y, d) = Bond + total_fee(term[2] - term[1]) - total_fee(term[1] - term[1])
    BY <1>3, <1>5, <1>9 DEF Outstanding, is_active
  <2>4. term[1] - term[1] = 0
    OBVIOUS
  <2>5. total_fee(term[2] - term[1]) \in Nat
    <3>1. PICK k : k = term[2] - term[1]
      OBVIOUS
    <3>2. k \in Nat
      BY <3>1
    <3> QED  BY <3>1, <3>2, FeeGrows
  <2>6. Outstanding(y, d) = Bond + total_fee(term[2] - term[1])
    BY <2>3, <2>4, <2>5, NoFee, Numbers
  <2>7. SumFunction(x.balance) \in Nat /\ SumFunction(Dues(x)) \in Nat
    BY <1>1, BookFields, BalancesSum, DuesSum
  <2> QED  BY <1>5, <2>2, <2>5, <2>6, <2>7, SupplyNat, Numbers DEF Worth
<1>15. BookInv(y)
    BY <1>10, <1>11, <1>12, <1>13, <1>14 DEF BookInv
<1> QED  BY <1>3, <1>5, <1>7, <1>9, <1>15

\* The books after both debits of a placement that can be paid for.
LEMMA EscrowedStep ==
    ASSUME NEW x, BookInv(x), NEW op \in Operators, NEW payer \in Payers, NEW term,
           term[1] \in Nat, term[2] \in Nat, term[1] < term[2],
           x.balance[payer] >= total_fee(term[2] - term[1]),
           Debit(x, payer, total_fee(term[2] - term[1])).balance[op] >= Bond,
           NEW y, y = Escrowed(x, op, payer, term)
    PROVE  /\ BookInv(y)
           /\ Worth(y) + Bond + total_fee(term[2] - term[1]) <= Supply
           /\ y.deals = x.deals /\ y.challenges = x.challenges /\ y.results = x.results
           /\ y.reallocations = x.reallocations /\ y.next = x.next
<1>1. PICK fee : fee = total_fee(term[2] - term[1])
    OBVIOUS
<1>2. fee \in Nat
  <2>1. PICK k : k = term[2] - term[1]
    OBVIOUS
  <2>2. k \in Nat
    BY <2>1
  <2> QED  BY <1>1, <2>1, <2>2, FeeGrows
<1>3. PICK z : z = Debit(x, payer, fee)
    OBVIOUS
<1>4. x.balance[payer] \in Nat
    BY BookFields DEF BookInv
<1>5. /\ BookInv(z) /\ Worth(z) = Worth(x) - fee /\ Worth(x) \in Nat
      /\ z.deals = x.deals /\ z.challenges = x.challenges /\ z.results = x.results
      /\ z.reallocations = x.reallocations /\ z.next = x.next
      /\ z.balance \in [Payers -> Nat]
  <2>1. fee <= x.balance[payer]
    BY <1>1, <1>2, <1>4
  <2> QED  BY ONLY BookInv(x), payer \in Payers, <1>2, <1>3, <2>1, DebitStep
<1>6. op \in Payers
    BY DEF Payers
<1>7. Bond <= z.balance[op] /\ Bond \in Nat
    BY <1>1, <1>3, <1>5, <1>6, Numbers
<1>8. y = Debit(z, op, Bond)
    BY <1>1, <1>3 DEF Escrowed
<1>9. /\ BookInv(y) /\ Worth(y) = Worth(z) - Bond
      /\ y.deals = z.deals /\ y.challenges = z.challenges /\ y.results = z.results
      /\ y.reallocations = z.reallocations /\ y.next = z.next
    BY ONLY <1>5, <1>6, <1>7, <1>8, DebitStep
<1>10. Worth(x) <= Supply
    BY DEF BookInv
<1>11. Worth(y) + Bond + fee <= Supply
    BY <1>2, <1>5, <1>7, <1>9, <1>10, SupplyNat
<1> QED  BY <1>1, <1>5, <1>9, <1>11

\* A ticket is settled by a deal.
LEMMA TicketSettled ==
    ASSUME NEW x, BookInv(x), NEW t \in DOMAIN x.reallocations, NEW r \in TicketRecord,
           r.failed_deal_id = x.reallocations[t].failed_deal_id,
           r.cause = x.reallocations[t].cause,
           NEW y, y = [x EXCEPT !.reallocations = [x.reallocations EXCEPT ![t] = r]]
    PROVE  /\ BookInv(y) /\ y.deals = x.deals
           /\ y.challenges = x.challenges /\ y.results = x.results
           /\ DOMAIN y.reallocations = DOMAIN x.reallocations
           /\ y.reallocations[t] = r
           /\ \A u \in DOMAIN x.reallocations : u # t =>
                 y.reallocations[u] = x.reallocations[u]
<1>1. x \in BookSet /\ TicketsNumbered(x)
    BY DEF BookInv
<1>2. x.reallocations \in Keyed(TicketRecord)
    BY <1>1, BookFields
<1>3. PICK f : f = [x.reallocations EXCEPT ![t] = r]
    OBVIOUS
<1>4. [x.reallocations EXCEPT ![t] = r] \in Keyed(TicketRecord)
    BY ONLY <1>2, UpdateKeyed, t \in DOMAIN x.reallocations, r \in TicketRecord
<1>5. y = [x EXCEPT !.reallocations = f]
    BY <1>3
<1>6. /\ y.deals = x.deals /\ y.challenges = x.challenges /\ y.results = x.results
      /\ y.reallocations = f /\ y.next = x.next
      /\ y.cooldowns = x.cooldowns /\ y.paid = x.paid /\ y.balance = x.balance
      /\ y = [deals |-> y.deals, challenges |-> y.challenges, results |-> y.results,
              reallocations |-> y.reallocations, next |-> y.next,
              cooldowns |-> y.cooldowns, balance |-> y.balance, paid |-> y.paid]
  <2>1. x = [deals |-> x.deals, challenges |-> x.challenges, results |-> x.results,
             reallocations |-> x.reallocations, next |-> x.next,
             cooldowns |-> x.cooldowns, balance |-> x.balance, paid |-> x.paid]
    BY <1>1, BookFields
  <2> QED  BY ONLY <1>5, <2>1
<1>7. /\ DOMAIN f = DOMAIN x.reallocations /\ f[t] = r
      /\ \A u \in DOMAIN x.reallocations : u # t => f[u] = x.reallocations[u]
    BY <1>3
<1>8. y \in BookSet
  <2>1. f \in Keyed(TicketRecord)
    BY <1>3, <1>4
  <2> QED  BY <1>1, <1>6, <2>1, BookFields, BookIntro
<1>9. TicketsNumbered(y)
    BY <1>1, <1>6, <1>7 DEF TicketsNumbered
<1>10. BookInv(y)
    BY <1>6, <1>8, <1>9, OnlyTickets
<1> QED  BY <1>6, <1>7, <1>10

\* A ticket is accepted: the deal that replaces the lost one is on its slot.
LEMMA AcceptedStep ==
    ASSUME NEW x, BookInv(x), NEW t \in DOMAIN x.reallocations, NEW op \in Operators,
           NEW term, term[1] \in Nat, term[2] \in Nat, term[1] < term[2],
           Worth(x) + Bond + total_fee(term[2] - term[1]) <= Supply,
           NEW y, y = accept_reallocation_ticket(x, t, op, term),
           NEW d, d = Cardinality(DOMAIN x.deals)
    PROVE  /\ BookInv(y) /\ y.challenges = x.challenges /\ y.results = x.results
           /\ DOMAIN y.reallocations = DOMAIN x.reallocations
           /\ \A u \in DOMAIN x.reallocations : u # t =>
                 y.reallocations[u] = x.reallocations[u]
           /\ y.reallocations[t].replacement = d
           /\ d \notin DOMAIN x.deals /\ DOMAIN y.deals = DOMAIN x.deals \cup {d}
           /\ y.deals[d].status = "Active"
           /\ y.deals[d].shard = y.reallocations[t].shard
           /\ y.deals[d].replica_index = y.reallocations[t].replica_index
           /\ \A e \in DOMAIN x.deals : y.deals[e] = x.deals[e]
<1>1. x \in BookSet
    BY DEF BookInv
<1>2. PICK ticket : ticket = x.reallocations[t]
    OBVIOUS
<1>3. ticket \in TicketRecord
    BY <1>1, <1>2, BookFields, KeyedFacts
<1>4. /\ ticket.shard \in Shards /\ ticket.replica_index \in Slots \cup {0}
      /\ ticket.opened \in Nat
    BY <1>3 DEF TicketRecord
<1>5. PICK z : z = open_deal(x, ticket.shard, op, ticket.replica_index, term)
    OBVIOUS
<1>6. /\ BookInv(z) /\ z.challenges = x.challenges /\ z.results = x.results
      /\ z.reallocations = x.reallocations
      /\ d \notin DOMAIN x.deals /\ DOMAIN z.deals = DOMAIN x.deals \cup {d}
      /\ z.deals[d].status = "Active" /\ z.deals[d].shard = ticket.shard
      /\ z.deals[d].replica_index = ticket.replica_index
      /\ \A e \in DOMAIN x.deals : z.deals[e] = x.deals[e]
    BY <1>4, <1>5, DealOpened
<1>7. PICK at : at = Max({term[1], ticket.opened})
    OBVIOUS
<1>8. at \in Int /\ d \in Int
  <2>1. term[1] \in Int /\ ticket.opened \in Int
    BY <1>4
  <2>2. at \in {term[1], ticket.opened}
    BY ONLY <1>7, <2>1, MaxOfTwo
  <2>3. d \in Nat
    BY <1>1, BookFields, ListedFacts
  <2> QED  BY <2>1, <2>2, <2>3
<1>9. PICK r : r = [ticket EXCEPT !.status = "ActiveReplacement", !.replacement = d,
                                  !.settled = at]
    OBVIOUS
<1>10. /\ r \in TicketRecord /\ r.failed_deal_id = ticket.failed_deal_id
       /\ r.cause = ticket.cause /\ r.replacement = d /\ r.shard = ticket.shard
       /\ r.replica_index = ticket.replica_index
    BY <1>3, <1>8, <1>9 DEF TicketRecord
<1>11. y = [z EXCEPT !.reallocations = [z.reallocations EXCEPT ![t] = r]]
  <2>1. y = [z EXCEPT !.reallocations[t] =
                [z.reallocations[t] EXCEPT !.status = "ActiveReplacement",
                     !.replacement = Cardinality(DOMAIN x.deals),
                     !.settled = Max({term[1], ticket.opened})]]
    BY <1>2, <1>5 DEF accept_reallocation_ticket
  <2>2. y = [z EXCEPT !.reallocations[t] = r]
    BY <1>2, <1>6, <1>7, <1>9, <2>1
  <2> QED  BY <2>2
<1>12. /\ BookInv(y) /\ y.deals = z.deals
       /\ y.challenges = z.challenges /\ y.results = z.results
       /\ DOMAIN y.reallocations = DOMAIN z.reallocations
       /\ y.reallocations[t] = r
       /\ \A u \in DOMAIN z.reallocations : u # t => y.reallocations[u] = z.reallocations[u]
  <2>1. t \in DOMAIN z.reallocations /\ r.failed_deal_id = z.reallocations[t].failed_deal_id
        /\ r.cause = z.reallocations[t].cause
    BY <1>2, <1>6, <1>10
  <2> QED  BY <1>6, <1>10, <1>11, <2>1, TicketSettled
<1> QED  BY <1>6, <1>10, <1>12

\* A challenge is opened against a deal, and nothing else moves.
LEMMA ChallengeStep ==
    ASSUME NEW x, BookInv(x), NEW d \in DOMAIN x.deals, NEW from \in Nat,
           NEW deadline \in Nat, NEW y, y = open_challenge(x, d, from, deadline)
    PROVE  /\ BookInv(y) /\ y.deals = x.deals /\ y.results = x.results
           /\ y.reallocations = x.reallocations
<1>1. x \in BookSet /\ PaidInTerm(x) /\ Linked(x) /\ Judged(x) /\ TicketsNumbered(x)
    BY DEF BookInv
<1>2. PICK k, v, cs : /\ k = Cardinality(DOMAIN x.challenges)
                      /\ v = [deal |-> d, from |-> from, deadline |-> deadline]
                      /\ cs = Enter(x.challenges, k, v)
    OBVIOUS
<1>3. v \in ChallengeRecord /\ v.deal = d
  <2>1. d \in Nat
    BY <1>1, DealFields
  <2> QED  BY <1>2, <2>1 DEF ChallengeRecord
<1>4. x.challenges \in Listed(ChallengeRecord) /\ x.results \in Keyed(Outcome)
    BY <1>1, BookFields
<1>5. cs \in Listed(ChallengeRecord) /\ k \notin DOMAIN x.challenges
    BY <1>2, <1>3, <1>4, PutListed
<1>6. /\ DOMAIN cs = DOMAIN x.challenges \cup {k} /\ cs[k] = v
      /\ \A c \in DOMAIN x.challenges : cs[c] = x.challenges[c]
    BY <1>2, <1>5 DEF Enter
<1>7. /\ y.deals = x.deals /\ y.challenges = cs /\ y.results = x.results
      /\ y.reallocations = x.reallocations /\ y.next = x.next
      /\ y.cooldowns = x.cooldowns /\ y.paid = x.paid /\ y.balance = x.balance
      /\ y = [deals |-> y.deals, challenges |-> y.challenges, results |-> y.results,
              reallocations |-> y.reallocations, next |-> y.next,
              cooldowns |-> y.cooldowns, balance |-> y.balance, paid |-> y.paid]
  <2>1. y = [x EXCEPT !.challenges = cs]
    BY <1>2 DEF open_challenge
  <2>2. x = [deals |-> x.deals, challenges |-> x.challenges, results |-> x.results,
             reallocations |-> x.reallocations, next |-> x.next,
             cooldowns |-> x.cooldowns, balance |-> x.balance, paid |-> x.paid]
    BY <1>1, BookFields
  <2> QED  BY ONLY <2>1, <2>2
<1>8. y \in BookSet
    BY <1>1, <1>5, <1>7, BookFields, BookIntro
<1>9. PaidInTerm(y) /\ TicketsNumbered(y)
    BY <1>1, <1>7 DEF PaidInTerm, TicketsNumbered
<1>10. Linked(y)
  <2>1. \A c \in DOMAIN y.challenges : y.challenges[c].deal \in DOMAIN y.deals
    BY <1>1, <1>3, <1>6, <1>7 DEF Linked
  <2> QED  BY <1>1, <1>6, <1>7, <2>1 DEF Linked
<1>11. \A e : Guilty(y, e) = Guilty(x, e)
  <2>1. \A c \in DOMAIN x.results : y.challenges[c] = x.challenges[c]
    BY <1>1, <1>6, <1>7 DEF Linked
  <2> QED  BY <1>7, <2>1 DEF Guilty
<1>12. Judged(y)
    BY <1>1, <1>7, <1>11 DEF Judged
<1>13. Worth(y) <= Supply
  <2>1. \A e \in DOMAIN x.deals : Outstanding(y, e) = Outstanding(x, e)
    BY <1>7 DEF Outstanding, is_active
  <2>2. SumFunction(Dues(y)) = SumFunction(Dues(x))
    BY <1>1, <1>7, <1>8, <1>9, <2>1, DuesSame
  <2> QED  BY <1>7, <2>2 DEF BookInv, Worth
<1> QED  BY <1>7, <1>8, <1>9, <1>10, <1>12, <1>13 DEF BookInv

\* A challenge is answered, and nothing else moves.
LEMMA AnswerStep ==
    ASSUME NEW x, BookInv(x), NEW c \in DOMAIN x.challenges, Open(x, c),
           NEW y, y = [x EXCEPT !.results = Enter(x.results, c, "Answered")]
    PROVE  /\ BookInv(y) /\ y.deals = x.deals /\ y.challenges = x.challenges
           /\ y.reallocations = x.reallocations
<1>1. x \in BookSet /\ PaidInTerm(x) /\ Linked(x) /\ Judged(x) /\ TicketsNumbered(x)
    BY DEF BookInv
<1>2. PICK rs : rs = Enter(x.results, c, "Answered")
    OBVIOUS
<1>3. rs \in Keyed(Outcome)
  <2>1. c \in Nat /\ x.results \in Keyed(Outcome) /\ "Answered" \in Outcome
    BY <1>1, BookFields, ListedFacts DEF Outcome
  <2> QED  BY ONLY <1>2, <2>1, PutKeyed
<1>4. /\ DOMAIN rs = DOMAIN x.results \cup {c} /\ rs[c] = "Answered"
      /\ c \notin DOMAIN x.results
      /\ \A k \in DOMAIN x.results : rs[k] = x.results[k]
    BY <1>2 DEF Enter, Open
<1>5. /\ y.deals = x.deals /\ y.challenges = x.challenges /\ y.results = rs
      /\ y.reallocations = x.reallocations /\ y.next = x.next
      /\ y.cooldowns = x.cooldowns /\ y.paid = x.paid /\ y.balance = x.balance
      /\ y = [deals |-> y.deals, challenges |-> y.challenges, results |-> y.results,
              reallocations |-> y.reallocations, next |-> y.next,
              cooldowns |-> y.cooldowns, balance |-> y.balance, paid |-> y.paid]
  <2>1. y = [x EXCEPT !.results = rs]
    BY <1>2
  <2>2. x = [deals |-> x.deals, challenges |-> x.challenges, results |-> x.results,
             reallocations |-> x.reallocations, next |-> x.next,
             cooldowns |-> x.cooldowns, balance |-> x.balance, paid |-> x.paid]
    BY <1>1, BookFields
  <2> QED  BY ONLY <2>1, <2>2
<1>6. y \in BookSet
    BY <1>1, <1>3, <1>5, BookFields, BookIntro
<1>7. PaidInTerm(y) /\ TicketsNumbered(y) /\ Linked(y)
    BY <1>1, <1>4, <1>5 DEF PaidInTerm, TicketsNumbered, Linked
<1>8. \A e : Guilty(y, e) = Guilty(x, e)
    BY <1>4, <1>5 DEF Guilty
<1>9. Judged(y)
  <2> USE DEF Judged
  <2> QED  BY ONLY <1>1, <1>5, <1>8
<1>10. Worth(y) <= Supply
  <2>1. \A e \in DOMAIN x.deals : Outstanding(y, e) = Outstanding(x, e)
    BY <1>5 DEF Outstanding, is_active
  <2>2. SumFunction(Dues(y)) = SumFunction(Dues(x))
    BY <1>1, <1>5, <1>6, <1>7, <2>1, DuesSame
  <2> QED  BY <1>5, <2>2 DEF BookInv, Worth
<1> QED  BY <1>5, <1>6, <1>7, <1>9, <1>10 DEF BookInv

-----------------------------------------------------------------------------
(* The maintenance after a block, step by step: x is reached from the      *)
(* books b at the start of the block.                                      *)

\* Deals keep their ids and shards, and one that has ended stays as it ended.
DealsKept(b, x) ==
    /\ DOMAIN x.deals = DOMAIN b.deals
    /\ \A d \in DOMAIN b.deals :
          /\ x.deals[d].shard = b.deals[d].shard
          /\ ~is_active(b, d) => x.deals[d].status = b.deals[d].status

\* No ticket changes; the new ones wait.
TicketsKept(b, x) ==
    /\ DOMAIN b.reallocations \subseteq DOMAIN x.reallocations
    /\ \A t \in DOMAIN b.reallocations : x.reallocations[t] = b.reallocations[t]
    /\ \A t \in DOMAIN x.reallocations :
          t \notin DOMAIN b.reallocations => Waiting(x.reallocations[t])

NoGap(b, x, d) == is_active(b, d) => is_active(x, d) \/ Ticketed(x, d)

Follows(b, x) ==
    BookInv(x) /\ DealsKept(b, x) /\ TicketsKept(b, x)
      /\ \A d \in DOMAIN b.deals : NoGap(b, x, d)

LEMMA FollowsItself == ASSUME NEW b, BookInv(b) PROVE Follows(b, b)
BY DEF Follows, DealsKept, TicketsKept, NoGap

LEMMA FollowsSame ==
    ASSUME NEW b, NEW x, Follows(b, x), NEW y, BookInv(y), y.deals = x.deals,
           y.reallocations = x.reallocations
    PROVE  Follows(b, y)
<1>1. DealsKept(b, y) /\ TicketsKept(b, y)
    BY DEF Follows, DealsKept, TicketsKept
<1>2. \A d : is_active(y, d) <=> is_active(x, d)
    BY DEF is_active
<1>3. \A d : Ticketed(y, d) <=> Ticketed(x, d)
    BY DEF Ticketed
<1> QED  BY <1>1, <1>2, <1>3 DEF Follows, NoGap

\* A new ticket that waits leaves no new gap.
LEMMA FollowsOpened ==
    ASSUME NEW b, NEW x, BookInv(x), DealsKept(b, x), TicketsKept(b, x),
           NEW failed \in Nat, NEW cause \in {"FailedDeal", "NeverPlaced"},
           cause = "NeverPlaced" => failed = 0, NEW s \in Shards, NEW i \in Slots \cup {0},
           NEW barred \in Operators \cup {NoOperator}, NEW now \in Nat,
           NEW y, y = OpenTicket(x, failed, cause, s, i, barred, now)
    PROVE  /\ BookInv(y) /\ DealsKept(b, y) /\ TicketsKept(b, y)
           /\ y.deals = x.deals /\ y.challenges = x.challenges
           /\ cause = "FailedDeal" => Ticketed(y, failed)
           /\ \A d : NoGap(b, x, d) => NoGap(b, y, d)
<1>1. /\ BookInv(y) /\ y.deals = x.deals /\ y.challenges = x.challenges
      /\ DOMAIN y.reallocations = DOMAIN x.reallocations \cup {x.next}
      /\ x.next \notin DOMAIN x.reallocations
      /\ \A t \in DOMAIN x.reallocations : y.reallocations[t] = x.reallocations[t]
      /\ y.reallocations[x.next].status = "Pending"
      /\ y.reallocations[x.next].failed_deal_id = failed
      /\ y.reallocations[x.next].cause = cause
  <2>1. TicketAdded(y, x, failed, cause)
    BY TicketOpened
  <2> QED  BY <2>1 DEF TicketAdded
<1>2. DealsKept(b, y)
    BY <1>1 DEF DealsKept
<1>3. TicketsKept(b, y)
  <2>1. ASSUME NEW t \in DOMAIN y.reallocations, t \notin DOMAIN b.reallocations
        PROVE  Waiting(y.reallocations[t])
    <3>1. CASE t = x.next
      BY <1>1, <3>1 DEF Waiting
    <3>2. CASE t # x.next
      BY <1>1, <2>1, <3>2 DEF TicketsKept
    <3> QED  BY <3>1, <3>2
  <2> QED  BY <1>1, <2>1 DEF TicketsKept
<1>4. cause = "FailedDeal" => Ticketed(y, failed)
    BY <1>1 DEF Ticketed
<1>5. \A d : Ticketed(x, d) => Ticketed(y, d)
    BY <1>1 DEF Ticketed
<1>6. \A d : is_active(y, d) <=> is_active(x, d)
    BY <1>1 DEF is_active
<1> QED  BY <1>1, <1>2, <1>3, <1>4, <1>5, <1>6 DEF NoGap

\* A deal gets its ticket, or has had one.
LEMMA FollowsTicketed ==
    ASSUME NEW b, NEW x, BookInv(x), DealsKept(b, x), TicketsKept(b, x),
           NEW d \in DOMAIN x.deals,
           \A e \in DOMAIN b.deals : e # d => NoGap(b, x, e),
           NEW barred \in Operators \cup {NoOperator}, NEW now \in Nat,
           NEW y, y = TicketForDeal(x, d, barred, now)
    PROVE  Follows(b, y) /\ y.deals = x.deals /\ y.challenges = x.challenges
<1>1. x \in BookSet
    BY DEF BookInv
<1>2. CASE \E t \in DOMAIN x.reallocations : x.reallocations[t].failed_deal_id = d
  <2>1. y = x
    BY <1>2 DEF TicketForDeal
  <2>2. Ticketed(x, d)
    <3>1. PICK t \in DOMAIN x.reallocations : x.reallocations[t].failed_deal_id = d
      BY <1>2
    <3>2. x.reallocations[t].cause \in {"FailedDeal", "NeverPlaced"}
      <4>1. x.reallocations[t] \in TicketRecord
        BY <1>1, BookFields, KeyedFacts
      <4> QED  BY <4>1 DEF TicketRecord
    <3>3. x.reallocations[t].cause = "NeverPlaced" => d = 0
      BY <3>1 DEF BookInv, TicketsNumbered
    <3> QED  BY <3>1, <3>2, <3>3 DEF Ticketed
  <2> QED  BY <2>1, <2>2 DEF Follows, NoGap
<1>3. CASE ~\E t \in DOMAIN x.reallocations : x.reallocations[t].failed_deal_id = d
  <2>1. y = OpenTicket(x, d, "FailedDeal", x.deals[d].shard, x.deals[d].replica_index,
                       barred, now)
    BY <1>3 DEF TicketForDeal
  <2>2. d \in Nat /\ x.deals[d].shard \in Shards /\ x.deals[d].replica_index \in Slots \cup {0}
    BY <1>1, DealFields
  <2>3. PICK s, i : s = x.deals[d].shard /\ i = x.deals[d].replica_index
    OBVIOUS
  <2>4. /\ BookInv(y) /\ DealsKept(b, y) /\ TicketsKept(b, y)
        /\ y.deals = x.deals /\ y.challenges = x.challenges
        /\ Ticketed(y, d)
        /\ \A e : NoGap(b, x, e) => NoGap(b, y, e)
    <3>1. /\ y = OpenTicket(x, d, "FailedDeal", s, i, barred, now)
          /\ d \in Nat /\ s \in Shards /\ i \in Slots \cup {0}
          /\ barred \in Operators \cup {NoOperator} /\ now \in Nat
      BY <2>1, <2>2, <2>3
    <3>2. BookInv(x) /\ DealsKept(b, x) /\ TicketsKept(b, x)
      OBVIOUS
    <3> QED  BY ONLY <3>1, <3>2, FollowsOpened
  <2> QED  BY <2>4 DEF Follows, NoGap
<1> QED  BY <1>2, <1>3

\* The deals that a step may slash, and the others.
SlashesOnly(b, x) ==
    \A d \in DOMAIN b.deals :
        x.deals[d].status = b.deals[d].status \/ x.deals[d].status = "Slashed"

LEMMA PayFollows ==
    ASSUME NEW b, NEW x, Follows(b, x), SlashesOnly(b, x), NEW d \in DOMAIN b.deals,
           NEW now \in Nat, NEW y, y = PayOperator(x, d, now)
    PROVE  Follows(b, y) /\ SlashesOnly(b, y)
<1>1. BookInv(x) /\ d \in DOMAIN x.deals
    BY DEF Follows, DealsKept
<1>2. BookInv(y) /\ y.deals = x.deals /\ y.reallocations = x.reallocations
    BY <1>1, PayStep
<1> QED  BY <1>2, FollowsSame DEF SlashesOnly

LEMMA IssueFollows ==
    ASSUME NEW b, NEW x, Follows(b, x), SlashesOnly(b, x), NEW d \in DOMAIN b.deals,
           NEW now \in Nat, NEW y, y = IssueChallenge(x, d, now)
    PROVE  Follows(b, y) /\ SlashesOnly(b, y)
<1>1. BookInv(x) /\ d \in DOMAIN x.deals
    BY DEF Follows, DealsKept
<1>2. y = x \/ y = open_challenge(x, d, now, now + AutoDeadline)
    BY DEF IssueChallenge
<1>3. CASE y = x
    BY <1>3
<1>4. CASE y = open_challenge(x, d, now, now + AutoDeadline)
  <2>1. PICK e : e = now + AutoDeadline
    OBVIOUS
  <2>2. e \in Nat
    BY <2>1, Numbers
  <2>3. BookInv(y) /\ y.deals = x.deals /\ y.reallocations = x.reallocations
    BY <1>1, <1>4, <2>1, <2>2, ChallengeStep
  <2> QED  BY <2>3, FollowsSame DEF SlashesOnly
<1> QED  BY <1>2, <1>3, <1>4

LEMMA MissedFollows ==
    ASSUME NEW b, NEW x, Follows(b, x), SlashesOnly(b, x), NEW c \in DOMAIN x.challenges,
           NEW now \in Nat, NEW y, y = FinalizeMissed(x, c, now)
    PROVE  Follows(b, y) /\ SlashesOnly(b, y) /\ y.challenges = x.challenges
<1>1. CASE ~Missed(x, c, now)
    BY <1>1 DEF FinalizeMissed
<1>2. CASE Missed(x, c, now)
  <2>1. PICK d : d = x.challenges[c].deal
    OBVIOUS
  <2>2. PICK z : z = Slashed(x, c, "Missed")
    OBVIOUS
  <2>3. BookInv(x) /\ DealsKept(b, x) /\ TicketsKept(b, x)
        /\ Open(x, c) /\ is_active(x, d)
    BY <1>2, <2>1 DEF Follows, Missed
  <2>4. /\ BookInv(z) /\ z.challenges = x.challenges
        /\ z.reallocations = x.reallocations
        /\ d \in DOMAIN x.deals /\ DOMAIN z.deals = DOMAIN x.deals
        /\ z.deals[d].status = "Slashed" /\ z.deals[d].shard = x.deals[d].shard
        /\ \A e \in DOMAIN x.deals : e # d => z.deals[e] = x.deals[e]
    BY <2>1, <2>2, <2>3, SlashStep
  <2>5. y = TicketForDeal(z, d, x.deals[d].operator, now)
    BY <1>2, <2>1, <2>2 DEF FinalizeMissed
  <2>6. is_active(b, d)
    BY <2>3, <2>4 DEF DealsKept, is_active
  <2>7. DealsKept(b, z)
    BY <2>3, <2>4, <2>6 DEF DealsKept
  <2>8. TicketsKept(b, z)
    BY <2>3, <2>4 DEF TicketsKept
  <2>9. \A e \in DOMAIN b.deals : e # d => NoGap(b, z, e)
    <3>1. \A e : Ticketed(z, e) <=> Ticketed(x, e)
      BY <2>4 DEF Ticketed
    <3>2. \A e \in DOMAIN b.deals : e # d => (is_active(z, e) <=> is_active(x, e))
      BY <2>3, <2>4 DEF is_active, DealsKept
    <3> QED  BY <3>1, <3>2 DEF Follows, NoGap
  <2>10. x.deals[d].operator \in Operators \cup {NoOperator}
    BY <2>3, <2>4, DealFields DEF BookInv
  <2>11. Follows(b, y) /\ y.deals = z.deals /\ y.challenges = z.challenges
    BY <2>4, <2>5, <2>7, <2>8, <2>9, <2>10, FollowsTicketed
  <2>12. SlashesOnly(b, y)
    BY <2>3, <2>4, <2>11 DEF SlashesOnly, DealsKept
  <2> QED  BY <2>4, <2>11, <2>12
<1> QED  BY <1>1, <1>2

-----------------------------------------------------------------------------
(* The shards that are held.                                               *)

HeldShards(b) == {s \in Shards : \E d \in DOMAIN b.deals : b.deals[d].shard = s /\ is_active(b, d)}

HoldersOf(b, s) == {d \in OnShard(b, s) : is_active(b, d)}

LEMMA HoldersFinite ==
    ASSUME NEW b \in BookSet, NEW s
    PROVE  IsFiniteSet(HoldersOf(b, s)) /\ active_replica_count(b, s) = Cardinality(HoldersOf(b, s))
           /\ active_replica_count(b, s) \in Nat
<1>1. IsFiniteSet(DOMAIN b.deals)
    BY BookFields, ListedFacts
<1>2. HoldersOf(b, s) \subseteq DOMAIN b.deals
    BY DEF HoldersOf, OnShard
<1>3. IsFiniteSet(HoldersOf(b, s))
    BY <1>1, <1>2, FS_Subset
<1>4. active_replica_count(b, s) = Cardinality(HoldersOf(b, s))
    BY DEF active_replica_count, HoldersOf
<1> QED  BY <1>3, <1>4, FS_CardinalityType

LEMMA HeldIsLive ==
    ASSUME NEW b \in BookSet
    PROVE  /\ live_shard_count(b) = Cardinality(HeldShards(b))
           /\ IsFiniteSet(HeldShards(b)) /\ live_shard_count(b) \in Nat
<1>1. ASSUME NEW s \in Shards
      PROVE  active_replica_count(b, s) > 0
               <=> \E d \in DOMAIN b.deals : b.deals[d].shard = s /\ is_active(b, d)
  <2>1. HoldersOf(b, s) = {} <=> Cardinality(HoldersOf(b, s)) = 0
    BY HoldersFinite, FS_EmptySet
  <2>2. active_replica_count(b, s) > 0 <=> HoldersOf(b, s) # {}
    BY <2>1, HoldersFinite
  <2> QED  BY <2>2 DEF HoldersOf, OnShard
<1>2. {s \in Shards : active_replica_count(b, s) > 0} = HeldShards(b)
    BY <1>1 DEF HeldShards
<1>3. IsFiniteSet(HeldShards(b))
  <2>1. HeldShards(b) \subseteq Shards
    BY DEF HeldShards
  <2> QED  BY <2>1, Numbers, FS_Subset
<1>4. live_shard_count(b) = Cardinality(HeldShards(b))
    BY <1>2 DEF live_shard_count
<1> QED  BY <1>3, <1>4, FS_CardinalityType

LEMMA OneLess ==
    ASSUME NEW S, IsFiniteSet(S), NEW e
    PROVE  /\ IsFiniteSet(S \ {e}) /\ Cardinality(S \ {e}) \in Nat
           /\ Cardinality(S) \in Nat /\ Cardinality(S \ {e}) >= Cardinality(S) - 1
<1>1. IsFiniteSet(S \ {e})
    BY FS_Subset
<1>2. Cardinality(S) \in Nat /\ Cardinality(S \ {e}) \in Nat
    BY <1>1, FS_CardinalityType
<1>3. Cardinality(S \ {e}) = IF e \in S THEN Cardinality(S) - 1 ELSE Cardinality(S)
    BY FS_RemoveElement
<1> QED  BY <1>1, <1>2, <1>3

\* A deal whose end would strand the object does not end, so what is left restores it.
LEMMA ExpiryKeepsK ==
    ASSUME NEW x \in BookSet, NEW y \in BookSet, NEW d \in DOMAIN x.deals,
           is_active(x, d), ~WouldStrand(x, d), live_shard_count(x) >= K,
           DOMAIN y.deals = DOMAIN x.deals,
           \A e \in DOMAIN x.deals : e # d => y.deals[e] = x.deals[e]
    PROVE  live_shard_count(y) >= K
<1>1. PICK s : s = x.deals[d].shard
    OBVIOUS
<1>2. \A e \in DOMAIN x.deals : e # d /\ is_active(x, e) => is_active(y, e)
    BY DEF is_active
<1>3. HeldShards(x) \ {s} \subseteq HeldShards(y)
    BY <1>1, <1>2 DEF HeldShards
<1>4. /\ live_shard_count(x) = Cardinality(HeldShards(x)) /\ IsFiniteSet(HeldShards(x))
      /\ live_shard_count(x) \in Nat
      /\ live_shard_count(y) = Cardinality(HeldShards(y)) /\ IsFiniteSet(HeldShards(y))
      /\ live_shard_count(y) \in Nat
    BY HeldIsLive
<1>5. permanence_floor = K
  <2>1. K \in Int /\ 1 \in Int /\ K >= 1
    BY Numbers
  <2>2. Max({K, 1}) \in {K, 1} /\ K <= Max({K, 1}) /\ 1 <= Max({K, 1})
    BY <2>1, MaxOfTwo
  <2> QED  BY <2>1, <2>2 DEF permanence_floor
<1>6. CASE active_replica_count(x, s) <= 1
  <2>1. live_shard_count(x) > K
    BY <1>1, <1>4, <1>5, <1>6, Numbers DEF WouldStrand
  <2>2. IsFiniteSet(HeldShards(x) \ {s}) /\ Cardinality(HeldShards(x) \ {s}) \in Nat
        /\ Cardinality(HeldShards(x) \ {s}) >= Cardinality(HeldShards(x)) - 1
    BY <1>4, OneLess
  <2>3. Cardinality(HeldShards(x) \ {s}) <= Cardinality(HeldShards(y))
    BY <1>3, <1>4, <2>2, FS_Subset
  <2> QED  BY <1>4, <2>1, <2>2, <2>3, Numbers
<1>7. CASE active_replica_count(x, s) > 1
  <2>1. IsFiniteSet(HoldersOf(x, s)) /\ Cardinality(HoldersOf(x, s)) \in Nat
        /\ Cardinality(HoldersOf(x, s)) > 1
    BY <1>7, HoldersFinite
  <2>2. IsFiniteSet(HoldersOf(x, s) \ {d})
        /\ Cardinality(HoldersOf(x, s) \ {d}) >= Cardinality(HoldersOf(x, s)) - 1
        /\ Cardinality(HoldersOf(x, s) \ {d}) \in Nat
    BY <2>1, OneLess
  <2>3. HoldersOf(x, s) \ {d} # {}
    BY <2>1, <2>2, FS_EmptySet
  <2>4. PICK e \in DOMAIN x.deals : e # d /\ x.deals[e].shard = s /\ is_active(x, e)
    BY <2>3 DEF HoldersOf, OnShard
  <2>5. s \in Shards
    BY <1>1, DealFields
  <2>6. s \in HeldShards(y)
    BY <1>2, <2>4, <2>5 DEF HeldShards
  <2>7. HeldShards(x) \subseteq HeldShards(y)
    BY <1>3, <2>6
  <2>8. Cardinality(HeldShards(x)) <= Cardinality(HeldShards(y))
    BY <1>4, <2>7, FS_Subset
  <2> QED  BY <1>4, <2>8, Numbers
<1>8. active_replica_count(x, s) \in Nat
    BY HoldersFinite
<1> QED  BY <1>6, <1>7, <1>8

\* From m to x deals have expired, and the object survived.
ExpiresOnly(m, x) ==
    /\ \A d \in DOMAIN m.deals : m.deals[d].status = "Slashed" => x.deals[d].status = "Slashed"
    /\ live_shard_count(m) >= K => live_shard_count(x) >= K

LEMMA ExpireFollows ==
    ASSUME NEW b, NEW m, DOMAIN m.deals = DOMAIN b.deals,
           NEW x, Follows(b, x), ExpiresOnly(m, x), NEW d \in DOMAIN b.deals,
           NEW now \in Nat, NEW y, y = FinalizeExpired(x, d, now)
    PROVE  Follows(b, y) /\ ExpiresOnly(m, y)
<1>1. BookInv(x) /\ DealsKept(b, x) /\ TicketsKept(b, x) /\ d \in DOMAIN x.deals
    BY DEF Follows, DealsKept
<1>2. x \in BookSet
    BY <1>1 DEF BookInv
<1>3. CASE ~is_active(x, d) \/ x.deals[d].end > now
    BY <1>3 DEF FinalizeExpired
<1>4. CASE is_active(x, d) /\ ~(x.deals[d].end > now) /\ WouldStrand(x, d)
  <2>1. y = TicketForDeal(x, d, NoOperator, now)
    BY <1>4 DEF FinalizeExpired, open_expiry_reallocation
  <2>2. Follows(b, y) /\ y.deals = x.deals
    <3>1. NoOperator \in Operators \cup {NoOperator}
          /\ \A e \in DOMAIN b.deals : e # d => NoGap(b, x, e)
      BY DEF Follows
    <3> QED  BY <1>1, <2>1, <3>1, FollowsTicketed
  <2>3. live_shard_count(y) = live_shard_count(x)
    BY <2>2 DEF live_shard_count, active_replica_count, OnShard, is_active
  <2> QED  BY <2>2, <2>3 DEF ExpiresOnly
<1>5. CASE is_active(x, d) /\ ~(x.deals[d].end > now) /\ ~WouldStrand(x, d)
  <2>1. PICK z : z = Expired(x, d)
    OBVIOUS
  <2>2. y = TicketForDeal(z, d, NoOperator, now)
    BY <1>5, <2>1 DEF FinalizeExpired, open_expiry_reallocation
  <2>3. /\ BookInv(z) /\ z.challenges = x.challenges
        /\ z.reallocations = x.reallocations /\ DOMAIN z.deals = DOMAIN x.deals
        /\ z.deals[d].status = "Expired" /\ z.deals[d].shard = x.deals[d].shard
        /\ \A e \in DOMAIN x.deals : e # d => z.deals[e] = x.deals[e]
    BY <1>1, <1>5, <2>1, ExpiredStep
  <2>4. is_active(b, d)
    BY <1>1, <1>5 DEF DealsKept, is_active
  <2>5. DealsKept(b, z)
    BY <1>1, <2>3, <2>4 DEF DealsKept
  <2>6. TicketsKept(b, z)
    BY <1>1, <2>3 DEF TicketsKept
  <2>7. \A e \in DOMAIN b.deals : e # d => NoGap(b, z, e)
    <3>1. \A e : Ticketed(z, e) <=> Ticketed(x, e)
      BY <2>3 DEF Ticketed
    <3>2. \A e \in DOMAIN b.deals : e # d => (is_active(z, e) <=> is_active(x, e))
      BY <1>1, <2>3 DEF is_active, DealsKept
    <3> QED  BY <3>1, <3>2 DEF Follows, NoGap
  <2>8. Follows(b, y) /\ y.deals = z.deals
    <3>1. NoOperator \in Operators \cup {NoOperator} /\ d \in DOMAIN z.deals
      BY <1>1, <2>3
    <3> QED  BY <2>2, <2>3, <2>5, <2>6, <2>7, <3>1, FollowsTicketed
  <2>9. z \in BookSet
    BY <2>3 DEF BookInv
  <2>10. live_shard_count(x) >= K => live_shard_count(z) >= K
    BY <1>1, <1>2, <1>5, <2>3, <2>9, ExpiryKeepsK
  <2>11. live_shard_count(y) = live_shard_count(z)
    BY <2>8 DEF live_shard_count, active_replica_count, OnShard, is_active
  <2>12. \A e \in DOMAIN m.deals : x.deals[e].status = "Slashed" => y.deals[e].status = "Slashed"
    BY <1>1, <1>5, <2>3, <2>8 DEF DealsKept, is_active
  <2> QED  BY <2>8, <2>10, <2>11, <2>12 DEF ExpiresOnly
<1> QED  BY <1>3, <1>4, <1>5

LEMMA MaxOfDeals ==
    ASSUME NEW x \in BookSet, NEW S \in SUBSET DOMAIN x.deals, S # {}
    PROVE  Max(S) \in S
<1>1. PICK n \in Nat : DOMAIN x.deals = 0..(n - 1)
    BY BookFields, ListedFacts
<1> DEFINE U == {k \in Nat : \A e \in S : e <= k}
<1>2. S \subseteq Nat
    BY <1>1
<1>3. n \in U
    BY <1>1
<1>4. \A k : k \in U <=> k \in Nat /\ \A e \in S : e <= k
    OBVIOUS
<1>5. PICK k \in U : \A l \in U : k <= l
  <2>1. U \in SUBSET Nat /\ U # {}
    BY <1>3
  <2> HIDE DEF U
  <2> QED  BY <2>1, LeastNatural
<1> HIDE DEF U
<1>6. k \in S
  <2>1. ASSUME k \notin S PROVE FALSE
    <3>1. \A e \in S : e \in Nat /\ e <= k /\ e # k
      BY <1>2, <1>4, <1>5, <2>1
    <3>2. PICK e \in S : TRUE
      OBVIOUS
    <3>3. k \in Nat /\ k - 1 \in Nat /\ \A f \in S : f <= k - 1
      BY <1>4, <1>5, <3>1, <3>2
    <3>4. k - 1 \in U
      BY <1>4, <3>3
    <3> QED  BY <1>5, <3>3, <3>4
  <2> QED  BY <2>1
<1>7. \A e \in S : k >= e
    BY <1>2, <1>4, <1>5
<1> QED  BY <1>6, <1>7 DEF Max

LEMMA RepairFollows ==
    ASSUME NEW b, NEW x, Follows(b, x), NEW s \in Shards, NEW now \in Nat,
           NEW y, y = RepairShard(x, s, now)
    PROVE  Follows(b, y) /\ y.deals = x.deals
<1>1. BookInv(x) /\ DealsKept(b, x) /\ TicketsKept(b, x) /\ x \in BookSet
      /\ \A d \in DOMAIN b.deals : NoGap(b, x, d)
    BY DEF Follows, BookInv
<1>2. NoOperator \in Operators \cup {NoOperator} /\ 0 \in Slots \cup {0} /\ 0 \in Nat
    OBVIOUS
<1>3. CASE active_replica_count(x, s) > 0
    BY <1>3 DEF RepairShard
<1>4. CASE ~(active_replica_count(x, s) > 0) /\ OnShard(x, s) # {}
  <2>1. PICK d : d = Max(OnShard(x, s))
    OBVIOUS
  <2>2. OnShard(x, s) \in SUBSET DOMAIN x.deals
    BY DEF OnShard
  <2>3. d \in OnShard(x, s)
    BY <1>1, <1>4, <2>1, <2>2, MaxOfDeals
  <2>4. d \in DOMAIN x.deals
    BY <2>3 DEF OnShard
  <2>5. y = TicketForDeal(x, d, NoOperator, now)
    BY <1>4, <2>1 DEF RepairShard, open_expiry_reallocation
  <2> QED  BY <1>1, <1>2, <2>4, <2>5, FollowsTicketed
<1>5. CASE ~(active_replica_count(x, s) > 0) /\ OnShard(x, s) = {}
  <2>1. y = open_never_placed_ticket(x, s, 0, now)
    BY <1>5 DEF RepairShard
  <2>2. y = x \/ y = OpenTicket(x, 0, "NeverPlaced", s, 0, NoOperator, now)
    BY <2>1 DEF open_never_placed_ticket
  <2>3. ASSUME y = OpenTicket(x, 0, "NeverPlaced", s, 0, NoOperator, now)
        PROVE  /\ BookInv(y) /\ DealsKept(b, y) /\ TicketsKept(b, y)
               /\ y.deals = x.deals
               /\ \A d : NoGap(b, x, d) => NoGap(b, y, d)
    BY <1>1, <1>2, <2>3, FollowsOpened
  <2> QED  BY <1>1, <2>2, <2>3 DEF Follows
<1> QED  BY <1>3, <1>4, <1>5

LEMMA ReopenFollows ==
    ASSUME NEW b, NEW x, Follows(b, x), NEW d \in DOMAIN b.deals, NEW now \in Nat,
           NEW y, y = ReopenSlot(x, d, now)
    PROVE  Follows(b, y) /\ y.deals = x.deals
<1>1. BookInv(x) /\ DealsKept(b, x) /\ TicketsKept(b, x) /\ d \in DOMAIN x.deals
      /\ \A e \in DOMAIN b.deals : NoGap(b, x, e)
    BY DEF Follows, DealsKept
<1>2. y = x \/ y = TicketForDeal(x, d, NoOperator, now)
    BY DEF ReopenSlot, open_expiry_reallocation
<1>3. NoOperator \in Operators \cup {NoOperator}
    OBVIOUS
<1>4. ASSUME y = TicketForDeal(x, d, NoOperator, now)
      PROVE  Follows(b, y) /\ y.deals = x.deals
    BY <1>1, <1>3, <1>4, FollowsTicketed
<1> QED  BY <1>2, <1>4

-----------------------------------------------------------------------------
(* The loops.                                                              *)

\* The loop that pays the operators, from any books of R that its steps keep in R.
LEMMA PayLoop ==
    ASSUME NEW R, NEW b \in R, NEW n \in Nat, n = Cardinality(DOMAIN b.deals), NEW now,
           \A x \in R : \A i \in 1..n : PayOperator(x, i - 1, now) \in R
    PROVE  accrue_storage_operator_rewards(b, now) \in R
<1> DEFINE F == [p \in R \X (1..n) |-> PayOperator(p[1], p[2] - 1, now)]
<1> DEFINE A == CHOOSE g : g = [i \in 0..n |-> IF i = 0 THEN b ELSE PayOperator(g[i - 1], i - 1, now)]
<1>1. \A x \in R : \A i \in 1..n : F[<<x, i>>] = PayOperator(x, i - 1, now)
    OBVIOUS
<1>2. accrue_storage_operator_rewards(b, now) = A[n]
    BY DEF accrue_storage_operator_rewards, InOrder
<1> HIDE DEF F
<1>3. PICK T \in [0..n -> R] : IsRunOf(T, F, b, n)
  <2>1. \A x \in R : \A i \in 1..n : F[<<x, i>>] \in R
    BY <1>1
  <2> QED  BY <2>1, RunExists
<1>4. \A i \in 0..n : T[i] = IF i = 0 THEN b ELSE PayOperator(T[i - 1], i - 1, now)
  <2>1. T[0] = b
    BY <1>3 DEF IsRunOf
  <2>2. ASSUME NEW i \in 1..n
        PROVE  T[i] = PayOperator(T[i - 1], i - 1, now)
    <3>1. T[i] = F[<<T[i - 1], i>>]
      BY <1>3 DEF IsRunOf
    <3>2. T[i - 1] \in R
      BY <1>3
    <3> QED  BY <1>1, <3>1, <3>2
  <2>3. \A i \in 0..n : i # 0 => i \in 1..n
    OBVIOUS
  <2> QED  BY <2>1, <2>2, <2>3
<1>5. T = [i \in 0..n |-> IF i = 0 THEN b ELSE PayOperator(T[i - 1], i - 1, now)]
    BY <1>3, <1>4
<1>6. A = [i \in 0..n |-> IF i = 0 THEN b ELSE PayOperator(A[i - 1], i - 1, now)]
    BY <1>5
<1> HIDE DEF A
<1>7. A[0] \in R /\ \A i \in 1..n : A[i - 1] \in R => A[i] \in R
    BY <1>6
<1> QED  BY <1>2, <1>7, TableStays

\* The loop that opens automatic challenges.
LEMMA IssueLoop ==
    ASSUME NEW R, NEW b \in R, NEW n \in Nat, n = Cardinality(DOMAIN b.deals), NEW now,
           \A x \in R : \A i \in 1..n : IssueChallenge(x, i - 1, now) \in R
    PROVE  issue_storage_challenges(b, now) \in R
<1> DEFINE F == [p \in R \X (1..n) |-> IssueChallenge(p[1], p[2] - 1, now)]
<1> DEFINE A == CHOOSE g : g = [i \in 0..n |-> IF i = 0 THEN b ELSE IssueChallenge(g[i - 1], i - 1, now)]
<1>1. \A x \in R : \A i \in 1..n : F[<<x, i>>] = IssueChallenge(x, i - 1, now)
    OBVIOUS
<1>2. issue_storage_challenges(b, now) = A[n]
    BY DEF issue_storage_challenges, InOrder
<1> HIDE DEF F
<1>3. PICK T \in [0..n -> R] : IsRunOf(T, F, b, n)
  <2>1. \A x \in R : \A i \in 1..n : F[<<x, i>>] \in R
    BY <1>1
  <2> QED  BY <2>1, RunExists
<1>4. \A i \in 0..n : T[i] = IF i = 0 THEN b ELSE IssueChallenge(T[i - 1], i - 1, now)
  <2>1. T[0] = b
    BY <1>3 DEF IsRunOf
  <2>2. ASSUME NEW i \in 1..n
        PROVE  T[i] = IssueChallenge(T[i - 1], i - 1, now)
    <3>1. T[i] = F[<<T[i - 1], i>>]
      BY <1>3 DEF IsRunOf
    <3>2. T[i - 1] \in R
      BY <1>3
    <3> QED  BY <1>1, <3>1, <3>2
  <2>3. \A i \in 0..n : i # 0 => i \in 1..n
    OBVIOUS
  <2> QED  BY <2>1, <2>2, <2>3
<1>5. T = [i \in 0..n |-> IF i = 0 THEN b ELSE IssueChallenge(T[i - 1], i - 1, now)]
    BY <1>3, <1>4
<1>6. A = [i \in 0..n |-> IF i = 0 THEN b ELSE IssueChallenge(A[i - 1], i - 1, now)]
    BY <1>5
<1> HIDE DEF A
<1>7. A[0] \in R /\ \A i \in 1..n : A[i - 1] \in R => A[i] \in R
    BY <1>6
<1> QED  BY <1>2, <1>7, TableStays

\* The loop over missed challenges.
LEMMA MissedLoop ==
    ASSUME NEW R, NEW b \in R, NEW n \in Nat, n = Cardinality(DOMAIN b.challenges), NEW now,
           \A x \in R : \A i \in 1..n : FinalizeMissed(x, i - 1, now) \in R
    PROVE  finalize_missed_storage_challenges(b, now) \in R
<1> DEFINE F == [p \in R \X (1..n) |-> FinalizeMissed(p[1], p[2] - 1, now)]
<1> DEFINE A == CHOOSE g : g = [i \in 0..n |-> IF i = 0 THEN b ELSE FinalizeMissed(g[i - 1], i - 1, now)]
<1>1. \A x \in R : \A i \in 1..n : F[<<x, i>>] = FinalizeMissed(x, i - 1, now)
    OBVIOUS
<1>2. finalize_missed_storage_challenges(b, now) = A[n]
    BY DEF finalize_missed_storage_challenges, InOrder
<1> HIDE DEF F
<1>3. PICK T \in [0..n -> R] : IsRunOf(T, F, b, n)
  <2>1. \A x \in R : \A i \in 1..n : F[<<x, i>>] \in R
    BY <1>1
  <2> QED  BY <2>1, RunExists
<1>4. \A i \in 0..n : T[i] = IF i = 0 THEN b ELSE FinalizeMissed(T[i - 1], i - 1, now)
  <2>1. T[0] = b
    BY <1>3 DEF IsRunOf
  <2>2. ASSUME NEW i \in 1..n
        PROVE  T[i] = FinalizeMissed(T[i - 1], i - 1, now)
    <3>1. T[i] = F[<<T[i - 1], i>>]
      BY <1>3 DEF IsRunOf
    <3>2. T[i - 1] \in R
      BY <1>3
    <3> QED  BY <1>1, <3>1, <3>2
  <2>3. \A i \in 0..n : i # 0 => i \in 1..n
    OBVIOUS
  <2> QED  BY <2>1, <2>2, <2>3
<1>5. T = [i \in 0..n |-> IF i = 0 THEN b ELSE FinalizeMissed(T[i - 1], i - 1, now)]
    BY <1>3, <1>4
<1>6. A = [i \in 0..n |-> IF i = 0 THEN b ELSE FinalizeMissed(A[i - 1], i - 1, now)]
    BY <1>5
<1> HIDE DEF A
<1>7. A[0] \in R /\ \A i \in 1..n : A[i - 1] \in R => A[i] \in R
    BY <1>6
<1> QED  BY <1>2, <1>7, TableStays

\* The loop over deals at their end.
LEMMA ExpiredLoop ==
    ASSUME NEW R, NEW b \in R, NEW n \in Nat, n = Cardinality(DOMAIN b.deals), NEW now,
           \A x \in R : \A i \in 1..n : FinalizeExpired(x, i - 1, now) \in R
    PROVE  finalize_expired_storage_deals(b, now) \in R
<1> DEFINE F == [p \in R \X (1..n) |-> FinalizeExpired(p[1], p[2] - 1, now)]
<1> DEFINE A == CHOOSE g : g = [i \in 0..n |-> IF i = 0 THEN b ELSE FinalizeExpired(g[i - 1], i - 1, now)]
<1>1. \A x \in R : \A i \in 1..n : F[<<x, i>>] = FinalizeExpired(x, i - 1, now)
    OBVIOUS
<1>2. finalize_expired_storage_deals(b, now) = A[n]
    BY DEF finalize_expired_storage_deals, InOrder
<1> HIDE DEF F
<1>3. PICK T \in [0..n -> R] : IsRunOf(T, F, b, n)
  <2>1. \A x \in R : \A i \in 1..n : F[<<x, i>>] \in R
    BY <1>1
  <2> QED  BY <2>1, RunExists
<1>4. \A i \in 0..n : T[i] = IF i = 0 THEN b ELSE FinalizeExpired(T[i - 1], i - 1, now)
  <2>1. T[0] = b
    BY <1>3 DEF IsRunOf
  <2>2. ASSUME NEW i \in 1..n
        PROVE  T[i] = FinalizeExpired(T[i - 1], i - 1, now)
    <3>1. T[i] = F[<<T[i - 1], i>>]
      BY <1>3 DEF IsRunOf
    <3>2. T[i - 1] \in R
      BY <1>3
    <3> QED  BY <1>1, <3>1, <3>2
  <2>3. \A i \in 0..n : i # 0 => i \in 1..n
    OBVIOUS
  <2> QED  BY <2>1, <2>2, <2>3
<1>5. T = [i \in 0..n |-> IF i = 0 THEN b ELSE FinalizeExpired(T[i - 1], i - 1, now)]
    BY <1>3, <1>4
<1>6. A = [i \in 0..n |-> IF i = 0 THEN b ELSE FinalizeExpired(A[i - 1], i - 1, now)]
    BY <1>5
<1> HIDE DEF A
<1>7. A[0] \in R /\ \A i \in 1..n : A[i - 1] \in R => A[i] \in R
    BY <1>6
<1> QED  BY <1>2, <1>7, TableStays

\* The loop over free slots.
LEMMA ReopenLoop ==
    ASSUME NEW R, NEW b \in R, NEW n \in Nat, n = Cardinality(DOMAIN b.deals), NEW now,
           \A x \in R : \A i \in 1..n : ReopenSlot(x, i - 1, now) \in R
    PROVE  open_repair_tickets_for_free_slots(b, now) \in R
<1> DEFINE F == [p \in R \X (1..n) |-> ReopenSlot(p[1], p[2] - 1, now)]
<1> DEFINE A == CHOOSE g : g = [i \in 0..n |-> IF i = 0 THEN b ELSE ReopenSlot(g[i - 1], i - 1, now)]
<1>1. \A x \in R : \A i \in 1..n : F[<<x, i>>] = ReopenSlot(x, i - 1, now)
    OBVIOUS
<1>2. open_repair_tickets_for_free_slots(b, now) = A[n]
    BY DEF open_repair_tickets_for_free_slots, InOrder
<1> HIDE DEF F
<1>3. PICK T \in [0..n -> R] : IsRunOf(T, F, b, n)
  <2>1. \A x \in R : \A i \in 1..n : F[<<x, i>>] \in R
    BY <1>1
  <2> QED  BY <2>1, RunExists
<1>4. \A i \in 0..n : T[i] = IF i = 0 THEN b ELSE ReopenSlot(T[i - 1], i - 1, now)
  <2>1. T[0] = b
    BY <1>3 DEF IsRunOf
  <2>2. ASSUME NEW i \in 1..n
        PROVE  T[i] = ReopenSlot(T[i - 1], i - 1, now)
    <3>1. T[i] = F[<<T[i - 1], i>>]
      BY <1>3 DEF IsRunOf
    <3>2. T[i - 1] \in R
      BY <1>3
    <3> QED  BY <1>1, <3>1, <3>2
  <2>3. \A i \in 0..n : i # 0 => i \in 1..n
    OBVIOUS
  <2> QED  BY <2>1, <2>2, <2>3
<1>5. T = [i \in 0..n |-> IF i = 0 THEN b ELSE ReopenSlot(T[i - 1], i - 1, now)]
    BY <1>3, <1>4
<1>6. A = [i \in 0..n |-> IF i = 0 THEN b ELSE ReopenSlot(A[i - 1], i - 1, now)]
    BY <1>5
<1> HIDE DEF A
<1>7. A[0] \in R /\ \A i \in 1..n : A[i - 1] \in R => A[i] \in R
    BY <1>6
<1> QED  BY <1>2, <1>7, TableStays

\* The loop of the repair band, over the shards in some order.
LEMMA RepairLoop ==
    ASSUME NEW R, NEW b \in R, NEW n \in Nat, NEW order, order = SetToSeq(Shards),
           n = Cardinality(DOMAIN order), NEW now,
           \A x \in R : \A i \in 1..n : RepairShard(x, order[(i - 1) + 1], now) \in R
    PROVE  open_repair_band_tickets(b, now) \in R
<1> DEFINE F == [p \in R \X (1..n) |-> RepairShard(p[1], order[(p[2] - 1) + 1], now)]
<1> DEFINE A == CHOOSE g : g = [i \in 0..n |->
                    IF i = 0 THEN b ELSE RepairShard(g[i - 1], order[(i - 1) + 1], now)]
<1>1. \A x \in R : \A i \in 1..n : F[<<x, i>>] = RepairShard(x, order[(i - 1) + 1], now)
    OBVIOUS
<1>2. open_repair_band_tickets(b, now) = A[n] \/ open_repair_band_tickets(b, now) = b
    BY DEF InOrder, open_repair_band_tickets
<1> HIDE DEF F
<1>3. PICK T \in [0..n -> R] : IsRunOf(T, F, b, n)
  <2>1. \A x \in R : \A i \in 1..n : F[<<x, i>>] \in R
    BY <1>1
  <2> QED  BY <2>1, RunExists
<1>4. \A i \in 0..n :
         T[i] = IF i = 0 THEN b ELSE RepairShard(T[i - 1], order[(i - 1) + 1], now)
  <2>1. T[0] = b
    BY <1>3 DEF IsRunOf
  <2>2. ASSUME NEW i \in 1..n
        PROVE  T[i] = RepairShard(T[i - 1], order[(i - 1) + 1], now)
    <3>1. T[i] = F[<<T[i - 1], i>>]
      BY <1>3 DEF IsRunOf
    <3>2. T[i - 1] \in R
      BY <1>3
    <3> QED  BY <1>1, <3>1, <3>2
  <2>3. \A i \in 0..n : i # 0 => i \in 1..n
    OBVIOUS
  <2> QED  BY <2>1, <2>2, <2>3
<1>5. T = [i \in 0..n |-> IF i = 0 THEN b ELSE RepairShard(T[i - 1], order[(i - 1) + 1], now)]
    BY <1>3, <1>4
<1>6. A = [i \in 0..n |-> IF i = 0 THEN b ELSE RepairShard(A[i - 1], order[(i - 1) + 1], now)]
    BY <1>5
<1> HIDE DEF A
<1>7. A[0] \in R /\ \A i \in 1..n : A[i - 1] \in R => A[i] \in R
    BY <1>6
<1> QED  BY <1>2, <1>7, TableStays

-----------------------------------------------------------------------------
(* The whole maintenance.                                                  *)

\* Tickets are marked overdue, and settled ones forgotten; a waiting one stays.
TicketsWait(x, y) ==
    \A t \in DOMAIN x.reallocations : Waiting(x.reallocations[t]) =>
        /\ t \in DOMAIN y.reallocations /\ Waiting(y.reallocations[t])
        /\ y.reallocations[t].failed_deal_id = x.reallocations[t].failed_deal_id
        /\ y.reallocations[t].cause = x.reallocations[t].cause

LEMMA OverdueStep ==
    ASSUME NEW x, BookInv(x), NEW now,
           NEW y, y = mark_overdue_reallocations_under_replicated(x, now)
    PROVE  BookInv(y) /\ y.deals = x.deals /\ TicketsWait(x, y)
<1>1. x \in BookSet /\ TicketsNumbered(x)
    BY DEF BookInv
<1>2. PICK f : f = [t \in DOMAIN x.reallocations |->
                      IF x.reallocations[t].status = "Pending"
                           /\ now > x.reallocations[t].deadline
                      THEN [x.reallocations[t] EXCEPT !.status = "UnderReplicated"]
                      ELSE x.reallocations[t]]
    OBVIOUS
<1>3. y = [x EXCEPT !.reallocations = f]
    BY <1>2 DEF mark_overdue_reallocations_under_replicated
<1>4. /\ y.deals = x.deals /\ y.challenges = x.challenges /\ y.results = x.results
      /\ y.reallocations = f /\ y.next = x.next
      /\ y.cooldowns = x.cooldowns /\ y.paid = x.paid /\ y.balance = x.balance
      /\ y = [deals |-> y.deals, challenges |-> y.challenges, results |-> y.results,
              reallocations |-> y.reallocations, next |-> y.next,
              cooldowns |-> y.cooldowns, balance |-> y.balance, paid |-> y.paid]
  <2>1. x = [deals |-> x.deals, challenges |-> x.challenges, results |-> x.results,
             reallocations |-> x.reallocations, next |-> x.next,
             cooldowns |-> x.cooldowns, balance |-> x.balance, paid |-> x.paid]
    BY <1>1, BookFields
  <2> QED  BY ONLY <1>3, <2>1
<1>5. DOMAIN f = DOMAIN x.reallocations /\ DOMAIN f \in SUBSET Nat
    BY <1>1, <1>2, BookFields, KeyedFacts
<1>6. ASSUME NEW t \in DOMAIN f
      PROVE  /\ f[t] \in TicketRecord
             /\ f[t].failed_deal_id = x.reallocations[t].failed_deal_id
             /\ f[t].cause = x.reallocations[t].cause
             /\ Waiting(x.reallocations[t]) => Waiting(f[t])
  <2>1. x.reallocations[t] \in TicketRecord
    BY <1>1, <1>5, BookFields, KeyedFacts
  <2>2. CASE f[t] = x.reallocations[t]
    BY <2>1, <2>2
  <2>3. CASE f[t] = [x.reallocations[t] EXCEPT !.status = "UnderReplicated"]
    <3>1. PICK r : r = x.reallocations[t]
      OBVIOUS
    <3>2. r \in TicketRecord /\ f[t] = [r EXCEPT !.status = "UnderReplicated"]
      BY <2>1, <2>3, <3>1
    <3>3. f[t] \in TicketRecord /\ f[t].failed_deal_id = r.failed_deal_id
          /\ f[t].cause = r.cause /\ f[t].status = "UnderReplicated"
      BY ONLY <3>2 DEF TicketRecord
    <3> QED  BY <3>1, <3>3 DEF Waiting
  <2>4. f[t] = x.reallocations[t]
        \/ f[t] = [x.reallocations[t] EXCEPT !.status = "UnderReplicated"]
    BY <1>2, <1>5
  <2> QED  BY <2>2, <2>3, <2>4
<1>7. y \in BookSet
  <2>1. f \in [DOMAIN f -> TicketRecord]
    BY <1>2, <1>6
  <2>2. f \in Keyed(TicketRecord)
    BY <1>5, <2>1, KeyedIntro
  <2> QED  BY <1>1, <1>4, <2>2, BookFields, BookIntro
<1>8. TicketsNumbered(y)
    BY <1>1, <1>4, <1>5, <1>6 DEF TicketsNumbered
<1>9. BookInv(y)
    BY <1>4, <1>7, <1>8, OnlyTickets
<1>10. TicketsWait(x, y)
    BY <1>4, <1>5, <1>6 DEF TicketsWait
<1> QED  BY <1>4, <1>9, <1>10

LEMMA SweepStep ==
    ASSUME NEW x, BookInv(x), NEW now,
           NEW y, y = sweep_settled_reallocations(x, now)
    PROVE  BookInv(y) /\ y.deals = x.deals /\ TicketsWait(x, y)
<1>1. x \in BookSet /\ TicketsNumbered(x)
    BY DEF BookInv
<1>2. PICK kept : kept = {t \in DOMAIN x.reallocations : ~SweptTicket(x.reallocations[t], now)}
    OBVIOUS
<1>3. PICK f : f = [t \in kept |-> x.reallocations[t]]
    OBVIOUS
<1>4. y = [x EXCEPT !.reallocations = f]
    BY <1>2, <1>3 DEF sweep_settled_reallocations
<1>5. /\ y.deals = x.deals /\ y.challenges = x.challenges /\ y.results = x.results
      /\ y.reallocations = f /\ y.next = x.next
      /\ y.cooldowns = x.cooldowns /\ y.paid = x.paid /\ y.balance = x.balance
      /\ y = [deals |-> y.deals, challenges |-> y.challenges, results |-> y.results,
              reallocations |-> y.reallocations, next |-> y.next,
              cooldowns |-> y.cooldowns, balance |-> y.balance, paid |-> y.paid]
  <2>1. x = [deals |-> x.deals, challenges |-> x.challenges, results |-> x.results,
             reallocations |-> x.reallocations, next |-> x.next,
             cooldowns |-> x.cooldowns, balance |-> x.balance, paid |-> x.paid]
    BY <1>1, BookFields
  <2> QED  BY ONLY <1>4, <2>1
<1>6. /\ kept \subseteq DOMAIN x.reallocations /\ kept \in SUBSET Nat
      /\ \A t \in kept : x.reallocations[t] \in TicketRecord
    BY <1>1, <1>2, BookFields, KeyedFacts
<1>7. y \in BookSet
  <2>1. f \in [kept -> TicketRecord]
    BY <1>3, <1>6
  <2>2. f \in Keyed(TicketRecord)
    BY <1>6, <2>1, KeyedIntro
  <2> QED  BY <1>1, <1>5, <2>2, BookFields, BookIntro
<1>8. DOMAIN f = kept /\ \A t \in kept : f[t] = x.reallocations[t]
    BY <1>3
<1>9. TicketsNumbered(y)
    BY <1>1, <1>5, <1>6, <1>8 DEF TicketsNumbered
<1>10. BookInv(y)
    BY <1>5, <1>7, <1>9, OnlyTickets
<1>11. TicketsWait(x, y)
  <2>1. \A t \in DOMAIN x.reallocations : Waiting(x.reallocations[t]) => t \in kept
    BY <1>2 DEF Waiting, SweptTicket
  <2> QED  BY <1>5, <1>8, <2>1 DEF TicketsWait
<1> QED  BY <1>5, <1>10, <1>11

\* What a block may do to the books b.
Maintained(b, y) ==
    /\ BookInv(y) /\ DealsKept(b, y)
    /\ \A d \in DOMAIN b.deals : is_active(b, d) /\ ~is_active(y, d) =>
          Ticketed(y, d) \/ Ticketed(b, d)
    /\ \A t \in DOMAIN b.reallocations : Waiting(b.reallocations[t]) =>
          t \in DOMAIN y.reallocations /\ Waiting(y.reallocations[t])

LEMMA SweptIsMaintained ==
    ASSUME NEW b, NEW x, Follows(b, x), NEW now, NEW y,
           y = sweep_settled_reallocations(mark_overdue_reallocations_under_replicated(x, now), now)
    PROVE  Maintained(b, y) /\ y.deals = x.deals
<1>1. PICK z : z = mark_overdue_reallocations_under_replicated(x, now)
    OBVIOUS
<1>2. BookInv(x) /\ DealsKept(b, x) /\ TicketsKept(b, x)
      /\ \A d \in DOMAIN b.deals : NoGap(b, x, d)
    BY DEF Follows
<1>3. BookInv(z) /\ z.deals = x.deals /\ TicketsWait(x, z)
    BY <1>1, <1>2, OverdueStep
<1>4. BookInv(y) /\ y.deals = z.deals /\ TicketsWait(z, y)
    BY <1>1, <1>3, SweepStep
<1>5. TicketsWait(x, y)
    BY <1>3, <1>4 DEF TicketsWait
<1>6. DealsKept(b, y)
    BY <1>2, <1>3, <1>4 DEF DealsKept
<1>7. ASSUME NEW d \in DOMAIN b.deals, is_active(b, d), ~is_active(y, d)
      PROVE  Ticketed(y, d) \/ Ticketed(b, d)
  <2>1. Ticketed(x, d)
    BY <1>2, <1>3, <1>4, <1>7 DEF NoGap, is_active
  <2>2. PICK t \in DOMAIN x.reallocations :
            /\ x.reallocations[t].failed_deal_id = d
            /\ x.reallocations[t].cause = "FailedDeal" \/ d = 0
    BY <2>1 DEF Ticketed
  <2>3. CASE t \in DOMAIN b.reallocations
    BY <1>2, <2>2, <2>3 DEF TicketsKept, Ticketed
  <2>4. CASE t \notin DOMAIN b.reallocations
    <3>1. Waiting(x.reallocations[t])
      BY <1>2, <2>4 DEF TicketsKept
    <3>2. /\ t \in DOMAIN y.reallocations
          /\ y.reallocations[t].failed_deal_id = x.reallocations[t].failed_deal_id
          /\ y.reallocations[t].cause = x.reallocations[t].cause
      BY <1>5, <3>1 DEF TicketsWait
    <3> QED  BY <2>2, <3>2 DEF Ticketed
  <2> QED  BY <2>3, <2>4
<1>8. ASSUME NEW t \in DOMAIN b.reallocations, Waiting(b.reallocations[t])
      PROVE  t \in DOMAIN y.reallocations /\ Waiting(y.reallocations[t])
    BY <1>2, <1>5, <1>8 DEF TicketsKept, TicketsWait
<1> QED  BY <1>3, <1>4, <1>6, <1>7, <1>8 DEF Maintained

LEMMA ShardOrder ==
    LET order == SetToSeq(Shards) IN
    /\ order \in [1..Cardinality(Shards) -> Shards]
    /\ Cardinality(DOMAIN order) = Cardinality(Shards) /\ Cardinality(Shards) \in Nat
<1> DEFINE n == Cardinality(Shards)
<1>1. n \in Nat /\ ExistsBijection(1..n, Shards)
    BY Numbers, FS_CardinalityType
<1>2. PICK f \in Bijection(1..n, Shards) : TRUE
    BY <1>1 DEF ExistsBijection
<1>3. f \in [1..n -> Shards] /\ IsInjective(f)
    BY <1>2 DEF Bijection, Injection, IsInjective
<1>4. SetToSeq(Shards) \in [1..n -> Shards]
    BY <1>3 DEF SetToSeq
<1>5. Cardinality(1..n) = n
    BY <1>1, FS_Interval
<1> QED  BY <1>1, <1>4, <1>5

\* The object can be restored without the deals slashed from b to y.
RestorableUnslashed(b, y) ==
    Cardinality({s \in Shards : \E d \in OnShard(b, s) :
                    is_active(b, d) /\ y.deals[d].status # "Slashed"}) >= K

LEMMA MaintenanceStep ==
    ASSUME NEW b, BookInv(b), NEW now \in Nat, NEW vrf, NEW y,
           y = run_storage_maintenance(b, now, vrf)
    PROVE  Maintained(b, y) /\ (RestorableUnslashed(b, y) => live_shard_count(y) >= K)
<1>1. PICK b1, b2, b3, b4, b5, b6 :
        /\ b1 = accrue_storage_operator_rewards(b, now)
        /\ b2 = IF vrf THEN issue_storage_challenges(b1, now) ELSE b1
        /\ b3 = finalize_missed_storage_challenges(b2, now)
        /\ b4 = finalize_expired_storage_deals(b3, now)
        /\ b5 = open_repair_band_tickets(b4, now)
        /\ b6 = open_repair_tickets_for_free_slots(b5, now)
    OBVIOUS
<1>2. y = sweep_settled_reallocations(mark_overdue_reallocations_under_replicated(b6, now), now)
    BY <1>1 DEF run_storage_maintenance
<1>3. PICK n : n = Cardinality(DOMAIN b.deals)
    OBVIOUS
<1>4. n \in Nat /\ DOMAIN b.deals = 0..(n - 1) /\ \A i \in 1..n : i - 1 \in DOMAIN b.deals
  <2>1. n \in Nat /\ DOMAIN b.deals = 0..(n - 1)
    BY <1>3, BookFields, ListedFacts DEF BookInv
  <2> QED  BY <2>1
<1> DEFINE R == {x \in BookSet : Follows(b, x) /\ SlashesOnly(b, x)}
<1>5. \A x : x \in R <=> Follows(b, x) /\ SlashesOnly(b, x)
    BY DEF Follows, BookInv
<1>6. \A x : Follows(b, x) => DOMAIN x.deals = DOMAIN b.deals
    BY DEF Follows, DealsKept
<1> HIDE DEF R
<1>7. b \in R
    BY <1>5, FollowsItself DEF SlashesOnly
<1>8. b1 \in R
  <2>1. \A x \in R : \A i \in 1..n : PayOperator(x, i - 1, now) \in R
    BY <1>4, <1>5, PayFollows
  <2> QED  BY <1>1, <1>3, <1>4, <1>7, <2>1, PayLoop
<1>9. b2 \in R
  <2>1. \A x \in R : \A i \in 1..n : IssueChallenge(x, i - 1, now) \in R
    BY <1>4, <1>5, IssueFollows
  <2>2. n = Cardinality(DOMAIN b1.deals)
    BY <1>3, <1>5, <1>6, <1>8
  <2>3. issue_storage_challenges(b1, now) \in R
    BY <1>4, <1>8, <2>1, <2>2, IssueLoop
  <2> QED  BY <1>1, <1>8, <2>3
<1>10. b3 \in R
  <2> DEFINE Q == {x \in R : x.challenges = b2.challenges}
  <2>1. \A x : x \in Q <=> x \in R /\ x.challenges = b2.challenges
    OBVIOUS
  <2> HIDE DEF Q
  <2>2. PICK m : m = Cardinality(DOMAIN b2.challenges)
    OBVIOUS
  <2>3. m \in Nat /\ \A i \in 1..m : i - 1 \in DOMAIN b2.challenges
    <3>1. b2 \in BookSet
      BY <1>5, <1>9 DEF Follows, BookInv
    <3>2. m \in Nat /\ DOMAIN b2.challenges = 0..(m - 1)
      BY <2>2, <3>1, BookFields, ListedFacts
    <3> QED  BY <3>2
  <2>4. \A x \in Q : \A i \in 1..m : FinalizeMissed(x, i - 1, now) \in Q
    BY <1>5, <2>1, <2>3, MissedFollows
  <2>5. b2 \in Q
    BY <1>9, <2>1
  <2>6. finalize_missed_storage_challenges(b2, now) \in Q
    BY <2>2, <2>3, <2>4, <2>5, MissedLoop
  <2> QED  BY <1>1, <2>1, <2>6
<1>11. Follows(b, b3) /\ SlashesOnly(b, b3) /\ DOMAIN b3.deals = DOMAIN b.deals
    BY <1>5, <1>6, <1>10
<1>12. Follows(b, b4) /\ ExpiresOnly(b3, b4) /\ DOMAIN b4.deals = DOMAIN b.deals
  <2> DEFINE Q == {x \in BookSet : Follows(b, x) /\ ExpiresOnly(b3, x)}
  <2>1. \A x : x \in Q <=> Follows(b, x) /\ ExpiresOnly(b3, x)
    BY DEF Follows, BookInv
  <2> HIDE DEF Q
  <2>2. \A x \in Q : \A i \in 1..n : FinalizeExpired(x, i - 1, now) \in Q
    BY <1>4, <1>11, <2>1, ExpireFollows
  <2>3. b3 \in Q
    BY <1>11, <2>1 DEF ExpiresOnly
  <2>4. n = Cardinality(DOMAIN b3.deals)
    BY <1>3, <1>11
  <2>5. b4 \in Q
    BY <1>1, <1>4, <2>2, <2>3, <2>4, ExpiredLoop
  <2> QED  BY <1>6, <2>1, <2>5
<1> DEFINE S == {x \in BookSet : Follows(b, x) /\ x.deals = b4.deals}
<1>13. \A x : x \in S <=> Follows(b, x) /\ x.deals = b4.deals
    BY DEF Follows, BookInv
<1> HIDE DEF S
<1>14. b5 \in S
  <2>1. PICK order, m : order = SetToSeq(Shards) /\ m = Cardinality(Shards)
    OBVIOUS
  <2>2. order \in [1..m -> Shards] /\ Cardinality(DOMAIN order) = m /\ m \in Nat
    BY <2>1, ShardOrder
  <2>3. \A i \in 1..m : order[(i - 1) + 1] \in Shards
    BY <2>2
  <2>4. \A x \in S : \A i \in 1..m : RepairShard(x, order[(i - 1) + 1], now) \in S
    BY <1>13, <2>3, RepairFollows
  <2>5. b4 \in S
    BY <1>12, <1>13
  <2> QED  BY <1>1, <2>1, <2>2, <2>4, <2>5, RepairLoop
<1>15. b6 \in S
  <2>1. ASSUME NEW x \in S, NEW i \in 1..n
        PROVE  ReopenSlot(x, i - 1, now) \in S
    <3>1. PICK d, z : d = i - 1 /\ z = ReopenSlot(x, d, now)
      OBVIOUS
    <3>2. Follows(b, x) /\ x.deals = b4.deals /\ d \in DOMAIN b.deals
      BY <1>4, <1>13, <3>1
    <3>3. Follows(b, z) /\ z.deals = x.deals
      BY <3>1, <3>2, ReopenFollows
    <3> QED  BY <1>13, <3>1, <3>2, <3>3
  <2>2. n = Cardinality(DOMAIN b5.deals)
    BY <1>3, <1>12, <1>13, <1>14
  <2> QED  BY <1>1, <1>4, <1>14, <2>1, <2>2, ReopenLoop
<1>16. Maintained(b, y) /\ y.deals = b4.deals
    BY <1>2, <1>13, <1>15, SweptIsMaintained
<1>17. ASSUME RestorableUnslashed(b, y)
       PROVE  live_shard_count(y) >= K
  <2> DEFINE H == {s \in Shards : \E d \in OnShard(b, s) :
                      is_active(b, d) /\ y.deals[d].status # "Slashed"}
  <2>1. \A d \in DOMAIN b.deals :
           is_active(b, d) /\ y.deals[d].status # "Slashed"
             => is_active(b3, d) /\ b3.deals[d].shard = b.deals[d].shard
    <3>1. ASSUME NEW d \in DOMAIN b.deals, is_active(b, d), y.deals[d].status # "Slashed"
          PROVE  is_active(b3, d) /\ b3.deals[d].shard = b.deals[d].shard
      <4>1. b3.deals[d].shard = b.deals[d].shard
        BY <1>11 DEF Follows, DealsKept
      <4>2. b3.deals[d].status # "Slashed"
        <5>1. CASE b3.deals[d].status = "Slashed"
          <6>1. b4.deals[d].status = "Slashed"
            BY <1>11, <1>12, <5>1 DEF ExpiresOnly
          <6> QED  BY <1>16, <3>1, <6>1
        <5> QED  BY <5>1
      <4>3. b3.deals[d].status = b.deals[d].status
        BY <1>11, <4>2 DEF SlashesOnly
      <4> QED  BY <3>1, <4>1, <4>3 DEF is_active
    <3> QED  BY <3>1
  <2>2. H \subseteq HeldShards(b3)
    BY <1>11, <2>1 DEF HeldShards, OnShard
  <2>3. b3 \in BookSet /\ b4 \in BookSet /\ y \in BookSet
    BY <1>11, <1>12, <1>16 DEF Follows, Maintained, BookInv
  <2>4. IsFiniteSet(HeldShards(b3)) /\ live_shard_count(b3) = Cardinality(HeldShards(b3))
        /\ live_shard_count(b3) \in Nat
    BY <2>3, HeldIsLive
  <2>5. IsFiniteSet(H) /\ Cardinality(H) <= Cardinality(HeldShards(b3))
        /\ Cardinality(H) \in Nat
    <3> HIDE DEF H
    <3> QED  BY <2>2, <2>4, FS_Subset, FS_CardinalityType
  <2>6. Cardinality(H) >= K
    BY <1>17 DEF RestorableUnslashed
  <2> HIDE DEF H
  <2>7. live_shard_count(b3) >= K
    BY <2>4, <2>5, <2>6, Numbers
  <2>8. live_shard_count(b4) >= K
    BY <1>12, <2>7 DEF ExpiresOnly
  <2>9. live_shard_count(y) = live_shard_count(b4)
    BY <1>16 DEF live_shard_count, active_replica_count, OnShard, is_active
  <2> QED  BY <2>8, <2>9
<1> QED  BY <1>16, <1>17

-----------------------------------------------------------------------------
(* The invariant of the specification.                                     *)

StorageInv == BookInv(Books) /\ epoch \in Nat

LEMMA InitialWorth ==
    ASSUME NEW f, f = [a \in Payers |-> IF a = Client THEN ClientFunds ELSE OperatorFunds]
    PROVE  f \in [Payers -> Nat] /\ SumFunction(f) = Supply
<1>1. f \in [Payers -> Nat] /\ f[Client] = ClientFunds
      /\ \A a \in Operators : f[a] = OperatorFunds
    BY Numbers, AccountsFinite DEF Payers
<1>2. SumFunctionOnSet(f, Operators) = Cardinality(Operators) * OperatorFunds
    BY <1>1, Numbers, SumConstant
<1>3. \A a \in Operators \cup {Client} : f[a] \in Int
    BY <1>1 DEF Payers
<1>4. SumFunctionOnSet(f, Operators \cup {Client}) = f[Client] + SumFunctionOnSet(f, Operators)
    BY <1>3, Numbers, SumAdd
<1>5. SumFunction(f) = f[Client] + SumFunctionOnSet(f, Operators)
    BY <1>1, <1>4, BalancesSum DEF Payers
<1> QED  BY <1>1, <1>2, <1>5 DEF Supply

LEMMA BooksFields ==
    /\ Books.deals = deals /\ Books.challenges = challenges /\ Books.results = results
    /\ Books.reallocations = reallocations /\ Books.next = next_reallocation_id
    /\ Books.cooldowns = operator_cooldowns /\ Books.balance = balance
    /\ Books.paid = storage_last_reward_epoch
    /\ Books = [deals |-> Books.deals, challenges |-> Books.challenges, results |-> Books.results,
                reallocations |-> Books.reallocations, next |-> Books.next,
                cooldowns |-> Books.cooldowns, balance |-> Books.balance, paid |-> Books.paid]
BY DEF Books

LEMMA InitStorage == DealInit => StorageInv
<1> SUFFICES ASSUME DealInit PROVE StorageInv
    OBVIOUS
<1>1. PICK b : b = Books
    OBVIOUS
<1>2. /\ b.deals = <<>> /\ b.challenges = <<>> /\ b.results = <<>> /\ b.reallocations = <<>>
      /\ b.next = 0 /\ b.cooldowns = {} /\ b.paid = <<>>
      /\ b.balance = [a \in Payers |-> IF a = Client THEN ClientFunds ELSE OperatorFunds]
      /\ b = [deals |-> b.deals, challenges |-> b.challenges, results |-> b.results,
              reallocations |-> b.reallocations, next |-> b.next,
              cooldowns |-> b.cooldowns, balance |-> b.balance, paid |-> b.paid]
    BY <1>1 DEF DealInit, Books
<1>3. DOMAIN <<>> = {}
    BY EmptyMap
<1>4. b.balance \in [Payers -> Nat] /\ SumFunction(b.balance) = Supply
    BY <1>2, InitialWorth
<1>5. b \in BookSet
    BY <1>2, <1>4, EmptyMap, BookIntro
<1>6. PaidInTerm(b) /\ Linked(b) /\ Judged(b) /\ TicketsNumbered(b)
    BY <1>2, <1>3 DEF PaidInTerm, Linked, Judged, TicketsNumbered
<1>7. SumFunction(Dues(b)) = 0
  <2>1. SumFunction(Dues(b)) = SumFunctionOnSet(Dues(b), {})
    BY <1>2, <1>3, <1>5, <1>6, DuesSum
  <2> QED  BY <2>1, SumEmpty
<1>8. Worth(b) <= Supply
    BY <1>4, <1>7, SupplyNat DEF Worth
<1> QED  BY <1>1, <1>5, <1>6, <1>8 DEF StorageInv, BookInv, DealInit

\* The books of the next state are the ones it becomes.
LEMMA BecomeBooks ==
    ASSUME NEW b \in BookSet, Become(b)
    PROVE  Books' = b
<1>1. b = [deals |-> b.deals, challenges |-> b.challenges, results |-> b.results,
           reallocations |-> b.reallocations, next |-> b.next,
           cooldowns |-> b.cooldowns, balance |-> b.balance, paid |-> b.paid]
    BY BookFields
<1> QED  BY <1>1 DEF Become, Books

-----------------------------------------------------------------------------
(* What one step does to the books: GapsStayTicketed and ExpiryKeepsObject *)
(* as relations between the books b before and y after it.                 *)

EndIsTicketed(b, y, pruned) ==
    \A d \in DOMAIN b.deals : is_active(b, d) /\ ~is_active(y, d) =>
        \/ Ticketed(y, d) \/ Ticketed(b, d) \/ pruned
        \/ \E c \in Guilty(y, d) : y.results[c] = "Mismatched"

Replaced(y, t) ==
    LET now == y.reallocations[t] IN
    /\ now.replacement \in DOMAIN y.deals
    /\ y.deals[now.replacement].status = "Active"
    /\ y.deals[now.replacement].shard = now.shard
    /\ y.deals[now.replacement].replica_index = now.replica_index

WaitsOrReplaced(b, y) ==
    \A t \in DOMAIN b.reallocations : Waiting(b.reallocations[t]) =>
        t \in DOMAIN y.reallocations /\ (Waiting(y.reallocations[t]) \/ Replaced(y, t))

ObjectKept(b, y, pruned) == RestorableUnslashed(b, y) /\ ~pruned => live_shard_count(y) >= K

GoodStep(b, y, pruned) ==
    /\ BookInv(y) /\ EndIsTicketed(b, y, pruned) /\ WaitsOrReplaced(b, y)
    /\ ObjectKept(b, y, pruned)

LEMMA StillHeld ==
    ASSUME NEW b \in BookSet, NEW y \in BookSet, DOMAIN b.deals \subseteq DOMAIN y.deals,
           \A d \in DOMAIN b.deals : is_active(b, d) /\ y.deals[d].status # "Slashed" =>
              is_active(y, d) /\ y.deals[d].shard = b.deals[d].shard,
           RestorableUnslashed(b, y)
    PROVE  live_shard_count(y) >= K
<1> DEFINE H == {s \in Shards : \E d \in OnShard(b, s) :
                    is_active(b, d) /\ y.deals[d].status # "Slashed"}
<1>1. H \subseteq HeldShards(y)
    BY DEF HeldShards, OnShard
<1>2. Cardinality(H) >= K
    BY DEF RestorableUnslashed
<1>3. IsFiniteSet(HeldShards(y)) /\ live_shard_count(y) = Cardinality(HeldShards(y))
      /\ live_shard_count(y) \in Nat
    BY HeldIsLive
<1> HIDE DEF H
<1>4. IsFiniteSet(H) /\ Cardinality(H) <= Cardinality(HeldShards(y)) /\ Cardinality(H) \in Nat
    BY <1>1, <1>3, FS_Subset, FS_CardinalityType
<1> QED  BY <1>2, <1>3, <1>4, Numbers

\* A step that ends no deal, and lets tickets wait.
LEMMA NothingEnds ==
    ASSUME NEW b, BookInv(b), NEW y, BookInv(y), NEW pruned,
           DOMAIN b.deals \subseteq DOMAIN y.deals,
           \A d \in DOMAIN b.deals : y.deals[d] = b.deals[d],
           WaitsOrReplaced(b, y)
    PROVE  GoodStep(b, y, pruned)
<1>1. EndIsTicketed(b, y, pruned)
    BY DEF EndIsTicketed, is_active
<1>2. b \in BookSet /\ y \in BookSet
    BY DEF BookInv
<1>3. \A d \in DOMAIN b.deals : is_active(b, d) /\ y.deals[d].status # "Slashed" =>
         is_active(y, d) /\ y.deals[d].shard = b.deals[d].shard
    BY DEF is_active
<1>4. ObjectKept(b, y, pruned)
    BY <1>2, <1>3, StillHeld DEF ObjectKept
<1> QED  BY <1>1, <1>4 DEF GoodStep

LEMMA TicketsSame ==
    ASSUME NEW b, NEW y, y.reallocations = b.reallocations
    PROVE  WaitsOrReplaced(b, y)
BY DEF WaitsOrReplaced

LEMMA TermFields ==
    ASSUME NEW t \in Terms \cup Windows
    PROVE  t[1] \in Nat /\ t[2] \in Nat /\ t[1] < t[2]
BY StorageAssumption

-----------------------------------------------------------------------------
(* One lemma per action.                                                   *)

LEMMA OpenGood ==
    ASSUME StorageInv, NEW s \in Shards, NEW op \in Operators, NEW i \in Slots,
           NEW term \in Terms, open_storage_deal_with_escrow(s, op, Client, i, term)
    PROVE  GoodStep(Books, Books', ~registered')
<1>1. PICK b : b = Books
    OBVIOUS
<1>2. PICK x, y : x = Escrowed(b, op, Client, term) /\ y = open_deal(x, s, op, i, term)
    OBVIOUS
<1>3. BookInv(b) /\ Client \in Payers /\ i \in Slots \cup {0}
    BY <1>1, AccountsFinite DEF StorageInv
<1>4. term[1] \in Nat /\ term[2] \in Nat /\ term[1] < term[2]
    BY TermFields
<1>5. /\ b.balance[Client] >= total_fee(term[2] - term[1])
      /\ Debit(b, Client, total_fee(term[2] - term[1])).balance[op] >= Bond
      /\ Become(y)
    BY <1>1, <1>2, BooksFields DEF open_storage_deal_with_escrow, CanPayFee, CanPostBond
<1>6. /\ BookInv(x) /\ Worth(x) + Bond + total_fee(term[2] - term[1]) <= Supply
      /\ x.deals = b.deals /\ x.reallocations = b.reallocations
    BY <1>2, <1>3, <1>4, <1>5, EscrowedStep
<1>7. PICK d : d = Cardinality(DOMAIN x.deals)
    OBVIOUS
<1>8. /\ BookInv(y) /\ y.reallocations = x.reallocations
      /\ DOMAIN y.deals = DOMAIN x.deals \cup {d}
      /\ \A e \in DOMAIN x.deals : y.deals[e] = x.deals[e]
    BY <1>2, <1>3, <1>4, <1>6, <1>7, DealOpened
<1>9. Books' = y
    BY <1>5, <1>8, BecomeBooks DEF BookInv
<1>10. WaitsOrReplaced(b, y)
    BY <1>6, <1>8, TicketsSame
<1>11. GoodStep(b, y, ~registered')
    BY <1>3, <1>6, <1>8, <1>10, NothingEnds
<1> QED  BY <1>1, <1>9, <1>11

LEMMA AcceptGood ==
    ASSUME StorageInv, NEW t \in DOMAIN reallocations, NEW op \in Operators,
           NEW term \in Terms, accept_storage_reallocation_with_escrow(t, op, Client, term)
    PROVE  GoodStep(Books, Books', ~registered')
<1>1. PICK b : b = Books
    OBVIOUS
<1>2. PICK x, y : /\ x = Escrowed(b, op, Client, term)
                  /\ y = accept_reallocation_ticket(x, t, op, term)
    OBVIOUS
<1>3. BookInv(b) /\ Client \in Payers /\ t \in DOMAIN b.reallocations
    BY <1>1, AccountsFinite, BooksFields DEF StorageInv
<1>4. term[1] \in Nat /\ term[2] \in Nat /\ term[1] < term[2]
    BY TermFields
<1>5. /\ b.balance[Client] >= total_fee(term[2] - term[1])
      /\ Debit(b, Client, total_fee(term[2] - term[1])).balance[op] >= Bond
      /\ Become(y)
    BY <1>1, <1>2, BooksFields
       DEF accept_storage_reallocation_with_escrow, CanPayFee, CanPostBond
<1>6. /\ BookInv(x) /\ Worth(x) + Bond + total_fee(term[2] - term[1]) <= Supply
      /\ x.deals = b.deals /\ x.reallocations = b.reallocations
    BY <1>2, <1>3, <1>4, <1>5, EscrowedStep
<1>7. PICK d : d = Cardinality(DOMAIN x.deals)
    OBVIOUS
<1>8. /\ BookInv(y)
      /\ DOMAIN y.reallocations = DOMAIN x.reallocations
      /\ \A u \in DOMAIN x.reallocations : u # t => y.reallocations[u] = x.reallocations[u]
      /\ y.reallocations[t].replacement = d
      /\ DOMAIN y.deals = DOMAIN x.deals \cup {d}
      /\ y.deals[d].status = "Active"
      /\ y.deals[d].shard = y.reallocations[t].shard
      /\ y.deals[d].replica_index = y.reallocations[t].replica_index
      /\ \A e \in DOMAIN x.deals : y.deals[e] = x.deals[e]
  <2>1. t \in DOMAIN x.reallocations
    BY <1>3, <1>6
  <2> QED  BY <1>2, <1>4, <1>6, <1>7, <2>1, AcceptedStep
<1>9. Books' = y
    BY <1>5, <1>8, BecomeBooks DEF BookInv
<1>10. WaitsOrReplaced(b, y)
  <2>1. Replaced(y, t)
    BY <1>8 DEF Replaced
  <2> QED  BY <1>6, <1>8, <2>1 DEF WaitsOrReplaced
<1>11. GoodStep(b, y, ~registered')
    BY <1>3, <1>6, <1>8, <1>10, NothingEnds
<1> QED  BY <1>1, <1>9, <1>11

LEMMA ShortGood ==
    ASSUME StorageInv, NEW t, NEW op, NEW term \in Terms,
           AcceptShortOfBond(t, op, Client, term)
    PROVE  GoodStep(Books, Books', ~registered')
<1>1. PICK b, k, fee : b = Books /\ k = term[2] - term[1] /\ fee = total_fee(k)
    OBVIOUS
<1>2. PICK y : y = Debit(b, Client, fee)
    OBVIOUS
<1>3. BookInv(b) /\ Client \in Payers
    BY <1>1, AccountsFinite DEF StorageInv
<1>4. fee \in Nat
  <2>1. k \in Nat
    BY <1>1, TermFields
  <2> QED  BY <1>1, <2>1, FeeGrows
<1>5. fee <= b.balance[Client] /\ Become(y)
  <2>1. b.balance[Client] \in Nat
    BY <1>3, BookFields DEF BookInv
  <2>2. b.balance[Client] >= fee /\ Become(y)
    BY <1>1, <1>2, BooksFields DEF AcceptShortOfBond, CanPayFee
  <2> QED  BY <1>4, <2>1, <2>2
<1>6. BookInv(y) /\ y.deals = b.deals /\ y.reallocations = b.reallocations
    BY <1>2, <1>3, <1>4, <1>5, DebitStep
<1>7. Books' = y
    BY <1>5, <1>6, BecomeBooks DEF BookInv
<1>8. GoodStep(b, y, ~registered')
    BY <1>3, <1>6, TicketsSame, NothingEnds
<1> QED  BY <1>1, <1>7, <1>8

LEMMA ChallengeGood ==
    ASSUME StorageInv, NEW d \in DOMAIN deals, NEW window \in Windows,
           OpenStorageChallenge(Client, d, window)
    PROVE  GoodStep(Books, Books', ~registered')
<1>1. PICK b : b = Books
    OBVIOUS
<1>2. PICK x, y : x = Debit(b, Client, OpenerBond)
                  /\ y = open_challenge(x, d, window[1], window[2])
    OBVIOUS
<1>3. BookInv(b) /\ Client \in Payers /\ d \in DOMAIN b.deals
    BY <1>1, AccountsFinite, BooksFields DEF StorageInv
<1>4. window[1] \in Nat /\ window[2] \in Nat /\ OpenerBond \in Nat
    BY TermFields, Numbers
<1>5. OpenerBond <= b.balance[Client] /\ Become(y)
  <2>1. b.balance[Client] \in Nat
    BY <1>3, BookFields DEF BookInv
  <2>2. b.balance[Client] >= OpenerBond /\ Become(y)
    BY <1>1, <1>2, BooksFields DEF OpenStorageChallenge
  <2> QED  BY <1>4, <2>1, <2>2
<1>6. BookInv(x) /\ x.deals = b.deals /\ x.reallocations = b.reallocations
    BY <1>2, <1>3, <1>4, <1>5, DebitStep
<1>7. BookInv(y) /\ y.deals = x.deals /\ y.reallocations = x.reallocations
    BY <1>2, <1>3, <1>4, <1>6, ChallengeStep
<1>8. Books' = y
    BY <1>5, <1>7, BecomeBooks DEF BookInv
<1>9. GoodStep(b, y, ~registered')
    BY <1>3, <1>6, <1>7, TicketsSame, NothingEnds
<1> QED  BY <1>1, <1>8, <1>9

\* A wrong answer ends the deal without a ticket.
LEMMA AnswerGood ==
    ASSUME StorageInv, NEW c \in DOMAIN challenges, NEW proof \in BOOLEAN,
           AnswerStorageChallenge(c, proof)
    PROVE  GoodStep(Books, Books', ~registered')
<1>1. PICK b : b = Books
    OBVIOUS
<1>2. BookInv(b) /\ c \in DOMAIN b.challenges /\ Open(b, c)
      /\ is_active(b, b.challenges[c].deal)
    BY <1>1, BooksFields DEF StorageInv, AnswerStorageChallenge
<1>3. CASE proof
  <2>1. PICK y : y = [b EXCEPT !.results = Enter(b.results, c, "Answered")]
    OBVIOUS
  <2>2. Become(y)
    BY <1>1, <1>3, <2>1 DEF AnswerStorageChallenge
  <2>3. BookInv(y) /\ y.deals = b.deals /\ y.reallocations = b.reallocations
    BY <1>2, <2>1, AnswerStep
  <2>4. Books' = y
    BY <2>2, <2>3, BecomeBooks DEF BookInv
  <2>5. GoodStep(b, y, ~registered')
    BY <1>2, <2>3, TicketsSame, NothingEnds
  <2> QED  BY <1>1, <2>4, <2>5
<1>4. CASE ~proof
  <2>1. PICK y, d : y = Slashed(b, c, "Mismatched") /\ d = b.challenges[c].deal
    OBVIOUS
  <2>2. Become(y)
    BY <1>1, <1>4, <2>1 DEF AnswerStorageChallenge
  <2>3. /\ BookInv(y) /\ y.challenges = b.challenges
        /\ y.reallocations = b.reallocations
        /\ d \in DOMAIN b.deals /\ DOMAIN y.deals = DOMAIN b.deals
        /\ y.deals[d].status = "Slashed"
        /\ \A e \in DOMAIN b.deals : e # d => y.deals[e] = b.deals[e]
        /\ c \in Guilty(y, d) /\ y.results[c] = "Mismatched"
    BY <1>2, <2>1, SlashStep
  <2>4. Books' = y
    BY <2>2, <2>3, BecomeBooks DEF BookInv
  <2>5. EndIsTicketed(b, y, ~registered')
    BY <2>3 DEF EndIsTicketed, is_active
  <2>6. ObjectKept(b, y, ~registered')
    <3>1. b \in BookSet /\ y \in BookSet
      BY <1>2, <2>3 DEF BookInv
    <3>2. \A e \in DOMAIN b.deals : is_active(b, e) /\ y.deals[e].status # "Slashed" =>
             is_active(y, e) /\ y.deals[e].shard = b.deals[e].shard
      BY <2>3 DEF is_active
    <3> QED  BY <2>3, <3>1, <3>2, StillHeld DEF ObjectKept
  <2>7. GoodStep(b, y, ~registered')
    BY <2>3, <2>5, <2>6, TicketsSame DEF GoodStep
  <2> QED  BY <1>1, <2>4, <2>7
<1> QED  BY <1>3, <1>4

LEMMA CooldownsPruned ==
    ASSUME NEW b, BookInv(b), NEW lapsed, NEW x, x = prune_expired_cooldowns(b, lapsed)
    PROVE  BookInv(x) /\ x.deals = b.deals /\ x.reallocations = b.reallocations
<1>1. b \in BookSet /\ TicketsNumbered(b)
    BY DEF BookInv
<1>2. PICK cool : cool = b.cooldowns \ lapsed
    OBVIOUS
<1>3. x = [b EXCEPT !.cooldowns = cool]
    BY <1>2 DEF prune_expired_cooldowns
<1>4. /\ x.deals = b.deals /\ x.challenges = b.challenges /\ x.results = b.results
      /\ x.reallocations = b.reallocations /\ x.next = b.next
      /\ x.cooldowns = cool /\ x.paid = b.paid /\ x.balance = b.balance
      /\ x = [deals |-> x.deals, challenges |-> x.challenges, results |-> x.results,
              reallocations |-> x.reallocations, next |-> x.next,
              cooldowns |-> x.cooldowns, balance |-> x.balance, paid |-> x.paid]
  <2>1. b = [deals |-> b.deals, challenges |-> b.challenges, results |-> b.results,
             reallocations |-> b.reallocations, next |-> b.next,
             cooldowns |-> b.cooldowns, balance |-> b.balance, paid |-> b.paid]
    BY <1>1, BookFields
  <2> QED  BY ONLY <1>3, <2>1
<1>5. x \in BookSet
  <2>1. cool \in SUBSET Operators
    BY <1>1, <1>2, BookFields
  <2> QED  BY <1>1, <1>4, <2>1, BookFields, BookIntro
<1>6. TicketsNumbered(x)
    BY <1>1, <1>4 DEF TicketsNumbered
<1> QED  BY <1>4, <1>5, <1>6, OnlyTickets

LEMMA BlockGood ==
    ASSUME StorageInv, NEW vrf \in BOOLEAN, NEW lapsed, Block(vrf, lapsed)
    PROVE  GoodStep(Books, Books', ~registered') /\ epoch' \in Nat
<1>1. PICK b : b = Books
    OBVIOUS
<1>2. PICK x, y : x = prune_expired_cooldowns(b, lapsed)
                  /\ y = run_storage_maintenance(x, epoch', vrf)
    OBVIOUS
<1>3. BookInv(b) /\ epoch' \in Nat /\ Become(y)
    BY <1>1, <1>2 DEF StorageInv, Block
<1>4. BookInv(x) /\ x.deals = b.deals /\ x.reallocations = b.reallocations
    BY <1>2, <1>3, CooldownsPruned
<1>5. Maintained(x, y) /\ (RestorableUnslashed(x, y) => live_shard_count(y) >= K)
    BY <1>2, <1>3, <1>4, MaintenanceStep
<1>6. Books' = y
    BY <1>3, <1>5, BecomeBooks DEF Maintained, BookInv
<1>7. /\ \A d : is_active(x, d) <=> is_active(b, d)
      /\ \A d : Ticketed(x, d) <=> Ticketed(b, d)
      /\ \A s : OnShard(x, s) = OnShard(b, s)
    BY <1>4 DEF is_active, Ticketed, OnShard
<1>8. EndIsTicketed(b, y, ~registered')
    BY <1>4, <1>5, <1>7 DEF EndIsTicketed, Maintained
<1>9. WaitsOrReplaced(b, y)
    BY <1>4, <1>5 DEF WaitsOrReplaced, Maintained
<1>10. RestorableUnslashed(b, y) => RestorableUnslashed(x, y)
    BY <1>7 DEF RestorableUnslashed
<1>11. GoodStep(b, y, ~registered')
    BY <1>5, <1>8, <1>9, <1>10 DEF GoodStep, ObjectKept, Maintained
<1> QED  BY <1>1, <1>3, <1>6, <1>11

\* Nothing but the registration moves.
LEMMA SameBooks ==
    ASSUME StorageInv, Books' = Books
    PROVE  GoodStep(Books, Books', ~registered')
<1>1. PICK b : b = Books
    OBVIOUS
<1>2. BookInv(b)
    BY <1>1 DEF StorageInv
<1>3. GoodStep(b, b, ~registered')
    BY <1>2, TicketsSame, NothingEnds
<1> QED  BY <1>1, <1>3

\* A pruned object has no deals left; none of them costs more than before.
LEMMA PruneGood ==
    ASSUME StorageInv, prune_content
    PROVE  GoodStep(Books, Books', ~registered')
<1>1. PICK b, y : b = Books /\ y = Books'
    OBVIOUS
<1>2. BookInv(b)
    BY <1>1 DEF StorageInv
<1>3. b \in BookSet /\ PaidInTerm(b) /\ Linked(b) /\ Judged(b) /\ TicketsNumbered(b)
      /\ Worth(b) <= Supply
    BY <1>2 DEF BookInv
<1>4. /\ y.challenges = b.challenges /\ y.results = b.results
      /\ y.reallocations = b.reallocations /\ y.next = b.next
      /\ y.cooldowns = b.cooldowns /\ y.paid = b.paid /\ y.balance = b.balance
      /\ y = [deals |-> y.deals, challenges |-> y.challenges, results |-> y.results,
              reallocations |-> y.reallocations, next |-> y.next,
              cooldowns |-> y.cooldowns, balance |-> y.balance, paid |-> y.paid]
      /\ ~registered'
    BY <1>1 DEF prune_content, Books
<1>5. y.deals = [d \in DOMAIN b.deals |->
                   IF is_active(b, d) THEN [b.deals[d] EXCEPT !.status = "Expired"]
                                      ELSE b.deals[d]]
    BY <1>1, BooksFields DEF prune_content, Books
<1>6. ASSUME NEW d \in DOMAIN b.deals
      PROVE  /\ y.deals[d] \in DealRecord
             /\ y.deals[d].start = b.deals[d].start /\ y.deals[d].end = b.deals[d].end
             /\ y.deals[d].status = "Slashed" <=> b.deals[d].status = "Slashed"
             /\ ~is_active(y, d)
  <2>1. PICK r : r = b.deals[d]
    OBVIOUS
  <2>2. r \in DealRecord
    BY <1>3, <2>1, DealFields
  <2>3. CASE is_active(b, d)
    <3>1. y.deals[d] = [r EXCEPT !.status = "Expired"]
      BY <1>5, <2>1, <2>3
    <3>2. /\ [r EXCEPT !.status = "Expired"] \in DealRecord
          /\ [r EXCEPT !.status = "Expired"].start = r.start
          /\ [r EXCEPT !.status = "Expired"].end = r.end
          /\ [r EXCEPT !.status = "Expired"].status = "Expired"
      BY ONLY <2>2 DEF DealRecord
    <3> QED  BY <2>1, <2>3, <3>1, <3>2 DEF is_active
  <2>4. CASE ~is_active(b, d)
    <3>1. y.deals[d] = r
      BY <1>5, <2>1, <2>4
    <3> QED  BY <2>1, <2>2, <2>4, <3>1 DEF is_active
  <2> QED  BY <2>3, <2>4
<1>7. DOMAIN y.deals = DOMAIN b.deals
    BY <1>5
<1>8. y \in BookSet
  <2>1. PICK n \in Nat : DOMAIN b.deals = 0..(n - 1)
    BY <1>3, BookFields, ListedFacts
  <2>2. y.deals \in [0..(n - 1) -> DealRecord]
    <3>1. y.deals = [d \in DOMAIN b.deals |-> y.deals[d]]
      BY <1>5
    <3> QED  BY <1>6, <2>1, <3>1
  <2>3. y.deals \in Listed(DealRecord)
    BY <2>2, ListedIntro
  <2> QED  BY <1>3, <1>4, <2>3, BookFields, BookIntro
<1>9. PaidInTerm(y) /\ Linked(y) /\ TicketsNumbered(y)
    BY <1>3, <1>4, <1>6, <1>7 DEF PaidInTerm, Linked, TicketsNumbered
<1>10. Judged(y)
  <2>1. \A d : Guilty(y, d) = Guilty(b, d)
    BY <1>4 DEF Guilty
  <2> QED  BY <1>3, <1>6, <1>7, <2>1 DEF Judged
<1>11. Worth(y) <= Supply
  <2>1. \A d \in DOMAIN b.deals : Outstanding(y, d) <= Outstanding(b, d)
    <3>1. \A d \in DOMAIN b.deals : Outstanding(y, d) = 0
      BY <1>6 DEF Outstanding
    <3>2. \A d \in DOMAIN b.deals : Outstanding(b, d) \in Nat
      BY <1>3, DueIsNat
    <3> QED  BY <3>1, <3>2
  <2>2. SumFunction(Dues(y)) <= SumFunction(Dues(b))
    BY <1>3, <1>7, <1>8, <1>9, <2>1, DuesShrink
  <2>3. SumFunction(b.balance) \in Nat /\ SumFunction(Dues(b)) \in Nat
        /\ SumFunction(Dues(y)) \in Nat
    BY <1>3, <1>8, <1>9, BookFields, BalancesSum, DuesSum
  <2> QED  BY <1>3, <1>4, <2>2, <2>3, SupplyNat DEF Worth
<1>12. BookInv(y)
    BY <1>8, <1>9, <1>10, <1>11 DEF BookInv
<1>13. GoodStep(b, y, TRUE)
    BY <1>4, <1>12, TicketsSame DEF GoodStep, EndIsTicketed, ObjectKept
<1> QED  BY <1>1, <1>4, <1>13 DEF GoodStep, EndIsTicketed, ObjectKept

LEMMA StepGood ==
    ASSUME StorageInv, [DealNext]_dealVars
    PROVE  GoodStep(Books, Books', ~registered') /\ epoch' \in Nat
<1>0. epoch \in Nat
    BY DEF StorageInv
<1>1. ASSUME NEW s \in Shards, NEW op \in Operators, NEW i \in Slots, NEW term \in Terms,
             open_storage_deal_with_escrow(s, op, Client, i, term)
      PROVE  GoodStep(Books, Books', ~registered') /\ epoch' \in Nat
    BY <1>0, <1>1, OpenGood DEF open_storage_deal_with_escrow
<1>2. ASSUME NEW t \in DOMAIN reallocations, NEW op \in Operators, NEW term \in Terms,
             accept_storage_reallocation_with_escrow(t, op, Client, term)
      PROVE  GoodStep(Books, Books', ~registered') /\ epoch' \in Nat
    BY <1>0, <1>2, AcceptGood DEF accept_storage_reallocation_with_escrow
<1>3. ASSUME NEW t \in DOMAIN reallocations, NEW op \in Operators, NEW term \in Terms,
             AcceptShortOfBond(t, op, Client, term)
      PROVE  GoodStep(Books, Books', ~registered') /\ epoch' \in Nat
    BY <1>0, <1>3, ShortGood DEF AcceptShortOfBond
<1>4. ASSUME NEW d \in DOMAIN deals, NEW window \in Windows,
             OpenStorageChallenge(Client, d, window)
      PROVE  GoodStep(Books, Books', ~registered') /\ epoch' \in Nat
    BY <1>0, <1>4, ChallengeGood DEF OpenStorageChallenge
<1>5. ASSUME NEW c \in DOMAIN challenges, NEW proof \in BOOLEAN,
             AnswerStorageChallenge(c, proof)
      PROVE  GoodStep(Books, Books', ~registered') /\ epoch' \in Nat
    BY <1>0, <1>5, AnswerGood DEF AnswerStorageChallenge
<1>6. ASSUME NEW vrf \in BOOLEAN, NEW lapsed \in SUBSET operator_cooldowns, Block(vrf, lapsed)
      PROVE  GoodStep(Books, Books', ~registered') /\ epoch' \in Nat
    BY <1>6, BlockGood
<1>7. CASE RegisterStorageManifest
  <2>1. Books' = Books /\ epoch' = epoch
    BY <1>7 DEF RegisterStorageManifest, Books
  <2> QED  BY <1>0, <2>1, SameBooks
<1>8. CASE prune_content
    BY <1>0, <1>8, PruneGood DEF prune_content
<1>9. CASE UNCHANGED dealVars
  <2>1. Books' = Books /\ epoch' = epoch
    BY <1>9 DEF dealVars, Books
  <2> QED  BY <1>0, <2>1, SameBooks
<1> QED  BY <1>1, <1>2, <1>3, <1>4, <1>5, <1>6, <1>7, <1>8, <1>9 DEF DealNext

-----------------------------------------------------------------------------
(* The theorems.                                                           *)

LEMMA StorageInvPreserved == StorageInv /\ [DealNext]_dealVars => StorageInv'
<1> SUFFICES ASSUME StorageInv, [DealNext]_dealVars PROVE StorageInv'
    OBVIOUS
<1>1. GoodStep(Books, Books', ~registered') /\ epoch' \in Nat
    BY StepGood
<1>2. BookInv(Books')
    BY <1>1 DEF GoodStep
<1> QED  BY <1>1, <1>2 DEF StorageInv

LEMMA StorageInvImplies == StorageInv => BondsSettledOnce
<1> SUFFICES ASSUME StorageInv PROVE BondsSettledOnce
    OBVIOUS
<1>1. Judged(Books) /\ Worth(Books) <= Supply
    BY DEF StorageInv, BookInv
<1>2. SlashedOnce
  <2>1. Cardinality({}) = 0 /\ \A c : Cardinality({c}) = 1
    BY FS_EmptySet, FS_Singleton
  <2> QED  BY <1>1, <2>1, BooksFields DEF SlashedOnce, Judged
<1>3. Solvent
  <2>1. Dues(Books) = [d \in DOMAIN deals |-> Outstanding(Books, d)]
    BY BooksFields DEF Dues
  <2> QED  BY <1>1, <2>1, BooksFields DEF Solvent, Worth
<1> QED  BY <1>2, <1>3 DEF BondsSettledOnce

LEMMA StorageInvHolds == DealSpec => []StorageInv
BY InitStorage, StorageInvPreserved, PTL DEF DealSpec

\* A bond is settled once, for any operators, prices, funds and terms: a deal
\* is slashed for exactly one challenge, and the accounts and what the chain
\* still owes for active deals never exceed what there was at the start.
THEOREM BondsAreSettledOnce == DealSpec => []BondsSettledOnce
BY StorageInvHolds, StorageInvImplies, PTL

\* However many deals a block ends, each gap gets its ticket, and a ticket
\* waits until a deal on its slot has replaced the lost one.
THEOREM GapsAreTicketed == DealSpec => GapsStayTicketed
<1> DEFINE A ==
      /\ \A d \in DOMAIN deals : Ended(d) =>
            \/ Ticketed(Books, d)' \/ Ticketed(Books, d)
            \/ ~registered'
            \/ \E c \in Guilty(Books, d)' : results'[c] = "Mismatched"
      /\ \A t \in DOMAIN reallocations : Waiting(reallocations[t]) =>
            /\ t \in DOMAIN reallocations'
            /\ LET now == reallocations'[t] IN
               \/ Waiting(now)
               \/ /\ now.replacement \in DOMAIN deals'
                  /\ deals'[now.replacement].status = "Active"
                  /\ deals'[now.replacement].shard = now.shard
                  /\ deals'[now.replacement].replica_index = now.replica_index
<1>1. ASSUME StorageInv, [DealNext]_dealVars PROVE A
  <2>1. PICK b, y : b = Books /\ y = Books'
    OBVIOUS
  <2>2. EndIsTicketed(b, y, ~registered') /\ WaitsOrReplaced(b, y)
    BY <1>1, <2>1, StepGood DEF GoodStep
  <2>3. /\ b.deals = deals /\ b.reallocations = reallocations
        /\ y.deals = deals' /\ y.reallocations = reallocations' /\ y.results = results'
    BY <2>1 DEF Books
  <2>4. ASSUME NEW d \in DOMAIN deals, Ended(d)
        PROVE  \/ Ticketed(Books, d)' \/ Ticketed(Books, d)
               \/ ~registered'
               \/ \E c \in Guilty(Books, d)' : results'[c] = "Mismatched"
    <3>1. is_active(b, d) /\ ~is_active(y, d)
      BY <2>1, <2>4 DEF Ended, is_active
    <3>2. Ticketed(y, d) = Ticketed(Books, d)' /\ Guilty(y, d) = Guilty(Books, d)'
      BY <2>1 DEF Ticketed, Guilty
    <3> QED  BY <2>1, <2>2, <2>3, <3>1, <3>2 DEF EndIsTicketed
  <2>5. ASSUME NEW t \in DOMAIN reallocations, Waiting(reallocations[t])
        PROVE  /\ t \in DOMAIN reallocations'
               /\ Waiting(reallocations'[t]) \/ Replaced(y, t)
    BY <2>2, <2>3, <2>5 DEF WaitsOrReplaced
  <2> QED  BY <2>3, <2>4, <2>5 DEF Replaced
<1> HIDE DEF A
<1>2. DealSpec => [][A]_dealVars
    BY <1>1, StorageInvHolds, PTL DEF DealSpec
<1> QED  BY <1>2 DEF GapsStayTicketed, A

\* "A term ending must not be a way to lose an object": for any code, shards
\* and terms, an object that can be restored without the deals slashed in a
\* step can be restored after it.
THEOREM ObjectSurvivesExpiry == DealSpec => ExpiryKeepsObject
<1> DEFINE A ==
      (Cardinality(HeldUnslashed) >= K /\ registered') => live_shard_count(Books)' >= K
<1>1. ASSUME StorageInv, [DealNext]_dealVars PROVE A
  <2>1. PICK b, y : b = Books /\ y = Books'
    OBVIOUS
  <2>2. ObjectKept(b, y, ~registered')
    BY <1>1, <2>1, StepGood DEF GoodStep
  <2>3. y.deals = deals'
    BY <2>1 DEF Books
  <2>4. HeldUnslashed = {s \in Shards : \E d \in OnShard(b, s) :
                           is_active(b, d) /\ y.deals[d].status # "Slashed"}
    BY <2>1, <2>3 DEF HeldUnslashed
  <2>5. Cardinality(HeldUnslashed) >= K => RestorableUnslashed(b, y)
    BY <2>4 DEF RestorableUnslashed
  <2>6. live_shard_count(Books)' = live_shard_count(y)
    BY <2>1 DEF live_shard_count, active_replica_count, OnShard, is_active
  <2> QED  BY <2>2, <2>5, <2>6 DEF ObjectKept
<1> HIDE DEF A
<1>2. DealSpec => [][A]_dealVars
    BY <1>1, StorageInvHolds, PTL DEF DealSpec
<1> QED  BY <1>2 DEF ExpiryKeepsObject, A
==============================================================================
