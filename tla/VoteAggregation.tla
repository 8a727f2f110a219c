--------------------------- MODULE VoteAggregation ---------------------------
(***************************************************************************)
(* The two-round checkpoint vote that produces a FinalityCert:             *)
(*                                                                         *)
(*   - the FinalityAggregator of one node (src/src/chain/finality.rs),     *)
(*     started by the chain actor when a checkpoint block is added         *)
(*     (src/src/chain/chain_actor.rs) and fed by handle_prevote and        *)
(*     handle_precommit (src/src/chain/blockchain.rs);                     *)
(*   - the voting loop of a validator's node, the finality_interval arm    *)
(*     of the select loop in src/src/network/node.rs, with the vote marks  *)
(*     it keeps in memory and in the vote-history file.                    *)
(*                                                                         *)
(* A vote is one record; whatever was signed may reach any other node at   *)
(* any time, again, or never (gossip).  Faulty validators have signed      *)
(* every vote from the start and choose whom to send which.  Votes with an invalid signature are refused *)
(* before the aggregator is touched and are not modelled.  One validator   *)
(* set serves every epoch.  Applying a certificate is CheckpointFinality.  *)
(***************************************************************************)
EXTENDS Integers, Sequences, FiniteSets

CONSTANTS
    Validators,     \* the entries of the ValidatorSetSnapshot
    Faulty,         \* the validators that sign anything
    StakeOf,        \* StakeOf[S]: the stake held by a set S of validators
    Sent,           \* Sent[v]: the faulty validators' votes that may reach v
    Hashes,         \* block hashes a height can carry
    Interval,       \* finality_checkpoint_interval of the network
    EpochLen,       \* epoch_len of the network
    MaxHeight,      \* bound: length of a node's chain
    MaxMishaps      \* bound: crashes, reorgs and failed saves over all nodes

ASSUME StakeAssumption ==
    /\ IsFiniteSet(Validators)
    /\ Faulty \subseteq Validators
    /\ StakeOf \in [SUBSET Validators -> Nat]
    /\ \A S, T \in SUBSET Validators :
          /\ StakeOf[S \cup T] + StakeOf[S \cap T] = StakeOf[S] + StakeOf[T]
          /\ S \subseteq T => StakeOf[S] <= StakeOf[T]

ASSUME ParamAssumption ==
    /\ Interval \in Nat \ {0}
    /\ EpochLen \in Nat \ {0}
    /\ MaxHeight \in Nat
    /\ MaxMishaps \in Nat

VARIABLES
    chain,      \* chain[v]: hashes of the blocks 1..height of v's node (durable)
    agg,        \* agg[v]: finality_aggregator, a set of at most one record
    saving,     \* validators between publishing a vote and saving its mark
    marks,      \* last_prevote_height and last_precommit_height in memory
    saved,      \* the same two numbers in the vote-history file
    signed,     \* every vote an honest validator has signed and published
    certs,      \* every certificate produced, with its signers
    reports,    \* reports[v]: offenders v's node sent to the slashing registry
    forgetful,  \* validators whose crash lost the mark of a published vote
    mishaps     \* crashes, reorgs and failed saves so far

tickVars == <<saving, marks, saved>>
vars == <<chain, agg, tickVars, signed, certs, reports, forgetful, mishaps>>

Honest == Validators \ Faulty
Heights == 1..MaxHeight
Epochs == 0..MaxHeight
Votes == [kind : {"prevote", "precommit"}, epoch : Epochs, height : Heights,
          hash : Hashes, voter : Validators]
FaultyVotes == {m \in Votes : m.voter \in Faulty}

ASSUME SentAssumption == Sent \in [Honest -> SUBSET FaultyVotes]

-----------------------------------------------------------------------------
(* The validator set snapshot *)

TotalStake == StakeOf[Validators]

QuorumStake == (TotalStake * 2) \div 3 + 1
QuorumCount == (Cardinality(Validators) * 2 + 2) \div 3

\* Mutant: the threshold of a third of the stake.
QuorumThird(S) == StakeOf[S] >= TotalStake \div 3

Quorum(S) ==
    /\ StakeOf[S] >= QuorumStake
    /\ Cardinality(S) >= QuorumCount

-----------------------------------------------------------------------------
(* The aggregator.  seen holds the first vote of each round seen from each  *)
(* voter; the two quorum flags of the code are Quorum of the counted       *)
(* votes, since they are recomputed whenever a vote is counted.            *)

Aggregators ==
    [epoch : Epochs, height : Heights, hash : Hashes, prevote : SUBSET Validators,
     precommit : SUBSET Validators, seen : SUBSET Votes]

NewAggregator(h, hash) ==
    [epoch |-> h \div EpochLen, height |-> h, hash |-> hash,
     prevote |-> {}, precommit |-> {}, seen |-> {}]

IsCheckpoint(h) == h > 0 /\ h % Interval = 0

\* start_prevote_task, called for every checkpoint block that is added
StartedAggregator(v, h, hash) ==
    IF IsCheckpoint(h) THEN {NewAggregator(h, hash)} ELSE agg[v]

SameRound(s, m) == s.kind = m.kind /\ s.voter = m.voter

\* Mutant: a vote is compared with the aggregator's own checkpoint.
ConflictsWithTarget(a, m) == m.hash # a.hash

\* What detect_prevote_equivocation and detect_precommit_equivocation report
Conflicts(a, m) == \E s \in a.seen : SameRound(s, m) /\ s.hash # m.hash

\* seen_prevotes and seen_precommits keep the first vote of a voter
Seen(a, m) ==
    IF \E s \in a.seen : SameRound(s, m) THEN a ELSE [a EXCEPT !.seen = @ \cup {m}]

\* The checks before the signature: a vote that fails one changes nothing.
Admissible(a, m) ==
    /\ m.epoch = a.epoch
    /\ m.height = a.height
    /\ m.kind = "precommit" => Quorum(a.prevote)

\* The counting part of add_prevote and add_precommit.
Counted(a, m) ==
    IF m.hash = a.hash
    THEN IF m.kind = "prevote" THEN [a EXCEPT !.prevote = @ \cup {m.voter}]
                               ELSE [a EXCEPT !.precommit = @ \cup {m.voter}]
    ELSE a

Ingest(a, m) == Counted(Seen(a, m), m)

Certs == [epoch : Epochs, height : Heights, hash : Hashes, signers : SUBSET Validators]

\* The certificate try_produce_cert builds from the counted precommits.
CertOf(a) == [epoch |-> a.epoch, height |-> a.height, hash |-> a.hash,
              signers |-> a.precommit]

-----------------------------------------------------------------------------
(* The node: chain, voting loop, crash and restart *)

Height(v) == Len(chain[v])
CheckpointHeight(v) == (Height(v) \div Interval) * Interval

Marks == [prevote : Nat, precommit : Nat]
Zero == [prevote |-> 0, precommit |-> 0]

TypeOK ==
    /\ chain \in [Honest -> Seq(Hashes)]
    /\ agg \in [Honest -> SUBSET Aggregators]
    /\ saving \subseteq Honest
    /\ marks \in [Honest -> Marks]
    /\ saved \in [Honest -> Marks]
    /\ signed \subseteq Votes
    /\ certs \subseteq Certs
    /\ reports \in [Honest -> SUBSET Validators]
    /\ forgetful \subseteq Honest
    /\ mishaps \in 0..MaxMishaps

Init ==
    /\ chain = [v \in Honest |-> <<>>]
    /\ agg = [v \in Honest |-> {}]
    /\ saving = {}
    /\ marks = [v \in Honest |-> Zero]
    /\ saved = [v \in Honest |-> Zero]
    /\ signed = {}
    /\ certs = {}
    /\ reports = [v \in Honest |-> {}]
    /\ forgetful = {}
    /\ mishaps = 0

\* ProduceBlock and ValidateAndAddBlock of the chain actor
AddBlock(v, hash) ==
    /\ Height(v) < MaxHeight
    /\ chain' = [chain EXCEPT ![v] = Append(@, hash)]
    /\ agg' = [agg EXCEPT ![v] = StartedAggregator(v, Height(v) + 1, hash)]
    /\ UNCHANGED <<tickVars, signed, certs, reports, forgetful, mishaps>>

\* TryReorg of the chain actor: the aggregator of the replaced checkpoint stays
Reorg(v, candidate) ==
    /\ Len(candidate) >= Height(v) /\ Height(v) > 0
    /\ candidate # chain[v]
    /\ mishaps < MaxMishaps
    /\ mishaps' = mishaps + 1
    /\ chain' = [chain EXCEPT ![v] = candidate]
    /\ UNCHANGED <<agg, tickVars, signed, certs, reports, forgetful>>

\* handle_prevote and handle_precommit: a vote of another validator arrives
\* while the node's select loop is not inside the finality arm
HandleVote(v, m) ==
    /\ v \notin saving /\ m.voter # v
    /\ \E a \in agg[v] :
          /\ Admissible(a, m)
          /\ LET b == Ingest(a, m)
                 counted == m.kind = "precommit" /\ m.hash = a.hash /\ m.voter \notin a.precommit
                 done == counted /\ Quorum(b.precommit)
             IN  /\ agg' = [agg EXCEPT ![v] = IF done THEN {} ELSE {b}]
                 /\ certs' = IF done THEN certs \cup {CertOf(b)} ELSE certs
                 /\ reports' = [reports EXCEPT ![v] = @ \cup {w \in {m.voter} : Conflicts(a, m)}]
    /\ UNCHANGED <<chain, tickVars, signed, forgetful, mishaps>>

Vote(v, k, epoch, h, hash) ==
    [kind |-> k, epoch |-> epoch, height |-> h, hash |-> hash, voter |-> v]

\* The finality tick reads the height, then the aggregator, then the block, in
\* separate requests to the chain actor.  The height only grows, so a stale one
\* restricts the precommit no more than the current one does, and a prevote may
\* be for any checkpoint up to the current one.
MayPrecommit(v, a) ==
    /\ Quorum(a.prevote)
    /\ ~Quorum(a.precommit)
    /\ CheckpointHeight(v) > marks[v].precommit

\* auto-precommit: sign and publish, then remember the aggregator's height
AutoPrecommit(v) ==
    /\ v \notin saving
    /\ \E a \in agg[v] :
          /\ MayPrecommit(v, a)
          /\ signed' = signed \cup {Vote(v, "precommit", a.epoch, a.height, a.hash)}
          /\ marks' = [marks EXCEPT ![v].precommit = a.height]
    /\ saving' = saving \cup {v}
    /\ UNCHANGED <<chain, agg, saved, certs, reports, forgetful, mishaps>>

MayPrevote(v, h) ==
    /\ IsCheckpoint(h)
    /\ h <= Height(v)
    /\ h > marks[v].prevote

\* periodic prevote: its epoch is counted in checkpoint intervals
PeriodicPrevote(v, h) ==
    /\ v \notin saving
    /\ MayPrevote(v, h)
    /\ signed' = signed \cup {Vote(v, "prevote", h \div Interval, h, chain[v][h])}
    /\ marks' = [marks EXCEPT ![v].prevote = h]
    /\ saving' = saving \cup {v}
    /\ UNCHANGED <<chain, agg, saved, certs, reports, forgetful, mishaps>>

\* save_vote_history
SaveVoteHistory(v) ==
    /\ v \in saving
    /\ saved' = [saved EXCEPT ![v] = marks[v]]
    /\ saving' = saving \ {v}
    /\ UNCHANGED <<chain, agg, marks, signed, certs, reports, forgetful, mishaps>>

\* save_vote_history when the write fails: a warning, and the loop goes on
SaveFails(v) ==
    /\ v \in saving
    /\ mishaps < MaxMishaps
    /\ mishaps' = mishaps + 1
    /\ saving' = saving \ {v}
    /\ UNCHANGED <<chain, agg, marks, saved, signed, certs, reports, forgetful>>

\* Mutant: the file is not read at the start.
Restored_zero(v) == {Zero}

\* What load_vote_history finds after a crash: the file, or zero when the
\* crash hit the write and left the file unreadable
Restored(v) == IF v \in saving THEN {saved[v], Zero} ELSE {saved[v]}

CrashAndRestart(v) ==
    /\ mishaps < MaxMishaps
    /\ mishaps' = mishaps + 1
    /\ \E r \in Restored(v) :
          /\ marks' = [marks EXCEPT ![v] = r]
          /\ saved' = [saved EXCEPT ![v] = r]
    /\ forgetful' = IF saved[v] = marks[v] /\ v \notin saving
                    THEN forgetful ELSE forgetful \cup {v}
    /\ agg' = [agg EXCEPT ![v] = {}]
    /\ saving' = saving \ {v}
    /\ UNCHANGED <<chain, signed, certs, reports>>

Candidates == UNION {[1..n -> Hashes] : n \in Heights}

Next ==
    \E v \in Honest :
        \/ \E hash \in Hashes : AddBlock(v, hash)
        \/ \E c \in Candidates : Reorg(v, c)
        \/ \E m \in signed \cup Sent[v] : HandleVote(v, m)
        \/ AutoPrecommit(v)
        \/ \E h \in Heights : PeriodicPrevote(v, h)
        \/ SaveVoteHistory(v)
        \/ SaveFails(v)
        \/ CrashAndRestart(v)

Spec == Init /\ [][Next]_vars

-----------------------------------------------------------------------------
(* Properties *)

SameVote(m1, m2) ==
    m1.voter = m2.voter /\ m1.kind = m2.kind /\ m1.height = m2.height

\* An honest validator signs at most one hash per height and round, unless a
\* crash lost the mark of a vote it had published (last_prevote_height,
\* last_precommit_height and the vote-history file).  Its precommits need no
\* such exception: an aggregator is only started for a new tip.
SignsOnce ==
    \A m1, m2 \in signed :
        SameVote(m1, m2) /\ (m1.kind = "precommit" \/ m1.voter \notin forgetful)
            => m1.hash = m2.hash

\* Whatever crashed, was reorganised or was lost: two certificates for one
\* height with different hashes (try_produce_cert at two nodes) have signers
\* in common that hold more than a third of the stake, and every one of them
\* broke the protocol, so the two certificates alone name whom to slash.
AccountableSafety ==
    \A c1, c2 \in certs :
        c1.height = c2.height /\ c1.hash # c2.hash =>
            LET both == c1.signers \cap c2.signers
            IN  both \subseteq Faulty /\ 3 * StakeOf[both] > TotalStake

\* The aggregator reports (record_equivocation) no validator that kept the
\* protocol: only faulty ones, and those a crash made sign again.
ReportsSound ==
    \A v \in Honest : reports[v] \subseteq Faulty \cup forgetful

\* The voting loop and the network keep going.
FairSpec ==
    /\ Spec
    /\ \A v \in Honest :
          /\ WF_vars(\E hash \in Hashes : AddBlock(v, hash))
          /\ WF_vars(\E m \in signed \cup Sent[v] : HandleVote(v, m))
          /\ WF_vars(AutoPrecommit(v))
          /\ WF_vars(\E h \in Heights : PeriodicPrevote(v, h))
          /\ WF_vars(SaveVoteHistory(v))

\* docs/SPECIFICATION.md, 3.2.3: when every validator has broadcast a prevote
\* for one checkpoint, the quorum is detected and precommits follow.
PrevotesLeadToPrecommits ==
    \A h \in Heights, hash \in Hashes :
        (\A v \in Honest : \E m \in signed :
            m.voter = v /\ m.kind = "prevote" /\ m.height = h /\ m.hash = hash)
        ~> (\E m \in signed : m.kind = "precommit")
=============================================================================
