----------------------------- MODULE VoteProofs -----------------------------
(***************************************************************************)
(* Proofs about VoteAggregation: type correctness, at most one vote per    *)
(* height and round, accountability of conflicting certificates and        *)
(* soundness of the equivocation reports.                                  *)
(***************************************************************************)
EXTENDS VoteAggregation, TLAPS

-----------------------------------------------------------------------------
(* Stake *)

\* Two quorums share more than a third of the stake: quorum_stake is strictly
\* more than two thirds.
LEMMA QuorumsIntersect ==
    ASSUME NEW S \in SUBSET Validators, NEW T \in SUBSET Validators, Quorum(S), Quorum(T)
    PROVE  3 * StakeOf[S \cap T] > TotalStake
<1>1. S \cup T \in SUBSET Validators /\ S \cap T \in SUBSET Validators
  OBVIOUS
<1>2. StakeOf[S \cup T] + StakeOf[S \cap T] = StakeOf[S] + StakeOf[T]
  BY StakeAssumption
<1>3. StakeOf[S \cup T] <= TotalStake
  BY <1>1, StakeAssumption DEF TotalStake
<1>4. TotalStake \in Nat /\ StakeOf[S] \in Nat /\ StakeOf[T] \in Nat
      /\ StakeOf[S \cup T] \in Nat /\ StakeOf[S \cap T] \in Nat
  BY <1>1, StakeAssumption DEF TotalStake
<1>5. 3 * QuorumStake > 2 * TotalStake /\ QuorumStake \in Nat
  BY <1>4 DEF QuorumStake
<1>6. StakeOf[S] >= QuorumStake /\ StakeOf[T] >= QuorumStake
  BY DEF Quorum
<1> HIDE DEF QuorumStake, TotalStake
<1> QED
  BY <1>2, <1>3, <1>4, <1>5, <1>6

\* An epoch number is a natural number no larger than the height it is of.
LEMMA EpochBound ==
    ASSUME NEW h \in Nat, NEW e \in Nat \ {0}
    PROVE  h \div e \in 0..h
<1> DEFINE q == h \div e
           r == h % e
<1>1. q \in Int /\ r \in 0..(e - 1) /\ h = e * q + r
  OBVIOUS
<1>2. q >= 0
  <2> SUFFICES ASSUME q <= 0 - 1 PROVE FALSE
    BY <1>1
  <2>1. e * q <= e * (0 - 1)
    BY <1>1
  <2> QED
    BY <2>1, <1>1
<1>3. e * q >= q
  <2>1. (e - 1) * q >= 0
    BY <1>2, <1>1
  <2> QED
    BY <2>1, <1>1
<1> QED
  BY <1>1, <1>2, <1>3

-----------------------------------------------------------------------------
(* The inductive invariant *)

\* A vote is only signed by an honest validator, for a height it has.
SignedHonest ==
    \A m \in signed : m.voter \in Honest /\ m.height <= Height(m.voter)

\* There is at most one aggregator, for a height of the chain, and no precommit
\* of its validator at that height is for another hash.
AggregatorOfTip ==
    \A v \in Honest : \A a \in agg[v] :
        /\ a.height <= Height(v)
        /\ \A b \in agg[v] : a = b
        /\ \A m \in signed :
              m.voter = v /\ m.kind = "precommit" /\ m.height = a.height => m.hash = a.hash

\* The mark in memory covers every prevote, unless a crash lost it.
MarkCovers ==
    \A m \in signed :
        m.kind = "prevote" /\ m.voter \notin forgetful => m.height <= marks[m.voter].prevote

\* Some honest validator w signed a precommit for (h, hash).
Precommitted(w, h, hash) ==
    \E m \in signed : m.kind = "precommit" /\ m.voter = w /\ m.height = h /\ m.hash = hash

\* What the aggregator counted and saw was signed.
AggregatorBacked ==
    \A v \in Honest : \A a \in agg[v] :
        /\ \A w \in a.precommit : w \notin Faulty => Precommitted(w, a.height, a.hash)
        /\ a.seen \subseteq signed \cup FaultyVotes
        /\ \A s \in a.seen : s.height = a.height

\* A certificate carries a quorum of precommits that were signed.
CertBacked ==
    \A c \in certs :
        /\ Quorum(c.signers)
        /\ \A w \in c.signers : w \notin Faulty => Precommitted(w, c.height, c.hash)

IInv ==
    /\ TypeOK /\ SignedHonest /\ AggregatorOfTip /\ MarkCovers
    /\ SignsOnce /\ AggregatorBacked /\ CertBacked /\ ReportsSound

-----------------------------------------------------------------------------
(* Facts about the operators *)

\* Counting a vote keeps an aggregator's checkpoint and only adds the voter.
LEMMA IngestFacts ==
    ASSUME NEW a \in Aggregators, NEW m \in Votes
    PROVE  /\ Ingest(a, m) \in Aggregators
           /\ Ingest(a, m).height = a.height /\ Ingest(a, m).hash = a.hash
           /\ Ingest(a, m).epoch = a.epoch
           /\ Ingest(a, m).seen \subseteq a.seen \cup {m}
           /\ \A w \in Ingest(a, m).precommit :
                 w \in a.precommit
                 \/ (w = m.voter /\ m.kind = "precommit" /\ m.hash = a.hash)
<1>1. /\ Seen(a, m) \in Aggregators
      /\ Seen(a, m).height = a.height /\ Seen(a, m).hash = a.hash
      /\ Seen(a, m).epoch = a.epoch /\ Seen(a, m).precommit = a.precommit
      /\ Seen(a, m).seen \subseteq a.seen \cup {m}
  BY DEF Seen, Aggregators
<1>2. m.voter \in Validators /\ m.kind \in {"prevote", "precommit"}
  BY DEF Votes
<1> DEFINE s == Seen(a, m)
<1> HIDE DEF s
<1>3. s \in Aggregators
  BY <1>1 DEF s
<1>4. /\ Counted(s, m) \in Aggregators
      /\ Counted(s, m).height = s.height /\ Counted(s, m).hash = s.hash
      /\ Counted(s, m).epoch = s.epoch /\ Counted(s, m).seen = s.seen
      /\ \A w \in Counted(s, m).precommit :
            w \in s.precommit \/ (w = m.voter /\ m.kind = "precommit" /\ m.hash = s.hash)
  BY <1>2, <1>3 DEF Counted, Aggregators
<1> QED
  BY <1>1, <1>4 DEF Ingest, s

\* The record Vote builds is a vote.
LEMMA VoteType ==
    ASSUME NEW v \in Validators, NEW k \in {"prevote", "precommit"}, NEW e \in Epochs,
           NEW h \in Heights, NEW hash \in Hashes
    PROVE  /\ Vote(v, k, e, h, hash) \in Votes
           /\ Vote(v, k, e, h, hash).voter = v /\ Vote(v, k, e, h, hash).kind = k
           /\ Vote(v, k, e, h, hash).height = h /\ Vote(v, k, e, h, hash).hash = hash
BY DEF Vote, Votes

\* A replacement chain of try_reorg is a chain.
LEMMA CandidateIsChain ==
    ASSUME NEW c \in Candidates
    PROVE  c \in Seq(Hashes)
<1>1. PICK n \in Heights : c \in [1..n -> Hashes]
  BY DEF Candidates
<1>2. n \in Nat
  BY <1>1, ParamAssumption DEF Heights
<1> QED
  BY <1>1, <1>2

-----------------------------------------------------------------------------
(* One lemma per action *)

\* AddBlock grows the chain and starts an aggregator above every signed height.
LEMMA AddBlockStep ==
    ASSUME NEW v \in Honest, NEW hash \in Hashes, IInv, AddBlock(v, hash)
    PROVE  IInv'
<1> DEFINE h == Height(v) + 1
<1>0. TypeOK /\ SignedHonest /\ AggregatorOfTip /\ MarkCovers /\ SignsOnce
      /\ AggregatorBacked /\ CertBacked /\ ReportsSound
  BY DEF IInv
<1>1. chain[v] \in Seq(Hashes) /\ Height(v) \in Nat /\ h \in Nat /\ h <= MaxHeight
  BY <1>0, ParamAssumption DEF TypeOK, AddBlock, Height
<1>2. h \in Heights /\ h \div EpochLen \in Epochs
  <2>1. h \div EpochLen \in 0..h
    BY <1>1, EpochBound, ParamAssumption
  <2> QED
    BY <2>1, <1>1, ParamAssumption DEF Heights, Epochs
<1>3. chain' = [chain EXCEPT ![v] = Append(@, hash)]
      /\ agg' = [agg EXCEPT ![v] = StartedAggregator(v, h, hash)]
      /\ UNCHANGED <<saving, marks, saved, signed, certs, reports, forgetful, mishaps>>
  BY DEF AddBlock, tickVars
<1>4. /\ Height(v)' = h
      /\ \A w \in Honest : w # v => Height(w)' = Height(w)
      /\ \A w \in Honest : Height(w)' >= Height(w) /\ Height(w) \in Nat
  BY <1>0, <1>1, <1>3 DEF TypeOK, Height
<1>5. NewAggregator(h, hash) \in Aggregators
  BY <1>2 DEF NewAggregator, Aggregators
<1>6. \A w \in Honest : \A a \in agg'[w] :
         a \in agg[w] \/ (w = v /\ agg'[v] = {NewAggregator(h, hash)} /\ a = NewAggregator(h, hash))
  BY <1>0, <1>3 DEF TypeOK, StartedAggregator
<1>6b. \A w \in Honest : (w = v /\ agg'[v] = {NewAggregator(h, hash)}) \/ agg'[w] = agg[w]
  BY <1>0, <1>3 DEF TypeOK, StartedAggregator
<1> HIDE DEF h
<1>7. TypeOK'
  <2>1. chain' \in [Honest -> Seq(Hashes)]
    BY <1>0, <1>1, <1>3 DEF TypeOK
  <2>2. agg' \in [Honest -> SUBSET Aggregators]
    BY <1>0, <1>3, <1>5 DEF TypeOK, StartedAggregator
  <2> QED
    BY <2>1, <2>2, <1>0, <1>3 DEF TypeOK
<1>8. SignedHonest'
  <2> SUFFICES ASSUME NEW m \in signed
               PROVE  m.voter \in Honest /\ m.height <= Height(m.voter)'
    BY <1>3 DEF SignedHonest
  <2>1. m.voter \in Honest /\ m.height <= Height(m.voter) /\ m.height \in Nat
    BY <1>0, ParamAssumption DEF SignedHonest, TypeOK, Votes, Heights
  <2> QED
    BY <2>1, <1>4, <1>1
<1>9. AggregatorOfTip'
  <2> SUFFICES ASSUME NEW w \in Honest, NEW a \in agg'[w]
               PROVE  /\ a.height <= Height(w)'
                      /\ \A b \in agg'[w] : a = b
                      /\ \A m \in signed :
                            m.voter = w /\ m.kind = "precommit" /\ m.height = a.height
                              => m.hash = a.hash
    BY <1>3 DEF AggregatorOfTip
  <2>1. CASE w = v /\ agg'[v] = {NewAggregator(h, hash)}
    <3>1. a.height = h /\ \A b \in agg'[w] : a = b
      BY <2>1 DEF NewAggregator
    <3>2. \A m \in signed : m.voter = v => m.height < h
      BY <1>0, <1>1, ParamAssumption DEF SignedHonest, TypeOK, Votes, Heights, h
    <3> QED
      BY <3>1, <3>2, <2>1, <1>4, <1>1, <1>0, ParamAssumption DEF TypeOK, Votes, Heights
  <2>2. CASE agg'[w] = agg[w]
    <3>1. a \in agg[w] /\ a.height \in Nat
      BY <2>2, <1>0, ParamAssumption DEF TypeOK, Aggregators, Heights
    <3> QED
      BY <3>1, <2>2, <1>0, <1>4, <1>1 DEF AggregatorOfTip
  <2> QED
    BY <2>1, <2>2, <1>6b
<1>10. MarkCovers' /\ SignsOnce' /\ CertBacked' /\ ReportsSound'
  BY <1>0, <1>3 DEF MarkCovers, SignsOnce, CertBacked, ReportsSound, Precommitted, SameVote
<1>11. AggregatorBacked'
  <2> SUFFICES ASSUME NEW w \in Honest, NEW a \in agg'[w]
               PROVE  /\ \A x \in a.precommit : x \notin Faulty => Precommitted(x, a.height, a.hash)
                      /\ a.seen \subseteq signed \cup FaultyVotes
                      /\ \A s \in a.seen : s.height = a.height
    BY <1>3 DEF AggregatorBacked, Precommitted
  <2>1. CASE a \in agg[w]
    BY <2>1, <1>0 DEF AggregatorBacked
  <2>2. CASE a = NewAggregator(h, hash)
    BY <2>2 DEF NewAggregator
  <2> QED
    BY <2>1, <2>2, <1>6
<1> QED
  BY <1>7, <1>8, <1>9, <1>10, <1>11 DEF IInv

\* try_reorg replaces the chain by one that is not shorter.
LEMMA ReorgStep ==
    ASSUME NEW v \in Honest, NEW c \in Candidates, IInv, Reorg(v, c)
    PROVE  IInv'
<1>0. TypeOK /\ SignedHonest /\ AggregatorOfTip /\ MarkCovers /\ SignsOnce
      /\ AggregatorBacked /\ CertBacked /\ ReportsSound
  BY DEF IInv
<1>1. c \in Seq(Hashes) /\ Len(c) \in Nat
  BY CandidateIsChain
<1>2. chain' = [chain EXCEPT ![v] = c] /\ Len(c) >= Height(v)
      /\ mishaps' = mishaps + 1 /\ mishaps < MaxMishaps
      /\ UNCHANGED <<agg, saving, marks, saved, signed, certs, reports, forgetful>>
  BY DEF Reorg, tickVars
<1>3. \A w \in Honest : Height(w)' >= Height(w) /\ Height(w) \in Nat /\ Height(w)' \in Nat
  BY <1>0, <1>1, <1>2 DEF TypeOK, Height
<1>4. TypeOK'
  BY <1>0, <1>1, <1>2, ParamAssumption DEF TypeOK
<1>5. SignedHonest'
  <2> SUFFICES ASSUME NEW m \in signed
               PROVE  m.voter \in Honest /\ m.height <= Height(m.voter)'
    BY <1>2 DEF SignedHonest
  <2>1. m.voter \in Honest /\ m.height <= Height(m.voter) /\ m.height \in Nat
    BY <1>0, ParamAssumption DEF SignedHonest, TypeOK, Votes, Heights
  <2> QED
    BY <2>1, <1>3
<1>6. AggregatorOfTip'
  <2> SUFFICES ASSUME NEW w \in Honest, NEW a \in agg[w]
               PROVE  /\ a.height <= Height(w)'
                      /\ \A b \in agg[w] : a = b
                      /\ \A m \in signed :
                            m.voter = w /\ m.kind = "precommit" /\ m.height = a.height
                              => m.hash = a.hash
    BY <1>2 DEF AggregatorOfTip
  <2>1. a.height \in Nat
    BY <1>0, ParamAssumption DEF TypeOK, Aggregators, Heights
  <2> QED
    BY <2>1, <1>0, <1>3 DEF AggregatorOfTip
<1>7. MarkCovers' /\ SignsOnce' /\ CertBacked' /\ ReportsSound' /\ AggregatorBacked'
  BY <1>0, <1>2 DEF MarkCovers, SignsOnce, CertBacked, ReportsSound, AggregatorBacked, Precommitted, SameVote
<1> QED
  BY <1>4, <1>5, <1>6, <1>7 DEF IInv

\* A vote that was signed is counted, perhaps completes the certificate, and is
\* reported only when its voter signed two hashes.
LEMMA HandleVoteStep ==
    ASSUME NEW v \in Honest, NEW m \in signed \cup FaultyVotes, IInv, HandleVote(v, m)
    PROVE  IInv'
<1>0. TypeOK /\ SignedHonest /\ AggregatorOfTip /\ MarkCovers /\ SignsOnce
      /\ AggregatorBacked /\ CertBacked /\ ReportsSound
  BY DEF IInv
<1>1. PICK a \in agg[v] :
         /\ Admissible(a, m)
         /\ agg' \in {[agg EXCEPT ![v] = {}], [agg EXCEPT ![v] = {Ingest(a, m)}]}
         /\ certs' = certs \/ (Quorum(Ingest(a, m).precommit)
                                /\ certs' = certs \cup {CertOf(Ingest(a, m))})
         /\ reports' = [reports EXCEPT ![v] = @ \cup {w \in {m.voter} : Conflicts(a, m)}]
  BY Zenon DEF HandleVote
<1>2. UNCHANGED <<chain, saving, marks, saved, signed, forgetful, mishaps>>
  BY DEF HandleVote, tickVars
<1>3. m \in Votes /\ a \in Aggregators /\ m.height = a.height
  BY <1>0, <1>1 DEF TypeOK, FaultyVotes, Admissible
<1> DEFINE b == Ingest(a, m)
<1>4. /\ b \in Aggregators /\ b.height = a.height /\ b.hash = a.hash /\ b.epoch = a.epoch
      /\ b.seen \subseteq a.seen \cup {m}
      /\ \A w \in b.precommit :
            w \in a.precommit \/ (w = m.voter /\ m.kind = "precommit" /\ m.hash = a.hash)
  BY <1>3, IngestFacts
<1>4a. agg' \in {[agg EXCEPT ![v] = {}], [agg EXCEPT ![v] = {b}]}
       /\ (certs' = certs \/ (Quorum(b.precommit) /\ certs' = certs \cup {CertOf(b)}))
  BY <1>1
<1> HIDE DEF b
<1>5. \A w \in b.precommit : w \notin Faulty => Precommitted(w, a.height, a.hash)
  <2> SUFFICES ASSUME NEW w \in b.precommit, w \notin Faulty
               PROVE  Precommitted(w, a.height, a.hash)
    OBVIOUS
  <2>1. CASE w \in a.precommit
    BY <2>1, <1>0, <1>1 DEF AggregatorBacked
  <2>2. CASE w = m.voter /\ m.kind = "precommit" /\ m.hash = a.hash
    <3>1. m \in signed
      BY <2>2 DEF FaultyVotes
    <3> QED
      BY <3>1, <2>2, <1>3 DEF Precommitted
  <2> QED
    BY <2>1, <2>2, <1>4
<1>6. \A w \in Honest : agg'[w] = agg[w] \/ (w = v /\ agg'[w] \subseteq {b})
  BY <1>0, <1>4a DEF TypeOK
<1>7. TypeOK'
  <2>1. agg' \in [Honest -> SUBSET Aggregators]
    BY <1>0, <1>4, <1>4a, ZenonT(30) DEF TypeOK
  <2>2. certs' \subseteq Certs
    <3>1. CertOf(b) \in Certs
      BY <1>4 DEF CertOf, Certs, Aggregators
    <3> QED
      BY <3>1, <1>0, <1>4a DEF TypeOK
  <2>3. reports' \in [Honest -> SUBSET Validators]
    <3>1. {w \in {m.voter} : Conflicts(a, m)} \subseteq Validators
      BY <1>3 DEF Votes
    <3> QED
      BY <3>1, <1>0, <1>1 DEF TypeOK
  <2> QED
    BY <2>1, <2>2, <2>3, <1>0, <1>2 DEF TypeOK
<1>8. SignedHonest' /\ MarkCovers' /\ SignsOnce'
  BY <1>0, <1>2 DEF SignedHonest, MarkCovers, SignsOnce, SameVote, Height
<1>9. AggregatorOfTip'
  <2> SUFFICES ASSUME NEW w \in Honest, NEW x \in agg'[w]
               PROVE  /\ x.height <= Height(w)
                      /\ \A y \in agg'[w] : x = y
                      /\ \A k \in signed :
                            k.voter = w /\ k.kind = "precommit" /\ k.height = x.height
                              => k.hash = x.hash
    BY <1>2 DEF AggregatorOfTip, Height
  <2>1. CASE agg'[w] = agg[w]
    BY <2>1, <1>0 DEF AggregatorOfTip
  <2>2. CASE w = v /\ agg'[w] \subseteq {b}
    BY <2>2, <1>0, <1>1, <1>4 DEF AggregatorOfTip
  <2> QED
    BY <2>1, <2>2, <1>6
<1>10. AggregatorBacked'
  <2> SUFFICES ASSUME NEW w \in Honest, NEW x \in agg'[w]
               PROVE  /\ \A y \in x.precommit : y \notin Faulty => Precommitted(y, x.height, x.hash)
                      /\ x.seen \subseteq signed \cup FaultyVotes
                      /\ \A s \in x.seen : s.height = x.height
    BY <1>2 DEF AggregatorBacked, Precommitted
  <2>1. CASE agg'[w] = agg[w]
    BY <2>1, <1>0 DEF AggregatorBacked
  <2>2. CASE w = v /\ agg'[w] \subseteq {b}
    <3>1. x = b
      BY <2>2
    <3>2. a.seen \subseteq signed \cup FaultyVotes /\ \A s \in a.seen : s.height = a.height
      BY <1>0, <1>1 DEF AggregatorBacked
    <3> QED
      BY <3>1, <3>2, <1>3, <1>4, <1>5
  <2> QED
    BY <2>1, <2>2, <1>6
<1>11. CertBacked'
  <2> SUFFICES ASSUME NEW c \in certs'
               PROVE  /\ Quorum(c.signers)
                      /\ \A w \in c.signers : w \notin Faulty => Precommitted(w, c.height, c.hash)
    BY <1>2 DEF CertBacked, Precommitted
  <2>1. CASE c \in certs
    BY <2>1, <1>0 DEF CertBacked
  <2>2. CASE Quorum(b.precommit) /\ c = CertOf(b)
    BY <2>2, <1>4, <1>5 DEF CertOf
  <2> QED
    BY <2>1, <2>2, <1>4a
<1>12. ReportsSound'
  <2>1. Conflicts(a, m) => m.voter \in Faulty \cup forgetful
    <3> SUFFICES ASSUME Conflicts(a, m), m.voter \notin Faulty
                 PROVE  m.voter \in forgetful
      OBVIOUS
    <3>1. PICK s \in a.seen : s.kind = m.kind /\ s.voter = m.voter /\ s.hash # m.hash
      BY DEF Conflicts, SameRound
    <3>2. s \in signed \cup FaultyVotes /\ s.height = a.height
      BY <3>1, <1>0, <1>1 DEF AggregatorBacked
    <3>3. s \in signed /\ m \in signed /\ SameVote(s, m)
      BY <3>1, <3>2, <1>3 DEF FaultyVotes, SameVote
    <3> QED
      BY <3>1, <3>3, <1>0 DEF SignsOnce
  <2>2. \A w \in Honest : reports'[w] \subseteq reports[w] \cup {x \in {m.voter} : Conflicts(a, m)}
    BY <1>0, <1>1 DEF TypeOK
  <2> QED
    BY <2>1, <2>2, <1>0, <1>2 DEF ReportsSound
<1> QED
  BY <1>7, <1>8, <1>9, <1>10, <1>11, <1>12 DEF IInv

\* The precommit is for the aggregator's hash, the only one ever signed there.
LEMMA AutoPrecommitStep ==
    ASSUME NEW v \in Honest, IInv, AutoPrecommit(v)
    PROVE  IInv'
<1>0. TypeOK /\ SignedHonest /\ AggregatorOfTip /\ MarkCovers /\ SignsOnce
      /\ AggregatorBacked /\ CertBacked /\ ReportsSound
  BY DEF IInv
<1>1. PICK a \in agg[v] :
         /\ signed' = signed \cup {Vote(v, "precommit", a.epoch, a.height, a.hash)}
         /\ marks' = [marks EXCEPT ![v].precommit = a.height]
  BY DEF AutoPrecommit
<1>2. saving' = saving \cup {v}
      /\ UNCHANGED <<chain, agg, saved, certs, reports, forgetful, mishaps>>
  BY DEF AutoPrecommit
<1> DEFINE m == Vote(v, "precommit", a.epoch, a.height, a.hash)
<1>3. a \in Aggregators /\ v \in Validators
  BY <1>0, <1>1 DEF TypeOK, Honest
<1>4. m \in Votes /\ m.voter = v /\ m.kind = "precommit" /\ m.height = a.height /\ m.hash = a.hash
  BY <1>3, VoteType DEF Aggregators
<1>4a. signed' = signed \cup {m}
  BY <1>1
<1> HIDE DEF m
<1>5. \A k \in signed : k.voter = v /\ k.kind = "precommit" /\ k.height = m.height => k.hash = m.hash
  BY <1>0, <1>1, <1>4 DEF AggregatorOfTip
<1>6. \A w \in Honest : marks'[w].prevote = marks[w].prevote
  BY <1>0, <1>1 DEF TypeOK, Marks
<1>7. TypeOK'
  <2>1. a.height \in Nat
    BY <1>3, ParamAssumption DEF Aggregators, Heights
  <2>2. marks' \in [Honest -> Marks]
    BY <2>1, <1>0, <1>1 DEF TypeOK, Marks
  <2> QED
    BY <2>2, <1>0, <1>2, <1>4, <1>4a DEF TypeOK
<1>8. SignedHonest'
  BY <1>0, <1>1, <1>2, <1>4, <1>4a DEF SignedHonest, Height, AggregatorOfTip
<1>9. AggregatorOfTip'
  <2> SUFFICES ASSUME NEW w \in Honest, NEW x \in agg[w]
               PROVE  /\ x.height <= Height(w)
                      /\ \A y \in agg[w] : x = y
                      /\ \A k \in signed' :
                            k.voter = w /\ k.kind = "precommit" /\ k.height = x.height
                              => k.hash = x.hash
    BY <1>2 DEF AggregatorOfTip, Height
  <2>1. w = v => x = a
    BY <1>0, <1>1 DEF AggregatorOfTip
  <2> QED
    BY <2>1, <1>0, <1>4, <1>4a DEF AggregatorOfTip
<1>10. MarkCovers'
  BY <1>0, <1>2, <1>4, <1>4a, <1>6 DEF MarkCovers, SignedHonest
<1>11. SignsOnce'
  BY <1>0, <1>2, <1>4, <1>4a, <1>5 DEF SignsOnce, SameVote
<1>12. AggregatorBacked' /\ CertBacked'
  <2>1. \A w, h, hash : Precommitted(w, h, hash) => Precommitted(w, h, hash)'
    BY <1>4a DEF Precommitted
  <2> QED
    BY <2>1, <1>0, <1>2, <1>4a DEF AggregatorBacked, CertBacked
<1>13. ReportsSound'
  BY <1>0, <1>2 DEF ReportsSound
<1> QED
  BY <1>7, <1>8, <1>9, <1>10, <1>11, <1>12, <1>13 DEF IInv

\* The prevote is above the mark, hence above every prevote signed before.
LEMMA PeriodicPrevoteStep ==
    ASSUME NEW v \in Honest, NEW h \in Heights, IInv, PeriodicPrevote(v, h)
    PROVE  IInv'
<1>0. TypeOK /\ SignedHonest /\ AggregatorOfTip /\ MarkCovers /\ SignsOnce
      /\ AggregatorBacked /\ CertBacked /\ ReportsSound
  BY DEF IInv
<1> DEFINE m == Vote(v, "prevote", h \div Interval, h, chain[v][h])
<1>1. signed' = signed \cup {m}
      /\ marks' = [marks EXCEPT ![v].prevote = h]
      /\ saving' = saving \cup {v}
      /\ UNCHANGED <<chain, agg, saved, certs, reports, forgetful, mishaps>>
      /\ h <= Height(v) /\ h > marks[v].prevote
  BY DEF PeriodicPrevote, MayPrevote
<1>2. h \in Nat /\ h > 0 /\ v \in Validators
  BY ParamAssumption DEF Heights, Honest
<1>3. h \div Interval \in Epochs
  <2>1. h \div Interval \in 0..h
    BY <1>2, EpochBound, ParamAssumption
  <2> QED
    BY <2>1, <1>2, ParamAssumption DEF Heights, Epochs
<1>4. chain[v][h] \in Hashes
  BY <1>0, <1>1, <1>2 DEF TypeOK, Height
<1>5. m \in Votes /\ m.voter = v /\ m.kind = "prevote" /\ m.height = h
  BY <1>2, <1>3, <1>4, VoteType
<1> HIDE DEF m
<1>6. /\ marks' \in [Honest -> Marks]
      /\ marks'[v].prevote = h
      /\ \A w \in Honest : w # v => marks'[w] = marks[w]
      /\ marks[v].prevote \in Nat
  BY <1>0, <1>1, <1>2 DEF TypeOK, Marks
<1>7. TypeOK'
  BY <1>0, <1>1, <1>5, <1>6 DEF TypeOK
<1>8. SignedHonest'
  BY <1>0, <1>1, <1>5 DEF SignedHonest, Height
<1>9. AggregatorOfTip'
  BY <1>0, <1>1, <1>5 DEF AggregatorOfTip, Height
<1>10. MarkCovers'
  <2> SUFFICES ASSUME NEW k \in signed', k.kind = "prevote", k.voter \notin forgetful
               PROVE  k.height <= marks'[k.voter].prevote
    BY <1>1 DEF MarkCovers
  <2>1. CASE k = m
    BY <2>1, <1>2, <1>5, <1>6
  <2>2. CASE k \in signed
    <3>1. k.voter \in Honest /\ k.height <= marks[k.voter].prevote /\ k.height \in Nat
      BY <2>2, <1>0, ParamAssumption DEF SignedHonest, MarkCovers, TypeOK, Votes, Heights
    <3> QED
      BY <3>1, <1>1, <1>2, <1>6
  <2> QED
    BY <2>1, <2>2, <1>1
<1>11. SignsOnce'
  <2>1. \A k \in signed : k.kind = "prevote" /\ k.voter = v /\ v \notin forgetful => k.height < h
    BY <1>0, <1>1, <1>2, <1>6, ParamAssumption DEF MarkCovers, TypeOK, Votes, Heights
  <2>2. \A k \in signed : SameVote(k, m) \/ SameVote(m, k) => v \in forgetful
    BY <2>1, <1>2, <1>5 DEF SameVote
  <2> QED
    BY <2>2, <1>0, <1>1, <1>5 DEF SignsOnce, SameVote
<1>12. AggregatorBacked' /\ CertBacked'
  <2>1. \A w, g, hash : Precommitted(w, g, hash) => Precommitted(w, g, hash)'
    BY <1>1 DEF Precommitted
  <2> QED
    BY <2>1, <1>0, <1>1 DEF AggregatorBacked, CertBacked
<1>13. ReportsSound'
  BY <1>0, <1>1 DEF ReportsSound
<1> QED
  BY <1>7, <1>8, <1>9, <1>10, <1>11, <1>12, <1>13 DEF IInv

\* Saving the marks, or failing to, changes no vote.
LEMMA SaveStep ==
    ASSUME NEW v \in Honest, IInv, SaveVoteHistory(v) \/ SaveFails(v)
    PROVE  IInv'
<1>0. TypeOK /\ SignedHonest /\ AggregatorOfTip /\ MarkCovers /\ SignsOnce
      /\ AggregatorBacked /\ CertBacked /\ ReportsSound
  BY DEF IInv
<1>1. UNCHANGED <<chain, agg, marks, signed, certs, reports, forgetful>>
  BY DEF SaveVoteHistory, SaveFails
<1>2. TypeOK'
  <2>1. saved' \in [Honest -> Marks] /\ saving' \subseteq Honest
    BY <1>0 DEF TypeOK, SaveVoteHistory, SaveFails
  <2>2. mishaps' \in 0..MaxMishaps
    BY <1>0, ParamAssumption DEF TypeOK, SaveVoteHistory, SaveFails
  <2> QED
    BY <2>1, <2>2, <1>0, <1>1 DEF TypeOK
<1>3. SignedHonest' /\ AggregatorOfTip' /\ MarkCovers'
  BY <1>0, <1>1 DEF SignedHonest, AggregatorOfTip, MarkCovers, Height
<1>4. SignsOnce' /\ AggregatorBacked' /\ CertBacked' /\ ReportsSound'
  BY <1>0, <1>1 DEF SignsOnce, AggregatorBacked, CertBacked, ReportsSound, Precommitted, SameVote
<1> QED
  BY <1>2, <1>3, <1>4 DEF IInv

\* A restarted node has no aggregator; its marks are the saved ones.
LEMMA CrashStep ==
    ASSUME NEW v \in Honest, IInv, CrashAndRestart(v)
    PROVE  IInv'
<1>0. TypeOK /\ SignedHonest /\ AggregatorOfTip /\ MarkCovers /\ SignsOnce
      /\ AggregatorBacked /\ CertBacked /\ ReportsSound
  BY DEF IInv
<1>1. PICK r \in Restored(v) :
         marks' = [marks EXCEPT ![v] = r] /\ saved' = [saved EXCEPT ![v] = r]
  BY DEF CrashAndRestart
<1>2. /\ forgetful' = IF saved[v] = marks[v] /\ v \notin saving
                      THEN forgetful ELSE forgetful \cup {v}
      /\ agg' = [agg EXCEPT ![v] = {}]
      /\ saving' = saving \ {v}
      /\ mishaps' = mishaps + 1 /\ mishaps < MaxMishaps
      /\ UNCHANGED <<chain, signed, certs, reports>>
  BY DEF CrashAndRestart
<1>3. r \in Marks
  BY <1>0, <1>1 DEF Restored, TypeOK, Zero, Marks
<1>4. \A w \in Honest : agg'[w] \subseteq agg[w]
  BY <1>0, <1>2 DEF TypeOK
<1>5. TypeOK'
  BY <1>0, <1>1, <1>2, <1>3, ParamAssumption DEF TypeOK
<1>6. SignedHonest'
  BY <1>0, <1>2 DEF SignedHonest, Height
<1>7. AggregatorOfTip'
  BY <1>0, <1>2, <1>4 DEF AggregatorOfTip, Height
<1>8. forgetful \subseteq forgetful' /\ \A w \in Honest : w \notin forgetful' => marks'[w] = marks[w]
  <2> SUFFICES ASSUME NEW w \in Honest, w \notin forgetful'
               PROVE  marks'[w] = marks[w]
    BY <1>2
  <2>1. CASE w = v
    <3>1. saved[v] = marks[v] /\ v \notin saving
      BY <2>1, <1>2
    <3>2. r = saved[v]
      BY <3>1, <1>1 DEF Restored
    <3> QED
      BY <3>1, <3>2, <2>1, <1>0, <1>1 DEF TypeOK
  <2>2. CASE w # v
    BY <2>2, <1>0, <1>1 DEF TypeOK
  <2> QED
    BY <2>1, <2>2
<1>9. MarkCovers'
  BY <1>0, <1>2, <1>8 DEF MarkCovers, SignedHonest
<1>10. SignsOnce' /\ ReportsSound'
  BY <1>0, <1>2, <1>8 DEF SignsOnce, ReportsSound, SameVote
<1>11. AggregatorBacked' /\ CertBacked'
  BY <1>0, <1>2, <1>4 DEF AggregatorBacked, CertBacked, Precommitted
<1> QED
  BY <1>5, <1>6, <1>7, <1>9, <1>10, <1>11 DEF IInv

-----------------------------------------------------------------------------
(* The theorems *)

\* The invariant holds in every reachable state of the vote protocol.
THEOREM VoteInvariant == Spec => []IInv
<1>1. Init => IInv
  <2> SUFFICES ASSUME Init PROVE IInv
    OBVIOUS
  <2>1. TypeOK
    BY ParamAssumption DEF Init, TypeOK, Zero, Marks
  <2>2. SignedHonest /\ AggregatorOfTip /\ MarkCovers /\ SignsOnce
        /\ AggregatorBacked /\ CertBacked /\ ReportsSound
    BY DEF Init, SignedHonest, AggregatorOfTip, MarkCovers, SignsOnce, AggregatorBacked,
           CertBacked, ReportsSound
  <2> QED
    BY <2>1, <2>2 DEF IInv
<1>2. IInv /\ [Next]_vars => IInv'
  <2> SUFFICES ASSUME IInv, [Next]_vars PROVE IInv'
    OBVIOUS
  <2>1. CASE UNCHANGED vars
    BY <2>1 DEF IInv, TypeOK, SignedHonest, AggregatorOfTip, MarkCovers, SignsOnce,
                AggregatorBacked, CertBacked, ReportsSound, Precommitted, SameVote, Height,
                vars, tickVars
  <2>2. CASE Next
    <3>1. PICK v \in Honest :
             \/ \E hash \in Hashes : AddBlock(v, hash)
             \/ \E c \in Candidates : Reorg(v, c)
             \/ \E m \in signed \cup Sent[v] : HandleVote(v, m)
             \/ AutoPrecommit(v)
             \/ \E h \in Heights : PeriodicPrevote(v, h)
             \/ SaveVoteHistory(v)
             \/ SaveFails(v)
             \/ CrashAndRestart(v)
      BY <2>2 DEF Next
    <3>2. signed \cup Sent[v] \subseteq signed \cup FaultyVotes
      BY SentAssumption
    <3> QED
      BY <3>1, <3>2, AddBlockStep, ReorgStep, HandleVoteStep, AutoPrecommitStep,
         PeriodicPrevoteStep, SaveStep, CrashStep
  <2> QED
    BY <2>1, <2>2
<1> QED
  BY <1>1, <1>2, PTL DEF Spec

\* The state of the vote protocol keeps its types.
THEOREM VoteTypes == Spec => []TypeOK
<1>1. IInv => TypeOK
  BY DEF IInv
<1> QED
  BY <1>1, VoteInvariant, PTL

\* An honest validator signs one hash per height and round, and every precommit
\* it ever signs at a height is for one hash even if it crashed in between.
THEOREM ValidatorsSignOnce == Spec => []SignsOnce
<1>1. IInv => SignsOnce
  BY DEF IInv
<1> QED
  BY <1>1, VoteInvariant, PTL

\* The slashing registry receives no report about a validator that neither was
\* faulty nor lost a mark.
THEOREM ReportsAreSound == Spec => []ReportsSound
<1>1. IInv => ReportsSound
  BY DEF IInv
<1> QED
  BY <1>1, VoteInvariant, PTL

\* Conflicting certificates name offenders with more than a third of the stake,
\* for every validator set, stake distribution and network: quorums intersect
\* in more than a third, and an honest validator precommits once.
THEOREM CertificatesAreAccountable == Spec => []AccountableSafety
<1>1. IInv => AccountableSafety
  <2> SUFFICES ASSUME IInv, NEW c1 \in certs, NEW c2 \in certs,
                      c1.height = c2.height, c1.hash # c2.hash
               PROVE  /\ c1.signers \cap c2.signers \subseteq Faulty
                      /\ 3 * StakeOf[c1.signers \cap c2.signers] > TotalStake
    BY DEF AccountableSafety
  <2> DEFINE S == c1.signers
             T == c2.signers
  <2>1. S \in SUBSET Validators /\ T \in SUBSET Validators /\ Quorum(S) /\ Quorum(T)
    BY DEF IInv, TypeOK, Certs, CertBacked
  <2>2. S \cap T \subseteq Faulty
    <3> SUFFICES ASSUME NEW w \in S \cap T, w \notin Faulty PROVE FALSE
      OBVIOUS
    <3>1. Precommitted(w, c1.height, c1.hash) /\ Precommitted(w, c2.height, c2.hash)
      BY DEF IInv, CertBacked
    <3>2. PICK m1 \in signed : m1.kind = "precommit" /\ m1.voter = w
                               /\ m1.height = c1.height /\ m1.hash = c1.hash
      BY <3>1 DEF Precommitted
    <3>3. PICK m2 \in signed : m2.kind = "precommit" /\ m2.voter = w
                               /\ m2.height = c2.height /\ m2.hash = c2.hash
      BY <3>1 DEF Precommitted
    <3>4. SignsOnce
      BY DEF IInv
    <3> QED
      BY <3>2, <3>3, <3>4 DEF SignsOnce, SameVote
  <2>3. 3 * StakeOf[S \cap T] > TotalStake
    BY <2>1, QuorumsIntersect
  <2> QED
    BY <2>2, <2>3
<1> QED
  BY <1>1, VoteInvariant, PTL

=============================================================================
