---------------------------- MODULE AssetCustody ----------------------------
(***************************************************************************)
(* What the bridge promises about an asset: it has one home domain for     *)
(* ever, it is in one place at a time, and it gets from one place to       *)
(* another only along lock, mint, burn and unlock, or straight back home   *)
(* when its lock expires.  No rows, messages, nonces or queues.            *)
(***************************************************************************)
CONSTANTS Assets, Domains

VARIABLE custody     \* asset -> where it is, for the registered assets

Home(d)         == [place |-> "home",      home |-> d, away |-> d]
Leaving(d, t)   == [place |-> "leaving",   home |-> d, away |-> t]
Away(d, t)      == [place |-> "away",      home |-> d, away |-> t]
Returning(d, t) == [place |-> "returning", home |-> d, away |-> t]

Moved(a, place) == [custody EXCEPT ![a] = place]

CustodyInit == DOMAIN custody = {}

Register(a, d) ==
  /\ a \in Assets \ DOMAIN custody
  /\ custody' = [b \in DOMAIN custody \cup {a} |->
                   IF b = a THEN Home(d) ELSE custody[b]]

Leave(a, d, t) ==
  /\ d # t /\ custody[a] = Home(d)
  /\ custody' = Moved(a, Leaving(d, t))

Arrive(a, d, t) ==
  /\ custody[a] = Leaving(d, t)
  /\ custody' = Moved(a, Away(d, t))

Return(a, d, t) ==
  /\ custody[a] = Away(d, t)
  /\ custody' = Moved(a, Returning(d, t))

ComeHome(a, d, t) ==
  /\ custody[a] = Returning(d, t)
  /\ custody' = Moved(a, Home(d))

\* A block may take back several expired locks at once.
Recall(S) ==
  /\ S \subseteq DOMAIN custody
  /\ \A a \in S : custody[a].place = "leaving"
  /\ custody' = [a \in DOMAIN custody |->
                   IF a \in S THEN Home(custody[a].home) ELSE custody[a]]

CustodyNext ==
  \/ \E a \in Assets, d \in Domains : Register(a, d)
  \/ \E a \in DOMAIN custody, d, t \in Domains :
        Leave(a, d, t) \/ Arrive(a, d, t) \/ Return(a, d, t) \/ ComeHome(a, d, t)
  \/ \E S \in SUBSET DOMAIN custody : Recall(S)

CustodySpec == CustodyInit /\ [][CustodyNext]_custody
============================================================================
