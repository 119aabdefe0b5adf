------------------------------ MODULE MCBroker ------------------------------
(***************************************************************************)
(* Instances of Broker for TLC: which wallet owns which channel on which   *)
(* network.                                                                *)
(***************************************************************************)
EXTENDS Broker

CONSTANTS alice, bob, ca, cb, cc, polygon, celo

MCParticipants == {alice, bob}

\* One wallet with one channel each, on one network.
MCChannelIds == {ca, cb}
MCOwner == [c \in MCChannelIds |-> IF c = ca THEN alice ELSE bob]
MCNetworkOf == [c \in MCChannelIds |-> polygon]
MCNonce == [c \in MCChannelIds |-> IF c = ca THEN 1 ELSE 2]

\* Both channels are Alice's.
MCSameOwner == [c \in MCChannelIds |-> alice]

\* Alice has a channel on each of two networks, Bob one on the first.
MCThreeChannelIds == {ca, cb, cc}
MCThreeOwner == [c \in MCThreeChannelIds |-> IF c = cb THEN bob ELSE alice]
MCThreeNetworkOf == [c \in MCThreeChannelIds |-> IF c = cc THEN celo ELSE polygon]
MCThreeNonce == [c \in MCThreeChannelIds |-> IF c = cb THEN 2 ELSE 1]

MCAllocations == -1..1

\* Withdraw one unit from a channel, or deposit one more.
MCChanges == {-1, 1}
=============================================================================
