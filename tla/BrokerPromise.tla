--------------------------- MODULE BrokerPromise ---------------------------
(***************************************************************************)
(* What the broker promises to the wallets that deposit with it, without   *)
(* events, listeners, journals or accounts.  A channel has one deposit,    *)
(* which is booked once: its owner gets all of it, or, when the broker     *)
(* fails in the middle, nothing.  An application is opened once with what  *)
(* its members have free, and closed once: everything that was staked goes *)
(* back to its members, in shares they agreed on.  Otherwise free funds    *)
(* only leave when they are withdrawn.                                     *)
(***************************************************************************)
EXTENDS Integers, FiniteSets, FiniteSetsExt

CONSTANTS Participants, ChannelIds, AppIds, Owner, Deposits

VARIABLES
  deposits,   \* what was deposited, with the channel it is for
  booked,     \* the channels whose deposit has been dealt with
  free,       \* what each participant has free
  phase,      \* per application: "none", "open" or "closed"
  members,    \* who is in it
  stake       \* what each of them has in it

vars == <<deposits, booked, free, phase, members, stake>>

Nothing == [p \in Participants |-> 0]

Init ==
  /\ deposits = {}
  /\ booked = {}
  /\ free = Nothing
  /\ phase = [v \in AppIds |-> "none"]
  /\ members = [v \in AppIds |-> {}]
  /\ stake = [v \in AppIds |-> Nothing]

Deposit(c) ==
  /\ \A d \in deposits : d.chan # c
  /\ \E amount \in Deposits : deposits' = deposits \cup {[chan |-> c, amount |-> amount]}
  /\ UNCHANGED <<booked, free, phase, members, stake>>

Credit(d) ==
  /\ d.chan \notin booked
  /\ booked' = booked \cup {d.chan}
  /\ free' = [free EXCEPT ![Owner[d.chan]] = @ + d.amount]
  /\ UNCHANGED <<deposits, phase, members, stake>>

Forgo(lost) ==
  /\ lost \cap booked = {}
  /\ booked' = booked \cup lost
  /\ UNCHANGED <<deposits, free, phase, members, stake>>

Withdraw(p) ==
  /\ \E rest \in 0..free[p] : free' = [free EXCEPT ![p] = rest]
  /\ UNCHANGED <<deposits, booked, phase, members, stake>>

\* What the participants may stake in an application of these members.
Stakes(who) ==
  {put \in [Participants -> UNION {0..free[p] : p \in Participants}] :
     \A p \in Participants : put[p] <= free[p] /\ (p \notin who => put[p] = 0)}

Open(v) ==
  /\ phase[v] = "none"
  /\ \E who \in SUBSET Participants : \E put \in Stakes(who) :
       /\ Cardinality(who) >= 2
       /\ members' = [members EXCEPT ![v] = who]
       /\ stake' = [stake EXCEPT ![v] = put]
       /\ free' = [p \in Participants |-> free[p] - put[p]]
  /\ phase' = [phase EXCEPT ![v] = "open"]
  /\ UNCHANGED <<deposits, booked>>

Pot(v) == SumFunction(stake[v])

\* How the pot of an application may be shared out.
Shares(v) ==
  {get \in [Participants -> 0..Pot(v)] :
     /\ \A p \in Participants \ members[v] : get[p] = 0
     /\ SumFunction(get) = Pot(v)}

Close(v) ==
  /\ phase[v] = "open"
  /\ \E get \in Shares(v) : free' = [p \in Participants |-> free[p] + get[p]]
  /\ stake' = [stake EXCEPT ![v] = Nothing]
  /\ phase' = [phase EXCEPT ![v] = "closed"]
  /\ UNCHANGED <<deposits, booked, members>>

Next ==
  \/ \E c \in ChannelIds : Deposit(c)
  \/ \E d \in deposits : Credit(d)
  \/ \E lost \in SUBSET {d.chan : d \in deposits} : Forgo(lost)
  \/ \E p \in Participants : Withdraw(p)
  \/ \E v \in AppIds : Open(v) \/ Close(v)

Spec == Init /\ [][Next]_vars
=============================================================================
