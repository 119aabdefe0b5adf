------------------------------ MODULE Listener ------------------------------
(***************************************************************************)
(* One listener goroutine per network (eth_listener.go listenEvents) and   *)
(* the event handler it calls (custody.go handleBlockChainEvent).          *)
(*                                                                         *)
(* The next log is received only when the handler of the one before has    *)
(* returned.  The Created branch makes three writes outside any database   *)
(* transaction - the channel row, the join call, the credit - and the      *)
(* steps of other goroutines may come between them.  The check for an      *)
(* existing channel and the insert are one step: only the listener of the  *)
(* same network creates rows and opens channels of that network.           *)
(***************************************************************************)
EXTENDS Custody

\* The listener of network n takes event e off its channel.
Receives(n, e) ==
  /\ subscribed[n]
  /\ handler[n] = Idle
  /\ events' = [events EXCEPT ![n] = Tail(@)]
  /\ UNCHANGED <<chainVars, signed, subscribed>>

\* Mutant: the row is saved over an existing one instead of inserted.
CreateRefused_Upsert(c) == ExistingChannels(Owner[c], NetworkOf[c]) # {}

\* Created: refused when an open channel exists on the network, or when the
\* row cannot be inserted because its channel_id is already there.
CreateRefused(c) ==
  \/ ExistingChannels(Owner[c], NetworkOf[c]) # {}
  \/ channels[c].status # "none"

HandleCreated(n, e) ==
  /\ Receives(n, e)
  /\ e.type = "Created"
  /\ ~CreateRefused(e.chan)
  /\ channels' = [channels EXCEPT ![e.chan] =
                    [status |-> "joining", version |-> 0, amount |-> e.amount]]
  /\ handler' = [handler EXCEPT ![n] = [step |-> "join", chan |-> e.chan, amount |-> e.amount]]
  /\ UNCHANGED <<apps, balance>>

\* custody.Join: the call to the network's node succeeds and the transaction
\* will be mined, or it fails and the handler returns.
JoinSucceeds(n) ==
  /\ handler[n].step = "join"
  /\ chain' = [chain EXCEPT ![handler[n].chan].joining = TRUE]
  /\ handler' = [handler EXCEPT ![n].step = "record"]
  /\ UNCHANGED <<available, emitted, signed, events, subscribed, dbVars>>

JoinFails(n) ==
  /\ handler[n].step = "join"
  /\ handler' = [handler EXCEPT ![n] = Idle]
  /\ UNCHANGED <<chainVars, signed, events, subscribed, dbVars>>

\* Mutant: the handler returns after the join.
RecordCredit_Forgotten(n) ==
  /\ handler[n].step = "record"
  /\ handler' = [handler EXCEPT ![n] = Idle]
  /\ UNCHANGED <<chainVars, signed, events, subscribed, dbVars>>

RecordCredit(n) ==
  /\ handler[n].step = "record"
  /\ Record(handler[n].chan, Owner[handler[n].chan], handler[n].amount)
  /\ handler' = [handler EXCEPT ![n] = Idle]
  /\ UNCHANGED <<chainVars, signed, events, subscribed, channels, apps>>

\* Mutant: the deposit is credited when the channel opens, too.
HandleJoined_Credits(n, e) ==
  /\ Receives(n, e)
  /\ e.type = "Joined"
  /\ channels[e.chan].status # "none"
  /\ channels' = [channels EXCEPT ![e.chan].status = "open"]
  /\ Record(e.chan, Owner[e.chan], channels[e.chan].amount)
  /\ UNCHANGED <<handler, apps>>

\* Joined: the row becomes "open", whatever it was.
HandleJoined(n, e) ==
  /\ Receives(n, e)
  /\ e.type = "Joined"
  /\ channels[e.chan].status # "none"
  /\ channels' = [channels EXCEPT ![e.chan].status = "open"]
  /\ UNCHANGED <<handler, apps, balance>>

\* Mutant: the account of the closed channel keeps its balance.
HandleClosed_KeepsBalance(n, e) ==
  /\ Receives(n, e)
  /\ e.type = "Closed"
  /\ channels[e.chan].status # "none"
  /\ channels' = [channels EXCEPT ![e.chan] =
                    [status |-> "closed", version |-> @.version + 1, amount |-> 0]]
  /\ UNCHANGED <<handler, apps, balance>>

\* Closed: the row is closed and its account emptied, in one transaction; the
\* final state the event carries is not looked at.
HandleClosed(n, e) ==
  /\ Receives(n, e)
  /\ e.type = "Closed"
  /\ channels[e.chan].status # "none"
  /\ channels' = [channels EXCEPT ![e.chan] =
                    [status |-> "closed", version |-> @.version + 1, amount |-> 0]]
  /\ Record(e.chan, Owner[e.chan], -balance[e.chan][Owner[e.chan]])
  /\ UNCHANGED <<handler, apps>>

\* Mutant: the version of the row is not advanced.
HandleResized_SameVersion(n, e) ==
  /\ Receives(n, e)
  /\ e.type = "Resized"
  /\ channels[e.chan].status # "none"
  /\ channels' = [channels EXCEPT ![e.chan].amount = @ + e.delta]
  /\ UNCHANGED <<handler, apps, balance>>

\* Mutant: the version of the row goes down.
HandleResized_VersionDown(n, e) ==
  /\ Receives(n, e)
  /\ e.type = "Resized"
  /\ channels[e.chan].status # "none"
  /\ channels' = [channels EXCEPT ![e.chan].version = @ - 1, ![e.chan].amount = @ + e.delta]
  /\ UNCHANGED <<handler, apps, balance>>

\* Resized: the deltas are added to the row; the journal is left alone.
HandleResized(n, e) ==
  /\ Receives(n, e)
  /\ e.type = "Resized"
  /\ channels[e.chan].status # "none"
  /\ channels' = [channels EXCEPT ![e.chan].version = @ + 1, ![e.chan].amount = @ + e.delta]
  /\ UNCHANGED <<handler, apps, balance>>

\* An event the handler logs and drops.
IgnoreEvent(n, e) ==
  /\ Receives(n, e)
  /\ IF e.type = "Created" THEN CreateRefused(e.chan) ELSE channels[e.chan].status = "none"
  /\ UNCHANGED <<handler, dbVars>>

HandleEvent(n) ==
  LET e == Head(events[n]) IN
  /\ events[n] # <<>>
  /\ \/ HandleCreated(n, e)
     \/ HandleJoined(n, e)
     \/ HandleClosed(n, e)
     \/ HandleResized(n, e)
     \/ IgnoreEvent(n, e)

CreatedStep(n) == JoinSucceeds(n) \/ RecordCredit(n)

-----------------------------------------------------------------------------
(* The subscription.                                                       *)

Subscribe(n) ==
  /\ ~subscribed[n]
  /\ handler[n] = Idle
  /\ subscribed' = [subscribed EXCEPT ![n] = TRUE]
  /\ UNCHANGED <<chainVars, signed, events, handler, dbVars>>

\* The subscription fails while the listener waits in its select: the channel
\* with the logs not yet received is replaced by a new one.
SubscriptionFails(n) ==
  /\ subscribed[n]
  /\ handler[n] = Idle
  /\ subscribed' = [subscribed EXCEPT ![n] = FALSE]
  /\ events' = [events EXCEPT ![n] = <<>>]
  /\ UNCHANGED <<chainVars, signed, handler, dbVars>>

\* A reorganisation of the chain sends a log again (with `removed` set, which
\* the handler does not look at).
LogRepeats(n) ==
  /\ subscribed[n]
  /\ Len(events[n]) < MaxQueue
  /\ \E e \in emitted[n] :
       /\ channels[e.chan].version < MaxRepeat
       /\ events' = [events EXCEPT ![n] = Append(@, e)]
  /\ UNCHANGED <<chainVars, signed, subscribed, handler, dbVars>>

=============================================================================
