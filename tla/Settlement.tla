----------------------------- MODULE Settlement -----------------------------
(***************************************************************************)
(* resize_channel and close_channel (handlers.go HandleResizeChannel and   *)
(* HandleCloseChannel).  A handler reads the channel row, then the balance *)
(* of the owner, in two separate queries, and signs a state built from     *)
(* both.  It neither writes to the database nor freezes the account: the   *)
(* client may submit the state to the contract at any later time.          *)
(***************************************************************************)
EXTENDS Custody

CONSTANTS
  Changes,        \* participant_change of a resize request
  MaxSigned       \* bound: states the broker signs for one channel

ASSUME SettlementAssumption == Changes \subseteq Int /\ MaxSigned \in Nat

VARIABLE settling \* per channel, the request between its two queries

NoRequest == [kind |-> "none"]

Requests ==
  {NoRequest} \cup
    [kind : {"resize", "close"}, change : Int, amount : Int, version : Nat]

SettlementTypeOK == settling \in [ChannelIds -> Requests]

SettlementInit == settling = [c \in ChannelIds |-> NoRequest]

\* GetChannelByID.  Without a row the handler dereferences nil: the panic ends
\* the connection and changes nothing.
ReadChannel(c, kind, change) ==
  /\ settling[c] = NoRequest
  /\ channels[c].status # "none"
  /\ Cardinality({s \in signed : s.chan = c}) < MaxSigned
  /\ settling' = [settling EXCEPT ![c] =
       [kind |-> kind, change |-> change,
        amount |-> channels[c].amount, version |-> channels[c].version]]
  /\ UNCHANGED <<custodyVars, dbVars>>

ResizeState(c, req, bal) ==
  [kind |-> "resize", chan |-> c, version |-> req.version + 1,
   user |-> bal + req.change, broker |-> 0,
   addUser |-> req.change, addBroker |-> -(req.amount - bal)]

\* Mutant: the whole channel goes to its owner.
CloseState_WholeAmount(c, req, bal) ==
  [kind |-> "close", chan |-> c, version |-> req.version + 1,
   user |-> req.amount, broker |-> 0, addUser |-> 0, addBroker |-> 0]

CloseState(c, req, bal) ==
  [kind |-> "close", chan |-> c, version |-> req.version + 1,
   user |-> bal, broker |-> req.amount - bal, addUser |-> 0, addBroker |-> 0]

Reply(c) ==
  /\ settling' = [settling EXCEPT ![c] = NoRequest]
  /\ UNCHANGED <<chainVars, listenerVars, dbVars>>

SignResize(c) ==
  LET bal == balance[c][Owner[c]] IN
  /\ settling[c].kind = "resize"
  /\ bal + settling[c].change >= 0
  /\ signed' = signed \cup {ResizeState(c, settling[c], bal)}
  /\ Reply(c)

SignClose(c) ==
  LET bal == balance[c][Owner[c]] IN
  /\ settling[c].kind = "close"
  /\ settling[c].amount - bal >= 0
  /\ bal >= 0
  /\ signed' = signed \cup {CloseState(c, settling[c], bal)}
  /\ Reply(c)

\* The request is answered with an error: "invalid resize amount", "resize
\* this channel first" or "insufficient funds for participant".
RefuseSettlement(c) ==
  LET bal == balance[c][Owner[c]] IN
  /\ \/ settling[c].kind = "resize" /\ bal + settling[c].change < 0
     \/ settling[c].kind = "close" /\ (settling[c].amount - bal < 0 \/ bal < 0)
  /\ UNCHANGED signed
  /\ Reply(c)

ReadSome(c) ==
  \/ ReadChannel(c, "close", 0)
  \/ \E change \in Changes : ReadChannel(c, "resize", change)
=============================================================================
