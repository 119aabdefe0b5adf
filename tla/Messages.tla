------------------------------ MODULE Messages ------------------------------
(***************************************************************************)
(* What the client remembers of its conversation with the broker: the list *)
(* of messages, which MessageService keeps for the pages, cut at a limit.  *)
(* The channel of the conversation, which the connection and               *)
(* MessageService remember each for itself, is read by nobody and left     *)
(* out; but a message that names one is listed only if it is a channel the *)
(* client knows.                                                           *)
(*                                                                         *)
(* A message of the list is the number under which it was added.           *)
(***************************************************************************)
EXTENDS Naturals, Sequences

CONSTANTS
  Limit,        \* 200 in the code
  MaxAdded,     \* messages ever added: a bound
  ChatChannels, \* the channels the client knows
  Others        \* other texts where a channel is named

\* What the constants are: an assumption of MCViews.
MessagesAssumption ==
  /\ Limit \in Nat \ {0} /\ MaxAdded \in Nat
  /\ ChatChannels \cap Others = {}

VARIABLES
  messages,     \* MessageService's list
  added         \* history: how many were added since the list was cleared

messagesVars == <<messages, added>>

MessagesTypeOK ==
  /\ messages \in Seq(1 .. MaxAdded) /\ Len(messages) <= Limit
  /\ added \in 0 .. MaxAdded

MessagesInit == messages = <<>> /\ added = 0

-----------------------------------------------------------------------------
\* Mutant: the first ones are.
Cut_First(list) == IF Len(list) > Limit THEN SubSeq(list, 1, Limit) ELSE list

\* The last ones are kept.
Cut(list) ==
  IF Len(list) > Limit
    THEN SubSeq(list, Len(list) - Limit + 1, Len(list)) ELSE list

\* add.
Add ==
  /\ added < MaxAdded /\ added' = added + 1
  /\ messages' = Cut(Append(messages, added + 1))

\* The shapes of a message from the broker that are told apart.  This
\* repository's broker sends responses only.
Responses == {[type |-> "res"], [type |-> "err"]}
Legacy == [type : {"message", "pong", "get_balance", "rpc_response",
                   "auth_success"}]
Subscribed == [type : {"subscribe_success"}, channel : ChatChannels \cup Others]
Unread == {[type |-> "no JSON"], [type |-> "other"]}

\* MessageService.handleWebSocketMessage, and what handleMessage adds.
Listed(m) ==
  \/ m \in Legacy /\ m.type # "rpc_response"
  \/ m \in Subscribed /\ m.channel \in ChatChannels
  \/ m.type \in {"err", "no JSON"}

Received ==
  \E m \in Responses \cup Legacy \cup Subscribed \cup Unread :
    IF Listed(m) THEN Add ELSE UNCHANGED messagesVars

\* A change of status, a request that fails or times out, a ping.
Noted == Add

Clear == messages' = <<>> /\ added' = 0

MessagesNext == Received \/ Noted \/ Clear

MessagesSpec == MessagesInit /\ [][MessagesNext]_messagesVars

-----------------------------------------------------------------------------
\* The list holds the newest messages, in their order and without a gap, up
\* to the limit, however often it overflowed or was cleared.
\* (MessageService.ts:55-69)
NewestKept ==
  LET n == IF added < Limit THEN added ELSE Limit
  IN messages = [i \in 1 .. n |-> added - n + i]
=============================================================================
