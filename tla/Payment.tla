------------------------------ MODULE Payment ------------------------------
(***************************************************************************)
(* Payments of the Yuzux mini-app: the sheet that asks for a payee and a   *)
(* sum (SendContainer and its steps), and the calls of processPayment it   *)
(* starts, each of which opens an application session with the sum and     *)
(* closes it again with the sum on the payee's side.                       *)
(*                                                                         *)
(* The sheet may be closed, or the app minimised or the page reloaded,     *)
(* while a call waits: the call goes on, and what it does when it ends is  *)
(* done to whatever the sheet shows by then.  A call whose component is    *)
(* gone is no longer "attached", and its setters do nothing.               *)
(*                                                                         *)
(* The service the client talks to is external.  It executes a request or  *)
(* refuses it, at any time or never, answers it or not, and either names   *)
(* the session in its answers or does not, as the broker of this           *)
(* repository.  A refusal is answered under the id of the request, and the *)
(* client takes the answer as it takes any other: a refused session counts *)
(* as opened, and the payment goes on with the id the storage holds.  A    *)
(* lost answer, a lost connection and a failed signature are one failure.  *)
(* The network does not change; sums are whole numbers; the minimise       *)
(* button can be reached by keyboard while the sheet covers it.  The       *)
(* "Try Again" of the processing step is never shown: a call that fails    *)
(* leaves that step, and one that starts clears the error first.           *)
(***************************************************************************)
EXTENDS Integers

CONSTANTS
  Payments,     \* calls of processPayment: the bound on payments confirmed
  Payees,       \* addresses of clients that have a channel
  Junk,         \* a text that is no address
  Sums,         \* sums that can be typed
  Funds,        \* what the service holds for the user at first
  Mobile,       \* useDeviceDetection, which does not change
  None          \* no text, no session, no account

ASSUME PaymentAssumption ==
  /\ Sums \subseteq Nat \ {0} /\ Funds \in Nat
  /\ None \notin Payments \cup Payees \cup {Junk}
  /\ None \notin [to : Payees \cup {Junk}, sum : Sums]
  /\ None \notin Int /\ Mobile \in BOOLEAN

VARIABLES
  app,          \* AppStore.openApp, minimizedApps
  sheet,        \* AppStore.isSendOpen
  leaving,      \* Modal.handleClose runs its animation
  step, recipient, amount,
  pasting,      \* handlePaste waits for the clipboard
  available,    \* availableBalance, which the sheet reads when it opens
  account,      \* NitroliteStore.userAccountFromParticipants
  storedId,     \* app_session_id of the browser's storage
  call,         \* how far a call of processPayment is
  terms,        \* what it was asked to pay
  attached,     \* calls whose SendContainer is still mounted
  closing,      \* the session it asked to close
  wire,         \* its latest request, and what the service did with it
  named,        \* whether the service names the session in its answers
  session,      \* what the service did with the session of a call
  balance,      \* what the service holds for the user
  received      \* what the service gave to whom

pageVars == <<app, sheet, leaving>>
formVars == <<step, recipient, amount, pasting, available>>
callVars == <<call, terms, attached, closing, wire, storedId>>
serviceVars == <<named, session, balance, received>>
vars == <<pageVars, formVars, account, callVars, serviceVars>>

Texts == Payees \cup {Junk, None}
Terms == [to : Payees \cup {Junk}, sum : Sums]
Steps == {"scan", "manual", "amount", "processing", "success"}

TypeOK ==
  /\ app \in {"open", "minimized", "closed"}
  /\ sheet \in BOOLEAN /\ leaving \in BOOLEAN
  /\ step \in Steps /\ recipient \in Texts /\ amount \in Sums \cup {0}
  /\ pasting \in BOOLEAN
  /\ available \in Nat
  /\ account \in Nat \cup {None}
  /\ storedId \in Payments \cup {None}
  /\ call \in [Payments -> {"none", "opening", "closing", "refreshing",
                            "sent", "ended", "failed"}]
  /\ terms \in [Payments -> Terms \cup {None}]
  /\ attached \subseteq Payments
  /\ closing \in [Payments -> Payments \cup {None}]
  /\ wire \in [Payments -> {"none", "create", "created", "close", "closed",
                            "refused"}]
  /\ named \in BOOLEAN
  /\ session \in [Payments -> {"none", "open", "closed"}]
  /\ balance \in Nat
  /\ received \in [Payees \cup {Junk} -> Nat]

First == IF Mobile THEN "scan" ELSE "manual"
AccountAmount == IF account = None THEN 0 ELSE account
Running(p) == call[p] \in {"opening", "closing", "refreshing"}

Init ==
  /\ app = "closed" /\ sheet = FALSE /\ leaving = FALSE
  /\ step = First /\ recipient = None /\ amount = 0
  /\ pasting = FALSE /\ available = 0
  /\ account = None /\ storedId = None
  /\ call = [p \in Payments |-> "none"]
  /\ terms = [p \in Payments |-> None]
  /\ attached = {}
  /\ closing = [p \in Payments |-> None]
  /\ wire = [p \in Payments |-> "none"]
  /\ named \in BOOLEAN
  /\ session = [p \in Payments |-> "none"]
  /\ balance = Funds
  /\ received = [a \in Payees \cup {Junk} |-> 0]

-----------------------------------------------------------------------------
(* The page: the app, the sheet and the account it shows.                  *)

\* The state a SendContainer starts from, and what is lost with one.
Fresh ==
  /\ step' = First /\ recipient' = None /\ amount' = 0
  /\ pasting' = FALSE

Mount ==
  /\ app' = "open" /\ Fresh
  /\ available' = IF sheet THEN AccountAmount ELSE 0
  /\ UNCHANGED <<sheet, leaving, account, callVars, serviceVars>>

\* Without an account the deposit sheet, or the login, is opened instead.
OpenApp == app # "open" /\ account # None /\ Mount

MaximizeApp == app = "minimized" /\ Mount

MinimizeApp ==
  /\ app = "open" /\ app' = "minimized"
  /\ attached' = {} /\ Fresh /\ available' = 0
  /\ UNCHANGED <<sheet, leaving, account, call, terms, closing, wire, storedId, serviceVars>>

OpenSheet ==
  /\ app = "open" /\ ~sheet /\ sheet' = TRUE
  /\ step' = First /\ recipient' = None
  /\ available' = AccountAmount
  /\ UNCHANGED <<app, leaving, amount, pasting, account, callVars,
                 serviceVars>>

LeaveSheet ==
  /\ app = "open" /\ sheet /\ ~leaving
  /\ leaving' = TRUE
  /\ UNCHANGED <<app, sheet, formVars, account, callVars, serviceVars>>

\* The animation is over.  The timer outlives the component.
SheetLeft ==
  /\ leaving /\ leaving' = FALSE /\ sheet' = FALSE /\ available' = 0
  /\ UNCHANGED <<app, step, recipient, amount, pasting, account, callVars, serviceVars>>

\* Polling, and the app when its sheets are closed.
AccountRead ==
  /\ account' \in {balance, None}
  /\ UNCHANGED <<pageVars, formVars, callVars, serviceVars>>

\* Everything but the storage is lost; requests on their way are not.
Reload ==
  /\ app' = "closed" /\ sheet' = FALSE /\ leaving' = FALSE
  /\ Fresh
  /\ available' = 0 /\ account' = None
  /\ call' = [p \in Payments |-> CASE Running(p) -> "failed"
                                   [] call[p] = "sent" -> "ended"
                                   [] OTHER -> call[p]]
  /\ attached' = {}
  /\ UNCHANGED <<terms, closing, wire, storedId, serviceVars>>

-----------------------------------------------------------------------------
(* The steps of the sheet.                                                 *)

Showing(s) == app = "open" /\ sheet /\ ~leaving /\ step = s

FormStep == UNCHANGED <<pageVars, amount, pasting, available, account,
                        callVars, serviceVars>>

\* A camera that started late scans whatever the sheet shows (module Scanner).
Scan ==
  /\ app = "open" /\ Mobile
  /\ recipient' \in Texts \ {None}
  /\ step' = "amount" /\ FormStep

ManualEntry == Showing("scan") /\ step' = "manual" /\ UNCHANGED recipient /\ FormStep

SwitchToScan ==
  /\ Showing("manual") /\ Mobile
  /\ step' = "scan" /\ UNCHANGED recipient /\ FormStep

TypeAddress ==
  /\ Showing("manual")
  /\ recipient' \in Texts
  /\ UNCHANGED step /\ FormStep

AddressSubmit ==
  /\ Showing("manual") /\ recipient \in Payees
  /\ step' = "amount" /\ UNCHANGED recipient /\ FormStep

Paste ==
  /\ Showing("manual") /\ ~pasting /\ pasting' = TRUE
  /\ UNCHANGED <<pageVars, step, recipient, amount, available,
                 account, callVars, serviceVars>>

\* The clipboard's text, if it may be read, reaches the form whatever its
\* step, and is checked only by the button of the manual step.
Pasted ==
  /\ pasting /\ pasting' = FALSE
  /\ recipient' \in Texts \cup {recipient}
  /\ UNCHANGED <<pageVars, step, amount, available, account, callVars,
                 serviceVars>>

\* Typed, or a quick amount.
SetAmount ==
  /\ Showing("amount")
  /\ amount' \in Sums \cup {0}
  /\ UNCHANGED <<pageVars, step, recipient, pasting, available,
                 account, callVars, serviceVars>>

CanPay == Showing("amount") /\ amount > 0 /\ amount <= available

-----------------------------------------------------------------------------
(* processPayment, once for each payment that is confirmed.                *)

\* Mutant: without the check that there is a payee.
Send_Unchecked(p) ==
  /\ CanPay /\ call[p] = "none"
  /\ call' = [call EXCEPT ![p] = "opening"]
  /\ terms' = [terms EXCEPT ![p] = [to |-> recipient, sum |-> amount]]
  /\ wire' = [wire EXCEPT ![p] = "create"]
  /\ attached' = attached \cup {p}
  /\ step' = "processing"
  /\ UNCHANGED <<pageVars, recipient, amount, pasting, available, account,
                 closing, storedId, serviceVars>>

\* handleSend, up to its first wait.
Send(p) ==
  /\ CanPay /\ recipient # None
  /\ call[p] = "none"
  /\ call' = [call EXCEPT ![p] = "opening"]
  /\ terms' = [terms EXCEPT ![p] = [to |-> recipient, sum |-> amount]]
  /\ wire' = [wire EXCEPT ![p] = "create"]
  /\ attached' = attached \cup {p}
  /\ step' = "processing"
  /\ UNCHANGED <<pageVars, recipient, amount, pasting, available, account,
                 closing, storedId, serviceVars>>

\* There is no connection, no signer or no payee: nothing is sent.
SendRefused ==
  /\ CanPay /\ step' = "manual" /\ UNCHANGED recipient /\ FormStep

\* Mutant: the form stays where it is.
Fails_Silently(p) == call' = [call EXCEPT ![p] = "failed"] /\ UNCHANGED step

Fails(p) ==
  /\ call' = [call EXCEPT ![p] = "failed"]
  /\ IF p \in attached THEN step' = "manual" ELSE UNCHANGED step

\* Mutant: whether the session was closed is not looked at.
NoAnswer_Ignored(p) ==
  /\ call[p] \in {"opening", "closing"}
  /\ IF call[p] = "closing"
       THEN call' = [call EXCEPT ![p] = "refreshing"] /\ UNCHANGED step
       ELSE Fails(p)
  /\ UNCHANGED <<pageVars, recipient, amount, pasting, available, account,
                 terms, attached, closing, wire, storedId, serviceVars>>

\* Nothing is heard of a request; or the close was refused, which is no
\* success.
NoAnswer(p) ==
  /\ call[p] \in {"opening", "closing"}
  /\ Fails(p)
  /\ UNCHANGED <<pageVars, recipient, amount, pasting, available, account,
                 terms, attached, closing, wire, storedId, serviceVars>>

\* The id goes through the storage, which all calls share.  A refusal names
\* no session and leaves there what an earlier payment left.
IdAfter(p) == IF named /\ wire[p] = "created" THEN p ELSE storedId

\* The request was answered, with a session or with an error.
Created(p) ==
  LET id == IdAfter(p)
  IN /\ call[p] = "opening" /\ wire[p] \in {"created", "refused"}
     /\ storedId' = id
     /\ IF id = None
          THEN Fails(p) /\ UNCHANGED <<closing, wire>>
          ELSE /\ call' = [call EXCEPT ![p] = "closing"]
               /\ closing' = [closing EXCEPT ![p] = id]
               /\ wire' = [wire EXCEPT ![p] = "close"]
               /\ UNCHANGED step
     /\ UNCHANGED <<pageVars, recipient, amount, pasting, available, account,
                    terms, attached, serviceVars>>

\* An answer that names no session would be a failure; none gets here.
Closed(p) ==
  /\ call[p] = "closing" /\ wire[p] = "closed" /\ named
  /\ storedId' = None
  /\ call' = [call EXCEPT ![p] = "refreshing"]
  /\ UNCHANGED <<pageVars, formVars, account, terms, attached, closing, wire,
                 serviceVars>>

\* getParticipants, which swallows its errors, and "Payment sent".
Refreshed(p) ==
  /\ call[p] = "refreshing"
  /\ account' \in {balance, None}
  /\ call' = [call EXCEPT ![p] = "sent"]
  /\ IF p \in attached THEN step' = "success" ELSE UNCHANGED step
  /\ UNCHANGED <<pageVars, recipient, amount, pasting, available, terms,
                 attached, closing, wire, storedId, serviceVars>>

\* Two seconds later the sheet is closed, whatever it shows.
SentTimer(p) ==
  /\ call[p] = "sent"
  /\ call' = [call EXCEPT ![p] = "ended"]
  /\ sheet' = FALSE /\ available' = 0
  /\ IF p \in attached
       THEN step' = First /\ recipient' = None
       ELSE UNCHANGED <<step, recipient>>
  /\ UNCHANGED <<app, leaving, amount, pasting, account, terms, attached,
                 closing, wire, storedId, serviceVars>>

-----------------------------------------------------------------------------
(* The service.                                                            *)

ServiceCreates(p) ==
  /\ wire[p] = "create"
  /\ terms[p].to \in Payees /\ terms[p].sum <= balance
  /\ session' = [session EXCEPT ![p] = "open"]
  /\ balance' = balance - terms[p].sum
  /\ wire' = [wire EXCEPT ![p] = "created"]
  /\ UNCHANGED <<pageVars, formVars, account, call, terms, attached, closing,
                 storedId, named, received>>

\* Whatever its reason, a refusal changes nothing but what is answered.  (A
\* refused close is a NoAnswer for the client, and nothing for the service.)
ServiceRefuses(p) ==
  /\ wire[p] = "create"
  /\ wire' = [wire EXCEPT ![p] = "refused"]
  /\ UNCHANGED <<pageVars, formVars, account, call, terms, attached, closing,
                 storedId, serviceVars>>

\* The members, and the sum, must be those of the session.
ServiceCloses(p) ==
  /\ wire[p] = "close"
  /\ session[closing[p]] = "open" /\ terms[closing[p]] = terms[p]
  /\ session' = [session EXCEPT ![closing[p]] = "closed"]
  /\ received' = [received EXCEPT ![terms[p].to] = @ + terms[p].sum]
  /\ wire' = [wire EXCEPT ![p] = "closed"]
  /\ UNCHANGED <<pageVars, formVars, account, call, terms, attached, closing,
                 storedId, named, balance>>

-----------------------------------------------------------------------------
Form ==
  \/ OpenApp \/ MaximizeApp \/ MinimizeApp \/ OpenSheet \/ LeaveSheet
  \/ SheetLeft \/ AccountRead \/ Reload
  \/ Scan \/ ManualEntry \/ SwitchToScan \/ TypeAddress \/ AddressSubmit
  \/ Paste \/ Pasted \/ SetAmount \/ SendRefused

Next ==
  \/ Form
  \/ \E p \in Payments :
       \/ Send(p) \/ NoAnswer(p) \/ Created(p) \/ Closed(p) \/ Refreshed(p)
       \/ SentTimer(p) \/ ServiceCreates(p) \/ ServiceRefuses(p)
       \/ ServiceCloses(p)

Spec == Init /\ [][Next]_vars

-----------------------------------------------------------------------------
(* Properties.                                                             *)

\* What the sheet says of payments is what PaymentPromise promises: whatever
\* is closed, reloaded, refused, answered late or paid at the same time, a
\* session moves at most its own sum to its own payee, and every "Payment
\* sent" stands for a move of that sum to that payee, no two for the same.
Promise == INSTANCE PaymentPromise WITH
  Payees <- Payees \cup {Junk},
  moved <- {p \in Payments : session[p] = "closed"},
  told <- [p \in Payments |->
             IF call[p] \in {"sent", "ended"} THEN closing[p] ELSE None]

Promised == Promise!Spec

\* The sheet says "Processing" only while a payment it started is under way:
\* an older one that ends does not leave it waiting for nothing.
NoIdleSpinner ==
  app = "open" /\ step = "processing" => \E p \in attached : Running(p)
=============================================================================
