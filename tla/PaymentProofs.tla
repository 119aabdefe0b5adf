--------------------------- MODULE PaymentProofs ---------------------------
(***************************************************************************)
(* A payment keeps what PaymentPromise promises, for any number of         *)
(* payments, payees and sums.                                              *)
(*                                                                         *)
(* The service moves money when it executes a request to close a session,  *)
(* and the sheet says "Payment sent" some steps after a call was answered. *)
(* Between them stand two records that calls share or keep: the id in the  *)
(* storage and the session a call asked to close, which is that of another *)
(* payment when its own was refused.  Protocol ties a call, its request,   *)
(* the session it closed and the terms together.                           *)
(***************************************************************************)
EXTENDS Payment, TLAPS

\* Nothing is opened or paid before it is asked for; a request to close that
\* was executed closed a session of the same terms; who is told that a payment
\* was sent has had one closed.
InStep(p) ==
  /\ call[p] = "none" => terms[p] = None /\ wire[p] = "none"
  /\ wire[p] # "none" => terms[p] \in Terms
  /\ wire[p] \in {"none", "create"} => session[p] = "none"
  /\ wire[p] \in {"close", "closed"} => closing[p] \in Payments
  /\ wire[p] = "closed" => /\ session[closing[p]] = "closed"
                           /\ terms[closing[p]] = terms[p]
  /\ call[p] \in {"refreshing", "sent", "ended"} => wire[p] = "closed"

\* No two requests closed the same session.
Apart ==
  \A p, q \in Payments :
    wire[p] = "closed" /\ wire[q] = "closed" /\ closing[p] = closing[q] => p = q

Protocol == Apart /\ \A p \in Payments : InStep(p)

IInv == TypeOK /\ Protocol

LEMMA InitIInv == Init => IInv
<1> SUFFICES ASSUME Init PROVE IInv
  OBVIOUS
<1>1. TypeOK
  <2>1. First \in Steps
    BY DEF First, Steps
  <2> QED
    BY <2>1, PaymentAssumption DEF Init, TypeOK, Texts
<1>2. Protocol
  BY DEF Init, Protocol, Apart, InStep
<1> QED
  BY <1>1, <1>2 DEF IInv

-----------------------------------------------------------------------------
(* The steps of page and form.                                             *)

\* They touch no request, no session and no money, and end calls at most.
LEMMA FormLeaves ==
  ASSUME Form
  PROVE  /\ UNCHANGED <<terms, closing, wire, storedId, serviceVars>>
         /\ \/ UNCHANGED call
            \/ call' = [p \in Payments |-> CASE Running(p) -> "failed"
                                             [] call[p] = "sent" -> "ended"
                                             [] OTHER -> call[p]]
<1> USE DEF callVars, serviceVars
<1>1. CASE OpenApp \/ MaximizeApp
  BY <1>1 DEF OpenApp, MaximizeApp, Mount
<1>2. CASE MinimizeApp \/ OpenSheet \/ LeaveSheet \/ SheetLeft \/ AccountRead
  BY <1>2 DEF MinimizeApp, OpenSheet, LeaveSheet, SheetLeft, AccountRead
<1>3. CASE Reload
  BY <1>3 DEF Reload
<1>4. CASE Scan \/ ManualEntry \/ SwitchToScan \/ TypeAddress \/ AddressSubmit
           \/ SendRefused
  BY <1>4 DEF Scan, ManualEntry, SwitchToScan, TypeAddress, AddressSubmit,
              SendRefused, FormStep
<1>5. CASE Paste \/ Pasted \/ SetAmount
  BY <1>5 DEF Paste, Pasted, SetAmount
<1> QED
  BY <1>1, <1>2, <1>3, <1>4, <1>5 DEF Form

LEMMA FormTypes ==
  ASSUME TypeOK, Form
  PROVE  TypeOK'
<1>1. First \in Steps /\ AccountAmount \in Nat
  BY DEF First, Steps, TypeOK, AccountAmount
<1>2. /\ UNCHANGED <<terms, closing, wire, storedId, named, session, balance, received>>
      /\ call' \in [Payments -> {"none", "opening", "closing", "refreshing",
                                 "sent", "ended", "failed"}]
  BY FormLeaves DEF TypeOK, serviceVars
<1> DEFINE Shape == /\ app' \in {"open", "minimized", "closed"}
                    /\ sheet' \in BOOLEAN /\ leaving' \in BOOLEAN
                    /\ step' \in Steps /\ recipient' \in Texts
                    /\ amount' \in Sums \cup {0}
                    /\ pasting' \in BOOLEAN /\ available' \in Nat
                    /\ account' \in Nat \cup {None}
                    /\ attached' \subseteq Payments
<1>3. Shape
  <2> USE <1>1 DEF TypeOK, pageVars, formVars, callVars, serviceVars
  <2>1. CASE OpenApp \/ MaximizeApp
    <3>1. Mount
      BY <2>1 DEF OpenApp, MaximizeApp
    <3>2. available' \in Nat
      BY <3>1 DEF Mount
    <3> QED
      BY <3>1, <3>2 DEF Mount, Fresh, Texts
  <2>2. CASE OpenSheet
    BY <2>2 DEF OpenSheet, Texts
  <2>3. CASE LeaveSheet
    BY <2>3 DEF LeaveSheet
  <2>4. CASE SheetLeft
    BY <2>4 DEF SheetLeft
  <2>5. CASE AccountRead
    BY <2>5 DEF AccountRead
  <2>6. CASE MinimizeApp
    BY <2>6 DEF MinimizeApp, Fresh, Texts
  <2>7. CASE Reload
    BY <2>7 DEF Reload, Fresh, Texts
  <2>8. CASE Scan \/ ManualEntry \/ SwitchToScan \/ TypeAddress \/ AddressSubmit
             \/ SendRefused
    BY <2>8 DEF Scan, ManualEntry, SwitchToScan, TypeAddress, AddressSubmit,
                SendRefused, FormStep, Steps
  <2>9. CASE Paste \/ Pasted \/ SetAmount
    BY <2>9 DEF Paste, Pasted, SetAmount
  <2> QED
    BY <2>1, <2>2, <2>3, <2>4, <2>5, <2>6, <2>7, <2>8, <2>9 DEF Form
<1> QED
  BY <1>2, <1>3 DEF TypeOK

-----------------------------------------------------------------------------
(* The steps of a payment.                                                 *)

\* What is confirmed are terms, whatever the form was filled with.
LEMMA SendTerms ==
  ASSUME TypeOK, NEW p \in Payments, Send(p)
  PROVE  /\ [to |-> recipient, sum |-> amount] \in Terms
         /\ terms' = [terms EXCEPT ![p] = [to |-> recipient, sum |-> amount]]
<1>1. recipient \in Payees \cup {Junk} /\ amount \in Sums
  BY PaymentAssumption DEF TypeOK, Texts, Send, CanPay
<1> QED
  BY <1>1 DEF Terms, Send

\* What a payment goes on with is the id of some payment's session.
LEMMA CreatedCloses ==
  ASSUME IInv, NEW p \in Payments, Created(p)
  PROVE  /\ storedId' \in Payments \cup {None}
         /\ \/ /\ call' = [call EXCEPT ![p] = "failed"]
               /\ UNCHANGED <<closing, wire>>
            \/ /\ \E q \in Payments : closing' = [closing EXCEPT ![p] = q]
               /\ call' = [call EXCEPT ![p] = "closing"]
               /\ wire' = [wire EXCEPT ![p] = "close"]
               /\ UNCHANGED step
<1>1. IdAfter(p) \in Payments \cup {None}
  BY DEF IdAfter, IInv, TypeOK
<1> QED
  BY <1>1 DEF Created, Fails

LEMMA PaymentTypes ==
  ASSUME IInv, NEW p \in Payments,
         \/ Send(p) \/ NoAnswer(p) \/ Created(p) \/ Closed(p) \/ Refreshed(p)
         \/ SentTimer(p) \/ ServiceCreates(p) \/ ServiceRefuses(p)
         \/ ServiceCloses(p)
  PROVE  TypeOK'
<1> USE DEF IInv, pageVars, formVars, callVars, serviceVars
<1>1. CASE Send(p)
  BY ZenonT(60), <1>1, SendTerms DEF TypeOK, Send, Steps
<1>2. CASE NoAnswer(p)
  BY <1>2 DEF TypeOK, NoAnswer, Fails, Steps
<1>3. CASE Created(p)
  <2>1. step' \in Steps
    BY <1>3 DEF TypeOK, Created, Fails, Steps
  <2>2. UNCHANGED <<app, sheet, leaving, recipient, amount, pasting, available,
                    account, terms, attached, named, session, balance, received>>
    BY <1>3 DEF Created
  <2> QED
    BY <1>3, <2>1, <2>2, CreatedCloses DEF TypeOK
<1>4. CASE Closed(p)
  BY <1>4 DEF TypeOK, Closed
<1>5. CASE Refreshed(p)
  BY <1>5 DEF TypeOK, Refreshed, Steps
<1>6. CASE SentTimer(p)
  BY ZenonT(60), <1>6 DEF TypeOK, SentTimer, Steps, First, Texts
<1>7. CASE ServiceCreates(p)
  <2>1. terms[p] \in Terms
    BY <1>7 DEF ServiceCreates, Protocol, InStep
  <2>2. terms[p].sum \in Nat
    BY <2>1, PaymentAssumption DEF Terms
  <2>3. balance - terms[p].sum \in Nat
    BY <1>7, <2>2 DEF ServiceCreates, TypeOK
  <2> QED
    BY <1>7, <2>3 DEF TypeOK, ServiceCreates
<1>8. CASE ServiceRefuses(p)
  BY <1>8 DEF TypeOK, ServiceRefuses
<1>9. CASE ServiceCloses(p)
  <2>1. terms[p] \in Terms /\ closing[p] \in Payments
    BY <1>9 DEF ServiceCloses, Protocol, InStep
  <2>2. terms[p].sum \in Nat /\ terms[p].to \in Payees \cup {Junk}
    BY <2>1, PaymentAssumption DEF Terms
  <2>3. received' \in [Payees \cup {Junk} -> Nat]
    BY <1>9, <2>2 DEF ServiceCloses, TypeOK
  <2> QED
    BY <1>9, <2>1, <2>3 DEF TypeOK, ServiceCloses
<1> QED
  BY <1>1, <1>2, <1>3, <1>4, <1>5, <1>6, <1>7, <1>8, <1>9

LEMMA PaymentProtocol ==
  ASSUME IInv, NEW p \in Payments,
         \/ Send(p) \/ NoAnswer(p) \/ Created(p) \/ Closed(p) \/ Refreshed(p)
         \/ SentTimer(p) \/ ServiceCreates(p) \/ ServiceRefuses(p)
         \/ ServiceCloses(p)
  PROVE  Protocol'
<1> USE DEF IInv, callVars, serviceVars
<1>1. CASE Send(p)
  <2>1. wire[p] = "none" /\ session[p] = "none"
    BY <1>1 DEF Protocol, InStep, Send
  <2>2. /\ \A q \in Payments \ {p} : terms'[q] = terms[q] /\ wire'[q] = wire[q]
                                    /\ call'[q] = call[q]
        /\ terms'[p] \in Terms /\ wire'[p] = "create" /\ call'[p] = "opening"
        /\ UNCHANGED <<closing, session>>
    BY <1>1, SendTerms DEF TypeOK, Send
  <2>3. \A q \in Payments \ {p} : wire[q] = "closed" => closing[q] # p
    BY <2>1 DEF Protocol, InStep
  <2>4. Apart'
    BY <2>2 DEF Protocol, Apart
  <2>5. ASSUME NEW q \in Payments PROVE InStep(q)'
    BY <2>1, <2>2, <2>3 DEF Protocol, InStep
  <2> QED
    BY <2>4, <2>5 DEF Protocol
<1>2. CASE NoAnswer(p)
  BY <1>2 DEF TypeOK, Protocol, Apart, InStep, NoAnswer, Fails
<1>3. CASE Created(p)
  <2>1. /\ UNCHANGED <<terms, session>> /\ call[p] = "opening"
        /\ wire[p] \in {"created", "refused"}
    BY <1>3 DEF Created
  <2> QED
    BY <1>3, <2>1, CreatedCloses DEF TypeOK, Protocol, Apart, InStep
<1>4. CASE Closed(p)
  BY <1>4 DEF TypeOK, Protocol, Apart, InStep, Closed
<1>5. CASE Refreshed(p)
  BY <1>5 DEF TypeOK, Protocol, Apart, InStep, Refreshed
<1>6. CASE SentTimer(p)
  BY <1>6 DEF TypeOK, Protocol, Apart, InStep, SentTimer
<1>7. CASE ServiceCreates(p)
  BY <1>7 DEF TypeOK, Protocol, Apart, InStep, ServiceCreates
<1>8. CASE ServiceRefuses(p)
  BY <1>8 DEF TypeOK, Protocol, Apart, InStep, ServiceRefuses
<1>9. CASE ServiceCloses(p)
  <2>1. closing[p] \in Payments /\ session[closing[p]] = "open"
    BY <1>9 DEF Protocol, InStep, ServiceCloses
  <2>2. \A q \in Payments : wire[q] = "closed" => closing[q] # closing[p]
    BY <2>1 DEF Protocol, InStep
  <2> QED
    BY <1>9, <2>1, <2>2 DEF TypeOK, Protocol, Apart, InStep, ServiceCloses
<1> QED
  BY <1>1, <1>2, <1>3, <1>4, <1>5, <1>6, <1>7, <1>8, <1>9

LEMMA StepIInv == IInv /\ [Next]_vars => IInv'
<1> SUFFICES ASSUME IInv, [Next]_vars PROVE IInv'
  OBVIOUS
<1>1. CASE Form
  <2>1. TypeOK'
    BY <1>1, FormTypes DEF IInv
  <2>2. Protocol'
    BY <1>1, FormLeaves DEF IInv, TypeOK, Protocol, Apart, InStep, Running,
                            serviceVars
  <2> QED
    BY <2>1, <2>2 DEF IInv
<1>2. CASE \E p \in Payments :
             \/ Send(p) \/ NoAnswer(p) \/ Created(p) \/ Closed(p) \/ Refreshed(p)
             \/ SentTimer(p) \/ ServiceCreates(p) \/ ServiceRefuses(p)
             \/ ServiceCloses(p)
  BY <1>2, PaymentTypes, PaymentProtocol DEF IInv
<1>3. CASE UNCHANGED vars
  BY <1>3 DEF vars, pageVars, formVars, callVars, serviceVars, IInv, TypeOK,
              Protocol, Apart, InStep, Steps, Texts, Terms
<1> QED
  BY <1>1, <1>2, <1>3 DEF Next

LEMMA Inductive == Spec => []IInv
  BY InitIInv, StepIInv, PTL DEF Spec

\* Every variable of a payment has its type: no sum is negative, and what is
\* confirmed has a payee.  (SendContainer.tsx, useCreateApplicationSession.ts)
THEOREM TypeCorrect == Spec => []TypeOK
<1>1. IInv => TypeOK
  BY DEF IInv
<1> QED
  BY <1>1, Inductive, PTL

-----------------------------------------------------------------------------
(* The refinement.                                                         *)

\* Which sessions moved their money, and which of them the user was told of.
Moved == {p \in Payments : session[p] = "closed"}
Told == [p \in Payments |->
           IF call[p] \in {"sent", "ended"} THEN closing[p] ELSE None]
promised == <<terms, Moved, received, Told>>

LEMMA PromiseInit == Init => Promise!Init
BY DEF Init, Promise!Init

\* Nothing of the page and the form is part of the promise.
LEMMA FormStutters ==
  ASSUME IInv, Form
  PROVE  UNCHANGED promised
<1>1. \A p \in Payments :
        call'[p] \in {"sent", "ended"} <=> call[p] \in {"sent", "ended"}
  BY FormLeaves DEF Running
<1>2. UNCHANGED <<terms, closing, session, received>>
  BY FormLeaves DEF serviceVars
<1> QED
  BY <1>1, <1>2 DEF promised, Moved, Told

LEMMA SendConfirms ==
  ASSUME IInv, NEW p \in Payments, Send(p)
  PROVE  Promise!Confirm(p)
<1>1. terms[p] = None
  BY DEF IInv, Protocol, InStep, Send
<1>2. \E t \in Terms : terms' = [terms EXCEPT ![p] = t]
  BY SendTerms DEF IInv
<1>3. UNCHANGED <<session, received>>
  BY DEF Send, serviceVars
<1>4. Told' = Told
  BY DEF Told, Send, IInv, TypeOK
<1> QED
  BY <1>1, <1>2, <1>3, <1>4 DEF Promise!Confirm, Promise!Terms, Terms, Told

\* The session that is closed may be another's, with the same terms.
LEMMA ServiceClosesMoves ==
  ASSUME IInv, NEW p \in Payments, ServiceCloses(p)
  PROVE  \E q \in Payments : Promise!Move(q)
<1>1. closing[p] \in Payments
  BY DEF IInv, Protocol, InStep, ServiceCloses
<1> PICK q \in Payments : q = closing[p]
  BY <1>1
<1>2. /\ session[q] = "open"
      /\ terms[q] = terms[p] /\ terms[p] \in Terms
  BY DEF IInv, Protocol, InStep, ServiceCloses
<1>3. terms[q] # None
  BY <1>2, PaymentAssumption DEF Terms
<1>4. Moved' = Moved \cup {q}
  BY <1>2 DEF Moved, ServiceCloses, IInv, TypeOK
<1>5. UNCHANGED <<terms, Told>>
  BY DEF ServiceCloses, Told
<1>6. received' = [received EXCEPT ![terms[q].to] = @ + terms[q].sum]
  BY <1>2 DEF ServiceCloses
<1>7. q \notin Moved
  BY <1>2 DEF Moved
<1>8. Promise!Move(q)
  BY <1>3, <1>4, <1>5, <1>6, <1>7 DEF Promise!Move, Moved, Told
<1> QED
  BY <1>8

LEMMA RefreshedTells ==
  ASSUME IInv, NEW p \in Payments, Refreshed(p)
  PROVE  Promise!TellSent(p)
<1> DEFINE q == closing[p]
<1>1. wire[p] = "closed" /\ call[p] = "refreshing"
  BY DEF IInv, Protocol, InStep, Refreshed
<1>2. q \in Moved /\ terms[q] = terms[p]
  BY <1>1 DEF IInv, Protocol, InStep, Moved
<1>3. ASSUME NEW r \in Payments PROVE Told[r] # q
  <2>1. \/ Told[r] = closing[r] /\ wire[r] = "closed"
        \/ Told[r] = None
    BY DEF Told, IInv, Protocol, InStep
  <2>2. call[r] # "refreshing" \/ Told[r] = None
    BY DEF Told
  <2>3. q # None
    BY <1>2, PaymentAssumption DEF Moved
  <2> QED
    BY <1>1, <2>1, <2>2, <2>3 DEF IInv, Protocol, Apart
<1>4. Told' = [Told EXCEPT ![p] = q]
  BY DEF Told, Refreshed, IInv, TypeOK
<1>5. UNCHANGED <<terms, session, received>>
  BY DEF Refreshed, serviceVars
<1> QED
  BY <1>2, <1>3, <1>4, <1>5 DEF Promise!TellSent, Told, Moved

LEMMA OthersStutter ==
  ASSUME IInv, NEW p \in Payments,
         \/ NoAnswer(p) \/ Created(p) \/ Closed(p) \/ SentTimer(p)
         \/ ServiceCreates(p) \/ ServiceRefuses(p)
  PROVE  UNCHANGED promised
<1> USE DEF IInv, promised, Moved, Told, TypeOK, serviceVars
<1>1. CASE NoAnswer(p)
  BY <1>1 DEF NoAnswer, Fails
<1>2. CASE Created(p)
  <2>1. call[p] = "opening" /\ UNCHANGED <<terms, session, received>>
    BY <1>2 DEF Created
  <2> QED
    BY <1>2, <2>1, CreatedCloses
<1>3. CASE Closed(p)
  BY <1>3 DEF Closed
<1>4. CASE SentTimer(p)
  BY <1>4 DEF SentTimer
<1>5. CASE ServiceCreates(p)
  <2>1. session[p] = "none"
    BY <1>5 DEF Protocol, InStep, ServiceCreates
  <2> QED
    BY <1>5, <2>1 DEF ServiceCreates
<1>6. CASE ServiceRefuses(p)
  BY <1>6 DEF ServiceRefuses
<1> QED
  BY <1>1, <1>2, <1>3, <1>4, <1>5, <1>6

LEMMA PromiseStep == IInv /\ [Next]_vars => [Promise!Next]_Promise!vars
<1> SUFFICES ASSUME IInv, [Next]_vars PROVE [Promise!Next]_Promise!vars
  OBVIOUS
<1>1. UNCHANGED promised => UNCHANGED Promise!vars
  BY DEF promised, Moved, Told, Promise!vars
<1>2. CASE Form
  BY <1>1, <1>2, FormStutters
<1>3. ASSUME NEW p \in Payments,
             \/ Send(p) \/ NoAnswer(p) \/ Created(p) \/ Closed(p) \/ Refreshed(p)
             \/ SentTimer(p) \/ ServiceCreates(p) \/ ServiceRefuses(p)
             \/ ServiceCloses(p)
      PROVE  [Promise!Next]_Promise!vars
  BY <1>1, <1>3, SendConfirms, ServiceClosesMoves, RefreshedTells, OthersStutter
     DEF Promise!Next
<1>4. CASE UNCHANGED vars
  BY <1>1, <1>4 DEF vars, callVars, serviceVars, promised, Moved, Told
<1> QED
  BY <1>2, <1>3, <1>4 DEF Next

\* The client's payments implement PaymentPromise: whatever sheets are left,
\* apps minimised, pages reloaded, requests refused and answers late or lost,
\* each session moves at most its own sum to its own payee, and every "Payment
\* sent" has a move of its own behind it, of that sum and to that payee.
\* (SendContainer.tsx, usePaymentFlow.ts)
THEOREM PaymentsKeepPromise == Spec => Promised
BY PromiseInit, PromiseStep, Inductive, PTL DEF Spec, Promised, Promise!Spec

-----------------------------------------------------------------------------
(* The spinner.                                                            *)

\* A call whose sheet is still mounted moves that sheet on when it ends.
LEMMA SpinnerStep == IInv /\ NoIdleSpinner /\ [Next]_vars => NoIdleSpinner'
<1> SUFFICES ASSUME IInv, NoIdleSpinner, [Next]_vars, (app = "open" /\ step = "processing")'
             PROVE  \E p \in attached' : Running(p)'
  BY DEF NoIdleSpinner
<1> USE DEF pageVars, formVars, callVars, serviceVars
<1>1. CASE Form
  <2>1. app = "open" /\ step = "processing" /\ UNCHANGED <<call, attached>>
    <3> USE DEF First
    <3>1. CASE OpenApp \/ MaximizeApp \/ MinimizeApp \/ Reload
      BY <3>1 DEF OpenApp, MaximizeApp, Mount, MinimizeApp, Reload, Fresh
    <3>2. CASE OpenSheet \/ LeaveSheet \/ SheetLeft \/ AccountRead
      BY <3>2 DEF OpenSheet, LeaveSheet, SheetLeft, AccountRead
    <3>3. CASE Scan \/ ManualEntry \/ SwitchToScan \/ TypeAddress
               \/ AddressSubmit \/ SendRefused
      BY <3>3 DEF Scan, ManualEntry, SwitchToScan, TypeAddress, AddressSubmit,
                  SendRefused, FormStep
    <3>4. CASE Paste \/ Pasted \/ SetAmount
      BY <3>4 DEF Paste, Pasted, SetAmount
    <3> QED
      BY <1>1, <3>1, <3>2, <3>3, <3>4 DEF Form
  <2> QED
    BY <2>1 DEF NoIdleSpinner, Running
<1>2. ASSUME NEW p \in Payments, Send(p)
      PROVE  \E q \in attached' : Running(q)'
  BY <1>2 DEF Send, Running, IInv, TypeOK
<1>3. ASSUME NEW p \in Payments, NoAnswer(p) \/ Refreshed(p) \/ SentTimer(p)
      PROVE  \E q \in attached' : Running(q)'
  <2>1. p \notin attached /\ UNCHANGED <<app, step, attached>>
    BY <1>3 DEF NoAnswer, Fails, Refreshed, SentTimer, First
  <2>2. \A q \in Payments \ {p} : call'[q] = call[q]
    BY <1>3 DEF NoAnswer, Fails, Refreshed, SentTimer, IInv, TypeOK
  <2> QED
    BY <2>1, <2>2 DEF NoIdleSpinner, Running, IInv, TypeOK
<1>4. ASSUME NEW p \in Payments, Created(p)
      PROVE  \E q \in attached' : Running(q)'
  <2>1. UNCHANGED <<app, attached>>
    BY <1>4 DEF Created
  <2>2. CASE call' = [call EXCEPT ![p] = "closing"] /\ UNCHANGED step
    BY <2>1, <2>2 DEF NoIdleSpinner, Running, IInv, TypeOK
  <2>3. CASE Fails(p)
    <3>1. p \notin attached /\ UNCHANGED step
      BY <2>3 DEF Fails
    <3> QED
      BY <2>1, <2>3, <3>1 DEF Fails, NoIdleSpinner, Running, IInv, TypeOK
  <2> QED
    BY <1>4, <2>2, <2>3 DEF Created
<1>5. ASSUME NEW p \in Payments,
             Closed(p) \/ ServiceCreates(p) \/ ServiceRefuses(p) \/ ServiceCloses(p)
      PROVE  \E q \in attached' : Running(q)'
  <2>1. UNCHANGED <<app, step, attached>>
    BY <1>5 DEF Closed, ServiceCreates, ServiceRefuses, ServiceCloses
  <2>2. \A q \in Payments : Running(q) => Running(q)'
    BY <1>5 DEF Closed, ServiceCreates, ServiceRefuses, ServiceCloses, Running,
                IInv, TypeOK
  <2> QED
    BY <2>1, <2>2 DEF NoIdleSpinner, IInv, TypeOK
<1>6. CASE UNCHANGED vars
  BY <1>6 DEF vars, NoIdleSpinner, Running
<1> QED
  BY <1>1, <1>2, <1>3, <1>4, <1>5, <1>6 DEF Next

\* "Processing" is shown only while a payment this sheet started is under way:
\* nobody waits for a call that has ended, however many overlap.
\* (SendContainer.tsx)
THEOREM NobodyWaitsForNothing == Spec => []NoIdleSpinner
<1>1. Init => NoIdleSpinner
  BY DEF Init, NoIdleSpinner, First
<1> QED
  BY <1>1, SpinnerStep, Inductive, PTL DEF Spec
=============================================================================
