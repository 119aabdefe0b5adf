--------------------------- MODULE PaymentPromise ---------------------------
(***************************************************************************)
(* What the payment sheet of the browser client promises.  A payment is    *)
(* confirmed once, with a payee and a sum; its money moves at most once,   *)
(* to that payee and in that sum.  "Payment sent" is shown only after such *)
(* a move, and no move stands behind two of them: as many sums reached a   *)
(* payee as were reported.  The move need not be the payment's own: it may *)
(* be that of an earlier payment of the same sum to the same payee, which  *)
(* was reported as failed.  Nothing else is promised of one that is        *)
(* reported so: its money may have moved, or may still move.               *)
(***************************************************************************)
EXTENDS Naturals

CONSTANTS Payments, Payees, Sums, None

VARIABLES
  terms,      \* what was confirmed
  moved,      \* the payments whose money reached the payee
  received,   \* what each payee was given
  told        \* the move that the "Payment sent" of a payment stands for

vars == <<terms, moved, received, told>>

Terms == [to : Payees, sum : Sums]

Init ==
  /\ terms = [p \in Payments |-> None]
  /\ moved = {}
  /\ received = [a \in Payees |-> 0]
  /\ told = [p \in Payments |-> None]

Confirm(p) ==
  /\ terms[p] = None
  /\ \E t \in Terms : terms' = [terms EXCEPT ![p] = t]
  /\ UNCHANGED <<moved, received, told>>

Move(p) ==
  /\ terms[p] # None /\ p \notin moved
  /\ moved' = moved \cup {p}
  /\ received' = [received EXCEPT ![terms[p].to] = @ + terms[p].sum]
  /\ UNCHANGED <<terms, told>>

\* A move of the same sum to the same payee that nobody was told of yet.
TellSent(p) ==
  \E q \in moved :
    /\ terms[q] = terms[p]
    /\ \A r \in Payments : told[r] # q
    /\ told' = [told EXCEPT ![p] = q]
    /\ UNCHANGED <<terms, moved, received>>

Next == \E p \in Payments : Confirm(p) \/ Move(p) \/ TellSent(p)

Spec == Init /\ [][Next]_vars
=============================================================================
