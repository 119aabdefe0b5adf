------------------------------- MODULE Views -------------------------------
(***************************************************************************)
(* The parts of the page that do not share state in the models: the        *)
(* channels (Funding), the keys (Clients), the sheet and its camera        *)
(* (Scanner), the pages (Home), the sums (Amounts) and the list of         *)
(* messages (Messages).                                                    *)
(* A behaviour is one of the part that part names, and the variables of    *)
(* the others stay at a fixed value: the state spaces are added, not       *)
(* multiplied.                                                             *)
(***************************************************************************)
EXTENDS Funding, Clients, Scanner, Home, Amounts, Messages

VARIABLE part

-----------------------------------------------------------------------------
(* A part that does not move.                                              *)

NoFunding ==
  /\ started = 0 /\ page = "home" /\ sheet = FALSE /\ keys = "none"
  /\ online = FALSE /\ clientChain = None /\ status = "idle"
  /\ typed = None /\ offered = {} /\ calls = {}
  /\ loading = [f \in Flags |-> FALSE]
  /\ stored = None /\ channelOpen = FALSE /\ lapse = FALSE
  /\ chan = [c \in Channels |-> [is |-> "none", chain |-> None]]

NoClients ==
  /\ storedKey = None /\ made = {} /\ keyPair = None /\ currentSigner = None
  /\ stateSigner = None /\ socketKey = None /\ socketUp = FALSE
  /\ appOpen = FALSE /\ ready = FALSE /\ activeChain = None
  /\ inits = <<>> /\ client = None /\ newest = "lost"

NoScanner ==
  /\ isOpen = FALSE /\ animation = "exited"
  /\ timers = [t \in {"in", "out", "close"} |-> 0]
  /\ isMobile = FALSE /\ step = "scan" /\ paying = FALSE /\ sent = FALSE
  /\ mounted = None /\ camera = [i \in Cameras |-> "none"] /\ late = {}

NoHome ==
  /\ pathname = "/" /\ connected = FALSE
  /\ signer = None /\ isConnected = FALSE /\ intervals = {} /\ asked = 0
  /\ account = FALSE /\ ledgerChannels = FALSE

NoAmounts ==
  /\ field = "send" /\ text = <<"0">> /\ balance = <<"0">>
  /\ entered = [how |-> "none", what |-> <<>>]

NoMessages == messages = <<>> /\ added = 0

Init ==
  \/ /\ part = "channels" /\ FundingInit
     /\ NoClients /\ NoScanner /\ NoHome /\ NoAmounts /\ NoMessages
  \/ /\ part = "keys" /\ ClientsInit
     /\ NoFunding /\ NoScanner /\ NoHome /\ NoAmounts /\ NoMessages
  \/ /\ part = "sheet" /\ ScannerInit
     /\ NoFunding /\ NoClients /\ NoHome /\ NoAmounts /\ NoMessages
  \/ /\ part = "pages" /\ HomeInit
     /\ NoFunding /\ NoClients /\ NoScanner /\ NoAmounts /\ NoMessages
  \/ /\ part = "sums" /\ AmountsInit
     /\ NoFunding /\ NoClients /\ NoScanner /\ NoHome /\ NoMessages
  \/ /\ part = "list" /\ MessagesInit
     /\ NoFunding /\ NoClients /\ NoScanner /\ NoHome /\ NoAmounts

Next ==
  /\ UNCHANGED part
  /\ \/ /\ part = "channels" /\ FundingNext
        /\ UNCHANGED <<clientsVars, scannerVars, homeVars, amountsVars, messagesVars>>
     \/ /\ part = "keys" /\ ClientsNext
        /\ UNCHANGED <<fundingVars, scannerVars, homeVars, amountsVars, messagesVars>>
     \/ /\ part = "sheet" /\ ScannerNext
        /\ UNCHANGED <<fundingVars, clientsVars, homeVars, amountsVars, messagesVars>>
     \/ /\ part = "pages" /\ HomeNext
        /\ UNCHANGED <<fundingVars, clientsVars, scannerVars, amountsVars, messagesVars>>
     \/ /\ part = "sums" /\ AmountsNext
        /\ UNCHANGED <<fundingVars, clientsVars, scannerVars, homeVars, messagesVars>>
     \/ /\ part = "list" /\ MessagesNext
        /\ UNCHANGED <<fundingVars, clientsVars, scannerVars, homeVars, amountsVars>>

Spec ==
  Init /\ [][Next]_<<part, fundingVars, clientsVars, scannerVars, homeVars, amountsVars,
                    messagesVars>>

-----------------------------------------------------------------------------
\* The other properties of the run are those of the modules above.  A part
\* that does not move has them too, so that they need not say which it is.

\* In each part every variable has its type.
TypeOK ==
  /\ part = "channels" => FundingTypeOK
  /\ part = "keys" => ClientsTypeOK
  /\ part = "sheet" => ScannerTypeOK
  /\ part = "pages" => HomeTypeOK
  /\ part = "sums" => AmountsTypeOK
  /\ part = "list" => MessagesTypeOK
=============================================================================
