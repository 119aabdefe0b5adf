------------------------------ MODULE Scanner ------------------------------
(***************************************************************************)
(* A sheet of the Yuzux app as it comes and goes (Modal), and the cameras  *)
(* its scan step starts (QrScanner).  Modal moves through four animation   *)
(* states: an effect follows the store's isOpen, a button or a swipe       *)
(* leaves, and each sets a timer that nothing cancels.  QrScanner looks    *)
(* for a camera, asks for permission and starts a scanner, each of which   *)
(* it waits for, while the sheet may be left or its step changed.          *)
(*                                                                         *)
(* Effects run in the step that changes what they depend on.  The camera   *)
(* and html5-qrcode are external: each question is answered at any time.   *)
(***************************************************************************)
EXTENDS Naturals, PageConstants

CONSTANTS
  Cameras,      \* scanners mounted, one after another: a bound
  MaxTimers     \* timers of one kind that run at a time: a bound

\* What the constants are: an assumption of MCViews.
ScannerAssumption == None \notin Cameras /\ MaxTimers \in Nat

VARIABLES
  isOpen,       \* AppStore.isSendOpen
  animation,    \* Modal's animationState
  timers,       \* Modal's timers: of the way in, of the way out, of handleClose
  isMobile,     \* useDeviceDetection
  step,         \* SendContainer's step
  paying,       \* a payment is being made
  sent,         \* the timer that follows a payment runs
  mounted,      \* the QrScanner on the page
  camera,       \* how far each got
  late          \* history: started when its QrScanner was gone

scannerVars == <<isOpen, animation, timers, isMobile, step, paying, sent, mounted,
          camera, late>>

ScannerTypeOK ==
  /\ isOpen \in BOOLEAN
  /\ animation \in {"exited", "entering", "entered", "exiting"}
  /\ timers \in [{"in", "out", "close"} -> 0 .. MaxTimers]
  /\ isMobile \in BOOLEAN
  /\ step \in {"scan", "manual", "amount", "processing", "success"}
  /\ paying \in BOOLEAN /\ sent \in BOOLEAN
  /\ mounted \in Cameras \cup {None}
  /\ camera \in [Cameras -> {"none", "looking", "asking", "refused",
                             "starting", "on", "gone"}]
  /\ late \subseteq Cameras

ScannerInit ==
  /\ isOpen = FALSE /\ animation = "exited"
  /\ timers = [t \in {"in", "out", "close"} |-> 0]
  /\ isMobile \in BOOLEAN /\ step = "scan" /\ paying = FALSE /\ sent = FALSE
  /\ mounted = None /\ late = {}
  /\ camera = [i \in Cameras |-> "none"]

-----------------------------------------------------------------------------
(* What the page shows follows from the store and the sheet's state.       *)

\* Modal renders its children unless it is exited and closed.
Rendered == isOpen \/ animation # "exited"

\* Mutant: a scanner that is unmounted keeps its camera.
Unmounted_KeepsOn(i) ==
  camera' = [camera EXCEPT ![i] = IF @ \in {"starting", "on"} THEN @ ELSE "gone"]

\* QrScanner's cleanup stops a scanner that is scanning.  One that is still
\* starting is not scanning yet, and goes on.
Unmounted(i) ==
  camera' = [camera EXCEPT ![i] = IF @ = "starting" THEN @ ELSE "gone"]

\* The scan step mounts a scanner, and every other view unmounts it.
Cameraman ==
  LET scanning == Rendered' /\ step' = "scan"
  IN CASE scanning /\ mounted = None ->
            \E i \in Cameras :
              /\ camera[i] = "none" /\ mounted' = i
              /\ camera' = [camera EXCEPT ![i] = "looking"]
       [] ~scanning /\ mounted # None -> mounted' = None /\ Unmounted(mounted)
       [] OTHER -> UNCHANGED <<mounted, camera>>

\* A timer of kind gone fires and one of kind new is set, unless "none".
Timers(gone, new) ==
  /\ timers' = [t \in DOMAIN timers |->
                  timers[t] - (IF t = gone THEN 1 ELSE 0) + (IF t = new THEN 1 ELSE 0)]
  /\ \A t \in DOMAIN timers : timers'[t] <= MaxTimers

\* Mutant: Modal's effect depends on isOpen alone.
Modal_OpenOnly(a, gone, new) ==
  \/ /\ isOpen' /\ ~isOpen /\ a = "exited" /\ animation' = "entering"
     /\ Timers(gone, "in")
  \/ /\ ~isOpen' /\ isOpen /\ a \in {"entered", "entering"}
     /\ animation' = "exiting" /\ Timers(gone, "out")
  \/ /\ isOpen' = isOpen \/ (isOpen' /\ a # "exited")
        \/ (~isOpen' /\ a \in {"exiting", "exited"})
     /\ animation' = a /\ Timers(gone, new)

\* Modal's effect, once its state is a and the store says isOpen'.
Modal(a, gone, new) ==
  \/ isOpen' /\ a = "exited" /\ animation' = "entering" /\ Timers(gone, "in")
  \/ /\ ~isOpen' /\ a \in {"entered", "entering"}
     /\ animation' = "exiting" /\ Timers(gone, "out")
  \/ /\ a = "exiting" \/ (isOpen' /\ a # "exited") \/ (~isOpen' /\ a = "exited")
     /\ animation' = a /\ Timers(gone, new)

-----------------------------------------------------------------------------
(* The sheet.                                                              *)

First(mobile) == IF mobile THEN "scan" ELSE "manual"

\* SendContainer's effect starts anew whenever the sheet opens.
Open ==
  /\ ~isOpen /\ isOpen' = TRUE /\ step' = First(isMobile)
  /\ Modal(animation, "none", "none") /\ Cameraman
  /\ UNCHANGED <<isMobile, paying, sent, late>>

ModalOnly == UNCHANGED <<isMobile, step, paying, sent, late>>

\* handleClose, by the arrow, or by a swipe on a mobile device.  It may be
\* called again while its timer runs.
Leave ==
  /\ Rendered /\ UNCHANGED isOpen /\ ModalOnly
  /\ Modal("exiting", "none", "close") /\ Cameraman

EnterTimer ==
  /\ timers["in"] > 0 /\ UNCHANGED isOpen /\ ModalOnly
  /\ Modal("entered", "in", "none") /\ Cameraman

ExitTimer ==
  /\ timers["out"] > 0 /\ UNCHANGED isOpen /\ ModalOnly
  /\ Modal("exited", "out", "none") /\ Cameraman

CloseTimer ==
  /\ timers["close"] > 0 /\ isOpen' = FALSE /\ ModalOnly
  /\ Modal("exited", "close", "none") /\ Cameraman

-----------------------------------------------------------------------------
(* The steps.                                                              *)

\* The window is resized, and with it what counts as a mobile device: an
\* open sheet starts anew.
DeviceChanges ==
  /\ isMobile' = ~isMobile
  /\ step' = IF isOpen THEN First(isMobile') ELSE step
  /\ UNCHANGED <<isOpen, animation, timers, paying, sent, late>> /\ Cameraman

Go ==
  /\ Rendered
  /\ \/ step = "scan" /\ step' = "manual"
     \/ step = "manual" /\ step' \in {"scan", "amount"}
  /\ UNCHANGED <<isOpen, animation, timers, isMobile, paying, sent, late>>
  /\ Cameraman

\* One payment at a time: a bound (module Payment has several).
Pay ==
  /\ Rendered /\ step = "amount" /\ ~paying
  /\ step' = "processing" /\ paying' = TRUE
  /\ UNCHANGED <<isOpen, animation, timers, isMobile, sent, late>> /\ Cameraman

\* Its end moves the sheet on, whatever the sheet shows by then, and so does
\* the timer it leaves behind.
Paid ==
  /\ paying /\ paying' = FALSE
  /\ \/ step' = "success" /\ ~sent /\ sent' = TRUE
     \/ step' = "manual" /\ UNCHANGED sent
  /\ UNCHANGED <<isOpen, animation, timers, isMobile, late>> /\ Cameraman

SentTimer ==
  /\ sent /\ sent' = FALSE
  /\ isOpen' = FALSE /\ step' = First(isMobile)
  /\ UNCHANGED <<isMobile, paying, late>>
  /\ Modal(animation, "none", "none") /\ Cameraman

-----------------------------------------------------------------------------
(* The scanner.                                                            *)

CameraFound ==
  /\ mounted # None /\ camera[mounted] = "looking"
  /\ \E seen \in {"asking", "gone"} : camera' = [camera EXCEPT ![mounted] = seen]
  /\ UNCHANGED <<isOpen, animation, timers, isMobile, step, paying, sent, mounted,
                 late>>

\* The stream of the permission is stopped at once; then the scanner starts.
PermissionGiven ==
  /\ mounted # None /\ camera[mounted] = "asking"
  /\ \E said \in {"starting", "refused"} : camera' = [camera EXCEPT ![mounted] = said]
  /\ UNCHANGED <<isOpen, animation, timers, isMobile, step, paying, sent, mounted,
                 late>>

Started(i) ==
  /\ camera[i] = "starting"
  /\ \/ /\ camera' = [camera EXCEPT ![i] = "on"]
        /\ late' = IF mounted = i THEN late ELSE late \cup {i}
     \/ camera' = [camera EXCEPT ![i] = "gone"] /\ UNCHANGED late
  /\ UNCHANGED <<isOpen, animation, timers, isMobile, step, paying, sent, mounted>>

\* Every scanner that runs calls handleScan, whatever the sheet shows by then.
Scan(i) ==
  /\ camera[i] = "on" /\ step' = "amount"
  /\ UNCHANGED <<isOpen, animation, timers, isMobile, paying, sent, late>>
  /\ Cameraman

ScannerNext ==
  \/ Open \/ Leave \/ EnterTimer \/ ExitTimer \/ CloseTimer
  \/ DeviceChanges \/ Go \/ Pay \/ Paid \/ SentTimer \/ CameraFound \/ PermissionGiven
  \/ \E i \in Cameras : Started(i) \/ Scan(i)

ScannerSpec == ScannerInit /\ [][ScannerNext]_scannerVars

-----------------------------------------------------------------------------
\* Once no timer runs the sheet is what the store says, however it was
\* opened and left meanwhile: it never stays hidden when it should be seen,
\* or on the page when it was closed.  (Modal.tsx)
SheetSettles ==
  (\A t \in DOMAIN timers : timers[t] = 0) =>
    animation = IF isOpen THEN "entered" ELSE "exited"

\* A camera that runs belongs to the scanner on the page, but for those
\* that were still starting when theirs left it.  (QrScanner.tsx:128)
CameraReleased ==
  \A i \in Cameras : camera[i] = "on" => i = mounted \/ i \in late
=============================================================================
