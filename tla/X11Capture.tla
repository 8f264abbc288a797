------------------------------ MODULE X11Capture ------------------------------
(***************************************************************************)
(* X11Capture, src/src/capture/x11_capture.cpp: init() and release() with  *)
(* the resources they acquire, and captureFrame() on the capture thread,   *)
(* between whose requests the screen changes.  The X server accumulates    *)
(* damage until it is subtracted.  A screen is a number that changes.      *)
(***************************************************************************)
EXTENDS Integers, Sequences

CONSTANTS
    MaxDrawings     \* bound: changes of the screen

ASSUME X11Assumption == MaxDrawings \in Nat

VARIABLES
    drawn,          \* what the screen shows
    damage,         \* the server has damage that was not subtracted
    x11,            \* where the capture is: "off", "init", "idle", "fetch",
                    \* "grab"
    owned,          \* what init() has acquired
    damageActive,   \* damageActive_
    fullFrameNeeded,
    captured,       \* what the last frame shows, -1 before the first
    grabFailed      \* history: an XShmGetImage() since then failed

grabState == <<fullFrameNeeded, captured, grabFailed>>
x11Vars   == <<drawn, damage, x11, owned, damageActive, grabState>>

X11Init ==
    /\ drawn = 0 /\ damage = FALSE
    /\ x11 = "off" /\ owned = {} /\ damageActive = FALSE
    /\ fullFrameNeeded = TRUE
    /\ captured = -1 /\ grabFailed = FALSE

Draw ==
    /\ drawn < MaxDrawings
    /\ drawn' = drawn + 1
    /\ damage' = ("damage" \in owned)
    /\ UNCHANGED <<x11, owned, damageActive, grabState>>

---------------------------------------------------------------------------
(* init() and release().                                                   *)

\* initShm(): what is acquired, in this order, ...
ShmSteps == <<"image", "segment", "mapping", "attached">>

\* Mistake: the segment stays when it cannot be mapped.
ShmCleanupLess(step) ==
    IF step = 4 THEN {"image", "segment", "mapping"} ELSE {"image"}

\* ... and what is given back when a step fails.
ShmCleanup(step) ==
    IF step = 1 THEN {} ELSE {"image", "segment", "mapping"}

OpenDisplay ==
    /\ x11 = "off"
    /\ owned' = {"display"} /\ x11' = "init"
    /\ UNCHANGED <<drawn, damage, damageActive, grabState>>

\* destroyDamage(), destroyShm(), XCloseDisplay().  A segment that is marked for
\* removal goes with its last mapping.
X11Release(have) ==
    /\ owned' = have \ {"damage", "attached", "mapping", "image", "display"}
    /\ damageActive' = FALSE /\ damage' = FALSE
    /\ fullFrameNeeded' = TRUE

InitFails ==
    /\ x11 = "init" /\ x11' = "off"
    /\ \E step \in 1..Len(ShmSteps) :
          X11Release((owned \cup {ShmSteps[i] : i \in 1..(step - 1)})
                        \ ShmCleanup(step))
    /\ UNCHANGED <<drawn, captured, grabFailed>>

\* Without the damage extension every frame is a full one.
InitSucceeds ==
    /\ x11 = "init" /\ x11' = "idle"
    /\ \E extension \in BOOLEAN :
          /\ damageActive' = extension
          /\ owned' = owned \cup {"image", "mapping", "attached"}
                        \cup (IF extension THEN {"damage"} ELSE {})
    /\ fullFrameNeeded' = TRUE
    /\ captured' = -1 /\ grabFailed' = FALSE
    /\ UNCHANGED <<drawn, damage>>

\* ~HostSession has joined the capture thread.
Stop ==
    /\ x11 = "idle" /\ x11' = "off"
    /\ X11Release(owned)
    /\ UNCHANGED <<drawn, captured, grabFailed>>

---------------------------------------------------------------------------
(* captureFrame().                                                         *)

\* Mistake: damage is waited for although there is no extension.
LookForDamage ==
    /\ x11 = "idle"
    /\ x11' = IF ~fullFrameNeeded THEN "fetch" ELSE "grab"
    /\ UNCHANGED <<drawn, damage, owned, damageActive, fullFrameNeeded,
                   captured, grabFailed>>

\* The events are drained; damage is looked at unless a full frame is needed.
Look ==
    /\ x11 = "idle"
    /\ x11' = IF damageActive /\ ~fullFrameNeeded THEN "fetch" ELSE "grab"
    /\ UNCHANGED <<drawn, damage, owned, damageActive, fullFrameNeeded,
                   captured, grabFailed>>

\* fetchDamageRects(): XDamageSubtract() takes the region and resets it.
FetchDamageRects ==
    /\ x11 = "fetch"
    /\ damage' = FALSE
    /\ x11' = IF damage THEN "grab" ELSE "idle"
    /\ UNCHANGED <<drawn, owned, damageActive, fullFrameNeeded, captured,
                   grabFailed>>

\* XShmGetImage() and the copy.
Grab ==
    /\ x11 = "grab" /\ x11' = "idle"
    /\ captured' = drawn /\ fullFrameNeeded' = FALSE /\ grabFailed' = FALSE
    /\ UNCHANGED <<drawn, damage, owned, damageActive>>

GrabFails ==
    /\ x11 = "grab" /\ x11' = "idle"
    /\ grabFailed' = TRUE
    /\ UNCHANGED <<drawn, damage, owned, damageActive, fullFrameNeeded,
                   captured>>

Capture == Look \/ FetchDamageRects \/ Grab

X11Next == Draw \/ OpenDisplay \/ InitFails \/ InitSucceeds \/ Stop \/ Capture
           \/ GrabFails

\* The capture thread runs; the server does not refuse for ever.
X11Fairness == WF_x11Vars(Look) /\ WF_x11Vars(FetchDamageRects)
               /\ SF_x11Vars(Grab)

X11Spec == X11Init /\ [][X11Next]_x11Vars /\ X11Fairness

---------------------------------------------------------------------------
(* Properties.                                                             *)

\* The type invariant.
X11TypeOK ==
    /\ drawn \in 0..MaxDrawings /\ damage \in BOOLEAN
    /\ x11 \in {"off", "init", "idle", "fetch", "grab"}
    /\ owned \subseteq {"display", "image", "segment", "mapping", "attached",
                        "damage"}
    /\ damageActive \in BOOLEAN /\ fullFrameNeeded \in BOOLEAN
    /\ captured \in -1..MaxDrawings
    /\ grabFailed \in BOOLEAN

\* Nothing is left behind, neither by release() nor by an init() that failed at
\* any of its steps: a shared memory segment would outlive the program.
NothingLeftBehind == x11 = "off" => owned = {}

\* No change of the screen is lost between XDamageSubtract() and XShmGetImage():
\* what was not captured is still marked, or about to be copied, unless a copy
\* failed in between.
ChangesAreMarked ==
    x11 \in {"idle", "fetch", "grab"} /\ captured # drawn /\ ~grabFailed =>
        damage \/ fullFrameNeeded \/ ~damageActive \/ x11 = "grab"

X11Inv == X11TypeOK /\ NothingLeftBehind /\ ChangesAreMarked

\* What the screen shows is captured when it has stopped changing, unless a copy
\* failed since: no damage is subtracted and then forgotten.
ChangeIsCaptured ==
    x11 = "idle" /\ captured # drawn ~>
        captured = drawn \/ grabFailed \/ x11 = "off"
=============================================================================
