----------------------------- MODULE DxgiCapture -----------------------------
(***************************************************************************)
(* DxgiCapture, src/src/capture/dxgi_capture.cpp, as HostSession uses it:  *)
(* init() once, then captureFrame() again and again on the capture thread. *)
(* The desktop changes its mode, is switched away (lock screen, UAC) and   *)
(* comes back at any moment; each loses the duplication interface.         *)
(* A duplication and the staging texture are represented by the mode, the  *)
(* size and format, they were made for; 0 is a null pointer.               *)
(***************************************************************************)
EXTENDS Integers

CONSTANTS
    Modes,          \* display modes
    Retries,        \* attempts of handleDesktopSwitch()
    MaxSwitches     \* bound: changes of the desktop, and of the pointer

ASSUME DxgiAssumption ==
    /\ Modes \subseteq Nat \ {0} /\ Modes # {}
    /\ Retries \in Nat \ {0} /\ MaxSwitches \in Nat

VARIABLES
    desktop,        \* [mode, available]
    switches,       \* changes so far
    grabber,        \* where the capture thread is: "off", "idle", "retry",
                    \* "acquire", "process", "error" after a failed init()
    duplication,    \* duplication_
    staging,        \* stagingTex_
    lost,           \* the duplication has lost the desktop
    held,           \* a frame is acquired and not released
    needReinit,     \* needReinit_
    tries,          \* `attempt` in handleDesktopSwitch()
    grabbed,        \* the mode of the frame that this call of captureFrame(),
                    \* or the last one, delivers; 0 if it delivers none
    pointer,        \* the system's pointer: [shape, visible, news]: news is a
                    \* shape no frame has reported yet
    cachedCursor,   \* the shape in cachedCursor_
    skipped         \* history: a report of a new shape was not read

screenSide == <<desktop, switches>>
cursor     == <<pointer, cachedCursor, skipped>>
dxgiVars   == <<screenSide, grabber, duplication, staging, lost, held,
                needReinit, tries, grabbed, cursor>>

DxgiInit ==
    /\ \E m \in Modes : desktop = [mode |-> m, available |-> TRUE]
    /\ switches = 0 /\ grabber = "off"
    /\ duplication = 0 /\ staging = 0 /\ lost = FALSE /\ held = FALSE
    /\ needReinit = FALSE /\ tries = 0 /\ grabbed = 0
    /\ pointer = [shape |-> 0, visible |-> TRUE, news |-> TRUE]
    /\ cachedCursor = -1 /\ skipped = FALSE

---------------------------------------------------------------------------
(* The desktop and the pointer.                                            *)

DesktopChanges ==
    /\ switches < MaxSwitches
    /\ switches' = switches + 1
    /\ \E m \in Modes, a \in BOOLEAN :
          /\ desktop' = [mode |-> m, available |-> a]
          /\ desktop' # desktop
    /\ lost' = (duplication # 0)
    /\ UNCHANGED <<grabber, duplication, staging, held, needReinit, tries,
                   grabbed, cursor>>

PointerChanges ==
    /\ switches < MaxSwitches
    /\ switches' = switches + 1
    /\ \/ pointer' = [pointer EXCEPT !.visible = ~@]
       \/ pointer' = [shape |-> pointer.shape + 1, news |-> TRUE,
                      visible |-> pointer.visible]
    /\ UNCHANGED <<desktop, grabber, duplication, staging, lost, held,
                   needReinit, tries, grabbed, cachedCursor, skipped>>

---------------------------------------------------------------------------
(* Duplication.                                                            *)

\* createDuplication(): DuplicateOutput() fails while the desktop is switched
\* away, or now and then; the staging texture is made after it.
Duplicated ==
    /\ desktop.available
    /\ duplication' = desktop.mode /\ staging' = desktop.mode
    /\ lost' = FALSE
    \* a new duplication reports the pointer's shape with its first frame
    /\ pointer' = [pointer EXCEPT !.news = TRUE]

NotDuplicated ==
    \/ UNCHANGED <<duplication, lost, staging, pointer>>
    \/ /\ duplication' = 0 /\ lost' = FALSE
       /\ UNCHANGED <<staging, pointer>>
    \/ /\ desktop.available
       /\ duplication' = desktop.mode /\ lost' = FALSE
       /\ UNCHANGED <<staging, pointer>>

\* releaseDuplication(): a frame that is still held is released first.
ReleaseDuplication ==
    /\ duplication' = 0 /\ staging' = 0 /\ lost' = FALSE /\ held' = FALSE

\* init(): the device and the monitors are there, or it fails.
Start ==
    /\ grabber = "off"
    /\ \/ Duplicated /\ grabber' = "idle" /\ held' = FALSE
       \/ ReleaseDuplication /\ grabber' = "error" /\ UNCHANGED pointer
    /\ needReinit' = FALSE /\ tries' = 0
    /\ UNCHANGED <<screenSide, grabbed, cachedCursor, skipped>>

---------------------------------------------------------------------------
(* captureFrame().                                                         *)

Enter ==
    /\ grabber = "idle"
    /\ IF needReinit
       THEN grabber' = "retry" /\ tries' = 0 /\ ReleaseDuplication
       ELSE grabber' = "acquire"
            /\ UNCHANGED <<tries, duplication, staging, lost, held>>
    /\ grabbed' = 0
    /\ UNCHANGED <<screenSide, needReinit, cursor>>

\* Mistake: handleDesktopSwitch() gives up as if it had succeeded.
RetryOnce ==
    /\ grabber = "retry"
    /\ needReinit' = FALSE /\ grabber' = "acquire"
    /\ Duplicated \/ NotDuplicated
    /\ UNCHANGED <<screenSide, held, tries, grabbed, cachedCursor, skipped>>

\* One attempt of handleDesktopSwitch().
Retry ==
    /\ grabber = "retry"
    /\ \/ /\ Duplicated
          /\ needReinit' = FALSE /\ grabber' = "acquire"
          /\ UNCHANGED tries
       \/ /\ NotDuplicated
          /\ IF tries + 1 < Retries
             THEN tries' = tries + 1 /\ UNCHANGED grabber
             ELSE tries' = 0 /\ grabber' = "idle"
          /\ UNCHANGED needReinit
    /\ UNCHANGED <<screenSide, held, grabbed, cachedCursor, skipped>>

\* Mistake: a lost duplication is an error like any other.
AcquireAgain ==
    /\ grabber = "acquire"
    /\ \/ ~lost /\ held' = TRUE /\ grabber' = "process"
       \/ grabber' = "idle" /\ UNCHANGED held
    /\ UNCHANGED <<screenSide, duplication, staging, lost, needReinit, tries,
                   grabbed, cursor>>

\* AcquireNextFrame(): a frame, a timeout or another failure, or the
\* duplication is lost.
Acquire ==
    /\ grabber = "acquire"
    /\ IF lost
       THEN needReinit' = TRUE /\ grabber' = "idle" /\ UNCHANGED held
       ELSE /\ \/ held' = TRUE /\ grabber' = "process"
               \/ grabber' = "idle" /\ UNCHANGED held
            /\ UNCHANGED needReinit
    /\ UNCHANGED <<screenSide, duplication, staging, lost, tries, grabbed,
                   cursor>>

\* The pointer's part of a frame that was copied: getPointerShape() if the
\* pointer is visible.
ReadPointer ==
    /\ pointer' = [pointer EXCEPT !.news = FALSE]
    /\ \/ /\ pointer.news /\ pointer.visible
          /\ cachedCursor' = pointer.shape
          /\ skipped' = FALSE
       \/ /\ skipped' = (skipped \/ pointer.news)
          /\ UNCHANGED cachedCursor

\* processFrame(): CopyResource() to the staging texture, and from there to the
\* frame, which takes its size.
CopyFrame == grabbed' = staging

\* The frame is copied, or processFrame() fails; then ReleaseFrame().
Process ==
    /\ grabber = "process" /\ grabber' = "idle"
    /\ held' = FALSE
    /\ \/ CopyFrame /\ ReadPointer
       \/ /\ pointer' = [pointer EXCEPT !.news = FALSE]
          /\ skipped' = (skipped \/ pointer.news)
          /\ UNCHANGED <<grabbed, cachedCursor>>
    /\ UNCHANGED <<screenSide, duplication, staging, lost, needReinit, tries>>

\* ~HostSession joins the capture thread, then release().
DxgiRelease ==
    /\ grabber = "idle" /\ grabber' = "off"
    /\ ReleaseDuplication /\ needReinit' = FALSE
    /\ UNCHANGED <<screenSide, tries, grabbed, cursor>>

CaptureFrame == Enter \/ Retry \/ Acquire \/ Process

DxgiNext == DesktopChanges \/ PointerChanges \/ Start \/ CaptureFrame
            \/ DxgiRelease

\* The capture thread runs; the system grants a duplication, and a frame, that is
\* asked for again and again while it could.
DxgiFairness ==
    /\ WF_dxgiVars(CaptureFrame)
    /\ SF_dxgiVars(Retry /\ grabber' = "acquire")
    /\ SF_dxgiVars(Acquire /\ held')
    /\ SF_dxgiVars(Process /\ grabbed' = staging)

DxgiSpec == DxgiInit /\ [][DxgiNext]_dxgiVars /\ DxgiFairness

---------------------------------------------------------------------------
(* Properties.                                                             *)

\* The type invariant.
DxgiTypeOK ==
    /\ desktop \in [mode : Modes, available : BOOLEAN]
    /\ switches \in 0..MaxSwitches
    /\ grabber \in {"off", "idle", "retry", "acquire", "process", "error"}
    /\ duplication \in Modes \cup {0} /\ staging \in Modes \cup {0}
    /\ lost \in BOOLEAN /\ held \in BOOLEAN /\ needReinit \in BOOLEAN
    /\ tries \in 0..(Retries - 1)
    /\ grabbed \in Modes \cup {0}
    /\ pointer \in [shape : Nat, visible : BOOLEAN, news : BOOLEAN]
    /\ cachedCursor \in Int /\ skipped \in BOOLEAN

\* captureFrame() dereferences duplication_ and copies into a staging texture of
\* the same size as the desktop image, whatever attempts of handleDesktopSwitch()
\* failed half-way before.
CopyFits ==
    grabber \in {"acquire", "process"} => duplication # 0 /\ staging = duplication

\* AcquireNextFrame() is never called while a frame is held, which would fail
\* for ever after.
ReleasedBeforeAcquired == held => grabber = "process"

\* "Shape hasn't changed; return cached data": the cached shape is the pointer's,
\* unless a frame has yet to report a new one or one report could not be read.
CursorIsCurrent ==
    cachedCursor = pointer.shape \/ pointer.news \/ skipped

DxgiInv == DxgiTypeOK /\ CopyFits /\ ReleasedBeforeAcquired /\ CursorIsCurrent

\* Once the desktop is back for good, however often it was switched away and
\* changed its mode before, captureFrame() delivers frames of its size again and
\* again.
FramesAgain ==
    <>[](desktop.available /\ grabber \notin {"off", "error"})
        => []<>(grabbed = desktop.mode)
=============================================================================
