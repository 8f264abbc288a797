----------------------------- MODULE VaapiEncoder -----------------------------
(***************************************************************************)
(* VaapiEncoder, src/src/codec/vaapi_encoder.cpp: the driver's objects it  *)
(* creates and destroys, and encode() on the encode thread of HostSession, *)
(* step by step against requestKeyFrame() on the UI thread.                *)
(* HostSession calls init() again for a new resolution, without destroy(): *)
(* `vaInits` numbers the calls, and an object is a pair of its kind and of *)
(* the call that made it.  Pictures are numbered round a small cycle.      *)
(***************************************************************************)
EXTENDS Integers, Sequences

CONSTANTS
    IdrPeriod,      \* idrPeriod_
    MaxInits        \* bound: calls of init()

ASSUME VaapiAssumption == IdrPeriod \in Nat \ {0} /\ MaxInits \in Nat \ {0}

VARIABLES
    vaapi,          \* where it is: "closed", "idle", "flag", "render",
                    \* "extract", and "sent" after a packet was returned
    vaInits,        \* calls of init() so far
    vaObjects,      \* what exists in the driver
    vaHandle,       \* display_ with drmFd_, configId_, ...: the call that made
                    \* it, 0 if invalid
    vaRequested,    \* keyFrameRequested_
    vaIdr,          \* isIDR
    vaIndex,        \* frameIndex_ % idrPeriod_
    refSurface, reconSurface,   \* the pictures in them
    vaReference,    \* the picture that the rendered one refers to
    vaDelivered     \* the last picture returned since init(), 0 if none

vaState   == <<vaInits, vaObjects, vaHandle>>
vaFrames  == <<vaIndex, refSurface, reconSurface, vaReference, vaDelivered>>
vaapiVars == <<vaapi, vaState, vaRequested, vaIdr, vaFrames>>

\* What init() creates, in this order; the display comes first.
VaSteps == <<"display", "config", "surfaces", "context", "coded">>
VaKinds == {VaSteps[i] : i \in 1..Len(VaSteps)}

VaapiInit ==
    /\ vaapi = "closed" /\ vaInits = 0
    /\ vaObjects = {} /\ vaHandle = [k \in VaKinds |-> 0]
    /\ vaRequested = FALSE /\ vaIdr = FALSE /\ vaIndex = 0
    /\ refSurface = 0 /\ reconSurface = 0 /\ vaReference = 0 /\ vaDelivered = 0

---------------------------------------------------------------------------
(* init() and destroy().                                                   *)

Made(n) == {VaSteps[i] : i \in 1..n}

\* The handles after n steps of the call numbered c.
Handles(n, c) == [k \in VaKinds |-> IF k \in Made(n) THEN c ELSE vaHandle[k]]

\* destroy() with these handles: each is destroyed on the display it has now, so
\* one that was left by an earlier call is not found; the ids stay as they are.
VaDestroy(objects, handles) ==
    objects \ {o \in objects : o[2] = handles[o[1]] /\ o[2] = handles["display"]}

VaCreate(n, c) == vaObjects \cup (Made(n) \X {c})

VaStart ==
    /\ vaapi \in {"closed", "idle", "sent"} /\ vaInits < MaxInits
    /\ vaInits' = vaInits + 1
    /\ vaHandle' = Handles(Len(VaSteps), vaInits + 1)
    /\ vaObjects' = VaCreate(Len(VaSteps), vaInits + 1)
    /\ vaapi' = "idle"
    /\ vaRequested' = TRUE /\ vaIndex' = 0
    /\ refSurface' = 0 /\ reconSurface' = 0 /\ vaReference' = 0
    /\ vaDelivered' = 0
    /\ UNCHANGED vaIdr

\* A step fails after the display was opened: everything is destroyed.
VaStartFails ==
    /\ vaapi \in {"closed", "idle", "sent"} /\ vaInits < MaxInits
    /\ vaInits' = vaInits + 1
    /\ \E n \in 1..(Len(VaSteps) - 1) :
          /\ vaHandle' = [Handles(n, vaInits + 1) EXCEPT !["display"] = 0]
          /\ vaObjects' = VaDestroy(VaCreate(n, vaInits + 1),
                                    Handles(n, vaInits + 1))
    /\ vaapi' = "closed"
    /\ UNCHANGED <<vaRequested, vaIdr, vaFrames>>

\* openDevice() fails and init() returns at once: an encoder that was initialised
\* before stays initialized_, with its ids, on the display that is left: the old
\* one if no device could be opened, none, or one that vaInitialize() refused.
NoDevice ==
    /\ vaapi \in {"closed", "idle", "sent"} /\ vaInits < MaxInits
    /\ vaInits' = vaInits + 1
    /\ \E display \in {vaHandle["display"], 0, vaInits + 1} :
          vaHandle' = [vaHandle EXCEPT !["display"] = display]
    /\ UNCHANGED <<vaapi, vaObjects, vaRequested, vaIdr, vaFrames>>

\* A display that was initialised and not terminated; on any other no call of the
\* driver succeeds.
DisplayLives == <<"display", vaHandle["display"]>> \in vaObjects

\* destroy(): it returns at once when there is no display.
VaStop ==
    /\ vaapi \in {"idle", "sent"} /\ vaHandle["display"] # 0
    /\ vaapi' = "closed"
    /\ vaObjects' = VaDestroy(vaObjects, vaHandle)
    /\ vaHandle' = [vaHandle EXCEPT !["display"] = 0]
    /\ UNCHANGED <<vaInits, vaRequested, vaIdr, vaFrames>>

---------------------------------------------------------------------------
(* requestKeyFrame(), and encode().                                        *)

VaRequest ==
    /\ vaapi # "closed"
    /\ vaRequested' = TRUE
    /\ UNCHANGED <<vaapi, vaState, vaIdr, vaFrames>>

\* isIDR is computed ...
VaReadFlag ==
    /\ vaapi \in {"idle", "sent"} /\ vaapi' = "flag"
    /\ vaIdr' = (vaRequested \/ vaIndex = 0)
    /\ UNCHANGED <<vaState, vaRequested, vaFrames>>

\* ... and then the flag is cleared, with any request made in between.
VaClearFlag ==
    /\ vaapi = "flag" /\ vaapi' = "render"
    /\ vaRequested' = FALSE
    /\ UNCHANGED <<vaState, vaIdr, vaFrames>>

NextPicture == IF vaDelivered = 3 THEN 1 ELSE vaDelivered + 1

\* renderPicture(): the picture is written to reconSurface_.
VaRender ==
    /\ vaapi = "render" /\ vaapi' = "extract"
    /\ DisplayLives
    /\ reconSurface' = NextPicture
    /\ vaReference' = IF vaIdr THEN 0 ELSE refSurface
    /\ UNCHANGED <<vaState, vaRequested, vaIdr, vaIndex, refSurface,
                   vaDelivered>>

\* Mistake: the surfaces are swapped whether or not the picture is returned.
VaFailSwapped ==
    /\ vaapi \in {"render", "extract"} /\ vaapi' = "idle"
    /\ refSurface' = reconSurface /\ reconSurface' = refSurface
    /\ UNCHANGED <<vaState, vaRequested, vaIdr, vaIndex, vaReference,
                   vaDelivered>>

\* renderPicture() or extractNALs() fails.
VaFail ==
    /\ vaapi \in {"render", "extract"} /\ vaapi' = "idle"
    /\ UNCHANGED <<vaState, vaRequested, vaIdr, vaFrames>>

\* Mistake: only the first picture after init() is a periodic key frame.
VaDeliverOnce ==
    /\ vaapi = "extract" /\ vaapi' = "sent"
    /\ vaDelivered' = reconSurface
    /\ refSurface' = reconSurface /\ reconSurface' = refSurface
    /\ vaIndex' = IF vaIndex + 1 < IdrPeriod THEN vaIndex + 1 ELSE vaIndex
    /\ UNCHANGED <<vaState, vaRequested, vaIdr, vaReference>>

\* extractNALs() succeeds: the packet is returned.
VaDeliver ==
    /\ vaapi = "extract" /\ vaapi' = "sent"
    /\ vaDelivered' = reconSurface
    /\ refSurface' = reconSurface /\ reconSurface' = refSurface
    /\ vaIndex' = (vaIndex + 1) % IdrPeriod
    /\ UNCHANGED <<vaState, vaRequested, vaIdr, vaReference>>

VaEncode == VaReadFlag \/ VaClearFlag \/ VaRender \/ VaDeliver

VaapiNext == VaStart \/ VaStartFails \/ NoDevice \/ VaStop \/ VaRequest
             \/ VaEncode \/ VaFail

\* Frames keep coming; the driver does not fail for ever.
VaapiFairness == WF_vaapiVars(VaReadFlag) /\ WF_vaapiVars(VaClearFlag)
                 /\ SF_vaapiVars(VaRender) /\ SF_vaapiVars(VaDeliver)

VaapiSpec == VaapiInit /\ [][VaapiNext]_vaapiVars /\ VaapiFairness

---------------------------------------------------------------------------
(* Properties.                                                             *)

\* The type invariant.
VaTypeOK ==
    /\ vaapi \in {"closed", "idle", "flag", "render", "extract", "sent"}
    /\ vaInits \in 0..MaxInits
    /\ vaObjects \subseteq VaKinds \X (1..MaxInits)
    /\ vaHandle \in [VaKinds -> 0..MaxInits]
    /\ vaRequested \in BOOLEAN /\ vaIdr \in BOOLEAN
    /\ vaIndex \in 0..(IdrPeriod - 1)
    /\ {refSurface, reconSurface, vaReference, vaDelivered} \subseteq 0..3

\* The viewer's decoder has, as its only reference, the last picture it was
\* given: that is the one every P picture refers to, whatever pictures were
\* rendered and not returned, or not rendered, before.  In particular the first
\* picture returned after init() is a key frame, although the request that
\* init() makes is cleared by an encode() that fails.
RefersToDelivered ==
    vaapi = "extract" /\ ~vaIdr => vaReference = vaDelivered /\ vaDelivered # 0

\* A failed init() and destroy() leave nothing of the last init() in the driver.
\* (Of a call before it they leave what it had: init() does not destroy first.)
NothingInDriver ==
    vaapi = "closed" => \A object \in vaObjects : object[2] < vaInits

\* While the display lives, encode() uses what one init() made, all of it: no id
\* of an earlier init(), and nothing that was destroyed.
UsesItsOwn ==
    vaapi # "closed" /\ DisplayLives =>
        \A k \in VaKinds : /\ vaHandle[k] = vaHandle["display"]
                          /\ <<k, vaHandle[k]>> \in vaObjects

VaInv == VaTypeOK /\ RefersToDelivered /\ NothingInDriver /\ UsesItsOwn

\* A key frame is returned after every request, be it made at the moment the flag
\* is cleared or used up by a frame that is not returned: idrPeriod_ frames bound
\* the wait.  An init() that finds no device may leave a display on which nothing
\* can be encoded.
VaKeyFrameServed ==
    vaRequested ~> (vaapi = "sent" /\ vaIdr) \/ vaapi = "closed" \/ ~DisplayLives
=============================================================================
