------------------------------- MODULE MfCodec -------------------------------
(***************************************************************************)
(* MFEncoder and MFDecoder, src/src/codec/mf_encoder.cpp: two objects of   *)
(* one process that share the start count of Media Foundation, and         *)
(* encode() on the encode thread of HostSession against requestKeyFrame()  *)
(* on another thread.  HostSession calls init() again for a new            *)
(* resolution, without destroy().                                          *)
(* The transform (MFT) is external: it delays pictures, has room for a few *)
(* and remembers until its next input that a key frame was asked for.      *)
(***************************************************************************)
EXTENDS Integers, Sequences

CONSTANTS
    MfDelay,        \* pictures the transform holds before it gives one out
    MfRoom,         \* pictures it has room for
    MaxMfInits,     \* bound: calls of init()
    MaxFaults       \* bound: failures of ProcessInput() and ProcessOutput()

ASSUME MfAssumption ==
    /\ MfDelay \in Nat /\ MfRoom \in Nat /\ MfDelay < MfRoom
    /\ MaxMfInits \in Nat /\ MaxFaults \in Nat

VARIABLES
    mfStarts,       \* MFStartup() calls less MFShutdown() calls
    mfInits,        \* init() calls so far
    encInit, decInit,           \* initialized_ of the two objects
    encTransform, decTransform, \* transform_ is not null
    mf,             \* encode(): "idle", "sample", "output", "crashed"
    mfRequested,    \* keyFrameRequested_
    mfForces,       \* in the transform: it lets key frames be asked for
    mfForced,       \* in the transform: the next picture is to be a key frame
    mfHeld,         \* in the transform: is each picture a key frame
    mfFaults,       \* failures so far
    mfStuck,        \* history: failed ProcessOutput() calls since init()
    mfOut           \* the last picture taken out: "none", "key", "delta", or
                    \* "lost" if it was not returned

mfObjects == <<mfStarts, mfInits, encInit, decInit, encTransform, decTransform,
               mfForces>>
mfStream  == <<mfHeld, mfFaults, mfStuck, mfOut>>
mfVars    == <<mfObjects, mf, mfRequested, mfForced, mfStream>>

MfInit ==
    /\ mfStarts = 0 /\ mfInits = 0
    /\ encInit = FALSE /\ decInit = FALSE
    /\ encTransform = FALSE /\ decTransform = FALSE
    /\ mf = "idle" /\ mfRequested = FALSE /\ mfForced = FALSE /\ mfForces = FALSE
    /\ mfHeld = <<>> /\ mfFaults = 0 /\ mfStuck = 0 /\ mfOut = "none"

One(b) == IF b THEN 1 ELSE 0

---------------------------------------------------------------------------
(* init() and destroy().                                                   *)

CountInit == mfInits < MaxMfInits /\ mfInits' = mfInits + 1

\* Mistake: destroy() shuts Media Foundation down in any case.
DestroyedAlways(initialized) == mfStarts - 1

\* destroy(): MFShutdown() only `if (initialized_)`.
Destroyed(initialized) == mfStarts - One(initialized)

\* findEncoderMFT(): MFStartup() fails, ...
EncoderNotStarted ==
    /\ mf = "idle" /\ CountInit
    /\ UNCHANGED <<mfStarts, encInit, encTransform>>

\* ... or nothing can be activated: init() returns without destroy(), and the
\* transform of an earlier init() is gone if an activation was tried.
EncoderNotFound ==
    /\ mf = "idle" /\ CountInit
    /\ mfStarts' = mfStarts + 1
    /\ encTransform' \in {encTransform, FALSE}
    /\ UNCHANGED encInit

\* The stream or media types are refused: destroy().
EncoderNotConfigured ==
    /\ mf = "idle" /\ CountInit
    /\ mfStarts' = 1 + Destroyed(encInit)
    /\ encInit' = FALSE /\ encTransform' = FALSE

EncoderInitFails ==
    /\ EncoderNotStarted \/ EncoderNotFound \/ EncoderNotConfigured
    /\ UNCHANGED <<decInit, decTransform, mf, mfRequested, mfForces, mfForced,
                   mfStream>>

EncoderInit ==
    /\ mf = "idle" /\ CountInit
    /\ mfStarts' = mfStarts + 1
    /\ encInit' = TRUE /\ encTransform' = TRUE
    /\ mfRequested' = TRUE
    /\ mfForces' \in BOOLEAN
    /\ mfForced' = FALSE /\ mfHeld' = <<>> /\ mfStuck' = 0 /\ mfOut' = "none"
    /\ UNCHANGED <<decInit, decTransform, mf, mfFaults>>

\* The destructor calls destroy(), too, whether or not init() succeeded.
EncoderDestroy ==
    /\ mf = "idle"
    /\ mfStarts' = Destroyed(encInit)
    /\ encInit' = FALSE /\ encTransform' = FALSE
    /\ UNCHANGED <<mfInits, decInit, decTransform, mf, mfRequested, mfForces,
                   mfForced, mfStream>>

\* MFDecoder::init(), with the same ways to fail.
DecoderInit ==
    /\ CountInit
    /\ \/ UNCHANGED <<mfStarts, decInit, decTransform>>
       \/ /\ mfStarts' = mfStarts + 1
          /\ decTransform' \in {decTransform, FALSE} /\ UNCHANGED decInit
       \/ /\ mfStarts' = 1 + Destroyed(decInit)
          /\ decInit' = FALSE /\ decTransform' = FALSE
       \/ /\ mfStarts' = mfStarts + 1
          /\ decInit' = TRUE /\ decTransform' = TRUE
    /\ UNCHANGED <<encInit, encTransform, mf, mfRequested, mfForces, mfForced,
                   mfStream>>

DecoderDestroy ==
    /\ mfStarts' = Destroyed(decInit)
    /\ decInit' = FALSE /\ decTransform' = FALSE
    /\ UNCHANGED <<mfInits, encInit, encTransform, mf, mfRequested, mfForces,
                   mfForced, mfStream>>

---------------------------------------------------------------------------
(* requestKeyFrame() and encode().                                         *)

MfRequest ==
    /\ mfRequested' = TRUE
    /\ UNCHANGED <<mfObjects, mf, mfForced, mfStream>>

\* keyFrameRequested_.exchange(false), and ICodecAPI::SetValue() if the transform
\* has it.  Without a transform, which a failed init() can leave behind, encode()
\* dereferences a null pointer.
TakeRequest ==
    /\ mf = "idle" /\ encInit
    /\ mfRequested' = FALSE
    /\ IF encTransform
       THEN mf' = "sample" /\ mfForced' = (mfForced \/ (mfRequested /\ mfForces))
       ELSE mf' = "crashed" /\ UNCHANGED mfForced
    /\ UNCHANGED <<mfObjects, mfStream>>

Fault == mfFaults < MaxFaults /\ mfFaults' = mfFaults + 1

\* createInputSample() and ProcessInput(): the next picture, ...
ProcessInput ==
    /\ mf = "sample" /\ Len(mfHeld) < MfRoom
    /\ mf' = "output"
    /\ mfHeld' = Append(mfHeld, mfForced) /\ mfForced' = FALSE
    /\ UNCHANGED <<mfObjects, mfRequested, mfFaults, mfStuck, mfOut>>

\* ... refused by a transform that is full, or otherwise.
InputRefused ==
    /\ mf = "sample" /\ mf' = "idle"
    /\ \/ Fault
       \/ Len(mfHeld) = MfRoom /\ UNCHANGED mfFaults
    /\ UNCHANGED <<mfObjects, mfRequested, mfForced, mfHeld, mfStuck, mfOut>>

\* MF_E_TRANSFORM_NEED_MORE_INPUT.
NeedMoreInput ==
    /\ mf = "output" /\ Len(mfHeld) <= MfDelay /\ mf' = "idle"
    /\ UNCHANGED <<mfObjects, mfRequested, mfForced, mfStream>>

\* Mistake: the request is cleared when a picture was returned.
ProcessOutputClears ==
    /\ mf = "output" /\ Len(mfHeld) > MfDelay /\ mf' = "idle"
    /\ mfHeld' = Tail(mfHeld)
    /\ mfOut' = IF Head(mfHeld) THEN "key" ELSE "delta"
    /\ mfRequested' = FALSE
    /\ UNCHANGED <<mfObjects, mfForced, mfFaults, mfStuck>>

\* ProcessOutput(): one picture is taken out and returned.
ProcessOutput ==
    /\ mf = "output" /\ Len(mfHeld) > MfDelay /\ mf' = "idle"
    /\ mfHeld' = Tail(mfHeld)
    /\ mfOut' = IF Head(mfHeld) THEN "key" ELSE "delta"
    /\ UNCHANGED <<mfObjects, mfRequested, mfForced, mfFaults, mfStuck>>

\* It fails, and the picture stays; or the sample cannot be read.
OutputFails ==
    /\ mf = "output" /\ Len(mfHeld) > MfDelay /\ mf' = "idle"
    /\ Fault
    /\ \/ mfStuck' = mfStuck + 1 /\ UNCHANGED <<mfHeld, mfOut>>
       \/ mfHeld' = Tail(mfHeld) /\ mfOut' = "lost" /\ UNCHANGED mfStuck
    /\ UNCHANGED <<mfObjects, mfRequested, mfForced>>

MfEncode == TakeRequest \/ ProcessInput \/ InputRefused \/ NeedMoreInput
            \/ ProcessOutput \/ OutputFails

\* `crashed` has no successor: the process is gone.
MfNext ==
    /\ mf # "crashed"
    /\ \/ EncoderInitFails \/ EncoderInit \/ EncoderDestroy
       \/ DecoderInit \/ DecoderDestroy \/ MfRequest \/ MfEncode

\* Frames keep coming.
MfFairness == WF_mfVars(MfEncode)

MfSpec == MfInit /\ [][MfNext]_mfVars /\ MfFairness

---------------------------------------------------------------------------
(* Properties.                                                             *)

\* The type invariant.
MfTypeOK ==
    /\ mfStarts \in Nat /\ mfInits \in 0..MaxMfInits
    /\ encInit \in BOOLEAN /\ decInit \in BOOLEAN
    /\ encTransform \in BOOLEAN /\ decTransform \in BOOLEAN
    /\ mf \in {"idle", "sample", "output", "crashed"}
    /\ mfRequested \in BOOLEAN /\ mfForces \in BOOLEAN /\ mfForced \in BOOLEAN
    /\ mfHeld \in Seq(BOOLEAN)
    /\ mfFaults \in 0..MaxFaults /\ mfStuck \in Nat
    /\ mfOut \in {"none", "key", "delta", "lost"}

\* Media Foundation is up while an object is initialised: every object that is
\* has a start of its own, whichever failed to come up or was destroyed before.
StaysStarted == mfStarts >= One(encInit) + One(decInit)

\* Between calls of encode() the transform holds no more pictures than it delays
\* and ProcessOutput() failed to take: only after as many failures as it has
\* room beyond its delay does it refuse frames, for ever.
NothingPilesUp ==
    Len(mfHeld) <= MfDelay + mfStuck + One(mf = "output")

\* The inductive invariant.
MfInv ==
    /\ MfTypeOK
    /\ StaysStarted
    /\ NothingPilesUp
    /\ mf \in {"sample", "output"} => encInit /\ encTransform

\* A request for a key frame, whenever it is made, ends with a key frame, if the
\* transform can be asked for one, unless a picture is lost, the transform is
\* full, or the encoder is set up again or goes away.
MfKeyFrameServed ==
    mfRequested /\ mfForces /\ mfOut = "delta" ~>
        mfOut # "delta" \/ Len(mfHeld) = MfRoom \/ ~encInit \/ mf = "crashed"
=============================================================================
