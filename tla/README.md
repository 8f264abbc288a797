# omnidesk24 in TLA+

omnidesk24 is a peer-to-peer remote desktop in C++: a viewer sees and controls
the screen of a host. A small relay server tells programs where each other
are; the screen itself travels over a WebRTC data channel. This directory
models the parts of `src/src` whose correctness is a matter of order, threads,
failure or boundaries, checks them with TLC and proves the most important
properties with TLAPS.

## 1. Inventory

| part | files | state | operations | what is hard, and what makes it correct |
|---|---|---|---|---|
| Relay server | `signaling/signaling_server.*`, `server_main.cpp` | `clients_` (channels in accept order), `users_` (id -> channel, last heartbeat), `running_`, the listener | accept, one visit per channel and pass, eight message handlers, two clean-ups, the purge, `start`, `stop` | registrations are replaced while the old channel is still listed; disconnects, resets and vanished machines; a single thread serves everyone. An id has one owner, its owner knows, nobody else hears its dialogue, dead users go away. |
| Channel and framing | `signaling/tcp_channel.*`, `wire_format.h` | `sock_`, `recvBuf_`, `recvPos_`, partial sends | connect, accept, send, recv, pollRead, close | split, coalesced and truncated messages; end-of-file against buffered messages; a full peer. Messages arrive once, whole and in order. |
| Signaling client | `signaling/signaling_client.*` | `running_`, `connected_`, `registered_`, the channel, the receive thread, callbacks | connect, disconnect, register, request/accept/reject, SDP/ICE senders, receive loop, reconnect | main thread, receive thread and the application's reconnect thread share all of it. It comes back after a lost connection; disconnect ends it. |
| Application | `ui/app.cpp`, `main.cpp` | `state_`, `viewerSession_`, `hostSession_`, `webrtcSession_`, `pendingActions_`, the dialog | UI commands, queued callbacks, connect timeout, teardown, shutdown | callbacks are queued and run late; answers race cancel and timeout; sessions replace each other; threads outlive what they point to. Only invited peers see the screen; what is lost is closed; quitting destroys what is pointed to after what points to it. |
| WebRTC session | `webrtc/webrtc_session.*` | peer connection, channels, callbacks | start as host or viewer, remote SDP and ICE, send, close | callbacks from library threads during teardown. |
| Host session | `session/host_session.*` | capture and encode threads, ring of frames, previous frame, key-frame request, bitrate | start, stop, capture, diff/classify/merge/encode/send, quality report | two threads and a lossy ring; what is skipped must be sent later; the encoder's size follows the quality level. The viewer converges to the host's screen. |
| Viewer session | `session/viewer_session.*` | decoder, pending picture | onNalUnit, decode, upload | two threads share one pending picture; latest picture wins. What is shown is what was sent. |
| Quality control | `codec/adaptive_quality.*`, `codec/rate_control.*`, `codec/quality_tuner.*` | level, counters, bitrate | update, step up, step down, reset | hysteresis and bounds. |
| Omni codec | `codec/omni/*`, `core/simd_*` | encoder and decoder reference frames, tile modes, rANS tables and states | encode, decode | both references must stay equal; tables must sum to the scale exactly; the decoder must undo each step of the encoder, also where a value does not fit a byte. |
| H.264 and hardware codecs | `codec/vaapi_encoder.*`, `mf_encoder.*`, `openh264_*`, `nvenc_encoder.*` | driver objects, start counts, the key-frame flag, pictures held | init, encode, requestKeyFrame, destroy | set-ups that fail half-way and are repeated; a request that races the encode thread; pictures that come out late or not at all. Nothing is leaked or used after it was destroyed; a request is served. |
| Difference | `diff/*` | the previous frame, rectangles | compare blocks, classify, merge | small changes add up; merged rectangles must cover every dirty one. |
| Capture | `capture/dxgi_capture.*`, `x11_capture.*`, `pipewire_capture.cpp` | duplication, staging texture, pointer shape; display, shared memory, damage | init, captureFrame, release | the desktop is switched away and changes its mode; set-up fails half-way; the screen changes between two requests. Frames come again, no change is forgotten, nothing is left behind. |
| Thread pool | `core/thread_pool.*` | `tasks_`, `stop_`, the workers | submit, destructor | lost wake-ups, spurious ones, a pool remade by its user. Every task runs, each in a decoder of its own. |
| Ring buffer | `core/ring_buffer.h` | slots, `head_`, `tail_` | push, pop | two threads without a lock. It is a bounded queue. |
| Core | `core/*` (the rest) | logger, clock | - | - |
| Input | `input/*` | cursor predictor, injector | predict, inject | smoothing at boundaries; keys held at disconnect. |
| User id | `signaling/user_id.*` | the id file | generate, load, save | a torn or missing file. |
| Database | `signaling/database.*` | a PostgreSQL connection | session records | not used by the server loop. |
| Rendering, widgets | `render/*`, `ui/*` | GPU and window handles | - | I/O. |

How the parts interact: the application owns one `SignalingClient`, whose receive thread
turns relay messages into actions queued for the UI thread; UI actions create a host or
viewer session and a `WebRtcSession`, which exchanges SDP and ICE through the same client;
video packets go from the host's encode thread to the data channel and are decoded on the
library's thread at the viewer; input events go back over the control channel. Client and
server share nothing but TCP connections. `PROJECT.json` lists the hazards at their lines.

## 2. Plan

Modules, in order of importance, with the abstract specification of each in
brackets.

1. `SignalingServer` [`Presence`], proofs and refinement. Done.
2. `SignalingClient`: the receive thread, the owner and the application's
   reconnect thread over one client object; proofs. Done.
3. `TcpFraming`: partial reads and writes, coalescing, end-of-file against
   buffered messages, `pollRead`, the 5 s timeout; proofs. Done.
4. `RingBuffer` [`BoundedFifo`], proofs and refinement. Done.
5. `AdaptiveQuality` and `ScreenStream`, which extends it: capture, ring, encoder,
   channel, decoder, upload; proofs. Done.
6. `AppSession`: dialogue, timeout, cancel, queued callbacks, the sessions they
   start, shutdown, against a peer that runs the same program; proofs. Done.
7. The parts a frame passes: `DxgiCapture`, `X11Capture`, `RectMerger`, `TileCodec`,
   `RansCodec`, `VaapiEncoder`, `MfCodec`, `OpenH264Codec`, and the decoder's
   `ThreadPool`; proofs of the capture backends, VAAPI, Media Foundation, of what is
   done to pixels and symbols, and of the pool. Done.
8. Left: `UserId` (the id file against crashes), the cursor predictor, the I420 path
   of the sessions. Every safety property of a passing run has its theorem; what is
   left to prove is named in section 6.

Modules to be proved about use no RECURSIVE operator. The parts that share no
state, the stations of `MCFrames` and the hands of `MCThreads`, share a run.

## 3. Modules

### SignalingServer

One TCP connection is modelled from both ends. The server's end is `open`
(`isOpen()`), `buf` (whole messages in `recvBuf_`) and `net` (messages in the
kernel); the peer's end is `peer`, `acked` (the ids it has read `register_ok`
for) and `out` (replies on their way). `clients`, `users`, `running` are the
fields of that name; `cursor` is the loop's iterator, `pc` the place of the
server thread, `age` and `purgeDue` the clock readings in 30 s periods.

- `Accept`, `Visit*`, `EndPass`, `Purge` are the server thread, one action per
  visit of a client: the code holds `clientsMutex_` for the pass and no other
  thread writes `users_`, so a visit is atomic for everyone who can look.
- `HandleRegister` ... `HandleForward` are the handlers; they close channels,
  write `users_` and send as the code does. A send on a closed channel or towards
  a dead peer is silently dropped, as in the code, which ignores its result.
- `recv` takes all the kernel holds and returns one message; end-of-file is
  seen before the messages left in `recvBuf_` are looked at (`VisitDisconnected`),
  and a reset is an error the loop ignores, followed by end-of-file.
- `StopBegin` and `StopEnd` are `stop()` before and after `join()`. The owner
  may start the server again.
- `Connect` ... `Recycle` are the peers: they send what `SignalingClient` can
  send (`PeerRequests`), read replies, close, are reset, or vanish. `Recycle` gives
  a dead connection's slot to a new one, so that runs go on for ever.

Left out: the bytes of messages (`TcpFraming` has them), JSON text, hosts,
ports, SDP and candidates, messages no client sends.

### Presence

The promise, without channels, queues or threads: an id has at most one
owner; a program told that it owns an id owns it until its connection is
severed; claiming an owned id severs the owner, never silently redirects it.
`SignalingServer` implements it with `owner <- Owner`, `told <- ToldPairs`.

### SignalingClient

One client object and the threads that share it. `owner` is where its owner is, who calls
`connect()` with `registerUser()`, and `disconnect()`, as often as it likes. `user` tells
three kinds apart: "app" is the App's init, reconnect and shutdown threads, which join one
another and so are one actor, and connects whenever the client is not connected; "program"
connects at any time; "careful" only when it has called `disconnect()` since the last
time. `rx` is where `receiveThread_` is. Both advance by one access to shared state per
step, because the code holds no lock between them: the flags `running_`, `connected_`,
`registered_` and the channel are read and written separately. `OwnerEnter` to
`OwnerRegister` are `connect()` and `registerUser()`; `OwnerDisconnect`, `OwnerClose`,
`OwnerJoin` are `disconnect()`, also when `connect()` calls it (`again`). `RxTop` to
`RxHandle` are `receiveLoop`, `RxLost` to `RxMark` `tryReconnect`. Assigning to a
`std::thread` that is still joinable ends the program (`terminated`). The server at the
other end answers registrations (with `register_fail` if the id is not one) and heartbeats
in the order of the requests, relays, and may drop a link; only the newest link is in use.
`late` is a history: `registered_` was set by an answer that the receive thread had in
hand when `disconnect()` cleared the flags. A request whose answer is still to come is not
sent twice. Left out: the callbacks, which `AppSession` has, and the senders of the
dialogue, which do not touch the flags.

### TcpFraming

One direction of a `TcpChannel`. Message `k` is the `k`-th that took `sendMutex_`,
a byte the pair of its message and position; the header is the first
`HeaderSize` bytes. `SendBegin`, `SendSome`, `SendPayload`, `SendEnd`, `SendTimeout`
are `send()` and its two `sendRaw()`; `Poll`, `RecvDisconnected`, `RecvMessage`,
`RecvPartial` the receiving loop. `recv()` is one step, since nobody else touches
`recvBuf_`; `polls` tells the client's loop (which calls `pollRead` first) from
the server's. What a header's bytes say is known from the message they belong to;
a header is recognised only if its bytes are those of one header.

### RingBuffer and BoundedFifo

One step per access to shared memory: `push()` is call, check, two steps of
writing (a slot is not atomic), publish; `pop()` is call, check, take, publish.
Release and acquire on the indices make sequentially consistent steps sound here:
every index has one writer. `BoundedFifo` is the promise: a queue of
`Capacity - 1` items which refuses only when full. An item counts as inside until
`tail_` is stored, when the refinement's `Contents` loses it.

### AdaptiveQuality

`update()` as a function of the state and of what the sample says: wish to go down,
up, or neither. Encode times, bitrates and thresholds are abstracted to that wish,
the code makes at most one of them with its default thresholds. `streak` is a
history variable that exists for the property: how many equal wishes came in a row
since the last step.

### ScreenStream

A host's session from the screen to the viewer's window; it extends
`AdaptiveQuality`. A frame is a function from tiles to contents; two contents at
most `Threshold` apart are not told apart by the block comparison. Threads:

- `Capture` is `captureLoop`, with the push into the ring, which `RingBuffer` shows
  to be a queue that refuses when full;
- `TakeFrame`, `EncodeRefuses`, `EncodeBegin`, `EncodeFinish`, `Send`, `Adapt` are
  `encodeLoop` with `OmniCodecEncoder::encode` and `sendVideo` inside it; `encode` is
  split where `keyFrameRequested_`, which another thread writes, is read and cleared;
- `Connected`, `RequestKeyFrame`, `ChannelOpen` are the peer connection and the UI
  thread: the only request for a key frame is made when the connection is up, and
  the video channel opens some time later;
- `Receive` is `onNalUnit` with the Omni decoder (calls come one at a time under
  `cbMutex_`, so the `decoding_` test never drops anything), `Upload` is
  `processOnGlThread`.

A copied tile may be `Garbled`: the scroll detector accepts 75 % of the rows. A tile
decoded without a reference is `Black`. `sendVideo` may throw. Of a block at the edge of
the screen the comparison sees only a square (`simd_diff.cpp:54`): a change beside it is
one of those that are too small to notice. Left out: `stop()`, encoders other than Omni
(it always initialises and is always first) and with them the I420 and resizing
path, the classifier's regions, which the Omni encoder ignores, and rates.

### AppSession

`app.cpp` and `webrtc_session.cpp` for one of the two parties of a connection. `ui` is
where the UI thread is; the reader of the signaling client and the threads of the
library only queue actions, which `Drain` takes as a batch and `RunAction` runs one
by one, with the messages of the window in between. `Arrives` is what a peer's program,
through the relay, can send: each answer once, an offer only after acceptance. The
acceptance callback does not compare the sender with whom was asked (`app.cpp:1237`);
the model does not either, and lets answers come after the timeout, Cancel or another
request: that peers answer only what they were asked is the peers' code.
`Connect` ... `Quit` are the user, `Update` the tick with the connect timeout and the
viewer's painting, `SendFrame` the host's encode thread, `JoinReconnect` ...
`ReleaseSignaling` the steps of `shutdown()`. `webrtc` is `webrtcSession_`, replaced as a
whole, as the code does; `invited` and `reached` are histories: whom this user asked
or accepted, and who was shown the screen. Left out: painting, text input, ICE
candidates, statistics.

### ThreadPool

`mutex_`, `cv_` and `stop_` as one step per critical section, with the notification
outside of it where the code has it outside, and spurious wake-ups. Its user is
`OmniCodecDecoder`: a packet is a number of tasks and as many waits; `init()` replaces
the pool. A worker draws its number when it runs its first task, as the
`thread_local` in the lambda does, from a counter that no new pool resets.

### Capture: DxgiCapture, X11Capture

`DxgiCapture` represents a duplication and a staging texture by the mode of the
desktop they were made for; `Retry` is one attempt of `handleDesktopSwitch()` with
each of the places where it may fail. `grabbed` is what `captureFrame()` delivered, none
while a call is under way. `ReadPointer*` is the pointer's shape with its
cache. `X11Capture` keeps the set of resources that `init()` acquired when it failed;
the server's damage accumulates between `Look`, `FetchDamageRects` and `Grab`.

### RectMerger, TileCodec, RansCodec

Algorithms, each a small state machine over bounded inputs. `RectMerger` has one step
per union. `TileCodec` is one tile on its way from the captured pixels to the shown
ones, in its three modes, with the tests by which the encoder chooses a predictor and
the width of symbols. What the DCT and its quantisation make of the blocks of a LOSSY
tile is left open (`Transforms`: any values); which pixels belong to no block is not. The
number of values of a byte is a constant, so that overflow happens in small instances.
`RansCodec` is the entropy coder between the two: the frequency table with its
trimming, the reciprocal division, four interleaved states, the bytes they spill and
the decoder that reads them backwards.

### VaapiEncoder, MfCodec, OpenH264Codec

What each wrapper keeps between calls of `encode()`, with `requestKeyFrame()` on another
thread between any two steps, and `init()` again without `destroy()`, as `HostSession`
calls it. The driver, the transform and the library are external: they may fail, delay
or skip. Coded bytes and colour conversion are left out. In `VaapiEncoder` an `init()`
that finds no device on a running encoder leaves `display_` at the last display that could
not be initialised (`NoDevice`): the encoder still counts as initialised, the driver
refuses every call (`DisplayLives`), and frames fail until `init()` finds a device again.

### MCFrames and MCThreads

They put modules that share no variable into one run: `station`, or `hand`, is chosen in
the initial state and never changes, one module takes steps, the others stay in an
initial state. A behaviour of the run is thus a behaviour of one module, and the
properties are those of the modules. Weak fairness of an idle module's actions is
harmless, as they are disabled there; strong fairness is stated of a disjunction of
actions, one for each station, which in a behaviour of one station is that of its own.

## 4. Runs

| run | specification | distinct states | what it shows |
|---|---|---|---|
| `registry` | `SignalingServer`, two connections, one of which registers two ids | 1 012 529 | the invariant of section 5 in all its parts, `OnlyOwnerHears`, and that the server implements `Presence` |
| `live` | the same with fairness, one id | 91 862 | a REGISTER is handled whatever other peers send; a closed connection's user is removed; a vanished one's is removed if time passes |
| `app` | `AppSession`, two peers | 588 201 | nobody is connected or shown the screen uninvited; a running host session can be ended, a lost one is; connecting ends; `shutdown()` destroys the signaling client after the sessions and the threads that call it |
| `stream` | `ScreenStream` | 388 424 | encoder and decoder keep the same reference; what was encoded last is shown in the end, and it is the screen |
| `threads` | `MCThreads`: ring, pool, framing, client | 175 348 | the ring is a `BoundedFifo` without a race; every task of the pool runs, in a `TileDecoder` of its own, and no wake-up is lost; whole messages in order up to the first failed send, all of them for a loop that does not poll; with an owner that disconnects before it connects again the client registers after each loss or gives up after its last attempt, and `isRegistered()` speaks of the link in use unless an answer was late; `disconnect()` returns |
| `frames` | `MCFrames`: nine stations | 59 822 | capture recovers and forgets no change; rectangles stay covered; the quality ladder; LOSSLESS tiles and the entropy coder give back what went in; encoders leak nothing, refer to what was delivered and serve requests for key frames |
| `client_app` (violation) | `SignalingClient` | 22 245 | with the App's background thread the client does not come back |
| `client_zombie` (violation) | the same | 10 848 | after `disconnect()` the client may be connected |
| `framing_poll` (violation) | `TcpFraming` | 14 323 | `pollRead()` hides a message that is in `recvBuf_` |
| `framing_timeout` (violation) | the same | 839 | after a send that timed out, `recv()` returns a message nobody sent |
| `stream_scaled` (violation) | `ScreenStream` | 339 263 | after a change of level the encoder's size is not that of its frames |
| `tile_bound` (violation) | `TileCodec`, grey gradients | 7 314 | the error of a NEAR_LOSSLESS tile is not bounded by its maximum |

The numbers of the violated runs are those of the states found before the violation.

Bounds, and why they are enough:

- *Server.* Two connections and two ids give every relation the handlers tell apart:
  an id registered by its owner, by another connection, twice by one connection, by
  none. Slots are recycled, so runs are endless and any number of connections follow
  one another. One request in the kernel and any number of passes let every order of
  requests, closes, resets and purges happen; a client that is `StaleAfter` periods
  silent is purged. `live` has two requests in flight, so that one waits behind
  another.
- *Application.* Two peers, one request of each direction: this user asks one peer
  while the other, or the same one, asks this user, so that sessions replace each
  other in both roles. Two queued actions are the fewest that can be out of date
  with one another; one key press; one tick until the timeout, which may fire
  before or after any answer.
- *Client.* `threads` has two links, two failures and two attempts: a connection and
  one more, which the receive thread or the owner makes, and as many failures in a row
  as there are attempts, so that giving up is reached (`rx` "done" with `running_` set,
  after which nothing registers again). Two links are enough for an answer that was
  late on the first to leave its flag for the second. The two violated runs have three
  links and one failure. The last link of the instance stays, which is what lets
  "comes back" be asked of a finite run.
- *Framing.* A header of two bytes can be split; payloads of 0, 1 and 3 bytes are
  empty, shorter than the buffer and longer than it, so that it must grow; a pipe of
  four bytes makes both a full pipe and two messages in one read happen.
- *Ring.* Capacity 4 is the capacity `HostSession` uses; two items tell a repeated or
  reordered item from the right one.
- *Thread pool.* Two threads and three pools: the numbers drawn in one pool are carried
  over to the next and wrap; three tiles are more than there are threads.
- *Stream.* Two tiles, one of which may be skipped while the other is coded; contents
  0, 1, 2 with threshold 1 give a change that is noticed and two that are not but add up
  to one; a ring of two and two changes fill it while the encoder works; two packets
  in flight put a picture behind one not yet uploaded. Thresholds of the quality
  controller are 2 here and the code's own 10 and 30 in `frames`.
- *Capture.* Two modes, three switches and two attempts: a switch during the attempts
  to recover from another. Three drawings: before, between and after the requests of
  one captured frame.
- *Rectangles.* Up to four out of seven, disjoint, overlapping, adjoining and empty,
  with at most one or two left.
- *Tiles.* 5x4 pixels, so that one column lies in no 4x4 block, nor in a group of four
  of the SSE2 conversion; the theorems are about every size, those that blocks of 8 or 16
  divide included; bytes of eight
  values, so that colours, residuals and their products overflow; patterns that make
  each predictor win. `tile_bound` has gradients of one per pixel.
- *Entropy coder.* The widths of the code scaled down together (tables of 4 slots,
  bytes of 2 values, a lower bound of 16, a reciprocal's word of 64) keep the
  inequalities between them and let states spill none, one and two bytes; tiles of 1
  to 8 symbols include one whose table has to be trimmed.
- *Codecs.* A key frame every third picture; two or three calls of `init()`; two
  faults; a transform that delays one picture and has room for three.

What a property excepts is said where it is defined, and with the hazard it is about:
`RegisteredIsServed` is about connections with one id (of one with two ids, the second
entry of `users_` stays until the purge); the screen's half of `AppInv` holds until a
second session comes in between, and a late acceptance beside a running session is not
forbidden, only that its sender was not invited; `StreamInv`, `SentIsShown` and `Converges`
except a viewer that missed a key frame or a packet; `DxgiInv` a shape whose report was
skipped; `MfKeyFrameServed` a transform that is full; `VaKeyFrameServed` an encoder whose
display was not opened again.

Deadlock is not checked where the system may stop for good: a server that was
stopped, a client that was shut down or terminated, a program that has ended, a
sender that closed, a pool that was destroyed, a screen that no longer changes, an
algorithm that is done.

Fairness. The server's thread takes steps while it runs and `stop()` returns
(`ServerStep`, `StopEnd`): one thread in a loop without waiting for peers. Peers are not
fair; for a vanished machine the passing of time is a premise of the property, not an
assumption of the system. In the client its threads run (`RxStep`, `OwnerStep`), the App's
background thread looks every five seconds, and a server that is there answers. Strong
fairness of `RxBeat` says that 30 s pass: a loop that goes round for ever sends a
heartbeat from time to time, whose answer is what makes `pollRead()` see a message left in
`recvBuf_`; without it a `register_ok` that came in one read with another message could
wait there. In the application only the UI thread is fair; users, peers and the library do
what they like, or nothing. In the pool every worker and the caller run, and nobody is
owed a spurious wake-up. In the framing layer a send that has begun goes on (or times out)
and the receiving loop runs. In the stream the encode thread, the library's thread and the
UI thread run and capture delivers what is new; `Converges` further needs a capture source
that delivers a frame from time to time even if nothing changed (as X11 capture without
damage events does), which is its premise: with a source that delivers changes only, the
last change is lost when the ring is full. The stations of a frame are called in a loop,
hence weakly fair; what an external part may do or refuse at each call (the desktop's
duplication, the X server's copy, a driver's picture, a frame the library may skip) is
strongly fair: it does not fail for ever. Without it no encoder could serve a request for
a key frame.

Definitions commented "Mutant" or "Mistake" are variants with a plausible bug: each
property of a passing run is violated when the definition that follows is replaced by
its variant (`PROJECT.json`, "mutants").

### Disagreements found

1. `client_app`: while `tryReconnect()` runs, the App's background thread sees
   `isConnected()` false and calls `connect()`, which assigns to a joinable thread:
   `std::terminate()`. "Handles automatic reconnection on disconnect." does not hold
   for the program that uses it.
2. `client_zombie`: a reconnection that succeeds while `disconnect()` waits in
   `join()` sets `connected_` and leaves the new channel open.
3. `framing_poll`: the client does not see a message that came in the same read as
   another one until the next one arrives.
4. `framing_timeout`: a send abandoned half way is not followed by a close; the peer
   takes the next header for payload.
5. `stream_scaled`: when the quality level changes, the Omni encoder is initialised
   for a size its frames do not have and refuses all of them for the rest of the
   session. On a screen that is not 1920x1080 it does so from the start, since the
   encoder's size is taken from the configuration only.
6. `tile_bound`: "max error bounded", "max per-component error". The encoder predicts
   NEAR_LOSSLESS pixels from the captured neighbour, the decoder from the shown one;
   the errors add up along a row, and a ramp of one per pixel is off by one more with
   every pixel.

Met on the way, modelled, and not the subject of a run: a `register_ok` that the receive
thread has in hand while `disconnect()` clears the flags sets `registered_` again, and the
next `connect()` keeps it, so that `isRegistered()` is true on a connection nobody has
registered; a client that has given up keeps `running_` and never tries again;
`connectedPort_` is not reset by `disconnect()`; `MAX_RECONNECT_ATTEMPTS = 0` makes no
attempt where its comment says unlimited; end-of-file is reported before complete messages
in `recvBuf_`; a key frame may be encoded before the channel is open, and nothing asks for
another; a request for a key frame may be lost; slow fades are never sent; a copied tile
may stay garbled until it changes. In `app.cpp`: Cancel and the timeout leave the
acceptance callback in place, so that a late answer starts a session; a rejection or a
lost signaling connection sets the state to DASHBOARD whatever session runs; a
`disconnectSession()` queued by an old session tears down a new one; a second request
replaces the first in the dialog; a host that accepts captures although its viewer may
never come; in SESSION_VIEWER Escape is forwarded before the line that says it
disconnects. In `mf_encoder.cpp` a transform that has failed often enough refuses frames
for ever. `AppSession` and `MfCodec` contain all of these, and their properties say what
holds nevertheless: uninvited peers get nothing, lost sessions end, pictures pile up no
further than by the number of failures.

Met on the way and not modelled: `sendCallback` of the encode thread tests and then
uses `webrtcSession_` while the UI thread resets it (`app.cpp:954`; here one step), as
does `webrtc_session.cpp:84` with its callbacks; `updateBitrate()` gives 499 999 bit/s
QP 40 and 500 000 bit/s QP 41 under a comment that says "higher bitrate = lower QP"
(`omni_encoder.cpp:352`); the SSE2 conversion back to BGRA masks to a byte where its
comment and the AVX2 one clamp (`simd_ycocg.cpp:185`; `TileCodec` has both, and
LOSSLESS tiles do not tell them apart); `openh264_loader.cpp:14` is not safe against
two threads that load; `onQualityReport()` and the packet path of the viewer
(`host_session.cpp:300`) are called by nothing.

## 5. Proofs

| module | theorem | says |
|---|---|---|
| `SignalingServerProofs` | `TypeCorrectness`, `Invariance`, `ToldOwnership`, `RoutingPrivacy`, `ServedRegistrations`, `Implementation` | `TypeOK`, `IInv`, `ToldIsOwner`, `OnlyOwnerHears`, `RegisteredIsServed`, and that the server implements `Presence`, for any ids, connections and bounds |
| `SignalingClientProofs` | `ClientInvariant`, `RegistrationIsCurrent` | types for every kind of owner and any number of attempts, links and messages; `RegisteredIsCurrent` |
| `AppProofs` | `Invitation`, `HostSessionCanEnd`, `ShutdownOrder`, `AppTypeCorrect`, `ScreenHasSession` | `OnlyInvited`, `HostHasSession`, `SignalingOutlives`, `TypeOK`, `AppInv`, for any number of peers, clicks and queued actions |
| `TcpFramingProofs` | `FramingInvariant` | `FramingInv`: messages whole and in order, for any number of senders and any splitting |
| `ScreenStreamProofs` | `StreamInvariant` | `StreamInv`: the references agree, for any tiles, contents, levels and packets under way |
| `ScreenStreamProofs` | `QualityTypeCorrect`, `QualityCountersTrail`, `QualityInvariant`, `QualityHysteresis` | `QualityInv`, `Hysteresis`, for every ladder and thresholds |
| `ThreadsProofs` | `TypeCorrectness`, `NoDataRace`, `Implementation` | the ring, for every capacity and any items |
| `ThreadsProofs` | `TasksApart`, `NobodySleepsOnWork`, `PoolIsSafe` | `DecodersApart`, `WorkIsNoticed` and with them `PoolSafe`, for any number of threads, pools, packets and tiles |
| `FrameProofs` | `DxgiInvariant`, `X11Invariant`, `VaInvariant`, `MfInvariant` | `DxgiInv`, `X11Inv`, `VaInv`, `MfInv`, for any modes, attempts, set-ups and faults |
| `FrameProofs` | `NothingDirtyLost` | `MergedCovers`, for any rectangles |
| `FrameProofs` | `ColoursReturn`, `ByteReturns`, `WordReturns`, `PredictionReturns`, `LosslessReturns` | each step of a LOSSLESS tile is undone, and with them `PixelPerfect`, for tiles of any size and content and every even number of byte values |
| `RansProofs` | `FrequenciesExact`, `QuotientExact`, `MessageReturns`, `SymbolsComeBack` | the table adds up, the division by a reciprocal is a division, the decoder returns every message; with them `RansInv`, for every alphabet, scale and width |

*Server.* `ToldIsOwner` (a program that was told it is registered, on a channel that is
open, is where `users_` routes its id) is not inductive: a handler may close a channel,
the visit that notices comes later, and the slot is recycled. `IInv` adds that a
connection nobody has accepted has told nothing and is routed to by no id
(`UnknownUntilAccepted`), that the backlog holds each connection once, that every
open channel is in `clients_` and will therefore be visited (`OpenIsListed`), that
nothing is open while the server is down (`QuietWhenDown`), and that ids come from the
programs that may register them (`OwnIdsOnly`). The proof has one step per action;
the handlers share lemmas on closing a channel, on an id's new owner and on sending.
The refinement takes `owner` from `users_` and `open`, `told` from the replies read
or on their way; each step is a `Claim`, `Sever`, `Forget` or stutters.

*Client.* `RegisteredIsCurrent` is about an owner that calls `disconnect()` before each
further `connect()`. Its `connect()` meets no receive thread, because `disconnect()` joined
the last one; and whatever replaces the link does so where `registered_` is clear or was
set late: the receive thread clears it when it notices the loss, before it dials, and the
owner dials after `disconnect()` cleared it, when only an answer that was in hand then
has set it again. So an answer that is handled belongs to the link in use, and the flag
that a new link inherits is a late one. Each half needs the other thread's place in the
program, which is what `Channel` and `Joined` record. Of the App, and of a program that
connects over a live client, the theorem says nothing: `client_app` shows why. The types
hold for all three, and need that `tryReconnect()` tests for an attempt before it counts
one (`Counted`).

*Application.* Who is connected is decided by what is on its way: `TrustInv` says that
every answer, offer and description, in the relay, in `pendingActions_`, in the batch
being run and in the session, names an invited peer, and that a dialog that is shown
names a peer. `ShutdownInv` follows `shutdown()`: at each of its steps, what has been
joined and destroyed so far (`TornDown`), that a session has a link (`SessionLives`),
and `HostHasSession` itself. `SessionInv` adds what `AppInv` rests on. A counter of
sessions is bounded although the code has none, because each session was paid for by
a click or a request: `Credit` says that an answer, an action in the queue and the
dialog carry that payment until it is spent. `FirstInv` is about the queue: while there
is one session only, at most one queued action opens its screen, and it comes before
every action that ends it (`Orderly`), so that the screen is never opened after its
session was torn down; `Drain` takes the queue when nothing of the last batch is left
(`BatchRun`).

*Framing.* The bytes not yet delivered, `recvBuf_` and the pipe in one row, are seen as
a piece of the stream of all messages. `Offsets(at)` gives each message its place in
that stream, `Placed(at)` says that the bytes of the awaited message and of those
after it lie at their places, as far as they were put, and nothing beyond; with
a send that failed the claim ends at that message. The lock invariant (`Locked`) is
what keeps the second half of a message behind its first.

*Stream.* Encoder and decoder never look at each other's reference. `Chain` says that
for the packets on their way there are references in between, the first one agreeing
with the decoder's picture (or a key frame that needs none), each packet leading from
one to the next, and the last one being the encoder's.

*Ring.* A slot between the indices holds an item, except the one being taken; the
producer writes only outside. That the masks wrap at `Capacity` is what its being a
power of two is for. The refinement proof shows that a push appends to `Contents`,
a pop takes its head, and every other step leaves it alone.

*Thread pool.* Workers draw their numbers once, from a counter that goes on through all
pools, and use them modulo the number of threads. `InWindow` says that the numbers of
the newest pool's workers are distinct and among the last ones drawn, as many as
there are: at most `NumThreads` in a row, whose remainders differ. `WorkInHand` says that
only the newest pool's workers run tasks: a packet's tasks, queued and running, are
what the decoder still waits for, and it replaces its pool only when that is none.
For the wake-ups, `WatchInv` adds `Stopped` and `Watched`. A worker goes to sleep under
the lock, with nothing queued and `stop_` false, but both `submit()` and the destructor
notify after they have let the lock go. So a queued task has either its notification
still to come (the caller is at `notify`) or a worker awake, which looks at the queue
again before it sleeps; that a notification which finds nobody asleep is not lost rests
on no worker of a pool in use having left, which is `Stopped`: `stop_` is set only in
pools that are old or at their end. This is the safety half; that the tasks do run is
`PoolServes`, with TLC.

*Quality.* The counters never run ahead of the streak of equal samples; a step
resets both.

*Capture and codecs.* `DxgiIInv` adds what the next `captureFrame()` will find
(`DxgiReady`): a duplication with its texture, or the flag that makes them anew.
`X11IInv` adds what is held while capturing (`X11Holds`);
`MfInv` is inductive as it stands. `VaIInv` adds that a P picture comes after a
delivered one, and that the reference surface holds it (`VaReferences`), and that the
objects of the last `init()` are those whose handles `destroy()` finds (`VaOwns`).

*Rectangles.* `MergeInv` is `MergedCovers` with types: a union encloses both its parts
(`UnitedEncloses`), being inside is transitive, and taking one entry out of the list
and replacing another keeps every entry else (`Remaining`). `Kept`, the copy without
the empty ones, keeps each rectangle that has an area.

*Tiles.* `TileInv` says what the stream carries (`Carried`): read back, it gives the three
planes of a LOSSLESS tile, and of a LOSSY one the values that no block covers. That needs
the bounds of the colour transform (`ColoursFit`: one bit more than a byte, so that
a residual, a difference of two, fits two bytes), that the decoder's running sum of
residuals is the channel again at each pixel (`PredictionReturns`, by induction along the
tile), and that one or two symbols give a residual back (`ByteReturns`, `WordReturns`).
Nothing is assumed of the tile's sides or of the DCT.

*Entropy coder.* The slots of the symbols partition the table because the frequencies add
up (`RangeFits`, `OneOwner`); they do because the excess over `Scale` is trimmed one by
one, and as there are no more symbols than slots, some frequency is above one as long as
there is an excess (`TrimOne`). Putting a symbol in keeps the state between the bounds
(`PutReturns`) and taking it out finds the same slot, remainder and quotient; the bytes
that went out before it come back in the opposite order, exactly as many of them
(`RefilledReturns`: with a byte missing the state is still below the lower bound, so the
decoder reads on, and with all of them it is not). `MessageReturns` runs the decoder
against the coder: after `j` symbols the decoder's four states and its position are what
the coder had before it put in those `j` (`Matches`). `RansRun`, the inductive invariant,
says that the tile's stream is what `encodeResiduals()` writes for the message.

Sums, running states and loops are recursive functions. A theorem about what one
computes needs that the function exists and an induction; the library's induction
theorem takes an operator, so `SetInduction` states it of a set of numbers, from the
well-foundedness of `<` on `Nat`.

Assumptions are those the modules state of their constants (`ASSUME`): a power of two,
sizes that are positive, values that differ, the inequalities between the widths of the
entropy coder. Nothing else is assumed.

## 6. Model-checked only

Liveness (`RegisterHandled`, `ClosedUserRemoved`, `VanishedUserRemoved`, `ConnectingEnds`,
`LostSessionEnds`, `ComesBackAlone`, `DisconnectReturns`, `Received`, `PoolServes`,
`SentIsShown`, `Converges`, `FramesAgain`, `ChangeIsCaptured` and the three
`...KeyFrameServed`): TLAPS does not reason about fairness here. `OpenH264Codec` has no
other property. What the client does under the App's background thread, beyond its types,
and how far off a NEAR_LOSSLESS pixel may be, is checked by the runs that find a
violation.

## 7. Not modelled

- PipeWire capture, whose portal calls are not written yet, and the capture and codec
  factories, which pick by platform and order.
- Rendering and widgets: OpenGL and Direct2D calls on one thread.
- Input: each event is translated by itself; the cursor predictor is arithmetic on
  the last two positions.
- The user id: random numbers and one small file that only start-up touches
  (`user_id.cpp:150` writes it in place, so that a crash leaves it short).
- The session database, which the server loop does not call.
- Logging, clocks, pixel copies.
- In parts that are modelled: the DCT with its quantisation, the bit
  layout of packets, a frequency table shared by tiles (no encoder writes one), what
  the H.264 decoders do with a picture, NVENC (a stub without its SDK), the I420 path
  of the sessions, `AdaptiveBitrateController` and `setConfig()` (nothing calls what
  feeds them), the tuner's QP table, host and port texts, ICE candidates.

`PROJECT.json` lists every component with its status and the hazards with the
properties that cover them.
