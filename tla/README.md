# webrtc_server: TLA+ models, checks and proofs

This directory specifies the two halves of **webrtc_server**. `xrtcserver`
(`src/cpp/xrtcserver`, C++) is a WebRTC selective forwarding server: a publisher *pushes* a
stream under a name, viewers *pull* it by that name. The **web pages** push a screen, show a
remote desktop and manage desktops in a console (`src/signaling/fronted`, Vue; `src/screen_share`,
plain JavaScript with the library `adapter.js`). An HTTP gateway in Go (`src/signaling`) turns
their requests into one TCP call each. The models are translated from the source; `X` below
stands for `src/cpp/xrtcserver/src`, `F` for `src/signaling/fronted/src` and `A` for
`src/screen_share/static/js/adapter.js`.

Contents: [1 the system](#1-the-system), [2 plan](#2-plan), [3 modules](#3-modules-and-the-code-they-model),
[4 runs and bounds](#4-runs-and-bounds), [5 fairness](#5-fairness), [6 proofs](#6-proofs),
[7 findings](#7-findings), [8 what is not modelled](#8-what-is-not-modelled).

Run everything from this directory: `tlc -config <Run>.cfg <MC module>`, `tlapm <Module>_proof.tla`.
`PROJECT.json` lists the runs, maps every definition to source lines, and names for each
property a mutant of the model (an operator marked "Mutant" in the module) that violates it.

## 1 The system

### Threads

| Thread | Code | Role |
|---|---|---|
| SignalingServer | `X/server/signaling_server.cpp` | accepts TCP connections and deals them out round robin |
| SignalingWorker (n) | `X/server/signaling_worker.cpp` | reads requests, answers them |
| RtcServer | `X/server/rtc_server.cpp` | attaches the certificate, routes by `crc32(stream name) % n` |
| RtcWorker (m) | `X/server/rtc_worker.cpp` | owns the streams of the names that hash to it |
| main, log thread | `X/main.cpp`, `X/base/log.cpp` | signals; log files |

Each runs one libev loop. Threads talk by **messages**: the sender puts a message in the
receiver's queue (a mutex-guarded `std::queue`, or the lock-free queue where there is one
producer) and then writes one `int` to the receiver's pipe; the receiver takes at most one
message per `int`. Inside an RtcWorker everything is **synchronous callbacks** (sigslot) on
one thread; what varies there is the order of events and of slots.

### Components, their state, operations and correctness

| Component | State | Operations | Hard behaviour | What makes it correct |
|---|---|---|---|---|
| Signalling path | `_conns`, the queues, the pipes, `TcpConnection` | accept, read, route, run, answer, idle timer | two-step sends by many threads; the offer returns after its connection closed; descriptors and heap blocks reused | queue and pipe agree; one owner per descriptor; a request answered once, to its requester; requests of one stream in order; a waiting client is answered |
| Request framing | `querybuf`, `bytes_expected`, `bytes_processed` | `_read_query`, `_process_query_buffer` | bytes cut anywhere; empty bodies; what follows a request | a request runs once, exactly when complete |
| Lock-free queue | list `first..divider..last`, counter | `produce`, `consume` | no lock; nodes freed by the other side; addresses reused | memory safety; FIFO; no leak |
| Stream manager | `_push_streams`, `_pull_streams`, streams, timers | create, answer, stop, failure, 30 s ICE timer, relay | removal by user and name, not by pointer; deferred deletion; rival viewers | maps hold live streams; only a rival viewer leaves an orphan; a viewer sees one source; unconnected streams are removed |
| ICE channel and controller | connections, selection, ping sets, cached states | binding requests and responses, pings, errors, timeouts, switch | selection and cached state updated by nested calls | caches are current; selection is live; nobody is starved of pings |
| DTLS and SRTP transports | `DtlsTransport`, `DtlsSrtpTransport`, `IceAgent`, `TransportController` states | answer, ClientHello, ICE changes, handshake, close | ClientHello, answer and ICE in any order; a second answer; order of slots | keys are the current handshake's; a peer is authenticated; the reported state is current |
| libsrtp use count | global count and mutex | first use, last use | several RtcWorkers; each step may fail | the library lives exactly as long as it is used |
| UDP socket | `_udp_packet_list`, write watcher | `send_to`, `send_data` | EAGAIN and errors in the middle of the queue | nothing waits unwatched; order kept; everything leaves |
| SCTP session, data channel | usrsctp socket, library count | start, stop, receive | restarts of DTLS; stop while connecting | *planned* |
| Shutdown | threads, pipes | QUIT, stop, join | stops while messages are in flight | *planned* |
| SDP, PeerConnection | descriptions | build and parse text | - | text work, not modelled |
| STUN codec, candidates, RTP helpers | - | byte formats | - | not modelled |
| Event loop, sockets, configuration, log | - | wrappers | - | their promise is the fairness of the models |
| HTTP gateway (Go) | a round-robin selector | one call per HTTP request | - | external clients of the signalling path |
| adapter.js: local streams | `_streams`, `_reverseStreams`, `_senders`, `_shimmedLocalStreams`, `_localStreams` | add and remove streams and tracks, ids in descriptions | five browsers, five ways of bookkeeping | one promise in all of them; ids translate there and back |
| adapter.js: events | `_eventMap`, `_onaddstreampoly`, `_remoteStreams` | add, remove, replace listeners; native events | two wrappers share a map; events made from others | what is registered is reached once; what arrives is told once |
| adapter.js: offers | `setParametersPromises`, transceivers, sizes | `addTransceiver`, `createOffer`, `setRemoteDescription` | an offer waits for promises while others start | offers return; nobody stops sending; no plain message is too large |
| adapter.js: captures, statistics, SDP | constraints, `_pc`, lines | `getUserMedia`, `getStats`, read and write | stale devices and tracks; defaults when written again | what the page asked for is what it gets |
| Push page | `this.pc`, `localStream`, listener | push, dialog, captures, answer, stop | callbacks read `this.pc` when they run | the page's connection is answered |
| Remote desktop page | `pc`, `offer`; channel, `isActive`, `lastMousePosition` | pull, stop, leave; mouse, keyboard | several tabs are one viewer; presses and releases outside the video | an abandoned pull ends; the remote side is told what the video sees |
| Desktop list | rows, timers | connect, start, shut down, leave | timers of one row race | one tab per press |
| Demonstration page | `pc1`, `pc2` | push, pull, candidates | two negotiations by callbacks | both sides agree |
| Console session | token, role, navigation | login, logout, reload, guards | guards wait while the session changes | role and token agree; a logged-out user ends at login |
| Console tabs | `tagList`, `cacheTabList` | close, close others, reload, navigate | a tab is added before its page is shown | the shown page has its tab |

The pages are one thread each: callbacks of timers, promises, replies and events, in any order.

`PROJECT.json` lists every component with its sources and status, and the hazards of the
code, each at the line where it bites, with the properties that would catch it.

## 2 Plan

Order of work: most state shared between threads first, then the state machines one
RtcWorker drives, then the components around them.

Done:

1. `FifoQueue` (abstract) and `LockFreeQueue` (detailed, refines it); memory safety proved.
2. `StreamManager`: the server's own purpose; its safety properties proved.
3. `RequestService` (abstract) and `SignalPath` (detailed, refines it; proved): the threads end to
   end, with liveness; its safety properties proved.
4. `PeerTransport`, `SrtpLibrary`: media security; invariants proved.
5. `IceChannel`: connectivity checks and selection; invariants proved.
6. `QueryBuffer`, `UdpSendQueue`: the two places where the server meets a byte stream and a
   full kernel buffer; invariants proved.
7. `LocalStreams` (abstract) and `StreamShims` (detailed, refines it in every browser; proved);
   the other shims of `adapter.js`, of which events, offers, captures and statistics are proved.
8. The pages: `PushPage`, `PullPage`, and `ScreenShare`, `RouteTabs`, `Console`, `DesktopList`,
   `RemoteInput` with their safety properties proved.

To do, in this order:

1. `SctpSession`: sockets and usrsctp use over start, restart, stop and destruction
   (`X/pc/sctp_session.cpp`, `X/pc/dtls_sctp_transport.cpp`), and the SCTP branch of
   `TransportController::set_local_description`.
2. `Shutdown`: QUIT notifications, `_stop`, closing pipes and joining, against messages in flight
   (`signaling_server.cpp:184`, `rtc_server.cpp:186`, `rtc_worker.cpp:121`).
3. A composition of `StreamManager` with the connection states `PeerTransport` reports, so
   that the order of states a stream can see is the one its transports produce.

## 3 Modules and the code they model

### The server

**FifoQueue, LockFreeQueue** - `X/base/lock_free_queue.h`. A step is one access of a thread to
memory the other uses: `Link`, `Publish`, `CountUp`, `Reclaim` and `ProduceDone` are
`produce()` (lines 27-39), `ConsumeTest` to `CountDown` are `consume()` (40-49). Freed
addresses are reused at once. Pointer loads and stores are atomic and in program order, which
the header's first comment requires of the platform. `chain`, the live nodes in link order, is
auxiliary. `FifoQueue` is the promise: `Put` appends, `Take` removes the oldest. The
refinement mapping takes the values after the divider up to `last`; `Publish` (the store to `last`)
is `Put`, and `CopyValue` (the copy to `*result`) is `Take`. Left out: the destructor, which runs when
no thread uses the queue.

**StreamManager** - `X/stream`. One action per callback of the RtcWorker thread: `CreatePush`,
`CreatePull`, `SetAnswer`, `StopPush`, `StopPull`, the connection states of a
`PeerConnection`, `IceTimeout` (30 s), `DestroyPc` (10 ms). A stream object has an address,
so a dangling pointer in a map would be visible. Relaying (`RtpTargets`) is an operator: it
changes no state. An answer is applied to the stream's transports or not; which sources the
descriptions name is left out: the code relays under whatever sources a push has by then, and no
comment promises otherwise. A pull of another user (a *rival*) overwrites the first one's map entry;
the stream stays alive and unreachable, and its failure or timeout removes what its user has in the
map by then. Both are in the model and in the run, and the properties name them.

**RequestService, SignalPath** - `X/server`. Each thread's message handler is one action; sending is two steps
(`Owes`, then `Notify`), as push and write to the pipe are. Descriptors and `TcpConnection`
addresses are reused as soon as they are free, which is how the comparison of
`_response_server_offer` can be deceived. A request's bytes are read in one step here;
`QueryBuffer` is the detail of that step. Clients connect, send, and may leave at any time.
`RequestService` is the promise of all threads together, without queues, pipes, descriptors or
connections: `Ask`, `Apply` (not before what its client had seen answered for the same stream),
`Drop`, and `Answer`, which an immediate request may have as soon as it was asked and an
offer when it was applied. `SendRequest` is `Ask`, `RtcWorkerMsg` is `Apply`, `CertFails` is
`Drop`, a `WriteReply` that somebody reads is `Answer`; `got` is `answers`, `seen` is `before`, every
other step stutters. It does not promise who reads an answer (finding 1).

**QueryBuffer** - `signaling_worker.cpp` 102-176. `ReadQuery` is one read of what is there, at
most what is expected; `Wait`, `TakeHead` and `Run` are the loop of `_process_query_buffer`,
one action per iteration. Bytes are counted, never represented: the header's magic number and
the body's JSON are good or bad. A timeout or a failed read closes.

**PeerTransport** - `X/pc/dtls_transport.cpp`, `dtls_srtp_transport.cpp`,
`transport_controller.cpp`, `X/ice/ice_agent.cpp`. An event of the loop with all the slots it
triggers is one action; the slots are operators applied in the order of connection. The TLS
engine is external: its outcomes are choices. An answer's section brings a fingerprint, a refused
one or none (`a=fingerprint` is not required by the parser), so a handshake may run before there is
one to check against. The ICE channel appears through the changes of state it may report, a late
response that connects it after it failed among them.

**SrtpLibrary** - `X/pc/srtp_session.cpp`. Any number of sessions of any number of threads
taking, using and returning the library; a step is what a thread does between two accesses to
shared state, and every call may fail.

**IceChannel** - `X/ice/ice_transport_channel.cpp`, `ice_controller.cpp`, `ice_connection.cpp`.
A callback makes nested calls that each re-sort, re-select and re-compute, so handlers are
operators from state to state, composed in the order of the code. Clocks are abstracted: an
action chooses which deadlines have passed, consistently with the pings and responses so far.
STUN messages are their verdict. The stable sort is given by ranks: a connection's place is the
number of those that are ahead of it (`AheadOf`), because they compare better or compare equal
and came first; so the model needs no recursive operator and can be proved about.

**UdpSendQueue** - `X/base/async_udp_socket.cpp`, `event_loop.cpp` 64-100, `socket.cpp`
258-275. `SendNow`, `Queue` and `Refuse` are the three ways through `_add_udp_packet`,
`SendData` is the write callback. The kernel is a buffer with a number of free places, filled
by `sendto` and drained by the network; any `sendto` may fail. The callback reads before it
writes (lines 26-36), so packets may be sent between `Report` and `SendData`.

### adapter.js

`MCAdapter` chooses one of the groups below for a behaviour; they keep their state in
different fields of the connection and never call each other.

**LocalStreams, StreamShims** - the promise and its five implementations. `LocalStreams` has what a
page may rely on: what is sent is shown, removing a stream takes all of it and nothing else, and
removing a track drops the stream only with its last one. `StreamShims` has one action per call of each browser's
shim (`OldAddStream`, `NewAddTrack`, `RemoveStreamByTracks`, `SafariAddStream`, ...). For Chrome before
65 it keeps the internal streams and both maps (`A` 559-751), with made-up senders where
`getSenders` is missing (283-350). The refinement mapping is `sent` to the tracks of the native
connection and `shown` to `GetLocalStreams`.

**PcEvents** - listeners wrapped by `wrapPeerConnectionEvent` in two layers over one `_eventMap`
(2252-2307), `connectionstatechange` made from ICE changes (1271-1314), Safari's `addstream` made from
`track` (1955-2003), old Chrome's `track` made from `addstream` (213-261). An event and its dispatch
are separate steps, as the browser queues events. `registered` is the page's last word on each
function. A page may remove as a listener the function that is its handler; the shared map then
silences the handler, where a browser alone would go on calling it, and the property says so.

**OfferShims** - Firefox's `setParametersPromises` (1621-1743), Safari's legacy offers (2133-2192), the
limits of a data channel's messages (1101-1257). Data has a length and a size in bytes: `send()`
compares the length with a limit in bytes, so a text outside ASCII may pass and be too large.
`SendFits` says what holds, of data whose length is its size. `setRemoteDescription` sets the limit
as it is called, before the browser has taken the description.

**MediaCapture** - constraints rewritten for four browsers, the device list asked for before the
capture, refusals and their names (813-984, 1760-1847, 2062-2085). A capture is a few steps between
which cameras may be unplugged.

**PcStats** - the reports of a track, taken from those of the connection (375-480, 2436-2473), while
tracks are replaced; Firefox's older names (1506-1599).

**SdpUtils** - the reading and writing helpers (2494-3215) as operators on lines of tokens. `Rewrite`
reads a description and writes it; repeated rewriting must not change what it says, but for the
losses that `CandidateSays` and `MediaSays` name: the number 0 of a header extension (2670), the
retransmission source and the bitrate of an encoding, and all sources but the first with a name.
Fingerprints are upper-cased as they are read (2777).

### The pages

`MCFrontEnd` chooses one page for a behaviour.

**PushPage** - `F/views/desktops/push-view.vue`. Every promise, reply, dialog and capture is an action
that reads `cur` (`this.pc`) when it runs. `chain` is the browser's queue of operations on a
connection: an answer is created, then set locally, and a foreign description may be queued between;
that the local description was refused is only logged. A closed connection settles none of its
promises.

**PullPage, RemoteInput** - `F/views/desktops/cloud-desktop.vue`. Tabs pull with one user id and one
name, so the server's side (one pull per name, replaced by the next request, dropped on failure) is
part of the module, as an external of the map. Input: a page makes one channel; the remote side is
what was sent over it. The video sees only events over it or while focused; `unseen` are the buttons
and keys that changed last where it did not see it (or without a channel), of which the remote side
is told nothing.

**DesktopList** - `F/views/desktops/index.vue`. Timers have no clock, so all orders are included.

**ScreenShare** - `src/screen_share/static/js/screen_share.js`. Each connection has the queue of
operations the browser runs in order; callbacks use `pc1` and `pc2` as they are.

**Console** - session store, guards, interceptor, login and logout (files in the map). Guards are
steps of a navigation slot, superseded by a newer navigation; whatever they asked for still comes back.
A logout that fails clears the token and leaves the page where it is (`hooks/user.ts:12`); `stranded`
marks such a page until the next navigation.

**RouteTabs** - `F/components/tab-bar`, `F/store/modules/tab-bar`. The route listener adds the tab when a
navigation starts; `TabConfirm` is the router's end of it. A logout takes the listener away while the
bar may still be shown (`RemoveRouteListener`).

## 4 Runs and bounds

| Run | Config, module | What it shows |
|---|---|---|
| `lock_free_queue` | `LockFreeQueue.cfg`, `MCLockFreeQueue` | no use after free, no leak, FIFO refinement, `produce()` returns |
| `streams` | `Streams.cfg`, `MCStreamManager` | a stream is orphaned only by a rival viewer, connected streams survive all but their requests, failures and such orphans, unconnected ones go, one source per viewer |
| `signal_two_clients` | `SignalTwoClients.cfg`, `MCSignalPath` | queues and pipes agree, connections have one owner and one answer, refinement of `RequestService`, and answers in the end |
| `signal_reuse` (violated) | `SignalReuse.cfg`, `MCSignalPath` | finding 1 |
| `query_buffer` | `QueryBuffer.cfg`, `MCQueryBuffer` | a request runs exactly when complete, and does run |
| `query_buffer_mark` (violated) | `QueryBufferMark.cfg`, `MCQueryBuffer` | finding 2 |
| `peer_transport` | `PeerTransport.cfg`, `MCPeerTransport` | keys follow the handshake, it runs when due, reported state |
| `srtp_library` | `SrtpLibrary.cfg`, `MCSrtpLibrary` | the library outlives its sessions |
| `ice_channel` | `IceChannel.cfg`, `MCIceChannel` | cached state; selection and ping sets |
| `udp_send_queue` | `UdpSendQueue.cfg`, `MCUdpSendQueue` | waiting packets are watched, and leave |
| `adapter` | `Adapter.cfg`, `MCAdapter` | refinement of `LocalStreams`, ids, events, offers, captures, statistics, descriptions |
| `front_end` | `FrontEnd.cfg`, `MCFrontEnd` | answers, pulls, tabs, agreement, input, session and its end |

Where several invariants of a component belong to one promise they are one property
(`ControllerIsSound`, `SrtpFollowsDtls`, `HandshakeIsDue`, `ConnectionsAreSound`, `PageIsTold`), whose
conjuncts are named and explained in the module.

Bounds, all named constants, and why they are enough:

- **Lock-free queue**: 4 addresses, 2 values. One node is the divider, so up to three values
  wait and a freed address comes back while the consumer still holds a stale pointer to it -
  the dangerous case. The number of calls is not bounded. The proof removes the bounds.
- **Streams**: 2 users, 2 names, 3 objects, without symmetry because a liveness property is
  checked. Of one name both users are pushers and rival viewers; three objects let an orphan, a
  rival's stream and the orphan's user's new one exist at once, which is when the orphan's end
  removes a connected stream. The proofs of the safety properties are for any number of each.
- **Signal path**: 2 clients, 2 threads of each kind, 2 descriptors and 2 addresses. The
  clients name the same stream, so their requests meet again at one RtcWorker after two
  signaling workers have read them; a request routed elsewhere would break the order. One
  connection has one request. For `signal_reuse` one of each suffices. The proofs allow any
  number of each, so only the liveness rests on the bounds.
- **Query buffer**: header 3 bytes, bodies of 0, 2 and 5 (none, shorter, longer than the
  header), the mark beyond every request as 65535 is beyond ordinary ones; `MaxSent` = 14 lets
  a client write past its request and 20 past the mark; `MaxRuns` = 2.
- **Peer transport**: 2 media sections, 2 good fingerprints, one of a wrong length and none, so
  that answers change; `MaxSetups` = 3 TLS engines (two restarts).
- **SRTP library**: 4 sessions: both of two peers, on two threads. The proof removes it.
- **ICE**: 2 connections (selection and switching need two), 2 round-trip times further apart
  than the 10 ms improvement, failure counts saturating at 2 unanswered pings. The proof is
  for any number of connections and times.
- **UDP queue**: 3 places in the kernel's buffer, `MaxPackets` = 8 calls, so the queue
  outgrows it. The bound makes the number of calls finite; a call that takes room sends the
  oldest waiting packet first, so unbounded calls would not starve the queue.
- **adapter**: 2 streams of 2 tracks (one kept while the other goes, the last track of a stream and
  one before it), 3 internal ids; 3 callbacks and 8 wrappers (a handler and two listeners in two
  layers, and stale ones); data of 1000 to 262145 bytes, around each limit; 3 transceivers, so an offer
  waits for one while others start; 2 cameras;
  2048 descriptions with video (every subset of ten optional lines, with credentials in the session
  part or none), candidates and data sections. The proofs remove the bounds of all but the
  statistics and the descriptions.
- **front_end**: 3 connections and 2 flows on the push page (a first, its replacement and a third made
  while both flow); 2 tabs; one button and one key on a 2 x 2 grid; one desktop with 2 timers of
  a kind over 2 visits; 2 presses and one candidate on the demonstration page; 2 navigations and 3 clicks
  in the console; 3 paths, two of which have one name.

`CHECK_DEADLOCK FALSE` is given where the modelled actors may really stop: clients that have
all left, a closed connection, a channel without events, an idle port after the last bounded call,
a page its user does nothing with.

## 5 Fairness

Only what the event loop and the kernel give: a readable pipe or socket is reported until it
is read (`WF` on message handlers, reads and writes in `SignalPath`, `QueryBuffer`), a due
timer is run (`IceTimeout`, `DestroyPc`), a writable socket is reported while its watcher is
on and the network drains what the kernel buffered (`UdpSendQueue`), and a thread goes on
with the call it is in (`LockFreeQueue`'s producer). Nothing is assumed of clients, peers,
the consumer of the queue, TLS, or the idle timer; they may act at any time or never.

In the pages: a promise of a live connection and a request are settled, either way
(`OfferFairness`, `PushFairness`, `ConsoleFairness`), a dialog that is shown is answered
(`HandleWindowMessage`, `ScreenCaptured`, `AudioCaptured`; a refusal is an answer), a timer that is
set runs, and the server drops a connection that has failed (`PullFairness`, which `StreamManager`
justifies). Nothing is assumed of what the user presses. Weak fairness is enough everywhere.

## 6 Proofs

All proofs are for every value of the constants, from the named assumptions in the modules
(which TLC evaluates in the runs). Most properties are not inductive as they stand; each proof
says which inductive invariant implies them:

- **LockFreeQueue_proof**: `MemorySafety`, `NoLeak`, `SizeIsAccounted`, `TypeCorrect`, and
  `ListImplementsFifo` (refinement). The invariant says where the three pointers are:
  first, then divider, then last in link order, with divider strictly before last while
  `consume()` reads. This is what the freeing loop relies on.
- **StreamManager_proof**: `IInvHolds`, `LookupsAreLive`, `PushesAreOwned`, `NoMixedSources`,
  `TypeCorrect`, `OnlyRivalsOrphan`, `ConnectedStreamsAreKept`. A removal looks up by name whatever
  stream the event was for. That a map entry always is a live stream of that side and name, and
  that no push lives outside its map, are inductive together (`IInv`) and yield that no viewer gets
  two sources. The last two are action properties, from the same invariant: a pull leaves its map
  alive only by a rival's pull, and a connected stream that no request and no failure of its own
  ends is removed by name, through a stream that is outside its map.
- **SignalPath_proof**: `TypeCorrect`, `EveryMessageHasItsToken`, `ConnectionsStaySound`,
  `RequestsAreAppliedInOrder` and the refinement `ThreadsServeRequests` (`ServesRequests`), for any
  number of clients, threads, descriptors and addresses. A queue
  is as long as the ints in its pipe, and those threads owe between their two steps, are many; the
  lemmas `CountAppend` and `CountTail` say what writing and reading an int do to that number.
  `Ownership` and `OnePlace` say that a descriptor is in one worker's queue or table and belongs to
  one client; `MessageInv` that a request's message is in one queue at most, and only
  until the request is applied or dropped; `OneAnswer`, with `AnswersAreLate`, that an answer is in
  one list or with one client, and no message that could make a second is under way. For the
  order, `OrderInv`: whoever was answered when a request was sent is done, or ahead of that request in
  every queue where it waits. With the four, each step maps to one of `RequestService` or a stutter: what
  heads a worker's queue is pending and has nobody to wait for (`WaitingIsPending`, `NextIsInOrder`), what a
  connection lists may be answered, once (`ListedIsAnswerable`).
- **IceChannel_proof**: `ChannelIsGood`, `StateStaysCurrent`, `ControllerStaysSound`, for any number
  of connections, priorities and round-trip times. What they say is false in the middle of a callback,
  which changes a connection first and re-sorts afterwards. `Kept` is what every call keeps (each
  live connection is listed once and is in one ping set, the selection is live and is the
  controller's), `Good` adds what sorting and updating restore, and `Resorted` leads from the one to the other. It rests
  on a lemma about the sort: ranks are a permutation, and the result has the same connections,
  best first. The timer ages the connections one after the other; instead of an induction over the
  list the proof takes the least place at which `Kept` would fail.
- **Transports_proof**: of `PeerTransport`, `MediaIsKeyed`, `HandshakeIsSound`, `PcStateStaysCurrent`,
  `TransportIsConsistent`, `TypeCorrect`. The invariant is stated on one transport's record
  (`Good`); one lemma per helper of `DtlsTransport` says it keeps records good. The strengthening:
  an engine exists in every state but `new`, a waiting one has no refused fingerprint, a handshake
  may run before there is a fingerprint but is connected only with a checked one, and without an
  engine there is no fingerprint. Of `SrtpLibrary`, `LibraryIsThere`, `CountIsExact`
  and its types: only the holder of the mutex changes the count, together with its own flag, so a
  thread that finds one use left knows it is alone.
- **SocketBuffers_proof**: of `QueryBuffer`, `RunsWhenComplete`: inside the loop the frame (state,
  expected, processed) says how often the request has been run; the loop is left only when nothing
  more is complete. Of `UdpSendQueue`, `AlwaysWatched`, `AlwaysInOrder`: every path keeps an end of
  the queue; `Flushed` says once what that does to the order.
- **Adapter_proof**, one part per group.
  Streams: `RoundTrip`, `SentIsShown` and the refinement
  `ShimsImplementLocalStreams`, with `ShimTypeCorrect`, for all five browsers. The invariant
  is one conjunct per bookkeeping: in Chrome before 65 the two maps are inverse on the ids in use
  and a track belongs to one native stream only (`Inverses`), and the made-up senders are those of the
  sent tracks; Chrome 65's map has exactly the sent tracks of each stream until the connection is
  closed (`RInv`). Each call is then shown to map to one call of `LocalStreams` or a stutter.
  Events: `WrappedReach` (`ReachesRegistered`): for each registered function the shared map has an inner
  and an outer wrapper, and nothing else (`Layered`), so a free wrapper never is one a listener
  needs. `MadeUpEventsTell` (`PageIsTold`): the page knows the state dispatched last, which is the
  present one unless an event waits; once no listener is left to run, what has arrived is what the
  library keeps, and what it keeps was told once. Offers: `OffersKeepSending` (`SendingIsKept`, an
  action property: none stops sending, and a kind that was not asked for stays as it is) and
  `SizesAlwaysFit` (`SendFits`, of data whose length is its size), for every size a description may give.
  Captures: `CapturesMeetDemands` (`CaptureIsAsDemanded`), for any cameras and
  requests: what the native call was asked is the page's request in the browser's syntax, and every
  translation keeps the demands on members it does not rename. Statistics: `StatsAreRight`
  (`StatsAreOfTrack`), for any senders, receivers and tracks. The invariant says that what was given is a
  union of walks from streams of one track; `WalkReaches` that a walk returns just what is reachable. A walk is
  a recursive function: it exists because the set of what can still be reached satisfies its equations, and the
  proof takes the shortest call that would return something else. Descriptions: `CandidatesSurvive`
  (`DescriptionsSurvive` where the description is a candidate), for any line of nine fields and any extensions
  after them: the invariant is that the line there now says what the first one said, and `PairExtends` says what a
  name and a value that are written do to what is read. `LinesSurvive` says of single lines of media sections
  that what is read from one is read again from the one written for it, but for the number 0 of a
  header extension.
- **FrontEnd_proof**: `RoleFollowsToken`, `PressesOpenTabs`, `RemoteFollowsSeen`,
  `ShownPagesHaveTabs`, `DemoAgrees`. The store's role
  comes from the server's record of the last login, not from the token; the invariant says that
  record and token come from one login, that no role outlives its token, and that a login's reply
  finds no session; a login over a session breaks it, and marks the run `mixed` for good. The
  list's property is inductive with its types; that of the input with two facts: until the channel
  opens nothing was told or seen, and an open channel is active. Of the tabs, `TabInv`: the route
  announced last is where the page is going or stands, and while the bar listens it has a tab for it,
  unless the page is `astray`, as it may be until the next push. On the
  demonstration page `ShareInv`: offers and answers reach both queues in one callback, so the last
  description queued at a connection, or the state it is in when none is, is the same on both sides.

The assumptions are those the modules name: null is no object (`NullAssumption`, `NoneAssumption`,
`IdAssumption`); threads are distinct and the hash of a stream is one of the RtcWorkers
(`ThreadsAssumption`, `WorkersAssumption`); sessions are finite in number, fingerprints, sections,
setups, sizes, lengths, times and priorities are of their types (`SessionsAssumption`, `PrintsAssumption`,
`MidsAssumption`, `SetupsAssumption`, `SizesAssumption`, `LengthsAssumption`, `BoundsAssumption`, `RttAssumption`); who
pushes what is known (`UserAssumption`). In the pages: a track belongs to one stream
(`TracksAssumption`); callbacks are finite in number and a new wrapper can be made for each layer
(`FnsAssumption`); a request names one facing mode at most, and demands numbers of a width
(`RequestsAssumption`); a connection has finitely many senders and
receivers (`StatsAssumption`); every page of the console has a path (`RoutesAssumption`).

Model-checked only, and why:

- All liveness (`ProduceReturns`, `UnconnectedIsRemoved`, `RequestIsAnswered`, `CompleteIsRun`,
  `PendingLeaves`, `OfferIsMade`, `ConnectionIsAnswered`, `AbandonedPullEnds`, `LoggedOutLeaves`):
  fairness and `ENABLED` are out of the prover's reach. It is all the runs ask of `PushPage` and
  `PullPage`.
- `DescriptionsSurvive` of media sections. Their lines are selected with `SelectSeq`, of which the provers know
  nothing, and joined by folds; what these compute for every description is an induction over data, which the
  provers cannot do. Proved are the candidates, given that a candidate is one line with its nine fields (as in
  all that are checked), and the single lines.

## 7 Findings

1. **An offer may be answered to another client** (`signal_reuse`,
   `signaling_worker.cpp:566`). The check that the connection still is the one that asked
   compares addresses; after close and accept both the descriptor and the heap block may be a
   new client's.
2. **A request is run again at the 65535 mark** (`query_buffer_mark`,
   `signaling_worker.cpp:171`). The mark that ends a short connection is only a distance: a
   client that sends on past it has its first request run again, in a loop that does not end.

Each quotes the comment it contradicts in `PROJECT.json`.

## 8 What is not modelled

- **SDP text, STUN bytes, RTP/RTCP headers, DTLS and SRTP cryptography**: formats and
  arithmetic without control; the models take their verdicts as choices.
- **SCTP and data channels, shutdown, writing a reply in pieces**: planned (section 2).
- **Memory reclamation of never-freed objects** (ICE connections, SCTP transports, queued
  packets of a destroyed socket): the models have no notion of a leak outside the queue and
  the stream manager.
- **The certificate's yearly renewal** while requests hold a raw pointer to the old one
  (`rtc_server.cpp:213`): the models have one certificate for good.
- **A destroyed selected ICE connection** is kept by the controller (`ice_controller.cpp:218`).
  `IceChannel` does the same; no comment says when its replacement is due, so no property does.
- **The Go gateway**: a stateless translator; `SignalPath`'s clients stand for it.
- **Of adapter.js**: renamed members and prefixes, callback forms of promises, logging, and the
  parts for pages' own SDP beyond the helpers above.
- **Of the console**: the menu, the message box, the warnings and the workplace, which filter
  mock data; styles, locales and charts.
- **Vendored code** (`src/cpp/rtcbase`, `src/lib`, `src/resourse`, Go vendor trees).
