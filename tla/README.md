# A TLA+ verification of netmuxd

netmuxd is a usbmuxd replacement: it finds iPhones on the network (mDNS) and on
USB, keeps them in one device table, tells clients about them over the usbmuxd
protocol, and connects clients to services on a phone, over TCP or over a
virtual TCP that it runs itself on the phone's two bulk endpoints.

This directory holds TLA+ specifications of the parts of it where concurrency,
ordering and failure matter, TLC configurations that check them on small
instances, and proofs (TLAPS) of their central safety properties for instances
of any size.

    tlc -config Manager_network.cfg MCManager        # check a run
    tlapm Manager_proof.tla                          # check a proof

## The system

| part | source | state | operations | talks to |
|---|---|---|---|---|
| device manager | `manager.rs` | device table, USB handles, kill senders of open sessions, listeners, next id | one handler per message | everything, through one unbounded channel |
| heartbeat task, one per network device | `heartbeat.rs` | the connection to the phone | set up, add the device, marco/polo, report failure | manager |
| mDNS discovery | `mdns.rs` | none | resolved service -> discovered device | manager, pairing records |
| client session, one per client | `main.rs` | the request under way, the splice | ListDevices, Listen, Connect, AddDevice, RemoveDevice, pair records | manager, mux handles, upstream muxer |
| USB mux task, one per phone | `usb/mux.rs` | connections by source port, windows, pending bytes | command, data from a pump, drained bytes, packet | writer and reader tasks, a pump and a forwarder per connection |
| USB hot-plug | `daemon/nusb_backend.rs`, `daemon/mod.rs` | `known`: attachment -> UDID | enumerate, connect, disconnect, pair, clean up | USB stack, mux tasks, pairing records, manager |
| shim | `main.rs`, `upstream.rs`, `passthrough.rs` | connection to another usbmuxd | relay events, merge lists, splice | sessions |
| pairing records | `pairing_file.rs` | caches, files | find, read, delete, host identity | mDNS, hot-plug, manager, sessions |
| library use without a daemon | `usb/apple.rs`, `usb/bulk_io.rs`, `usb/provider.rs` | transfers in flight | open a mux on a caller's device | mux task |
| Windows backends | `daemon/apple_mux_backend.rs`, `apple_mux/`, `daemon/libusbk_backend.rs`, `libusbk/`, `libwdi/` | polled device sets | as hot-plug | C libraries, manager |
| configuration, records, helper | `config.rs`, `devices.rs`, `add_device.rs`, `lib.rs` | none | parsing, formatting | |

What is hard in it, and what would make each part correct:

- **Manager.** Its handlers run one at a time, but what they answer to comes
  from many tasks: a heartbeat task holds a device (and its id) back until the
  phone answers, and its failure is reported later by UDID; a session registers
  its kill sender after the device may have gone; a client subscribes while
  devices come and go; a removal waits for a mux task in the middle of its loop.
  Correct means: clients see one coherent stream of events, ids are never used
  twice, what the tables hold belongs together, dead devices leave the list.
- **Mux task.** Sequence numbers wrap, two windows, a pump that is paused and
  notified, window updates that are sent only at a crossing, a close that waits
  for pending bytes, teardown from five places. Correct means: bytes are neither
  lost nor repeated, neither side is overrun, nothing stalls, connect returns.
- **Hot-plug.** The loss of a phone is signalled twice, the registration and
  the map that undoes it are filled at different times, and the pairing task
  waits for a user. Correct means: one removal per claim, and no entry whose
  mux task is gone.
- **Client session and shim.** A request is forwarded and, when the upstream
  fails, served locally; a Listen session merges two sources of events, one of
  which crashes, restarts and replays; the ids of two muxers share a space.
  Correct means: one answer per request and in turn, each Connect to the muxer
  that announced the id, a listener learns of every device, no task outlives
  its client.
- **Pairing records.** Files written in place and read by pairing tasks,
  sessions and discovery, an unlocked read-modify-write of the host identity,
  caches that are refreshed on a miss only. Correct means: later calls see the
  identity that was written, a paired phone is found, and found as itself.
- **Opening a mux.** Another program holds the interface; resets, switches and
  claims each may fail and leave the device different. Correct means: what is
  handed out belongs to the active configuration, and the strategy of each
  platform gets its turn at every candidate.
- **Bulk endpoints.** Several transfers in flight, left-over bytes, a frame
  that fills its last packet, blocking calls on worker threads that must be
  aborted. Correct means: the device can tell the frames apart, the stream is
  intact, a dropped pipe lets its handle go.
- **Polled hot-plug.** An enumeration is compared with a map that other tasks
  change; a key may return between two polls. Correct means: no dead entry
  stays, and a phone that stays plugged in is served in the end.

`PROJECT.json` lists every hazard at its line with the properties that cover it.

## Modules

| module | models | state and actions |
|---|---|---|
| `DeviceEvents` | what the manager promises a client that sent Listen | devices present, ids announced, subscribers, their logs; Announce, Withdraw, Join, Leave |
| `Manager` | `manager.rs`, `heartbeat.rs`, and what `mdns.rs`, `main.rs` and `daemon/mod.rs` send to it | the manager's own maps under their names, its channel (`inbox`), heartbeat tasks by id, and the state of listeners, sessions and AddDevice clients as far as they talk to it |
| `Session` | the client side of `main.rs` and `upstream.rs`; over `DeviceEvents` for the manager and `PairingStore` for the files | per session its place in `handle_stream` or `run_listen`, the requests it read and the answers it wrote, the upstream pump with the frames before and after it; the upstream muxer is external |
| `PairingStore` | `pairing_file.rs`, with the steps of `daemon/mod.rs` and `mdns.rs` that use it | the files (`absent`, `torn` or `whole`), what phones trust, a call of `get_host_identity` per caller, the pairing tasks, the caches and the lookup of the mDNS task |
| `UsbMux` | `usb/mux.rs`: task, writer, reader, pumps, forwarders; the phone and the client's end of the duplex are external | `connections` as in the code, the three channels, the frames on the pipe, per client the pump, the forwarder, `tx_pause` and the permit of `tx_resume` |
| `Hotplug` | `nusb_backend.rs` and the shared half of `daemon/mod.rs`, the manager's USB entries; the USB stack is external | `known`, the event stream and the enumeration, the loop's position, a mux task, watcher and pairing task per claim, the messages to the manager |
| `PollHotplug` | `apple_mux_backend.rs` and `libusbk_backend.rs`: extends `Hotplug`, whose registration, watchers, pairing and manager it uses | the last enumeration and the keys it was compared with, the removals under way |
| `OpenMux` | `open_mux` in `usb/apple.rs`; the operating system and the other claimers are external | the attempt, the active configuration, who holds the interface, the candidates |
| `BulkIo` | `usb/bulk_io.rs`, `apple_mux/io.rs`, `libusbk/io.rs`: extends `OpenMux`, whose endpoints it takes over; the bus and the device are external | the writer half and its transfer, the reader half with its transfers in flight and left-over bytes, what the device heard and sent |
| `MCManager`, `MCSession`, `MCUsbMux`, `MCHotplug`, `MCPollHotplug`, `MCBulkIo` | small instances for TLC | |
| `Sums` | nothing of the code: the sum of the first places of a sequence | `SumTo`, `Total` |
| `DeviceEvents_proof`, `Manager_proof`, `Session_proof`, `Hotplug_proof`, `UsbMux_proof`, `UsbMuxData_proof`, `BulkIo_proof`, `Sums_proof` | the proofs | |

How they compose: `Manager` is shown to implement `DeviceEvents`, and `Session`
uses `DeviceEvents` in its place, so that a session is checked against
everything the manager may tell it. `Session` extends `PairingStore`: its
sessions are the store's readers and writers next to the pairing and discovery
tasks. `PollHotplug` extends `Hotplug`, and `BulkIo` extends `OpenMux`.

One action stands for one handler, or for the part of it between two awaits at
which another task may run. In `Manager`, `RemoveDevice` is the only handler
with such a point (`h.shutdown().await`): `BeginRemoveDevice` collects the ids,
`RemoveNext` drops one, `HandleShutDown` is the return of the await, and no
other message is received in between. Its loop runs over a hash map, so the order
of ids is open, as is the order of a snapshot in `Subscribe`. A sender that is
dropped is modelled where someone waits for it (`adders[a] = "dropped"`).
`listed` in a heartbeat task is a history variable.

In `UsbMux` payload is counted. `FlushFrames` and `Flushed` are the frames and
the connection that the loop of `flush_pending` ends with, in closed form. A
failed `send_tcp` (the writer task is gone) is the second disjunct of the
handlers, with what the code has done before the error. `Notify` is the
Boolean `permit`, as `notify_one` stores at most one. The window travels in
units of 256 bytes (`Grain`), rounded down. The phone is one that keeps to the
windows it is told: it takes frames in order, acknowledges and sends.

In `Hotplug` an attachment is a DeviceId of the USB stack, and a phone that is
plugged in again has a new one. As enumeration and stream may both report it,
an attachment may be claimed twice, the second time after the first task died;
a task is a pair of attachment and claim.

In `Session` a client is abstracted to the requests it sends; `asked` and
`replies` are histories, with an answer named by the place of its request. A
connection to the upstream may break at any time, because the upstream dies or
because the stream drops or carries a frame shorter than its header while the
upstream runs on. A session then falls back (`UpstreamLost`), whatever the
upstream had done by then, and a pump reads or loses what was still on its way
(`FrameLost`) and reconnects; `epoch`, the life of the upstream that a session
connected to, decides only whether an answer may still come. The connections of
a pump are numbered, and a frame carries the number of its connection: the
properties need it, the code and the client see type and id only. The end of a
Listen session drops the guard, which asks for the pump's abort (`aborted`); the
pump ends later, at an await (`PumpAborted`) or because the receiver is gone
(`PumpReads`), and may even connect in between. A `scene` fixes whether there is
an upstream, what the clients ask and what happens around them, so that one run
covers several configurations; it never changes. AddDevice and RemoveDevice are
in `Manager`, where they matter.

In `PairingStore` a host id is named by the call that made it up, and a file
written in place is truncated in one step and filled in a later one; `whole`
means that it can be opened, read and parsed. A call of `get_host_identity`
records which calls were over when it began (`after`), whether another ran
beside it (`alone`) and whether what it returned is in the file (`kept`). Where
`connect_device` ends before it asks for the identity (the phone is in restore
mode, or pairing cannot be started), `PlugIn` leaves the phone `unpaired`. A
record is tried under `lockdown`, and one the phone does not know, or whose
certificates fail, is removed, which itself may fail. A service is looked up by
its TXT record or by MAC; the code's second attempt by MAC after a TXT miss is
taken as a service of its own. A directory that cannot be read at all ends the
program and is left out.

In `OpenMux` each attempt is a reset (in the second half), a switch of
configuration with or without a bounce, and a claim; `Target` is the candidate
of the attempt. `BulkIo` starts where it ends. A byte that the device sends is
named, a byte that is written is counted; `MaxOut` and `Chunk` are the code's
buffer sizes. The code asks for transfers that are multiples of the packet size,
except that a caller of `BulkWriter` may pick `max_out` freely:
`MaxOutAssumption` states what `FramesDelimited` needs of it. `late` is a history
variable: the reader was dropped while its transfer was queued for a worker.

In `PollHotplug` an attachment is a key of `known` and may come back under the
same key, with the tasks of the last time still alive.

Mutants, the operators whose comments say so, are plausible bugs of the code
that each property is shown to catch; they are not part of any `Next`.

## Runs

| run | instance | shows |
|---|---|---|
| `Manager_network` | one UDID, one listener, one AddDevice client, 3 ids, 2 messages queued, heartbeats on, fair manager | `IndInv`, `ListenerAgreement`, `HeartbeatBacked`; the manager implements `DeviceEvents`; `DeadDeviceDelisted`, `RemovalTakesEffect`, `AddDeviceResolved` |
| `Manager_usb` | two UDIDs, two handles, two sessions, heartbeats off | `UsbTableConsistent`, `NoSpuriousKill`, `OpenSessionsTracked` |
| `Session` | one client; five scenes: events of the manager and of the upstream, requests with and without an upstream, a host with a phone of its own and the files of another muxer | `RepliesInTurn`, `RoutedToOwner`, `UpstreamViewFresh`, `IdentityShared`, `PairedPhoneFound`, `ListenersLearn`, `AnswersOrCloses`, `PumpReleased` |
| `UsbMux_upload` | one connection, 7 bytes, sequence numbers mod 4, device window 2, faulty pipe | `TypeOK`, `UploadConserved`, `NoGap`, `DeviceNotOverrun`, `NoLostWakeup`, `PendingBounded`, `NoTruncation` |
| `UsbMux_flow` | three loads: 4 bytes to the device, 4 bytes to the client, two calls for one source port; no faults | `HostNotOverrun`, `UploadDelivered`, `DownloadDelivered`, `ConnectReturns` |
| `Hotplug` | one phone, two attachments, no record or a possibly stale one | `CleanedUpOnce`, `CleanupPending` |
| `Hotplug_live` | the same, already paired | `DeadPairedEntryGoes` |
| `PollHotplug` | one phone, three claims of its key, which comes and goes, at most one pairing | `PolledCleanupPending`, `PhoneServed` |
| `BulkIo` | budgets of 0, 1 and 5 attempts over three configurations, any of them with the interface, either platform, any other claimer; then two frames, either way, over three kinds of endpoints | `ClaimsInActiveConfig`, `HalvesCoverCandidates`, `FramesDelimited`, `StreamIntact`, `CallsReturn`, `HandleReleased` |
| `UsbMux_eof` | violation | `DroppingOurWriteClosesTheDuplex` |
| `Hotplug_ghost` | violation | `CleanUpOnExit` |
| `PairingStore_txt` | violation | `TxtMatchesThePhone` |

**Bounds.** `MaxDevices` bounds the ids handed out, `MaxInbox` the channel. The
bound on ids is charged when a discovery is sent, so that a handler is never
blocked by it. Three ids and two messages allow two heartbeat tasks of one
UDID with a failure of a third on its way, and a removal between them. One UDID
suffices because every handler compares UDIDs for equality only, and the
conflicts are between entries of the same one; one listener because listeners
do not interact. The theorems below have no bound on the number of clients and
devices. In `UsbMux` 7 bytes over numbers mod 4 wrap nearly twice; the marks
and windows are at their smallest so that every pause, stop and crossing
occurs; `MaxPayload` 2 in the flow run makes frames and windows that are
partly full. The loads with payload have one connection: connections share only
the channels and the counter of source ports. The third load of the flow run has
two that get the same port, while the first is connecting, connected or gone. In
`Hotplug` two attachments cover unplugging and plugging in again during a
pairing; in `PollHotplug` three claims of one key do: one whose removal is late, one that
it hits, and one that must follow. In `Session` an upstream lives twice (`MaxEpochs`), which is one
crash, one reconnect and one renumbering; the first connection of the pump may
also drop while the upstream lives (`MaxDrops`), so that a pump connects up to
three times, for either reason; its two ids reach up to `Base`, the
first id of the manager, so that the routing is checked at its limit; sessions
interact through the manager and the files only, so that one suffices next to
the mDNS and pairing tasks. `MaxFrames` bounds the events on their way, not the
frames of a replay. Two requests make an answer out of turn possible. In `BulkIo`
frames of 1, 2, 4 and 5 are short, one packet, one whole submission, and a
submission and a byte; five attempts come round three candidates in the first
half and not in the second, and 0 stands for 1.

**Fairness.** Only the daemon's own tasks and the external parts without which
nothing can be promised are fair. `Manager`: the manager task is scheduled
while it has work; nothing is assumed of clients, phones and heartbeat tasks,
which is why the properties say "unless a task is still talking to the device".
`UsbMux`: `select!` chooses among ready branches at random, so each branch is
taken in the end; pumps and forwarders are scheduled; the phone reads its pipe,
consumes, acknowledges and sends, and the client reads. `Hotplug`: the loop,
the watchers, the manager and a pairing task that has its answer; a mux task
whose phone is gone or that was told to stop exits; the user need not tap Trust.
`PollHotplug`: the same, and strong fairness of opening a device, since a phone
that refuses every poll is never served. `Session`: the session, its pump and
the two sources of its events, again by the random choice of `select!`; an
upstream that is up lets the pump connect and answers; a dial returns, which TCP
sees to after a time, while on USB it is what `ConnectReturns` of `UsbMux` says;
a task that was aborted ends at an await; crashes, restarts, dropped
connections, devices and clients owe nothing. `BulkIo`: system calls return, worker threads run, the device takes
what is written while it is there; it need not send, and nobody need drop
anything.

**Deadlock** is checked for `Manager`. It is not for the others, whose instances
really stop: the bytes, attachments, requests or attempts are used up.

**Disagreements found.** `UsbMux_eof`: the forwarder's end is commented
"Dropping our_write closes the duplex", but the pump holds the other half of
the split stream, so after a reset by the phone a waiting client never reads
end-of-file. `Hotplug_ghost`: "When the mux task exits (USB error / device
gone), clean up" does not hold of a phone that goes just as its pairing ends,
since the pairing task registers it whether or not the attachment is known.
`PairingStore_txt`: `find_udid_from_txt` is to "match a Bonjour TXT record
against a paired device", but the cache also holds the host's own
`SystemConfiguration.plist`, and every phone that netmuxd paired has the same
host id, from which alone the tag is derived: what is found may be that file or
another phone.

Not stated as runs, because nothing in the repository promises otherwise, but
visible in the models: calls of `get_host_identity` that overlap may return
different identities, and one that reads a file just truncated replaces the
SystemBUID of another muxer; a device of the upstream that detaches while the
pump is between two connections, because the upstream was down or because the
stream dropped alone, is in no later frame, so that a client sees it for as long
as it listens (the comment in `run_listen` promises the attach and detach frames
and the reconnect, not a resynchronisation, and `UpstreamViewFresh` speaks of
what was told over the connection that stands); the doc comment of `open_mux`
says that later attempts bounce through another configuration, which they do
only if the candidate is not active already; a worker that has not begun its
read when the reader is dropped is not reached by the abort.

## Proofs

Each theorem holds for all values of the constants that satisfy the assumptions
stated beside them, with any number of devices, clients, messages, bytes and
failures: the bounds of the runs are constants like the others. An invariant is
proved by strengthening it until every step keeps it; there is one step per
action, and lemmas for what several actions share (a message sent or taken, a
connection that is torn down).

1. `Manager_proof` (the constants are of the types one expects, "no client" is
   not a client): `Spec => []IndInv`, and with it `Spec => []TypeOK`.
   `TypeOK` alone is not inductive: serving a `DeferredMuxerAdd` looks up the
   task it names. `DeferredOnce` says that such a task exists, still holds its
   device back, and has one such message in the channel; `FreshIds` that ids at
   or above the counter are unused and ids held back are not in the table;
   `ListenOnce` that a listener subscribes once and is sent nothing before;
   `RemovalInProgress` that ids to be dropped are listed and the one being shut
   down is not. `Spec => []HeartbeatBacked` needs an account per device that
   balances behind every place of the channel, not only at its end: a
   `HeartbeatFailed` that finds no entry changes nothing and still uses up a
   message, so what it would have paid for must be paid for behind it
   (`BackedInv`, `Balanced`).
2. `DeviceEvents_proof`: the abstract specification keeps `Agreement` and
   `EventsMakeSense`. The lemmas say what one more event does to what a client
   believes and to a sensible log, and what a snapshot tells.
3. `Manager_proof`, the refinement: `Spec => ImplementsDeviceEvents`. A device is
   present while it is in the table or its handle is being shut down (the
   Detached event comes last), an id is announced if it was handed out and no
   heartbeat task holds it back, a listener is subscribed while it is in the list
   and its receiver lives. By 2 and the refinement, `Spec => []ListenerAgreement`
   and `Spec => []EventsMakeSense`: no listener is told twice of an id, or of
   the loss of one it was not told of.
4. `Manager_proof`, sessions and USB, on top of `IndInv`. `UsbTableConsistent` is
   an invariant if no client adds a device of type "USB": `add_device` takes the
   type as the client sent it, and an entry of that type without a handle is what
   such a client gets. `NetworkTypes` carries this through the channel and the
   heartbeat tasks. `NoSpuriousKill` and `OpenSessionsTracked` follow from
   `SessionInv`: a session with a live stream is in the table of kill senders or
   its `OpenSocket` is on its way (`SessionsListed`), who was killed had a device
   that is gone (`KillsTrue`), and a message names the device the session asked
   for (`MessagesTrue`).
5. `Session_proof`, the files, with `StoreAssumption` (names of files, phones and
   callers are distinct): `IdentityShared`. In `IdentityInv` a call that runs
   alone excludes the others, and once it has kept its identity it has
   `Settled` it: the file holds it, nobody is about to write another, and who
   began later returns it. Pairing tasks and failed writes disturb other files
   only. `PairedPhoneFound` follows from `FoundInv`: while the mDNS task reads
   the directory, the record of a phone it is bound to find stays as it is, and
   once it has been read both caches hold it.
6. `Session_proof`, the clients, with `SessionAssumption` and the last:
   `RoutedToOwner` and `RepliesInTurn`. `InTurn` says of a session that is serving
   that all earlier requests have their answers and this one has none, and of one
   that waits that nothing is open; this is what the fall-back from a failing
   upstream could break. `IdentityShared` and `PairedPhoneFound` are proved again
   under the specification of the sessions, which read and write the store's
   files between the store's steps. `UpstreamViewFresh` follows from `ViewInv`:
   what the client was told so far, then the frames on the way, add up to the
   upstream's devices. When a pump connects, nothing was heard over the new
   connection yet (`Heard`), and its replay names each device once; from then on
   each event adds one frame, reading moves one, and a connection that breaks or
   an abort ends the claim. While the pump opens, the Result is ahead of
   everything (`ViewOf`), or the handshake would swallow a device.
7. `Hotplug_proof`, with `DeviceOfAssumption` and its kin: `CleanupPending`
   holds by an invariant about the order of the manager's channel. For each
   listed entry, and for each registration in the channel, a removal of that
   name is due behind it (`ListedDue`, `MailDue`): the task is still being set
   up, or `known` has the entry and the watcher is armed, or a watcher holds the
   entry it took, or the removal is in the channel behind that place.
   `CleanedUpOnce` is a count: the claims of an attachment pay for its set-up
   under way, its entry in `known`, the watchers about to send, and the removals
   sent (`ClaimsPay`), so that no step can send one more than was claimed.
   `PolledCleanupPending` is the same argument where the polling loop, too, takes
   entries from `known`: `ListedDue` and `MailDue` except the tasks whose removal
   the loop holds (`DoomedTasks`), and `PollInv` says that for those the loop has
   the name in hand (`DoomedRight`) until it is sent.
8. `UsbMux_proof`, with `SizesAssumption` and `ConnsAssumption` (no call is
   named like the shutdown command): `NoLostWakeup`. `Tokens` says where a
   call is: in the command channel or with exactly one connection, so that no
   two connections pause one pump; `Upload` that while frames can be
   sent, bytes only wait for the device's window, a pump is only paused while
   `LowWater` bytes wait, and one whose pause is over has its permit.
   `FlushedHeldBack` is the arithmetic: what `flush_pending` leaves is held back
   by the window, whatever the sequence numbers have wrapped to.
   The remaining theorems about `UsbMux` assume `PortsSuffice`: a task is called
   at most as often as there are source ports. The code needs the assumption.
   `mux.rs` hands out the next of 65535 ports without looking whether it is in
   use (line 260, a hazard); with one port and three callers TLC finds a gap, with
   four an overrun device, because a SYN|ACK of an earlier call completes a later
   one. Under it `PortsInv` says that a port above the number of calls served was
   never used. `DeviceNotOverrun` and `NoGap` follow from `DataInv`, which says of
   each port: what the device holds and what is on the pipe fit its window
   (`Room`); the data frames on the pipe are numbered from the byte the device
   waits for (`Gapless`); the frame that opens is alone but for resets
   (`SynFirst`); before the device's answer is heard no byte has moved
   (`Starting`); and the connection's number is the device's plus what is on the
   pipe, while no acknowledgement heard or on its way admits more than the device
   has room for once that has arrived (`InStep`, `Heeds`). `Heeds` is the reason
   why the order of acknowledgements matters: a later one must never
   acknowledge less. Sequence numbers are compared modulo `SeqSpace`
   (`LagShift`, `LagBehind`), and each sum over the pipe gets a lemma for
   every way the pipe changes: frames put, one taken, a tail that the failing
   writer cuts off (`Onward`), resets when the task returns.
   For `UploadConserved`, `Claims` says who names a port: the two tasks of one
   connected client, and the channels on their behalf, never one that is
   connecting or still unused; and `Tidy` that a pump has bytes only between its
   read and its send. A step of the mux task then moves bytes between the pumps'
   channel, `pending` and the pipe and changes no sum (`Moves`, proved once for
   every such step); the steps of the client, the pump and the device move
   them on their own side (`Balanced`). The account is kept for a connection the
   device still has open while the writer lives, as the property says.
9. `UsbMuxData_proof`, on top of `DataInv` and `Claims`: `PendingBounded`, `TypeOK`,
   `NoTruncation` and `HostNotOverrun`.
   For `PendingBounded`, `Easy` says that a connection whose pump is not paused is
   below the high mark, and `Filling` that a pump that is about to read has
   looked at `tx_pause` before: what was held then, at most the high mark and a
   full channel, has not grown since but by its own chunk.
   The steps are then stated once more by what they do to the pipes, and the rest
   is proved from these statements: `Handles` (the mux task takes a message or a
   packet of one port and sends frames of that port, acknowledgements with the
   number and the room it has then, and a reset only as the last one, of a
   connection that goes) and `Turn` (the device's step). `TypeOK` lacked only
   that no window is negative (`Windows`): what the device tells is the room that
   `DeviceNotOverrun` leaves.
   For `NoTruncation`, `Left` says that a client that has not dropped its stream
   and has no connection any more, while the device still has one, got all its
   bytes out. It needs why a connection can go. All is sent after the client's
   end: a pump that has seen it has read everything (`Ended`), nothing is in the
   channel behind it (`NoneLast`), and a connection that waits to be let go has
   nothing in the channel at all (`Closing`). Or the device reset it, and has
   closed then (`ResetShut`); a second answer, which would also tear it down, does
   not come (`OneAnswer`). Or its forwarder ended, which means that the client
   dropped the stream (`Abandoned`). `ResetLast` keeps the reset behind everything
   else on the pipe.
   For `HostNotOverrun`, the receiving side gets the invariant that `Heeds` is
   of the sending one: `Granted` says that no window the device was told, or
   that is on its way to it, admits more than the task has room for once
   everything sent has arrived, and that the device's number is the task's plus
   what is on its way. `Hushed` starts it: before the device's answer is heard
   it has been granted nothing and has sent nothing. `Queued` is the account of
   what was received: with the forwarder or reported drained, where a report of
   another client never names this port (`Claims`).
10. `BulkIo_proof`, with `AttemptsAssumption` and its kin: the invariants of
   `OpenMux` and `BulkIo`. `OpenInv` follows an attempt through reset, switch and
   claim; `HalvesCoverCandidates` is arithmetic on consecutive attempts modulo the
   number of candidates. For `FramesDelimited`, `WriterInv` says how much of the
   frame each submission has carried and whether its last packet is full; for
   `StreamIntact`, `ReaderInv` that the bytes read, the left-over ones, those of
   the transfers in flight in the order of their submission, and those the
   device has not sent are the stream.
11. `Sums_proof`: the prover cannot use an induction theorem that takes an
   operator as a parameter, so `Induction` is stated about a set of naturals, and
   follows from the library's fact that inclusion of finite sets is well founded.
   From it, what a sum is after one more place, and what `FlattenSeq` returns,
   which `Candidates` is written with.

Only model-checked: the liveness properties, since fairness and ENABLED are out
of the proof system's reach, and with them the runs that find a disagreement.
Every invariant and every action property of the runs is also a theorem (the
types of the manager as a part of `IndInv`).
`UsbMux_flow` checks `HostNotOverrun` also with two calls for one source port,
where `PortsSuffice` does not hold and nothing is proved.

## Not modelled, and the plan

Not modelled on purpose: formats (plist, headers, TXT matching) and logging; the
payload of VERSION; driver installation, the browser test page, the FFI
declarations and the C libraries behind the Windows backends; `config.rs`,
`devices.rs` and the command-line helper, which parse and format; the byte copy of
`passthrough.rs`; `provider.rs`, a constructor and one call; reading a
serial number; how long the backoffs last; the panic when the pairing directory
cannot be read.

Next, in this order:

1. composing the manager's wait for a mux task (`h.shutdown().await`) with the
   task's own start, where the VERSION handshake has no timeout: the hazard is
   listed, and the two halves are in different modules;
2. payload on several connections in `UsbMux`, which share the channel of the
   pumps.
