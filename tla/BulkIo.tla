------------------------------- MODULE BulkIo -------------------------------
(***************************************************************************)
(* The two halves of a mux pipe as the mux task reads and writes them:     *)
(* over nusb endpoints (src/src/usb/bulk_io.rs, of a device opened as in   *)
(* OpenMux), and over blocking calls on worker threads, as Apple's driver  *)
(* (src/src/apple_mux) and libusbK (src/src/libusbk) need. The bus and the *)
(* device are external. A byte stands for many; a packet holds MaxPacket.  *)
(***************************************************************************)
EXTENDS OpenMux

CONSTANTS
  MaxPacket,    \* packet size of the endpoints
  MaxOut,       \* most bytes of one OUT submission (max_out)
  ReadSize,     \* IN transfer size asked for, before rounding
  Chunk,        \* READ_CHUNK of the blocking readers
  InFlight,     \* IN transfers kept submitted (in_flight_target)
  Sizes,        \* lengths of frames
  Wants,        \* room in the buffer of a read
  MaxFrames,    \* bound: frames, both ways together
  Backends      \* which of "nusb", "apple" and "libusbk" to look at

ASSUME BulkAssumption ==
  /\ MaxPacket \in Nat \ {0} /\ MaxOut \in Nat \ {0} /\ Chunk \in Nat \ {0}
  /\ ReadSize \in Nat /\ InFlight \in Nat /\ MaxFrames \in Nat
  /\ Sizes \subseteq Nat \ {0} /\ Wants \subseteq Nat
  /\ Backends \subseteq {"nusb", "apple", "libusbk"}

(* A submission that is not the last of its frame must fill its packets,   *)
(* as the default of 64 KiB does.                                          *)
ASSUME MaxOutAssumption == MaxOut % MaxPacket = 0

VARIABLES
  backend,
  plugged,      \* FALSE once the device is gone
  toWrite,      \* lengths of the frames written so far (history)
  writer,       \* the writer half and the task that calls it
  heard,        \* lengths of the transfers the device has seen the end of
  partial,      \* bytes of the transfer the device is receiving
  sent,         \* bytes the device has sent (history)
  wire,         \* what it has sent and no transfer has fetched: one entry per transfer
  reader,       \* the reader half
  fetched,      \* completed IN transfers not yet looked at
  got           \* bytes handed to the caller

bulkVars == <<backend, plugged, toWrite, writer, heard, partial, sent, wire, reader, fetched, got>>
outVars == <<toWrite, writer, heard, partial>>
inVars == <<sent, wire, reader, fetched, got>>
ioVars == <<openVars, bulkVars>>

Blocking == backend \in {"apple", "libusbk"}
Smaller(m, n) == IF m < n THEN m ELSE n

(* The state of each half. "pc" is where its task is; "job" the transfer   *)
(* in flight: "none", "queued" for a worker thread, "running", "zlp" (its  *)
(* zero-length end), "aborted", "ok" or "error"; "late" says that the      *)
(* reader was dropped while its transfer was queued (history).             *)
BulkInit ==
  /\ backend \in Backends
  /\ plugged = TRUE
  /\ toWrite = <<>> /\ heard = <<>> /\ partial = 0
  /\ writer = [pc |-> "idle", left |-> 0, job |-> "none", len |-> 0, since |-> 0, zlp |-> FALSE]
  /\ sent = <<>> /\ wire = <<>> /\ fetched = <<>> /\ got = <<>>
  /\ reader = [pc |-> "reading", job |-> "none", cap |-> 0, drain |-> <<>>, sawEnd |-> FALSE,
             late |-> FALSE]

(* The call that opened the device is over and its locals are gone. On     *)
(* Windows opening is opening a file, without the attempts of OpenMux.     *)
HandedOver ==
  /\ at = "over" /\ holder = "us"
  /\ budget = 0 /\ platform = "linux" /\ muxConfigs = {} /\ config = 0
  /\ attempt = 0 /\ candidates = <<>> /\ lastErr = "none" /\ tried = {}
IoInit == BulkInit /\ IF Blocking THEN HandedOver ELSE OpenInit

Ready == at = "over"

(* A byte that the device sends is named after its frame and its place. *)
FramesSent == Cardinality({byte[1] : byte \in Range(sent)})

(* OpenedMux: the endpoints are wrapped and given to mux::spawn. *)
HandOver ==
  /\ at = "opened" /\ at' = "over"
  /\ budget' = 0 /\ platform' = "linux" /\ muxConfigs' = {} /\ config' = 0
  /\ attempt' = 0 /\ candidates' = <<>> /\ lastErr' = "none" /\ tried' = {}
  /\ UNCHANGED <<holder, bulkVars>>
-----------------------------------------------------------------------------
(* The writer task: write_all and flush for each frame.                    *)

NextFrame(n) ==
  /\ Ready /\ writer.pc = "idle" /\ Len(toWrite) + FramesSent < MaxFrames
  /\ toWrite' = Append(toWrite, n)
  /\ writer' = [writer EXCEPT !.pc = "write", !.left = n]
  /\ UNCHANGED <<backend, plugged, heard, partial, inVars>>

(* poll_drain has nothing in flight to wait for, or takes its success. *)
Drained == writer.job \in {"none", "ok"}

(* BulkWriter::poll_write: at most max_out bytes, accepted when submitted. *)
Submit ==
  /\ ~Blocking /\ writer.pc = "write" /\ Drained
  /\ LET n == Smaller(writer.left, MaxOut)
     IN  writer' = [writer EXCEPT !.job = "running", !.len = n, !.left = @ - n,
                      !.pc = IF n = writer.left THEN "flush" ELSE "write",
                      !.since = @ + n, !.zlp = FALSE]
  /\ UNCHANGED <<backend, plugged, toWrite, heard, partial, inVars>>

NeedsZlp == ~writer.zlp /\ writer.since > 0 /\ writer.since % MaxPacket = 0

(* Mutant: only the last submission counts. *)
FlushForgetsSince ==
  /\ ~Blocking /\ writer.pc = "flush" /\ Drained
  /\ IF NeedsZlp
     THEN writer' = [writer EXCEPT !.job = "running", !.len = 0, !.zlp = TRUE]
     ELSE writer' = [writer EXCEPT !.job = "none", !.pc = "idle"]
  /\ UNCHANGED <<backend, plugged, toWrite, heard, partial, inVars>>

(* BulkWriter::poll_flush: a frame that fills its last packet is ended by  *)
(* an empty one.                                                           *)
Flush ==
  /\ ~Blocking /\ writer.pc = "flush" /\ Drained
  /\ IF NeedsZlp
     THEN writer' = [writer EXCEPT !.job = "running", !.len = 0, !.zlp = TRUE]
     ELSE writer' = [writer EXCEPT !.job = "none", !.since = 0, !.pc = "idle"]
  /\ UNCHANGED <<backend, plugged, toWrite, heard, partial, inVars>>

(* The blocking writers give the whole frame to a worker thread. *)
SpawnWrite ==
  /\ Blocking /\ writer.pc = "write" /\ writer.job = "none"
  /\ writer' = [writer EXCEPT !.job = "queued", !.len = writer.left]
  /\ UNCHANGED <<backend, plugged, toWrite, heard, partial, inVars>>

WorkerStartsWrite ==
  /\ writer.job = "queued"
  /\ writer' = [writer EXCEPT !.job = "running"]
  /\ UNCHANGED <<backend, plugged, toWrite, heard, partial, inVars>>

(* The device receives n bytes: a packet that is not full ends its transfer. *)
Hear(n) ==
  IF n % MaxPacket = 0 /\ n > 0
  THEN partial' = partial + n /\ UNCHANGED heard
  ELSE heard' = Append(heard, partial + n) /\ partial' = 0

(* A transfer completes. A worker whose frame filled its last packet sends *)
(* an empty one before it returns.                                         *)
WriteCompletes ==
  /\ writer.job \in {"running", "zlp"} /\ plugged
  /\ Hear(IF writer.job = "zlp" THEN 0 ELSE writer.len)
  /\ writer' = [writer EXCEPT !.job =
       IF Blocking /\ writer.job = "running" /\ writer.len % MaxPacket = 0 THEN "zlp" ELSE "ok"]
  /\ UNCHANGED <<backend, plugged, toWrite, inVars>>

(* A stall, or the device is gone. *)
WriteErrors ==
  /\ writer.job \in {"running", "zlp"}
  /\ writer' = [writer EXCEPT !.job = "error"]
  /\ UNCHANGED <<backend, plugged, toWrite, heard, partial, inVars>>

(* poll_pending: the whole frame is accepted, and nothing is left to flush. *)
Written ==
  /\ Blocking /\ writer.pc = "write" /\ writer.job = "ok"
  /\ writer' = [writer EXCEPT !.job = "none", !.len = 0, !.left = 0, !.pc = "idle"]
  /\ UNCHANGED <<backend, plugged, toWrite, heard, partial, inVars>>

(* The writer task ends with the error. *)
WriteFailed ==
  /\ writer.job = "error"
  /\ writer' = [writer EXCEPT !.job = "none", !.pc = "failed"]
  /\ UNCHANGED <<backend, plugged, toWrite, heard, partial, inVars>>

(* The mux task has ended: the writer task finishes and drops its half. *)
DropWriter ==
  /\ Ready /\ writer.pc \in {"idle", "failed"}
  /\ writer' = [writer EXCEPT !.pc = "dropped"]
  /\ UNCHANGED <<backend, plugged, toWrite, heard, partial, inVars>>
-----------------------------------------------------------------------------
(* The device sends a frame, as one transfer that ends with a packet which *)
(* is not full.                                                            *)
DeviceSends(n) ==
  LET frame == [k \in 1..n |-> <<FramesSent + 1, k>>]
  IN  /\ Ready /\ plugged /\ Len(toWrite) + FramesSent < MaxFrames
      /\ sent' = sent \o frame
      /\ wire' = Append(wire, frame)
      /\ UNCHANGED <<backend, plugged, outVars, reader, fetched, got>>

(* BulkReader::new rounds up to whole packets. *)
TransferSize ==
  LET packets == (ReadSize + MaxPacket - 1) \div MaxPacket
  IN  IF packets = 0 THEN MaxPacket ELSE packets * MaxPacket

(* submit_until_target *)
Pending == IF InFlight = 0 THEN 1 ELSE InFlight

(* The most the reader has room for: the endpoint's submitted transfers,   *)
(* or the one call of a worker. Apple's takes as much as the caller wants. *)
Room == IF Blocking THEN reader.cap ELSE TransferSize
Fetching == IF Blocking THEN reader.job = "running" /\ fetched = <<>>
                        ELSE reader.job = "running" /\ Len(fetched) < Pending

(* A transfer is filled, or ended by a packet that is not full. One that   *)
(* was filled leaves the rest, maybe only the empty packet, for the next.  *)
Fetch ==
  /\ Fetching /\ plugged /\ wire # <<>>
  /\ LET head == Head(wire)
         n == Smaller(Len(head), Room)
     IN  /\ fetched' = Append(fetched, SubSeq(head, 1, n))
         /\ wire' = IF n = Room THEN <<SubSeq(head, n + 1, Len(head))>> \o Tail(wire)
                                ELSE Tail(wire)
         /\ reader' = IF Blocking THEN [reader EXCEPT !.job = "ok"] ELSE reader
  /\ UNCHANGED <<backend, plugged, outVars, sent, got>>

(* poll_read submits transfers up to the target, or spawns a worker. *)
SubmitReads ==
  /\ Ready /\ ~Blocking /\ reader.pc = "reading" /\ reader.drain = <<>> /\ reader.job = "none"
  /\ reader' = [reader EXCEPT !.job = "running"]
  /\ UNCHANGED <<backend, plugged, outVars, sent, wire, fetched, got>>

SpawnRead(want) ==
  /\ Blocking /\ reader.pc = "reading" /\ reader.drain = <<>> /\ reader.job = "none"
  /\ reader' = [reader EXCEPT !.job = "queued",
       !.cap = IF backend = "apple" THEN Smaller(IF want = 0 THEN 1 ELSE want, Chunk)
                                    ELSE Chunk]
  /\ UNCHANGED <<backend, plugged, outVars, sent, wire, fetched, got>>

WorkerStartsRead ==
  /\ reader.job = "queued"
  /\ reader' = [reader EXCEPT !.job = "running"]
  /\ UNCHANGED <<backend, plugged, outVars, sent, wire, fetched, got>>

ReadErrors ==
  /\ reader.job = "running"
  /\ reader' = [reader EXCEPT !.job = "error"]
  /\ UNCHANGED <<backend, plugged, outVars, sent, wire, fetched, got>>

Deliver(bytes, want, rest, more) ==
  LET n == Smaller(Len(bytes), want)
  IN  /\ got' = got \o SubSeq(bytes, 1, n)
      /\ reader' = [reader EXCEPT !.drain = SubSeq(bytes, n + 1, Len(bytes)),
                      !.sawEnd = @ \/ (n = 0 /\ want > 0),
                      !.job = IF Blocking /\ more THEN "none" ELSE @]
      /\ fetched' = rest
      /\ UNCHANGED <<backend, plugged, outVars, sent, wire>>

(* Mutant: an empty transfer is handed on. *)
ReadCompletionAny(want) ==
  /\ reader.pc = "reading" /\ reader.drain = <<>> /\ fetched # <<>>
  /\ Deliver(Head(fetched), want, Tail(fetched), TRUE)

(* poll_read with a completed transfer: an empty one is skipped. *)
ReadCompletion(want) ==
  /\ reader.pc = "reading" /\ reader.drain = <<>> /\ fetched # <<>>
  /\ IF Head(fetched) # <<>>
     THEN Deliver(Head(fetched), want, Tail(fetched), TRUE)
     ELSE /\ fetched' = Tail(fetched)
          /\ reader' = IF Blocking THEN [reader EXCEPT !.job = "none"] ELSE reader
          /\ UNCHANGED <<backend, plugged, outVars, sent, wire, got>>

(* poll_read with bytes left over from the last transfer. *)
ReadDrain(want) ==
  /\ reader.pc = "reading" /\ reader.drain # <<>>
  /\ Deliver(reader.drain, want, fetched, FALSE)

(* The reader task ends with the error, ... *)
ReadFailed ==
  /\ reader.pc = "reading" /\ reader.job = "error" /\ fetched = <<>> /\ reader.drain = <<>>
  /\ reader' = [reader EXCEPT !.pc = "dropped", !.job = "none"]
  /\ UNCHANGED <<backend, plugged, outVars, sent, wire, fetched, got>>

(* Mutant: nothing is aborted. *)
DropReaderOnly ==
  /\ Ready /\ reader.pc = "reading"
  /\ reader' = [reader EXCEPT !.pc = "dropped", !.late = reader.job = "queued",
       !.job = IF ~Blocking \/ reader.job \in {"ok", "error"} THEN "none" ELSE @]
  /\ UNCHANGED <<backend, plugged, outVars, sent, wire, fetched, got>>

(* ... or because the mux task has: what runs on the pipe is aborted. A    *)
(* nusb endpoint cancels its transfers.                                    *)
DropReader ==
  /\ Ready /\ reader.pc = "reading"
  /\ reader' = [reader EXCEPT !.pc = "dropped", !.late = reader.job = "queued",
       !.job = IF ~Blocking \/ reader.job \in {"ok", "error"} THEN "none"
               ELSE IF reader.job = "running" THEN "aborted" ELSE @]
  /\ UNCHANGED <<backend, plugged, outVars, sent, wire, fetched, got>>

(* The detached worker returns and lets go of the device handle. *)
WorkerEnds ==
  /\ reader.pc = "dropped" /\ reader.job \in {"aborted", "ok", "error"}
  /\ reader' = [reader EXCEPT !.job = "none"]
  /\ UNCHANGED <<backend, plugged, outVars, sent, wire, fetched, got>>

DeviceGone ==
  /\ Ready /\ plugged /\ plugged' = FALSE
  /\ UNCHANGED <<backend, outVars, inVars>>

OutStep ==
  \/ \E n \in Sizes : NextFrame(n)
  \/ Submit \/ Flush \/ SpawnWrite \/ WorkerStartsWrite \/ WriteCompletes \/ WriteErrors
  \/ Written \/ WriteFailed \/ DropWriter

InStep ==
  \/ \E n \in Sizes : DeviceSends(n)
  \/ \E want \in Wants : SpawnRead(want) \/ ReadCompletion(want) \/ ReadDrain(want)
  \/ SubmitReads \/ WorkerStartsRead \/ Fetch \/ ReadErrors \/ ReadFailed
  \/ DropReader \/ WorkerEnds

IoNext ==
  \/ (OpenStep \/ OtherClaims) /\ UNCHANGED bulkVars
  \/ HandOver
  \/ (OutStep \/ InStep \/ DeviceGone) /\ UNCHANGED openVars

IoSpec == IoInit /\ [][IoNext]_ioVars

(* Calls of the system return, tasks are polled and worker threads run; a  *)
(* transfer ends if the device takes it, is aborted, or the device is gone.*)
(* The device need not send, and nothing need be dropped.                  *)
IoFairSpec ==
  /\ IoSpec
  /\ WF_ioVars(OpenStep /\ UNCHANGED bulkVars)
  /\ WF_ioVars((\/ Submit \/ Flush \/ SpawnWrite \/ WorkerStartsWrite \/ Written \/ WriteFailed
                \/ WriteCompletes \/ (~plugged /\ WriteErrors)) /\ UNCHANGED openVars)
  /\ WF_ioVars((\/ WorkerStartsRead \/ WorkerEnds \/ (~plugged /\ ReadErrors))
                /\ UNCHANGED openVars)
-----------------------------------------------------------------------------
(* Properties.                                                             *)

(* What the device takes for a transfer is what the mux wrote as a frame:  *)
(* no frame runs into the next one or is cut in two, whatever it fills     *)
(* ("the device can't tell where it ends and the next one begins"), and    *)
(* when the writer is idle, nothing is left unfinished.                    *)
FramesDelimited ==
  /\ IsPrefix(heard, toWrite)
  /\ writer.pc = "idle" => heard = toWrite /\ partial = 0

(* Bytes neither get lost nor out of order between the device and the      *)
(* caller of a reader, across transfers in flight, left-over bytes and     *)
(* short reads; and the caller never sees the end of the stream            *)
(* ("Zero-byte read: treat as a no-op and try again rather than EOF").     *)
StreamIntact ==
  /\ ~reader.sawEnd
  /\ IsPrefix(got, sent)
  /\ reader.pc = "reading" => got \o reader.drain \o FlattenSeq(fetched) \o FlattenSeq(wire) = sent

(* open_mux comes to an end, and a frame written is accepted or fails: no  *)
(* attempt and no flush repeats for ever.                                  *)
CallsReturn ==
  /\ at = "open" ~> at \in {"opened", "failed"}
  /\ writer.pc \in {"write", "flush"} ~> writer.pc \in {"idle", "failed"}

(* The last Arc of a Windows device handle goes with the halves and their  *)
(* workers.                                                                *)
HandleOpen == Blocking /\ (\E half \in {reader, writer} : half.pc # "dropped" \/ half.job # "none")

(* Once both halves are dropped, the device handle is closed, without any  *)
(* help of the device; unless the worker of a read had not started its     *)
(* call: then the handle stays open until the device is gone.              *)
HandleReleased ==
  reader.pc = "dropped" /\ writer.pc = "dropped" /\ (reader.late => ~plugged) ~> ~HandleOpen
=============================================================================
