-------------------------------- MODULE Nic --------------------------------
(***************************************************************************)
(* Device queues and interrupt flags below the network and block layers:   *)
(*   "virtio": the receive virtqueue (kernel/rust/virtio_net.rs) as        *)
(*             virtio_net_receive drives it;                               *)
(*   "block":  the request virtqueue (kernel/rust/virtio_blk.rs) as        *)
(*             do_request drives it;                                       *)
(*   "rtl":    the receive interrupt flag (kernel/rust/net_irq.rs) between *)
(*             rtl8139_irq_handler and net_driver_receive.                 *)
(* The device is the environment: it takes descriptors from the available  *)
(* ring and returns them through the used ring at any moment, also between *)
(* two steps of the driver.  Ring indices wrap.                            *)
(***************************************************************************)
EXTENDS Integers, Sequences, FiniteSets

CONSTANTS
  QSize,        \* queue_size, a power of two
  Buffers,      \* RX_BUFFER_COUNT
  IdxWrap,      \* ring indices are modulo IdxWrap (2^16)
  MaxFrames     \* bound on frames and requests

VARIABLES
  device,       \* which of the three this behaviour drives
  avail, availIdx,      \* the available ring and its index
  used, usedIdx,        \* the used ring and its index
  devIdx,       \* how far the device has read the available ring
  lastUsed,     \* last_used_idx of the driver
  buffer,       \* contents of the buffers, by descriptor
  taken,        \* descriptor completed and not posted again (-1: none), and what was copied
  delivered,    \* frames handed to the stack / answers handed to the caller
  frames,       \* frames or requests so far
  ring, isr, pending,   \* rtl: frames in the chip's buffer, its ROK bit, RX_PENDING
  timedOut      \* a request was given up

nicVars == <<device, avail, availIdx, used, usedIdx, devIdx, lastUsed, buffer, taken, delivered,
             frames, ring, isr, pending, timedOut>>
rings == <<avail, availIdx, used, usedIdx, devIdx, lastUsed, buffer, taken>>
flags == <<ring, isr, pending>>

Align4096(x) == ((x + 4095) \div 4096) * 4096
\* virtqueue_layout: where the rings of a queue of n entries start, and its size.
Layout(n) == LET usedOff == Align4096(16 * n + 4 + 2 * n)
             IN [avail |-> 16 * n, used |-> usedOff, total |-> Align4096(usedOff + 4 + 8 * n)]
PagesNeeded(n) == Layout(n).total \div 4096

Inc(i) == (i + 1) % IdxWrap
Nothing == [desc |-> -1, frame |-> 0]

\* rust_net_rx_post_buffer, and the ring part of rust_virtqueue_submit_request.
Post(d) ==
  /\ avail' = [avail EXCEPT ![availIdx % QSize] = d]
  /\ availIdx' = Inc(availIdx)

\* The device fills the next available buffer with a new frame and returns it.
DeviceReceives ==
  /\ device = "virtio" /\ frames < MaxFrames /\ devIdx # availIdx
  /\ frames' = frames + 1
  /\ buffer' = [buffer EXCEPT ![avail[devIdx % QSize]] = frames + 1]
  /\ used' = [used EXCEPT ![usedIdx % QSize] = avail[devIdx % QSize]]
  /\ usedIdx' = Inc(usedIdx) /\ devIdx' = Inc(devIdx)
  /\ UNCHANGED <<device, avail, availIdx, lastUsed, taken, delivered, timedOut, flags>>
\* rust_net_rx_poll_used reading the newest entry of the used ring (for a mutation).
PollNewest ==
  LET d == used[(usedIdx + IdxWrap - 1) % QSize]
  IN /\ device = "virtio" /\ lastUsed # usedIdx /\ taken.desc = -1
     /\ taken' = [desc |-> d, frame |-> buffer[d]]
     /\ lastUsed' = Inc(lastUsed)
     /\ UNCHANGED <<device, avail, availIdx, used, usedIdx, devIdx, buffer, delivered, frames, timedOut, flags>>
\* virtio_net_receive: rust_net_rx_poll_used, and the copy out of the buffer ...
RxPollUsed ==
  LET d == used[lastUsed % QSize]
  IN /\ device = "virtio" /\ lastUsed # usedIdx /\ taken.desc = -1
     /\ taken' = [desc |-> d, frame |-> buffer[d]]
     /\ lastUsed' = Inc(lastUsed)
     /\ UNCHANGED <<device, avail, availIdx, used, usedIdx, devIdx, buffer, delivered, frames, timedOut, flags>>
\* ... then the buffer is posted again and the frame goes up.
RxRecycle ==
  /\ device = "virtio" /\ taken.desc # -1
  /\ Post(taken.desc)
  /\ delivered' = Append(delivered, taken.frame)
  /\ taken' = Nothing
  /\ UNCHANGED <<device, used, usedIdx, devIdx, lastUsed, buffer, frames, timedOut, flags>>

\* do_request: the header names the sector, descriptor 0 is posted, the status byte
\* becomes 0xFF (here: no data).  One request is in flight at a time.
Submit ==
  /\ device = "block" /\ frames < MaxFrames /\ taken.desc = -1
  /\ frames' = frames + 1
  /\ taken' = [desc |-> 0, frame |-> frames + 1]
  /\ buffer' = [buffer EXCEPT ![0] = 0]
  /\ Post(0)
  /\ UNCHANGED <<device, used, usedIdx, devIdx, lastUsed, delivered, timedOut, flags>>
\* The device answers the oldest request it has not answered.
DeviceAnswers ==
  /\ device = "block" /\ devIdx # availIdx
  /\ buffer' = [buffer EXCEPT ![0] = frames - ((availIdx - devIdx + IdxWrap) % IdxWrap) + 1]
  /\ used' = [used EXCEPT ![usedIdx % QSize] = 0]
  /\ usedIdx' = Inc(usedIdx) /\ devIdx' = Inc(devIdx)
  /\ UNCHANGED <<device, avail, availIdx, lastUsed, taken, delivered, frames, timedOut, flags>>
\* poll_for_completion succeeds: the answer is taken from the buffer.
Complete ==
  /\ device = "block" /\ taken.desc # -1 /\ lastUsed # usedIdx
  /\ lastUsed' = Inc(lastUsed)
  /\ delivered' = IF buffer[0] = 0 THEN delivered ELSE Append(delivered, buffer[0])
  /\ taken' = Nothing
  /\ UNCHANGED <<device, avail, availIdx, used, usedIdx, devIdx, buffer, frames, timedOut, flags>>
\* poll_for_completion gives up after its ten million polls.
GiveUp ==
  /\ device = "block" /\ taken.desc # -1 /\ lastUsed = usedIdx
  /\ taken' = Nothing /\ timedOut' = TRUE
  /\ UNCHANGED <<device, avail, availIdx, used, usedIdx, devIdx, lastUsed, buffer, delivered, frames, flags>>

\* A frame reaches the chip, which raises ROK.
ChipReceives ==
  /\ device = "rtl" /\ frames < MaxFrames
  /\ frames' = frames + 1 /\ ring' = Append(ring, frames + 1) /\ isr' = TRUE
  /\ UNCHANGED <<device, pending, delivered, timedOut, rings>>
\* rtl8139_irq_handler: rust_net_rx_signal, and the interrupt is acknowledged.
IrqHandler ==
  /\ device = "rtl" /\ isr
  /\ pending' = TRUE /\ isr' = FALSE
  /\ UNCHANGED <<device, ring, delivered, frames, timedOut, rings>>
\* net_driver_receive: rust_net_rx_check_and_clear, then one frame of the ring.
DriverReceive ==
  /\ device = "rtl" /\ pending
  /\ pending' = FALSE
  /\ IF ring = <<>> THEN UNCHANGED <<ring, delivered>>
     ELSE ring' = Tail(ring) /\ delivered' = Append(delivered, Head(ring))
  /\ UNCHANGED <<device, isr, frames, timedOut, rings>>

NicInit ==
  /\ device \in {"virtio", "block", "rtl"}
  /\ avail = [i \in 0..(QSize - 1) |-> IF i < Buffers THEN i ELSE 0]
  /\ availIdx = (IF device = "virtio" THEN Buffers ELSE 0)
  /\ used = [i \in 0..(QSize - 1) |-> 0] /\ usedIdx = 0 /\ devIdx = 0 /\ lastUsed = 0
  /\ buffer = [d \in 0..(Buffers - 1) |-> 0] /\ taken = Nothing /\ delivered = <<>> /\ frames = 0
  /\ ring = <<>> /\ isr = FALSE /\ pending = FALSE /\ timedOut = FALSE

NicNext ==
  \/ DeviceReceives \/ RxPollUsed \/ RxRecycle
  \/ Submit \/ DeviceAnswers \/ Complete \/ GiveUp
  \/ ChipReceives \/ IrqHandler \/ DriverReceive

---------------------------------------------------------------------------
\* The rings do not overlap in memory; frames and answers come out in order, each
\* once, with their own contents, through wraps of the ring indices and whatever
\* the device does between two steps of the driver, as long as no block request
\* was given up (after that a late answer is taken for the next one).
DeliveredAsReceived ==
  /\ \A n \in {QSize, 256} : /\ Layout(n).avail + 4 + 2 * n <= Layout(n).used
                             /\ Layout(n).used + 4 + 8 * n <= Layout(n).total
                             /\ Layout(n).used % 4096 = 0 /\ PagesNeeded(n) * 4096 = Layout(n).total
  /\ ~timedOut => delivered = [k \in 1..Len(delivered) |-> k]

\* "each re-setting this same flag, so nothing is ever lost, just drained across a few
\* more net_poll() calls" (net.c, net_driver_receive, of a burst of frames).
BurstIsDrained == \A k \in 1..MaxFrames :
  (device = "rtl" /\ frames >= k) ~> (Len(delivered) >= k)
=============================================================================
