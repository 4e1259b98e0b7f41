----------------------------- MODULE DeckAudio -----------------------------
(***************************************************************************)
(* DeckAudio: an emulator's thread puts frames into a ring, a worker       *)
(* thread takes chunks out of it and writes them to /dev/dsp.  A section   *)
(* between lock and unlock is one action.  Frames are numbered from 1, so  *)
(* a ring slot holds a number, 0 for the initial silence.  The two threads *)
(* meet at mutex_, condition_ and pthread_join.                            *)
(*                                                                         *)
(* The trigger that starts playback is left out: when it fails it does     *)
(* what a failing write does.  Emulator.tla calls these operations.        *)
(***************************************************************************)
EXTENDS Naturals, Sequences

CONSTANTS
  Capacity,   \* kAudioQueueFrames
  Chunk,      \* kAudioWriteChunkFrames
  MaxFrames   \* bound: frames given between two opens

ASSUME AudioAssumption ==
  /\ Capacity \in Nat \ {0} /\ Chunk \in Nat \ {0}
  /\ MaxFrames \in Nat

VARIABLES
  thread_started, stopping, worker_failed,
  worker,      \* "none" or where audio_thread_main is: "lock" wants mutex_,
               \* "wait" is in pthread_cond_wait, "write" is in write_all,
               \* "failed" has seen write_all fail, "done" has returned
  queue, queue_head, queue_size, dropped_frames,
  output,      \* the rest of the worker's chunk
  given,       \* history: frames accepted since open_device
  played       \* history: frames the device has taken since open_device

ring == <<queue, queue_head, queue_size>>
vars == <<thread_started, stopping, worker_failed, worker, ring,
          dropped_frames, output, given, played>>

Slots == 0 .. Capacity - 1
Smaller(a, b) == IF a < b THEN a ELSE b

Init ==
  /\ thread_started = FALSE /\ stopping = FALSE /\ worker_failed = FALSE
  /\ worker = "none"
  /\ queue = [s \in Slots |-> 0] /\ queue_head = 0 /\ queue_size = 0
  /\ dropped_frames = 0
  /\ output = <<>> /\ given = 0 /\ played = 0

\* open_device, when the device and the thread can be had; when they cannot,
\* everything stays closed.
OpenDevice ==
  /\ ~thread_started
  /\ thread_started' = TRUE /\ worker' = "lock"
  /\ UNCHANGED <<stopping, worker_failed, ring, dropped_frames, output,
                 given, played>>

-----------------------------------------------------------------------------
\* The producer.

\* queue_head_ moved over n frames.
Advance(n) == (queue_head + n) % Capacity

\* Frames number first .. first + count - 1 in the slots from tail on.
Copied(tail, first, count) ==
  [s \in Slots |->
     LET offset == (s + Capacity - tail) % Capacity
     IN IF offset < count THEN first + offset ELSE queue[s]]

\* The ring after enqueue: what exceeds the whole ring is skipped, then the
\* oldest frames make room for the rest.
Store(count) ==
  LET kept == Smaller(count, Capacity)
      skipped == count - kept
      free == Capacity - queue_size
      discarded == IF kept > free THEN kept - free ELSE 0
      head == Advance(discarded)
      size == queue_size - discarded
  IN /\ dropped_frames' = dropped_frames + skipped + discarded
     /\ queue' = Copied((head + size) % Capacity, given + skipped + 1, kept)
     /\ queue_head' = head
     /\ queue_size' = size + kept
     /\ given' = given + count

\* Plausible bug: no pthread_cond_signal.
NotSignalled == worker

\* pthread_cond_signal.
Signalled == IF worker = "wait" THEN "lock" ELSE worker

Enqueue(count) ==
  /\ thread_started /\ ~stopping /\ ~worker_failed
  /\ given + count <= MaxFrames
  /\ Store(count)
  /\ worker' = Signalled
  /\ UNCHANGED <<thread_started, stopping, worker_failed, output, played>>

\* close_device up to pthread_join.
CloseDevice ==
  /\ thread_started /\ ~stopping
  /\ stopping' = TRUE
  /\ worker' = Signalled
  /\ UNCHANGED <<thread_started, worker_failed, ring, dropped_frames, output,
                 given, played>>

\* No thread, and an empty ring.
Reset ==
  /\ thread_started' = FALSE /\ stopping' = FALSE /\ worker_failed' = FALSE
  /\ worker' = "none"
  /\ queue' = [s \in Slots |-> 0] /\ queue_head' = 0 /\ queue_size' = 0
  /\ dropped_frames' = 0
  /\ output' = <<>> /\ given' = 0 /\ played' = 0

\* pthread_join returns, and close_device resets everything.
Join == stopping /\ worker = "done" /\ Reset

-----------------------------------------------------------------------------
\* The worker.

\* Plausible bug: the copy ignores that the ring wraps.
ChunkWithoutWrap(count) ==
  [i \in 1 .. count |-> queue[Smaller(queue_head + i - 1, Capacity - 1)]]

ChunkAtHead(count) ==
  [i \in 1 .. count |-> queue[(queue_head + i - 1) % Capacity]]

TakeChunk ==
  /\ worker = "lock"
  /\ IF stopping THEN worker' = "done" /\ UNCHANGED <<ring, output>>
     ELSE IF queue_size = 0 THEN worker' = "wait" /\ UNCHANGED <<ring, output>>
     ELSE LET count == Smaller(queue_size, Chunk)
          IN /\ worker' = "write"
             /\ output' = ChunkAtHead(count)
             /\ queue_head' = Advance(count)
             /\ queue_size' = queue_size - count
             /\ UNCHANGED queue
  /\ UNCHANGED <<thread_started, stopping, worker_failed, dropped_frames,
                 given, played>>

\* pthread_cond_wait may return without a signal.
SpuriousWakeup ==
  /\ worker = "wait"
  /\ worker' = "lock"
  /\ UNCHANGED <<thread_started, stopping, worker_failed, ring,
                 dropped_frames, output, given, played>>

\* write() takes a part of the chunk.
WriteSome ==
  /\ worker = "write"
  /\ \E k \in 1 .. Len(output) :
       /\ output' = SubSeq(output, k + 1, Len(output))
       /\ played' = played + k
       /\ worker' = IF k = Len(output) THEN "lock" ELSE "write"
  /\ UNCHANGED <<thread_started, stopping, worker_failed, ring,
                 dropped_frames, given>>

\* start_playback or write() fails and fd_ is closed ...
WriteFails ==
  /\ worker = "write"
  /\ worker' = "failed"
  /\ UNCHANGED <<thread_started, stopping, worker_failed, ring,
                 dropped_frames, output, given, played>>

\* ... and the worker takes the mutex to say so.
MarkFailed ==
  /\ worker = "failed"
  /\ worker' = "done"
  /\ worker_failed' = TRUE
  /\ queue_size' = 0
  /\ output' = <<>>
  /\ UNCHANGED <<thread_started, stopping, queue, queue_head, dropped_frames,
                 given, played>>

Worker == TakeChunk \/ WriteSome \/ MarkFailed
-----------------------------------------------------------------------------
TypeOK ==
  /\ thread_started \in BOOLEAN
  /\ stopping \in BOOLEAN
  /\ worker_failed \in BOOLEAN
  /\ worker \in {"none", "lock", "wait", "write", "failed", "done"}
  /\ queue \in [Slots -> Nat]
  /\ queue_head \in Slots
  /\ queue_size \in 0 .. Capacity
  /\ dropped_frames \in Nat
  /\ output \in Seq(Nat)
  /\ given \in Nat
  /\ played \in Nat

\* Every frame accepted is in the ring, in the worker's hands, played, or
\* counted as dropped, however enqueue and the worker interleave, as long as
\* the device has not failed.
Accounted ==
  ~worker_failed =>
    given = dropped_frames + queue_size + Len(output) + played

\* The worker never sleeps on a queue with frames or through a close: no
\* signal is lost between its test of queue_size and its wait.
NoLostWakeup ==
  worker = "wait" => queue_size = 0 /\ ~stopping /\ output = <<>>

\* The ring, its counters and the worker's sleep agree in every state.
QueueInv == TypeOK /\ Accounted /\ NoLostWakeup

\* The frames in the ring from queue_head on, oldest first.
Pending == [i \in 1 .. queue_size |-> queue[(queue_head + i - 1) % Capacity]]

Fifo == INSTANCE LossyFifo
  WITH pending <- Pending, hand <- output, dropped <- dropped_frames

\* The ring, its wrapping indices and its two threads are a queue that drops
\* its oldest frames.
ImplementsFifo == Fifo!Spec

\* Every accepted frame leaves the queue, played or lost, unless the device
\* is closed first.
Drains ==
  \A f \in 1 .. MaxFrames :
    (given >= f) ~> (given = 0 \/ \A i \in 1 .. queue_size : Pending[i] # f)
=============================================================================
