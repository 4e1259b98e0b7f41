--------------------------- MODULE EmulatorProofs ---------------------------
(***************************************************************************)
(* An emulator keeps its invariants for every size of the audio ring and   *)
(* of a chunk, every pair of sample rates and every time between saves:    *)
(* the ring's counters and its two threads agree, resampling loses nothing *)
(* and a killed game loses no more than one period.  The panel shows the   *)
(* last picture with its border and hint, for every size of picture and    *)
(* panel, and the ring is a queue that drops its oldest frames.            *)
(*                                                                         *)
(* ThreadInv adds to QueueInv where the worker's hands are empty.  RateInv *)
(* adds that there is no sound before the device is open.  ProgressInv     *)
(* relates what is missing in a save file to the place of the frame in its *)
(* period, which ProgressIsKept only bounds.  PictureInv says of every     *)
(* place of the panel which picture it shows between two rows.             *)
(*                                                                         *)
(* The last part is about the input thread, which shares nothing with the  *)
(* front end but the state it publishes: no controller plays for two, and  *)
(* none changes its player.  JoypadInv adds to SlotsInv how devices, slots *)
(* and the devices found by a scan are told apart.                         *)
(***************************************************************************)
EXTENDS JoypadInput, Emulator, Lemmas

\* The worker's hands are empty but while it writes, and everything is when
\* there is no worker.
ThreadInv ==
  /\ worker = "none" <=> ~thread_started
  /\ worker \in {"none", "lock", "wait", "done"} => output = <<>>
  /\ ~thread_started =>
       /\ given = 0 /\ queue_size = 0 /\ played = 0 /\ dropped_frames = 0
       /\ ~stopping /\ ~worker_failed

Starting == {"rom", "config", "core", "screen", "volume", "audio"}

\* No sound before the device has been opened, or after it has been closed.
RateInv ==
  /\ batch \in Nat /\ rate_remainder \in Nat /\ received \in Nat
  /\ stage \in Starting \cup {"exited"} => ~thread_started
  /\ stage \in Starting => received = 0 /\ rate_remainder = 0
  /\ RateIsKept

Contents == Nat \cup {Missing, Unusable, Legacy, CutLegacy, Mixed}

\* What a save file may lack of memory m, and that it lacks nothing.
Within(m, n) == memory[m] # Mixed => memory[m] <= Frame(files[m]) + n
Written(m) == memory[m] # Mixed => memory[m] = files[m]

\* What the save files lack at each stage: no more than the frames since the
\* last save was due.
ProgressInv ==
  /\ frontend \in FrontEnds
  /\ frames \in Nat
  /\ memory \in [Memories -> Nat \cup {Mixed}]
  /\ files \in [Memories -> Contents]
  /\ \A m \in Memories \ frontend.saves : files[m] = Missing
  /\ stage \in Starting \cup {"load ram", "load rtc"} => frames = 0
  /\ stage \in Starting \cup {"load ram"} => \A m \in Memories : memory[m] = 0
  /\ stage = "load rtc" => memory["rtc"] = 0
  /\ stage \in {"save ram", "save rtc"} => frames % SaveEvery = 0
  /\ stage \in {"picture", "sound", "queue", "pace"} => frames > 0
  /\ \A m \in frontend.saves \ unsaved :
       /\ stage \in {"load rtc", "loop"} => Within(m, frames % SaveEvery)
       /\ stage \in {"picture", "sound", "queue", "pace"} =>
            Within(m, ((frames - 1) % SaveEvery) + 1)
       /\ stage \in {"save rtc", "final rtc"} /\ m = "ram" => Written(m)
       /\ stage \in {"close", "join"} => Written(m)

AudioInv == TypeOK /\ Accounted /\ NoLostWakeup /\ ThreadInv
FrontInv == AudioInv /\ RateInv /\ ProgressInv

-----------------------------------------------------------------------------
\* What is not ahead of a file is not further ahead with a slack.
LEMMA NotAhead ==
  ASSUME NEW v \in Nat, NEW f \in Nat, NEW r \in Nat, v <= f
  PROVE  v <= f + r
  OBVIOUS

\* Nothing is ahead of itself.
LEMMA NoSlack ==
  ASSUME NEW c \in Nat
  PROVE  c <= c + 0 /\ 0 <= c /\ 0 \in Nat
  OBVIOUS

\* What is missing within a period is less than the period.
LEMMA RestIsLess ==
  ASSUME NEW x \in Nat, NEW f \in Nat, NEW a \in Nat, NEW d \in Nat \ {0},
         x <= f + (a % d) \/ x <= f + ((a % d) + 1)
  PROVE  x - f <= d
<1>1. PICK r \in 0 .. d - 1 : r = a % d
  BY Division
<1>2. x <= f + r \/ x <= f + (r + 1)
  BY <1>1
<1>3. x <= f + (r + 1)
  BY <1>2
<1> QED
  BY <1>3

\* A period that is not over goes on.
LEMMA SamePeriod ==
  ASSUME NEW f \in Nat \ {0}, NEW d \in Nat \ {0}, f % d # 0
  PROVE  ((f - 1) % d) + 1 = f % d
<1> DEFINE q == f \div d
           r == f % d
           p == (f - 1) \div d
           s == (f - 1) % d
<1>1. q \in Nat /\ r \in 1 .. d - 1 /\ f = (q * d) + r
  <2>1. f \in Nat
    OBVIOUS
  <2>2. q \in Nat /\ r \in 0 .. d - 1 /\ f = (q * d) + r
    BY <2>1, Division
  <2>3. r # 0
    OBVIOUS
  <2> HIDE DEF q, r
  <2> QED
    BY <2>2, <2>3
<1>2. p \in Nat /\ s \in 0 .. d - 1 /\ f - 1 = (p * d) + s
  <2>1. f - 1 \in Nat
    OBVIOUS
  <2> QED
    BY <2>1, Division
<1>3. SUFFICES s + 1 = r
  OBVIOUS
<1> HIDE DEF q, r, p, s
<1>4. (q - p) * d = q * d - p * d
  BY <1>1, <1>2
<1>5. q * d \in Int /\ p * d \in Int
  BY <1>1, <1>2
<1>6. (q - p) * d = s + 1 - r
  BY <1>1, <1>2, <1>4, <1>5
<1>7. q - p = 0
  BY <1>1, <1>2, <1>6, NoMultiple
<1>8. q * d = p * d
  BY <1>1, <1>2, <1>7
<1> QED
  BY <1>1, <1>2, <1>5, <1>8

-----------------------------------------------------------------------------
\* Nothing is in the ring of a device that is closed.
LEMMA AudioInvInit == Init => AudioInv
<1> SUFFICES ASSUME Init
             PROVE  AudioInv
  OBVIOUS
<1>1. TypeOK
  <2>1. queue \in [Slots -> Nat] /\ queue_head \in Slots /\ queue_size \in 0 .. Capacity
    BY AudioAssumption DEF Init, Slots
  <2> QED
    BY <2>1 DEF Init, TypeOK
<1>2. Accounted /\ NoLostWakeup /\ ThreadInv
  BY DEF Init, Accounted, NoLostWakeup, ThreadInv
<1> QED
  BY <1>1, <1>2 DEF AudioInv

\* The thread that is started finds nothing.
LEMMA OpenDeviceKeeps ==
  ASSUME AudioInv, OpenDevice
  PROVE  AudioInv'
<1> USE DEF AudioInv, OpenDevice, ring
<1>1. TypeOK'
  BY DEF TypeOK
<1>2. Accounted' /\ NoLostWakeup' /\ ThreadInv'
  BY DEF Accounted, NoLostWakeup, ThreadInv
<1> QED
  BY <1>1, <1>2

\* The slots that are filled hold the numbers of frames.
LEMMA CopiedIsARing ==
  ASSUME TypeOK, NEW tail \in Slots, NEW first \in Nat, NEW count \in Nat
  PROVE  Copied(tail, first, count) \in [Slots -> Nat]
<1>1. ASSUME NEW s \in Slots
      PROVE  (s + Capacity - tail) % Capacity \in Nat
  <2>1. s + Capacity - tail \in Nat /\ Capacity \in Nat \ {0}
    BY AudioAssumption DEF Slots
  <2>2. PICK a \in Nat : a = s + Capacity - tail
    BY <2>1
  <2>3. a % Capacity \in Nat
    BY <2>1, Division
  <2> QED
    BY <2>2, <2>3
<1> QED
  BY <1>1 DEF Copied, TypeOK

\* What does not fit into the ring makes room and is counted.
LEMMA StoreKeeps ==
  ASSUME TypeOK, NEW count \in Nat, Store(count)
  PROVE  /\ queue' \in [Slots -> Nat] /\ queue_head' \in Slots
         /\ queue_size' \in 0 .. Capacity
         /\ dropped_frames' \in Nat /\ given' \in Nat
         /\ given' = given + (dropped_frames' - dropped_frames)
                               + (queue_size' - queue_size)
<1> DEFINE kept == Smaller(count, Capacity)
           skipped == count - kept
           free == Capacity - queue_size
           discarded == IF kept > free THEN kept - free ELSE 0
           head == Advance(discarded)
           size == queue_size - discarded
<1>1. /\ dropped_frames' = dropped_frames + skipped + discarded
      /\ queue' = Copied((head + size) % Capacity, given + skipped + 1, kept)
      /\ queue_head' = head
      /\ queue_size' = size + kept
      /\ given' = given + count
  BY DEF Store
<1>2. /\ Capacity \in Nat \ {0}
      /\ queue_head \in Nat /\ queue_size \in 0 .. Capacity
      /\ given \in Nat /\ dropped_frames \in Nat
  BY AudioAssumption DEF TypeOK, Slots
<1>3. kept \in 0 .. Capacity /\ kept <= count /\ skipped \in Nat
  BY <1>2 DEF Smaller
<1> HIDE DEF kept
<1>4. discarded \in Nat /\ size \in Nat /\ size + kept \in 0 .. Capacity
  BY <1>2, <1>3
<1>5. head \in Slots
  <2>1. queue_head + discarded \in Nat
    BY <1>2, <1>4
  <2> QED
    BY <1>2, <2>1, Division DEF Advance, Slots
<1> HIDE DEF head
<1>6. (head + size) % Capacity \in Slots
  <2>1. head + size \in Nat
    BY <1>2, <1>4, <1>5 DEF Slots
  <2> QED
    BY <1>2, <2>1, Division DEF Slots
<1>7. queue' \in [Slots -> Nat]
  <2>1. given + skipped + 1 \in Nat /\ kept \in Nat
    BY <1>2, <1>3
  <2> QED
    BY <1>1, <1>6, <2>1, CopiedIsARing
<1> QED
  BY <1>1, <1>2, <1>3, <1>4, <1>5, <1>7

\* enqueue wakes the worker that waits for frames.
LEMMA EnqueueKeeps ==
  ASSUME AudioInv, NEW count \in Nat, Enqueue(count)
  PROVE  AudioInv'
<1> USE DEF AudioInv
<1>1. /\ queue' \in [Slots -> Nat] /\ queue_head' \in Slots
      /\ queue_size' \in 0 .. Capacity
      /\ dropped_frames' \in Nat /\ given' \in Nat
      /\ given' = given + (dropped_frames' - dropped_frames)
                            + (queue_size' - queue_size)
  BY StoreKeeps DEF Enqueue
<1>2. /\ thread_started /\ worker' = Signalled
      /\ UNCHANGED <<thread_started, stopping, worker_failed, output, played>>
  BY DEF Enqueue
<1>3. \/ worker' = "lock" /\ worker = "wait"
      \/ worker' = worker /\ worker # "wait"
  BY <1>2 DEF Signalled
<1>4. TypeOK'
  BY <1>1, <1>2, <1>3 DEF TypeOK
<1>5. Accounted'
  <2>1. /\ given \in Nat /\ dropped_frames \in Nat /\ queue_size \in Nat
        /\ Len(output) \in Nat /\ played \in Nat
    BY AudioAssumption DEF TypeOK
  <2>2. /\ queue_size' \in Nat /\ Len(output') = Len(output)
        /\ played' = played /\ (~worker_failed' => ~worker_failed)
    BY <1>1, <1>2, AudioAssumption
  <2>3. ~worker_failed =>
          given = dropped_frames + queue_size + Len(output) + played
    BY DEF Accounted
  <2>4. ASSUME ~worker_failed'
        PROVE  given' = dropped_frames' + queue_size' + Len(output') + played'
    <3>1. given = dropped_frames + queue_size + Len(output) + played
      BY <2>2, <2>3, <2>4
    <3>2. PICK n \in Nat : n = Len(output) /\ n = Len(output')
      BY <2>1, <2>2
    <3>3. given' = dropped_frames' + queue_size' + n + played'
      <4>1. given = dropped_frames + queue_size + n + played
        BY <3>1, <3>2
      <4>2. played' = played
        BY <2>2
      <4>3. given' = given + (dropped_frames' - dropped_frames)
                       + (queue_size' - queue_size)
        BY <1>1
      <4>4. /\ given' \in Int /\ dropped_frames' \in Int /\ queue_size' \in Int
            /\ given \in Int /\ dropped_frames \in Int /\ queue_size \in Int
            /\ played \in Int /\ n \in Int
        BY <1>1, <2>1, <2>2
      <4> QED
        BY <4>1, <4>2, <4>3, <4>4
    <3> QED
      BY <3>2, <3>3
  <2> QED
    BY <2>4 DEF Accounted
<1>6. NoLostWakeup'
  BY <1>3 DEF NoLostWakeup
<1>7. ThreadInv'
  BY <1>2, <1>3 DEF ThreadInv
<1> QED
  BY <1>4, <1>5, <1>6, <1>7

\* So does close_device.
LEMMA CloseDeviceKeeps ==
  ASSUME AudioInv, CloseDevice
  PROVE  AudioInv'
<1> USE DEF AudioInv
<1>1. /\ thread_started /\ stopping' = TRUE
      /\ UNCHANGED <<thread_started, worker_failed, queue, queue_head,
                     queue_size, dropped_frames, output, given, played>>
  BY DEF CloseDevice, ring
<1>2. \/ worker' = "lock" /\ worker = "wait"
      \/ worker' = worker /\ worker # "wait"
  BY DEF CloseDevice, Signalled
<1>3. TypeOK'
  BY <1>1, <1>2 DEF TypeOK
<1>4. Accounted' /\ NoLostWakeup' /\ ThreadInv'
  BY <1>1, <1>2 DEF Accounted, NoLostWakeup, ThreadInv
<1> QED
  BY <1>3, <1>4

\* The end of the worker, or of the process.
LEMMA ResetKeeps ==
  ASSUME Reset
  PROVE  AudioInv' /\ ~thread_started'
<1>1. TypeOK'
  <2>1. /\ queue' \in [Slots -> Nat] /\ queue_head' \in Slots
        /\ queue_size' \in 0 .. Capacity
    BY AudioAssumption DEF Reset, Slots
  <2> QED
    BY <2>1 DEF Reset, TypeOK
<1>2. Accounted' /\ NoLostWakeup' /\ ThreadInv'
  BY DEF Reset, Accounted, NoLostWakeup, ThreadInv
<1> QED
  BY <1>1, <1>2 DEF AudioInv, Reset

\* A chunk is taken whole from the ring.
LEMMA TakeChunkKeeps ==
  ASSUME AudioInv, TakeChunk
  PROVE  AudioInv'
<1> USE DEF AudioInv
<1>1. /\ worker = "lock" /\ output = <<>> /\ thread_started
      /\ UNCHANGED <<thread_started, stopping, worker_failed, dropped_frames,
                     given, played>>
  BY DEF TakeChunk, ThreadInv
<1>2. CASE UNCHANGED <<queue, queue_head, queue_size, output>>
           /\ \/ worker' = "done"
              \/ worker' = "wait" /\ queue_size = 0 /\ ~stopping
  <2>1. TypeOK'
    BY <1>1, <1>2 DEF TypeOK
  <2>2. Accounted' /\ NoLostWakeup' /\ ThreadInv'
    BY <1>1, <1>2 DEF Accounted, NoLostWakeup, ThreadInv
  <2> QED
    BY <2>1, <2>2
<1>3. CASE ~stopping /\ queue_size # 0
  <2> DEFINE count == Smaller(queue_size, Chunk)
  <2>1. /\ worker' = "write" /\ output' = ChunkAtHead(count)
        /\ queue_head' = Advance(count) /\ queue_size' = queue_size - count
        /\ queue' = queue
    BY <1>3 DEF TakeChunk
  <2>2. /\ Capacity \in Nat \ {0} /\ queue_size \in 0 .. Capacity
        /\ queue_head \in Slots /\ queue \in [Slots -> Nat]
    BY AudioAssumption DEF TypeOK
  <2>3. count \in Nat /\ count <= queue_size
    BY <2>2, AudioAssumption DEF Smaller
  <2> HIDE DEF count
  <2>4. output' \in Seq(Nat) /\ Len(output') = count
    <3>1. ASSUME NEW i \in 1 .. count
          PROVE  queue[(queue_head + i - 1) % Capacity] \in Nat
      <4>1. queue_head + i - 1 \in Nat
        BY <2>2, <2>3 DEF Slots
      <4>2. (queue_head + i - 1) % Capacity \in Slots
        BY <2>2, <4>1, Division DEF Slots
      <4> QED
        BY <2>2, <4>2
    <3> QED
      BY <2>1, <2>3, <3>1 DEF ChunkAtHead
  <2>5. queue_head' \in Slots
    <3>1. queue_head + count \in Nat
      BY <2>2, <2>3 DEF Slots
    <3> QED
      BY <2>1, <2>2, <3>1, Division DEF Advance, Slots
  <2>6. queue_size' \in 0 .. Capacity
    BY <2>1, <2>2, <2>3
  <2>7. TypeOK'
    BY <1>1, <2>1, <2>2, <2>4, <2>5, <2>6 DEF TypeOK
  <2>8. Accounted'
    <3>1. /\ given \in Nat /\ dropped_frames \in Nat /\ played \in Nat
          /\ Len(output) = 0
      BY <1>1 DEF TypeOK
    <3> QED
      BY <1>1, <2>1, <2>2, <2>3, <2>4, <3>1 DEF Accounted
  <2>9. NoLostWakeup' /\ ThreadInv'
    BY <1>1, <2>1 DEF NoLostWakeup, ThreadInv
  <2> QED
    BY <2>7, <2>8, <2>9
<1> QED
  BY <1>2, <1>3 DEF TakeChunk, ring

\* The device takes a part of the chunk.
LEMMA WriteSomeKeeps ==
  ASSUME AudioInv, WriteSome
  PROVE  AudioInv'
<1> USE DEF AudioInv
<1>1. PICK k \in 1 .. Len(output) :
        /\ output' = SubSeq(output, k + 1, Len(output))
        /\ played' = played + k
        /\ worker' = IF k = Len(output) THEN "lock" ELSE "write"
  BY DEF WriteSome
<1>2. /\ worker = "write" /\ thread_started
      /\ UNCHANGED <<thread_started, stopping, worker_failed, queue,
                     queue_head, queue_size, dropped_frames, given>>
  BY DEF WriteSome, ThreadInv, ring
<1>3. output \in Seq(Nat) /\ Len(output) \in Nat /\ played \in Nat
  BY DEF TypeOK
<1>4. /\ output' \in Seq(Nat) /\ Len(output') = Len(output) - k
      /\ k = Len(output) => output' = <<>>
  BY <1>1, <1>3
<1>5. TypeOK'
  BY <1>1, <1>2, <1>3, <1>4 DEF TypeOK
<1>6. Accounted'
  <2>1. given \in Nat /\ dropped_frames \in Nat /\ queue_size \in Nat
    BY AudioAssumption DEF TypeOK
  <2>2. ~worker_failed =>
          given = dropped_frames + queue_size + Len(output) + played
    BY DEF Accounted
  <2>3. /\ ~worker_failed' => ~worker_failed
        /\ given' = given /\ dropped_frames' = dropped_frames
        /\ queue_size' = queue_size
    BY <1>2
  <2>4. ASSUME ~worker_failed'
        PROVE  given' = dropped_frames' + queue_size' + Len(output') + played'
    <3>1. given = dropped_frames + queue_size + Len(output) + played
      BY <2>2, <2>3, <2>4
    <3>2. PICK n \in Nat : n = Len(output)
      BY <1>3
    <3>3. Len(output') = n - k /\ k \in Int
      BY <1>3, <1>4, <3>2
    <3>4. given' = dropped_frames' + queue_size' + (n - k) + played'
      BY <1>1, <1>3, <2>1, <2>3, <3>1, <3>2, <3>3
    <3> QED
      BY <3>3, <3>4
  <2> QED
    BY <2>4 DEF Accounted
<1>7. NoLostWakeup' /\ ThreadInv'
  BY <1>1, <1>2, <1>4 DEF NoLostWakeup, ThreadInv
<1> QED
  BY <1>5, <1>6, <1>7

\* The rest of the worker's life.
LEMMA OtherWorkKeeps ==
  ASSUME AudioInv, SpuriousWakeup \/ WriteFails \/ MarkFailed \/ UNCHANGED audio
  PROVE  AudioInv'
<1> USE DEF AudioInv
<1>1. CASE SpuriousWakeup \/ WriteFails
  <2>1. TypeOK'
    BY <1>1 DEF SpuriousWakeup, WriteFails, ring, TypeOK
  <2>2. Accounted' /\ NoLostWakeup' /\ ThreadInv'
    BY <1>1 DEF SpuriousWakeup, WriteFails, ring, Accounted, NoLostWakeup,
       ThreadInv
  <2> QED
    BY <2>1, <2>2
<1>2. CASE MarkFailed
  <2>1. TypeOK'
    BY <1>2, AudioAssumption DEF MarkFailed, TypeOK
  <2>2. Accounted' /\ NoLostWakeup' /\ ThreadInv'
    BY <1>2 DEF MarkFailed, Accounted, NoLostWakeup, ThreadInv
  <2> QED
    BY <2>1, <2>2
<1>3. CASE UNCHANGED audio
  <2>1. TypeOK'
    BY <1>3 DEF audio, ring, TypeOK
  <2>2. Accounted' /\ NoLostWakeup' /\ ThreadInv'
    BY <1>3 DEF audio, ring, Accounted, NoLostWakeup, ThreadInv
  <2> QED
    BY <2>1, <2>2
<1> QED
  BY <1>1, <1>2, <1>3

-----------------------------------------------------------------------------
\* The steps of main that neither open, fill nor close the device.
Silent ==
  \/ ReadRom \/ ReadConfig \/ LoadGame \/ FailToLoad \/ OpenScreen \/ NoScreen
  \/ ReadVolume \/ (OpenAudio /\ UNCHANGED audio)
  \/ Load("load ram", "ram", "load rtc") \/ Load("load rtc", "rtc", "loop")
  \/ RunFrame \/ PublishPicture \/ Pace \/ Leave
  \/ Save("save ram", "ram", "save rtc") \/ Save("save rtc", "rtc", "loop")
  \/ Save("final ram", "ram", "final rtc") \/ Save("final rtc", "rtc", "close")
  \/ CloseAudio /\ ~thread_started

\* They come from where they lead to, as far as the device is concerned.
LEMMA SilentSteps ==
  ASSUME Silent
  PROVE  /\ UNCHANGED audio /\ UNCHANGED sound
         /\ stage # "queue" /\ stage' # "queue"
         /\ stage' \in Starting => stage \in Starting
         /\ stage' = "exited" => stage \in Starting \/ ~thread_started
  BY DEF Silent, ReadRom, ReadConfig, LoadGame, FailToLoad, OpenScreen,
     NoScreen, ReadVolume, OpenAudio, Load, RunFrame, PublishPicture, Pace,
     Leave, Save, CloseAudio, Attempt, Move, Go, Starting, ShowPicture,
     VideoFails, WithoutPicture

\* What an emulator can do.
LEMMA StepsOfAnEmulator ==
  ASSUME [EmulatorNext]_emulatorVars
  PROVE  \/ Silent \/ (OpenAudio /\ OpenDevice) \/ Sound \/ Queue
         \/ (CloseAudio /\ CloseDevice) \/ JoinAudio \/ Signal \/ Kill
         \/ Relaunch
         \/ (Worker \/ SpuriousWakeup \/ WriteFails) /\ UNCHANGED front
         \/ UNCHANGED emulatorVars
<1>1. OpenAudio => (OpenAudio /\ OpenDevice) \/ Silent
  BY DEF OpenAudio, Silent
<1>2. CloseAudio => (CloseAudio /\ CloseDevice) \/ Silent
  BY DEF CloseAudio, Silent
<1> QED
  BY <1>1, <1>2 DEF EmulatorNext, Main, Silent

\* The resampler hands on every whole frame and remembers the rest.
LEMMA ResampleIsExact ==
  ASSUME NEW n \in Nat, rate_remainder \in Nat, Resample(n)
  PROVE  /\ batch' \in Nat /\ rate_remainder' \in Nat
         /\ (n * OutputRate) + rate_remainder = (batch' * SourceRate) + rate_remainder'
<1>1. OutputRate \in Nat \ {0} /\ SourceRate \in Nat \ {0}
  BY EmulatorAssumption
<1>2. n * OutputRate \in Nat
  BY <1>1
<1>3. PICK scaled \in Nat : scaled = (n * OutputRate) + rate_remainder
  BY <1>2
<1>4. batch' = scaled \div SourceRate /\ rate_remainder' = scaled % SourceRate
  BY <1>3 DEF Resample
<1>5. /\ scaled \div SourceRate \in Nat /\ scaled % SourceRate \in 0 .. SourceRate - 1
      /\ scaled = ((scaled \div SourceRate) * SourceRate) + (scaled % SourceRate)
  BY <1>1, Division
<1> QED
  BY <1>1, <1>3, <1>4, <1>5

\* Products of sums.
LEMMA Distributes ==
  ASSUME NEW a \in Int, NEW b \in Int, NEW c \in Int
  PROVE  (a + b) * c = (a * c) + (b * c) /\ a * c \in Int /\ b * c \in Int
  OBVIOUS

\* The account of r frames in and g out, with rest x, goes on with n and b.
LEMMA AccountGoesOn ==
  ASSUME NEW r \in Int, NEW n \in Int, NEW o \in Int, NEW g \in Int,
         NEW b \in Int, NEW s \in Int, NEW x \in Int, NEW y \in Int,
         r * o = (g * s) + x, (n * o) + x = (b * s) + y
  PROVE  (r + n) * o = ((g + b) * s) + y
<1>1. (r + n) * o = (r * o) + (n * o) /\ r * o \in Int /\ n * o \in Int
  BY Distributes
<1>2. (g + b) * s = (g * s) + (b * s) /\ g * s \in Int /\ b * s \in Int
  BY Distributes
<1> QED
  BY <1>1, <1>2

\* Every step keeps the ring and its threads in order.
LEMMA AudioInvNext ==
  ASSUME FrontInv, [EmulatorNext]_emulatorVars
  PROVE  AudioInv'
<1>1. AudioInv
  BY DEF FrontInv
<1>2. CASE Silent
  BY <1>1, <1>2, SilentSteps, OtherWorkKeeps
<1>3. CASE OpenAudio /\ OpenDevice
  BY <1>1, <1>3, OpenDeviceKeeps
<1>4. CASE Queue
  <2>1. CASE Enqueue(batch)
    BY <1>1, <2>1, EnqueueKeeps DEF FrontInv, RateInv
  <2>2. CASE UNCHANGED audio
    BY <1>1, <2>2, OtherWorkKeeps
  <2> QED
    BY <1>4, <2>1, <2>2 DEF Queue
<1>5. CASE CloseAudio /\ CloseDevice
  BY <1>1, <1>5, CloseDeviceKeeps
<1>6. CASE JoinAudio \/ Kill
  BY <1>6, ResetKeeps DEF JoinAudio, Join, Kill
<1>7. CASE Sound \/ Signal \/ Relaunch \/ UNCHANGED emulatorVars
  <2>1. UNCHANGED audio
    BY <1>7 DEF Sound, Signal, Relaunch, emulatorVars
  <2> QED
    BY <1>1, <2>1, OtherWorkKeeps
<1>8. CASE Worker \/ SpuriousWakeup \/ WriteFails
  BY <1>1, <1>8, TakeChunkKeeps, WriteSomeKeeps, OtherWorkKeeps DEF Worker
<1> QED
  BY <1>2, <1>3, <1>4, <1>5, <1>6, <1>7, <1>8, StepsOfAnEmulator

\* Sound in and sound out agree after every step.
LEMMA RateInvNext ==
  ASSUME FrontInv, [EmulatorNext]_emulatorVars
  PROVE  RateInv'
<1>1. AudioInv /\ RateInv
  BY DEF FrontInv
<1>2. /\ OutputRate \in Nat \ {0} /\ SourceRate \in Nat \ {0}
      /\ given \in Nat /\ batch \in Nat /\ rate_remainder \in Nat
      /\ received \in Nat
  BY <1>1, EmulatorAssumption DEF AudioInv, TypeOK, RateInv
<1>3. CASE Silent
  <2>1. /\ UNCHANGED <<thread_started, worker_failed, given, batch,
                       rate_remainder, received>>
        /\ stage # "queue" /\ stage' # "queue"
        /\ stage' \in Starting => stage \in Starting
        /\ stage' = "exited" => stage \in Starting \/ ~thread_started
    BY <1>3, SilentSteps DEF audio, sound
  <2> QED
    BY <1>1, <2>1 DEF RateInv, RateIsKept
<1>4. CASE OpenAudio /\ OpenDevice
  <2>1. /\ stage = "audio" /\ stage' = "load ram" /\ UNCHANGED sound
        /\ given' = given /\ ~thread_started
    BY <1>4 DEF OpenAudio, OpenDevice, Move, Go
  <2>2. /\ given = 0 /\ received = 0 /\ rate_remainder = 0
    BY <1>1, <2>1 DEF AudioInv, ThreadInv, RateInv, Starting
  <2>3. received' * OutputRate = 0 /\ (given' + 0) * SourceRate = 0
    <3>1. received' = 0 /\ given' + 0 = 0
      <4>1. received' = received /\ given' = 0
        BY <2>1, <2>2 DEF sound
      <4> QED
        BY <2>2, <4>1
    <3>2. 0 * OutputRate = 0 /\ 0 * SourceRate = 0
      BY <1>2
    <3> QED
      BY <3>1, <3>2
  <2>4. RateIsKept'
    <3>1. rate_remainder' = 0 /\ stage' # "queue"
      BY <2>1, <2>2 DEF sound
    <3> QED
      BY <2>3, <3>1 DEF RateIsKept
  <2> QED
    BY <1>1, <2>1, <2>4 DEF RateInv, sound, Starting
<1>5. CASE Sound
  <2>1. /\ stage = "sound" /\ UNCHANGED <<thread_started, worker_failed, given>>
    BY <1>5 DEF Sound, audio
  <2>2. CASE UNCHANGED sound /\ stage' = "pace"
    BY <1>1, <2>1, <2>2 DEF sound, RateInv, RateIsKept, Starting
  <2>3. CASE \E n \in 0 .. MaxSource :
               /\ thread_started /\ ~worker_failed
               /\ Resample(n) /\ received' = received + n /\ stage' = "queue"
    <3>1. PICK n \in Nat :
            /\ thread_started /\ ~worker_failed
            /\ Resample(n) /\ received' = received + n /\ stage' = "queue"
      BY <2>3, EmulatorAssumption
    <3>2. /\ batch' \in Nat /\ rate_remainder' \in Nat
          /\ (n * OutputRate) + rate_remainder
               = (batch' * SourceRate) + rate_remainder'
      BY <1>2, <3>1, ResampleIsExact
    <3>3. received * OutputRate = (given * SourceRate) + rate_remainder
      BY <1>1, <1>2, <2>1, <3>1 DEF RateInv, RateIsKept
    <3>4. received' * OutputRate
            = ((given' + batch') * SourceRate) + rate_remainder'
      <4>1. received' = received + n /\ given' = given
        BY <2>1, <3>1
      <4>2. (received + n) * OutputRate
              = ((given + batch') * SourceRate) + rate_remainder'
        <5>1. PICK r \in Int, g \in Int, x \in Int, b \in Int, y \in Int :
                /\ r = received /\ g = given /\ x = rate_remainder
                /\ b = batch' /\ y = rate_remainder'
          BY <1>2, <3>2
        <5>2. r * OutputRate = (g * SourceRate) + x
          BY <3>3, <5>1
        <5>3. (n * OutputRate) + x = (b * SourceRate) + y
          BY <3>2, <5>1
        <5>4. (r + n) * OutputRate = ((g + b) * SourceRate) + y
          BY <1>2, <5>2, <5>3, AccountGoesOn
        <5> QED
          BY <5>1, <5>4
      <4> QED
        BY <4>1, <4>2
    <3>5. received' \in Nat
      BY <1>2, <3>1
    <3> QED
      BY <3>1, <3>2, <3>4, <3>5 DEF RateInv, RateIsKept, Starting
  <2> QED
    BY <1>5, <2>2, <2>3 DEF Sound
<1>6. CASE Queue
  <2>1. stage = "queue" /\ stage' = "pace" /\ UNCHANGED sound
    BY <1>6 DEF Queue
  <2>2. CASE batch > 0 /\ ~worker_failed
    <3>1. /\ given' = given + batch
          /\ UNCHANGED <<thread_started, worker_failed>>
      BY <1>6, <2>2 DEF Queue, Enqueue, Store
    <3>2. given' \in Nat /\ given' + 0 = given + batch
      BY <1>2, <3>1
    <3> QED
      BY <1>1, <2>1, <3>1, <3>2 DEF RateInv, RateIsKept, sound, Starting
  <2>3. CASE ~(batch > 0 /\ ~worker_failed)
    <3>1. UNCHANGED <<thread_started, worker_failed, given>>
      BY <1>6, <2>3 DEF Queue, audio
    <3>2. ~worker_failed => batch = 0
      BY <1>2, <2>3
    <3> QED
      BY <1>1, <2>1, <3>1, <3>2 DEF RateInv, RateIsKept, sound, Starting
  <2> QED
    BY <2>2, <2>3
<1>7. CASE CloseAudio /\ CloseDevice
  <2>1. /\ stage = "close" /\ stage' = "join" /\ UNCHANGED sound
        /\ UNCHANGED <<thread_started, worker_failed, given>>
    BY <1>7 DEF CloseAudio, CloseDevice, Move, Go
  <2> QED
    BY <1>1, <2>1 DEF RateInv, RateIsKept, sound, Starting
<1>8. CASE JoinAudio \/ Kill
  <2>1. stage' = "exited" /\ ~thread_started' /\ UNCHANGED sound
    BY <1>8 DEF JoinAudio, Join, Kill, Reset, Move, Go
  <2> QED
    BY <1>1, <2>1 DEF RateInv, RateIsKept, sound, Starting
<1>9. CASE Relaunch
  <2>1. ~thread_started' /\ batch' = 0 /\ rate_remainder' = 0 /\ received' = 0
    BY <1>1, <1>9 DEF Relaunch, audio, RateInv
  <2> QED
    BY <2>1 DEF RateInv, RateIsKept
<1>10. CASE \/ Signal \/ UNCHANGED emulatorVars
            \/ (Worker \/ SpuriousWakeup \/ WriteFails) /\ UNCHANGED front
  <2>1. UNCHANGED <<stage, sound, thread_started, given>>
    BY <1>10 DEF Signal, emulatorVars, audio, front, Worker, TakeChunk,
       WriteSome, MarkFailed, SpuriousWakeup, WriteFails
  <2>2. ~worker_failed' => ~worker_failed
    BY <1>10 DEF Signal, emulatorVars, audio, front, Worker, TakeChunk,
       WriteSome, MarkFailed, SpuriousWakeup, WriteFails
  <2> QED
    BY <1>1, <2>1, <2>2 DEF RateInv, RateIsKept, sound
<1> QED
  BY <1>3, <1>4, <1>5, <1>6, <1>7, <1>8, <1>9, <1>10, StepsOfAnEmulator

-----------------------------------------------------------------------------
\* What a front end saves, and that one whose core halts saves nothing.
LEMMA FrontEndSaves ==
  ASSUME ProgressInv
  PROVE  /\ frontend.saves \subseteq Memories
         /\ frontend.halts => frontend.saves = {}
         /\ SaveEvery \in Nat \ {0}
  BY EmulatorAssumption DEF ProgressInv

\* The place of a frame in its period is a number.
LEMMA PlaceInPeriod ==
  ASSUME ProgressInv
  PROVE  frames % SaveEvery \in Nat
<1>1. frames \in Nat /\ SaveEvery \in Nat \ {0}
  BY FrontEndSaves DEF ProgressInv
<1>2. \A a \in Nat, d \in Nat \ {0} : a % d \in Nat
  BY Division
<1> QED
  BY <1>1, <1>2, Zenon

\* A save file stands for a frame of the game.
LEMMA FrameIsNatural ==
  ASSUME NEW c \in Contents
  PROVE  Frame(c) \in Nat /\ (c \in Nat => Frame(c) = c)
  BY DEF Contents, Frame, Missing, Unusable, Legacy, CutLegacy, Mixed

\* What is read into a memory is not ahead of its file.
LEMMA LoadedIsNotAhead ==
  ASSUME ProgressInv, NEW m \in Memories, NEW v \in Loaded(m)
  PROVE  v \in Nat \cup {Mixed} /\ (v # Mixed => v <= Frame(files[m]))
<1>1. files[m] \in Contents /\ Frame(files[m]) \in Nat
  BY FrameIsNatural DEF ProgressInv
<1>2. CASE m \notin frontend.saves
  <2>1. files[m] = Missing
    BY <1>2 DEF ProgressInv
  <2>2. v = 0
    BY <1>2, <2>1 DEF Loaded, Legacy, CutLegacy, Missing
  <2> QED
    BY <1>1, <2>2
<1>3. CASE m \in frontend.saves /\ files[m] = Legacy
  BY <1>1, <1>3 DEF Loaded, Frame
<1>4. CASE m \in frontend.saves /\ files[m] \in {CutLegacy, Missing, Unusable}
  BY <1>1, <1>4
     DEF Loaded, Legacy, CutLegacy, Missing, Unusable, Mixed
<1>5. CASE m \in frontend.saves /\ files[m] \in Nat \cup {Mixed}
  <2>1. v \in {0, files[m], Mixed}
    BY <1>5 DEF Loaded, Legacy, CutLegacy, Missing, Unusable, Mixed
  <2>2. CASE files[m] \in Nat
    BY <1>1, <2>1, <2>2, FrameIsNatural
  <2>3. CASE files[m] = Mixed
    BY <1>1, <2>1, <2>3
  <2> QED
    BY <1>5, <2>2, <2>3
<1> QED
  BY <1>1, <1>2, <1>3, <1>4, <1>5 DEF Contents

\* Before the first frame nothing is missing in any file.
LEMMA StartKeepsProgress ==
  ASSUME ProgressInv, stage \in Starting \cup {"exited"},
         stage' \in Starting \cup {"load ram", "exited"},
         UNCHANGED <<frontend, frames, memory, files, unsaved>>,
         stage = "exited" => stage' = "exited"
  PROVE  ProgressInv'
  BY DEF ProgressInv, Starting

\* Main goes on within a frame, and to its end.
LEMMA FrameKeepsProgress ==
  ASSUME ProgressInv,
         stage \in {"picture", "sound", "queue", "pace"},
         stage' \in {"picture", "sound", "queue", "pace"},
         UNCHANGED <<frontend, frames, memory, files, unsaved>>
  PROVE  ProgressInv'
  BY DEF ProgressInv, Starting, Within

\* Nothing that matters to the save files happens.
LEMMA OtherKeepsProgress ==
  ASSUME ProgressInv,
         UNCHANGED <<frontend, frames, memory, files, unsaved>>,
         stage' \in {stage, "exited"} \/ (stage = "close" /\ stage' = "join")
  PROVE  ProgressInv'
  BY DEF ProgressInv, Starting, Within, Written

\* A save file is read.
LEMMA LoadKeepsProgress ==
  ASSUME ProgressInv,
         \/ Load("load ram", "ram", "load rtc")
         \/ Load("load rtc", "rtc", "loop")
  PROVE  ProgressInv'
<1>1. /\ UNCHANGED <<frontend, frames, files, unsaved>>
      /\ frames = 0 /\ SaveEvery \in Nat \ {0}
      /\ frontend.saves \subseteq Memories
      /\ memory \in [Memories -> Nat \cup {Mixed}]
  BY FrontEndSaves DEF Load, ProgressInv
<1>2. frames % SaveEvery \in Nat /\ frames' % SaveEvery = frames % SaveEvery
  <2>2. frames % SaveEvery \in Nat
    BY PlaceInPeriod
  <2>3. frames' = frames
    BY <1>1
  <2>4. frames' % SaveEvery = frames % SaveEvery
    BY <2>3, Zenon
  <2> QED
    BY <2>2, <2>4, Zenon
<1>3. \A m \in Memories : files[m] \in Contents /\ Frame(files[m]) \in Nat
  BY FrameIsNatural DEF ProgressInv
<1>4. CASE Load("load ram", "ram", "load rtc")
  <2>1. PICK v \in Loaded("ram") : memory' = [memory EXCEPT !["ram"] = v]
    BY <1>4 DEF Load
  <2>2. /\ v \in Nat \cup {Mixed} /\ (v # Mixed => v <= Frame(files["ram"]))
    BY LoadedIsNotAhead DEF Memories
  <2>3. /\ stage = "load ram" /\ stage' = "load rtc"
        /\ memory["rtc"] = 0
    BY <1>4 DEF Load, ProgressInv, Memories
  <2>4. memory' \in [Memories -> Nat \cup {Mixed}]
    BY <1>1, <2>1, <2>2
  <2>5. memory'["ram"] = v /\ memory'["rtc"] = 0
    BY <1>1, <2>1, <2>3 DEF Memories
  <2>6. \A m \in Memories :
          memory'[m] # Mixed => memory'[m] <= Frame(files[m]) + (frames % SaveEvery)
    <3>1. \A m \in Memories :
            memory'[m] # Mixed =>
              memory'[m] \in Nat /\ memory'[m] <= Frame(files[m])
      <4>1. memory'["ram"] # Mixed =>
              memory'["ram"] \in Nat /\ memory'["ram"] <= Frame(files["ram"])
        BY <2>2, <2>5
      <4>2. Frame(files["rtc"]) \in Nat
        BY <1>3 DEF Memories
      <4>3. memory'["rtc"] \in Nat /\ memory'["rtc"] <= Frame(files["rtc"])
        BY <2>5, <4>2, NoSlack, Zenon
      <4> QED
        BY <4>1, <4>3 DEF Memories
    <3> QED
      BY <1>2, <1>3, <3>1, NotAhead, Zenon
  <2> QED
    BY <1>1, <1>2, <2>3, <2>4, <2>5, <2>6 DEF ProgressInv, Starting, Within
<1>5. CASE Load("load rtc", "rtc", "loop")
  <2>1. PICK v \in Loaded("rtc") : memory' = [memory EXCEPT !["rtc"] = v]
    BY <1>5 DEF Load
  <2>2. v \in Nat \cup {Mixed} /\ (v # Mixed => v <= Frame(files["rtc"]))
    BY LoadedIsNotAhead DEF Memories
  <2>3. stage = "load rtc" /\ stage' = "loop"
    BY <1>5 DEF Load
  <2>4. memory' \in [Memories -> Nat \cup {Mixed}]
    BY <1>1, <2>1, <2>2
  <2>5. memory'["ram"] = memory["ram"] /\ memory'["rtc"] = v
    BY <1>1, <2>1 DEF Memories
  <2>6. \A m \in frontend.saves \ unsaved :
          memory'[m] # Mixed => memory'[m] <= Frame(files[m]) + (frames % SaveEvery)
    <3>1. "ram" \in frontend.saves \ unsaved /\ memory["ram"] # Mixed =>
            memory["ram"] <= Frame(files["ram"]) + (frames % SaveEvery)
      BY <2>3 DEF ProgressInv, Within
    <3>2. v # Mixed => v <= Frame(files["rtc"]) + (frames % SaveEvery)
      <4>1. v # Mixed => v \in Nat /\ v <= Frame(files["rtc"])
        BY <2>2
      <4> QED
        BY <1>2, <1>3, <4>1, NotAhead, Zenon DEF Memories
    <3> QED
      BY <1>1, <2>5, <3>1, <3>2 DEF Memories
  <2> QED
    BY <1>1, <1>2, <2>3, <2>4, <2>6 DEF ProgressInv, Starting, Within
<1> QED
  BY <1>4, <1>5

\* A frame of the game adds one to what is missing.
LEMMA RunFrameKeepsProgress ==
  ASSUME ProgressInv, RunFrame
  PROVE  ProgressInv'
<1>1. /\ stage = "loop" /\ frames' = frames + 1
      /\ UNCHANGED <<frontend, files, unsaved>>
      /\ memory' = [m \in Memories |->
                      IF memory[m] = Mixed \/ m \notin frontend.saves
                        THEN memory[m] ELSE memory[m] + 1]
  BY DEF RunFrame
<1>2. /\ stage' \in {"picture", "sound", "close"}
      /\ stage' = "close" => frontend.halts
  BY DEF RunFrame, ShowPicture, VideoFails, WithoutPicture
<1>3. /\ frontend.saves \subseteq Memories
      /\ frontend.halts => frontend.saves = {}
      /\ SaveEvery \in Nat \ {0} /\ frames \in Nat
      /\ memory \in [Memories -> Nat \cup {Mixed}]
  BY FrontEndSaves DEF ProgressInv
<1>4. frames % SaveEvery \in Nat /\ frames' - 1 = frames /\ frames' > 0
  BY <1>1, <1>3, Division
<1>5. memory' \in [Memories -> Nat \cup {Mixed}]
  BY <1>1, <1>3 DEF Mixed
<1>6. \A m \in frontend.saves \ unsaved :
        memory'[m] # Mixed =>
          memory'[m] <= Frame(files[m]) + (((frames' - 1) % SaveEvery) + 1)
  <2> SUFFICES ASSUME NEW m \in frontend.saves \ unsaved, memory'[m] # Mixed
               PROVE  memory'[m] <= Frame(files[m]) + ((frames % SaveEvery) + 1)
    BY <1>4
  <2>1. m \in Memories /\ memory[m] # Mixed /\ memory'[m] = memory[m] + 1
    BY <1>1, <1>3
  <2>2. memory[m] <= Frame(files[m]) + (frames % SaveEvery)
    BY <1>1, <2>1 DEF ProgressInv, Within
  <2>3. Frame(files[m]) \in Nat /\ memory[m] \in Nat
    BY <1>3, <2>1, FrameIsNatural DEF ProgressInv
  <2> QED
    BY <1>4, <2>1, <2>2, <2>3
<1>7. \A m \in frontend.saves \ unsaved :
        /\ stage' # "close"
        /\ Within(m, ((frames - 1) % SaveEvery) + 1)'
  BY <1>1, <1>2, <1>3, <1>6 DEF Within
<1>8. frontend' \in FrontEnds /\ files' \in [Memories -> Contents]
      /\ \A m \in Memories \ frontend'.saves : files'[m] = Missing
  BY <1>1 DEF ProgressInv
<1>9. frames' \in Nat
  BY <1>1, <1>3
<1>10. /\ stage' \notin Starting /\ stage' \notin {"load ram", "load rtc"}
       /\ stage' \notin {"loop", "save ram", "save rtc", "final rtc", "join"}
  BY <1>2 DEF Starting
<1>11. \A m \in (frontend.saves \ unsaved)' :
         /\ stage' # "close"
         /\ Within(m, ((frames - 1) % SaveEvery) + 1)'
  BY <1>1, <1>7
<1> QED
  BY <1>4, <1>5, <1>8, <1>9, <1>10, <1>11 DEF ProgressInv

\* The period is over or goes on.
LEMMA PaceKeepsProgress ==
  ASSUME ProgressInv, Pace
  PROVE  ProgressInv'
<1>1. /\ stage = "pace"
      /\ UNCHANGED <<frontend, frames, memory, files, unsaved>>
      /\ stage' = IF SaveDue /\ frontend.saves # {} THEN "save ram" ELSE "loop"
  BY DEF Pace, Move, Go, game
<1>2. frames \in Nat \ {0} /\ SaveEvery \in Nat \ {0}
  <2>1. frames \in Nat /\ frames > 0
    BY <1>1 DEF ProgressInv
  <2> QED
    BY <2>1, FrontEndSaves
<1>3. CASE SaveDue /\ frontend.saves # {}
  BY <1>1, <1>3 DEF SaveDue, ProgressInv, Starting
<1>4. CASE frontend.saves = {}
  BY <1>1, <1>4 DEF ProgressInv, Starting
<1>5. CASE ~SaveDue
  <2>1. ((frames - 1) % SaveEvery) + 1 = frames % SaveEvery
    BY <1>2, <1>5, SamePeriod DEF SaveDue
  <2> QED
    BY <1>1, <1>5, <2>1 DEF ProgressInv, Starting, Within
<1> QED
  BY <1>3, <1>4, <1>5

\* A save writes what the memory holds, or is noted as failed.
LEMMA SaveKeepsProgress ==
  ASSUME ProgressInv,
         \/ Save("save ram", "ram", "save rtc")
         \/ Save("save rtc", "rtc", "loop")
         \/ Save("final ram", "ram", "final rtc")
         \/ Save("final rtc", "rtc", "close")
  PROVE  ProgressInv'
<1>1. PICK from \in {"save ram", "save rtc", "final ram", "final rtc"},
           m \in Memories, next \in {"save rtc", "loop", "final rtc", "close"} :
        /\ Save(from, m, next)
        /\ \/ from = "save ram" /\ m = "ram" /\ next = "save rtc"
           \/ from = "save rtc" /\ m = "rtc" /\ next = "loop"
           \/ from = "final ram" /\ m = "ram" /\ next = "final rtc"
           \/ from = "final rtc" /\ m = "rtc" /\ next = "close"
  BY DEF Memories
<1>2. stage = from /\ stage' = next /\ UNCHANGED <<frontend, frames, memory>>
  BY <1>1 DEF Save, game
<1>3. /\ frontend.saves \subseteq Memories /\ SaveEvery \in Nat \ {0}
      /\ memory \in [Memories -> Nat \cup {Mixed}]
      /\ files \in [Memories -> Contents] /\ frames \in Nat
  BY FrontEndSaves DEF ProgressInv
<1>4. files' \in [Memories -> Contents]
  BY <1>1, <1>3 DEF Save, Contents
<1>5. \A n \in Memories \ {m} :
        files'[n] = files[n] /\ (n \in unsaved' <=> n \in unsaved)
  BY <1>1, <1>3 DEF Save
<1>6. m \in frontend.saves \ unsaved' => memory'[m] = files'[m]
  BY <1>1, <1>2, <1>3 DEF Save
<1>7. ASSUME NEW n \in frontend.saves \ unsaved', next \in {"loop", "close"}
      PROVE  memory'[n] # Mixed => memory'[n] = files'[n]
  <2>1. CASE n = m
    BY <1>6, <2>1
  <2>2. CASE n # m
    <3>1. n \in Memories \ {m} /\ n \in frontend.saves \ unsaved
      BY <1>3, <1>5, <1>7, <2>2
    <3>2. n = "ram" /\ stage \in {"save rtc", "final rtc"}
      BY <1>1, <1>2, <1>7, <3>1 DEF Memories
    <3>3. memory[n] # Mixed => memory[n] = files[n]
      BY <3>1, <3>2 DEF ProgressInv, Written
    <3> QED
      BY <1>2, <1>5, <3>1, <3>3
  <2> QED
    BY <2>1, <2>2
<1>8. ASSUME next = "loop", NEW n \in frontend.saves \ unsaved',
             memory'[n] # Mixed
      PROVE  memory'[n] <= Frame(files'[n]) + (frames' % SaveEvery)
  <2>1. frames' % SaveEvery = 0
    BY <1>1, <1>2, <1>8 DEF ProgressInv
  <2>2. memory'[n] = files'[n] /\ memory'[n] \in Nat /\ files'[n] \in Contents
    BY <1>2, <1>3, <1>4, <1>7, <1>8
  <2>3. files'[n] \in Nat
    BY <2>2
  <2>4. Frame(files'[n]) = memory'[n] /\ Frame(files'[n]) \in Nat
    BY <2>2, <2>3, FrameIsNatural
  <2>5. memory'[n] <= memory'[n] + 0
    BY <2>2, NoSlack, Zenon
  <2> QED
    BY <2>1, <2>4, <2>5, Zenon
<1>9. next \in {"save rtc", "final rtc"} =>
        ("ram" \in frontend.saves \ unsaved' => memory'["ram"] = files'["ram"])
  BY <1>1, <1>6
<1>10. next = "save rtc" => frames' % SaveEvery = 0
  BY <1>1, <1>2 DEF ProgressInv
<1>11. frontend' \in FrontEnds /\ frames' \in Nat
       /\ memory' \in [Memories -> Nat \cup {Mixed}]
  BY <1>2, <1>3 DEF ProgressInv
<1>12. \A n \in Memories \ frontend'.saves : files'[n] = Missing
  BY <1>1, <1>2, <1>5 DEF ProgressInv, Save
<1>13. stage' \in {"save rtc", "loop", "final rtc", "close"}
  BY <1>2
<1>14. \A n \in (frontend.saves \ unsaved)' :
         /\ stage' = "loop" => Within(n, frames % SaveEvery)'
         /\ stage' \in {"save rtc", "final rtc"} /\ n = "ram" => Written(n)'
         /\ stage' = "close" => Written(n)'
  <2> SUFFICES ASSUME NEW n \in frontend.saves \ unsaved'
               PROVE  /\ stage' = "loop" => Within(n, frames % SaveEvery)'
                      /\ stage' \in {"save rtc", "final rtc"} /\ n = "ram"
                           => Written(n)'
                      /\ stage' = "close" => Written(n)'
    BY <1>2
  <2>1. stage' = "loop" => Within(n, frames % SaveEvery)'
    BY <1>2, <1>8, Zenon DEF Within
  <2>2. stage' \in {"save rtc", "final rtc"} /\ n = "ram" => Written(n)'
    BY <1>2, <1>9 DEF Written
  <2>3. stage' = "close" => Written(n)'
    BY <1>2, <1>7 DEF Written
  <2> QED
    BY <2>1, <2>2, <2>3
<1>15. stage' = "save rtc" => frames' % SaveEvery = 0
  BY <1>2, <1>10, Zenon
<1> QED
  BY <1>4, <1>11, <1>12, <1>13, <1>14, <1>15, Zenon
     DEF ProgressInv, Starting

\* Outside the loop and the saves no step touches what they account for.
LEMMA AsideKeepsProgress ==
  ASSUME ProgressInv,
         \/ Sound \/ Queue \/ PublishPicture \/ Leave \/ CloseAudio \/ JoinAudio
         \/ Signal \/ Kill
  PROVE  ProgressInv'
<1>1. CASE Sound \/ Queue \/ PublishPicture
  <2>1. /\ stage \in {"picture", "sound", "queue"}
        /\ stage' \in {"picture", "sound", "queue", "pace"}
        /\ UNCHANGED <<frontend, frames, memory, files, unsaved>>
    BY <1>1 DEF Sound, Queue, PublishPicture, Go, game
  <2> QED
    BY <2>1, FrameKeepsProgress
<1>2. CASE Leave
  <2>1. /\ stage = "loop"
        /\ UNCHANGED <<frontend, frames, memory, files, unsaved>>
        /\ \/ stage' = "close" /\ frontend.saves = {}
           \/ stage' = "final ram"
    BY <1>2 DEF Leave, Move, Go, game
  <2> QED
    BY <2>1 DEF ProgressInv, Starting
<1>3. CASE CloseAudio \/ JoinAudio \/ Signal \/ Kill
  <2>1. /\ UNCHANGED <<frontend, frames, memory, files, unsaved>>
        /\ \/ stage' \in {stage, "exited"}
           \/ stage = "close" /\ stage' = "join"
    BY <1>3 DEF CloseAudio, JoinAudio, Signal, Kill, Move, Go, game
  <2> QED
    BY <2>1, OtherKeepsProgress
<1> QED
  BY <1>1, <1>2, <1>3

\* Every step keeps the account of the save files.
LEMMA ProgressInvNext ==
  ASSUME FrontInv, [EmulatorNext]_emulatorVars
  PROVE  ProgressInv'
<1>1. ProgressInv
  BY DEF FrontInv
<1>2. CASE \/ ReadRom \/ ReadConfig \/ LoadGame \/ FailToLoad \/ OpenScreen
           \/ NoScreen \/ ReadVolume \/ OpenAudio
  <2>1. /\ stage \in Starting /\ stage' \in Starting \cup {"load ram", "exited"}
        /\ UNCHANGED <<frontend, frames, memory, files, unsaved>>
    BY <1>2 DEF ReadRom, ReadConfig, LoadGame, FailToLoad, OpenScreen, NoScreen,
       ReadVolume, OpenAudio, Attempt, Move, Go, Starting, game
  <2>2. stage # "exited"
    BY <2>1 DEF Starting
  <2> QED
    BY <1>1, <2>1, <2>2, StartKeepsProgress
<1>3. CASE Relaunch
  <2>1. /\ UNCHANGED <<frontend, files>> /\ stage' = "rom" /\ frames' = 0
        /\ memory' = [m \in Memories |-> 0]
    BY <1>3 DEF Relaunch
  <2> QED
    BY <1>1, <2>1 DEF ProgressInv, Starting
<1>4. CASE \/ (Worker \/ SpuriousWakeup \/ WriteFails) /\ UNCHANGED front
           \/ UNCHANGED emulatorVars
  <2>1. UNCHANGED <<stage, frontend, frames, memory, files, unsaved>>
    BY <1>4 DEF front, emulatorVars, game
  <2> QED
    BY <1>1, <2>1, OtherKeepsProgress
<1>5. CASE Main
  BY <1>1, <1>2, <1>5, LoadKeepsProgress, RunFrameKeepsProgress,
     PaceKeepsProgress, SaveKeepsProgress, AsideKeepsProgress DEF Main
<1>6. CASE Signal \/ Kill
  BY <1>1, <1>6, AsideKeepsProgress
<1> QED
  BY <1>3, <1>4, <1>5, <1>6 DEF EmulatorNext

-----------------------------------------------------------------------------
\* A new process: no device, nothing played, nothing read.
LEMMA FrontInvInit == EmulatorInit => FrontInv
<1> SUFFICES ASSUME EmulatorInit
             PROVE  FrontInv
  OBVIOUS
<1>1. AudioInv
  BY AudioInvInit DEF EmulatorInit
<1>2. RateInv
  <2>1. /\ ~thread_started /\ stage = "rom"
        /\ batch = 0 /\ rate_remainder = 0 /\ received = 0
    BY DEF EmulatorInit, Init
  <2> QED
    BY <2>1 DEF RateInv, RateIsKept
<1>3. ProgressInv
  <2>1. /\ frontend \in FrontEnds /\ frames = 0 /\ stage = "rom"
        /\ memory = [m \in Memories |-> 0]
    BY DEF EmulatorInit
  <2>2. /\ files \in [Memories -> Contents]
        /\ \A m \in Memories \ frontend.saves : files[m] = Missing
    BY DEF EmulatorInit, Contents
  <2> QED
    BY <2>1, <2>2 DEF ProgressInv, Starting
<1> QED
  BY <1>1, <1>2, <1>3 DEF FrontInv

\* Audio, resampling and save files hold together in every state.
THEOREM FrontInvariant == EmulatorSpec => []FrontInv
<1>1. FrontInv /\ [EmulatorNext]_emulatorVars => FrontInv'
  BY AudioInvNext, RateInvNext, ProgressInvNext DEF FrontInv
<1> QED
  BY <1>1, FrontInvInit, PTL DEF EmulatorSpec

\* The account of the save files bounds what a killed game loses.
LEMMA ProgressIsBounded == ProgressInv => ProgressIsKept
<1> SUFFICES ASSUME ProgressInv, NEW m \in frontend.saves \ unsaved,
                    memory[m] # Mixed
             PROVE  /\ stage \in {"loop", "sound", "queue", "pace"} =>
                         memory[m] - Frame(files[m]) <= SaveEvery
                    /\ stage \in {"close", "join"} => memory[m] = files[m]
  BY DEF ProgressIsKept
<1>1. /\ SaveEvery \in Nat \ {0} /\ m \in Memories /\ frames \in Nat
      /\ memory[m] \in Nat /\ Frame(files[m]) \in Nat
  BY FrontEndSaves, FrameIsNatural DEF ProgressInv
<1>2. ASSUME stage = "loop"
      PROVE  memory[m] - Frame(files[m]) <= SaveEvery
  <2>1. memory[m] <= Frame(files[m]) + (frames % SaveEvery)
    BY <1>2 DEF ProgressInv, Within
  <2> QED
    BY <1>1, <2>1, RestIsLess, Zenon
<1>3. ASSUME stage \in {"sound", "queue", "pace"}
      PROVE  memory[m] - Frame(files[m]) <= SaveEvery
  <2>1. memory[m] <= Frame(files[m]) + (((frames - 1) % SaveEvery) + 1)
    BY <1>3 DEF ProgressInv, Within
  <2>2. frames - 1 \in Nat
    <3>1. frames > 0
      BY <1>3 DEF ProgressInv
    <3> QED
      BY <1>1, <3>1
  <2> QED
    BY <1>1, <2>1, <2>2, RestIsLess, Zenon
<1>4. stage \in {"close", "join"} => memory[m] = files[m]
  BY DEF ProgressInv, Written
<1> QED
  BY <1>2, <1>3, <1>4

\* The audio ring's counters agree and no wakeup is lost, a game loses at most
\* the frames of one period (libretro_deck.cpp:613), and resampling neither
\* loses nor invents a frame of sound.
THEOREM EmulatorIsSound == EmulatorSpec => []EmulatorInv
<1>1. FrontInv => EmulatorInv
  BY ProgressIsBounded
     DEF FrontInv, AudioInv, RateInv, EmulatorInv, QueueInv
<1> QED
  BY <1>1, FrontInvariant, PTL


-----------------------------------------------------------------------------
(***************************************************************************)
(* The panel, pixel by pixel.  Both ways to fill the buffer put the same   *)
(* dot at a place of the panel, and so does the reference; what the panel  *)
(* shows while rows are copied follows place by place.                     *)
(***************************************************************************)

\* A place of the panel, counted from the corner of a picture of this size.
Across(size, p) == PhysicalHeight - 1 - p[1] - Layout(size).x
Down(size, p) == p[2] - Layout(size).y

\* Along one direction: a is on one of w dots enlarged s times; on dot x.
OnPicture(s, w, a) == a \in 0 .. s * w - 1
OnDot(s, x, a) == \E k \in 0 .. s - 1 : a = x * s + k

Covers(size, p) ==
  /\ OnPicture(Layout(size).scale, size[1], Across(size, p))
  /\ OnPicture(Layout(size).scale, size[2], Down(size, p))

\* What picture number n puts there.
Dot(n, size, p) ==
  IF Covers(size, p)
    THEN <<n, Across(size, p) \div Layout(size).scale,
           Down(size, p) \div Layout(size).scale>>
    ELSE Black

Hinted(p) == exit_hint /\ <<PhysicalHeight - 1 - p[1], p[2]>> \in HintPixels

\* The rows before this one hold the new picture.
NextRow ==
  PhysicalHeight - Layout(last_source).x - Layout(last_source).width + publishing

\* A place of the panel between two pictures of one size.
MemoryShows(p) ==
  IF publishing = Published
    THEN memory_[p] = IF Hinted(p) THEN Hint ELSE Dot(picture, last_source, p)
    ELSE /\ memory_[p] \in {Dot(picture, last_source, p),
                            Dot(picture - 1, last_source, p), Hint, Black}
         /\ memory_[p] = Hint => Hinted(p)
         /\ ~Covers(last_source, p) => memory_[p] \in {Hint, Black}
         /\ Covers(last_source, p) /\ p[1] < NextRow =>
              memory_[p] = Dot(picture, last_source, p)

\* The buffer always holds the whole picture, and the panel's rows follow it.
PictureInv ==
  /\ picture \in Nat
  /\ picture = 0 =>
       /\ last_source = <<0, 0>> /\ publishing = Published
       /\ memory_ \in {Unmapped, Blank}
  /\ picture > 0 =>
       /\ last_source \in Nat \X Nat /\ Fits(last_source)
       /\ publishing \in {Published} \cup 0 .. Layout(last_source).width
       /\ frame_ = [p \in Panel |-> Dot(picture, last_source, p)]
       /\ \A p \in Panel : MemoryShows(p)

-----------------------------------------------------------------------------
\* Multiplication keeps order.
LEMMA TimesKeepsOrder ==
  ASSUME NEW a \in Nat, NEW b \in Nat, NEW d \in Nat, a <= b
  PROVE  a * d \in Nat /\ b * d \in Nat /\ a * d <= b * d
<1>1. b * d = a * d + (b - a) * d
  OBVIOUS
<1>2. (b - a) * d \in Nat /\ a * d \in Nat /\ b * d \in Nat
  OBVIOUS
<1> QED
  BY <1>1, <1>2

\* A quotient is the number of times the divisor fits.
LEMMA FitsTimes ==
  ASSUME NEW u \in Nat, NEW w \in Nat \ {0}, NEW s \in Nat
  PROVE  s * w <= u <=> s <= u \div w
<1>1. PICK q \in Nat, r \in 0 .. w - 1 : q = u \div w /\ u = (q * w) + r
  BY Division
<1>2. ASSUME s <= q
      PROVE  s * w <= u
  <2>1. s * w <= q * w /\ q * w \in Nat /\ s * w \in Nat
    BY <1>2, TimesKeepsOrder
  <2> QED
    BY <1>1, <2>1
<1>3. ASSUME ~(s <= q)
      PROVE  s * w > u
  <2>1. (q + 1) * w <= s * w /\ (q + 1) * w \in Nat /\ s * w \in Nat
    BY <1>3, TimesKeepsOrder
  <2>2. (q + 1) * w = q * w + w /\ q * w \in Nat
    OBVIOUS
  <2> QED
    BY <1>1, <2>1, <2>2
<1>4. s * w \in Nat
  OBVIOUS
<1> QED
  BY <1>1, <1>2, <1>3, <1>4

\* The usable part of the display is not empty and lies inside it.
LEMMA UsableSize ==
  /\ LogicalWidth \in Nat \ {0} /\ LogicalHeight \in Nat \ {0}
  /\ PhysicalWidth \in Nat \ {0} /\ LogicalHeight <= PhysicalWidth
  /\ usable_width \in Nat \ {0} /\ usable_height \in Nat \ {0}
  /\ usable_width <= LogicalWidth /\ usable_height <= LogicalHeight
  BY PictureAssumption DEF usable_width, usable_height

\* The scale of a picture that fits is the largest at which it still does, and
\* the picture lies on the display.
LEMMA LayoutFits ==
  ASSUME NEW size \in Nat \X Nat, Fits(size), NEW layout, layout = Layout(size)
  PROVE  /\ size[1] \in Nat \ {0} /\ size[2] \in Nat \ {0}
         /\ layout.scale \in Nat \ {0} /\ layout.scale = Scale(size)
         /\ layout.width = layout.scale * size[1] /\ layout.width \in Nat
         /\ layout.height = layout.scale * size[2] /\ layout.height \in Nat
         /\ layout.x = (LogicalWidth - layout.width) \div 2 /\ layout.x \in Nat
         /\ layout.y = (LogicalHeight - layout.height) \div 2 /\ layout.y \in Nat
         /\ layout.x + layout.width <= LogicalWidth
         /\ layout.y + layout.height <= LogicalHeight
<1> DEFINE w == size[1]
           h == size[2]
           U == usable_width
           V == usable_height
           s == layout.scale
<1>1. /\ U \in Nat \ {0} /\ V \in Nat \ {0} /\ w \in 1 .. U /\ h \in 1 .. V
      /\ U <= LogicalWidth /\ V <= LogicalHeight
      /\ LogicalWidth \in Nat /\ LogicalHeight \in Nat
  BY UsableSize DEF Fits
<1>3. /\ s = IF U \div w < V \div h THEN U \div w ELSE V \div h
      /\ layout.width = w * s /\ layout.height = h * s
      /\ layout.x = (LogicalWidth - w * s) \div 2
      /\ layout.y = (LogicalHeight - h * s) \div 2
  BY DEF Layout
<1> HIDE DEF w, h, U, V, s
<1>2. U \div w \in Nat /\ V \div h \in Nat
  <2>1. w \in Nat \ {0} /\ h \in Nat \ {0} /\ U \in Nat /\ V \in Nat
    BY <1>1
  <2> QED
    BY <2>1, Division
<1>4. s \in Nat /\ \A n \in Nat : n * w <= U /\ n * h <= V <=> n <= s
  <2>1. \A n \in Nat : (n * w <= U <=> n <= U \div w) /\ (n * h <= V <=> n <= V \div h)
    BY <1>1, FitsTimes
  <2>2. ASSUME NEW a \in Nat, NEW b \in Nat, NEW n \in Nat
        PROVE  n <= a /\ n <= b <=> n <= IF a < b THEN a ELSE b
    OBVIOUS
  <2> QED
    BY <1>2, <1>3, <2>1, <2>2
<1>5. s # 0
  <2>1. 1 * w <= U /\ 1 * h <= V
    BY <1>1
  <2> QED
    BY <1>4, <2>1
<1>6. s * w <= U /\ s * h <= V /\ s * w \in Nat /\ s * h \in Nat
  BY <1>1, <1>4
<1>7. s \in 1 .. LogicalWidth
  <2>1. s * 1 <= s * w
    <3>1. 1 * s <= w * s
      BY <1>1, <1>4, TimesKeepsOrder
    <3> QED
      BY <1>1, <1>4, <3>1
  <2> QED
    BY <1>1, <1>4, <1>5, <1>6, <2>1
<1>8. Scale(size) = s
  <2> DEFINE Is(n) == /\ n * w <= U /\ n * h <= V
                      /\ (n + 1) * w > U \/ (n + 1) * h > V
  <2>1. ASSUME NEW n \in Nat
        PROVE  Is(n) <=> n = s
    <3>1. /\ n * w \in Nat /\ n * h \in Nat
          /\ (n + 1) * w \in Nat /\ (n + 1) * h \in Nat
      BY <1>1
    <3>2. n * w <= U /\ n * h <= V <=> n <= s
      BY <1>4
    <3>3. (n + 1) * w <= U /\ (n + 1) * h <= V <=> n + 1 <= s
      BY <1>4
    <3> QED
      BY <1>1, <1>4, <3>1, <3>2, <3>3
  <2>2. Scale(size) = CHOOSE n \in 1 .. LogicalWidth : Is(n)
    BY DEF Scale, w, h, U, V
  <2> HIDE DEF Is
  <2>3. \A n \in 1 .. LogicalWidth : Is(n) <=> n = s
    BY <1>1, <2>1
  <2> QED
    BY <1>7, <2>2, <2>3
<1>9. w * s = s * w /\ h * s = s * h
  BY <1>1, <1>4
<1>10. ASSUME NEW a \in Nat, NEW b \in Nat, b <= a
       PROVE  /\ (a - b) \div 2 \in Nat
              /\ ((a - b) \div 2) + b <= a
  <2>1. a - b \in Nat
    BY <1>10
  <2>2. ASSUME NEW c \in Nat
        PROVE  c \div 2 \in Nat /\ c \div 2 <= c
    <3>1. 2 \in Nat \ {0}
      OBVIOUS
    <3>2. PICK q \in Nat, r \in 0 .. 2 - 1 : q = c \div 2 /\ c = (q * 2) + r
      BY <3>1, Division, ZenonT(30)
    <3> QED
      BY <3>2
  <2> QED
    BY <1>10, <2>1, <2>2
<1>11. s * w <= LogicalWidth /\ s * h <= LogicalHeight
  BY <1>1, <1>6
<1> QED
  BY <1>1, <1>3, <1>4, <1>5, <1>6, <1>8, <1>9, <1>10, <1>11 DEF w, h, s

\* Along one direction a dot enlarged s times covers the places that a division
\* by s maps to it, and these are the places of the picture.
LEMMA OneDirection ==
  ASSUME NEW s \in Nat \ {0}, NEW w \in Nat, NEW a \in Int
  PROVE  /\ OnPicture(s, w, a) => a \div s \in 0 .. w - 1
         /\ \A x \in 0 .. w - 1 :
              OnDot(s, x, a) <=> OnPicture(s, w, a) /\ x = a \div s
<1>1. s * w \in Nat /\ s * w = w * s
  OBVIOUS
<1>2. ASSUME a \in 0 .. s * w - 1
      PROVE  a \div s \in 0 .. w - 1
  <2>1. PICK q \in Nat, r \in 0 .. s - 1 : q = a \div s /\ a = (q * s) + r
    BY <1>1, <1>2, Division
  <2>2. ASSUME w <= q
        PROVE  FALSE
    <3>1. w * s <= q * s /\ q * s \in Nat
      BY <2>2, TimesKeepsOrder
    <3> QED
      BY <1>1, <1>2, <2>1, <3>1
  <2> QED
    BY <2>1, <2>2
<1>3. ASSUME NEW x \in 0 .. w - 1, NEW d \in 0 .. s - 1, a = x * s + d
      PROVE  a \in 0 .. s * w - 1 /\ x = a \div s
  <2>1. (x + 1) * s <= w * s /\ (x + 1) * s \in Nat
    BY TimesKeepsOrder
  <2>2. (x + 1) * s = x * s + s /\ x * s \in Nat
    OBVIOUS
  <2>3. a \in 0 .. s * w - 1
    BY <1>1, <1>3, <2>1, <2>2
  <2>4. PICK q \in Nat, r \in 0 .. s - 1 : q = a \div s /\ a = (q * s) + r
    BY <1>1, <2>3, Division
  <2>5. (q - x) * s = q * s - x * s /\ q * s \in Nat
    OBVIOUS
  <2>6. (q - x) * s = d - r
    BY <1>3, <2>2, <2>4, <2>5
  <2>7. q - x = 0
    BY <2>4, <2>6, NoMultiple
  <2> QED
    BY <2>3, <2>4, <2>7
<1>4. ASSUME NEW x \in 0 .. w - 1, a \in 0 .. s * w - 1, x = a \div s
      PROVE  \E d \in 0 .. s - 1 : a = x * s + d
  <2>1. a \in Nat
    BY <1>1, <1>4
  <2>2. PICK q \in Nat, r \in 0 .. s - 1 : q = a \div s /\ a = (q * s) + r
    BY <2>1, Division
  <2> QED
    BY <1>4, <2>2
<1> QED
  BY <1>2, <1>3, <1>4 DEF OnPicture, OnDot

\* Both ways to fill the buffer put the same dot at every place of the panel.
LEMMA BothWaysAreAlike ==
  ASSUME NEW size \in Nat \X Nat, Fits(size), NEW n, NEW staged, NEW p \in Panel
  PROVE  LET dot == IF Covers(size, p) THEN Dot(n, size, p) ELSE staged[p]
         IN /\ ByPixel(size, Layout(size), n, staged)[p] = dot
            /\ ByRow(size, Layout(size), n, staged)[p] = dot
<1> DEFINE layout == Layout(size)
           s == layout.scale
           w == size[1]
           h == size[2]
           a == Across(size, p)
           d == Down(size, p)
<1>1. /\ w \in Nat /\ h \in Nat /\ s \in Nat \ {0}
      /\ layout.width = s * w /\ layout.height = s * h
      /\ layout.x \in Nat /\ layout.y \in Nat
  BY LayoutFits
<1>2. p[1] \in Nat /\ p[2] \in Nat /\ p = <<p[1], p[2]>> /\ PhysicalHeight \in Nat
  BY UsableSize DEF Panel, PhysicalHeight
<1>3. /\ a = PhysicalHeight - 1 - p[1] - layout.x /\ a \in Int
      /\ d = p[2] - layout.y /\ d \in Int
  BY <1>1, <1>2 DEF Across, Down
<1>4. Covers(size, p) <=> OnPicture(s, w, a) /\ OnPicture(s, h, d)
  BY DEF Covers
<1>5. Covers(size, p) => Dot(n, size, p) = <<n, a \div s, d \div s>>
  BY DEF Dot
<1>6. ByPixel(size, layout, n, staged)[p] =
        LET from == {t \in (0 .. w - 1) \X (0 .. h - 1) :
                       p \in Enlarged(layout, t[1], t[2])}
        IN IF from = {} THEN staged[p]
           ELSE LET t == CHOOSE t \in from : TRUE IN <<n, t[1], t[2]>>
  BY DEF ByPixel
<1>7. ByRow(size, layout, n, staged)[p] =
        LET from == {x \in 0 .. w - 1 : \E repeated \in 0 .. s - 1 :
                       p[1] = ColumnRow(layout, x, repeated)}
        IN IF from = {} \/ p[2] - layout.y \notin 0 .. layout.height - 1
           THEN staged[p]
           ELSE <<n, CHOOSE x \in from : TRUE, (p[2] - layout.y) \div s>>
  BY DEF ByRow
<1> HIDE DEF layout, s, w, h, a, d
<1>8. /\ \A x \in 0 .. w - 1 :
            OnDot(s, x, a) <=> OnPicture(s, w, a) /\ x = a \div s
      /\ \A y \in 0 .. h - 1 :
            OnDot(s, y, d) <=> OnPicture(s, h, d) /\ y = d \div s
      /\ OnPicture(s, w, a) => a \div s \in 0 .. w - 1
      /\ OnPicture(s, h, d) => d \div s \in 0 .. h - 1
  BY <1>1, <1>3, OneDirection
<1>9. ASSUME NEW u \in Int, NEW v \in Int, NEW m \in Int, NEW k \in Int,
              NEW o \in Int
       PROVE  /\ u = PhysicalHeight - 1 - (o + m + k) <=>
                   PhysicalHeight - 1 - u - o = m + k
              /\ u = PhysicalHeight - 1 - o - m - k <=>
                   PhysicalHeight - 1 - u - o = m + k
              /\ v = o + m + k <=> v - o = m + k
  BY <1>2
<1>10. ASSUME NEW x \in Int, NEW y \in Int
      PROVE  p \in Enlarged(layout, x, y) <=>
               OnDot(s, x, a) /\ OnDot(s, y, d)
  <2>1. p \in Enlarged(layout, x, y) <=>
          \E dx, dy \in 0 .. s - 1 :
            /\ p[1] = PhysicalHeight - 1 - (layout.x + x * s + dx)
            /\ p[2] = layout.y + y * s + dy
    BY <1>2 DEF Enlarged, s
  <2>2. x * s \in Int /\ y * s \in Int
    BY <1>1
  <2>3. ASSUME NEW dx \in 0 .. s - 1, NEW dy \in 0 .. s - 1
        PROVE  /\ p[1] = PhysicalHeight - 1 - (layout.x + x * s + dx) <=>
                    a = x * s + dx
               /\ p[2] = layout.y + y * s + dy <=> d = y * s + dy
    <3>1. dx \in Int /\ dy \in Int /\ p[1] \in Int /\ p[2] \in Int
          /\ layout.x \in Int /\ layout.y \in Int
      BY <1>1, <1>2
    <3>2. PICK m \in Int, o \in Int : m = x * s /\ o = y * s
      BY <2>2
    <3>3. p[1] = PhysicalHeight - 1 - (layout.x + m + dx) <=> a = m + dx
      BY <1>2, <1>3, <3>1
    <3>4. p[2] = layout.y + o + dy <=> d = o + dy
      BY <1>2, <1>3, <3>1
    <3> QED
      BY <3>2, <3>3, <3>4
  <2> QED
    BY <2>1, <2>3 DEF OnDot
<1>11. ASSUME NEW x \in Int, NEW k \in 0 .. s - 1
      PROVE  p[1] = ColumnRow(layout, x, k) <=> a = x * s + k
  <2>1. /\ x * s \in Int /\ k \in Int /\ p[1] \in Int /\ layout.x \in Int
    BY <1>1, <1>2
  <2> QED
    BY <1>3, <1>9, <2>1 DEF ColumnRow, s
<1>12. ByPixel(size, layout, n, staged)[p] =
         IF Covers(size, p) THEN Dot(n, size, p) ELSE staged[p]
  <2> DEFINE from == {t \in (0 .. w - 1) \X (0 .. h - 1) :
                        p \in Enlarged(layout, t[1], t[2])}
  <2>1. ASSUME NEW t \in (0 .. w - 1) \X (0 .. h - 1)
        PROVE  t \in from <=> /\ OnPicture(s, w, a) /\ OnPicture(s, h, d)
                              /\ t[1] = a \div s /\ t[2] = d \div s
    <3>1. t[1] \in 0 .. w - 1 /\ t[2] \in 0 .. h - 1
      OBVIOUS
    <3>2. OnDot(s, t[1], a)
             <=> OnPicture(s, w, a) /\ t[1] = a \div s
      BY <1>8, <3>1
    <3>3. OnDot(s, t[2], d)
             <=> OnPicture(s, h, d) /\ t[2] = d \div s
      BY <1>8, <3>1
    <3>4. p \in Enlarged(layout, t[1], t[2]) <=>
               OnDot(s, t[1], a) /\ OnDot(s, t[2], d)
      BY <1>10, <3>1
    <3> QED
      BY <3>2, <3>3, <3>4
  <2>2. CASE Covers(size, p)
    <3> DEFINE dot == <<a \div s, d \div s>>
    <3>1. a \div s \in 0 .. w - 1 /\ d \div s \in 0 .. h - 1
      BY <1>4, <1>8, <2>2
    <3>2. dot \in (0 .. w - 1) \X (0 .. h - 1)
      BY <3>1
    <3>3. dot \in from
      <4>1. dot[1] = a \div s /\ dot[2] = d \div s
        OBVIOUS
      <4> QED
        BY <1>4, <2>1, <2>2, <3>2, <4>1
    <3>4. \A t \in from : t = dot
      BY <2>1
    <3> HIDE DEF dot
    <3>5. (CHOOSE t \in from : TRUE) = dot
      BY <3>3, <3>4
    <3>6. dot[1] = a \div s /\ dot[2] = d \div s
      BY DEF dot
    <3> QED
      BY <1>5, <1>6, <2>2, <3>3, <3>5, <3>6
  <2>3. CASE ~Covers(size, p)
    <3>1. from = {}
      BY <1>4, <2>1, <2>3
    <3> QED
      BY <1>6, <2>3, <3>1
  <2> QED
    BY <2>2, <2>3
<1>13. ByRow(size, layout, n, staged)[p] =
         IF Covers(size, p) THEN Dot(n, size, p) ELSE staged[p]
  <2> DEFINE from == {x \in 0 .. w - 1 : \E repeated \in 0 .. s - 1 :
                        p[1] = ColumnRow(layout, x, repeated)}
  <2>1. ASSUME NEW x \in 0 .. w - 1
        PROVE  x \in from <=> OnPicture(s, w, a) /\ x = a \div s
    <3>1. OnDot(s, x, a)
             <=> OnPicture(s, w, a) /\ x = a \div s
      BY <1>8
    <3>2. x \in from <=> OnDot(s, x, a)
      BY <1>11 DEF OnDot
    <3> QED
      BY <3>1, <3>2
  <2>2. d = p[2] - layout.y /\ layout.height = s * h
    BY <1>1, <1>3
  <2>3. CASE Covers(size, p)
    <3>1. a \div s \in from
      BY <1>4, <1>8, <2>1, <2>3
    <3>2. \A x \in from : x = a \div s
      BY <2>1
    <3>3. (CHOOSE x \in from : TRUE) = a \div s
      BY <3>1, <3>2
    <3> QED
      BY <1>4, <1>5, <1>7, <2>2, <2>3, <3>1, <3>3 DEF OnPicture
  <2>4. CASE ~Covers(size, p)
    <3>1. from = {} \/ ~OnPicture(s, h, d)
      BY <1>4, <2>1, <2>4
    <3> QED
      BY <1>7, <2>2, <2>4, <3>1 DEF OnPicture
  <2> QED
    BY <2>3, <2>4
<1> QED
  BY <1>12, <1>13 DEF layout

\* The places of a picture are a rectangle of the panel.
LEMMA PictureIsARectangle ==
  ASSUME NEW size \in Nat \X Nat, Fits(size), NEW layout, layout = Layout(size),
         NEW p \in Panel
  PROVE  /\ Covers(size, p) <=>
              /\ p[1] \in PhysicalHeight - layout.x - layout.width
                            .. PhysicalHeight - layout.x - 1
              /\ p[2] \in layout.y .. layout.y + layout.height - 1
         /\ Covers(size, p) => p[2] < LogicalHeight
<1>1. /\ layout.width \in Nat /\ layout.height \in Nat
      /\ layout.width = layout.scale * size[1]
      /\ layout.height = layout.scale * size[2]
      /\ layout.x \in Nat /\ layout.y \in Nat
      /\ layout.y + layout.height <= LogicalHeight
  BY LayoutFits
<1>2. p[1] \in Nat /\ p[2] \in Nat /\ PhysicalHeight \in Nat
      /\ LogicalHeight \in Nat
  BY UsableSize DEF Panel, PhysicalHeight
<1>3. Covers(size, p) <=>
        /\ PhysicalHeight - 1 - p[1] - layout.x \in 0 .. layout.width - 1
        /\ p[2] - layout.y \in 0 .. layout.height - 1
  BY <1>1 DEF Covers, OnPicture, Across, Down
<1> QED
  BY <1>1, <1>2, <1>3

\* Nothing of a picture looks like the hint or the border.
LEMMA DotIsNotHint ==
  ASSUME NEW n \in Nat, NEW size, NEW p
  PROVE  /\ Dot(n, size, p) # Hint
         /\ Covers(size, p) \/ Dot(n, size, p) = Black
<1>1. CASE Covers(size, p)
  <2>1. Dot(n, size, p)[1] = n /\ Hint[1] = -1
    BY <1>1 DEF Dot, Hint
  <2> QED
    BY <1>1, <2>1
<1>2. CASE ~Covers(size, p)
  <2>1. Dot(n, size, p) = Black /\ Black[1] = 0 /\ Hint[1] = -1
    BY <1>2 DEF Dot, Black, Hint
  <2> QED
    BY <2>1
<1> QED
  BY <1>1, <1>2

\* A new picture is put whole into the buffer.  The panel still shows the one
\* before it, which lay in the same place, or nothing.
LEMMA StageKeepsPicture ==
  ASSUME PictureInv, NEW size \in Sizes, NEW rows, Stage(size, rows)
  PROVE  PictureInv'
<1> DEFINE n == picture + 1
           staged == IF Cleared(size) THEN Blank ELSE frame_
<1>1. size \in Nat \X Nat /\ Fits(size) /\ n \in Nat /\ picture \in Nat
  BY PictureAssumption DEF Stage, PictureInv
<1>2. /\ publishing = Published /\ publishing' = 0 /\ picture' = n
      /\ last_source' = size /\ exit_hint' = exit_hint
      /\ memory_' = IF Cleared(size) THEN Blank ELSE memory_
      /\ frame_' = IF rows THEN ByRow(size, Layout(size), n, staged)
                   ELSE ByPixel(size, Layout(size), n, staged)
  BY DEF Stage
<1>3. ~Cleared(size) => picture > 0 /\ last_source = size
  <2>1. size # <<0, 0>>
    BY <1>1, LayoutFits
  <2> QED
    BY <1>1, <2>1 DEF Cleared, PictureInv
<1>4. ASSUME NEW p \in Panel, ~Covers(size, p)
      PROVE  staged[p] = Black
  <2>1. CASE Cleared(size)
    BY <2>1 DEF Blank
  <2>2. CASE ~Cleared(size)
    <3>1. staged[p] = Dot(picture, size, p)
      BY <1>1, <1>3, <2>2 DEF PictureInv
    <3> QED
      BY <1>1, <1>4, <3>1, DotIsNotHint
  <2> QED
    BY <2>1, <2>2
<1>5. frame_' = [p \in Panel |-> Dot(n, size, p)]
  <2>1. \A p \in Panel : frame_'[p] = Dot(n, size, p)
    <3> SUFFICES ASSUME NEW p \in Panel
                 PROVE  frame_'[p] = Dot(n, size, p)
      OBVIOUS
    <3> HIDE DEF staged
    <3>1. frame_'[p] = IF Covers(size, p) THEN Dot(n, size, p) ELSE staged[p]
      BY <1>1, <1>2, BothWaysAreAlike
    <3> QED
      BY <1>1, <1>4, <3>1, DotIsNotHint
  <2>2. /\ ByRow(size, Layout(size), n, staged) =
             [p \in Panel |-> ByRow(size, Layout(size), n, staged)[p]]
        /\ ByPixel(size, Layout(size), n, staged) =
             [p \in Panel |-> ByPixel(size, Layout(size), n, staged)[p]]
    BY DEF ByRow, ByPixel
  <2>3. frame_' = [p \in Panel |-> frame_'[p]]
    BY <1>2, <2>2
  <2> QED
    BY <2>1, <2>3
<1>6. ASSUME NEW p \in Panel
      PROVE  MemoryShows(p)'
  <2>1. Layout(size).width \in Nat
    BY <1>1, LayoutFits
  <2>2. /\ Published = -1 /\ publishing' # Published
    BY <1>2 DEF Published
  <2>3. \/ memory_'[p] = Black
        \/ memory_'[p] = Hint /\ Hinted(p)
        \/ memory_'[p] = Dot(picture, size, p)
    <3>1. CASE Cleared(size)
      BY <1>2, <3>1 DEF Blank
    <3>2. CASE ~Cleared(size)
      BY <1>2, <1>3, <3>2 DEF PictureInv, MemoryShows
    <3> QED
      BY <3>1, <3>2
  <2>4. Covers(size, p) => ~(p[1] < NextRow')
    <3>1. NextRow' = PhysicalHeight - Layout(size).x - Layout(size).width + 0
      BY <1>2 DEF NextRow
    <3>2. /\ PhysicalHeight \in Nat /\ Layout(size).x \in Nat /\ p[1] \in Nat
      BY <1>1, LayoutFits, UsableSize DEF PhysicalHeight, Panel
    <3> QED
      BY <1>1, <2>1, <3>1, <3>2, PictureIsARectangle
  <2>5. Dot(picture, size, p) # Hint /\ (Covers(size, p) \/ Dot(picture, size, p) = Black)
    BY <1>1, DotIsNotHint
  <2>6. n - 1 = picture /\ Black # Hint /\ Hinted(p)' = Hinted(p)
    BY <1>1, <1>2 DEF Black, Hint, Hinted
  <2> QED
    BY <1>2, <2>2, <2>3, <2>4, <2>5, <2>6 DEF MemoryShows
<1>7. Layout(size).width \in Nat /\ n # 0 /\ n > 0
  BY <1>1, LayoutFits
<1> QED
  BY <1>1, <1>2, <1>5, <1>6, <1>7 DEF PictureInv

\* A row is copied where the picture's next row lies.
LEMMA RowKeepsPicture ==
  ASSUME PictureInv, PublishRow
  PROVE  PictureInv'
<1> DEFINE size == last_source
           layout == Layout(size)
           row == PhysicalHeight - layout.x - layout.width + publishing
           copied == {row} \X (layout.y .. layout.y + layout.height - 1)
<1>1. /\ publishing # Published /\ publishing < layout.width
      /\ publishing' = publishing + 1
      /\ memory_' = [p \in Panel |-> IF p \in copied THEN frame_[p] ELSE memory_[p]]
      /\ UNCHANGED <<frame_, last_source, exit_hint, picture>>
  BY DEF PublishRow
<1>2. /\ picture \in Nat /\ picture > 0 /\ size \in Nat \X Nat /\ Fits(size)
      /\ frame_ = [p \in Panel |-> Dot(picture, size, p)]
      /\ \A p \in Panel : MemoryShows(p)
      /\ publishing \in {Published} \cup 0 .. layout.width
  BY <1>1 DEF PictureInv
<1>3. /\ layout.width \in Nat /\ layout.height \in Nat
      /\ layout.x \in Nat /\ layout.y \in Nat /\ PhysicalHeight \in Nat
  BY <1>2, LayoutFits, UsableSize DEF PhysicalHeight
<1> HIDE DEF layout
<1>4. /\ publishing \in 0 .. layout.width - 1 /\ publishing' \in 0 .. layout.width
      /\ publishing' # Published
  BY <1>1, <1>2, <1>3 DEF Published
<1>5. NextRow = row /\ NextRow' = row + 1 /\ row \in Int
  BY <1>1, <1>3, <1>4 DEF NextRow, layout
<1>6. ASSUME NEW p \in Panel
      PROVE  MemoryShows(p)'
  <2>1. p[1] \in Nat /\ p[2] \in Nat /\ p = <<p[1], p[2]>>
    BY UsableSize DEF Panel, PhysicalHeight
  <2>2. Covers(size, p) <=>
          /\ p[1] \in PhysicalHeight - layout.x - layout.width
                        .. PhysicalHeight - layout.x - 1
          /\ p[2] \in layout.y .. layout.y + layout.height - 1
    BY <1>2, PictureIsARectangle DEF layout
  <2>3. p \in copied <=> p[1] = row /\ p[2] \in layout.y .. layout.y + layout.height - 1
    BY <2>1
  <2>4. p \in copied => Covers(size, p)
    <3>1. row \in PhysicalHeight - layout.x - layout.width
                    .. PhysicalHeight - layout.x - 1
      BY <1>3, <1>4
    <3> QED
      BY <2>2, <2>3, <3>1
  <2>5. Covers(size, p) /\ p[1] < row + 1 => p \in copied \/ p[1] < row
    BY <1>5, <2>1, <2>2, <2>3
  <2>6. /\ Hinted(p)' = Hinted(p)
        /\ Dot(picture, size, p)' = Dot(picture, size, p)
        /\ Dot(picture - 1, size, p)' = Dot(picture - 1, size, p)
        /\ Covers(size, p)' = Covers(size, p)
    BY <1>1 DEF Hinted
  <2> HIDE DEF copied, row
  <2>7. CASE p \in copied
    <3>1. memory_'[p] = Dot(picture, size, p) /\ memory_'[p] # Hint
      BY <1>1, <1>2, <2>7, DotIsNotHint
    <3> QED
      BY <1>1, <1>4, <2>4, <2>6, <2>7, <3>1 DEF MemoryShows
  <2>8. CASE p \notin copied
    <3>1. memory_'[p] = memory_[p]
      BY <1>1, <2>8
    <3> QED
      BY <1>1, <1>2, <1>4, <1>5, <2>5, <2>6, <2>8, <3>1 DEF MemoryShows
  <2> QED
    BY <2>7, <2>8
<1> QED
  BY <1>1, <1>2, <1>4, <1>6 DEF PictureInv, layout

\* After the last row the panel holds the picture, and the hint over it.
LEMMA HintKeepsPicture ==
  ASSUME PictureInv, DrawHint
  PROVE  PictureInv'
<1> DEFINE size == last_source
           layout == Layout(size)
<1>1. /\ publishing # Published /\ publishing = layout.width
      /\ publishing' = Published
      /\ memory_' = IF exit_hint
           THEN [p \in Panel |->
                   IF <<PhysicalHeight - 1 - p[1], p[2]>> \in HintPixels THEN Hint
                   ELSE memory_[p]]
           ELSE memory_
      /\ UNCHANGED <<frame_, last_source, exit_hint, picture>>
  BY DEF DrawHint
<1>2. /\ picture \in Nat /\ picture > 0 /\ size \in Nat \X Nat /\ Fits(size)
      /\ frame_ = [p \in Panel |-> Dot(picture, size, p)]
      /\ \A p \in Panel : MemoryShows(p)
  BY <1>1 DEF PictureInv
<1>3. /\ layout.width \in Nat /\ layout.x \in Nat /\ PhysicalHeight \in Nat
  BY <1>2, LayoutFits, UsableSize DEF PhysicalHeight
<1>4. ASSUME NEW p \in Panel
      PROVE  MemoryShows(p)'
  <2>1. Covers(size, p) => p[1] < NextRow
    <3>1. Covers(size, p) => p[1] \in PhysicalHeight - layout.x - layout.width
                                       .. PhysicalHeight - layout.x - 1
      BY <1>2, PictureIsARectangle
    <3>2. NextRow = PhysicalHeight - layout.x
      BY <1>1, <1>3 DEF NextRow
    <3> QED
      BY <1>3, <3>1, <3>2
  <2>2. memory_'[p] = IF Hinted(p) THEN Hint ELSE memory_[p]
    BY <1>1 DEF Hinted
  <2>3. ~Hinted(p) => memory_[p] = Dot(picture, size, p)
    BY <1>1, <1>2, <2>1, DotIsNotHint DEF MemoryShows
  <2>4. Hinted(p)' = Hinted(p) /\ Dot(picture, last_source, p)' = Dot(picture, size, p)
    BY <1>1 DEF Hinted
  <2> QED
    BY <1>1, <2>2, <2>3, <2>4 DEF MemoryShows
<1> QED
  BY <1>1, <1>2, <1>4 DEF PictureInv

\* Between two pictures nothing changes.
LEMMA IdleKeepsPicture ==
  ASSUME PictureInv, UNCHANGED picture_vars
  PROVE  PictureInv'
<1>1. UNCHANGED <<memory_, frame_, last_source, exit_hint, publishing, picture>>
  BY DEF picture_vars
<1>2. \A p \in Panel : MemoryShows(p) => MemoryShows(p)'
  BY <1>1 DEF MemoryShows, Hinted, NextRow
<1> QED
  BY <1>1, <1>2 DEF PictureInv

\* What PictureInv says of the panel is what a player sees.
LEMMA PictureIsSeen == PictureInv => ShowsThePicture
<1> SUFFICES ASSUME PictureInv
             PROVE  ShowsThePicture
  OBVIOUS
<1>1. ASSUME picture > 0, NEW x \in 0 .. LogicalWidth - 1,
             NEW y \in 0 .. LogicalHeight - 1
      PROVE  LET now == Seen(picture, last_source, Scale(last_source), x, y)
                 before == Seen(picture - 1, last_source, Scale(last_source), x, y)
             IN IF publishing = Published
                THEN At(x, y) = IF exit_hint /\ <<x, y>> \in HintPixels THEN Hint ELSE now
                ELSE At(x, y) \in {now, before, Hint, Black}
  <2> DEFINE p == <<PhysicalHeight - 1 - x, y>>
             size == last_source
             layout == Layout(size)
             s == Scale(size)
  <2>1. size \in Nat \X Nat /\ Fits(size)
    BY <1>1 DEF PictureInv
  <2>2. p \in Panel /\ p[1] = PhysicalHeight - 1 - x /\ p[2] = y
        /\ PhysicalHeight \in Nat
    BY UsableSize DEF Panel, PhysicalHeight
  <2>3. /\ layout.scale = s /\ layout.x \in Nat /\ layout.y \in Nat
        /\ layout.x = (LogicalWidth - s * size[1]) \div 2
        /\ layout.y = (LogicalHeight - s * size[2]) \div 2
    BY <2>1, LayoutFits
  <2>4. Across(size, p) = x - layout.x /\ Down(size, p) = y - layout.y
    BY <2>2, <2>3 DEF Across, Down
  <2>5. ASSUME NEW n
        PROVE  Seen(n, size, s, x, y) = Dot(n, size, p)
    <3> HIDE DEF p, s, size, layout
    <3>1. Covers(size, p) <=>
            /\ x - layout.x \in 0 .. s * size[1] - 1
            /\ y - layout.y \in 0 .. s * size[2] - 1
      BY <2>3, <2>4 DEF Covers, OnPicture, layout
    <3> QED
      BY <2>3, <2>4, <3>1 DEF Seen, Dot, layout
  <2>6. At(x, y) = memory_[p] /\ MemoryShows(p)
    BY <1>1, <2>2 DEF At, PictureInv
  <2>7. Hinted(p) <=> exit_hint /\ <<x, y>> \in HintPixels
    BY <2>2 DEF Hinted
  <2> QED
    BY <2>5, <2>6, <2>7 DEF MemoryShows
<1>2. ASSUME memory_ # Unmapped, NEW p \in Panel, p[2] >= LogicalHeight
      PROVE  memory_[p] = Black
  <2>1. CASE picture = 0
    BY <1>2, <2>1 DEF PictureInv, Blank
  <2>2. CASE picture # 0
    <3>1. /\ picture \in Nat /\ picture > 0 /\ last_source \in Nat \X Nat
          /\ Fits(last_source) /\ MemoryShows(p)
      BY <2>2 DEF PictureInv
    <3>2. p[2] \in Nat /\ LogicalHeight \in Nat
      BY UsableSize DEF Panel, PhysicalHeight
    <3>3. ~Covers(last_source, p)
      BY <1>2, <3>1, <3>2, PictureIsARectangle
    <3>4. ~Hinted(p)
      BY <1>2, <3>2, PictureAssumption DEF Hinted
    <3> QED
      BY <3>1, <3>3, <3>4, DotIsNotHint DEF MemoryShows
  <2> QED
    BY <2>1, <2>2
<1> QED
  BY <1>1, <1>2 DEF ShowsThePicture

-----------------------------------------------------------------------------
\* What an emulator does to the panel in a step.
LEMMA PictureSteps ==
  ASSUME [EmulatorNext]_emulatorVars
  PROVE  \/ OpenFramebuffer
         \/ \E size \in Sizes : Stage(size, rgb565)
         \/ PublishRow \/ DrawHint
         \/ UNCHANGED picture_vars
<1>1. CASE RunFrame
  BY <1>1 DEF RunFrame, ShowPicture, VideoFails, WithoutPicture
<1>2. CASE PublishPicture
  BY <1>2 DEF PublishPicture, Publish
<1>3. CASE OpenScreen
  BY <1>3 DEF OpenScreen
<1>4. CASE \/ ReadRom \/ ReadConfig \/ LoadGame \/ FailToLoad \/ NoScreen
           \/ ReadVolume \/ OpenAudio \/ Pace \/ Leave \/ CloseAudio \/ JoinAudio
  BY <1>4 DEF ReadRom, ReadConfig, LoadGame, FailToLoad, NoScreen, ReadVolume,
     OpenAudio, Pace, Leave, CloseAudio, JoinAudio, Attempt, Move, screen
<1>5. CASE \/ Load("load ram", "ram", "load rtc") \/ Load("load rtc", "rtc", "loop")
           \/ Save("save ram", "ram", "save rtc") \/ Save("save rtc", "rtc", "loop")
           \/ Save("final ram", "ram", "final rtc") \/ Save("final rtc", "rtc", "close")
           \/ Sound \/ Queue \/ Signal \/ Kill \/ Relaunch
  BY <1>5 DEF Load, Save, Sound, Queue, Signal, Kill, Relaunch, screen
<1>6. CASE UNCHANGED front \/ UNCHANGED emulatorVars
  BY <1>6 DEF front, emulatorVars, screen
<1> QED
  BY <1>1, <1>2, <1>3, <1>4, <1>5, <1>6 DEF EmulatorNext, Main

\* PictureInv is an invariant of an emulator.
LEMMA PictureInvariant == EmulatorSpec => []PictureInv
<1>1. EmulatorInit => PictureInv
  BY DEF EmulatorInit, PictureInit, PictureInv
<1>2. PictureInv /\ [EmulatorNext]_emulatorVars => PictureInv'
  <2> SUFFICES ASSUME PictureInv, [EmulatorNext]_emulatorVars
               PROVE  PictureInv'
    OBVIOUS
  <2>1. CASE OpenFramebuffer
    BY <2>1 DEF OpenFramebuffer, PictureInv
  <2>2. CASE \E size \in Sizes : Stage(size, rgb565)
    BY <2>2, StageKeepsPicture
  <2>3. CASE PublishRow
    BY <2>3, RowKeepsPicture
  <2>4. CASE DrawHint
    BY <2>4, HintKeepsPicture
  <2>5. CASE UNCHANGED picture_vars
    BY <2>5, IdleKeepsPicture
  <2> QED
    BY <2>1, <2>2, <2>3, <2>4, <2>5, PictureSteps
<1> QED
  BY <1>1, <1>2, PTL DEF EmulatorSpec

\* For every display, inset, hint and set of sizes the panel shows the last
\* picture published, enlarged as DeckComputeScaledLayout promises, and never
\* anything but the old and the new picture while rows are copied.
THEOREM PictureIsShown == EmulatorSpec => []ShowsThePicture
  BY PictureInvariant, PictureIsSeen, PTL

-----------------------------------------------------------------------------
\* n slots of a ring from slot h on.
Ring(q, h, n) == [i \in 1 .. n |-> q[(h + i - 1) % Capacity]]

\* A function on 1 .. n is a sequence of length n.
LEMMA SequenceOf ==
  ASSUME NEW n \in Nat, NEW s \in [1 .. n -> Nat]
  PROVE  s \in Seq(Nat) /\ Len(s) = n
<1>1. s \in Seq(Nat)
  BY SeqDef
<1> QED
  BY <1>1, LenProperties

\* What is in a ring is a sequence.
LEMMA RingIsASequence ==
  ASSUME NEW q \in [Slots -> Nat], NEW h \in Nat, NEW n \in Nat
  PROVE  /\ Ring(q, h, n) \in Seq(Nat) /\ Len(Ring(q, h, n)) = n
         /\ \A i \in 1 .. n : Ring(q, h, n)[i] = q[(h + i - 1) % Capacity]
<1>1. ASSUME NEW i \in 1 .. n
      PROVE  q[(h + i - 1) % Capacity] \in Nat
  <2>1. h + i - 1 \in Nat /\ Capacity \in Nat \ {0}
    BY AudioAssumption
  <2>2. (h + i - 1) % Capacity \in Slots
    BY <2>1, Division DEF Slots
  <2> QED
    BY <2>2
<1>2. Ring(q, h, n) \in [1 .. n -> Nat]
  BY <1>1 DEF Ring
<1>3. \A i \in 1 .. n : Ring(q, h, n)[i] = q[(h + i - 1) % Capacity]
  BY DEF Ring
<1> QED
  BY <1>2, <1>3, SequenceOf

\* The first k slots of a ring, and those after them.
LEMMA PartsOfARing ==
  ASSUME NEW q \in [Slots -> Nat], NEW h \in Nat, NEW n \in Nat,
         NEW k \in 0 .. n
  PROVE  /\ Ring(q, h, k) = SubSeq(Ring(q, h, n), 1, k)
         /\ Ring(q, (h + k) % Capacity, n - k) = SubSeq(Ring(q, h, n), k + 1, n)
<1> DEFINE whole == Ring(q, h, n)
<1>1. /\ whole \in Seq(Nat) /\ Len(whole) = n
      /\ \A i \in 1 .. n : whole[i] = q[(h + i - 1) % Capacity]
  BY RingIsASequence
<1>2. \A i \in 1 .. n : whole[i] \in Nat
  BY <1>1, ElementOfSeq
<1> HIDE DEF whole
<1>3. Ring(q, h, k) = SubSeq(whole, 1, k)
  <2>1. /\ Ring(q, h, k) \in Seq(Nat) /\ Len(Ring(q, h, k)) = k
        /\ \A i \in 1 .. k : Ring(q, h, k)[i] = q[(h + i - 1) % Capacity]
    <3>1. k \in Nat
      OBVIOUS
    <3> QED
      BY <3>1, RingIsASequence, Zenon
  <2>2. /\ SubSeq(whole, 1, k) \in Seq(Nat) /\ Len(SubSeq(whole, 1, k)) = k
        /\ \A i \in 1 .. k : SubSeq(whole, 1, k)[i] = whole[i]
    <3>1. \A i \in 1 .. k : whole[i] \in Nat
      BY <1>2
    <3>2. /\ SubSeq(whole, 1, k) \in Seq(Nat)
          /\ Len(SubSeq(whole, 1, k)) = IF 1 <= k THEN k - 1 + 1 ELSE 0
          /\ \A i \in 1 .. k - 1 + 1 : SubSeq(whole, 1, k)[i] = whole[1 + i - 1]
      BY <3>1, SubSeqProperties
    <3>3. /\ k - 1 + 1 = k /\ (~(1 <= k) => k = 0)
          /\ \A i \in 1 .. k : 1 + i - 1 = i
      OBVIOUS
    <3> QED
      BY <3>2, <3>3
  <2>3. ASSUME NEW i \in 1 .. k
        PROVE  Ring(q, h, k)[i] = SubSeq(whole, 1, k)[i]
    <3>1. i \in 1 .. n
      OBVIOUS
    <3>2. whole[i] = q[(h + i - 1) % Capacity]
      BY <1>1, <3>1, Zenon
    <3> QED
      BY <2>1, <2>2, <3>2, Zenon
  <2> QED
    BY <2>1, <2>2, <2>3, SeqEqual
<1>4. Ring(q, (h + k) % Capacity, n - k) = SubSeq(whole, k + 1, n)
  <2>1. Capacity \in Nat \ {0} /\ h + k \in Nat /\ n - k \in Nat
    BY AudioAssumption
  <2>2. (h + k) % Capacity \in Nat
    BY <2>1, Division
  <2> DEFINE start == (h + k) % Capacity
             rest == Ring(q, start, n - k)
             tail == SubSeq(whole, k + 1, n)
  <2>3. /\ rest \in Seq(Nat) /\ Len(rest) = n - k
        /\ \A i \in 1 .. n - k : rest[i] = q[(start + i - 1) % Capacity]
    BY <2>1, <2>2, RingIsASequence
  <2>4. /\ tail \in Seq(Nat) /\ Len(tail) = n - k
        /\ \A i \in 1 .. n - k : tail[i] = whole[k + i]
    BY <1>2, SubSeqProperties
  <2>5. ASSUME NEW i \in 1 .. n - k
        PROVE  (start + i - 1) % Capacity = (h + (k + i) - 1) % Capacity
    <3>1. i - 1 \in Nat
      OBVIOUS
    <3>2. (((h + k) % Capacity) + (i - 1)) % Capacity
            = ((h + k) + (i - 1)) % Capacity
      BY <2>1, <3>1, StepAround
    <3>3. (h + k) + (i - 1) = h + (k + i) - 1
      OBVIOUS
    <3>4. ((h + k) % Capacity) + (i - 1) = start + i - 1
      BY <2>2
    <3> QED
      BY <3>2, <3>3, <3>4
  <2> HIDE DEF start, rest, tail
  <2>6. ASSUME NEW i \in 1 .. n - k
        PROVE  rest[i] = tail[i]
    <3>1. k + i \in 1 .. n
      OBVIOUS
    <3>2. whole[k + i] = q[(h + (k + i) - 1) % Capacity]
      BY <1>1, <3>1
    <3> QED
      BY <2>3, <2>4, <2>5, <3>2
  <2>7. rest = tail
    BY <2>3, <2>4, <2>6, SeqEqual
  <2> QED
    BY <2>7 DEF rest, tail, start
<1> QED
  BY <1>3, <1>4 DEF whole

\* From slot h on, n slots of f are the ring's and the next k are numbered.
Extends(f, h, n, k, first) ==
  /\ \A i \in 1 .. n :
       f[(h + i - 1) % Capacity] = queue[(h + i - 1) % Capacity]
  /\ \A i \in n + 1 .. n + k :
       f[(h + i - 1) % Capacity] = first + (i - 1 - n)

\* Filling a ring that has room for k frames puts them behind those it holds.
LEMMA FilledRing ==
  ASSUME TypeOK, NEW h \in Nat, NEW n \in Nat, NEW k \in Nat,
         NEW first \in Nat, n + k <= Capacity
  PROVE  Extends(Copied((h + n) % Capacity, first, k), h, n, k, first)
<1> DEFINE tail == (h + n) % Capacity
           slot(i) == (h + i - 1) % Capacity
           offset(i) == (slot(i) + Capacity - tail) % Capacity
<1>1. Capacity \in Nat \ {0} /\ n \in 0 .. Capacity
  BY AudioAssumption
<1>2. ASSUME NEW i \in 1 .. n + k
      PROVE  /\ slot(i) \in Slots
             /\ offset(i) = IF i - 1 >= n THEN i - 1 - n
                            ELSE (Capacity + (i - 1)) - n
  <2>1. /\ i - 1 \in 0 .. Capacity - 1 /\ h + i - 1 \in Nat
        /\ h + (i - 1) = h + i - 1
    BY <1>1
  <2>2. slot(i) \in Slots
    BY <1>1, <2>1, Division DEF Slots
  <2>3. (((h + (i - 1)) % Capacity) + Capacity - ((h + n) % Capacity)) % Capacity
          = IF i - 1 >= n THEN (i - 1) - n ELSE (Capacity + (i - 1)) - n
    BY <1>1, <2>1, OffsetFromTail
  <2> QED
    BY <2>1, <2>2, <2>3, Zenon
<1>3. \A s \in Slots :
        Copied(tail, first, k)[s]
          = IF (s + Capacity - tail) % Capacity < k
              THEN first + ((s + Capacity - tail) % Capacity) ELSE queue[s]
  BY DEF Copied
<1>4. \A i \in 1 .. n + k :
        Copied(tail, first, k)[slot(i)]
          = IF offset(i) < k THEN first + offset(i) ELSE queue[slot(i)]
  BY <1>2, <1>3, Zenon
<1> HIDE DEF tail, slot, offset
<1>5. ASSUME NEW i \in 1 .. n
      PROVE  Copied(tail, first, k)[slot(i)] = queue[slot(i)]
  <2>1. i \in 1 .. n + k /\ ~(i - 1 >= n) /\ ~((Capacity + (i - 1)) - n < k)
    BY <1>1
  <2>2. ~(offset(i) < k)
    BY <1>2, <2>1, Zenon
  <2> QED
    BY <1>4, <2>1, <2>2, Zenon
<1>6. ASSUME NEW i \in n + 1 .. n + k
      PROVE  Copied(tail, first, k)[slot(i)] = first + (i - 1 - n)
  <2>1. i \in 1 .. n + k /\ i - 1 >= n /\ i - 1 - n < k
    BY <1>1
  <2>2. offset(i) = i - 1 - n /\ offset(i) < k
    BY <1>2, <2>1, Zenon
  <2> QED
    BY <1>4, <2>1, <2>2, Zenon
<1> QED
  BY <1>5, <1>6, Zenon DEF tail, slot, Extends

\* The elements of a sequence after the first of them.
LEMMA EndOfASequence ==
  ASSUME NEW s, NEW len \in Nat, NEW lost \in 0 .. len,
         \A i \in 1 .. len : s[i] \in Nat
  PROVE  /\ SubSeq(s, lost + 1, len) \in Seq(Nat)
         /\ Len(SubSeq(s, lost + 1, len)) = len - lost
         /\ \A i \in 1 .. len - lost :
              SubSeq(s, lost + 1, len)[i] = s[lost + i]
<1>1. PICK m \in Int : m = lost + 1
  OBVIOUS
<1>2. /\ SubSeq(s, m, len) \in Seq(Nat)
      /\ Len(SubSeq(s, m, len)) = IF m <= len THEN len - m + 1 ELSE 0
      /\ \A i \in 1 .. len - m + 1 : SubSeq(s, m, len)[i] = s[m + i - 1]
  <2>1. len \in Int /\ \A i \in m .. len : s[i] \in Nat
    BY <1>1
  <2> QED
    BY <2>1, SubSeqProperties
<1>3. len - m + 1 = len - lost /\ (~(m <= len) => len - lost = 0)
  BY <1>1
<1>4. \A i \in 1 .. len - lost : m + i - 1 = lost + i
  BY <1>1
<1>5. /\ SubSeq(s, m, len) \in Seq(Nat)
      /\ Len(SubSeq(s, m, len)) = len - lost
  BY <1>2, <1>3
<1>6. \A i \in 1 .. len - lost : SubSeq(s, m, len)[i] = s[lost + i]
  BY <1>2, <1>3, <1>4
<1> QED
  BY <1>1, <1>5, <1>6, Zenon

\* The newest elements of a sequence are those after what is lost.
LEMMA NewestOf ==
  ASSUME NEW s \in Seq(Nat), NEW room \in Nat, NEW lost \in Nat,
         lost = IF Len(s) <= room THEN 0 ELSE Len(s) - room
  PROVE  /\ Fifo!Newest(s, room) \in Seq(Nat)
         /\ Len(Fifo!Newest(s, room)) = Len(s) - lost
         /\ \A i \in 1 .. Len(s) - lost : Fifo!Newest(s, room)[i] = s[lost + i]
<1>1. Len(s) \in Nat /\ \A i \in 1 .. Len(s) : s[i] \in Nat
  BY LenProperties, ElementOfSeq
<1>2. PICK len \in Nat : len = Len(s)
  BY <1>1
<1>3. CASE len <= room
  <2>1. Fifo!Newest(s, room) = s
    BY <1>2, <1>3 DEF Fifo!Newest
  <2>2. lost = 0 /\ Len(s) - lost = Len(s)
    BY <1>2, <1>3
  <2>3. \A i \in 1 .. Len(s) - lost : lost + i = i
    BY <2>2
  <2> QED
    BY <2>1, <2>2, <2>3, Zenon
<1>4. CASE ~(len <= room)
  <2>1. lost = len - room /\ room = len - lost
    BY <1>2, <1>4
  <2>2. Fifo!Newest(s, room) = SubSeq(s, lost + 1, len)
    BY <1>2, <1>4, <2>1 DEF Fifo!Newest
  <2>4. /\ SubSeq(s, lost + 1, len) \in Seq(Nat)
        /\ Len(SubSeq(s, lost + 1, len)) = len - lost
        /\ \A i \in 1 .. len - lost : SubSeq(s, lost + 1, len)[i] = s[lost + i]
    <3>1. lost \in 0 .. len
      BY <2>1
    <3>2. \A i \in 1 .. len : s[i] \in Nat
      BY <1>1, <1>2
    <3> QED
      BY <3>1, <3>2, EndOfASequence, Zenon
  <2> QED
    BY <1>2, <2>2, <2>4, Zenon
<1> QED
  BY <1>3, <1>4

\* What the abstract queue sees of the ring.
LEMMA PendingIsTheRing ==
  ASSUME TypeOK
  PROVE  /\ Pending = Ring(queue, queue_head, queue_size)
         /\ Pending \in Seq(Nat) /\ Len(Pending) = queue_size
         /\ queue \in [Slots -> Nat] /\ queue_head \in Nat
         /\ queue_size \in Nat /\ queue_size <= Capacity
         /\ Capacity \in Nat \ {0}
<1>1. /\ queue \in [Slots -> Nat] /\ queue_head \in Nat
      /\ queue_size \in Nat /\ queue_size <= Capacity /\ Capacity \in Nat \ {0}
  BY AudioAssumption DEF TypeOK, Slots
<1>2. Pending = Ring(queue, queue_head, queue_size)
  BY DEF Pending, Ring
<1> QED
  BY <1>1, <1>2, RingIsASequence

\* enqueue gives count frames, of which a full ring keeps the newest.
LEMMA StoreGives ==
  ASSUME TypeOK, NEW count \in 1 .. MaxFrames, Store(count), UNCHANGED output
  PROVE  Fifo!Give(count)
<1> DEFINE kept == Smaller(count, Capacity)
           skipped == count - kept
           free == Capacity - queue_size
           discarded == IF kept > free THEN kept - free ELSE 0
           head == Advance(discarded)
           size == queue_size - discarded
           filled == Copied((head + size) % Capacity, given + skipped + 1, kept)
           lost == skipped + discarded
           all == Pending \o Fifo!NewFrames(count)
<1>1. /\ dropped_frames' = dropped_frames + skipped + discarded
      /\ queue' = filled /\ queue_head' = head
      /\ queue_size' = size + kept
      /\ given' = given + count
  BY DEF Store
<1>2. /\ Capacity \in Nat \ {0} /\ count \in Nat
      /\ queue_head \in Nat /\ queue_size \in Nat /\ queue_size <= Capacity
      /\ given \in Nat /\ dropped_frames \in Nat
      /\ queue \in [Slots -> Nat]
  BY AudioAssumption, PendingIsTheRing DEF TypeOK
<1>3. kept \in Nat /\ kept = IF count < Capacity THEN count ELSE Capacity
  BY <1>2 DEF Smaller
<1> HIDE DEF kept
<1>4. /\ skipped \in Nat /\ discarded \in Nat /\ size \in Nat /\ lost \in Nat
      /\ size + kept <= Capacity /\ discarded <= queue_size
      /\ size > 0 => skipped = 0
      /\ \A len \in Nat :
           len = queue_size + count =>
             /\ lost = IF len <= Capacity THEN 0 ELSE len - Capacity
             /\ len - lost = size + kept
  BY <1>2, <1>3
<1>4a. /\ size = queue_size - discarded /\ lost = skipped + discarded
       /\ size + kept + lost = queue_size + count
  BY <1>2, <1>3
<1> HIDE DEF skipped, discarded, size
<1>5. head \in Nat
  <2>1. queue_head + discarded \in Nat
    BY <1>2, <1>4
  <2> QED
    BY <1>2, <2>1, Division DEF Advance
<1>6. filled \in [Slots -> Nat]
  <2>1. head + size \in Nat /\ given + skipped + 1 \in Nat
    BY <1>2, <1>4, <1>5
  <2>2. (head + size) % Capacity \in Slots
    BY <1>2, <2>1, Division DEF Slots
  <2> QED
    BY <1>3, <2>1, <2>2, CopiedIsARing
<1> HIDE DEF filled, head
<1>7. /\ Fifo!NewFrames(count) \in Seq(Nat)
      /\ Len(Fifo!NewFrames(count)) = count
      /\ \A i \in 1 .. count : Fifo!NewFrames(count)[i] = given + i
  <2>1. Fifo!NewFrames(count) = [i \in 1 .. count |-> given + i]
    BY DEF Fifo!NewFrames
  <2>2. [i \in 1 .. count |-> given + i] \in [1 .. count -> Nat]
    BY <1>2
  <2> QED
    BY <1>2, <2>1, <2>2, SequenceOf
<1>8. /\ all \in Seq(Nat) /\ Len(all) = queue_size + count
      /\ \A i \in 1 .. queue_size : all[i] = Pending[i]
      /\ \A i \in queue_size + 1 .. queue_size + count :
           all[i] = given + (i - queue_size)
  <2>1. Pending \in Seq(Nat) /\ Len(Pending) = queue_size
    BY PendingIsTheRing
  <2>2. /\ all \in Seq(Nat) /\ Len(all) = queue_size + count
        /\ \A i \in 1 .. queue_size + count :
             all[i] = IF i <= queue_size THEN Pending[i]
                      ELSE Fifo!NewFrames(count)[i - queue_size]
    <3> DEFINE old == Pending
               new == Fifo!NewFrames(count)
    <3>1. old \in Seq(Nat) /\ new \in Seq(Nat)
      BY <1>7, <2>1
    <3> HIDE DEF old, new
    <3>2. /\ old \o new \in Seq(Nat) /\ Len(old \o new) = Len(old) + Len(new)
          /\ \A i \in 1 .. Len(old) + Len(new) :
               (old \o new)[i] = IF i <= Len(old) THEN old[i]
                                 ELSE new[i - Len(old)]
      BY <3>1, ConcatProperties
    <3>3. Len(old) = queue_size /\ Len(new) = count
      BY <1>7, <2>1 DEF old, new
    <3> QED
      BY <3>2, <3>3, Zenon DEF old, new
  <2>3. ASSUME NEW i \in 1 .. queue_size
        PROVE  all[i] = Pending[i]
    <3>1. i \in 1 .. queue_size + count /\ i <= queue_size
      BY <1>2
    <3> QED
      BY <2>2, <3>1, Zenon
  <2>4. ASSUME NEW i \in queue_size + 1 .. queue_size + count
        PROVE  all[i] = given + (i - queue_size)
    <3>1. /\ i \in 1 .. queue_size + count /\ ~(i <= queue_size)
          /\ i - queue_size \in 1 .. count
      BY <1>2
    <3>2. all[i] = Fifo!NewFrames(count)[i - queue_size]
      BY <2>2, <3>1, Zenon
    <3> QED
      BY <1>7, <3>1, <3>2, Zenon
  <2> QED
    BY <2>2, <2>3, <2>4, Zenon
<1> HIDE DEF all
<1> DEFINE newest == Fifo!Newest(all, Capacity)
<1>9. /\ newest \in Seq(Nat) /\ Len(newest) = size + kept
      /\ \A i \in 1 .. size + kept : newest[i] = all[lost + i]
  <2>1. PICK len \in Nat : len = queue_size + count
    BY <1>2
  <2>2. /\ lost = IF len <= Capacity THEN 0 ELSE len - Capacity
        /\ len - lost = size + kept /\ Len(all) = len
    BY <1>4, <1>8, <2>1, Zenon
  <2>3. Capacity \in Nat /\ lost \in Nat /\ all \in Seq(Nat)
    BY <1>2, <1>4, <1>8
  <2> HIDE DEF lost
  <2>4. /\ newest \in Seq(Nat) /\ Len(newest) = Len(all) - lost
        /\ \A i \in 1 .. Len(all) - lost : newest[i] = all[lost + i]
    <3>1. lost = IF Len(all) <= Capacity THEN 0 ELSE Len(all) - Capacity
      BY <2>2, Zenon
    <3> QED
      BY <2>3, <3>1, NewestOf, Zenon
  <2> QED
    BY <2>2, <2>4, Zenon
<1> HIDE DEF newest, lost
<1> DEFINE after == Ring(filled, head, size + kept)
<1>10. /\ after \in Seq(Nat) /\ Len(after) = size + kept
       /\ \A i \in 1 .. size + kept : after[i] = filled[(head + i - 1) % Capacity]
  <2>1. size + kept \in Nat
    BY <1>3, <1>4
  <2> QED
    BY <1>5, <1>6, <2>1, RingIsASequence, Zenon
<1>11. /\ \A i \in 1 .. size :
            filled[(head + i - 1) % Capacity] = queue[(head + i - 1) % Capacity]
       /\ \A i \in size + 1 .. size + kept :
            filled[(head + i - 1) % Capacity]
              = (given + skipped + 1) + (i - 1 - size)
  <2>1. given + skipped + 1 \in Nat
    BY <1>2, <1>4
  <2>2. size \in Nat /\ kept \in Nat /\ size + kept <= Capacity
    BY <1>3, <1>4
  <2>3. Extends(Copied((head + size) % Capacity, given + skipped + 1, kept),
                head, size, kept, given + skipped + 1)
    BY <1>5, <2>1, <2>2, FilledRing, Zenon
  <2> QED
    BY <2>3, Zenon DEF filled, Extends
<1>12. \A i \in 1 .. size :
         queue[(head + i - 1) % Capacity] = Pending[discarded + i]
  <2> DEFINE old == Ring(queue, queue_head, queue_size)
             rest == SubSeq(old, discarded + 1, queue_size)
  <2>1. /\ old = Pending /\ discarded \in 0 .. queue_size
        /\ size = queue_size - discarded
        /\ head = (queue_head + discarded) % Capacity
    BY <1>4, <1>4a, PendingIsTheRing DEF head, Advance
  <2>2. Ring(queue, head, size) = rest
    BY <1>2, <2>1, PartsOfARing, Zenon
  <2>3. \A i \in 1 .. size :
          Ring(queue, head, size)[i] = queue[(head + i - 1) % Capacity]
    BY <1>2, <1>4, <1>5, RingIsASequence
  <2>4. \A i \in 1 .. queue_size : old[i] \in Nat
    BY <1>2, RingIsASequence, ElementOfSeq
  <2>5. \A i \in 1 .. queue_size - discarded : rest[i] = old[discarded + i]
    BY <1>2, <2>1, <2>4, EndOfASequence, Zenon
  <2> QED
    BY <2>1, <2>2, <2>3, <2>5, Zenon
<1>13. ASSUME NEW i \in 1 .. size
       PROVE  after[i] = newest[i]
  <2>1. /\ i \in 1 .. size + kept /\ lost = discarded
        /\ discarded + i \in 1 .. queue_size
    BY <1>2, <1>3, <1>4, <1>4a
  <2>2. after[i] = Pending[discarded + i]
    BY <1>10, <1>11, <1>12, <2>1, Zenon
  <2>3. newest[i] = all[discarded + i]
    BY <1>9, <2>1, Zenon
  <2> QED
    BY <1>8, <2>1, <2>2, <2>3, Zenon
<1>14. ASSUME NEW i \in size + 1 .. size + kept
       PROVE  after[i] = newest[i]
  <2>1. /\ i \in 1 .. size + kept
        /\ lost + i \in queue_size + 1 .. queue_size + count
        /\ (given + skipped + 1) + (i - 1 - size)
             = given + ((lost + i) - queue_size)
    BY <1>2, <1>3, <1>4, <1>4a
  <2>2. after[i] = (given + skipped + 1) + (i - 1 - size)
    BY <1>10, <1>11, <2>1, Zenon
  <2>3. newest[i] = given + ((lost + i) - queue_size)
    BY <1>8, <1>9, <2>1, Zenon
  <2> QED
    BY <2>1, <2>2, <2>3, Zenon
<1>15. after = newest
  <2>1. size \in Nat /\ kept \in Nat
    BY <1>3, <1>4
  <2>2. ASSUME NEW i \in 1 .. size + kept
        PROVE  after[i] = newest[i]
    <3>1. i \in 1 .. size \/ i \in size + 1 .. size + kept
      BY <2>1
    <3> QED
      BY <1>13, <1>14, <3>1, Zenon
  <2> HIDE DEF after
  <2> QED
    BY <1>9, <1>10, <2>2, SeqEqual
<1>16. Pending' = newest
  <2>1. Pending' = Ring(queue', queue_head', queue_size')
    BY DEF Pending, Ring
  <2> QED
    BY <1>1, <1>15, <2>1, Zenon
<1>17. dropped_frames' = dropped_frames + Len(Pending) + count - Len(Pending')
  <2>1. Len(Pending) = queue_size /\ Len(Pending') = size + kept
    BY <1>9, <1>16, PendingIsTheRing
  <2>2. dropped_frames' = dropped_frames + lost
    BY <1>1, <1>2, <1>4, <1>4a
  <2>3. PICK old \in Nat, new \in Nat :
          /\ old = Len(Pending) /\ new = Len(Pending')
          /\ old = queue_size /\ new = size + kept
    BY <1>2, <1>3, <1>4, <2>1
  <2>4. lost = old + count - new
    BY <1>2, <1>3, <1>4, <1>4a, <2>3
  <2>5. dropped_frames' = dropped_frames + old + count - new
    BY <1>2, <2>2, <2>4
  <2> QED
    BY <2>3, <2>5, Zenon
<1> QED
  BY <1>1, <1>16, <1>17 DEF Fifo!Give, newest, all

-----------------------------------------------------------------------------
\* A ring of no slots is the empty queue.
LEMMA EmptyRing ==
  ASSUME NEW q, NEW h
  PROVE  Ring(q, h, 0) = <<>>
<1>1. Ring(q, h, 0) \in [1 .. 0 -> Nat]
  BY DEF Ring
<1>2. Ring(q, h, 0) \in Seq(Nat) /\ Len(Ring(q, h, 0)) = 0
  BY <1>1, SequenceOf
<1> QED
  BY <1>2, EmptySeq

\* What leaves the ring alone leaves the queue alone.
LEMMA SamePending ==
  ASSUME UNCHANGED ring
  PROVE  Pending' = Pending
  BY DEF ring, Pending

\* A closed device is the queue's initial state.
LEMMA ResetRestarts ==
  ASSUME Reset
  PROVE  Fifo!Restart
<1>1. /\ given' = 0 /\ dropped_frames' = 0 /\ output' = <<>>
      /\ queue_size' = 0
  BY DEF Reset
<1>2. Pending' = Ring(queue', queue_head', queue_size')
  BY DEF Pending, Ring
<1>3. Pending' = <<>>
  BY <1>1, <1>2, EmptyRing
<1> QED
  BY <1>1, <1>3 DEF Fifo!Restart, Fifo!Init

\* The worker takes a chunk, stops or sleeps.
LEMMA TakeChunkTakes ==
  ASSUME AudioInv, TakeChunk
  PROVE  Fifo!Take \/ UNCHANGED Fifo!vars
<1>1. UNCHANGED <<given, dropped_frames>>
  BY DEF TakeChunk
<1>2. CASE UNCHANGED <<ring, output>>
  BY <1>1, <1>2, SamePending DEF Fifo!vars
<1>3. CASE ~UNCHANGED <<ring, output>>
  <2> DEFINE count == Smaller(queue_size, Chunk)
  <2>1. /\ worker = "lock" /\ queue_size # 0
        /\ output' = ChunkAtHead(count) /\ queue_head' = Advance(count)
        /\ queue_size' = queue_size - count /\ queue' = queue
    BY <1>3 DEF TakeChunk
  <2>2. /\ Pending = Ring(queue, queue_head, queue_size)
        /\ Len(Pending) = queue_size /\ queue \in [Slots -> Nat]
        /\ queue_head \in Nat /\ queue_size \in Nat
    BY PendingIsTheRing DEF AudioInv
  <2>3. count \in 1 .. queue_size /\ count \in 0 .. queue_size
    BY <2>1, <2>2, AudioAssumption DEF Smaller
  <2> HIDE DEF count
  <2>4. output = <<>>
    BY <2>1 DEF AudioInv, ThreadInv
  <2>5. output' = SubSeq(Pending, 1, count)
    <3>1. output' = Ring(queue, queue_head, count)
      BY <2>1 DEF ChunkAtHead, Ring
    <3> QED
      BY <2>2, <2>3, <3>1, PartsOfARing, Zenon
  <2>6. Pending' = SubSeq(Pending, count + 1, queue_size)
    <3>1. Pending' = Ring(queue', queue_head', queue_size')
      BY DEF Pending, Ring
    <3>2. Pending' = Ring(queue, (queue_head + count) % Capacity,
                          queue_size - count)
      BY <2>1, <3>1, Zenon DEF Advance
    <3> QED
      BY <2>2, <2>3, <3>2, PartsOfARing, Zenon
  <2> QED
    BY <1>1, <2>2, <2>3, <2>4, <2>5, <2>6, Zenon DEF Fifo!Take
<1> QED
  BY <1>2, <1>3

\* The device takes a part of the chunk.
LEMMA WriteSomePlays ==
  ASSUME WriteSome
  PROVE  Fifo!Play
<1>1. UNCHANGED <<given, dropped_frames>> /\ Pending' = Pending
  BY SamePending DEF WriteSome
<1> QED
  BY <1>1 DEF WriteSome, Fifo!Play

\* What was waiting when the device failed is gone.
LEMMA MarkFailedFails ==
  ASSUME MarkFailed
  PROVE  Fifo!Fail
<1>1. UNCHANGED <<given, dropped_frames>> /\ output' = <<>> /\ queue_size' = 0
  BY DEF MarkFailed
<1>2. Pending' = Ring(queue', queue_head', queue_size')
  BY DEF Pending, Ring
<1>3. Pending' = <<>>
  BY <1>1, <1>2, EmptyRing
<1> QED
  BY <1>1, <1>3 DEF Fifo!Fail

\* Main's part: a call of enqueue gives its batch, or finds that the worker has
\* failed.
LEMMA QueueGives ==
  ASSUME FrontInv, Queue
  PROVE  (\E n \in 1 .. MaxFrames : Fifo!Give(n)) \/ UNCHANGED Fifo!vars
<1>1. CASE batch > 0 /\ ~worker_failed
  <2>1. Enqueue(batch)
    BY <1>1 DEF Queue
  <2>2. /\ Store(batch) /\ UNCHANGED output /\ given + batch <= MaxFrames
    BY <2>1 DEF Enqueue
  <2>3. TypeOK /\ given \in Nat /\ batch \in Nat
    BY DEF FrontInv, AudioInv, RateInv, TypeOK
  <2>4. batch \in 1 .. MaxFrames
    BY <1>1, <2>2, <2>3, AudioAssumption
  <2> QED
    BY <2>2, <2>3, <2>4, StoreGives
<1>2. CASE ~(batch > 0 /\ ~worker_failed)
  <2>1. UNCHANGED audio
    BY <1>2 DEF Queue
  <2> QED
    BY <2>1, SamePending DEF audio, ring, Fifo!vars
<1> QED
  BY <1>1, <1>2

\* Every step of an emulator is a step of the queue, or none of its business.
LEMMA StepsOfTheQueue ==
  ASSUME FrontInv, [EmulatorNext]_emulatorVars
  PROVE  [Fifo!Next]_Fifo!vars
<1>1. AudioInv
  BY DEF FrontInv
<1>2. CASE \/ Silent \/ Sound \/ Signal \/ Relaunch \/ UNCHANGED emulatorVars
  <2>1. UNCHANGED audio
    BY <1>2, SilentSteps DEF Sound, Signal, Relaunch, emulatorVars
  <2> QED
    BY <2>1, SamePending DEF audio, ring, Fifo!vars
<1>3. CASE \/ OpenAudio /\ OpenDevice
           \/ CloseAudio /\ CloseDevice
           \/ SpuriousWakeup \/ WriteFails
  <2>1. UNCHANGED <<ring, given, output, dropped_frames>>
    BY <1>3 DEF OpenDevice, CloseDevice, SpuriousWakeup, WriteFails
  <2> QED
    BY <2>1, SamePending DEF Fifo!vars
<1>4. CASE Queue
  BY <1>4, QueueGives DEF Fifo!Next
<1>5. CASE JoinAudio \/ Kill
  BY <1>5, ResetRestarts DEF JoinAudio, Join, Kill, Fifo!Next
<1>6. CASE Worker
  BY <1>1, <1>6, TakeChunkTakes, WriteSomePlays, MarkFailedFails
     DEF Worker, Fifo!Next
<1> QED
  BY <1>2, <1>3, <1>4, <1>5, <1>6, StepsOfAnEmulator

\* The emulators' audio queue, with everything that happens around it, loses
\* nothing but its oldest frames and hands on the others in their order
\* (deck_runtime.cpp:626): a ring of any capacity implements the lossy queue.
THEOREM RingIsAQueue == EmulatorSpec => ImplementsFifo
<1>1. EmulatorInit => Fifo!Init
  <2> SUFFICES ASSUME EmulatorInit
               PROVE  Fifo!Init
    OBVIOUS
  <2>1. /\ given = 0 /\ dropped_frames = 0 /\ output = <<>> /\ queue_size = 0
    BY DEF EmulatorInit, Init
  <2>2. Pending = Ring(queue, queue_head, queue_size)
    BY DEF Pending, Ring
  <2>3. Pending = <<>>
    BY <2>1, <2>2, EmptyRing
  <2> QED
    BY <2>1, <2>3 DEF Fifo!Init
<1>2. FrontInv /\ [EmulatorNext]_emulatorVars => [Fifo!Next]_Fifo!vars
  BY StepsOfTheQueue
<1> QED
  BY <1>1, <1>2, FrontInvariant, PTL DEF EmulatorSpec, ImplementsFifo, Fifo!Spec

-----------------------------------------------------------------------------
(* A device that is there hangs on a port of its own and has a number of   *)
(* its own; neither ever changes.                                          *)
Plugged(d) == devices[d].port # None /\ devices[d].path # None
DevicesDiffer ==
  /\ \A d \in Alive : Plugged(d)
  /\ \A d, e \in Alive : d # e => devices[d].port # devices[e].port
                                  /\ devices[d].path # devices[e].path

(* A slot knows where the device it has open hangs.                        *)
SlotsKnowTheirs ==
  \A p \in Players : Open(slots[p]) =>
    /\ slots[p].fd \in Devices /\ Plugged(slots[p].fd)
    /\ slots[p].port = devices[slots[p].fd].port
    /\ slots[p].path = devices[slots[p].fd].path

(* The devices found by a scan differ from each other and from those that  *)
(* are open, by their numbers; nobody else has their ports among them.     *)
CandidatesAreNew ==
  /\ \A d \in candidates : Plugged(d)
  /\ \A d \in candidates, p \in Players :
       Open(slots[p]) => slots[p].path # devices[d].path
  /\ \A d, e \in candidates : d # e => devices[d].port # devices[e].port
                                       /\ devices[d].path # devices[e].path

(* What is still to be drained is open, and the one whose events are being *)
(* looked at is a controller.                                              *)
ReadyIsOpen ==
  /\ thread \in {"drain", "batch"} =>
       \A p \in ready \ {Keyboard} : Open(slots[p])
  /\ thread = "batch" => ready # {} /\ Keyboard \notin ready

JoypadInv == /\ SlotsInv /\ DevicesDiffer /\ SlotsKnowTheirs
             /\ CandidatesAreNew /\ ReadyIsOpen

----------------------------------------------------------------------------
(* The operators. *)

\* The least of some numbers is one of them.
LEMMA LeastOfSome ==
  ASSUME NEW S \in SUBSET Nat, S # {}
  PROVE  Min(S) \in S /\ \A j \in S : Min(S) <= j
BY LeastIs DEF Min

\* What the kernel keeps for a reader never grows beyond its buffer.
LEMMA PushFits ==
  ASSUME NEW q \in Seq(EventKinds), Len(q) <= BufferSize, NEW e \in EventKinds
  PROVE  Push(q, e) \in Seq(EventKinds) /\ Len(Push(q, e)) <= BufferSize
<1>1. CASE Len(q) < BufferSize
  BY <1>1, JoypadAssumption DEF Push
<1>2. CASE ~(Len(q) < BufferSize)
  <2>1. "dropped" \in EventKinds
    BY DEF EventKinds
  <2>2. <<"dropped", e>> \in Seq(EventKinds) /\ Len(<<"dropped", e>>) = 2
    BY <2>1
  <2> QED
    BY <1>2, <2>2, JoypadAssumption DEF Push
<1> QED
  BY <1>1, <1>2

\* Asking a device for its keys never lets what is kept of its events grow.
LEMMA UnkeyedFits ==
  ASSUME NEW q \in Seq(EventKinds), Len(q) <= BufferSize
  PROVE  Unkeyed(q) \in Seq(EventKinds) /\ Len(Unkeyed(q)) <= BufferSize
<1>1. "dropped" \in EventKinds /\ "report" \in EventKinds
  BY DEF EventKinds
<1>2. <<"dropped", "report">> \in Seq(EventKinds) /\ Len(<<"dropped", "report">>) = 2
  BY <1>1
<1>3. <<"report">> \in Seq(EventKinds) /\ Len(<<"report">>) = 1
  BY <1>1
<1>4. \/ Unkeyed(q) = q
      \/ Unkeyed(q) = <<"dropped", "report">>
      \/ Unkeyed(q) = <<"report">>
  BY DEF Unkeyed
<1>5. CASE Unkeyed(q) = <<"dropped", "report">>
  BY <1>2, <1>5, JoypadAssumption
<1>6. CASE Unkeyed(q) = <<"report">>
  BY <1>3, <1>6, JoypadAssumption
<1> QED
  BY <1>4, <1>5, <1>6

\* The events of every device still fit when one of them is asked.
LEMMA UnkeyedKeeps ==
  ASSUME SlotsOK, NEW d \in Devices, unread' = [unread EXCEPT ![d] = Unkeyed(@)]
  PROVE  /\ unread' \in [Devices -> Seq(EventKinds)]
         /\ \A e \in Devices : Len(unread'[e]) <= BufferSize
<1> DEFINE u == Unkeyed(unread[d])
<1>1. unread \in [Devices -> Seq(EventKinds)]
      /\ \A e \in Devices : Len(unread[e]) <= BufferSize
  BY DEF SlotsOK
<1>2. u \in Seq(EventKinds) /\ Len(u) <= BufferSize
  BY <1>1, UnkeyedFits
<1>3. unread' = [unread EXCEPT ![d] = u]
  BY <1>1
<1> HIDE DEF u
<1>4. unread' \in [Devices -> Seq(EventKinds)]
  BY <1>1, <1>2, <1>3
<1>5. \A e \in Devices : unread'[e] = IF e = d THEN u ELSE unread[e]
  BY <1>1, <1>3
<1> QED
  BY <1>1, <1>2, <1>4, <1>5

\* The first of some candidates is one of them: their ports differ.
LEMMA FirstIsOne ==
  ASSUME SlotsOK, CandidatesAreNew, NEW ds \in SUBSET candidates, ds # {}
  PROVE  First(ds) \in ds
<1> DEFINE ports == {devices[d].port : d \in ds}
<1>1. ports \in SUBSET Nat /\ ports # {}
  BY JoypadAssumption DEF SlotsOK, CandidatesAreNew, Plugged, Device
<1>2. PICK port \in ports : \A other \in ports : port <= other
  BY <1>1, LeastIs
<1>3. PICK d \in ds : devices[d].port = port
  BY <1>2
<1>4. ASSUME NEW other \in ds \ {d}
      PROVE  devices[d].port < devices[other].port
  <2>1. devices[d].port <= devices[other].port
    BY <1>2, <1>3
  <2>2. devices[d].port # devices[other].port
    BY DEF CandidatesAreNew
  <2>3. devices[d].port \in Nat /\ devices[other].port \in Nat
    BY <1>1, <1>3
  <2> QED
    BY <2>1, <2>2, <2>3
<1> QED
  BY <1>3, <1>4 DEF First

\* A slot that has been closed knows nothing but, perhaps, its port.
LEMMA ClosedIs ==
  ASSUME NEW slot \in Slot, NEW remember \in BOOLEAN
  PROVE  /\ Closed(slot, remember) \in Slot
         /\ ~Open(Closed(slot, remember))
         /\ ~Closed(slot, remember).state
         /\ Closed(slot, remember)
              = [Empty EXCEPT !.port = Closed(slot, remember).port]
BY DEF Closed, Empty, Slot, Open

\* A device that is asked says up or down.
LEMMA ResynchronizedIs ==
  ASSUME SlotsOK, NEW d \in Devices
  PROVE  Resynchronized(d) \in BOOLEAN
BY DEF Resynchronized, SlotsOK, Device

\* An event changes what a slot says, never whose it is.
LEMMA AppliedIs ==
  ASSUME SlotsOK, NEW slot \in Slot, slot.fd \in Devices,
         NEW event \in EventKinds
  PROVE  /\ Apply(slot, event) \in Slot
         /\ Apply(slot, event).fd = slot.fd
         /\ Apply(slot, event).path = slot.path
         /\ Apply(slot, event).port = slot.port
BY ResynchronizedIs DEF Apply, Slot

\* What is published is a state for each player.
LEMMA PublishedIs ==
  ASSUME NEW pads \in [Players -> Slot], NEW button \in BOOLEAN
  PROVE  PublishedStates(pads, button) \in [Players -> BOOLEAN]
BY DEF PublishedStates, Slot

----------------------------------------------------------------------------
(* The kernel and the hands. *)

\* A device that is new is on a port and under a number nobody has.
LEMMA PlugKeeps == JoypadInv /\ Plug => JoypadInv'
<1> SUFFICES ASSUME JoypadInv, Plug PROVE JoypadInv'
  OBVIOUS
<1> USE DEF JoypadInv, SlotsInv
<1>1. PICK d \in Devices, port \in FreePorts, path \in FreePaths :
        /\ devices[d].port = None
        /\ devices' = [devices EXCEPT ![d] = [port |-> port, path |-> path,
                                              alive |-> TRUE, down |-> FALSE]]
  BY DEF Plug
<1>2. UNCHANGED <<unread, stale, slots, candidates, thread, ready, events, keyboard,
                  pad_state, input_running>>
  BY DEF Plug, reports
<1>4. /\ devices' \in [Devices -> Device]
      /\ devices'[d] = [port |-> port, path |-> path, alive |-> TRUE, down |-> FALSE]
      /\ \A e \in Devices : e # d => devices'[e] = devices[e]
      /\ port # None /\ path # None
  BY <1>1, JoypadAssumption DEF SlotsOK, Device, FreePorts, FreePaths
<1>5. SlotsOK'
  BY <1>2, <1>4 DEF SlotsOK, keyboard, Open, Empty
<1>6. NoSharing' /\ PublishedIsCurrent'
  BY <1>2 DEF NoSharing, PublishedIsCurrent, PublishedStates, Open, keyboard
<1>7. Alive' = Alive \cup {d}
  BY <1>4 DEF Alive
<1>8. DevicesDiffer'
  BY <1>4, <1>7 DEF DevicesDiffer, Plugged, Alive, FreePorts, FreePaths
<1>9. \A e \in Devices : Plugged(e) => devices'[e] = devices[e] /\ Plugged(e)'
  BY <1>1, <1>4 DEF Plugged
<1>10. SlotsKnowTheirs'
  BY <1>2, <1>9 DEF SlotsKnowTheirs, Open
<1>11. candidates \subseteq Devices
  BY DEF SlotsOK
<1>12. CandidatesAreNew'
  BY <1>2, <1>9, <1>11 DEF CandidatesAreNew, Open
<1>13. ReadyIsOpen'
  BY <1>2 DEF ReadyIsOpen, Open
<1> QED
  BY <1>5, <1>6, <1>8, <1>10, <1>12, <1>13

\* Nothing that happens to a device changes its port or its number.
SamePlaces ==
  /\ devices' \in [Devices -> Device]
  /\ \A d \in Devices : devices'[d].port = devices[d].port
                        /\ devices'[d].path = devices[d].path
                        /\ (devices'[d].alive => devices[d].alive)

\* What relates devices to slots needs only ports and numbers.
LEMMA SamePlacesKeep ==
  ASSUME JoypadInv, SamePlaces, UNCHANGED <<slots, candidates, thread, ready>>
  PROVE  DevicesDiffer' /\ SlotsKnowTheirs' /\ CandidatesAreNew' /\ ReadyIsOpen'
<1> USE DEF JoypadInv, SlotsInv
<1>1. candidates \subseteq Devices
  BY DEF SlotsOK
<1>2. Alive' \subseteq Alive
  BY DEF Alive, SamePlaces
<1>3. \A d \in Devices : Plugged(d)' <=> Plugged(d)
  BY DEF Plugged, SamePlaces
<1>4. DevicesDiffer'
  BY <1>2, <1>3 DEF DevicesDiffer, SamePlaces, Alive
<1>5. SlotsKnowTheirs'
  BY <1>3 DEF SlotsKnowTheirs, SamePlaces, Open
<1>6. CandidatesAreNew'
  BY <1>1, <1>3 DEF CandidatesAreNew, SamePlaces, Open
<1>7. ReadyIsOpen'
  BY DEF ReadyIsOpen, Open
<1> QED
  BY <1>4, <1>5, <1>6, <1>7

\* Pulling a device out leaves it its port and its number.
LEMMA UnplugKeeps == JoypadInv /\ Unplug => JoypadInv'
<1> SUFFICES ASSUME JoypadInv, Unplug PROVE JoypadInv'
  OBVIOUS
<1> USE DEF JoypadInv, SlotsInv
<1>1. PICK d \in Alive :
        /\ devices' = [devices EXCEPT ![d].alive = FALSE, ![d].down = FALSE]
        /\ unread' = [unread EXCEPT ![d] = <<>>]
  BY DEF Unplug
<1>2. UNCHANGED <<slots, candidates, thread, ready, events, keyboard,
                  pad_state, input_running, budget, stale>>
  BY DEF Unplug
<1>3. SamePlaces
  <2>1. d \in Devices
    BY DEF Alive
  <2>2. /\ devices'[d] = [devices[d] EXCEPT !.alive = FALSE, !.down = FALSE]
        /\ devices[d] \in Device
        /\ \A e \in Devices : e # d => devices'[e] = devices[e]
    BY <1>1, <2>1 DEF SlotsOK
  <2>3. DOMAIN devices' = Devices /\ devices' = [e \in Devices |-> devices'[e]]
    BY <1>1 DEF SlotsOK
  <2>4. /\ devices'[d] \in Device /\ devices'[d].port = devices[d].port
        /\ devices'[d].path = devices[d].path /\ ~devices'[d].alive
    BY <2>2 DEF Device
  <2>5. \A e \in Devices : devices'[e] \in Device
    BY <2>2, <2>4 DEF SlotsOK
  <2> QED
    BY <2>2, <2>3, <2>4, <2>5 DEF SamePlaces
<1>4. /\ unread' \in [Devices -> Seq(EventKinds)]
      /\ \A e \in Devices : Len(unread'[e]) <= BufferSize
  <2>1. <<>> \in Seq(EventKinds) /\ Len(<<>>) = 0
    OBVIOUS
  <2>2. unread \in [Devices -> Seq(EventKinds)]
        /\ \A e \in Devices : Len(unread[e]) <= BufferSize
    BY DEF SlotsOK
  <2>3. unread' \in [Devices -> Seq(EventKinds)]
    BY <1>1, <2>1, <2>2
  <2>4. \A e \in Devices : unread'[e] = <<>> \/ unread'[e] = unread[e]
    BY <1>1, <2>2
  <2> QED
    BY <2>1, <2>2, <2>3, <2>4, JoypadAssumption
<1>5. SlotsOK'
  BY <1>2, <1>3, <1>4 DEF SlotsOK, SamePlaces, keyboard, Open, Empty
<1>6. NoSharing' /\ PublishedIsCurrent'
  BY <1>2 DEF NoSharing, PublishedIsCurrent, PublishedStates, Open, keyboard
<1> QED
  BY <1>2, <1>3, <1>5, <1>6, SamePlacesKeep

\* A button moves: two events for a reader, which may overflow.
LEMMA PressKeeps == JoypadInv /\ Press => JoypadInv'
<1> SUFFICES ASSUME JoypadInv, Press PROVE JoypadInv'
  OBVIOUS
<1> USE DEF JoypadInv, SlotsInv
<1>1. PICK d \in Alive :
        /\ devices' = [devices EXCEPT ![d].down = ~@]
        /\ unread' = IF IsOpen(d)
                     THEN [unread EXCEPT
                             ![d] = Push(Push(@, IF devices[d].down
                                                 THEN "up" ELSE "down"), "report")]
                     ELSE unread
        /\ stale' \subseteq stale
  BY DEF Press
<1>2. UNCHANGED <<slots, candidates, thread, ready, events, keyboard,
                  pad_state, input_running>>
  BY DEF Press
<1>3. d \in Devices
  BY DEF Alive
<1>4. SamePlaces
  <2>2. /\ devices'[d] = [devices[d] EXCEPT !.down = ~@]
        /\ devices[d] \in Device
        /\ \A e \in Devices : e # d => devices'[e] = devices[e]
    BY <1>1, <1>3 DEF SlotsOK
  <2>3. DOMAIN devices' = Devices /\ devices' = [e \in Devices |-> devices'[e]]
    BY <1>1 DEF SlotsOK
  <2>4. /\ devices'[d] \in Device /\ devices'[d].port = devices[d].port
        /\ devices'[d].path = devices[d].path /\ devices'[d].alive = devices[d].alive
    BY <2>2 DEF Device
  <2>5. \A e \in Devices : devices'[e] \in Device
    BY <2>2, <2>4 DEF SlotsOK
  <2> QED
    BY <2>2, <2>3, <2>4, <2>5 DEF SamePlaces
<1>5. /\ unread' \in [Devices -> Seq(EventKinds)]
      /\ \A e \in Devices : Len(unread'[e]) <= BufferSize
  <2> DEFINE button == IF devices[d].down THEN "up" ELSE "down"
             more == Push(Push(unread[d], button), "report")
  <2>1. button \in EventKinds /\ "report" \in EventKinds
    BY DEF EventKinds
  <2>2. unread[d] \in Seq(EventKinds) /\ Len(unread[d]) <= BufferSize
    BY <1>3 DEF SlotsOK
  <2>3. /\ Push(unread[d], button) \in Seq(EventKinds)
        /\ Len(Push(unread[d], button)) <= BufferSize
    BY <2>1, <2>2, PushFits
  <2>4. more \in Seq(EventKinds) /\ Len(more) <= BufferSize
    BY <2>1, <2>3, PushFits
  <2>5. unread' = unread \/ unread' = [unread EXCEPT ![d] = more]
    BY <1>1
  <2>6. unread \in [Devices -> Seq(EventKinds)]
        /\ \A e \in Devices : Len(unread[e]) <= BufferSize
    BY DEF SlotsOK
  <2>7. CASE unread' = [unread EXCEPT ![d] = more]
    <3> HIDE DEF more
    <3>1. unread' \in [Devices -> Seq(EventKinds)]
      BY <2>4, <2>6, <2>7
    <3>2. \A e \in Devices : unread'[e] = IF e = d THEN more ELSE unread[e]
      BY <2>6, <2>7
    <3> QED
      BY <2>4, <2>6, <3>1, <3>2
  <2> QED
    BY <2>5, <2>6, <2>7
<1>6. stale' \subseteq Devices
  BY <1>1 DEF SlotsOK
<1>7. SlotsOK'
  BY <1>2, <1>4, <1>5, <1>6 DEF SlotsOK, SamePlaces, keyboard, Open, Empty
<1>8. NoSharing' /\ PublishedIsCurrent'
  BY <1>2 DEF NoSharing, PublishedIsCurrent, PublishedStates, Open, keyboard
<1> QED
  BY <1>2, <1>4, <1>7, <1>8, SamePlacesKeep

\* A key moves.
LEMMA StrokeKeeps == JoypadInv /\ Stroke => JoypadInv'
<1> SUFFICES ASSUME JoypadInv, Stroke PROVE JoypadInv'
  OBVIOUS
<1> USE DEF JoypadInv, SlotsInv
<1>1. PICK key \in Keys :
        /\ held' = IF key \in held THEN held \ {key} ELSE held \cup {key}
        /\ typed' = IF keyboard_open
                    THEN Append(typed, [key |-> key, pressed |-> key \notin held])
                    ELSE typed
  BY DEF Stroke
<1>2. UNCHANGED <<devices, unread, stale, slots, candidates, thread, ready, events,
                  keyboard_open, keyboard_key_state, keyboard_state,
                  pad_state, input_running>>
  BY DEF Stroke, reports
<1>3. SamePlaces
  BY <1>2 DEF SamePlaces, SlotsOK
<1>4. held' \subseteq Keys /\ typed' \in Seq([key : Keys, pressed : BOOLEAN])
  <2>1. [key |-> key, pressed |-> key \notin held] \in [key : Keys, pressed : BOOLEAN]
    OBVIOUS
  <2>2. held \subseteq Keys /\ typed \in Seq([key : Keys, pressed : BOOLEAN])
    BY DEF SlotsOK
  <2>3. held' \subseteq Keys
    BY <1>1, <2>2
  <2> DEFINE stroke == [key |-> key, pressed |-> key \notin held]
  <2>4. Append(typed, stroke) \in Seq([key : Keys, pressed : BOOLEAN])
    <3> HIDE DEF stroke
    <3> QED
      BY <2>1, <2>2 DEF stroke
  <2> QED
    BY <1>1, <2>2, <2>3, <2>4
<1>6. SlotsOK'
  BY <1>2, <1>4 DEF SlotsOK, Open, Empty
<1>7. NoSharing' /\ PublishedIsCurrent'
  BY <1>2 DEF NoSharing, PublishedIsCurrent, PublishedStates, Open
<1> QED
  BY <1>2, <1>3, <1>6, <1>7, SamePlacesKeep

----------------------------------------------------------------------------
(* Discovery. *)

\* Only devices under numbers that no slot has open are opened.
LEMMA ScanKeeps == JoypadInv /\ Scan => JoypadInv'
<1> SUFFICES ASSUME JoypadInv, Scan PROVE JoypadInv'
  OBVIOUS
<1> USE DEF JoypadInv, SlotsInv
<1>1. /\ candidates' = {d \in Alive : \A p \in Players : slots[p].path # devices[d].path}
      /\ unread' = [d \in Devices |-> IF d \in candidates' THEN <<>> ELSE unread[d]]
      /\ thread' = "assign"
      /\ UNCHANGED <<devices, slots, ready, events, held, typed, keyboard_open,
                     keyboard_key_state, keyboard_state, pad_state, input_running,
                     stale>>
  BY DEF Scan, world, keyboard
<1>2. candidates' \subseteq Alive /\ Alive \subseteq Devices
  BY <1>1 DEF Alive
<1>3. /\ unread' \in [Devices -> Seq(EventKinds)]
      /\ \A e \in Devices : Len(unread'[e]) <= BufferSize
  <2>1. <<>> \in Seq(EventKinds) /\ Len(<<>>) = 0
    OBVIOUS
  <2>2. unread \in [Devices -> Seq(EventKinds)]
        /\ \A e \in Devices : Len(unread[e]) <= BufferSize
    BY DEF SlotsOK
  <2>3. \A e \in Devices : (IF e \in candidates' THEN <<>> ELSE unread[e])
                             \in Seq(EventKinds)
    BY <2>1, <2>2
  <2>4. unread' \in [Devices -> Seq(EventKinds)]
    BY <1>1, <2>3
  <2>5. \A e \in Devices : unread'[e] = <<>> \/ unread'[e] = unread[e]
    BY <1>1
  <2> QED
    BY <2>1, <2>2, <2>4, <2>5, JoypadAssumption
<1>4. SlotsOK'
  BY <1>1, <1>2, <1>3 DEF SlotsOK, Open, Empty
<1>5. NoSharing' /\ PublishedIsCurrent'
  BY <1>1 DEF NoSharing, PublishedIsCurrent, PublishedStates, Open
<1>6. DevicesDiffer' /\ SlotsKnowTheirs'
  BY <1>1 DEF DevicesDiffer, SlotsKnowTheirs, Alive, Plugged, Open
<1>7. CandidatesAreNew'
  BY <1>1, <1>2 DEF DevicesDiffer, CandidatesAreNew, Plugged, Open
<1>8. ReadyIsOpen'
  BY <1>1 DEF ReadyIsOpen
<1> QED
  BY <1>4, <1>5, <1>6, <1>7, <1>8

\* Whatever opens a new device keeps the slots apart.
LEMMA AttachesKeeps ==
  ASSUME JoypadInv, NEW p \in Players, ~Open(slots[p]), NEW d \in candidates,
         Attaches(p, d)
  PROVE  JoypadInv'
<1> USE DEF JoypadInv, SlotsInv
<1> DEFINE slot == [fd |-> d, path |-> devices[d].path,
                    port |-> devices[d].port, raw |-> Resynchronized(d),
                    state |-> Resynchronized(d), dropping |-> FALSE]
<1>1. /\ thread = "assign"
      /\ slots' = [slots EXCEPT ![p] = slot]
      /\ pad_state' = PublishedStates(slots', keyboard_state)
      /\ candidates' = candidates \ {d}
      /\ unread' = [unread EXCEPT ![d] = Unkeyed(@)] /\ stale' \subseteq stale
      /\ UNCHANGED <<devices, thread, ready, events, held, typed,
                     keyboard_open, keyboard_key_state, keyboard_state,
                     input_running>>
  BY DEF Attaches, Attach, world, keyboard
<1>2. d \in Devices /\ d # None /\ Plugged(d) /\ devices[d] \in Device
  BY JoypadAssumption DEF SlotsOK, CandidatesAreNew
<1>3. slot \in Slot
  BY <1>2, ResynchronizedIs DEF Slot, Device
<1>4. /\ slots' \in [Players -> Slot] /\ slots'[p] = slot
      /\ \A q \in Players : q # p => slots'[q] = slots[q]
  <2>1. slots \in [Players -> Slot]
    BY DEF SlotsOK
  <2> QED
    BY <1>1, <1>3, <2>1
<1>5. /\ slot.fd = d /\ slot.path = devices[d].path
      /\ slot.port = devices[d].port
  OBVIOUS
<1> HIDE DEF slot
<1>6. keyboard_state \in BOOLEAN
  BY DEF SlotsOK
<1>7. pad_state' \in [Players -> BOOLEAN]
  BY <1>1, <1>4, <1>6, PublishedIs
<1>8. Open(slots'[p])
  BY <1>2, <1>4, <1>5 DEF Open
<1>9. \A q \in Players : ~Open(slots'[q]) =>
        slots'[q] = [Empty EXCEPT !.port = slots'[q].port]
  BY <1>4, <1>8 DEF SlotsOK
<1>18. /\ unread' \in [Devices -> Seq(EventKinds)]
       /\ \A e \in Devices : Len(unread'[e]) <= BufferSize
  BY <1>1, <1>2, UnkeyedKeeps
<1>10. SlotsOK'
  BY <1>1, <1>4, <1>7, <1>9, <1>18 DEF SlotsOK, Open, Empty
<1>11. \A q \in Players \ {p} : Open(slots[q]) => slots[q].path # devices[d].path
                                                  /\ slots[q].fd # d
  BY DEF CandidatesAreNew, SlotsKnowTheirs
<1>12. NoSharing'
  BY <1>4, <1>5, <1>11 DEF NoSharing, Open, Players
<1>13. PublishedIsCurrent'
  BY <1>1 DEF PublishedIsCurrent, PublishedStates
<1>14. DevicesDiffer'
  BY <1>1 DEF DevicesDiffer, Alive, Plugged
<1>15. SlotsKnowTheirs'
  BY <1>1, <1>2, <1>4, <1>5 DEF SlotsKnowTheirs, Open, Plugged
<1>16. CandidatesAreNew'
  BY <1>1, <1>2, <1>4, <1>5 DEF CandidatesAreNew, Plugged, Open
<1>17. ReadyIsOpen'
  BY <1>1 DEF ReadyIsOpen
<1> QED
  BY <1>10, <1>12, <1>13, <1>14, <1>15, <1>16, <1>17

\* Each of the three loops gives a new device to a slot that is not open.
LEMMA LoopsAttach ==
  ASSUME JoypadInv, Return \/ Fill \/ TakeOver
  PROVE  \E p \in Players, d \in candidates :
           /\ ~Open(slots[p]) /\ Attaches(p, d)
           /\ \/ slots[p].port = devices[d].port
              \/ Returning = {}
<1> USE DEF JoypadInv, SlotsInv
<1>1. CASE Return
  <2>1. Returning \in SUBSET Nat /\ Returning # {}
    BY <1>1 DEF Return, Returning, Vacant, Players
  <2>2. Min(Returning) \in Returning
    BY <2>1, LeastOfSome
  <2> DEFINE p == Min(Returning)
             d == First(OnItsPort(p))
  <2>3. OnItsPort(p) \in SUBSET candidates /\ OnItsPort(p) # {}
    BY <2>2 DEF Returning, OnItsPort
  <2>4. d \in OnItsPort(p)
    BY <2>3, FirstIsOne
  <2>5. p \in Players /\ ~Open(slots[p])
    BY <2>2 DEF Returning, Vacant
  <2>6. d \in candidates /\ devices[d].port = slots[p].port
    BY <2>4 DEF OnItsPort
  <2>7. Attaches(p, d)
    BY <1>1 DEF Return
  <2> QED
    BY <2>5, <2>6, <2>7
<1>2. CASE Fill
  <2>1. Fresh \in SUBSET Nat /\ Fresh # {} /\ Fresh \subseteq Vacant
    BY <1>2 DEF Fill, Fresh, Vacant, Players
  <2>2. Min(Fresh) \in Vacant
    BY <2>1, LeastOfSome
  <2>3. First(candidates) \in candidates
    BY <1>2, FirstIsOne DEF Fill
  <2> QED
    BY <1>2, <2>2, <2>3 DEF Fill, Vacant
<1>3. CASE TakeOver
  <2>1. Vacant \in SUBSET Nat /\ Vacant # {}
    BY <1>3 DEF TakeOver, Vacant, Players
  <2>2. Min(Vacant) \in Vacant
    BY <2>1, LeastOfSome
  <2>3. First(candidates) \in candidates
    BY <1>3, FirstIsOne DEF TakeOver
  <2> QED
    BY <1>3, <2>2, <2>3 DEF TakeOver, Vacant
<1> QED
  BY <1>1, <1>2, <1>3

\* Steps that leave the slots, the devices and the keyboard alone.
LEMMA QuietKeeps ==
  ASSUME JoypadInv, candidates' \in SUBSET candidates,
         UNCHANGED <<devices, slots, typed, held, keyboard_open,
                     keyboard_key_state, keyboard_state, pad_state>>,
         stale' \in SUBSET Devices, unread' \in [Devices -> Seq(EventKinds)],
         \A d \in Devices : Len(unread'[d]) <= BufferSize,
         events' \in Seq(EventKinds), input_running' \in BOOLEAN,
         thread' \in {"top", "assign", "poll", "drain", "batch", "ended", "joined"},
         thread' = "drain" => ready' # {},
         thread' = "batch" => events' # <<>>,
         ready' \in SUBSET (Players \cup {Keyboard}),
         ReadyIsOpen'
  PROVE  JoypadInv'
<1> USE DEF JoypadInv, SlotsInv
<1>1. SlotsOK'
  BY DEF SlotsOK, Open, Empty
<1>2. NoSharing' /\ PublishedIsCurrent'
  BY DEF NoSharing, PublishedIsCurrent, PublishedStates, Open
<1>3. DevicesDiffer' /\ SlotsKnowTheirs'
  BY DEF DevicesDiffer, SlotsKnowTheirs, Alive, Plugged, Open
<1>4. CandidatesAreNew'
  BY DEF CandidatesAreNew, Plugged, Open
<1> QED
  BY <1>1, <1>2, <1>3, <1>4

\* Closing what is left over, and the end of the thread.
LEMMA AssignedKeeps == JoypadInv /\ (Assigned \/ StopInput \/ ThreadEnds) => JoypadInv'
<1> SUFFICES ASSUME JoypadInv, Assigned \/ StopInput \/ ThreadEnds PROVE JoypadInv'
  OBVIOUS
<1>1. /\ candidates' \in SUBSET candidates
      /\ UNCHANGED <<devices, slots, typed, held, keyboard_open,
                     keyboard_key_state, keyboard_state, pad_state, unread, stale,
                     events, ready>>
      /\ thread' \in {"poll", "ended"} \/ UNCHANGED thread
      /\ input_running' \in {FALSE, input_running}
  BY DEF Assigned, StopInput, ThreadEnds, world, reports, keyboard
<1>2. ReadyIsOpen'
  BY <1>1 DEF JoypadInv, ReadyIsOpen, Open
<1>3. SlotsOK
  BY DEF JoypadInv, SlotsInv
<1> QED
  BY <1>1, <1>2, <1>3, QuietKeeps DEF SlotsOK

----------------------------------------------------------------------------
(* Events. *)

\* Only what is open is reported as readable.
LEMMA PollKeeps == JoypadInv /\ Poll => JoypadInv'
<1> SUFFICES ASSUME JoypadInv, Poll PROVE JoypadInv'
  OBVIOUS
<1>1. /\ UNCHANGED <<candidates, devices, slots, typed, held, keyboard_open,
                     keyboard_key_state, keyboard_state, pad_state, unread, stale,
                     events, input_running>>
      /\ ready' = Readable
      /\ thread' = IF Readable = {} THEN "top" ELSE "drain"
  BY DEF Poll, world, reports, keyboard
<1>2. /\ Readable \subseteq Players \cup {Keyboard}
      /\ \A p \in Readable \ {Keyboard} : p \in Players /\ Open(slots[p])
  BY DEF Readable
<1>3. ReadyIsOpen'
  BY <1>1, <1>2 DEF ReadyIsOpen, Open
<1>4. SlotsOK
  BY DEF JoypadInv, SlotsInv
<1> QED
  BY <1>1, <1>2, <1>3, <1>4, QuietKeeps DEF SlotsOK

\* The keyboard's keys are keys.
LEMMA UpdatedIs ==
  ASSUME SlotsOK
  PROVE  UpdatedKeys \in SUBSET Keys /\ UpdatedButton \in BOOLEAN
<1>1. typed \in Seq([key : Keys, pressed : BOOLEAN]) /\ keyboard_state \in BOOLEAN
  BY DEF SlotsOK
<1>2. CASE typed = <<>>
  BY <1>1, <1>2 DEF UpdatedKeys, UpdatedButton
<1>3. CASE typed # <<>>
  <2>1. Len(typed) \in 1 .. Len(typed)
    BY <1>1, <1>3
  <2> DEFINE Strokes == [key : Keys, pressed : BOOLEAN]
  <2>2. typed[Len(typed)] \in Strokes
    <3>1. typed \in Seq(Strokes)
      BY <1>1
    <3> HIDE DEF Strokes
    <3> QED
      BY <2>1, <3>1
  <2> QED
    BY <1>3, <2>2 DEF UpdatedKeys, UpdatedButton, Last
<1> QED
  BY <1>2, <1>3

\* The keyboard is read, or closed.
LEMMA DrainKeyboardKeeps == JoypadInv /\ DrainKeyboard => JoypadInv'
<1> SUFFICES ASSUME JoypadInv, DrainKeyboard PROVE JoypadInv'
  OBVIOUS
<1> USE DEF JoypadInv, SlotsInv
<1>1. /\ thread = "drain"
      /\ ready' = ready \ {Keyboard}
      /\ thread' = IF ready = {Keyboard} THEN "top" ELSE "drain"
      /\ Keyboard \in ready
      /\ typed' = <<>> /\ pad_state' = PublishedStates(slots, keyboard_state')
      /\ UNCHANGED <<devices, unread, stale, slots, candidates, events, held,
                     input_running>>
  BY DEF DrainKeyboard, Drained, world, reports
<1>2. /\ keyboard_key_state' \in SUBSET Keys /\ keyboard_state' \in BOOLEAN
      /\ keyboard_open' \in BOOLEAN
  BY UpdatedIs DEF DrainKeyboard, SlotsOK
<1>3. pad_state' \in [Players -> BOOLEAN]
  BY <1>1, <1>2, PublishedIs DEF SlotsOK
<1>4. typed' \in Seq([key : Keys, pressed : BOOLEAN])
  BY <1>1
<1>5. SlotsOK'
  BY <1>1, <1>2, <1>3, <1>4 DEF SlotsOK, Open, Empty
<1>6. NoSharing' /\ PublishedIsCurrent'
  BY <1>1 DEF NoSharing, PublishedIsCurrent, PublishedStates, Open
<1>7. DevicesDiffer' /\ SlotsKnowTheirs' /\ CandidatesAreNew'
  BY <1>1 DEF DevicesDiffer, SlotsKnowTheirs, CandidatesAreNew, Alive, Plugged, Open
<1>8. ReadyIsOpen'
  BY <1>1 DEF ReadyIsOpen, Open
<1> QED
  BY <1>5, <1>6, <1>7, <1>8

\* The controller whose turn it is.
LEMMA CurrentIsOpen ==
  ASSUME JoypadInv, thread \in {"drain", "batch"}, Keyboard \notin ready
  PROVE  /\ Current \in ready /\ Current \in Players /\ Open(slots[Current])
         /\ slots[Current] \in Slot /\ slots[Current].fd \in Devices
<1> USE DEF JoypadInv, SlotsInv
<1>1. ready # {}
  BY DEF SlotsOK, ReadyIsOpen
<1>2. ready \in SUBSET Players
  BY DEF SlotsOK
<1>3. ready \in SUBSET Nat
  BY <1>2 DEF Players
<1>4. Current \in ready
  BY <1>1, <1>3, LeastOfSome DEF Current
<1>5. Open(slots[Current])
  BY <1>4 DEF ReadyIsOpen
<1> QED
  BY <1>2, <1>4, <1>5 DEF SlotsKnowTheirs, SlotsOK

\* A slot is written and published; it keeps its device or it is closed.
Rewritten(p, slot) ==
  /\ slot \in Slot
  /\ \/ /\ slot.fd = slots[p].fd /\ slot.path = slots[p].path
        /\ slot.port = slots[p].port /\ Open(slot)
     \/ ~Open(slot) /\ slot = [Empty EXCEPT !.port = slot.port]

\* Writing a slot disturbs neither the other one nor the candidates.
LEMMA PublishKeeps ==
  ASSUME JoypadInv, NEW p \in Players, NEW slot, Rewritten(p, slot),
         PublishSlot(p, slot), UNCHANGED <<devices, candidates, keyboard_state>>
  PROVE  /\ slots' \in [Players -> Slot] /\ slots'[p] = slot
         /\ \A q \in Players : q # p => slots'[q] = slots[q]
         /\ \A q \in Players : ~Open(slots'[q]) =>
              slots'[q] = [Empty EXCEPT !.port = slots'[q].port]
         /\ pad_state' \in [Players -> BOOLEAN]
         /\ NoSharing' /\ PublishedIsCurrent'
         /\ DevicesDiffer' /\ SlotsKnowTheirs' /\ CandidatesAreNew'
<1> USE DEF JoypadInv, SlotsInv
<1>1. slots \in [Players -> Slot] /\ keyboard_state \in BOOLEAN
  BY DEF SlotsOK
<1>2. slots' = [slots EXCEPT ![p] = slot]
      /\ pad_state' = PublishedStates(slots', keyboard_state)
  BY DEF PublishSlot
<1>3. /\ slots' \in [Players -> Slot] /\ slots'[p] = slot
      /\ \A q \in Players : q # p => slots'[q] = slots[q]
  BY <1>1, <1>2 DEF Rewritten
<1>4. \A q \in Players : ~Open(slots'[q]) =>
        slots'[q] = [Empty EXCEPT !.port = slots'[q].port]
  BY <1>3 DEF Rewritten, SlotsOK
<1>5. pad_state' \in [Players -> BOOLEAN]
  BY <1>1, <1>2, <1>3, PublishedIs
<1>6. \A q \in Players : Open(slots'[q]) =>
        /\ Open(slots[q]) /\ slots'[q].fd = slots[q].fd
        /\ slots'[q].path = slots[q].path /\ slots'[q].port = slots[q].port
  BY <1>3 DEF Rewritten, Open
<1>7. NoSharing'
  BY <1>6 DEF NoSharing, Players, Open
<1>8. PublishedIsCurrent'
  BY <1>2 DEF PublishedIsCurrent, PublishedStates
<1>9. DevicesDiffer'
  BY DEF DevicesDiffer, Alive, Plugged
<1>10. SlotsKnowTheirs'
  BY <1>6 DEF SlotsKnowTheirs, Plugged, Open
<1>11. CandidatesAreNew'
  BY <1>6 DEF CandidatesAreNew, Plugged, Open
<1> QED
  BY <1>3, <1>4, <1>5, <1>7, <1>8, <1>9, <1>10, <1>11

\* A slot is closed, and the next descriptor's turn comes.
LEMMA DisconnectKeeps ==
  ASSUME JoypadInv, thread \in {"drain", "batch"}, Keyboard \notin ready,
         Disconnect(Current),
         UNCHANGED <<devices, unread, stale, candidates, keyboard, input_running>>,
         events' \in Seq(EventKinds)
  PROVE  JoypadInv'
<1> USE DEF JoypadInv, SlotsInv
<1> DEFINE slot == Closed(slots[Current], TRUE)
<1>1. Current \in ready /\ Current \in Players /\ slots[Current] \in Slot
  BY CurrentIsOpen
<1>2. /\ slot \in Slot /\ ~Open(slot) /\ slot = [Empty EXCEPT !.port = slot.port]
  BY <1>1, ClosedIs
<1>3. /\ PublishSlot(Current, slot)
      /\ ready' = ready \ {Current}
      /\ thread' = IF ready = {Current} THEN "top" ELSE "drain"
  BY DEF Disconnect, Drained
<1>4. Rewritten(Current, slot)
  BY <1>2 DEF Rewritten
<1> HIDE DEF slot
<1>5. UNCHANGED <<held, typed, keyboard_open, keyboard_key_state, keyboard_state>>
  BY DEF keyboard
<1>6. /\ slots' \in [Players -> Slot]
      /\ \A q \in Players : q # Current => slots'[q] = slots[q]
      /\ \A q \in Players : ~Open(slots'[q]) =>
           slots'[q] = [Empty EXCEPT !.port = slots'[q].port]
      /\ pad_state' \in [Players -> BOOLEAN]
      /\ NoSharing' /\ PublishedIsCurrent'
      /\ DevicesDiffer' /\ SlotsKnowTheirs' /\ CandidatesAreNew'
  BY <1>1, <1>3, <1>4, <1>5, PublishKeeps
<1>7. ready' \subseteq Players \cup {Keyboard} /\ (thread' = "drain" => ready' # {})
  BY <1>1, <1>3 DEF SlotsOK
<1>8. SlotsOK'
  BY <1>3, <1>5, <1>6, <1>7 DEF SlotsOK, Open, Empty
<1>9. ReadyIsOpen'
  <2>1. \A q \in ready' : q \in Players /\ q # Current /\ Open(slots[q])
    BY <1>3 DEF ReadyIsOpen, SlotsOK
  <2>2. \A q \in ready' : Open(slots'[q])
    BY <1>6, <2>1
  <2> QED
    BY <1>3, <2>2 DEF ReadyIsOpen, Open
<1> QED
  BY <1>6, <1>8, <1>9

\* How much one read returns.
LEMMA PartsAre ==
  ASSUME NEW q \in Seq(EventKinds), NEW k \in 1 .. Len(q)
  PROVE  /\ SubSeq(q, 1, k) \in Seq(EventKinds) /\ SubSeq(q, 1, k) # <<>>
         /\ SubSeq(q, k + 1, Len(q)) \in Seq(EventKinds)
         /\ Len(SubSeq(q, k + 1, Len(q))) <= Len(q)
<1>1. PICK m \in Int, len \in Nat : m = k + 1 /\ len = Len(q)
  OBVIOUS
<1>2. \A i \in 1 .. len : q[i] \in EventKinds
  BY <1>1
<1>3. k \in Int /\ 1 <= k /\ k <= len
  BY <1>1
<1>4. /\ SubSeq(q, 1, k) \in Seq(EventKinds)
      /\ Len(SubSeq(q, 1, k)) = IF 1 <= k THEN k - 1 + 1 ELSE 0
  <2>1. \A i \in 1 .. k : q[i] \in EventKinds
    BY <1>2, <1>3
  <2> QED
    BY <1>3, <2>1, SubSeqProperties
<1>5. /\ SubSeq(q, m, len) \in Seq(EventKinds)
      /\ Len(SubSeq(q, m, len)) = IF m <= len THEN len - m + 1 ELSE 0
  <2>1. \A i \in m .. len : q[i] \in EventKinds
    BY <1>1, <1>2, <1>3
  <2> QED
    BY <2>1, SubSeqProperties
<1>6. SubSeq(q, 1, k) # <<>>
  BY <1>3, <1>4
<1>7. Len(SubSeq(q, m, len)) <= Len(q)
  BY <1>1, <1>3, <1>5
<1> QED
  BY <1>1, <1>4, <1>5, <1>6, <1>7

\* One read returns something, and the rest still fits.
LEMMA PartIs ==
  ASSUME NEW q \in Seq(EventKinds), NEW n \in Nat \ {0}, q # <<>>,
         NEW k, k = Min({n, Len(q)})
  PROVE  /\ SubSeq(q, 1, k) \in Seq(EventKinds) /\ SubSeq(q, 1, k) # <<>>
         /\ SubSeq(q, k + 1, Len(q)) \in Seq(EventKinds)
         /\ Len(SubSeq(q, k + 1, Len(q))) <= Len(q)
<1>1. Len(q) \in Nat \ {0}
  OBVIOUS
<1>2. {n, Len(q)} \in SUBSET Nat /\ {n, Len(q)} # {}
  BY <1>1
<1>3. k \in {n, Len(q)} /\ k <= Len(q)
  BY <1>2, LeastOfSome
<1>4. k \in 1 .. Len(q)
  BY <1>1, <1>3
<1> QED
  BY <1>4, PartsAre

\* A read: the controller has gone, nothing is there, or a batch of events.
LEMMA ReadKeeps == JoypadInv /\ Read => JoypadInv'
<1> SUFFICES ASSUME JoypadInv, Read PROVE JoypadInv'
  OBVIOUS
<1> DEFINE d == slots[Current].fd
<1>1. /\ thread = "drain" /\ Keyboard \notin ready
      /\ UNCHANGED <<devices, candidates, keyboard, input_running, stale>>
  BY DEF Read, world
<1>2. Current \in ready /\ Current \in Players /\ d \in Devices
  BY <1>1, CurrentIsOpen
<1>3. SlotsOK
  BY DEF JoypadInv, SlotsInv
<1>4. UNCHANGED <<typed, held, keyboard_open, keyboard_key_state, keyboard_state>>
  BY <1>1 DEF keyboard
<1>5. CASE ~devices[d].alive
  <2>1. Disconnect(Current) /\ UNCHANGED <<unread, events>>
    BY <1>5 DEF Read
  <2> QED
    BY <1>1, <1>3, <2>1, DisconnectKeeps DEF SlotsOK
<1>6. CASE devices[d].alive /\ unread[d] = <<>>
  <2>1. /\ ready' = ready \ {Current}
        /\ thread' = IF ready = {Current} THEN "top" ELSE "drain"
        /\ UNCHANGED <<unread, events, slots, pad_state>>
    BY <1>6 DEF Read, Drained
  <2>2. ReadyIsOpen'
    BY <1>1, <2>1 DEF JoypadInv, ReadyIsOpen, Open
  <2>3. ready' \in SUBSET (Players \cup {Keyboard}) /\ (thread' = "drain" => ready' # {})
    BY <1>2, <1>3, <2>1 DEF SlotsOK
  <2> QED
    BY <1>1, <1>3, <1>4, <2>1, <2>2, <2>3, QuietKeeps DEF SlotsOK
<1>7. CASE devices[d].alive /\ unread[d] # <<>>
  <2> DEFINE q == unread[d]
             size == Min({BatchSize, Len(q)})
             rest == SubSeq(q, size + 1, Len(q))
  <2>1. /\ events' = SubSeq(q, 1, size)
        /\ unread' = [unread EXCEPT ![d] = rest]
        /\ thread' = "batch" /\ UNCHANGED <<ready, slots, pad_state>>
    BY <1>7 DEF Read
  <2>2. q \in Seq(EventKinds) /\ q # <<>> /\ Len(q) <= BufferSize
    BY <1>2, <1>3, <1>7 DEF SlotsOK
  <2>3. /\ events' \in Seq(EventKinds) /\ events' # <<>>
        /\ rest \in Seq(EventKinds) /\ Len(rest) <= Len(q)
    <3> HIDE DEF q, size
    <3>1. size = Min({BatchSize, Len(q)})
      BY DEF size
    <3> QED
      BY <2>1, <2>2, <3>1, PartIs, JoypadAssumption
  <2> HIDE DEF rest, size, q, d
  <2>4. Len(rest) <= BufferSize
    <3>1. Len(rest) \in Nat /\ Len(q) \in Nat
      BY <2>2, <2>3
    <3> QED
      BY <2>2, <2>3, <3>1, JoypadAssumption
  <2>5. unread \in [Devices -> Seq(EventKinds)]
        /\ \A e \in Devices : Len(unread[e]) <= BufferSize
    BY <1>3 DEF SlotsOK
  <2>6. unread' \in [Devices -> Seq(EventKinds)]
    BY <2>1, <2>3, <2>5
  <2>7. \A e \in Devices : Len(unread'[e]) <= BufferSize
    <3>1. \A e \in Devices : unread'[e] = IF e = d THEN rest ELSE unread[e]
      BY <1>2, <2>1, <2>5
    <3> QED
      BY <2>4, <2>5, <3>1
  <2>8. ReadyIsOpen'
    BY <1>1, <1>2, <2>1 DEF JoypadInv, ReadyIsOpen, Open
  <2> QED
    BY <1>1, <1>3, <1>4, <2>1, <2>3, <2>6, <2>7, <2>8, QuietKeeps DEF SlotsOK
<1> QED
  BY <1>5, <1>6, <1>7

\* What an event, and the last one of a read, makes of the slot.
AfterEvent ==
  LET after == Apply(slots[Current], Head(events))
  IN IF Tail(events) = <<>> THEN [after EXCEPT !.state = after.raw] ELSE after

\* One event of a batch; the controller may turn out to have gone.
LEMMA EventKeeps == JoypadInv /\ Event => JoypadInv'
<1> SUFFICES ASSUME JoypadInv, Event PROVE JoypadInv'
  OBVIOUS
<1>1. /\ thread = "batch" /\ Keyboard \notin ready
      /\ UNCHANGED <<devices, candidates, keyboard, input_running>>
  BY DEF Event, world, JoypadInv, ReadyIsOpen
<1>2. /\ Current \in ready /\ Current \in Players /\ Open(slots[Current])
      /\ slots[Current] \in Slot /\ slots[Current].fd \in Devices
  BY <1>1, CurrentIsOpen
<1>3. SlotsOK
  BY DEF JoypadInv, SlotsInv
<1>4. UNCHANGED <<typed, held, keyboard_open, keyboard_key_state, keyboard_state>>
  BY <1>1 DEF keyboard
<1>5. events \in Seq(EventKinds) /\ events # <<>>
  BY <1>1, <1>3 DEF SlotsOK
<1>6. Head(events) \in EventKinds /\ Tail(events) \in Seq(EventKinds)
  BY <1>5
<1>9. /\ stale' \in SUBSET Devices /\ unread' \in [Devices -> Seq(EventKinds)]
      /\ \A e \in Devices : Len(unread'[e]) <= BufferSize
  <2>1. CASE UNCHANGED reports
    BY <1>3, <2>1 DEF reports, SlotsOK
  <2>2. CASE /\ unread' = [unread EXCEPT ![slots[Current].fd] = Unkeyed(@)]
             /\ stale' \in {stale \cup {slots[Current].fd},
                             stale \ {slots[Current].fd}}
    <3>1. stale' \in SUBSET Devices
      BY <1>2, <1>3, <2>2 DEF SlotsOK
    <3> QED
      BY <1>2, <1>3, <2>2, <3>1, UnkeyedKeeps
  <2> QED
    BY <2>1, <2>2 DEF Event
<1>7. CASE Disconnect(Current) /\ events' = <<>> /\ UNCHANGED reports
  <2>1. events' \in Seq(EventKinds)
    BY <1>7
  <2> QED
    BY <1>1, <1>7, <2>1, DisconnectKeeps DEF reports
<1>8. CASE /\ events' = Tail(events)
           /\ PublishSlot(Current, AfterEvent)
           /\ thread' = IF events' = <<>> THEN "drain" ELSE "batch"
           /\ UNCHANGED ready
  <2> DEFINE after == Apply(slots[Current], Head(events))
  <2>1. /\ after \in Slot /\ after.fd = slots[Current].fd
        /\ after.path = slots[Current].path /\ after.port = slots[Current].port
    BY <1>2, <1>3, <1>6, AppliedIs
  <2>2. AfterEvent = after \/ AfterEvent = [after EXCEPT !.state = after.raw]
    BY DEF AfterEvent
  <2> HIDE DEF after
  <2>3. /\ AfterEvent \in Slot /\ AfterEvent.fd = slots[Current].fd
        /\ AfterEvent.path = slots[Current].path
        /\ AfterEvent.port = slots[Current].port
    BY <2>1, <2>2 DEF Slot
  <2>4. Rewritten(Current, AfterEvent)
    BY <1>2, <2>3 DEF Rewritten, Open
  <2>5. /\ slots' \in [Players -> Slot] /\ slots'[Current] = AfterEvent
        /\ \A q \in Players : q # Current => slots'[q] = slots[q]
        /\ \A q \in Players : ~Open(slots'[q]) =>
             slots'[q] = [Empty EXCEPT !.port = slots'[q].port]
        /\ pad_state' \in [Players -> BOOLEAN]
        /\ NoSharing' /\ PublishedIsCurrent'
        /\ DevicesDiffer' /\ SlotsKnowTheirs' /\ CandidatesAreNew'
    BY <1>1, <1>2, <1>4, <1>8, <2>4, PublishKeeps
  <2>6. SlotsOK'
    BY <1>1, <1>2, <1>3, <1>4, <1>6, <1>8, <1>9, <2>5 DEF SlotsOK, Open, Empty
  <2>7. ReadyIsOpen'
    <3>1. \A q \in ready : q \in Players /\ Open(slots[q])
      BY <1>1, <1>3 DEF JoypadInv, ReadyIsOpen, SlotsOK
    <3>2. \A q \in ready : Open(slots'[q])
      BY <1>2, <2>3, <2>5, <3>1 DEF Open
    <3> QED
      BY <1>1, <1>2, <1>8, <3>2 DEF ReadyIsOpen, Open
  <2> QED
    BY <2>5, <2>6, <2>7 DEF JoypadInv, SlotsInv
<1> QED
  BY <1>7, <1>8 DEF Event, AfterEvent

\* At exit everything is closed and nobody presses anything.
LEMMA CleanupKeeps == JoypadInv /\ Cleanup => JoypadInv'
<1> SUFFICES ASSUME JoypadInv, Cleanup PROVE JoypadInv'
  OBVIOUS
<1> USE DEF JoypadInv, SlotsInv
<1>1. /\ thread' = "joined"
      /\ slots' = [p \in Players |-> Closed(slots[p], FALSE)]
      /\ keyboard_open' = FALSE /\ typed' = <<>>
      /\ keyboard_key_state' = {} /\ keyboard_state' = FALSE
      /\ pad_state' = [p \in Players |-> FALSE]
      /\ UNCHANGED <<devices, unread, stale, candidates, ready, events, held,
                     input_running>>
  BY DEF Cleanup, world, reports
<1>2. \A p \in Players :
        /\ slots'[p] \in Slot /\ ~Open(slots'[p]) /\ ~slots'[p].state
        /\ slots'[p] = [Empty EXCEPT !.port = slots'[p].port]
  BY <1>1, ClosedIs DEF SlotsOK
<1>3. slots' \in [Players -> Slot]
  BY <1>1, <1>2
<1>4. /\ typed' \in Seq([key : Keys, pressed : BOOLEAN])
      /\ pad_state' \in [Players -> BOOLEAN]
  BY <1>1
<1>5. SlotsOK'
  BY <1>1, <1>2, <1>3, <1>4 DEF SlotsOK, Open, Empty
<1>6. NoSharing'
  BY <1>2 DEF NoSharing, Open, Players
<1>7. PublishedIsCurrent'
  BY <1>1, <1>2 DEF PublishedIsCurrent, PublishedStates
<1>8. DevicesDiffer' /\ SlotsKnowTheirs' /\ CandidatesAreNew'
  BY <1>1, <1>2 DEF DevicesDiffer, SlotsKnowTheirs, CandidatesAreNew, Alive,
                    Plugged, Open
<1>9. ReadyIsOpen'
  BY <1>1 DEF ReadyIsOpen
<1> QED
  BY <1>5, <1>6, <1>7, <1>8, <1>9

----------------------------------------------------------------------------
(* The two slots, their descriptors and the published states agree, however *)
(* controllers come and go.                                                *)

\* At the start no controller has been seen.
LEMMA JoypadInvInit == JoypadInit => JoypadInv
<1> SUFFICES ASSUME JoypadInit PROVE JoypadInv
  OBVIOUS
<1> USE DEF JoypadInit
<1>1. devices \in [Devices -> Device] /\ Alive = {}
  BY DEF Device, Alive
<1>2. /\ unread \in [Devices -> Seq(EventKinds)]
      /\ \A d \in Devices : Len(unread[d]) <= BufferSize
  <2>1. <<>> \in Seq(EventKinds) /\ Len(<<>>) = 0
    OBVIOUS
  <2> QED
    BY <2>1, JoypadAssumption
<1>3. /\ Empty \in Slot /\ ~Open(Empty) /\ ~Empty.state
      /\ Empty = [Empty EXCEPT !.port = Empty.port]
  BY DEF Empty, Slot, Open
<1>4. slots \in [Players -> Slot] /\ \A p \in Players : slots[p] = Empty
  BY <1>3
<1>5. /\ events \in Seq(EventKinds) /\ typed \in Seq([key : Keys, pressed : BOOLEAN])
      /\ pad_state \in [Players -> BOOLEAN]
  OBVIOUS
<1>6. \A p \in Players : ~Open(slots[p]) /\ slots[p] = [Empty EXCEPT !.port = slots[p].port]
  BY <1>3, <1>4
<1>7. SlotsOK
  BY <1>1, <1>2, <1>4, <1>5, <1>6 DEF SlotsOK
<1>8. NoSharing /\ PublishedIsCurrent
  BY <1>3, <1>4, <1>6 DEF NoSharing, PublishedIsCurrent, PublishedStates, Players
<1>9. DevicesDiffer /\ SlotsKnowTheirs /\ CandidatesAreNew /\ ReadyIsOpen
  BY <1>1, <1>6 DEF DevicesDiffer, SlotsKnowTheirs, CandidatesAreNew, ReadyIsOpen
<1> QED
  BY <1>7, <1>8, <1>9 DEF JoypadInv, SlotsInv

\* Every step of the kernel, the hands and the thread keeps it.
LEMMA JoypadInvNext == JoypadInv /\ [JoypadNext]_joypad_vars => JoypadInv'
<1> SUFFICES ASSUME JoypadInv, [JoypadNext]_joypad_vars PROVE JoypadInv'
  OBVIOUS
<1>1. CASE Environment
  BY <1>1, PlugKeeps, UnplugKeeps, PressKeeps, StrokeKeeps DEF Environment
<1>2. CASE Return \/ Fill \/ TakeOver
  BY <1>2, LoopsAttach, AttachesKeeps
<1>3. CASE Assigned \/ StopInput \/ ThreadEnds
  BY <1>3, AssignedKeeps
<1>4. CASE Scan \/ Poll \/ DrainKeyboard
  BY <1>4, ScanKeeps, PollKeeps, DrainKeyboardKeeps
<1>5. CASE Read \/ Event \/ Cleanup
  BY <1>5, ReadKeeps, EventKeeps, CleanupKeeps
<1>6. CASE UNCHANGED joypad_vars
  <2>1. UNCHANGED <<candidates, devices, slots, typed, held, keyboard_open,
                    keyboard_key_state, keyboard_state, pad_state, unread, stale,
                    events, input_running, thread, ready>>
    BY <1>6 DEF joypad_vars, world, reports, keyboard
  <2>2. ReadyIsOpen' /\ SlotsOK
    BY <2>1 DEF JoypadInv, SlotsInv, ReadyIsOpen, Open
  <2> QED
    BY <2>1, <2>2, QuietKeeps DEF SlotsOK
<1> QED
  BY <1>1, <1>2, <1>3, <1>4, <1>5, <1>6 DEF JoypadNext, Thread

\* The input thread keeps its invariant.
LEMMA JoypadInvariant == JoypadSpec => []JoypadInv
<1> QED
  BY JoypadInvInit, JoypadInvNext, PTL DEF JoypadSpec

(* No controller ever plays for both players, no descriptor is kept of a   *)
(* slot that is closed, and what a reader of GetJoypadInput sees is what    *)
(* the slots and the keyboard last said: for any controllers, ports, event *)
(* numbers and keys.                                                       *)
THEOREM SlotsAreSafe == JoypadSpec => []SlotsInv
<1>1. JoypadInv => SlotsInv
  BY DEF JoypadInv
<1> QED
  BY <1>1, JoypadInvariant, PTL

----------------------------------------------------------------------------
(* Who plays for whom. *)

\* Outside the three loops and the end a slot keeps its device or loses it,
\* and it loses one that has gone only.
KeptOrLost(p) ==
  \/ slots'[p].fd = slots[p].fd
  \/ /\ Open(slots[p]) /\ ~devices[slots[p].fd].alive
     /\ slots'[p].fd = None

\* Draining a controller closes it only when it has gone.
LEMMA DrainsKeepOrLose ==
  ASSUME JoypadInv, Read \/ Event
  PROVE  \A p \in Players : KeptOrLost(p)
<1>1. thread \in {"drain", "batch"} /\ Keyboard \notin ready
  BY DEF Read, Event, JoypadInv, ReadyIsOpen
<1>2. /\ Current \in Players /\ Open(slots[Current])
      /\ slots[Current] \in Slot /\ slots[Current].fd \in Devices
  BY <1>1, CurrentIsOpen
<1>3. SlotsOK
  BY DEF JoypadInv, SlotsInv
<1>4. slots \in [Players -> Slot]
  BY <1>3 DEF SlotsOK
<1>5. CASE UNCHANGED slots
  BY <1>5 DEF KeptOrLost
<1>6. CASE Disconnect(Current) /\ ~devices[slots[Current].fd].alive
  <2> DEFINE slot == Closed(slots[Current], TRUE)
  <2>1. ~Open(slot)
    BY <1>2, ClosedIs
  <2>2. slots' = [slots EXCEPT ![Current] = slot]
    BY <1>6 DEF Disconnect, PublishSlot
  <2> HIDE DEF slot
  <2>3. \A p \in Players : slots'[p] = IF p = Current THEN slot ELSE slots[p]
    BY <1>2, <1>4, <2>2
  <2> QED
    BY <1>2, <1>6, <2>1, <2>3 DEF KeptOrLost, Open
<1>7. CASE thread = "batch" /\ PublishSlot(Current, AfterEvent)
  <2> DEFINE after == Apply(slots[Current], Head(events))
  <2>1. Head(events) \in EventKinds
    BY <1>3, <1>7 DEF SlotsOK
  <2>2. after \in Slot /\ after.fd = slots[Current].fd
    BY <1>2, <1>3, <2>1, AppliedIs
  <2>3. AfterEvent = after \/ AfterEvent = [after EXCEPT !.state = after.raw]
    BY DEF AfterEvent
  <2> HIDE DEF after
  <2>4. AfterEvent.fd = slots[Current].fd
    BY <2>2, <2>3 DEF Slot
  <2>5. \A p \in Players : slots'[p] = IF p = Current THEN AfterEvent ELSE slots[p]
    BY <1>2, <1>4, <1>7 DEF PublishSlot
  <2> QED
    BY <2>4, <2>5 DEF KeptOrLost
<1>8. CASE Read
  BY <1>5, <1>6, <1>8 DEF Read
<1>9. CASE Event
  BY <1>5, <1>6, <1>7, <1>9 DEF Event, AfterEvent
<1> QED
  BY <1>8, <1>9

\* Nothing else changes which device a slot has.
LEMMA OthersKeep ==
  ASSUME JoypadInv, JoypadNext \/ UNCHANGED joypad_vars,
         ~(Return \/ Fill \/ TakeOver), ~Cleanup
  PROVE  \A p \in Players : KeptOrLost(p)
<1>1. CASE Read \/ Event
  BY <1>1, DrainsKeepOrLose
<1>2. CASE UNCHANGED slots
  BY <1>2 DEF KeptOrLost
<1>3. CASE Environment
  BY <1>2, <1>3 DEF Environment, Plug, Unplug, Press, Stroke
<1>4. CASE Scan \/ Assigned \/ Poll \/ DrainKeyboard \/ ThreadEnds \/ StopInput
  BY <1>2, <1>4 DEF Scan, Assigned, Poll, DrainKeyboard, ThreadEnds, StopInput
<1>5. CASE UNCHANGED joypad_vars
  BY <1>2, <1>5 DEF joypad_vars
<1> QED
  BY <1>1, <1>3, <1>4, <1>5 DEF JoypadNext, Thread

\* A slot that is given a device was not open, and the others are as they were.
LEMMA AttachedIs ==
  ASSUME JoypadInv, NEW p \in Players, NEW d \in candidates, Attaches(p, d)
  PROVE  \A q \in Players : slots'[q].fd = IF q = p THEN d ELSE slots[q].fd
<1>1. slots \in [Players -> Slot]
  BY DEF JoypadInv, SlotsInv, SlotsOK
<1> QED
  BY <1>1 DEF Attaches, Attach

\* Undisturbed, of one player.
StaysWithPlayer(p) ==
  Open(slots[p]) /\ devices[slots[p].fd].alive /\ thread # "ended"
    => slots'[p].fd = slots[p].fd

\* No step takes a controller that is there from its player.
LEMMA StepsKeepPlayers ==
  ASSUME JoypadInv, [JoypadNext]_joypad_vars
  PROVE  \A p \in Players : StaysWithPlayer(p)
<1>1. CASE Return \/ Fill \/ TakeOver
  <2>1. PICK p \in Players, d \in candidates : ~Open(slots[p]) /\ Attaches(p, d)
    BY <1>1, LoopsAttach
  <2> QED
    BY <2>1, AttachedIs DEF StaysWithPlayer
<1>2. CASE Cleanup
  BY <1>2 DEF Cleanup, StaysWithPlayer
<1>3. CASE ~(Return \/ Fill \/ TakeOver) /\ ~Cleanup
  BY <1>3, OthersKeep DEF KeptOrLost, StaysWithPlayer
<1> QED
  BY <1>1, <1>2, <1>3

\* ReturnsToItsSlot, of one device and one player.
GoesWhereItWas(d, p) ==
  slots'[p].fd = d => Remembers(p, d) \/ \A q \in Players : ~Remembers(q, d)

\* No step gives a controller to a player while another remembers its port.
LEMMA StepsRemember ==
  ASSUME JoypadInv, [JoypadNext]_joypad_vars
  PROVE  \A d \in candidates, p \in Players : GoesWhereItWas(d, p)
<1>1. \A d \in candidates : /\ d \in Devices /\ d # None /\ Plugged(d)
                            /\ \A p \in Players : slots[p].fd # d
  <2>1. candidates \subseteq Devices
    BY DEF JoypadInv, SlotsInv, SlotsOK
  <2>2. \A d \in candidates : d \in Devices /\ d # None /\ Plugged(d)
    BY <2>1, JoypadAssumption DEF JoypadInv, CandidatesAreNew
  <2>3. ASSUME NEW d \in candidates, NEW p \in Players, slots[p].fd = d
        PROVE  FALSE
    <3>1. Open(slots[p])
      BY <2>2, <2>3 DEF Open
    <3> QED
      BY <2>3, <3>1 DEF JoypadInv, CandidatesAreNew, SlotsKnowTheirs
  <2> QED
    BY <2>2, <2>3
<1>2. CASE Return \/ Fill \/ TakeOver
  <2>1. PICK p \in Players, d \in candidates :
          /\ ~Open(slots[p]) /\ Attaches(p, d)
          /\ \/ slots[p].port = devices[d].port
             \/ Returning = {}
    BY <1>2, LoopsAttach
  <2>2. \A q \in Players : slots'[q].fd = IF q = p THEN d ELSE slots[q].fd
    BY <2>1, AttachedIs
  <2>3. ASSUME Returning = {}, NEW q \in Players PROVE ~Remembers(q, d)
    BY <1>1, <2>3 DEF Remembers, Returning, Vacant, Fresh, OnItsPort, Plugged
  <2>4. Remembers(p, d) \/ \A q \in Players : ~Remembers(q, d)
    BY <2>1, <2>3 DEF Remembers
  <2> QED
    BY <1>1, <2>2, <2>4 DEF GoesWhereItWas
<1>3. CASE Cleanup
  <2>1. \A p \in Players : slots'[p].fd = None
    BY <1>3, ClosedIs DEF Cleanup, JoypadInv, SlotsInv, SlotsOK, Open
  <2> QED
    BY <1>1, <2>1 DEF GoesWhereItWas
<1>4. CASE ~(Return \/ Fill \/ TakeOver) /\ ~Cleanup
  <2>1. \A p \in Players : KeptOrLost(p)
    BY <1>4, OthersKeep
  <2> QED
    BY <1>1, <2>1 DEF KeptOrLost, GoesWhereItWas
<1> QED
  BY <1>2, <1>3, <1>4

(* No controller is taken from the player who uses it, and one that comes  *)
(* back to a port that a disconnected slot remembers goes back to this     *)
(* slot.  One that appears on any other port is not told apart: it takes   *)
(* the first free slot, whose player it played for before or not.          *)
THEOREM SlotsStayKept == JoypadSpec => SlotsAreKept
<1>1. JoypadInv /\ [JoypadNext]_joypad_vars =>
        [\A p \in Players :
           Open(slots[p]) /\ devices[slots[p].fd].alive /\ thread # "ended"
             => slots'[p].fd = slots[p].fd]_joypad_vars
  BY StepsKeepPlayers DEF StaysWithPlayer
<1>2. JoypadInv /\ [JoypadNext]_joypad_vars =>
        [\A d \in candidates, p \in Players :
           slots'[p].fd = d =>
             Remembers(p, d) \/ \A q \in Players : ~Remembers(q, d)]_joypad_vars
  BY StepsRemember DEF GoesWhereItWas
<1> QED
  BY <1>1, <1>2, JoypadInvariant, PTL
     DEF SlotsAreKept, Undisturbed, ReturnsToItsSlot, JoypadSpec
=============================================================================
