--------------------------- MODULE SharingProofs ---------------------------
(***************************************************************************)
(* What the menu shares with other processes: its buffers and touches with *)
(* the compositor, its screen and its fingers with the program it started. *)
(*                                                                         *)
(* The Wayland client, for every number of buffers, size of the surface    *)
(* and number of fingers: a frame is never written to a buffer the         *)
(* compositor still uses nor beyond its end, each of present's loops puts  *)
(* the right pixel where a buffer of the surface's shape has it, and no    *)
(* touch is left over but one that ended with its seat's.  That a free     *)
(* buffer is not in use is not inductive by itself: the compositor may     *)
(* only give back what it holds, and once.  OwnedInv says that a buffer is *)
(* in one place: with the client, on its way, on the screen or on its way  *)
(* back; SizeInv, that buffers hold what is written.  TouchInv follows a   *)
(* touch from the finger through the queue and the reports to what the     *)
(* dashboard believes.                                                     *)
(*                                                                         *)
(* The supervisor of run_managed_child, for all times and both displays:   *)
(* it signals only its own child, kills it only after the grace, returns   *)
(* without it, and as long as no report is lost takes only a real hold of  *)
(* the whole time for one.  That a hold is real is a matter of what is     *)
(* still under way from the finger to update_corner_hold.  FlightInv says  *)
(* that it ends with what the finger does; GenuineInv, that a finger which *)
(* does not hold as long as the code believes has a release under way.     *)
(***************************************************************************)
EXTENDS WaylandSurface, ManagedChild, Lemmas

Ids == 1 .. BufferCount
Size == Nat \X Nat
Kinds == {"configure", "release", "background", "shutdown", "down",
          "up", "cancel", "touch", "touchless"}
EventType == [kind : Kinds, size : Size, slot : 0 .. BufferCount]
SlotType == [size : Size, busy : BOOLEAN]
ClientType == [configured : BOOLEAN, background : BOOLEAN, shutdown : BOOLEAN,
               touch : BOOLEAN, down : BOOLEAN, size : Size]

SurfaceTypes ==
  /\ mode \in {"widget", "gameplay"}
  /\ pc \in {"open", "draw", "poll", "polled", "dispatch", "take", "find",
             "write", "closed"}
  /\ back \in {"poll", "draw", "dispatch"}
  /\ remaining \in 0 .. Slices
  /\ client \in ClientType
  /\ slots \in {<<>>} \cup [Ids -> SlotType]
  /\ target \in Size

QueueTypes ==
  /\ reports \in Seq(BOOLEAN) /\ believed \in BOOLEAN /\ unsaid \in BOOLEAN
  /\ inbox \in Seq(EventType) /\ events \in Seq(EventType)
  /\ requests \in Seq(Ids) /\ shown \in 0 .. BufferCount /\ copies \in BOOLEAN

\* What the compositor has sent and the client has not dealt with.
Incoming == inbox \o events

\* The buffers given back in a list of events, and that each is so once.
Released(list) ==
  {i \in Ids : \E k \in 1 .. Len(list) :
                 list[k].kind = "release" /\ list[k].slot = i}
ReleasesOnce(list) ==
  \A j, k \in 1 .. Len(list) :
    list[j].kind = "release" /\ list[k].kind = "release"
      /\ list[j].slot = list[k].slot => j = k
NoneTwice(list) == \A j, k \in 1 .. Len(list) : list[j] = list[k] => j = k

\* The buffers on their way to the compositor and those it shows.
OnTheWay == {i \in Ids : \E k \in 1 .. Len(requests) : requests[k] = i}
OnScreen == {i \in Ids : shown = i /\ ~copies}

\* A buffer that is not with the client is marked, and is in one place only.
OwnedInv ==
  pc # "closed" =>
    /\ \A i \in OnTheWay \cup OnScreen \cup Released(Incoming) :
         slots # <<>> /\ slots[i].busy
    /\ OnTheWay \cap OnScreen = {} /\ OnTheWay \cap Released(Incoming) = {}
    /\ OnScreen \cap Released(Incoming) = {}
    /\ NoneTwice(requests) /\ ReleasesOnce(Incoming)

\* Events that end a touch, the last of them without a report.
Ending == {"up", "cancel", "touchless"}

\* A list of events in which every press ends, and one that ends a press.
AllEnd(list) ==
  \A k \in 1 .. Len(list) :
    list[k].kind = "down" => \E j \in k + 1 .. Len(list) : list[j].kind \in Ending
EndsOne(list) == \E j \in 1 .. Len(list) : list[j].kind \in Ending

\* What the dashboard will believe once it has taken the reports.
WillBelieve == IF reports = <<>> THEN believed ELSE reports[Len(reports)]

TouchInv ==
  pc # "closed" =>
    /\ ~client.down => ~WillBelieve \/ unsaid
    /\ fingers = {} => AllEnd(Incoming) /\ (client.down => EndsOne(Incoming))

ClientInv == SurfaceTypes /\ QueueTypes /\ OwnedInv /\ TouchInv

\* Buffers are alike, and hold as much as the frame that is written.
SizeInv ==
  /\ \A i, j \in DOMAIN slots : slots[i].size = slots[j].size
  /\ pc \in {"find", "write"} =>
       slots # <<>> /\ Area(slots[1].size) = Area(target)

-----------------------------------------------------------------------------
(* Lists of events. *)

\* An event sent is the last of the list.
LEMMA SentIsLast ==
  ASSUME NEW list \in Seq(EventType), NEW e \in EventType
  PROVE  /\ list \o <<e>> \in Seq(EventType) /\ Len(list \o <<e>>) = Len(list) + 1
         /\ \A k \in 1 .. Len(list) : (list \o <<e>>)[k] = list[k]
         /\ (list \o <<e>>)[Len(list) + 1] = e
         /\ Len(list) \in Nat
<1>1. <<e>> \in Seq(EventType) /\ Len(<<e>>) = 1 /\ <<e>>[1] = e
  OBVIOUS
<1>2. Len(list) \in Nat
  BY LenProperties
<1> QED
  BY <1>1, <1>2, ConcatProperties

\* A place of a list that has grown is an old one or the last.
LEMMA OneMore == \A n \in Nat : \A k \in 1 .. n + 1 : k \in 1 .. n \/ k = n + 1
OBVIOUS

\* Another event gives no buffer back.
LEMMA OtherIsSent ==
  ASSUME NEW list \in Seq(EventType), NEW e \in EventType, e.kind # "release"
  PROVE  /\ Released(list \o <<e>>) = Released(list)
         /\ ReleasesOnce(list) => ReleasesOnce(list \o <<e>>)
<1> DEFINE new == list \o <<e>>
<1>1. /\ new \in Seq(EventType) /\ Len(new) = Len(list) + 1
      /\ \A k \in 1 .. Len(list) : new[k] = list[k]
      /\ new[Len(list) + 1] = e /\ Len(list) \in Nat
  BY SentIsLast
<1> HIDE DEF new
<1>2. Released(new) = Released(list)
  BY <1>1 DEF Released
<1>3. ASSUME ReleasesOnce(list) PROVE ReleasesOnce(new)
  BY <1>1, <1>3 DEF ReleasesOnce
<1> QED
  BY <1>2, <1>3 DEF new

\* A release gives back its buffer.
LEMMA ReleaseIsSent ==
  ASSUME NEW list \in Seq(EventType), NEW e \in EventType, e.kind = "release",
         e.slot \in Ids
  PROVE  /\ Released(list \o <<e>>) = Released(list) \cup {e.slot}
         /\ ReleasesOnce(list) /\ e.slot \notin Released(list)
              => ReleasesOnce(list \o <<e>>)
<1> DEFINE new == list \o <<e>>
<1>1. /\ new \in Seq(EventType) /\ Len(new) = Len(list) + 1
      /\ \A k \in 1 .. Len(list) : new[k] = list[k]
      /\ new[Len(list) + 1] = e /\ Len(list) \in Nat
  BY SentIsLast
<1> HIDE DEF new
<1>2. Released(new) = Released(list) \cup {e.slot}
  BY <1>1 DEF Released
<1>3. ASSUME ReleasesOnce(list), e.slot \notin Released(list)
      PROVE  ReleasesOnce(new)
  BY <1>1, <1>3 DEF ReleasesOnce, Released
<1> QED
  BY <1>2, <1>3 DEF new

\* The rest of a list gives back what the list does, but for its first event.
LEMMA RestReleases ==
  ASSUME NEW list \in Seq(EventType), list # <<>>, ReleasesOnce(list)
  PROVE  /\ Head(list) \in EventType /\ Head(list) = list[1]
         /\ Tail(list) \in Seq(EventType) /\ ReleasesOnce(Tail(list))
         /\ Head(list).kind # "release" => Released(Tail(list)) = Released(list)
         /\ Head(list).kind = "release" =>
              /\ Released(Tail(list)) = Released(list) \ {Head(list).slot}
              /\ Head(list).slot \in Ids => Head(list).slot \in Released(list)
<1> DEFINE rest == Tail(list)
<1>1. /\ Len(list) \in Nat \ {0} /\ list[1] \in EventType
  BY EmptySeq, ElementOfSeq
<1>2. Head(list) = list[1]
  BY <1>1
<1>3. /\ rest \in Seq(EventType) /\ Len(rest) = Len(list) - 1
      /\ \A k \in 1 .. Len(rest) : rest[k] = list[k + 1]
  BY HeadTailProperties
<1> HIDE DEF rest
<1>4. ReleasesOnce(rest)
  BY <1>1, <1>3 DEF ReleasesOnce
<1>5. \A k \in 1 .. Len(list) : k = 1 \/ (k - 1 \in 1 .. Len(rest) /\ list[k] = rest[k - 1])
  BY <1>1, <1>3
<1>6. ASSUME list[1].kind # "release" PROVE Released(rest) = Released(list)
  <2>1. ASSUME NEW i \in Released(rest) PROVE i \in Released(list)
    BY <1>1, <1>3, SMTT(30) DEF Released
  <2>2. ASSUME NEW i \in Released(list) PROVE i \in Released(rest)
    BY <1>1, <1>3, <1>5, <1>6 DEF Released
  <2> QED
    BY <2>1, <2>2
<1>7. ASSUME list[1].kind = "release"
      PROVE  /\ Released(rest) = Released(list) \ {list[1].slot}
             /\ list[1].slot \in Ids => list[1].slot \in Released(list)
  <2>1. list[1].slot \in Ids => list[1].slot \in Released(list)
    BY <1>1, <1>7 DEF Released
  <2>2. list[1].slot \notin Released(rest)
    <3> SUFFICES ASSUME NEW k \in 1 .. Len(rest), rest[k].kind = "release",
                        rest[k].slot = list[1].slot
                 PROVE  FALSE
      BY DEF Released
    <3>1. k + 1 \in 1 .. Len(list) /\ 1 \in 1 .. Len(list) /\ list[k + 1] = rest[k]
      BY <1>1, <1>3
    <3>2. k + 1 = 1
      BY <1>7, <3>1 DEF ReleasesOnce
    <3> QED
      BY <3>2
  <2>3. ASSUME NEW i \in Released(rest) PROVE i \in Released(list)
    BY <1>1, <1>3, SMTT(30) DEF Released
  <2>4. ASSUME NEW i \in Released(list), i # list[1].slot PROVE i \in Released(rest)
    BY <1>1, <1>3, <1>5, <2>4 DEF Released
  <2> QED
    BY <2>1, <2>2, <2>3, <2>4
<1> QED
  BY <1>1, <1>2, <1>3, <1>4, <1>6, <1>7 DEF rest

\* What is sent last ends every press, or changes nothing, or is a press.
LEMMA PressesAfterSending ==
  ASSUME NEW list \in Seq(EventType), NEW e \in EventType
  PROVE  /\ e.kind \in Ending => AllEnd(list \o <<e>>) /\ EndsOne(list \o <<e>>)
         /\ e.kind # "down" /\ AllEnd(list) => AllEnd(list \o <<e>>)
         /\ EndsOne(list) => EndsOne(list \o <<e>>)
<1> DEFINE new == list \o <<e>>
<1>1. /\ new \in Seq(EventType) /\ Len(new) = Len(list) + 1
      /\ \A k \in 1 .. Len(list) : new[k] = list[k]
      /\ new[Len(list) + 1] = e /\ Len(list) \in Nat
  BY SentIsLast
<1> HIDE DEF new
<1>2. ASSUME e.kind \in Ending PROVE AllEnd(new) /\ EndsOne(new)
  <2>1. EndsOne(new)
    BY <1>1, <1>2 DEF EndsOne
  <2>2. AllEnd(new)
    <3> SUFFICES ASSUME NEW k \in 1 .. Len(new), new[k].kind = "down"
                 PROVE  Len(new) \in k + 1 .. Len(new) /\ new[Len(new)].kind \in Ending
      BY DEF AllEnd
    <3>1. k # Len(list) + 1
      BY <1>1, <1>2 DEF Ending
    <3> QED
      BY <1>1, <1>2, <3>1
  <2> QED
    BY <2>1, <2>2
<1>3. ASSUME e.kind # "down", AllEnd(list) PROVE AllEnd(new)
  <2> SUFFICES ASSUME NEW k \in 1 .. Len(new), new[k].kind = "down"
               PROVE  \E j \in k + 1 .. Len(new) : new[j].kind \in Ending
    BY DEF AllEnd
  <2>1. k \in 1 .. Len(list) /\ list[k].kind = "down"
    BY <1>1, <1>3
  <2>2. PICK j \in k + 1 .. Len(list) : list[j].kind \in Ending
    BY <1>3, <2>1 DEF AllEnd
  <2>3. j \in k + 1 .. Len(new) /\ new[j] = list[j]
    BY <1>1, <2>1, <2>2
  <2> QED
    BY <2>2, <2>3
<1>4. ASSUME EndsOne(list) PROVE EndsOne(new)
  BY <1>1, <1>4 DEF EndsOne
<1> QED
  BY <1>2, <1>3, <1>4 DEF new

\* In the rest of a list presses end as in the list, also the one its first
\* event makes.
LEMMA PressesOfTheRest ==
  ASSUME NEW list \in Seq(EventType), list # <<>>
  PROVE  /\ AllEnd(list) => AllEnd(Tail(list))
         /\ AllEnd(list) /\ list[1].kind = "down" => EndsOne(Tail(list))
         /\ EndsOne(list) /\ list[1].kind \notin Ending => EndsOne(Tail(list))
<1> DEFINE rest == Tail(list)
<1>1. Len(list) \in Nat \ {0}
  BY EmptySeq
<1>2. /\ rest \in Seq(EventType) /\ Len(rest) = Len(list) - 1
      /\ \A k \in 1 .. Len(rest) : rest[k] = list[k + 1]
  BY HeadTailProperties
<1> HIDE DEF rest
<1>3. \A k \in 2 .. Len(list) : k - 1 \in 1 .. Len(rest) /\ rest[k - 1] = list[k]
  BY <1>1, <1>2
<1>4. ASSUME AllEnd(list) PROVE AllEnd(rest)
  <2> SUFFICES ASSUME NEW k \in 1 .. Len(rest), rest[k].kind = "down"
               PROVE  \E j \in k + 1 .. Len(rest) : rest[j].kind \in Ending
    BY DEF AllEnd
  <2>1. k + 1 \in 1 .. Len(list) /\ list[k + 1].kind = "down"
    BY <1>1, <1>2
  <2>2. PICK j \in (k + 1) + 1 .. Len(list) : list[j].kind \in Ending
    BY <1>4, <2>1 DEF AllEnd
  <2>3. j - 1 \in k + 1 .. Len(rest) /\ rest[j - 1] = list[j]
    BY <1>1, <1>2, <1>3, <2>2
  <2> QED
    BY <2>2, <2>3
<1>5. ASSUME AllEnd(list), list[1].kind = "down" PROVE EndsOne(rest)
  <2>1. PICK j \in 1 + 1 .. Len(list) : list[j].kind \in Ending
    BY <1>1, <1>5 DEF AllEnd
  <2> QED
    BY <1>3, <2>1 DEF EndsOne
<1>6. ASSUME EndsOne(list), list[1].kind \notin Ending PROVE EndsOne(rest)
  <2>1. PICK j \in 1 .. Len(list) : list[j].kind \in Ending
    BY <1>6 DEF EndsOne
  <2>2. j \in 2 .. Len(list)
    BY <1>1, <1>6, <2>1
  <2> QED
    BY <1>3, <2>1, <2>2 DEF EndsOne
<1> QED
  BY <1>4, <1>5, <1>6 DEF rest

-----------------------------------------------------------------------------
(* Types. *)

\* The events the compositor sends.
LEMMA EventsHaveTypes ==
  /\ \A kind \in Kinds : Event(kind) \in EventType /\ Event(kind).kind = kind
  /\ \A size \in Size :
       Configure(size) \in EventType /\ Configure(size).kind = "configure"
  /\ \A i \in Ids : /\ Release(i) \in EventType /\ Release(i).kind = "release"
                    /\ Release(i).slot = i
<1>1. 0 \in 0 .. BufferCount /\ \A i \in Ids : i \in 0 .. BufferCount
  BY SurfaceAssumption DEF Ids
<1>2. <<0, 0>> \in Size
  BY DEF Size
<1>3. \A kind \in Kinds : Event(kind) \in EventType /\ Event(kind).kind = kind
  BY <1>1, <1>2 DEF Event, EventType
<1>4. \A size \in Size :
        Configure(size) \in EventType /\ Configure(size).kind = "configure"
  BY <1>1, <1>2 DEF Configure, Event, EventType, Kinds
<1>5. \A i \in Ids : /\ Release(i) \in EventType /\ Release(i).kind = "release"
                     /\ Release(i).slot = i
  BY <1>1, <1>2 DEF Release, Event, EventType, Kinds
<1> QED
  BY <1>3, <1>4, <1>5

\* Sizes are pairs, and so is what compute_game_size returns.
LEMMA SizesHaveTypes ==
  /\ Source \in Size /\ \A size \in Sizes : size \in Size
  /\ GameSize \in Size /\ <<0, 0>> \in Size
<1>1. Source \in Size /\ \A size \in Sizes : size \in Size
  BY SurfaceAssumption DEF Size
<1>2. <<0, 0>> \in Size
  BY DEF Size
<1> DEFINE fits == Smaller((DisplayWidth - 2 * SafeInset) \div Source[1],
                           (DisplayHeight - 2 * SafeInset) \div Source[2])
           scale == IF fits < 1 THEN 1 ELSE fits
<1>3. scale \in Nat
  <2>1. PICK w \in Int, h \in Int : /\ w = DisplayWidth - 2 * SafeInset
                                    /\ h = DisplayHeight - 2 * SafeInset
    BY SurfaceAssumption
  <2>2. PICK x \in Nat \ {0}, y \in Nat \ {0} : x = Source[1] /\ y = Source[2]
    BY SurfaceAssumption
  <2>3. w \div x \in Int /\ h \div y \in Int
    OBVIOUS
  <2>4. fits \in Int
    BY <2>1, <2>2, <2>3 DEF Smaller
  <2> HIDE DEF fits
  <2> QED
    BY <2>4
<1>4. GameSize = <<Source[1] * scale, Source[2] * scale>>
  BY DEF GameSize
<1> HIDE DEF scale
<1>5. Source[1] \in Nat /\ Source[2] \in Nat
  BY SurfaceAssumption
<1>6. GameSize \in Size
  BY <1>3, <1>4, <1>5 DEF Size
<1> QED
  BY <1>1, <1>2, <1>6

\* One event is sent.
LEMMA OneIsSent ==
  ASSUME QueueTypes, NEW e \in EventType, Send(<<e>>), UNCHANGED inbox
  PROVE  events' \in Seq(EventType) /\ Incoming' = Incoming \o <<e>>
         /\ Incoming \in Seq(EventType)
<1>1. <<e>> \in Seq(EventType)
  OBVIOUS
<1>2. events' = events \o <<e>>
  BY DEF Send
<1>3. inbox \in Seq(EventType) /\ events \in Seq(EventType)
  BY DEF QueueTypes
<1>4. inbox \o (events \o <<e>>) = (inbox \o events) \o <<e>>
  BY <1>1, <1>3, ConcatAssociative
<1> QED
  BY <1>1, <1>2, <1>3, <1>4, ConcatProperties DEF Incoming

\* The first event is dealt with.
LEMMA FirstIsHandled ==
  ASSUME QueueTypes, inbox # <<>>, inbox' = Tail(inbox), UNCHANGED events
  PROVE  /\ inbox' \in Seq(EventType) /\ Incoming \in Seq(EventType)
         /\ Incoming # <<>> /\ Incoming' = Tail(Incoming)
         /\ Head(inbox) = Incoming[1] /\ Head(inbox) = Head(Incoming)
         /\ Head(inbox) \in EventType
<1>1. inbox \in Seq(EventType) /\ events \in Seq(EventType)
  BY DEF QueueTypes
<1>2. Len(inbox) \in Nat \ {0} /\ Len(events) \in Nat
  BY <1>1, EmptySeq, LenProperties
<1>3. /\ Tail(inbox) \in Seq(EventType) /\ Len(Tail(inbox)) = Len(inbox) - 1
      /\ \A k \in 1 .. Len(Tail(inbox)) : Tail(inbox)[k] = inbox[k + 1]
  BY <1>1, HeadTailProperties
<1>4. /\ Incoming \in Seq(EventType) /\ Len(Incoming) = Len(inbox) + Len(events)
      /\ \A k \in 1 .. Len(inbox) + Len(events) :
           Incoming[k] = IF k <= Len(inbox) THEN inbox[k] ELSE events[k - Len(inbox)]
  BY <1>1, ConcatProperties DEF Incoming
<1>5. Incoming # <<>> /\ Incoming[1] = inbox[1]
  BY <1>2, <1>4
<1>6. Head(inbox) = inbox[1] /\ Head(Incoming) = Incoming[1]
  OBVIOUS
<1>7. inbox[1] \in EventType
  BY <1>1, <1>2, ElementOfSeq
<1>8. Incoming' = Tail(inbox) \o events
  BY DEF Incoming
<1>9. /\ Incoming' \in Seq(EventType)
      /\ Len(Incoming') = (Len(inbox) - 1) + Len(events)
      /\ \A k \in 1 .. (Len(inbox) - 1) + Len(events) :
           Incoming'[k] = IF k <= Len(inbox) - 1 THEN Tail(inbox)[k]
                          ELSE events[k - (Len(inbox) - 1)]
  BY <1>1, <1>3, <1>8, ConcatProperties
<1>10. /\ Tail(Incoming) \in Seq(EventType) /\ Len(Tail(Incoming)) = Len(Incoming) - 1
       /\ \A k \in 1 .. Len(Tail(Incoming)) : Tail(Incoming)[k] = Incoming[k + 1]
  BY <1>4, <1>5, HeadTailProperties
<1>11. ASSUME NEW k \in 1 .. Len(Incoming') PROVE Incoming'[k] = Tail(Incoming)[k]
  <2>1. k \in 1 .. (Len(inbox) - 1) + Len(events) /\ k \in 1 .. Len(Tail(Incoming))
    BY <1>2, <1>4, <1>9, <1>10
  <2>2. k + 1 \in 1 .. Len(inbox) + Len(events)
    BY <1>2, <2>1
  <2>3. CASE k <= Len(inbox) - 1
    BY <1>2, <1>3, <1>4, <1>9, <1>10, <2>1, <2>2, <2>3
  <2>4. CASE ~(k <= Len(inbox) - 1)
    <3>1. Incoming'[k] = events[k - (Len(inbox) - 1)]
      BY <1>9, <2>1, <2>4
    <3>2. Incoming[k + 1] = events[(k + 1) - Len(inbox)]
      BY <1>2, <1>4, <2>2, <2>4
    <3>3. k - (Len(inbox) - 1) = (k + 1) - Len(inbox)
      BY <1>2
    <3> QED
      BY <1>10, <2>1, <3>1, <3>2, <3>3
  <2> QED
    BY <2>3, <2>4
<1>12. Len(Incoming') = Len(Tail(Incoming))
  BY <1>2, <1>4, <1>9, <1>10
<1>13. Incoming' = Tail(Incoming)
  BY <1>9, <1>10, <1>11, <1>12, SeqEqual
<1> QED
  BY <1>3, <1>4, <1>5, <1>6, <1>7, <1>13

\* Reading moves what was sent, and keeps it.
LEMMA ReadingKeeps ==
  ASSUME QueueTypes, inbox = <<>>, inbox' = events, events' = <<>>
  PROVE  /\ inbox' \in Seq(EventType) /\ events' \in Seq(EventType)
         /\ Incoming' = Incoming
<1>1. events \in Seq(EventType)
  BY DEF QueueTypes
<1>2. events \o <<>> = events /\ <<>> \o events = events
  BY <1>1, ConcatEmptySeq
<1> QED
  BY <1>1, <1>2, EmptySeq DEF Incoming

\* A size with one side taken from each of two.
LEMMA MixedSize ==
  ASSUME NEW a \in Size, NEW b \in Size
  PROVE  [i \in 1 .. 2 |-> IF a[i] > 0 THEN a[i] ELSE b[i]] \in Size
<1> DEFINE f == [i \in 1 .. 2 |-> IF a[i] > 0 THEN a[i] ELSE b[i]]
<1>1. \A i \in 1 .. 2 : a[i] \in Nat /\ b[i] \in Nat
  BY DEF Size
<1>2. f \in [1 .. 2 -> Nat]
  BY <1>1
<1>3. f = <<f[1], f[2]>>
  <2>1. f \in Seq(Nat) /\ Len(f) = 2
    <3>1. f \in Seq(Nat)
      BY <1>2, SeqDef
    <3> QED
      BY <1>2, <3>1, LenProperties
  <2>2. <<f[1], f[2]>> \in Seq(Nat) /\ Len(<<f[1], f[2]>>) = 2
    BY <1>2
  <2>3. \A i \in 1 .. 2 : f[i] = <<f[1], f[2]>>[i]
    OBVIOUS
  <2> HIDE DEF f
  <2> QED
    BY <2>1, <2>2, <2>3, SeqEqual
<1>4. f[1] \in Nat /\ f[2] \in Nat
  BY <1>2
<1> HIDE DEF f
<1>5. f \in Size
  BY <1>3, <1>4 DEF Size
<1> QED
  BY <1>5 DEF f

\* What an event does to the fields.
LEMMA HandledHasType ==
  ASSUME SurfaceTypes, NEW e \in EventType
  PROVE  /\ Handled(e) \in ClientType
         /\ e.kind = "down" => Handled(e).down = TRUE
         /\ e.kind \in {"up", "cancel", "touchless"} => Handled(e).down = FALSE
         /\ e.kind \notin {"down", "up", "cancel", "touchless"} =>
              Handled(e).down = client.down
<1>1. client \in ClientType /\ client.size \in Size /\ e.size \in Size
  BY DEF SurfaceTypes, ClientType, EventType
<1>2. PICK mixed \in Size :
        mixed = [i \in 1 .. 2 |-> IF e.size[i] > 0 THEN e.size[i] ELSE client.size[i]]
  BY <1>1, MixedSize
<1>3. CASE e.kind = "configure"
  <2>1. Handled(e) = [client EXCEPT !.configured = TRUE,
                        !.size = IF mode = "widget" THEN e.size ELSE mixed]
    BY <1>1, <1>2, <1>3 DEF Handled, ClientType
  <2> QED
    BY <1>1, <1>3, <2>1 DEF ClientType
<1>4. CASE e.kind = "background"
  BY <1>1, <1>4 DEF Handled, ClientType
<1>5. CASE e.kind = "shutdown"
  BY <1>1, <1>5 DEF Handled, ClientType
<1>6. CASE e.kind = "down"
  BY <1>1, <1>6 DEF Handled, ClientType
<1>7. CASE e.kind \in {"up", "cancel"}
  BY <1>1, <1>7 DEF Handled, ClientType
<1>8. CASE e.kind \in {"touch", "touchless"}
  BY <1>1, <1>8 DEF Handled, ClientType
<1>9. CASE e.kind = "release"
  BY <1>1, <1>9 DEF Handled
<1> QED
  BY <1>3, <1>4, <1>5, <1>6, <1>7, <1>8, <1>9 DEF EventType, Kinds

\* The report of an event.
LEMMA ReportHasType ==
  ASSUME SurfaceTypes, NEW e \in EventType
  PROVE  /\ Report(e) \in Seq(BOOLEAN)
         /\ e.kind \in {"up", "cancel"} /\ client.down => Report(e) = <<FALSE>>
         /\ e.kind # "down" /\ ~(e.kind \in {"up", "cancel"} /\ client.down) =>
              Report(e) = <<>>
<1>1. <<TRUE>> \in Seq(BOOLEAN) /\ <<FALSE>> \in Seq(BOOLEAN) /\ <<>> \in Seq(BOOLEAN)
  OBVIOUS
<1>2. client.down \in BOOLEAN
  BY DEF SurfaceTypes, ClientType
<1>3. CASE e.kind = "down"
  BY <1>1, <1>3 DEF Report
<1>4. CASE e.kind \in {"up", "cancel"} /\ client.down
  BY <1>1, <1>4 DEF Report
<1>5. CASE e.kind # "down" /\ ~(e.kind \in {"up", "cancel"} /\ client.down)
  BY <1>1, <1>2, <1>5 DEF Report
<1> QED
  BY <1>3, <1>4, <1>5

-----------------------------------------------------------------------------
(* The compositor. *)

\* A step that leaves the buffers alone and gives none back.
LEMMA BuffersStay ==
  ASSUME OwnedInv, UNCHANGED <<slots, requests, shown, copies>>,
         pc' # "closed" => pc # "closed",
         Released(Incoming') = Released(Incoming),
         ReleasesOnce(Incoming) => ReleasesOnce(Incoming')
  PROVE  OwnedInv'
<1>1. /\ OnTheWay' = OnTheWay /\ OnScreen' = OnScreen
      /\ Released(Incoming)' = Released(Incoming)
      /\ ReleasesOnce(Incoming)' <=> ReleasesOnce(Incoming')
      /\ NoneTwice(requests)' <=> NoneTwice(requests)
  BY DEF OnTheWay, OnScreen, Released, ReleasesOnce, NoneTwice
<1> QED
  BY <1>1 DEF OwnedInv

\* A step that leaves touches alone and sends nothing.
LEMMA TouchesStay ==
  ASSUME TouchInv, Incoming' = Incoming, UNCHANGED <<reports, fingers, unsaid>>,
         client'.down = client.down, believed' \in {believed, FALSE},
         believed \in BOOLEAN, pc' # "closed" => pc # "closed"
  PROVE  TouchInv'
<1>1. /\ AllEnd(Incoming)' <=> AllEnd(Incoming)
      /\ EndsOne(Incoming)' <=> EndsOne(Incoming)
  BY DEF AllEnd, EndsOne
<1>2. WillBelieve' = WillBelieve \/ WillBelieve' = FALSE
  BY DEF WillBelieve
<1> QED
  BY <1>1, <1>2 DEF TouchInv

\* An event that is not a release is sent: touches are recorded as they end.
LEMMA SendingKeeps ==
  ASSUME ClientInv, NEW e \in EventType, e.kind # "release", Send(<<e>>),
         UNCHANGED <<ours, inbox, requests, shown, copies>>,
         \/ UNCHANGED fingers /\ e.kind # "down"
         \/ e.kind = "down" /\ fingers' # {}
         \/ e.kind \in Ending
  PROVE  ClientInv'
<1>1. SurfaceTypes /\ QueueTypes /\ OwnedInv /\ TouchInv
  BY DEF ClientInv
<1>2. /\ events' \in Seq(EventType) /\ Incoming' = Incoming \o <<e>>
      /\ Incoming \in Seq(EventType)
  BY <1>1, OneIsSent
<1>3. SurfaceTypes'
  BY <1>1 DEF SurfaceTypes, ours
<1>4. QueueTypes'
  BY <1>1, <1>2 DEF QueueTypes, ours
<1>5. OwnedInv'
  BY <1>1, <1>2, OtherIsSent, BuffersStay DEF ours
<1>6. TouchInv'
  <2> SUFFICES ASSUME pc' # "closed"
               PROVE  /\ ~client'.down => ~WillBelieve' \/ unsaid'
                      /\ fingers' = {} => /\ AllEnd(Incoming')
                                          /\ client'.down => EndsOne(Incoming')
    BY DEF TouchInv, AllEnd, EndsOne
  <2>1. UNCHANGED <<client, reports, believed, pc, unsaid>>
    BY DEF ours
  <2>2. pc # "closed"
    BY <2>1
  <2>3. /\ ~client.down => ~WillBelieve \/ unsaid
        /\ fingers = {} => AllEnd(Incoming) /\ (client.down => EndsOne(Incoming))
    BY <1>1, <2>2 DEF TouchInv
  <2>4. WillBelieve' = WillBelieve
    BY <2>1 DEF WillBelieve
  <2>5. /\ e.kind \in Ending => AllEnd(Incoming') /\ EndsOne(Incoming')
        /\ e.kind # "down" /\ AllEnd(Incoming) => AllEnd(Incoming')
        /\ EndsOne(Incoming) => EndsOne(Incoming')
    BY <1>2, PressesAfterSending
  <2>6. ASSUME fingers' = {}
        PROVE  AllEnd(Incoming') /\ (client'.down => EndsOne(Incoming'))
    BY <2>1, <2>3, <2>5, <2>6
  <2> QED
    BY <2>1, <2>3, <2>4, <2>6
<1> QED
  BY <1>3, <1>4, <1>5, <1>6 DEF ClientInv

\* What the compositor sends of its own accord, and what fingers do.
LEMMA CompositorKeeps ==
  ASSUME ClientInv,
         \/ SendConfigure \/ SendOther \/ CancelTouches
         \/ CapabilityGained \/ CapabilityLost
         \/ \E f \in Fingers : FingerDown(f) \/ FingerUp(f)
  PROVE  ClientInv'
<1>1. CASE SendConfigure
  <2>1. PICK size \in Sizes : Send(<<Configure(size)>>)
    BY <1>1 DEF SendConfigure
  <2>2. Configure(size) \in EventType /\ Configure(size).kind = "configure"
    BY EventsHaveTypes, SizesHaveTypes
  <2>3. UNCHANGED <<ours, inbox, requests, shown, copies, fingers>>
    BY <1>1 DEF SendConfigure, theirs
  <2> QED
    BY <2>1, <2>2, <2>3, SendingKeeps
<1>2. CASE SendOther
  <2>1. PICK kind \in {"background", "shutdown"} : Send(<<Event(kind)>>)
    BY <1>2 DEF SendOther
  <2>2. Event(kind) \in EventType /\ Event(kind).kind = kind
    BY EventsHaveTypes DEF Kinds
  <2>3. UNCHANGED <<ours, inbox, requests, shown, copies, fingers>>
    BY <1>2 DEF SendOther, theirs
  <2> QED
    BY <2>1, <2>2, <2>3, SendingKeeps
<1>3. CASE CancelTouches
  <2>1. Event("cancel") \in EventType /\ Event("cancel").kind = "cancel"
    BY EventsHaveTypes DEF Kinds
  <2> QED
    BY <1>3, <2>1, SendingKeeps DEF CancelTouches, Ending
<1>4. CASE CapabilityLost
  <2>1. Event("touchless") \in EventType /\ Event("touchless").kind = "touchless"
    BY EventsHaveTypes DEF Kinds
  <2>2. /\ UNCHANGED <<ours, inbox, requests, shown, copies>>
        /\ Send(<<Event("touchless")>>)
    BY <1>4 DEF CapabilityLost
  <2>3. "touchless" # "release" /\ "touchless" \in Ending
    BY DEF Ending
  <2> QED
    BY <2>1, <2>2, <2>3, SendingKeeps
<1>5. ASSUME NEW f \in Fingers, FingerDown(f) PROVE ClientInv'
  <2>1. Event("down") \in EventType /\ Event("down").kind = "down"
    BY EventsHaveTypes DEF Kinds
  <2> QED
    BY <1>5, <2>1, SendingKeeps DEF FingerDown
<1>6. ASSUME NEW f \in Fingers, FingerUp(f) PROVE ClientInv'
  <2>1. Event("up") \in EventType /\ Event("up").kind = "up"
    BY EventsHaveTypes DEF Kinds
  <2> QED
    BY <1>6, <2>1, SendingKeeps DEF FingerUp, Ending
<1>7. CASE CapabilityGained
  <2>1. Event("touch") \in EventType /\ Event("touch").kind = "touch"
    BY EventsHaveTypes DEF Kinds
  <2>2. /\ UNCHANGED <<ours, inbox, requests, shown, copies, fingers>>
        /\ Send(<<Event("touch")>>)
    BY <1>7 DEF CapabilityGained
  <2> QED
    BY <2>1, <2>2, SendingKeeps
<1> QED
  BY <1>1, <1>2, <1>3, <1>4, <1>5, <1>6, <1>7

\* A buffer that leaves the requests.
LEMMA RestOfRequests ==
  ASSUME requests \in Seq(Ids), requests # <<>>, NoneTwice(requests),
         requests' = Tail(requests)
  PROVE  /\ Head(requests) \in OnTheWay /\ requests' \in Seq(Ids)
         /\ OnTheWay' = OnTheWay \ {Head(requests)} /\ NoneTwice(requests')
<1>1. Len(requests) \in Nat \ {0} /\ requests[1] \in Ids
  BY EmptySeq, ElementOfSeq
<1>2. Head(requests) = requests[1]
  BY <1>1
<1>3. /\ requests' \in Seq(Ids) /\ Len(requests') = Len(requests) - 1
      /\ \A k \in 1 .. Len(requests') : requests'[k] = requests[k + 1]
  BY HeadTailProperties
<1>4. NoneTwice(requests')
  BY <1>1, <1>3 DEF NoneTwice
<1>5. \A k \in 1 .. Len(requests) :
        k = 1 \/ (k - 1 \in 1 .. Len(requests') /\ requests[k] = requests'[k - 1])
  BY <1>1, <1>3
<1>6. requests[1] \in OnTheWay
  BY <1>1 DEF OnTheWay
<1>7. requests[1] \notin OnTheWay'
  <2> SUFFICES ASSUME NEW k \in 1 .. Len(requests'), requests'[k] = requests[1]
               PROVE  FALSE
    BY DEF OnTheWay
  <2>1. k + 1 \in 1 .. Len(requests) /\ 1 \in 1 .. Len(requests)
        /\ requests[k + 1] = requests[1]
    BY <1>1, <1>3
  <2>2. k + 1 = 1
    BY <2>1 DEF NoneTwice
  <2> QED
    BY <2>2
<1>8. ASSUME NEW i \in OnTheWay' PROVE i \in OnTheWay
  BY <1>1, <1>3 DEF OnTheWay
<1>9. ASSUME NEW i \in OnTheWay, i # requests[1] PROVE i \in OnTheWay'
  BY <1>1, <1>3, <1>5, <1>9 DEF OnTheWay
<1> QED
  BY <1>2, <1>3, <1>4, <1>6, <1>7, <1>8, <1>9

\* What a commit that is taken sends.
LEMMA TakingSends ==
  ASSUME ClientInv, TakeCommit
  PROVE  /\ SurfaceTypes' /\ requests' \in Seq(Ids) /\ shown' \in Ids
         /\ \/ /\ copies /\ Send(<<Release(shown')>>)
            \/ ~copies /\ shown \notin {0, shown'} /\ Send(<<Release(shown)>>)
            \/ ~copies /\ shown \in {0, shown'} /\ UNCHANGED events
<1>1. requests \in Seq(Ids) /\ requests # <<>> /\ events \in Seq(EventType)
  BY DEF ClientInv, QueueTypes, TakeCommit
<1>2. Head(requests) \in Ids /\ Tail(requests) \in Seq(Ids)
  BY <1>1, HeadTailProperties
<1>3. SurfaceTypes'
  BY DEF ClientInv, SurfaceTypes, TakeCommit, ours
<1>4. shown' = Head(requests) /\ requests' = Tail(requests)
  BY DEF TakeCommit
<1>5. events \o <<>> = events
  BY <1>1, ConcatEmptySeq
<1>6. Send(IF copies THEN <<Release(shown')>>
           ELSE IF shown \notin {0, shown'} THEN <<Release(shown)>> ELSE <<>>)
  BY <1>4 DEF TakeCommit
<1>7. CASE copies
  BY <1>6, <1>7, <1>2, <1>3, <1>4
<1>8. CASE ~copies /\ shown \notin {0, shown'}
  BY <1>6, <1>8, <1>2, <1>3, <1>4
<1>9. CASE ~copies /\ ~(shown \notin {0, shown'})
  <2>1. Send(<<>>)
    BY <1>6, <1>9
  <2> QED
    BY <2>1, <1>5, <1>9, <1>2, <1>3, <1>4 DEF Send
<1> QED
  BY <1>7, <1>8, <1>9

\* A commit is taken: the buffer goes to the screen, and one comes back.
LEMMA TakingKeeps ==
  ASSUME ClientInv, TakeCommit
  PROVE  ClientInv'
<1>1. SurfaceTypes /\ QueueTypes /\ OwnedInv /\ TouchInv
  BY DEF ClientInv
<1>2. /\ UNCHANGED <<ours, inbox, copies, fingers>>
      /\ requests # <<>> /\ requests' = Tail(requests) /\ shown' = Head(requests)
  BY DEF TakeCommit
<1>3. UNCHANGED <<pc, slots, client, reports, believed, unsaid>>
  BY <1>2 DEF ours
<1>4. /\ SurfaceTypes' /\ requests' \in Seq(Ids) /\ shown' \in Ids
      /\ \/ /\ copies /\ Send(<<Release(shown')>>)
         \/ ~copies /\ shown \notin {0, shown'} /\ Send(<<Release(shown)>>)
         \/ ~copies /\ shown \in {0, shown'} /\ UNCHANGED events
  BY TakingSends
<1>5. shown \in {0} \cup Ids /\ shown' \in 0 .. BufferCount
  BY <1>1, <1>4, SurfaceAssumption DEF QueueTypes, Ids
<1>6. ASSUME events' \in Seq(EventType) PROVE QueueTypes'
  BY <1>1, <1>2, <1>3, <1>4, <1>5, <1>6 DEF QueueTypes
<1>7. requests \in Seq(Ids) /\ Incoming \in Seq(EventType)
  BY <1>1, ConcatProperties DEF QueueTypes, Incoming
<1>8. CASE ~copies /\ shown \in {0, shown'} /\ UNCHANGED events
  <2>1. Incoming' = Incoming
    BY <1>2, <1>8 DEF Incoming
  <2>2. QueueTypes'
    BY <1>1, <1>6, <1>8 DEF QueueTypes
  <2>3. TouchInv'
    BY <1>1, <1>2, <1>3, <2>1, TouchesStay DEF QueueTypes
  <2>4. ASSUME pc # "closed" PROVE OwnedInv'
    <3>1. /\ \A i \in OnTheWay \cup OnScreen \cup Released(Incoming) :
               slots # <<>> /\ slots[i].busy
          /\ OnTheWay \cap OnScreen = {} /\ OnTheWay \cap Released(Incoming) = {}
          /\ OnScreen \cap Released(Incoming) = {}
          /\ NoneTwice(requests) /\ ReleasesOnce(Incoming)
      BY <1>1, <2>4 DEF OwnedInv
    <3>2. /\ shown' \in OnTheWay
          /\ OnTheWay' = OnTheWay \ {shown'} /\ NoneTwice(requests')
      BY <1>2, <1>7, <3>1, RestOfRequests
    <3>3. OnScreen' = {shown'}
      BY <1>2, <1>4, <1>8 DEF OnScreen
    <3>4. /\ Released(Incoming)' = Released(Incoming)
          /\ ReleasesOnce(Incoming)' /\ NoneTwice(requests)'
      BY <2>1, <3>1, <3>2 DEF Released, ReleasesOnce, NoneTwice
    <3>5. \A i \in OnTheWay' \cup OnScreen' \cup Released(Incoming)' :
            slots # <<>> /\ slots[i].busy
      BY <3>1, <3>2, <3>3, <3>4
    <3> QED
      BY <1>3, <3>1, <3>2, <3>3, <3>4, <3>5 DEF OwnedInv
  <2> QED
    BY <1>3, <1>4, <2>2, <2>3, <2>4 DEF ClientInv, OwnedInv
<1>9. ASSUME NEW i \in Ids, Send(<<Release(i)>>),
             \/ copies /\ i = shown'
             \/ ~copies /\ shown \notin {0, shown'} /\ i = shown
      PROVE  ClientInv'
  <2> DEFINE e == Release(i)
  <2>1. e \in EventType /\ e.kind = "release" /\ e.slot = i
    BY EventsHaveTypes
  <2> HIDE DEF e
  <2>2. events' \in Seq(EventType) /\ Incoming' = Incoming \o <<e>>
    BY <1>1, <1>2, <1>9, <2>1, OneIsSent DEF e
  <2>3. QueueTypes'
    BY <1>6, <2>2
  <2>4. TouchInv'
    <3>1. WillBelieve' = WillBelieve
      BY <1>3 DEF WillBelieve
    <3>2. /\ AllEnd(Incoming) => AllEnd(Incoming')
          /\ EndsOne(Incoming) => EndsOne(Incoming')
      BY <1>7, <2>1, <2>2, PressesAfterSending
    <3> SUFFICES ASSUME pc # "closed"
                 PROVE  /\ ~client.down => ~WillBelieve \/ unsaid
                        /\ fingers = {} => /\ AllEnd(Incoming')
                                           /\ client.down => EndsOne(Incoming')
      BY <1>2, <1>3, <3>1 DEF TouchInv, AllEnd, EndsOne
    <3> QED
      BY <1>1, <3>2 DEF TouchInv
  <2>5. ASSUME pc # "closed" PROVE OwnedInv'
    <3>1. /\ \A j \in OnTheWay \cup OnScreen \cup Released(Incoming) :
               slots # <<>> /\ slots[j].busy
          /\ OnTheWay \cap OnScreen = {} /\ OnTheWay \cap Released(Incoming) = {}
          /\ OnScreen \cap Released(Incoming) = {}
          /\ NoneTwice(requests) /\ ReleasesOnce(Incoming)
      BY <1>1, <2>5 DEF OwnedInv
    <3>2. /\ shown' \in OnTheWay
          /\ OnTheWay' = OnTheWay \ {shown'} /\ NoneTwice(requests')
      BY <1>2, <1>7, <3>1, RestOfRequests
    <3>3. i \notin Released(Incoming)
      BY <1>9, <3>1, <3>2 DEF OnScreen
    <3>4. /\ Released(Incoming') = Released(Incoming) \cup {i}
          /\ ReleasesOnce(Incoming')
      BY <1>7, <2>1, <2>2, <3>1, <3>3, ReleaseIsSent
    <3>5. /\ Released(Incoming)' = Released(Incoming) \cup {i}
          /\ ReleasesOnce(Incoming)' /\ NoneTwice(requests)'
      BY <3>2, <3>4 DEF Released, ReleasesOnce, NoneTwice
    <3>6. CASE copies /\ i = shown'
      <4>1. OnScreen' = {}
        BY <1>2, <3>6 DEF OnScreen
      <4>2. \A j \in OnTheWay' \cup OnScreen' \cup Released(Incoming)' :
              slots # <<>> /\ slots[j].busy
        BY <3>1, <3>2, <3>5, <3>6, <4>1
      <4> QED
        BY <1>3, <3>1, <3>2, <3>5, <3>6, <4>1, <4>2 DEF OwnedInv
    <3>7. CASE ~copies /\ shown \notin {0, shown'} /\ i = shown
      <4>1. OnScreen' = {shown'} /\ OnScreen = {i}
        BY <1>2, <1>4, <1>9, <3>7 DEF OnScreen
      <4>2. \A j \in OnTheWay' \cup OnScreen' \cup Released(Incoming)' :
              slots # <<>> /\ slots[j].busy
        BY <3>1, <3>2, <3>5, <4>1
      <4> QED
        BY <1>3, <3>1, <3>2, <3>5, <3>7, <4>1, <4>2 DEF OwnedInv
    <3> QED
      BY <1>9, <3>6, <3>7
  <2> QED
    BY <1>3, <1>4, <2>3, <2>4, <2>5 DEF ClientInv, OwnedInv
<1>10. CASE copies /\ Send(<<Release(shown')>>)
  BY <1>4, <1>9, <1>10
<1>11. CASE ~copies /\ shown \notin {0, shown'} /\ Send(<<Release(shown)>>)
  BY <1>5, <1>9, <1>11
<1> QED
  BY <1>4, <1>8, <1>10, <1>11

-----------------------------------------------------------------------------
(* The client. *)

\* An event is dealt with: a buffer that is back is free, and a touch that ends
\* is reported.
LEMMA HandlingKeeps ==
  ASSUME ClientInv, Handle
  PROVE  ClientInv'
<1> DEFINE e == Head(inbox)
<1>1. SurfaceTypes /\ QueueTypes /\ OwnedInv /\ TouchInv
  BY DEF ClientInv
<1>2. /\ client' = Handled(e) /\ reports' = reports \o Report(e)
      /\ slots' = IF e.kind = "release" /\ e.slot \in DOMAIN slots
                  THEN [slots EXCEPT ![e.slot].busy = FALSE] ELSE slots
      /\ unsaid' = (\/ unsaid /\ Report(e) = <<>>
                    \/ client.down /\ e.kind = "touchless")
      /\ UNCHANGED <<mode, pc, back, remaining, target, believed, events, requests,
                     shown, copies, fingers>>
      /\ inbox # <<>> /\ inbox' = Tail(inbox)
  BY DEF Handle, theirs
<1>3. /\ inbox' \in Seq(EventType) /\ Incoming \in Seq(EventType)
      /\ Incoming # <<>> /\ Incoming' = Tail(Incoming)
      /\ e = Incoming[1] /\ e = Head(Incoming) /\ e \in EventType
  BY <1>1, <1>2, FirstIsHandled
<1> HIDE DEF e
<1>4. /\ Handled(e) \in ClientType
      /\ e.kind = "down" => Handled(e).down = TRUE
      /\ e.kind \in {"up", "cancel", "touchless"} => Handled(e).down = FALSE
      /\ e.kind \notin {"down", "up", "cancel", "touchless"} =>
           Handled(e).down = client.down
  BY <1>1, <1>3, HandledHasType
<1>5. /\ Report(e) \in Seq(BOOLEAN)
      /\ e.kind \in {"up", "cancel"} /\ client.down => Report(e) = <<FALSE>>
      /\ e.kind # "down" /\ ~(e.kind \in {"up", "cancel"} /\ client.down) =>
           Report(e) = <<>>
  BY <1>1, <1>3, ReportHasType
<1>6. slots' \in {<<>>} \cup [Ids -> SlotType]
  <2>1. \/ slots' = slots
        \/ e.slot \in DOMAIN slots /\ slots' = [slots EXCEPT ![e.slot].busy = FALSE]
    BY <1>2
  <2>2. CASE slots = <<>>
    BY <2>1, <2>2
  <2>3. CASE slots \in [Ids -> SlotType]
    BY <2>1, <2>3 DEF SlotType
  <2> QED
    BY <1>1, <2>2, <2>3 DEF SurfaceTypes
<1>7. SurfaceTypes'
  BY <1>1, <1>2, <1>4, <1>6 DEF SurfaceTypes
<1>8. reports' \in Seq(BOOLEAN)
  BY <1>1, <1>2, <1>5, ConcatProperties DEF QueueTypes
<1>9. QueueTypes'
  BY <1>1, <1>2, <1>3, <1>8 DEF QueueTypes
<1>10. ASSUME pc # "closed" PROVE OwnedInv'
  <2>1. /\ \A i \in OnTheWay \cup OnScreen \cup Released(Incoming) :
             slots # <<>> /\ slots[i].busy
        /\ OnTheWay \cap OnScreen = {} /\ OnTheWay \cap Released(Incoming) = {}
        /\ OnScreen \cap Released(Incoming) = {}
        /\ NoneTwice(requests) /\ ReleasesOnce(Incoming)
    BY <1>1, <1>10 DEF OwnedInv
  <2>2. /\ ReleasesOnce(Incoming')
        /\ e.kind # "release" => Released(Incoming') = Released(Incoming)
        /\ e.kind = "release" =>
             /\ Released(Incoming') = Released(Incoming) \ {e.slot}
             /\ e.slot \in Ids => e.slot \in Released(Incoming)
    BY <1>3, <2>1, RestReleases
  <2>3. CASE e.kind # "release"
    BY <1>1, <1>2, <2>2, <2>3, BuffersStay
  <2>4. CASE e.kind = "release"
    <3>1. /\ OnTheWay' = OnTheWay /\ OnScreen' = OnScreen
          /\ Released(Incoming)' = Released(Incoming) \ {e.slot}
          /\ ReleasesOnce(Incoming)' /\ NoneTwice(requests)'
      BY <1>2, <2>1, <2>2, <2>4 DEF OnTheWay, OnScreen, Released, ReleasesOnce, NoneTwice
    <3>2. ASSUME NEW i \in OnTheWay \cup OnScreen \cup (Released(Incoming) \ {e.slot})
          PROVE  slots' # <<>> /\ slots'[i].busy
      <4>1. i \in Ids /\ i # e.slot
        BY <2>1, <2>2, <2>4 DEF OnTheWay, OnScreen, Released
      <4>2. slots # <<>> /\ slots[i].busy
        BY <2>1
      <4>3. slots \in [Ids -> SlotType] /\ slots' \in [Ids -> SlotType]
        <5>1. slots \in [Ids -> SlotType]
          BY <1>1, <4>2 DEF SurfaceTypes
        <5> QED
          BY <1>2, <5>1 DEF SlotType
      <4>4. slots'[i] = slots[i]
        BY <1>2, <4>1, <4>3
      <4>5. slots' # <<>>
        <5>1. 1 \in Ids
          BY SurfaceAssumption DEF Ids
        <5>2. DOMAIN slots' # {}
          BY <4>3, <5>1
        <5> QED
          BY <5>2
      <4> QED
        BY <4>2, <4>4, <4>5
    <3> QED
      BY <2>1, <3>1, <3>2 DEF OwnedInv
  <2> QED
    BY <2>3, <2>4
<1>11. /\ 1 \in 1 .. Len(Incoming)
       /\ \A k \in 1 .. Len(Incoming') :
            k + 1 \in 1 .. Len(Incoming) /\ Incoming'[k] = Incoming[k + 1]
  <2>1. Len(Incoming) \in Nat \ {0} /\ Len(Incoming') = Len(Incoming) - 1
    BY <1>3, EmptySeq, HeadTailProperties
  <2>2. \A k \in 1 .. Len(Incoming') : Incoming'[k] = Incoming[k + 1]
    BY <1>3, HeadTailProperties
  <2> QED
    BY <2>1, <2>2
<1>12. ASSUME pc # "closed"
       PROVE  /\ ~client'.down => ~WillBelieve' \/ unsaid'
              /\ fingers = {} => /\ AllEnd(Incoming')
                                 /\ client'.down => EndsOne(Incoming')
  <2>1. /\ ~client.down => ~WillBelieve \/ unsaid
        /\ fingers = {} => AllEnd(Incoming) /\ (client.down => EndsOne(Incoming))
    BY <1>1, <1>12 DEF TouchInv
  <2>2. /\ AllEnd(Incoming) => AllEnd(Incoming')
        /\ AllEnd(Incoming) /\ e.kind = "down" => EndsOne(Incoming')
        /\ EndsOne(Incoming) /\ e.kind \notin Ending => EndsOne(Incoming')
    BY <1>3, PressesOfTheRest
  <2>3. client.down \in BOOLEAN /\ client'.down \in BOOLEAN
    BY <1>1, <1>7 DEF SurfaceTypes, ClientType
  <2>4. reports \in Seq(BOOLEAN) /\ believed \in BOOLEAN
    BY <1>1 DEF QueueTypes
  <2>5. ASSUME Report(e) = <<>>, ~(client.down /\ e.kind = "touchless")
        PROVE  WillBelieve' = WillBelieve /\ unsaid' = unsaid
    <3>1. reports' = reports
      BY <1>2, <2>4, <2>5, ConcatEmptySeq
    <3> QED
      BY <1>1, <1>2, <2>5, <3>1 DEF WillBelieve, QueueTypes
  <2>6. CASE e.kind = "down"
    BY <1>2, <1>4, <2>1, <2>2, <2>6
  <2>7. CASE e.kind \in {"up", "cancel"} /\ client.down
    <3>1. client'.down = FALSE
      BY <1>2, <1>4, <2>7
    <3>2. reports' = reports \o <<FALSE>>
      BY <1>2, <1>5, <2>7
    <3>3. <<FALSE>> \in Seq(BOOLEAN) /\ Len(<<FALSE>>) = 1 /\ <<FALSE>>[1] = FALSE
      OBVIOUS
    <3>4. Len(reports) \in Nat
      BY <2>4, LenProperties
    <3>5. Len(reports') = Len(reports) + 1 /\ reports'[Len(reports) + 1] = FALSE
      BY <2>4, <3>2, <3>3, <3>4, ConcatProperties
    <3>6. reports' # <<>>
      BY <3>4, <3>5
    <3>7. ~WillBelieve'
      BY <3>5, <3>6 DEF WillBelieve
    <3> QED
      BY <2>1, <2>2, <3>1, <3>7
  <2>8. CASE e.kind = "touchless" /\ client.down
    <3>1. client'.down = FALSE /\ unsaid'
      BY <1>2, <1>4, <2>8
    <3> QED
      BY <2>1, <2>2, <3>1
  <2>9. CASE e.kind \in Ending /\ ~client.down
    <3>1. client'.down = FALSE
      BY <1>2, <1>4, <2>9 DEF Ending
    <3>2. WillBelieve' = WillBelieve /\ unsaid' = unsaid
      BY <1>5, <2>5, <2>9 DEF Ending
    <3> QED
      BY <2>1, <2>2, <2>9, <3>1, <3>2
  <2>10. CASE e.kind \notin Ending \cup {"down"}
    <3>1. client'.down = client.down
      BY <1>2, <1>4, <2>10 DEF Ending
    <3>2. WillBelieve' = WillBelieve /\ unsaid' = unsaid
      BY <1>5, <2>5, <2>10 DEF Ending
    <3> QED
      BY <2>1, <2>2, <2>10, <3>1, <3>2
  <2> QED
    BY <2>6, <2>7, <2>8, <2>9, <2>10 DEF Ending
<1>13. TouchInv'
  BY <1>2, <1>12 DEF TouchInv, AllEnd, EndsOne
<1>14. OwnedInv'
  BY <1>2, <1>10 DEF OwnedInv
<1> QED
  BY <1>7, <1>9, <1>13, <1>14 DEF ClientInv

\* A step that leaves requests, the screen, touches and what is on its way alone.
\* Buffers may be replaced when none is in use.
LEMMA OwnStepKeeps ==
  ASSUME ClientInv, SurfaceTypes', QueueTypes', Incoming' = Incoming,
         UNCHANGED <<requests, shown, copies, fingers, unsaid>>, pc # "closed",
         pc' # "closed" =>
           /\ slots' = slots \/ ~InUse
           /\ UNCHANGED reports /\ client'.down = client.down
           /\ believed' \in {believed, FALSE}
  PROVE  ClientInv'
<1>1. SurfaceTypes /\ QueueTypes /\ OwnedInv /\ TouchInv
  BY DEF ClientInv
<1>2. CASE pc' = "closed"
  BY <1>2 DEF ClientInv, OwnedInv, TouchInv
<1>3. CASE pc' # "closed"
  <2>1. TouchInv'
    BY <1>1, <1>3, TouchesStay DEF QueueTypes
  <2>2. CASE slots' = slots
    BY <1>1, <2>1, <2>2, BuffersStay DEF ClientInv
  <2>3. CASE ~InUse
    <3>1. OnTheWay = {} /\ OnScreen = {} /\ Released(Incoming) = {}
      <4> SUFFICES ASSUME NEW i \in OnTheWay \cup OnScreen \cup Released(Incoming)
                   PROVE  FALSE
        OBVIOUS
      <4>1. slots # <<>> /\ slots[i].busy
        BY <1>1 DEF OwnedInv
      <4>2. i \in Ids
        BY DEF OnTheWay, OnScreen, Released
      <4>3. i \in DOMAIN slots
        BY <1>1, <4>1, <4>2 DEF SurfaceTypes
      <4> QED
        BY <2>3, <4>1, <4>3 DEF InUse
    <3>2. /\ OnTheWay' = {} /\ OnScreen' = {} /\ Released(Incoming)' = {}
          /\ ReleasesOnce(Incoming)' /\ NoneTwice(requests)'
      BY <1>1, <3>1 DEF OnTheWay, OnScreen, Released, ReleasesOnce, NoneTwice, OwnedInv
    <3> QED
      BY <2>1, <3>2 DEF ClientInv, OwnedInv
  <2> QED
    BY <1>3, <2>2, <2>3
<1> QED
  BY <1>2, <1>3

\* present chooses buffers.
LEMMA PresentKeeps ==
  ASSUME ClientInv, pc # "closed", NEW then \in {"poll", "draw", "dispatch"},
         Present(then)
  PROVE  ClientInv'
<1>1. SurfaceTypes /\ QueueTypes
  BY DEF ClientInv
<1>2. UNCHANGED <<mode, remaining, client, reports, believed, unsaid, inbox, events,
                  requests, shown, copies, fingers>> /\ back' = then
  BY DEF Present, queues, theirs
<1>3. NewSlots \in [Ids -> SlotType]
  BY <1>1 DEF NewSlots, SlotType, Ids, SurfaceTypes, ClientType
<1>4. slots' \in {slots, NewSlots, <<>>} /\ (slots' = slots \/ ~InUse)
  BY DEF Present
<1>5. pc' \in {"find", "closed", then} /\ target' \in {target, client.size}
  BY DEF Present, FrameFails
<1>6. SurfaceTypes'
  BY <1>1, <1>2, <1>3, <1>4, <1>5 DEF SurfaceTypes, ClientType
<1>7. QueueTypes' /\ Incoming' = Incoming
  BY <1>1, <1>2 DEF QueueTypes, Incoming
<1> QED
  BY <1>2, <1>4, <1>6, <1>7, OwnStepKeeps

\* The frame goes to a buffer that is with the client.
LEMMA WritingKeeps ==
  ASSUME ClientInv, Write
  PROVE  ClientInv'
<1>1. SurfaceTypes /\ QueueTypes /\ OwnedInv /\ TouchInv
  BY DEF ClientInv
<1>2. UNCHANGED <<mode, back, remaining, client, target, reports, believed, unsaid,
                  inbox, events, shown, copies, fingers>> /\ pc = "write"
  BY DEF Write, theirs, At
<1>3. Incoming' = Incoming
  BY <1>2 DEF Incoming
<1>4. CASE pc' \in {back, "closed"} /\ UNCHANGED <<slots, requests>>
  <2>1. SurfaceTypes' /\ QueueTypes'
    BY <1>1, <1>2, <1>4 DEF SurfaceTypes, QueueTypes
  <2> QED
    BY <1>2, <1>3, <1>4, <2>1, OwnStepKeeps
<1>5. ASSUME FreeSlots # {}, Commit(CHOOSE i \in FreeSlots : \A j \in FreeSlots : i <= j)
      PROVE  ClientInv'
  <2>1. slots \in [Ids -> SlotType]
    <3>1. slots # <<>>
      <4>1. DOMAIN slots # {}
        BY <1>5 DEF FreeSlots
      <4> QED
        BY <4>1
    <3> QED
      BY <1>1, <3>1 DEF SurfaceTypes
  <2>2. FreeSlots \subseteq Ids
    BY <2>1 DEF FreeSlots
  <2>0. FreeSlots \in SUBSET Nat
    BY <2>2, SurfaceAssumption DEF Ids
  <2>3. \E i \in FreeSlots : \A j \in FreeSlots : i <= j
    BY <1>5, <2>0, LeastIs
  <2>4. PICK i \in FreeSlots : Commit(i)
    BY <1>5, <2>3
  <2>5. i \in Ids /\ ~slots[i].busy
    BY <2>1, <2>4 DEF FreeSlots
  <2>6. /\ requests' = Append(requests, i) /\ pc' = back
        /\ slots' = [slots EXCEPT ![i].busy = TRUE]
    BY <2>4 DEF Commit
  <2>7. slots' \in [Ids -> SlotType] /\ slots'[i].busy
        /\ \A j \in Ids : slots[j].busy => slots'[j].busy
    BY <2>1, <2>5, <2>6 DEF SlotType
  <2>8. slots' # <<>>
    <3>1. DOMAIN slots' # {}
      BY <2>5, <2>7
    <3> QED
      BY <3>1
  <2>9. /\ requests' \in Seq(Ids) /\ Len(requests') = Len(requests) + 1
        /\ \A k \in 1 .. Len(requests) : requests'[k] = requests[k]
        /\ requests'[Len(requests) + 1] = i /\ Len(requests) \in Nat
    <3>1. requests \in Seq(Ids)
      BY <1>1 DEF QueueTypes
    <3>2. Len(requests) \in Nat
      BY <3>1, LenProperties
    <3> QED
      BY <2>5, <2>6, <3>1, <3>2, AppendProperties
  <2>10. SurfaceTypes' /\ QueueTypes'
    <3>1. SurfaceTypes'
      BY <1>1, <1>2, <2>6, <2>7 DEF SurfaceTypes
    <3> QED
      BY <1>1, <1>2, <2>9, <3>1 DEF QueueTypes
  <2>11. TouchInv'
    BY <1>1, <1>2, <1>3, TouchesStay DEF QueueTypes
  <2>12. /\ \A j \in OnTheWay \cup OnScreen \cup Released(Incoming) :
              slots # <<>> /\ slots[j].busy
         /\ OnTheWay \cap OnScreen = {} /\ OnTheWay \cap Released(Incoming) = {}
         /\ OnScreen \cap Released(Incoming) = {}
         /\ NoneTwice(requests) /\ ReleasesOnce(Incoming)
    BY <1>1, <1>2 DEF OwnedInv
  <2>13. i \notin OnTheWay \cup OnScreen \cup Released(Incoming)
    BY <2>5, <2>12
  <2>14. \A k \in 1 .. Len(requests') : k \in 1 .. Len(requests) \/ k = Len(requests) + 1
    BY <2>9, OneMore
  <2>15. OnTheWay' = OnTheWay \cup {i}
    <3>1. ASSUME NEW j \in OnTheWay PROVE j \in OnTheWay'
      BY <2>9 DEF OnTheWay
    <3>2. i \in OnTheWay'
      BY <2>5, <2>9 DEF OnTheWay
    <3>3. ASSUME NEW j \in OnTheWay', j # i PROVE j \in OnTheWay
      BY <2>9, <2>14, <3>3 DEF OnTheWay
    <3> QED
      BY <3>1, <3>2, <3>3
  <2>16. \A k \in 1 .. Len(requests) : requests[k] # i
    BY <2>5, <2>13 DEF OnTheWay
  <2>17. NoneTwice(requests')
    BY <2>9, <2>12, <2>14, <2>16 DEF NoneTwice
  <2>18. /\ OnScreen' = OnScreen /\ Released(Incoming)' = Released(Incoming)
         /\ ReleasesOnce(Incoming)' /\ NoneTwice(requests)'
    BY <1>2, <1>3, <2>12, <2>17 DEF OnScreen, Released, ReleasesOnce, NoneTwice
  <2>19. ASSUME NEW j \in OnTheWay' \cup OnScreen' \cup Released(Incoming)'
         PROVE  slots' # <<>> /\ slots'[j].busy
    <3>1. CASE j = i
      BY <2>7, <2>8, <3>1
    <3>2. CASE j # i
      <4>1. j \in OnTheWay \cup OnScreen \cup Released(Incoming)
        BY <2>15, <2>18, <3>2
      <4>2. j \in Ids /\ slots[j].busy
        BY <2>12, <4>1 DEF OnTheWay, OnScreen, Released
      <4> QED
        BY <2>7, <2>8, <4>2
    <3> QED
      BY <3>1, <3>2
  <2>20. OwnedInv'
    BY <2>12, <2>13, <2>15, <2>18, <2>19 DEF OwnedInv
  <2> QED
    BY <2>10, <2>11, <2>20 DEF ClientInv
<1> QED
  BY <1>4, <1>5 DEF Write, FrameFails

\* take_touch_reports: the dashboard believes the last report.
LEMMA TakingReportsKeeps ==
  ASSUME ClientInv, Take
  PROVE  ClientInv'
<1>1. SurfaceTypes /\ QueueTypes /\ OwnedInv /\ TouchInv
  BY DEF ClientInv
<1>2. /\ reports' = <<>> /\ pc = "take" /\ pc' \in {"closed", "poll"}
      /\ believed' = IF reports = <<>> THEN believed ELSE Last(reports)
      /\ UNCHANGED <<mode, back, remaining, client, slots, target, unsaid, inbox, events,
                     requests, shown, copies, fingers>>
  BY DEF Take, At, queues, theirs
<1>3. Incoming' = Incoming
  BY <1>2 DEF Incoming
<1>4. reports \in Seq(BOOLEAN) /\ believed \in BOOLEAN
  BY <1>1 DEF QueueTypes
<1>5. believed' \in BOOLEAN
  <2>1. CASE reports = <<>>
    BY <1>2, <1>4, <2>1
  <2>2. CASE reports # <<>>
    <3>1. Len(reports) \in 1 .. Len(reports)
      BY <1>4, <2>2, EmptySeq
    <3>2. reports[Len(reports)] \in BOOLEAN
      BY <1>4, <3>1, ElementOfSeq
    <3> QED
      BY <1>2, <2>2, <3>2 DEF Last
  <2> QED
    BY <2>1, <2>2
<1>6. WillBelieve' = WillBelieve
  BY <1>2 DEF WillBelieve, Last
<1>7. SurfaceTypes'
  BY <1>1, <1>2 DEF SurfaceTypes
<1>8. QueueTypes'
  BY <1>1, <1>2, <1>5, EmptySeq DEF QueueTypes
<1>9. OwnedInv'
  BY <1>1, <1>2, <1>3, BuffersStay
<1>10. /\ AllEnd(Incoming)' <=> AllEnd(Incoming)
       /\ EndsOne(Incoming)' <=> EndsOne(Incoming)
  BY <1>3 DEF AllEnd, EndsOne
<1>11. TouchInv'
  BY <1>1, <1>2, <1>3, <1>6, <1>10 DEF TouchInv
<1> QED
  BY <1>7, <1>8, <1>9, <1>11 DEF ClientInv

\* close_all leaves nothing to write to.
LEMMA ClosingKeeps ==
  ASSUME ClientInv, Close
  PROVE  ClientInv'
<1>1. Fresh \in ClientType
  BY SizesHaveTypes DEF Fresh, ClientType
<1>2. SurfaceTypes'
  BY <1>1 DEF Close, ClientInv, SurfaceTypes
<1>3. QueueTypes'
  BY EmptySeq DEF Close, ClientInv, QueueTypes, queues, theirs
<1>4. pc' = "closed"
  BY DEF Close
<1> QED
  BY <1>2, <1>3, <1>4 DEF ClientInv, OwnedInv, TouchInv

\* Waiting, polling and reading.
LEMMA MovingKeeps ==
  ASSUME ClientInv,
         Wait \/ Opened \/ FindSlot \/ Poll \/ GoOn \/ Dispatch \/ Disconnect
  PROVE  ClientInv'
<1>1. SurfaceTypes /\ QueueTypes
  BY DEF ClientInv
<1>2. ASSUME inbox' = inbox, events' = events
      PROVE  Incoming' = Incoming /\ inbox' \in Seq(EventType) /\ events' \in Seq(EventType)
  BY <1>1, <1>2 DEF Incoming, QueueTypes
<1>3. ASSUME NEW then, ReadEvents(then), inbox = <<>>
      PROVE  Incoming' = Incoming /\ inbox' \in Seq(EventType) /\ events' \in Seq(EventType)
  BY <1>1, <1>3, ReadingKeeps DEF ReadEvents
<1>4. /\ Incoming' = Incoming /\ inbox' \in Seq(EventType) /\ events' \in Seq(EventType)
      /\ UNCHANGED <<mode, back, client, slots, target, reports, unsaid, requests, shown,
                     copies, fingers>>
      /\ believed' \in {believed, FALSE} /\ remaining' \in {remaining, remaining - 1}
      /\ remaining' # remaining => remaining > 0
      /\ pc # "closed" /\ pc' \in {pc, "open", "draw", "write", "polled", "dispatch",
                                   "take", "poll"}
  <2>1. CASE Wait
    BY <1>2, <1>3, <2>1 DEF Wait, Waiting, At, ReadEvents, queues, theirs
  <2>2. CASE Opened \/ Poll \/ GoOn
    BY <1>2, <2>2 DEF Opened, Poll, GoOn, Go, At, queues, theirs
  <2>3. CASE FindSlot
    BY <1>3, <2>3 DEF FindSlot, At, ReadEvents, queues, theirs
  <2>4. CASE Dispatch
    BY <1>2, <1>3, <2>4 DEF Dispatch, At, ReadEvents, queues, theirs
  <2>5. CASE Disconnect
    BY <1>2, <2>5 DEF Disconnect, ours, queues
  <2> QED
    BY <2>1, <2>2, <2>3, <2>4, <2>5
<1>5. remaining' \in 0 .. Slices
  <2>1. remaining \in 0 .. Slices /\ Slices \in Nat
    BY <1>1, SurfaceAssumption DEF SurfaceTypes
  <2>2. \/ remaining' = remaining
        \/ remaining > 0 /\ remaining' = remaining - 1
    BY <1>4
  <2> QED
    BY <2>1, <2>2
<1>6. SurfaceTypes'
  BY <1>1, <1>4, <1>5 DEF SurfaceTypes
<1>7. QueueTypes'
  BY <1>1, <1>4 DEF QueueTypes
<1> QED
  BY <1>4, <1>6, <1>7, OwnStepKeeps

-----------------------------------------------------------------------------
(* The invariant, and what it says of the surface. *)

\* Every step keeps the invariant.
LEMMA ClientSteps == ClientInv /\ [Next]_vars => ClientInv'
<1> SUFFICES ASSUME ClientInv, [Next]_vars
             PROVE  ClientInv'
  OBVIOUS
<1>1. CASE UNCHANGED vars
  <2>1. UNCHANGED <<mode, pc, back, remaining, client, slots, target, reports, believed,
                    unsaid, inbox, events, requests, shown, copies, fingers>>
    BY <1>1 DEF vars, ours, queues, theirs
  <2>2. SurfaceTypes' /\ QueueTypes' /\ Incoming' = Incoming
    BY <2>1 DEF ClientInv, SurfaceTypes, QueueTypes, Incoming
  <2>3. OwnedInv'
    BY <2>1, <2>2, BuffersStay DEF ClientInv
  <2>4. TouchInv'
    BY <2>1, <2>2, TouchesStay DEF ClientInv, QueueTypes
  <2> QED
    BY <2>2, <2>3, <2>4 DEF ClientInv
<1>2. CASE Handle
  BY <1>2, HandlingKeeps
<1>3. CASE Wait \/ Opened \/ FindSlot \/ Poll \/ GoOn \/ Dispatch \/ Disconnect
  BY <1>3, MovingKeeps
<1>4. CASE OpeningFails \/ BindFails \/ BlackBufferFails \/ GameEnds
  BY <1>4, ClosingKeeps DEF OpeningFails, BindFails, BlackBufferFails, GameEnds
<1>5. CASE Draw \/ Redraw
  <2>1. PICK then \in {"poll", "draw", "dispatch"} : Present(then) /\ pc # "closed"
    BY <1>5 DEF Draw, Redraw, At
  <2> QED
    BY <2>1, PresentKeeps
<1>6. CASE Write
  BY <1>6, WritingKeeps
<1>7. CASE Take
  BY <1>7, TakingReportsKeeps
<1>8. CASE TakeCommit
  BY <1>8, TakingKeeps
<1>9. CASE \/ SendConfigure \/ SendOther \/ CancelTouches
           \/ CapabilityGained \/ CapabilityLost
           \/ \E f \in Fingers : FingerDown(f) \/ FingerUp(f)
  BY <1>9, CompositorKeeps
<1> QED
  BY <1>1, <1>2, <1>3, <1>4, <1>5, <1>6, <1>7, <1>8, <1>9 DEF Next, Client

\* A buffer is in one place, and a touch is followed to its end.
THEOREM ClientInvariant == Spec => []ClientInv
<1>1. Init => ClientInv
  <2> SUFFICES ASSUME Init
               PROVE  ClientInv
    OBVIOUS
  <2>1. Incoming = <<>> /\ Len(Incoming) = 0 /\ Len(requests) = 0
    BY DEF Init, Incoming
  <2>2. client \in ClientType /\ client.down = FALSE
    <3>1. client = [Fresh EXCEPT !.size = IF mode = "widget" THEN @ ELSE GameSize]
      BY DEF Init
    <3> QED
      BY <3>1, SizesHaveTypes DEF Fresh, ClientType
  <2>3. SurfaceTypes
    BY <2>2, SizesHaveTypes, SurfaceAssumption DEF Init, SurfaceTypes
  <2>4. QueueTypes
    <3>1. 0 \in 0 .. BufferCount
      BY SurfaceAssumption
    <3>2. <<>> \in Seq(BOOLEAN) /\ <<>> \in Seq(EventType) /\ <<>> \in Seq(Ids)
      BY EmptySeq
    <3> QED
      BY <3>1, <3>2 DEF Init, QueueTypes
  <2>5. OwnedInv
    BY <2>1 DEF Init, OwnedInv, OnTheWay, OnScreen, Released, Ids, NoneTwice, ReleasesOnce
  <2>6. TouchInv
    BY <2>1, <2>2 DEF Init, TouchInv, AllEnd, WillBelieve
  <2> QED
    BY <2>3, <2>4, <2>5, <2>6 DEF ClientInv
<1> QED
  BY <1>1, ClientSteps, PTL DEF Spec

\* A fraction may be expanded.
LEMMA ExpandedFraction ==
  ASSUME NEW a \in Nat, NEW k \in Nat \ {0}, NEW s \in Nat \ {0}
  PROVE  (a * s) \div (k * s) = a \div k
<1>1. PICK q \in Nat, r \in 0 .. k - 1 : q = a \div k /\ a = (q * k) + r
  BY Division
<1>2. PICK n \in Nat, d \in Nat \ {0}, m \in Nat : n = a * s /\ d = k * s /\ m = r * s
  <2>1. k * s \in Nat \ {0} /\ a * s \in Nat /\ r * s \in Nat
    OBVIOUS
  <2> QED
    BY <2>1
<1>3. n = (q * d) + m
  <2>1. PICK x \in Nat : x = q * k
    OBVIOUS
  <2>2. (x + r) * s = (x * s) + (r * s)
    OBVIOUS
  <2>3. a = x + r
    BY <1>1, <2>1
  <2>4. x * s = q * (k * s)
    BY <2>1
  <2> QED
    BY <1>2, <2>2, <2>3, <2>4
<1>4. m \in 0 .. d - 1
  <2>1. PICK g \in Nat \ {0} : k = r + g
    <3>1. k - r \in Nat \ {0} /\ k = r + (k - r)
      OBVIOUS
    <3> QED
      BY <3>1
  <2>2. (r + g) * s = (r * s) + (g * s) /\ g * s \in Nat \ {0}
    OBVIOUS
  <2>3. PICK y \in Nat \ {0} : y = g * s
    BY <2>2
  <2>4. d = m + y
    BY <1>2, <2>1, <2>2, <2>3
  <2> QED
    BY <2>4
<1>5. n % d = m
  BY <1>3, <1>4, RemainderIs
<1>6. PICK b \in Nat : b = n \div d /\ n = (b * d) + m
  BY <1>5, Division
<1>7. (b - q) * d = 0
  <2>1. PICK x \in Nat, y \in Nat : x = b * d /\ y = q * d
    OBVIOUS
  <2>2. x = y
    BY <1>3, <1>6, <2>1
  <2>3. (b - q) * d = (b * d) - (q * d)
    OBVIOUS
  <2> QED
    BY <2>1, <2>2, <2>3
<1>8. b - q = 0
  BY <1>7, NoMultiple
<1> QED
  BY <1>1, <1>2, <1>6, <1>8

\* Each of present's loops shows the pixel of the source that lies at the same
\* place.
LEMMA LoopsAgree ==
  ASSUME NEW size \in Size, NEW p \in Pixels(size)
  PROVE  ShownPixel(p, size) = <<(p[1] * Source[1]) \div size[1],
                                 (p[2] * Source[2]) \div size[2]>>
<1>1. PICK a \in Nat, b \in Nat, w \in Nat \ {0}, h \in Nat \ {0},
           x \in Nat \ {0}, y \in Nat \ {0} :
        p = <<a, b>> /\ size = <<w, h>> /\ Source = <<x, y>>
  <2>1. PICK a \in 0 .. size[1] - 1, b \in 0 .. size[2] - 1 : p = <<a, b>>
    BY DEF Pixels
  <2>2. PICK w \in Nat, h \in Nat : size = <<w, h>>
    BY DEF Size
  <2>3. PICK x \in Nat \ {0}, y \in Nat \ {0} : Source = <<x, y>>
    BY SurfaceAssumption
  <2>4. size[1] = w /\ size[2] = h
    BY <2>2
  <2>5. a \in Nat /\ b \in Nat /\ w # 0 /\ h # 0
    BY <2>1, <2>4
  <2> QED
    BY <2>1, <2>2, <2>3, <2>5
<1>2. /\ p[1] = a /\ p[2] = b /\ size[1] = w /\ size[2] = h
      /\ Source[1] = x /\ Source[2] = y
  BY <1>1
<1>3. CASE size = Source
  <2>1. w = x /\ h = y
    BY <1>2, <1>3
  <2>2. (a * x) \div (1 * x) = a \div 1 /\ (b * y) \div (1 * y) = b \div 1
    BY ExpandedFraction
  <2>3. a \div 1 = a /\ b \div 1 = b /\ 1 * x = x /\ 1 * y = y
    OBVIOUS
  <2>4. (a * x) \div x = a /\ (b * y) \div y = b
    BY <2>2, <2>3
  <2>5. ShownPixel(p, size) = p
    BY <1>3 DEF ShownPixel
  <2> QED
    BY <1>1, <1>2, <2>1, <2>4, <2>5
<1>4. CASE /\ size # Source
           /\ w % x = 0 /\ h % y = 0 /\ w \div x = h \div y
  <2>1. PICK k \in Nat : k = w \div x /\ w = k * x /\ h = k * y
    <3>1. /\ w \div x \in Nat /\ w = ((w \div x) * x) + (w % x)
          /\ h = ((h \div y) * y) + (h % y)
      BY Division
    <3>2. PICK k \in Nat : k = w \div x
      BY <3>1
    <3>3. h \div y = k
      BY <1>4, <3>2
    <3>4. w = (k * x) + 0
      BY <1>4, <3>1, <3>2
    <3>5. h = (k * y) + 0
      BY <1>4, <3>1, <3>3
    <3>6. PICK u \in Nat, v \in Nat : u = k * x /\ v = k * y
      OBVIOUS
    <3>7. w = u /\ h = v
      BY <3>4, <3>5, <3>6
    <3> QED
      BY <3>2, <3>6, <3>7
  <2>2. k # 0
    <3>1. ASSUME k = 0 PROVE k * x = 0
      BY <3>1
    <3> QED
      BY <2>1, <3>1
  <2>3. (a * x) \div w = a \div k /\ (b * y) \div h = b \div k
    BY <2>1, <2>2, ExpandedFraction
  <2>4. ShownPixel(p, size) = <<p[1] \div (size[1] \div Source[1]),
                                p[2] \div (size[1] \div Source[1])>>
    BY <1>2, <1>4 DEF ShownPixel
  <2> QED
    BY <1>2, <2>1, <2>3, <2>4
<1>5. CASE /\ size # Source
           /\ ~(w % x = 0 /\ h % y = 0 /\ w \div x = h \div y)
  BY <1>2, <1>5 DEF ShownPixel
<1> QED
  BY <1>3, <1>4, <1>5

\* On a buffer of the surface's width, the place of a pixel is its own.
LEMMA PlacesAgree ==
  ASSUME NEW size \in Size, NEW p \in Pixels(size)
  PROVE  PixelAt(PlaceOf(p, size[1]), size[1]) = p
<1>1. PICK a \in 0 .. size[1] - 1, b \in 0 .. size[2] - 1 : p = <<a, b>>
  BY DEF Pixels
<1>2. PICK w \in Nat : w = size[1]
  BY DEF Size
<1>3. w # 0 /\ a \in 0 .. w - 1 /\ a \in Nat /\ size[2] \in Nat
  BY <1>1, <1>2 DEF Size
<1>4. b \in Nat
  BY <1>1, <1>3
<1>5. PICK n \in Nat : n = (b * w) + a
  BY <1>3, <1>4
<1>6. n % w = a
  <2>1. w \in Nat \ {0} /\ b \in Int
    BY <1>2, <1>3, <1>4
  <2> QED
    BY <1>3, <1>5, <2>1, RemainderIs
<1>7. PICK q \in Nat : q = n \div w /\ n = (q * w) + a
  <2>1. n \in Nat /\ w \in Nat \ {0}
    BY <1>2, <1>3, <1>5
  <2> QED
    BY <1>6, <2>1, Division
<1>8. (q - b) * w = 0
  <2>1. PICK x \in Nat, y \in Nat : x = q * w /\ y = b * w
    BY <1>2, <1>4
  <2>2. x = y
    BY <1>3, <1>5, <1>7, <2>1
  <2>3. (q - b) * w = (q * w) - (b * w)
    BY <1>2, <1>4
  <2> QED
    BY <2>1, <2>2, <2>3
<1>9. q - b = 0
  BY <1>2, <1>3, <1>4, <1>8, NoMultiple
<1>10. n \div w = b
  <2>1. q \in Nat /\ b \in Nat /\ q - b = 0
    BY <1>4, <1>9
  <2>2. q = b
    BY <2>1
  <2> QED
    BY <1>7, <2>2
<1>11. PlaceOf(p, size[1]) = n
  BY <1>1, <1>2, <1>5 DEF PlaceOf
<1> QED
  BY <1>1, <1>2, <1>6, <1>10, <1>11 DEF PixelAt

\* Buffers are made alike, kept only when they hold as much as is to be written,
\* and no step until the commit changes what they hold.
LEMMA SizesKeep ==
  ASSUME ClientInv, SizeInv, [Next]_vars
  PROVE  SizeInv'
<1>1. /\ slots \in {<<>>} \cup [Ids -> SlotType] /\ back \in {"poll", "draw", "dispatch"}
      /\ 1 \in Ids
  BY SurfaceAssumption DEF ClientInv, SurfaceTypes, Ids
<1>2. CASE UNCHANGED <<slots, pc, target>>
  BY <1>2 DEF SizeInv
<1>3. CASE slots' \in {slots, <<>>} /\ pc' \notin {"find", "write"}
  BY <1>3 DEF SizeInv
<1>4. CASE Handle
  <2>1. /\ UNCHANGED <<pc, target>>
        /\ \/ slots' = slots
           \/ \E i \in DOMAIN slots : slots' = [slots EXCEPT ![i].busy = FALSE]
    BY <1>4 DEF Handle
  <2>2. CASE slots' = slots
    BY <1>2, <2>1, <2>2
  <2>3. ASSUME NEW i \in DOMAIN slots, slots' = [slots EXCEPT ![i].busy = FALSE]
        PROVE  SizeInv'
    <3>1. slots \in [Ids -> SlotType]
      BY <1>1, <2>3
    <3>2. /\ DOMAIN slots' = DOMAIN slots /\ slots # <<>> /\ slots' # <<>>
          /\ \A j \in DOMAIN slots : slots'[j].size = slots[j].size
          /\ 1 \in DOMAIN slots
      BY <1>1, <2>3, <3>1 DEF SlotType
    <3> QED
      BY <2>1, <3>2 DEF SizeInv
  <2> QED
    BY <2>1, <2>2, <2>3
<1>5. ASSUME NEW then \in {"poll", "draw", "dispatch"}, Present(then)
      PROVE  SizeInv'
  <2>1. CASE slots' = slots /\ KeepsSlots /\ target' = client.size
    BY <2>1 DEF SizeInv, KeepsSlots
  <2>2. CASE slots' = NewSlots /\ target' = client.size
    <3>1. /\ DOMAIN NewSlots = Ids
          /\ \A i \in Ids : NewSlots[i].size = client.size
      BY DEF NewSlots, Ids
    <3>2. NewSlots # <<>>
      BY <1>1, <3>1
    <3> QED
      BY <1>1, <2>2, <3>1, <3>2 DEF SizeInv
  <2>3. CASE slots' \in {slots, <<>>} /\ FrameFails(then)
    BY <1>3, <1>5, <2>3 DEF FrameFails
  <2> QED
    BY <1>5, <2>1, <2>2, <2>3 DEF Present
<1>6. CASE Write
  <2>1. CASE pc' \in {back, "closed"} /\ UNCHANGED slots
    BY <1>1, <1>3, <2>1
  <2>2. ASSUME NEW i, i \in DOMAIN slots, Commit(i) PROVE SizeInv'
    <3>1. slots \in [Ids -> SlotType]
      BY <1>1, <2>2
    <3>2. /\ DOMAIN slots' = DOMAIN slots
          /\ \A j \in DOMAIN slots : slots'[j].size = slots[j].size
      BY <2>2, <3>1 DEF SlotType, Commit
    <3>3. pc' \notin {"find", "write"}
      BY <1>1, <2>2 DEF Commit
    <3> QED
      BY <3>2, <3>3 DEF SizeInv
  <2>3. ASSUME FreeSlots # {}
        PROVE  (CHOOSE i \in FreeSlots : \A j \in FreeSlots : i <= j) \in DOMAIN slots
    <3>1. FreeSlots \in SUBSET Nat
      BY <1>1, <2>3, SurfaceAssumption DEF FreeSlots, Ids
    <3>2. \E i \in FreeSlots : \A j \in FreeSlots : i <= j
      BY <2>3, <3>1, LeastIs
    <3> QED
      BY <3>2 DEF FreeSlots
  <2> QED
    BY <1>6, <2>1, <2>2, <2>3 DEF Write, FrameFails
<1>7. CASE FindSlot
  BY <1>7 DEF FindSlot, At, ReadEvents, SizeInv
<1>8. CASE Draw \/ Redraw
  BY <1>5, <1>8 DEF Draw, Redraw
<1>9. CASE OpeningFails \/ BindFails \/ BlackBufferFails \/ GameEnds
  BY <1>3, <1>9 DEF OpeningFails, BindFails, BlackBufferFails, GameEnds, Close
<1>10. CASE Wait
  BY <1>2, <1>3, <1>10 DEF Wait, ReadEvents
<1>11. CASE Opened \/ Poll \/ GoOn
  BY <1>3, <1>11 DEF Opened, Poll, GoOn, Go
<1>12. CASE Dispatch
  BY <1>3, <1>12 DEF Dispatch, ReadEvents
<1>13. CASE Take
  BY <1>3, <1>13 DEF Take
<1>14. CASE \/ TakeCommit \/ SendConfigure \/ SendOther \/ CancelTouches
            \/ CapabilityGained \/ CapabilityLost \/ Disconnect
            \/ \E f \in Fingers : FingerDown(f) \/ FingerUp(f)
  BY <1>2, <1>14 DEF TakeCommit, SendConfigure, SendOther, CancelTouches, CapabilityGained,
                     CapabilityLost, Disconnect, FingerDown, FingerUp, ours
<1>15. CASE UNCHANGED vars
  BY <1>2, <1>15 DEF vars, ours
<1> QED
  BY <1>4, <1>6, <1>7, <1>8, <1>9, <1>10, <1>11, <1>12, <1>13, <1>14, <1>15
     DEF Next, Client

\* present writes a frame to a buffer that neither waits at the compositor nor is
\* on the screen, fills it and no more, and on a buffer made for the size of the
\* surface puts every pixel where the compositor looks for it, in each of its
\* three loops (deck_wayland.cpp): for every number of buffers and every sequence
\* of sizes.
THEOREM BuffersAreOurs == Spec => []SurfaceInv
<1>1. ClientInv /\ SizeInv => SurfaceInv
  <2> SUFFICES ASSUME ClientInv, SizeInv
               PROVE  SurfaceInv
    OBVIOUS
  <2>1. SurfaceTypes /\ QueueTypes /\ OwnedInv
    BY DEF ClientInv
  <2>2. Len(slots) \in {0, BufferCount}
    <3>1. CASE slots = <<>>
      BY <3>1
    <3>2. CASE slots \in [Ids -> SlotType]
      <4>1. BufferCount \in Nat
        BY SurfaceAssumption
      <4>2. slots \in Seq(SlotType)
        BY <3>2, <4>1, SeqDef DEF Ids
      <4> QED
        BY <3>2, <4>1, <4>2, LenProperties DEF Ids
    <3> QED
      BY <2>1, <3>1, <3>2 DEF SurfaceTypes
  <2>3. ASSUME pc = "write", NEW i \in FreeSlots
        PROVE  i \notin Elements(requests) /\ (shown = i => copies)
    <3>1. i \in DOMAIN slots /\ ~slots[i].busy
      BY DEF FreeSlots
    <3>2. i \in Ids
      <4>1. slots # <<>>
        BY <3>1
      <4> QED
        BY <2>1, <3>1, <4>1 DEF SurfaceTypes
    <3>3. i \notin OnTheWay \cup OnScreen
      BY <2>1, <2>3, <3>1 DEF OwnedInv
    <3>4. DOMAIN requests = 1 .. Len(requests)
      BY <2>1, LenProperties DEF QueueTypes
    <3> QED
      BY <3>2, <3>3, <3>4 DEF OnTheWay, OnScreen, Elements
  <2>4. ASSUME pc = "write", NEW i \in DOMAIN slots
        PROVE  Area(slots[i].size) = Area(target)
    <3>1. slots \in [Ids -> SlotType]
      <4>1. slots # <<>>
        BY <2>4
      <4> QED
        BY <2>1, <4>1 DEF SurfaceTypes
    <3>2. 1 \in DOMAIN slots
      BY <3>1, SurfaceAssumption DEF Ids
    <3>3. slots[i].size = slots[1].size /\ Area(slots[1].size) = Area(target)
      BY <2>4, <3>2 DEF SizeInv
    <3> QED
      BY <3>3
  <2>5. ASSUME NEW i \in DOMAIN slots, slots[i].size = target,
               NEW p \in Pixels(slots[i].size)
        PROVE  ShownPixel(PixelAt(PlaceOf(p, slots[i].size[1]), target[1]), target)
               = <<(p[1] * Source[1]) \div target[1], (p[2] * Source[2]) \div target[2]>>
    <3>1. target \in Size /\ p \in Pixels(target)
      BY <2>1, <2>5 DEF SurfaceTypes
    <3>2. PixelAt(PlaceOf(p, target[1]), target[1]) = p
      BY <3>1, PlacesAgree
    <3>3. ShownPixel(p, target) = <<(p[1] * Source[1]) \div target[1],
                                    (p[2] * Source[2]) \div target[2]>>
      BY <3>1, LoopsAgree
    <3> QED
      BY <2>5, <3>2, <3>3
  <2>6. remaining \in 0 .. Slices
        /\ pc \in {"open", "draw", "poll", "polled", "dispatch", "take", "find",
                   "write", "closed"}
    BY <2>1 DEF SurfaceTypes
  <2> QED
    BY <2>2, <2>3, <2>4, <2>5, <2>6 DEF SurfaceInv
<1>2. Init => SizeInv
  BY DEF Init, SizeInv
<1> QED
  BY <1>1, <1>2, ClientInvariant, SizesKeep, PTL DEF Spec

\* Once everything sent is dealt with, a finger the dashboard believes in is on
\* the glass, whichever call of the client read the events and however many
\* fingers there are, unless the press ended when the seat lost touch
\* (seat_capabilities reports nothing) and nothing has been reported since.
THEOREM FingersAreReal == Spec => []NoGhostFinger
<1>1. ClientInv => NoGhostFinger
  <2> SUFFICES ASSUME ClientInv, At("poll"), events = <<>>, reports = <<>>,
                      fingers = {}, ~unsaid
               PROVE  ~believed
    BY DEF NoGhostFinger
  <2>1. Len(Incoming) = 0
    BY DEF At, Incoming
  <2>2. /\ ~client.down => ~WillBelieve \/ unsaid
        /\ client.down => EndsOne(Incoming)
    BY DEF ClientInv, TouchInv, At
  <2>3. ~client.down
    BY <2>1, <2>2 DEF EndsOne
  <2> QED
    BY <2>2, <2>3 DEF WillBelieve
<1> QED
  BY <1>1, ClientInvariant, PTL

-----------------------------------------------------------------------------
(* The supervisor of a child. *)

\* A process is there from fork to waitpid.
ProcessInv ==
  /\ point = "fork" => child = "none"
  /\ point = "returned" => child \in {"none", "reaped"}
  /\ point \notin {"fork", "returned"} => child \in {"forked", "failing", "running", "zombie"}

\* Which of the sources and queues are in use.
PlaceInv ==
  /\ batch # <<>> => point = "apply" \/ (point = "read" /\ ~uses_wayland)
  /\ chunk # <<>> => point = "read" /\ ready /\ ~uses_wayland /\ fd # "closed"
  /\ uses_wayland => fd = "closed" /\ queue \in Seq(Reports)
  /\ ~uses_wayland => pending = <<>> /\ ~console_mirror
  /\ ~uses_wayland /\ fd = "closed" => queue = <<>>

\* A finger that is down, and of which the loop will be told when it goes up.
Held == finger = "down" /\ (uses_wayland => announced)

\* As long as nothing is missed, the last report under way, or read, tells of no
\* finger that is not there.
FlightInv ==
  HasSource /\ ~Dead /\ ~missed =>
    /\ queue # <<>> => Last(queue) # "dropped" /\ (Last(queue) = "down" => Held)
    /\ queue = <<>> /\ chunk # <<>> /\ Last(chunk) = "down" => Held
    /\ queue = <<>> /\ pending # <<>> /\ Last(pending) = "down" => Held
    /\ /\ queue = <<>> /\ chunk = <<>> /\ pending = <<>>
       /\ batch # <<>> /\ Last(batch) = "down"
       => Held
    /\ queue = <<>> /\ chunk = <<>> /\ ~uses_wayland /\ seen => Held

UpUnderWay == \/ Contains(queue, "up") \/ Contains(chunk, "up")
              \/ Contains(pending, "up") \/ Contains(batch, "up")

\* A hold is one of the finger for at least as long, or its end is under way;
\* without its device there is only a hold that was read with the loss.
GenuineInv ==
  /\ corner_hold /\ ~carried /\ ~missed /\ ~Dead =>
       \/ Held /\ finger_age >= hold_age
       \/ UpUnderWay
  /\ ~uses_wayland /\ fd = "closed" =>
       /\ corner_hold => carried
       /\ batch # <<>> => carried /\ ~corner_hold

SupervisorInv == TypeOK /\ ProcessInv /\ PlaceInv /\ FlightInv /\ GenuineInv

-----------------------------------------------------------------------------
\* What is in two sequences put together, and what comes last.
LEMMA Together ==
  ASSUME NEW S, NEW s \in Seq(S), NEW t \in Seq(S)
  PROVE  /\ s \o t \in Seq(S)
         /\ \A e : Contains(s \o t, e) <=> Contains(s, e) \/ Contains(t, e)
         /\ t # <<>> => Last(s \o t) = Last(t)
         /\ t = <<>> => s \o t = s
         /\ s = <<>> => s \o t = t
<1>1. /\ s \o t \in Seq(S) /\ Len(s \o t) = Len(s) + Len(t)
      /\ \A i \in 1 .. Len(s) + Len(t) :
           (s \o t)[i] = IF i <= Len(s) THEN s[i] ELSE t[i - Len(s)]
  BY ConcatProperties
<1>2. Len(s) \in Nat /\ Len(t) \in Nat
  BY LenProperties
<1>3. ASSUME NEW e
      PROVE  Contains(s \o t, e) <=> Contains(s, e) \/ Contains(t, e)
  <2>1. ASSUME Contains(s \o t, e)
        PROVE  Contains(s, e) \/ Contains(t, e)
    <3>1. PICK i \in 1 .. Len(s) + Len(t) : (s \o t)[i] = e
      BY <1>1, <2>1 DEF Contains
    <3>2. CASE i <= Len(s)
      BY <1>1, <1>2, <3>1, <3>2 DEF Contains
    <3>3. CASE ~(i <= Len(s))
      <4>1. i - Len(s) \in 1 .. Len(t)
        BY <1>2, <3>3
      <4> QED
        BY <1>1, <3>1, <3>3, <4>1 DEF Contains
    <3> QED
      BY <3>2, <3>3
  <2>2. ASSUME Contains(s, e)
        PROVE  Contains(s \o t, e)
    <3>1. PICK i \in 1 .. Len(s) : s[i] = e
      BY <2>2 DEF Contains
    <3>2. i \in 1 .. Len(s) + Len(t) /\ i <= Len(s)
      BY <1>2
    <3> QED
      BY <1>1, <3>1, <3>2 DEF Contains
  <2>3. ASSUME Contains(t, e)
        PROVE  Contains(s \o t, e)
    <3>1. PICK i \in 1 .. Len(t) : t[i] = e
      BY <2>3 DEF Contains
    <3>2. /\ i + Len(s) \in 1 .. Len(s) + Len(t) /\ ~(i + Len(s) <= Len(s))
          /\ (i + Len(s)) - Len(s) = i
      BY <1>2
    <3> QED
      BY <1>1, <3>1, <3>2 DEF Contains
  <2> QED
    BY <2>1, <2>2, <2>3
<1>4. ASSUME t # <<>>
      PROVE  Last(s \o t) = Last(t)
  <2>1. Len(t) \in Nat \ {0}
    BY <1>4, EmptySeq
  <2>2. /\ Len(s) + Len(t) \in 1 .. Len(s) + Len(t)
        /\ ~(Len(s) + Len(t) <= Len(s)) /\ (Len(s) + Len(t)) - Len(s) = Len(t)
    BY <1>2, <2>1
  <2> QED
    BY <1>1, <2>2 DEF Last
<1>5. (t = <<>> => s \o t = s) /\ (s = <<>> => s \o t = t)
  BY ConcatEmptySeq
<1> QED
  BY <1>1, <1>3, <1>4, <1>5

\* The same of a report that is queued.
LEMMA Queued ==
  ASSUME NEW S, NEW s \in Seq(S), NEW r \in S
  PROVE  /\ Append(s, r) \in Seq(S) /\ Append(s, r) # <<>>
         /\ Last(Append(s, r)) = r
         /\ Contains(Append(s, r), r)
         /\ \A e : Contains(s, e) => Contains(Append(s, r), e)
<1>1. /\ Append(s, r) \in Seq(S) /\ Len(Append(s, r)) = Len(s) + 1
      /\ Append(s, r)[Len(s) + 1] = r
      /\ \A i \in 1 .. Len(s) : Append(s, r)[i] = s[i]
  BY AppendProperties
<1>2. Len(s) \in Nat
  BY LenProperties
<1>3. Append(s, r) # <<>>
  BY <1>1, <1>2, EmptySeq
<1>4. Last(Append(s, r)) = r
  BY <1>1 DEF Last
<1>5. Contains(Append(s, r), r)
  BY <1>1, <1>2 DEF Contains
<1>6. \A e : Contains(s, e) => Contains(Append(s, r), e)
  BY <1>1, <1>2 DEF Contains
<1> QED
  BY <1>1, <1>3, <1>4, <1>5, <1>6

\* Nothing is in the empty sequence, and the last is in any other.
LEMMA LastIsIn ==
  ASSUME NEW S, NEW s \in Seq(S)
  PROVE  /\ s = <<>> => \A e : ~Contains(s, e)
         /\ s # <<>> => Contains(s, Last(s)) /\ Last(s) \in S
<1>1. s = <<>> => \A e : ~Contains(s, e)
  BY DEF Contains
<1>2. ASSUME s # <<>>
      PROVE  Contains(s, Last(s)) /\ Last(s) \in S
  <2>1. Len(s) \in Nat \ {0}
    BY <1>2, EmptySeq
  <2>2. Len(s) \in 1 .. Len(s)
    BY <2>1
  <2> QED
    BY <2>2, ElementOfSeq DEF Contains, Last
<1> QED
  BY <1>1, <1>2

-----------------------------------------------------------------------------
\* What a step leaves alone of the way from the finger to the hold.
Reporting == <<hold, world, announced, device, queue, chunk, pending, batch, missed,
               uses_wayland>>

\* Steps that have nothing to do with it.
Aside ==
  \/ Fork \/ Handshake \/ Reap \/ PollSources \/ ReadNothing \/ StopOnHold \/ Escalate
  \/ ReleaseBuffer \/ RequestShutdown \/ ChildExecs \/ ChildExits
  \/ FailedChildExits \/ SeatGainsTouch \/ UNCHANGED child_vars

Reported ==
  \/ RelayShutdown \/ MirrorConsole \/ DispatchWayland \/ ReadEvdev \/ GoThrough
  \/ ReadEvdevFails \/ ApplyReports \/ Touch \/ SeatLosesTouch \/ Replug \/ Tick

\* Every step is one of the two.
LEMMA StepsAre == [ChildNext]_child_vars => Aside \/ Reported
  BY DEF ChildNext, Loop, Environment, Aside, Reported

\* No report moves, and no hold begins or ends, in a step aside.
LEMMA AsideLeaves ==
  ASSUME Aside
  PROVE  UNCHANGED Reporting
  BY DEF Aside, Fork, Handshake, Reap, PollSources, ReadNothing, StopOnHold, Escalate,
     ReleaseBuffer, RequestShutdown, ChildExecs, ChildExits, FailedChildExits,
     SeatGainsTouch, child_vars, Reporting, life, signals, hold, world, seat, device,
     input, screen

\* The child is forked once and reaped once.
LEMMA ProcessInvNext ==
  ASSUME ProcessInv, [ChildNext]_child_vars
  PROVE  ProcessInv'
<1> USE DEF ProcessInv
<1>1. CASE Fork
  BY <1>1 DEF Fork
<1>2. CASE Handshake
  BY <1>2 DEF Handshake
<1>3. CASE Reap
  BY <1>3 DEF Reap
<1>4. CASE Escalate
  BY <1>4 DEF Escalate, Alive
<1>5. CASE ChildExecs \/ ChildExits \/ FailedChildExits
  BY <1>5 DEF ChildExecs, ChildExits, FailedChildExits
<1>6. CASE RelayShutdown \/ PollSources \/ MirrorConsole
  BY <1>6 DEF RelayShutdown, PollSources, MirrorConsole, life
<1>7. CASE DispatchWayland \/ ReadEvdev \/ GoThrough \/ ReadEvdevFails \/ ReadNothing
  BY <1>7 DEF DispatchWayland, ReadEvdev, GoThrough, ReadEvdevFails, ReadNothing, life
<1>8. CASE ApplyReports \/ StopOnHold
  BY <1>8 DEF ApplyReports, StopOnHold, life
<1>9. CASE \/ Touch \/ SeatLosesTouch \/ SeatGainsTouch \/ Replug \/ ReleaseBuffer
           \/ RequestShutdown \/ Tick \/ UNCHANGED child_vars
  BY <1>9 DEF Touch, SeatLosesTouch, SeatGainsTouch, Replug, ReleaseBuffer,
     RequestShutdown, Tick, life, child_vars
<1> QED
  BY <1>1, <1>2, <1>3, <1>4, <1>5, <1>6, <1>7, <1>8, <1>9
     DEF ChildNext, Loop, Environment

\* A batch is read and applied in one iteration, and each display has its
\* own queues.
LEMMA PlaceInvNext ==
  ASSUME PlaceInv, [ChildNext]_child_vars
  PROVE  PlaceInv'
<1> USE DEF PlaceInv
<1>1. CASE Fork \/ Handshake \/ Reap \/ PollSources \/ StopOnHold \/ Escalate
  <2>1. /\ UNCHANGED Reporting /\ console_mirror' = console_mirror
        /\ point \notin {"read", "apply"}
    BY <1>1, AsideLeaves
       DEF Aside, Fork, Handshake, Reap, PollSources, StopOnHold, Escalate, screen
  <2> QED
    BY <2>1 DEF Reporting, device
<1>2. CASE ReadNothing
  BY <1>2 DEF ReadNothing, device, input, screen
<1>3. CASE \/ ReleaseBuffer \/ RequestShutdown \/ ChildExecs \/ ChildExits
           \/ FailedChildExits \/ Tick \/ SeatLosesTouch \/ SeatGainsTouch
           \/ UNCHANGED child_vars
  BY <1>3 DEF ReleaseBuffer, RequestShutdown, ChildExecs, ChildExits,
     FailedChildExits, Tick, SeatLosesTouch, SeatGainsTouch, child_vars, device, input,
     screen
<1>4. CASE RelayShutdown
  BY <1>4 DEF RelayShutdown, device, input, screen
<1>5. CASE MirrorConsole
  <2>1. /\ UNCHANGED <<batch, chunk, ready, uses_wayland, fd>> /\ point = "mirror"
        /\ console_mirror' => console_mirror
        /\ \/ queue' = queue /\ pending' = pending
           \/ queue' = <<>> /\ console_mirror
    BY <1>5 DEF MirrorConsole, device
  <2>2. <<>> \in Seq(Reports)
    BY EmptySeq
  <2> QED
    BY <2>1, <2>2
<1>6. CASE DispatchWayland
  BY <1>6, EmptySeq DEF DispatchWayland, device
<1>7. CASE ReadEvdev
  BY <1>7 DEF ReadEvdev, device, screen
<1>11. CASE GoThrough
  BY <1>11 DEF GoThrough, screen
<1>8. CASE ReadEvdevFails
  BY <1>8 DEF ReadEvdevFails, screen
<1>9. CASE ApplyReports
  BY <1>9 DEF ApplyReports, device, screen
<1>10. CASE Touch
  <2>1. /\ UNCHANGED <<point, ready, fd, chunk, pending, batch, uses_wayland,
                       console_mirror>>
        /\ ~Sent => queue' = queue
        /\ uses_wayland /\ Sent => queue' = Append(queue, finger')
        /\ Sent => HasSource
        /\ finger' \in Reports
    BY <1>10 DEF Touch, Sent, Overflows, Reports, device, screen
  <2>2. ASSUME uses_wayland
        PROVE  queue' \in Seq(Reports)
    BY <2>1, <2>2, Queued
  <2> QED
    BY <2>1, <2>2 DEF HasSource
<1>12. CASE Replug
  BY <1>12 DEF Replug, device, input, screen, HasSource
<1> QED
  BY <1>1, <1>2, <1>3, <1>4, <1>5, <1>6, <1>7, <1>8, <1>9, <1>10, <1>11, <1>12
     DEF ChildNext, Loop, Environment

\* What is gone through: reports, and those that were read when nothing had been
\* dropped.
LEMMA Through ==
  ASSUME TypeOK, GoThrough
  PROVE  \E heard \in Seq(Reports) :
           /\ batch' = batch \o heard /\ seen' = (Last(heard) = "down")
           /\ heard # <<>> /\ chunk # <<>> /\ chunk' = <<>>
           /\ \/ queue' = <<>> /\ missed' = TRUE
              \/ queue' = queue /\ missed' = missed /\ heard = chunk
<1> DEFINE heard == [i \in 1 .. Len(chunk) |->
                         IF chunk[i] = "dropped" THEN Answer ELSE chunk[i]]
<1>1. /\ chunk \in Seq(Events) /\ chunk # <<>> /\ Len(chunk) \in Nat \ {0}
      /\ missed \in BOOLEAN
  BY LenProperties, EmptySeq DEF TypeOK, GoThrough
<1>2. Answer \in Reports
  BY DEF Answer, Reports, TypeOK
<1>3. \A i \in 1 .. Len(chunk) : chunk[i] \in Events
  BY <1>1, ElementOfSeq
<1>4. \A i \in 1 .. Len(chunk) :
        (IF chunk[i] = "dropped" THEN Answer ELSE chunk[i]) \in Reports
  BY <1>2, <1>3 DEF Events
<1>5. heard \in Seq(Reports) /\ Len(heard) = Len(chunk) /\ heard # <<>>
  <2>1. heard \in Seq(Reports) /\ Len(heard) = Len(chunk)
    BY <1>1, <1>4
  <2> QED
    BY <1>1, <2>1, EmptySeq
<1>6. ASSUME ~Contains(chunk, "dropped")
      PROVE  heard = chunk
  <2>1. \A i \in 1 .. Len(chunk) : chunk[i] # "dropped"
    BY <1>6 DEF Contains
  <2>2. \A i \in 1 .. Len(chunk) : heard[i] = chunk[i]
    BY <2>1
  <2>3. Reports \subseteq Events
    BY DEF Events
  <2>4. heard \in Seq(Events)
    BY <1>5, <2>3, SeqMonotonic
  <2> HIDE DEF heard
  <2> QED
    BY <1>1, <1>5, <2>2, <2>4, SeqEqual
<1>7. /\ batch' = batch \o heard /\ seen' = (Last(heard) = "down")
      /\ chunk' = <<>>
      /\ queue' = IF Contains(chunk, "dropped") THEN <<>> ELSE queue
      /\ missed' = (missed \/ Contains(chunk, "dropped"))
  BY DEF GoThrough
<1> HIDE DEF heard
<1>8. \/ queue' = <<>> /\ missed' = TRUE
      \/ queue' = queue /\ missed' = missed /\ heard = chunk
  BY <1>1, <1>6, <1>7
<1> QED
  BY <1>1, <1>5, <1>7, <1>8

\* Ages stop at their limits, and one that is no less stays no less.
LEMMA Ageing ==
  ASSUME NEW limit \in Nat, NEW a \in 0 .. limit
  PROVE  /\ Aged(a, limit) \in 0 .. limit
         /\ \A b \in 0 .. limit : a >= b => Aged(a, limit) >= Aged(b, limit)
  BY DEF Aged

\* The members and locals keep their types.
LEMMA TypesKeep ==
  ASSUME TypeOK, PlaceInv, [ChildNext]_child_vars
  PROVE  TypeOK'
<1> USE DEF TypeOK
<1>1. /\ ExitHold \in Nat /\ Grace \in Nat /\ Retry \in Nat
      /\ 0 \in 0 .. ExitHold /\ 0 \in 0 .. Grace /\ 0 \in 0 .. Retry
  BY ChildAssumption
<1>2. CASE Aside
  <2>1. UNCHANGED Reporting
    BY <1>2, AsideLeaves
  <2>2. /\ point' \in {"fork", "handshake", "reap", "signal", "poll", "mirror", "read",
                    "apply", "hold", "grace", "returned"}
        /\ child' \in {"none", "forked", "failing", "running", "zombie", "reaped"}
        /\ {started', exited_for_touch', shutdown', term_sent', kill_sent',
            seat_touch', seat_news', ready', console_mirror'} \subseteq BOOLEAN
    BY <1>2 DEF Aside, Fork, Handshake, Reap, PollSources, ReadNothing, StopOnHold,
       Escalate, ReleaseBuffer, RequestShutdown, ChildExecs, ChildExits,
       FailedChildExits, SeatGainsTouch, SendTerm, HasSource, Readable, Dead,
       child_vars, life, signals, hold, world, seat, device, input, screen
  <2>3. term_age' \in 0 .. Grace
    BY <1>1, <1>2 DEF Aside, Fork, Handshake, Reap, PollSources, ReadNothing, StopOnHold,
       Escalate, ReleaseBuffer, RequestShutdown, ChildExecs, ChildExits,
       FailedChildExits, SeatGainsTouch, SendTerm, child_vars, signals
  <2>4. owed' \in Nat /\ released' \in Nat /\ Busy' <= Slots
    <3>1. CASE ReleaseBuffer
      BY <3>1 DEF ReleaseBuffer, Busy, Slots
    <3>2. CASE ~ReleaseBuffer
      <4>1. owed' = owed /\ released' = released
        BY <1>2, <3>2 DEF Aside, Fork, Handshake, Reap, PollSources, ReadNothing,
           StopOnHold, Escalate, RequestShutdown, ChildExecs, ChildExits,
           FailedChildExits, SeatGainsTouch, child_vars, screen
      <4> QED
        BY <4>1 DEF Busy, Slots
    <3> QED
      BY <3>1, <3>2
  <2> QED
    BY <2>1, <2>2, <2>3, <2>4 DEF Reporting, hold, world, device
<1>3. CASE RelayShutdown
  <2>1. /\ UNCHANGED <<life, hold, world, seat, input, screen>> /\ point' = "poll"
        /\ Busy' = Busy
    BY <1>3 DEF RelayShutdown, screen, Busy
  <2>2. /\ fd' \in {"closed", "open", "dead"} /\ seen' \in BOOLEAN
        /\ retry_age' \in 0 .. Retry
    BY <1>1, <1>3 DEF RelayShutdown, device
  <2>3. term_sent' \in BOOLEAN /\ kill_sent' \in BOOLEAN /\ term_age' \in 0 .. Grace
    BY <1>1, <1>3 DEF RelayShutdown, SendTerm, signals
  <2> QED
    BY <2>1, <2>2, <2>3 DEF life, hold, world, seat, input, screen
<1>4. CASE MirrorConsole
  <2>1. pending' \in Seq(Reports) /\ queue' \in Seq(Events)
    <3>1. console_mirror => Dispatched \in Seq(Reports)
      BY Together DEF Dispatched, PlaceInv
    <3> QED
      BY <1>4, <3>1, EmptySeq DEF MirrorConsole
  <2>2. owed' \in Nat /\ released' \in Nat /\ Busy' <= Slots
    <3>1. owed \in Nat /\ released \in Nat /\ 1 + owed + released <= 3
      BY <1>1 DEF Busy, Slots
    <3>2. \/ released' = released /\ owed' = owed
          \/ released' = 0 /\ owed' = owed
          \/ released' = 0 /\ owed' = owed + 1 /\ 1 + owed < 3
      BY <1>4 DEF MirrorConsole, Slots
    <3>3. CASE released' = released /\ owed' = owed
      BY <3>1, <3>3 DEF Busy, Slots
    <3>4. CASE released' = 0 /\ owed' = owed
      BY <3>1, <3>4 DEF Busy, Slots
    <3>5. CASE released' = 0 /\ owed' = owed + 1 /\ 1 + owed < 3
      BY <3>1, <3>5 DEF Busy, Slots
    <3> QED
      BY <3>2, <3>3, <3>4, <3>5
  <2>3. seat_news' \in BOOLEAN /\ console_mirror' \in BOOLEAN
    BY <1>4 DEF MirrorConsole
  <2> QED
    BY <1>4, <2>1, <2>2, <2>3 DEF MirrorConsole, life, signals, hold, world, device
<1>5. CASE DispatchWayland
  <2>1. /\ batch' \in Seq(Reports) /\ pending' \in Seq(Reports)
        /\ queue' \in Seq(Events)
    <3>1. uses_wayland => Dispatched \in Seq(Reports)
      BY Together DEF Dispatched, PlaceInv
    <3> QED
      BY <1>5, <3>1, EmptySeq DEF DispatchWayland
  <2>2. /\ owed' \in Nat /\ released' \in Nat /\ Busy' <= Slots
        /\ seat_news' = FALSE
    BY <1>5 DEF DispatchWayland, Busy, Slots
  <2>3. corner_hold' \in BOOLEAN /\ carried' \in BOOLEAN /\ hold_age' \in 0 .. ExitHold
    BY <1>1, <1>5 DEF DispatchWayland, hold
  <2> QED
    BY <1>5, <2>1, <2>2, <2>3 DEF DispatchWayland, life, signals, world, device
<1>6. CASE ReadEvdev
  <2>1. chunk' \in Seq(Events) /\ queue' \in Seq(Events)
    BY <1>6, EmptySeq DEF ReadEvdev
  <2> QED
    BY <1>6, <2>1 DEF ReadEvdev, life, signals, hold, world, seat, device, screen, Busy
<1>12. CASE GoThrough
  <2>1. /\ batch' \in Seq(Reports) /\ queue' \in Seq(Events) /\ chunk' \in Seq(Events)
        /\ seen' \in BOOLEAN /\ missed' \in BOOLEAN
    <3>1. PICK heard \in Seq(Reports) :
             /\ batch' = batch \o heard /\ seen' = (Last(heard) = "down")
             /\ chunk' = <<>>
             /\ \/ queue' = <<>> /\ missed' = TRUE
                \/ queue' = queue /\ missed' = missed
      BY <1>12, Through
    <3>2. batch' \in Seq(Reports)
      BY <3>1, Together
    <3> QED
      BY <3>1, <3>2, EmptySeq
  <2> QED
    BY <1>12, <2>1 DEF GoThrough, life, signals, hold, world, seat, screen, Busy
<1>7. CASE ReadEvdevFails
  BY <1>1, <1>7, EmptySeq DEF ReadEvdevFails, life, signals, world, seat, screen, Busy
<1>8. CASE ApplyReports
  BY <1>1, <1>8, EmptySeq, ZenonT(30) DEF ApplyReports, life, signals, world, seat, device,
     screen, Busy
<1>9. CASE Touch
  <2>1. finger' \in Reports /\ finger_age' \in 0 .. ExitHold
    BY <1>1, <1>9 DEF Touch, Reports
  <2>2. queue' \in Seq(Events)
    <3>1. finger' \in Events /\ "dropped" \in Events
      BY <2>1 DEF Events
    <3>2. Append(queue, finger') \in Seq(Events)
      BY <3>1, Queued
    <3>3. <<"dropped">> \in Seq(Events)
      BY <3>1
    <3> QED
      BY <1>9, <3>2, <3>3 DEF Touch
  <2>3. announced' \in BOOLEAN /\ missed' \in BOOLEAN
    BY <1>9 DEF Touch, Sent, Overflows, HasSource, Dead
  <2> QED
    BY <1>9, <2>1, <2>2, <2>3 DEF Touch, life, signals, hold, device, screen, Busy
<1>10. CASE Replug
  BY <1>10 DEF Replug, life, signals, hold, seat, input, screen, Busy
<1>13. CASE SeatLosesTouch
  <2>1. /\ UNCHANGED <<point, life, signals, hold, world, device, queue, chunk, pending,
                       batch, ready, screen>>
        /\ seat_touch' = FALSE /\ seat_news' = TRUE /\ announced' = FALSE
        /\ missed' \in BOOLEAN /\ Busy' = Busy
    BY <1>13 DEF SeatLosesTouch, screen, Busy
  <2> QED
    BY <2>1 DEF life, signals, hold, world, device, screen
<1>11. CASE Tick
  BY <1>1, <1>11, Ageing DEF Tick, life, seat, input, screen, Busy
<1> QED
  BY <1>2, <1>3, <1>4, <1>5, <1>6, <1>7, <1>8, <1>9, <1>10, <1>11, <1>12, <1>13,
     StepsAre
     DEF Reported

-----------------------------------------------------------------------------
\* A report that is queued, or a touch that nobody is told of.
LEMMA TouchIs ==
  ASSUME TypeOK, PlaceInv, Touch, HasSource, ~Dead
  PROVE  /\ finger' \in Reports /\ finger' # finger
         /\ missed' \/ \/ /\ Sent /\ queue' # <<>> /\ Last(queue') = finger'
                          /\ Contains(queue', finger')
                          /\ \A e : Contains(queue, e) => Contains(queue', e)
                          /\ finger' = "down" => Held' /\ missed' = missed
                       \/ /\ uses_wayland /\ queue' = queue /\ missed' = missed
                          /\ ~Held
<1>1. queue \in Seq(Events) /\ finger \in Reports
  BY DEF TypeOK
<1>2. /\ finger' = IF finger = "up" THEN "down" ELSE "up"
      /\ announced' = (uses_wayland /\ Sent /\ finger' = "down")
      /\ queue' = IF ~Sent THEN queue
                  ELSE IF Overflows THEN <<"dropped">> ELSE Append(queue, finger')
      /\ missed' = IF ~Sent THEN missed
                   ELSE Overflows \/ (missed /\ finger' = "down")
      /\ uses_wayland' = uses_wayland
  BY DEF Touch, screen
<1>3. finger' \in Reports /\ finger' # finger
  BY <1>1, <1>2 DEF Reports
<1>4. CASE ~Sent
  <2>1. uses_wayland /\ (finger = "up" \/ ~announced)
    BY <1>1, <1>4 DEF Sent, Reports
  <2> QED
    BY <1>2, <1>3, <1>4, <2>1 DEF Held
<1>5. CASE Sent /\ Overflows
  BY <1>2, <1>3, <1>5
<1>6. CASE Sent /\ ~Overflows
  <2>1. queue' = Append(queue, finger') /\ finger' \in Events
    BY <1>2, <1>3, <1>6 DEF Events
  <2>2. /\ queue' # <<>> /\ Last(queue') = finger' /\ Contains(queue', finger')
        /\ \A e : Contains(queue, e) => Contains(queue', e)
    BY <1>1, <2>1, Queued
  <2>3. finger' = "down" => Held' /\ missed' = missed
    BY <1>2, <1>6 DEF Held, TypeOK
  <2> QED
    BY <1>3, <1>6, <2>2, <2>3
<1> QED
  BY <1>4, <1>5, <1>6

\* What the loop is told of is there, unless reports have been lost.
LEMMA FlightInvNext ==
  ASSUME TypeOK, PlaceInv, FlightInv, [ChildNext]_child_vars
  PROVE  FlightInv'
<1>1. /\ queue \in Seq(Events) /\ chunk \in Seq(Events)
      /\ pending \in Seq(Reports) /\ batch \in Seq(Reports)
      /\ finger \in Reports /\ missed \in BOOLEAN
  BY DEF TypeOK
<1>2. CASE Aside
  BY <1>2, AsideLeaves
     DEF FlightInv, HasSource, Dead, Held, Reporting, world, device
<1>3. CASE RelayShutdown
  BY <1>3 DEF RelayShutdown, FlightInv, PlaceInv, HasSource, Dead, Held, world, seat,
     device, input, screen
<1>4. CASE MirrorConsole
  <2>1. /\ point = "mirror"
        /\ UNCHANGED <<batch, chunk, uses_wayland, finger, announced, missed, fd, seen,
                       plugged>>
    BY <1>4 DEF MirrorConsole, world, device
  <2>2. batch = <<>> /\ chunk = <<>>
    BY <2>1 DEF PlaceInv
  <2>3. CASE queue' = queue /\ pending' = pending
    BY <2>1, <2>3 DEF FlightInv, HasSource, Dead, Held
  <2>4. CASE console_mirror /\ queue' = <<>> /\ pending' = Dispatched
    <3>1. uses_wayland /\ queue \in Seq(Reports)
      BY <2>4 DEF PlaceInv
    <3>2. /\ queue # <<>> => Last(pending') = Last(queue)
          /\ queue = <<>> => pending' = pending
      BY <1>1, <2>4, <3>1, Together DEF Dispatched
    <3> QED
      BY <2>1, <2>2, <2>4, <3>1, <3>2 DEF FlightInv, HasSource, Dead, Held
  <2> QED
    BY <1>4, <2>3, <2>4 DEF MirrorConsole
<1>5. CASE DispatchWayland
  <2>1. /\ point = "read" /\ uses_wayland /\ queue' = <<>>
        /\ UNCHANGED <<uses_wayland, chunk, finger, announced, missed, fd, seen, plugged>>
    BY <1>5 DEF DispatchWayland, world, device
  <2>2. batch = <<>> /\ chunk = <<>> /\ queue \in Seq(Reports)
    BY <2>1 DEF PlaceInv
  <2>3. CASE ~plugged
    BY <2>1, <2>3 DEF FlightInv, Dead
  <2>4. CASE plugged
    <3>1. batch' = Dispatched /\ pending' = <<>>
      BY <1>5, <2>4 DEF DispatchWayland
    <3>2. /\ queue # <<>> => Last(batch') = Last(queue)
          /\ queue = <<>> => batch' = pending
      BY <1>1, <2>2, <3>1, Together DEF Dispatched
    <3> QED
      BY <2>1, <2>2, <3>1, <3>2 DEF FlightInv, HasSource, Dead, Held
  <2> QED
    BY <2>3, <2>4
<1>6. CASE ReadEvdev
  <2>1. /\ ~uses_wayland /\ ~Dead /\ queue # <<>> /\ queue' = <<>> /\ chunk' = queue
        /\ UNCHANGED <<uses_wayland, finger, announced, missed, fd, plugged, pending>>
    BY <1>6 DEF ReadEvdev, world, seat, device, screen
  <2>2. pending = <<>>
    BY <2>1 DEF PlaceInv
  <2> QED
    BY <2>1, <2>2 DEF FlightInv, HasSource, Dead, Held
<1>12. CASE GoThrough
  <2>1. PICK heard \in Seq(Reports) :
           /\ batch' = batch \o heard /\ seen' = (Last(heard) = "down")
           /\ heard # <<>> /\ chunk # <<>> /\ chunk' = <<>>
           /\ \/ queue' = <<>> /\ missed' = TRUE
              \/ queue' = queue /\ missed' = missed /\ heard = chunk
    BY <1>12, Through
  <2>2. CASE missed'
    BY <2>2 DEF FlightInv
  <2>3. CASE ~missed'
    <3>1. queue' = queue /\ missed' = missed /\ heard = chunk
      BY <2>1, <2>3
    <3>2. Last(batch') = Last(chunk)
      BY <1>1, <2>1, <3>1, Together
    <3>3. UNCHANGED <<uses_wayland, finger, announced, fd, plugged, pending>>
      BY <1>12 DEF GoThrough, world, seat, screen
    <3>4. pending = <<>>
      BY <2>1 DEF PlaceInv
    <3> QED
      BY <2>1, <2>3, <3>1, <3>2, <3>3, <3>4 DEF FlightInv, HasSource, Dead, Held
  <2> QED
    BY <2>2, <2>3
<1>7. CASE ReadEvdevFails
  BY <1>7 DEF ReadEvdevFails, FlightInv, HasSource, screen
<1>8. CASE ApplyReports
  BY <1>8 DEF ApplyReports, FlightInv, HasSource, Dead, Held, world, seat, device, screen
<1>9. CASE Touch
  <2>1. UNCHANGED <<uses_wayland, fd, seen, plugged, chunk, pending, batch>>
    BY <1>9 DEF Touch, device, screen
  <2>2. CASE ~(HasSource /\ ~Dead)
    BY <2>1, <2>2 DEF FlightInv, HasSource, Dead
  <2>3. CASE HasSource /\ ~Dead
    <3>1. CASE missed'
      BY <3>1 DEF FlightInv
    <3>2. CASE /\ Sent /\ queue' # <<>> /\ Last(queue') = finger'
               /\ finger' = "down" => Held'
      <4>1. finger' # "dropped"
        BY <1>9, <2>3, TouchIs DEF Reports
      <4> QED
        BY <3>2, <4>1 DEF FlightInv
    <3>3. CASE uses_wayland /\ queue' = queue /\ missed' = missed /\ ~Held
      BY <2>1, <2>3, <3>3 DEF FlightInv, HasSource, Dead
    <3> QED
      BY <1>9, <2>3, <3>1, <3>2, <3>3, TouchIs
  <2> QED
    BY <2>2, <2>3
<1>13. CASE SeatLosesTouch
  BY <1>1, <1>13 DEF SeatLosesTouch, FlightInv, HasSource, Dead, Held, world, device,
     screen
<1>10. CASE Replug
  BY <1>10 DEF Replug, FlightInv, HasSource, Dead, Held, seat, input, screen
<1>11. CASE Tick
  BY <1>11 DEF Tick, FlightInv, HasSource, Dead, Held, seat, input, screen
<1> QED
  BY <1>2, <1>3, <1>4, <1>5, <1>6, <1>7, <1>8, <1>9, <1>10, <1>11, <1>12, <1>13,
     StepsAre
     DEF Reported

\* The reports applied: a hold that goes on was not interrupted, and one that
\* begins is what the finger does unless its end is on the way.
LEMMA GenuineApplied ==
  ASSUME TypeOK, PlaceInv, FlightInv, GenuineInv, ApplyReports
  PROVE  GenuineInv'
<1> DEFINE goes_on == corner_hold /\ ~Contains(Observed, "up")
<1>1. /\ queue \in Seq(Events) /\ pending \in Seq(Reports) /\ batch \in Seq(Reports)
      /\ finger \in Reports /\ finger_age \in Nat /\ seen \in BOOLEAN
      /\ corner_hold \in BOOLEAN /\ carried \in BOOLEAN
  BY ChildAssumption DEF TypeOK
<1>2. /\ batch' = <<>> /\ chunk = <<>>
      /\ UNCHANGED <<finger, finger_age, announced, plugged, fd, seen, queue, chunk,
                     pending, missed, uses_wayland>>
  BY DEF ApplyReports, PlaceInv, world, seat, device, screen
<1>3. /\ corner_hold' = IF Observed = <<>> THEN corner_hold
                        ELSE Last(Observed) = "down"
      /\ hold_age' = IF goes_on THEN hold_age ELSE 0
      /\ carried' = (carried /\ corner_hold' /\ (corner_hold => goes_on))
  BY DEF ApplyReports
<1>4. /\ \A e : ~Contains(<<>>, e)
      /\ queue # <<>> => Contains(queue, Last(queue)) /\ Last(queue) \in Events
      /\ pending # <<>> => Contains(pending, Last(pending)) /\ Last(pending) \in Reports
  BY <1>1, LastIsIn, EmptySeq
<1>5. Dead' = Dead
  BY <1>2 DEF Dead
<1>6. ASSUME ~uses_wayland, fd = "closed"
      PROVE  corner_hold' => carried'
  <2>1. CASE batch = <<>>
    <3>1. Observed = <<>>
      BY <1>6, <2>1 DEF Observed
    <3> QED
      BY <1>3, <1>4, <1>6, <3>1 DEF GenuineInv
  <2>2. CASE batch # <<>>
    BY <1>3, <1>6, <2>2 DEF GenuineInv
  <2> QED
    BY <2>1, <2>2
<1>7. ASSUME corner_hold', ~carried', ~missed, ~Dead,
             ~(Contains(queue, "up") \/ Contains(pending, "up"))
      PROVE  Held /\ finger_age >= hold_age'
  <2>1. CASE goes_on
    <3>1. ~carried /\ hold_age' = hold_age
      BY <1>3, <1>7, <2>1
    <3>2. ~Contains(batch, "up") /\ ~Contains(chunk, "up")
      BY <1>2, <1>4, <2>1 DEF Observed
    <3> QED
      BY <1>7, <2>1, <3>1, <3>2 DEF GenuineInv, UpUnderWay
  <2>2. CASE ~goes_on
    <3>1. hold_age' = 0
      BY <1>3, <2>2
    <3>2. Held
      <4>1. HasSource
        BY <1>2, <1>6, <1>7 DEF HasSource
      <4>2. CASE queue # <<>>
        BY <1>4, <1>7, <4>1, <4>2 DEF FlightInv, Events, Reports
      <4>3. CASE queue = <<>> /\ pending # <<>>
        BY <1>4, <1>7, <4>1, <4>3 DEF FlightInv, Reports
      <4>4. CASE queue = <<>> /\ pending = <<>> /\ batch # <<>>
        <5>1. Observed = batch
          BY <4>4 DEF Observed
        <5> QED
          BY <1>2, <1>3, <1>7, <4>1, <4>4, <5>1 DEF FlightInv
      <4>5. CASE queue = <<>> /\ pending = <<>> /\ batch = <<>>
        <5>1. CASE fd # "closed"
          <6>1. ~uses_wayland /\ Observed = <<IF seen THEN "down" ELSE "up">>
            BY <4>5, <5>1 DEF Observed, PlaceInv
          <6>2. Observed # <<>> /\ Last(Observed) = IF seen THEN "down" ELSE "up"
            BY <6>1 DEF Last
          <6> QED
            BY <1>2, <1>3, <1>7, <4>1, <4>5, <6>1, <6>2 DEF FlightInv
        <5>2. CASE fd = "closed"
          <6>1. Observed = <<>>
            BY <4>5, <5>2 DEF Observed
          <6> QED
            BY <1>3, <1>4, <1>7, <2>2, <6>1
        <5> QED
          BY <5>1, <5>2
      <4> QED
        BY <4>2, <4>3, <4>4, <4>5
    <3> QED
      BY <1>1, <3>1, <3>2
  <2> QED
    BY <2>1, <2>2
<1>8. Held' = Held
  BY <1>2 DEF Held
<1> QED
  BY <1>2, <1>5, <1>6, <1>7, <1>8 DEF GenuineInv, UpUnderWay

\* A hold the code believes in stays one of the finger, or its end is under way.
LEMMA GenuineInvNext ==
  ASSUME TypeOK, PlaceInv, FlightInv, GenuineInv, [ChildNext]_child_vars
  PROVE  GenuineInv'
<1>1. /\ queue \in Seq(Events) /\ chunk \in Seq(Events)
      /\ pending \in Seq(Reports) /\ batch \in Seq(Reports)
      /\ finger \in Reports /\ finger_age \in 0 .. ExitHold /\ hold_age \in 0 .. ExitHold
      /\ corner_hold \in BOOLEAN /\ carried \in BOOLEAN /\ missed \in BOOLEAN
  BY DEF TypeOK
<1>2. CASE Aside
  BY <1>2, AsideLeaves
     DEF GenuineInv, UpUnderWay, Dead, Held, Reporting, hold, world, device
<1>3. CASE RelayShutdown
  BY <1>3 DEF RelayShutdown, GenuineInv, PlaceInv, UpUnderWay, Dead, Held, hold, world,
     seat, device, input, screen
<1>4. CASE MirrorConsole
  <2>1. /\ point = "mirror" /\ ~uses_wayland => ~console_mirror
        /\ console_mirror => queue \in Seq(Reports)
        /\ UNCHANGED <<batch, chunk, uses_wayland, finger, finger_age, announced, fd,
                       plugged, missed, corner_hold, hold_age, carried>>
    BY <1>4 DEF MirrorConsole, PlaceInv, hold, world, device
  <2>2. UpUnderWay' <=> UpUnderWay
    <3>1. CASE queue' = queue /\ pending' = pending
      BY <2>1, <3>1 DEF UpUnderWay
    <3>2. CASE console_mirror /\ queue' = <<>> /\ pending' = Dispatched
      <4>1. Contains(pending', "up") <=> Contains(pending, "up") \/ Contains(queue, "up")
        BY <1>1, <2>1, <3>2, Together DEF Dispatched
      <4>2. ~Contains(queue', "up")
        BY <3>2, LastIsIn, EmptySeq
      <4> QED
        BY <2>1, <4>1, <4>2 DEF UpUnderWay
    <3> QED
      BY <1>4, <3>1, <3>2 DEF MirrorConsole
  <2> QED
    BY <2>1, <2>2 DEF GenuineInv, Dead, Held
<1>5. CASE DispatchWayland
  <2>1. /\ point = "read" /\ uses_wayland /\ uses_wayland' = uses_wayland /\ queue' = <<>>
        /\ UNCHANGED <<finger, finger_age, announced, chunk, missed, fd, plugged>>
    BY <1>5 DEF DispatchWayland, world, device
  <2>2. CASE ~plugged
    BY <1>5, <2>1, <2>2 DEF DispatchWayland, GenuineInv
  <2>3. CASE plugged
    <3>1. /\ batch' = Dispatched /\ pending' = <<>>
          /\ UNCHANGED <<corner_hold, hold_age, carried>>
      BY <1>5, <2>3 DEF DispatchWayland, hold
    <3>2. batch = <<>> /\ queue \in Seq(Reports)
      BY <2>1 DEF PlaceInv
    <3>3. Contains(batch', "up") <=> Contains(pending, "up") \/ Contains(queue, "up")
      BY <1>1, <3>1, <3>2, Together DEF Dispatched
    <3>4. ~Contains(batch, "up")
      BY <3>2, LastIsIn, EmptySeq
    <3>5. UpUnderWay => UpUnderWay'
      BY <2>1, <3>3, <3>4 DEF UpUnderWay
    <3> QED
      BY <2>1, <3>1, <3>5 DEF GenuineInv, Dead, Held
  <2> QED
    BY <2>2, <2>3
<1>6. CASE ReadEvdev
  <2>1. /\ ~uses_wayland /\ queue # <<>> /\ chunk = <<>> /\ chunk' = queue
        /\ UNCHANGED <<uses_wayland, finger, finger_age, announced, fd, plugged, pending,
                       batch, missed, corner_hold, hold_age, carried>>
    BY <1>6 DEF ReadEvdev, hold, world, seat, device, screen
  <2>2. fd # "closed"
    BY <2>1 DEF PlaceInv
  <2>3. ~Contains(chunk, "up")
    BY <2>1, LastIsIn, EmptySeq
  <2>4. UpUnderWay => UpUnderWay'
    BY <2>1, <2>3 DEF UpUnderWay
  <2> QED
    BY <2>1, <2>2, <2>4 DEF GenuineInv, Dead, Held
<1>12. CASE GoThrough
  <2>1. PICK heard \in Seq(Reports) :
           /\ batch' = batch \o heard /\ seen' = (Last(heard) = "down")
           /\ heard # <<>> /\ chunk # <<>> /\ chunk' = <<>>
           /\ \/ queue' = <<>> /\ missed' = TRUE
              \/ queue' = queue /\ missed' = missed /\ heard = chunk
    BY <1>12, Through
  <2>2. UNCHANGED <<uses_wayland, finger, finger_age, announced, fd, plugged, pending,
                    corner_hold, hold_age, carried>>
    BY <1>12 DEF GoThrough, hold, world, seat, screen
  <2>3. fd # "closed"
    BY <2>1 DEF PlaceInv
  <2>4. CASE missed'
    BY <2>2, <2>3, <2>4 DEF GenuineInv
  <2>5. CASE ~missed'
    <3>1. queue' = queue /\ missed' = missed /\ heard = chunk
      BY <2>1, <2>5
    <3>2. Contains(batch', "up") <=> Contains(batch, "up") \/ Contains(chunk, "up")
      BY <1>1, <2>1, <3>1, Together
    <3>3. UpUnderWay => UpUnderWay'
      BY <2>2, <3>1, <3>2 DEF UpUnderWay
    <3> QED
      BY <2>2, <2>3, <3>1, <3>3 DEF GenuineInv, Dead, Held
  <2> QED
    BY <2>4, <2>5
<1>7. CASE ReadEvdevFails
  BY <1>7 DEF ReadEvdevFails, GenuineInv, screen
<1>8. CASE ApplyReports
  BY <1>8, GenuineApplied
<1>9. CASE Touch
  <2>1. UNCHANGED <<uses_wayland, fd, plugged, chunk, pending, batch, corner_hold,
                    hold_age, carried>>
    BY <1>9 DEF Touch, device, screen, hold
  <2>3. ASSUME corner_hold, ~carried, ~missed', ~Dead
        PROVE  UpUnderWay'
    <3>1. HasSource
      BY <2>3 DEF GenuineInv, HasSource
    <3>2. finger' \in Reports /\ finger' # finger
      BY <1>9, <2>3, <3>1, TouchIs
    <3>3. CASE /\ Contains(queue', finger')
               /\ \A e : Contains(queue, e) => Contains(queue', e)
               /\ finger' = "down" => missed' = missed
      <4>1. CASE finger' = "up"
        BY <3>3, <4>1 DEF UpUnderWay
      <4>2. CASE finger' = "down"
        BY <2>1, <2>3, <3>2, <3>3, <4>2 DEF GenuineInv, UpUnderWay, Held
      <4> QED
        BY <3>2, <4>1, <4>2 DEF Reports
    <3>4. CASE queue' = queue /\ missed' = missed /\ ~Held
      BY <2>1, <2>3, <3>4 DEF GenuineInv, UpUnderWay
    <3> QED
      BY <1>9, <2>3, <3>1, <3>3, <3>4, TouchIs
  <2> QED
    BY <2>1, <2>3 DEF GenuineInv, Dead
<1>13. CASE SeatLosesTouch
  BY <1>1, <1>13 DEF SeatLosesTouch, GenuineInv, UpUnderWay, Dead, Held, hold, world,
     device, screen
<1>10. CASE Replug
  BY <1>10 DEF Replug, GenuineInv, UpUnderWay, Dead, Held, hold, seat, input, screen
<1>11. CASE Tick
  <2>1. /\ UNCHANGED <<finger, announced, corner_hold, carried, missed, fd, plugged,
                       queue, chunk, pending, batch, uses_wayland>>
        /\ corner_hold => hold_age' = Aged(hold_age, ExitHold)
        /\ finger = "down" => finger_age' = Aged(finger_age, ExitHold)
    BY <1>11 DEF Tick, seat, input, screen
  <2>2. finger_age >= hold_age =>
          Aged(finger_age, ExitHold) >= Aged(hold_age, ExitHold)
    BY <1>1, ChildAssumption, Ageing
  <2> QED
    BY <2>1, <2>2 DEF GenuineInv, UpUnderWay, Dead, Held
<1> QED
  BY <1>2, <1>3, <1>4, <1>5, <1>6, <1>7, <1>8, <1>9, <1>10, <1>11, <1>12, <1>13,
     StepsAre
     DEF Reported

-----------------------------------------------------------------------------
\* At the fork there is no child and no hold, and nothing is under way.
LEMMA SupervisorInit == ChildInit => SupervisorInv
<1> SUFFICES ASSUME ChildInit
             PROVE  SupervisorInv
  OBVIOUS
<1>1. <<>> \in Seq(Reports) /\ <<>> \in Seq(Events)
  BY EmptySeq
<1>2. TypeOK
  <2>1. finger \in Reports /\ uses_wayland \in BOOLEAN
    BY DEF ChildInit, Reports
  <2>2. Busy <= Slots
    BY DEF ChildInit, Busy, Slots
  <2>3. /\ term_age \in 0 .. Grace /\ hold_age \in 0 .. ExitHold
        /\ finger_age \in 0 .. ExitHold /\ retry_age \in 0 .. Retry
    BY ChildAssumption DEF ChildInit
  <2>4. {started, exited_for_touch, shutdown, term_sent, kill_sent, corner_hold,
         carried, missed, plugged, seat_touch, seat_news, announced, seen, ready,
         console_mirror} \subseteq BOOLEAN
    BY ChildAssumption DEF ChildInit
  <2>5. /\ point = "fork" /\ child = "none" /\ fd \in {"closed", "open"}
        /\ queue = <<>> /\ chunk = <<>> /\ pending = <<>> /\ batch = <<>>
        /\ owed = 0 /\ released = 0
    BY DEF ChildInit
  <2> QED
    BY <1>1, <2>1, <2>2, <2>3, <2>4, <2>5 DEF TypeOK
<1>3. ProcessInv
  BY DEF ChildInit, ProcessInv
<1>4. PlaceInv
  BY <1>1 DEF ChildInit, PlaceInv
<1>5. FlightInv
  BY DEF ChildInit, FlightInv, HasSource, Held
<1>6. GenuineInv
  BY DEF ChildInit, GenuineInv
<1> QED
  BY <1>2, <1>3, <1>4, <1>5, <1>6 DEF SupervisorInv

\* Of run_managed_child: the child it has, the reports on their way to it, and
\* the hold it believes in agree at all times.
THEOREM SupervisorInvariant == ChildSpec => []SupervisorInv
<1>1. ASSUME SupervisorInv, [ChildNext]_child_vars
      PROVE  SupervisorInv'
  BY <1>1, TypesKeep, ProcessInvNext, PlaceInvNext, FlightInvNext, GenuineInvNext
     DEF SupervisorInv
<1> QED
  BY <1>1, SupervisorInit, PTL DEF ChildSpec

\* run_managed_child returns only without a child, and counts no more buffers
\* busy than the client has.
THEOREM ReturnsWithoutChild == ChildSpec => []ChildInv
<1>1. SupervisorInv => ChildInv
  BY DEF SupervisorInv, ProcessInv, ChildInv, ReturnsAlone
<1> QED
  BY <1>1, SupervisorInvariant, PTL

\* Signals go to a child that is not reaped yet, SIGKILL only after the grace; and
\* the touchscreen ends a child after a hold of ExitHold, of a finger that is still
\* there unless its release is unread, was lost, or went with the device.
THEOREM StopsAreSound == ChildSpec => StopsAreJustified
<1>1. ASSUME SupervisorInv, [ChildNext]_child_vars
      PROVE  /\ term_sent' # term_sent => Alive \/ child = "zombie"
             /\ kill_sent' # kill_sent => /\ child # "reaped"
                                          /\ term_sent /\ term_age >= Grace
  <2>1. CASE RelayShutdown
    BY <1>1, <2>1
       DEF RelayShutdown, SendTerm, signals, SupervisorInv, ProcessInv, Alive
  <2>2. CASE StopOnHold
    BY <1>1, <2>2
       DEF StopOnHold, SendTerm, signals, SupervisorInv, ProcessInv, Alive
  <2>3. CASE Escalate
    BY <1>1, <2>3 DEF Escalate, SupervisorInv, ProcessInv
  <2>4. CASE ~RelayShutdown /\ ~StopOnHold /\ ~Escalate
    <3>1. term_sent' = term_sent /\ kill_sent' = kill_sent
      BY <1>1, <2>4 DEF ChildNext, Loop, Environment, Fork, Handshake, Reap, PollSources,
         MirrorConsole, DispatchWayland, ReadEvdev, GoThrough, ReadEvdevFails,
         ReadNothing, ApplyReports, Touch, SeatLosesTouch, SeatGainsTouch, Replug,
         ReleaseBuffer, RequestShutdown, ChildExecs, ChildExits, FailedChildExits, Tick,
         child_vars, signals
    <3> QED
      BY <3>1
  <2> QED
    BY <2>1, <2>2, <2>3, <2>4
<1>2. ASSUME SupervisorInv, [ChildNext]_child_vars, exited_for_touch' # exited_for_touch
      PROVE  \/ finger = "down" /\ finger_age >= ExitHold
             \/ Contains(queue, "up") \/ Contains(pending, "up")
             \/ Dead \/ carried \/ missed
  <2>1. StopOnHold
    BY <1>2 DEF ChildNext, Loop, Environment, Fork, Handshake, Reap, RelayShutdown, PollSources,
       MirrorConsole, DispatchWayland, ReadEvdev, GoThrough, ReadEvdevFails, ReadNothing,
       ApplyReports, Escalate, Touch, SeatLosesTouch, SeatGainsTouch, Replug,
       ReleaseBuffer, RequestShutdown, ChildExecs, ChildExits, FailedChildExits, Tick,
       child_vars, life
  <2>2. point = "hold" /\ corner_hold /\ hold_age >= ExitHold
    BY <1>2, <2>1 DEF StopOnHold
  <2>3. batch = <<>> /\ chunk = <<>> /\ ~Contains(<<>>, "up")
    BY <1>2, <2>2, LastIsIn, EmptySeq DEF SupervisorInv, PlaceInv
  <2>4. ExitHold \in Nat /\ hold_age \in 0 .. ExitHold /\ finger_age \in 0 .. ExitHold
    BY <1>2, ChildAssumption DEF SupervisorInv, TypeOK
  <2> QED
    BY <1>2, <2>2, <2>3, <2>4 DEF SupervisorInv, GenuineInv, UpUnderWay, Held
<1> QED
  BY <1>1, <1>2, SupervisorInvariant, PTL
     DEF ChildSpec, StopsAreJustified, SignalsAreSafe, HoldIsGenuine
=============================================================================
