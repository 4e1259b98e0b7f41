--------------------------- MODULE WaylandSurface ---------------------------
(***************************************************************************)
(* DeckWaylandPresentation and the compositor it talks to: opening a       *)
(* widget (the dashboard) or a gameplay surface (an emulator), buffers     *)
(* that go to the compositor and come back, sizes that change, touches, a  *)
(* seat that loses its touchscreen and regains it, and a connection that   *)
(* may be lost.                                                            *)
(*                                                                         *)
(* Requests and events are queues.  The compositor shows one buffer; it    *)
(* gives a buffer back as soon as it has copied it, or when another one    *)
(* takes its place.  Pixels are left out, but for the pixel of the source  *)
(* that present writes to a place of a buffer's memory.                    *)
(***************************************************************************)
EXTENDS Integers, SequencesExt

CONSTANTS
  DisplayWidth, DisplayHeight, SafeInset,  \* kDisplayWidth, ...
  BufferCount,      \* kBufferCount
  Slices,           \* slices of the configure timeout, 20 of 100 ms
  Source,           \* width and height of what the application draws
  Sizes,            \* sizes the compositor may give the surface
  Fingers,
  Scenarios         \* bounds: frames drawn, configures, touches, other events,
                    \* and how often the seat loses touch or the connection ends

ASSUME SurfaceAssumption ==
  /\ {DisplayWidth, DisplayHeight, SafeInset, Slices} \subseteq Nat
  /\ BufferCount \in Nat \ {0}
  /\ Source \in (Nat \ {0}) \X (Nat \ {0}) /\ Sizes \subseteq Nat \X Nat
  /\ Scenarios \subseteq [frames : Nat \ {0}, configures : Nat, touches : Nat,
                          others : Nat, losses : Nat]

VARIABLES
  mode,         \* "widget" or "gameplay"
  pc,           \* where the client is
  back,         \* where it goes on after presenting a frame
  remaining,    \* slices left of the configure timeout
  client,       \* the fields of Impl
  slots,        \* the buffers: size and busy
  target,       \* size of the surface when present began
  reports,      \* touch_reports: whether a finger is down
  believed,     \* whether the application thinks a finger is down
  unsaid,       \* history: a touch ended with the seat's, without a report
  inbox,        \* events read, being dispatched
  events,       \* events sent by the compositor
  requests,     \* buffers committed
  shown,        \* the buffer the compositor shows, 0 when none
  copies,       \* whether the compositor copies buffers
  fingers,      \* fingers on the surface
  lost,         \* the connection has ended
  has_touch,    \* the seat has the capability
  left          \* what is left of the scenario

queues == <<inbox, events, requests>>
theirs == <<shown, copies, fingers, lost, has_touch>>
ours == <<mode, pc, back, remaining, client, slots, target, reports, believed,
          unsaid>>
vars == <<ours, queues, theirs, left>>

Spend(what) == left[what] > 0 /\ left' = [left EXCEPT ![what] = @ - 1]
Area(size) == size[1] * size[2]
Smaller(a, b) == IF a < b THEN a ELSE b

\* compute_game_size: the largest whole multiple that fits.
GameSize ==
  LET fits == Smaller((DisplayWidth - 2 * SafeInset) \div Source[1],
                      (DisplayHeight - 2 * SafeInset) \div Source[2])
      scale == IF fits < 1 THEN 1 ELSE fits
  IN <<Source[1] * scale, Source[2] * scale>>

\* The pixel of the source that pixel p of a surface shows, counted from 0.
\* present has a loop for equal sizes, one for whole multiples, and one for
\* everything else.
ShownPixel(p, size) ==
  IF size = Source THEN p
  ELSE IF /\ size[1] % Source[1] = 0 /\ size[2] % Source[2] = 0
          /\ size[1] \div Source[1] = size[2] \div Source[2]
       THEN LET scale == size[1] \div Source[1]
            IN <<p[1] \div scale, p[2] \div scale>>
       ELSE <<(p[1] * Source[1]) \div size[1], (p[2] * Source[2]) \div size[2]>>

Event(kind) == [kind |-> kind, size |-> <<0, 0>>, slot |-> 0]
Configure(size) == [Event("configure") EXCEPT !.size = size]
Release(slot) == [Event("release") EXCEPT !.slot = slot]

\* touch: whether there is a wl_touch.
Fresh == [configured |-> FALSE, background |-> FALSE, shutdown |-> FALSE,
          touch |-> FALSE, down |-> FALSE, size |-> <<0, 0>>]

Init ==
  /\ mode \in {"widget", "gameplay"} /\ copies \in BOOLEAN
  /\ pc = "open" /\ back = "poll" /\ remaining = Slices
  /\ client = [Fresh EXCEPT !.size = IF mode = "widget" THEN @ ELSE GameSize]
  /\ slots = <<>> /\ target = <<0, 0>> /\ reports = <<>>
  /\ believed = FALSE /\ unsaid = FALSE
  /\ inbox = <<>> /\ events = <<>> /\ requests = <<>>
  /\ shown = 0 /\ fingers = {} /\ lost = FALSE /\ has_touch = FALSE
  /\ left \in Scenarios

----------------------------------------------------------------------------
(* The compositor. *)

Send(list) == events' = events \o list

\* A commit is shown; a buffer is released now, or when it is replaced.
TakeCommit ==
  /\ requests # <<>> /\ ~lost
  /\ LET slot == Head(requests)
     IN /\ requests' = Tail(requests) /\ shown' = slot
        /\ Send(IF copies THEN <<Release(slot)>>
                ELSE IF shown \notin {0, slot} THEN <<Release(shown)>> ELSE <<>>)
  /\ UNCHANGED <<ours, inbox, copies, fingers, lost, has_touch, left>>

\* The commit that opens a surface is answered by a configure, sooner or later;
\* another one follows whenever the size changes.
SendConfigure ==
  /\ ~lost /\ Spend("configures")
  /\ \E size \in Sizes : Send(<<Configure(size)>>)
  /\ UNCHANGED <<ours, inbox, requests, theirs>>

SendOther ==
  /\ ~lost /\ Spend("others")
  /\ \E kind \in {"background", "shutdown"} :
       (kind = "background" => mode = "gameplay") /\ Send(<<Event(kind)>>)
  /\ UNCHANGED <<ours, inbox, requests, theirs>>

\* A surface that is not shown is not touched; those of a game take no input.  A
\* client without a wl_touch is told nothing.
FingerDown(f) ==
  /\ ~lost /\ has_touch /\ client.touch /\ mode = "widget" /\ shown # 0
  /\ f \notin fingers /\ Spend("touches")
  /\ fingers' = fingers \union {f} /\ Send(<<Event("down")>>)
  /\ UNCHANGED <<ours, inbox, requests, shown, copies, lost, has_touch>>

FingerUp(f) ==
  /\ ~lost /\ f \in fingers
  /\ fingers' = fingers \ {f} /\ Send(<<Event("up")>>)
  /\ UNCHANGED <<ours, inbox, requests, shown, copies, lost, has_touch, left>>

\* The compositor keeps the touches for a gesture of its own.
CancelTouches ==
  /\ ~lost /\ fingers # {}
  /\ fingers' = {} /\ Send(<<Event("cancel")>>)
  /\ UNCHANGED <<ours, inbox, requests, shown, copies, lost, has_touch, left>>

\* The touchscreen is there, for the first time or again: after a loss it comes
\* back once the client has let go of its wl_touch.
CapabilityGained ==
  /\ ~lost /\ ~has_touch /\ ~client.touch /\ mode = "widget" /\ left.touches > 0
  /\ has_touch' = TRUE /\ Send(<<Event("touch")>>)
  /\ UNCHANGED <<ours, inbox, requests, shown, copies, fingers, lost, left>>

\* The touchscreen goes; what fingers do is told no more.
CapabilityLost ==
  /\ ~lost /\ has_touch /\ client.touch /\ Spend("losses")
  /\ has_touch' = FALSE /\ fingers' = {} /\ Send(<<Event("touchless")>>)
  /\ UNCHANGED <<ours, inbox, requests, shown, copies, lost>>

Disconnect ==
  /\ ~lost /\ pc # "closed" /\ Spend("losses")
  /\ lost' = TRUE
  /\ UNCHANGED <<ours, queues, shown, copies, fingers, has_touch>>

----------------------------------------------------------------------------
(* Dispatching. *)

\* What an event does to the fields.
Handled(event) ==
  CASE event.kind = "configure" ->
         [client EXCEPT !.configured = TRUE,
            !.size = IF mode = "widget" THEN event.size
                     ELSE [i \in 1 .. 2 |->
                             IF event.size[i] > 0 THEN event.size[i] ELSE @[i]]]
    [] event.kind = "background" -> [client EXCEPT !.background = TRUE]
    [] event.kind = "shutdown" -> [client EXCEPT !.shutdown = TRUE]
    [] event.kind = "touch" -> [client EXCEPT !.touch = TRUE]
    [] event.kind = "touchless" -> [client EXCEPT !.touch = FALSE, !.down = FALSE]
    [] event.kind = "down" -> [client EXCEPT !.down = TRUE]
    [] event.kind \in {"up", "cancel"} -> [client EXCEPT !.down = FALSE]
    [] OTHER -> client

\* Mutant: touches that the compositor takes end without a report.
ReportUnlessCancelled(event) ==
  CASE event.kind = "down" -> <<TRUE>>
    [] event.kind = "up" /\ client.down -> <<FALSE>>
    [] OTHER -> <<>>

\* Its report, if any.  The first of several fingers to go up ends the touch; a
\* seat that loses touch ends it without a report.
Report(event) ==
  CASE event.kind = "down" -> <<TRUE>>
    [] event.kind \in {"up", "cancel"} /\ client.down -> <<FALSE>>
    [] OTHER -> <<>>

Handle ==
  /\ inbox # <<>>
  /\ LET event == Head(inbox)
     IN /\ client' = Handled(event)
        /\ reports' = reports \o Report(event)
        /\ unsaid' = (\/ unsaid /\ Report(event) = <<>>
                      \/ client.down /\ event.kind = "touchless")
        /\ slots' = IF event.kind = "release" /\ event.slot \in DOMAIN slots
                    THEN [slots EXCEPT ![event.slot].busy = FALSE] ELSE slots
  /\ inbox' = Tail(inbox)
  /\ UNCHANGED <<mode, pc, back, remaining, target, believed, events, requests,
                 theirs, left>>

At(where) == pc = where /\ inbox = <<>>

Go(where) ==
  /\ pc' = where
  /\ UNCHANGED <<mode, back, remaining, client, slots, target, reports,
                 believed, unsaid, queues, theirs, left>>

\* wl_display_dispatch: all that has arrived is read, then dispatched.
ReadEvents(then) ==
  /\ inbox' = events /\ events' = <<>> /\ pc' = then
  /\ UNCHANGED <<mode, back, client, slots, target, reports, believed, unsaid,
                 requests, theirs, left>>

----------------------------------------------------------------------------
(* wait_until_configured. *)

Ready == client.configured /\ (mode = "gameplay" => client.background)
Waiting == At("open") /\ ~Ready /\ ~client.shutdown /\ remaining > 0

\* Every wakeup costs a slice, an early one too.
Wait ==
  /\ Waiting /\ remaining' = remaining - 1
  /\ \/ events # <<>> /\ ReadEvents("open")
     \/ /\ events = <<>> /\ ~lost
        /\ UNCHANGED <<mode, pc, back, client, slots, target, reports, believed,
                       unsaid, queues, theirs, left>>

\* close_all: buffers and surfaces are destroyed, the fields start anew.
Close ==
  /\ pc' = "closed" /\ client' = Fresh /\ slots' = <<>> /\ reports' = <<>>
  /\ UNCHANGED <<mode, back, remaining, target, believed, unsaid, queues, theirs,
                 left>>

\* No display, or one that lacks an interface.
BindFails == pc = "open" /\ remaining = Slices /\ events = <<>> /\ Close

\* The dashboard falls back to the framebuffer device, an emulator ends.
OpeningFails ==
  \/ Waiting /\ lost /\ events = <<>> /\ Close
  \/ At("open") /\ ~Ready /\ (client.shutdown \/ remaining = 0) /\ Close

Opened == At("open") /\ Ready /\ Go("draw")

\* The black surface behind a game cannot be had.
BlackBufferFails == At("open") /\ Ready /\ mode = "gameplay" /\ Close

----------------------------------------------------------------------------
(* present. *)

\* ensure_slots keeps buffers of as many bytes.
KeepsSlots == slots # <<>> /\ Area(slots[1].size) = Area(client.size)
InUse == \E i \in DOMAIN slots : slots[i].busy
NewSlots == [i \in 1 .. BufferCount |-> [size |-> client.size, busy |-> FALSE]]

Committed == requests # <<>> \/ shown # 0

\* The frame is given up: an emulator ends, the dashboard goes on unless it was
\* its first.
FrameFails(then) == pc' = IF mode = "widget" /\ Committed THEN then ELSE "closed"

\* New buffers may fail for want of memory; buffers in use are not replaced.
Present(then) ==
  /\ Spend("frames") /\ back' = then
  /\ \/ /\ KeepsSlots \/ (~InUse /\ Area(client.size) > 0)
        /\ slots' = IF KeepsSlots THEN slots ELSE NewSlots
        /\ target' = client.size /\ pc' = "find"
     \/ /\ ~KeepsSlots
        /\ slots' = IF InUse THEN slots ELSE <<>>
        /\ FrameFails(then) /\ UNCHANGED target
  /\ UNCHANGED <<mode, remaining, client, reports, believed, unsaid, queues,
                 theirs>>

\* available_slot first dispatches what has arrived.
FindSlot == At("find") /\ ReadEvents("write") /\ UNCHANGED remaining

FreeSlots == {i \in DOMAIN slots : ~slots[i].busy}

\* Mutant: the buffer is not marked.
CommitUnmarked(i) == requests' = Append(requests, i) /\ pc' = back /\ UNCHANGED slots

Commit(i) ==
  /\ requests' = Append(requests, i) /\ pc' = back
  /\ slots' = [slots EXCEPT ![i].busy = TRUE]

\* Mutant: a frame whose size is out of date is not committed.
WriteIfCurrent ==
  /\ At("write")
  /\ \/ /\ FreeSlots # {} /\ ~lost /\ target = client.size
        /\ Commit(CHOOSE i \in FreeSlots : \A j \in FreeSlots : i <= j)
     \/ FreeSlots # {} /\ lost /\ FrameFails(back) /\ UNCHANGED <<slots, requests>>
     \/ /\ FreeSlots = {} \/ target # client.size
        /\ pc' = back /\ UNCHANGED <<slots, requests>>
  /\ UNCHANGED <<mode, back, remaining, client, target, reports, believed, unsaid,
                 inbox, events, theirs, left>>

\* The frame is written to the first free buffer and committed; it is skipped
\* when there is none, and fails when it cannot be flushed.
Write ==
  /\ At("write")
  /\ \/ /\ FreeSlots # {} /\ ~lost
        /\ Commit(CHOOSE i \in FreeSlots : \A j \in FreeSlots : i <= j)
     \/ FreeSlots # {} /\ lost /\ FrameFails(back) /\ UNCHANGED <<slots, requests>>
     \/ FreeSlots = {} /\ pc' = back /\ UNCHANGED <<slots, requests>>
  /\ UNCHANGED <<mode, back, remaining, client, target, reports, believed, unsaid,
                 inbox, events, theirs, left>>

----------------------------------------------------------------------------
(* The applications. *)

\* The first frame follows at once.  An emulator draws frames until the game
\* ends, and dispatches only while it does; it does not ask for shutdown.
Draw == At("draw") /\ Present(IF mode = "widget" THEN "poll" ELSE "draw")
GameEnds == At("draw") /\ mode = "gameplay" /\ Close

\* The dashboard redraws after a command, and again between poll and reading,
\* for the credits, the network or the reboot prompt.
Redraw ==
  \/ At("poll") /\ Present("poll")
  \/ At("polled") /\ Present("dispatch")

Poll == At("poll") /\ (events # <<>> \/ lost) /\ Go("polled")
GoOn == At("polled") /\ Go("dispatch")

\* Blocks until something arrives; fails when the connection has ended, and the
\* dashboard forgets the touch.
Dispatch ==
  /\ At("dispatch")
  /\ \/ events # <<>> /\ ReadEvents("take") /\ UNCHANGED remaining
     \/ /\ events = <<>> /\ lost /\ pc' = "poll" /\ believed' = FALSE
        /\ UNCHANGED <<mode, back, remaining, client, slots, target, reports,
                       unsaid, queues, theirs, left>>

\* take_touch_reports, and shutdown_requested.
Take ==
  /\ At("take")
  /\ reports' = <<>>
  /\ believed' = IF reports = <<>> THEN believed ELSE Last(reports)
  /\ pc' = IF client.shutdown THEN "closed" ELSE "poll"
  /\ UNCHANGED <<mode, back, remaining, client, slots, target, unsaid, queues,
                 theirs, left>>

Client ==
  \/ Handle \/ Wait \/ OpeningFails \/ Opened
  \/ Draw \/ FindSlot \/ Write \/ Poll \/ GoOn \/ Dispatch \/ Take

Next ==
  \/ Client \/ BindFails \/ BlackBufferFails \/ GameEnds \/ Redraw
  \/ TakeCommit \/ SendConfigure \/ SendOther
  \/ \E f \in Fingers : FingerDown(f) \/ FingerUp(f)
  \/ CancelTouches \/ CapabilityGained \/ CapabilityLost \/ Disconnect

\* The application goes on; the compositor serves commits.
Spec == Init /\ [][Next]_vars /\ WF_vars(Client) /\ WF_vars(TakeCommit)

----------------------------------------------------------------------------
(* Properties. *)

Elements(list) == {list[i] : i \in DOMAIN list}
Pixels(size) == (0 .. size[1] - 1) \X (0 .. size[2] - 1)

\* Where pixel p of a picture lies in memory whose rows are that wide, and the
\* pixel of a picture that lies at place n.
PlaceOf(p, width) == (p[2] * width) + p[1]
PixelAt(n, width) == <<n % width, n \div width>>

\* The buffer a frame is written to is not waiting at the compositor, and not
\* on the screen unless that has been copied.  The frame fills the buffer and no
\* more; and on a buffer made for the surface's size the compositor, which reads
\* rows of the buffer's width, shows at each place the pixel of the source that
\* lies there in the picture, whichever of present's three loops wrote it.
\* A buffer may be of another shape: ensure_slots keeps buffers of as many bytes,
\* whatever their width, and a frame written to one is not shown 1:1 as present
\* means it to be.
SurfaceInv ==
  /\ pc \in {"open", "draw", "poll", "polled", "dispatch", "take", "find",
             "write", "closed"}
  /\ Len(slots) \in {0, BufferCount} /\ remaining \in 0 .. Slices
  /\ pc = "write" =>
       /\ inbox = <<>> =>
            \A i \in FreeSlots :
              i \notin Elements(requests) /\ (shown = i => copies)
       /\ \A i \in DOMAIN slots : Area(slots[i].size) = Area(target)
       /\ \A i \in DOMAIN slots : slots[i].size = target =>
            \A p \in Pixels(slots[i].size) :
              ShownPixel(PixelAt(PlaceOf(p, slots[i].size[1]), target[1]), target)
              = <<(p[1] * Source[1]) \div target[1],
                  (p[2] * Source[2]) \div target[2]>>

\* Once all that was sent is dealt with, the dashboard thinks a finger is down
\* only when one is: a press ends with a report when the finger goes up and when
\* the compositor takes the touch.  A press whose seat loses touch ends without a
\* report, and the dashboard goes on thinking that a finger is down; the next
\* report, of a touch once the seat has touch again, puts that right.
NoGhostFinger ==
  /\ At("poll") /\ events = <<>> /\ reports = <<>>
  => (believed => fingers # {} \/ unsaid)

\* Opening ends; a dashboard that polled and then redrew, which reads the very
\* events poll saw, does not block for good; touches and a shutdown read while
\* a frame was drawn are noticed.  (A shutdown read before the first frame is shown
\* waits for the next event.)
Answers ==
  /\ pc = "open" ~> pc # "open"
  /\ pc = "dispatch" ~> pc # "dispatch"
  /\ reports # <<>> ~> reports = <<>> \/ lost
  /\ (client.shutdown /\ pc = "find" /\ shown # 0) ~> pc = "closed" \/ lost
====
