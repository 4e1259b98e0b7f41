---------------------------- MODULE PlayerInput ----------------------------
(***************************************************************************)
(* The touchscreen and the controllers of the chiptune player, as          *)
(* PlayerInput finds and reads them: no thread of its own, every frame     *)
(* drains each descriptor until nothing is left.  A device that fails is   *)
(* neither reported nor looked for again.                                  *)
(*                                                                         *)
(* A packet is the change of one key, axis or finger with the SYN_REPORT   *)
(* that follows it.  An axis is at -1, 0 or 1, the thirds axis_buttons     *)
(* tells apart; grabbing the touchscreen is left out.                      *)
(***************************************************************************)
EXTENDS Lists, SequencesExt

CONSTANTS
  Points,       \* where fingers go, on the display, which touch_x_ and touch_y_
                \* are clamped to
  BufferSize,   \* packets the kernel keeps for a reader
  BatchSize,    \* packets one read returns; the code's 32 are events
  MaxPads       \* 2 in the code

ASSUME InputAssumption ==
  /\ Points \subseteq Nat \X Nat
  /\ BufferSize \in Nat \ {0} /\ BatchSize \in Nat \ {0} /\ MaxPads \in Nat

VARIABLES
  nodes,      \* the event nodes found by discover, in the order of their paths
  alive,      \* the nodes whose device still answers
  finger,     \* where the finger on each touchscreen is, Lifted when it is not
              \* on the screen
  hand,       \* what is held down on each controller
  queue,      \* the packets of each descriptor that are not handled yet
  fetched,    \* how many of them drain_touch or drain_gamepad has read already;
              \* the kernel keeps the others
  touch,      \* touch_x_, touch_y_, touch_down_, touch_reported_, touch_dropping_
  pads,       \* gamepads_ by node
  reader,     \* the descriptor being drained, 0 outside read_commands
  commands,   \* what read_commands has collected
  owed,       \* history: presses of a key, an axis or a button that stand for
              \* each command and are not yet answered by one
  invented,   \* history: a command was collected that nothing had asked for
  lost,       \* history: packets were lost
  stale,      \* history: the keys of each controller whose last events EVIOCGKEY
              \* has taken while older ones were in the batch
  left        \* bound: touches, presses and unplugged devices still to come,
              \* and the keys (by their distance to BTN_TRIGGER) and axes used

devices == <<nodes, alive, finger, hand, queue, left>>
reading == <<touch, pads, fetched, reader, commands>>
input == <<devices, reading, owed, invented, lost, stale>>

NodeKinds == {"touch", "pad", "silent", "other"}
Budgets == [touches : Nat, presses : Nat, losses : Nat, keys : SUBSET (0 .. 7),
            axes : SUBSET {"x", "y"}]

Lifted == <<-1, -1>>
AtRest == [keys |-> {}, x |-> 0, y |-> 0]

----------------------------------------------------------------------------
(* What the controls mean. *)

(* gamepad_key, for BTN_TRIGGER, BTN_THUMB and so on up to BTN_BASE2. *)
gamepad_key ==
  <<{"back"}, {"back"}, {"pause"}, {"pause"}, {"prevTrack"}, {"nextTrack"}, {},
    {"mode"}>>

axis_buttons(value, negative, positive) ==
  CASE value = -1 -> {negative} [] value = 1 -> {positive} [] OTHER -> {}

gamepad_state(pad) ==
  (UNION {gamepad_key[key + 1] : key \in pad.keys})
    \cup axis_buttons(pad.x, "prevFile", "nextFile")
    \cup axis_buttons(pad.y, "volumeUp", "volumeDown")

Rect(x, y, width, height) == [x |-> x, y |-> y, w |-> width, h |-> height]
kButtons ==
  << <<"back", Rect(554, 3, 62, 34)>>, <<"prevFile", Rect(215, 177, 92, 34)>>,
     <<"pause", Rect(317, 177, 92, 34)>>, <<"nextFile", Rect(419, 177, 92, 34)>>,
     <<"mode", Rect(113, 177, 92, 34)>> >>

contains(rect, x, y) ==
  /\ x >= rect.x /\ x < rect.x + rect.w
  /\ y >= rect.y /\ y < rect.y + rect.h

\* Division by kCanvasScale, towards zero.
OnCanvas(logical) ==
  IF logical < 16 THEN -((16 - logical) \div 2) ELSE (logical - 16) \div 2
\* The buttons do not overlap, so that the order of the tests does not matter.
touch_command(at) ==
  {kButtons[i][1] : i \in {k \in DOMAIN kButtons :
     contains(kButtons[k][2], OnCanvas(at[1]), OnCanvas(at[2]))}}

\* The commands a packet may stand for when it is read.
Presses(packet) ==
  CASE packet[1] = "down" -> touch_command(<<packet[2], packet[3]>>)
    [] packet[1] = "key" /\ packet[3] = 1 -> gamepad_key[packet[2] + 1]
    [] packet[1] = "x" -> axis_buttons(packet[3], "prevFile", "nextFile")
    [] packet[1] = "y" -> axis_buttons(packet[3], "volumeUp", "volumeDown")
    [] OTHER -> {}

----------------------------------------------------------------------------
(* discover: the first touchscreen and the first controllers that answer. *)

Found(kind) == {n \in DOMAIN nodes : nodes[n] = kind}
FirstOf(found, most) ==
  {n \in found : Cardinality({other \in found : other < n}) < most}
Opened == FirstOf(Found("touch"), 1) \cup FirstOf(Found("pad"), MaxPads)

\* read_commands drains the touchscreen and then the controllers.
TurnOf(n) ==
  Cardinality({m \in Opened :
                 \/ m = n
                 \/ nodes[m] = "touch" /\ nodes[n] = "pad"
                 \/ nodes[m] = nodes[n] /\ m < n})

InputInit(found, budget) ==
  /\ nodes = found
  /\ left = budget
  /\ alive = DOMAIN nodes
  /\ finger = [n \in Found("touch") |-> Lifted]
  /\ hand = [n \in Found("pad") |-> AtRest]
  /\ queue = [n \in Opened |-> <<>>]
  /\ fetched = [n \in Opened |-> 0]
  /\ touch = [at |-> <<0, 0>>, down |-> FALSE, reported |-> FALSE,
              dropping |-> FALSE]
  /\ pads = [n \in Found("pad") \cap Opened |->
               [raw |-> AtRest, state |-> {}, dropping |-> FALSE]]
  /\ reader = 0
  /\ commands = {}
  /\ owed = [c \in {"back", "prevFile", "nextFile", "pause", "mode",
                    "prevTrack", "nextTrack", "volumeUp", "volumeDown"} |-> 0]
  /\ invented = FALSE
  /\ lost = FALSE
  /\ stale = [n \in Found("pad") |-> {}]

----------------------------------------------------------------------------
(* The hands and the kernel. *)

Spend(what) == left[what] > 0 /\ left' = [left EXCEPT ![what] = @ - 1]

\* What does not fit takes the place of everything that the kernel has kept.
Overflows(n) == Len(queue[n]) - fetched[n] >= BufferSize
Fetched(n) == SubSeq(queue[n], 1, fetched[n])
Send(n, packet) ==
  /\ owed' = IF n \in Opened
             THEN [c \in DOMAIN owed |->
                     IF c \in Presses(packet) THEN owed[c] + 1 ELSE owed[c]]
             ELSE owed
  /\ queue' = IF n \notin Opened THEN queue
              ELSE [queue EXCEPT ![n] = IF Overflows(n)
                                        THEN Fetched(n) \o << <<"dropped", 0, 0>>, packet>>
                                        ELSE Append(@, packet)]
  /\ lost' = (lost \/ (n \in Opened /\ Overflows(n)))

Touch ==
  \E n \in Found("touch") \cap alive, at \in Points :
    /\ finger[n] = Lifted
    /\ Spend("touches")
    /\ finger' = [finger EXCEPT ![n] = at]
    /\ Send(n, <<"down", at[1], at[2]>>)
    /\ UNCHANGED <<nodes, alive, hand, reading, invented, stale>>

Slide ==
  \E n \in Found("touch") \cap alive, at \in Points :
    /\ finger[n] \notin {Lifted, at}
    /\ Spend("touches")
    /\ finger' = [finger EXCEPT ![n] = at]
    /\ Send(n, <<"move", at[1], at[2]>>)
    /\ UNCHANGED <<nodes, alive, hand, reading, invented, stale>>

Lift ==
  \E n \in Found("touch") \cap alive :
    /\ finger[n] # Lifted
    /\ finger' = [finger EXCEPT ![n] = Lifted]
    /\ Send(n, <<"up", 0, 0>>)
    /\ UNCHANGED <<nodes, alive, hand, reading, invented, stale, left>>

\* Letting go is always possible.
Moves(n, packet, now) ==
  /\ IF packet[3] # 0 THEN Spend("presses") ELSE UNCHANGED left
  /\ hand' = [hand EXCEPT ![n] = now]
  /\ Send(n, packet)
  /\ stale' = [stale EXCEPT ![n] = IF packet[1] = "key" THEN @ \ {packet[2]} ELSE @]
  /\ UNCHANGED <<nodes, alive, finger, reading, invented>>

Applied(pad, packet) ==
  CASE packet[1] = "key" /\ packet[3] = 1 -> [pad EXCEPT !.keys = @ \cup {packet[2]}]
    [] packet[1] = "key" /\ packet[3] = 0 -> [pad EXCEPT !.keys = @ \ {packet[2]}]
    [] packet[1] = "x" -> [pad EXCEPT !.x = packet[3]]
    [] packet[1] = "y" -> [pad EXCEPT !.y = packet[3]]
    [] OTHER -> pad

Handle ==
  \E n \in Found("pad") \cap alive :
    \/ \E key \in left.keys, value \in 0 .. 1 :
         /\ (key \in hand[n].keys) = (value = 0)
         /\ Moves(n, <<"key", key, value>>,
                  Applied(hand[n], <<"key", key, value>>))
    \/ \E axis \in left.axes, value \in -1 .. 1 :
         /\ hand[n][axis] # value
         /\ Moves(n, <<axis, 0, value>>, Applied(hand[n], <<axis, 0, value>>))

Unplug ==
  \E n \in alive :
    /\ Spend("losses")
    /\ alive' = alive \ {n}
    /\ lost' = TRUE
    /\ UNCHANGED <<nodes, finger, hand, queue, reading, owed, invented, stale>>

World == Touch \/ Slide \/ Lift \/ Handle \/ Unplug

----------------------------------------------------------------------------
(* read_commands. *)

BeginRead ==
  /\ reader = 0
  /\ reader' = 1
  /\ commands' = {}
  /\ UNCHANGED <<devices, touch, pads, fetched, owed, invented, lost, stale>>

\* A descriptor is read batch by batch until nothing is left or reading fails,
\* which says nothing to anyone.
Exhausted(n) == n \notin alive \/ queue[n] = <<>>
Reads(n) == n \in Opened /\ TurnOf(n) = reader /\ fetched[n] = 0

ReadBatch ==
  /\ \E n \in Opened :
       /\ Reads(n) /\ ~Exhausted(n)
       /\ fetched' = [fetched EXCEPT ![n] = IF Len(queue[n]) < BatchSize
                                            THEN Len(queue[n]) ELSE BatchSize]
  /\ UNCHANGED <<devices, touch, pads, reader, commands, owed, invented, lost, stale>>

NextDescriptor ==
  /\ \E n \in Opened : Reads(n) /\ Exhausted(n)
  /\ reader' = reader + 1
  /\ UNCHANGED <<devices, touch, pads, fetched, commands, owed, invented, lost, stale>>

\* The first packet of the batch is handled.
Drains(n) ==
  /\ n \in Opened /\ TurnOf(n) = reader /\ fetched[n] > 0
  /\ fetched' = [fetched EXCEPT ![n] = @ - 1]

Collects(cs) ==
  /\ commands' = commands \cup cs
  /\ owed' = [c \in DOMAIN owed |->
                IF c \in cs /\ owed[c] > 0 THEN owed[c] - 1 ELSE owed[c]]
  /\ invented' = (invented \/ \E c \in cs : owed[c] = 0)

\* The packet applied, before its SYN_REPORT.
Felt(packet) ==
  CASE packet[1] = "down" ->
         [touch EXCEPT !.at = <<packet[2], packet[3]>>, !.down = TRUE]
    [] packet[1] = "move" -> [touch EXCEPT !.at = <<packet[2], packet[3]>>]
    [] packet[1] = "up" -> [touch EXCEPT !.down = FALSE]

Reported(felt) ==
  /\ Collects(IF felt.down /\ ~touch.reported THEN touch_command(felt.at) ELSE {})
  /\ touch' = [felt EXCEPT !.reported = felt.down]

\* drain_touch: packets between SYN_DROPPED and the next report are skipped,
\* and the finger is taken to be where it was.
TouchPacket ==
  \E n \in Found("touch") :
    /\ Drains(n)
    /\ queue' = [queue EXCEPT ![n] = Tail(@)]
    /\ LET packet == Head(queue[n])
       IN  CASE packet[1] = "dropped" ->
                  /\ touch' = [touch EXCEPT !.dropping = TRUE]
                  /\ Collects({})
             [] packet[1] # "dropped" /\ touch.dropping ->
                  /\ touch' = [touch EXCEPT !.dropping = FALSE,
                                            !.reported = touch.down]
                  /\ Collects({})
             [] OTHER -> Reported(Felt(packet))
    /\ UNCHANGED <<nodes, alive, finger, hand, left, pads, reader, lost, stale>>

\* Mutant: the reported state is not brought up to date.
ResynchronizedBlank(n) ==
  [raw |-> hand[n], state |-> {}, dropping |-> FALSE]
Resynchronized(n) ==
  [raw |-> hand[n], state |-> gamepad_state(hand[n]), dropping |-> FALSE]

\* EVIOCGKEY takes the key events out of what the kernel keeps, everything after
\* the first k; their reports are empty then.
Unkeyed(q, k) ==
  [i \in DOMAIN q |-> IF i > k /\ q[i][1] = "key" THEN <<"empty", 0, 0>> ELSE q[i]]
KeysIn(q, from, to) == {q[i][2] : i \in {j \in from .. to : q[j][1] = "key"}}

\* drain_gamepad: after a loss the device is asked for its state, without giving
\* commands.  What is left of the batch is older than the answer, and is applied
\* to it all the same.  A device that does not answer stays as it was.
PadPacket ==
  \E n \in Found("pad") :
    /\ Drains(n)
    /\ LET packet == Head(queue[n])
           rest   == Tail(queue[n])
           read   == fetched[n] - 1
           raw    == Applied(pads[n].raw, packet)
           state  == gamepad_state(raw)
       IN \/ /\ packet[1] = "dropped"
             /\ pads' = [pads EXCEPT ![n].dropping = TRUE]
             /\ queue' = [queue EXCEPT ![n] = rest]
             /\ Collects({}) /\ UNCHANGED stale
          \/ /\ packet[1] # "dropped" /\ pads[n].dropping /\ n \notin alive
             /\ queue' = [queue EXCEPT ![n] = rest]
             /\ Collects({}) /\ UNCHANGED <<pads, stale>>
          \/ /\ packet[1] # "dropped" /\ pads[n].dropping /\ n \in alive
             /\ pads' = [pads EXCEPT ![n] = Resynchronized(n)]
             /\ queue' = [queue EXCEPT ![n] = Unkeyed(rest, read)]
             /\ stale' = [stale EXCEPT ![n] =
                            KeysIn(rest, 1, read)
                              \cap (@ \cup KeysIn(rest, read + 1, Len(rest)))]
             /\ Collects({})
          \/ /\ packet[1] # "dropped" /\ ~pads[n].dropping
             /\ pads' = [pads EXCEPT ![n].raw = raw, ![n].state = state]
             /\ queue' = [queue EXCEPT ![n] = rest]
             /\ Collects(state \ pads[n].state) /\ UNCHANGED stale
    /\ UNCHANGED <<nodes, alive, finger, hand, left, touch, reader, lost>>

\* read_commands returns what it collected.
HandOver ==
  /\ reader = Cardinality(Opened) + 1
  /\ reader' = 0
  /\ UNCHANGED <<devices, touch, pads, fetched, commands, owed, invented, lost, stale>>

Drain == ReadBatch \/ TouchPacket \/ PadPacket \/ NextDescriptor

----------------------------------------------------------------------------
InputTypeOK ==
  /\ alive \subseteq DOMAIN nodes
  /\ finger \in [Found("touch") -> Points \cup {Lifted}]
  /\ \A n \in DOMAIN queue :
       /\ fetched[n] \in 0 .. BatchSize /\ fetched[n] <= Len(queue[n])
       /\ Len(queue[n]) - fetched[n] <= BufferSize + 1
  /\ \A n \in DOMAIN stale : stale[n] \subseteq 0 .. 7
  /\ reader \in 0 .. Cardinality(Opened) + 1
  /\ commands \subseteq DOMAIN owed
  /\ owed \in [DOMAIN owed -> Nat]

\* A controller that has been read to the end is known as it is held, whatever was
\* lost on the way (drain_gamepad, resynchronize), but for a key that moved twice
\* around a resynchronization, first before the batch was read and then before
\* EVIOCGKEY: the batch still has the old event, the kernel gives up the new one
\* (chiptune_deck.cpp:549, 585-592), and the key is wrong until it moves again.
\* Without a loss this does not happen.
PadsAreKnown ==
  \A n \in DOMAIN pads :
    queue[n] = <<>> /\ ~pads[n].dropping =>
      /\ pads[n].raw.x = hand[n].x /\ pads[n].raw.y = hand[n].y
      /\ \A key \in (0 .. 7) \ stale[n] :
           key \in pads[n].raw.keys <=> key \in hand[n].keys
      /\ pads[n].state = gamepad_state(pads[n].raw)
      /\ ~lost => stale[n] = {}

\* The finger is known as it is unless a loss has hidden how it moved.
FingerIsKnown ==
  \A n \in Found("touch") \cap Opened :
    ~lost /\ queue[n] = <<>> => touch.down = (finger[n] # Lifted)
                                /\ (touch.down => touch.at = finger[n])

\* One press of a key, an axis or a button gives at most one command: no loss,
\* no resynchronization, no finger that slides and no controller read twice
\* makes another.
EveryCommandIsAPress == ~invented

InputInv == InputTypeOK /\ PadsAreKnown /\ FingerIsKnown /\ EveryCommandIsAPress
=============================================================================
