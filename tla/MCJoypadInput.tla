---------------------------- MODULE MCJoypadInput ----------------------------
EXTENDS JoypadInput

(* Three controllers that move about; two whose buttons change; one whose  *)
(* button changes faster than the thread reads, until events are lost, and *)
(* on while it is asked for its state; one and the keyboard.               *)
MCScenarios ==
  {[plugs |-> 3, presses |-> 0, strokes |-> 0],
   [plugs |-> 2, presses |-> 2, strokes |-> 0],
   [plugs |-> 1, presses |-> 5, strokes |-> 0],
   [plugs |-> 1, presses |-> 1, strokes |-> 2]}
=============================================================================
