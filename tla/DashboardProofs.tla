-------------------------- MODULE DashboardProofs --------------------------
(***************************************************************************)
(* The dashboard's loop for every catalog, confirmation time and number of *)
(* touch reports: a reboot needs two selections in time, a press is only   *)
(* compared with targets of the screen it was made on, a signal ends the   *)
(* loop with the iteration it arrives in, what is started is what was      *)
(* selected, and what was last presented is what the state says.           *)
(*                                                                         *)
(* That the second selection is in time is not inductive by itself.        *)
(* PromptInv adds the two facts it needs: the prompt's remaining time and  *)
(* the age of the last selection add up to the confirmation time, and      *)
(* nothing is armed outside the dashboard, where a settings row may be     *)
(* confirmed without disarming.  The latter needs the view stack and the   *)
(* commands each view admits (StackInv).                                   *)
(*                                                                         *)
(* ScreenInv adds where the carousel may be (CarouselInv), which entry a   *)
(* request is for (RequestInv) and that a screen is behind only while a    *)
(* child runs (DrawnInv).  The carousel's lists are counted, so its lemmas *)
(* are about cardinalities: a position on a shelf is the place of exactly  *)
(* one entry of the catalog.                                               *)
(***************************************************************************)
EXTENDS Dashboard, Lemmas

LoopTypes ==
  /\ pc \in {"top", "poll", "read", "command", "reports", "child", "exited"}
  /\ batch \in 0 .. MaxBatch

\* The views that can be stacked, and a command only where its view admits it.
StackInv ==
  /\ views \in {{}, {"settings"}, {"settings", "wifi"}, {"credits"}}
  /\ pc # "command" => command = "none"
  /\ command \in CommandsOf(View)

\* A command that is about to be handled has made the loop forget the press.
PressInv ==
  /\ command # "none" => pressed_target = MenuTargetNone
  /\ PressedTargetIsShown

\* The prompt measures the time since the selection that armed it.
PromptInv ==
  /\ armed \in BOOLEAN /\ armed_left \in 0 .. ConfirmTicks
  /\ reboot_age \in 0 .. Never
  /\ ArmedIsOnDashboard
  /\ armed /\ armed_left > 0 => reboot_age + armed_left = ConfirmTicks

IterationInv == LoopTypes /\ StackInv /\ PressInv /\ PromptInv

-----------------------------------------------------------------------------
\* The fingertip next to every target is on the list of every screen.
LEMMA NowhereIsShown == MenuTargetNone \in TargetsShown
  BY DEF TargetsShown

\* The loop starts at its top with nothing stacked, pressed or armed.
LEMMA IterationInvInit == Init => IterationInv
<1> SUFFICES ASSUME Init
             PROVE  IterationInv
  OBVIOUS
<1>1. LoopTypes
  BY DashboardAssumption DEF Init, LoopTypes
<1>2. StackInv
  BY DEF Init, StackInv, CommandsOf, Commands
<1>3. PressInv
  <2>1. pressed_target = MenuTargetNone
    BY DEF Init
  <2> QED
    BY <2>1, NowhereIsShown DEF PressInv, PressedTargetIsShown
<1>4. PromptInv
  <2>1. ~armed /\ armed \in BOOLEAN /\ armed_left = 0 /\ reboot_age = Never
    BY DEF Init
  <2> QED
    BY <2>1, DashboardAssumption DEF PromptInv, ArmedIsOnDashboard, Never
<1> QED
  BY <1>1, <1>2, <1>3, <1>4 DEF IterationInv

\* The top view is a function of the stack.
LEMMA ViewOfStack ==
  ASSUME StackInv
  PROVE  /\ views = {} <=> View = "dashboard"
         /\ views = {"settings"} <=> View = "settings"
         /\ views = {"settings", "wifi"} <=> View = "wifi"
         /\ views = {"credits"} <=> View = "credits"
  BY DEF StackInv, View

\* What a command can be tells the view it was given in.
LEMMA CommandTellsView ==
  ASSUME StackInv
  PROVE  /\ command = "confirm" => views \in {{}, {"settings"}}
         /\ command \in {"settings", "previous", "next"} =>
              views \in {{}, {"settings"}}
         /\ command \in {"system_previous", "system_next"} => views = {}
  BY DEF StackInv, View, CommandsOf, Commands

\* So does a target of the screen.
LEMMA TargetTellsView ==
  ASSUME StackInv, NEW target \in TargetsShown
  PROVE  /\ target.kind = "setting" => views = {"settings"}
         /\ target.kind \in {"credits", "settings", "system", "previous",
                             "next", "game"} => views = {}
  BY ViewOfStack DEF TargetsShown, StackInv, Target, MenuTargetNone

\* Activating a row of the settings leaves a stack of views.
LEMMA SettingKeepsStack ==
  ASSUME views = {"settings"}, NEW target, ActivateSetting(target)
  PROVE  views' \in {{}, {"settings"}, {"settings", "wifi"}}
  BY DEF ActivateSetting, MoveTo, ApplyVolume

\* Selecting the reboot entry on the dashboard keeps the prompt's account.
LEMMA RebootKeepsPrompt ==
  ASSUME PromptInv, views = {}, NEW i, RequestReboot(i)
  PROVE  PromptInv' /\ views' = {}
<1>1. ConfirmTicks \in Nat \ {0} /\ Never = ConfirmTicks + 1
  BY DashboardAssumption DEF Never
<1>2. views' = {} /\ reboot_age' = 0
  BY DEF RequestReboot, SelectsReboot
<1>3. CASE reboot_confirmation_active
  <2>1. ~armed' /\ armed' \in BOOLEAN /\ armed_left' = 0
    BY <1>3 DEF RequestReboot, Disarm
  <2> QED
    BY <1>1, <1>2, <2>1 DEF PromptInv, ArmedIsOnDashboard, Never
<1>4. CASE ~reboot_confirmation_active
  <2>1. armed' = TRUE /\ armed_left' = ConfirmTicks /\ status' = "confirm"
    BY <1>4 DEF RequestReboot
  <2> QED
    BY <1>1, <1>2, <2>1 DEF PromptInv, ArmedIsOnDashboard, Never
<1> QED
  BY <1>3, <1>4

\* A disarmed prompt has no account to keep.
LEMMA DisarmKeepsPrompt ==
  ASSUME Disarm, DoesSomethingElse
  PROVE  PromptInv'
<1>1. ConfirmTicks \in Nat \ {0} /\ Never = ConfirmTicks + 1
  BY DashboardAssumption DEF Never
<1>2. ~armed' /\ armed' \in BOOLEAN /\ armed_left' = 0 /\ reboot_age' = Never
  BY DEF Disarm, DoesSomethingElse
<1> QED
  BY <1>1, <1>2 DEF PromptInv, ArmedIsOnDashboard, Never

\* While the stack and the carousel stay, the screen's targets stay.
LEMMA SameScreen ==
  ASSUME UNCHANGED <<views, carousel>>
  PROVE  View' = View /\ TargetsShown' = TargetsShown
<1>1. /\ views' = views /\ active_system' = active_system
      /\ game_position' = game_position
  BY DEF carousel
<1>2. View' = View
  BY <1>1 DEF View
<1>3. game_indices' = game_indices /\ game_count' = game_count
  BY <1>1 DEF game_indices, game_count
<1>4. visible_game_indices' = visible_game_indices
  BY <1>1, <1>3 DEF visible_game_indices, visible_count, first_position, PlaceOf
<1> QED
  BY <1>2, <1>3, <1>4 DEF TargetsShown

\* Top, Poll, Read, Gate, the child's return and the environment leave the
\* stack and the carousel alone.
LEMMA QuietKeepsInv ==
  ASSUME IterationInv,
         \/ Top \/ Poll \/ Read \/ Press \/ Gate \/ ChildReturns
         \/ Tick \/ CueEnds \/ SignalShutdown
  PROVE  IterationInv'
<1>1. UNCHANGED <<views, carousel>>
  BY DEF Top, Poll, Read, Press, Gate, ChildReturns, Tick, CueEnds,
     SignalShutdown
<1>2. View' = View /\ TargetsShown' = TargetsShown
  BY <1>1, SameScreen
<1>3. ConfirmTicks \in Nat \ {0} /\ MaxBatch \in Nat
  BY DashboardAssumption
<1>4. LoopTypes'
  BY <1>3 DEF IterationInv, LoopTypes, Top, Poll, Read, Press, Gate,
     ChildReturns, Tick, CueEnds, SignalShutdown
<1>5. StackInv'
  <2>1. CASE Read
    <3>1. command' \in CommandsOf(View') /\ pc' = "command"
      BY <1>2, <2>1 DEF Read
    <3> QED
      BY <1>1, <3>1 DEF IterationInv, StackInv
  <2>2. CASE Top \/ Poll \/ Press \/ Gate \/ ChildReturns \/ Tick \/ CueEnds
             \/ SignalShutdown
    <3>1. command' = command /\ (pc = "command" => pc' = "command")
      BY <2>2 DEF Top, Poll, Press, Gate, ChildReturns, Tick, CueEnds,
         SignalShutdown
    <3>2. command' \in CommandsOf(View')
      BY <1>2, <3>1 DEF IterationInv, StackInv
    <3> QED
      BY <1>1, <3>1, <3>2 DEF IterationInv, StackInv, CommandsOf
  <2> QED
    BY <2>1, <2>2
<1>6. PressInv'
  <2>1. CASE Read
    <3>1. /\ command' # "none" => pressed_target' = MenuTargetNone
          /\ pressed_target' \in {MenuTargetNone, pressed_target}
      BY <2>1 DEF Read, ForgetsPress
    <3> QED
      BY <1>2, <3>1, NowhereIsShown
         DEF IterationInv, PressInv, PressedTargetIsShown
  <2>2. CASE Press
    <3>1. pressed_target' \in TargetsShown /\ command' = "none"
      BY <2>2 DEF Press, IterationInv, StackInv
    <3> QED
      BY <1>2, <3>1 DEF PressInv, PressedTargetIsShown
  <2>3. CASE ChildReturns
    BY <1>2, <2>3, NowhereIsShown
       DEF ChildReturns, IterationInv, PressInv, PressedTargetIsShown
  <2>4. CASE Top \/ Poll \/ Gate \/ Tick \/ CueEnds \/ SignalShutdown
    <3>1. command' = command /\ pressed_target' = pressed_target
      BY <2>4 DEF Top, Poll, Gate, Tick, CueEnds, SignalShutdown
    <3> QED
      BY <1>2, <3>1 DEF IterationInv, PressInv, PressedTargetIsShown
  <2> QED
    BY <2>1, <2>2, <2>3, <2>4
<1>7. PromptInv'
  <2>1. CASE Poll /\ armed /\ ~reboot_confirmation_active
    <3>1. /\ ~armed' /\ armed' \in BOOLEAN /\ armed_left' = 0
          /\ reboot_age' = reboot_age
      BY <2>1 DEF Poll, Expire, Disarm, history
    <3> QED
      BY <1>3, <3>1 DEF IterationInv, PromptInv, ArmedIsOnDashboard
  <2>2. CASE Tick
    <3>1. /\ armed' = armed /\ status' = status /\ views' = views
          /\ armed_left' = IF armed_left > 0 THEN armed_left - 1 ELSE 0
          /\ reboot_age' = IF reboot_age < ConfirmTicks THEN reboot_age + 1
                           ELSE reboot_age
      BY <2>2 DEF Tick, lines
    <3>2. armed_left' \in 0 .. ConfirmTicks /\ reboot_age' \in 0 .. Never
      BY <1>3, <3>1 DEF IterationInv, PromptInv, Never
    <3>3. armed' /\ armed_left' > 0 => reboot_age' + armed_left' = ConfirmTicks
      BY <1>3, <3>1 DEF IterationInv, PromptInv, Never
    <3> QED
      BY <3>1, <3>2, <3>3 DEF IterationInv, PromptInv, ArmedIsOnDashboard
  <2>3. CASE \/ Top \/ Read \/ Press \/ Gate \/ ChildReturns \/ CueEnds
             \/ SignalShutdown
             \/ Poll /\ ~(armed /\ ~reboot_confirmation_active)
    <3>1. UNCHANGED <<armed, armed_left, reboot_age>>
      BY <2>3 DEF Top, Poll, Read, Press, Gate, ChildReturns, CueEnds,
         SignalShutdown, arming, history
    <3>2. status' \in {status, "touch", "other"}
      BY <2>3 DEF Top, Poll, Read, Press, Gate, ChildReturns, CueEnds,
         SignalShutdown, lines
    <3> QED
      BY <1>1, <3>1, <3>2 DEF IterationInv, PromptInv, ArmedIsOnDashboard
  <2> QED
    BY <2>1, <2>2, <2>3
<1> QED
  BY <1>4, <1>5, <1>6, <1>7 DEF IterationInv

\* A command moves within the stack it was given in; outside the settings it
\* arms the prompt or withdraws it.
LEMMA CommandKeepsInv ==
  ASSUME IterationInv, HandleCommand
  PROVE  IterationInv'
<1> USE DEF IterationInv
<1>1. StackInv /\ PromptInv
  OBVIOUS
<1>2. LoopTypes'
  BY DEF HandleCommand, LoopTypes
<1>3. command' = "none" /\ pressed_target' = pressed_target
  BY DEF HandleCommand
<1>4. "none" \in CommandsOf(View')
  BY DEF CommandsOf
<1>5. views' \in {{}, {"settings"}, {"settings", "wifi"}, {"credits"}}
  <2>1. CASE Navigate
    <3>1. CASE command = "back"
      BY <2>1, <3>1, ViewOfStack
         DEF Navigate, ChangeView, MoveTo, StackInv
    <3>2. CASE command = "settings"
      BY <2>1, <3>2, CommandTellsView DEF Navigate, ChangeView, MoveTo
    <3>3. CASE command \in {"system_previous", "system_next", "previous", "next"}
      BY <2>1, <3>3 DEF Navigate, ChangeView, MoveTo, StackInv
    <3> QED
      BY <2>1, <3>1, <3>2, <3>3 DEF Navigate
  <2>2. CASE Confirm
    <3>1. CASE "settings" \in views
      <4>1. views = {"settings"} /\ ActivateSetting(settings_selection)
        BY <2>2, <3>1, CommandTellsView DEF Confirm
      <4> QED
        BY <4>1, SettingKeepsStack
    <3>2. CASE "settings" \notin views
      BY <2>2, <3>2 DEF Confirm, RequestReboot, RequestGame, StackInv
    <3> QED
      BY <3>1, <3>2
  <2>3. CASE UNCHANGED views
    BY <2>3 DEF StackInv
  <2> QED
    BY <2>1, <2>2, <2>3 DEF HandleCommand
<1>6. StackInv'
  BY <1>3, <1>4, <1>5 DEF StackInv
<1>7. PressInv'
  <2>1. CASE command # "none"
    <3>1. MenuTargetNone \in TargetsShown'
      BY DEF TargetsShown
    <3> QED
      BY <1>3, <2>1, <3>1 DEF PressInv, PressedTargetIsShown
  <2>2. CASE command = "none"
    <3>1. UNCHANGED <<views, carousel>>
      BY <2>2 DEF HandleCommand, Navigate, Confirm
    <3> QED
      BY <1>3, <3>1, SameScreen DEF PressInv, PressedTargetIsShown
  <2> QED
    BY <2>1, <2>2
<1>8. PromptInv'
  <2>1. CASE Navigate
    BY <2>1, DisarmKeepsPrompt DEF Navigate
  <2>2. CASE Confirm
    <3>1. CASE "settings" \in views
      <4>1. ~armed
        BY <3>1 DEF PromptInv, ArmedIsOnDashboard
      <4>2. UNCHANGED arming /\ DoesSomethingElse
        BY <2>2, <3>1 DEF Confirm
      <4> QED
        BY <4>1, <4>2, DashboardAssumption
           DEF arming, DoesSomethingElse, PromptInv, ArmedIsOnDashboard, Never
    <3>2. CASE "settings" \notin views
      <4>1. views = {}
        BY <2>2, <3>2, CommandTellsView DEF Confirm
      <4>2. \/ RequestReboot(shown_game_index)
            \/ Disarm /\ DoesSomethingElse
        BY <2>2, <3>2 DEF Confirm
      <4> QED
        BY <4>1, <4>2, RebootKeepsPrompt, DisarmKeepsPrompt
    <3> QED
      BY <3>1, <3>2
  <2>3. CASE UNCHANGED <<views, lines, arming, history>>
    BY <2>3 DEF lines, arming, history, PromptInv, ArmedIsOnDashboard
  <2> QED
    BY <2>1, <2>2, <2>3 DEF HandleCommand
<1> QED
  BY <1>2, <1>6, <1>7, <1>8

\* What can be tapped.
LEMMA TargetKinds ==
  ASSUME StackInv, NEW target \in TargetsShown, target # MenuTargetNone
  PROVE  target.kind \in {"setting", "credits", "settings", "close_credits",
                          "back", "save", "edit", "system", "previous", "next",
                          "game"}
<1>1. CASE View = "credits"
  BY <1>1 DEF TargetsShown, Target, MenuTargetNone
<1>2. CASE View = "wifi"
  BY <1>2 DEF TargetsShown, Target, MenuTargetNone
<1>3. CASE View = "settings"
  BY <1>3 DEF TargetsShown, Target, MenuTargetNone
<1>4. CASE View = "dashboard"
  BY <1>4 DEF TargetsShown, Target, MenuTargetNone
<1> QED
  BY <1>1, <1>2, <1>3, <1>4, ViewOfStack DEF StackInv

\* So does a tap on a target of the screen.
LEMMA TapKeepsStack ==
  ASSUME StackInv, NEW target \in TargetsShown, NEW cancelled,
         target # MenuTargetNone, Tap(target, cancelled)
  PROVE  views' \in {{}, {"settings"}, {"settings", "wifi"}, {"credits"}}
<1>1. CASE target.kind = "setting"
  <2>1. views = {"settings"} /\ ActivateSetting(target.index)
    BY <1>1, TargetTellsView DEF Tap
  <2> QED
    BY <2>1, SettingKeepsStack
<1>2. CASE target.kind \in {"credits", "settings"}
  BY <1>2, TargetTellsView DEF Tap, ChangeView, MoveTo
<1>3. CASE target.kind \in {"close_credits", "back"}
  BY <1>3 DEF Tap, ChangeView, MoveTo, StackInv
<1>4. CASE target.kind \in {"save", "edit"}
  BY <1>4 DEF Tap, StackInv
<1>5. CASE target.kind \in {"system", "previous", "next"}
  BY <1>5 DEF Tap, MoveTo, StackInv
<1>6. CASE target.kind = "game"
  BY <1>6 DEF Tap, RequestGame, StackInv
<1> QED
  BY <1>1, <1>2, <1>3, <1>4, <1>5, <1>6, TargetKinds

\* The reboot entry is a game of the carousel and selecting it keeps the stack;
\* a release on any other target withdraws the prompt.
LEMMA ReleaseKeepsInv ==
  ASSUME IterationInv, Release
  PROVE  IterationInv'
<1>1. StackInv /\ PromptInv
  BY DEF IterationInv
<1>2. LoopTypes'
  BY DashboardAssumption DEF Release, IterationInv, LoopTypes
<1>3. /\ command' = "none" /\ pc' = "reports"
      /\ pressed_target' = MenuTargetNone
  BY <1>1 DEF Release, StackInv
<1>4. PICK t \in TargetsShown :
        \/ IsReboot(t) /\ RequestReboot(t.index)
        \/ UNCHANGED <<views, status, arming, history>>
        \/ /\ Disarm /\ DoesSomethingElse
           /\ \/ UNCHANGED views
              \/ t # MenuTargetNone /\ Tap(t, IF armed THEN WithoutPrompt ELSE status)
  BY DEF Release
<1>5. IsReboot(t) => views = {}
  BY <1>1, TargetTellsView DEF IsReboot
<1>6. views' \in {{}, {"settings"}, {"settings", "wifi"}, {"credits"}}
  <2>1. CASE IsReboot(t) /\ RequestReboot(t.index)
    BY <1>5, <2>1 DEF RequestReboot
  <2>2. CASE UNCHANGED views
    BY <1>1, <2>2 DEF StackInv
  <2>3. CASE t # MenuTargetNone /\ Tap(t, IF armed THEN WithoutPrompt ELSE status)
    BY <1>1, <2>3, TapKeepsStack
  <2> QED
    BY <1>4, <2>1, <2>2, <2>3
<1>7. StackInv'
  BY <1>3, <1>6 DEF StackInv, CommandsOf
<1>8. PressInv'
  <2>1. MenuTargetNone \in TargetsShown'
    BY DEF TargetsShown
  <2> QED
    BY <1>3, <2>1 DEF PressInv, PressedTargetIsShown
<1>9. PromptInv'
  <2>1. CASE IsReboot(t) /\ RequestReboot(t.index)
    BY <1>1, <1>5, <2>1, RebootKeepsPrompt
  <2>2. CASE UNCHANGED <<views, status, arming, history>>
    BY <1>1, <2>2 DEF arming, history, PromptInv, ArmedIsOnDashboard
  <2>3. CASE Disarm /\ DoesSomethingElse
    BY <2>3, DisarmKeepsPrompt
  <2> QED
    BY <1>4, <2>1, <2>2, <2>3
<1> QED
  BY <1>2, <1>7, <1>8, <1>9 DEF IterationInv

\* The invariant is kept by every step of the loop and of its environment.
LEMMA IterationInvNext == IterationInv /\ [Next]_vars => IterationInv'
<1> SUFFICES ASSUME IterationInv, [Next]_vars
             PROVE  IterationInv'
  OBVIOUS
<1>1. CASE UNCHANGED vars
  <2>1. UNCHANGED <<views, carousel>>
    BY <1>1 DEF vars
  <2>2. View' = View /\ TargetsShown' = TargetsShown
    BY <2>1, SameScreen
  <2>3. UNCHANGED <<pc, batch, views, command, pressed_target, status, armed,
                    armed_left, reboot_age>>
    BY <1>1 DEF vars, lines, arming, history
  <2>4. command' \in CommandsOf(View')
    BY <2>2, <2>3 DEF IterationInv, StackInv
  <2>5. LoopTypes' /\ PromptInv'
    BY <2>3 DEF IterationInv, LoopTypes, PromptInv, ArmedIsOnDashboard
  <2>6. StackInv'
    BY <2>3, <2>4 DEF IterationInv, StackInv, CommandsOf
  <2>7. PressInv'
    BY <2>2, <2>3 DEF IterationInv, PressInv, PressedTargetIsShown
  <2> QED
    BY <2>5, <2>6, <2>7 DEF IterationInv
<1>2. CASE HandleCommand
  BY <1>2, CommandKeepsInv
<1>3. CASE Release
  BY <1>3, ReleaseKeepsInv
<1>4. CASE \/ Top \/ Poll \/ Read \/ Press \/ Gate \/ ChildReturns
           \/ Tick \/ CueEnds \/ SignalShutdown
  BY <1>4, QuietKeepsInv
<1> QED
  BY <1>1, <1>2, <1>3, <1>4 DEF Next, Loop

\* IterationInv is an invariant of the main loop.
THEOREM IterationInvariant == Spec => []IterationInv
  BY IterationInvInit, IterationInvNext, PTL DEF Spec

\* The prompt is armed on the dashboard and never without a status line.
THEOREM PromptIsOnDashboard == Spec => []ArmedIsOnDashboard
<1>1. IterationInv => ArmedIsOnDashboard
  BY DEF IterationInv, PromptInv
<1> QED
  BY <1>1, IterationInvariant, PTL

\* The target a press remembers is always one of the screen's.
THEOREM PressesAreOfTheScreen == Spec => []PressedTargetIsShown
<1>1. IterationInv => PressedTargetIsShown
  BY DEF IterationInv, PressInv
<1> QED
  BY <1>1, IterationInvariant, PTL

\* run_reboot is asked for only by two selections of the reboot entry in a row
\* and within the confirmation time.
THEOREM RebootIsConfirmed == Spec => RebootNeedsTwoSelections
<1> DEFINE Confirmed == reboot_requested' /\ ~reboot_requested => confirmed'
<1>1. ASSUME IterationInv, NEW i, RequestReboot(i)
      PROVE  Confirmed
  <2>1. CASE reboot_confirmation_active
    <3>1. reboot_age < ConfirmTicks
      BY <1>1, <2>1, DashboardAssumption
         DEF reboot_confirmation_active, IterationInv, PromptInv, Never
    <3>2. confirmed' = (reboot_age < ConfirmTicks)
      BY <1>1 DEF RequestReboot, SelectsReboot
    <3> QED
      BY <3>1, <3>2
  <2>2. CASE ~reboot_confirmation_active
    BY <1>1, <2>2 DEF RequestReboot
  <2> QED
    BY <2>1, <2>2
<1>2. ASSUME NEW target, ActivateSetting(target)
      PROVE  reboot_requested' = reboot_requested
  BY <1>2 DEF ActivateSetting, MoveTo, ApplyVolume, request
<1>3. ASSUME IterationInv, HandleCommand
      PROVE  Confirmed
  <2>1. CASE Navigate
    BY <2>1 DEF Navigate, ChangeView, MoveTo, request
  <2>2. CASE Confirm
    <3>1. CASE "settings" \in views
      BY <1>2, <2>2, <3>1 DEF Confirm
    <3>2. CASE "settings" \notin views
      <4>1. \/ RequestReboot(shown_game_index)
            \/ RequestGame(shown_game_index)
        BY <2>2, <3>2 DEF Confirm
      <4> QED
        BY <1>1, <1>3, <4>1 DEF RequestGame
    <3> QED
      BY <3>1, <3>2
  <2>3. CASE UNCHANGED request
    BY <2>3 DEF request
  <2> QED
    BY <1>3, <2>1, <2>2, <2>3 DEF HandleCommand
<1>4. ASSUME IterationInv, Release
      PROVE  Confirmed
  <2>1. PICK t \in TargetsShown :
          \/ RequestReboot(t.index)
          \/ UNCHANGED request
          \/ t # MenuTargetNone /\ Tap(t, IF armed THEN WithoutPrompt ELSE status)
    BY <1>4 DEF Release
  <2>2. CASE t # MenuTargetNone /\ Tap(t, IF armed THEN WithoutPrompt ELSE status)
    <3>1. \/ reboot_requested' = reboot_requested
          \/ ActivateSetting(t.index)
      <4>1. t.kind \in {"setting", "credits", "settings", "close_credits",
                        "back", "save", "edit", "system", "previous", "next",
                        "game"}
        BY <1>4, <2>2, TargetKinds DEF IterationInv
      <4> QED
        BY <2>2, <4>1 DEF Tap, ChangeView, MoveTo, RequestGame, request
    <3> QED
      BY <1>2, <3>1
  <2>3. CASE UNCHANGED request
    BY <2>3 DEF request
  <2> QED
    BY <1>1, <1>4, <2>1, <2>2, <2>3
<1>5. ASSUME \/ Top \/ Poll \/ Read \/ Press \/ Gate \/ ChildReturns
             \/ Tick \/ CueEnds \/ SignalShutdown \/ UNCHANGED vars
      PROVE  Confirmed
  BY <1>5 DEF Top, Poll, Read, Press, Gate, ChildReturns, Tick, CueEnds,
     SignalShutdown, vars, request
<1>6. IterationInv /\ [Next]_vars => [Confirmed]_vars
  BY <1>3, <1>4, <1>5 DEF Next, Loop
<1> QED
  BY <1>6, IterationInvariant, PTL DEF Spec, RebootNeedsTwoSelections

\* After a signal the loop only finishes the iteration it is in.
THEOREM ShutdownIsPrompt == Spec => ShutdownEndsSoon
<1> DEFINE Ends == shutdown /\ Loop => StepsLeft' < StepsLeft
<1>1. ASSUME IterationInv, shutdown, Loop
      PROVE  StepsLeft' < StepsLeft
  <2>1. MaxBatch \in Nat /\ batch \in 0 .. MaxBatch
    BY <1>1, DashboardAssumption DEF IterationInv, LoopTypes
  <2>2. CASE Top
    BY <1>1, <2>2 DEF Top, StepsLeft
  <2>3. CASE Poll
    BY <2>1, <2>3 DEF Poll, StepsLeft
  <2>4. CASE Read
    BY <2>1, <2>4 DEF Read, StepsLeft
  <2>5. CASE HandleCommand
    BY <2>1, <2>5 DEF HandleCommand, StepsLeft
  <2>6. CASE Press \/ Release
    BY <2>1, <2>6 DEF Press, Release, StepsLeft
  <2>7. CASE Gate
    BY <2>1, <2>7 DEF Gate, StepsLeft
  <2>8. CASE ChildReturns
    BY <1>1, <2>8 DEF ChildReturns, StepsLeft
  <2> QED
    BY <1>1, <2>2, <2>3, <2>4, <2>5, <2>6, <2>7, <2>8 DEF Loop
<1>2. IterationInv /\ [Next]_vars => [Ends]_vars
  BY <1>1
<1> QED
  BY <1>2, IterationInvariant, PTL DEF Spec, ShutdownEndsSoon

-----------------------------------------------------------------------------
(***************************************************************************)
(* The carousel.  Counting the entries before an entry is one-to-one on    *)
(* the entries of a system and stays below their number, so every position *)
(* of the carousel has its entry, whatever order the manifest has.         *)
(***************************************************************************)

\* The manifest has entries and every tab has a system.
LEMMA CatalogIsFinite ==
  /\ Len(Games) \in Nat \ {0} /\ IsFiniteSet(Entries)
  /\ LastSystem \in Nat \ {0} /\ Systems = 1 .. LastSystem
<1>1. Len(Games) \in Nat \ {0}
  BY DashboardAssumption
<1>2. IsFiniteSet(Entries)
  BY <1>1, FS_Interval DEF Entries
<1>3. IsFiniteSet(Systems)
  <2> DEFINE SystemOf == [i \in Entries |-> Games[i].system]
  <2>1. SystemOf \in Surjection(Entries, Systems)
    BY DEF Surjection, Systems
  <2> QED
    BY <1>2, <2>1, FS_Surjection
<1>4. Games[1].system \in Systems
  BY <1>1 DEF Systems, Entries
<1>5. LastSystem \in Nat /\ LastSystem # 0
  BY <1>3, <1>4, FS_CardinalityType, FS_EmptySet DEF LastSystem
<1> QED
  BY <1>1, <1>2, <1>5, DashboardAssumption

\* Every position of a system's carousel has its entry.
LEMMA CarouselIsFilled ==
  ASSUME NEW s \in Systems
  PROVE  /\ IsFiniteSet(Indices[s]) /\ Cardinality(Indices[s]) \in Nat \ {0}
         /\ \A k \in 0 .. Cardinality(Indices[s]) - 1 :
              \E i \in Indices[s] : PlaceOf[i] = k
<1> DEFINE S == Indices[s]
           rank == [i \in S |-> i]
<1>1. S \in SUBSET Nat /\ IsFiniteSet(S)
  BY CatalogIsFinite, FS_Subset DEF Indices, Entries
<1>2. S # {}
  BY DEF Systems, Indices
<1>3. \A i \in S : PlaceOf[i] = Preceding(S, rank, i)
  <2> SUFFICES ASSUME NEW i \in S
               PROVE  PlaceOf[i] = Preceding(S, rank, i)
    OBVIOUS
  <2>1. PlaceOf[i] = Cardinality({j \in S : j < i})
    BY DEF PlaceOf, Indices
  <2>2. {j \in S : rank[j] < rank[i]} = {j \in S : j < i}
    OBVIOUS
  <2> QED
    BY <2>1, <2>2 DEF Preceding
<1>4. rank \in [S -> Int] /\ \A x, y \in S : rank[x] = rank[y] => x = y
  BY <1>1
<1>5. \A k \in 0 .. Cardinality(S) - 1 : \E i \in S : Preceding(S, rank, i) = k
  <2> HIDE DEF S, rank
  <2> QED
    BY <1>1, <1>4, PlacesAreFilled
<1>6. Cardinality(S) \in Nat /\ Cardinality(S) # 0
  BY <1>1, <1>2, FS_CardinalityType, FS_EmptySet
<1> QED
  BY <1>1, <1>3, <1>5, <1>6

\* The card in the middle is an entry of the active system.
LEMMA ShownIsAnEntry ==
  ASSUME active_system \in Systems, game_position \in Nat
  PROVE  shown_game_index \in game_indices
<1>1. game_count \in Nat \ {0} /\ game_position % game_count \in 0 .. game_count - 1
  BY CarouselIsFilled DEF game_count, game_indices
<1> QED
  BY <1>1, CarouselIsFilled DEF shown_game_index, game_count, game_indices

-----------------------------------------------------------------------------
(***************************************************************************)
(* What the loop is about to launch and what the screen shows.  A launch   *)
(* is decided reports before it happens, and until then the screen may lag *)
(* behind; DrawnInv says when.                                             *)
(***************************************************************************)

\* A child has been asked for.
Pending == selected_game # 0 \/ terminal_mode \/ reboot_requested

LineTypes ==
  /\ shutdown \in BOOLEAN
  /\ status \in {"none", "confirm", "touch", "other"}
  /\ wifi_status \in {"none", "touch", "other"}
  /\ muted \in BOOLEAN /\ sound \in BOOLEAN
  /\ touch \in {"open", "closed", "wayland"}
  /\ confirmed \in BOOLEAN

CarouselInv ==
  /\ active_system \in Systems
  /\ game_position \in 0 .. game_count - 1

\* Only the reboot leaves an entry selected that is not a game.
RequestInv ==
  /\ settings_selection \in SettingsTargetClose .. SettingsTargetWifi
  /\ selected_game \in 0 .. Len(Games)
  /\ terminal_mode \in BOOLEAN /\ reboot_requested \in BOOLEAN
  /\ selected_game # 0 =>
       reboot_requested \/ Games[selected_game].kind = "game"

\* The prompt a release next to every target has cancelled.
StalePrompt ==
  /\ status = "none" /\ ~armed /\ reboot_age = Never
  /\ shown = [Picture EXCEPT !.status = "confirm"]

\* The screen lags behind only under a stale prompt or when a child is
\* about to be launched, which draws it.
DrawnInv ==
  /\ pc = "child" => Pending
  /\ pc # "exited" =>
       shown = Picture \/ StalePrompt \/ (pc = "reports" /\ Pending)

ScreenInv == IterationInv /\ LineTypes /\ CarouselInv /\ RequestInv /\ DrawnInv

-----------------------------------------------------------------------------
\* Every entry of the manifest is a game or one of the built-in entries.
LEMMA EntryKinds ==
  ASSUME NEW i \in Entries
  PROVE  Games[i].kind \in Kinds
<1>1. Games \in Seq([system : Nat, kind : Kinds])
  BY DashboardAssumption
<1>2. Games[i] \in [system : Nat, kind : Kinds]
  BY <1>1, ElementOfSeq DEF Entries
<1> QED
  BY <1>2

\* A new system starts at its first entry.
LEMMA SystemMoves ==
  ASSUME active_system' \in Systems, game_position' = 0
  PROVE  CarouselInv'
<1> DEFINE count == Cardinality(Indices[active_system'])
<1>1. count \in Nat \ {0}
  BY CarouselIsFilled
<1>2. 0 \in 0 .. count - 1
  BY <1>1
<1> QED
  BY <1>2 DEF CarouselInv, game_count, game_indices

\* Stepping through the entries of a system stays among them.
LEMMA PositionMoves ==
  ASSUME CarouselInv, active_system' = active_system, NEW direction,
         game_position' \in {game_position, adjacent_position(direction)}
  PROVE  CarouselInv'
<1>1. game_count \in Nat \ {0}
  BY CarouselIsFilled DEF game_count, game_indices, CarouselInv
<1>2. game_count' = game_count
  BY DEF game_count, game_indices
<1>3. adjacent_position(direction) \in 0 .. game_count - 1
  BY <1>1 DEF adjacent_position, CarouselInv
<1> QED
  BY <1>2, <1>3 DEF CarouselInv

\* The tabs are a ring.
LEMMA TabsAreARing ==
  ASSUME active_system \in Systems, NEW direction
  PROVE  adjacent_system(direction) \in Systems
  BY CatalogIsFinite DEF adjacent_system

\* So are the rows of the settings, the close button left out.
LEMMA RowsAreARing ==
  ASSUME settings_selection \in SettingsTargetClose .. SettingsTargetWifi,
         NEW direction
  PROVE  adjacent_setting(direction) \in
           SettingsTargetClose .. SettingsTargetWifi
  BY DEF adjacent_setting, SettingsTargetClose, SettingsTargetWifi,
     SettingsTargetVolumeDown

\* A picture is a function of the stack, the carousel, the selected row and the
\* status lines.
LEMMA SamePicture ==
  ASSUME UNCHANGED <<views, carousel, settings_selection, lines>>
  PROVE  Picture' = Picture
  BY SameScreen DEF Picture, carousel, lines

\* What moving between views or entries keeps.
LEMMA MoveKeeps ==
  ASSUME LineTypes, RequestInv, NEW stack, NEW system, NEW position,
         NEW selection \in SettingsTargetClose .. SettingsTargetWifi,
         NEW line \in {"none", "confirm", "touch", "other"},
         MoveTo(stack, system, position, selection, line),
         UNCHANGED <<shutdown, touch>>, confirmed' \in BOOLEAN
  PROVE  /\ LineTypes' /\ RequestInv' /\ shown' = Picture'
         /\ active_system' = system /\ game_position' = position
<1>1. LineTypes'
  BY DEF LineTypes, MoveTo, Cue
<1>2. RequestInv'
  BY DEF RequestInv, MoveTo, request
<1> QED
  BY <1>1, <1>2 DEF MoveTo, Show

\* Activating a row of the settings draws the screen or asks for the terminal.
LEMMA SettingKeeps ==
  ASSUME LineTypes, RequestInv, CarouselInv,
         NEW target \in SettingsTargetClose .. SettingsTargetWifi,
         ActivateSetting(target),
         UNCHANGED <<shutdown, touch>>, confirmed' \in BOOLEAN
  PROVE  /\ LineTypes' /\ RequestInv' /\ CarouselInv'
         /\ shown' = Picture' \/ Pending'
<1>1. CASE target = SettingsTargetClose
  <2>1. MoveTo(views \ {"settings"}, active_system, game_position, target, "none")
    BY <1>1 DEF ActivateSetting, SettingsTargetClose, SettingsTargetVolumeDown,
       SettingsTargetVolumeUp, SettingsTargetTerminal, SettingsTargetWifi
  <2> QED
    BY <2>1, MoveKeeps, PositionMoves
<1>2. CASE target \in {SettingsTargetVolumeDown, SettingsTargetVolumeUp}
  <2>1. ApplyVolume(target)
    BY <1>2 DEF ActivateSetting, SettingsTargetClose, SettingsTargetVolumeDown,
       SettingsTargetVolumeUp, SettingsTargetTerminal, SettingsTargetWifi
  <2>2. LineTypes'
    BY <2>1 DEF ApplyVolume, LineTypes
  <2>3. RequestInv'
    BY <2>1 DEF ApplyVolume, RequestInv, request
  <2> QED
    BY <2>1, <2>2, <2>3, PositionMoves DEF ApplyVolume, Show, carousel
<1>3. CASE target = SettingsTargetTerminal
  <2>1. /\ UNCHANGED <<carousel, lines, muted, selected_game, reboot_requested>>
        /\ settings_selection' = target /\ terminal_mode' = TRUE /\ Cue
    BY <1>3 DEF ActivateSetting, SettingsTargetClose, SettingsTargetVolumeDown,
       SettingsTargetVolumeUp, SettingsTargetTerminal, SettingsTargetWifi
  <2>2. LineTypes'
    BY <2>1 DEF LineTypes, lines, Cue
  <2>3. RequestInv'
    BY <2>1 DEF RequestInv
  <2> QED
    BY <2>1, <2>2, <2>3, PositionMoves DEF Pending, carousel
<1>4. CASE target = SettingsTargetWifi
  <2>1. /\ UNCHANGED <<carousel, status, muted, request>> /\ Show /\ Cue
        /\ settings_selection' = target /\ wifi_status' = "none"
    BY <1>4 DEF ActivateSetting, SettingsTargetClose, SettingsTargetVolumeDown,
       SettingsTargetVolumeUp, SettingsTargetTerminal, SettingsTargetWifi
  <2>2. LineTypes'
    BY <2>1 DEF LineTypes, Cue
  <2>3. RequestInv'
    BY <2>1 DEF RequestInv, request
  <2> QED
    BY <2>1, <2>2, <2>3, PositionMoves DEF Show, carousel
<1>5. CASE target \notin {SettingsTargetClose, SettingsTargetVolumeDown,
                          SettingsTargetVolumeUp, SettingsTargetTerminal,
                          SettingsTargetWifi}
  <2>1. MoveTo(views, active_system, game_position, target, "other")
    BY <1>5 DEF ActivateSetting
  <2> QED
    BY <2>1, MoveKeeps, PositionMoves
<1> QED
  BY <1>1, <1>2, <1>3, <1>4, <1>5

\* Selecting an entry other than the reboot entry asks for a child.
LEMMA GameKeeps ==
  ASSUME LineTypes, RequestInv, CarouselInv, NEW i \in Entries,
         Games[i].kind # "reboot", RequestGame(i),
         status' \in {status, "none"},
         UNCHANGED <<shutdown, touch>>, confirmed' \in BOOLEAN
  PROVE  LineTypes' /\ RequestInv' /\ CarouselInv' /\ Pending'
<1>1. LineTypes'
  BY DEF LineTypes, RequestGame, Cue
<1>2. Games[i].kind \in Kinds /\ i \in 1 .. Len(Games) /\ i # 0
  BY EntryKinds DEF Entries
<1>3. RequestInv' /\ Pending'
  <2>1. CASE Games[i].kind = "terminal"
    BY <2>1 DEF RequestGame, RequestInv, Pending
  <2>2. CASE Games[i].kind # "terminal"
    <3>1. selected_game' = i /\ Games[i].kind = "game"
      BY <1>2, <2>2 DEF RequestGame, Kinds
    <3>2. UNCHANGED <<terminal_mode, reboot_requested, settings_selection>>
      BY <2>2 DEF RequestGame
    <3> QED
      BY <1>2, <3>1, <3>2, CatalogIsFinite DEF RequestInv, Pending
  <2> QED
    BY <2>1, <2>2
<1> QED
  BY <1>1, <1>3, PositionMoves DEF RequestGame, carousel

\* Selecting the reboot entry draws the prompt or asks for the reboot.
LEMMA RebootKeeps ==
  ASSUME LineTypes, RequestInv, CarouselInv, NEW i \in Entries,
         RequestReboot(i), reboot_age \in Nat, UNCHANGED <<shutdown, touch>>
  PROVE  /\ LineTypes' /\ RequestInv' /\ CarouselInv'
         /\ shown' = Picture' \/ Pending'
<1>1. LineTypes'
  <2>1. status' \in {status, "confirm"} /\ UNCHANGED <<wifi_status, muted>> /\ Cue
    BY DEF RequestReboot
  <2>2. confirmed' \in BOOLEAN
    BY DEF RequestReboot, SelectsReboot
  <2> QED
    BY <2>1, <2>2 DEF LineTypes, Cue
<1>2. RequestInv' /\ (shown' = Picture' \/ Pending')
  <2>1. i \in 0 .. Len(Games)
    BY CatalogIsFinite DEF Entries
  <2>2. CASE reboot_confirmation_active
    BY <2>1, <2>2 DEF RequestReboot, RequestInv, Pending
  <2>3. CASE ~reboot_confirmation_active
    BY <2>3 DEF RequestReboot, RequestInv, Show
  <2> QED
    BY <2>2, <2>3
<1> QED
  BY <1>1, <1>2, PositionMoves DEF RequestReboot, carousel

-----------------------------------------------------------------------------
\* The loop starts with the picture of its initial state.
LEMMA ScreenInvInit == Init => ScreenInv
<1> SUFFICES ASSUME Init
             PROVE  ScreenInv
  OBVIOUS
<1>1. LineTypes
  BY DashboardAssumption DEF Init, LineTypes
<1>2. CarouselInv
  <2>1. 1 \in Systems
    BY CatalogIsFinite
  <2>2. game_count \in Nat \ {0}
    BY <2>1, CarouselIsFilled DEF Init, game_count, game_indices
  <2> QED
    BY <2>1, <2>2 DEF Init, CarouselInv
<1>3. RequestInv
  <2>1. 0 \in 0 .. Len(Games)
    BY CatalogIsFinite
  <2>2. settings_selection \in SettingsTargetClose .. SettingsTargetWifi
    BY DEF Init, SettingsTargetClose, SettingsTargetVolumeDown, SettingsTargetWifi
  <2>3. selected_game = 0 /\ terminal_mode = FALSE /\ reboot_requested = FALSE
    BY DEF Init
  <2> QED
    BY <2>1, <2>2, <2>3 DEF RequestInv
<1>4. DrawnInv
  BY DEF Init, DrawnInv
<1> QED
  BY <1>1, <1>2, <1>3, <1>4, IterationInvInit DEF ScreenInv

\* Outside the handlers the carousel, the selected row and the request stay,
\* except that a new iteration drops the request; whatever changes a status
\* line draws it.
LEMMA QuietKeepsScreen ==
  ASSUME ScreenInv,
         \/ Top \/ Poll \/ Read \/ Press \/ Gate \/ ChildReturns
         \/ Tick \/ CueEnds \/ SignalShutdown \/ UNCHANGED vars
  PROVE  LineTypes' /\ CarouselInv' /\ RequestInv' /\ DrawnInv'
<1>1. UNCHANGED <<views, carousel, settings_selection>>
  BY DEF Top, Poll, Read, Press, Gate, ChildReturns, Tick, CueEnds,
     SignalShutdown, vars
<1>2. CarouselInv'
  BY <1>1, PositionMoves DEF ScreenInv, carousel
<1>3. LineTypes'
  <2>1. /\ shutdown' \in {shutdown, TRUE} /\ confirmed' = confirmed
        /\ muted' = muted \/ muted' \in BOOLEAN
        /\ sound' = sound \/ sound' = FALSE
    BY DEF Top, Poll, Read, Press, Gate, ChildReturns, Tick, CueEnds,
       SignalShutdown, history, vars
  <2>2. /\ status' \in {status, "none", "touch", "other"}
        /\ wifi_status' \in {wifi_status, "touch"}
        /\ touch' \in {touch, "open", "closed"}
    <3>1. CASE Read
      BY <3>1 DEF Read, lines
    <3>2. CASE Poll
      BY <3>2 DEF Poll, Expire, WithoutPrompt
    <3>3. CASE Top \/ Gate \/ ChildReturns
      BY <3>3 DEF Top, Gate, ChildReturns, lines
    <3>4. CASE Press \/ Tick \/ CueEnds \/ SignalShutdown \/ UNCHANGED vars
      BY <3>4 DEF Press, Tick, CueEnds, SignalShutdown, lines, vars
    <3> QED
      BY <3>1, <3>2, <3>3, <3>4
  <2> QED
    BY <2>1, <2>2, ZenonT(30) DEF ScreenInv, LineTypes
<1>4. RequestInv'
  <2>1. CASE Read
    <3>1. 0 \in 0 .. Len(Games)
      BY CatalogIsFinite
    <3>2. selected_game' = 0 /\ terminal_mode' = FALSE /\ reboot_requested' = FALSE
      BY <2>1 DEF Read
    <3> QED
      BY <1>1, <3>1, <3>2 DEF ScreenInv, RequestInv
  <2>2. CASE UNCHANGED request
    BY <1>1, <2>2 DEF request, ScreenInv, RequestInv
  <2> QED
    BY <2>1, <2>2 DEF Top, Poll, Press, Gate, ChildReturns, Tick, CueEnds,
       SignalShutdown, vars
<1>5. DrawnInv'
  <2> USE DEF ScreenInv
  <2>1. CASE Top
    <3>1. \/ pc' = "exited"
          \/ pc' = "poll" /\ shown' = Picture'
          \/ pc' = "poll" /\ UNCHANGED <<lines, shown>>
      BY <2>1 DEF Top, Show
    <3>2. UNCHANGED <<lines, shown>> => Picture' = Picture
      BY <1>1, SamePicture
    <3>3. UNCHANGED <<armed, reboot_age>> /\ pc = "top"
      BY <2>1 DEF Top, arming, history
    <3> QED
      BY <3>1, <3>2, <3>3 DEF DrawnInv, StalePrompt, lines
  <2>2. CASE Poll
    <3>1. pc = "poll" /\ pc' \in {"top", "read"} /\ wifi_status' = wifi_status
      BY <2>2 DEF Poll
    <3>2. \/ shown' = Picture'
          \/ UNCHANGED <<status, shown>> /\ armed /\ ~armed'
          \/ UNCHANGED <<status, shown, armed, reboot_age>>
      BY <2>2 DEF Poll, Expire, WithoutPrompt, Show, Disarm, arming, history
    <3>3. CASE UNCHANGED <<status, shown>>
      <4>1. Picture' = Picture
        BY <1>1, <3>1, <3>3, SamePicture DEF lines
      <4> QED
        BY <3>1, <3>2, <3>3, <4>1 DEF DrawnInv, StalePrompt
    <3> QED
      BY <3>1, <3>2, <3>3 DEF DrawnInv
  <2>3. CASE Read
    <3>1. pc = "read" /\ pc' = "command" /\ UNCHANGED <<armed, reboot_age>>
      BY <2>3 DEF Read, arming, history
    <3>2. shown' = Picture' \/ UNCHANGED <<lines, shown>>
      BY <2>3 DEF Read, Show
    <3>3. UNCHANGED lines => Picture' = Picture
      BY <1>1, SamePicture
    <3> QED
      BY <3>1, <3>2, <3>3 DEF DrawnInv, StalePrompt, lines
  <2>4. CASE Gate
    <3>1. CASE Pending
      <4>1. pc' = "child" /\ shown' = Picture' /\ Pending'
        BY <2>4, <3>1 DEF Gate, Pending, Show, request, ScreenInv, RequestInv
      <4> QED
        BY <4>1 DEF DrawnInv
    <3>2. CASE ~Pending
      <4>1. /\ pc = "reports" /\ pc' = "top"
            /\ UNCHANGED <<lines, shown, armed, reboot_age>>
        BY <2>4, <3>2 DEF Gate, Pending, lines, arming, history, RequestInv
      <4>2. Picture' = Picture
        BY <1>1, <4>1, SamePicture
      <4> QED
        BY <3>2, <4>1, <4>2 DEF DrawnInv, StalePrompt, lines
    <3> QED
      BY <3>1, <3>2
  <2>5. CASE ChildReturns
    <3>1. pc' = "exited" \/ (pc' = "top" /\ shown' = Picture')
      BY <2>5 DEF ChildReturns, Show
    <3> QED
      BY <3>1 DEF DrawnInv
  <2>6. CASE Press \/ Tick \/ CueEnds \/ SignalShutdown \/ UNCHANGED vars
    <3>1. UNCHANGED <<pc, lines, armed, request, shown>>
      BY <2>6 DEF Press, Tick, CueEnds, SignalShutdown, vars, arming
    <3>2. reboot_age = Never => reboot_age' = Never
      BY <2>6, DashboardAssumption
         DEF Press, Tick, CueEnds, SignalShutdown, vars, history, Never
    <3>3. Picture' = Picture
      BY <1>1, <3>1, SamePicture
    <3> QED
      BY <3>1, <3>2, <3>3 DEF DrawnInv, StalePrompt, Pending, lines, request
  <2> QED
    BY <2>1, <2>2, <2>3, <2>4, <2>5, <2>6
<1> QED
  BY <1>2, <1>3, <1>4, <1>5

\* A command draws what it changed or asks for a child.
LEMMA CommandKeepsScreen ==
  ASSUME ScreenInv, HandleCommand
  PROVE  LineTypes' /\ CarouselInv' /\ RequestInv' /\ DrawnInv'
<1> USE DEF ScreenInv
<1>1. pc = "command" /\ pc' = "reports" /\ UNCHANGED <<shutdown, touch>>
  BY DEF HandleCommand
<1>2. active_system \in Systems /\ game_position \in Nat /\ reboot_age \in Nat
  <2>1. game_count \in Nat
    BY CarouselIsFilled DEF CarouselInv, game_count, game_indices
  <2>2. Never \in Nat
    BY DashboardAssumption DEF Never
  <2> QED
    BY <2>1, <2>2 DEF CarouselInv, IterationInv, PromptInv
<1>3. CASE Navigate
  <2>1. confirmed' \in BOOLEAN
    BY <1>3 DEF Navigate, DoesSomethingElse
  <2>2. settings_selection \in SettingsTargetClose .. SettingsTargetWifi
    BY DEF RequestInv
  <2>3. CASE command = "back"
    <3>1. \/ MoveTo(views \ {"wifi"}, active_system, game_position,
                    settings_selection, "other")
          \/ MoveTo(views \ {View}, active_system, game_position,
                    settings_selection, "none")
      BY <1>3, <2>3 DEF Navigate, ChangeView
    <3> QED
      BY <1>1, <2>1, <2>2, <3>1, MoveKeeps, PositionMoves DEF DrawnInv
  <2>4. CASE command = "settings"
    <3>1. SettingsTargetVolumeDown \in SettingsTargetClose .. SettingsTargetWifi
      BY DEF SettingsTargetClose, SettingsTargetVolumeDown, SettingsTargetWifi
    <3>2. \/ MoveTo(views \ {"settings"}, active_system, game_position,
                    settings_selection, "none")
          \/ MoveTo(views \cup {"settings"}, active_system, game_position,
                    SettingsTargetVolumeDown, "none")
      BY <1>3, <2>4 DEF Navigate, ChangeView
    <3> QED
      BY <1>1, <2>1, <2>2, <3>1, <3>2, MoveKeeps, PositionMoves DEF DrawnInv
  <2>5. CASE command \in {"system_previous", "system_next"}
    <3>1. MoveTo(views, adjacent_system(command), 0, settings_selection, "none")
      BY <1>3, <2>5 DEF Navigate
    <3>2. /\ LineTypes' /\ RequestInv' /\ shown' = Picture'
          /\ active_system' = adjacent_system(command) /\ game_position' = 0
      BY <1>1, <2>1, <2>2, <3>1, MoveKeeps
    <3>3. CarouselInv'
      BY <1>2, <3>2, SystemMoves, TabsAreARing
    <3> QED
      BY <1>1, <3>2, <3>3 DEF DrawnInv
  <2>6. CASE command \in {"previous", "next"}
    <3>1. \/ MoveTo(views, active_system, game_position,
                    adjacent_setting(command), "none")
          \/ MoveTo(views, active_system, adjacent_position(command),
                    settings_selection, "none")
      BY <1>3, <2>6 DEF Navigate
    <3>2. adjacent_setting(command) \in SettingsTargetClose .. SettingsTargetWifi
      BY <2>2, RowsAreARing
    <3>3. /\ LineTypes' /\ RequestInv' /\ shown' = Picture'
          /\ active_system' = active_system
          /\ game_position' \in {game_position, adjacent_position(command)}
      BY <1>1, <2>1, <2>2, <3>1, <3>2, MoveKeeps
    <3>4. CarouselInv'
      BY <3>3, PositionMoves
    <3> QED
      BY <1>1, <3>3, <3>4 DEF DrawnInv
  <2> QED
    BY <1>3, <2>3, <2>4, <2>5, <2>6 DEF Navigate
<1>4. CASE Confirm
  <2>2. CASE "settings" \in views
    <3>1. ActivateSetting(settings_selection) /\ confirmed' \in BOOLEAN
      BY <1>4, <2>2 DEF Confirm, DoesSomethingElse
    <3> QED
      BY <1>1, <3>1, SettingKeeps DEF DrawnInv, RequestInv
  <2>3. CASE "settings" \notin views
    <3>1. shown_game_index \in Entries
      BY <1>2, ShownIsAnEntry DEF game_indices, Indices
    <3>2. CASE Games[shown_game_index].kind = "reboot"
      <4>1. RequestReboot(shown_game_index)
        BY <1>4, <2>3, <3>2 DEF Confirm
      <4> QED
        BY <1>1, <1>2, <3>1, <4>1, RebootKeeps DEF DrawnInv
    <3>3. CASE Games[shown_game_index].kind # "reboot"
      <4>1. /\ RequestGame(shown_game_index)
            /\ status' \in {status, "none"} /\ confirmed' \in BOOLEAN
        BY <1>4, <2>3, <3>3 DEF Confirm, WithoutPrompt, DoesSomethingElse
      <4> QED
        BY <1>1, <3>1, <3>3, <4>1, GameKeeps DEF DrawnInv
    <3> QED
      BY <3>2, <3>3
  <2> QED
    BY <2>2, <2>3
<1>5. CASE UNCHANGED <<views, carousel, settings_selection, lines, muted, sound,
                       arming, request, shown, history>>
  <2>1. Picture' = Picture
    BY <1>5, SamePicture
  <2>2. LineTypes'
    BY <1>1, <1>5 DEF LineTypes, lines, history
  <2>3. CarouselInv'
    BY <1>5, PositionMoves DEF carousel
  <2>4. RequestInv'
    BY <1>5 DEF RequestInv, request
  <2>5. DrawnInv'
    BY <1>1, <1>5, <2>1 DEF DrawnInv, StalePrompt, lines, arming, history
  <2> QED
    BY <2>2, <2>3, <2>4, <2>5
<1> QED
  BY <1>3, <1>4, <1>5 DEF HandleCommand

\* The number of a target is a number of what it stands for.
LEMMA TargetNumbers ==
  ASSUME StackInv, CarouselInv, NEW target \in TargetsShown
  PROVE  /\ target.kind = "game" => target.index \in Entries
         /\ target.kind = "system" => target.index \in Systems
         /\ target.kind = "setting" =>
              target.index \in SettingsTargetClose .. SettingsTargetWifi
<1>1. visible_game_indices \subseteq Entries
  BY DEF visible_game_indices, game_indices, Indices, CarouselInv
<1> QED
  BY <1>1, ViewOfStack DEF TargetsShown, StackInv, Target, MenuTargetNone

\* A tap draws what it changed or asks for a child.
LEMMA TapKeepsScreen ==
  ASSUME ScreenInv, NEW target \in TargetsShown, target # MenuTargetNone,
         ~IsReboot(target), NEW cancelled \in {status, "none"},
         Tap(target, cancelled), UNCHANGED <<shutdown, touch>>,
         confirmed' \in BOOLEAN
  PROVE  /\ LineTypes' /\ CarouselInv' /\ RequestInv'
         /\ shown' = Picture' \/ Pending'
<1> USE DEF ScreenInv
<1>1. StackInv /\ settings_selection \in SettingsTargetClose .. SettingsTargetWifi
  BY DEF IterationInv, RequestInv
<1>2. CASE target.kind = "setting"
  <2>1. ActivateSetting(target.index)
    BY <1>2 DEF Tap
  <2> QED
    BY <1>1, <1>2, <2>1, TargetNumbers, SettingKeeps
<1>3. CASE target.kind \in {"credits", "close_credits", "back", "settings"}
  <2>1. SettingsTargetVolumeDown \in SettingsTargetClose .. SettingsTargetWifi
    BY DEF SettingsTargetClose, SettingsTargetVolumeDown, SettingsTargetWifi
  <2>2. \/ MoveTo(views \ {"credits"}, active_system, game_position,
                  settings_selection, "none")
        \/ MoveTo(views \ {"wifi"}, active_system, game_position,
                  settings_selection, "other")
        \/ MoveTo(views \cup {"credits"}, active_system, game_position,
                  settings_selection, "none")
        \/ MoveTo(views \cup {"settings"}, active_system, game_position,
                  SettingsTargetVolumeDown, "none")
    BY <1>3 DEF Tap, ChangeView
  <2> QED
    BY <1>1, <2>1, <2>2, MoveKeeps, PositionMoves
<1>4. CASE target.kind \in {"save", "edit"}
  <2>1. /\ wifi_status' \in {"other", "none"} /\ status' = cancelled
        /\ UNCHANGED <<carousel, settings_selection, muted, request>>
        /\ Show /\ Cue
    BY <1>4 DEF Tap
  <2>2. LineTypes'
    BY <2>1 DEF LineTypes, Cue
  <2>3. RequestInv'
    BY <2>1 DEF RequestInv, request
  <2> QED
    BY <2>1, <2>2, <2>3, PositionMoves DEF carousel, Show
<1>5. CASE target.kind = "system"
  <2>1. MoveTo(views, target.index, 0, settings_selection, "none")
    BY <1>5 DEF Tap
  <2>2. /\ LineTypes' /\ RequestInv' /\ shown' = Picture'
        /\ active_system' = target.index /\ game_position' = 0
    BY <1>1, <2>1, MoveKeeps
  <2> QED
    BY <1>1, <1>5, <2>2, TargetNumbers, SystemMoves
<1>6. CASE target.kind \in {"previous", "next"}
  <2>1. MoveTo(views, active_system, adjacent_position(target.kind),
               settings_selection, "none")
    BY <1>6 DEF Tap
  <2>2. /\ LineTypes' /\ RequestInv' /\ shown' = Picture'
        /\ active_system' = active_system
        /\ game_position' = adjacent_position(target.kind)
    BY <1>1, <2>1, MoveKeeps
  <2> QED
    BY <2>2, PositionMoves
<1>7. CASE target.kind = "game"
  <2>1. RequestGame(target.index) /\ status' = cancelled
    BY <1>7 DEF Tap
  <2>2. target.index \in Entries /\ Games[target.index].kind # "reboot"
    BY <1>1, <1>7, TargetNumbers DEF IsReboot
  <2> QED
    BY <2>1, <2>2, GameKeeps
<1> QED
  BY <1>1, <1>2, <1>3, <1>4, <1>5, <1>6, <1>7, TargetKinds

\* A release next to every target that cancels the prompt leaves it on the
\* screen; the next thing that draws takes it away.
LEMMA ReleaseKeepsScreen ==
  ASSUME ScreenInv, Release
  PROVE  LineTypes' /\ CarouselInv' /\ RequestInv' /\ DrawnInv'
<1> USE DEF ScreenInv
<1> DEFINE cancelled == IF armed THEN WithoutPrompt ELSE status
           untouched == <<views, carousel, settings_selection, wifi_status,
                          muted, sound, request, shown>>
<1>1. pc = "reports" /\ pc' = "reports" /\ UNCHANGED <<shutdown, touch>>
  BY DEF Release
<1>2. StackInv /\ PromptInv
  BY DEF IterationInv
<1>3. PICK t \in TargetsShown :
        \/ IsReboot(t) /\ RequestReboot(t.index)
        \/ UNCHANGED <<untouched, status, arming, history>>
        \/ /\ Disarm /\ DoesSomethingElse
           /\ UNCHANGED untouched /\ status' = cancelled
        \/ /\ DoesSomethingElse /\ ~IsReboot(t) /\ t # MenuTargetNone
           /\ Tap(t, cancelled)
  BY DEF Release
<1>4. CASE IsReboot(t) /\ RequestReboot(t.index)
  <2>1. t.index \in Entries
    BY <1>2, <1>4, TargetNumbers DEF IsReboot
  <2>2. reboot_age \in Nat
    BY <1>2, DashboardAssumption DEF PromptInv, Never
  <2> QED
    BY <1>1, <1>4, <2>1, <2>2, RebootKeeps DEF DrawnInv
<1>5. CASE UNCHANGED <<untouched, status, arming, history>>
  <2>1. Picture' = Picture
    BY <1>5, SamePicture DEF lines
  <2>2. LineTypes'
    BY <1>1, <1>5 DEF LineTypes, history
  <2>3. CarouselInv'
    BY <1>5, PositionMoves DEF carousel
  <2>4. RequestInv'
    BY <1>5 DEF RequestInv, request
  <2>5. DrawnInv'
    BY <1>1, <1>5, <2>1 DEF DrawnInv, StalePrompt, Pending, arming, history, request
  <2> QED
    BY <2>2, <2>3, <2>4, <2>5
<1>6. CASE /\ Disarm /\ DoesSomethingElse
           /\ UNCHANGED untouched /\ status' = cancelled
  <2>1. cancelled \in {status, "none"}
    BY DEF WithoutPrompt
  <2>2. LineTypes'
    BY <1>1, <1>6, <2>1 DEF LineTypes, DoesSomethingElse
  <2>3. CarouselInv'
    BY <1>6, PositionMoves DEF carousel
  <2>4. RequestInv'
    BY <1>6 DEF RequestInv, request
  <2>5. DrawnInv'
    <3>1. ~armed' /\ reboot_age' = Never
      BY <1>6 DEF Disarm, DoesSomethingElse
    <3>2. CASE status' = status
      <4>1. Picture' = Picture
        BY <1>6, <3>2, SamePicture DEF lines
      <4> QED
        BY <1>1, <1>6, <3>1, <3>2, <4>1
           DEF DrawnInv, StalePrompt, Pending, request
    <3>3. CASE status' # status
      <4>1. armed /\ status = "confirm" /\ status' = "none" /\ views = {}
        BY <1>2, <1>6, <3>3 DEF WithoutPrompt, PromptInv, ArmedIsOnDashboard
      <4>2. View = "dashboard" /\ View' = "dashboard"
        BY <1>6, <4>1 DEF View
      <4>3. [Picture' EXCEPT !.status = "confirm"] = Picture
        BY <1>6, <4>1, <4>2 DEF Picture, carousel
      <4>4. shown' = shown /\ (Pending => Pending')
        BY <1>6 DEF Pending, request
      <4>5. ~StalePrompt
        BY <4>1 DEF StalePrompt
      <4> QED
        BY <1>1, <3>1, <4>1, <4>3, <4>4, <4>5 DEF DrawnInv, StalePrompt
    <3> QED
      BY <3>2, <3>3
  <2> QED
    BY <2>2, <2>3, <2>4, <2>5
<1>7. CASE /\ DoesSomethingElse /\ ~IsReboot(t) /\ t # MenuTargetNone
           /\ Tap(t, cancelled)
  <2>1. cancelled \in {status, "none"} /\ confirmed' \in BOOLEAN
    BY <1>7 DEF WithoutPrompt, DoesSomethingElse
  <2> QED
    BY <1>1, <1>7, <2>1, TapKeepsScreen DEF DrawnInv
<1> QED
  BY <1>3, <1>4, <1>5, <1>6, <1>7

\* Every step of the loop and of its environment keeps the invariant.
LEMMA ScreenInvNext == ScreenInv /\ [Next]_vars => ScreenInv'
<1> SUFFICES ASSUME ScreenInv, [Next]_vars
             PROVE  ScreenInv'
  OBVIOUS
<1>1. IterationInv'
  BY IterationInvNext DEF ScreenInv
<1>2. LineTypes' /\ CarouselInv' /\ RequestInv' /\ DrawnInv'
  BY QuietKeepsScreen, CommandKeepsScreen, ReleaseKeepsScreen DEF Next, Loop
<1> QED
  BY <1>1, <1>2 DEF ScreenInv

\* ScreenInv is an invariant of the main loop.
THEOREM ScreenInvariant == Spec => []ScreenInv
  BY ScreenInvInit, ScreenInvNext, PTL DEF Spec

\* The loop's bookkeeping fits together: what is launched is what the selected
\* entry is, and every number stands for an entry, a system or a row.
THEOREM LoopIsConsistent == Spec => []LoopInv
<1>1. ASSUME ScreenInv
      PROVE  LoopInv
  <2> USE <1>1 DEF ScreenInv, IterationInv
  <2>1. TypeOK
    <3>1. game_position \in 0 .. Len(Games) - 1
      <4>1. Indices[active_system] \subseteq Entries
        BY DEF Indices, CarouselInv
      <4>2. Len(Games) \in Nat /\ IsFiniteSet(Entries)
        BY CatalogIsFinite
      <4>3. Cardinality(Entries) = Len(Games)
        BY <4>2, FS_Interval DEF Entries
      <4>4. game_count \in Nat /\ game_count <= Len(Games)
        BY <4>1, <4>2, <4>3, FS_Subset, FS_CardinalityType
           DEF game_count, game_indices
      <4> QED
        BY <4>2, <4>4 DEF CarouselInv
    <3>2. command \in Commands
      BY DEF StackInv, CommandsOf, Commands
    <3> QED
      BY <3>1, <3>2 DEF TypeOK, LoopTypes, LineTypes, StackInv, PromptInv,
         CarouselInv, RequestInv
  <2>2. ArmedIsOnDashboard /\ PressedTargetIsShown
    BY DEF PromptInv, PressInv
  <2>3. OnlyGamesAreEmulated
    BY DEF OnlyGamesAreEmulated, DrawnInv, Pending, RequestInv
  <2> QED
    BY <2>1, <2>2, <2>3 DEF LoopInv
<1> QED
  BY <1>1, ScreenInvariant, PTL

\* When the loop waits for input the screen shows the state the input will be
\* applied to, but for the prompt that a release beside it has cancelled.
THEOREM ScreenIsDrawn == Spec => []ScreenIsCurrent
<1>1. ScreenInv => ScreenIsCurrent
  BY DEF ScreenInv, DrawnInv, StalePrompt, ScreenIsCurrent
<1> QED
  BY <1>1, ScreenInvariant, PTL
=============================================================================
