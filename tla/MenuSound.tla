----------------------------- MODULE MenuSound -----------------------------
(***************************************************************************)
(* MenuSoundPlayer: a cue is played by a forked worker that opens the      *)
(* sound device, writes the tones, waits for them and exits.  The          *)
(* dashboard reaps it without waiting, except before a program that needs  *)
(* the device and after muting.  What the tones are is left out; the time  *)
(* is that of whoever uses the module.                                     *)
(***************************************************************************)
EXTENDS Integers

CONSTANTS
  Workers,   \* bound: process numbers, 0 stands for none
  CueTime    \* chiptune_duration_ms of a cue and kMenuSoundInputTailMs

ASSUME SoundAssumption == Workers \subseteq Nat \ {0} /\ CueTime \in Nat

VARIABLES
  child_pid,        \* child_pid_
  quarantine_until, \* input_quarantine_until_
  worker            \* of each process: "none", "born" until it has the default
                    \* signal actions, "opening", "playing" or "exited"

sound == <<child_pid, quarantine_until, worker>>

SoundInit ==
  /\ child_pid = 0
  /\ quarantine_until = 0
  /\ worker = [p \in Workers |-> "none"]

\* The worker: opening or configuring the device, rendering and writing may
\* fail; the device may keep it waiting, but not for ever.
WorkerStep ==
  \E p \in Workers :
    /\ worker[p] \in {"born", "opening", "playing"}
    /\ worker' = [worker EXCEPT ![p] =
         CASE @ = "born" -> "opening"
           [] @ = "opening" -> "playing"
           [] @ = "playing" -> "exited"]
    /\ UNCHANGED <<child_pid, quarantine_until>>

WorkerFails ==
  \E p \in Workers :
    /\ worker[p] \in {"opening", "playing"}
    /\ worker' = [worker EXCEPT ![p] = "exited"]
    /\ UNCHANGED <<child_pid, quarantine_until>>

\* reap_finished.
HasExited == child_pid # 0 /\ worker[child_pid] = "exited"
Reaped ==
  [pid |-> IF HasExited THEN 0 ELSE child_pid,
   worker |-> IF HasExited THEN [worker EXCEPT ![child_pid] = "none"] ELSE worker]
Reap ==
  /\ child_pid' = Reaped.pid
  /\ worker' = Reaped.worker
  /\ UNCHANGED quarantine_until

\* play: a cue that still plays goes on, and the new one is not heard; the
\* worker may fail to start.
Play(now) ==
  \/ Reap
  \/ /\ Reaped.pid = 0
     /\ \E p \in Workers :
          /\ Reaped.worker[p] = "none"
          /\ child_pid' = p
          /\ worker' = [Reaped.worker EXCEPT ![p] = "born"]
     /\ quarantine_until' = now + CueTime

\* quarantines_input and menu_sound_blocks_input: not the keyboard's.
Quarantines(now) == child_pid # 0 \/ quarantine_until > now

\* stop: the signal, which a worker that was only just born does not heed.
Signal ==
  /\ worker' = IF child_pid # 0 /\ worker[child_pid] \in {"opening", "playing"}
               THEN [worker EXCEPT ![child_pid] = "exited"] ELSE worker
  /\ UNCHANGED <<child_pid, quarantine_until>>

\* The end of stop and of finish: waitpid, without limit, an interruption by a
\* signal being no reason to return.
Awaited ==
  /\ child_pid = 0 \/ HasExited
  /\ child_pid' = 0
  /\ worker' = Reaped.worker
  /\ quarantine_until' = 0

\* There is one worker at most, and it is the one the player knows of: none is
\* left behind as a zombie or playing on unnoticed.
NoWorkerIsForgotten == \A p \in Workers : worker[p] # "none" => child_pid = p
=============================================================================
