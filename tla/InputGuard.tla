---------------------------- MODULE InputGuard ----------------------------
(***************************************************************************)
(* MenuControllerInputGuard: the dashboard's defence against a chattering  *)
(* USB controller.  Edges are accepted until more than BurstLimit of them  *)
(* fall inside one BurstWindow; input is then suspended until a full       *)
(* QuietReset passes without any edge at all.  The guard is driven by the  *)
(* main loop of application_main: recover_if_quiet runs at the top of an   *)
(* iteration, accept_edge after the poll that follows it.                  *)
(*                                                                         *)
(* accepted and prev are history variables: the times of the accepted      *)
(* edges, and the last edge with the verdict it got.                       *)
(***************************************************************************)
EXTENDS Integers, Sequences

CONSTANTS
  BurstLimit,   \* kMenuControllerBurstLimit
  BurstWindow,  \* kMenuControllerBurstWindowMs
  QuietReset,   \* kMenuControllerQuietResetMs
  MaxTime,      \* bound: the clock stops here
  MaxEdges      \* bound: accepted edges recorded

\* QuietReset >= BurstWindow is what the code's two constants satisfy, and what
\* makes it sound to forget every edge time on recovery.
ASSUME GuardAssumption ==
  /\ BurstLimit \in Nat /\ BurstWindow \in Nat /\ QuietReset \in Nat
  /\ QuietReset >= BurstWindow
  /\ MaxTime \in Nat /\ MaxEdges \in Nat

VARIABLES
  pc,           \* "top" of the loop, or in the "poll" that follows
  now,          \* monotonic_ms
  suspended,    \* suspended_
  last_edge_at, \* last_edge_at_, -1 when none
  edge_times,   \* edge_times_
  accepted,     \* history: times of accepted edges
  prev          \* history: the last edge and its verdict

vars == <<pc, now, suspended, last_edge_at, edge_times, accepted, prev>>

Init ==
  /\ pc = "top"
  /\ now = 0
  /\ suspended = FALSE
  /\ last_edge_at = -1
  /\ edge_times = <<>>
  /\ accepted = <<>>
  /\ prev = [at |-> 0, ok |-> TRUE]

\* Plausible bugs, for the mutation runs.
ExpiredPrefixInclusive(k) ==
  /\ \A j \in 1..k : now - edge_times[j] >= BurstWindow - 1
  /\ k < Len(edge_times) => now - edge_times[k + 1] < BurstWindow - 1

EdgeForgotten ==
  /\ pc = "poll"
  /\ suspended
  /\ pc' = "top"
  /\ prev' = [at |-> now, ok |-> FALSE]
  /\ UNCHANGED <<now, suspended, edge_times, accepted, last_edge_at>>
-----------------------------------------------------------------------------
\* recover_if_quiet at the top of a loop iteration.
RecoverIfQuiet ==
  /\ pc = "top"
  /\ pc' = "poll"
  /\ IF suspended /\ last_edge_at >= 0 /\ now - last_edge_at >= QuietReset
       THEN /\ edge_times' = <<>>
            /\ suspended' = FALSE
            /\ last_edge_at' = -1
       ELSE UNCHANGED <<edge_times, suspended, last_edge_at>>
  /\ UNCHANGED <<now, accepted, prev>>

\* k leading edge times have left the window and are erased.
ExpiredPrefix(k) ==
  /\ \A j \in 1..k : now - edge_times[j] >= BurstWindow
  /\ k < Len(edge_times) => now - edge_times[k + 1] < BurstWindow

\* accept_edge on a guard already suspended: the edge restarts the quiet period.
EdgeWhileSuspended ==
  /\ pc = "poll"
  /\ suspended
  /\ pc' = "top"
  /\ last_edge_at' = now
  /\ prev' = [at |-> now, ok |-> FALSE]
  /\ UNCHANGED <<now, suspended, edge_times, accepted>>

\* accept_edge otherwise: erase what left the window, count this edge, and
\* suspend when it is one too many.
AcceptEdge ==
  /\ pc = "poll"
  /\ ~suspended
  /\ Len(accepted) < MaxEdges
  /\ pc' = "top"
  /\ last_edge_at' = now
  /\ \E k \in 0..Len(edge_times) :
       /\ ExpiredPrefix(k)
       /\ edge_times' = Append(SubSeq(edge_times, k + 1, Len(edge_times)), now)
  /\ IF Len(edge_times') <= BurstLimit
       THEN /\ suspended' = FALSE
            /\ accepted' = Append(accepted, now)
            /\ prev' = [at |-> now, ok |-> TRUE]
       ELSE /\ suspended' = TRUE
            /\ accepted' = accepted
            /\ prev' = [at |-> now, ok |-> FALSE]
  /\ UNCHANGED now

\* The poll timed out, or reported no controller edge.
NoEdge ==
  /\ pc = "poll"
  /\ pc' = "top"
  /\ UNCHANGED <<now, suspended, last_edge_at, edge_times, accepted, prev>>

Tick ==
  /\ now < MaxTime
  /\ now' = now + 1
  /\ UNCHANGED <<pc, suspended, last_edge_at, edge_times, accepted, prev>>

Next == RecoverIfQuiet \/ EdgeWhileSuspended \/ AcceptEdge \/ NoEdge \/ Tick

Spec == Init /\ [][Next]_vars

-----------------------------------------------------------------------------
\* The guard's variables have the types the class declares; edge_times_ never
\* outgrows the burst limit by more than the edge that suspends.
TypeOK ==
  /\ pc \in {"top", "poll"}
  /\ now \in Nat
  /\ suspended \in BOOLEAN
  /\ last_edge_at \in Nat \cup {-1}
  /\ edge_times \in Seq(Nat)
  /\ Len(edge_times) <= BurstLimit + 1
  /\ accepted \in Seq(Nat)
  /\ prev \in [at : Nat, ok : BOOLEAN]

\* No burst gets through: any BurstLimit + 1 accepted edges in a row span at
\* least BurstWindow, across any number of suspensions and recoveries
\* (accept_edge, recover_if_quiet).
BurstBound ==
  \A i \in 1..Len(accepted) :
    i + BurstLimit <= Len(accepted) =>
      accepted[i + BurstLimit] - accepted[i] >= BurstWindow

\* After a rejected edge the next accepted one comes only when QuietReset has
\* passed with no edge of any kind (accept_edge restarts the quiet period even
\* for the edges it rejects).
QuietBeforeResume ==
  [][accepted' # accepted /\ ~prev.ok => now - prev.at >= QuietReset]_vars
=============================================================================
