-------------------------- MODULE MenuInputProofs --------------------------
(***************************************************************************)
(* The dashboard's input, for any devices, buffers and batches.            *)
(*                                                                         *)
(* First the burst guard, for every limit, window and quiet period with    *)
(* QuietReset >= BurstWindow and for runs of any length.  BurstBound alone *)
(* is not inductive: it says nothing of edge_times_, from which the guard  *)
(* decides.  GuardInv adds that, while the guard is open, edge_times_ is   *)
(* exactly the tail of the accepted edges whose earlier part has left the  *)
(* window, and that while it is suspended every accepted edge is no later  *)
(* than the last edge seen.  The menu's loop drives the guard as its own   *)
(* specification does, so what is proved of the guard holds in the loop.   *)
(***************************************************************************)
EXTENDS MenuInput, Lemmas, TLAPS

\* Accepted edges and the last one seen lie in the past.
PastInv ==
  /\ \A i \in 1..Len(accepted) : accepted[i] <= now
  /\ prev.at <= now
  /\ last_edge_at <= now

\* While the guard is open, edge_times_ is the tail of the accepted edges and
\* what precedes it has left the window.
TailInv ==
  ~suspended =>
    /\ Len(edge_times) <= BurstLimit
    /\ Len(edge_times) <= Len(accepted)
    /\ \A j \in 1..Len(edge_times) :
         edge_times[j] = accepted[Len(accepted) - Len(edge_times) + j]
    /\ \A i \in 1..(Len(accepted) - Len(edge_times)) :
         now - accepted[i] >= BurstWindow

\* While it is suspended, the last edge is the one to wait out.
SuspendedInv ==
  suspended =>
    /\ last_edge_at = prev.at
    /\ ~prev.ok
    /\ \A i \in 1..Len(accepted) : accepted[i] <= last_edge_at

\* An open guard whose last edge was rejected has waited out the quiet period.
ResumedInv == ~suspended /\ ~prev.ok => now - prev.at >= QuietReset

GuardInv ==
  TypeOK /\ PastInv /\ TailInv /\ SuspendedInv /\ ResumedInv /\ BurstBound

\* The invariant holds of a freshly constructed MenuControllerInputGuard.
LEMMA GuardInvInit == Init => GuardInv
<1> SUFFICES ASSUME Init
             PROVE  GuardInv
  OBVIOUS
<1> USE GuardAssumption DEF Init
<1>1. TypeOK
  <2>1. last_edge_at \in Nat \cup {-1}
    OBVIOUS
  <2>2. /\ edge_times \in Seq(Nat) /\ accepted \in Seq(Nat)
        /\ Len(edge_times) <= BurstLimit + 1
    OBVIOUS
  <2>3. prev \in [at : Nat, ok : BOOLEAN]
    OBVIOUS
  <2> QED
    BY <2>1, <2>2, <2>3 DEF TypeOK
<1>2. PastInv
  BY DEF PastInv
<1>3. TailInv
  BY DEF TailInv
<1>4. SuspendedInv /\ ResumedInv
  BY DEF SuspendedInv, ResumedInv
<1>5. BurstBound
  BY DEF BurstBound
<1> QED
  BY <1>1, <1>2, <1>3, <1>4, <1>5 DEF GuardInv

\* Erasing the expired prefix leaves a shorter sequence of the same entries.
LEMMA SurvivorsAfterErase ==
  ASSUME NEW s \in Seq(Nat), NEW k \in 0..Len(s), NEW t \in Nat,
         NEW r, r = Append(SubSeq(s, k + 1, Len(s)), t)
  PROVE  /\ r \in Seq(Nat)
         /\ Len(r) = Len(s) - k + 1
         /\ \A j \in 1..(Len(s) - k) : r[j] = s[k + j]
         /\ r[Len(s) - k + 1] = t
  OBVIOUS

\* The invariant is preserved by recover_if_quiet: a quiet period at least as
\* long as the window has put every accepted edge outside it.
LEMMA RecoverKeepsInv == GuardInv /\ RecoverIfQuiet => GuardInv'
<1> SUFFICES ASSUME GuardInv, RecoverIfQuiet
             PROVE  GuardInv'
  OBVIOUS
<1> USE GuardAssumption DEF RecoverIfQuiet
<1>1. TypeOK'
  <2>1. CASE UNCHANGED <<edge_times, suspended, last_edge_at>>
    BY <2>1 DEF GuardInv, TypeOK
  <2>2. CASE ~UNCHANGED <<edge_times, suspended, last_edge_at>>
    <3>1. edge_times' = <<>> /\ suspended' = FALSE /\ last_edge_at' = -1
      BY <2>2
    <3>2. edge_times' \in Seq(Nat) /\ Len(edge_times') <= BurstLimit + 1
      BY <3>1
    <3> QED
      BY <3>1, <3>2 DEF GuardInv, TypeOK
  <2> QED
    BY <2>1, <2>2
<1>2. PastInv'
  BY DEF GuardInv, TypeOK, PastInv
<1>3. TailInv'
  <2>1. CASE edge_times' = edge_times /\ suspended' = suspended
    BY <2>1 DEF GuardInv, TailInv
  <2>2. CASE ~(edge_times' = edge_times /\ suspended' = suspended)
    <3>1. /\ edge_times' = <<>> /\ Len(edge_times') = 0
          /\ suspended /\ now' = now /\ accepted' = accepted
          /\ now - last_edge_at >= QuietReset
      BY <2>2
    <3>2. accepted \in Seq(Nat) /\ now \in Nat /\ last_edge_at \in Int
      BY DEF GuardInv, TypeOK
    <3>3. \A i \in 1..Len(accepted) : now - accepted[i] >= BurstWindow
      BY <3>1, <3>2 DEF GuardInv, SuspendedInv
    <3> QED
      BY <3>1, <3>2, <3>3 DEF TailInv
  <2> QED
    BY <2>1, <2>2
<1>4. SuspendedInv'
  BY DEF GuardInv, SuspendedInv
<1>5. ResumedInv'
  BY DEF GuardInv, SuspendedInv, ResumedInv
<1>6. BurstBound'
  BY DEF GuardInv, BurstBound
<1> QED
  BY <1>1, <1>2, <1>3, <1>4, <1>5, <1>6 DEF GuardInv

\* The invariant is preserved when accept_edge rejects on a suspended guard.
LEMMA SuspendedEdgeKeepsInv == GuardInv /\ EdgeWhileSuspended => GuardInv'
  BY GuardAssumption
  DEF EdgeWhileSuspended, GuardInv, TypeOK, PastInv, TailInv, SuspendedInv,
      ResumedInv, BurstBound

\* The invariant is preserved when accept_edge counts an edge.
LEMMA AcceptEdgeKeepsInv == GuardInv /\ AcceptEdge => GuardInv'
<1> SUFFICES ASSUME GuardInv, AcceptEdge
             PROVE  GuardInv'
  OBVIOUS
<1> USE GuardAssumption
<1>1. PICK k \in 0..Len(edge_times) :
        /\ ExpiredPrefix(k)
        /\ edge_times' = Append(SubSeq(edge_times, k + 1, Len(edge_times)), now)
  BY DEF AcceptEdge
<1>2. /\ edge_times \in Seq(Nat) /\ accepted \in Seq(Nat) /\ now \in Nat
      /\ ~suspended /\ now' = now /\ last_edge_at' = now /\ pc' = "top"
  BY DEF AcceptEdge, GuardInv, TypeOK
<1>3. /\ edge_times' \in Seq(Nat)
      /\ Len(edge_times') = Len(edge_times) - k + 1
      /\ \A j \in 1..(Len(edge_times) - k) : edge_times'[j] = edge_times[k + j]
      /\ edge_times'[Len(edge_times) - k + 1] = now
  BY <1>1, <1>2, SurvivorsAfterErase
<1>4. Len(edge_times') \in Nat /\ Len(accepted) \in Nat
  BY <1>2, <1>3
<1>5. \A i \in 1..(Len(accepted) - (Len(edge_times) - k)) :
        now - accepted[i] >= BurstWindow
  <2> SUFFICES ASSUME NEW i \in 1..(Len(accepted) - (Len(edge_times) - k)),
                      i > Len(accepted) - Len(edge_times)
               PROVE  now - accepted[i] >= BurstWindow
    BY <1>2 DEF GuardInv, TailInv
  <2> DEFINE j == i - (Len(accepted) - Len(edge_times))
  <2>1. j \in 1..k /\ j \in 1..Len(edge_times)
    BY <1>2, <1>4
  <2>2. edge_times[j] = accepted[i]
    BY <2>1, <1>2, <1>4 DEF GuardInv, TailInv
  <2> QED
    BY <2>1, <2>2, <1>1 DEF ExpiredPrefix
<1>6. CASE Len(edge_times') <= BurstLimit
  <2>1. /\ accepted' = Append(accepted, now) /\ suspended' = FALSE
        /\ prev' = [at |-> now, ok |-> TRUE]
    BY <1>6 DEF AcceptEdge
  <2>2. /\ Len(accepted') = Len(accepted) + 1
        /\ accepted' \in Seq(Nat)
        /\ accepted'[Len(accepted) + 1] = now
        /\ \A i \in 1..Len(accepted) : accepted'[i] = accepted[i]
    BY <2>1, <1>2
  <2>3. TypeOK'
    <3>1. Len(edge_times') <= BurstLimit + 1
      BY <1>4, <1>6
    <3>2. prev' \in [at : Nat, ok : BOOLEAN]
      BY <2>1, <1>2
    <3> QED
      BY <3>1, <3>2, <2>1, <2>2, <1>2, <1>3 DEF TypeOK
  <2>4. PastInv'
    BY <2>1, <2>2, <1>2 DEF PastInv, GuardInv
  <2>5. \A j \in 1..Len(edge_times') :
          edge_times'[j] = accepted'[Len(accepted') - Len(edge_times') + j]
    <3> SUFFICES ASSUME NEW j \in 1..Len(edge_times')
                 PROVE  edge_times'[j]
                          = accepted'[Len(accepted') - Len(edge_times') + j]
      OBVIOUS
    <3>1. Len(edge_times) <= Len(accepted) /\ Len(edge_times) \in Nat
      BY <1>2 DEF GuardInv, TailInv
    <3>2. CASE j = Len(edge_times')
      BY <3>2, <1>3, <1>4, <2>2
    <3>3. CASE j < Len(edge_times')
      <4> DEFINE m == k + j
      <4>1. m \in 1..Len(edge_times)
        BY <3>1, <3>3, <1>3, <1>4
      <4>2. edge_times[m] = accepted[Len(accepted) - Len(edge_times) + m]
        BY <4>1, <1>2 DEF GuardInv, TailInv
      <4>3. /\ Len(accepted) - Len(edge_times) + m \in 1..Len(accepted)
            /\ Len(accepted') - Len(edge_times') + j
                 = Len(accepted) - Len(edge_times) + m
        BY <4>1, <3>1, <1>3, <1>4, <2>2
      <4>4. edge_times'[j] = edge_times[m]
        BY <4>1, <3>3, <1>3, <1>4, SMTT(30)
      <4> QED
        BY <4>2, <4>3, <4>4, <2>2
    <3> QED
      BY <3>2, <3>3, <1>4
  <2>6. TailInv'
    <3>1. Len(edge_times') <= Len(accepted')
      BY <1>2, <1>3, <2>2 DEF GuardInv, TailInv
    <3>2. \A i \in 1..(Len(accepted') - Len(edge_times')) :
            now' - accepted'[i] >= BurstWindow
      <4> SUFFICES ASSUME NEW i \in 1..(Len(accepted') - Len(edge_times'))
                   PROVE  now - accepted'[i] >= BurstWindow
        BY <1>2
      <4>1. /\ i \in 1..Len(accepted)
            /\ i \in 1..(Len(accepted) - (Len(edge_times) - k))
        BY <1>2, <1>3, <1>4, <2>1, <2>2, <3>1, SMTT(30)
      <4> QED
        BY <4>1, <1>5, <2>2
    <3> QED
      BY <1>6, <2>5, <3>1, <3>2 DEF TailInv
  <2>7. BurstBound'
    <3> SUFFICES ASSUME NEW i \in 1..Len(accepted'),
                        i + BurstLimit <= Len(accepted')
                 PROVE  accepted'[i + BurstLimit] - accepted'[i] >= BurstWindow
      BY DEF BurstBound
    <3>1. Len(edge_times') >= 1
      BY <1>3, <1>2
    <3>2. CASE i + BurstLimit = Len(accepted')
      <4>1. i \in 1..(Len(accepted') - Len(edge_times'))
        BY <3>2, <1>4, <1>6, <2>2
      <4>2. now - accepted'[i] >= BurstWindow
        BY <4>1, <2>1, <1>2, <2>6 DEF TailInv
      <4> QED
        BY <3>2, <4>2, <2>2
    <3>3. CASE i + BurstLimit < Len(accepted')
      <4>1. i \in 1..Len(accepted) /\ i + BurstLimit \in 1..Len(accepted)
        BY <3>3, <1>4, <2>2
      <4> QED
        BY <4>1, <2>2 DEF GuardInv, BurstBound
    <3> QED
      BY <3>2, <3>3, <1>4, <2>2
  <2> QED
    BY <2>1, <2>3, <2>4, <2>6, <2>7
    DEF GuardInv, SuspendedInv, ResumedInv
<1>7. CASE ~(Len(edge_times') <= BurstLimit)
  <2>1. /\ accepted' = accepted /\ suspended' = TRUE
        /\ prev' = [at |-> now, ok |-> FALSE]
    BY <1>7 DEF AcceptEdge
  <2>2. Len(edge_times') <= BurstLimit + 1
    BY <1>2, <1>3 DEF GuardInv, TailInv
  <2>3. TypeOK'
    <3>1. prev' \in [at : Nat, ok : BOOLEAN]
      BY <2>1, <1>2
    <3> QED
      BY <3>1, <2>1, <2>2, <1>2, <1>3 DEF TypeOK
  <2>4. PastInv'
    BY <2>1, <1>2 DEF GuardInv, PastInv
  <2>5. TailInv' /\ SuspendedInv' /\ ResumedInv'
    BY <2>1, <1>2 DEF GuardInv, PastInv, TailInv, SuspendedInv, ResumedInv
  <2>6. BurstBound'
    BY <2>1 DEF GuardInv, BurstBound
  <2> QED
    BY <2>3, <2>4, <2>5, <2>6 DEF GuardInv
<1> QED
  BY <1>6, <1>7

\* Every step of the guard's loop preserves the invariant.
LEMMA GuardInvNext == GuardInv /\ [Next]_vars => GuardInv'
<1> SUFFICES ASSUME GuardInv, [Next]_vars
             PROVE  GuardInv'
  OBVIOUS
<1>1. CASE NoEdge
  BY <1>1 DEF NoEdge, GuardInv, TypeOK, PastInv, TailInv, SuspendedInv,
              ResumedInv, BurstBound
<1>2. CASE Tick
  <2> USE <1>2, GuardAssumption DEF Tick
  <2>1. TypeOK' /\ now' = now + 1 /\ now \in Nat /\ prev.at \in Nat
    BY DEF GuardInv, TypeOK
  <2>2. accepted' = accepted /\ \A i \in 1..Len(accepted) : accepted[i] \in Nat
    BY DEF GuardInv, TypeOK
  <2>3. PastInv'
    BY <2>1, <2>2 DEF GuardInv, TypeOK, PastInv
  <2>4. TailInv'
    <3> SUFFICES ASSUME ~suspended
                 PROVE  TailInv'
      BY DEF TailInv
    <3>1. /\ Len(edge_times) \in Nat /\ Len(accepted) \in Nat
          /\ Len(edge_times) <= Len(accepted)
      BY DEF GuardInv, TypeOK, TailInv
    <3>2. ASSUME NEW i \in 1..(Len(accepted) - Len(edge_times))
          PROVE  now' - accepted[i] >= BurstWindow
      <4>1. i \in 1..Len(accepted)
        BY <3>1
      <4>2. now - accepted[i] >= BurstWindow
        BY DEF GuardInv, TailInv
      <4> QED
        BY <4>1, <4>2, <2>1, <2>2
    <3> QED
      BY <3>2 DEF GuardInv, TailInv
  <2>5. SuspendedInv'
    BY DEF GuardInv, SuspendedInv
  <2>6. ResumedInv'
    BY <2>1 DEF GuardInv, ResumedInv
  <2>7. BurstBound'
    BY DEF GuardInv, BurstBound
  <2> QED
    BY <2>1, <2>3, <2>4, <2>5, <2>6, <2>7 DEF GuardInv
<1>3. CASE UNCHANGED vars
  BY <1>3 DEF vars, GuardInv, TypeOK, PastInv, TailInv, SuspendedInv,
              ResumedInv, BurstBound
<1> QED
  BY <1>1, <1>2, <1>3, RecoverKeepsInv, SuspendedEdgeKeepsInv,
     AcceptEdgeKeepsInv DEF Next

\* GuardInv is an invariant of the guard in its loop.
THEOREM GuardInvariant == Spec => []GuardInv
  BY GuardInvInit, GuardInvNext, PTL DEF Spec

\* The members of MenuControllerInputGuard keep their types.
THEOREM GuardTypeCorrect == Spec => []TypeOK
<1>1. GuardInv => TypeOK
  BY DEF GuardInv
<1> QED
  BY <1>1, GuardInvariant, PTL

\* No burst of more than BurstLimit edges within BurstWindow is ever accepted.
THEOREM BurstsAreBounded == Spec => []BurstBound
<1>1. GuardInv => BurstBound
  BY DEF GuardInv
<1> QED
  BY <1>1, GuardInvariant, PTL

\* A suspended controller is heard again only after a full quiet period.
THEOREM ResumesAfterQuiet == Spec => QuietBeforeResume
<1> DEFINE Quiet == accepted' # accepted /\ ~prev.ok => now - prev.at >= QuietReset
<1>1. GuardInv /\ [Next]_vars => [Quiet]_vars
  <2> SUFFICES ASSUME GuardInv, Next, accepted' # accepted, ~prev.ok
               PROVE  now - prev.at >= QuietReset
    OBVIOUS
  <2>1. AcceptEdge
    BY DEF Next, RecoverIfQuiet, EdgeWhileSuspended, NoEdge, Tick
  <2> QED
    BY <2>1 DEF AcceptEdge, GuardInv, ResumedInv
<1> QED
  BY <1>1, GuardInvariant, PTL DEF Spec, QuietBeforeResume
-----------------------------------------------------------------------------
(* The guard in the menu's loop, and the cues. *)

\* Every step of the menu's loop is a step of the guard or leaves it alone.
LEMMA LoopDrivesGuard == [InputNext]_inputVars => [Next]_vars
<1> SUFFICES ASSUME [InputNext]_inputVars
             PROVE  [Next]_vars
  OBVIOUS
<1>1. CASE World
  BY <1>1, ZenonT(30) DEF World, Plug, Unplug, Change, Pass, guard, Next
<1>2. CASE Begin \/ BeginWithTouch
  BY <1>2 DEF Begin, BeginWithTouch, Next
<1>3. CASE Decide \/ Select
  BY <1>3 DEF Decide, Select, Judge, Next
<1>4. CASE Mute \/ StartGame
  BY <1>4 DEF Mute, StartGame, guard
<1>5. CASE Silent
  BY <1>5 DEF Silent, NotDue, Poll, EndGame, ForcedScan, Supervise, Read, HandleEvent,
              guard
<1>6. CASE ScanPads \/ ScanKeyboards \/ CueGoesOn
  BY <1>6 DEF ScanPads, ScanKeyboards, CueGoesOn, guard
<1>7. CASE UNCHANGED inputVars
  BY <1>7 DEF inputVars, guard
<1> QED
  BY <1>1, <1>2, <1>3, <1>4, <1>5, <1>6, <1>7 DEF InputNext, Loop

\* The menu's loop implements the guard's own specification.
THEOREM GuardRuns == InputSpec => Spec
<1>1. InputInit => Init
  BY DEF InputInit
<1> QED
  BY <1>1, LoopDrivesGuard, PTL DEF InputSpec, Spec

-----------------------------------------------------------------------------
(* What a list of reports says of a control. *)

\* What the kernel may give a reader of the device; only a key repeats.
Reports(d) ==
  {e \in [code : Controls(d), value : Int] :
     e.code # "x" => /\ e.value \in 0 .. 2
                     /\ e.value = 2 => Kind[d] = "keyboard"}

\* A report of a key that repeats says that it is down.
Level(e) == IF e.code # "x" /\ e.value = 2 THEN 1 ELSE e.value

\* Reports of one device; that some were dropped is said first or not at all.
IsStream(d, s) ==
  /\ s \in Seq(Reports(d) \union {Dropped})
  /\ \A i \in 2 .. Len(s) : s[i] \in Reports(d)

Lost(s) == s # <<>> /\ s[1] = Dropped

\* The last report of the control gives it the value; no report is of it.
Tells(s, c, v) ==
  \E i \in 1 .. Len(s) :
    /\ s[i].code = c /\ Level(s[i]) = v
    /\ \A j \in i + 1 .. Len(s) : s[j].code # c
Untold(s, c) == \A i \in 1 .. Len(s) : s[i].code # c

\* A report more at the end is the last one of its control.
LEMMA ToldByAppend ==
  ASSUME NEW T, NEW s \in Seq(T), NEW e \in T, NEW c
  PROVE  /\ e.code = c => Tells(Append(s, e), c, Level(e))
         /\ e.code # c /\ Untold(s, c) => Untold(Append(s, e), c)
         /\ Untold(Append(s, e), c) => Untold(s, c) /\ e.code # c
         /\ \A v : e.code # c /\ Tells(s, c, v) => Tells(Append(s, e), c, v)
<1>1. PICK t : t = Append(s, e)
  OBVIOUS
<1>2. /\ Len(s) \in Nat /\ Len(t) = Len(s) + 1 /\ t[Len(s) + 1] = e
      /\ \A i \in 1 .. Len(s) : t[i] = s[i]
  BY <1>1, AppendProperties, LenProperties
<1>3. ASSUME e.code = c
      PROVE  Tells(t, c, Level(e))
  <2>1. /\ Len(s) + 1 \in 1 .. Len(t)
        /\ t[Len(s) + 1].code = c /\ Level(t[Len(s) + 1]) = Level(e)
        /\ \A j \in (Len(s) + 1) + 1 .. Len(t) : t[j].code # c
    BY <1>2, <1>3
  <2> QED
    BY <2>1 DEF Tells
<1>4. /\ e.code # c /\ Untold(s, c) => Untold(t, c)
      /\ Untold(t, c) => Untold(s, c) /\ e.code # c
  BY <1>2 DEF Untold
<1>5. ASSUME NEW v, e.code # c, Tells(s, c, v)
      PROVE  Tells(t, c, v)
  <2>1. PICK i \in 1 .. Len(s) :
          /\ s[i].code = c /\ Level(s[i]) = v
          /\ \A j \in i + 1 .. Len(s) : s[j].code # c
    BY <1>5 DEF Tells
  <2>2. i \in 1 .. Len(t) /\ t[i].code = c /\ Level(t[i]) = v
    BY <1>2, <2>1
  <2>3. \A j \in i + 1 .. Len(t) : t[j].code # c
    BY <1>2, <1>5, <2>1
  <2> QED
    BY <2>2, <2>3 DEF Tells
<1> QED
  BY <1>1, <1>3, <1>4, <1>5

\* What a list says is said by its rest, or by its beginning and not its rest.
LEMMA ToldBySplit ==
  ASSUME NEW T, NEW s \in Seq(T), NEW c, NEW n \in 0 .. Len(s)
  PROVE  /\ Untold(s, c) => /\ Untold(SubSeq(s, 1, n), c)
                            /\ Untold(SubSeq(s, n + 1, Len(s)), c)
         /\ \A v : Tells(s, c, v) =>
              \/ Tells(SubSeq(s, n + 1, Len(s)), c, v)
              \/ /\ Untold(SubSeq(s, n + 1, Len(s)), c)
                 /\ Tells(SubSeq(s, 1, n), c, v)
<1>0. PICK a, b : a = SubSeq(s, 1, n) /\ b = SubSeq(s, n + 1, Len(s))
  OBVIOUS
<1>1. /\ Len(s) \in Nat /\ Len(a) = n /\ Len(b) = Len(s) - n
      /\ \A i \in 1 .. n : a[i] = s[i]
      /\ \A i \in 1 .. Len(s) - n : b[i] = s[n + i]
  BY <1>0
<1>2. Untold(s, c) => Untold(a, c) /\ Untold(b, c)
  <2> SUFFICES ASSUME Untold(s, c)
               PROVE  Untold(a, c) /\ Untold(b, c)
    OBVIOUS
  <2>1. Untold(a, c)
    BY <1>1 DEF Untold
  <2>2. ASSUME NEW i \in 1 .. Len(s) - n
        PROVE  b[i].code # c
    <3>1. n + i \in 1 .. Len(s)
      BY <1>1
    <3> QED
      BY <1>1, <3>1 DEF Untold
  <2> QED
    BY <1>1, <2>1, <2>2 DEF Untold
<1>3. ASSUME NEW v, Tells(s, c, v)
      PROVE  Tells(b, c, v) \/ (Untold(b, c) /\ Tells(a, c, v))
  <2>1. PICK i \in 1 .. Len(s) :
          /\ s[i].code = c /\ Level(s[i]) = v
          /\ \A j \in i + 1 .. Len(s) : s[j].code # c
    BY <1>3 DEF Tells
  <2>2. CASE i <= n
    <3>1. i \in 1 .. Len(a) /\ a[i].code = c /\ Level(a[i]) = v
      BY <1>1, <2>1, <2>2
    <3>2. \A j \in i + 1 .. Len(a) : a[j].code # c
      BY <1>1, <2>1, <2>2
    <3>3. ASSUME NEW j \in 1 .. Len(s) - n
          PROVE  b[j].code # c
      <4>1. n + j \in i + 1 .. Len(s)
        BY <1>1, <2>2
      <4> QED
        BY <1>1, <2>1, <4>1
    <3> QED
      BY <1>1, <3>1, <3>2, <3>3 DEF Tells, Untold
  <2>3. CASE i > n
    <3>1. /\ i - n \in 1 .. Len(b) /\ i - n \in 1 .. Len(s) - n
          /\ n + (i - n) = i
      BY <1>1, <2>3
    <3>2. b[i - n] = s[i]
      BY <1>1, <3>1
    <3>3. ASSUME NEW j \in (i - n) + 1 .. Len(b)
          PROVE  b[j].code # c
      <4>1. n + j \in i + 1 .. Len(s) /\ j \in 1 .. Len(s) - n
        BY <1>1, <2>3
      <4> QED
        BY <1>1, <2>1, <4>1
    <3> QED
      BY <2>1, <3>1, <3>2, <3>3 DEF Tells
  <2> QED
    BY <2>2, <2>3
<1> QED
  BY <1>0, <1>2, <1>3

\* What a list says is said by its rest, or by its first report alone.
LEMMA ToldByTail ==
  ASSUME NEW T, NEW s \in Seq(T), NEW c, s # <<>>
  PROVE  /\ Untold(s, c) => Untold(Tail(s), c) /\ Head(s).code # c
         /\ \A v : Tells(s, c, v) =>
              \/ Tells(Tail(s), c, v)
              \/ Untold(Tail(s), c) /\ Head(s).code = c /\ Level(Head(s)) = v
<1>1. Len(s) \in Nat \ {0} /\ 1 \in 0 .. Len(s) /\ Head(s) = s[1]
  BY EmptySeq
<1> DEFINE n == 1
<1>2. PICK a, b : a = SubSeq(s, 1, n) /\ b = SubSeq(s, n + 1, Len(s))
  OBVIOUS
<1>3. b = Tail(s)
  BY <1>2, TailIsSubSeq
<1>4. Len(a) = 1 /\ a[1] = s[1]
  BY <1>1, <1>2
<1>5. /\ Untold(s, c) => Untold(a, c) /\ Untold(b, c)
      /\ \A v : Tells(s, c, v) => Tells(b, c, v) \/ (Untold(b, c) /\ Tells(a, c, v))
  <2>1. n \in 0 .. Len(s)
    BY <1>1
  <2> HIDE DEF n
  <2> QED
    BY <1>2, <2>1, ToldBySplit
<1>6. Untold(a, c) => s[1].code # c
  BY <1>4 DEF Untold
<1>7. \A v : Tells(a, c, v) => s[1].code = c /\ Level(s[1]) = v
  BY <1>4 DEF Tells
<1> QED
  BY <1>1, <1>3, <1>5, <1>6, <1>7

\* Nothing is said by an empty list.
LEMMA ToldByNone ==
  ASSUME NEW c
  PROVE  Untold(<<>>, c) /\ \A v : ~Tells(<<>>, c, v)
  BY DEF Untold, Tells

\* A notice that reports were dropped is none of them.
LEMMA NoticeIsNoReport ==
  ASSUME NEW d \in Devices
  PROVE  /\ Dropped \notin Reports(d) /\ Dropped.code \notin Controls(d)
         /\ \A e \in Reports(d) : e.code \in Controls(d) /\ e.value \in Int
<1>1. "dropped" \notin Controls(d)
  BY InputAssumption DEF Controls
<1> QED
  BY <1>1 DEF Reports, Dropped

\* A stream with a report more, and what is left when some are taken away.
LEMMA StreamParts ==
  ASSUME NEW d \in Devices, NEW s, IsStream(d, s)
  PROVE  /\ Len(s) \in Nat /\ s \in Seq(Reports(d) \union {Dropped})
         /\ \A e \in Reports(d) :
              IsStream(d, Append(s, e)) /\ (Lost(Append(s, e)) <=> Lost(s))
         /\ \A n \in 1 .. Len(s) :
              /\ IsStream(d, SubSeq(s, 1, n))
              /\ Lost(SubSeq(s, 1, n)) <=> Lost(s)
              /\ IsStream(d, SubSeq(s, n + 1, Len(s)))
              /\ ~Lost(SubSeq(s, n + 1, Len(s)))
<1> DEFINE T == Reports(d) \union {Dropped}
<1>1. s \in Seq(T) /\ Len(s) \in Nat /\ \A i \in 2 .. Len(s) : s[i] \in Reports(d)
  BY DEF IsStream
<1>2. Dropped \notin Reports(d)
  BY NoticeIsNoReport
<1>3. ASSUME NEW e \in Reports(d)
      PROVE  IsStream(d, Append(s, e)) /\ (Lost(Append(s, e)) <=> Lost(s))
  <2>1. /\ Append(s, e) \in Seq(T) /\ Append(s, e) # <<>>
        /\ Len(Append(s, e)) = Len(s) + 1
        /\ \A i \in 1 .. Len(s) : Append(s, e)[i] = s[i]
        /\ Append(s, e)[Len(s) + 1] = e
    <3> HIDE DEF T
    <3>1. e \in T
      BY DEF T
    <3> QED
      BY <1>1, <3>1, AppendProperties
  <2>2. \A i \in 2 .. Len(s) + 1 : Append(s, e)[i] \in Reports(d)
    BY <1>1, <2>1
  <2>3. Lost(Append(s, e)) <=> Lost(s)
    BY <1>1, <1>2, <2>1 DEF Lost
  <2> QED
    BY <2>1, <2>2, <2>3 DEF IsStream
<1>4. ASSUME NEW n \in 1 .. Len(s)
      PROVE  /\ IsStream(d, SubSeq(s, 1, n))
             /\ Lost(SubSeq(s, 1, n)) <=> Lost(s)
             /\ IsStream(d, SubSeq(s, n + 1, Len(s)))
             /\ ~Lost(SubSeq(s, n + 1, Len(s)))
  <2>1. PICK a, b : a = SubSeq(s, 1, n) /\ b = SubSeq(s, n + 1, Len(s))
    OBVIOUS
  <2>2. /\ a \in Seq(T) /\ Len(a) = n /\ \A i \in 1 .. n : a[i] = s[i]
    <3> HIDE DEF T
    <3> QED
      BY <1>1, <2>1
  <2>3. /\ b \in Seq(T) /\ Len(b) = Len(s) - n
        /\ \A i \in 1 .. Len(s) - n : b[i] = s[n + i]
    <3> HIDE DEF T
    <3> QED
      BY <1>1, <2>1
  <2>4. \A i \in 1 .. Len(b) : b[i] \in Reports(d)
    <3> SUFFICES ASSUME NEW i \in 1 .. Len(s) - n
                 PROVE  b[i] \in Reports(d)
      BY <2>3
    <3>1. n + i \in 2 .. Len(s)
      BY <1>1
    <3> QED
      BY <1>1, <2>3, <3>1
  <2>5. IsStream(d, b) /\ ~Lost(b)
    <3>1. b # <<>> => 1 \in 1 .. Len(b)
      BY <1>1, <2>3, EmptySeq
    <3> QED
      BY <1>2, <2>3, <2>4, <3>1 DEF IsStream, Lost
  <2>6. IsStream(d, a) /\ (Lost(a) <=> Lost(s))
    <3>1. a # <<>> /\ s # <<>> /\ 1 \in 1 .. n
      BY <1>1, <2>2
    <3> QED
      BY <1>1, <2>2, <3>1 DEF IsStream, Lost
  <2> QED
    BY <2>1, <2>5, <2>6
<1> QED
  BY <1>1, <1>3, <1>4

\* What is left of a stream when its first report is taken away.
LEMMA StreamTail ==
  ASSUME NEW d \in Devices, NEW s, IsStream(d, s), s # <<>>
  PROVE  /\ Len(s) \in Nat /\ Len(s) >= 1 /\ Head(s) = s[1]
         /\ s \in Seq(Reports(d) \union {Dropped})
         /\ Head(s) = Dropped \/ Head(s) \in Reports(d)
         /\ IsStream(d, Tail(s)) /\ ~Lost(Tail(s))
         /\ Len(Tail(s)) = Len(s) - 1
         /\ \A i \in 1 .. Len(s) - 1 : Tail(s)[i] = s[i + 1]
<1> DEFINE T == Reports(d) \union {Dropped}
<1>1. s \in Seq(T) /\ Len(s) \in Nat
  BY DEF IsStream
<1>2. Len(s) >= 1 /\ Head(s) = s[1] /\ 1 \in 1 .. Len(s)
  BY <1>1, EmptySeq
<1>3. s[1] \in T
  <2> HIDE DEF T
  <2> QED
    BY <1>1, <1>2, ElementOfSeq
<1>4. IsStream(d, SubSeq(s, 1 + 1, Len(s))) /\ ~Lost(SubSeq(s, 1 + 1, Len(s)))
  BY <1>2, StreamParts
<1>5. Tail(s) = SubSeq(s, 1 + 1, Len(s))
  <2> HIDE DEF T
  <2> QED
    BY <1>1, TailIsSubSeq
<1>6. /\ Len(Tail(s)) = Len(s) - 1
      /\ \A i \in 1 .. Len(s) - 1 : Tail(s)[i] = s[i + 1]
  <2> HIDE DEF T
  <2> QED
    BY <1>1, HeadTailProperties
<1> QED
  BY <1>1, <1>2, <1>3, <1>4, <1>5, <1>6

-----------------------------------------------------------------------------
(* One device d and its reader r: the reports b that were read and are to  *)
(* be looked at, those the kernel keeps, q, and the controls w.            *)

Buttons == {"confirm", "back", "system previous", "system next", "settings",
            "left", "right"}
TouchReader ==
  [fd : Devices \union {None}, down : BOOLEAN, reported : BOOLEAN,
   dropping : BOOLEAN]
PadReader ==
  [fd : Devices \union {None}, path : Nat, port : Nat,
   controls : [PadKeys \union {"x"} -> Int], dropping : BOOLEAN,
   state : SUBSET Buttons]
KeyboardReader ==
  [fd : Devices \union {None}, path : Nat, port : Nat,
   controls : [Shifts \intersect Keys -> Int], dropping : BOOLEAN,
   state : SUBSET Buttons]

\* The reader is of the device's kind and has made up its mind.
IsReader(d, r) ==
  /\ r.fd = d
  /\ Kind[d] = "touch" => r \in TouchReader /\ r.down = r.reported
  /\ Kind[d] = "pad" => r \in PadReader /\ r.state = PadState(r.controls)
  /\ Kind[d] = "keyboard" => r \in KeyboardReader

\* The controls of a device have values of theirs.
IsRaw(d, w) ==
  /\ w \in [Controls(d) -> Int]
  /\ \A c \in Controls(d) :
       IF c = "x" THEN w[c] \in AxisValues \union {Middle} ELSE w[c] \in {0, 1}

\* What the reader takes the control to be.
Agrees(d, r, c, v) ==
  IF Kind[d] = "touch" THEN r.reported = (v # 0) ELSE r.controls[c] = v

\* A notice is followed by a report: what was dropped will be asked for.
Shaped(d, r, b, q, alive) ==
  /\ IsStream(d, b) /\ IsStream(d, q)
  /\ Lost(q) => Len(q) >= 2
  /\ Lost(b) => Len(b) >= 2 \/ q # <<>>
  /\ alive /\ r.dropping => b # <<>> \/ q # <<>>

\* The kernel keeps the last report of a control, or none.
Follows(d, q, w) ==
  \A c \in Controls(d) : Tells(q, c, w[c]) \/ Untold(q, c)

\* What the kernel says nothing of is told by what was read, will be asked for
\* or is known.
Settles(d, r, b, q, w) ==
  \A c \in Kept(d) : Untold(q, c) =>
    \/ Tells(b, c, w[c])
    \/ Untold(b, c) /\ (r.dropping \/ Lost(b) \/ Agrees(d, r, c, w[c]))

Reading(d, r, b, q, w, stale, alive) ==
  /\ IsReader(d, r) /\ IsRaw(d, w) /\ Shaped(d, r, b, q, alive) /\ Follows(d, q, w)
  /\ alive /\ ~stale /\ ~Lost(q) => Settles(d, r, b, q, w)

\* The controls are those the kind has.
LEMMA ControlsAre ==
  ASSUME NEW d \in Devices
  PROVE  /\ Kind[d] \in {"touch", "pad", "keyboard"}
         /\ Kind[d] = "touch" => Controls(d) = {"finger"} /\ Kept(d) = {"finger"}
         /\ Kind[d] = "pad" => /\ Controls(d) = PadKeys \union {"x"}
                               /\ Kept(d) = PadKeys \union {"x"}
         /\ Kind[d] = "keyboard" => /\ Controls(d) = Keys
                                    /\ Kept(d) = Shifts \intersect Keys
         /\ Kept(d) \subseteq Controls(d)
         /\ "x" \in Controls(d) => Kind[d] = "pad"
  BY InputAssumption DEF Controls, Kept

\* The empty stream.
LEMMA NoStream ==
  ASSUME NEW d \in Devices
  PROVE  IsStream(d, <<>>) /\ ~Lost(<<>>) /\ Len(<<>>) = 0
  BY DEF IsStream, Lost

\* A reader that knows its device and has nothing to read.
LEMMA ReadingOpened ==
  ASSUME NEW d \in Devices, NEW r, NEW w, IsReader(d, r), IsRaw(d, w),
         r.dropping = FALSE, \A c \in Kept(d) : Agrees(d, r, c, w[c]),
         NEW stale, NEW alive
  PROVE  Reading(d, r, <<>>, <<>>, w, stale, alive)
<1>1. \A c : Untold(<<>>, c)
  BY ToldByNone
<1>2. Shaped(d, r, <<>>, <<>>, alive)
  BY NoStream DEF Shaped
<1>3. Settles(d, r, <<>>, <<>>, w) /\ Follows(d, <<>>, w)
  BY <1>1 DEF Settles, Follows
<1> QED
  BY <1>2, <1>3 DEF Reading

\* A device that has read all agrees with its reader.
LEMMA ReadingIsDone ==
  ASSUME NEW d \in Devices, NEW r, NEW w, ~r.dropping, Settles(d, r, <<>>, <<>>, w)
  PROVE  \A c \in Kept(d) : Agrees(d, r, c, w[c])
<1>1. ~Lost(<<>>)
  BY NoStream
<1>2. \A c : Untold(<<>>, c) /\ \A v : ~Tells(<<>>, c, v)
  BY ToldByNone
<1> QED
  BY <1>1, <1>2 DEF Settles

\* A change that is reported: the kernel has room, or drops what it has.
LEMMA ReadingChanged ==
  ASSUME NEW d \in Devices, NEW r, NEW b, NEW q, NEW w, NEW stale, NEW alive,
         Reading(d, r, b, q, w, stale, alive),
         NEW e \in Reports(d), NEW z, IsRaw(d, z), z[e.code] = Level(e),
         \A c \in Controls(d) : c # e.code => z[c] = w[c],
         NEW q2, q2 = Append(q, e) \/ q2 = <<Dropped, e>>
  PROVE  Reading(d, r, b, q2, z, stale, alive)
<1> DEFINE T == Reports(d) \union {Dropped}
<1>1. /\ IsStream(d, q) /\ IsStream(d, b) /\ q \in Seq(T)
      /\ Dropped \notin Reports(d) /\ e \in T /\ e.code \in Controls(d)
      /\ Dropped.code \notin Controls(d)
  BY NoticeIsNoReport DEF Reading, Shaped, IsStream
<1>2. CASE q2 = Append(q, e)
  <2>1. IsStream(d, q2) /\ (Lost(q2) <=> Lost(q)) /\ Len(q2) = Len(q) + 1 /\ Len(q) \in Nat
    BY <1>1, <1>2, StreamParts, AppendProperties
  <2>2. q2 # <<>>
    BY <2>1, NoStream
  <2>3. Shaped(d, r, b, q2, alive)
    BY <1>1, <2>1, <2>2 DEF Reading, Shaped
  <2> HIDE DEF T
  <2>4. ASSUME NEW c
        PROVE  /\ e.code = c => Tells(q2, c, Level(e))
               /\ e.code # c /\ Untold(q, c) => Untold(q2, c)
               /\ Untold(q2, c) => Untold(q, c) /\ e.code # c
               /\ \A v : e.code # c /\ Tells(q, c, v) => Tells(q2, c, v)
    BY <1>1, <1>2, ToldByAppend
  <2>5. Follows(d, q2, z)
    BY <2>4 DEF Reading, Follows
  <2>6. alive /\ ~stale /\ ~Lost(q2) => Settles(d, r, b, q2, z)
    <3> SUFFICES ASSUME alive, ~stale, ~Lost(q2), NEW c \in Kept(d), Untold(q2, c)
                 PROVE  \/ Tells(b, c, z[c])
                        \/ /\ Untold(b, c)
                           /\ r.dropping \/ Lost(b) \/ Agrees(d, r, c, z[c])
      BY DEF Settles
    <3>1. Untold(q, c) /\ c # e.code /\ z[c] = w[c]
      BY <2>4, ControlsAre
    <3> QED
      BY <2>1, <3>1 DEF Reading, Settles
  <2> QED
    BY <2>3, <2>5, <2>6 DEF Reading
<1>3. CASE q2 = <<Dropped, e>>
  <2>1. /\ Len(q2) = 2 /\ q2[1] = Dropped /\ q2[2] = e /\ q2 # <<>>
        /\ IsStream(d, q2)
    BY <1>1, <1>3 DEF IsStream
  <2>2. Lost(q2)
    BY <2>1 DEF Lost
  <2>3. Shaped(d, r, b, q2, alive)
    BY <1>1, <2>1, <2>2 DEF Reading, Shaped
  <2>4. Tells(q2, e.code, z[e.code])
    BY <2>1 DEF Tells
  <2>5. \A c \in Controls(d) : c # e.code => Untold(q2, c)
    BY <1>1, <2>1 DEF Untold
  <2>6. Follows(d, q2, z)
    BY <2>4, <2>5 DEF Follows
  <2> QED
    BY <2>2, <2>3, <2>6 DEF Reading
<1> QED
  BY <1>2, <1>3

\* One read takes the first reports out of the kernel.
LEMMA ReadingRead ==
  ASSUME NEW d \in Devices, NEW r, NEW q, NEW w, NEW stale, NEW alive,
         Reading(d, r, <<>>, q, w, stale, alive), q # <<>>, NEW n \in 1 .. Len(q)
  PROVE  Reading(d, r, SubSeq(q, 1, n), SubSeq(q, n + 1, Len(q)), w, stale, alive)
<1>1. PICK a, z : a = SubSeq(q, 1, n) /\ z = SubSeq(q, n + 1, Len(q))
  OBVIOUS
<1>2. /\ IsStream(d, q) /\ q \in Seq(Reports(d) \union {Dropped}) /\ Len(q) \in Nat
      /\ Lost(q) => Len(q) >= 2
  BY StreamParts DEF Reading, Shaped
<1>3. /\ IsStream(d, a) /\ (Lost(a) <=> Lost(q)) /\ IsStream(d, z) /\ ~Lost(z)
  BY <1>1, <1>2, StreamParts
<1>4. Len(a) = n /\ Len(z) = Len(q) - n
  BY <1>1, <1>2
<1>5. Lost(a) => Len(a) >= 2 \/ z # <<>>
  BY <1>2, <1>3, <1>4, NoStream
<1>6. a # <<>>
  BY <1>4, NoStream
<1>7. Shaped(d, r, a, z, alive)
  BY <1>3, <1>5, <1>6 DEF Shaped
<1>8. ASSUME NEW c
      PROVE  /\ Untold(q, c) => Untold(a, c) /\ Untold(z, c)
             /\ \A v : Tells(q, c, v) => Tells(z, c, v) \/ (Untold(z, c) /\ Tells(a, c, v))
  <2>1. n \in 0 .. Len(q)
    BY <1>2
  <2> QED
    BY <1>1, <1>2, <2>1, ToldBySplit
<1>9. Follows(d, z, w)
  BY <1>8 DEF Reading, Follows
<1>10. ASSUME NEW c, Tells(z, c, w[c])
       PROVE  ~Untold(z, c)
  BY <1>10 DEF Tells, Untold
<1>11. alive /\ ~stale => Settles(d, r, a, z, w)
  <2> SUFFICES ASSUME alive, ~stale, NEW c \in Kept(d), Untold(z, c)
               PROVE  \/ Tells(a, c, w[c])
                      \/ /\ Untold(a, c)
                         /\ r.dropping \/ Lost(a) \/ Agrees(d, r, c, w[c])
    BY DEF Settles
  <2>1. Tells(q, c, w[c]) \/ Untold(q, c)
    BY ControlsAre DEF Reading, Follows
  <2>2. CASE Tells(q, c, w[c])
    BY <1>8, <1>10, <2>2
  <2>3. CASE Untold(q, c)
    <3>1. Lost(q) \/ Settles(d, r, <<>>, q, w)
      BY DEF Reading
    <3>2. ~Lost(<<>>) /\ \A v : ~Tells(<<>>, c, v)
      BY NoStream, ToldByNone
    <3>3. Lost(q) \/ r.dropping \/ Agrees(d, r, c, w[c])
      BY <2>3, <3>1, <3>2 DEF Settles
    <3> QED
      BY <1>3, <1>8, <2>3, <3>3
  <2> QED
    BY <2>1, <2>2, <2>3
<1> QED
  BY <1>1, <1>7, <1>9, <1>11 DEF Reading

\* The reader takes notice that reports were dropped.
LEMMA ReadingNotice ==
  ASSUME NEW d \in Devices, NEW r, NEW b, NEW q, NEW w, NEW stale, NEW alive,
         Reading(d, r, b, q, w, stale, alive), b # <<>>, Head(b) = Dropped,
         NEW r2, IsReader(d, r2), r2.dropping = TRUE
  PROVE  Reading(d, r2, Tail(b), q, w, stale, alive)
<1>1. /\ IsStream(d, b) /\ IsStream(d, q) /\ b \in Seq(Reports(d) \union {Dropped})
      /\ Len(b) >= 1 /\ Len(b) \in Nat /\ Head(b) = b[1]
      /\ IsStream(d, Tail(b)) /\ ~Lost(Tail(b)) /\ Len(Tail(b)) = Len(b) - 1
  BY StreamTail DEF Reading, Shaped
<1>2. Lost(b)
  BY <1>1 DEF Lost
<1>3. Tail(b) # <<>> \/ q # <<>>
  <2>1. Len(b) >= 2 \/ q # <<>>
    BY <1>2 DEF Reading, Shaped
  <2>2. Len(b) >= 2 => Len(Tail(b)) # 0
    BY <1>1
  <2> QED
    BY <2>1, <2>2, NoStream
<1>4. Shaped(d, r2, Tail(b), q, alive)
  BY <1>1, <1>3 DEF Reading, Shaped
<1>5. alive /\ ~stale /\ ~Lost(q) => Settles(d, r2, Tail(b), q, w)
  <2> SUFFICES ASSUME alive, ~stale, ~Lost(q), NEW c \in Kept(d), Untold(q, c)
               PROVE  Tells(Tail(b), c, w[c]) \/ Untold(Tail(b), c)
    BY DEF Settles
  <2>1. Tells(b, c, w[c]) \/ Untold(b, c)
    BY DEF Reading, Settles
  <2> QED
    BY <1>1, <2>1, ToldByTail
<1> QED
  BY <1>4, <1>5 DEF Reading

\* The reader looks at a report, or asks for the state of the device instead,
\* when the kernel may take back what it keeps.
LEMMA ReadingReport ==
  ASSUME NEW d \in Devices, NEW r, NEW b, NEW q, NEW w, NEW stale, NEW alive,
         Reading(d, r, b, q, w, stale, alive), b # <<>>, Head(b) # Dropped,
         NEW r2, IsReader(d, r2), r2.dropping = FALSE,
         NEW q2, NEW stale2,
         \/ q2 = q /\ stale2 = stale
         \/ q2 = <<>> /\ stale2 = TRUE,
         alive => \A c \in Kept(d) :
           \/ Agrees(d, r2, c, w[c])
           \/ /\ ~r.dropping
              /\ Head(b).code = c => Agrees(d, r2, c, Level(Head(b)))
              /\ Head(b).code # c /\ Agrees(d, r, c, w[c]) => Agrees(d, r2, c, w[c])
  PROVE  Reading(d, r2, Tail(b), q2, w, stale2, alive)
<1>1. /\ IsStream(d, b) /\ IsStream(d, q) /\ b \in Seq(Reports(d) \union {Dropped})
      /\ Len(b) >= 1 /\ Len(b) \in Nat /\ Head(b) = b[1]
      /\ IsStream(d, Tail(b)) /\ ~Lost(Tail(b)) /\ Len(Tail(b)) = Len(b) - 1
  BY StreamTail DEF Reading, Shaped
<1>2. ~Lost(b)
  BY <1>1 DEF Lost
<1>3. Shaped(d, r2, Tail(b), q2, alive) /\ Follows(d, q2, w)
  <2>1. IsStream(d, q2) /\ (Lost(q2) => Len(q2) >= 2)
    BY NoStream DEF Reading, Shaped
  <2>2. Follows(d, q2, w)
    BY ToldByNone DEF Reading, Follows
  <2> QED
    BY <1>1, <2>1, <2>2 DEF Shaped
<1>4. alive /\ ~stale2 /\ ~Lost(q2) => Settles(d, r2, Tail(b), q2, w)
  <2> SUFFICES ASSUME alive, ~stale2, ~Lost(q2), NEW c \in Kept(d), Untold(q2, c)
               PROVE  \/ Tells(Tail(b), c, w[c])
                      \/ Untold(Tail(b), c) /\ Agrees(d, r2, c, w[c])
    BY DEF Settles
  <2>1. q2 = q /\ ~stale /\ Settles(d, r, b, q, w)
    BY DEF Reading
  <2>2. \/ Tells(b, c, w[c])
        \/ Untold(b, c) /\ (r.dropping \/ Agrees(d, r, c, w[c]))
    BY <1>2, <2>1 DEF Settles
  <2>3. /\ Untold(b, c) => Untold(Tail(b), c) /\ Head(b).code # c
        /\ Tells(b, c, w[c]) =>
             \/ Tells(Tail(b), c, w[c])
             \/ Untold(Tail(b), c) /\ Head(b).code = c /\ Level(Head(b)) = w[c]
    BY <1>1, ToldByTail
  <2> QED
    BY <2>2, <2>3
<1> QED
  BY <1>3, <1>4 DEF Reading

-----------------------------------------------------------------------------
(* What is still to be told: f counts the presses of each control that no  *)
(* command was made of.                                                    *)

\* The reports of a control that press a button.
Counted(d, c) ==
  {e \in Reports(d) :
     /\ e.code = c
     /\ IF c = "x" THEN AxisButton(e.value) # {} ELSE e.value # 0}

\* Every report that presses is still owed; commands are not made of others.
OwesKeys(d, b, q, f) ==
  \A c \in Controls(d) :
    f[c] >= Occurrences(b, Counted(d, c)) + Occurrences(q, Counted(d, c))

\* The first report behind a notice.
First(s) == IF Lost(s) THEN 2 ELSE 1

\* A finger goes down and up by turns.
Alternates(s) == \A i \in First(s) .. Len(s) - 1 : s[i].value # s[i + 1].value

\* While a notice is on its way nothing was taken back, so what was read goes
\* on with what the kernel keeps.
Joined(r, b, q, w) ==
  (r.dropping \/ Lost(b)) /\ First(b) <= Len(b) =>
    /\ q = <<>> => b[Len(b)].value = w["finger"]
    /\ q # <<>> /\ ~Lost(q) => b[Len(b)].value # q[1].value

\* The next report is of a finger that goes down.
NextIsPress(b, q) ==
  IF First(b) <= Len(b) THEN b[First(b)].value # 0
  ELSE First(q) <= Len(q) /\ q[First(q)].value # 0

\* A finger went down between what was read and what the kernel keeps.
PressIsLost(b, q) ==
  /\ First(b) <= Len(b) /\ b[Len(b)].value = 0
  /\ Lost(q) /\ First(q) <= Len(q) /\ q[2].value = 0

\* Every report that presses is owed, but for one of a finger that was told
\* already; and so is a press that was dropped.
OwesTouch(d, r, b, q, f) ==
  f["finger"] + (IF r.reported /\ NextIsPress(b, q) THEN 1 ELSE 0) >=
    Occurrences(b, Counted(d, "finger")) + Occurrences(q, Counted(d, "finger"))
      + (IF PressIsLost(b, q) THEN 1 ELSE 0)

Owing(d, r, b, q, w, f) ==
  /\ f \in [Controls(d) -> Int]
  /\ Kind[d] # "touch" => OwesKeys(d, b, q, f)
  /\ Kind[d] = "touch" =>
       /\ Alternates(b) /\ Alternates(q) /\ Joined(r, b, q, w)
       /\ OwesTouch(d, r, b, q, f)

\* The counts of a stream.
LEMMA CountsAre ==
  ASSUME NEW d \in Devices, NEW s, IsStream(d, s), NEW c
  PROVE  /\ Occurrences(s, Counted(d, c)) \in Nat
         /\ (\E i \in 1 .. Len(s) : s[i] \in Counted(d, c))
              => Occurrences(s, Counted(d, c)) >= 1
         /\ \A e \in Reports(d) :
              Occurrences(Append(s, e), Counted(d, c)) =
                Occurrences(s, Counted(d, c))
                  + (IF e \in Counted(d, c) THEN 1 ELSE 0)
         /\ \A n \in 0 .. Len(s) :
              Occurrences(s, Counted(d, c)) =
                Occurrences(SubSeq(s, 1, n), Counted(d, c))
                  + Occurrences(SubSeq(s, n + 1, Len(s)), Counted(d, c))
         /\ s # <<>> =>
              /\ Occurrences(s, Counted(d, c)) =
                   (IF Head(s) \in Counted(d, c) THEN 1 ELSE 0)
                     + Occurrences(Tail(s), Counted(d, c))
              /\ Occurrences(Tail(s), Counted(d, c)) \in Nat
<1> DEFINE T == Reports(d) \union {Dropped}
           P == Counted(d, c)
<1>1. s \in Seq(T) /\ Dropped \in T
  BY DEF IsStream
<1> HIDE DEF P
<1>2. /\ Occurrences(s, P) \in Nat
      /\ (\E i \in 1 .. Len(s) : s[i] \in P) => Occurrences(s, P) >= 1
  <2> HIDE DEF T
  <2> QED
    BY <1>1, OccurrencesAre
<1>3. \A e \in T : Occurrences(Append(s, e), P) =
                     Occurrences(s, P) + (IF e \in P THEN 1 ELSE 0)
  <2> HIDE DEF T
  <2> QED
    BY <1>1, OccurrencesStep
<1>4. \A n \in 0 .. Len(s) :
        Occurrences(s, P) = Occurrences(SubSeq(s, 1, n), P)
                              + Occurrences(SubSeq(s, n + 1, Len(s)), P)
  <2> HIDE DEF T
  <2> QED
    BY <1>1, OccurrencesSplit
<1>5. ASSUME s # <<>>
      PROVE  /\ Occurrences(s, P) =
                  (IF Head(s) \in P THEN 1 ELSE 0) + Occurrences(Tail(s), P)
             /\ Occurrences(Tail(s), P) \in Nat
  <2> HIDE DEF T
  <2>1. Tail(s) \in Seq(T)
    BY <1>1, <1>5, HeadTailProperties
  <2> QED
    BY <1>1, <1>5, <2>1, OccurrencesStep, OccurrencesAre
<1> QED
  BY <1>2, <1>3, <1>4, <1>5 DEF P

\* Dropped reports press nothing; the counts of nothing and of one report.
LEMMA CountsOfFew ==
  ASSUME NEW d \in Devices, NEW c, NEW e \in Reports(d)
  PROVE  /\ Dropped \notin Counted(d, c)
         /\ Occurrences(<<>>, Counted(d, c)) = 0
         /\ Occurrences(<<Dropped, e>>, Counted(d, c)) =
              IF e \in Counted(d, c) THEN 1 ELSE 0
<1>1. Dropped \notin Counted(d, c)
  BY NoticeIsNoReport DEF Counted
<1>2. IsStream(d, <<Dropped>>)
  BY DEF IsStream
<1>3. /\ Occurrences(<<>>, Counted(d, c)) = 0
      /\ Occurrences(<<Dropped>>, Counted(d, c)) = 0
  BY <1>1, OccurrencesOfOne
<1>4. PICK one, two :
        one = <<Dropped>> /\ two = Append(one, e) /\ two = <<Dropped, e>>
  <2>1. PICK one : one = <<Dropped>>
    OBVIOUS
  <2>2. Dropped \in Reports(d) \union {Dropped} /\ e \in Reports(d) \union {Dropped}
    OBVIOUS
  <2>3. Append(one, e) = <<Dropped, e>>
    BY <2>1, <2>2, ListOfTwo
  <2> QED
    BY <2>1, <2>3
<1>5. Occurrences(two, Counted(d, c)) =
        Occurrences(one, Counted(d, c)) + (IF e \in Counted(d, c) THEN 1 ELSE 0)
  BY <1>2, <1>4, CountsAre
<1>6. Occurrences(one, Counted(d, c)) = 0
  BY <1>3, <1>4
<1>7. Occurrences(two, Counted(d, c)) = IF e \in Counted(d, c) THEN 1 ELSE 0
  BY <1>5, <1>6
<1> QED
  BY <1>1, <1>3, <1>4, <1>7

\* A device that was just opened owes nothing.
LEMMA OwingOpened ==
  ASSUME NEW d \in Devices, NEW r, NEW w
  PROVE  Owing(d, r, <<>>, <<>>, w, [c \in Controls(d) |-> 0])
<1> DEFINE f == [c \in Controls(d) |-> 0]
<1>1. \A c : Occurrences(<<>>, Counted(d, c)) = 0
  BY OccurrencesOfOne
<1>2. ~Lost(<<>>) /\ Len(<<>>) = 0 /\ First(<<>>) = 1
  BY NoStream DEF First
<1>3. OwesKeys(d, <<>>, <<>>, f)
  BY <1>1 DEF OwesKeys
<1>4. ASSUME Kind[d] = "touch"
      PROVE  /\ Alternates(<<>>) /\ Joined(r, <<>>, <<>>, w)
             /\ OwesTouch(d, r, <<>>, <<>>, f)
  <2>1. f["finger"] = 0
    BY <1>4, ControlsAre
  <2>2. ~NextIsPress(<<>>, <<>>) /\ ~PressIsLost(<<>>, <<>>)
    BY <1>2 DEF NextIsPress, PressIsLost
  <2> HIDE DEF f
  <2>3. OwesTouch(d, r, <<>>, <<>>, f)
    BY <1>1, <2>1, <2>2 DEF OwesTouch
  <2> QED
    BY <1>2, <2>3 DEF Alternates, Joined
<1>5. f \in [Controls(d) -> Int]
  OBVIOUS
<1> QED
  BY <1>3, <1>4, <1>5 DEF Owing

\* The reports of a touchscreen.
LEMMA TouchReports ==
  ASSUME NEW d \in Devices, Kind[d] = "touch", NEW s, IsStream(d, s)
  PROVE  /\ Len(s) \in Nat /\ First(s) \in {1, 2}
         /\ s # <<>> => 1 \in 1 .. Len(s)
         /\ \A i \in First(s) .. Len(s) :
              /\ s[i] \in Reports(d) /\ s[i].code = "finger"
              /\ s[i].value \in {0, 1} /\ Level(s[i]) = s[i].value
              /\ s[i] \in Counted(d, "finger") <=> s[i].value = 1
<1>1. /\ Len(s) \in Nat /\ s \in Seq(Reports(d) \union {Dropped})
      /\ \A i \in 2 .. Len(s) : s[i] \in Reports(d)
  BY DEF IsStream
<1>2. s # <<>> => 1 \in 1 .. Len(s)
  BY <1>1, EmptySeq
<1>3. \A i \in First(s) .. Len(s) : s[i] \in Reports(d)
  <2> SUFFICES ASSUME NEW i \in First(s) .. Len(s), ~(i >= 2)
               PROVE  s[i] \in Reports(d)
    BY <1>1 DEF First
  <2>1. i = 1 /\ ~Lost(s) /\ s # <<>>
    BY <1>1 DEF First
  <2>2. s[1] \in Reports(d) \union {Dropped}
    BY <1>1, <1>2, <2>1, ElementOfSeq
  <2> QED
    BY <2>1, <2>2 DEF Lost
<1>4. \A e \in Reports(d) :
        /\ e.code = "finger" /\ e.value \in {0, 1} /\ Level(e) = e.value
        /\ e \in Counted(d, "finger") <=> e.value = 1
  <2> SUFFICES ASSUME NEW e \in Reports(d)
               PROVE  /\ e.code = "finger" /\ e.value \in {0, 1} /\ Level(e) = e.value
                      /\ e \in Counted(d, "finger") <=> e.value = 1
    OBVIOUS
  <2>1. e.code = "finger" /\ e.value \in {0, 1}
    BY ControlsAre DEF Reports
  <2> QED
    BY <2>1 DEF Level, Counted
<1> QED
  BY <1>1, <1>2, <1>3, <1>4 DEF First

\* The last report the kernel keeps of a finger is what the finger does.
LEMMA TouchLast ==
  ASSUME NEW d \in Devices, Kind[d] = "touch", NEW s, IsStream(d, s),
         NEW w, Follows(d, s, w), First(s) <= Len(s)
  PROVE  s[Len(s)].value = w["finger"]
<1>1. /\ Len(s) \in Nat /\ Len(s) \in First(s) .. Len(s) /\ First(s) \in {1, 2}
      /\ Len(s) \in 1 .. Len(s)
      /\ s[Len(s)].code = "finger" /\ Level(s[Len(s)]) = s[Len(s)].value
  BY TouchReports
<1>2. "finger" \in Controls(d)
  BY ControlsAre
<1>3. Tells(s, "finger", w["finger"])
  BY <1>1, <1>2 DEF Follows, Untold
<1>4. PICK i \in 1 .. Len(s) :
        /\ Level(s[i]) = w["finger"]
        /\ \A j \in i + 1 .. Len(s) : s[j].code # "finger"
  BY <1>3 DEF Tells
<1>5. i = Len(s)
  BY <1>1, <1>4
<1> QED
  BY <1>1, <1>4, <1>5

\* What is owed is never less than nothing.
LEMMA OwingIsSome ==
  ASSUME NEW d \in Devices, NEW r, NEW b, NEW q, NEW w, NEW f,
         IsStream(d, b), IsStream(d, q), Owing(d, r, b, q, w, f)
  PROVE  f \in [Controls(d) -> Nat]
<1>1. f \in [Controls(d) -> Int]
  BY DEF Owing
<1>2. CASE Kind[d] # "touch"
  <2>1. ASSUME NEW c \in Controls(d)
        PROVE  f[c] \in Nat
    <3>1. f[c] >= Occurrences(b, Counted(d, c)) + Occurrences(q, Counted(d, c))
      BY <1>2 DEF Owing, OwesKeys
    <3>2. /\ Occurrences(b, Counted(d, c)) \in Nat
          /\ Occurrences(q, Counted(d, c)) \in Nat /\ f[c] \in Int
      BY <1>1, CountsAre
    <3> QED
      BY <3>1, <3>2
  <2> QED
    BY <1>1, <2>1
<1>3. CASE Kind[d] = "touch"
  <2> DEFINE P == Counted(d, "finger")
  <2>1. PICK m \in Nat, n \in Nat : m = Occurrences(b, P) /\ n = Occurrences(q, P)
    BY CountsAre
  <2>2. NextIsPress(b, q) => m + n >= 1
    <3> SUFFICES ASSUME NextIsPress(b, q)
                 PROVE  m + n >= 1
      OBVIOUS
    <3>1. CASE First(b) <= Len(b)
      <4>1. First(b) \in 1 .. Len(b) /\ b[First(b)] \in P
        BY <1>3, <3>1, TouchReports DEF NextIsPress
      <4>2. m >= 1
        BY <2>1, <4>1, CountsAre
      <4> QED
        BY <4>2
    <3>2. CASE ~(First(b) <= Len(b))
      <4>1. First(q) \in 1 .. Len(q) /\ q[First(q)] \in P
        BY <1>3, <3>2, TouchReports DEF NextIsPress
      <4>2. n >= 1
        BY <2>1, <4>1, CountsAre
      <4> QED
        BY <4>2
    <3> QED
      BY <3>1, <3>2
  <2>3. Controls(d) = {"finger"} /\ f["finger"] \in Int
    BY <1>1, <1>3, ControlsAre
  <2>4. f["finger"] \in Nat
    <3>1. f["finger"] + (IF r.reported /\ NextIsPress(b, q) THEN 1 ELSE 0)
            >= m + n + (IF PressIsLost(b, q) THEN 1 ELSE 0)
      BY <1>3, <2>1 DEF Owing, OwesTouch
    <3> QED
      BY <2>1, <2>2, <2>3, <3>1
  <2> QED
    BY <1>1, <2>3, <2>4
<1> QED
  BY <1>2, <1>3

\* A change adds a report, and a press if it is one.
LEMMA OwingChanged ==
  ASSUME NEW d \in Devices, NEW r, NEW b, NEW q, NEW w, NEW f, NEW stale, NEW alive,
         Reading(d, r, b, q, w, stale, alive), Owing(d, r, b, q, w, f),
         NEW e \in Reports(d), NEW z,
         Kind[d] = "touch" => e.value # w["finger"],
         NEW q2, q2 = Append(q, e) \/ (q2 = <<Dropped, e>> /\ Len(q) >= 2),
         NEW f2 \in [Controls(d) -> Int],
         \A c \in Controls(d) :
           f2[c] >= f[c] + (IF e \in Counted(d, c) THEN 1 ELSE 0)
  PROVE  Owing(d, r, b, q2, z, f2)
<1>1. /\ IsStream(d, b) /\ IsStream(d, q) /\ Follows(d, q, w)
      /\ Lost(q) => Len(q) >= 2
      /\ f \in [Controls(d) -> Int]
  BY DEF Reading, Shaped, Owing
<1>2. ASSUME NEW c \in Controls(d)
      PROVE  Occurrences(q2, Counted(d, c)) <=
               Occurrences(q, Counted(d, c)) + (IF e \in Counted(d, c) THEN 1 ELSE 0)
  <2>1. Occurrences(q, Counted(d, c)) \in Nat
    BY <1>1, CountsAre
  <2>2. CASE q2 = Append(q, e)
    <3>1. Occurrences(q2, Counted(d, c)) =
            Occurrences(q, Counted(d, c)) + (IF e \in Counted(d, c) THEN 1 ELSE 0)
      BY <1>1, <2>2, CountsAre
    <3> QED
      BY <2>1, <3>1
  <2>3. CASE q2 = <<Dropped, e>>
    <3>1. Occurrences(q2, Counted(d, c)) = IF e \in Counted(d, c) THEN 1 ELSE 0
      BY <2>3, CountsOfFew
    <3> QED
      BY <2>1, <3>1
  <2> QED
    BY <2>2, <2>3
<1>3. ASSUME Kind[d] # "touch"
      PROVE  OwesKeys(d, b, q2, f2)
  <2> SUFFICES ASSUME NEW c \in Controls(d)
               PROVE  f2[c] >= Occurrences(b, Counted(d, c))
                                 + Occurrences(q2, Counted(d, c))
    BY DEF OwesKeys
  <2>1. f[c] >= Occurrences(b, Counted(d, c)) + Occurrences(q, Counted(d, c))
    BY <1>3 DEF Owing, OwesKeys
  <2>2. /\ Occurrences(b, Counted(d, c)) \in Nat /\ Occurrences(q, Counted(d, c)) \in Nat
        /\ f[c] \in Int /\ f2[c] \in Int
    BY <1>1, CountsAre
  <2>3. Occurrences(q2, Counted(d, c)) \in Nat
    <3>1. CASE q2 = Append(q, e)
      BY <1>1, <3>1, StreamParts, CountsAre
    <3>2. CASE q2 = <<Dropped, e>>
      BY <3>2, CountsOfFew
    <3> QED
      BY <3>1, <3>2
  <2> QED
    BY <1>2, <2>1, <2>2, <2>3
<1>4. ASSUME Kind[d] = "touch"
      PROVE  /\ Alternates(b) /\ Alternates(q2) /\ Joined(r, b, q2, z)
             /\ OwesTouch(d, r, b, q2, f2)
  <2> DEFINE P == Counted(d, "finger")
  <2>1. /\ Alternates(b) /\ Alternates(q) /\ Joined(r, b, q, w)
        /\ OwesTouch(d, r, b, q, f)
    BY <1>4 DEF Owing
  <2>2. Controls(d) = {"finger"} /\ f["finger"] \in Int /\ f2["finger"] \in Int
    BY <1>1, <1>4, ControlsAre
  <2>3. PICK m \in Nat, n \in Nat : m = Occurrences(b, P) /\ n = Occurrences(q, P)
    BY <1>1, CountsAre
  <2>4. /\ Len(q) \in Nat /\ First(q) \in {1, 2} /\ (q # <<>> => 1 \in 1 .. Len(q))
        /\ \A i \in First(q) .. Len(q) : q[i].value \in {0, 1} /\ (q[i] \in P <=> q[i].value = 1)
    BY <1>1, <1>4, TouchReports
  <2>5. First(q) <= Len(q) => q[Len(q)].value = w["finger"]
    BY <1>1, <1>4, TouchLast
  <2>6. CASE q2 = Append(q, e)
    <3>1. /\ Len(q2) = Len(q) + 1 /\ q2[Len(q) + 1] = e
          /\ \A i \in 1 .. Len(q) : q2[i] = q[i]
          /\ Lost(q2) <=> Lost(q)
      <4>1. q \in Seq(Reports(d) \union {Dropped}) /\ e \in Reports(d) \union {Dropped}
        BY <1>1 DEF IsStream
      <4>2. /\ Len(q2) = Len(q) + 1 /\ q2[Len(q) + 1] = e
            /\ \A i \in 1 .. Len(q) : q2[i] = q[i]
        BY <2>6, <4>1, AppendProperties
      <4> QED
        BY <1>1, <2>6, <4>2, StreamParts
    <3>2. First(q2) = First(q)
      BY <3>1 DEF First
    <3>3. Alternates(q2)
      <4> SUFFICES ASSUME NEW i \in First(q) .. Len(q)
                   PROVE  q2[i].value # q2[i + 1].value
        BY <2>4, <3>1, <3>2 DEF Alternates
      <4>1. CASE i < Len(q)
        <5>1. i \in 1 .. Len(q) /\ i + 1 \in 1 .. Len(q) /\ i \in First(q) .. Len(q) - 1
          BY <2>4, <4>1
        <5> QED
          BY <2>1, <3>1, <5>1 DEF Alternates
      <4>2. CASE i = Len(q)
        <5>1. i \in 1 .. Len(q) /\ q2[i] = q[i] /\ q2[i + 1] = e
          BY <2>4, <3>1, <4>2
        <5> QED
          BY <1>4, <2>4, <2>5, <4>2, <5>1
      <4> QED
        BY <2>4, <4>1, <4>2
    <3>4. Joined(r, b, q2, z)
      <4> SUFFICES ASSUME r.dropping \/ Lost(b), First(b) <= Len(b), ~Lost(q2)
                   PROVE  q2 # <<>> /\ b[Len(b)].value # q2[1].value
        BY <2>4, <3>1, NoStream DEF Joined
      <4>1. q2 # <<>>
        BY <2>4, <3>1, NoStream
      <4>2. CASE q = <<>>
        <5>1. b[Len(b)].value = w["finger"] /\ q2[1] = e
          BY <2>1, <3>1, <4>2, NoStream DEF Joined
        <5> QED
          BY <1>4, <4>1, <5>1
      <4>3. CASE q # <<>>
        BY <2>1, <2>4, <3>1, <4>1, <4>3 DEF Joined
      <4> QED
        BY <4>2, <4>3
    <3>5. NextIsPress(b, q) => NextIsPress(b, q2)
      <4>1. First(q) <= Len(q) => First(q2) <= Len(q2) /\ q2[First(q2)] = q[First(q)]
        BY <2>4, <3>1, <3>2
      <4> QED
        BY <4>1 DEF NextIsPress
    <3>6. PressIsLost(b, q2) => PressIsLost(b, q)
      <4>1. Lost(q) => First(q) <= Len(q) /\ q2[2] = q[2]
        BY <1>1, <2>4, <3>1 DEF First
      <4> QED
        BY <3>1, <4>1 DEF PressIsLost
    <3>7. Occurrences(q2, P) = n + (IF e \in P THEN 1 ELSE 0)
      BY <1>1, <2>3, <2>6, CountsAre
    <3>8. OwesTouch(d, r, b, q2, f2)
      <4>1. f["finger"] + (IF r.reported /\ NextIsPress(b, q) THEN 1 ELSE 0) >=
              m + n + (IF PressIsLost(b, q) THEN 1 ELSE 0)
        BY <2>1, <2>3 DEF OwesTouch
      <4>2. f2["finger"] >= f["finger"] + (IF e \in P THEN 1 ELSE 0)
        BY <2>2
      <4>3. f2["finger"] + (IF r.reported /\ NextIsPress(b, q2) THEN 1 ELSE 0) >=
              m + (n + (IF e \in P THEN 1 ELSE 0)) + (IF PressIsLost(b, q2) THEN 1 ELSE 0)
        BY <2>2, <2>3, <3>5, <3>6, <4>1, <4>2, SMTT(30)
      <4> QED
        BY <2>3, <3>7, <4>3 DEF OwesTouch
    <3> QED
      BY <2>1, <3>3, <3>4, <3>8
  <2>7. CASE q2 = <<Dropped, e>> /\ Len(q) >= 2
    <3>1. /\ q2 # <<>> /\ Len(q2) = 2 /\ q2[1] = Dropped /\ q2[2] = e
          /\ Lost(q2) /\ First(q2) = 2
      BY <2>7 DEF Lost, First
    <3>2. Alternates(q2) /\ Joined(r, b, q2, z)
      BY <3>1 DEF Alternates, Joined
    <3>3. First(q) <= Len(q) /\ First(q) \in 1 .. Len(q) /\ Len(q) \in 1 .. Len(q)
      BY <2>4, <2>7
    <3>4. NextIsPress(b, q) => NextIsPress(b, q2) \/ (n >= 1 /\ ~PressIsLost(b, q2))
      <4>1. CASE First(b) <= Len(b)
        BY <4>1 DEF NextIsPress
      <4>2. CASE ~(First(b) <= Len(b))
        <5>1. NextIsPress(b, q) => q[First(q)] \in P
          BY <2>4, <3>3, <4>2 DEF NextIsPress
        <5>2. NextIsPress(b, q) => n >= 1
          BY <1>1, <2>3, <3>3, <5>1, CountsAre
        <5> QED
          BY <4>2, <5>2 DEF PressIsLost
      <4> QED
        BY <4>1, <4>2
    <3>5. PressIsLost(b, q2) => n >= 1
      <4> SUFFICES ASSUME PressIsLost(b, q2)
                   PROVE  n >= 1
        OBVIOUS
      <4>1. e.value = 0
        BY <3>1 DEF PressIsLost
      <4>2. q[Len(q)].value = 1
        BY <1>4, <2>4, <2>5, <3>3, <4>1
      <4>3. q[Len(q)] \in P
        BY <2>4, <3>3, <4>2
      <4> QED
        BY <1>1, <2>3, <3>3, <4>3, CountsAre
    <3>6. Occurrences(q2, P) = IF e \in P THEN 1 ELSE 0
      BY <2>7, CountsOfFew
    <3>7. OwesTouch(d, r, b, q2, f2)
      <4>1. f["finger"] + (IF r.reported /\ NextIsPress(b, q) THEN 1 ELSE 0) >=
              m + n + (IF PressIsLost(b, q) THEN 1 ELSE 0)
        BY <2>1, <2>3 DEF OwesTouch
      <4>2. f2["finger"] >= f["finger"] + (IF e \in P THEN 1 ELSE 0)
        BY <2>2
      <4>3. f2["finger"] + (IF r.reported /\ NextIsPress(b, q2) THEN 1 ELSE 0) >=
              m + (IF e \in P THEN 1 ELSE 0) + (IF PressIsLost(b, q2) THEN 1 ELSE 0)
        BY <2>2, <2>3, <3>4, <3>5, <4>1, <4>2, SMTT(30)
      <4> QED
        BY <2>3, <3>6, <4>3 DEF OwesTouch
    <3> QED
      BY <2>1, <3>2, <3>7
  <2> QED
    BY <2>6, <2>7
<1> QED
  BY <1>3, <1>4 DEF Owing

\* A read leaves what is owed as it is.
LEMMA OwingRead ==
  ASSUME NEW d \in Devices, NEW r, NEW q, NEW w, NEW f, NEW stale, NEW alive,
         Reading(d, r, <<>>, q, w, stale, alive), Owing(d, r, <<>>, q, w, f),
         q # <<>>, NEW n \in 1 .. Len(q)
  PROVE  Owing(d, r, SubSeq(q, 1, n), SubSeq(q, n + 1, Len(q)), w, f)
<1>1. /\ IsStream(d, q) /\ Follows(d, q, w) /\ Len(q) \in Nat
      /\ Lost(q) => Len(q) >= 2
      /\ q \in Seq(Reports(d) \union {Dropped})
      /\ f \in [Controls(d) -> Int] /\ n \in 0 .. Len(q)
  BY StreamParts DEF Reading, Shaped, Owing
<1>2. PICK a, z : a = SubSeq(q, 1, n) /\ z = SubSeq(q, n + 1, Len(q))
  OBVIOUS
<1>3. /\ IsStream(d, a) /\ (Lost(a) <=> Lost(q)) /\ IsStream(d, z) /\ ~Lost(z)
  BY <1>1, <1>2, StreamParts
<1>4. /\ Len(a) = n /\ Len(z) = Len(q) - n
      /\ \A i \in 1 .. n : a[i] = q[i]
      /\ \A i \in 1 .. Len(q) - n : z[i] = q[n + i]
  BY <1>1, <1>2
<1>5. ASSUME NEW c
      PROVE  /\ Occurrences(q, Counted(d, c)) =
                  Occurrences(a, Counted(d, c)) + Occurrences(z, Counted(d, c))
             /\ Occurrences(q, Counted(d, c)) \in Nat
             /\ Occurrences(<<>>, Counted(d, c)) = 0
  <2>1. /\ Occurrences(q, Counted(d, c)) \in Nat
        /\ Occurrences(q, Counted(d, c)) =
             Occurrences(SubSeq(q, 1, n), Counted(d, c))
               + Occurrences(SubSeq(q, n + 1, Len(q)), Counted(d, c))
    BY <1>1, CountsAre
  <2> QED
    BY <1>2, <2>1, OccurrencesOfOne
<1>6. ASSUME Kind[d] # "touch"
      PROVE  OwesKeys(d, a, z, f)
  <2> SUFFICES ASSUME NEW c \in Controls(d)
               PROVE  f[c] >= Occurrences(a, Counted(d, c))
                                + Occurrences(z, Counted(d, c))
    BY DEF OwesKeys
  <2>1. f[c] >= Occurrences(<<>>, Counted(d, c)) + Occurrences(q, Counted(d, c))
    BY <1>6 DEF Owing, OwesKeys
  <2>2. PICK k \in Nat : k = Occurrences(q, Counted(d, c))
    BY <1>5
  <2>3. f[c] >= k
    BY <1>1, <1>5, <2>1, <2>2
  <2> QED
    BY <1>5, <2>2, <2>3
<1>7. ASSUME Kind[d] = "touch"
      PROVE  Alternates(a) /\ Alternates(z) /\ Joined(r, a, z, w) /\ OwesTouch(d, r, a, z, f)
  <2> DEFINE P == Counted(d, "finger")
  <2>1. Alternates(q) /\ OwesTouch(d, r, <<>>, q, f)
    BY <1>7 DEF Owing
  <2>2. /\ First(a) = First(q) /\ First(z) = 1 /\ First(q) \in {1, 2}
        /\ First(q) <= Len(q) /\ First(<<>>) = 1 /\ Len(<<>>) = 0
    BY <1>1, <1>3, NoStream DEF First
  <2>3. Alternates(a) /\ Alternates(z)
    <3>1. Alternates(a)
      BY <1>1, <1>4, <2>1, <2>2 DEF Alternates
    <3>2. ASSUME NEW i \in 1 .. Len(z) - 1
          PROVE  z[i].value # z[i + 1].value
      <4>1. /\ n + i \in First(q) .. Len(q) - 1 /\ i \in 1 .. Len(q) - n
            /\ i + 1 \in 1 .. Len(q) - n /\ n + (i + 1) = (n + i) + 1
        BY <1>1, <1>4, <2>2
      <4> QED
        BY <1>4, <2>1, <4>1 DEF Alternates
    <3> QED
      BY <2>2, <3>1, <3>2 DEF Alternates
  <2>4. Joined(r, a, z, w)
    <3> SUFFICES ASSUME First(a) <= Len(a)
                 PROVE  /\ z = <<>> => a[Len(a)].value = w["finger"]
                        /\ z # <<>> => a[Len(a)].value # z[1].value
      BY DEF Joined
    <3>1. a[Len(a)] = q[n]
      BY <1>1, <1>4
    <3>2. z = <<>> => n = Len(q)
      BY <1>1, <1>4, NoStream
    <3>3. q[Len(q)].value = w["finger"]
      BY <1>1, <1>7, <2>2, TouchLast
    <3>4. ASSUME z # <<>>
          PROVE  a[Len(a)].value # z[1].value
      <4>1. 1 \in 1 .. Len(z)
        BY <1>3, <1>7, <3>4, TouchReports
      <4>2. z[1] = q[n + 1] /\ n \in First(q) .. Len(q) - 1
        BY <1>1, <1>4, <2>2, <4>1
      <4> QED
        BY <2>1, <3>1, <4>2 DEF Alternates
    <3> QED
      BY <3>1, <3>2, <3>3, <3>4
  <2>5. NextIsPress(<<>>, q) => NextIsPress(a, z)
    <3>1. CASE First(a) <= Len(a)
      <4>1. a[First(a)] = q[First(q)]
        BY <1>1, <1>4, <2>2, <3>1
      <4> QED
        BY <2>2, <3>1, <4>1 DEF NextIsPress
    <3>2. CASE ~(First(a) <= Len(a))
      <4>1. n = 1 /\ First(q) = 2 /\ Len(q) - n >= 1
        BY <1>1, <1>4, <2>2, <3>2
      <4>2. First(z) <= Len(z) /\ z[First(z)] = q[First(q)]
        BY <1>1, <1>4, <2>2, <4>1
      <4> QED
        BY <2>2, <3>2, <4>2 DEF NextIsPress
    <3> QED
      BY <3>1, <3>2
  <2>6. ~PressIsLost(a, z) /\ ~PressIsLost(<<>>, q)
    BY <1>3, <2>2 DEF PressIsLost
  <2>7. PICK k \in Nat : k = Occurrences(q, P)
    BY <1>5
  <2>8. f["finger"] \in Int
    BY <1>1, <1>7, ControlsAre
  <2>9. f["finger"] + (IF r.reported /\ NextIsPress(a, z) THEN 1 ELSE 0) >= k
    <3>1. f["finger"] + (IF r.reported /\ NextIsPress(<<>>, q) THEN 1 ELSE 0) >= 0 + k + 0
      BY <1>5, <2>1, <2>6, <2>7 DEF OwesTouch
    <3> QED
      BY <2>5, <2>7, <2>8, <3>1
  <2>10. k = Occurrences(a, P) + Occurrences(z, P)
    BY <1>5, <2>7
  <2>11. OwesTouch(d, r, a, z, f)
    <3>1. f["finger"] + (IF r.reported /\ NextIsPress(a, z) THEN 1 ELSE 0) >=
            (Occurrences(a, P) + Occurrences(z, P)) + 0
      BY <2>7, <2>9, <2>10
    <3> QED
      BY <2>6, <3>1 DEF OwesTouch
  <2> QED
    BY <2>3, <2>4, <2>11
<1> QED
  BY <1>1, <1>2, <1>6, <1>7 DEF Owing

\* A notice is no report, so what is owed stays owed.
LEMMA OwingNotice ==
  ASSUME NEW d \in Devices, NEW r, NEW b, NEW q, NEW w, NEW f, NEW stale, NEW alive,
         Reading(d, r, b, q, w, stale, alive), Owing(d, r, b, q, w, f),
         b # <<>>, Head(b) = Dropped,
         NEW r2, Kind[d] = "touch" => r2.reported = r.reported
  PROVE  Owing(d, r2, Tail(b), q, w, f)
<1>1. PICK t : t = Tail(b)
  OBVIOUS
<1>2. /\ IsStream(d, b) /\ Len(b) >= 1 /\ Len(b) \in Nat /\ b[1] = Dropped
      /\ IsStream(d, t) /\ ~Lost(t) /\ Len(t) = Len(b) - 1
      /\ \A i \in 1 .. Len(b) - 1 : t[i] = b[i + 1]
      /\ f \in [Controls(d) -> Int]
  <2>1. IsStream(d, b) /\ f \in [Controls(d) -> Int]
    BY DEF Reading, Shaped, Owing
  <2>2. /\ Len(b) >= 1 /\ Len(b) \in Nat /\ b[1] = Dropped
        /\ IsStream(d, t) /\ ~Lost(t) /\ Len(t) = Len(b) - 1
        /\ \A i \in 1 .. Len(b) - 1 : t[i] = b[i + 1]
    BY <1>1, <2>1, StreamTail
  <2> QED
    BY <2>1, <2>2
<1>3. Lost(b) /\ First(b) = 2 /\ First(t) = 1
  BY <1>2 DEF Lost, First
<1>4. ASSUME NEW c
      PROVE  Occurrences(t, Counted(d, c)) = Occurrences(b, Counted(d, c))
  <2>1. PICK k \in Nat : k = Occurrences(t, Counted(d, c))
    BY <1>2, CountsAre
  <2>2. Head(b) \notin Counted(d, c)
    BY NoticeIsNoReport DEF Counted
  <2>3. Occurrences(b, Counted(d, c)) =
          (IF Head(b) \in Counted(d, c) THEN 1 ELSE 0) + Occurrences(Tail(b), Counted(d, c))
    BY <1>2, CountsAre
  <2>4. Occurrences(b, Counted(d, c)) = 0 + k
    BY <1>1, <2>1, <2>2, <2>3
  <2> QED
    BY <2>1, <2>4
<1>5. Kind[d] # "touch" => OwesKeys(d, t, q, f)
  BY <1>4 DEF Owing, OwesKeys
<1>6. ASSUME Kind[d] = "touch"
      PROVE  /\ Alternates(t) /\ Alternates(q) /\ Joined(r2, t, q, w)
             /\ OwesTouch(d, r2, t, q, f)
  <2>1. /\ Alternates(b) /\ Alternates(q) /\ Joined(r, b, q, w)
        /\ OwesTouch(d, r, b, q, f)
    BY <1>6 DEF Owing
  <2>2. /\ First(t) <= Len(t) <=> First(b) <= Len(b)
        /\ First(b) <= Len(b) => t[First(t)] = b[First(b)] /\ t[Len(t)] = b[Len(b)]
    BY <1>2, <1>3
  <2>3. Alternates(t)
    <3> SUFFICES ASSUME NEW i \in 1 .. Len(t) - 1
                 PROVE  t[i].value # t[i + 1].value
      BY <1>3 DEF Alternates
    <3>1. /\ i + 1 \in First(b) .. Len(b) - 1 /\ i \in 1 .. Len(b) - 1
          /\ i + 1 \in 1 .. Len(b) - 1
      BY <1>2, <1>3
    <3> QED
      BY <1>2, <2>1, <3>1 DEF Alternates
  <2>4. Joined(r2, t, q, w)
    BY <1>3, <2>1, <2>2 DEF Joined
  <2>5. /\ NextIsPress(t, q) <=> NextIsPress(b, q)
        /\ PressIsLost(t, q) <=> PressIsLost(b, q)
    BY <2>2 DEF NextIsPress, PressIsLost
  <2>6. OwesTouch(d, r2, t, q, f)
    BY <1>4, <1>6, <2>1, <2>5 DEF OwesTouch
  <2> QED
    BY <2>1, <2>3, <2>4, <2>6
<1> QED
  BY <1>1, <1>2, <1>5, <1>6 DEF Owing

\* A report of a button or a key is told at most once, and only if it presses.
LEMMA OwingReport ==
  ASSUME NEW d \in Devices, Kind[d] # "touch",
         NEW r, NEW b, NEW q, NEW w, NEW f, NEW stale, NEW alive,
         Reading(d, r, b, q, w, stale, alive), Owing(d, r, b, q, w, f),
         b # <<>>, Head(b) # Dropped,
         NEW r2, NEW q2, q2 = q \/ q2 = <<>>,
         NEW f2 \in [Controls(d) -> Int],
         \A c \in Controls(d) :
           f2[c] >= f[c] - (IF Head(b) \in Counted(d, c) THEN 1 ELSE 0)
  PROVE  Owing(d, r2, Tail(b), q2, w, f2)
<1> SUFFICES ASSUME NEW c \in Controls(d)
             PROVE  f2[c] >= Occurrences(Tail(b), Counted(d, c))
                               + Occurrences(q2, Counted(d, c))
  BY DEF Owing, OwesKeys
<1>1. IsStream(d, b) /\ IsStream(d, q) /\ f[c] \in Int /\ f2[c] \in Int
  BY DEF Reading, Shaped, Owing
<1>2. f[c] >= Occurrences(b, Counted(d, c)) + Occurrences(q, Counted(d, c))
  BY DEF Owing, OwesKeys
<1>3. /\ Occurrences(b, Counted(d, c)) =
           (IF Head(b) \in Counted(d, c) THEN 1 ELSE 0) + Occurrences(Tail(b), Counted(d, c))
      /\ Occurrences(Tail(b), Counted(d, c)) \in Nat
      /\ Occurrences(q, Counted(d, c)) \in Nat
  BY <1>1, CountsAre
<1>4. Occurrences(q2, Counted(d, c)) \in 0 .. Occurrences(q, Counted(d, c))
  <2>1. CASE q2 = q
    BY <1>3, <2>1
  <2>2. CASE q2 = <<>>
    <3>1. Occurrences(q2, Counted(d, c)) = 0
      BY <2>2, OccurrencesOfOne
    <3> QED
      BY <1>3, <3>1
  <2> QED
    BY <2>1, <2>2
<1> QED
  BY <1>1, <1>2, <1>3, <1>4

\* A finger is told when it goes down: as it is reported, or when the device is
\* asked because reports were dropped.
LEMMA OwingFinger ==
  ASSUME NEW d \in Devices, Kind[d] = "touch",
         NEW r, NEW b, NEW q, NEW w, NEW f, NEW stale, NEW alive,
         Reading(d, r, b, q, w, stale, alive), Owing(d, r, b, q, w, f),
         b # <<>>, Head(b) # Dropped,
         NEW r2, r2.dropping = FALSE, NEW q2, NEW press \in BOOLEAN,
         NEW f2 \in [Controls(d) -> Int],
         f2["finger"] = f["finger"] - (IF press THEN 1 ELSE 0),
         \/ /\ ~r.dropping /\ q2 = q
            /\ r2.reported = (Head(b).value # 0)
            /\ press = (Head(b).value # 0 /\ ~r.reported)
         \/ /\ r.dropping /\ (q2 = q \/ (q2 = <<>> /\ q # <<>>))
            /\ r2.reported = (w["finger"] # 0)
            /\ press = (w["finger"] # 0 /\ ~r.reported)
         \/ /\ r.dropping /\ q2 = q /\ r2.reported = r.reported /\ press = FALSE
  PROVE  Owing(d, r2, Tail(b), q2, w, f2)
<1> DEFINE P == Counted(d, "finger")
<1>1. PICK t : t = Tail(b)
  OBVIOUS
<1>2. /\ IsStream(d, b) /\ IsStream(d, q)
      /\ Len(b) >= 1 /\ Len(b) \in Nat /\ b[1] = Head(b) /\ b[1] # Dropped
      /\ IsStream(d, t) /\ ~Lost(t) /\ Len(t) = Len(b) - 1
      /\ \A i \in 1 .. Len(b) - 1 : t[i] = b[i + 1]
      /\ Lost(q) => Len(q) >= 2
  <2>1. IsStream(d, b) /\ IsStream(d, q) /\ (Lost(q) => Len(q) >= 2)
    BY DEF Reading, Shaped
  <2>2. /\ Len(b) >= 1 /\ Len(b) \in Nat /\ b[1] = Head(b) /\ b[1] # Dropped
        /\ IsStream(d, t) /\ ~Lost(t) /\ Len(t) = Len(b) - 1
        /\ \A i \in 1 .. Len(b) - 1 : t[i] = b[i + 1]
    BY <1>1, <2>1, StreamTail
  <2> QED
    BY <2>1, <2>2
<1>3. ~Lost(b) /\ First(b) = 1 /\ First(t) = 1
  BY <1>2 DEF Lost, First
<1>4. /\ Alternates(b) /\ Alternates(q) /\ Joined(r, b, q, w)
      /\ OwesTouch(d, r, b, q, f) /\ f["finger"] \in Int /\ f2["finger"] \in Int
  BY ControlsAre DEF Owing
<1>5. /\ b[1].value \in {0, 1} /\ (b[1] \in P <=> b[1].value = 1)
      /\ w["finger"] \in {0, 1} /\ r.reported \in BOOLEAN
  <2>1. b[1].value \in {0, 1} /\ (b[1] \in P <=> b[1].value = 1)
    <3>1. 1 \in First(b) .. Len(b)
      BY <1>2, <1>3
    <3> QED
      BY <1>2, <3>1, TouchReports
  <2>2. w["finger"] \in {0, 1}
    BY ControlsAre DEF Reading, IsRaw
  <2>3. r.reported \in BOOLEAN
    BY DEF Reading, IsReader, TouchReader
  <2> QED
    BY <2>1, <2>2, <2>3
<1>6. Alternates(t)
  <2> SUFFICES ASSUME NEW i \in 1 .. Len(t) - 1
               PROVE  t[i].value # t[i + 1].value
    BY <1>3 DEF Alternates
  <2>1. /\ i + 1 \in First(b) .. Len(b) - 1 /\ i \in 1 .. Len(b) - 1
        /\ i + 1 \in 1 .. Len(b) - 1
    BY <1>2, <1>3
  <2> QED
    BY <1>2, <1>4, <2>1 DEF Alternates
<1>7. Alternates(q2)
  <2>1. Alternates(<<>>)
    BY NoStream DEF Alternates, First
  <2> QED
    BY <1>4, <2>1
<1>8. Joined(r2, t, q2, w)
  BY <1>2 DEF Joined
<1>9. PICK m \in Nat, n \in Nat, k \in Nat :
        /\ m = Occurrences(t, P) /\ n = Occurrences(q, P) /\ k = Occurrences(q2, P)
        /\ Occurrences(b, P) = (IF b[1] \in P THEN 1 ELSE 0) + m
        /\ q2 = q => k = n
        /\ q2 = <<>> => k = 0
  <2>1. /\ Occurrences(b, P) = (IF Head(b) \in P THEN 1 ELSE 0) + Occurrences(Tail(b), P)
        /\ Occurrences(t, P) \in Nat /\ Occurrences(q, P) \in Nat
    BY <1>2, CountsAre
  <2>2. Occurrences(<<>>, P) = 0
    BY OccurrencesOfOne
  <2> QED
    BY <1>1, <1>2, <2>1, <2>2
<1>10. f["finger"] + (IF r.reported /\ b[1].value = 1 THEN 1 ELSE 0) >=
         (IF b[1].value = 1 THEN 1 ELSE 0) + m + n + (IF PressIsLost(b, q) THEN 1 ELSE 0)
  <2>1. NextIsPress(b, q) <=> b[1].value = 1
    BY <1>2, <1>3, <1>5 DEF NextIsPress
  <2>2. f["finger"] + (IF r.reported /\ NextIsPress(b, q) THEN 1 ELSE 0) >=
          ((IF b[1] \in P THEN 1 ELSE 0) + m) + n + (IF PressIsLost(b, q) THEN 1 ELSE 0)
    BY <1>4, <1>9 DEF OwesTouch
  <2> QED
    BY <1>4, <1>5, <2>1, <2>2
<1>11. /\ PressIsLost(t, q2) => PressIsLost(b, q)
       /\ t = <<>> => ~PressIsLost(t, q2)
  <2>1. First(t) <= Len(t) => First(b) <= Len(b) /\ t[Len(t)] = b[Len(b)]
    BY <1>2, <1>3
  <2>2. ~Lost(<<>>) /\ Len(<<>>) = 0
    BY NoStream
  <2>3. q2 = q \/ ~Lost(q2)
    BY <2>2
  <2> QED
    BY <1>3, <2>1, <2>2, <2>3 DEF PressIsLost
\* Asking the device may tell a press that is reported later, or never.
<1>12. ASSUME r.dropping, w["finger"] # 0, b[1].value = 0
       PROVE  \/ t # <<>> /\ NextIsPress(t, q2)
              \/ t = <<>> /\ PressIsLost(b, q)
              \/ t = <<>> /\ NextIsPress(t, q) /\ n >= 1
  <2>1. CASE t # <<>>
    <3>1. 1 \in 1 .. Len(t)
      BY <1>2, <2>1, TouchReports
    <3>2. b[1].value # b[2].value /\ t[1] = b[2]
      BY <1>2, <1>3, <1>4, <3>1 DEF Alternates
    <3>3. t[First(t)].value # 0 /\ First(t) <= Len(t)
      BY <1>2, <1>3, <1>12, <3>1, <3>2
    <3> QED
      BY <2>1, <3>3 DEF NextIsPress
  <2>2. CASE t = <<>>
    <3>1. Len(b) = 1 /\ First(b) <= Len(b) /\ ~(First(t) <= Len(t))
      <4>1. Len(t) = 0
        BY <2>2
      <4>2. Len(b) - 1 = 0 /\ Len(b) \in Nat
        BY <1>2, <4>1
      <4>3. Len(b) = 1
        BY <4>2
      <4> QED
        BY <1>3, <4>1, <4>3
    <3>2. q # <<>>
      BY <1>4, <1>12, <3>1 DEF Joined
    <3>3. /\ Len(q) \in Nat /\ 1 \in 1 .. Len(q)
          /\ First(q) \in {1, 2}
          /\ \A i \in First(q) .. Len(q) :
               q[i].value \in {0, 1} /\ (q[i] \in P <=> q[i].value = 1)
      BY <1>2, <3>2, TouchReports
    <3>4. ASSUME First(q) <= Len(q), q[First(q)].value # 0
          PROVE  NextIsPress(t, q) /\ n >= 1
      <4>1. First(q) \in 1 .. Len(q) /\ q[First(q)] \in P
        BY <3>3, <3>4
      <4>2. n >= 1
        BY <1>2, <1>9, <4>1, CountsAre
      <4> QED
        BY <3>1, <3>4, <4>2 DEF NextIsPress
    <3>5. CASE ~Lost(q)
      <4>1. First(q) = 1 /\ First(q) <= Len(q)
        BY <3>3, <3>5 DEF First
      <4>2. b[1].value # q[1].value
        BY <1>4, <1>12, <3>1, <3>2, <3>5 DEF Joined
      <4> QED
        BY <1>12, <2>2, <3>4, <4>1, <4>2
    <3>6. CASE Lost(q)
      <4>1. First(q) = 2 /\ First(q) <= Len(q)
        BY <1>2, <3>3, <3>6 DEF First
      <4>2. q[2].value = 0 => PressIsLost(b, q)
        BY <1>12, <3>1, <3>6, <4>1 DEF PressIsLost
      <4> QED
        BY <2>2, <3>4, <4>1, <4>2
    <3> QED
      BY <3>5, <3>6
  <2> QED
    BY <2>1, <2>2
<1>13. f2["finger"] + (IF r2.reported /\ NextIsPress(t, q2) THEN 1 ELSE 0) >=
         m + k + (IF PressIsLost(t, q2) THEN 1 ELSE 0)
  <2>1. CASE press = FALSE
    <3>1. f2["finger"] >= m + n + (IF PressIsLost(b, q) THEN 1 ELSE 0)
      <4>1. r.dropping \/ b[1].value = 0 \/ r.reported
        BY <1>2, <1>5, <2>1
      <4> QED
        BY <1>4, <1>5, <1>10, <2>1
    <3>2. k <= n
      BY <1>9
    <3> QED
      BY <1>4, <1>11, <3>1, <3>2
  <2>2. CASE press = TRUE
    <3>1. ~r.reported /\ f2["finger"] = f["finger"] - 1 /\ r2.reported = TRUE
      BY <1>4, <2>2
    <3>2. f["finger"] >= (IF b[1].value = 1 THEN 1 ELSE 0) + m + n
                           + (IF PressIsLost(b, q) THEN 1 ELSE 0)
      BY <1>4, <1>10, <3>1
    <3>3. CASE b[1].value = 1
      <4>1. f2["finger"] >= m + n + (IF PressIsLost(b, q) THEN 1 ELSE 0)
        BY <1>4, <3>1, <3>2, <3>3
      <4>2. k <= n
        BY <1>9
      <4> QED
        BY <1>4, <1>11, <4>1, <4>2
    <3>4. CASE b[1].value = 0
      <4>1. r.dropping /\ w["finger"] # 0 /\ (q2 = q \/ q2 = <<>>)
        BY <1>2, <2>2, <3>4
      <4>2. f2["finger"] + 1 >= m + n + (IF PressIsLost(b, q) THEN 1 ELSE 0)
        BY <1>4, <3>1, <3>2, <3>4
      <4>3. CASE t # <<>>
        <5>1. NextIsPress(t, q2)
          BY <1>12, <3>4, <4>1, <4>3
        <5>2. k <= n
          BY <1>9, <4>1
        <5> QED
          BY <1>4, <1>11, <3>1, <4>2, <5>1, <5>2
      <4>4. CASE t = <<>>
        <5>1. PressIsLost(b, q) \/ (NextIsPress(t, q) /\ n >= 1)
          BY <1>12, <3>4, <4>1, <4>4
        <5>2. ~PressIsLost(t, q2)
          BY <1>11, <4>4
        <5>3. CASE PressIsLost(b, q)
          <6>1. f2["finger"] >= m + n
            BY <1>4, <4>2, <5>3
          <6>2. k <= n
            BY <1>9, <4>1
          <6> QED
            BY <1>4, <5>2, <6>1, <6>2
        <5>4. CASE NextIsPress(t, q) /\ n >= 1
          <6>1. f2["finger"] + 1 >= m + n
            BY <1>4, <4>2
          <6>2. CASE q2 = q
            BY <1>4, <1>9, <3>1, <5>2, <5>4, <6>1, <6>2
          <6>3. CASE q2 = <<>>
            <7>1. k = 0 /\ f2["finger"] >= m
              BY <1>4, <1>9, <5>4, <6>1, <6>3
            <7> QED
              BY <1>4, <1>9, <5>2, <7>1
          <6> QED
            BY <4>1, <6>2, <6>3
        <5> QED
          BY <5>1, <5>3, <5>4
      <4> QED
        BY <4>3, <4>4
    <3> QED
      BY <1>5, <3>3, <3>4
  <2> QED
    BY <2>1, <2>2
<1>14. OwesTouch(d, r2, t, q2, f2)
  BY <1>9, <1>13 DEF OwesTouch
<1> QED
  BY <1>1, <1>6, <1>7, <1>8, <1>14 DEF Owing

-----------------------------------------------------------------------------
(* The loop and its readers. *)

\* No two values of an axis press the same button: that of a pad that knows
\* left, right and neither, and not how far.
Digital ==
  \A v, w \in AxisValues \union {Middle} :
    AxisButton(v) = AxisButton(w) /\ AxisButton(v) # {} => v = w

\* What was read of the device and is to be looked at.
Pending(d) == IF IsNext(d) THEN batch ELSE <<>>

DeviceInv(d, r, b, q, w, f, stale, alive) ==
  /\ Reading(d, r, b, q, w, stale, alive)
  /\ Digital => Owing(d, r, b, q, w, f)

\* Devices that are there have a path of their own.
PlacesInv ==
  /\ attached \in [Devices -> [path : Nat, port : Nat, alive : BOOLEAN]]
  /\ \A d \in Devices : Alive(d) => attached[d].path # None
  /\ \A d, e \in Devices :
       Alive(d) /\ Alive(e) /\ attached[d].path = attached[e].path => d = e

\* The controls have values of theirs, and no press is told that was not made.
WorldInv ==
  /\ PlacesInv
  /\ DOMAIN raw = Devices /\ DOMAIN queue = Devices /\ DOMAIN fresh = Devices
  /\ \A d \in Devices : IsRaw(d, raw[d]) /\ fresh[d] \in [Controls(d) -> Int]
  /\ Digital => \A d \in Devices : fresh[d] \in [Controls(d) -> Nat]

\* Every device has one reader at most, of its kind, and was once there.
OneEach(list, kind) ==
  /\ \A i \in 1 .. Len(list) :
       list[i].fd # None => Kind[list[i].fd] = kind /\ attached[list[i].fd].path # None
  /\ \A i, j \in 1 .. Len(list) :
       list[i].fd = list[j].fd /\ list[i].fd # None => i = j
ReadersInv ==
  /\ pads \in Seq(PadReader) /\ keyboards \in Seq(KeyboardReader)
  /\ touch \in TouchReader
  /\ Len(pads) <= MaxPads /\ Len(keyboards) <= MaxKeyboards
  /\ OneEach(pads, "pad") /\ OneEach(keyboards, "keyboard")
  /\ touch.fd # None => Kind[touch.fd] = "touch" /\ attached[touch.fd].path # None

\* Reports are looked at between a poll and the decision that follows it, and
\* only the touchscreen is read in a game.
TurnInv ==
  /\ stage # "read" => ready = {}
  /\ stage = "game" => pads = <<>> /\ keyboards = <<>>

ListenInv ==
  \A r \in Readers : r.fd # None =>
    DeviceInv(r.fd, r, Pending(r.fd), queue[r.fd], raw[r.fd], fresh[r.fd],
              r.fd \in flushed, Alive(r.fd))

MenuInv == WorldInv /\ ReadersInv /\ TurnInv /\ ListenInv

\* The readers are those of the lists and the touchscreen's.
LEMMA ReadersAre ==
  ASSUME ReadersInv
  PROVE  /\ \A r : r \in Readers <=>
              \/ \E i \in 1 .. Len(pads) : r = pads[i]
              \/ \E i \in 1 .. Len(keyboards) : r = keyboards[i]
              \/ r = touch
         /\ \A i \in 1 .. Len(pads) : pads[i] \in PadReader
         /\ \A i \in 1 .. Len(keyboards) : keyboards[i] \in KeyboardReader
         /\ \A r \in Readers : r.fd # None =>
              r.fd \in Devices /\ attached[r.fd].path # None
<1>1. /\ \A i \in 1 .. Len(pads) : pads[i] \in PadReader
      /\ \A i \in 1 .. Len(keyboards) : keyboards[i] \in KeyboardReader
      /\ DOMAIN pads = 1 .. Len(pads) /\ DOMAIN keyboards = 1 .. Len(keyboards)
  BY ElementOfSeq, LenProperties DEF ReadersInv
<1>2. \A r : r \in Readers <=>
              \/ \E i \in 1 .. Len(pads) : r = pads[i]
              \/ \E i \in 1 .. Len(keyboards) : r = keyboards[i]
              \/ r = touch
  BY <1>1 DEF Readers, Range
<1>3. \A r \in Readers : r.fd # None => r.fd \in Devices /\ attached[r.fd].path # None
  <2> SUFFICES ASSUME NEW r \in Readers, r.fd # None
               PROVE  r.fd \in Devices /\ attached[r.fd].path # None
    OBVIOUS
  <2>1. CASE \E i \in 1 .. Len(pads) : r = pads[i]
    BY <1>1, <2>1 DEF ReadersInv, OneEach, PadReader
  <2>2. CASE \E i \in 1 .. Len(keyboards) : r = keyboards[i]
    BY <1>1, <2>2 DEF ReadersInv, OneEach, KeyboardReader
  <2>3. CASE r = touch
    BY <2>3 DEF ReadersInv, TouchReader
  <2> QED
    BY <1>2, <2>1, <2>2, <2>3
<1> QED
  BY <1>1, <1>2, <1>3

\* A device that is opened has one reader.
LEMMA ReaderIs ==
  ASSUME ReadersInv, NEW r \in Readers, r.fd # None
  PROVE  Reader(r.fd) = r /\ r.fd \in Devices /\ r.fd \in Opened
<1>1. ASSUME NEW s \in Readers, s.fd = r.fd
      PROVE  s = r
  <2>1. CASE \E i \in 1 .. Len(pads) : r = pads[i]
    <3>1. PICK i \in 1 .. Len(pads) : r = pads[i]
      BY <2>1
    <3>2. Kind[r.fd] = "pad"
      BY <3>1 DEF ReadersInv, OneEach
    <3>3. \E j \in 1 .. Len(pads) : s = pads[j]
      <4>1. ASSUME NEW j \in 1 .. Len(keyboards), s = keyboards[j]
            PROVE  FALSE
        BY <1>1, <3>2, <4>1 DEF ReadersInv, OneEach
      <4>2. ASSUME s = touch
            PROVE  FALSE
        BY <1>1, <3>2, <4>2 DEF ReadersInv
      <4> QED
        BY <4>1, <4>2, ReadersAre
    <3> QED
      BY <1>1, <3>1, <3>3 DEF ReadersInv, OneEach
  <2>2. CASE \E i \in 1 .. Len(keyboards) : r = keyboards[i]
    <3>1. PICK i \in 1 .. Len(keyboards) : r = keyboards[i]
      BY <2>2
    <3>2. Kind[r.fd] = "keyboard"
      BY <3>1 DEF ReadersInv, OneEach
    <3>3. \E j \in 1 .. Len(keyboards) : s = keyboards[j]
      BY <1>1, <3>2, ReadersAre DEF ReadersInv, OneEach
    <3> QED
      BY <1>1, <3>1, <3>3 DEF ReadersInv, OneEach
  <2>3. CASE r = touch
    <3>1. Kind[r.fd] = "touch"
      BY <2>3 DEF ReadersInv
    <3> QED
      BY <1>1, <2>3, <3>1, ReadersAre DEF ReadersInv, OneEach
  <2> QED
    BY <2>1, <2>2, <2>3, ReadersAre
<1>2. Reader(r.fd) = r
  BY <1>1 DEF Reader
<1>3. r.fd \in Devices /\ r.fd \in Opened
  BY ReadersAre DEF Opened
<1> QED
  BY <1>2, <1>3

\* The order of reading: controllers, keyboards, the touchscreen.
LEMMA OrderIs ==
  ASSUME NEW p \in Seq(PadReader), NEW k \in Seq(KeyboardReader), NEW t \in TouchReader
  PROVE  /\ Len(p) \in Nat /\ Len(k) \in Nat
         /\ DOMAIN (p \o k \o <<t>>) = 1 .. Len(p) + Len(k) + 1
         /\ \A i \in 1 .. Len(p) : (p \o k \o <<t>>)[i] = p[i]
         /\ \A i \in 1 .. Len(k) : (p \o k \o <<t>>)[Len(p) + i] = k[i]
         /\ (p \o k \o <<t>>)[Len(p) + Len(k) + 1] = t
<1> DEFINE T == PadReader \union KeyboardReader \union TouchReader
<1>1. p \in Seq(T) /\ k \in Seq(T)
  BY SeqMonotonic
<1>2. PICK one : one = <<t>>
  OBVIOUS
<1>3. one \in Seq(T) /\ Len(one) = 1 /\ one[1] = t
  BY <1>2
<1>4. PICK both : both = p \o k
  OBVIOUS
<1>5. PICK all : all = both \o one
  OBVIOUS
<1> HIDE DEF T
<1>6. /\ both \in Seq(T) /\ Len(both) = Len(p) + Len(k)
      /\ \A i \in 1 .. Len(p) + Len(k) :
           both[i] = IF i <= Len(p) THEN p[i] ELSE k[i - Len(p)]
  BY <1>1, <1>4, ConcatProperties
<1>7. /\ all \in Seq(T) /\ Len(all) = Len(both) + Len(one)
      /\ \A i \in 1 .. Len(both) + Len(one) :
           all[i] = IF i <= Len(both) THEN both[i] ELSE one[i - Len(both)]
  <2>1. both \in Seq(T) /\ one \in Seq(T)
    BY <1>3, <1>6
  <2>2. /\ both \o one \in Seq(T) /\ Len(both \o one) = Len(both) + Len(one)
        /\ \A i \in 1 .. Len(both) + Len(one) :
             (both \o one)[i] = IF i <= Len(both) THEN both[i] ELSE one[i - Len(both)]
    BY <2>1, ConcatProperties
  <2> QED
    BY <1>5, <2>2
<1>8. Len(p) \in Nat /\ Len(k) \in Nat /\ DOMAIN all = 1 .. Len(all)
  BY <1>1, <1>7, LenProperties
<1>9. /\ DOMAIN all = 1 .. Len(p) + Len(k) + 1
      /\ all[Len(p) + Len(k) + 1] = t
  <2>1. PICK n \in Nat : n = Len(p) + Len(k)
    BY <1>8
  <2>2. Len(all) = n + 1 /\ n + 1 \in 1 .. Len(both) + Len(one) /\ Len(both) = n
    BY <1>3, <1>6, <1>7, <2>1
  <2>3. all[n + 1] = one[1]
    <3>1. all[n + 1] = IF n + 1 <= n THEN both[n + 1] ELSE one[n + 1 - n]
      BY <1>7, <2>2
    <3> QED
      BY <2>1, <3>1
  <2> QED
    BY <1>3, <1>8, <2>1, <2>2, <2>3
<1>10. \A i \in 1 .. Len(p) : all[i] = p[i]
  BY <1>3, <1>6, <1>7, <1>8
<1>11. \A i \in 1 .. Len(k) : all[Len(p) + i] = k[i]
  BY <1>3, <1>6, <1>7, <1>8
<1>12. all = p \o k \o <<t>>
  BY <1>2, <1>4, <1>5
<1> QED
  BY <1>8, <1>9, <1>10, <1>11, <1>12

\* At most one reader's reports are looked at.
LEMMA OneIsNext ==
  ASSUME ReadersInv, NEW d, NEW e, IsNext(d), IsNext(e)
  PROVE  d = e /\ d \in ready
<1>1. PICK i \in DOMAIN ReadOrder :
        /\ ReadOrder[i].fd = d /\ d \in ready
        /\ \A j \in 1 .. i - 1 : ReadOrder[j].fd \notin ready
  BY DEF IsNext
<1>2. PICK k \in DOMAIN ReadOrder :
        /\ ReadOrder[k].fd = e /\ e \in ready
        /\ \A j \in 1 .. k - 1 : ReadOrder[j].fd \notin ready
  BY DEF IsNext
<1>3. DOMAIN ReadOrder = 1 .. Len(pads) + Len(keyboards) + 1
  BY OrderIs DEF ReadersInv, ReadOrder
<1>4. PICK n : n = Len(pads) + Len(keyboards) + 1 /\ n \in Nat
  BY OrderIs DEF ReadersInv
<1>5. i \in 1 .. n /\ k \in 1 .. n
  BY <1>3, <1>4
<1>6. ~(i < k) /\ ~(k < i)
  <2>1. i < k => i \in 1 .. k - 1
    BY <1>5
  <2>2. k < i => k \in 1 .. i - 1
    BY <1>5
  <2> QED
    BY <1>1, <1>2, <2>1, <2>2
<1>7. i = k
  BY <1>5, <1>6
<1> QED
  BY <1>1, <1>2, <1>7

\* A list with the reader of one device replaced.
LEMMA SetReaderIs ==
  ASSUME NEW T, NEW list \in Seq(T), NEW d, NEW t \in T
  PROVE  /\ SetReader(list, d, t) \in Seq(T) /\ Len(SetReader(list, d, t)) = Len(list)
         /\ Len(list) \in Nat
         /\ \A i \in 1 .. Len(list) :
              SetReader(list, d, t)[i] = IF list[i].fd = d THEN t ELSE list[i]
<1>1. Len(list) \in Nat /\ DOMAIN list = 1 .. Len(list)
  OBVIOUS
<1>2. \A i \in 1 .. Len(list) : list[i] \in T
  BY ElementOfSeq
<1>3. SetReader(list, d, t) =
        [i \in 1 .. Len(list) |-> IF list[i].fd = d THEN t ELSE list[i]]
  BY <1>1 DEF SetReader
<1> QED
  BY <1>1, <1>2, <1>3

\* As long as every reader reads the device it read, the same one is next.
LEMMA SameIsNext ==
  ASSUME ReadersInv, ReadersInv', ready' = ready,
         Len(pads') = Len(pads), Len(keyboards') = Len(keyboards),
         \A i \in 1 .. Len(pads) : pads'[i].fd = pads[i].fd,
         \A i \in 1 .. Len(keyboards) : keyboards'[i].fd = keyboards[i].fd,
         touch'.fd = touch.fd, NEW e
  PROVE  IsNext(e)' <=> IsNext(e)
<1>1. /\ pads \in Seq(PadReader) /\ keyboards \in Seq(KeyboardReader)
      /\ touch \in TouchReader
      /\ pads' \in Seq(PadReader) /\ keyboards' \in Seq(KeyboardReader)
      /\ touch' \in TouchReader
  BY DEF ReadersInv
<1>2. PICK m \in Nat, n \in Nat : m = Len(pads) /\ n = Len(keyboards)
  BY <1>1, OrderIs
<1>3. /\ DOMAIN ReadOrder = 1 .. m + n + 1
      /\ \A i \in 1 .. m : ReadOrder[i] = pads[i]
      /\ \A i \in 1 .. n : ReadOrder[m + i] = keyboards[i]
      /\ ReadOrder[m + n + 1] = touch
  BY <1>1, <1>2, OrderIs DEF ReadOrder
<1>4. /\ DOMAIN ReadOrder' = 1 .. m + n + 1
      /\ \A i \in 1 .. m : ReadOrder'[i] = pads'[i]
      /\ \A i \in 1 .. n : ReadOrder'[m + i] = keyboards'[i]
      /\ ReadOrder'[m + n + 1] = touch'
  BY <1>1, <1>2, OrderIs DEF ReadOrder
<1>5. ASSUME NEW i \in 1 .. m + n + 1
      PROVE  ReadOrder'[i].fd = ReadOrder[i].fd
  <2>1. CASE i \in 1 .. m
    BY <1>2, <1>3, <1>4, <2>1
  <2>2. CASE i \in m + 1 .. m + n
    <3>1. i - m \in 1 .. n /\ m + (i - m) = i
      BY <2>2
    <3>2. ReadOrder[i] = keyboards[i - m] /\ ReadOrder'[i] = keyboards'[i - m]
      BY <1>3, <1>4, <3>1
    <3> QED
      BY <1>2, <3>1, <3>2
  <2>3. CASE i = m + n + 1
    BY <1>3, <1>4, <2>3
  <2> QED
    BY <2>1, <2>2, <2>3
<1>6. \A i \in 1 .. m + n + 1 : \A j \in 1 .. i - 1 : j \in 1 .. m + n + 1
  OBVIOUS
<1>7. IsNext(e) => IsNext(e)'
  <2> SUFFICES ASSUME IsNext(e)
               PROVE  IsNext(e)'
    OBVIOUS
  <2>1. PICK i \in 1 .. m + n + 1 :
          /\ ReadOrder[i].fd = e /\ e \in ready
          /\ \A j \in 1 .. i - 1 : ReadOrder[j].fd \notin ready
    BY <1>3 DEF IsNext
  <2>2. /\ ReadOrder'[i].fd = e /\ e \in ready'
        /\ \A j \in 1 .. i - 1 : ReadOrder'[j].fd \notin ready'
    BY <1>5, <1>6, <2>1
  <2> QED
    BY <1>4, <2>2 DEF IsNext
<1>8. IsNext(e)' => IsNext(e)
  <2> SUFFICES ASSUME IsNext(e)'
               PROVE  IsNext(e)
    OBVIOUS
  <2>1. PICK i \in 1 .. m + n + 1 :
          /\ ReadOrder'[i].fd = e /\ e \in ready'
          /\ \A j \in 1 .. i - 1 : ReadOrder'[j].fd \notin ready'
    BY <1>4 DEF IsNext
  <2>2. /\ ReadOrder[i].fd = e /\ e \in ready
        /\ \A j \in 1 .. i - 1 : ReadOrder[j].fd \notin ready
    BY <1>5, <1>6, <2>1
  <2> QED
    BY <1>3, <2>2 DEF IsNext
<1> QED
  BY <1>7, <1>8

\* What replacing one reader does.
LEMMA PutKeeps ==
  ASSUME ReadersInv, NEW d \in Devices, d \in Opened, NEW t, Put(d, t),
         Kind[d] = "touch" => t \in TouchReader,
         Kind[d] = "pad" => t \in PadReader,
         Kind[d] = "keyboard" => t \in KeyboardReader,
         t.fd \in {d, None}, attached' = attached
  PROVE  /\ ReadersInv'
         /\ \A s \in Readers' : s.fd # None =>
              \/ s = t /\ t.fd = d
              \/ s \in Readers /\ s.fd # d
         /\ t.fd = d /\ ready' = ready => \A e : IsNext(e)' <=> IsNext(e)
<1>1. /\ Kind[d] \in {"touch", "pad", "keyboard"} /\ d # None
      /\ attached[d].path # None
  <2>1. PICK r \in Readers : r.fd = d /\ d # None
    BY DEF Opened
  <2> QED
    BY <2>1, ControlsAre, ReadersAre
<1>2. CASE Kind[d] = "pad"
  <2>1. /\ pads' = SetReader(pads, d, t) /\ keyboards' = keyboards /\ touch' = touch
        /\ t \in PadReader
    BY <1>2 DEF Put
  <2>2. /\ pads' \in Seq(PadReader) /\ Len(pads') = Len(pads) /\ Len(pads) \in Nat
        /\ \A i \in 1 .. Len(pads) : pads'[i] = IF pads[i].fd = d THEN t ELSE pads[i]
    BY <2>1, SetReaderIs DEF ReadersInv
  <2>3. OneEach(pads, "pad")'
    <3>1. \A i \in 1 .. Len(pads) : pads'[i].fd # None =>
            /\ pads'[i].fd = pads[i].fd
            /\ Kind[pads[i].fd] = "pad" /\ attached[pads[i].fd].path # None
      BY <1>1, <1>2, <2>2 DEF ReadersInv, OneEach
    <3> QED
      BY <2>2, <3>1, SMTT(30) DEF ReadersInv, OneEach
  <2>4. ReadersInv'
    BY <2>1, <2>2, <2>3 DEF ReadersInv, OneEach
  <2>5. \A s \in Readers' : s.fd # None => (s = t /\ t.fd = d) \/ (s \in Readers /\ s.fd # d)
    <3> SUFFICES ASSUME NEW s \in Readers', s.fd # None, ~(s = t /\ t.fd = d)
                 PROVE  s \in Readers /\ s.fd # d
      OBVIOUS
    <3>1. CASE \E i \in 1 .. Len(pads) : s = pads'[i]
      <4>1. PICK i \in 1 .. Len(pads) : s = pads'[i]
        BY <3>1
      <4>2. s = pads[i] /\ s.fd # d
        BY <2>2, <4>1
      <4> QED
        BY <4>2, ReadersAre
    <3>2. CASE \E i \in 1 .. Len(keyboards) : s = keyboards[i]
      BY <1>2, <3>2, ReadersAre DEF ReadersInv, OneEach
    <3>3. CASE s = touch
      BY <1>2, <3>3, ReadersAre DEF ReadersInv
    <3>4. \/ \E i \in 1 .. Len(pads) : s = pads'[i]
          \/ \E i \in 1 .. Len(keyboards) : s = keyboards[i]
          \/ s = touch
      <4>1. DOMAIN pads' = 1 .. Len(pads) /\ DOMAIN keyboards = 1 .. Len(keyboards)
        BY <2>2, LenProperties DEF ReadersInv
      <4> QED
        BY <2>1, <4>1 DEF Readers, Range
    <3> QED
      BY <3>1, <3>2, <3>3, <3>4
  <2>6. ASSUME t.fd = d, ready' = ready, NEW e
        PROVE  IsNext(e)' <=> IsNext(e)
    <3>1. /\ \A i \in 1 .. Len(pads) : pads'[i].fd = pads[i].fd
          /\ \A i \in 1 .. Len(keyboards) : keyboards'[i].fd = keyboards[i].fd
          /\ Len(keyboards') = Len(keyboards) /\ touch'.fd = touch.fd
      BY <2>1, <2>2, <2>6
    <3> QED
      BY <2>2, <2>4, <2>6, <3>1, SameIsNext
  <2> QED
    BY <2>4, <2>5, <2>6
<1>3. CASE Kind[d] = "keyboard"
  <2>1. /\ keyboards' = SetReader(keyboards, d, t) /\ pads' = pads /\ touch' = touch
        /\ t \in KeyboardReader
    BY <1>3 DEF Put
  <2>2. /\ keyboards' \in Seq(KeyboardReader) /\ Len(keyboards') = Len(keyboards)
        /\ Len(keyboards) \in Nat
        /\ \A i \in 1 .. Len(keyboards) :
             keyboards'[i] = IF keyboards[i].fd = d THEN t ELSE keyboards[i]
    BY <2>1, SetReaderIs DEF ReadersInv
  <2>3. OneEach(keyboards, "keyboard")'
    <3>1. \A i \in 1 .. Len(keyboards) : keyboards'[i].fd # None =>
            /\ keyboards'[i].fd = keyboards[i].fd
            /\ Kind[keyboards[i].fd] = "keyboard" /\ attached[keyboards[i].fd].path # None
      BY <1>1, <1>3, <2>2 DEF ReadersInv, OneEach
    <3> QED
      BY <2>2, <3>1 DEF ReadersInv, OneEach
  <2>4. ReadersInv'
    BY <2>1, <2>2, <2>3 DEF ReadersInv, OneEach
  <2>5. \A s \in Readers' : s.fd # None => (s = t /\ t.fd = d) \/ (s \in Readers /\ s.fd # d)
    <3> SUFFICES ASSUME NEW s \in Readers', s.fd # None, ~(s = t /\ t.fd = d)
                 PROVE  s \in Readers /\ s.fd # d
      OBVIOUS
    <3>1. CASE \E i \in 1 .. Len(keyboards) : s = keyboards'[i]
      <4>1. PICK i \in 1 .. Len(keyboards) : s = keyboards'[i]
        BY <3>1
      <4>2. s = keyboards[i] /\ s.fd # d
        BY <2>2, <4>1
      <4> QED
        BY <4>2, ReadersAre
    <3>2. CASE \E i \in 1 .. Len(pads) : s = pads[i]
      BY <1>3, <3>2, ReadersAre DEF ReadersInv, OneEach
    <3>3. CASE s = touch
      BY <1>3, <3>3, ReadersAre DEF ReadersInv
    <3>4. \/ \E i \in 1 .. Len(keyboards) : s = keyboards'[i]
          \/ \E i \in 1 .. Len(pads) : s = pads[i]
          \/ s = touch
      <4>1. DOMAIN keyboards' = 1 .. Len(keyboards) /\ DOMAIN pads = 1 .. Len(pads)
        BY <2>2, LenProperties DEF ReadersInv
      <4> QED
        BY <2>1, <4>1 DEF Readers, Range
    <3> QED
      BY <3>1, <3>2, <3>3, <3>4
  <2>6. ASSUME t.fd = d, ready' = ready, NEW e
        PROVE  IsNext(e)' <=> IsNext(e)
    <3>1. /\ \A i \in 1 .. Len(pads) : pads'[i].fd = pads[i].fd
          /\ \A i \in 1 .. Len(keyboards) : keyboards'[i].fd = keyboards[i].fd
          /\ Len(pads') = Len(pads) /\ touch'.fd = touch.fd
      BY <2>1, <2>2, <2>6
    <3> QED
      BY <2>2, <2>4, <2>6, <3>1, SameIsNext
  <2> QED
    BY <2>4, <2>5, <2>6
<1>4. CASE Kind[d] = "touch"
  <2>1. pads' = pads /\ keyboards' = keyboards /\ touch' = t /\ t \in TouchReader
    BY <1>4 DEF Put
  <2>2. d = touch.fd
    <3>1. PICK r \in Readers : r.fd = d
      BY DEF Opened
    <3> QED
      BY <1>1, <1>4, <3>1, ReadersAre DEF ReadersInv, OneEach
  <2>3. ReadersInv'
    BY <1>1, <1>4, <2>1 DEF ReadersInv, OneEach
  <2>4. \A s \in Readers' : s.fd # None => (s = t /\ t.fd = d) \/ (s \in Readers /\ s.fd # d)
    <3> SUFFICES ASSUME NEW s \in Readers', s.fd # None, s # t
                 PROVE  s \in Readers /\ s.fd # d
      BY <1>1, <2>1
    <3>1. \/ \E i \in 1 .. Len(keyboards) : s = keyboards[i]
          \/ \E i \in 1 .. Len(pads) : s = pads[i]
      <4>1. DOMAIN keyboards = 1 .. Len(keyboards) /\ DOMAIN pads = 1 .. Len(pads)
        BY LenProperties DEF ReadersInv
      <4> QED
        BY <2>1, <4>1 DEF Readers, Range
    <3> QED
      BY <1>4, <3>1, ReadersAre DEF ReadersInv, OneEach
  <2>5. ASSUME t.fd = d, ready' = ready, NEW e
        PROVE  IsNext(e)' <=> IsNext(e)
    BY <2>1, <2>2, <2>3, <2>5, SameIsNext
  <2> QED
    BY <2>3, <2>4, <2>5
<1> QED
  BY <1>1, <1>2, <1>3, <1>4

\* A step keeps the invariant if it keeps what each opened device is read by;
\* what is owed by the others is as it was, or nothing.
LEMMA MenuStep ==
  ASSUME MenuInv, ReadersInv', TurnInv', PlacesInv',
         DOMAIN raw' = Devices, DOMAIN queue' = Devices, DOMAIN fresh' = Devices,
         \A d \in Devices : IsRaw(d, raw'[d]) /\ fresh'[d] \in [Controls(d) -> Int],
         \A d \in Devices \ Opened' :
           fresh'[d] = fresh[d] \/ fresh'[d] = [c \in Controls(d) |-> 0],
         \A r \in Readers' : r.fd # None =>
           DeviceInv(r.fd, r, Pending(r.fd)', queue'[r.fd], raw'[r.fd], fresh'[r.fd],
                     r.fd \in flushed', Alive(r.fd)')
  PROVE  MenuInv'
<1>1. ListenInv'
  BY DEF ListenInv
<1>2. ASSUME Digital, NEW d \in Devices
      PROVE  fresh'[d] \in [Controls(d) -> Nat]
  <2>1. CASE d \in Opened'
    <3>1. PICK r \in Readers' : r.fd = d /\ d # None
      BY <2>1 DEF Opened
    <3>2. /\ Reading(d, r, Pending(d)', queue'[d], raw'[d], d \in flushed', Alive(d)')
          /\ Owing(d, r, Pending(d)', queue'[d], raw'[d], fresh'[d])
      BY <1>2, <3>1 DEF DeviceInv
    <3>3. IsStream(d, Pending(d)') /\ IsStream(d, queue'[d])
      BY <3>2 DEF Reading, Shaped
    <3> QED
      BY <3>2, <3>3, OwingIsSome
  <2>2. CASE d \notin Opened'
    <3>1. fresh[d] \in [Controls(d) -> Nat]
      BY <1>2 DEF MenuInv, WorldInv
    <3>2. [c \in Controls(d) |-> 0] \in [Controls(d) -> Nat]
      OBVIOUS
    <3> QED
      BY <2>2, <3>1, <3>2
  <2> QED
    BY <2>1, <2>2
<1>3. WorldInv'
  BY <1>2 DEF WorldInv
<1> QED
  BY <1>1, <1>3 DEF MenuInv

\* What the readers and the devices are read by depends on these alone.
LEMMA MenuFramed ==
  ASSUME MenuInv, TurnInv', UNCHANGED <<attached, raw, queue, flushed, fresh>>,
         UNCHANGED <<pads, keyboards, touch, ready, batch>>
  PROVE  MenuInv'
<1>1. WorldInv'
  BY DEF MenuInv, WorldInv, PlacesInv, Alive
<1>2. ReadersInv'
  BY DEF MenuInv, ReadersInv, OneEach
<1>3. /\ Readers' = Readers /\ \A d : Pending(d)' = Pending(d)
      /\ \A d \in Devices : Alive(d)' = Alive(d)
  BY DEF Readers, Pending, IsNext, ReadOrder, Alive
<1>4. \A r \in Readers : r.fd # None => r.fd \in Devices
  BY ReadersAre DEF MenuInv
<1>5. ListenInv'
  BY <1>3, <1>4 DEF MenuInv, ListenInv
<1> QED
  BY <1>1, <1>2, <1>5 DEF MenuInv

\* The stages in which nothing is read.
LEMMA MenuPasses ==
  ASSUME MenuInv, UNCHANGED <<attached, raw, queue, flushed, fresh, readers, turn>>,
         \/ stage' = stage
         \/ stage' \notin {"read", "game"} /\ ready = {}
  PROVE  MenuInv'
<1>1. UNCHANGED <<pads, keyboards, touch, ready, batch>>
  BY DEF readers, turn
<1>2. TurnInv'
  BY <1>1 DEF MenuInv, TurnInv
<1> QED
  BY <1>1, <1>2, MenuFramed

\* A device that is not there is plugged in: it has no reader yet.
LEMMA PlugKeeps == ASSUME MenuInv, NEW d \in Devices, Plug(d) PROVE MenuInv'
<1>1. PICK path \in Paths \ InUse, port \in Ports :
        attached' = [attached EXCEPT ![d] = [path |-> path, port |-> port, alive |-> TRUE]]
  BY DEF Plug
<1>2. /\ attached[d].path = None
      /\ UNCHANGED <<raw, queue, flushed, fresh, pads, keyboards, touch, ready, batch, stage>>
  BY DEF Plug, readers, turn
<1>3. /\ attached \in [Devices -> [path : Nat, port : Nat, alive : BOOLEAN]]
      /\ path \in Nat /\ path # None /\ port \in Nat
  BY InputAssumption DEF MenuInv, WorldInv, PlacesInv
<1>4. /\ attached' \in [Devices -> [path : Nat, port : Nat, alive : BOOLEAN]]
      /\ attached'[d] = [path |-> path, port |-> port, alive |-> TRUE]
      /\ \A e \in Devices : e # d => attached'[e] = attached[e]
  BY <1>1, <1>3
<1>5. \A e \in Devices : Alive(e) => attached[e].path # path
  BY <1>3 DEF InUse
<1>6. PlacesInv'
  <2>1. \A e \in Devices : Alive(e)' => attached'[e].path # None
    BY <1>3, <1>4 DEF MenuInv, WorldInv, PlacesInv, Alive
  <2>2. \A e, g \in Devices :
          Alive(e)' /\ Alive(g)' /\ attached'[e].path = attached'[g].path => e = g
    BY <1>4, <1>5 DEF MenuInv, WorldInv, PlacesInv, Alive
  <2> QED
    BY <1>4, <2>1, <2>2 DEF PlacesInv
<1>7. \A r \in Readers : r.fd # None => r.fd \in Devices /\ r.fd # d
  BY <1>2, ReadersAre DEF MenuInv
<1>8. ReadersInv'
  <2>1. OneEach(pads, "pad")'
    BY <1>2, <1>4, <1>7, ReadersAre DEF MenuInv, ReadersInv, OneEach
  <2>2. OneEach(keyboards, "keyboard")'
    BY <1>2, <1>4, <1>7, ReadersAre DEF MenuInv, ReadersInv, OneEach
  <2>3. touch.fd # None => attached'[touch.fd].path # None
    BY <1>2, <1>4, <1>7, ReadersAre DEF MenuInv, ReadersInv
  <2> QED
    BY <1>2, <2>1, <2>2, <2>3 DEF MenuInv, ReadersInv
<1>9. Readers' = Readers /\ \A e : Pending(e)' = Pending(e)
  BY <1>2 DEF Readers, Pending, IsNext, ReadOrder
<1>10. \A r \in Readers : r.fd # None => Alive(r.fd)' = Alive(r.fd)
  BY <1>4, <1>7 DEF Alive
<1>11. ListenInv'
  BY <1>2, <1>9, <1>10 DEF MenuInv, ListenInv
<1>12. WorldInv' /\ TurnInv'
  BY <1>2, <1>6 DEF MenuInv, WorldInv, TurnInv
<1> QED
  BY <1>8, <1>11, <1>12 DEF MenuInv

\* A device that is gone need not agree with its reader.
LEMMA UnplugKeeps == ASSUME MenuInv, NEW d \in Devices, Unplug(d) PROVE MenuInv'
<1>1. /\ attached' = [attached EXCEPT ![d].alive = FALSE]
      /\ UNCHANGED <<raw, queue, flushed, fresh, pads, keyboards, touch, ready, batch, stage>>
  BY DEF Unplug, readers, turn
<1>2. attached \in [Devices -> [path : Nat, port : Nat, alive : BOOLEAN]]
  BY DEF MenuInv, WorldInv, PlacesInv
<1>3. /\ attached' \in [Devices -> [path : Nat, port : Nat, alive : BOOLEAN]]
      /\ \A e \in Devices : /\ attached'[e].path = attached[e].path
                            /\ Alive(e)' => Alive(e)
  BY <1>1, <1>2 DEF Alive
<1>4. PlacesInv'
  BY <1>3 DEF MenuInv, WorldInv, PlacesInv
<1>5. ReadersInv'
  <2>1. \A r \in Readers : r.fd # None => attached'[r.fd].path # None
    BY <1>3, ReadersAre DEF MenuInv
  <2>2. OneEach(pads, "pad")'
    BY <1>1, <2>1, ReadersAre DEF MenuInv, ReadersInv, OneEach
  <2>3. OneEach(keyboards, "keyboard")'
    BY <1>1, <2>1, ReadersAre DEF MenuInv, ReadersInv, OneEach
  <2> QED
    BY <1>1, <2>1, <2>2, <2>3, ReadersAre DEF MenuInv, ReadersInv
<1>6. Readers' = Readers /\ \A e : Pending(e)' = Pending(e)
  BY <1>1 DEF Readers, Pending, IsNext, ReadOrder
<1>7. ASSUME NEW r \in Readers, r.fd # None
      PROVE  DeviceInv(r.fd, r, Pending(r.fd), queue[r.fd], raw[r.fd], fresh[r.fd],
                       r.fd \in flushed, Alive(r.fd)')
  <2>1. r.fd \in Devices
    BY <1>7, ReadersAre DEF MenuInv
  <2>2. DeviceInv(r.fd, r, Pending(r.fd), queue[r.fd], raw[r.fd], fresh[r.fd],
                  r.fd \in flushed, Alive(r.fd))
    BY <1>7 DEF MenuInv, ListenInv
  <2> QED
    BY <1>3, <2>1, <2>2 DEF DeviceInv, Reading, Shaped
<1>8. ListenInv'
  BY <1>1, <1>6, <1>7 DEF ListenInv
<1>9. WorldInv' /\ TurnInv'
  BY <1>1, <1>4 DEF MenuInv, WorldInv, TurnInv
<1> QED
  BY <1>5, <1>8, <1>9 DEF MenuInv


\* A control of a device takes another value.
LEMMA ChangeIsReport ==
  ASSUME MenuInv, NEW d \in Devices, NEW c \in Controls(d), NEW v \in Values(c),
         Change(d, c, v), NEW e, e = [code |-> c, value |-> v]
  PROVE  /\ e \in Reports(d) /\ e.code = c /\ e.value = v
         /\ IsRaw(d, raw'[d]) /\ raw'[d][c] = Level(e)
         /\ \A k \in Controls(d) : k # c => raw'[d][k] = raw[d][k]
         /\ \A g \in Devices : g # d => raw'[g] = raw[g]
         /\ DOMAIN raw' = Devices
         /\ Kind[d] = "touch" => v # raw[d][c]
<1>1. /\ \/ v # raw[d][c] /\ (c = "x" \/ v # 2)
         \/ v = 2 /\ raw[d][c] = 1 /\ Kind[d] = "keyboard"
      /\ raw' = [raw EXCEPT ![d][c] = IF c # "x" /\ v = 2 THEN 1 ELSE v]
  BY DEF Change
<1>2. /\ DOMAIN raw = Devices /\ raw[d] \in [Controls(d) -> Int]
      /\ \A k \in Controls(d) :
           IF k = "x" THEN raw[d][k] \in AxisValues \union {Middle} ELSE raw[d][k] \in {0, 1}
  BY DEF MenuInv, WorldInv, IsRaw
<1>3. c = "x" => v \in AxisValues /\ v \in Int
  BY InputAssumption DEF Values
<1>4. c # "x" => v \in 0 .. 2
  BY DEF Values
<1>5. e \in Reports(d) /\ e.code = c /\ e.value = v
  BY <1>1, <1>3, <1>4 DEF Reports
<1>6. PICK z : z = IF c # "x" /\ v = 2 THEN 1 ELSE v
  OBVIOUS
<1>7. z = Level(e) /\ z \in Int /\ (IF c = "x" THEN z \in AxisValues ELSE z \in {0, 1})
  BY <1>3, <1>4, <1>5, <1>6 DEF Level
<1>8. /\ raw'[d] = [raw[d] EXCEPT ![c] = z] /\ DOMAIN raw' = Devices
      /\ \A g \in Devices : g # d => raw'[g] = raw[g]
  BY <1>1, <1>2, <1>6
<1>9. /\ raw'[d] \in [Controls(d) -> Int] /\ raw'[d][c] = z
      /\ \A k \in Controls(d) : k # c => raw'[d][k] = raw[d][k]
  BY <1>2, <1>7, <1>8
<1>10. IsRaw(d, raw'[d])
  BY <1>2, <1>7, <1>9 DEF IsRaw
<1> QED
  BY <1>1, <1>5, <1>7, <1>8, <1>9, <1>10

\* A control of a device that is not opened, or a report and perhaps a press.
LEMMA ChangeKeeps ==
  ASSUME MenuInv, NEW d \in Devices, NEW c \in Controls(d), NEW v \in Values(c),
         Change(d, c, v)
  PROVE  MenuInv'
<1>1. PICK e : e = [code |-> c, value |-> v]
  OBVIOUS
<1>2. /\ e \in Reports(d) /\ e.code = c /\ e.value = v
      /\ IsRaw(d, raw'[d]) /\ raw'[d][c] = Level(e)
      /\ \A k \in Controls(d) : k # c => raw'[d][k] = raw[d][k]
      /\ \A g \in Devices : g # d => raw'[g] = raw[g]
      /\ DOMAIN raw' = Devices
      /\ Kind[d] = "touch" => v # raw[d][c]
  BY <1>1, ChangeIsReport
<1>3. UNCHANGED <<attached, flushed, pads, keyboards, touch, ready, batch, stage>>
  BY DEF Change, readers, turn
<1>4. /\ ReadersInv' /\ TurnInv' /\ PlacesInv' /\ Readers' = Readers /\ Opened' = Opened
      /\ \A g : Pending(g)' = Pending(g) /\ Alive(g)' = Alive(g)
  BY <1>3 DEF MenuInv, WorldInv, PlacesInv, ReadersInv, OneEach, TurnInv, Readers, Opened,
              Pending, IsNext, ReadOrder, Alive
<1>5. /\ DOMAIN queue = Devices /\ DOMAIN fresh = Devices
      /\ \A g \in Devices : IsRaw(g, raw[g]) /\ fresh[g] \in [Controls(g) -> Int]
  BY DEF MenuInv, WorldInv
<1>6. /\ d \notin Opened => queue' = queue
      /\ d \in Opened =>
           /\ DOMAIN queue' = Devices /\ \A g \in Devices : g # d => queue'[g] = queue[g]
           /\ queue'[d] = IF Len(queue[d]) < BufferSize THEN Append(queue[d], e)
                          ELSE <<Dropped, e>>
  BY <1>1, <1>5 DEF Change
<1>7. fresh' = IF /\ d \in Opened /\ Presses(d, c, v)
                  /\ stage = "game" => Kind[d] = "touch"
               THEN [fresh EXCEPT ![d][c] = @ + 1] ELSE fresh
  BY DEF Change
<1>8. /\ DOMAIN fresh' = Devices /\ \A g \in Devices : g # d => fresh'[g] = fresh[g]
      /\ fresh'[d] \in [Controls(d) -> Int]
      /\ \A k \in Controls(d) : k # c => fresh'[d][k] = fresh[d][k]
      /\ fresh'[d][c] = IF /\ d \in Opened /\ Presses(d, c, v)
                           /\ stage = "game" => Kind[d] = "touch"
                        THEN fresh[d][c] + 1 ELSE fresh[d][c]
      /\ d \notin Opened => fresh' = fresh
  BY <1>5, <1>7
<1>9. ASSUME NEW r \in Readers, r.fd # None, r.fd # d
      PROVE  DeviceInv(r.fd, r, Pending(r.fd)', queue'[r.fd], raw'[r.fd], fresh'[r.fd],
                       r.fd \in flushed', Alive(r.fd)')
  <2>1. r.fd \in Devices
    BY <1>9, ReadersAre DEF MenuInv
  <2>2. queue'[r.fd] = queue[r.fd] /\ raw'[r.fd] = raw[r.fd] /\ fresh'[r.fd] = fresh[r.fd]
    BY <1>2, <1>6, <1>8, <1>9, <2>1
  <2> QED
    BY <1>3, <1>4, <1>9, <2>2 DEF MenuInv, ListenInv
<1>10. ASSUME NEW r \in Readers, r.fd = d, d # None
       PROVE  DeviceInv(d, r, Pending(d)', queue'[d], raw'[d], fresh'[d],
                        d \in flushed', Alive(d)')
  <2>1. PICK b, q, w, f, stale, alive :
          /\ b = Pending(d) /\ q = queue[d] /\ w = raw[d] /\ f = fresh[d]
          /\ stale = (d \in flushed) /\ alive = Alive(d)
    OBVIOUS
  <2>2. /\ Reading(d, r, b, q, w, stale, alive)
        /\ Digital => Owing(d, r, b, q, w, f)
    BY <1>10, <2>1 DEF MenuInv, ListenInv, DeviceInv
  <2>3. d \in Opened
    BY <1>10 DEF Opened
  <2>4. PICK q2, z, f2 : q2 = queue'[d] /\ z = raw'[d] /\ f2 = fresh'[d]
    OBVIOUS
  <2>5. q2 = Append(q, e) \/ (q2 = <<Dropped, e>> /\ Len(q) >= 2)
    <3>1. IsStream(d, q)
      BY <2>2 DEF Reading, Shaped
    <3>2. Len(q) \in Nat
      BY <3>1, StreamParts
    <3> QED
      BY <1>6, <2>1, <2>3, <2>4, <3>2, InputAssumption
  <2>6. Reading(d, r, b, q2, z, stale, alive)
    <3>1. /\ IsRaw(d, z) /\ z[e.code] = Level(e)
          /\ \A k \in Controls(d) : k # e.code => z[k] = w[k]
      BY <1>2, <2>1, <2>4
    <3>2. q2 = Append(q, e) \/ q2 = <<Dropped, e>>
      BY <2>5
    <3> QED
      BY <1>2, <2>2, <3>1, <3>2, ReadingChanged
  <2>7. ASSUME Digital
        PROVE  Owing(d, r, b, q2, z, f2)
    <3>1. Kind[d] = "touch" => e.value # w["finger"]
      BY <1>2, <2>1, ControlsAre
    <3>2. ASSUME e \in Counted(d, c)
          PROVE  Presses(d, c, v) /\ (stage = "game" => Kind[d] = "touch")
      <4>1. IF c = "x" THEN AxisButton(v) # {} ELSE v # 0
        BY <1>2, <3>2 DEF Counted
      <4>2. Presses(d, c, v)
        <5>1. CASE c = "x"
          <6>1. v # raw[d][c]
            BY <5>1, ControlsAre DEF Change
          <6>2. v \in AxisValues /\ raw[d][c] \in AxisValues \union {Middle}
            BY <1>5, <5>1 DEF Values, IsRaw
          <6> QED
            BY <2>7, <4>1, <5>1, <6>1, <6>2 DEF Presses, Digital
        <5>2. CASE c # "x"
          BY <4>1, <5>2 DEF Presses
        <5> QED
          BY <5>1, <5>2
      <4>3. ASSUME stage = "game"
            PROVE  Kind[d] = "touch"
        <5>1. pads = <<>> /\ keyboards = <<>>
          BY <4>3 DEF MenuInv, TurnInv
        <5>2. Len(pads) = 0 /\ Len(keyboards) = 0
          BY <5>1
        <5>3. r = touch
          BY <5>2, ReadersAre DEF MenuInv
        <5> QED
          BY <1>10, <5>3 DEF MenuInv, ReadersInv
      <4> QED
        BY <4>2, <4>3
    <3>3. \A k \in Controls(d) : f2[k] >= f[k] + (IF e \in Counted(d, k) THEN 1 ELSE 0)
      <4>1. \A k \in Controls(d) : e \in Counted(d, k) => k = c
        BY <1>2 DEF Counted
      <4>2. f \in [Controls(d) -> Int] /\ f2 \in [Controls(d) -> Int]
        BY <1>5, <1>8, <2>1, <2>4
      <4>3. f2[c] >= f[c] + (IF e \in Counted(d, c) THEN 1 ELSE 0)
        BY <1>8, <2>1, <2>3, <2>4, <3>2, <4>2
      <4>4. \A k \in Controls(d) : k # c => f2[k] >= f[k] + 0
        BY <1>8, <2>1, <2>4, <4>2
      <4> QED
        BY <4>1, <4>3, <4>4
    <3>4. f2 \in [Controls(d) -> Int]
      BY <1>8, <2>4
    <3> QED
      BY <1>2, <2>2, <2>5, <2>7, <3>1, <3>3, <3>4, OwingChanged
  <2> QED
    BY <1>3, <1>4, <2>1, <2>4, <2>6, <2>7 DEF DeviceInv
<1>11. \A g \in Devices : IsRaw(g, raw'[g]) /\ fresh'[g] \in [Controls(g) -> Int]
  BY <1>2, <1>5, <1>8
<1>12. \A g \in Devices \ Opened' : fresh'[g] = fresh[g]
  BY <1>4, <1>8
<1>13. DOMAIN queue' = Devices
  BY <1>5, <1>6
<1> QED
  BY <1>2, <1>4, <1>8, <1>9, <1>10, <1>11, <1>12, <1>13, MenuStep


\* With nothing read, nothing is to be looked at.
LEMMA NothingPending ==
  ASSUME batch = <<>> \/ ready = {}
  PROVE  \A e : Pending(e) = <<>>
  BY DEF Pending, IsNext

\* The poll tells which devices are to be read.
LEMMA PollKeeps == ASSUME MenuInv, Poll PROVE MenuInv'
<1>1. /\ stage = "poll" /\ batch' = <<>> /\ stage' = "read"
      /\ UNCHANGED <<attached, raw, queue, flushed, fresh, pads, keyboards, touch>>
  BY DEF Poll, world, readers
<1>2. ready = {}
  BY <1>1 DEF MenuInv, TurnInv
<1>3. (\A e : Pending(e) = <<>>) /\ (\A e : Pending(e)' = <<>>)
  <2>1. \A e : Pending(e) = <<>>
    BY <1>2, NothingPending
  <2>2. \A e : Pending(e)' = <<>>
    BY <1>1 DEF Pending
  <2> QED
    BY <2>1, <2>2
<1>4. WorldInv'
  BY <1>1 DEF MenuInv, WorldInv, PlacesInv, Alive
<1>5. ReadersInv' /\ TurnInv'
  BY <1>1 DEF MenuInv, ReadersInv, OneEach, TurnInv
<1>6. Readers' = Readers /\ \A e : Alive(e)' = Alive(e)
  BY <1>1 DEF Readers, Alive
<1>7. ListenInv'
  BY <1>1, <1>3, <1>6 DEF MenuInv, ListenInv
<1> QED
  BY <1>4, <1>5, <1>7 DEF MenuInv

\* The reader whose turn it is.
LEMMA NextIsOpened ==
  ASSUME MenuInv, NEW d \in Devices, IsNext(d)
  PROVE  /\ Reader(d) \in Readers /\ Reader(d).fd = d /\ d # None
         /\ d \in Opened /\ d \in ready /\ Pending(d) = batch
         /\ \A e : e # d => Pending(e) = <<>>
         /\ Kind[d] = "touch" => Reader(d) \in TouchReader
         /\ Kind[d] = "pad" => Reader(d) \in PadReader
         /\ Kind[d] = "keyboard" => Reader(d) \in KeyboardReader
         /\ DeviceInv(d, Reader(d), batch, queue[d], raw[d], fresh[d],
                      d \in flushed, Alive(d))
<1>1. PICK i \in DOMAIN ReadOrder : ReadOrder[i].fd = d /\ d \in ready
  BY DEF IsNext
<1>2. /\ pads \in Seq(PadReader) /\ keyboards \in Seq(KeyboardReader)
      /\ touch \in TouchReader
  BY DEF MenuInv, ReadersInv
<1>3. PICK m \in Nat, n \in Nat : m = Len(pads) /\ n = Len(keyboards)
  BY <1>2, OrderIs
<1>4. /\ DOMAIN ReadOrder = 1 .. m + n + 1
      /\ \A j \in 1 .. m : ReadOrder[j] = pads[j]
      /\ \A j \in 1 .. n : ReadOrder[m + j] = keyboards[j]
      /\ ReadOrder[m + n + 1] = touch
  BY <1>2, <1>3, OrderIs DEF ReadOrder
<1>5. PICK r \in Readers : r.fd = d
  <2>1. CASE i \in 1 .. m
    <3>1. ReadOrder[i] \in Readers
      BY <1>3, <1>4, <2>1, ReadersAre DEF MenuInv
    <3> QED
      BY <1>1, <3>1
  <2>2. CASE i \in m + 1 .. m + n
    <3>1. i - m \in 1 .. n /\ m + (i - m) = i
      BY <2>2
    <3>2. ReadOrder[i] = keyboards[i - m]
      BY <1>4, <3>1
    <3>3. keyboards[i - m] \in Readers
      BY <1>3, <3>1, ReadersAre DEF MenuInv
    <3> QED
      BY <1>1, <3>2, <3>3
  <2>3. CASE i = m + n + 1
    <3>1. touch \in Readers
      BY ReadersAre DEF MenuInv
    <3> QED
      BY <1>1, <1>4, <2>3, <3>1
  <2> QED
    BY <1>3, <1>4, <2>1, <2>2, <2>3
<1>6. d # None
  BY InputAssumption
<1>7. Reader(d) = r /\ d \in Opened
  BY <1>5, <1>6, ReaderIs DEF MenuInv
<1>8. Pending(d) = batch
  BY DEF Pending
<1>9. \A e : e # d => Pending(e) = <<>>
  BY OneIsNext DEF Pending, MenuInv
<1>10. DeviceInv(d, r, batch, queue[d], raw[d], fresh[d], d \in flushed, Alive(d))
  BY <1>5, <1>6, <1>8 DEF MenuInv, ListenInv
<1>11. /\ Kind[d] = "touch" => r \in TouchReader
       /\ Kind[d] = "pad" => r \in PadReader
       /\ Kind[d] = "keyboard" => r \in KeyboardReader
  BY <1>10 DEF DeviceInv, Reading, IsReader
<1> QED
  BY <1>1, <1>5, <1>6, <1>7, <1>8, <1>9, <1>10, <1>11

\* A device whose reader is closed is forgotten, the others are read on.
LEMMA ForgetIs ==
  ASSUME WorldInv, NEW devices, Forget(devices)
  PROVE  /\ DOMAIN queue' = Devices /\ DOMAIN fresh' = Devices
         /\ flushed' = flushed \ devices
         /\ \A e \in Devices :
              /\ e \in devices =>
                   queue'[e] = <<>> /\ fresh'[e] = [c \in Controls(e) |-> 0]
              /\ e \notin devices => queue'[e] = queue[e] /\ fresh'[e] = fresh[e]
              /\ fresh'[e] \in [Controls(e) -> Int]
<1>1. \A e \in Devices : fresh[e] \in [Controls(e) -> Int]
  BY DEF WorldInv
<1>2. \A e \in Devices : [c \in Controls(e) |-> 0] \in [Controls(e) -> Int]
  OBVIOUS
<1>3. /\ queue' = [d \in Devices |-> IF d \in devices THEN <<>> ELSE queue[d]]
      /\ fresh' = [d \in Devices |->
                     IF d \in devices THEN [c \in Controls(d) |-> 0] ELSE fresh[d]]
      /\ flushed' = flushed \ devices
  BY DEF Forget
<1> QED
  BY <1>1, <1>2, <1>3

\* A reader that fails is closed.
LEMMA FailKeeps ==
  ASSUME MenuInv, NEW d \in Devices, IsNext(d), Fail(d), stage = "read",
         UNCHANGED <<attached, raw, stage>>
  PROVE  MenuInv'
<1>1. PICK r : r = Reader(d)
  OBVIOUS
<1>2. /\ Kind[d] \in {"touch", "pad", "keyboard"}
      /\ r \in Readers /\ r.fd = d /\ d # None /\ d \in Opened
      /\ \A e : e # d => Pending(e) = <<>>
      /\ Kind[d] = "pad" => r \in PadReader
      /\ Kind[d] = "keyboard" => r \in KeyboardReader
  BY <1>1, NextIsOpened, ControlsAre
<1>3. PICK t : t = IF Kind[d] = "touch" THEN ClosedTouch
                   ELSE [r EXCEPT !.fd = None, !.state = {}]
  OBVIOUS
<1>4. Put(d, t) /\ ready' = ready \ {d} /\ batch' = <<>> /\ Forget({d})
  BY <1>1, <1>3 DEF Fail
<1>5. /\ t.fd = None
      /\ Kind[d] = "touch" => t \in TouchReader
      /\ Kind[d] = "pad" => t \in PadReader
      /\ Kind[d] = "keyboard" => t \in KeyboardReader
  BY <1>2, <1>3 DEF ClosedTouch, TouchReader, PadReader, KeyboardReader
<1>6. /\ ReadersInv'
      /\ \A s \in Readers' : s.fd # None => s \in Readers /\ s.fd # d
  BY <1>2, <1>4, <1>5, PutKeeps DEF MenuInv
<1>7. /\ DOMAIN queue' = Devices /\ DOMAIN fresh' = Devices /\ flushed' = flushed \ {d}
      /\ \A e \in Devices :
           /\ e # d => queue'[e] = queue[e] /\ fresh'[e] = fresh[e]
           /\ e = d => fresh'[e] = [c \in Controls(e) |-> 0]
           /\ fresh'[e] \in [Controls(e) -> Int]
  BY <1>4, ForgetIs DEF MenuInv
<1>8. /\ PlacesInv' /\ DOMAIN raw' = Devices /\ \A e \in Devices : IsRaw(e, raw'[e])
      /\ \A e : Alive(e)' = Alive(e)
  BY DEF MenuInv, WorldInv, PlacesInv, Alive
<1>9. TurnInv'
  BY DEF TurnInv
<1>10. ASSUME NEW s \in Readers', s.fd # None
       PROVE  DeviceInv(s.fd, s, Pending(s.fd)', queue'[s.fd], raw'[s.fd], fresh'[s.fd],
                        s.fd \in flushed', Alive(s.fd)')
  <2>1. s \in Readers /\ s.fd # d /\ s.fd \in Devices
    BY <1>6, <1>10, ReadersAre DEF MenuInv
  <2>2. Pending(s.fd)' = <<>> /\ Pending(s.fd) = <<>>
    BY <1>2, <1>4, <2>1 DEF Pending
  <2>3. /\ queue'[s.fd] = queue[s.fd] /\ fresh'[s.fd] = fresh[s.fd] /\ raw' = raw
        /\ (s.fd \in flushed') = (s.fd \in flushed)
    BY <1>7, <2>1
  <2>4. DeviceInv(s.fd, s, Pending(s.fd), queue[s.fd], raw[s.fd], fresh[s.fd],
                  s.fd \in flushed, Alive(s.fd))
    BY <1>10, <2>1 DEF MenuInv, ListenInv
  <2> QED
    BY <1>8, <2>2, <2>3, <2>4
<1> QED
  BY <1>6, <1>7, <1>8, <1>9, <1>10, MenuStep

\* What a read takes from the kernel is what will be looked at.
LEMMA ReadKeeps == ASSUME MenuInv, NEW d \in Devices, Read(d) PROVE MenuInv'
<1>1. /\ stage = "read" /\ IsNext(d) /\ batch = <<>>
      /\ UNCHANGED <<attached, raw, stage>>
  BY DEF Read, world
<1>2. CASE ~Alive(d) /\ Fail(d)
  BY <1>1, <1>2, FailKeeps
<1>3. CASE ready' = ready \ {d} /\ UNCHANGED <<batch, readers, queue, fresh, flushed>>
  <2>1. UNCHANGED <<pads, keyboards, touch, queue, fresh, flushed>> /\ batch' = <<>>
    BY <1>1, <1>3 DEF readers
  <2>2. (\A e : Pending(e) = <<>>) /\ (\A e : Pending(e)' = <<>>)
    <3>1. \A e : Pending(e) = <<>>
      BY <1>1, NothingPending
    <3>2. \A e : Pending(e)' = <<>>
      BY <2>1 DEF Pending
    <3> QED
      BY <3>1, <3>2
  <2>3. WorldInv'
    BY <1>1, <2>1 DEF MenuInv, WorldInv, PlacesInv, Alive
  <2>4. ReadersInv' /\ TurnInv'
    BY <1>1, <2>1 DEF MenuInv, ReadersInv, OneEach, TurnInv
  <2>5. Readers' = Readers /\ \A e : Alive(e)' = Alive(e)
    BY <1>1, <2>1 DEF Readers, Alive
  <2>6. ListenInv'
    BY <1>1, <2>1, <2>2, <2>5 DEF MenuInv, ListenInv
  <2> QED
    BY <2>3, <2>4, <2>6 DEF MenuInv
<1>4. CASE /\ Alive(d) /\ queue[d] # <<>>
           /\ LET n == IF Len(queue[d]) > BatchSize THEN BatchSize ELSE Len(queue[d])
              IN /\ batch' = SubSeq(queue[d], 1, n)
                 /\ queue' = [queue EXCEPT ![d] = SubSeq(@, n + 1, Len(@))]
           /\ UNCHANGED <<ready, readers, fresh, flushed>>
  <2>1. UNCHANGED <<pads, keyboards, touch, ready, fresh, flushed>>
    BY <1>4 DEF readers
  <2>2. PICK r, q, w, f, stale, alive :
          /\ r = Reader(d) /\ q = queue[d] /\ w = raw[d] /\ f = fresh[d]
          /\ stale = (d \in flushed) /\ alive = Alive(d)
    OBVIOUS
  <2>3. /\ r \in Readers /\ r.fd = d /\ d # None /\ d \in Opened
        /\ Reading(d, r, <<>>, q, w, stale, alive)
        /\ Digital => Owing(d, r, <<>>, q, w, f)
    BY <1>1, <2>2, NextIsOpened DEF DeviceInv
  <2>4. PICK n : n = IF Len(q) > BatchSize THEN BatchSize ELSE Len(q)
    OBVIOUS
  <2>5. n \in 1 .. Len(q)
    <3>1. IsStream(d, q)
      BY <2>3 DEF Reading, Shaped
    <3>2. Len(q) \in Nat /\ Len(q) > 0
      BY <1>4, <2>2, <3>1 DEF IsStream
    <3> QED
      BY <2>4, <3>2, InputAssumption
  <2>6. DOMAIN queue = Devices
    BY DEF MenuInv, WorldInv
  <2>7. /\ batch' = SubSeq(q, 1, n) /\ DOMAIN queue' = Devices
        /\ queue'[d] = SubSeq(q, n + 1, Len(q))
        /\ \A e \in Devices : e # d => queue'[e] = queue[e]
    BY <1>4, <2>2, <2>4, <2>6
  <2>8. DeviceInv(d, r, batch', queue'[d], w, f, stale, alive)
    <3>1. q # <<>>
      BY <1>4, <2>2
    <3>2. Reading(d, r, SubSeq(q, 1, n), SubSeq(q, n + 1, Len(q)), w, stale, alive)
      BY <2>3, <2>5, <3>1, ReadingRead
    <3>3. Digital => Owing(d, r, SubSeq(q, 1, n), SubSeq(q, n + 1, Len(q)), w, f)
      BY <2>3, <2>5, <3>1, OwingRead
    <3> QED
      BY <2>7, <3>2, <3>3 DEF DeviceInv
  <2>9. /\ Readers' = Readers /\ Opened' = Opened /\ \A e : IsNext(e)' = IsNext(e)
        /\ \A e : Alive(e)' = Alive(e)
    BY <1>1, <2>1 DEF Readers, Opened, IsNext, ReadOrder, Alive
  <2>10. /\ \A e : e # d => Pending(e)' = <<>> /\ Pending(e) = <<>>
         /\ Pending(d)' = batch'
    <3>1. \A e : e # d => ~IsNext(e)
      BY <1>1, OneIsNext DEF MenuInv
    <3> QED
      BY <1>1, <2>9, <3>1 DEF Pending
  <2>11. ASSUME NEW s \in Readers', s.fd # None
         PROVE  DeviceInv(s.fd, s, Pending(s.fd)', queue'[s.fd], raw'[s.fd], fresh'[s.fd],
                          s.fd \in flushed', Alive(s.fd)')
    <3>1. s \in Readers /\ s.fd \in Devices
      BY <2>9, <2>11, ReadersAre DEF MenuInv
    <3>2. CASE s.fd = d
      <4>1. s = r
        BY <2>2, <2>11, <3>1, <3>2, ReaderIs DEF MenuInv
      <4> QED
        BY <1>1, <2>1, <2>2, <2>8, <2>9, <2>10, <3>2, <4>1
    <3>3. CASE s.fd # d
      <4>1. DeviceInv(s.fd, s, Pending(s.fd), queue[s.fd], raw[s.fd], fresh[s.fd],
                      s.fd \in flushed, Alive(s.fd))
        BY <2>11, <3>1 DEF MenuInv, ListenInv
      <4> QED
        BY <1>1, <2>1, <2>7, <2>9, <2>10, <3>1, <3>3, <4>1
    <3> QED
      BY <3>2, <3>3
  <2>12. ReadersInv' /\ TurnInv' /\ PlacesInv'
    BY <1>1, <2>1 DEF MenuInv, ReadersInv, OneEach, TurnInv, WorldInv, PlacesInv, Alive
  <2>13. /\ DOMAIN raw' = Devices /\ DOMAIN fresh' = Devices /\ fresh' = fresh
         /\ \A e \in Devices : IsRaw(e, raw'[e]) /\ fresh'[e] \in [Controls(e) -> Int]
    BY <1>1, <2>1 DEF MenuInv, WorldInv
  <2> QED
    BY <2>7, <2>11, <2>12, <2>13, MenuStep
<1> QED
  BY <1>2, <1>3, <1>4 DEF Read


\* The buttons of a controller; one is pressed by the control that changed.
LEMMA PadStateIs ==
  ASSUME NEW controls \in [PadKeys \union {"x"} -> Int]
  PROVE  /\ PadState(controls) \subseteq Buttons
         /\ \A code \in PadKeys \union {"x"}, v \in Int :
              \/ PadState([controls EXCEPT ![code] = v]) \subseteq PadState(controls)
              \/ (IF code = "x" THEN AxisButton(v) # {} ELSE v # 0)
<1>1. \A v : AxisButton(v) \subseteq Buttons
  BY DEF AxisButton, Buttons
<1>2. \A code : PadButton(code) \subseteq Buttons
  BY DEF PadButton, Buttons
<1>3. PadState(controls) \subseteq Buttons
  BY <1>1, <1>2 DEF PadState
<1>4. ASSUME NEW code \in PadKeys \union {"x"}, NEW v \in Int,
             ~(IF code = "x" THEN AxisButton(v) # {} ELSE v # 0)
      PROVE  PadState([controls EXCEPT ![code] = v]) \subseteq PadState(controls)
  <2>1. "x" \notin PadKeys
    BY InputAssumption
  <2>2. PICK z : z = [controls EXCEPT ![code] = v]
    OBVIOUS
  <2>3. CASE code = "x"
    <3>1. z["x"] = v /\ \A c \in PadKeys : z[c] = controls[c]
      BY <2>1, <2>2, <2>3
    <3>2. AxisButton(v) = {}
      BY <1>4, <2>3
    <3>3. {c \in PadKeys : z[c] # 0} = {c \in PadKeys : controls[c] # 0}
      BY <3>1
    <3> QED
      BY <2>2, <3>1, <3>2, <3>3 DEF PadState
  <2>4. CASE code # "x"
    <3>1. z["x"] = controls["x"]
      BY <2>2, <2>4
    <3>2. {c \in PadKeys : z[c] # 0} \subseteq {c \in PadKeys : controls[c] # 0}
      BY <1>4, <2>2, <2>4
    <3> QED
      BY <2>2, <3>1, <3>2 DEF PadState
  <2> QED
    BY <2>3, <2>4
<1> QED
  BY <1>3, <1>4

\* What the device is asked for is what its controls are.
LEMMA SnapshotIs ==
  ASSUME WorldInv, NEW d \in Devices
  PROVE  /\ Snapshot(d) \in [Kept(d) -> Int]
         /\ \A c \in Kept(d) : Snapshot(d)[c] = raw[d][c]
         /\ Kind[d] = "pad" => Snapshot(d) = raw[d]
         /\ Kind[d] = "pad" => PadState(raw[d]) \subseteq Buttons
         /\ attached[d].path \in Nat /\ attached[d].port \in Nat
<1>1. raw[d] \in [Controls(d) -> Int] /\ Kept(d) \subseteq Controls(d)
  BY ControlsAre DEF WorldInv, IsRaw
<1>2. /\ Snapshot(d) \in [Kept(d) -> Int]
      /\ \A c \in Kept(d) : Snapshot(d)[c] = raw[d][c]
  BY <1>1 DEF Snapshot
<1>3. Kind[d] = "pad" => Snapshot(d) = raw[d] /\ raw[d] \in [PadKeys \union {"x"} -> Int]
  <2> SUFFICES ASSUME Kind[d] = "pad"
               PROVE  Snapshot(d) = raw[d] /\ raw[d] \in [PadKeys \union {"x"} -> Int]
    OBVIOUS
  <2>1. Controls(d) = PadKeys \union {"x"} /\ Kept(d) = Controls(d)
    BY ControlsAre
  <2> QED
    BY <1>1, <2>1 DEF Snapshot
<1>4. Kind[d] = "pad" => PadState(raw[d]) \subseteq Buttons
  BY <1>3, PadStateIs
<1>5. attached[d].path \in Nat /\ attached[d].port \in Nat
  BY DEF WorldInv, PlacesInv
<1> QED
  BY <1>2, <1>3, <1>4, <1>5

\* A reader that is opened knows its device.
LEMMA OpeningIs ==
  ASSUME WorldInv, NEW d \in Devices, Kind[d] # "touch"
  PROVE  /\ IsReader(d, Opening(d)) /\ Opening(d).dropping = FALSE /\ Opening(d).fd = d
         /\ Kind[d] = "pad" => Opening(d) \in PadReader
         /\ Kind[d] = "keyboard" => Opening(d) \in KeyboardReader
         /\ \A c \in Kept(d) : Agrees(d, Opening(d), c, raw[d][c])
<1>1. PICK r, s : r = Opening(d) /\ s = Snapshot(d)
  OBVIOUS
<1>2. /\ s \in [Kept(d) -> Int] /\ \A c \in Kept(d) : s[c] = raw[d][c]
      /\ Kind[d] = "pad" => s = raw[d] /\ PadState(s) \subseteq Buttons
      /\ attached[d].path \in Nat /\ attached[d].port \in Nat
  BY <1>1, SnapshotIs
<1>3. r = [fd |-> d, path |-> attached[d].path, port |-> attached[d].port,
           controls |-> s, dropping |-> FALSE,
           state |-> IF Kind[d] = "pad" THEN PadState(raw[d]) ELSE {}]
  BY <1>1 DEF Opening
<1>4. \A c \in Kept(d) : Agrees(d, r, c, raw[d][c])
  BY <1>2, <1>3 DEF Agrees
<1>5. /\ Kind[d] = "pad" => r \in PadReader /\ r.state = PadState(r.controls)
      /\ Kind[d] = "keyboard" => r \in KeyboardReader
  BY <1>2, <1>3, ControlsAre DEF PadReader, KeyboardReader
<1>6. IsReader(d, r) /\ r.dropping = FALSE /\ r.fd = d
  BY <1>3, <1>5 DEF IsReader
<1> QED
  BY <1>1, <1>4, <1>5, <1>6

\* And so does that of the touchscreen.
LEMMA OpeningTouchIs ==
  ASSUME WorldInv, NEW d \in Devices, Kind[d] = "touch"
  PROVE  /\ IsReader(d, OpeningTouch(d)) /\ OpeningTouch(d) \in TouchReader
         /\ OpeningTouch(d).fd = d /\ OpeningTouch(d).dropping = FALSE
         /\ OpeningTouch(d).reported = (raw[d]["finger"] # 0)
         /\ \A c \in Kept(d) : Agrees(d, OpeningTouch(d), c, raw[d][c])
<1>1. Kept(d) = {"finger"}
  BY ControlsAre
<1> QED
  BY <1>1 DEF OpeningTouch, IsReader, TouchReader, Agrees

\* What one report does to a reader.
LEMMA EffectIs ==
  ASSUME NEW d \in Devices, NEW e \in Reports(d), NEW r, r = Reader(d), IsReader(d, r),
         NEW r2, r2 = Effect(d, e).reader, NEW press, press = Effect(d, e).press
  PROVE  /\ IsReader(d, r2) /\ r2.dropping = r.dropping
         /\ \A c \in Kept(d) : e.code = c => Agrees(d, r2, c, Level(e))
         /\ \A c \in Kept(d) : \A v : e.code # c /\ Agrees(d, r, c, v) => Agrees(d, r2, c, v)
         /\ Kind[d] # "touch" /\ press # {} => e \in Counted(d, e.code)
         /\ Kind[d] = "touch" => /\ r2.reported = (e.value # 0)
                                 /\ press # {} <=> e.value # 0 /\ ~r.reported
<1>1. /\ e.code \in Controls(d) /\ e.value \in Int
      /\ e.code # "x" => e.value \in 0 .. 2 /\ (e.value = 2 => Kind[d] = "keyboard")
  BY DEF Reports
<1>2. CASE Kind[d] = "touch"
  <2>1. /\ r2 = [r EXCEPT !.down = e.value # 0, !.reported = e.value # 0]
        /\ press = IF e.value # 0 /\ ~r.reported THEN {"touch"} ELSE {}
    BY <1>2 DEF Effect, TouchEvent
  <2>2. /\ Kept(d) = {"finger"} /\ e.code = "finger" /\ Level(e) = e.value
        /\ r \in TouchReader /\ r.fd = d
    BY <1>1, <1>2, ControlsAre DEF Level, IsReader
  <2>3. r2 \in TouchReader /\ r2.fd = d /\ r2.dropping = r.dropping
        /\ r2.down = (e.value # 0) /\ r2.reported = (e.value # 0)
    BY <2>1, <2>2 DEF TouchReader
  <2> QED
    BY <1>2, <2>1, <2>2, <2>3 DEF IsReader, Agrees
<1>3. CASE Kind[d] = "pad"
  <2>1. PICK controls : controls = [r.controls EXCEPT ![e.code] = e.value]
    OBVIOUS
  <2>2. /\ r2 = [r EXCEPT !.controls = controls, !.state = PadState(controls)]
        /\ press = PadState(controls) \ r.state
    BY <1>3, <2>1 DEF Effect, PadEvent
  <2>3. /\ Kept(d) = PadKeys \union {"x"} /\ Controls(d) = PadKeys \union {"x"}
        /\ r \in PadReader /\ r.fd = d /\ r.state = PadState(r.controls)
        /\ r.controls \in [PadKeys \union {"x"} -> Int]
    BY <1>3, ControlsAre DEF IsReader, PadReader
  <2>4. /\ controls \in [PadKeys \union {"x"} -> Int]
        /\ controls[e.code] = e.value
        /\ \A c \in Kept(d) : c # e.code => controls[c] = r.controls[c]
    BY <1>1, <2>1, <2>3
  <2>5. PadState(controls) \subseteq Buttons
    BY <2>4, PadStateIs
  <2>6. /\ r2 \in PadReader /\ r2.fd = d /\ r2.dropping = r.dropping
        /\ r2.controls = controls /\ r2.state = PadState(controls)
    BY <2>2, <2>3, <2>4, <2>5 DEF PadReader
  <2>7. Level(e) = e.value
    BY <1>1, <1>3 DEF Level
  <2>8. ASSUME press # {}
        PROVE  e \in Counted(d, e.code)
    <3>1. ~(PadState(controls) \subseteq PadState(r.controls))
      BY <2>2, <2>3, <2>8
    <3>2. IF e.code = "x" THEN AxisButton(e.value) # {} ELSE e.value # 0
      BY <1>1, <2>1, <2>3, <3>1, PadStateIs
    <3> QED
      BY <3>2 DEF Counted
  <2> QED
    BY <1>3, <2>4, <2>6, <2>7, <2>8 DEF IsReader, Agrees
<1>4. CASE Kind[d] = "keyboard"
  <2>1. PICK controls :
          controls = [c \in DOMAIN r.controls |->
                        IF c # e.code THEN r.controls[c] ELSE IF e.value # 0 THEN 1 ELSE 0]
    OBVIOUS
  <2>2. /\ r2 = [r EXCEPT !.controls = controls]
        /\ \E shift : press = KeyEventButton(e.code, e.value, shift)
    BY <1>4, <2>1 DEF Effect, KeyboardEvent
  <2>3. /\ Kept(d) = Shifts \intersect Keys /\ r \in KeyboardReader /\ r.fd = d
        /\ r.controls \in [Shifts \intersect Keys -> Int] /\ e.code # "x"
    BY <1>1, <1>4, ControlsAre DEF IsReader, KeyboardReader
  <2>4. /\ controls \in [Shifts \intersect Keys -> Int]
        /\ \A c \in Kept(d) :
             controls[c] = IF c # e.code THEN r.controls[c] ELSE IF e.value # 0 THEN 1 ELSE 0
    BY <2>1, <2>3
  <2>5. /\ r2 \in KeyboardReader /\ r2.fd = d /\ r2.dropping = r.dropping
        /\ r2.controls = controls
    BY <2>2, <2>3, <2>4 DEF KeyboardReader
  <2>6. Level(e) = IF e.value # 0 THEN 1 ELSE 0
    BY <1>1, <2>3 DEF Level
  <2>7. ASSUME press # {}
        PROVE  e \in Counted(d, e.code)
    <3>1. e.value # 0
      BY <2>2, <2>7 DEF KeyEventButton
    <3> QED
      BY <2>3, <3>1 DEF Counted
  <2> QED
    BY <1>4, <2>4, <2>5, <2>6, <2>7 DEF IsReader, Agrees
<1> QED
  BY <1>2, <1>3, <1>4, ControlsAre

\* What asking the device does to a reader.
LEMMA ResynchronizedIs ==
  ASSUME WorldInv, NEW d \in Devices, NEW r, r = Reader(d), IsReader(d, r),
         Alive(d) \/ Kind[d] = "touch",
         NEW r2, r2 = Resynchronized(d).reader, NEW press, press = Resynchronized(d).press
  PROVE  /\ IsReader(d, r2) /\ r2.dropping = FALSE
         /\ Alive(d) => \A c \in Kept(d) : Agrees(d, r2, c, raw[d][c])
         /\ Kind[d] # "touch" => press = {}
         /\ Kind[d] = "touch" /\ Alive(d) =>
              /\ r2.reported = (raw[d]["finger"] # 0)
              /\ press # {} <=> raw[d]["finger"] # 0 /\ ~r.reported
         /\ Kind[d] = "touch" /\ ~Alive(d) => r2.reported = r.reported /\ press = {}
<1>1. r.fd = d
  BY DEF IsReader
<1>2. CASE Kind[d] = "touch" /\ Alive(d)
  <2>1. /\ r2 = OpeningTouch(d)
        /\ press = IF raw[d]["finger"] # 0 /\ ~r.reported THEN {"touch"} ELSE {}
    BY <1>1, <1>2 DEF Resynchronized, ResynchronizedTouch
  <2> QED
    BY <1>2, <2>1, OpeningTouchIs
<1>3. CASE Kind[d] = "touch" /\ ~Alive(d)
  <2>1. r \in TouchReader /\ r.down = r.reported
    BY <1>3 DEF IsReader
  <2>2. /\ r2 = [r EXCEPT !.dropping = FALSE, !.reported = r.down]
        /\ press = IF r.down /\ ~r.reported THEN {"touch"} ELSE {}
    BY <1>1, <1>3 DEF Resynchronized, ResynchronizedTouch
  <2>3. /\ r2 \in TouchReader /\ r2.fd = d /\ r2.dropping = FALSE
        /\ r2.reported = r.reported /\ r2.down = r2.reported /\ press = {}
    BY <1>1, <2>1, <2>2 DEF TouchReader
  <2> QED
    BY <1>3, <2>3 DEF IsReader
<1>4. CASE Kind[d] = "pad"
  <2>1. PICK s : s = Snapshot(d)
    OBVIOUS
  <2>2. /\ r2 = [r EXCEPT !.controls = s, !.dropping = FALSE, !.state = PadState(raw[d])]
        /\ press = {}
    BY <1>1, <1>4, <2>1 DEF Resynchronized, ResynchronizedPad
  <2>3. /\ s \in [PadKeys \union {"x"} -> Int] /\ s = raw[d]
        /\ PadState(raw[d]) \subseteq Buttons /\ r \in PadReader
    BY <1>4, <2>1, SnapshotIs, ControlsAre DEF IsReader
  <2>4. /\ r2 \in PadReader /\ r2.fd = d /\ r2.dropping = FALSE
        /\ r2.controls = raw[d] /\ r2.state = PadState(raw[d])
    BY <1>1, <2>2, <2>3 DEF PadReader
  <2> QED
    BY <1>4, <2>2, <2>4 DEF IsReader, Agrees
<1>5. CASE Kind[d] = "keyboard"
  <2>1. PICK s : s = Snapshot(d)
    OBVIOUS
  <2>2. r2 = [r EXCEPT !.controls = s, !.dropping = FALSE] /\ press = {}
    BY <1>1, <1>5, <2>1 DEF Resynchronized, ResynchronizedKeyboard
  <2>3. /\ s \in [Shifts \intersect Keys -> Int] /\ r \in KeyboardReader
        /\ \A c \in Kept(d) : s[c] = raw[d][c]
    BY <1>5, <2>1, SnapshotIs, ControlsAre DEF IsReader
  <2>4. r2 \in KeyboardReader /\ r2.fd = d /\ r2.dropping = FALSE /\ r2.controls = s
    BY <1>1, <2>2, <2>3 DEF KeyboardReader
  <2> QED
    BY <1>5, <2>2, <2>3, <2>4 DEF IsReader, Agrees
<1> QED
  BY <1>2, <1>3, <1>4, <1>5, ControlsAre


\* A report that was looked at: one reader goes on, the others are as they were.
LEMMA LookedAt ==
  ASSUME MenuInv, NEW d \in Devices, IsNext(d), stage = "read",
         NEW t, Put(d, t), IsReader(d, t), batch' = Tail(batch),
         UNCHANGED <<attached, raw, stage, ready>>,
         DOMAIN queue' = Devices, \A e \in Devices : e # d => queue'[e] = queue[e],
         DOMAIN fresh' = Devices, \A e \in Devices : e # d => fresh'[e] = fresh[e],
         fresh'[d] \in [Controls(d) -> Int],
         \A e : e # d => (e \in flushed' <=> e \in flushed),
         DeviceInv(d, t, Tail(batch), queue'[d], raw[d], fresh'[d], d \in flushed', Alive(d))
  PROVE  MenuInv'
<1>1. /\ t.fd = d /\ d # None
      /\ Kind[d] = "touch" => t \in TouchReader
      /\ Kind[d] = "pad" => t \in PadReader
      /\ Kind[d] = "keyboard" => t \in KeyboardReader
  BY InputAssumption DEF IsReader
<1>2. d \in Opened /\ \A e : e # d => Pending(e) = <<>>
  BY NextIsOpened
<1>3. /\ ReadersInv'
      /\ \A s \in Readers' : s.fd # None => s = t \/ (s \in Readers /\ s.fd # d)
      /\ \A e : IsNext(e)' <=> IsNext(e)
  BY <1>1, <1>2, PutKeeps DEF MenuInv
<1>4. \A e : e # d => Pending(e)' = <<>>
  <2>1. \A e : e # d => ~IsNext(e)
    BY OneIsNext DEF MenuInv
  <2> QED
    BY <1>3, <2>1 DEF Pending
<1>5. Pending(d)' = Tail(batch)
  BY <1>3 DEF Pending
<1>6. TurnInv' /\ PlacesInv' /\ DOMAIN raw' = Devices /\ \A e : Alive(e)' = Alive(e)
  BY DEF MenuInv, TurnInv, WorldInv, PlacesInv, Alive
<1>7. \A e \in Devices : IsRaw(e, raw'[e]) /\ fresh'[e] \in [Controls(e) -> Int]
  BY DEF MenuInv, WorldInv
<1>8. \A e \in Devices \ Opened' : fresh'[e] = fresh[e]
  <2>1. d \in Opened'
    <3>1. PICK r \in Readers : r.fd = d
      BY <1>2 DEF Opened
    <3>2. /\ \/ \E i \in 1 .. Len(pads) : r = pads[i]
             \/ \E i \in 1 .. Len(keyboards) : r = keyboards[i]
             \/ r = touch
          /\ \A i \in 1 .. Len(pads) : pads[i].fd = d => Kind[d] = "pad"
          /\ \A i \in 1 .. Len(keyboards) : keyboards[i].fd = d => Kind[d] = "keyboard"
          /\ touch.fd = d => Kind[d] = "touch"
      <4>1. ReadersInv
        BY DEF MenuInv
      <4>2. \/ \E i \in 1 .. Len(pads) : r = pads[i]
            \/ \E i \in 1 .. Len(keyboards) : r = keyboards[i]
            \/ r = touch
        BY <3>1, <4>1, ReadersAre
      <4>3. /\ \A i \in 1 .. Len(pads) : pads[i].fd = d => Kind[d] = "pad"
            /\ \A i \in 1 .. Len(keyboards) : keyboards[i].fd = d => Kind[d] = "keyboard"
            /\ touch.fd = d => Kind[d] = "touch"
        BY <1>1, <4>1 DEF ReadersInv, OneEach
      <4> QED
        BY <4>2, <4>3
    <3>3. t \in Readers'
      <4>1. CASE Kind[d] = "touch"
        <5>1. touch' = t /\ touch' \in Readers'
          BY <4>1 DEF Put, Readers
        <5> QED
          BY <5>1
      <4>2. CASE Kind[d] = "pad"
        <5>1. PICK i \in 1 .. Len(pads) : r = pads[i]
          BY <3>1, <3>2, <4>2
        <5>2. pads' = SetReader(pads, d, t) /\ DOMAIN pads = 1 .. Len(pads)
          BY <4>2, LenProperties DEF Put, MenuInv, ReadersInv
        <5>3. i \in DOMAIN pads' /\ pads'[i] = t
          BY <3>1, <5>1, <5>2 DEF SetReader
        <5> QED
          BY <5>3 DEF Readers, Range
      <4>3. CASE Kind[d] = "keyboard"
        <5>1. PICK i \in 1 .. Len(keyboards) : r = keyboards[i]
          BY <3>1, <3>2, <4>3
        <5>2. /\ keyboards' = SetReader(keyboards, d, t)
              /\ DOMAIN keyboards = 1 .. Len(keyboards)
          BY <4>3, LenProperties DEF Put, MenuInv, ReadersInv
        <5>3. i \in DOMAIN keyboards' /\ keyboards'[i] = t
          BY <3>1, <5>1, <5>2 DEF SetReader
        <5> QED
          BY <5>3 DEF Readers, Range
      <4> QED
        BY <4>1, <4>2, <4>3, ControlsAre
    <3> QED
      BY <1>1, <3>3 DEF Opened
  <2> QED
    BY <2>1
<1>9. ASSUME NEW s \in Readers', s.fd # None
      PROVE  DeviceInv(s.fd, s, Pending(s.fd)', queue'[s.fd], raw'[s.fd], fresh'[s.fd],
                       s.fd \in flushed', Alive(s.fd)')
  <2>1. CASE s = t
    BY <1>1, <1>5, <1>6, <2>1
  <2>2. CASE s \in Readers /\ s.fd # d
    <3>1. s.fd \in Devices
      BY <1>9, <2>2, ReadersAre DEF MenuInv
    <3>3. DeviceInv(s.fd, s, Pending(s.fd), queue[s.fd], raw[s.fd], fresh[s.fd],
                    s.fd \in flushed, Alive(s.fd))
      BY <1>9, <2>2 DEF MenuInv, ListenInv
    <3>2. /\ Pending(s.fd)' = Pending(s.fd) /\ queue'[s.fd] = queue[s.fd]
          /\ fresh'[s.fd] = fresh[s.fd] /\ (s.fd \in flushed') = (s.fd \in flushed)
      BY <1>2, <1>4, <2>2, <3>1
    <3> QED
      BY <1>6, <3>3, <3>2
  <2> QED
    BY <1>3, <1>9, <2>1, <2>2
<1> QED
  BY <1>3, <1>6, <1>7, <1>8, <1>9, MenuStep

\* An event is a notice, or a report that the reader takes in, or it makes the
\* reader ask the device, which may fail.
LEMMA HandleEventKeeps == ASSUME MenuInv, NEW d \in Devices, HandleEvent(d) PROVE MenuInv'
<1>1. PICK r, e : r = Reader(d) /\ e = Head(batch)
  OBVIOUS
<1>2. PICK effect : effect = IF r.dropping THEN Resynchronized(d) ELSE Effect(d, e)
  OBVIOUS
<1>3. /\ stage = "read" /\ IsNext(d) /\ batch # <<>>
      /\ UNCHANGED <<attached, raw, stage>>
  BY DEF HandleEvent, world
<1>4. PICK q, w, f, stale, alive :
        q = queue[d] /\ w = raw[d] /\ f = fresh[d] /\ stale = (d \in flushed) /\ alive = Alive(d)
  OBVIOUS
<1>5. /\ Reading(d, r, batch, q, w, stale, alive)
      /\ Digital => Owing(d, r, batch, q, w, f)
      /\ IsReader(d, r) /\ IsStream(d, batch)
  BY <1>1, <1>3, <1>4, NextIsOpened DEF DeviceInv, Reading, Shaped
<1>6. /\ WorldInv /\ DOMAIN queue = Devices /\ DOMAIN fresh = Devices
      /\ f \in [Controls(d) -> Int] /\ IsRaw(d, w)
  BY <1>4 DEF MenuInv, WorldInv
<1>7. CASE /\ e = Dropped
           /\ Put(d, [r EXCEPT !.dropping = TRUE]) /\ batch' = Tail(batch)
           /\ UNCHANGED <<queue, fresh, flushed, ready, pressed, pads_due, keyboards_due>>
  <2>1. PICK t : t = [r EXCEPT !.dropping = TRUE]
    OBVIOUS
  <2>2. IsReader(d, t) /\ t.dropping = TRUE /\ (Kind[d] = "touch" => t.reported = r.reported)
    BY <1>5, <2>1, ControlsAre DEF IsReader, TouchReader, PadReader, KeyboardReader
  <2>3. Reading(d, t, Tail(batch), q, w, stale, alive)
    BY <1>1, <1>3, <1>5, <1>7, <2>2, ReadingNotice
  <2>4. Digital => Owing(d, t, Tail(batch), q, w, f)
    BY <1>1, <1>3, <1>5, <1>7, <2>2, OwingNotice
  <2>5. DeviceInv(d, t, Tail(batch), queue'[d], raw[d], fresh'[d], d \in flushed', Alive(d))
    BY <1>4, <1>7, <2>3, <2>4 DEF DeviceInv
  <2>6. Put(d, t)
    BY <1>7, <2>1
  <2> QED
    BY <1>3, <1>4, <1>6, <1>7, <2>2, <2>5, <2>6, LookedAt
<1>8. CASE Fail(d)
  BY <1>3, <1>8, FailKeeps
<1>9. CASE /\ e # Dropped
           /\ r.dropping => Alive(d) \/ Kind[d] = "touch"
           /\ Put(d, effect.reader) /\ Note(d, effect.press)
           /\ fresh' = IF effect.press = {} THEN fresh
                       ELSE [fresh EXCEPT ![d][e.code] = @ - 1]
           /\ batch' = Tail(batch)
           /\ \/ UNCHANGED <<queue, flushed>>
              \/ /\ r.dropping /\ Alive(d) /\ queue[d] # <<>>
                 /\ queue' = [queue EXCEPT ![d] = <<>>]
                 /\ flushed' = flushed \union {d}
           /\ UNCHANGED <<ready, pads_due, keyboards_due>>
  <2>1. PICK t, press, q2, f2, stale2 :
          /\ t = effect.reader /\ press = effect.press
          /\ q2 = queue'[d] /\ f2 = fresh'[d] /\ stale2 = (d \in flushed')
    OBVIOUS
  <2>2. e \in Reports(d)
    <3>1. batch \in Seq(Reports(d) \union {Dropped}) /\ Len(batch) >= 1
      BY <1>3, <1>5 DEF IsStream
    <3>2. e = batch[1] /\ 1 \in 1 .. Len(batch)
      BY <1>1, <1>3, <3>1
    <3>3. e \in Reports(d) \union {Dropped}
      BY <3>1, <3>2, ElementOfSeq
    <3> QED
      BY <1>9, <3>3
  <2>3. /\ DOMAIN queue' = Devices /\ \A g \in Devices : g # d => queue'[g] = queue[g]
        /\ \A g : g # d => (g \in flushed' <=> g \in flushed)
        /\ \/ q2 = q /\ stale2 = stale
           \/ r.dropping /\ alive /\ q2 = <<>> /\ q # <<>> /\ stale2 = TRUE
    BY <1>4, <1>6, <1>9, <2>1
  <2>4. e.code \in Controls(d)
    BY <2>2 DEF Reports
  <2>5. /\ DOMAIN fresh' = Devices /\ \A g \in Devices : g # d => fresh'[g] = fresh[g]
        /\ f2 \in [Controls(d) -> Int]
        /\ \A c \in Controls(d) : c # e.code => f2[c] = f[c]
        /\ f2[e.code] = f[e.code] - (IF press # {} THEN 1 ELSE 0)
    BY <1>4, <1>6, <1>9, <2>1, <2>4
  <2>6. ASSUME r.dropping
        PROVE  /\ IsReader(d, t) /\ t.dropping = FALSE
               /\ alive => \A c \in Kept(d) : Agrees(d, t, c, w[c])
               /\ Kind[d] # "touch" => press = {}
               /\ Kind[d] = "touch" /\ alive =>
                    /\ t.reported = (w["finger"] # 0)
                    /\ press # {} <=> w["finger"] # 0 /\ ~r.reported
               /\ Kind[d] = "touch" /\ ~alive => t.reported = r.reported /\ press = {}
    <3>1. t = Resynchronized(d).reader /\ press = Resynchronized(d).press
      BY <1>2, <2>1, <2>6
    <3>2. Alive(d) \/ Kind[d] = "touch"
      BY <1>9, <2>6
    <3> QED
      <4>1. /\ IsReader(d, t) /\ t.dropping = FALSE
            /\ Alive(d) => \A c \in Kept(d) : Agrees(d, t, c, raw[d][c])
            /\ Kind[d] # "touch" => press = {}
            /\ Kind[d] = "touch" /\ Alive(d) =>
                 /\ t.reported = (raw[d]["finger"] # 0)
                 /\ press # {} <=> raw[d]["finger"] # 0 /\ ~r.reported
            /\ Kind[d] = "touch" /\ ~Alive(d) => t.reported = r.reported /\ press = {}
        BY <1>1, <1>5, <1>6, <3>1, <3>2, ResynchronizedIs, ZenonT(60)
      <4> QED
        BY <1>4, <4>1
  <2>7. ASSUME ~r.dropping
        PROVE  /\ IsReader(d, t) /\ t.dropping = r.dropping
               /\ \A c \in Kept(d) : e.code = c => Agrees(d, t, c, Level(e))
               /\ \A c \in Kept(d) : \A v : e.code # c /\ Agrees(d, r, c, v) => Agrees(d, t, c, v)
               /\ Kind[d] # "touch" /\ press # {} => e \in Counted(d, e.code)
               /\ Kind[d] = "touch" => /\ t.reported = (e.value # 0)
                                       /\ press # {} <=> e.value # 0 /\ ~r.reported
    <3>1. t = Effect(d, e).reader /\ press = Effect(d, e).press
      BY <1>2, <2>1, <2>7
    <3> QED
      BY <1>1, <1>5, <2>2, <3>1, EffectIs, SMTT(30)
  <2>8. IsReader(d, t) /\ t.dropping = FALSE
    <3>1. r.dropping \in BOOLEAN
      BY <1>5, ControlsAre DEF IsReader, TouchReader, PadReader, KeyboardReader
    <3> QED
      BY <2>6, <2>7, <3>1
  <2>9. Reading(d, t, Tail(batch), q2, w, stale2, alive)
    <3>1. alive => \A c \in Kept(d) :
            \/ Agrees(d, t, c, w[c])
            \/ /\ ~r.dropping
               /\ e.code = c => Agrees(d, t, c, Level(e))
               /\ e.code # c /\ Agrees(d, r, c, w[c]) => Agrees(d, t, c, w[c])
      BY <2>6, <2>7
    <3>2. (q2 = q /\ stale2 = stale) \/ (q2 = <<>> /\ stale2 = TRUE)
      BY <2>3
    <3> QED
      BY <1>1, <1>3, <1>5, <1>9, <2>8, <3>1, <3>2, ReadingReport
  <2>10. ASSUME Digital
         PROVE  Owing(d, t, Tail(batch), q2, w, f2)
    <3>1. CASE Kind[d] = "touch"
      <4>1. PICK told \in BOOLEAN : told <=> press # {}
        <5>1. CASE press = {}
          <6> WITNESS FALSE \in BOOLEAN
          <6> QED
            BY <5>1
        <5>2. CASE press # {}
          <6> WITNESS TRUE \in BOOLEAN
          <6> QED
            BY <5>2
        <5> QED
          BY <5>1, <5>2
      <4>2. f2["finger"] = f["finger"] - (IF told THEN 1 ELSE 0)
        BY <2>4, <2>5, <3>1, <4>1, ControlsAre
      <4>3. \/ /\ ~r.dropping /\ q2 = q
               /\ t.reported = (e.value # 0)
               /\ told = (e.value # 0 /\ ~r.reported)
            \/ /\ r.dropping /\ (q2 = q \/ (q2 = <<>> /\ q # <<>>))
               /\ t.reported = (w["finger"] # 0)
               /\ told = (w["finger"] # 0 /\ ~r.reported)
            \/ /\ r.dropping /\ q2 = q /\ t.reported = r.reported /\ told = FALSE
        BY <2>3, <2>6, <2>7, <3>1, <4>1
      <4> QED
        <5>1. /\ batch # <<>> /\ Head(batch) # Dropped /\ Kind[d] = "touch"
              /\ Reading(d, r, batch, q, w, stale, alive) /\ Owing(d, r, batch, q, w, f)
              /\ t.dropping = FALSE /\ f2 \in [Controls(d) -> Int]
          BY <1>1, <1>3, <1>5, <1>9, <2>5, <2>8, <2>10, <3>1
        <5>2. \/ /\ ~r.dropping /\ q2 = q
                 /\ t.reported = (Head(batch).value # 0)
                 /\ told = (Head(batch).value # 0 /\ ~r.reported)
              \/ /\ r.dropping /\ (q2 = q \/ (q2 = <<>> /\ q # <<>>))
                 /\ t.reported = (w["finger"] # 0)
                 /\ told = (w["finger"] # 0 /\ ~r.reported)
              \/ /\ r.dropping /\ q2 = q /\ t.reported = r.reported /\ told = FALSE
          BY <1>1, <4>3
        <5> QED
          BY <4>2, <5>1, <5>2, OwingFinger, ZenonT(30)
    <3>2. CASE Kind[d] # "touch"
      <4>1. press # {} => e \in Counted(d, e.code)
        BY <2>6, <2>7, <3>2
      <4>2. \A c \in Controls(d) :
              f2[c] >= f[c] - (IF e \in Counted(d, c) THEN 1 ELSE 0)
        <5>1. f2[e.code] >= f[e.code] - (IF e \in Counted(d, e.code) THEN 1 ELSE 0)
          BY <1>6, <2>4, <2>5, <4>1
        <5>2. ASSUME NEW c \in Controls(d), c # e.code
              PROVE  f2[c] >= f[c] - (IF e \in Counted(d, c) THEN 1 ELSE 0)
          <6>1. f2[c] = f[c] /\ f[c] \in Int
            BY <1>6, <2>5, <5>2
          <6> QED
            BY <6>1
        <5> QED
          BY <5>1, <5>2
      <4>3. q2 = q \/ q2 = <<>>
        BY <2>3
      <4> QED
        BY <1>1, <1>3, <1>5, <1>9, <2>5, <2>10, <3>2, <4>2, <4>3, OwingReport
    <3> QED
      BY <3>1, <3>2
  <2>11. DeviceInv(d, t, Tail(batch), queue'[d], raw[d], fresh'[d], d \in flushed', Alive(d))
    BY <1>4, <2>1, <2>9, <2>10 DEF DeviceInv
  <2>12. fresh'[d] \in [Controls(d) -> Int] /\ Put(d, t) /\ batch' = Tail(batch)
         /\ UNCHANGED <<attached, raw, stage, ready>>
    BY <1>3, <1>9, <2>1, <2>5
  <2> QED
    BY <1>3, <2>3, <2>5, <2>8, <2>11, <2>12, LookedAt
<1> QED
  BY <1>1, <1>2, <1>7, <1>8, <1>9 DEF HandleEvent


\* The devices of a kind that are there.
There(kind) == {d \in Devices : Alive(d) /\ Kind[d] = kind}

\* The order of controllers is linear.
LEMMA PadBeforeIs ==
  ASSUME WorldInv, NEW all, all = There("pad")
  PROVE  /\ \A d, e \in all : d # e => PadBefore(d, e) \/ PadBefore(e, d)
         /\ \A d, e, g \in all : PadBefore(g, d) /\ PadBefore(d, e) => PadBefore(g, e)
         /\ \A d \in all : ~PadBefore(d, d)
<1>1. /\ \A d \in all : attached[d].path \in Nat /\ attached[d].port \in Nat
      /\ \A d, e \in all : attached[d].path = attached[e].path => d = e
  BY DEF WorldInv, PlacesInv, There
<1> QED
  BY <1>1 DEF PadBefore

\* The controllers that a scan opens.
LEMMA PadsFound ==
  ASSUME WorldInv, NEW found, found = Candidates("pad", PadBefore, MaxPads)
  PROVE  /\ found \in Seq(There("pad")) /\ Len(found) <= MaxPads
         /\ \A i, j \in 1 .. Len(found) : found[i] = found[j] => i = j
<1>1. PICK all : all = There("pad")
  OBVIOUS
<1>2. all \subseteq Devices /\ IsFiniteSet(all) /\ MaxPads \in Nat
  BY <1>1, InputAssumption, FS_Subset DEF There
<1>3. PICK before : before = [d \in all |-> {e \in all : PadBefore(e, d)}]
  OBVIOUS
<1>4. PICK rank : rank = [d \in all |-> Cardinality({e \in all : PadBefore(e, d)})]
  OBVIOUS
<1>5. before \in [all -> SUBSET all] /\ \A d \in all : rank[d] = Cardinality(before[d])
  BY <1>3, <1>4
<1>6. /\ \A d, e \in all : d \in before[e] <=> PadBefore(d, e)
      /\ \A d, e \in all : d # e => PadBefore(d, e) \/ PadBefore(e, d)
      /\ \A d, e, g \in all : PadBefore(g, d) /\ PadBefore(d, e) => PadBefore(g, e)
      /\ \A d \in all : ~PadBefore(d, d)
  <2>1. \A d, e \in all : d \in before[e] <=> PadBefore(d, e)
    BY <1>3
  <2>2. /\ \A d, e \in all : d # e => PadBefore(d, e) \/ PadBefore(e, d)
        /\ \A d, e, g \in all : PadBefore(g, d) /\ PadBefore(d, e) => PadBefore(g, e)
        /\ \A d \in all : ~PadBefore(d, d)
    BY <1>1, PadBeforeIs
  <2> QED
    BY <2>1, <2>2
<1>7. /\ \A d, e \in all : d # e => d \in before[e] \/ e \in before[d]
      /\ \A d, e \in all : d \in before[e] =>
           before[d] \subseteq before[e] /\ d \notin before[d]
  BY <1>5, <1>6
<1>8. /\ \A d \in all : Cardinality(before[d]) \in Nat
      /\ \A d, e \in all : Cardinality(before[d]) = Cardinality(before[e]) => d = e
  BY <1>2, <1>5, <1>7, LinearRanks
<1>9. rank \in [all -> Int] /\ \A d, e \in all : rank[d] = rank[e] => d = e
  <2>1. \A d \in all : rank[d] \in Int
    BY <1>5, <1>8
  <2> QED
    BY <1>4, <1>5, <1>8, <2>1
<1>10. PICK order : order = Sorted(all, rank)
  OBVIOUS
<1>11. found = SubSeq(order, 1, IF Len(order) > MaxPads THEN MaxPads ELSE Len(order))
  BY <1>1, <1>4, <1>10 DEF Candidates, There
<1>12. /\ found \in Seq(all) /\ Len(found) <= MaxPads
       /\ \A i, j \in 1 .. Len(found) : found[i] = found[j] => i = j
  BY <1>2, <1>9, <1>10, <1>11, FirstOfSorted
<1> QED
  BY <1>1, <1>12

\* The order of keyboards is linear.
LEMMA KeyboardBeforeIs ==
  ASSUME WorldInv, NEW all, all = There("keyboard")
  PROVE  /\ \A d, e \in all : d # e => KeyboardBefore(d, e) \/ KeyboardBefore(e, d)
         /\ \A d, e, g \in all : KeyboardBefore(g, d) /\ KeyboardBefore(d, e) => KeyboardBefore(g, e)
         /\ \A d \in all : ~KeyboardBefore(d, d)
<1>1. /\ \A d \in all : attached[d].path \in Nat
      /\ \A d, e \in all : attached[d].path = attached[e].path => d = e
  BY DEF WorldInv, PlacesInv, There
<1> QED
  BY <1>1 DEF KeyboardBefore

\* And the keyboards.
LEMMA KeyboardsFound ==
  ASSUME WorldInv, NEW found, found = Candidates("keyboard", KeyboardBefore, MaxKeyboards)
  PROVE  /\ found \in Seq(There("keyboard")) /\ Len(found) <= MaxKeyboards
         /\ \A i, j \in 1 .. Len(found) : found[i] = found[j] => i = j
<1>1. PICK all : all = There("keyboard")
  OBVIOUS
<1>2. all \subseteq Devices /\ IsFiniteSet(all) /\ MaxKeyboards \in Nat
  BY <1>1, InputAssumption, FS_Subset DEF There
<1>3. PICK before : before = [d \in all |-> {e \in all : KeyboardBefore(e, d)}]
  OBVIOUS
<1>4. PICK rank : rank = [d \in all |-> Cardinality({e \in all : KeyboardBefore(e, d)})]
  OBVIOUS
<1>5. before \in [all -> SUBSET all] /\ \A d \in all : rank[d] = Cardinality(before[d])
  BY <1>3, <1>4
<1>6. /\ \A d, e \in all : d \in before[e] <=> KeyboardBefore(d, e)
      /\ \A d, e \in all : d # e => KeyboardBefore(d, e) \/ KeyboardBefore(e, d)
      /\ \A d, e, g \in all : KeyboardBefore(g, d) /\ KeyboardBefore(d, e) => KeyboardBefore(g, e)
      /\ \A d \in all : ~KeyboardBefore(d, d)
  <2>1. \A d, e \in all : d \in before[e] <=> KeyboardBefore(d, e)
    BY <1>3
  <2>2. /\ \A d, e \in all : d # e => KeyboardBefore(d, e) \/ KeyboardBefore(e, d)
        /\ \A d, e, g \in all : KeyboardBefore(g, d) /\ KeyboardBefore(d, e) => KeyboardBefore(g, e)
        /\ \A d \in all : ~KeyboardBefore(d, d)
    BY <1>1, KeyboardBeforeIs
  <2> QED
    BY <2>1, <2>2
<1>7. /\ \A d, e \in all : d # e => d \in before[e] \/ e \in before[d]
      /\ \A d, e \in all : d \in before[e] =>
           before[d] \subseteq before[e] /\ d \notin before[d]
  BY <1>5, <1>6
<1>8. /\ \A d \in all : Cardinality(before[d]) \in Nat
      /\ \A d, e \in all : Cardinality(before[d]) = Cardinality(before[e]) => d = e
  BY <1>2, <1>5, <1>7, LinearRanks
<1>9. rank \in [all -> Int] /\ \A d, e \in all : rank[d] = rank[e] => d = e
  <2>1. \A d \in all : rank[d] \in Int
    BY <1>5, <1>8
  <2> QED
    BY <1>4, <1>5, <1>8, <2>1
<1>10. PICK order : order = Sorted(all, rank)
  OBVIOUS
<1>11. found = SubSeq(order, 1, IF Len(order) > MaxKeyboards THEN MaxKeyboards ELSE Len(order))
  BY <1>1, <1>4, <1>10 DEF Candidates, There
<1>12. /\ found \in Seq(all) /\ Len(found) <= MaxKeyboards
       /\ \A i, j \in 1 .. Len(found) : found[i] = found[j] => i = j
  BY <1>2, <1>9, <1>10, <1>11, FirstOfSorted
<1> QED
  BY <1>1, <1>12

\* A scan finds devices of a kind and opens a reader for each.
Finds(kind, found, list) ==
  /\ found \in Seq(There(kind))
  /\ \A i, j \in 1 .. Len(found) : found[i] = found[j] => i = j
  /\ list = [i \in 1 .. Len(found) |-> Opening(found[i])]
ReadersOf(kind, found, list) ==
  /\ Len(list) = Len(found) /\ Len(found) \in Nat
  /\ kind = "pad" => list \in Seq(PadReader)
  /\ kind = "keyboard" => list \in Seq(KeyboardReader)
  /\ OneEach(list, kind)
  /\ \A i \in 1 .. Len(list) :
       /\ list[i] = Opening(found[i]) /\ list[i].fd = found[i]
       /\ found[i] \in Devices /\ Kind[found[i]] = kind

\* The readers that a scan opens are of its kind, one for each device.
LEMMA ReadersFound ==
  ASSUME WorldInv, NEW kind \in {"pad", "keyboard"}, NEW found, NEW list,
         Finds(kind, found, list)
  PROVE  ReadersOf(kind, found, list)
<1> USE DEF Finds
<1>1. PICK n \in Nat : n = Len(found)
  OBVIOUS
<1>2. \A i \in 1 .. n : found[i] \in Devices /\ Kind[found[i]] = kind /\ Alive(found[i])
  BY <1>1, ElementOfSeq DEF There
<1>3. \A i \in 1 .. n : /\ list[i] = Opening(found[i]) /\ list[i].fd = found[i]
                        /\ kind = "pad" => list[i] \in PadReader
                        /\ kind = "keyboard" => list[i] \in KeyboardReader
  BY <1>1, <1>2, OpeningIs
<1>4. /\ Len(list) = n
      /\ kind = "pad" => list \in Seq(PadReader)
      /\ kind = "keyboard" => list \in Seq(KeyboardReader)
  BY <1>1, <1>3
<1>5. OneEach(list, kind)
  <2>1. \A i \in 1 .. n : attached[found[i]].path # None
    BY <1>2 DEF WorldInv, PlacesInv
  <2> QED
    BY <1>1, <1>2, <1>3, <1>4, <2>1 DEF OneEach
<1> QED
  BY <1>1, <1>2, <1>3, <1>4, <1>5 DEF ReadersOf


\* All readers of a kind are opened anew between the turns, the others stay.
LEMMA OpenedAnew ==
  ASSUME MenuInv, ready = {}, ready' = {}, TurnInv',
         UNCHANGED <<attached, raw, touch>>,
         NEW kind \in {"pad", "keyboard"}, NEW found, NEW list, Finds(kind, found, list),
         Forget({d \in Devices : Kind[d] = kind}),
         \/ kind = "pad" /\ pads' = list /\ keyboards' = keyboards /\ Len(found) <= MaxPads
         \/ /\ kind = "keyboard" /\ keyboards' = list /\ pads' = pads
            /\ Len(found) <= MaxKeyboards
  PROVE  MenuInv'
<1>1. /\ Len(list) = Len(found) /\ Len(found) \in Nat
      /\ kind = "pad" => list \in Seq(PadReader)
      /\ kind = "keyboard" => list \in Seq(KeyboardReader)
      /\ OneEach(list, kind)
      /\ \A i \in 1 .. Len(list) :
           /\ list[i] = Opening(found[i]) /\ list[i].fd = found[i]
           /\ found[i] \in Devices /\ Kind[found[i]] = kind
  <2>1. ReadersOf(kind, found, list)
    BY ReadersFound DEF MenuInv
  <2> QED
    BY <2>1 DEF ReadersOf
<1>2. ReadersInv'
  <2>1. CASE kind = "pad"
    <3>1. pads' = list /\ keyboards' = keyboards
      BY <2>1
    <3>2. OneEach(pads, "pad")' /\ OneEach(keyboards, "keyboard")'
      BY <1>1, <2>1, <3>1 DEF MenuInv, ReadersInv, OneEach
    <3> QED
      BY <1>1, <2>1, <3>1, <3>2 DEF MenuInv, ReadersInv
  <2>2. CASE kind = "keyboard"
    <3>1. keyboards' = list /\ pads' = pads
      BY <2>2
    <3>2. OneEach(pads, "pad")' /\ OneEach(keyboards, "keyboard")'
      BY <1>1, <2>2, <3>1 DEF MenuInv, ReadersInv, OneEach
    <3> QED
      BY <1>1, <2>2, <3>1, <3>2 DEF MenuInv, ReadersInv
  <2> QED
    BY <2>1, <2>2
<1>3. /\ DOMAIN queue' = Devices /\ DOMAIN fresh' = Devices
      /\ flushed' = flushed \ {d \in Devices : Kind[d] = kind}
      /\ \A e \in Devices :
           /\ Kind[e] = kind => queue'[e] = <<>> /\ fresh'[e] = [c \in Controls(e) |-> 0]
           /\ Kind[e] # kind => queue'[e] = queue[e] /\ fresh'[e] = fresh[e]
           /\ fresh'[e] \in [Controls(e) -> Int]
  BY ForgetIs DEF MenuInv
<1>4. PlacesInv' /\ DOMAIN raw' = Devices /\ \A e : Alive(e)' = Alive(e)
  BY DEF MenuInv, WorldInv, PlacesInv, Alive
<1>5. \A e \in Devices : IsRaw(e, raw'[e])
  BY DEF MenuInv, WorldInv
<1>6. (\A e : Pending(e) = <<>>) /\ (\A e : Pending(e)' = <<>>)
  <2>1. \A e : Pending(e) = <<>>
    BY NothingPending
  <2>2. \A e : Pending(e)' = <<>>
    BY DEF Pending, IsNext
  <2> QED
    BY <2>1, <2>2
<1>7. ASSUME NEW s \in Readers', s.fd # None
      PROVE  \/ \E i \in 1 .. Len(list) : s = list[i]
             \/ s \in Readers /\ Kind[s.fd] # kind
  <2>1. \/ \E i \in 1 .. Len(pads') : s = pads'[i]
        \/ \E i \in 1 .. Len(keyboards') : s = keyboards'[i]
        \/ s = touch
    <3>1. DOMAIN pads' = 1 .. Len(pads') /\ DOMAIN keyboards' = 1 .. Len(keyboards')
      BY <1>2, LenProperties DEF ReadersInv
    <3> QED
      BY <3>1 DEF Readers, Range
  <2>2. CASE kind = "pad"
    <3>1. pads' = list /\ keyboards' = keyboards
      BY <2>2
    <3>2. ASSUME NEW i \in 1 .. Len(keyboards), s = keyboards[i]
          PROVE  s \in Readers /\ Kind[s.fd] # kind
      BY <1>7, <2>2, <3>2, ReadersAre DEF MenuInv, ReadersInv, OneEach
    <3>3. ASSUME s = touch
          PROVE  s \in Readers /\ Kind[s.fd] # kind
      BY <1>7, <2>2, <3>3, ReadersAre DEF MenuInv, ReadersInv
    <3> QED
      BY <2>1, <3>1, <3>2, <3>3
  <2>3. CASE kind = "keyboard"
    <3>1. keyboards' = list /\ pads' = pads
      BY <2>3
    <3>2. ASSUME NEW i \in 1 .. Len(pads), s = pads[i]
          PROVE  s \in Readers /\ Kind[s.fd] # kind
      BY <1>7, <2>3, <3>2, ReadersAre DEF MenuInv, ReadersInv, OneEach
    <3>3. ASSUME s = touch
          PROVE  s \in Readers /\ Kind[s.fd] # kind
      BY <1>7, <2>3, <3>3, ReadersAre DEF MenuInv, ReadersInv
    <3> QED
      BY <2>1, <3>1, <3>2, <3>3
  <2> QED
    BY <2>2, <2>3
<1>8. ASSUME NEW s \in Readers', s.fd # None
      PROVE  DeviceInv(s.fd, s, Pending(s.fd)', queue'[s.fd], raw'[s.fd], fresh'[s.fd],
                       s.fd \in flushed', Alive(s.fd)')
  <2>1. CASE \E i \in 1 .. Len(list) : s = list[i]
    <3>1. PICK i \in 1 .. Len(list) : s = list[i]
      BY <2>1
    <3>2. PICK d \in Devices : d = found[i] /\ s = Opening(d) /\ s.fd = d /\ Kind[d] = kind
      BY <1>1, <3>1
    <3>3. /\ IsReader(d, s) /\ s.dropping = FALSE /\ IsRaw(d, raw[d])
          /\ \A c \in Kept(d) : Agrees(d, s, c, raw[d][c])
      BY <3>2, OpeningIs DEF MenuInv, WorldInv
    <3>4. /\ Reading(d, s, <<>>, <<>>, raw[d], d \in flushed', Alive(d)')
          /\ Owing(d, s, <<>>, <<>>, raw[d], [c \in Controls(d) |-> 0])
      BY <3>3, ReadingOpened, OwingOpened
    <3> QED
      BY <1>3, <1>6, <3>2, <3>4 DEF DeviceInv
  <2>2. CASE s \in Readers /\ Kind[s.fd] # kind
    <3>1. s.fd \in Devices
      BY <1>8, <2>2, ReadersAre DEF MenuInv
    <3>2. DeviceInv(s.fd, s, Pending(s.fd), queue[s.fd], raw[s.fd], fresh[s.fd],
                    s.fd \in flushed, Alive(s.fd))
      BY <1>8, <2>2 DEF MenuInv, ListenInv
    <3>3. /\ queue'[s.fd] = queue[s.fd] /\ fresh'[s.fd] = fresh[s.fd]
          /\ (s.fd \in flushed') = (s.fd \in flushed)
      BY <1>3, <2>2, <3>1
    <3> QED
      BY <1>4, <1>6, <3>2, <3>3
  <2> QED
    BY <1>7, <1>8, <2>1, <2>2
<1>9. \A e \in Devices : fresh'[e] = fresh[e] \/ fresh'[e] = [c \in Controls(e) |-> 0]
  BY <1>3
<1> QED
  BY <1>2, <1>3, <1>4, <1>5, <1>8, <1>9, MenuStep

\* A scan of the controllers: nothing has changed, or all are opened anew.
LEMMA FindPadsKeeps ==
  ASSUME MenuInv, FindPads, ready = {}, UNCHANGED <<attached, raw, keyboards, touch>>,
         UNCHANGED <<ready, batch>>, stage' \notin {"read", "game"}
  PROVE  MenuInv'
<1>1. TurnInv'
  BY DEF TurnInv
<1>2. PICK found : found = Candidates("pad", PadBefore, MaxPads)
  OBVIOUS
<1>3. \/ UNCHANGED <<pads, queue, fresh, flushed>>
      \/ /\ pads' = [i \in 1 .. Len(found) |-> Opening(found[i])]
         /\ Forget({d \in Devices : Kind[d] = "pad"})
  BY <1>2 DEF FindPads
<1>4. CASE UNCHANGED <<pads, queue, fresh, flushed>>
  BY <1>1, <1>4, MenuFramed
<1>5. CASE /\ pads' = [i \in 1 .. Len(found) |-> Opening(found[i])]
           /\ Forget({d \in Devices : Kind[d] = "pad"})
  <2>1. /\ found \in Seq(There("pad")) /\ Len(found) <= MaxPads
        /\ \A i, j \in 1 .. Len(found) : found[i] = found[j] => i = j
    BY <1>2, PadsFound DEF MenuInv
  <2>2. "pad" \in {"pad", "keyboard"} /\ "pad" # "keyboard"
    OBVIOUS
  <2>3. Finds("pad", found, pads')
    BY <1>5, <2>1 DEF Finds
  <2> QED
    BY <1>1, <1>5, <2>1, <2>2, <2>3, OpenedAnew
<1> QED
  BY <1>3, <1>4, <1>5

\* The same for the keyboards.
LEMMA FindKeyboardsKeeps ==
  ASSUME MenuInv, FindKeyboards, ready = {}, UNCHANGED <<attached, raw, pads, touch>>,
         UNCHANGED <<ready, batch>>, stage' \notin {"read", "game"}
  PROVE  MenuInv'
<1>1. TurnInv'
  BY DEF TurnInv
<1>2. PICK found : found = Candidates("keyboard", KeyboardBefore, MaxKeyboards)
  OBVIOUS
<1>3. \/ UNCHANGED <<keyboards, queue, fresh, flushed>>
      \/ /\ keyboards' = [i \in 1 .. Len(found) |-> Opening(found[i])]
         /\ Forget({d \in Devices : Kind[d] = "keyboard"})
  BY <1>2 DEF FindKeyboards
<1>4. CASE UNCHANGED <<keyboards, queue, fresh, flushed>>
  BY <1>1, <1>4, MenuFramed
<1>5. CASE /\ keyboards' = [i \in 1 .. Len(found) |-> Opening(found[i])]
           /\ Forget({d \in Devices : Kind[d] = "keyboard"})
  <2>1. /\ found \in Seq(There("keyboard")) /\ Len(found) <= MaxKeyboards
        /\ \A i, j \in 1 .. Len(found) : found[i] = found[j] => i = j
    BY <1>2, KeyboardsFound DEF MenuInv
  <2>2. "keyboard" \in {"pad", "keyboard"} /\ "pad" # "keyboard"
    OBVIOUS
  <2>3. Finds("keyboard", found, keyboards')
    BY <1>5, <2>1 DEF Finds
  <2> QED
    BY <1>1, <1>5, <2>1, <2>2, <2>3, OpenedAnew
<1> QED
  BY <1>3, <1>4, <1>5

\* Between the turns the touchscreen is opened, closed or asked anew; a game
\* starts with no other reader.
LEMMA TouchKeeps ==
  ASSUME MenuInv, ready = {}, ready' = {}, TurnInv',
         UNCHANGED <<attached, raw>>,
         \/ UNCHANGED <<pads, keyboards>>
         \/ pads' = <<>> /\ keyboards' = <<>>,
         NEW t, touch' = t, NEW devices, Forget(devices),
         \/ t \in TouchReader /\ t.fd = None
         \/ t = touch /\ t.fd # None /\ t.fd \notin devices
         \/ t = touch /\ t.fd # None /\ ~Alive(t.fd) /\ devices = {t.fd}
         \/ \E d \in Devices : Kind[d] = "touch" /\ attached[d].path # None
                               /\ t = OpeningTouch(d) /\ devices = {d},
         \A s \in Readers' : s.fd # None /\ Kind[s.fd] # "touch" => s.fd \notin devices
  PROVE  MenuInv'
<1>1. t \in TouchReader /\ (t.fd # None => Kind[t.fd] = "touch" /\ attached[t.fd].path # None)
  <2>1. CASE t \in TouchReader /\ t.fd = None
    BY <2>1
  <2>2. CASE t = touch
    BY <2>2 DEF MenuInv, ReadersInv
  <2>3. ASSUME NEW d \in Devices, Kind[d] = "touch", attached[d].path # None,
               t = OpeningTouch(d)
        PROVE  t \in TouchReader /\ Kind[t.fd] = "touch" /\ attached[t.fd].path # None
    BY <2>3, OpeningTouchIs DEF MenuInv
  <2> QED
    BY <2>1, <2>2, <2>3
<1>2. ReadersInv'
  <2>1. CASE UNCHANGED <<pads, keyboards>>
    BY <1>1, <2>1, SMTT(30) DEF MenuInv, ReadersInv, OneEach
  <2>2. CASE pads' = <<>> /\ keyboards' = <<>>
    <3>1. MaxPads \in Nat /\ MaxKeyboards \in Nat
      BY InputAssumption
    <3>2. /\ pads' \in Seq(PadReader) /\ keyboards' \in Seq(KeyboardReader)
          /\ Len(pads') = 0 /\ Len(keyboards') = 0
      BY <2>2
    <3> QED
      BY <1>1, <3>1, <3>2 DEF ReadersInv, OneEach
  <2> QED
    BY <2>1, <2>2
<1>3. /\ DOMAIN queue' = Devices /\ DOMAIN fresh' = Devices
      /\ flushed' = flushed \ devices
      /\ \A e \in Devices :
           /\ e \in devices =>
                queue'[e] = <<>> /\ fresh'[e] = [c \in Controls(e) |-> 0]
           /\ e \notin devices => queue'[e] = queue[e] /\ fresh'[e] = fresh[e]
           /\ fresh'[e] \in [Controls(e) -> Int]
  BY ForgetIs DEF MenuInv
<1>4. PlacesInv' /\ DOMAIN raw' = Devices /\ \A e : Alive(e)' = Alive(e)
  BY DEF MenuInv, WorldInv, PlacesInv, Alive
<1>5. \A e \in Devices : IsRaw(e, raw'[e])
  BY DEF MenuInv, WorldInv
<1>6. (\A e : Pending(e) = <<>>) /\ (\A e : Pending(e)' = <<>>)
  <2>1. \A e : Pending(e) = <<>>
    BY NothingPending
  <2>2. \A e : Pending(e)' = <<>>
    BY DEF Pending, IsNext
  <2> QED
    BY <2>1, <2>2
<1>7. ASSUME NEW s \in Readers', s.fd # None
      PROVE  s = t \/ (s \in Readers /\ Kind[s.fd] # "touch")
  <2>1. CASE UNCHANGED <<pads, keyboards>>
    <3>1. s = t \/ s \in Range(pads) \/ s \in Range(keyboards)
      BY <2>1 DEF Readers
    <3>2. /\ DOMAIN pads = 1 .. Len(pads) /\ DOMAIN keyboards = 1 .. Len(keyboards)
      BY LenProperties DEF MenuInv, ReadersInv
    <3> QED
      BY <1>7, <3>1, <3>2 DEF Readers, Range, MenuInv, ReadersInv, OneEach
  <2>2. CASE pads' = <<>> /\ keyboards' = <<>>
    BY <2>2 DEF Readers, Range
  <2> QED
    BY <2>1, <2>2
<1>8. ASSUME NEW s \in Readers', s.fd # None
      PROVE  DeviceInv(s.fd, s, Pending(s.fd)', queue'[s.fd], raw'[s.fd], fresh'[s.fd],
                       s.fd \in flushed', Alive(s.fd)')
  <2>1. ASSUME s \in Readers, s.fd \notin devices
        PROVE  DeviceInv(s.fd, s, Pending(s.fd)', queue'[s.fd], raw'[s.fd], fresh'[s.fd],
                         s.fd \in flushed', Alive(s.fd)')
    <3>1. s.fd \in Devices
      BY <1>8, <2>1, ReadersAre DEF MenuInv
    <3>2. DeviceInv(s.fd, s, Pending(s.fd), queue[s.fd], raw[s.fd], fresh[s.fd],
                    s.fd \in flushed, Alive(s.fd))
      BY <1>8, <2>1 DEF MenuInv, ListenInv
    <3>3. /\ queue'[s.fd] = queue[s.fd] /\ fresh'[s.fd] = fresh[s.fd]
          /\ (s.fd \in flushed') = (s.fd \in flushed)
      BY <1>3, <2>1, <3>1
    <3> QED
      BY <1>4, <1>6, <3>2, <3>3
  <2>2. CASE s \in Readers /\ Kind[s.fd] # "touch"
    BY <1>8, <2>1, <2>2
  <2>3. CASE s = t /\ t = touch /\ t.fd \notin devices
    <3>1. s \in Readers
      BY <2>3 DEF Readers
    <3> QED
      BY <2>1, <2>3, <3>1
  <2>4. CASE s = t /\ t = touch /\ ~Alive(t.fd) /\ devices = {t.fd}
    <3>1. s \in Readers /\ s.fd \in Devices
      BY <1>8, <2>4, ReadersAre DEF Readers, MenuInv
    <3>2. PICK d \in Devices : d = s.fd
      BY <3>1
    <3>3. /\ Reading(d, s, <<>>, queue[d], raw[d], d \in flushed, Alive(d))
          /\ ~Alive(d) /\ ~Alive(d)' /\ d \in devices
      BY <1>4, <1>6, <1>8, <2>4, <3>1, <3>2 DEF MenuInv, ListenInv, DeviceInv
    <3>4. Reading(d, s, <<>>, <<>>, raw[d], d \in flushed', Alive(d)')
      <4>1. IsReader(d, s) /\ IsRaw(d, raw[d])
        BY <3>3 DEF Reading
      <4>2. Follows(d, <<>>, raw[d])
        BY ToldByNone DEF Follows
      <4>3. Shaped(d, s, <<>>, <<>>, Alive(d)')
        BY <3>3, NoStream DEF Shaped
      <4> QED
        BY <3>3, <4>1, <4>2, <4>3 DEF Reading
    <3>5. Owing(d, s, <<>>, <<>>, raw[d], [c \in Controls(d) |-> 0])
      BY OwingOpened
    <3> QED
      BY <1>3, <1>6, <3>2, <3>3, <3>4, <3>5 DEF DeviceInv
  <2>5. ASSUME NEW d \in Devices, Kind[d] = "touch", t = OpeningTouch(d), devices = {d}, s = t
        PROVE  DeviceInv(s.fd, s, Pending(s.fd)', queue'[s.fd], raw'[s.fd], fresh'[s.fd],
                         s.fd \in flushed', Alive(s.fd)')
    <3>1. /\ IsReader(d, s) /\ s.dropping = FALSE /\ s.fd = d /\ IsRaw(d, raw[d])
          /\ \A c \in Kept(d) : Agrees(d, s, c, raw[d][c])
      BY <2>5, OpeningTouchIs DEF MenuInv, WorldInv
    <3>2. /\ Reading(d, s, <<>>, <<>>, raw[d], d \in flushed', Alive(d)')
          /\ Owing(d, s, <<>>, <<>>, raw[d], [c \in Controls(d) |-> 0])
      BY <3>1, ReadingOpened, OwingOpened
    <3> QED
      BY <1>3, <1>6, <2>5, <3>1, <3>2 DEF DeviceInv
  <2>6. t.fd # None \/ s # t
    BY <1>8
  <2> QED
    BY <1>7, <1>8, <2>2, <2>3, <2>4, <2>5, <2>6
<1>9. \A e \in Devices : fresh'[e] = fresh[e] \/ fresh'[e] = [c \in Controls(e) |-> 0]
  BY <1>3
<1> QED
  BY <1>2, <1>3, <1>4, <1>5, <1>8, <1>9, MenuStep

\* The touchscreen is found again.
LEMMA BeginWithTouchKeeps == ASSUME MenuInv, BeginWithTouch PROVE MenuInv'
<1>1. PICK d \in Touchscreens : touch' = OpeningTouch(d) /\ Forget({d})
  BY DEF BeginWithTouch
<1>2. /\ stage = "top" /\ stage' = "scan pads"
      /\ UNCHANGED <<attached, raw, pads, keyboards, ready>>
  BY DEF BeginWithTouch, world, turn
<1>3. ready = {} /\ ready' = {} /\ TurnInv'
  BY <1>2 DEF MenuInv, TurnInv
<1>4. d \in Devices /\ Kind[d] = "touch" /\ attached[d].path # None
  BY DEF Touchscreens, MenuInv, WorldInv, PlacesInv
<1>5. \A s \in Readers' : s.fd # None /\ Kind[s.fd] # "touch" => s.fd \notin {d}
  BY <1>4
<1> QED
  BY <1>1, <1>2, <1>3, <1>4, <1>5, TouchKeeps

\* A game takes the controllers and the keyboards.
LEMMA StartGameKeeps == ASSUME MenuInv, StartGame PROVE MenuInv'
<1>1. PICK t \in {touch, ClosedTouch} : touch' = t /\ Forget(Devices \ {t.fd})
  BY DEF StartGame
<1>2. /\ stage = "selected" /\ stage' = "game" /\ pads' = <<>> /\ keyboards' = <<>>
      /\ UNCHANGED <<attached, raw, ready>>
  BY DEF StartGame, world, turn
<1>3. ready = {} /\ ready' = {} /\ TurnInv'
  BY <1>2 DEF MenuInv, TurnInv
<1>4. t \in TouchReader /\ (t.fd # None => t = touch)
  <2>1. CASE t = touch
    BY <2>1 DEF MenuInv, ReadersInv
  <2>2. CASE t = ClosedTouch
    BY <2>2 DEF ClosedTouch, TouchReader
  <2> QED
    BY <2>1, <2>2
<1>5. \A s \in Readers' : s = t
  BY <1>1, <1>2 DEF Readers, Range
<1>6. \A s \in Readers' : s.fd # None /\ Kind[s.fd] # "touch" => s.fd \notin Devices \ {t.fd}
  BY <1>5
<1>7. t.fd \notin Devices \ {t.fd}
  OBVIOUS
<1> QED
  BY <1>1, <1>2, <1>3, <1>4, <1>6, <1>7, TouchKeeps

\* The supervisor of a game takes what the touchscreen reports.
LEMMA SuperviseKeeps == ASSUME MenuInv, Supervise PROVE MenuInv'
<1>1. PICK d : d = touch.fd
  OBVIOUS
<1>2. /\ stage = "game" /\ d # None /\ UNCHANGED <<attached, raw, pads, keyboards, ready, stage>>
      /\ touch' = IF Alive(d) THEN OpeningTouch(d) ELSE touch
      /\ Forget({d})
  <2>1. {touch.fd} \ {None} = {d}
    BY <1>1 DEF Supervise
  <2> QED
    BY <1>1, <2>1 DEF Supervise, world, turn
<1>3. ready = {} /\ ready' = {} /\ TurnInv'
  BY <1>2 DEF MenuInv, TurnInv
<1>4. d \in Devices /\ Kind[d] = "touch" /\ attached[d].path # None
  BY <1>1, <1>2 DEF MenuInv, ReadersInv, TouchReader
<1>5. \A s \in Readers' : s.fd # None /\ Kind[s.fd] # "touch" => s.fd \notin {d}
  BY <1>4
<1>6. CASE Alive(d)
  <2>1. touch' = OpeningTouch(d)
    BY <1>2, <1>6
  <2> QED
    BY <1>2, <1>3, <1>4, <1>5, <2>1, TouchKeeps
<1>7. CASE ~Alive(d)
  <2>1. touch' = touch
    BY <1>2, <1>7
  <2> QED
    BY <1>1, <1>2, <1>3, <1>5, <1>7, <2>1, TouchKeeps
<1> QED
  BY <1>6, <1>7

\* The dashboard starts with no reader and no device.
LEMMA MenuInvInit == InputInit => MenuInv
<1> SUFFICES ASSUME InputInit
             PROVE  MenuInv
  OBVIOUS
<1>1. PlacesInv
  BY DEF InputInit, PlacesInv, Alive, None
<1>2. ASSUME NEW d \in Devices
      PROVE  /\ IsRaw(d, raw[d]) /\ fresh[d] \in [Controls(d) -> Nat]
             /\ fresh[d] \in [Controls(d) -> Int]
  <2>1. Middle \in Int
    BY InputAssumption DEF Middle
  <2>2. raw[d] = [c \in Controls(d) |-> IF c = "x" THEN Middle ELSE 0]
    BY DEF InputInit, Idle
  <2>3. fresh[d] = [c \in Controls(d) |-> 0]
    BY DEF InputInit
  <2> QED
    BY <2>1, <2>2, <2>3 DEF IsRaw
<1>3. WorldInv
  BY <1>1, <1>2 DEF InputInit, WorldInv
<1>4. /\ pads = <<>> /\ keyboards = <<>> /\ touch = ClosedTouch
      /\ Len(pads) = 0 /\ Len(keyboards) = 0
      /\ MaxPads \in Nat /\ MaxKeyboards \in Nat
  BY InputAssumption DEF InputInit
<1>5. pads \in Seq(PadReader) /\ keyboards \in Seq(KeyboardReader)
  BY <1>4
<1>6. touch \in TouchReader /\ touch.fd = None
  BY <1>4 DEF ClosedTouch, TouchReader
<1>7. ReadersInv
  BY <1>4, <1>5, <1>6 DEF ReadersInv, OneEach
<1>8. TurnInv
  BY DEF TurnInv, InputInit
<1>9. ListenInv
  BY <1>4, <1>6, <1>7, ReadersAre DEF ListenInv
<1> QED
  BY <1>3, <1>7, <1>8, <1>9 DEF MenuInv

\* And every step keeps what was said of them.
LEMMA MenuInvNext == MenuInv /\ [InputNext]_inputVars => MenuInv'
<1> SUFFICES ASSUME MenuInv, [InputNext]_inputVars
             PROVE  MenuInv'
  OBVIOUS
<1>1. stage # "read" => ready = {}
  BY DEF MenuInv, TurnInv
<1>2. CASE World
  <2>1. ASSUME NEW d \in Devices, Plug(d) PROVE MenuInv'
    BY <2>1, PlugKeeps
  <2>2. ASSUME NEW d \in Devices, Unplug(d) PROVE MenuInv'
    BY <2>2, UnplugKeeps
  <2>3. ASSUME NEW d \in Devices, NEW c \in Controls(d), NEW v \in Values(c), Change(d, c, v)
        PROVE  MenuInv'
    BY <2>3, ChangeKeeps
  <2>4. CASE Pass
    BY <2>4, MenuPasses DEF Pass
  <2> QED
    BY <1>2, <2>1, <2>2, <2>3, <2>4 DEF World
<1>3. CASE Begin
  BY <1>1, <1>3, MenuPasses DEF Begin, world
<1>4. CASE BeginWithTouch
  BY <1>4, BeginWithTouchKeeps
<1>5. CASE Decide
  BY <1>5, MenuPasses DEF Decide
<1>6. CASE Mute
  BY <1>1, <1>6, MenuPasses DEF Mute, world
<1>7. CASE StartGame
  BY <1>7, StartGameKeeps
<1>8. CASE Silent
  <2>1. CASE NotDue
    BY <1>1, <2>1, MenuPasses DEF NotDue, world
  <2>2. CASE Poll
    BY <2>2, PollKeeps
  <2>3. CASE EndGame
    BY <1>1, <2>3, FindPadsKeeps DEF EndGame, world, turn
  <2>4. CASE ForcedScan
    BY <1>1, <2>4, FindKeyboardsKeeps DEF ForcedScan, world, turn
  <2>5. CASE Supervise
    BY <2>5, SuperviseKeeps
  <2>6. ASSUME NEW d \in Devices, Read(d) PROVE MenuInv'
    BY <2>6, ReadKeeps
  <2>7. ASSUME NEW d \in Devices, HandleEvent(d) PROVE MenuInv'
    BY <2>7, HandleEventKeeps
  <2> QED
    BY <1>8, <2>1, <2>2, <2>3, <2>4, <2>5, <2>6, <2>7 DEF Silent
<1>9. CASE ScanPads
  BY <1>1, <1>9, FindPadsKeeps DEF ScanPads, world, turn
<1>10. CASE ScanKeyboards
  BY <1>1, <1>10, FindKeyboardsKeeps DEF ScanKeyboards, world, turn
<1>11. CASE Select
  BY <1>11, MenuPasses DEF Select
<1>12. CASE CueGoesOn
  BY <1>12, MenuPasses DEF CueGoesOn, world
<1>13. CASE UNCHANGED inputVars
  BY <1>13, MenuPasses DEF inputVars, world
<1> QED
  BY <1>2, <1>3, <1>4, <1>5, <1>6, <1>7, <1>8, <1>9, <1>10, <1>11, <1>12, <1>13
     DEF InputNext, Loop


-----------------------------------------------------------------------------
(* The cues. *)

WorkerStates == {"none", "born", "opening", "playing", "exited"}
SoundInv ==
  /\ child_pid \in Workers \union {0} /\ worker \in [Workers -> WorkerStates]
  /\ NoWorkerIsForgotten
  /\ DeviceIsTheGames

\* The player forgets a worker only when there is none or it has exited.
LEMMA ReapedIs ==
  ASSUME child_pid \in Workers \union {0}, worker \in [Workers -> WorkerStates],
         NoWorkerIsForgotten
  PROVE  /\ Reaped.pid \in Workers \union {0} /\ Reaped.worker \in [Workers -> WorkerStates]
         /\ \A p \in Workers : Reaped.worker[p] # "none" => Reaped.pid = p
         /\ child_pid = 0 \/ HasExited => \A p \in Workers : Reaped.worker[p] = "none"
<1>1. 0 \notin Workers
  BY SoundAssumption
<1>2. CASE HasExited
  <2>1. Reaped.pid = 0 /\ Reaped.worker = [worker EXCEPT ![child_pid] = "none"]
    BY <1>2 DEF Reaped
  <2>2. child_pid \in Workers
    BY <1>2 DEF HasExited
  <2>3. \A p \in Workers : Reaped.worker[p] = "none"
    BY <2>1, <2>2 DEF NoWorkerIsForgotten
  <2>4. Reaped.worker \in [Workers -> WorkerStates]
    BY <2>1 DEF WorkerStates
  <2> QED
    BY <2>1, <2>3, <2>4
<1>3. CASE ~HasExited
  <2>1. Reaped.pid = child_pid /\ Reaped.worker = worker
    BY <1>3 DEF Reaped
  <2> QED
    BY <1>1, <1>3, <2>1 DEF NoWorkerIsForgotten
<1> QED
  BY <1>2, <1>3

\* Whatever is done with a cue, its worker is known.
LEMMA CueKeeps ==
  ASSUME child_pid \in Workers \union {0}, worker \in [Workers -> WorkerStates],
         NoWorkerIsForgotten,
         \/ WorkerStep \/ WorkerFails \/ Reap \/ Signal \/ Awaited \/ UNCHANGED sound
         \/ Play(now)
  PROVE  /\ child_pid' \in Workers \union {0} /\ worker' \in [Workers -> WorkerStates]
         /\ NoWorkerIsForgotten'
<1>1. 0 \notin Workers
  BY SoundAssumption
<1>2. ASSUME NEW p \in Workers, NEW z \in WorkerStates, worker[p] # "none",
             worker' = [worker EXCEPT ![p] = z], child_pid' = child_pid
      PROVE  /\ child_pid' \in Workers \union {0} /\ worker' \in [Workers -> WorkerStates]
             /\ NoWorkerIsForgotten'
  BY <1>2 DEF NoWorkerIsForgotten
<1>3. CASE WorkerStep
  <2>1. PICK p \in Workers :
          /\ worker[p] \in {"born", "opening", "playing"}
          /\ worker' = [worker EXCEPT ![p] =
               CASE @ = "born" -> "opening"
                 [] @ = "opening" -> "playing"
                 [] @ = "playing" -> "exited"]
          /\ child_pid' = child_pid
    BY <1>3 DEF WorkerStep
  <2>2. PICK z : z = CASE worker[p] = "born" -> "opening"
                       [] worker[p] = "opening" -> "playing"
                       [] worker[p] = "playing" -> "exited"
    OBVIOUS
  <2>3. z \in WorkerStates
    BY <2>1, <2>2 DEF WorkerStates
  <2>4. worker' = [worker EXCEPT ![p] = z]
    BY <2>1, <2>2
  <2> QED
    BY <1>2, <2>1, <2>3, <2>4
<1>4. CASE WorkerFails
  <2>1. "exited" \in WorkerStates
    BY DEF WorkerStates
  <2> QED
    BY <1>2, <1>4, <2>1 DEF WorkerFails
<1>5. CASE Reap
  BY <1>5, ReapedIs DEF Reap, NoWorkerIsForgotten
<1>6. CASE Signal
  <2>1. CASE worker' = worker
    BY <1>6, <2>1 DEF Signal, NoWorkerIsForgotten
  <2>2. CASE /\ child_pid # 0 /\ worker[child_pid] \in {"opening", "playing"}
             /\ worker' = [worker EXCEPT ![child_pid] = "exited"]
    <3>1. "exited" \in WorkerStates /\ child_pid \in Workers
      BY <2>2 DEF WorkerStates
    <3> QED
      BY <1>2, <1>6, <2>2, <3>1 DEF Signal
  <2> QED
    BY <1>6, <2>1, <2>2 DEF Signal
<1>7. CASE Awaited
  <2>1. worker' = Reaped.worker /\ child_pid' = 0 /\ (child_pid = 0 \/ HasExited)
    BY <1>7 DEF Awaited
  <2> QED
    BY <2>1, ReapedIs DEF NoWorkerIsForgotten
<1>8. CASE Play(now)
  <2>1. CASE Reap
    BY <1>5, <2>1
  <2>2. CASE /\ Reaped.pid = 0
             /\ \E p \in Workers :
                  /\ Reaped.worker[p] = "none"
                  /\ child_pid' = p
                  /\ worker' = [Reaped.worker EXCEPT ![p] = "born"]
    <3>1. PICK p \in Workers :
            /\ Reaped.worker[p] = "none" /\ child_pid' = p
            /\ worker' = [Reaped.worker EXCEPT ![p] = "born"]
      BY <2>2
    <3>2. \A q \in Workers : Reaped.worker[q] = "none"
      BY <1>1, <2>2, ReapedIs
    <3>3. worker' \in [Workers -> WorkerStates]
      BY <3>1, ReapedIs DEF WorkerStates
    <3>4. \A q \in Workers : worker'[q] # "none" => q = p
      BY <3>1, <3>2, ReapedIs
    <3> QED
      BY <3>1, <3>3, <3>4 DEF NoWorkerIsForgotten
  <2> QED
    BY <1>8, <2>1, <2>2 DEF Play
<1>9. CASE UNCHANGED sound
  BY <1>9 DEF sound, NoWorkerIsForgotten
<1> QED
  BY <1>3, <1>4, <1>5, <1>6, <1>7, <1>8, <1>9

\* No cue plays when the dashboard starts.
LEMMA SoundInvInit == InputInit => SoundInv
  BY DEF InputInit, SoundInit, SoundInv, WorkerStates, NoWorkerIsForgotten, DeviceIsTheGames

\* What a step does to the cues and to the stage.
LEMMA StepIsOfCues ==
  ASSUME [InputNext]_inputVars
  PROVE  /\ \/ WorkerStep \/ WorkerFails \/ Reap \/ Signal \/ Awaited \/ UNCHANGED sound
            \/ Play(now)
         /\ stage' = "game" => \/ Awaited
                               \/ /\ stage = "game"
                                  /\ WorkerStep \/ WorkerFails \/ UNCHANGED sound
<1>1. CASE World /\ UNCHANGED sound
  <2>1. stage' = stage
    BY <1>1, ZenonT(30) DEF World, Plug, Unplug, Change, Pass
  <2> QED
    BY <1>1, <2>1
<1>2. CASE Begin \/ BeginWithTouch
  BY <1>2 DEF Begin, BeginWithTouch
<1>3. CASE Decide
  BY <1>3 DEF Decide
<1>4. CASE Mute \/ StartGame
  BY <1>4 DEF Mute, StartGame
<1>5. CASE Silent /\ UNCHANGED sound
  <2>1. stage' = "game" => stage = "game"
    BY <1>5 DEF Silent, NotDue, Poll, EndGame, ForcedScan, Supervise, Read, HandleEvent
  <2> QED
    BY <1>5, <2>1
<1>6. CASE ScanPads \/ ScanKeyboards
  BY <1>6 DEF ScanPads, ScanKeyboards
<1>7. CASE Select
  BY <1>7 DEF Select
<1>8. CASE CueGoesOn
  BY <1>8 DEF CueGoesOn
<1>9. CASE UNCHANGED inputVars
  BY <1>9 DEF inputVars
<1> QED
  BY <1>1, <1>2, <1>3, <1>4, <1>5, <1>6, <1>7, <1>8, <1>9 DEF InputNext, Loop

\* No step starts a cue in a game.
LEMMA SoundInvNext == SoundInv /\ [InputNext]_inputVars => SoundInv'
<1> SUFFICES ASSUME SoundInv, [InputNext]_inputVars
             PROVE  SoundInv'
  OBVIOUS
<1>1. /\ child_pid' \in Workers \union {0} /\ worker' \in [Workers -> WorkerStates]
      /\ NoWorkerIsForgotten'
  BY StepIsOfCues, CueKeeps DEF SoundInv
<1>2. ASSUME stage' = "game", NEW p \in Workers
      PROVE  worker'[p] = "none"
  <2>1. CASE Awaited
    BY <2>1, ReapedIs DEF Awaited, SoundInv
  <2>2. CASE stage = "game" /\ (WorkerStep \/ WorkerFails \/ UNCHANGED sound)
    <3>1. \A q \in Workers : worker[q] = "none"
      BY <2>2 DEF SoundInv, DeviceIsTheGames
    <3> QED
      BY <2>2, <3>1 DEF WorkerStep, WorkerFails, sound
  <2> QED
    BY <1>2, <2>1, <2>2, StepIsOfCues
<1> QED
  BY <1>1, <1>2 DEF SoundInv, DeviceIsTheGames

-----------------------------------------------------------------------------
(* The menu's input. *)

\* Nothing of a device that was read to the end is left to be told.
LEMMA CaughtUpHolds == MenuInv => CaughtUp
<1> SUFFICES ASSUME MenuInv, NEW r \in Readers, NEW d, d = r.fd,
                    d # None, Alive(d), d \notin flushed, queue[d] = <<>>,
                    ~(d \in ready /\ batch # <<>>)
             PROVE  IF Kind[d] = "touch" THEN r.reported = (raw[d]["finger"] # 0)
                    ELSE /\ r.controls = Snapshot(d)
                         /\ Kind[d] = "pad" => r.state = PadState(raw[d])
  BY DEF CaughtUp
<1>1. d \in Devices
  BY ReadersAre DEF MenuInv
<1>2. Pending(d) = <<>>
  BY DEF Pending, IsNext
<1>3. Reading(d, r, <<>>, <<>>, raw[d], d \in flushed, Alive(d))
  <2>1. Reading(d, r, Pending(d), queue[d], raw[d], d \in flushed, Alive(d))
    BY DEF MenuInv, ListenInv, DeviceInv
  <2> QED
    BY <1>2, <2>1
<1>4. IsReader(d, r) /\ ~r.dropping /\ Settles(d, r, <<>>, <<>>, raw[d])
  BY <1>1, <1>3, NoStream DEF Reading, Shaped
<1>5. IsReader(d, r) /\ \A c \in Kept(d) : Agrees(d, r, c, raw[d][c])
  BY <1>1, <1>4, ReadingIsDone
<1>6. CASE Kind[d] = "touch"
  <2>1. Kept(d) = {"finger"}
    BY <1>1, <1>6, ControlsAre
  <2> QED
    BY <1>5, <1>6, <2>1 DEF Agrees
<1>7. CASE Kind[d] # "touch"
  <2>1. /\ Snapshot(d) \in [Kept(d) -> Int]
        /\ \A c \in Kept(d) : Snapshot(d)[c] = raw[d][c]
        /\ Kind[d] = "pad" => Snapshot(d) = raw[d]
    BY <1>1, SnapshotIs DEF MenuInv
  <2>2. r.controls \in [Kept(d) -> Int]
    BY <1>1, <1>5, <1>7, ControlsAre DEF IsReader, PadReader, KeyboardReader
  <2>3. \A c \in Kept(d) : r.controls[c] = raw[d][c]
    BY <1>5, <1>7 DEF Agrees
  <2>4. r.controls = Snapshot(d)
    BY <2>1, <2>2, <2>3
  <2> QED
    BY <1>5, <1>7, <2>1, <2>4 DEF IsReader
<1> QED
  BY <1>6, <1>7

\* What the readers, the cues and the guard keep is what the runs check.
LEMMA InputInvHolds == MenuInv /\ SoundInv /\ TypeOK => InputInv
<1> SUFFICES ASSUME MenuInv, SoundInv, TypeOK
             PROVE  InputInv
  OBVIOUS
<1>1. DOMAIN pads = 1 .. Len(pads)
  BY LenProperties DEF MenuInv, ReadersInv
<1>2. /\ Len(pads) <= MaxPads /\ Len(keyboards) <= MaxKeyboards
      /\ \A i, j \in DOMAIN pads : pads[i].fd = pads[j].fd /\ i # j => pads[i].fd = None
  BY <1>1 DEF MenuInv, ReadersInv, OneEach
<1>3. \A r \in Range(pads) : r.fd # None => Kind[r.fd] = "pad"
  BY <1>1 DEF MenuInv, ReadersInv, OneEach, Range
<1> QED
  BY <1>2, <1>3, CaughtUpHolds DEF InputInv, SoundInv

\* The invariant that the theorems below are read from.
THEOREM MenuInvariant == InputSpec => [](MenuInv /\ SoundInv)
<1>1. InputInit => MenuInv /\ SoundInv
  BY MenuInvInit, SoundInvInit
<1>2. MenuInv /\ SoundInv /\ [InputNext]_inputVars => (MenuInv /\ SoundInv)'
  BY MenuInvNext, SoundInvNext
<1> QED
  BY <1>1, <1>2, PTL DEF InputSpec

\* A reader that has read all there is agrees with its device, whatever was
\* plugged in or out, dropped, taken along into a game or asked for anew; there
\* are never too many readers or two of one device, and no worker of the sound
\* device is left behind or plays into a game (drain_device, read_reports,
\* resynchronize, scan_if_due, finish).
THEOREM MenuAgreesWithItsDevices == InputSpec => []InputInv
<1>1. InputSpec => []TypeOK
  BY GuardRuns, GuardTypeCorrect, PTL
<1> QED
  BY <1>1, MenuInvariant, InputInvHolds, PTL

\* No command is made of anything but a press of its own: of a button held while
\* its device was opened, of what was done in a game, or twice of a press after
\* events were dropped (ScopedMenuInput, read_reports, resynchronize).
THEOREM CommandsArePresses ==
  ASSUME Digital
  PROVE  InputSpec => []EveryCommandIsAPress
<1>1. MenuInv => EveryCommandIsAPress
  <2> SUFFICES ASSUME MenuInv, NEW d \in Devices, NEW c \in Controls(d)
               PROVE  fresh[d][c] >= 0
    BY DEF EveryCommandIsAPress
  <2>1. fresh[d] \in [Controls(d) -> Nat]
    BY DEF MenuInv, WorldInv
  <2> QED
    BY <2>1
<1> QED
  BY <1>1, MenuInvariant, PTL

\* The guard of the controllers holds in the loop that feeds it.
THEOREM LoopBoundsBursts == InputSpec => []BurstBound
  BY GuardRuns, BurstsAreBounded, PTL
=============================================================================
