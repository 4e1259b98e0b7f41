--------------------------- MODULE ProgramProofs ---------------------------
(***************************************************************************)
(* The programs the menu starts.                                           *)
(*                                                                         *)
(* The ten-seconds game: the timer is started and stopped once for a press *)
(* at most, for any number of controllers, any size of the kernel's queues *)
(* and of a read, and any hands.  That is not inductive by itself: a press *)
(* may still be in a queue, have been read and not looked at, or have been *)
(* dropped, and the device that is read anew is down all the same.  Owed   *)
(* counts the presses a device can still be told of, from what its queue,  *)
(* its batch and the device itself say; Flows says that there were as      *)
(* many.  It holds because a key goes down and up by turns, in the queue   *)
(* and in the batch, and because EVIOCGKEY takes back what it answers.     *)
(*                                                                         *)
(* The terminal: the screen memory is in order, and between two reads the  *)
(* panel shows the view, for every size of the screen and of the history.  *)
(* During a read the panel is behind: a cell is dirty, or shows its glyph  *)
(* where it stood before the scrolling that is pending.  During says so of *)
(* every row, Between what is left of it when update() has painted; each   *)
(* control function keeps the first, and each event the second.            *)
(*                                                                         *)
(* The terminal also implements the screen with a scrollback.  Performs    *)
(* says what a function of a read does to the rows and to the history, as  *)
(* lists: it edits, or it scrolls a block and then writes one row.         *)
(***************************************************************************)
EXTENDS VTerm, TenSeconds, Lemmas

ReportType == [kind : {"press", "release", "move", "empty"}, back : BOOLEAN]
EventType == ReportType \union {Dropped}

\* Where a stream of events tells of the key, and where for the first and the
\* last time.
IsKey(e) == e.kind \in {"press", "release"}
KeyAt(q, i) == i \in 1 .. Len(q) /\ IsKey(q[i])
IsFirstKey(q, i) == KeyAt(q, i) /\ \A j \in 1 .. i - 1 : ~KeyAt(q, j)
IsLastKey(q, i) == KeyAt(q, i) /\ \A j \in i + 1 .. Len(q) : ~KeyAt(q, j)
HasKey(q) == \E i \in 1 .. Len(q) : KeyAt(q, i)
FirstIsPress(q) == \E i \in 1 .. Len(q) : IsFirstKey(q, i) /\ q[i].kind = "press"
LastIsPress(q) == \E i \in 1 .. Len(q) : IsLastKey(q, i) /\ q[i].kind = "press"

\* A key goes down and up by turns.
AreNext(q, i, j) ==
  KeyAt(q, i) /\ KeyAt(q, j) /\ i < j /\ \A k \in i + 1 .. j - 1 : ~KeyAt(q, k)
Alternates(q) == \A i, j \in 1 .. Len(q) : AreNext(q, i, j) => q[i].kind # q[j].kind

\* Events were lost before those that are there.
Lost(q) == q # <<>> /\ q[1] = Dropped

IsStream(q) ==
  /\ q \in Seq(EventType) /\ Alternates(q)
  /\ \A i \in 2 .. Len(q) : q[i] # Dropped

Downs == {e \in EventType : e.kind = "press"}
Pressed(q) == Occurrences(q, Downs)
One(b) == IF b THEN 1 ELSE 0

\* A stream that tells of the key what one event tells.
Tells(q, e) ==
  /\ HasKey(q) <=> IsKey(e)
  /\ FirstIsPress(q) <=> e.kind = "press"
  /\ LastIsPress(q) <=> e.kind = "press"
  /\ Pressed(q) = One(e.kind = "press")

\* A stream that tells of the key what two others tell, one after the other.
Joins(q, b, r) ==
  /\ HasKey(q) <=> HasKey(b) \/ HasKey(r)
  /\ FirstIsPress(q) <=> IF HasKey(b) THEN FirstIsPress(b) ELSE FirstIsPress(r)
  /\ LastIsPress(q) <=> IF HasKey(r) THEN LastIsPress(r) ELSE LastIsPress(b)
  /\ HasKey(b) /\ HasKey(r) => (FirstIsPress(r) <=> ~LastIsPress(b))
  /\ Pressed(q) = Pressed(b) + Pressed(r)

\* The first and the last word about the key.
LEMMA KeysAreFound ==
  ASSUME NEW q \in Seq(EventType), HasKey(q)
  PROVE  /\ \E i \in 1 .. Len(q) : IsFirstKey(q, i)
         /\ \E i \in 1 .. Len(q) : IsLastKey(q, i)
<1>1. PICK n \in Nat : n = Len(q)
  OBVIOUS
<1>2. \E i \in 1 .. n : IsFirstKey(q, i)
  <2> DEFINE S == {i \in 1 .. n : KeyAt(q, i)}
  <2>1. S \in SUBSET Nat /\ S # {}
    BY <1>1 DEF HasKey
  <2>2. PICK i \in S : \A j \in S : i <= j
    BY <2>1, LeastIs
  <2> QED
    BY <1>1, <2>2 DEF IsFirstKey, KeyAt
<1>3. \E i \in 1 .. n : IsLastKey(q, i)
  <2> DEFINE S == {k \in 0 .. n : KeyAt(q, n - k)}
  <2>1. S \in SUBSET Nat /\ S # {}
    <3>1. PICK i \in 1 .. n : KeyAt(q, i)
      BY <1>1 DEF HasKey
    <3>2. PICK k \in 0 .. n : n - k = i
      <4>1. n - i \in 0 .. n /\ n - (n - i) = i
        OBVIOUS
      <4> QED
        BY <4>1
    <3>3. KeyAt(q, n - k)
      BY <3>1, <3>2
    <3>4. k \in S
      BY <3>3
    <3>5. \A j \in S : j \in Nat
      OBVIOUS
    <3> HIDE DEF S
    <3> QED
      BY <3>4, <3>5
  <2>2. PICK k \in S : \A j \in S : k <= j
    BY <2>1, LeastIs
  <2>3. ASSUME NEW j \in n - k + 1 .. n, KeyAt(q, j)
        PROVE  FALSE
    <3>1. n - (n - j) = j /\ n - j \in 0 .. n /\ n - j < k
      BY <2>2
    <3> QED
      BY <2>2, <2>3, <3>1
  <2>4. n - k \in 1 .. n
    BY <1>1, <2>2 DEF KeyAt
  <2> QED
    BY <1>1, <2>2, <2>3, <2>4 DEF IsLastKey
<1> QED
  BY <1>1, <1>2, <1>3

\* The first key of a stream is where it is, and so is the last.
LEMMA KeysAreUnique ==
  ASSUME NEW q \in Seq(EventType), NEW i \in 1 .. Len(q)
  PROVE  /\ IsFirstKey(q, i) => HasKey(q) /\ (FirstIsPress(q) <=> q[i].kind = "press")
         /\ IsLastKey(q, i) => HasKey(q) /\ (LastIsPress(q) <=> q[i].kind = "press")
<1>1. \A j \in 1 .. Len(q) : IsFirstKey(q, i) /\ IsFirstKey(q, j) => i = j
  BY DEF IsFirstKey, KeyAt
<1>2. \A j \in 1 .. Len(q) : IsLastKey(q, i) /\ IsLastKey(q, j) => i = j
  BY DEF IsLastKey, KeyAt
<1>3. (IsFirstKey(q, i) \/ IsLastKey(q, i)) => HasKey(q)
  BY DEF IsFirstKey, IsLastKey, HasKey
<1> QED
  BY <1>1, <1>2, <1>3 DEF FirstIsPress, LastIsPress

\* A stream that is cut tells the same in two parts.
LEMMA StreamIsCut ==
  ASSUME NEW q \in Seq(EventType), IsStream(q), NEW n \in 0 .. Len(q),
         NEW b, b = SubSeq(q, 1, n), NEW r, r = SubSeq(q, n + 1, Len(q))
  PROVE  /\ IsStream(b) /\ IsStream(r) /\ Len(b) = n /\ Len(r) = Len(q) - n
         /\ Joins(q, b, r)
         /\ n > 0 => ~Lost(r) /\ (Lost(b) <=> Lost(q))
<1>1. PICK m \in Nat : m = Len(q) /\ q \in Seq(EventType) /\ n \in 0 .. m
  BY DEF IsStream
<1>2. /\ b \in Seq(EventType) /\ Len(b) = n /\ \A i \in 1 .. n : b[i] = q[i]
      /\ r \in Seq(EventType) /\ Len(r) = m - n
      /\ \A i \in 1 .. m - n : r[i] = q[n + i]
  <2>1. \A i \in 1 .. m : q[i] \in EventType
    BY <1>1
  <2> HIDE DEF EventType
  <2>2. b \in Seq(EventType) /\ Len(b) = n /\ \A i \in 1 .. n : b[i] = q[i]
    BY <1>1, <2>1, SubSeqProperties
  <2>3. /\ r \in Seq(EventType) /\ Len(r) = m - n
        /\ \A i \in 1 .. m - n : r[i] = q[n + i]
    BY <1>1, <2>1, SubSeqProperties
  <2> QED
    BY <2>2, <2>3
<1>3. /\ \A i \in 1 .. n : KeyAt(b, i) <=> KeyAt(q, i)
      /\ \A i \in 1 .. m - n : KeyAt(r, i) <=> KeyAt(q, n + i)
  BY <1>1, <1>2 DEF KeyAt
<1>4. HasKey(q) <=> HasKey(b) \/ HasKey(r)
  <2>1. ASSUME HasKey(q)
        PROVE  HasKey(b) \/ HasKey(r)
    <3>1. PICK i \in 1 .. m : KeyAt(q, i)
      BY <1>1, <2>1 DEF HasKey
    <3>2. CASE i <= n
      BY <1>2, <1>3, <3>1, <3>2 DEF HasKey
    <3>3. CASE i > n
      <4>1. PICK k \in 1 .. m - n : n + k = i
        BY <3>3
      <4> QED
        BY <1>2, <1>3, <3>1, <4>1 DEF HasKey
    <3> QED
      BY <3>2, <3>3
  <2> QED
    BY <1>1, <1>2, <1>3, <2>1 DEF HasKey
<1>5. ASSUME NEW i \in 1 .. n
      PROVE  /\ IsFirstKey(b, i) => IsFirstKey(q, i)
             /\ IsLastKey(b, i) /\ ~HasKey(r) => IsLastKey(q, i)
  <2>1. IsFirstKey(b, i) => IsFirstKey(q, i)
    BY <1>1, <1>3 DEF IsFirstKey
  <2>2. ASSUME IsLastKey(b, i), ~HasKey(r), NEW j \in i + 1 .. m, KeyAt(q, j)
        PROVE  FALSE
    <3>1. CASE j <= n
      BY <1>2, <1>3, <2>2, <3>1 DEF IsLastKey
    <3>2. CASE j > n
      <4>1. PICK k \in 1 .. m - n : n + k = j
        BY <3>2
      <4> QED
        BY <1>2, <1>3, <2>2, <4>1 DEF HasKey
    <3> QED
      BY <3>1, <3>2
  <2> QED
    BY <1>1, <1>3, <2>1, <2>2 DEF IsLastKey
<1>6. ASSUME NEW i \in 1 .. m - n
      PROVE  /\ IsLastKey(r, i) => IsLastKey(q, n + i)
             /\ IsFirstKey(r, i) /\ ~HasKey(b) => IsFirstKey(q, n + i)
  <2>1. ASSUME IsLastKey(r, i), NEW j \in n + i + 1 .. m, KeyAt(q, j)
        PROVE  FALSE
    <3>1. PICK k \in i + 1 .. m - n : n + k = j
      OBVIOUS
    <3>2. KeyAt(r, k)
      <4>1. k \in 1 .. m - n
        OBVIOUS
      <4>2. KeyAt(r, k) <=> KeyAt(q, n + k)
        BY <1>3, <4>1
      <4> QED
        BY <2>1, <3>1, <4>2
    <3> QED
      BY <1>2, <2>1, <3>1, <3>2 DEF IsLastKey
  <2>2. ASSUME IsFirstKey(r, i), ~HasKey(b), NEW j \in 1 .. n + i - 1, KeyAt(q, j)
        PROVE  FALSE
    <3>1. CASE j <= n
      BY <1>2, <1>3, <2>2, <3>1 DEF HasKey
    <3>2. CASE j > n
      <4>1. PICK k \in 1 .. i - 1 : n + k = j
        BY <3>2
      <4> QED
        BY <1>2, <1>3, <2>2, <4>1 DEF IsFirstKey
    <3> QED
      BY <3>1, <3>2
  <2> QED
    BY <1>1, <1>3, <2>1, <2>2 DEF IsLastKey, IsFirstKey
<1>7. HasKey(b) => (FirstIsPress(q) <=> FirstIsPress(b))
  <2> SUFFICES ASSUME HasKey(b)
               PROVE  FirstIsPress(q) <=> FirstIsPress(b)
    OBVIOUS
  <2>1. PICK i \in 1 .. n : IsFirstKey(b, i)
    BY <1>2, KeysAreFound
  <2>2. IsFirstKey(q, i) /\ b[i] = q[i] /\ i \in 1 .. Len(q) /\ i \in 1 .. Len(b)
    BY <1>1, <1>2, <1>5, <2>1
  <2> QED
    BY <1>1, <1>2, <2>1, <2>2, KeysAreUnique
<1>8. HasKey(r) => (LastIsPress(q) <=> LastIsPress(r))
  <2> SUFFICES ASSUME HasKey(r)
               PROVE  LastIsPress(q) <=> LastIsPress(r)
    OBVIOUS
  <2>1. PICK i \in 1 .. m - n : IsLastKey(r, i)
    BY <1>2, KeysAreFound
  <2>2. PICK k \in 1 .. m : k = n + i
    BY <1>1
  <2>3. IsLastKey(q, k) /\ r[i] = q[k] /\ k \in 1 .. Len(q) /\ i \in 1 .. Len(r)
    BY <1>1, <1>2, <1>6, <2>1, <2>2
  <2> QED
    BY <1>1, <1>2, <2>1, <2>3, KeysAreUnique
<1>9. ~HasKey(b) => (FirstIsPress(q) <=> FirstIsPress(r))
  <2> SUFFICES ASSUME ~HasKey(b)
               PROVE  FirstIsPress(q) <=> FirstIsPress(r)
    OBVIOUS
  <2>1. CASE HasKey(r)
    <3>1. PICK i \in 1 .. m - n : IsFirstKey(r, i)
      BY <1>2, <2>1, KeysAreFound
    <3>2. PICK k \in 1 .. m : k = n + i
      BY <1>1
    <3>3. IsFirstKey(q, k) /\ r[i] = q[k] /\ k \in 1 .. Len(q) /\ i \in 1 .. Len(r)
      BY <1>1, <1>2, <1>6, <3>1, <3>2
    <3> QED
      BY <1>1, <1>2, <3>1, <3>3, KeysAreUnique
  <2>2. CASE ~HasKey(r)
    BY <1>4, <2>2 DEF FirstIsPress, HasKey, IsFirstKey
  <2> QED
    BY <2>1, <2>2
<1>10. ~HasKey(r) => (LastIsPress(q) <=> LastIsPress(b))
  <2> SUFFICES ASSUME ~HasKey(r)
               PROVE  LastIsPress(q) <=> LastIsPress(b)
    OBVIOUS
  <2>1. CASE HasKey(b)
    <3>1. PICK i \in 1 .. n : IsLastKey(b, i)
      BY <1>2, <2>1, KeysAreFound
    <3>2. IsLastKey(q, i) /\ b[i] = q[i] /\ i \in 1 .. Len(q) /\ i \in 1 .. Len(b)
      BY <1>1, <1>2, <1>5, <3>1
    <3> QED
      BY <1>1, <1>2, <3>1, <3>2, KeysAreUnique
  <2>2. CASE ~HasKey(b)
    BY <1>4, <2>2 DEF LastIsPress, HasKey, IsLastKey
  <2> QED
    BY <2>1, <2>2
<1>11. HasKey(b) /\ HasKey(r) => (FirstIsPress(r) <=> ~LastIsPress(b))
  <2> SUFFICES ASSUME HasKey(b), HasKey(r)
               PROVE  FirstIsPress(r) <=> ~LastIsPress(b)
    OBVIOUS
  <2>1. PICK i \in 1 .. n : IsLastKey(b, i)
    BY <1>2, KeysAreFound
  <2>2. PICK j \in 1 .. m - n : IsFirstKey(r, j)
    BY <1>2, KeysAreFound
  <2>3. PICK k \in 1 .. m : k = n + j
    BY <1>1
  <2>4. ASSUME NEW x \in i + 1 .. k - 1, KeyAt(q, x)
        PROVE  FALSE
    <3>1. CASE x <= n
      BY <1>2, <1>3, <2>1, <2>4, <3>1 DEF IsLastKey
    <3>2. CASE x > n
      <4>1. PICK y \in 1 .. j - 1 : n + y = x
        BY <2>3, <3>2
      <4> QED
        BY <1>2, <1>3, <2>2, <2>4, <4>1 DEF IsFirstKey
    <3> QED
      BY <3>1, <3>2
  <2>5. KeyAt(q, i) /\ KeyAt(q, k) /\ i < k /\ i \in 1 .. m
    BY <1>1, <1>3, <2>1, <2>2, <2>3 DEF IsLastKey, IsFirstKey
  <2>6. q[i].kind # q[k].kind
    BY <1>1, <2>4, <2>5 DEF IsStream, Alternates, AreNext
  <2>7. q[i].kind \in {"press", "release"} /\ q[k].kind \in {"press", "release"}
    BY <2>5 DEF KeyAt, IsKey
  <2>8. /\ LastIsPress(b) <=> q[i].kind = "press"
        /\ FirstIsPress(r) <=> q[k].kind = "press"
    <3>1. b[i] = q[i] /\ i \in 1 .. Len(b) /\ b \in Seq(EventType)
      BY <1>2
    <3>2. r[j] = q[k] /\ j \in 1 .. Len(r) /\ r \in Seq(EventType)
      BY <1>2, <2>3
    <3>3. LastIsPress(b) <=> b[i].kind = "press"
      BY <2>1, <3>1, KeysAreUnique
    <3>4. FirstIsPress(r) <=> r[j].kind = "press"
      BY <2>2, <3>2, KeysAreUnique
    <3> QED
      BY <3>1, <3>2, <3>3, <3>4
  <2> QED
    BY <2>6, <2>7, <2>8
<1>12. Alternates(b) /\ Alternates(r)
  <2>1. ASSUME NEW i \in 1 .. n, NEW j \in 1 .. n, AreNext(b, i, j)
        PROVE  b[i].kind # b[j].kind
    <3>1. AreNext(q, i, j)
      BY <1>1, <1>3, <2>1 DEF AreNext
    <3> QED
      BY <1>1, <1>2, <3>1 DEF IsStream, Alternates
  <2>2. ASSUME NEW i \in 1 .. m - n, NEW j \in 1 .. m - n, AreNext(r, i, j)
        PROVE  r[i].kind # r[j].kind
    <3>1. PICK x \in 1 .. m, y \in 1 .. m : x = n + i /\ y = n + j
      BY <1>1
    <3>2. ASSUME NEW k \in x + 1 .. y - 1, KeyAt(q, k)
          PROVE  FALSE
      <4>1. PICK z \in i + 1 .. j - 1 : n + z = k
        BY <3>1
      <4>2. z \in 1 .. m - n
        BY <4>1
      <4>3. KeyAt(r, z)
        <5>1. KeyAt(r, z) <=> KeyAt(q, n + z)
          BY <1>3, <4>2
        <5> QED
          BY <3>2, <4>1, <5>1
      <4> QED
        BY <2>2, <4>1, <4>3 DEF AreNext
    <3>3. AreNext(q, x, y)
      BY <1>1, <1>3, <2>2, <3>1, <3>2 DEF AreNext
    <3> QED
      BY <1>1, <1>2, <3>1, <3>3 DEF IsStream, Alternates
  <2> QED
    BY <1>2, <2>1, <2>2, SMTT(30) DEF Alternates
<1>13. IsStream(b) /\ IsStream(r)
  <2>1. \A i \in 2 .. m : q[i] # Dropped
    BY <1>1 DEF IsStream
  <2>2. \A i \in 2 .. n : b[i] # Dropped
    BY <1>1, <1>2, <2>1
  <2>3. \A i \in 2 .. m - n : r[i] # Dropped
    BY <1>1, <1>2, <2>1
  <2> QED
    BY <1>2, <1>12, <2>2, <2>3 DEF IsStream
<1>14. n > 0 => ~Lost(r) /\ (Lost(b) <=> Lost(q))
  <2> SUFFICES ASSUME n > 0
               PROVE  ~Lost(r) /\ (Lost(b) <=> Lost(q))
    OBVIOUS
  <2>1. b[1] = q[1] /\ b # <<>> /\ q # <<>>
    BY <1>1, <1>2
  <2>2. r # <<>> => r[1] # Dropped
    BY <1>1, <1>2 DEF IsStream
  <2> QED
    BY <2>1, <2>2 DEF Lost
<1>15. Pressed(q) = Pressed(b) + Pressed(r)
  <2> HIDE DEF EventType
  <2>1. Occurrences(q, Downs) = Occurrences(SubSeq(q, 1, n), Downs)
                                  + Occurrences(SubSeq(q, n + 1, Len(q)), Downs)
    BY <1>1, OccurrencesSplit
  <2> QED
    BY <2>1 DEF Pressed
<1> QED
  BY <1>1, <1>2, <1>4, <1>7, <1>8, <1>9, <1>10, <1>11, <1>13, <1>14, <1>15 DEF Joins

\* What nothing and what one event tell.
LEMMA FewEvents ==
  /\ IsStream(<<>>) /\ ~HasKey(<<>>) /\ ~Lost(<<>>) /\ Pressed(<<>>) = 0
  /\ \A e \in EventType : IsStream(<<e>>) /\ Tells(<<e>>, e)
<1>1. /\ IsStream(<<>>) /\ ~HasKey(<<>>) /\ ~Lost(<<>>)
  BY DEF IsStream, Alternates, HasKey, Lost
<1>2. Pressed(<<>>) = 0
  BY OccurrencesOfOne DEF Pressed
<1>3. ASSUME NEW e \in EventType
      PROVE  IsStream(<<e>>) /\ Tells(<<e>>, e)
  <2>1. PICK q \in Seq(EventType) : q = <<e>> /\ Len(q) = 1 /\ q[1] = e
    <3>1. <<e>> \in Seq(EventType) /\ Len(<<e>>) = 1 /\ <<e>>[1] = e
      OBVIOUS
    <3> QED
      BY <3>1
  <2>2. KeyAt(q, 1) <=> IsKey(e)
    BY <2>1 DEF KeyAt
  <2>3. HasKey(q) <=> IsKey(e)
    BY <2>1, <2>2 DEF HasKey, KeyAt
  <2>4. /\ IsFirstKey(q, 1) <=> IsKey(e)
        /\ IsLastKey(q, 1) <=> IsKey(e)
    BY <2>1, <2>2 DEF IsFirstKey, IsLastKey
  <2>5. /\ FirstIsPress(q) <=> e.kind = "press"
        /\ LastIsPress(q) <=> e.kind = "press"
    BY <2>1, <2>4 DEF FirstIsPress, LastIsPress, IsFirstKey, IsLastKey, KeyAt, IsKey
  <2>6. IsStream(q)
    BY <2>1 DEF IsStream, Alternates, AreNext
  <2>7. Occurrences(<<e>>, Downs) = IF e \in Downs THEN 1 ELSE 0
    BY OccurrencesOfOne
  <2>8. e \in Downs <=> e.kind = "press"
    BY DEF Downs
  <2> QED
    BY <2>1, <2>3, <2>5, <2>6, <2>7, <2>8 DEF Pressed, One, Tells
<1> QED
  BY <1>1, <1>2, <1>3

\* The presses of a stream are a number.
LEMMA PressedIsNat ==
  ASSUME NEW q, IsStream(q)
  PROVE  Pressed(q) \in Nat /\ (LastIsPress(q) \/ FirstIsPress(q) => Pressed(q) >= 1)
<1>1. q \in Seq(EventType)
  BY DEF IsStream
<1>2. Occurrences(q, Downs) \in Nat
      /\ ((\E i \in 1 .. Len(q) : q[i] \in Downs) => Occurrences(q, Downs) >= 1)
  <2> HIDE DEF EventType
  <2> QED
    BY <1>1, OccurrencesAre
<1>3. LastIsPress(q) \/ FirstIsPress(q) => \E i \in 1 .. Len(q) : q[i] \in Downs
  <2>1. \A i \in 1 .. Len(q) : q[i] \in EventType
    BY <1>1
  <2> HIDE DEF EventType
  <2> QED
    BY <2>1 DEF LastIsPress, FirstIsPress, Downs
<1> QED
  BY <1>2, <1>3 DEF Pressed

\* A stream is its first event and the rest.
LEMMA StreamTail ==
  ASSUME NEW q, IsStream(q), q # <<>>, NEW e, e = Head(q), NEW r, r = Tail(q)
  PROVE  /\ e \in EventType /\ IsStream(r) /\ ~Lost(r) /\ (Lost(q) <=> e = Dropped)
         /\ \E b : Tells(b, e) /\ Joins(q, b, r)
<1>1. q \in Seq(EventType) /\ Len(q) \in Nat /\ Len(q) >= 1 /\ 1 \in 0 .. Len(q)
  BY DEF IsStream
<1>2. e = q[1] /\ e \in EventType
  BY <1>1
<1>3. r = SubSeq(q, 2, Len(q))
  BY <1>1
<1>4. SubSeq(q, 1, 1) = <<e>>
  <2> HIDE DEF EventType
  <2>1. \A i \in 1 .. 1 : q[i] \in EventType
    BY <1>1, <1>2
  <2>2. /\ SubSeq(q, 1, 1) \in Seq(EventType) /\ Len(SubSeq(q, 1, 1)) = 1
        /\ SubSeq(q, 1, 1)[1] = e
    BY <1>1, <1>2, <2>1, SubSeqProperties
  <2> QED
    BY <1>2, <2>2, ListOfOne
<1>5. PICK b : b = <<e>> /\ b = SubSeq(q, 1, 1)
  BY <1>4
<1>6. PICK n \in 0 .. Len(q) : n > 0 /\ b = SubSeq(q, 1, n) /\ r = SubSeq(q, n + 1, Len(q))
  BY <1>1, <1>3, <1>5
<1>7. IsStream(r) /\ Joins(q, b, r) /\ ~Lost(r)
  BY <1>1, <1>6, StreamIsCut, ZenonT(60)
<1>8. Tells(b, e)
  BY <1>2, <1>5, FewEvents
<1>9. Lost(q) <=> e = Dropped
  BY <1>2 DEF Lost
<1> QED
  BY <1>2, <1>7, <1>8, <1>9

\* A stream that goes on tells what it told and what is new.
LEMMA StreamAppend ==
  ASSUME NEW q, IsStream(q), NEW e \in EventType, e # Dropped,
         IsKey(e) /\ HasKey(q) => (e.kind = "press" <=> ~LastIsPress(q)),
         NEW r, r = Append(q, e)
  PROVE  /\ IsStream(r) /\ r # <<>> /\ Len(r) = Len(q) + 1
         /\ q # <<>> => (Lost(r) <=> Lost(q))
         /\ \E b : Tells(b, e) /\ Joins(r, q, b)
<1>1. PICK n \in Nat : n = Len(q) /\ q \in Seq(EventType)
  BY DEF IsStream
<1>2. /\ r \in Seq(EventType) /\ Len(r) = n + 1 /\ r[n + 1] = e
      /\ \A i \in 1 .. n : r[i] = q[i]
  <2> HIDE DEF EventType
  <2> QED
    BY <1>1, AppendProperties
<1>3. /\ \A i \in 1 .. n : KeyAt(r, i) <=> KeyAt(q, i)
      /\ KeyAt(r, n + 1) <=> IsKey(e)
  BY <1>1, <1>2 DEF KeyAt
<1>4. ASSUME NEW i \in 1 .. n + 1, NEW j \in 1 .. n + 1, AreNext(r, i, j)
      PROVE  r[i].kind # r[j].kind
  <2>1. i < j /\ i \in 1 .. n /\ KeyAt(q, i) /\ r[i] = q[i]
    BY <1>2, <1>3, <1>4 DEF AreNext
  <2>2. CASE j <= n
    <3>1. AreNext(q, i, j) /\ r[j] = q[j] /\ j \in 1 .. n
      BY <1>2, <1>3, <1>4, <2>1, <2>2 DEF AreNext
    <3> QED
      BY <1>1, <2>1, <3>1 DEF IsStream, Alternates
  <2>3. CASE j = n + 1
    <3>1. IsKey(e) /\ \A k \in i + 1 .. n : ~KeyAt(q, k)
      BY <1>3, <1>4, <2>1, <2>3 DEF AreNext
    <3>2. IsLastKey(q, i) /\ i \in 1 .. Len(q)
      BY <1>1, <2>1, <3>1 DEF IsLastKey
    <3>3. HasKey(q) /\ (LastIsPress(q) <=> q[i].kind = "press")
      BY <1>1, <3>2, KeysAreUnique
    <3> QED
      BY <1>2, <2>1, <2>3, <3>1, <3>3
  <2> QED
    BY <1>1, <2>2, <2>3
<1>5. IsStream(r)
  <2>1. \A i \in 2 .. n : q[i] # Dropped
    BY <1>1 DEF IsStream
  <2>2. \A i \in 2 .. n + 1 : r[i] # Dropped
    BY <1>1, <1>2, <2>1
  <2> QED
    BY <1>2, <1>4, <2>2 DEF IsStream, Alternates
<1>6. q = SubSeq(r, 1, n) /\ <<e>> = SubSeq(r, n + 1, Len(r)) /\ n \in 0 .. Len(r)
  <2>1. q = SubSeq(r, 1, n)
    BY <1>1, <1>2
  <2>2. <<e>> = SubSeq(r, n + 1, Len(r))
    BY <1>1, <1>2
  <2>3. n \in 0 .. Len(r)
    BY <1>1, <1>2
  <2> QED
    BY <2>1, <2>2, <2>3
<1>7. PICK b : b = <<e>> /\ b = SubSeq(r, n + 1, Len(r))
  BY <1>6
<1>8. Joins(r, q, b) /\ (n > 0 => (Lost(q) <=> Lost(r)))
  BY <1>2, <1>5, <1>6, <1>7, StreamIsCut
<1>9. Tells(b, e)
  BY <1>7, FewEvents
<1>10. q # <<>> => n > 0
  BY <1>1
<1> QED
  BY <1>1, <1>2, <1>5, <1>8, <1>9, <1>10

\* What is left when events were dropped.
LEMMA StreamDropped ==
  ASSUME NEW e \in EventType, e # Dropped, NEW r, r = <<Dropped, e>>
  PROVE  IsStream(r) /\ Lost(r) /\ Len(r) = 2 /\ Tells(r, e)
<1>1. Dropped \in EventType /\ ~IsKey(Dropped) /\ Dropped.kind # "press"
  BY DEF Dropped, Told, EventType, ReportType, IsKey
<1>2. PICK q : q = <<Dropped>> /\ r = Append(q, e)
  <2> HIDE DEF EventType, Dropped
  <2>1. Append(<<Dropped>>, e) = <<Dropped, e>>
    BY <1>1, ListOfTwo
  <2> QED
    BY <2>1
<1>3. /\ IsStream(q) /\ Tells(q, Dropped)
  BY <1>1, <1>2, FewEvents
<1>4. q # <<>> /\ Lost(q) /\ Len(q) = 1 /\ ~HasKey(q) /\ ~LastIsPress(q) /\ Pressed(q) = 0
  BY <1>1, <1>2, <1>3 DEF Lost, Tells, One
<1>5. /\ IsStream(r) /\ Len(r) = Len(q) + 1 /\ (Lost(r) <=> Lost(q))
      /\ \E b : Tells(b, e) /\ Joins(r, q, b)
  BY <1>2, <1>3, <1>4, StreamAppend
<1>6. PICK b : Tells(b, e) /\ Joins(r, q, b)
  BY <1>5
<1>7. e.kind = "press" => IsKey(e)
  BY DEF IsKey
<1>8. One(e.kind = "press") \in Int
  BY DEF One
<1>9. Tells(r, e)
  BY <1>4, <1>6, <1>7, <1>8 DEF Tells, Joins
<1> QED
  BY <1>4, <1>5, <1>9

\* The kernel takes all that was told of the key.
LEMMA StreamUnkeyed ==
  ASSUME NEW q, IsStream(q), NEW r, r = Unkeyed(q)
  PROVE  /\ IsStream(r) /\ Len(r) = Len(q) /\ ~HasKey(r) /\ Pressed(r) = 0
         /\ Lost(r) <=> Lost(q)
<1>1. PICK n \in Nat : n = Len(q) /\ q \in Seq(EventType) /\ DOMAIN q = 1 .. n
  BY DEF IsStream
<1>2. \A i \in 1 .. n : q[i] \in EventType
  BY <1>1
<1>3. ASSUME NEW i \in 1 .. n
      PROVE  /\ r[i] \in EventType /\ ~IsKey(r[i]) /\ r[i].kind # "press"
             /\ r[i] = Dropped <=> q[i] = Dropped
  BY <1>1, <1>2, <1>3 DEF Unkeyed, Told, Dropped, EventType, ReportType, IsKey
<1>4. DOMAIN r = 1 .. n /\ r = [i \in 1 .. n |-> r[i]]
  BY <1>1 DEF Unkeyed
<1>5. r \in Seq(EventType) /\ Len(r) = n
  <2> HIDE DEF EventType
  <2> QED
    BY <1>3, <1>4
<1>6. ~HasKey(r) /\ Alternates(r)
  BY <1>3, <1>5 DEF HasKey, KeyAt, Alternates, AreNext
<1>7. \A i \in 2 .. Len(r) : r[i] # Dropped
  <2>1. \A i \in 2 .. Len(q) : q[i] # Dropped
    BY DEF IsStream
  <2> QED
    BY <1>1, <1>3, <1>5, <2>1
<1>8. Lost(r) <=> Lost(q)
  <2>1. r # <<>> <=> q # <<>>
    BY <1>1, <1>5
  <2>2. q # <<>> => 1 \in 1 .. n
    BY <1>1
  <2> QED
    BY <1>3, <2>1, <2>2 DEF Lost
<1>9. Pressed(r) = 0
  <2>1. {i \in 1 .. Len(r) : r[i] \in Downs} = {}
    BY <1>3, <1>5 DEF Downs
  <2> QED
    BY <2>1, FS_EmptySet DEF Pressed, Occurrences
<1> QED
  BY <1>1, <1>5, <1>6, <1>7, <1>8, <1>9 DEF IsStream

\* A stream that tells of the key what an event and then a stream tell.
Follows(b, e, r) ==
  /\ HasKey(b) <=> IsKey(e) \/ HasKey(r)
  /\ FirstIsPress(b) <=> IF IsKey(e) THEN e.kind = "press" ELSE FirstIsPress(r)
  /\ LastIsPress(b) <=> IF HasKey(r) THEN LastIsPress(r) ELSE e.kind = "press"
  /\ IsKey(e) /\ HasKey(r) => (FirstIsPress(r) <=> e.kind # "press")
  /\ Pressed(b) = One(e.kind = "press") + Pressed(r)

\* The first event of a stream, and what it leaves.
LEMMA StreamFollows ==
  ASSUME NEW b, IsStream(b), b # <<>>
  PROVE  /\ Head(b) \in EventType /\ IsStream(Tail(b)) /\ ~Lost(Tail(b))
         /\ Lost(b) <=> Head(b) = Dropped
         /\ Follows(b, Head(b), Tail(b))
<1>1. PICK e, r : e = Head(b) /\ r = Tail(b)
  OBVIOUS
<1>2. /\ e \in EventType /\ IsStream(r) /\ ~Lost(r) /\ (Lost(b) <=> e = Dropped)
      /\ \E c : Tells(c, e) /\ Joins(b, c, r)
  BY <1>1, StreamTail
<1>3. PICK c : Tells(c, e) /\ Joins(b, c, r)
  BY <1>2
<1>4. Follows(b, e, r)
  BY <1>3 DEF Follows, Tells, Joins
<1> QED
  BY <1>1, <1>2, <1>4

-----------------------------------------------------------------------------
(* From the hands to the device, as far as it goes for one of them.        *)

DeviceType == [open : BOOLEAN, down : BOOLEAN, reported : BOOLEAN,
               dropping : BOOLEAN, back : BOOLEAN]

\* Whether the key is down before the first event the kernel keeps, and after
\* the last event that was read.
StartsDown(q, w) == IF HasKey(q) THEN ~FirstIsPress(q) ELSE w
EndsDown(d, b) == IF HasKey(b) THEN LastIsPress(b) ELSE d.reported

\* A press of which no event is left between them.
Unseen(d, b, q, w) == One(~EndsDown(d, b) /\ StartsDown(q, w))

\* A press lost before what was read, or one in it that was taken already.
Behind(d, b) ==
  (d.dropping \/ Lost(b)) /\ HasKey(b) /\ ~d.reported /\ ~FirstIsPress(b)
Again(d, b) ==
  ~(d.dropping \/ Lost(b)) /\ HasKey(b) /\ d.reported /\ FirstIsPress(b)
Ahead(d, b) == One(Behind(d, b)) - One(Again(d, b))

Owed(d, b, q, w) == Pressed(b) + Pressed(q) + Unseen(d, b, q, w) + Ahead(d, b)

\* The events end with what the hand does, and no more presses can be taken
\* than there were.
Flows(d, b, q, w, f) ==
  /\ IsStream(b) /\ IsStream(q)
  /\ HasKey(q) => (LastIsPress(q) <=> w)
  /\ d.down = d.reported
  /\ f >= Owed(d, b, q, w)

\* A press that no event tells of is one at most.
LEMMA OwedIsInt ==
  ASSUME NEW d, NEW b, NEW q, NEW w, IsStream(b), IsStream(q)
  PROVE  /\ Pressed(b) \in Nat /\ Pressed(q) \in Nat
         /\ FirstIsPress(q) => Pressed(q) >= 1
         /\ Unseen(d, b, q, w) \in {0, 1} /\ Ahead(d, b) \in {-1, 0, 1}
<1>1. /\ Pressed(b) \in Nat /\ Pressed(q) \in Nat
      /\ FirstIsPress(q) => Pressed(q) >= 1
  BY PressedIsNat
<1>2. Unseen(d, b, q, w) \in {0, 1} /\ Ahead(d, b) \in {-1, 0, 1}
  BY DEF Unseen, Ahead, One
<1> QED
  BY <1>1, <1>2

\* What a hand can do, and what the kernel keeps of it.
HandDoes(e, w, x) ==
  \/ e.kind = "press" /\ ~w /\ x
  \/ e.kind = "release" /\ w /\ ~x
  \/ e.kind = "move" /\ w /\ x
Keeps(q, e, r) == r = Append(q, e) \/ r = <<Dropped, e>>
Counts(f, e, g) == g = IF e.kind = "press" THEN f + 1 ELSE f

\* The hand does something: the kernel keeps it, or what is left after events
\* were dropped.
LEMMA FlowsPosted ==
  ASSUME NEW d \in DeviceType, NEW b, NEW q, NEW w \in BOOLEAN, NEW f \in Int,
         Flows(d, b, q, w, f),
         NEW e \in ReportType, NEW x \in BOOLEAN, HandDoes(e, w, x),
         NEW r, Keeps(q, e, r),
         NEW g \in Int, Counts(f, e, g)
  PROVE  Flows(d, b, r, x, g)
<1> USE DEF HandDoes, Keeps, Counts
<1>1. e \in EventType /\ e # Dropped
  BY DEF EventType, ReportType, Dropped, Told
<1>2. IsStream(b) /\ IsStream(q) /\ f >= Owed(d, b, q, w)
  BY DEF Flows
<1>3. /\ Pressed(b) \in Nat /\ Pressed(q) \in Nat
      /\ FirstIsPress(q) => Pressed(q) >= 1
      /\ Unseen(d, b, q, w) \in {0, 1} /\ Ahead(d, b) \in {-1, 0, 1}
  BY <1>2, OwedIsInt
<1>4. IsKey(e) <=> e.kind # "move"
  BY DEF IsKey
<1>5. CASE r = Append(q, e)
  <2>1. IsKey(e) /\ HasKey(q) => (e.kind = "press" <=> ~LastIsPress(q))
    BY <1>4 DEF Flows
  <2>2. IsStream(r) /\ \E c : Tells(c, e) /\ Joins(r, q, c)
    BY <1>1, <1>2, <1>5, <2>1, StreamAppend
  <2>3. PICK c : Tells(c, e) /\ Joins(r, q, c)
    BY <2>2
  <2>4. Pressed(r) = Pressed(q) + One(e.kind = "press")
    BY <2>3 DEF Tells, Joins
  <2>5. StartsDown(r, x) <=> StartsDown(q, w)
    BY <1>4, <2>3 DEF Tells, Joins, StartsDown
  <2>6. HasKey(r) => (LastIsPress(r) <=> x)
    BY <1>4, <2>3 DEF Tells, Joins, Flows
  <2>7. Unseen(d, b, r, x) = Unseen(d, b, q, w)
    BY <2>5 DEF Unseen
  <2> QED
    BY <1>2, <1>3, <2>2, <2>4, <2>6, <2>7 DEF Flows, Owed, One
<1>6. CASE r = <<Dropped, e>>
  <2>1. IsStream(r) /\ Tells(r, e)
    BY <1>1, <1>6, StreamDropped
  <2>2. Pressed(r) = One(e.kind = "press")
    BY <2>1 DEF Tells
  <2>3. StartsDown(r, x) <=> w
    BY <1>4, <2>1 DEF Tells, StartsDown
  <2>4. HasKey(r) => (LastIsPress(r) <=> x)
    BY <1>4, <2>1 DEF Tells
  <2>5. Unseen(d, b, r, x) <= Unseen(d, b, q, w) + Pressed(q)
    BY <1>3, <2>3 DEF Unseen, StartsDown, One
  <2>6. Unseen(d, b, r, x) \in {0, 1}
    BY DEF Unseen, One
  <2> QED
    BY <1>2, <1>3, <2>1, <2>2, <2>4, <2>5, <2>6, SMTT(30) DEF Flows, Owed, One
<1> QED
  BY <1>5, <1>6

\* Events are read: nothing more can be taken.
LEMMA FlowsRead ==
  ASSUME NEW d \in DeviceType, NEW q, NEW w \in BOOLEAN, NEW f \in Int,
         Flows(d, <<>>, q, w, f),
         NEW b, NEW r, IsStream(b), IsStream(r), Joins(q, b, r)
  PROVE  Flows(d, b, r, w, f)
<1>1. IsStream(q) /\ q \in Seq(EventType) /\ f >= Owed(d, <<>>, q, w)
  BY DEF Flows, IsStream
<1>2. /\ Pressed(b) \in Nat /\ Pressed(r) \in Nat /\ Pressed(q) \in Nat
      /\ Pressed(q) = Pressed(b) + Pressed(r)
  BY <1>1, PressedIsNat DEF Joins
<1>3. ~HasKey(<<>>) /\ ~Lost(<<>>) /\ Pressed(<<>>) = 0 /\ IsStream(<<>>)
  BY FewEvents
<1>4. /\ Unseen(d, b, r, w) \in {0, 1} /\ Ahead(d, b) \in {-1, 0, 1}
      /\ Unseen(d, <<>>, q, w) \in {0, 1} /\ Ahead(d, <<>>) = 0
  BY <1>3 DEF Unseen, Ahead, Behind, Again, One
<1>5. Unseen(d, b, r, w) + Ahead(d, b) <= Unseen(d, <<>>, q, w)
  <2>1. Unseen(d, <<>>, q, w) = One(~d.reported /\ StartsDown(q, w))
    BY <1>3 DEF Unseen, EndsDown
  <2>2. CASE HasKey(b)
    <3>1. Unseen(d, b, r, w) = 0
      BY <2>2 DEF Unseen, EndsDown, StartsDown, Joins, Flows, One
    <3>2. StartsDown(q, w) <=> ~FirstIsPress(b)
      BY <2>2 DEF StartsDown, Joins
    <3>3. CASE Behind(d, b)
      BY <1>4, <2>1, <3>1, <3>2, <3>3 DEF Behind, One
    <3>4. CASE ~Behind(d, b)
      BY <1>4, <3>1, <3>4 DEF Ahead, One
    <3> QED
      BY <3>3, <3>4
  <2>3. CASE ~HasKey(b)
    <3>1. StartsDown(q, w) <=> StartsDown(r, w)
      BY <2>3 DEF StartsDown, Joins
    <3>2. Ahead(d, b) = 0
      BY <2>3 DEF Ahead, Behind, Again, One
    <3>3. Unseen(d, b, r, w) = Unseen(d, <<>>, q, w)
      BY <2>1, <2>3, <3>1 DEF Unseen, EndsDown
    <3> QED
      BY <1>4, <3>2, <3>3
  <2> QED
    BY <2>2, <2>3
<1>6. HasKey(r) => (LastIsPress(r) <=> w)
  BY DEF Joins, Flows
<1>7. f >= Owed(d, b, r, w)
  BY <1>1, <1>2, <1>3, <1>4, <1>5 DEF Owed
<1> QED
  BY <1>6, <1>7 DEF Flows

\* Part of a stream is read.
LEMMA StreamRead ==
  ASSUME NEW q, IsStream(q), NEW n \in 0 .. Len(q)
  PROVE  /\ IsStream(SubSeq(q, 1, n)) /\ IsStream(SubSeq(q, n + 1, Len(q)))
         /\ Len(SubSeq(q, n + 1, Len(q))) <= Len(q)
         /\ Joins(q, SubSeq(q, 1, n), SubSeq(q, n + 1, Len(q)))
<1>1. q \in Seq(EventType) /\ Len(q) \in Nat
  BY DEF IsStream
<1>2. \A b, r : b = SubSeq(q, 1, n) /\ r = SubSeq(q, n + 1, Len(q)) => Joins(q, b, r)
  BY <1>1, StreamIsCut
<1>3. \A b, r : b = SubSeq(q, 1, n) /\ r = SubSeq(q, n + 1, Len(q)) => IsStream(b)
  BY <1>1, StreamIsCut
<1>4. \A b, r : b = SubSeq(q, 1, n) /\ r = SubSeq(q, n + 1, Len(q)) => IsStream(r)
  BY <1>1, StreamIsCut
<1>5. Len(SubSeq(q, n + 1, Len(q))) <= Len(q)
  BY <1>1
<1> QED
  BY <1>2, <1>3, <1>4, <1>5

\* What an event makes of a device, and what is left when a press is taken.
Makes(d, e, x) == x.down = Updated(d, e).down /\ x.reported = x.down
TakesPress(d, x, f, g) == g = IF x.down /\ ~d.reported THEN f - 1 ELSE f

\* An event is looked at while nothing was lost.
LEMMA FlowsEvent ==
  ASSUME NEW d \in DeviceType, NEW b, NEW q, NEW w \in BOOLEAN, NEW f \in Int,
         Flows(d, b, q, w, f), ~d.dropping, b # <<>>,
         NEW e, e = Head(b), e # Dropped, NEW r, r = Tail(b),
         NEW x \in DeviceType, ~x.dropping, Makes(d, e, x),
         NEW g \in Int, TakesPress(d, x, f, g)
  PROVE  Flows(x, r, q, w, g)
<1> USE DEF Makes, TakesPress
<1>1. IsStream(b) /\ IsStream(q) /\ f >= Owed(d, b, q, w) /\ d.down = d.reported
  BY DEF Flows
<1>2. /\ e \in ReportType /\ IsStream(r) /\ ~Lost(r) /\ ~Lost(b)
      /\ Follows(b, e, r)
  <2>1. /\ Head(b) \in EventType /\ IsStream(Tail(b)) /\ ~Lost(Tail(b))
        /\ Lost(b) <=> Head(b) = Dropped
        /\ Follows(b, Head(b), Tail(b))
    BY <1>1, StreamFollows
  <2> QED
    BY <2>1 DEF EventType
<1>3. Pressed(b) \in Nat /\ Pressed(r) \in Nat /\ Pressed(q) \in Nat
  BY <1>1, <1>2, PressedIsNat
<1>4. CASE e.kind = "press"
  <2>1. x.down = TRUE /\ x.reported = TRUE /\ IsKey(e)
    BY <1>4 DEF Updated, DeviceType, IsKey
  <2>2. Pressed(b) = 1 + Pressed(r)
    BY <1>2, <1>4 DEF Follows, One
  <2>3. Ahead(d, b) = -One(d.reported) /\ Ahead(x, r) = 0
    BY <1>2, <1>4, <2>1 DEF Follows, Ahead, Behind, Again, One, DeviceType
  <2>4. Unseen(x, r, q, w) = Unseen(d, b, q, w) /\ Unseen(x, r, q, w) \in {0, 1}
    BY <1>2, <1>4, <2>1 DEF Follows, Unseen, EndsDown, One
  <2> QED
    BY <1>1, <1>2, <1>3, <2>1, <2>2, <2>3, <2>4 DEF Flows, Owed, One
<1>5. CASE e.kind = "release"
  <2>1. x.down = FALSE /\ x.reported = FALSE /\ IsKey(e)
    BY <1>5 DEF Updated, DeviceType, IsKey
  <2>2. Pressed(b) = Pressed(r)
    BY <1>2, <1>3, <1>5 DEF Follows, One
  <2>3. Ahead(d, b) = 0 /\ Ahead(x, r) = 0
    BY <1>2, <1>5, <2>1 DEF Follows, Ahead, Behind, Again, One
  <2>4. Unseen(x, r, q, w) = Unseen(d, b, q, w) /\ Unseen(x, r, q, w) \in {0, 1}
    BY <1>2, <1>5, <2>1 DEF Follows, Unseen, EndsDown, One
  <2> QED
    BY <1>1, <1>2, <1>3, <2>1, <2>2, <2>3, <2>4 DEF Flows, Owed, One
<1>6. CASE e.kind \in {"move", "empty"}
  <2>1. x.down = d.reported /\ x.reported = d.reported /\ ~IsKey(e)
    BY <1>1, <1>6 DEF Updated, DeviceType, IsKey
  <2>2. Pressed(b) = Pressed(r)
    BY <1>2, <1>3, <1>6 DEF Follows, One
  <2>3. Ahead(d, b) = Ahead(x, r) /\ Ahead(x, r) \in {-1, 0, 1}
    BY <1>2, <1>6, <2>1 DEF Follows, Ahead, Behind, Again, One
  <2>4. Unseen(x, r, q, w) = Unseen(d, b, q, w) /\ Unseen(x, r, q, w) \in {0, 1}
    BY <1>2, <1>6, <2>1 DEF Follows, Unseen, EndsDown, One
  <2> QED
    BY <1>1, <1>2, <1>3, <2>1, <2>2, <2>3, <2>4 DEF Flows, Owed, One
<1> QED
  BY <1>2, <1>4, <1>5, <1>6 DEF ReportType

\* SYN_DROPPED is looked at, or an event after it of a touchscreen that is
\* gone.
LEMMA FlowsSkipped ==
  ASSUME NEW d \in DeviceType, NEW b, NEW q, NEW w \in BOOLEAN, NEW f \in Int,
         Flows(d, b, q, w, f), b # <<>>,
         NEW x \in DeviceType, x.down = d.down, x.reported = d.reported,
         \/ Head(b) = Dropped /\ x.dropping
         \/ Head(b) # Dropped /\ d.dropping /\ ~x.dropping
  PROVE  Flows(x, Tail(b), q, w, f)
<1>1. IsStream(b) /\ IsStream(q) /\ f >= Owed(d, b, q, w) /\ d.down = d.reported
  BY DEF Flows
<1>2. PICK e, r : e = Head(b) /\ r = Tail(b)
  OBVIOUS
<1>3. /\ e \in EventType /\ IsStream(r) /\ ~Lost(r) /\ (Lost(b) <=> e = Dropped)
      /\ Follows(b, e, r)
  BY <1>1, <1>2, StreamFollows
<1>4. Pressed(b) \in Nat /\ Pressed(r) \in Nat /\ Pressed(q) \in Nat
  BY <1>1, <1>3, PressedIsNat
<1>5. e.kind = "press" => IsKey(e)
  BY DEF IsKey
<1>6. /\ Unseen(d, b, q, w) \in {0, 1} /\ Ahead(d, b) \in {-1, 0, 1}
      /\ Unseen(x, r, q, w) \in {0, 1} /\ Ahead(x, r) \in {-1, 0, 1}
  BY <1>1, <1>3, OwedIsInt
<1>7. CASE e = Dropped
  <2>1. ~IsKey(e) /\ e.kind # "press"
    BY <1>7 DEF Dropped, Told, IsKey
  <2>2. Pressed(b) = Pressed(r)
    BY <1>3, <1>4, <2>1 DEF Follows, One
  <2>3. Ahead(d, b) = Ahead(x, r)
    BY <1>2, <1>3, <1>7, <2>1 DEF Follows, Ahead, Behind, Again
  <2>4. Unseen(x, r, q, w) = Unseen(d, b, q, w)
    BY <1>3, <2>1 DEF Follows, Unseen, EndsDown
  <2>5. f >= Owed(x, r, q, w)
    BY <1>1, <1>4, <1>6, <2>2, <2>3, <2>4 DEF Owed
  <2> QED
    BY <1>1, <1>2, <1>3, <2>5 DEF Flows
<1>8. CASE e # Dropped
  <2>1. Ahead(x, r) <= 0 /\ Ahead(d, b) >= 0
    BY <1>2, <1>3, <1>8 DEF Ahead, Behind, Again, One
  <2>2. Unseen(x, r, q, w) + Pressed(r) <= Unseen(d, b, q, w) + Pressed(b)
    <3>1. CASE e.kind = "press"
      <4>1. Pressed(b) = 1 + Pressed(r)
        BY <1>3, <3>1 DEF Follows, One
      <4> QED
        BY <1>4, <1>6, <4>1
    <3>2. CASE e.kind # "press"
      <4>1. Pressed(b) = Pressed(r)
        BY <1>3, <1>4, <3>2 DEF Follows, One
      <4>2. ~EndsDown(x, r) => ~EndsDown(d, b)
        BY <1>3, <3>2 DEF Follows, EndsDown
      <4>3. Unseen(x, r, q, w) <= Unseen(d, b, q, w)
        BY <1>6, <4>2 DEF Unseen, One
      <4> QED
        BY <1>4, <1>6, <4>1, <4>3
    <3> QED
      BY <3>1, <3>2
  <2>3. f >= Owed(x, r, q, w)
    BY <1>1, <1>4, <1>6, <2>1, <2>2 DEF Owed
  <2> QED
    BY <1>1, <1>2, <1>3, <2>3 DEF Flows
<1> QED
  BY <1>7, <1>8

\* What is left when a press is taken of a key that is down, or none.
Loses(d, w, f, g) == g >= f - One(w /\ ~d.reported)

\* The device is read anew: what the kernel keeps of the key is gone, and a
\* press is taken at most if the key is down and was not.
LEMMA FlowsAnew ==
  ASSUME NEW d \in DeviceType, NEW b, NEW q, NEW w \in BOOLEAN, NEW f \in Int,
         Flows(d, b, q, w, f), b # <<>>, Head(b) # Dropped, d.dropping,
         NEW x \in DeviceType, ~x.dropping, x.down = w, x.reported = w,
         NEW g \in Int, Loses(d, w, f, g)
  PROVE  Flows(x, Tail(b), Unkeyed(q), w, g)
<1>1. IsStream(b) /\ IsStream(q) /\ f >= Owed(d, b, q, w)
  BY DEF Flows
<1>2. PICK e, r, k : e = Head(b) /\ r = Tail(b) /\ k = Unkeyed(q)
  OBVIOUS
<1>3. /\ e \in EventType /\ IsStream(r) /\ ~Lost(r) /\ Follows(b, e, r)
      /\ IsStream(k) /\ ~HasKey(k) /\ Pressed(k) = 0
  BY <1>1, <1>2, StreamFollows, StreamUnkeyed
<1>4. /\ Pressed(b) \in Nat /\ Pressed(r) \in Nat /\ Pressed(q) \in Nat
      /\ (FirstIsPress(r) => Pressed(r) >= 1)
  BY <1>1, <1>3, PressedIsNat
<1>5. /\ Unseen(d, b, q, w) \in {0, 1} /\ Ahead(d, b) \in {-1, 0, 1}
      /\ Unseen(x, r, k, w) \in {0, 1} /\ Ahead(x, r) \in {-1, 0, 1}
      /\ (FirstIsPress(q) => Pressed(q) >= 1)
  BY <1>1, <1>3, OwedIsInt
<1>6. /\ Ahead(d, b) \in {0, 1} /\ Ahead(x, r) \in {-1, 0}
      /\ Ahead(d, b) = 1 <=> HasKey(b) /\ ~d.reported /\ ~FirstIsPress(b)
      /\ Ahead(x, r) = -1 <=> HasKey(r) /\ w /\ FirstIsPress(r)
  BY <1>3 DEF Ahead, Behind, Again, One
<1>7. Unseen(x, r, k, w) = 1 <=> ~EndsDown(x, r) /\ w
  BY <1>3 DEF Unseen, StartsDown, One
<1>8. ~EndsDown(d, b) /\ w => Unseen(d, b, q, w) + Pressed(q) >= 1
  BY <1>4, <1>5 DEF Unseen, StartsDown, One
<1>9. Pressed(b) >= Pressed(r) /\ (e.kind = "press" => Pressed(b) = Pressed(r) + 1)
  BY <1>3, <1>4 DEF Follows, One
<1>10. PICK p \in {0, 1} :
         p = One(w /\ ~d.reported) /\ (p = 1 <=> w /\ ~d.reported)
  BY DEF One
<1>11. Pressed(r) + Unseen(x, r, k, w) + Ahead(x, r) + p
         <= Pressed(b) + Pressed(q) + Unseen(d, b, q, w) + Ahead(d, b)
  <2>1. CASE ~w
    <3>1. Unseen(x, r, k, w) = 0 /\ Ahead(x, r) = 0 /\ p = 0
      BY <1>5, <1>6, <1>7, <1>10, <2>1
    <3> QED
      BY <1>4, <1>5, <1>6, <1>9, <3>1
  <2>2. CASE w /\ HasKey(r)
    <3>1. Unseen(x, r, k, w) <= Unseen(d, b, q, w) + Pressed(q)
      <4>1. EndsDown(d, b) <=> EndsDown(x, r)
        BY <1>3, <2>2 DEF EndsDown, Follows
      <4> QED
        BY <1>4, <1>5, <1>7, <1>8, <4>1
    <3>2. CASE FirstIsPress(r)
      <4>1. Ahead(x, r) = -1 /\ p \in Int /\ p <= 1
        BY <1>6, <2>2, <3>2
      <4>2. Ahead(x, r) + p <= 0 /\ Ahead(x, r) + p \in Int
        BY <4>1
      <4>3. Pressed(r) + Unseen(x, r, k, w) <= Pressed(b) + Pressed(q) + Unseen(d, b, q, w)
        BY <1>4, <1>5, <1>9, <3>1
      <4>4. Ahead(x, r) \in Int /\ Ahead(d, b) \in Int /\ Ahead(d, b) >= 0
        BY <1>6
      <4> QED
        BY <1>4, <1>5, <4>1, <4>2, <4>3, <4>4, SMTT(30)
    <3>3. CASE ~FirstIsPress(r)
      <4>1. Ahead(x, r) = 0
        BY <1>6, <3>3
      <4>2. p = 0 \/ e.kind = "press" \/ Ahead(d, b) = 1
        BY <1>3, <1>6, <1>10, <2>2, <3>3 DEF Follows
      <4> QED
        BY <1>4, <1>5, <1>6, <1>9, <3>1, <4>1, <4>2, SMTT(30)
    <3> QED
      BY <3>2, <3>3
  <2>3. CASE w /\ ~HasKey(r)
    <3>1. Unseen(x, r, k, w) = 0 /\ Ahead(x, r) = 0
      <4>1. EndsDown(x, r)
        BY <2>3 DEF EndsDown
      <4> QED
        BY <1>5, <1>6, <1>7, <2>3, <4>1
    <3>2. CASE p = 0
      BY <1>4, <1>5, <1>6, <1>9, <3>1, <3>2
    <3>3. CASE p = 1 /\ e.kind = "press"
      BY <1>4, <1>5, <1>6, <1>9, <3>1, <3>3
    <3>4. CASE p = 1 /\ e.kind # "press" /\ IsKey(e)
      <4>1. Ahead(d, b) = 1
        BY <1>3, <1>6, <1>10, <3>4 DEF Follows
      <4> QED
        BY <1>4, <1>5, <1>9, <3>1, <3>4, <4>1
    <3>5. CASE p = 1 /\ e.kind # "press" /\ ~IsKey(e)
      <4>1. ~EndsDown(d, b)
        BY <1>3, <1>10, <2>3, <3>5 DEF Follows, EndsDown
      <4>2. Unseen(d, b, q, w) + Pressed(q) >= 1
        BY <1>8, <2>3, <4>1
      <4> QED
        BY <1>4, <1>5, <1>6, <1>9, <3>1, <3>5, <4>2
    <3> QED
      BY <1>10, <3>2, <3>3, <3>4, <3>5
  <2> QED
    BY <2>1, <2>2, <2>3
<1>12. g >= Owed(x, r, k, w)
  <2>1. Owed(d, b, q, w) \in Int /\ g >= f - p /\ f >= Owed(d, b, q, w)
    BY <1>1, <1>4, <1>5, <1>10 DEF Owed, Loses
  <2>2. Owed(x, r, k, w) = Pressed(r) + Unseen(x, r, k, w) + Ahead(x, r)
    BY <1>3, <1>4, <1>5 DEF Owed
  <2>3. Owed(d, b, q, w) >= Pressed(r) + Unseen(x, r, k, w) + Ahead(x, r) + p
    BY <1>4, <1>5, <1>11 DEF Owed
  <2> QED
    BY <1>4, <1>5, <2>1, <2>2, <2>3
<1> QED
  BY <1>2, <1>3, <1>12 DEF Flows

-----------------------------------------------------------------------------
(* The flow of the presses through the loop.                               *)

\* What was read of a device and not looked at.
BatchOf(s) == IF loop = "read" /\ IsNext(s) THEN batch ELSE <<>>

FlowTypes ==
  /\ down \in [Sources -> BOOLEAN] /\ on_back \in BOOLEAN
  /\ gone \in [Sources -> BOOLEAN]
  /\ queue \in [Sources -> Seq(EventType)]
  /\ \A s \in Sources : Len(queue[s]) <= BufferSize
  /\ fresh \in [Sources -> Int] /\ device \in [Sources -> DeviceType]
  /\ taken \in Nat /\ activations \in Nat
  /\ presses \in Seq(BOOLEAN) /\ controller_a \in BOOLEAN

\* Only what is open is read.
ReadsOpen == loop = "read" => \A s \in ready : s \in Sources /\ device[s].open

\* The events of each device tell of no more presses than there were.
PressesFlow ==
  \A s \in Sources :
    /\ fresh[s] >= 0
    /\ device[s].open =>
         Flows(device[s], BatchOf(s), queue[s], down[s], fresh[s])

\* The timer is told of no more presses than were taken.
PressesCount ==
  activations + Len(presses) + One(controller_a /\ loop = "read") <= taken

FlowInv == FlowTypes /\ ReadsOpen /\ PressesFlow /\ PressesCount

flow_vars == <<down, on_back, queue, history, device, presses, controller_a,
               activations>>

\* What the loop does between two reads leaves the flow alone.
LEMMA FlowStays ==
  ASSUME FlowInv, UNCHANGED flow_vars, gone' \in [Sources -> BOOLEAN],
         \/ loop # "read" /\ loop' # "read"
         \/ loop' = loop /\ UNCHANGED <<ready, batch>>
  PROVE  FlowInv'
<1> USE DEF FlowInv
<1>1. /\ down' = down /\ on_back' = on_back /\ queue' = queue
      /\ fresh' = fresh /\ taken' = taken /\ device' = device
      /\ presses' = presses /\ controller_a' = controller_a
      /\ activations' = activations
  BY DEF flow_vars, history
<1>2. \A s \in Sources : BatchOf(s)' = BatchOf(s)
  BY DEF BatchOf, IsNext
<1>3. FlowTypes'
  BY <1>1 DEF FlowTypes
<1>4. ReadsOpen'
  BY <1>1 DEF ReadsOpen
<1>5. PressesFlow'
  BY <1>1, <1>2 DEF PressesFlow
<1>6. PressesCount'
  BY <1>1 DEF PressesCount
<1> QED
  BY <1>3, <1>4, <1>5, <1>6

\* What no press is lost from owes nothing.
LEMMA FlowIsOwed ==
  ASSUME NEW d \in DeviceType, NEW b, NEW q, NEW w \in BOOLEAN, NEW f \in Int,
         Flows(d, b, q, w, f)
  PROVE  f >= 0
<1>1. IsStream(b) /\ IsStream(q) /\ f >= Owed(d, b, q, w)
  BY DEF Flows
<1>2. /\ Pressed(b) \in Nat /\ Pressed(q) \in Nat
      /\ Unseen(d, b, q, w) \in {0, 1} /\ Ahead(d, b) \in {-1, 0, 1}
      /\ FirstIsPress(b) => Pressed(b) >= 1
  BY <1>1, OwedIsInt, PressedIsNat
<1>3. Ahead(d, b) = -1 => FirstIsPress(b)
  BY DEF Ahead, Behind, Again, One
<1> QED
  BY <1>1, <1>2, <1>3 DEF Owed

\* The kernel keeps an event, or what is left of them.
LEMMA PostKeeps ==
  ASSUME TimerAssumption, FlowTypes, NEW s \in Sources, NEW e \in ReportType, Post(s, e)
  PROVE  /\ queue' \in [Sources -> Seq(EventType)]
         /\ \A t \in Sources : Len(queue'[t]) <= BufferSize
         /\ \A t \in Sources \ {s} : queue'[t] = queue[t]
         /\ Keeps(queue[s], e, queue'[s])
<1>1. PICK q \in Seq(EventType) : q = queue[s] /\ Len(q) \in Nat
  BY DEF FlowTypes
<1>2. e \in EventType /\ Dropped \in EventType /\ BufferSize \in Nat /\ BufferSize >= 2
  BY DEF EventType, TimerAssumption
<1>3. /\ Append(q, e) \in Seq(EventType) /\ Len(Append(q, e)) = Len(q) + 1
      /\ <<Dropped, e>> \in Seq(EventType) /\ Len(<<Dropped, e>>) = 2
  <2> HIDE DEF EventType, Dropped
  <2>1. Append(q, e) \in Seq(EventType) /\ Len(Append(q, e)) = Len(q) + 1
    BY <1>1, <1>2, AppendProperties
  <2> QED
    BY <1>2, <2>1
<1>4. PICK r \in Seq(EventType) :
        /\ r = IF Len(q) < BufferSize THEN Append(q, e) ELSE <<Dropped, e>>
        /\ Len(r) <= BufferSize
  <2>1. CASE Len(q) < BufferSize
    <3>1. Len(q) + 1 <= BufferSize
      BY <1>1, <1>2, <2>1
    <3>2. Len(Append(q, e)) <= BufferSize
      BY <1>3, <3>1
    <3> QED
      BY <1>3, <2>1, <3>2
  <2>2. CASE ~(Len(q) < BufferSize)
    BY <1>1, <1>2, <1>3, <2>2
  <2> QED
    BY <2>1, <2>2
<1>5. queue' = [queue EXCEPT ![s] = r]
  BY <1>1, <1>4 DEF Post
<1> QED
  BY <1>1, <1>4, <1>5 DEF FlowTypes, Keeps

\* A hand does something with one device.
LEMMA HandFlows ==
  ASSUME TimerAssumption, FlowInv, NEW s \in Sources,
         NEW e \in ReportType, NEW x \in BOOLEAN, Post(s, e),
         HandDoes(e, down[s], x),
         down' = [down EXCEPT ![s] = x], on_back' \in BOOLEAN,
         fresh' = [fresh EXCEPT ![s] = IF e.kind = "press" THEN @ + 1 ELSE @],
         UNCHANGED <<gone, taken, device, loop, turn, activations>>
  PROVE  FlowInv'
<1> USE DEF FlowInv
<1>1. /\ gone' = gone /\ taken' = taken /\ device' = device /\ loop' = loop
      /\ ready' = ready /\ batch' = batch /\ presses' = presses
      /\ controller_a' = controller_a /\ activations' = activations
  BY DEF turn
<1>2. /\ queue' \in [Sources -> Seq(EventType)]
      /\ \A t \in Sources : Len(queue'[t]) <= BufferSize
      /\ \A t \in Sources \ {s} : queue'[t] = queue[t]
      /\ Keeps(queue[s], e, queue'[s])
  BY PostKeeps
<1>3. fresh[s] \in Int
  BY DEF FlowTypes
<1>4. FlowTypes'
  <2>1. fresh' \in [Sources -> Int]
    BY <1>3 DEF FlowTypes
  <2> QED
    BY <1>1, <1>2, <2>1 DEF FlowTypes
<1>5. ReadsOpen' /\ PressesCount'
  BY <1>1 DEF ReadsOpen, PressesCount
<1>6. ASSUME NEW t \in Sources
      PROVE  /\ fresh'[t] >= 0
             /\ device[t].open =>
                  Flows(device[t], BatchOf(t), queue'[t], down'[t], fresh'[t])
  <2>1. CASE t # s
    BY <1>2, <2>1 DEF PressesFlow, FlowTypes
  <2>2. CASE t = s
    <3>1. PICK g \in Int : g = IF e.kind = "press" THEN fresh[s] + 1 ELSE fresh[s]
      BY <1>3
    <3>2. fresh'[s] = g /\ g >= 0 /\ down'[s] = x
      BY <1>3, <3>1 DEF PressesFlow, FlowTypes
    <3>3. ASSUME device[s].open
          PROVE  Flows(device[s], BatchOf(s), queue'[s], x, g)
      <4>1. Flows(device[s], BatchOf(s), queue[s], down[s], fresh[s])
        BY <3>3 DEF PressesFlow
      <4>2. device[s] \in DeviceType /\ fresh[s] \in Int /\ down[s] \in BOOLEAN
        BY DEF FlowTypes
      <4>3. Counts(fresh[s], e, g)
        BY <3>1 DEF Counts
      <4> QED
        BY <1>2, <4>1, <4>2, <4>3, FlowsPosted
    <3> QED
      BY <2>2, <3>2, <3>3
  <2> QED
    BY <2>1, <2>2
<1>7. \A t \in Sources : BatchOf(t)' = BatchOf(t)
  BY <1>1 DEF BatchOf, IsNext
<1>8. PressesFlow'
  BY <1>1, <1>6, <1>7 DEF PressesFlow
<1> QED
  BY <1>4, <1>5, <1>8

\* The source that is read is one.
LEMMA OneIsNext ==
  ASSUME TimerAssumption, FlowInv, loop = "read",
         NEW s \in Sources, IsNext(s), NEW t \in Sources \ {s}
  PROVE  ~IsNext(t)
<1>1. \A r \in Sources : r = Touch \/ r \in Nat
  BY DEF Sources, TimerAssumption
<1> HIDE DEF Sources
<1>2. SUFFICES ASSUME IsNext(t)
               PROVE  FALSE
  OBVIOUS
<1>3. s \in ready /\ t \in ready /\ s # t
  BY <1>2 DEF IsNext
<1>4. t = Touch \/ (s # Touch /\ s < t)
  BY <1>3 DEF IsNext
<1>5. s = Touch \/ (t # Touch /\ t < s)
  BY <1>2, <1>3 DEF IsNext
<1> QED
  BY <1>1, <1>3, <1>4, <1>5

\* One source is read or looked at, the others stay.
LEMMA SourceFlows ==
  ASSUME TimerAssumption, FlowInv, loop = "read", NEW s \in Sources, IsNext(s),
         UNCHANGED <<down, on_back, gone, activations, loop, ready>>,
         queue' \in [Sources -> Seq(EventType)], Len(queue'[s]) <= BufferSize,
         device' \in [Sources -> DeviceType], fresh' \in [Sources -> Int],
         \A t \in Sources \ {s} :
           queue'[t] = queue[t] /\ device'[t] = device[t] /\ fresh'[t] = fresh[t],
         device'[s].open,
         Flows(device'[s], batch', queue'[s], down[s], fresh'[s]),
         taken' \in Nat, presses' \in Seq(BOOLEAN), controller_a' \in BOOLEAN,
         Len(presses') + One(controller_a') + taken
           <= Len(presses) + One(controller_a) + taken'
  PROVE  FlowInv'
<1> USE DEF FlowInv
<1>1. /\ down' = down /\ on_back' = on_back /\ gone' = gone /\ loop' = loop
      /\ ready' = ready /\ activations' = activations
  OBVIOUS
<1>2. s \in ready /\ device[s].open
  BY DEF IsNext, ReadsOpen
<1>3. FlowTypes'
  BY <1>1 DEF FlowTypes
<1>4. ReadsOpen'
  <2>1. \A t \in ready : t \in Sources /\ device'[t].open
    BY <1>2 DEF ReadsOpen
  <2> QED
    BY <1>1, <2>1 DEF ReadsOpen
<1>5. ASSUME NEW t \in Sources
      PROVE  /\ fresh'[t] >= 0
             /\ device'[t].open =>
                  Flows(device'[t], BatchOf(t)', queue'[t], down[t], fresh'[t])
  <2>1. CASE t # s
    <3>1. ~IsNext(t)
      BY <2>1, OneIsNext
    <3>2. BatchOf(t)' = BatchOf(t)
      BY <1>1, <3>1 DEF BatchOf, IsNext
    <3> QED
      BY <2>1, <3>2 DEF PressesFlow
  <2>2. CASE t = s
    <3>1. BatchOf(s)' = batch'
      BY <1>1 DEF BatchOf, IsNext
    <3>2. device'[s] \in DeviceType /\ fresh'[s] \in Int /\ down[s] \in BOOLEAN
      BY DEF FlowTypes
    <3>3. fresh'[s] >= 0
      BY <3>2, FlowIsOwed
    <3> QED
      BY <2>2, <3>1, <3>3
  <2> QED
    BY <2>1, <2>2
<1>6. PressesFlow'
  BY <1>1, <1>5 DEF PressesFlow
<1>7. PressesCount'
  <2>1. /\ One(controller_a /\ loop = "read") = One(controller_a)
        /\ One(controller_a' /\ loop' = "read") = One(controller_a')
        /\ One(controller_a) \in {0, 1} /\ One(controller_a') \in {0, 1}
    BY <1>1 DEF One
  <2>2. Len(presses) \in Nat /\ Len(presses') \in Nat /\ taken \in Nat /\ activations \in Nat
    BY DEF FlowTypes
  <2>3. PICK c \in {0, 1}, k \in {0, 1} : c = One(controller_a) /\ k = One(controller_a')
    BY <2>1
  <2>4. PICK m \in Nat, n \in Nat : m = Len(presses) /\ n = Len(presses')
    BY <2>2
  <2>5. activations + m + c <= taken /\ n + k + taken <= m + c + taken'
    BY <2>1, <2>3, <2>4 DEF PressesCount
  <2>6. PICK a \in Nat, t \in Nat, u \in Nat : a = activations /\ t = taken /\ u = taken'
    BY <2>2
  <2>7. a + m + c <= t /\ n + k + t <= m + c + u
    BY <2>5, <2>6
  <2>8. a + n + k <= u
    BY <2>7
  <2> QED
    BY <1>1, <2>1, <2>3, <2>4, <2>6, <2>8 DEF PressesCount
<1> QED
  BY <1>3, <1>4, <1>6, <1>7

\* A device that fails is closed, or the game ends.
LEMMA FailFlows ==
  ASSUME TimerAssumption, FlowInv, loop = "read", NEW s \in Sources, IsNext(s),
         Fail(s), s = Touch => batch = <<>>,
         UNCHANGED <<down, on_back, gone, queue, history, activations>>
  PROVE  FlowInv'
<1> USE DEF FlowInv
<1>1. /\ down' = down /\ on_back' = on_back /\ gone' = gone /\ queue' = queue
      /\ fresh' = fresh /\ taken' = taken /\ activations' = activations
      /\ presses' = presses /\ controller_a' = controller_a
  BY DEF history, Fail, Leave, turn
<1>2. /\ device' \in [Sources -> DeviceType]
      /\ \A t \in Sources : device'[t] # device[t] => ~device'[t].open
      /\ loop' = "read" => ready' \subseteq ready \ {s} /\ batch' = <<>>
                            /\ \A t \in Sources \ {s} : device'[t] = device[t]
  <2>1. Closed \in DeviceType /\ ~Closed.open
    BY DEF Closed, DeviceType
  <2>2. CASE s = Touch
    BY <2>2 DEF Fail, Leave, FlowTypes
  <2>3. CASE s # Touch
    BY <2>1, <2>3 DEF Fail, FlowTypes
  <2> QED
    BY <2>2, <2>3
<1>3. FlowTypes'
  BY <1>1, <1>2 DEF FlowTypes
<1>4. ReadsOpen'
  <2> SUFFICES ASSUME loop' = "read", NEW t \in ready'
               PROVE  t \in Sources /\ device'[t].open
    BY DEF ReadsOpen
  <2>1. t \in ready /\ t # s
    BY <1>2
  <2>2. t \in Sources /\ device[t].open
    BY <2>1 DEF ReadsOpen
  <2> QED
    BY <1>2, <2>1, <2>2
<1>5. ASSUME NEW t \in Sources, device'[t].open
      PROVE  BatchOf(t)' = BatchOf(t)
  <2>1. BatchOf(t)' = <<>>
    BY <1>2 DEF BatchOf
  <2>2. CASE s = Touch
    BY <2>1, <2>2 DEF BatchOf
  <2>3. CASE s # Touch
    <3>1. t # s
      BY <1>5, <2>3 DEF Fail, FlowTypes, Closed
    <3>2. ~IsNext(t)
      BY <3>1, OneIsNext
    <3> QED
      BY <2>1, <3>2 DEF BatchOf
  <2> QED
    BY <2>2, <2>3
<1>6. PressesFlow'
  BY <1>1, <1>2, <1>5 DEF PressesFlow
<1>7. PressesCount'
  <2>1. activations + Len(presses) + One(controller_a) <= taken
    <3>1. One(controller_a /\ loop = "read") = One(controller_a)
      BY DEF One
    <3> QED
      BY <3>1 DEF PressesCount
  <2>2. One(controller_a' /\ loop' = "read") \in {0, 1} /\ One(controller_a) \in {0, 1}
        /\ (One(controller_a' /\ loop' = "read") = 1 => One(controller_a) = 1)
    BY <1>1 DEF One
  <2>3. Len(presses) \in Nat /\ activations \in Nat /\ taken \in Nat
    BY DEF FlowTypes
  <2>4. PICK n \in Nat, c \in {0, 1}, k \in {0, 1} :
          /\ n = Len(presses) /\ c = One(controller_a)
          /\ k = One(controller_a' /\ loop' = "read") /\ k <= c
    BY <2>2, <2>3
  <2>5. activations + n + k <= taken
    BY <2>1, <2>3, <2>4
  <2> QED
    BY <1>1, <2>4, <2>5 DEF PressesCount
<1> QED
  BY <1>3, <1>4, <1>6, <1>7

\* Events are read, or there are none.
LEMMA ReadFlows ==
  ASSUME TimerAssumption, FlowInv, NEW s \in Sources, Read(s)
  PROVE  FlowInv'
<1> USE DEF FlowInv
<1>1. /\ loop = "read" /\ IsNext(s) /\ batch = <<>>
      /\ down' = down /\ on_back' = on_back /\ gone' = gone
      /\ fresh' = fresh /\ taken' = taken /\ activations' = activations
  BY DEF Read, hands, history, timer
<1>2. CASE gone[s] /\ Fail(s) /\ UNCHANGED queue
  BY <1>1, <1>2, FailFlows DEF history
<1>3. CASE ~gone[s] /\ queue[s] = <<>>
  <2>1. /\ ready' = ready \ {s} /\ loop' = loop /\ batch' = batch /\ queue' = queue
        /\ controller_a' = controller_a /\ presses' = presses /\ device' = device
    BY <1>3 DEF Read
  <2>2. \A t \in Sources : BatchOf(t)' = BatchOf(t)
    BY <1>1, <2>1 DEF BatchOf
  <2>3. FlowTypes'
    BY <1>1, <2>1 DEF FlowTypes
  <2>4. ReadsOpen'
    BY <1>1, <2>1 DEF ReadsOpen
  <2>5. PressesFlow'
    BY <1>1, <2>1, <2>2 DEF PressesFlow
  <2>6. PressesCount'
    BY <1>1, <2>1 DEF PressesCount
  <2> QED
    BY <2>3, <2>4, <2>5, <2>6
<1>4. CASE ~gone[s] /\ queue[s] # <<>>
  <2>1. PICK q : q = queue[s] /\ q \in Seq(EventType) /\ Len(q) \in Nat /\ Len(q) >= 1
                  /\ Len(q) <= BufferSize
    BY <1>4 DEF FlowTypes
  <2>2. PICK n : n = AtMost(Len(q), BatchSize) /\ n \in 0 .. Len(q)
    BY <2>1 DEF AtMost, TimerAssumption
  <2>3. /\ batch' = SubSeq(q, 1, n)
        /\ queue' = [queue EXCEPT ![s] = SubSeq(q, n + 1, Len(q))]
        /\ loop' = loop /\ ready' = ready /\ controller_a' = controller_a
        /\ presses' = presses /\ device' = device
    BY <1>4, <2>1, <2>2 DEF Read
  <2>4. /\ device[s] \in DeviceType /\ fresh[s] \in Int /\ down[s] \in BOOLEAN
        /\ device[s].open /\ BatchOf(s) = <<>>
    BY <1>1 DEF FlowTypes, ReadsOpen, BatchOf, IsNext
  <2>5. Flows(device[s], <<>>, q, down[s], fresh[s])
    BY <2>1, <2>4 DEF PressesFlow
  <2>6. IsStream(q)
    BY <2>5 DEF Flows
  <2>7. PICK b, r : b = SubSeq(q, 1, n) /\ r = SubSeq(q, n + 1, Len(q))
    OBVIOUS
  <2>8. IsStream(b) /\ IsStream(r) /\ Joins(q, b, r) /\ Len(r) <= Len(q)
    BY <2>2, <2>6, <2>7, StreamRead
  <2>9. Flows(device[s], b, r, down[s], fresh[s])
    BY <2>4, <2>5, <2>8, FlowsRead
  <2>10. /\ batch' = b /\ queue' = [queue EXCEPT ![s] = r] /\ r \in Seq(EventType)
         /\ Len(r) <= BufferSize
    <3>1. r \in Seq(EventType)
      BY <2>8 DEF IsStream
    <3>2. Len(r) \in Nat /\ BufferSize \in Nat
      BY <3>1 DEF TimerAssumption
    <3> QED
      BY <2>1, <2>3, <2>7, <2>8, <3>1, <3>2
  <2>11. /\ queue' \in [Sources -> Seq(EventType)] /\ queue'[s] = r
         /\ \A t \in Sources \ {s} : queue'[t] = queue[t]
    BY <2>10 DEF FlowTypes
  <2>12. /\ taken' \in Nat /\ presses' \in Seq(BOOLEAN) /\ controller_a' \in BOOLEAN
         /\ device' \in [Sources -> DeviceType] /\ fresh' \in [Sources -> Int]
    BY <1>1, <2>3 DEF FlowTypes
  <2>13. Len(presses') + One(controller_a') + taken
           <= Len(presses) + One(controller_a) + taken'
    <3>1. Len(presses) \in Nat /\ taken \in Nat /\ One(controller_a) \in {0, 1}
      BY DEF FlowTypes, One
    <3> QED
      BY <1>1, <2>3, <3>1
  <2> QED
    BY <1>1, <2>3, <2>4, <2>9, <2>10, <2>11, <2>12, <2>13, SourceFlows
<1> QED
  BY <1>2, <1>3, <1>4 DEF Read

\* A report is noted: a press that is taken is one less to come.
LEMMA NoteFlows ==
  ASSUME TimerAssumption, FlowInv, loop = "read", NEW s \in Sources, IsNext(s),
         NEW d \in DeviceType, d.open, Note(s, d),
         UNCHANGED <<down, on_back, gone, activations, loop, ready>>,
         queue' \in [Sources -> Seq(EventType)], Len(queue'[s]) <= BufferSize,
         \A t \in Sources \ {s} : queue'[t] = queue[t],
         NEW x \in DeviceType, x = [d EXCEPT !.reported = d.down],
         NEW g \in Int, g = IF d.down /\ ~d.reported THEN fresh[s] - 1 ELSE fresh[s],
         Flows(x, Tail(batch), queue'[s], down[s], g)
  PROVE  FlowInv'
<1> USE DEF FlowInv
<1>1. /\ device' \in [Sources -> DeviceType] /\ device'[s] = x /\ batch' = Tail(batch)
      /\ \A t \in Sources \ {s} : device'[t] = device[t]
  BY DEF Note, FlowTypes
<1>2. x.open
  BY DEF DeviceType
<1>3. /\ fresh' \in [Sources -> Int] /\ fresh'[s] = g
      /\ \A t \in Sources \ {s} : fresh'[t] = fresh[t]
  <2>1. fresh[s] \in Int
    BY DEF FlowTypes
  <2>2. CASE d.down /\ ~d.reported
    <3>1. fresh' = [fresh EXCEPT ![s] = g]
      BY <2>2 DEF Note
    <3> QED
      BY <3>1 DEF FlowTypes
  <2>3. CASE ~(d.down /\ ~d.reported)
    <3>1. fresh' = fresh
      BY <2>3 DEF Note, history
    <3> QED
      BY <2>3, <3>1 DEF FlowTypes
  <2> QED
    BY <2>2, <2>3
<1>4. /\ taken' \in Nat /\ presses' \in Seq(BOOLEAN) /\ controller_a' \in BOOLEAN
      /\ Len(presses') + One(controller_a') + taken
           <= Len(presses) + One(controller_a) + taken'
  <2>1. /\ taken \in Nat /\ presses \in Seq(BOOLEAN) /\ controller_a \in BOOLEAN
        /\ Len(presses) \in Nat /\ One(controller_a) \in {0, 1} /\ d.back \in BOOLEAN
    BY DEF FlowTypes, One, DeviceType
  <2>2. CASE ~(d.down /\ ~d.reported)
    <3>1. taken' = taken /\ presses' = presses /\ (controller_a' <=> controller_a)
          /\ controller_a' \in BOOLEAN
      BY <2>1, <2>2 DEF Note, history
    <3>2. One(controller_a') = One(controller_a)
      BY <3>1 DEF One
    <3> QED
      BY <2>1, <3>1, <3>2
  <2>3. CASE d.down /\ ~d.reported /\ s = Touch
    <3>1. /\ taken' = taken + 1 /\ presses' = Append(presses, d.back)
          /\ (controller_a' <=> controller_a) /\ controller_a' \in BOOLEAN
      BY <2>1, <2>3 DEF Note
    <3>2. One(controller_a') = One(controller_a)
      BY <3>1 DEF One
    <3>3. presses' \in Seq(BOOLEAN) /\ Len(presses') = Len(presses) + 1
      BY <2>1, <3>1
    <3> QED
      BY <2>1, <3>1, <3>2, <3>3
  <2>4. CASE d.down /\ ~d.reported /\ s # Touch
    <3>1. /\ taken' = taken + 1 /\ presses' = presses /\ controller_a' = TRUE
      BY <2>1, <2>4 DEF Note
    <3>2. One(controller_a') = 1
      BY <3>1 DEF One
    <3> QED
      BY <2>1, <3>1, <3>2
  <2> QED
    BY <2>2, <2>3, <2>4
<1>5. Flows(device'[s], batch', queue'[s], down[s], fresh'[s]) /\ device'[s].open
  BY <1>1, <1>2, <1>3
<1> QED
  BY <1>1, <1>3, <1>4, <1>5, SourceFlows

\* An event is looked at.
LEMMA EventFlows ==
  ASSUME TimerAssumption, FlowInv, NEW s \in Sources, HandleEvent(s)
  PROVE  FlowInv'
<1>1. /\ loop = "read" /\ IsNext(s) /\ batch # <<>>
      /\ down' = down /\ on_back' = on_back /\ gone' = gone /\ activations' = activations
  BY DEF HandleEvent, hands, timer
<1>2. PICK d, e, q, w, f :
        /\ d = device[s] /\ e = Head(batch) /\ q = queue[s] /\ w = down[s] /\ f = fresh[s]
  OBVIOUS
<1>3. /\ d \in DeviceType /\ q \in Seq(EventType) /\ w \in BOOLEAN /\ f \in Int
      /\ Len(q) <= BufferSize /\ d.open
      /\ on_back \in BOOLEAN /\ \A t \in Sources : down[t] \in BOOLEAN
  BY <1>1, <1>2 DEF FlowInv, FlowTypes, ReadsOpen, IsNext
<1>4. Flows(d, batch, q, w, f)
  BY <1>1, <1>2, <1>3 DEF FlowInv, PressesFlow, BatchOf
<1>5. d.down = d.reported /\ IsStream(batch) /\ IsStream(q)
  BY <1>4 DEF Flows
<1>6. e \in EventType
  BY <1>1, <1>2, <1>5, StreamFollows
<1>7. ASSUME UNCHANGED queue
      PROVE  /\ queue' \in [Sources -> Seq(EventType)] /\ Len(queue'[s]) <= BufferSize
             /\ \A t \in Sources \ {s} : queue'[t] = queue[t]
             /\ queue'[s] = q
  BY <1>2, <1>7 DEF FlowInv, FlowTypes
<1>8. CASE /\ e = Dropped
           /\ device' = [device EXCEPT ![s].dropping = TRUE] /\ batch' = Tail(batch)
           /\ UNCHANGED <<loop, ready, controller_a, presses, queue, history>>
  <2>1. PICK x \in DeviceType : x = [d EXCEPT !.dropping = TRUE]
    BY <1>3 DEF DeviceType
  <2>2. x.down = d.down /\ x.reported = d.reported /\ x.dropping /\ x.open
    BY <1>3, <2>1 DEF DeviceType
  <2>3. Flows(x, Tail(batch), q, w, f)
    BY <1>1, <1>2, <1>3, <1>4, <1>8, <2>2, FlowsSkipped, SMTT(30)
  <2>4. /\ device' \in [Sources -> DeviceType] /\ device'[s] = x
        /\ \A t \in Sources \ {s} : device'[t] = device[t]
    BY <1>2, <1>8, <2>1 DEF FlowInv, FlowTypes
  <2>5. /\ fresh' = fresh /\ taken' = taken /\ presses' = presses
        /\ controller_a' = controller_a
    BY <1>8 DEF history
  <2>6. /\ fresh' \in [Sources -> Int] /\ taken' \in Nat /\ presses' \in Seq(BOOLEAN)
        /\ controller_a' \in BOOLEAN
    BY <2>5 DEF FlowInv, FlowTypes
  <2>7. Len(presses') + One(controller_a') + taken
          <= Len(presses) + One(controller_a) + taken'
    <3>1. Len(presses) \in Nat /\ taken \in Nat /\ One(controller_a) \in {0, 1}
      BY DEF FlowInv, FlowTypes, One
    <3> QED
      BY <2>5, <3>1
  <2>8. Flows(device'[s], batch', queue'[s], down[s], fresh'[s]) /\ device'[s].open
    BY <1>2, <1>7, <1>8, <2>2, <2>3, <2>4, <2>5
  <2>9. \A t \in Sources \ {s} :
          queue'[t] = queue[t] /\ device'[t] = device[t] /\ fresh'[t] = fresh[t]
    BY <1>7, <1>8, <2>4, <2>5
  <2> QED
    BY <1>1, <1>7, <1>8, <2>4, <2>6, <2>7, <2>8, <2>9, SourceFlows
<1>9. CASE gone[s] /\ s # Touch /\ Fail(s) /\ UNCHANGED <<queue, history>>
  BY <1>1, <1>9, FailFlows
<1>10. CASE /\ e # Dropped /\ d.dropping
            /\ Note(s, [d EXCEPT !.dropping = FALSE]) /\ UNCHANGED <<loop, ready, queue>>
  <2>1. PICK y \in DeviceType : y = [d EXCEPT !.dropping = FALSE]
    BY <1>3 DEF DeviceType
  <2>2. PICK x \in DeviceType : x = [y EXCEPT !.reported = y.down]
    BY <2>1 DEF DeviceType
  <2>3. /\ x.down = d.down /\ x.reported = d.reported /\ ~x.dropping
        /\ y.open /\ y.down = d.down /\ y.reported = d.down
    BY <1>3, <1>5, <2>1, <2>2 DEF DeviceType
  <2>4. Flows(x, Tail(batch), q, w, f)
    BY <1>1, <1>2, <1>3, <1>4, <1>10, <2>3, FlowsSkipped
  <2>5. Flows(x, Tail(batch), queue'[s], down[s], f)
    BY <1>2, <1>10, <2>4
  <2>6. f = IF y.down /\ ~y.reported THEN fresh[s] - 1 ELSE fresh[s]
    BY <1>2, <2>3
  <2>7. Note(s, y)
    BY <1>10, <2>1
  <2>8. /\ queue' \in [Sources -> Seq(EventType)] /\ Len(queue'[s]) <= BufferSize
        /\ \A t \in Sources \ {s} : queue'[t] = queue[t]
    BY <1>7, <1>10
  <2> QED
    BY <1>1, <1>3, <1>10, <2>2, <2>3, <2>5, <2>6, <2>7, <2>8, NoteFlows
<1>11. CASE /\ e # Dropped /\ d.dropping
            /\ Note(s, Resynchronized(s)) /\ queue' = [queue EXCEPT ![s] = Unkeyed(@)]
            /\ UNCHANGED <<loop, ready>>
  <2>1. PICK y \in DeviceType : y = Resynchronized(s) /\ y.open /\ ~y.dropping
                                  /\ y.down = w /\ (y.reported = d.reported \/ y.reported = w)
    <3>1. CASE s = Touch
      <4>1. Resynchronized(s) = [open |-> TRUE, down |-> w, dropping |-> FALSE,
                                 reported |-> d.reported, back |-> on_back]
        BY <1>2, <3>1 DEF Resynchronized, ResynchronizedTouch
      <4>2. d.reported \in BOOLEAN
        BY <1>3 DEF DeviceType
      <4>3. PICK y \in DeviceType : y = [open |-> TRUE, down |-> w, dropping |-> FALSE,
                                         reported |-> d.reported, back |-> on_back]
        BY <1>3, <4>2 DEF DeviceType
      <4>4. y.open /\ ~y.dropping /\ y.down = w /\ y.reported = d.reported
        BY <4>3
      <4> QED
        BY <4>1, <4>3, <4>4
    <3>2. CASE s # Touch
      <4>1. Resynchronized(s) = [open |-> TRUE, down |-> w, dropping |-> FALSE,
                                 reported |-> w, back |-> FALSE]
        BY <1>2, <3>2 DEF Resynchronized, ResynchronizedPad
      <4>2. PICK y \in DeviceType : y = [open |-> TRUE, down |-> w, dropping |-> FALSE,
                                         reported |-> w, back |-> FALSE]
        BY <1>3 DEF DeviceType
      <4>3. y.open /\ ~y.dropping /\ y.down = w /\ y.reported = w
        BY <4>2
      <4> QED
        BY <4>1, <4>2, <4>3
    <3> QED
      BY <3>1, <3>2
  <2>2. PICK x \in DeviceType : x = [y EXCEPT !.reported = y.down]
    BY <2>1 DEF DeviceType
  <2>3. x.down = w /\ x.reported = w /\ ~x.dropping
    BY <2>1, <2>2 DEF DeviceType
  <2>4. PICK g \in Int : g = IF y.down /\ ~y.reported THEN fresh[s] - 1 ELSE fresh[s]
    BY <1>2, <1>3
  <2>5. Loses(d, w, f, g)
    <3>1. CASE w /\ ~d.reported
      BY <1>2, <1>3, <2>4, <3>1 DEF Loses, One
    <3>2. CASE ~(w /\ ~d.reported)
      <4>1. ~(y.down /\ ~y.reported)
        BY <2>1, <3>2
      <4>2. g = f
        BY <1>2, <2>4, <4>1
      <4> QED
        BY <1>3, <3>2, <4>2 DEF Loses, One
    <3> QED
      BY <3>1, <3>2
  <2>6. PICK k : k = Unkeyed(q)
    OBVIOUS
  <2>7. IsStream(k) /\ Len(k) = Len(q) /\ k \in Seq(EventType)
    BY <1>5, <2>6, StreamUnkeyed DEF IsStream
  <2>8. Flows(x, Tail(batch), k, w, g)
    BY <1>1, <1>2, <1>3, <1>4, <1>11, <2>3, <2>5, <2>6, FlowsAnew
  <2>9. queue' = [queue EXCEPT ![s] = k]
    BY <1>2, <1>11, <2>6
  <2>10. /\ queue' \in [Sources -> Seq(EventType)] /\ Len(queue'[s]) <= BufferSize
         /\ \A t \in Sources \ {s} : queue'[t] = queue[t]
         /\ queue'[s] = k
    BY <1>3, <2>7, <2>9 DEF FlowInv, FlowTypes
  <2>11. Note(s, y)
    BY <1>11, <2>1
  <2>12. Flows(x, Tail(batch), queue'[s], down[s], g)
    BY <1>2, <2>8, <2>10
  <2> QED
    BY <1>1, <1>11, <2>1, <2>2, <2>4, <2>10, <2>11, <2>12, NoteFlows
<1>12. CASE /\ e # Dropped /\ ~d.dropping
            /\ Note(s, Updated(d, e)) /\ UNCHANGED <<loop, ready, queue>>
  <2>1. e \in ReportType
    BY <1>6, <1>12 DEF EventType
  <2>2. PICK y \in DeviceType : y = Updated(d, e) /\ y.open /\ ~y.dropping
                                  /\ y.reported = d.reported
    <3>1. e.kind \in {"press", "release", "move", "empty"} /\ e.back \in BOOLEAN
      BY <2>1 DEF ReportType
    <3>2. CASE e.kind = "press"
      <4>1. PICK y \in DeviceType : y = [d EXCEPT !.down = TRUE, !.back = e.back]
        BY <1>3, <3>1 DEF DeviceType
      <4>2. y.open = d.open /\ y.dropping = d.dropping /\ y.reported = d.reported
        BY <1>3, <4>1 DEF DeviceType
      <4>3. y = Updated(d, e)
        BY <3>2, <4>1 DEF Updated
      <4> QED
        BY <1>3, <1>12, <4>2, <4>3
    <3>3. CASE e.kind = "release"
      <4>1. PICK y \in DeviceType : y = [d EXCEPT !.down = FALSE]
        BY <1>3 DEF DeviceType
      <4>2. y.open = d.open /\ y.dropping = d.dropping /\ y.reported = d.reported
        BY <1>3, <4>1 DEF DeviceType
      <4>3. y = Updated(d, e)
        BY <3>3, <4>1 DEF Updated
      <4> QED
        BY <1>3, <1>12, <4>2, <4>3
    <3>4. CASE e.kind = "move"
      BY <1>3, <1>12, <3>1, <3>4 DEF Updated, DeviceType
    <3>5. CASE e.kind = "empty"
      BY <1>3, <1>12, <3>1, <3>5 DEF Updated, DeviceType
    <3> QED
      BY <3>1, <3>2, <3>3, <3>4, <3>5
  <2>3. PICK x \in DeviceType : x = [y EXCEPT !.reported = y.down]
    BY <2>2 DEF DeviceType
  <2>4. x.down = y.down /\ x.reported = y.down /\ ~x.dropping
    BY <2>2, <2>3 DEF DeviceType
  <2>5. Makes(d, e, x)
    BY <2>2, <2>4 DEF Makes
  <2>6. PICK g \in Int : g = IF y.down /\ ~y.reported THEN fresh[s] - 1 ELSE fresh[s]
    BY <1>2, <1>3
  <2>7. TakesPress(d, x, f, g)
    BY <1>2, <2>2, <2>4, <2>6 DEF TakesPress
  <2>8. Flows(x, Tail(batch), q, w, g)
    <3>1. PICK r : r = Tail(batch)
      OBVIOUS
    <3>2. batch # <<>> /\ e = Head(batch) /\ e # Dropped /\ ~d.dropping /\ ~x.dropping
      BY <1>1, <1>2, <1>12, <2>4
    <3>3. d \in DeviceType /\ w \in BOOLEAN /\ f \in Int
      BY <1>3
    <3>4. Flows(x, r, q, w, g)
      BY <1>4, <2>5, <2>7, <3>1, <3>2, <3>3, FlowsEvent
    <3> QED
      BY <3>1, <3>4
  <2>9. Flows(x, Tail(batch), queue'[s], down[s], g)
    BY <1>2, <1>12, <2>8
  <2>10. Note(s, y)
    BY <1>12, <2>2
  <2>11. /\ queue' \in [Sources -> Seq(EventType)] /\ Len(queue'[s]) <= BufferSize
         /\ \A t \in Sources \ {s} : queue'[t] = queue[t]
    BY <1>7, <1>12
  <2> QED
    BY <1>1, <1>12, <2>2, <2>3, <2>6, <2>9, <2>10, <2>11, NoteFlows
<1>13. \/ /\ e = Dropped
          /\ device' = [device EXCEPT ![s].dropping = TRUE] /\ batch' = Tail(batch)
          /\ UNCHANGED <<loop, ready, controller_a, presses, queue, history>>
       \/ gone[s] /\ s # Touch /\ Fail(s) /\ UNCHANGED <<queue, history>>
       \/ /\ e # Dropped /\ d.dropping
          /\ Note(s, [d EXCEPT !.dropping = FALSE]) /\ UNCHANGED <<loop, ready, queue>>
       \/ /\ e # Dropped /\ d.dropping
          /\ Note(s, Resynchronized(s)) /\ queue' = [queue EXCEPT ![s] = Unkeyed(@)]
          /\ UNCHANGED <<loop, ready>>
       \/ /\ e # Dropped /\ ~d.dropping
          /\ Note(s, Updated(d, e)) /\ UNCHANGED <<loop, ready, queue>>
  BY <1>2 DEF HandleEvent
<1> QED
  BY <1>8, <1>9, <1>10, <1>11, <1>12, <1>13

\* A hand presses, releases or slides.
LEMMA HandsFlow ==
  ASSUME TimerAssumption, FlowInv,
         \/ \E s \in Sources : Press(s, FALSE) \/ Press(s, TRUE) \/ Release(s)
         \/ Slide
  PROVE  FlowInv'
<1>1. /\ on_back \in BOOLEAN /\ down \in [Sources -> BOOLEAN] /\ Touch \in Sources
      /\ fresh \in [Sources -> Int]
  BY DEF FlowInv, FlowTypes, Sources
<1>2. ASSUME NEW s \in Sources, NEW back \in BOOLEAN, Press(s, back)
      PROVE  FlowInv'
  <2>1. PICK e \in ReportType : e = Told("press", back) /\ e.kind = "press"
    <3>1. Told("press", back) \in ReportType /\ Told("press", back).kind = "press"
      BY DEF Told, ReportType
    <3> QED
      BY <3>1
  <2>2. /\ Post(s, e) /\ HandDoes(e, down[s], TRUE) /\ down' = [down EXCEPT ![s] = TRUE]
        /\ on_back' \in BOOLEAN /\ UNCHANGED <<gone, taken, device, loop, turn, activations>>
    BY <1>1, <1>2, <2>1 DEF Press, HandDoes, timer
  <2>3. fresh' = [fresh EXCEPT ![s] = IF e.kind = "press" THEN @ + 1 ELSE @]
    BY <1>2, <2>1 DEF Press
  <2> QED
    BY <2>2, <2>3, HandFlows
<1>3. ASSUME NEW s \in Sources, Release(s)
      PROVE  FlowInv'
  <2>1. PICK e \in ReportType : e = Told("release", FALSE) /\ e.kind = "release"
    <3>1. Told("release", FALSE) \in ReportType /\ Told("release", FALSE).kind = "release"
      BY DEF Told, ReportType
    <3> QED
      BY <3>1
  <2>2. /\ Post(s, e) /\ HandDoes(e, down[s], FALSE) /\ down' = [down EXCEPT ![s] = FALSE]
        /\ on_back' \in BOOLEAN /\ UNCHANGED <<gone, taken, device, loop, turn, activations>>
    BY <1>1, <1>3, <2>1 DEF Release, HandDoes, timer, history
  <2>3. fresh' = [fresh EXCEPT ![s] = IF e.kind = "press" THEN @ + 1 ELSE @]
    BY <1>1, <1>3, <2>1 DEF Release, history
  <2> QED
    BY <2>2, <2>3, HandFlows
<1>4. ASSUME Slide
      PROVE  FlowInv'
  <2>1. PICK e \in ReportType : e = Told("move", ~on_back) /\ e.kind = "move"
    <3>1. Told("move", ~on_back) \in ReportType /\ Told("move", ~on_back).kind = "move"
      BY <1>1 DEF Told, ReportType
    <3> QED
      BY <3>1
  <2>2. /\ Post(Touch, e) /\ HandDoes(e, down[Touch], TRUE)
        /\ on_back' \in BOOLEAN /\ UNCHANGED <<gone, taken, device, loop, turn, activations>>
    BY <1>4, <2>1 DEF Slide, HandDoes, timer, history
  <2>3. down' = [down EXCEPT ![Touch] = TRUE]
    <3>1. down[Touch] = TRUE
      BY <1>1, <1>4 DEF Slide
    <3> QED
      BY <1>1, <1>4, <3>1 DEF Slide
  <2>4. fresh' = [fresh EXCEPT ![Touch] = IF e.kind = "press" THEN @ + 1 ELSE @]
    BY <1>1, <1>4, <2>1 DEF Slide, history
  <2> QED
    BY <1>1, <2>2, <2>3, <2>4, HandFlows
<1> QED
  BY <1>2, <1>3, <1>4

\* What takes nothing and is told nothing.
LEMMA RestFlows ==
  ASSUME FlowInv,
         \/ \E s \in Sources : Unplug(s)
         \/ Tick \/ RequestShutdown \/ Sound \/ Draw \/ Stop \/ NextTurn \/ Exit
         \/ UNCHANGED timer_vars
  PROVE  FlowInv'
<1>1. gone \in [Sources -> BOOLEAN]
  BY DEF FlowInv, FlowTypes
<1> USE DEF flow_vars, timer, hands, kernel, history, turn
<1>2. ASSUME NEW s \in Sources, Unplug(s)
      PROVE  FlowInv'
  BY <1>1, <1>2, FlowStays DEF Unplug
<1>3. CASE Tick
  BY <1>1, <1>3, FlowStays DEF Tick
<1>4. CASE RequestShutdown
  BY <1>1, <1>4, FlowStays DEF RequestShutdown
<1>5. CASE Sound
  BY <1>1, <1>5, FlowStays DEF Sound
<1>6. CASE Draw
  <2>1. loop = "top" /\ loop' \in {"poll", "leaving"} /\ UNCHANGED turn
    BY <1>6 DEF Draw, Leave
  <2>2. UNCHANGED <<hands, kernel, history, device, activations>>
    BY <1>6 DEF Draw
  <2> QED
    BY <1>1, <2>1, <2>2, FlowStays
<1>7. CASE Stop
  BY <1>1, <1>7, FlowStays DEF Stop, Leave
<1>8. CASE NextTurn
  BY <1>1, <1>8, FlowStays DEF NextTurn
<1>9. CASE Exit
  BY <1>1, <1>9, FlowStays DEF Exit
<1>10. CASE UNCHANGED timer_vars
  BY <1>1, <1>10, FlowStays DEF timer_vars
<1> QED
  BY <1>2, <1>3, <1>4, <1>5, <1>6, <1>7, <1>8, <1>9, <1>10

\* A turn of the loop starts with nothing read, and ends with what was seen.
LEMMA TurnFlows ==
  ASSUME FlowInv, Poll \/ Decide \/ ActivateTimer
  PROVE  FlowInv'
<1> USE DEF FlowInv
<1>1. /\ down' = down /\ on_back' = on_back /\ gone' = gone /\ queue' = queue
      /\ fresh' = fresh /\ taken' = taken /\ device' = device
  BY DEF Poll, Decide, ActivateTimer, hands, kernel, history
<1>2. /\ loop' = "read" => ready' = Readable
      /\ \A s \in Sources : BatchOf(s) = <<>> /\ BatchOf(s)' = <<>>
  <2>1. CASE Poll
    BY <2>1 DEF Poll, BatchOf
  <2>2. CASE Decide
    BY <2>2 DEF Decide, BatchOf, IsNext
  <2>3. CASE ActivateTimer
    BY <2>3 DEF ActivateTimer, BatchOf
  <2> QED
    BY <2>1, <2>2, <2>3
<1>3. PICK n \in Nat, c \in {0, 1} :
        /\ n = Len(presses) /\ c = One(controller_a /\ loop = "read")
        /\ activations \in Nat /\ taken \in Nat /\ activations + n + c <= taken
        /\ presses \in Seq(BOOLEAN) /\ controller_a \in BOOLEAN
  BY DEF FlowTypes, PressesCount, One
<1>4. /\ activations' \in Nat /\ presses' \in Seq(BOOLEAN) /\ controller_a' \in BOOLEAN
      /\ PressesCount'
  <2>1. CASE Poll
    <3>1. /\ activations' = activations /\ presses' = <<>> /\ controller_a' = FALSE
      BY <2>1 DEF Poll, timer
    <3>2. One(controller_a' /\ loop' = "read") = 0
      BY <3>1 DEF One
    <3>3. activations' + Len(presses') + One(controller_a' /\ loop' = "read") <= taken'
      <4>1. Len(presses') = 0 /\ activations <= taken
        BY <1>3, <3>1
      <4> QED
        BY <1>1, <1>3, <3>1, <3>2, <4>1
    <3>4. activations' \in Nat /\ presses' \in Seq(BOOLEAN) /\ controller_a' \in BOOLEAN
      <4>1. <<>> \in Seq(BOOLEAN)
        OBVIOUS
      <4>2. activations' \in Nat
        BY <1>3, <3>1
      <4>3. presses' \in Seq(BOOLEAN) /\ controller_a' \in BOOLEAN
        BY <3>1, <4>1
      <4> QED
        BY <4>2, <4>3
    <3>5. PressesCount'
      BY <3>3 DEF PressesCount
    <3> QED
      BY <3>4, <3>5
  <2>2. CASE Decide
    <3>1. /\ activations' = activations /\ controller_a' = controller_a
          /\ presses' = IF controller_a THEN <<FALSE>> ELSE presses
          /\ loop = "read" /\ loop' # "read"
      BY <2>2 DEF Decide, timer
    <3>2. One(controller_a' /\ loop' = "read") = 0 /\ c = One(controller_a)
      BY <1>3, <3>1 DEF One
    <3>3. CASE controller_a
      <4>1. presses' = <<FALSE>> /\ c = 1
        BY <3>1, <3>2, <3>3 DEF One
      <4>2. Len(presses') = 1 /\ presses' \in Seq(BOOLEAN)
        <5>1. <<FALSE>> \in Seq(BOOLEAN) /\ Len(<<FALSE>>) = 1
          OBVIOUS
        <5> QED
          BY <4>1, <5>1
      <4>3. activations' + Len(presses') + One(controller_a' /\ loop' = "read") <= taken'
        <5>1. activations + 1 <= taken
          BY <1>3, <4>1
        <5> QED
          BY <1>1, <1>3, <3>1, <3>2, <4>2, <5>1
      <4> QED
        BY <1>3, <3>1, <4>2, <4>3 DEF PressesCount
    <3>4. CASE ~controller_a
      <4>1. presses' = presses /\ Len(presses') = n
        BY <1>3, <3>1, <3>4
      <4>2. activations' + Len(presses') + One(controller_a' /\ loop' = "read") <= taken'
        <5>1. activations + n <= taken
          BY <1>3
        <5> QED
          BY <1>1, <1>3, <3>1, <3>2, <4>1, <5>1
      <4> QED
        BY <1>3, <3>1, <4>1, <4>2 DEF PressesCount
    <3> QED
      BY <3>3, <3>4
  <2>3. CASE ActivateTimer
    <3>1. /\ activations' = activations + 1 /\ controller_a' = controller_a
          /\ presses' = Tail(presses) /\ presses # <<>>
          /\ loop = "act" /\ loop' = "act"
      BY <2>3 DEF ActivateTimer
    <3>2. One(controller_a' /\ loop' = "read") = 0
      BY <3>1 DEF One
    <3>3. presses' \in Seq(BOOLEAN) /\ Len(presses') = n - 1
      BY <1>3, <3>1
    <3> QED
      BY <1>1, <1>3, <3>1, <3>2, <3>3 DEF PressesCount
  <2> QED
    BY <2>1, <2>2, <2>3
<1>5. FlowTypes'
  BY <1>1, <1>4 DEF FlowTypes
<1>6. ReadsOpen'
  BY <1>1, <1>2 DEF ReadsOpen, Readable
<1>7. PressesFlow'
  BY <1>1, <1>2 DEF PressesFlow
<1> QED
  BY <1>4, <1>5, <1>6, <1>7

\* At the start nothing is owed: a key that is down counts as reported.
LEMMA FlowStarts ==
  ASSUME TimerAssumption, TimerInit
  PROVE  FlowInv
<1>1. /\ down \in [Sources -> BOOLEAN] /\ on_back = FALSE
      /\ gone = [s \in Sources |-> FALSE] /\ queue = [s \in Sources |-> <<>>]
      /\ fresh = [s \in Sources |-> 0] /\ taken = 0
      /\ device = [s \in Sources |->
                     IF s = Touch THEN FoundTouch ELSE ResynchronizedPad(s)]
      /\ loop = "top" /\ controller_a = FALSE /\ presses = <<>> /\ activations = 0
  BY DEF TimerInit
<1>2. ASSUME NEW s \in Sources
      PROVE  /\ device[s] \in DeviceType /\ device[s].down = down[s]
             /\ device[s].reported = down[s] /\ ~device[s].dropping
  <2>1. down[s] \in BOOLEAN
    BY <1>1
  <2>2. device[s] = [open |-> TRUE, down |-> down[s], dropping |-> FALSE,
                     reported |-> down[s], back |-> FALSE]
    BY <1>1 DEF FoundTouch, ResynchronizedPad
  <2>3. device[s] \in DeviceType
    BY <2>1, <2>2 DEF DeviceType
  <2> QED
    BY <2>2, <2>3
<1>3. FlowTypes
  <2>1. <<>> \in Seq(EventType) /\ Len(<<>>) <= BufferSize
    BY DEF TimerAssumption
  <2>2. device \in [Sources -> DeviceType]
    BY <1>1, <1>2
  <2>3. /\ on_back \in BOOLEAN /\ gone \in [Sources -> BOOLEAN]
        /\ fresh \in [Sources -> Int] /\ taken \in Nat /\ activations \in Nat
    <3>1. on_back \in BOOLEAN
      BY <1>1
    <3>2. gone \in [Sources -> BOOLEAN]
      BY <1>1
    <3>3. fresh \in [Sources -> Int]
      BY <1>1
    <3>4. taken \in Nat /\ activations \in Nat
      BY <1>1
    <3> QED
      BY <3>1, <3>2, <3>3, <3>4
  <2>4. queue \in [Sources -> Seq(EventType)] /\ \A s \in Sources : queue[s] = <<>>
    BY <1>1, <2>1
  <2>5. presses \in Seq(BOOLEAN) /\ controller_a \in BOOLEAN
    <3>1. <<>> \in Seq(BOOLEAN)
      OBVIOUS
    <3> QED
      BY <1>1, <3>1
  <2> QED
    BY <1>1, <2>1, <2>2, <2>3, <2>4, <2>5 DEF FlowTypes
<1>4. ReadsOpen
  BY <1>1 DEF ReadsOpen
<1>5. PressesFlow
  <2>1. /\ IsStream(<<>>) /\ ~HasKey(<<>>) /\ ~Lost(<<>>) /\ Pressed(<<>>) = 0
    BY FewEvents
  <2>2. ASSUME NEW s \in Sources
        PROVE  Flows(device[s], <<>>, <<>>, down[s], 0)
    <3>1. Unseen(device[s], <<>>, <<>>, down[s]) = 0 /\ Ahead(device[s], <<>>) = 0
      BY <1>2, <2>1 DEF Unseen, EndsDown, StartsDown, Ahead, Behind, Again, One
    <3> QED
      BY <1>2, <2>1, <3>1 DEF Flows, Owed
  <2>3. \A s \in Sources : BatchOf(s) = <<>>
    BY <1>1 DEF BatchOf
  <2> QED
    BY <1>1, <2>2, <2>3 DEF PressesFlow
<1>6. PressesCount
  BY <1>1 DEF PressesCount, One
<1> QED
  BY <1>3, <1>4, <1>5, <1>6 DEF FlowInv

\* No step lets a press be lost from the count.
LEMMA FlowSteps ==
  ASSUME TimerAssumption, FlowInv, [TimerNext]_timer_vars
  PROVE  FlowInv'
<1>1. CASE World
  <2>1. ASSUME NEW s \in Sources,
               Press(s, FALSE) \/ Press(s, TRUE) \/ Release(s) \/ Unplug(s)
        PROVE  FlowInv'
    BY <2>1, HandsFlow, RestFlows
  <2> QED
    BY <1>1, <2>1, HandsFlow, RestFlows DEF World
<1>2. CASE Loop
  <2>1. ASSUME NEW s \in Sources, Read(s) \/ HandleEvent(s)
        PROVE  FlowInv'
    BY <2>1, ReadFlows, EventFlows
  <2> QED
    BY <1>2, <2>1, RestFlows, TurnFlows DEF Loop
<1>3. CASE Sound \/ UNCHANGED timer_vars
  BY <1>3, RestFlows
<1> QED
  BY <1>1, <1>2, <1>3 DEF TimerNext

-----------------------------------------------------------------------------
(* What is shown, and the sound process.                                   *)

TimerTypes ==
  /\ clock \in Nat /\ started_at \in Nat /\ started_at <= clock
  /\ state \in {"ready", "running", "stopped"} /\ displayed \in 0 .. Cap
  /\ dirty \in BOOLEAN
  /\ child \in [phase : {"none", "born", "ready", "playing", "finished"},
                cue : {"none", "start", "exact", "miss"}]

\* The screen shows the timer, but for what is drawn next.
ScreenIsDrawn ==
  /\ ~dirty => screen = Picture(state, displayed)
  /\ loop \in {"poll", "read"} => ~dirty

\* The sound process does not outlive the game.
EndsAlone == loop = "exited" => child = NoChild

ShowInv == TimerTypes /\ ScreenIsDrawn /\ EndsAlone

show_vars == <<clock, started_at, state, displayed, dirty, screen, child>>

\* What the sound process may become.
LEMMA SoundTypes ==
  ASSUME TimerTypes, NEW cue \in {"start", "exact", "miss"}
  PROVE  /\ NoChild \in [phase : {"none", "born", "ready", "playing", "finished"},
                         cue : {"none", "start", "exact", "miss"}]
         /\ Play(cue) => child' \in [phase : {"none", "born", "ready", "playing", "finished"},
                                     cue : {"none", "start", "exact", "miss"}]
  BY DEF TimerTypes, NoChild, Play, Reaped

\* The number that is shown does not exceed the cap.
LEMMA ElapsedIsCapped ==
  ASSUME TimerAssumption, TimerTypes
  PROVE  Elapsed(clock) \in 0 .. Cap
  BY DEF TimerAssumption, TimerTypes, Elapsed, AtMost

\* What does not concern the timer and its sound.
LEMMA ShowStays ==
  ASSUME ShowInv, UNCHANGED show_vars,
         loop' \in {"poll", "read"} => loop \in {"poll", "read"},
         loop' = "exited" => loop = "exited"
  PROVE  ShowInv'
  BY DEF ShowInv, show_vars, TimerTypes, ScreenIsDrawn, EndsAlone

\* Every step keeps what is shown true to the timer.
LEMMA ShowSteps ==
  ASSUME TimerAssumption, ShowInv, [TimerNext]_timer_vars
  PROVE  ShowInv'
<1> USE DEF show_vars, timer, turn
<1>1. ASSUME NEW s \in Sources,
             Press(s, FALSE) \/ Press(s, TRUE) \/ Release(s) \/ Unplug(s)
      PROVE  ShowInv'
  BY <1>1, ShowStays DEF Press, Release, Unplug
<1>2. CASE Slide \/ RequestShutdown \/ UNCHANGED timer_vars
  BY <1>2, ShowStays DEF Slide, RequestShutdown, timer_vars
<1>3. CASE Tick
  BY <1>3 DEF Tick, ShowInv, TimerTypes, ScreenIsDrawn, EndsAlone
<1>4. CASE Sound
  <2>1. /\ loop' = loop /\ dirty' = dirty /\ screen' = screen /\ state' = state
        /\ displayed' = displayed /\ clock' = clock /\ started_at' = started_at
    BY <1>4 DEF Sound
  <2>2. /\ child' \in [phase : {"none", "born", "ready", "playing", "finished"},
                       cue : {"none", "start", "exact", "miss"}]
        /\ child # NoChild
    BY <1>4 DEF Sound, ShowInv, TimerTypes, NoChild
  <2> QED
    BY <2>1, <2>2 DEF ShowInv, TimerTypes, ScreenIsDrawn, EndsAlone
<1>5. CASE Draw
  <2>1. /\ loop = "top" /\ clock' = clock /\ started_at' = started_at /\ state' = state
        /\ loop' \in {"poll", "leaving"}
    BY <1>5 DEF Draw, Leave
  <2>2. displayed' \in 0 .. Cap
    BY <1>5, ElapsedIsCapped DEF Draw, ShowInv, TimerTypes
  <2>3. child' \in [phase : {"none", "born", "ready", "playing", "finished"},
                    cue : {"none", "start", "exact", "miss"}]
    BY <1>5 DEF Draw, Reaped, NoChild, ShowInv, TimerTypes
  <2>4. ScreenIsDrawn' /\ dirty' \in BOOLEAN
    <3>1. CASE screen' = Picture(state, displayed') /\ dirty' = FALSE
      BY <2>1, <3>1 DEF ScreenIsDrawn
    <3>2. CASE dirty' = TRUE /\ loop' = "leaving"
      BY <3>2 DEF ScreenIsDrawn
    <3>3. CASE dirty' = dirty /\ screen' = screen /\ displayed' = displayed /\ ~dirty
      BY <2>1, <3>3 DEF ScreenIsDrawn, ShowInv, TimerTypes
    <3> QED
      BY <1>5, <3>1, <3>2, <3>3 DEF Draw, Leave
  <2> QED
    BY <2>1, <2>2, <2>3, <2>4 DEF ShowInv, TimerTypes, EndsAlone
<1>6. CASE Stop \/ NextTurn
  BY <1>6, ShowStays DEF Stop, Leave, NextTurn
<1>7. CASE Poll
  BY <1>7, ShowStays DEF Poll
<1>8. CASE Decide
  BY <1>8, ShowStays DEF Decide
<1>9. CASE ActivateTimer
  <2>1. dirty' = TRUE /\ clock' = clock /\ loop' = loop /\ loop = "act"
    BY <1>9 DEF ActivateTimer
  <2>2. CASE Start(clock)
    <3>1. child' \in [phase : {"none", "born", "ready", "playing", "finished"},
                      cue : {"none", "start", "exact", "miss"}]
      BY <2>2, SoundTypes DEF Start, ShowInv
    <3>2. 0 \in 0 .. Cap
      BY DEF TimerAssumption
    <3> QED
      BY <2>1, <2>2, <3>1, <3>2 DEF Start, ShowInv, TimerTypes, ScreenIsDrawn, EndsAlone
  <2>3. CASE Finish(clock)
    <3>1. displayed' \in 0 .. Cap /\ started_at' = started_at /\ state' = "stopped"
      BY <2>3, ElapsedIsCapped DEF Finish, ShowInv
    <3>2. Cue(displayed') \in {"start", "exact", "miss"}
      BY DEF Cue
    <3>3. child' \in [phase : {"none", "born", "ready", "playing", "finished"},
                      cue : {"none", "start", "exact", "miss"}]
      BY <2>3, <3>2, SoundTypes DEF Finish, ShowInv
    <3> QED
      BY <2>1, <3>1, <3>3 DEF ShowInv, TimerTypes, ScreenIsDrawn, EndsAlone
  <2> QED
    BY <1>9, <2>2, <2>3 DEF ActivateTimer
<1>10. CASE Exit
  <2>1. /\ dirty' = dirty /\ screen' = screen /\ state' = state
        /\ displayed' = displayed /\ clock' = clock /\ started_at' = started_at
    BY <1>10 DEF Exit
  <2>2. CASE loop' = "waiting" /\ child' = Killed
    <3>1. child' \in [phase : {"none", "born", "ready", "playing", "finished"},
                      cue : {"none", "start", "exact", "miss"}]
      BY <2>2 DEF Killed, ShowInv, TimerTypes
    <3> QED
      BY <2>1, <2>2, <3>1 DEF ShowInv, TimerTypes, ScreenIsDrawn, EndsAlone
  <2>3. CASE loop' = "exited" /\ child' = NoChild
    BY <2>1, <2>3 DEF NoChild, ShowInv, TimerTypes, ScreenIsDrawn, EndsAlone
  <2> QED
    BY <1>10, <2>2, <2>3 DEF Exit
<1>11. ASSUME NEW s \in Sources, Read(s)
       PROVE  ShowInv'
  <2>1. UNCHANGED show_vars /\ loop = "read" /\ loop' \in {"read", "leaving"}
    BY <1>11 DEF Read, Fail, Leave
  <2> QED
    BY <2>1, ShowStays
<1>12. ASSUME NEW s \in Sources, HandleEvent(s)
       PROVE  ShowInv'
  <2>1. UNCHANGED show_vars /\ loop = "read" /\ loop' \in {"read", "leaving"}
    BY <1>12 DEF HandleEvent, Fail, Leave
  <2> QED
    BY <2>1, ShowStays
<1> QED
  BY <1>1, <1>2, <1>3, <1>4, <1>5, <1>6, <1>7, <1>8, <1>9, <1>10, <1>11, <1>12
    DEF TimerNext, World, Loop

-----------------------------------------------------------------------------

\* Both parts hold from the start, in every state of the game.
LEMMA TimerInvariant ==
  TimerSpec => [](FlowInv /\ ShowInv)
<1> USE TimerAssumption
<1>1. TimerInit => FlowInv /\ ShowInv
  <2>1. TimerInit => ShowInv
    BY DEF TimerInit, ShowInv, TimerTypes, ScreenIsDrawn, EndsAlone, NoChild, TimerAssumption
  <2> QED
    BY <2>1, FlowStarts
<1>2. FlowInv /\ ShowInv /\ [TimerNext]_timer_vars => (FlowInv /\ ShowInv)'
  BY FlowSteps, ShowSteps
<1> QED
  BY <1>1, <1>2, PTL DEF TimerSpec

\* What is shown while the loop waits is the timer's state, the number does
\* not exceed the cap, the kernel's queues do not exceed theirs, and the
\* sound process ends before the game (run_game, ~GameSoundPlayer).
THEOREM TimerIsSound ==
  TimerSpec => []TimerInv
<1>1. FlowInv /\ ShowInv => TimerInv
  BY DEF FlowInv, FlowTypes, ShowInv, TimerTypes, ScreenIsDrawn, EndsAlone, TimerInv
<1> QED
  BY <1>1, TimerInvariant, PTL

\* Whatever the hands do, and whatever events the kernel drops, the timer is
\* started and stopped once for a press at most (TouchDevice::read,
\* GamepadDevice::read, resynchronize).
THEOREM ActivationsArePresses ==
  TimerSpec => []EveryActivationIsAPress
<1>1. FlowInv => EveryActivationIsAPress
  <2> SUFFICES ASSUME FlowInv
               PROVE  EveryActivationIsAPress
    OBVIOUS
  <2>1. activations + Len(presses) <= taken
    <3>1. PICK n \in Nat, c \in {0, 1} :
            /\ n = Len(presses) /\ c = One(controller_a /\ loop = "read")
            /\ activations \in Nat /\ taken \in Nat
      BY DEF FlowInv, FlowTypes, One
    <3>2. activations + n + c <= taken
      BY <3>1 DEF FlowInv, PressesCount
    <3> QED
      BY <3>1, <3>2
  <2> QED
    BY <2>1 DEF FlowInv, PressesFlow, EveryActivationIsAPress
<1> QED
  BY <1>1, TimerInvariant, PTL

-----------------------------------------------------------------------------
Lines == 0 .. HistoryLines + Height - 1
Glyphs == Chars \union {Blank, "E"}
Extent == [lo : Nat, hi : 0 .. Width - 1]
TermType ==
  [text : [Lines -> [Cols -> Glyphs]], lines : [Rows -> Lines], dirty : [Rows -> Extent],
   save : Nat, full : BOOLEAN, visual : Nat, pending : Int, top : 0 .. Height, bot : Rows,
   x : 0 .. Width, y : Rows, sx : 0 .. Width, sy : Rows, cx : Nat, cy : Nat,
   active : BOOLEAN, timer : BOOLEAN, showed : BOOLEAN,
   wrap : BOOLEAN, crlf : BOOLEAN, relative : BOOLEAN, inverse : BOOLEAN, visible : BOOLEAN,
   stops : SUBSET Nat]

\* The sizes of a screen.
LEMMA Sizes ==
  /\ Width \in Nat /\ Width >= 1
  /\ Height \in Nat /\ Height >= 1
  /\ HistoryLines \in Nat
BY VTermAssumption

PanelType ==
  [shown : [Rows -> [Cols -> (Glyphs \union {"other"}) \X BOOLEAN]], mark : SUBSET (Cols \X Rows)]

\* Every row has a line of memory of its own, behind those of the ring.
Lined(t) ==
  /\ \A y \in Rows : t.lines[y] >= HistoryLines
  /\ \A y, z \in Rows : t.lines[y] = t.lines[z] => y = z
  /\ \A l \in Lines : l >= HistoryLines => \E y \in Rows : t.lines[y] = l

Ordered(t) ==
  /\ t \in TermType
  /\ Numbered /\ Lined(t)
  /\ t.save \in 0 .. Most(0, HistoryLines - 1) /\ t.visual \in 0 .. TotalHistory(t)

Inside(t, y) == t.top <= y /\ y <= t.bot

\* The row of the panel where row y was last painted.
From(t, y) == IF t.top < t.bot /\ Inside(t, y) THEN y + t.pending ELSE y

IsDirty(t, x, y) == t.dirty[y].lo <= x /\ x <= t.dirty[y].hi
IsMarked(p, st, x, y) == ~st /\ <<x, y>> \in p.mark

RowFollows(t, p, st, y) ==
  \/ t.dirty[y] = Whole
  \/ /\ From(t, y) \in Rows /\ (Inside(t, y) => Inside(t, From(t, y)))
     /\ \A x \in Cols :
          \/ IsDirty(t, x, y)
          \/ /\ p.shown[From(t, y)][x] = <<t.text[t.lines[y]][x], t.inverse>>
             /\ ~IsMarked(p, st, x, From(t, y))

Runs(t) == t.timer = CursorVisible(t)
AllFollow(t, p, st) == \A y \in Rows : RowFollows(t, p, st, y)

\* What holds during a read.
During(t, p, st) ==
  /\ Ordered(t) /\ t.visual = TotalHistory(t)
  /\ t.active => Runs(t) /\ AllFollow(t, p, st)

\* Nothing changes that During looks at.
Alike(t, u) ==
  /\ u \in TermType
  /\ u.text = t.text /\ u.lines = t.lines /\ u.dirty = t.dirty
  /\ u.save = t.save /\ u.full = t.full /\ u.visual = t.visual
  /\ u.pending = t.pending /\ u.top = t.top /\ u.bot = t.bot
  /\ u.active = t.active /\ u.timer = t.timer /\ u.visible = t.visible /\ u.inverse = t.inverse

\* What nothing looks at may change during a read.
LEMMA AlikeDuring ==
  ASSUME NEW t, NEW u, NEW p, NEW st, During(t, p, st), Alike(t, u)
  PROVE  During(u, p, st)
<1>1. TotalHistory(u) = TotalHistory(t)
  BY DEF Alike, TotalHistory
<1>2. Runs(u) = Runs(t)
  BY <1>1 DEF Alike, Runs, CursorVisible
<1>3. Ordered(u)
  BY <1>1 DEF Alike, Ordered, During, Lined
<1>4. \A y : RowFollows(u, p, st, y) = RowFollows(t, p, st, y)
  BY DEF Alike, RowFollows, From, Inside, IsDirty
<1> QED
  BY <1>1, <1>2, <1>3, <1>4 DEF During, AllFollow, Alike

\* The cursor moves within the screen, and nothing else changes.
LEMMA MoveCursorTypes ==
  ASSUME NEW t \in TermType, NEW x \in Nat, NEW y \in Nat
  PROVE  Alike(t, MoveCursor(t, x, y))
<1>1. Least(x, Width - 1) \in 0 .. Width /\ Least(y, Height - 1) \in Rows
  BY Sizes DEF Least, Rows
<1> QED
  BY <1>1 DEF MoveCursor, TermType, Alike

\* A dirty range that is widened is a range.
LEMMA ChangedLineTypes ==
  ASSUME NEW t \in TermType, NEW y \in Rows, NEW lo \in Nat, NEW hi \in Nat
  PROVE  ChangedLine(t, y, lo, hi) \in TermType
<1>1. Widened(t.dirty[y], lo, hi) \in Extent
  BY Sizes DEF Widened, Extent, TermType, Least, Most
<1>2. t.dirty \in [Rows -> Extent]
  BY DEF TermType
<1>3. [t.dirty EXCEPT ![y] = Widened(@, lo, hi)] \in [Rows -> Extent]
  BY <1>1, <1>2
<1> QED
  BY <1>3, ZenonT(60) DEF ChangedLine, TermType, Rows

\* A widened range is dirty where it was and where it is widened, as far as the screen goes.
LEMMA WidenedIs ==
  ASSUME NEW d \in Extent, NEW lo \in Nat, NEW hi \in Nat
  PROVE  /\ Widened(d, lo, hi) \in Extent
         /\ d = Whole => Widened(d, lo, hi) = Whole
         /\ \A x \in Cols : (d.lo <= x /\ x <= d.hi) \/ (lo <= x /\ x <= hi) =>
              Widened(d, lo, hi).lo <= x /\ x <= Widened(d, lo, hi).hi
<1>1. Widened(d, lo, hi) \in Extent
  BY Sizes DEF Widened, Extent, Least, Most
<1>2. ASSUME d = Whole
      PROVE  Widened(d, lo, hi) = Whole
  <2>1. Least(0, Least(lo, Width - 1)) = 0 /\ Most(Width - 1, Least(hi, Width - 1)) = Width - 1
    BY Sizes DEF Least, Most
  <2> QED
    BY <1>2, <2>1 DEF Widened, Whole
<1>3. ASSUME NEW x \in Cols, (d.lo <= x /\ x <= d.hi) \/ (lo <= x /\ x <= hi)
      PROVE  Widened(d, lo, hi).lo <= x /\ x <= Widened(d, lo, hi).hi
  BY <1>3, Sizes DEF Widened, Extent, Least, Most, Cols
<1> QED
  BY <1>1, <1>2, <1>3

\* A row whose text has changed only where it is dirty, and is dirty where it was.
Grazes(t, u, y) ==
  \/ u.dirty[y] = Whole
  \/ /\ t.dirty[y] # Whole
     /\ \A x \in Cols :
          \/ IsDirty(u, x, y)
          \/ ~IsDirty(t, x, y) /\ u.text[u.lines[y]][x] = t.text[t.lines[y]][x]

Touched(t, u) ==
  /\ u \in TermType
  /\ u.lines = t.lines
  /\ u.save = t.save /\ u.full = t.full /\ u.visual = t.visual
  /\ u.pending = t.pending /\ u.top = t.top /\ u.bot = t.bot
  /\ u.active = t.active /\ u.timer = t.timer /\ u.visible = t.visible /\ u.inverse = t.inverse
  /\ \A y \in Rows : Grazes(t, u, y)

\* Text may change where it is dirty.
LEMMA TouchedDuring ==
  ASSUME NEW t, NEW u, NEW p, NEW st, During(t, p, st), Touched(t, u)
  PROVE  During(u, p, st)
<1>1. TotalHistory(u) = TotalHistory(t)
  BY DEF Touched, TotalHistory
<1>2. Runs(u) = Runs(t)
  BY <1>1 DEF Touched, Runs, CursorVisible
<1>3. Ordered(u)
  BY <1>1 DEF Touched, Ordered, During, Lined
<1>4. ASSUME NEW y \in Rows, RowFollows(t, p, st, y)
      PROVE  RowFollows(u, p, st, y)
  <2>1. Grazes(t, u, y)
    BY DEF Touched
  <2>2. From(u, y) = From(t, y) /\ Inside(u, y) = Inside(t, y)
        /\ Inside(u, From(u, y)) = Inside(t, From(t, y)) /\ u.inverse = t.inverse
    BY DEF Touched, From, Inside
  <2> QED
    BY <1>4, <2>1, <2>2 DEF RowFollows, Grazes
<1> QED
  BY <1>1, <1>2, <1>3, <1>4 DEF During, AllFollow, Touched

\* Marking a row dirty changes no text.
LEMMA ChangedLineTouched ==
  ASSUME NEW t \in TermType, NEW y \in Rows, NEW lo \in Nat, NEW hi \in Nat
  PROVE  Touched(t, ChangedLine(t, y, lo, hi))
<1> DEFINE u == ChangedLine(t, y, lo, hi)
<1>1. t.dirty \in [Rows -> Extent]
  BY DEF TermType
<1>2. u = [t EXCEPT !.dirty[y] = Widened(@, lo, hi)]
  BY Sizes DEF ChangedLine, Rows
<1>3. ASSUME NEW z \in Rows
      PROVE  Grazes(t, u, z)
  <2>1. u.text = t.text /\ u.lines = t.lines
    BY <1>2 DEF TermType
  <2>2. u.dirty[z] = IF z = y THEN Widened(t.dirty[y], lo, hi) ELSE t.dirty[z]
    BY <1>1, <1>2 DEF TermType
  <2> QED
    BY <1>1, <2>1, <2>2, WidenedIs DEF Grazes, IsDirty
<1> QED
  BY <1>2, <1>3, ChangedLineTypes DEF Touched, TermType

\* A row of the area, whose text is blank there.
Wiped(t, l, y0, y1, x0, x1) ==
  IF \E y \in {y \in Rows : y0 <= y /\ y <= y1} : t.lines[y] = l
  THEN [x \in Cols |-> IF x \in x0 .. x1 THEN Blank ELSE t.text[l][x]]
  ELSE t.text[l]

\* clear_area marks what it clears.
LEMMA ClearAreaTouched ==
  ASSUME NEW t \in TermType, Lined(t),
         NEW x0 \in Nat, NEW y0 \in Int, NEW x1 \in Nat, NEW y1 \in Int
  PROVE  Touched(t, ClearArea(t, x0, y0, x1, y1))
<1> DEFINE u == ClearArea(t, x0, y0, x1, y1)
           area == {y \in Rows : y0 <= y /\ y <= y1}
           text == [l \in DOMAIN t.text |-> Wiped(t, l, y0, y1, x0, x1)]
           ranges == [y \in Rows |-> IF y \in area THEN Widened(t.dirty[y], x0, x1) ELSE t.dirty[y]]
<1>1. t.dirty \in [Rows -> Extent] /\ t.text \in [Lines -> [Cols -> Glyphs]]
      /\ t.lines \in [Rows -> Lines]
  BY SMTT(30) DEF TermType
<1>2. CASE x0 >= Width \/ x0 > x1
  BY <1>2, ZenonT(60) DEF ClearArea, Touched, Grazes
<1>3. CASE ~(x0 >= Width \/ x0 > x1)
  <2>1. u = [t EXCEPT !.text = text, !.dirty = ranges]
    BY <1>3 DEF ClearArea, Wiped
  <2>2. \A l \in Lines : Wiped(t, l, y0, y1, x0, x1) \in [Cols -> Glyphs]
    BY <1>1 DEF Wiped, Glyphs
  <2>3. text \in [Lines -> [Cols -> Glyphs]]
    BY <1>1, <2>2
  <2>4. ranges \in [Rows -> Extent]
    BY <1>1, WidenedIs
  <2>5. u \in TermType /\ u.text = text /\ u.dirty = ranges /\ u.lines = t.lines
    BY <2>1, <2>3, <2>4, ZenonT(60) DEF TermType
  <2>6. ASSUME NEW y \in Rows
        PROVE  Grazes(t, u, y)
    <3>1. CASE y \in area
      <4>1. u.dirty[y] = Widened(t.dirty[y], x0, x1)
        <5>1. ranges[y] = Widened(t.dirty[y], x0, x1)
          BY <3>1
        <5> HIDE DEF ranges, text, u, area
        <5> QED
          BY <2>5, <5>1
      <4>2. ASSUME NEW x \in Cols, ~IsDirty(u, x, y)
            PROVE  ~IsDirty(t, x, y) /\ u.text[u.lines[y]][x] = t.text[t.lines[y]][x]
        <5>1. ~IsDirty(t, x, y) /\ ~(x0 <= x /\ x <= x1)
          BY <4>1, <4>2, <1>1, WidenedIs DEF IsDirty
        <5>2. u.text[u.lines[y]] = [z \in Cols |-> IF z \in x0 .. x1 THEN Blank ELSE t.text[t.lines[y]][z]]
          <6>1. u.text[u.lines[y]] = Wiped(t, t.lines[y], y0, y1, x0, x1)
            BY <2>5, <1>1
          <6>2. \E z \in {z \in Rows : y0 <= z /\ z <= y1} : t.lines[z] = t.lines[y]
            BY <3>1
          <6> HIDE DEF u, area, text, ranges
          <6> QED
            BY <6>1, <6>2 DEF Wiped
        <5> QED
          BY <5>1, <5>2
      <4> QED
        BY <4>1, <4>2, <1>1, WidenedIs DEF Grazes
    <3>2. CASE y \notin area
      <4>1. u.dirty[y] = t.dirty[y]
        BY <3>2, <2>5
      <4>2. u.text[u.lines[y]] = Wiped(t, t.lines[y], y0, y1, x0, x1)
        BY <2>5, <1>1
      <4>3. ~\E z \in area : t.lines[z] = t.lines[y]
        BY <3>2 DEF Lined
      <4>4. u.text[u.lines[y]] = t.text[t.lines[y]]
        BY <2>5, <4>2, <4>3 DEF Wiped
      <4> QED
        BY <2>5, <4>1, <4>4 DEF Grazes, IsDirty
    <3> QED
      BY <3>1, <3>2
  <2> QED
    BY <2>1, <2>5, <2>6, ZenonT(60) DEF Touched, TermType
<1> QED
  BY <1>2, <1>3

\* One line of memory gets new text, where its row then counts as dirty.
LEMMA RowTouched ==
  ASSUME NEW t \in TermType, Lined(t), NEW y \in Rows, NEW row \in [Cols -> Glyphs],
         NEW lo \in Nat, NEW hi \in Nat,
         \A x \in Cols : x < lo \/ hi < x => row[x] = t.text[t.lines[y]][x]
  PROVE  Touched(t, ChangedLine([t EXCEPT !.text[t.lines[y]] = row], y, lo, hi))
<1> DEFINE w == [t EXCEPT !.text[t.lines[y]] = row]
           u == ChangedLine(w, y, lo, hi)
<1>1. t.dirty \in [Rows -> Extent] /\ t.text \in [Lines -> [Cols -> Glyphs]]
      /\ t.lines \in [Rows -> Lines]
  BY DEF TermType
<1>2. [t.text EXCEPT ![t.lines[y]] = row] \in [Lines -> [Cols -> Glyphs]]
  BY <1>1
<1>3. w \in TermType
  BY <1>2 DEF TermType
<1>4. u = [w EXCEPT !.dirty[y] = Widened(@, lo, hi)]
  BY Sizes DEF ChangedLine, Rows
<1>5. u \in TermType
  BY <1>3, ChangedLineTypes
<1>6. w.text = [t.text EXCEPT ![t.lines[y]] = row] /\ w.dirty = t.dirty /\ w.lines = t.lines
  BY DEF TermType
<1>7. u.text = w.text /\ u.lines = t.lines
      /\ u.dirty = [t.dirty EXCEPT ![y] = Widened(t.dirty[y], lo, hi)]
  BY <1>3, <1>4, <1>6 DEF TermType
<1>8. ASSUME NEW z \in Rows
      PROVE  Grazes(t, u, z)
  <2>1. CASE z = y
    <3>1. u.dirty[z] = Widened(t.dirty[y], lo, hi)
      BY <1>1, <1>7, <2>1
    <3>2. u.text[u.lines[z]] = row
      BY <1>1, <1>6, <1>7, <2>1
    <3>3. ASSUME NEW x \in Cols, ~IsDirty(u, x, z)
          PROVE  ~IsDirty(t, x, z) /\ row[x] = t.text[t.lines[z]][x]
      <4>1. ~IsDirty(t, x, z) /\ ~(lo <= x /\ x <= hi)
        BY <1>1, <2>1, <3>1, <3>3, WidenedIs, SMTT(30) DEF IsDirty
      <4> QED
        BY <2>1, <4>1, Sizes DEF Cols
    <3> QED
      BY <1>1, <2>1, <3>1, <3>2, <3>3, WidenedIs DEF Grazes
  <2>2. CASE z # y
    <3>1. u.dirty[z] = t.dirty[z]
      BY <1>1, <1>7, <2>2
    <3>2. t.lines[z] # t.lines[y]
      BY <2>2 DEF Lined
    <3>3. u.text[u.lines[z]] = t.text[t.lines[z]]
      BY <1>1, <1>6, <1>7, <3>2
    <3> QED
      BY <3>1, <3>3 DEF Grazes, IsDirty
  <2> QED
    BY <2>1, <2>2
<1> QED
  BY <1>3, <1>4, <1>5, <1>7, <1>8 DEF Touched, TermType

\* shift_text marks what it moves, to the end of the row.
LEMMA ShiftTextTouched ==
  ASSUME NEW t \in TermType, Lined(t), NEW y \in Rows, NEW x0 \in Cols, NEW n \in Int
  PROVE  Touched(t, ShiftText(t, y, x0, n))
<1> DEFINE old == t.text[t.lines[y]]
           row == [x \in Cols |-> IF x < x0 THEN old[x]
                                  ELSE IF x - n \in x0 .. Width - 1 THEN old[x - n] ELSE Blank]
<1>1. old \in [Cols -> Glyphs]
  BY DEF TermType
<1>2. row \in [Cols -> Glyphs]
  BY <1>1, Sizes DEF Cols, Glyphs
<1>3. \A x \in Cols : x < x0 \/ Width - 1 < x => row[x] = old[x]
  BY Sizes DEF Cols
<1>5. Touched(t, ChangedLine([t EXCEPT !.text[t.lines[y]] = row], y, x0, Width - 1))
  <2> x0 \in Nat /\ Width - 1 \in Nat
    BY Sizes DEF Cols
  <2> HIDE DEF row
  <2> QED
    BY <1>2, <1>3, RowTouched
<1> QED
  BY <1>5 DEF ShiftText

\* Everything is to be painted anew.
LEMMA RedrawnDuring ==
  ASSUME NEW t, NEW p, NEW st, Ordered(t), t.visual = TotalHistory(t), t.active => Runs(t),
         \A y \in Rows : t.dirty[y] = Whole
  PROVE  During(t, p, st)
BY DEF During, AllFollow, RowFollows

\* The least of some numbers.
LEMMA MinIs ==
  ASSUME NEW S \in SUBSET Nat, S # {}
  PROVE  Min(S) \in S /\ \A y \in S : Min(S) <= y
<1>1. \E x \in S : \A y \in S : x <= y
  BY LeastIs
<1> QED
  BY <1>1 DEF Min

\* The greatest of some numbers.
LEMMA MaxIs ==
  ASSUME NEW n \in Nat, NEW S \in SUBSET (0 .. n), S # {}
  PROVE  Max(S) \in S /\ \A y \in S : y <= Max(S)
<1> DEFINE R == {n - i : i \in S}
<1>1. R \in SUBSET Nat /\ R # {}
  <2>1. \A i \in S : n - i \in Nat
    OBVIOUS
  <2> QED
    BY <2>1
<1>2. PICK r \in R : \A q \in R : r <= q
  BY <1>1, LeastIs
<1>3. PICK x \in S : r = n - x
  BY <1>2
<1>4. \A y \in S : y <= x
  <2> TAKE y \in S
  <2>1. n - x <= n - y
    BY <1>2, <1>3
  <2> QED
    BY <2>1
<1>5. \E z \in S : \A y \in S : z >= y
  BY <1>4
<1> QED
  BY <1>5 DEF Max

\* Only the ring of the history changes, and the view goes to its end.
Fed(t, u) ==
  /\ Ordered(u) /\ u.visual = TotalHistory(u)
  /\ u.lines = t.lines /\ u.dirty = t.dirty
  /\ u.pending = t.pending /\ u.top = t.top /\ u.bot = t.bot
  /\ u.active = t.active /\ u.timer = t.timer /\ u.visible = t.visible /\ u.inverse = t.inverse
  /\ \A l \in Lines : l >= HistoryLines => u.text[l] = t.text[l]

\* history_scroll writes to the ring only, keeps its index in it and leaves the view at its end.
LEMMA HistoryScrollFeeds ==
  ASSUME NEW t, Ordered(t), t.visual = TotalHistory(t), NEW num \in 1 .. Height
  PROVE  Fed(t, HistoryScroll(t, num))
<1> DEFINE Copied(l) == {i \in 0 .. num - 1 : (t.save + i) % HistoryLines = l}
           text == [l \in DOMAIN t.text |->
                      IF l < HistoryLines /\ Copied(l) # {} THEN t.text[t.lines[Max(Copied(l))]]
                      ELSE t.text[l]]
           save == (t.save + num) % HistoryLines
           full == t.full \/ t.save + num >= HistoryLines
           new == [t EXCEPT !.text = text, !.save = save, !.full = full]
           u == HistoryScroll(t, num)
<1>1. CASE HistoryLines = 0
  BY <1>1 DEF HistoryScroll, Fed, Ordered
<1>2. CASE HistoryLines # 0
  <2> HistoryLines \in Nat \ {0} /\ t \in TermType /\ t.save \in Nat /\ num \in Nat
      /\ t.lines \in [Rows -> Lines]
    BY <1>2, Sizes DEF Ordered, TermType
  <2>1. u = [new EXCEPT !.visual = TotalHistory(new)]
    BY <1>2 DEF HistoryScroll
  <2>2. save \in 0 .. HistoryLines - 1
    <3>1. t.save + num \in Nat
      OBVIOUS
    <3> QED
      BY <3>1, Division
  <2>3. text \in [Lines -> [Cols -> Glyphs]]
    <3>1. ASSUME NEW l \in Lines, Copied(l) # {}
          PROVE  t.lines[Max(Copied(l))] \in Lines
      <4>1. Max(Copied(l)) \in Copied(l)
        <5>1. num - 1 \in Nat /\ Copied(l) \in SUBSET (0 .. num - 1)
          OBVIOUS
        <5> HIDE DEF Copied
        <5> QED
          BY <3>1, <5>1, MaxIs
      <4>2. Max(Copied(l)) \in Rows
        BY <4>1, Sizes DEF Rows
      <4> QED
        BY <4>2
    <3>2. t.text \in [Lines -> [Cols -> Glyphs]]
      BY DEF TermType
    <3> HIDE DEF Copied
    <3> QED
      BY <3>1, <3>2
  <2> HIDE DEF text, save, full
  <2>4. full \in BOOLEAN
    BY DEF full
  <2>5. new.save = save /\ new.full = full
    BY DEF TermType
  <2>12. new \in TermType
    <3>0. save \in Nat
      BY <2>2, Sizes
    <3>1. [t EXCEPT !.text = text] \in TermType
      BY <2>3 DEF TermType
    <3>2. \A w \in TermType : [w EXCEPT !.save = save] \in TermType
      BY <3>0 DEF TermType
    <3>3. \A w \in TermType : [w EXCEPT !.full = full] \in TermType
      BY <2>4 DEF TermType
    <3> QED
      BY <3>1, <3>2, <3>3
  <2>6. TotalHistory(new) \in Nat /\ save <= Most(0, HistoryLines - 1) /\ save \in Nat
    BY <2>2, <2>5, Sizes DEF TotalHistory, Most
  <2>13. u \in TermType
    <3> HIDE DEF new
    <3> QED
      BY <2>1, <2>6, <2>12, ZenonT(60) DEF TermType
  <2>14. u.visual = TotalHistory(new) /\ u.save = save /\ u.full = full
    BY <2>1 DEF TermType
  <2>7. u.text = text /\ u.lines = t.lines /\ u.dirty = t.dirty
    BY <2>1 DEF TermType
  <2>8. TotalHistory(u) = TotalHistory(new)
    BY <2>5, <2>14 DEF TotalHistory
  <2>9. Ordered(u)
    BY <2>6, <2>7, <2>13, <2>14, <2>8 DEF Ordered, Lined
  <2>10. \A l \in Lines : l >= HistoryLines => u.text[l] = t.text[l]
    <3> TAKE l \in Lines
    <3> HAVE l >= HistoryLines
    <3>1. l \in DOMAIN t.text /\ ~(l < HistoryLines)
      BY Sizes DEF TermType, Lines
    <3> QED
      BY <3>1, <2>7 DEF text
  <2>11. u.pending = t.pending /\ u.top = t.top /\ u.bot = t.bot /\ u.active = t.active
         /\ u.timer = t.timer /\ u.visible = t.visible /\ u.inverse = t.inverse
    BY <2>1 DEF TermType
  <2> QED
    BY <2>7, <2>14, <2>8, <2>9, <2>10, <2>11 DEF Fed
<1> QED
  BY <1>1, <1>2

\* The row whose line comes to row y when rows a..b turn by num.
Taken(a, b, num, y) ==
  IF y \in a .. b
  THEN IF y + num < a THEN y + num + (b - a + 1)
       ELSE IF y + num > b THEN y + num - (b - a + 1) ELSE y + num
  ELSE y

Turns(a, b, num) == -(b - a + 1) < num /\ num < b - a + 1

\* A region that scrolls by less than its height takes each of its lines again, once.
LEMMA TakenIs ==
  ASSUME NEW a \in Rows, NEW b \in Rows, NEW num \in Int, Turns(a, b, num)
  PROVE  /\ \A y \in Rows : Taken(a, b, num, y) \in Rows
         /\ \A y, z \in Rows : Taken(a, b, num, y) = Taken(a, b, num, z) => y = z
         /\ \A z \in Rows : \E y \in Rows : Taken(a, b, num, y) = z
<1>1. \A y \in Rows : Taken(a, b, num, y) \in Rows
  BY Sizes DEF Taken, Rows, Turns
<1>2. \A y, z \in Rows : Taken(a, b, num, y) = Taken(a, b, num, z) => y = z
  BY Sizes DEF Taken, Rows, Turns
<1>3. ASSUME NEW z \in Rows
      PROVE  \E y \in Rows : Taken(a, b, num, y) = z
  <2>1. /\ Taken(a, b, -num, z) \in Rows
        /\ Taken(a, b, num, Taken(a, b, -num, z)) = z
    BY Sizes DEF Taken, Rows, Turns
  <2> QED
    BY <2>1
<1> QED
  BY <1>1, <1>2, <1>3

\* The lines of rows a..b are dealt out again.
Deals(t, u, a, b, num) == \A y \in Rows : u.lines[y] = t.lines[Taken(a, b, num, y)]

\* Dealing lines anew to the rows leaves each line to one row.
LEMMA TurnedIsLined ==
  ASSUME NEW t, Ordered(t), NEW u, NEW a \in Rows, NEW b \in Rows, NEW num \in Int,
         Turns(a, b, num), Deals(t, u, a, b, num)
  PROVE  Lined(u)
<1> USE DEF Deals
<1>1. Lined(t)
  BY DEF Ordered
<1>2. \A y \in Rows : u.lines[y] >= HistoryLines
  BY <1>1, TakenIs DEF Lined
<1>3. ASSUME NEW y \in Rows, NEW z \in Rows, u.lines[y] = u.lines[z]
      PROVE  y = z
  <2>1. Taken(a, b, num, y) \in Rows /\ Taken(a, b, num, z) \in Rows
    BY TakenIs
  <2>2. Taken(a, b, num, y) = Taken(a, b, num, z)
    BY <1>1, <1>3, <2>1 DEF Lined
  <2> QED
    BY <2>2, TakenIs
<1>4. ASSUME NEW l \in Lines, l >= HistoryLines
      PROVE  \E y \in Rows : u.lines[y] = l
  <2>1. PICK z \in Rows : t.lines[z] = l
    BY <1>1, <1>4 DEF Lined
  <2>2. PICK y \in Rows : Taken(a, b, num, y) = z
    BY TakenIs
  <2> QED
    BY <2>1, <2>2
<1> QED
  BY <1>2, <1>3, <1>4 DEF Lined

\* Pending scrolling that nothing hangs on may be counted anew.
LEMMA FedDuring ==
  ASSUME NEW t, NEW h, NEW u, NEW p, NEW st, During(t, p, st), Fed(t, h), NEW k \in Int,
         u = [h EXCEPT !.pending = k], t.top < t.bot => k = t.pending
  PROVE  During(u, p, st)
<1>0. t \in TermType /\ h \in TermType
  BY DEF During, Ordered, Fed
<1>1. u \in TermType /\ u.text = h.text /\ u.lines = t.lines /\ u.dirty = t.dirty
      /\ u.save = h.save /\ u.full = h.full /\ u.visual = h.visual
      /\ u.top = t.top /\ u.bot = t.bot /\ u.pending = k
  BY <1>0 DEF Fed, TermType
<1>2. u.active = t.active /\ u.timer = t.timer /\ u.visible = t.visible /\ u.inverse = t.inverse
  BY <1>0 DEF Fed, TermType
<1>3. TotalHistory(u) = TotalHistory(h) /\ u.visual = TotalHistory(u)
  BY <1>1 DEF TotalHistory, Fed
<1>4. Ordered(u)
  BY <1>1, <1>3 DEF Ordered, Fed, Lined
<1>5. Runs(t) => Runs(u)
  BY <1>2, <1>3 DEF Runs, CursorVisible, During
<1>6. ASSUME NEW y \in Rows, RowFollows(t, p, st, y)
      PROVE  RowFollows(u, p, st, y)
  <2>1. From(u, y) = From(t, y) /\ Inside(u, y) = Inside(t, y)
        /\ Inside(u, From(u, y)) = Inside(t, From(t, y))
    BY <1>1 DEF From, Inside
  <2>2. u.text[u.lines[y]] = t.text[t.lines[y]] /\ u.dirty[y] = t.dirty[y]
    <3>1. t.lines[y] \in Lines /\ t.lines[y] >= HistoryLines
      BY <1>0 DEF TermType, During, Ordered, Lined
    <3> QED
      BY <1>1, <3>1 DEF Fed
  <2> QED
    BY <1>2, <1>6, <2>1, <2>2 DEF RowFollows, IsDirty
<1> QED
  BY <1>2, <1>3, <1>4, <1>5, <1>6 DEF During, AllFollow

Fast(t, a, b) == a = t.top /\ b = t.bot

\* Rows a..b turn, and with them what is known of them when they are the margins.
Turned(t, h, u, a, b, num) ==
  /\ u \in TermType /\ Deals(t, u, a, b, num)
  /\ u.text = h.text /\ u.save = h.save /\ u.full = h.full /\ u.visual = h.visual
  /\ u.top = t.top /\ u.bot = t.bot
  /\ u.pending = IF Fast(t, a, b) THEN t.pending + num ELSE t.pending
  /\ u.active = t.active /\ u.timer = t.timer /\ u.visible = t.visible /\ u.inverse = t.inverse
  /\ \A y \in Rows : y \notin a .. b => u.dirty[y] = t.dirty[y]
  /\ \A y \in a .. b :
       \/ u.dirty[y] = Whole
       \/ Fast(t, a, b) /\ y + num \in a .. b /\ u.dirty[y] = t.dirty[y + num]

\* A scrolled region follows its rows: dirty ranges travel with the lines, and what was
\* painted where they stood is as far away as the scrolling that is pending says.
LEMMA TurnedDuring ==
  ASSUME NEW t, NEW h, NEW u, NEW p, NEW st, During(t, p, st), Fed(t, h),
         NEW a \in Rows, NEW b \in Rows, NEW num \in Int,
         Turns(a, b, num), Turned(t, h, u, a, b, num)
  PROVE  During(u, p, st)
<1> DEFINE fast == Fast(t, a, b)
<1>0. t \in TermType /\ h \in TermType /\ Ordered(t)
  BY DEF During, Ordered, Fed
<1>3. u \in TermType
  BY DEF Turned
<1>4. u.text = h.text /\ u.save = h.save /\ u.full = h.full /\ u.visual = h.visual
  BY DEF Turned
<1>5. u.top = t.top /\ u.bot = t.bot
      /\ u.pending = IF fast THEN t.pending + num ELSE t.pending
  BY DEF Turned
<1>6. u.active = t.active /\ u.timer = t.timer /\ u.visible = t.visible /\ u.inverse = t.inverse
  BY DEF Turned
<1>7. TotalHistory(u) = TotalHistory(h) /\ u.visual = TotalHistory(u)
  BY <1>4 DEF TotalHistory, Fed
<1>8. Lined(u)
  BY <1>0, TurnedIsLined DEF Turned
<1>9. Ordered(u)
  BY <1>3, <1>4, <1>7, <1>8 DEF Ordered, Fed
<1>10. Runs(t) => Runs(u)
  BY <1>6, <1>7 DEF Runs, CursorVisible, During
<1>11. ASSUME NEW y \in Rows, AllFollow(t, p, st)
       PROVE  RowFollows(u, p, st, y)
  <2> DEFINE z == Taken(a, b, num, y)
  <2>1. z \in Rows
    BY TakenIs
  <2>2. u.text[u.lines[y]] = t.text[t.lines[z]]
    <3>1. t.lines[z] \in Lines /\ t.lines[z] >= HistoryLines
      BY <1>0, <2>1 DEF TermType, During, Ordered, Lined
    <3>2. u.lines[y] = t.lines[z]
      BY DEF Turned, Deals
    <3> QED
      BY <1>4, <3>1, <3>2 DEF Fed
  <2>3. CASE u.dirty[y] = Whole
    BY <2>3 DEF RowFollows
  <2>4. CASE u.dirty[y] # Whole
    <3>1. /\ u.dirty[y] = t.dirty[z]
          /\ \/ y \notin a .. b /\ z = y
             \/ fast /\ y \in a .. b /\ z \in a .. b /\ z = y + num
      <4>1. CASE y \in a .. b
        <5>1. fast /\ y + num \in a .. b /\ u.dirty[y] = t.dirty[y + num]
          BY <2>4, <4>1 DEF Turned
        <5>2. z = y + num
          BY <4>1, <5>1 DEF Taken, Rows
        <5> QED
          BY <4>1, <5>1, <5>2
      <4>2. CASE y \notin a .. b
        BY <4>2 DEF Taken, Turned
      <4> QED
        BY <4>1, <4>2
    <3>2. /\ From(u, y) = From(t, z)
          /\ Inside(u, y) <=> Inside(t, z)
          /\ Inside(u, From(u, y)) <=> Inside(t, From(t, z))
      <4> HIDE DEF z
      <4>0. t.pending \in Int /\ t.top \in Int /\ t.bot \in Int /\ y \in Int /\ z \in Int
            /\ a \in Int /\ b \in Int
        BY <1>0, <2>1, Sizes DEF TermType, Rows
      <4>1. CASE y \notin a .. b /\ z = y
        BY <4>0, <1>5, <4>1 DEF From, Inside, Fast
      <4>2. CASE fast /\ y \in a .. b /\ z \in a .. b /\ z = y + num
        <5>1. u.pending = t.pending + num /\ t.top = a /\ t.bot = b
          BY <1>5, <4>2 DEF Fast
        <5>2. From(u, y) = IF a < b THEN y + t.pending + num ELSE y
          BY <4>0, <1>5, <4>2, <5>1 DEF From, Inside
        <5>3. From(t, z) = IF a < b THEN z + t.pending ELSE z
          BY <4>0, <4>2, <5>1 DEF From, Inside
        <5>4. From(u, y) = From(t, z)
          BY <4>0, <4>2, <5>2, <5>3 DEF Turns
        <5> QED
          BY <4>0, <1>5, <4>2, <5>1, <5>4 DEF Inside
      <4> QED
        BY <3>1, <4>1, <4>2
    <3>3. RowFollows(t, p, st, z)
      BY <1>11, <2>1 DEF AllFollow
    <3> QED
      BY <1>6, <2>2, <3>1, <3>2, <3>3, <2>4 DEF RowFollows, IsDirty
  <2> QED
    BY <2>3, <2>4
<1> QED
  BY <1>6, <1>7, <1>9, <1>10, <1>11 DEF During, AllFollow

\* A region that scrolls fast keeps some of its rows, unless it has only one.
InRegion(t, a, b, n) == a = t.top /\ b = t.bot /\ a < b => Turns(a, b, n)

\* A screen of which no row is copied to the ring.
LEMMA FedByItself ==
  ASSUME NEW t, Ordered(t), t.visual = TotalHistory(t)
  PROVE  Fed(t, t)
BY DEF Fed

\* What scroll_region does to a region that turns by num: its lines are dealt out again, and
\* those that enter are cleared.
Entering(a, b, num) == {y \in a .. b : y + num \notin a .. b}
TurnsTo(t, h, u, a, b, num) ==
  /\ Turns(a, b, num)
  /\ \E m : \E lo, hi \in Int :
       /\ Turned(t, h, m, a, b, num)
       /\ u = ClearArea(m, 0, lo, Width - 1, hi)
       /\ \A y \in Rows : lo <= y /\ y <= hi <=> y \in Entering(a, b, num)
ScrollsTo(t, u, a, b, num) ==
  LET h == IF a = 0 /\ num > 0 THEN HistoryScroll(t, num) ELSE t IN
  /\ Fed(t, h)
  /\ \/ /\ num \in {b - a + 1, a - b - 1}
        /\ u = [h EXCEPT !.pending = IF Fast(t, a, b) THEN t.pending + num ELSE t.pending]
     \/ TurnsTo(t, h, u, a, b, num)

\* scroll_region does nothing, or scrolls by no more rows than the region has.
LEMMA ScrollRegionIs ==
  ASSUME NEW t, Ordered(t), t.visual = TotalHistory(t),
         NEW a \in Rows, NEW b \in Rows, NEW n \in Int
  PROVE  \/ ScrollRegion(t, a, b, n) = t
         \/ /\ a <= b
            /\ \E num \in a - b - 1 .. b - a + 1 :
                 /\ num # 0 /\ (Turns(a, b, n) => num = n)
                 /\ ScrollsTo(t, ScrollRegion(t, a, b, n), a, b, num)
<1> DEFINE u == ScrollRegion(t, a, b, n)
           mx == b - a + 1
           num == Most(Least(n, mx), -mx)
           fast == a = t.top /\ b = t.bot
           Takes(y) == IF y + num < a THEN y + num + mx
                       ELSE IF y + num > b THEN y + num - mx ELSE y + num
           entering == {y \in a .. b : y + num \notin a .. b}
           h == IF a = 0 /\ num > 0 THEN HistoryScroll(t, num) ELSE t
           q == [h EXCEPT !.pending = IF fast THEN @ + num ELSE @]
           lines == [y \in Rows |-> IF y \in a .. b THEN t.lines[Takes(y)] ELSE t.lines[y]]
           ranges == [y \in Rows |-> IF y \notin a .. b THEN t.dirty[y]
                                    ELSE IF fast /\ y \notin entering THEN t.dirty[Takes(y)]
                                    ELSE Whole]
           m == [q EXCEPT !.lines = lines, !.dirty = ranges]
<1> b - a + 1 \in Int /\ Height \in Int /\ a \in Int /\ b \in Int /\ a >= 0 /\ b <= Height - 1 /\ Height - 1 \in Int
  BY Sizes DEF Rows
<1>0. t \in TermType
  BY DEF Ordered
<1>1. u = IF n = 0 \/ a > b THEN t
          ELSE IF num \in {mx, -mx} THEN q
          ELSE ClearArea(m, 0, Min(entering), Width - 1, Max(entering))
  <2>1. Least(b, Height - 1) = b
    BY DEF Least
  <2> QED
    BY <2>1 DEF ScrollRegion
<1>2. CASE n = 0 \/ a > b
  BY <1>1, <1>2
<1>3. CASE ~(n = 0 \/ a > b)
  <2>1. num \in Int /\ -mx <= num /\ num <= mx /\ num # 0 /\ (-mx < n /\ n < mx => num = n)
    <3>1. mx \in Int /\ mx >= 1 /\ n # 0
      BY <1>3
    <3> HIDE DEF mx
    <3>2. Least(n, mx) \in Int /\ Least(n, mx) <= mx /\ (n < mx => Least(n, mx) = n)
          /\ (Least(n, mx) = n \/ Least(n, mx) = mx)
      BY <3>1 DEF Least
    <3>3. -mx \in Int /\ -mx < 0
      BY <3>1
    <3>4. num \in Int /\ num >= -mx /\ num >= Least(n, mx)
          /\ (num = Least(n, mx) \/ num = -mx) /\ (-mx < Least(n, mx) => num = Least(n, mx))
      BY <3>2, <3>3 DEF Most
    <3> HIDE DEF num
    <3> QED
      BY <3>1, <3>2, <3>3, <3>4
  <2>2. mx <= Height
    OBVIOUS
  <2> HIDE DEF num
  <2>3. Fed(t, h)
    <3>1. CASE a = 0 /\ num > 0
      <4>1. num \in 1 .. Height
        BY <2>1, <2>2, <3>1, Sizes
      <4> QED
        BY <1>0, <3>1, <4>1, HistoryScrollFeeds
    <3>2. CASE ~(a = 0 /\ num > 0)
      BY <1>0, <3>2, FedByItself
    <3> QED
      BY <3>1, <3>2
  <2>4. h.pending = t.pending /\ t.pending \in Int /\ h \in TermType
    BY <1>0, <2>3 DEF Fed, TermType, Ordered
  <2>5. ScrollsTo(t, u, a, b, num)
    <3> HIDE DEF h
    <3>1. CASE num \in {mx, -mx}
      <4>1. u = [h EXCEPT !.pending = IF fast THEN t.pending + num ELSE t.pending]
        BY <1>1, <1>3, <2>4, <3>1
      <4>2. num \in {b - a + 1, a - b - 1}
        BY <3>1
      <4> QED
        BY <2>3, <4>1, <4>2 DEF ScrollsTo, h, Fast
    <3>2. CASE num \notin {mx, -mx}
      <4>1. Turns(a, b, num) /\ u = ClearArea(m, 0, Min(entering), Width - 1, Max(entering))
        BY <1>1, <1>3, <2>1, <3>2 DEF Turns
      <4>2. lines = [y \in Rows |-> t.lines[Taken(a, b, num, y)]]
        BY DEF Taken
      <4>3. ranges \in [Rows -> Extent]
        <5>1. \A y \in Rows : y \in a .. b => Takes(y) \in Rows
          BY <2>1, <4>1, TakenIs DEF Taken
        <5> QED
          BY <1>0, <5>1, Sizes DEF TermType, Whole, Extent
      <4>4. \A y \in a .. b : \/ ranges[y] = Whole
                              \/ Fast(t, a, b) /\ y + num \in a .. b /\ ranges[y] = t.dirty[y + num]
        BY <2>1 DEF Rows, Fast
      <4>5. \A y \in Rows : y \notin a .. b => ranges[y] = t.dirty[y]
        OBVIOUS
      <4>6. Turned(t, h, m, a, b, num)
        <5>1. lines \in [Rows -> Lines]
          <6>1. \A y \in Rows : Taken(a, b, num, y) \in Rows
            BY <2>1, <4>1, TakenIs
          <6> QED
            BY <1>0, <4>2, <6>1 DEF TermType
        <5>2. (IF fast THEN t.pending + num ELSE t.pending) \in Int
          BY <2>1, <2>4
        <5> HIDE DEF lines, ranges
        <5>3. m = [h EXCEPT !.pending = IF fast THEN t.pending + num ELSE t.pending,
                            !.lines = lines, !.dirty = ranges]
          BY <2>4
        <5>4. m \in TermType
          BY <2>4, <4>3, <5>1, <5>2, <5>3 DEF TermType
        <5>5. m.lines = lines /\ m.dirty = ranges
              /\ m.pending = IF fast THEN t.pending + num ELSE t.pending
          BY <2>4, <5>3 DEF TermType
        <5>6. /\ m.text = h.text /\ m.save = h.save /\ m.full = h.full /\ m.visual = h.visual
              /\ m.top = t.top /\ m.bot = t.bot /\ m.active = t.active /\ m.timer = t.timer
              /\ m.visible = t.visible /\ m.inverse = t.inverse
          BY <2>3, <2>4, <5>3 DEF TermType, Fed
        <5>7. Deals(t, m, a, b, num)
          BY <4>2, <5>5 DEF Deals
        <5> HIDE DEF m
        <5> QED
          BY <4>4, <4>5, <5>4, <5>5, <5>6, <5>7 DEF Turned, Fast
      <4> HIDE DEF m
      <4>7. /\ Min(entering) \in Int /\ Max(entering) \in Int
            /\ Min(entering) \in entering /\ Max(entering) \in entering
            /\ \A e \in entering : Min(entering) <= e /\ e <= Max(entering)
        <5>1. entering \in SUBSET (0 .. Height - 1)
          OBVIOUS
        <5>2. entering # {}
          <6>1. a \in entering \/ b \in entering
            BY <1>3, <2>1
          <6> QED
            BY <6>1
        <5>3. entering \in SUBSET Nat /\ Height - 1 \in Nat
          BY <5>1, Sizes
        <5> HIDE DEF entering
        <5>4. Min(entering) \in entering /\ \A e \in entering : Min(entering) <= e
          BY <5>2, <5>3, MinIs
        <5>5. Max(entering) \in entering /\ \A e \in entering : e <= Max(entering)
          BY <5>1, <5>2, <5>3, MaxIs
        <5>6. \A e \in entering : e \in Int
          BY <5>1
        <5> QED
          BY <5>4, <5>5, <5>6
      <4>8. entering = Entering(a, b, num)
        BY DEF Entering
      <4>9. \A y \in Rows : Min(entering) <= y /\ y <= Max(entering) <=> y \in entering
        <5> DEFINE lo == Min(entering)
                   hi == Max(entering)
        <5>1. lo \in Int /\ hi \in Int /\ lo \in entering /\ hi \in entering
              /\ \A e \in entering : lo <= e /\ e <= hi
          BY <4>7
        <5> HIDE DEF lo, hi
        <5>2. \A y \in Rows : lo <= y /\ y <= hi <=> y \in entering
          BY <2>1, <5>1 DEF Rows
        <5> QED
          BY <5>2 DEF lo, hi
      <4> HIDE DEF entering
      <4>10. TurnsTo(t, h, u, a, b, num)
        BY <4>1, <4>6, <4>7, <4>8, <4>9 DEF TurnsTo
      <4> QED
        BY <2>3, <4>10 DEF ScrollsTo, h
    <3> QED
      BY <3>1, <3>2
  <2>6. num \in a - b - 1 .. b - a + 1 /\ (Turns(a, b, n) => num = n) /\ a <= b /\ num # 0
    BY <1>3, <2>1 DEF Turns
  <2> HIDE DEF u
  <2> QED
    BY <2>5, <2>6 DEF u
<1> QED
  BY <1>2, <1>3

\* scroll_region keeps what holds during a read.
LEMMA ScrollRegionDuring ==
  ASSUME NEW t, NEW p, NEW st, During(t, p, st),
         NEW a \in Rows, NEW b \in Rows, NEW n \in Int, InRegion(t, a, b, n)
  PROVE  During(ScrollRegion(t, a, b, n), p, st)
<1> DEFINE u == ScrollRegion(t, a, b, n)
<1>0. t \in TermType /\ Ordered(t) /\ t.visual = TotalHistory(t)
  BY DEF During, Ordered
<1>1. CASE u = t
  BY <1>1
<1>2. CASE u # t
  <2>1. PICK num \in a - b - 1 .. b - a + 1 :
          a <= b /\ num # 0 /\ (Turns(a, b, n) => num = n) /\ ScrollsTo(t, u, a, b, num)
    BY <1>0, <1>2, ScrollRegionIs
  <2> HIDE DEF u
  <2> DEFINE h == IF a = 0 /\ num > 0 THEN HistoryScroll(t, num) ELSE t
  <2>2. /\ Fed(t, h)
        /\ \/ /\ num \in {b - a + 1, a - b - 1}
              /\ u = [h EXCEPT !.pending = IF Fast(t, a, b) THEN t.pending + num ELSE t.pending]
           \/ TurnsTo(t, h, u, a, b, num)
    BY <2>1 DEF ScrollsTo
  <2> HIDE DEF h
  <2>3. a \in Int /\ b \in Int /\ num \in Int
    BY <2>1, Sizes DEF Rows
  <2>4. CASE /\ num \in {b - a + 1, a - b - 1}
             /\ u = [h EXCEPT !.pending = IF Fast(t, a, b) THEN t.pending + num ELSE t.pending]
    <3>1. t.top < t.bot => ~Fast(t, a, b)
      BY <2>1, <2>3, <2>4 DEF InRegion, Turns, Fast
    <3>2. (IF Fast(t, a, b) THEN t.pending + num ELSE t.pending) \in Int
      BY <1>0, <2>3 DEF TermType
    <3> QED
      BY <2>2, <2>4, <3>1, <3>2, FedDuring DEF u
  <2>5. CASE TurnsTo(t, h, u, a, b, num)
    <3>1. PICK m : \E lo, hi \in Int :
                     /\ Turned(t, h, m, a, b, num)
                     /\ u = ClearArea(m, 0, lo, Width - 1, hi)
      BY <2>5 DEF TurnsTo
    <3>2. During(m, p, st)
      BY <2>2, <2>3, <2>5, <3>1, TurnedDuring DEF TurnsTo
    <3>3. m \in TermType /\ Lined(m) /\ Width - 1 \in Nat /\ 0 \in Nat
      BY <3>2, Sizes DEF During, Ordered
    <3>4. Touched(m, u)
      BY <3>1, <3>3, ClearAreaTouched
    <3> QED
      BY <3>2, <3>4, TouchedDuring DEF u
  <2> QED
    BY <2>2, <2>4, <2>5
<1> QED
  BY <1>1, <1>2

\* The history is never longer than the ring.
LEMMA HistoryFits ==
  ASSUME NEW t, Ordered(t)
  PROVE  /\ TotalHistory(t) \in 0 .. HistoryLines /\ t.save \in Nat
         /\ HistoryLines = 0 => TotalHistory(t) = 0
BY Sizes DEF Ordered, TermType, TotalHistory, Most

\* The count of columns and rows wraps around.
LEMMA U16Is ==
  U16 \in Nat \ {0}
BY SMT DEF U16

\* A number of 16 bits.
LEMMA SmallIs ==
  ASSUME NEW n \in Nat, n < U16
  PROVE  n % U16 = n
BY SMT DEF U16

\* The line that get_line counts to is within 16 bits.
LEMMA GetLineCounts ==
  ASSUME NEW t, Ordered(t), NEW y \in Rows
  PROVE  GetLine(t, y) =
           IF t.visual + y >= TotalHistory(t) THEN t.lines[(t.visual + y) - TotalHistory(t)]
           ELSE ((IF t.full THEN t.save ELSE 0) + (t.visual + y)) % HistoryLines
<1>1. /\ t.visual \in Nat /\ t.visual <= TotalHistory(t) /\ TotalHistory(t) \in 0 .. HistoryLines
      /\ y \in Nat /\ y <= Height - 1
  BY HistoryFits, Sizes DEF Ordered, Rows
<1>2. t.visual + y \in Nat /\ t.visual + y < U16
  BY <1>1, Sizes, U16Is DEF Ordered, Numbered
<1> DEFINE n == t.visual + y
           line == n % U16
<1>3. GetLine(t, y) = IF line >= TotalHistory(t) THEN t.lines[line - TotalHistory(t)]
                      ELSE ((IF t.full THEN t.save ELSE 0) + line) % HistoryLines
  BY DEF GetLine
<1>4. line = n
  <2> HIDE DEF n
  <2>1. n \in Nat /\ n < U16
    BY <1>2 DEF n
  <2> QED
    BY <2>1, SmallIs
<1> HIDE DEF line, n
<1>5. GetLine(t, y) = IF n >= TotalHistory(t) THEN t.lines[n - TotalHistory(t)]
                      ELSE ((IF t.full THEN t.save ELSE 0) + n) % HistoryLines
  BY <1>3, <1>4
<1> QED
  BY <1>5 DEF n

\* get_line gives a line of memory, that of the row itself when the view is at the end.
LEMMA GetLineIs ==
  ASSUME NEW t, Ordered(t), NEW y \in Rows
  PROVE  /\ GetLine(t, y) \in Lines
         /\ t.visual = TotalHistory(t) => GetLine(t, y) = t.lines[y]
<1>0. t \in TermType /\ t.visual \in Nat /\ t.visual <= TotalHistory(t) /\ y \in Nat
      /\ y <= Height - 1 /\ t.lines \in [Rows -> Lines]
  <2>1. t \in TermType /\ t.visual \in 0 .. TotalHistory(t)
    BY DEF Ordered
  <2>2. TotalHistory(t) \in Nat
    BY HistoryFits, Sizes
  <2>3. t.lines \in [Rows -> Lines]
    BY <2>1 DEF TermType
  <2> QED
    BY <2>1, <2>2, <2>3, Sizes DEF Rows
<1>1. CASE t.visual + y >= TotalHistory(t)
  <2>1. GetLine(t, y) = t.lines[t.visual + y - TotalHistory(t)]
    BY <1>0, <1>1, GetLineCounts, HistoryFits
  <2>2. t.visual + y - TotalHistory(t) \in Rows
    BY <1>0, <1>1, HistoryFits, Sizes DEF Rows
  <2>3. t.visual = TotalHistory(t) => t.visual + y - TotalHistory(t) = y
    BY <1>0, HistoryFits
  <2> QED
    BY <1>0, <2>1, <2>2, <2>3
<1>2. CASE ~(t.visual + y >= TotalHistory(t))
  <2>1. GetLine(t, y) = ((IF t.full THEN t.save ELSE 0) + (t.visual + y)) % HistoryLines
    BY <1>2, GetLineCounts
  <2>2. HistoryLines \in Nat \ {0}
    BY <1>0, <1>2, HistoryFits, Sizes
  <2>3. (IF t.full THEN t.save ELSE 0) + (t.visual + y) \in Nat
    BY <1>0, HistoryFits
  <2>4. GetLine(t, y) \in 0 .. HistoryLines - 1
    BY <2>1, <2>2, <2>3, Division
  <2> QED
    BY <1>0, <1>2, <2>2, <2>4, HistoryFits, Sizes DEF Lines
<1> QED
  BY <1>1, <1>2

\* Painting some cells shows what the view holds there, without an underline.
LEMMA PaintIs ==
  ASSUME NEW t, Ordered(t), NEW p \in PanelType, NEW S \in SUBSET (Cols \X Rows)
  PROVE  /\ Paint(t, p, S) \in PanelType
         /\ t.active =>
              \A x \in Cols, y \in Rows :
                /\ Paint(t, p, S).shown[y][x] =
                     IF <<x, y>> \in S THEN <<t.text[GetLine(t, y)][x], t.inverse>>
                     ELSE p.shown[y][x]
                /\ <<x, y>> \in Paint(t, p, S).mark <=> <<x, y>> \in p.mark /\ <<x, y>> \notin S
<1> DEFINE shown == [y \in Rows |-> [x \in Cols |->
                       IF <<x, y>> \in S THEN <<t.text[GetLine(t, y)][x], t.inverse>>
                       ELSE p.shown[y][x]]]
<1>1. CASE ~t.active
  BY <1>1 DEF Paint
<1>2. CASE t.active
  <2>1. Paint(t, p, S) = [shown |-> shown, mark |-> p.mark \ S]
    BY <1>2 DEF Paint
  <2>2. ASSUME NEW x \in Cols, NEW y \in Rows
        PROVE  (IF <<x, y>> \in S THEN <<t.text[GetLine(t, y)][x], t.inverse>>
                ELSE p.shown[y][x]) \in (Glyphs \union {"other"}) \X BOOLEAN
    <3>1. t.text[GetLine(t, y)][x] \in Glyphs /\ t.inverse \in BOOLEAN
      BY GetLineIs DEF Ordered, TermType
    <3>2. p.shown[y][x] \in (Glyphs \union {"other"}) \X BOOLEAN
      BY DEF PanelType
    <3> QED
      BY <3>1, <3>2
  <2>3. shown \in [Rows -> [Cols -> (Glyphs \union {"other"}) \X BOOLEAN]]
    BY <2>2
  <2>4. p.mark \ S \in SUBSET (Cols \X Rows)
    BY DEF PanelType
  <2> QED
    BY <2>1, <2>3, <2>4 DEF PanelType
<1> QED
  BY <1>1, <1>2

\* Nothing but the panel's picture of row y itself matters once nothing is pending.
Faithful(t, p, st) ==
  \A x \in Cols, y \in Rows :
    /\ p.shown[y][x] = <<t.text[t.lines[y]][x], t.inverse>>
    /\ ~IsMarked(p, st, x, y)

ScreenType == [t : TermType, p : PanelType]

\* With nothing pending and nothing dirty, the panel shows the screen.
LEMMA FaithfulIs ==
  ASSUME NEW t, NEW p, NEW st, During(t, p, st), t.active, t.pending = 0,
         \A y \in Rows : t.dirty[y] = Clean
  PROVE  Faithful(t, p, st)
<1>1. ASSUME NEW x \in Cols, NEW y \in Rows
      PROVE  /\ p.shown[y][x] = <<t.text[t.lines[y]][x], t.inverse>>
             /\ ~IsMarked(p, st, x, y)
  <2>1. RowFollows(t, p, st, y)
    BY DEF During, AllFollow
  <2>2. From(t, y) = y
    BY Sizes DEF From, Rows
  <2>3. t.dirty[y] # Whole
    BY Sizes DEF Clean, Whole
  <2>4. ~IsDirty(t, x, y)
    BY Sizes DEF IsDirty, Clean, Cols
  <2> QED
    BY <2>1, <2>2, <2>3, <2>4 DEF RowFollows
<1> QED
  BY <1>1 DEF Faithful

\* What update() leaves alone.
Refreshed(t, u) ==
  /\ u.x = t.x /\ u.y = t.y /\ u.top = t.top /\ u.bot = t.bot /\ u.visible = t.visible
  /\ u.active = t.active /\ u.visual = t.visual /\ u.save = t.save /\ u.full = t.full
  /\ u.text = t.text /\ u.lines = t.lines /\ u.inverse = t.inverse /\ u.showed = t.showed
  /\ u.cx = t.cx /\ u.cy = t.cy /\ u.timer = t.timer
  /\ u.pending = 0 /\ \A y \in Rows : u.dirty[y] = Clean

\* What update() resets.
LEMMA CleanTypes ==
  ASSUME NEW t \in TermType
  PROVE  [t EXCEPT !.pending = 0, !.dirty = [y \in Rows |-> Clean]] \in TermType
<1> DEFINE d == [y \in Rows |-> Clean]
           none == 0
<1>1. d \in [Rows -> Extent] /\ none \in Int
  BY Sizes DEF Clean, Extent
<1> HIDE DEF d, none
<1>2. [t EXCEPT !.pending = none] \in TermType
  BY <1>1 DEF TermType
<1>3. \A w \in TermType : [w EXCEPT !.dirty = d] \in TermType
  BY <1>1 DEF TermType
<1>4. [t EXCEPT !.pending = none, !.dirty = d] \in TermType
  BY <1>2, <1>3
<1> QED
  BY <1>4 DEF d, none

\* update() leaves nothing pending and nothing dirty, and the panel shows the screen.
LEMMA UpdateIs ==
  ASSUME NEW s \in ScreenType, NEW st, During(s.t, s.p, st)
  PROVE  /\ Update(s) \in ScreenType
         /\ Refreshed(s.t, Update(s).t)
         /\ During(Update(s).t, Update(s).p, st)
<1> DEFINE t == s.t
           mx == t.bot - t.top + 1
           scrolls == t.pending # 0 /\ t.pending < mx /\ -t.pending < mx
           first == IF t.pending < 0 THEN t.top - t.pending ELSE t.top
           last == IF t.pending < 0 THEN t.bot ELSE t.bot - t.pending
           Repaint(y) == IF scrolls /\ t.active /\ y \in first .. last THEN Whole ELSE t.dirty[y]
           S == {c \in Cols \X Rows : c[1] \in Repaint(c[2]).lo .. Repaint(c[2]).hi}
           u == [t EXCEPT !.pending = 0, !.dirty = [y \in Rows |-> Clean]]
           q == Paint(t, s.p, S)
<1>1. Update(s) = [t |-> u, p |-> q]
  BY DEF Update
<1>2. t \in TermType /\ s.p \in PanelType /\ Ordered(t) /\ t.visual = TotalHistory(t)
  BY DEF ScreenType, During
<1>3. u \in TermType
  BY <1>2, CleanTypes
<1>4. Refreshed(t, u)
  BY <1>2 DEF TermType, Refreshed
<1> HIDE DEF u
<1>5. TotalHistory(u) = TotalHistory(t) /\ Ordered(u) /\ (Runs(t) => Runs(u))
  <2>1. TotalHistory(u) = TotalHistory(t)
    BY <1>4 DEF Refreshed, TotalHistory
  <2>2. Ordered(u)
    BY <1>2, <1>3, <1>4, <2>1 DEF Refreshed, Ordered, Lined
  <2>3. Runs(t) => Runs(u)
    BY <1>4, <2>1 DEF Refreshed, Runs, CursorVisible
  <2> QED
    BY <2>1, <2>2, <2>3
<1>6. S \in SUBSET (Cols \X Rows) /\ q \in PanelType
  <2>1. S \in SUBSET (Cols \X Rows)
    OBVIOUS
  <2> HIDE DEF S
  <2> QED
    BY <1>2, <2>1, PaintIs
<1> HIDE DEF S
<1>7. ASSUME t.active, NEW y \in Rows
      PROVE  RowFollows(u, q, st, y)
  <2>1. From(u, y) = y /\ u.dirty[y] = Clean
    BY <1>4, Sizes DEF From, Refreshed, Rows
  <2>2. RowFollows(t, s.p, st, y)
    BY <1>7 DEF During, AllFollow
  <2>3. ASSUME NEW x \in Cols
        PROVE  /\ q.shown[y][x] = <<t.text[t.lines[y]][x], t.inverse>>
               /\ ~IsMarked(q, st, x, y)
    <3>1. /\ q.shown[y][x] = IF <<x, y>> \in S THEN <<t.text[t.lines[y]][x], t.inverse>>
                             ELSE s.p.shown[y][x]
          /\ <<x, y>> \in q.mark <=> <<x, y>> \in s.p.mark /\ <<x, y>> \notin S
      BY <1>2, <1>6, <1>7, PaintIs, GetLineIs
    <3>2. CASE <<x, y>> \in S
      BY <3>1, <3>2 DEF IsMarked
    <3>3. CASE <<x, y>> \notin S
      <4>1. ~(Repaint(y).lo <= x /\ x <= Repaint(y).hi)
        <5>1. Repaint(y).lo \in Int /\ Repaint(y).hi \in Int /\ x \in Int
          <6>1. Whole \in Extent /\ t.dirty[y] \in Extent
            BY <1>2, Sizes DEF TermType, Extent, Whole
          <6>2. Repaint(y) \in Extent
            BY <6>1
          <6> QED
            BY <6>2, Sizes DEF Extent, Cols
        <5> HIDE DEF Repaint
        <5>2. x \notin Repaint(y).lo .. Repaint(y).hi
          BY <3>3 DEF S
        <5> QED
          BY <5>1, <5>2
      <4>2. Repaint(y) = t.dirty[y] /\ ~IsDirty(t, x, y)
        BY <4>1, Sizes DEF IsDirty, Whole, Cols
      <4>3. t.dirty[y] # Whole
        BY <4>1, <4>2, Sizes DEF Whole, Cols
      <4>4. From(t, y) = y
        <5> SUFFICES ASSUME From(t, y) # y
                     PROVE  FALSE
          OBVIOUS
        <5>1. t.pending \in Int /\ t.top \in Int /\ t.bot \in Int /\ y \in Int
          BY <1>2, Sizes, SMTT(30) DEF TermType, Rows
        <5>2. t.top < t.bot /\ Inside(t, y) /\ t.pending # 0 /\ Inside(t, y + t.pending)
          <6>1. From(t, y) = y + t.pending /\ t.top < t.bot /\ Inside(t, y)
            BY DEF From
          <6>2. Inside(t, From(t, y))
            BY <2>2, <4>3, <6>1 DEF RowFollows
          <6> QED
            BY <5>1, <6>1, <6>2
        <5>3. scrolls /\ y \in first .. last
          BY <5>1, <5>2 DEF Inside
        <5>4. Repaint(y) = Whole
          BY <1>7, <5>3
        <5> QED
          BY <4>2, <4>3, <5>4
      <4> QED
        BY <2>2, <3>1, <3>3, <4>2, <4>3, <4>4 DEF RowFollows, IsMarked
    <3> QED
      BY <3>2, <3>3
  <2> HIDE DEF q
  <2> QED
    BY <1>4, <2>1, <2>3 DEF RowFollows, Refreshed
<1> HIDE DEF q
<1>8. Update(s).t = u /\ Update(s).p = q
  BY <1>1
<1>9. During(u, q, st)
  BY <1>4, <1>5, <1>7 DEF During, AllFollow, Refreshed
<1> QED
  BY <1>1, <1>3, <1>4, <1>6, <1>8, <1>9 DEF ScreenType

\* The cursor may be moved at any time.
LEMMA MoveCursorDuring ==
  ASSUME NEW t, NEW p, NEW st, During(t, p, st), NEW x \in Nat, NEW y \in Nat
  PROVE  During(MoveCursor(t, x, y), p, st)
<1>1. t \in TermType
  BY DEF During, Ordered
<1>2. Alike(t, MoveCursor(t, x, y))
  BY <1>1, MoveCursorTypes
<1> QED
  BY <1>2, AlikeDuring

\* What the control functions know of the terminal.
LEMMA CursorIsHere ==
  ASSUME NEW t, NEW p, NEW st, During(t, p, st)
  PROVE  /\ t \in TermType
         /\ t.x \in Nat /\ t.x <= Width /\ t.y \in Rows /\ t.y \in Nat
         /\ t.sx \in Nat /\ t.sy \in Nat
         /\ t.bot \in Rows /\ t.top \in Nat /\ t.bot \in Nat
<1>1. t \in TermType
  BY DEF During, Ordered
<1> QED
  BY <1>1, Sizes DEF TermType, Rows

\* Carriage return.
LEMMA CrDuring ==
  ASSUME NEW t, NEW p, NEW st, During(t, p, st)
  PROVE  During(Cr(t), p, st)
<1>1. 0 \in Nat
  OBVIOUS
<1> QED
  BY <1>1, CursorIsHere, MoveCursorDuring DEF Cr

\* The scrolling of line feed and reverse index.
LEMMA ScrollsByOne ==
  ASSUME NEW t, NEW p, NEW st, During(t, p, st), NEW n \in {-1, 1}
  PROVE  During(ScrollRegion(t, t.top, t.bot, n), p, st)
<1>1. InRegion(t, t.top, t.bot, n)
  BY CursorIsHere, Sizes DEF InRegion, Turns, Rows
<1>2. n \in Int
  OBVIOUS
<1>3. CASE t.top <= t.bot
  <2>1. t.top \in Rows
    BY <1>3, CursorIsHere, Sizes DEF Rows
  <2> QED
    BY <1>1, <1>2, <2>1, CursorIsHere, ScrollRegionDuring
<1>4. CASE t.top > t.bot
  <2>1. Least(t.bot, Height - 1) = t.bot
    BY CursorIsHere, Sizes DEF Least, Rows
  <2>2. ScrollRegion(t, t.top, t.bot, n) = t
    BY <1>4, <2>1 DEF ScrollRegion
  <2> QED
    BY <2>2
<1> QED
  BY <1>3, <1>4, CursorIsHere

\* Line feed.
LEMMA LfDuring ==
  ASSUME NEW t, NEW p, NEW st, During(t, p, st)
  PROVE  During(Lf(t), p, st)
<1> DEFINE lower == IF t.y < t.bot THEN MoveCursor(t, t.x, t.y + 1)
                   ELSE ScrollRegion(t, t.top, t.bot, 1)
<1>1. During(lower, p, st)
  <2>1. t.y + 1 \in Nat /\ 1 \in {-1, 1}
    BY CursorIsHere
  <2>2. During(MoveCursor(t, t.x, t.y + 1), p, st)
    BY <2>1, CursorIsHere, MoveCursorDuring
  <2>3. During(ScrollRegion(t, t.top, t.bot, 1), p, st)
    BY <2>1, ScrollsByOne
  <2> QED
    BY <2>2, <2>3
<1> HIDE DEF lower
<1>2. During(Cr(lower), p, st)
  BY <1>1, CrDuring
<1>3. Lf(t) = IF t.crlf THEN Cr(lower) ELSE lower
  BY DEF Lf, lower
<1> QED
  BY <1>1, <1>2, <1>3

\* Backspace.
LEMMA BsDuring ==
  ASSUME NEW t, NEW p, NEW st, During(t, p, st)
  PROVE  During(Bs(t), p, st)
<1>1. t.x > 0 => t.x - 1 \in Nat
  BY CursorIsHere
<1>2. t.x > 0 => During(MoveCursor(t, t.x - 1, t.y), p, st)
  BY <1>1, CursorIsHere, MoveCursorDuring
<1> QED
  BY <1>2 DEF Bs

\* Tabulation.
LEMMA TabDuring ==
  ASSUME NEW t, NEW p, NEW st, During(t, p, st)
  PROVE  During(Tab(t), p, st)
<1> DEFINE stops == {i \in t.stops : i > t.x /\ i < Width}
           next == ((t.x + 8) \div 8) * 8
           to == IF stops # {} THEN Min(stops) ELSE next % U16
<1>1. stops \in SUBSET Nat
  BY CursorIsHere DEF TermType
<1>2. to \in Nat
  <2>1. stops # {} => Min(stops) \in Nat
    <3> HIDE DEF stops
    <3> QED
      BY <1>1, MinIs
  <2>2. next % U16 \in Nat
    <3>1. t.x + 8 \in Nat /\ 8 \in Nat \ {0}
      BY CursorIsHere
    <3>2. (t.x + 8) \div 8 \in Nat
      BY <3>1, Division
    <3>3. next \in Nat
      BY <3>2
    <3> HIDE DEF next
    <3> QED
      BY <3>3, U16Is, Division
  <2> HIDE DEF stops, next
  <2> QED
    BY <2>1, <2>2
<1>3. Tab(t) = MoveCursor(t, to, t.y)
  BY DEF Tab
<1> HIDE DEF to
<1> QED
  BY <1>2, <1>3, CursorIsHere, MoveCursorDuring

\* A tab stop is set.
LEMMA SetTabDuring ==
  ASSUME NEW t, NEW p, NEW st, During(t, p, st)
  PROVE  During(SetTab(t), p, st)
<1>1. t.stops \union {t.x} \in SUBSET Nat
  BY CursorIsHere DEF TermType
<1>2. Alike(t, SetTab(t))
  BY <1>1, CursorIsHere, SMTT(30) DEF SetTab, Alike, TermType
<1> QED
  BY <1>2, AlikeDuring

\* Tab stops are cleared.
LEMMA ClearTabDuring ==
  ASSUME NEW t, NEW p, NEW st, During(t, p, st), NEW all \in BOOLEAN
  PROVE  During(ClearTab(t, all), p, st)
<1> DEFINE remaining == IF all THEN {} ELSE t.stops \ {t.x}
<1>0. t \in TermType
  BY CursorIsHere
<1>1. remaining \in SUBSET Nat
  BY <1>0 DEF TermType
<1>2. ClearTab(t, all) = [t EXCEPT !.stops = remaining]
  BY DEF ClearTab
<1> HIDE DEF remaining
<1>3. Alike(t, ClearTab(t, all))
  BY <1>0, <1>1, <1>2, SMTT(30) DEF Alike, TermType
<1> QED
  BY <1>3, AlikeDuring

\* The cursor is saved.
LEMMA SaveCursorDuring ==
  ASSUME NEW t, NEW p, NEW st, During(t, p, st)
  PROVE  During(SaveCursor(t), p, st)
<1>0. t \in TermType
  BY CursorIsHere
<1>1. t.x \in 0 .. Width /\ t.y \in Rows
  BY <1>0 DEF TermType
<1>2. Alike(t, SaveCursor(t))
  BY <1>0, <1>1 DEF SaveCursor, Alike, TermType
<1> QED
  BY <1>2, AlikeDuring

\* Any area is cleared.
LEMMA ClearAreaDuring ==
  ASSUME NEW t, NEW p, NEW st, During(t, p, st),
         NEW x0 \in Nat, NEW y0 \in Int, NEW x1 \in Nat, NEW y1 \in Int
  PROVE  During(ClearArea(t, x0, y0, x1, y1), p, st)
<1>1. t \in TermType /\ Lined(t)
  BY DEF During, Ordered
<1>2. Touched(t, ClearArea(t, x0, y0, x1, y1))
  BY <1>1, ClearAreaTouched
<1> QED
  BY <1>2, TouchedDuring

\* The text of a row is moved.
LEMMA ShiftTextDuring ==
  ASSUME NEW t, NEW p, NEW st, During(t, p, st), NEW y \in Rows, NEW x0 \in Cols, NEW n \in Int
  PROVE  During(ShiftText(t, y, x0, n), p, st)
<1>1. t \in TermType /\ Lined(t)
  BY DEF During, Ordered
<1>2. Touched(t, ShiftText(t, y, x0, n))
  BY <1>1, ShiftTextTouched
<1> QED
  BY <1>2, TouchedDuring

\* The functions that move the cursor.
LEMMA MovingDuring ==
  ASSUME NEW t, NEW p, NEW st, During(t, p, st)
  PROVE  /\ During(NextLine(t), p, st)
         /\ During(IndexUp(t), p, st)
         /\ During(RestoreCursor(t), p, st)
         /\ \A dx, dy \in {-1, 0, 1} : During(CursorBy(t, dx, dy), p, st)
         /\ \A x \in Cols, y \in Rows : During(CursorPosition(t, x, y), p, st)
<1>1. During(NextLine(t), p, st)
  BY LfDuring, CrDuring DEF NextLine
<1>2. During(IndexUp(t), p, st)
  <2>1. t.y > t.top => t.y - 1 \in Nat
    BY CursorIsHere
  <2>2. t.y > t.top => During(MoveCursor(t, t.x, t.y - 1), p, st)
    BY <2>1, CursorIsHere, MoveCursorDuring
  <2>3. -1 \in {-1, 1}
    OBVIOUS
  <2>4. During(ScrollRegion(t, t.top, t.bot, -1), p, st)
    BY <2>3, ScrollsByOne
  <2> QED
    BY <2>2, <2>4 DEF IndexUp
<1>3. During(RestoreCursor(t), p, st)
  BY CursorIsHere, MoveCursorDuring DEF RestoreCursor
<1>4. ASSUME NEW dx \in {-1, 0, 1}, NEW dy \in {-1, 0, 1}
      PROVE  During(CursorBy(t, dx, dy), p, st)
  <2>1. Most(0, t.x + dx) \in Nat /\ Most(0, t.y + dy) \in Nat
    BY CursorIsHere DEF Most
  <2> QED
    BY <2>1, MoveCursorDuring DEF CursorBy
<1>5. ASSUME NEW x \in Cols, NEW y \in Rows
      PROVE  During(CursorPosition(t, x, y), p, st)
  <2>1. x \in Nat /\ y + (IF t.relative THEN t.top ELSE 0) \in Nat
    BY CursorIsHere, Sizes DEF Cols, Rows
  <2> QED
    BY <2>1, MoveCursorDuring DEF CursorPosition
<1> QED
  BY <1>1, <1>2, <1>3, <1>4, <1>5

\* Characters are inserted, deleted and erased.
LEMMA CharDuring ==
  ASSUME NEW t, NEW p, NEW st, During(t, p, st), NEW n \in 1 .. Width
  PROVE  /\ During(InsertChar(t, n), p, st)
         /\ During(DeleteChar(t, n), p, st)
         /\ During(EraseChar(t, n), p, st)
<1>0. Width - 1 \in Nat /\ t.y \in Int /\ n \in Int /\ -n \in Int
  BY CursorIsHere, Sizes
<1>1. During(ClearArea(t, t.x, t.y, Width - 1, t.y), p, st)
  BY <1>0, CursorIsHere, ClearAreaDuring
<1>2. ASSUME ~(n >= Width - t.x)
      PROVE  During(ShiftText(t, t.y, t.x, n), p, st) /\ During(ShiftText(t, t.y, t.x, -n), p, st)
  <2>1. t.x \in Cols
    BY <1>2, CursorIsHere, Sizes DEF Cols
  <2> QED
    BY <1>0, <2>1, CursorIsHere, ShiftTextDuring
<1>3. During(EraseChar(t, n), p, st)
  <2>1. t.x + Least(n, Width - t.x) - 1 \in Nat
    BY CursorIsHere, Sizes DEF Least
  <2> QED
    BY <1>0, <2>1, CursorIsHere, ClearAreaDuring DEF EraseChar
<1> QED
  BY <1>1, <1>2, <1>3 DEF InsertChar, DeleteChar

\* A remainder is no more than what is divided.
LEMMA RemainderIsLess ==
  ASSUME NEW a \in Nat, NEW d \in Nat \ {0}
  PROVE  a % d <= a
<1>1. a \div d \in Nat /\ a % d \in Nat /\ a = ((a \div d) * d) + (a % d)
  BY Division
<1>2. (a \div d) * d \in Nat
  BY <1>1
<1> QED
  BY <1>1, <1>2

\* Lines are inserted and deleted: below the bottom margin the count of rows wraps around and
\* scroll_region has nothing to do.
LEMMA LineDuring ==
  ASSUME NEW t, NEW p, NEW st, During(t, p, st), NEW n \in 1 .. Height - 1
  PROVE  During(InsertLine(t, n), p, st) /\ During(DeleteLine(t, n), p, st)
<1>0. Width - 1 \in Nat /\ t.y \in Int /\ t.bot \in Int /\ n \in Int /\ -n \in Int /\ 0 \in Nat
  BY CursorIsHere, Sizes
<1>1. During(ClearArea(t, 0, t.y, Width - 1, t.bot), p, st)
  BY <1>0, ClearAreaDuring
<1>2. ASSUME ~(n >= RowsBelow(t))
      PROVE  /\ During(ScrollRegion(t, t.y, t.bot, -n), p, st)
             /\ During(ScrollRegion(t, t.y, t.bot, n), p, st)
  <2>1. t.y <= t.bot => RowsBelow(t) <= t.bot - t.y + 1 /\ RowsBelow(t) \in Nat
    <3>1. t.y <= t.bot => t.bot - t.y + 1 \in Nat
      BY <1>0
    <3> QED
      BY <3>1, U16Is, RemainderIsLess, Division DEF RowsBelow
  <2>2. InRegion(t, t.y, t.bot, n) /\ InRegion(t, t.y, t.bot, -n)
    BY <1>0, <1>2, <2>1 DEF InRegion, Turns
  <2> QED
    BY <1>0, <2>2, CursorIsHere, ScrollRegionDuring
<1> QED
  BY <1>1, <1>2 DEF InsertLine, DeleteLine

\* A line or the display is erased.
LEMMA EraseDuring ==
  ASSUME NEW t, NEW p, NEW st, During(t, p, st), NEW how \in 0 .. 2
  PROVE  During(EraseLine(t, how), p, st) /\ During(EraseDisplay(t, how), p, st)
<1>0. Width - 1 \in Nat /\ Height - 1 \in Int /\ t.y \in Int /\ t.x \in Nat /\ 0 \in Nat
      /\ t.y + 1 \in Int /\ t.y - 1 \in Int /\ 0 \in Int
  BY CursorIsHere, Sizes
<1>1. \A h \in 0 .. 2 : During(EraseLine(t, h), p, st)
  BY <1>0, ClearAreaDuring DEF EraseLine
<1>2. CASE how = 0
  <2>1. During(EraseLine(t, 0), p, st)
    BY <1>1
  <2> QED
    BY <1>0, <1>1, <1>2, <2>1, ClearAreaDuring DEF EraseDisplay
<1>3. CASE how = 1
  <2>1. During(EraseLine(t, 1), p, st)
    BY <1>1
  <2> QED
    BY <1>0, <1>1, <1>3, <2>1, ClearAreaDuring DEF EraseDisplay
<1>4. CASE how = 2
  BY <1>0, <1>1, <1>4, ClearAreaDuring DEF EraseDisplay
<1> QED
  BY <1>2, <1>3, <1>4

\* The cursor timer runs while the cursor of the shell on the panel is visible.
LEMMA ModeChangedIs ==
  ASSUME NEW t \in TermType
  PROVE  /\ ModeChanged(t) \in TermType
         /\ ModeChanged(t) = [t EXCEPT !.timer = IF t.active THEN CursorVisible(t) ELSE @]
<1>1. CursorVisible(t) \in BOOLEAN
  BY DEF CursorVisible, TermType
<1>2. ModeChanged(t) \in TermType
  BY <1>1 DEF ModeChanged, TermType
<1>3. CASE ~t.active
  <2>1. [t EXCEPT !.timer = t.timer] = t
    BY DEF TermType
  <2> QED
    BY <1>2, <1>3, <2>1 DEF ModeChanged
<1>4. CASE t.active
  BY <1>2, <1>4 DEF ModeChanged
<1> QED
  BY <1>3, <1>4

\* A mode has changed that the timer of the cursor does not know of yet.
LEMMA ModeChangedDuring ==
  ASSUME NEW t, NEW p, NEW st, Ordered(t), t.visual = TotalHistory(t),
         t.active => AllFollow(t, p, st)
  PROVE  During(ModeChanged(t), p, st)
<1> DEFINE u == ModeChanged(t)
<1>0. t \in TermType /\ u \in TermType
  BY ModeChangedIs DEF Ordered
<1>1. /\ u.text = t.text /\ u.lines = t.lines /\ u.dirty = t.dirty
      /\ u.save = t.save /\ u.full = t.full /\ u.visual = t.visual
      /\ u.pending = t.pending /\ u.top = t.top /\ u.bot = t.bot
      /\ u.active = t.active /\ u.visible = t.visible /\ u.inverse = t.inverse
      /\ u.timer = IF t.active THEN CursorVisible(t) ELSE t.timer
  BY <1>0 DEF ModeChanged, TermType
<1> HIDE DEF u
<1>2. TotalHistory(u) = TotalHistory(t)
  BY <1>1 DEF TotalHistory
<1>3. Ordered(u)
  BY <1>0, <1>1, <1>2 DEF Ordered, Lined
<1>4. u.active => Runs(u)
  BY <1>1, <1>2 DEF Runs, CursorVisible
<1>5. \A y : RowFollows(u, p, st, y) = RowFollows(t, p, st, y)
  BY <1>1 DEF RowFollows, From, Inside, IsDirty
<1> QED
  BY <1>1, <1>2, <1>3, <1>4, <1>5 DEF During, AllFollow, u

\* The alignment pattern marks every row.
LEMMA ScreenAlignDuring ==
  ASSUME NEW t, NEW p, NEW st, During(t, p, st)
  PROVE  During(ScreenAlign(t), p, st)
<1> DEFINE text == [l \in DOMAIN t.text |->
                      IF \E y \in Rows : t.lines[y] = l THEN AlignRow ELSE t.text[l]]
           ranges == [y \in Rows |-> Whole]
           u == [t EXCEPT !.text = text, !.dirty = ranges]
<1>0. t \in TermType
  BY CursorIsHere
<1>1. text \in [Lines -> [Cols -> Glyphs]]
  <2>1. AlignRow \in [Cols -> Glyphs]
    BY DEF AlignRow, Glyphs
  <2>2. t.text \in [Lines -> [Cols -> Glyphs]]
    BY <1>0 DEF TermType
  <2> QED
    BY <2>1, <2>2
<1>2. ranges \in [Rows -> Extent] /\ \A y \in Rows : ranges[y] = Whole
  BY Sizes DEF Whole, Extent
<1>3. ScreenAlign(t) = u
  BY DEF ScreenAlign
<1> HIDE DEF text, ranges
<1>4. u \in TermType
  BY <1>0, <1>1, <1>2 DEF TermType
<1>5. Touched(t, u)
  <2>1. /\ u.lines = t.lines /\ u.dirty = ranges
        /\ u.save = t.save /\ u.full = t.full /\ u.visual = t.visual
        /\ u.pending = t.pending /\ u.top = t.top /\ u.bot = t.bot
        /\ u.active = t.active /\ u.timer = t.timer /\ u.visible = t.visible
        /\ u.inverse = t.inverse
    BY <1>0 DEF TermType
  <2> HIDE DEF u
  <2> QED
    BY <1>2, <1>4, <2>1 DEF Touched, Grazes
<1> QED
  BY <1>3, <1>5, TouchedDuring

\* Modes are changed: turning the inverse mode marks every row, for all of it looks different.
LEMMA EnableModeDuring ==
  ASSUME NEW t, NEW p, NEW st, During(t, p, st), NEW on \in BOOLEAN,
         NEW mode \in {"crlf", "inverse", "relative", "wrap", "visible"}
  PROVE  During(EnableMode(t, mode, on), p, st)
<1>0. t \in TermType /\ Ordered(t) /\ t.visual = TotalHistory(t) /\ (t.active => Runs(t))
      /\ (t.active => AllFollow(t, p, st))
  BY DEF During, Ordered
<1>1. CASE mode = "crlf"
  <2>1. Alike(t, [t EXCEPT !.crlf = on])
    BY <1>0 DEF Alike, TermType
  <2> QED
    BY <1>1, <2>1, AlikeDuring DEF EnableMode
<1>2. CASE mode = "relative"
  <2>1. Alike(t, [t EXCEPT !.relative = on])
    BY <1>0 DEF Alike, TermType
  <2> QED
    BY <1>2, <2>1, AlikeDuring DEF EnableMode
<1>3. CASE mode = "wrap"
  <2>1. Alike(t, [t EXCEPT !.wrap = on])
    BY <1>0 DEF Alike, TermType
  <2> QED
    BY <1>3, <2>1, AlikeDuring DEF EnableMode
<1>4. CASE mode = "inverse"
  <2> DEFINE ranges == [y \in Rows |-> Whole]
             u == [t EXCEPT !.inverse = on, !.dirty = ranges]
  <2>1. ranges \in [Rows -> Extent] /\ \A y \in Rows : ranges[y] = Whole
    BY Sizes DEF Whole, Extent
  <2>2. EnableMode(t, mode, on) = u
    BY <1>4 DEF EnableMode
  <2> HIDE DEF ranges
  <2>3. u \in TermType
    BY <1>0, <2>1 DEF TermType
  <2>4. /\ u.lines = t.lines /\ u.dirty = ranges /\ u.text = t.text
        /\ u.save = t.save /\ u.full = t.full /\ u.visual = t.visual
        /\ u.active = t.active /\ u.timer = t.timer /\ u.visible = t.visible
    BY <1>0 DEF TermType
  <2> HIDE DEF u
  <2>5. TotalHistory(u) = TotalHistory(t)
    BY <2>4 DEF TotalHistory
  <2>6. Ordered(u)
    BY <1>0, <2>3, <2>4, <2>5 DEF Ordered, Lined
  <2>7. u.active => Runs(u)
    BY <1>0, <2>4, <2>5 DEF Runs, CursorVisible
  <2>8. u.visual = TotalHistory(u) /\ \A y \in Rows : u.dirty[y] = Whole
    BY <1>0, <2>1, <2>4, <2>5
  <2> QED
    BY <2>2, <2>6, <2>7, <2>8, RedrawnDuring
<1>5. CASE mode = "visible"
  <2> DEFINE u == [t EXCEPT !.visible = on]
  <2>1. u \in TermType
    BY <1>0 DEF TermType
  <2>2. /\ u.text = t.text /\ u.lines = t.lines /\ u.dirty = t.dirty
        /\ u.save = t.save /\ u.full = t.full /\ u.visual = t.visual
        /\ u.pending = t.pending /\ u.top = t.top /\ u.bot = t.bot
        /\ u.active = t.active /\ u.inverse = t.inverse
    BY <1>0 DEF TermType
  <2>3. EnableMode(t, mode, on) = ModeChanged(u)
    BY <1>5 DEF EnableMode
  <2> HIDE DEF u
  <2>4. TotalHistory(u) = TotalHistory(t)
    BY <2>2 DEF TotalHistory
  <2>5. Ordered(u)
    BY <1>0, <2>1, <2>2, <2>4 DEF Ordered, Lined
  <2>6. \A y : RowFollows(u, p, st, y) = RowFollows(t, p, st, y)
    BY <2>2 DEF RowFollows, From, Inside, IsDirty
  <2>7. u.active => AllFollow(u, p, st)
    BY <1>0, <2>2, <2>6 DEF AllFollow
  <2>8. u.visual = TotalHistory(u)
    BY <1>0, <2>2, <2>4
  <2> QED
    BY <2>3, <2>5, <2>7, <2>8, ModeChangedDuring
<1> QED
  BY <1>1, <1>2, <1>3, <1>4, <1>5

\* The members that reset() names.
LEMMA DefaultsAre ==
  /\ DOMAIN Defaults = {"pending", "top", "bot", "x", "y", "sx", "sy", "wrap", "crlf",
                        "relative", "inverse", "visible", "stops"}
  /\ Defaults.pending = 0 /\ Defaults.top = 0 /\ Defaults.bot = Height - 1
  /\ Defaults.x = 0 /\ Defaults.y = 0 /\ Defaults.sx = 0 /\ Defaults.sy = 0
  /\ Defaults.wrap \in BOOLEAN /\ Defaults.crlf \in BOOLEAN /\ Defaults.relative \in BOOLEAN
  /\ Defaults.inverse \in BOOLEAN /\ Defaults.visible \in BOOLEAN /\ Defaults.stops = {}
BY DEF Defaults

\* reset() leaves the lines, the ring and the view alone.
LEMMA RestoredIs ==
  ASSUME NEW t \in TermType, NEW r, r = Over(Defaults, t)
  PROVE  /\ r \in TermType
         /\ r.text = t.text /\ r.lines = t.lines /\ r.dirty = t.dirty
         /\ r.save = t.save /\ r.full = t.full /\ r.visual = t.visual
         /\ r.active = t.active /\ r.timer = t.timer
<1>1. DOMAIN t = {"text", "lines", "dirty", "save", "full", "visual", "pending", "top", "bot",
                  "x", "y", "sx", "sy", "cx", "cy", "active", "timer", "showed", "wrap", "crlf",
                  "relative", "inverse", "visible", "stops"}
  BY DEF TermType
<1>2. DOMAIN r = DOMAIN t
  BY <1>1, DefaultsAre DEF Over
<1>3. r.text = t.text /\ r.lines = t.lines /\ r.dirty = t.dirty
      /\ r.save = t.save /\ r.full = t.full /\ r.visual = t.visual
      /\ r.active = t.active /\ r.timer = t.timer /\ r.cx = t.cx /\ r.cy = t.cy
      /\ r.showed = t.showed
  BY <1>1, DefaultsAre DEF Over
<1>4. /\ r.pending = Defaults.pending /\ r.top = Defaults.top /\ r.bot = Defaults.bot
      /\ r.x = Defaults.x /\ r.y = Defaults.y /\ r.sx = Defaults.sx /\ r.sy = Defaults.sy
      /\ r.wrap = Defaults.wrap /\ r.crlf = Defaults.crlf /\ r.relative = Defaults.relative
      /\ r.inverse = Defaults.inverse /\ r.visible = Defaults.visible /\ r.stops = Defaults.stops
  BY <1>1, DefaultsAre DEF Over
<1>5. 0 \in Int /\ 0 \in Rows /\ Height - 1 \in Rows /\ 0 \in 0 .. Width /\ 0 \in 0 .. Height
      /\ {} \in SUBSET Nat
  BY Sizes DEF Rows
<1>7. r = [f \in DOMAIN t |-> r[f]]
  BY <1>1, <1>2, DefaultsAre DEF Over
<1>6. r \in TermType
  BY <1>7, <1>1, <1>2, <1>3, <1>4, <1>5, DefaultsAre DEF TermType
<1> QED
  BY <1>3, <1>6

\* A range widened to all columns.
LEMMA WidenedToAll ==
  ASSUME NEW d \in Extent
  PROVE  Widened(d, 0, Width - 1) = Whole
<1>1. Least(0, Width - 1) = 0 /\ Least(d.lo, 0) = 0 /\ Least(Width - 1, Width - 1) = Width - 1
      /\ Most(d.hi, Width - 1) = Width - 1
  BY Sizes DEF Least, Most, Extent
<1> QED
  BY <1>1 DEF Widened, Whole

\* reset() forgets what is pending, and may, for it clears the whole screen.
LEMMA ResetDuring ==
  ASSUME NEW t, NEW p, NEW st, During(t, p, st)
  PROVE  During(Reset(t), p, st)
<1> DEFINE r == Over(Defaults, t)
           u == ClearArea(r, 0, 0, Width - 1, Height - 1)
<1>0. t \in TermType /\ Ordered(t) /\ t.visual = TotalHistory(t)
  BY DEF During, Ordered
<1>1. /\ r \in TermType
      /\ r.text = t.text /\ r.lines = t.lines /\ r.dirty = t.dirty
      /\ r.save = t.save /\ r.full = t.full /\ r.visual = t.visual
      /\ r.active = t.active /\ r.timer = t.timer
  BY <1>0, RestoredIs
<1>2. Reset(t) = ModeChanged(u)
  BY DEF Reset
<1> HIDE DEF r
<1>3. Lined(r)
  BY <1>0, <1>1 DEF Ordered, Lined
<1>4. Touched(r, u)
  <2>1. 0 \in Nat /\ 0 \in Int /\ Width - 1 \in Nat /\ Height - 1 \in Int
    BY Sizes
  <2> QED
    BY <1>1, <1>3, <2>1, ClearAreaTouched
<1>5. \A y \in Rows : u.dirty[y] = Whole
  <2>1. ~(0 >= Width \/ 0 > Width - 1)
    BY Sizes
  <2> DEFINE area == {y \in Rows : 0 <= y /\ y <= Height - 1}
             ranges == [y \in Rows |-> IF y \in area THEN Widened(r.dirty[y], 0, Width - 1)
                                      ELSE r.dirty[y]]
  <2>2. u.dirty = ranges
    BY <1>1, <2>1 DEF ClearArea, TermType
  <2>3. area = Rows
    BY Sizes DEF Rows
  <2>4. \A y \in Rows : r.dirty[y] \in Extent
    BY <1>1 DEF TermType
  <2> QED
    BY <2>2, <2>3, <2>4, WidenedToAll
<1> HIDE DEF u
<1>6. u.visual = t.visual /\ TotalHistory(u) = TotalHistory(t) /\ u.lines = t.lines
      /\ u.save = t.save /\ u \in TermType
  BY <1>1, <1>4 DEF Touched, TotalHistory
<1>7. Ordered(u)
  BY <1>0, <1>6 DEF Ordered, Lined
<1>8. AllFollow(u, p, st)
  BY <1>5, SMTT(30) DEF AllFollow, RowFollows
<1> QED
  BY <1>0, <1>2, <1>6, <1>7, <1>8, ModeChangedDuring

\* A character is printed, on the next row when this one is full.
LEMMA DoNormalCharDuring ==
  ASSUME NEW t, NEW p, NEW st, During(t, p, st), NEW c \in Chars
  PROVE  During(DoNormalChar(t, c), p, st)
<1> DEFINE u == IF t.x < Width THEN t
                ELSE IF t.wrap THEN NextLine(t) ELSE [t EXCEPT !.x = Width - 1]
           m == ChangedLine(u, u.y, u.x, u.x)
           n == [m EXCEPT !.text[m.lines[m.y]][m.x] = c, !.x = @ + 1]
<1>1. During(u, p, st) /\ u.x \in Cols
  <2>1. CASE t.x < Width
    BY <2>1, CursorIsHere, Sizes DEF Cols
  <2>2. CASE ~(t.x < Width) /\ t.wrap
    <3>1. u = Cr(Lf(t))
      BY <2>2 DEF NextLine
    <3>2. During(u, p, st)
      BY <3>1, LfDuring, CrDuring
    <3>3. u.x = Least(0, Width - 1)
      <4>1. Lf(t) \in TermType
        BY LfDuring, CursorIsHere
      <4> QED
        BY <3>1, <4>1 DEF Cr, MoveCursor, TermType
    <3>4. Least(0, Width - 1) \in Cols
      BY Sizes DEF Least, Cols
    <3> QED
      BY <3>2, <3>3, <3>4
  <2>3. CASE ~(t.x < Width) /\ ~t.wrap
    <3>1. t \in TermType /\ Width - 1 \in 0 .. Width /\ Width - 1 \in Cols
      BY CursorIsHere, Sizes DEF Cols
    <3>2. Alike(t, u) /\ u.x = Width - 1
      BY <2>3, <3>1 DEF Alike, TermType
    <3> QED
      BY <3>1, <3>2, AlikeDuring
  <2> QED
    BY <2>1, <2>2, <2>3
<1>2. DoNormalChar(t, c) = n
  BY DEF DoNormalChar
<1> HIDE DEF u
<1>3. u \in TermType /\ Lined(u) /\ u.y \in Rows /\ u.x \in Cols /\ u.x \in Nat
  BY <1>1, CursorIsHere, Sizes DEF During, Ordered, Cols
<1> DEFINE l == u.lines[u.y]
           row == [u.text[l] EXCEPT ![u.x] = c]
           w == ChangedLine([u EXCEPT !.text[l] = row], u.y, u.x, u.x)
<1>4. l \in Lines /\ u.text \in [Lines -> [Cols -> Glyphs]]
  BY <1>3 DEF TermType
<1>5. row \in [Cols -> Glyphs]
  BY <1>3, <1>4 DEF Glyphs
<1>6. \A x \in Cols : x < u.x \/ u.x < x => row[x] = u.text[l][x]
  BY <1>3, <1>4, Sizes DEF Cols
<1>7. Touched(u, w)
  <2> HIDE DEF row
  <2> QED
    BY <1>3, <1>5, <1>6, RowTouched
<1>8. During(w, p, st)
  BY <1>1, <1>7, TouchedDuring
<1>9. Alike(w, n)
  <2>1. ~(u.y >= Height)
    BY <1>3, Sizes DEF Rows
  <2>2. m = [u EXCEPT !.dirty[u.y] = Widened(u.dirty[u.y], u.x, u.x)]
    BY <2>1 DEF ChangedLine
  <2>3. m \in TermType
    BY <1>3, ChangedLineTypes
  <2>4. m.text = u.text /\ m.lines = u.lines /\ m.x = u.x /\ m.y = u.y
    BY <1>3, <2>2 DEF TermType
  <2>5. w = [[u EXCEPT !.text[l] = row] EXCEPT !.dirty[u.y] = Widened(u.dirty[u.y], u.x, u.x)]
    BY <1>3, <2>1 DEF ChangedLine, TermType
  <2>6. n.text = [u.text EXCEPT ![l] = row] /\ n.dirty = m.dirty /\ n.x = u.x + 1
    BY <2>3, <2>4 DEF TermType
  <2>7. w \in TermType
    BY <1>7 DEF Touched
  <2>8. w.text = [u.text EXCEPT ![l] = row] /\ w.dirty = m.dirty
    <3> HIDE DEF row, l
    <3> DEFINE v == [u EXCEPT !.text[l] = row]
    <3>1. v.text = [u.text EXCEPT ![l] = row] /\ v.dirty = u.dirty
      BY <1>3 DEF TermType
    <3>2. v \in TermType
      <4>1. [u.text EXCEPT ![l] = row] \in [Lines -> [Cols -> Glyphs]]
        BY <1>4, <1>5
      <4> QED
        BY <1>3, <4>1 DEF TermType
    <3>3. w = [v EXCEPT !.dirty[u.y] = Widened(u.dirty[u.y], u.x, u.x)]
      BY <2>5
    <3>4. m.dirty = [u.dirty EXCEPT ![u.y] = Widened(u.dirty[u.y], u.x, u.x)]
      BY <1>3, <2>2 DEF TermType
    <3> HIDE DEF v, m, w
    <3> QED
      BY <3>1, <3>2, <3>3, <3>4 DEF TermType
  <2>9. [u.text EXCEPT ![l] = row] \in [Lines -> [Cols -> Glyphs]] /\ u.x + 1 \in 0 .. Width
    BY <1>3, <1>4, <1>5, Sizes DEF Cols
  <2>10. n = [m EXCEPT !.text = [u.text EXCEPT ![l] = row], !.x = u.x + 1]
    BY <2>3, <2>4 DEF TermType
  <2>11. n \in TermType
    <3> HIDE DEF row, n, m
    <3> QED
      BY <2>3, <2>9, <2>10 DEF TermType
  <2>12. /\ n.lines = w.lines
         /\ n.save = w.save /\ n.full = w.full /\ n.visual = w.visual
         /\ n.pending = w.pending /\ n.top = w.top /\ n.bot = w.bot
         /\ n.active = w.active /\ n.timer = w.timer /\ n.visible = w.visible
         /\ n.inverse = w.inverse
    <3>1. Touched(u, m)
      BY <1>3, ChangedLineTouched
    <3>2. /\ n.lines = m.lines
          /\ n.save = m.save /\ n.full = m.full /\ n.visual = m.visual
          /\ n.pending = m.pending /\ n.top = m.top /\ n.bot = m.bot
          /\ n.active = m.active /\ n.timer = m.timer /\ n.visible = m.visible
          /\ n.inverse = m.inverse
      <4> HIDE DEF row, m
      <4> QED
        BY <2>3, <2>10 DEF TermType
    <3> HIDE DEF n, m, w
    <3> QED
      BY <1>7, <3>1, <3>2 DEF Touched
  <2> QED
    BY <2>6, <2>8, <2>11, <2>12 DEF Alike
<1> QED
  BY <1>2, <1>8, <1>9, AlikeDuring

\* set_margins under margins that have nothing pending.
LEMMA NewMarginsDuring ==
  ASSUME NEW t, NEW p, NEW st, During(t, p, st), t.pending = 0, NEW top \in 0 .. Height, NEW bot \in Rows
  PROVE  During([t EXCEPT !.top = top, !.bot = bot], p, st)
<1> DEFINE u == [t EXCEPT !.top = top, !.bot = bot]
<1>0. t \in TermType /\ u \in TermType
  <2>1. t \in TermType
    BY CursorIsHere
  <2> QED
    BY <2>1 DEF TermType
<1>1. /\ u.text = t.text /\ u.lines = t.lines /\ u.dirty = t.dirty
      /\ u.save = t.save /\ u.full = t.full /\ u.visual = t.visual
      /\ u.pending = 0 /\ u.active = t.active /\ u.timer = t.timer
      /\ u.visible = t.visible /\ u.inverse = t.inverse
  BY <1>0 DEF TermType
<1> HIDE DEF u
<1>2. TotalHistory(u) = TotalHistory(t)
  BY <1>1 DEF TotalHistory
<1>3. Ordered(u)
  BY <1>0, <1>1, <1>2 DEF During, Ordered, Lined
<1>4. t.active => Runs(u)
  BY <1>1, <1>2 DEF During, Runs, CursorVisible
<1>5. ASSUME NEW y \in Rows, RowFollows(t, p, st, y)
      PROVE  RowFollows(u, p, st, y)
  <2>1. From(u, y) = y /\ From(t, y) = y
    BY <1>1, Sizes DEF From, Rows
  <2> QED
    BY <1>1, <1>5, <2>1 DEF RowFollows, IsDirty
<1>6. t.active => AllFollow(u, p, st)
  BY <1>5 DEF During, AllFollow
<1>7. During(u, p, st)
  BY <1>1, <1>2, <1>3, <1>4, <1>6 DEF During
<1> QED
  BY <1>7 DEF u

\* set_margins, which carries out what is pending under the old margins.
LEMMA SetMarginsDuring ==
  ASSUME NEW s \in ScreenType, NEW st, During(s.t, s.p, st), NEW top \in 0 .. Height, NEW bot \in Rows
  PROVE  SetMargins(s, top, bot) \in ScreenType
         /\ During(SetMargins(s, top, bot).t, SetMargins(s, top, bot).p, st)
<1> DEFINE u == IF s.t.pending # 0 THEN Update(s) ELSE s
           m == [u.t EXCEPT !.top = top, !.bot = bot]
           low == IF m.y < top THEN MoveCursor(m, m.x, top) ELSE m
           end == IF low.y > bot THEN MoveCursor(low, low.x, bot) ELSE low
<1>1. u \in ScreenType /\ During(u.t, u.p, st) /\ u.t.pending = 0
  BY UpdateIs DEF Refreshed
<1>2. SetMargins(s, top, bot) = [u EXCEPT !.t = end]
  <2>1. bot < Height
    BY Sizes DEF Rows
  <2> QED
    BY <2>1 DEF SetMargins
<1> HIDE DEF u
<1>3. During(m, u.p, st)
  BY <1>1, NewMarginsDuring
<1> HIDE DEF m
<1>4. top \in Nat /\ bot \in Nat
  BY Sizes DEF Rows
<1>5. During(low, u.p, st)
  BY <1>3, <1>4, CursorIsHere, MoveCursorDuring
<1> HIDE DEF low
<1>6. During(end, u.p, st)
  BY <1>4, <1>5, CursorIsHere, MoveCursorDuring
<1>7. end \in TermType
  BY <1>6, CursorIsHere
<1> HIDE DEF end
<1>8. SetMargins(s, top, bot) \in ScreenType /\ SetMargins(s, top, bot).t = end
      /\ SetMargins(s, top, bot).p = u.p
  BY <1>1, <1>2, <1>7 DEF ScreenType
<1> QED
  BY <1>6, <1>8

-----------------------------------------------------------------------------
\* The panel shows the view.
Shown(t, p) ==
  \A x \in Cols, y \in Rows : p.shown[y][x] = <<t.text[GetLine(t, y)][x], t.inverse>>

Unmarked(p, st) == st \/ p.mark = {}
Underlined(t, p, st) == st \/ \A c \in p.mark : CursorVisible(t) /\ c = <<t.x, t.y>>

\* A visible cursor is drawn where it stands, or nowhere.
Placed(t) ==
  CursorVisible(t) => (t.cx = t.x /\ t.cy = t.y) \/ t.cx >= Width \/ t.cy >= Height

Rests(t) == t.pending = 0 /\ \A y \in Rows : t.dirty[y] \in {Clean, Whole}

\* What holds between two reads, and before the cursor is drawn.
Between(t, p, st) ==
  /\ Ordered(t) /\ Rests(t) /\ Placed(t)
  /\ t.active => Runs(t) /\ Shown(t, p) /\ Underlined(t, p, st)
Fresh(t, p, st) ==
  /\ Ordered(t) /\ Rests(t)
  /\ t.active => Runs(t) /\ Shown(t, p) /\ Unmarked(p, st)

\* Nothing changes but what the cursor was last told.
TellsCursor(t, u) ==
  /\ u \in TermType
  /\ u.text = t.text /\ u.lines = t.lines /\ u.dirty = t.dirty
  /\ u.save = t.save /\ u.full = t.full /\ u.visual = t.visual
  /\ u.pending = t.pending /\ u.top = t.top /\ u.bot = t.bot /\ u.x = t.x /\ u.y = t.y
  /\ u.active = t.active /\ u.timer = t.timer /\ u.visible = t.visible /\ u.inverse = t.inverse

\* What the cursor was told changes nothing that is shown.
LEMMA ToldIs ==
  ASSUME NEW t, NEW u, TellsCursor(t, u)
  PROVE  /\ CursorVisible(u) = CursorVisible(t)
         /\ Ordered(t) => Ordered(u)
         /\ Rests(t) => Rests(u)
         /\ Runs(t) => Runs(u)
         /\ \A p : Shown(t, p) => Shown(u, p)
         /\ \A p, st : Underlined(t, p, st) => Underlined(u, p, st)
<1>1. TotalHistory(u) = TotalHistory(t)
  BY DEF TellsCursor, TotalHistory
<1>2. CursorVisible(u) = CursorVisible(t)
  BY <1>1 DEF TellsCursor, CursorVisible
<1>3. Ordered(t) => Ordered(u)
  BY <1>1 DEF TellsCursor, Ordered, Lined
<1>4. Rests(t) => Rests(u)
  BY DEF TellsCursor, Rests
<1>5. Runs(t) => Runs(u)
  BY <1>2 DEF TellsCursor, Runs
<1>6. \A y : GetLine(u, y) = GetLine(t, y)
  BY <1>1 DEF TellsCursor, GetLine
<1>7. \A p : Shown(t, p) => Shown(u, p)
  BY <1>6 DEF TellsCursor, Shown
<1>8. \A p, st : Underlined(t, p, st) => Underlined(u, p, st)
  BY <1>2 DEF TellsCursor, Underlined
<1> QED
  BY <1>2, <1>3, <1>4, <1>5, <1>7, <1>8

\* The underline is inverted where the cursor was last told to be.
LEMMA UpdateCursorIs ==
  ASSUME NEW s \in ScreenType
  PROVE  /\ UpdateCursor(s) \in ScreenType
         /\ TellsCursor(s.t, UpdateCursor(s).t)
         /\ UpdateCursor(s).t.cx = s.t.cx /\ UpdateCursor(s).t.cy = s.t.cy
         /\ UpdateCursor(s).p.shown = s.p.shown
         /\ ~s.t.active \/ s.t.cx >= Width \/ s.t.cy >= Height => UpdateCursor(s) = s
         /\ UpdateCursor(s).p.mark \in SUBSET (s.p.mark \union {<<s.t.cx, s.t.cy>>})
<1> DEFINE t == s.t
           on == ~t.showed
           mark == IF t.showed THEN s.p.mark \ {<<t.cx, t.cy>>} ELSE s.p.mark \union {<<t.cx, t.cy>>}
           u == [t EXCEPT !.showed = on]
           q == [s.p EXCEPT !.mark = mark]
<1>0. t \in TermType /\ s.p \in PanelType
  BY DEF ScreenType
<1>1. CASE ~t.active \/ t.cx >= Width \/ t.cy >= Height
  <2>1. UpdateCursor(s) = s
    BY <1>1 DEF UpdateCursor
  <2> QED
    BY <1>0, <2>1 DEF TellsCursor
<1>2. CASE ~(~t.active \/ t.cx >= Width \/ t.cy >= Height)
  <2>1. UpdateCursor(s) = [t |-> u, p |-> q]
    BY <1>2 DEF UpdateCursor
  <2>2. on \in BOOLEAN
    OBVIOUS
  <2>3. <<t.cx, t.cy>> \in Cols \X Rows
    <3>1. t.cx \in Nat /\ t.cy \in Nat
      BY <1>0 DEF TermType
    <3> QED
      BY <3>1, <1>2, Sizes DEF Cols, Rows
  <2>4. mark \in SUBSET (Cols \X Rows)
    BY <1>0, <2>3 DEF PanelType
  <2>5. mark \in SUBSET (s.p.mark \union {<<t.cx, t.cy>>})
    OBVIOUS
  <2> HIDE DEF on, mark
  <2>6. TellsCursor(t, u) /\ u.cx = t.cx /\ u.cy = t.cy
    BY <1>0, <2>2 DEF TermType, TellsCursor
  <2>7. q \in PanelType /\ q.shown = s.p.shown /\ q.mark = mark
    BY <1>0, <2>4 DEF PanelType
  <2> HIDE DEF u, q
  <2> QED
    BY <1>2, <2>1, <2>5, <2>6, <2>7 DEF ScreenType, TellsCursor
<1> QED
  BY <1>1, <1>2

\* A signal of the timer: only one that comes too late draws where no cursor is.
LEMMA UpdateCursorBetween ==
  ASSUME NEW s \in ScreenType, NEW st, Between(s.t, s.p, st)
  PROVE  Between(UpdateCursor(s).t, UpdateCursor(s).p, st \/ (s.t.active /\ ~s.t.timer))
<1> DEFINE t == s.t
           u == UpdateCursor(s).t
           q == UpdateCursor(s).p
           late == st \/ (t.active /\ ~t.timer)
<1>1. TellsCursor(t, u) /\ u.cx = t.cx /\ u.cy = t.cy /\ q.shown = s.p.shown
      /\ q.mark \in SUBSET (s.p.mark \union {<<t.cx, t.cy>>})
      /\ (~t.active \/ t.cx >= Width \/ t.cy >= Height => u = t /\ q = s.p)
  BY UpdateCursorIs
<1> HIDE DEF u, q
<1>2. Ordered(u) /\ Rests(u)
  BY <1>1, ToldIs DEF Between
<1>3. Placed(u)
  <2>1. CursorVisible(u) = CursorVisible(t) /\ u.x = t.x /\ u.y = t.y
    BY <1>1, ToldIs DEF TellsCursor
  <2> QED
    BY <1>1, <2>1 DEF Between, Placed
<1>4. ASSUME u.active
      PROVE  Runs(u) /\ Shown(u, q) /\ Underlined(u, q, late)
  <2>1. t.active /\ Runs(t) /\ Shown(t, s.p) /\ Underlined(t, s.p, st)
    BY <1>1, <1>4 DEF TellsCursor, Between
  <2>2. Shown(t, q)
    BY <1>1, <2>1 DEF Shown
  <2>3. Underlined(t, q, late)
    <3> SUFFICES ASSUME ~late, NEW c \in q.mark
                 PROVE  CursorVisible(t) /\ c = <<t.x, t.y>>
      BY DEF Underlined
    <3>1. ~st /\ CursorVisible(t)
      BY <2>1 DEF Runs
    <3>2. CASE c \in s.p.mark
      BY <2>1, <3>1, <3>2 DEF Underlined
    <3>3. CASE c \notin s.p.mark
      <4>1. c = <<t.cx, t.cy>> /\ ~(t.cx >= Width \/ t.cy >= Height)
        BY <1>1, <3>3
      <4> QED
        BY <3>1, <4>1 DEF Between, Placed
    <3> QED
      BY <3>2, <3>3
  <2> QED
    BY <1>1, <2>1, <2>2, <2>3, ToldIs
<1> QED
  BY <1>2, <1>3, <1>4 DEF Between, u, q

\* A panel without an underline gets that of the visible cursor.
LEMMA DrawCursorBetween ==
  ASSUME NEW s \in ScreenType, NEW st, Fresh(s.t, s.p, st)
  PROVE  /\ DrawCursor(s) \in ScreenType
         /\ TellsCursor(s.t, DrawCursor(s).t)
         /\ Between(DrawCursor(s).t, DrawCursor(s).p, st)
<1> DEFINE t == s.t
<1>0. t \in TermType /\ s.p \in PanelType
  BY DEF ScreenType
<1>1. CASE ~CursorVisible(t)
  <2>1. DrawCursor(s) = s /\ TellsCursor(t, t)
    BY <1>0, <1>1 DEF DrawCursor, TellsCursor
  <2>2. Placed(t)
    BY <1>1 DEF Placed
  <2>3. \A p : Unmarked(p, st) => Underlined(t, p, st)
    BY DEF Unmarked, Underlined
  <2> QED
    BY <2>1, <2>2, <2>3 DEF Fresh, Between
<1>2. CASE CursorVisible(t)
  <2> DEFINE off == FALSE
             v == [t EXCEPT !.cx = t.x, !.cy = t.y, !.showed = off]
             w == [t |-> v, p |-> s.p]
             u == UpdateCursor(w).t
             q == UpdateCursor(w).p
  <2>1. off \in BOOLEAN /\ t.x \in Nat /\ t.y \in Nat
    BY <1>0, Sizes, SMTT(30) DEF TermType, Rows
  <2>2. DrawCursor(s) = UpdateCursor(w)
    <3>1. [s EXCEPT !.t = v] = w
      BY DEF ScreenType
    <3> QED
      BY <1>2, <3>1 DEF DrawCursor
  <2> HIDE DEF off
  <2>3. TellsCursor(t, v) /\ v.cx = t.x /\ v.cy = t.y
    BY <1>0, <2>1 DEF TermType, TellsCursor
  <2> HIDE DEF v
  <2>4. w \in ScreenType /\ w.t = v /\ w.p = s.p
    BY <1>0, <2>3 DEF ScreenType, TellsCursor
  <2> HIDE DEF w
  <2>5. TellsCursor(v, u) /\ u.cx = v.cx /\ u.cy = v.cy /\ q.shown = s.p.shown
        /\ q.mark \in SUBSET (s.p.mark \union {<<v.cx, v.cy>>}) /\ UpdateCursor(w) \in ScreenType
    BY <2>4, UpdateCursorIs
  <2> HIDE DEF u, q
  <2>6. TellsCursor(t, u)
    BY <2>3, <2>5 DEF TellsCursor
  <2>7. Ordered(u) /\ Rests(u)
    BY <2>6, ToldIs DEF Fresh
  <2>8. Placed(u)
    BY <2>3, <2>5, <2>6 DEF Placed, TellsCursor
  <2>9. ASSUME u.active
        PROVE  Runs(u) /\ Shown(u, q) /\ Underlined(u, q, st)
    <3>1. Runs(t) /\ Shown(t, s.p) /\ Unmarked(s.p, st)
      BY <2>6, <2>9 DEF TellsCursor, Fresh
    <3>2. Shown(t, q)
      BY <2>5, <3>1 DEF Shown
    <3>3. Underlined(t, q, st)
      BY <1>2, <2>3, <2>5, <3>1 DEF Underlined, Unmarked
    <3> QED
      BY <2>6, <3>1, <3>2, <3>3, ToldIs
  <2> QED
    BY <2>2, <2>5, <2>6, <2>7, <2>8, <2>9 DEF Between, u, q
<1> QED
  BY <1>1, <1>2

\* All of the screen is painted.
LEMMA PaintAllIs ==
  ASSUME NEW t, Ordered(t), NEW p \in PanelType
  PROVE  /\ Paint(t, p, Cols \X Rows) \in PanelType
         /\ t.active => /\ Shown(t, Paint(t, p, Cols \X Rows))
                        /\ Paint(t, p, Cols \X Rows).mark = {}
<1> DEFINE S == Cols \X Rows
           q == Paint(t, p, S)
<1>1. S \in SUBSET (Cols \X Rows) /\ \A x \in Cols, y \in Rows : <<x, y>> \in S
  OBVIOUS
<1> HIDE DEF S
<1>2. q \in PanelType
  BY <1>1, PaintIs
<1>3. ASSUME t.active
      PROVE  Shown(t, q) /\ q.mark = {}
  <2>1. \A x \in Cols, y \in Rows :
          /\ q.shown[y][x] = <<t.text[GetLine(t, y)][x], t.inverse>>
          /\ <<x, y>> \notin q.mark
    BY <1>1, <1>3, PaintIs, ZenonT(60)
  <2>2. q.mark = {}
    <3>1. q.mark \in SUBSET (Cols \X Rows)
      BY <1>2 DEF PanelType
    <3> HIDE DEF q
    <3> QED
      BY <2>1, <3>1
  <2> QED
    BY <2>1, <2>2 DEF Shown
<1> QED
  BY <1>2, <1>3 DEF S

\* A panel drawn over is painted anew, with the cursor where it stands or not at all.
LEMMA ExposeBetween ==
  ASSUME NEW s \in ScreenType, NEW st, Ordered(s.t), Rests(s.t), Placed(s.t), s.t.active, Runs(s.t)
  PROVE  /\ Expose(s) \in ScreenType
         /\ Between(Expose(s).t, Expose(s).p, st)
<1> DEFINE t == s.t
           q == Paint(t, s.p, Cols \X Rows)
           painted == [s EXCEPT !.p = q]
<1>0. t \in TermType /\ s.p \in PanelType
  BY DEF ScreenType
<1>1. q \in PanelType /\ Shown(t, q) /\ q.mark = {}
  BY <1>0, PaintAllIs
<1> HIDE DEF q
<1>2. painted \in ScreenType /\ painted.t = t /\ painted.p = q
  BY <1>1 DEF ScreenType
<1>3. CASE ~(CursorVisible(t) /\ t.cx < Width /\ t.cy < Height)
  <2>1. Expose(s) = painted
    BY <1>3 DEF Expose, q
  <2>2. Underlined(t, q, st)
    BY <1>1 DEF Underlined
  <2> QED
    BY <1>1, <1>2, <2>1, <2>2 DEF Between
<1>4. CASE CursorVisible(t) /\ t.cx < Width /\ t.cy < Height
  <2> DEFINE off == FALSE
             v == [t EXCEPT !.showed = off]
             w == [painted EXCEPT !.t.showed = FALSE]
             u == UpdateCursor(w).t
             z == UpdateCursor(w).p
  <2>1. Expose(s) = UpdateCursor(w)
    BY <1>4 DEF Expose, q
  <2>2. w = [painted EXCEPT !.t = v]
    BY <1>2 DEF ScreenType
  <2>3. off \in BOOLEAN
    OBVIOUS
  <2> HIDE DEF off, painted
  <2>4. TellsCursor(t, v) /\ v.cx = t.cx /\ v.cy = t.cy
    BY <1>0, <2>3 DEF TermType, TellsCursor
  <2> HIDE DEF v
  <2>5. w \in ScreenType /\ w.t = v /\ w.p = q
    BY <1>2, <2>2, <2>4 DEF ScreenType, TellsCursor
  <2> HIDE DEF w
  <2>6. TellsCursor(v, u) /\ u.cx = v.cx /\ u.cy = v.cy /\ z.shown = q.shown
        /\ z.mark \in SUBSET (q.mark \union {<<v.cx, v.cy>>}) /\ UpdateCursor(w) \in ScreenType
    BY <2>5, UpdateCursorIs
  <2> HIDE DEF u, z
  <2>7. TellsCursor(t, u)
    BY <2>4, <2>6 DEF TellsCursor
  <2>8. t.cx = t.x /\ t.cy = t.y
    <3>1. t.cx \in Nat /\ t.cy \in Nat
      BY <1>0 DEF TermType
    <3> QED
      BY <1>4, <3>1, Sizes DEF Placed
  <2>9. Ordered(u) /\ Rests(u) /\ Runs(u)
    BY <2>7, ToldIs
  <2>10. Placed(u)
    BY <2>4, <2>6, <2>7, <2>8 DEF Placed, TellsCursor
  <2>11. Shown(t, z)
    BY <1>1, <2>6 DEF Shown
  <2>12. Underlined(t, z, st)
    BY <1>1, <1>4, <2>4, <2>6, <2>8 DEF Underlined
  <2>13. Shown(u, z) /\ Underlined(u, z, st)
    BY <2>7, <2>11, <2>12, ToldIs
  <2> QED
    BY <2>1, <2>6, <2>9, <2>10, <2>13 DEF Between, u, z
<1> QED
  BY <1>3, <1>4

\* A shell comes to the panel.
LEMMA ActivatedBetween ==
  ASSUME NEW s \in ScreenType, NEW st, Ordered(s.t), Rests(s.t), Placed(s.t)
  PROVE  /\ Activated(s) \in ScreenType
         /\ Between(Activated(s).t, Activated(s).p, st)
<1> DEFINE t == s.t
           on == TRUE
           v == [t EXCEPT !.active = on]
           u == ModeChanged(v)
           w == [s EXCEPT !.t = u]
<1>0. t \in TermType /\ s.p \in PanelType /\ on \in BOOLEAN
  BY DEF ScreenType
<1>1. Activated(s) = Expose(w)
  <2>1. [s.t EXCEPT !.active = TRUE] = v
    OBVIOUS
  <2> QED
    BY <2>1 DEF Activated
<1>9. on
  OBVIOUS
<1> HIDE DEF on
<1>2. v \in TermType /\ v.active = on
      /\ v.text = t.text /\ v.lines = t.lines /\ v.dirty = t.dirty
      /\ v.save = t.save /\ v.full = t.full /\ v.visual = t.visual
      /\ v.pending = t.pending /\ v.x = t.x /\ v.y = t.y
      /\ v.cx = t.cx /\ v.cy = t.cy /\ v.visible = t.visible
  BY <1>0 DEF TermType
<1> HIDE DEF v
<1>3. u \in TermType /\ u = [v EXCEPT !.timer = IF v.active THEN CursorVisible(v) ELSE @]
  BY <1>2, ModeChangedIs
<1>4. u.active = on /\ u.timer = (IF on THEN CursorVisible(v) ELSE v.timer)
      /\ u.text = t.text /\ u.lines = t.lines /\ u.dirty = t.dirty
      /\ u.save = t.save /\ u.full = t.full /\ u.visual = t.visual
      /\ u.pending = t.pending /\ u.x = t.x /\ u.y = t.y
      /\ u.cx = t.cx /\ u.cy = t.cy /\ u.visible = t.visible
  BY <1>2, <1>3 DEF TermType
<1> HIDE DEF u
<1>5. TotalHistory(u) = TotalHistory(t) /\ TotalHistory(v) = TotalHistory(t)
  BY <1>2, <1>4 DEF TotalHistory
<1>6. CursorVisible(u) = CursorVisible(t) /\ CursorVisible(v) = CursorVisible(t)
  BY <1>2, <1>4, <1>5 DEF CursorVisible
<1>7. Ordered(u) /\ Rests(u) /\ Placed(u) /\ u.active /\ Runs(u)
  <2>1. Ordered(u)
    BY <1>3, <1>4, <1>5 DEF Ordered, Lined
  <2>2. Rests(u) /\ Placed(u)
    BY <1>4, <1>6 DEF Rests, Placed
  <2>3. u.active
    BY <1>4, <1>9
  <2>4. Runs(u)
    BY <1>4, <1>6, <1>9 DEF Runs
  <2> QED
    BY <2>1, <2>2, <2>3, <2>4
<1>8. w \in ScreenType /\ w.t = u
  BY <1>3 DEF ScreenType
<1> HIDE DEF w
<1> QED
  BY <1>1, <1>7, <1>8, ExposeBetween

\* The view is moved, by a reader or by input() to the end.
LEMMA HistoryDisplayBetween ==
  ASSUME NEW s \in ScreenType, NEW st, Between(s.t, s.p, st), NEW v \in Int
  PROVE  /\ HistoryDisplay(s, v) \in ScreenType
         /\ Between(HistoryDisplay(s, v).t, HistoryDisplay(s, v).p, st)
         /\ v = TotalHistory(s.t) =>
              HistoryDisplay(s, v).t.visual = TotalHistory(HistoryDisplay(s, v).t)
<1> DEFINE t == s.t
           to == Most(0, Least(v, TotalHistory(t)))
           m == [t EXCEPT !.visual = to]
           u == ModeChanged(m)
           q == Paint(u, s.p, Cols \X Rows)
           w == [t |-> u, p |-> q]
<1>0. t \in TermType /\ s.p \in PanelType /\ Ordered(t)
  BY DEF ScreenType, Between
<1>1. /\ TotalHistory(t) \in Nat /\ to \in Nat /\ to <= TotalHistory(t)
      /\ v = TotalHistory(t) => to = TotalHistory(t)
  <2>1. TotalHistory(t) \in Nat
    BY <1>0, HistoryFits, Sizes
  <2> QED
    BY <2>1 DEF Most, Least
<1>2. CASE HistoryLines = 0 \/ to = t.visual
  <2>1. HistoryDisplay(s, v) = s
    BY <1>2 DEF HistoryDisplay
  <2>2. v = TotalHistory(t) => t.visual = TotalHistory(t)
    <3>1. HistoryLines = 0 => TotalHistory(t) = 0 /\ t.visual \in 0 .. TotalHistory(t)
      BY <1>0, HistoryFits DEF Ordered
    <3> QED
      BY <1>1, <1>2, <3>1
  <2> QED
    BY <2>1, <2>2
<1>3. CASE ~(HistoryLines = 0 \/ to = t.visual)
  <2>1. HistoryDisplay(s, v) = DrawCursor(w)
    BY <1>3 DEF HistoryDisplay
  <2> HIDE DEF to
  <2>2. m \in TermType /\ m.visual = to
        /\ m.text = t.text /\ m.lines = t.lines /\ m.dirty = t.dirty
        /\ m.save = t.save /\ m.full = t.full /\ m.pending = t.pending
        /\ m.active = t.active /\ m.timer = t.timer
    BY <1>0, <1>1 DEF TermType
  <2> HIDE DEF m
  <2>3. u \in TermType /\ u = [m EXCEPT !.timer = IF m.active THEN CursorVisible(m) ELSE @]
    BY <2>2, ModeChangedIs
  <2>4. /\ u.visual = to
        /\ u.text = t.text /\ u.lines = t.lines /\ u.dirty = t.dirty
        /\ u.save = t.save /\ u.full = t.full /\ u.pending = t.pending
        /\ u.active = t.active /\ u.visible = m.visible
        /\ u.timer = (IF m.active THEN CursorVisible(m) ELSE m.timer)
    BY <2>2, <2>3 DEF TermType
  <2> HIDE DEF u
  <2>5. TotalHistory(u) = TotalHistory(t) /\ TotalHistory(m) = TotalHistory(t)
    BY <2>2, <2>4 DEF TotalHistory
  <2>6. Ordered(u)
    BY <1>0, <1>1, <2>3, <2>4, <2>5 DEF Ordered, Lined
  <2>7. Rests(u)
    BY <2>4 DEF Between, Rests
  <2>8. u.active => Runs(u)
    BY <2>2, <2>4, <2>5 DEF Runs, CursorVisible
  <2>9. q \in PanelType /\ (u.active => Shown(u, q) /\ q.mark = {})
    BY <1>0, <2>6, PaintAllIs
  <2> HIDE DEF q
  <2>10. w \in ScreenType /\ w.t = u /\ w.p = q
    BY <2>3, <2>9 DEF ScreenType
  <2>11. Fresh(w.t, w.p, st)
    BY <2>6, <2>7, <2>8, <2>9, <2>10 DEF Fresh, Unmarked
  <2> HIDE DEF w
  <2>12. /\ DrawCursor(w) \in ScreenType /\ TellsCursor(w.t, DrawCursor(w).t)
         /\ Between(DrawCursor(w).t, DrawCursor(w).p, st)
    BY <2>10, <2>11, DrawCursorBetween
  <2>13. TotalHistory(DrawCursor(w).t) = TotalHistory(t) /\ DrawCursor(w).t.visual = to
    BY <2>4, <2>5, <2>10, <2>12 DEF TellsCursor, TotalHistory
  <2> QED
    BY <1>1, <2>1, <2>12, <2>13
<1> QED
  BY <1>2, <1>3

\* A read begins: the cell of the cursor is to be painted.
LEMMA BeginsDuring ==
  ASSUME NEW s \in ScreenType, NEW st, Between(s.t, s.p, st), s.t.visual = TotalHistory(s.t)
  PROVE  During(IF CursorVisible(s.t) THEN ChangedLine(s.t, s.t.y, s.t.x, s.t.x) ELSE s.t, s.p, st)
<1> DEFINE t == s.t
           u == IF CursorVisible(t) THEN ChangedLine(t, t.y, t.x, t.x) ELSE t
<1>0. t \in TermType /\ s.p \in PanelType /\ Ordered(t)
  BY DEF ScreenType, Between
<1>1. t.x \in Nat /\ t.x <= Width /\ t.y \in Rows
  BY <1>0, Sizes DEF TermType
<1>2. Touched(t, u)
  <2>1. CASE CursorVisible(t)
    BY <1>0, <1>1, <2>1, ChangedLineTouched
  <2>2. CASE ~CursorVisible(t)
    <3>1. Touched(t, t)
      BY <1>0 DEF Touched, Grazes
    <3> QED
      BY <2>2, <3>1
  <2> QED
    BY <2>1, <2>2
<1>3. u.text = t.text /\ \A y \in Rows : t.dirty[y] # Whole => From(u, y) = y
  <2>1. u.text = t.text
    BY <1>0 DEF ChangedLine, TermType
  <2>2. u.pending = 0
    BY <1>2 DEF Touched, Between, Rests
  <2>3. \A y \in Rows : From(u, y) = y
    BY <2>2, Sizes DEF From, Rows
  <2> QED
    BY <2>1, <2>3
<1>4. CursorVisible(t) => \A x \in Cols : x = t.x => IsDirty(u, x, t.y)
  <2> SUFFICES ASSUME CursorVisible(t), NEW x \in Cols, x = t.x
               PROVE  IsDirty(u, x, t.y)
    OBVIOUS
  <2>1. u.dirty[t.y] = Widened(t.dirty[t.y], x, x) /\ t.dirty[t.y] \in Extent
    <3>1. u = [t EXCEPT !.dirty[t.y] = Widened(t.dirty[t.y], x, x)]
      BY <1>1, Sizes DEF ChangedLine, Rows
    <3>2. t.dirty \in [Rows -> Extent]
      BY <1>0 DEF TermType
    <3> QED
      BY <1>0, <1>1, <3>1, <3>2 DEF TermType
  <2>2. x \in Nat /\ x <= x
    BY Sizes DEF Cols
  <2> QED
    BY <2>1, <2>2, WidenedIs DEF IsDirty
<1> HIDE DEF u
<1>5. TotalHistory(u) = TotalHistory(t) /\ u.visual = t.visual /\ u.active = t.active
      /\ u.lines = t.lines /\ u.inverse = t.inverse
  BY <1>2 DEF Touched, TotalHistory
<1>6. Ordered(u)
  BY <1>0, <1>2, <1>5 DEF Touched, Ordered, Lined
<1>7. Runs(t) => Runs(u)
  BY <1>2, <1>5 DEF Touched, Runs, CursorVisible
<1>8. ASSUME t.active, NEW y \in Rows
      PROVE  RowFollows(u, s.p, st, y)
  <2>1. CASE u.dirty[y] = Whole
    BY <2>1 DEF RowFollows
  <2>2. CASE u.dirty[y] # Whole
    <3>1. t.dirty[y] # Whole /\ Grazes(t, u, y)
      BY <1>2, <2>2 DEF Touched, Grazes
    <3>2. From(u, y) = y
      BY <1>3, <3>1
    <3>3. ASSUME NEW x \in Cols, ~IsDirty(u, x, y)
          PROVE  /\ s.p.shown[y][x] = <<u.text[u.lines[y]][x], u.inverse>>
                 /\ ~IsMarked(s.p, st, x, y)
      <4>1. s.p.shown[y][x] = <<t.text[GetLine(t, y)][x], t.inverse>>
        BY <1>8 DEF Between, Shown
      <4>2. GetLine(t, y) = t.lines[y]
        BY <1>0, GetLineIs
      <4>3. ~IsMarked(s.p, st, x, y)
        <5>1. Underlined(t, s.p, st)
          BY <1>8 DEF Between
        <5> QED
          BY <1>4, <3>3, <5>1 DEF Underlined, IsMarked
      <4> QED
        BY <1>3, <1>5, <4>1, <4>2, <4>3
    <3> QED
      BY <3>2, <3>3 DEF RowFollows
  <2> QED
    BY <2>1, <2>2
<1>9. t.active => AllFollow(u, s.p, st)
  BY <1>8 DEF AllFollow
<1>10. During(u, s.p, st)
  BY <1>5, <1>6, <1>7, <1>9 DEF During, Between
<1> QED
  BY <1>10 DEF u

\* A read ends: the panel is brought up to date and the cursor drawn.
LEMMA EndsBetween ==
  ASSUME NEW s \in ScreenType, NEW st, During(s.t, s.p, st)
  PROVE  /\ DrawCursor(Update(s)) \in ScreenType
         /\ Between(DrawCursor(Update(s)).t, DrawCursor(Update(s)).p, st)
<1> DEFINE u == Update(s)
<1>1. u \in ScreenType /\ Refreshed(s.t, u.t) /\ During(u.t, u.p, st)
  BY UpdateIs
<1> HIDE DEF u
<1>2. Ordered(u.t) /\ Rests(u.t)
  BY <1>1 DEF Refreshed, During, Rests
<1>3. ASSUME u.t.active
      PROVE  Runs(u.t) /\ Shown(u.t, u.p) /\ Unmarked(u.p, st)
  <2>1. Faithful(u.t, u.p, st) /\ Runs(u.t)
    BY <1>1, <1>3, FaithfulIs DEF Refreshed, During
  <2>2. Shown(u.t, u.p)
    <3>1. \A y \in Rows : GetLine(u.t, y) = u.t.lines[y]
      BY <1>1, <1>2, GetLineIs DEF During
    <3> QED
      BY <2>1, <3>1 DEF Faithful, Shown
  <2>3. Unmarked(u.p, st)
    <3>1. u.p.mark \in SUBSET (Cols \X Rows)
      BY <1>1 DEF ScreenType, PanelType
    <3> QED
      BY <2>1, <3>1 DEF Faithful, IsMarked, Unmarked
  <2> QED
    BY <2>1, <2>2, <2>3
<1>4. Fresh(u.t, u.p, st)
  BY <1>2, <1>3 DEF Fresh
<1> QED
  BY <1>1, <1>4, DrawCursorBetween DEF u

-----------------------------------------------------------------------------
VInv ==
  /\ vt \in TermType /\ panel \in PanelType
  /\ reading \in Nat \union {-1} /\ stray \in BOOLEAN
  /\ IF reading = -1 THEN Between(vt, panel, stray) ELSE During(vt, panel, stray)

\* The terminal and its panel.
LEMMA ScreenIs ==
  ASSUME VInv
  PROVE  Screen \in ScreenType /\ Screen.t = vt /\ Screen.p = panel
BY DEF VInv, Screen, ScreenType

\* A new shell: every row has a line, and is dirty until the first read.
LEMMA ShellIs ==
  ASSUME Numbered
  PROVE
  /\ NewShell.t \in TermType /\ NewShell.p = Other
  /\ NewShell.t.save = 0 /\ NewShell.t.full = FALSE /\ NewShell.t.visual = 0
  /\ NewShell.t.active = FALSE /\ NewShell.t.pending = 0
  /\ NewShell.t.cx = U16 - 1
  /\ \A y \in Rows : NewShell.t.lines[y] = HistoryLines + y /\ NewShell.t.dirty[y] = Whole
  /\ \A l \in Lines : NewShell.t.text[l] = BlankRow
<1> DEFINE A == [save |-> 0, full |-> FALSE, visual |-> 0,
                 active |-> FALSE, timer |-> FALSE, cx |-> U16 - 1, cy |-> U16 - 1, showed |-> FALSE]
           t == Over(Defaults, Over(FirstResize, A))
<1>1. NewShell.t = t /\ NewShell.p = Other
  BY DEF NewShell
<1>2. DOMAIN A = {"save", "full", "visual", "active", "timer", "cx", "cy", "showed"}
      /\ A.save = 0 /\ A.full = FALSE /\ A.visual = 0
      /\ A.active = FALSE /\ A.timer = FALSE /\ A.cx = U16 - 1 /\ A.cy = U16 - 1
      /\ A.showed = FALSE
  OBVIOUS
<1>3. DOMAIN FirstResize = {"text", "lines", "dirty"}
      /\ FirstResize.text \in [Lines -> [Cols -> Glyphs]]
      /\ FirstResize.lines \in [Rows -> Lines]
      /\ FirstResize.dirty \in [Rows -> Extent]
      /\ \A y \in Rows : FirstResize.lines[y] = HistoryLines + y /\ FirstResize.dirty[y] = Whole
  <2>1. DOMAIN FirstResize = {"text", "lines", "dirty"}
        /\ FirstResize.text = [l \in 0 .. HistoryLines + Height - 1 |-> BlankRow]
        /\ FirstResize.lines = [y \in Rows |-> (HistoryLines + y) % U16]
        /\ FirstResize.dirty = [y \in Rows |-> Whole]
    BY DEF FirstResize
  <2>2. BlankRow \in [Cols -> Glyphs]
    BY DEF BlankRow, Glyphs
  <2>3. FirstResize.text \in [Lines -> [Cols -> Glyphs]]
    BY <2>1, <2>2 DEF Lines
  <2>4. ASSUME NEW y \in Rows
        PROVE  HistoryLines + y \in Lines /\ (HistoryLines + y) % U16 = HistoryLines + y
    <3>1. HistoryLines + y \in Nat /\ HistoryLines + y \in Lines /\ HistoryLines + y < U16
      BY Sizes, U16Is DEF Rows, Lines, Numbered
    <3> QED
      BY <3>1, SmallIs
  <2>5. Whole \in Extent
    BY Sizes DEF Whole, Extent
  <2> QED
    BY <2>1, <2>3, <2>4, <2>5
<1>11. \A l \in Lines : FirstResize.text[l] = BlankRow
  BY DEF FirstResize, Lines
<1> HIDE DEF A
<1>4. DOMAIN t = DOMAIN A \union DOMAIN FirstResize \union DOMAIN Defaults
  BY DEF Over
<1>5. /\ t.save = 0 /\ t.full = FALSE /\ t.visual = 0
      /\ t.active = FALSE /\ t.timer = FALSE /\ t.cx = U16 - 1 /\ t.cy = U16 - 1
      /\ t.showed = FALSE
  BY <1>2, <1>3, DefaultsAre DEF Over
<1>6. t.text = FirstResize.text /\ t.lines = FirstResize.lines /\ t.dirty = FirstResize.dirty
  BY <1>2, <1>3, DefaultsAre DEF Over
<1>7. /\ t.pending = Defaults.pending /\ t.top = Defaults.top /\ t.bot = Defaults.bot
      /\ t.x = Defaults.x /\ t.y = Defaults.y /\ t.sx = Defaults.sx /\ t.sy = Defaults.sy
      /\ t.wrap = Defaults.wrap /\ t.crlf = Defaults.crlf /\ t.relative = Defaults.relative
      /\ t.inverse = Defaults.inverse /\ t.visible = Defaults.visible /\ t.stops = Defaults.stops
  BY <1>2, <1>3, DefaultsAre DEF Over
<1>8. 0 \in Int /\ 0 \in Nat /\ 0 \in Rows /\ Height - 1 \in Rows /\ 0 \in 0 .. Width
      /\ 0 \in 0 .. Height /\ {} \in SUBSET Nat /\ U16 - 1 \in Nat
  BY Sizes, U16Is DEF Rows
<1>10. t = [k \in DOMAIN t |-> t[k]]
  BY DEF Over
<1> HIDE DEF t
<1>9. t \in TermType
  <2>2. DOMAIN t = {"text", "lines", "dirty", "save", "full", "visual", "pending", "top", "bot",
                    "x", "y", "sx", "sy", "cx", "cy", "active", "timer", "showed", "wrap", "crlf",
                    "relative", "inverse", "visible", "stops"}
    BY <1>2, <1>3, <1>4, DefaultsAre
  <2>3. /\ t.text \in [Lines -> [Cols -> Glyphs]] /\ t.lines \in [Rows -> Lines]
        /\ t.dirty \in [Rows -> Extent]
    BY <1>3, <1>6
  <2>4. /\ t.save \in Nat /\ t.full \in BOOLEAN /\ t.visual \in Nat
        /\ t.cx \in Nat /\ t.cy \in Nat /\ t.active \in BOOLEAN /\ t.timer \in BOOLEAN
        /\ t.showed \in BOOLEAN
    BY <1>5, <1>8
  <2>5. /\ t.pending \in Int /\ t.top \in 0 .. Height /\ t.bot \in Rows /\ t.x \in 0 .. Width
        /\ t.y \in Rows /\ t.sx \in 0 .. Width /\ t.sy \in Rows /\ t.stops \in SUBSET Nat
    BY <1>7, <1>8, DefaultsAre
  <2>6. /\ t.wrap \in BOOLEAN /\ t.crlf \in BOOLEAN /\ t.relative \in BOOLEAN
        /\ t.inverse \in BOOLEAN /\ t.visible \in BOOLEAN
    BY <1>7, DefaultsAre
  <2> QED
    BY <1>10, <2>2, <2>3, <2>4, <2>5, <2>6 DEF TermType
<1> QED
  BY <1>1, <1>3, <1>5, <1>6, <1>7, <1>9, <1>11, DefaultsAre

\* What another shell shows.
LEMMA OtherIs ==
  Other \in PanelType
<1> DEFINE shown == [y \in Rows |-> [x \in Cols |-> <<"other", FALSE>>]]
<1>1. <<"other", FALSE>> \in (Glyphs \union {"other"}) \X BOOLEAN
  OBVIOUS
<1>2. shown \in [Rows -> [Cols -> (Glyphs \union {"other"}) \X BOOLEAN]]
  BY <1>1
<1>3. {} \in SUBSET (Cols \X Rows)
  OBVIOUS
<1> QED
  BY <1>2, <1>3 DEF Other, PanelType

\* A new shell, on the panel or not, satisfies the invariant.
LEMMA VInit ==
  Numbered /\ Init => VInv
<1> SUFFICES ASSUME Numbered, Init
             PROVE  VInv
  OBVIOUS
<1> DEFINE t == NewShell.t
<1>1. /\ NewShell \in ScreenType /\ t \in TermType /\ NewShell.p = Other
  <2>1. NewShell = [t |-> NewShell.t, p |-> NewShell.p]
    BY DEF NewShell
  <2> QED
    BY <2>1, ShellIs, OtherIs DEF ScreenType
<1>2. TotalHistory(t) = 0
  BY ShellIs DEF TotalHistory
<1>3. Lined(t)
  <2>1. \A l \in Lines : l >= HistoryLines => l - HistoryLines \in Rows /\ HistoryLines + (l - HistoryLines) = l
    BY Sizes DEF Lines, Rows
  <2>2. \A l \in Lines : l >= HistoryLines => \E y \in Rows : t.lines[y] = l
    BY <2>1, ShellIs
  <2>3. \A y \in Rows : t.lines[y] = HistoryLines + y
    BY ShellIs
  <2>4. \A y \in Rows : t.lines[y] >= HistoryLines
    BY <2>3, Sizes DEF Rows
  <2>5. \A y, z \in Rows : t.lines[y] = t.lines[z] => y = z
    BY <2>3, Sizes DEF Rows
  <2> QED
    BY <2>2, <2>4, <2>5 DEF Lined
<1>4. Ordered(t)
  <2>1. 0 \in 0 .. Most(0, HistoryLines - 1) /\ 0 \in 0 .. 0
    BY Sizes DEF Most
  <2> QED
    BY <1>1, <1>2, <1>3, <2>1, ShellIs DEF Ordered
<1>5. Rests(t)
  BY ShellIs DEF Rests
<1>6. Placed(t)
  <2>1. U16 - 1 >= Width
    BY ScreenAssumption, U16Is, Sizes
  <2> QED
    BY <2>1, ShellIs DEF Placed
<1>7. Between(t, Other, stray)
  BY <1>4, <1>5, <1>6, ShellIs DEF Between
<1>8. /\ Activated(NewShell) \in ScreenType
      /\ Between(Activated(NewShell).t, Activated(NewShell).p, stray)
  BY <1>1, <1>4, <1>5, <1>6, ActivatedBetween
<1>9. PICK s \in {NewShell, Activated(NewShell)} : vt = s.t /\ panel = s.p
  BY DEF Init
<1>10. reading = -1 /\ stray = FALSE
  BY DEF Init
<1>11. s \in ScreenType /\ Between(s.t, s.p, stray)
  BY <1>1, <1>7, <1>8
<1> QED
  BY <1>9, <1>10, <1>11 DEF VInv, ScreenType

\* A function of a read.
LEMMA PerformedKeeps ==
  ASSUME VInv, NEW name, NEW u, Does(name, To(u)),
         During(vt, panel, stray) => During(u, panel, stray)
  PROVE  VInv'
<1>1. reading \in Nat /\ reading # -1
  BY DEF Does, VInv
<1>2. Screen \in ScreenType /\ Screen.t = vt /\ Screen.p = panel
  BY ScreenIs
<1>3. During(u, panel, stray)
  BY <1>1 DEF VInv
<1>4. u \in TermType
  BY <1>3, CursorIsHere
<1>5. To(u).t = u /\ To(u).p = panel
  BY <1>2 DEF To, ScreenType
<1>6. vt' = u /\ panel' = panel /\ reading' = reading + 1 /\ stray' = stray
  BY <1>5 DEF Does, Becomes
<1>7. reading' \in Nat \union {-1} /\ reading' # -1
  BY <1>1, <1>6
<1> QED
  BY <1>3, <1>4, <1>6, <1>7 DEF VInv

\* The functions that print.
LEMMA PrintingKeeps ==
  ASSUME VInv, Printing
  PROVE  VInv'
<1>1. ASSUME NEW c \in Chars, Does("print", To(DoNormalChar(vt, c)))
      PROVE  VInv'
  BY <1>1, DoNormalCharDuring, PerformedKeeps
<1>2. CASE Does("lf", To(Lf(vt)))
  BY <1>2, LfDuring, PerformedKeeps
<1>3. CASE Does("cr", To(Cr(vt)))
  BY <1>3, CrDuring, PerformedKeeps
<1>4. CASE Does("bs", To(Bs(vt)))
  BY <1>4, BsDuring, PerformedKeeps
<1>5. CASE Does("tab", To(Tab(vt)))
  BY <1>5, TabDuring, PerformedKeeps
<1>6. CASE Does("tab", To(SetTab(vt)))
  BY <1>6, SetTabDuring, PerformedKeeps
<1>7. ASSUME NEW all \in BOOLEAN, Does("tab", To(ClearTab(vt, all)))
      PROVE  VInv'
  BY <1>7, ClearTabDuring, PerformedKeeps
<1> QED
  BY <1>1, <1>2, <1>3, <1>4, <1>5, <1>6, <1>7 DEF Printing

\* The functions that move the cursor.
LEMMA CursorMovesKeep ==
  ASSUME VInv, Moving
  PROVE  VInv'
<1>1. CASE Does("nextline", To(NextLine(vt)))
  BY <1>1, MovingDuring, PerformedKeeps
<1>2. CASE Does("indexup", To(IndexUp(vt)))
  BY <1>2, MovingDuring, PerformedKeeps
<1>3. CASE Does("save", To(SaveCursor(vt)))
  BY <1>3, SaveCursorDuring, PerformedKeeps
<1>4. CASE Does("save", To(RestoreCursor(vt)))
  BY <1>4, MovingDuring, PerformedKeeps
<1>5. ASSUME NEW dx \in {-1, 0, 1}, NEW dy \in {-1, 0, 1}, Does("move", To(CursorBy(vt, dx, dy)))
      PROVE  VInv'
  BY <1>5, MovingDuring, PerformedKeeps
<1>6. ASSUME NEW x \in Cols, NEW y \in Rows, Does("position", To(CursorPosition(vt, x, y)))
      PROVE  VInv'
  BY <1>6, MovingDuring, PerformedKeeps
<1> QED
  BY <1>1, <1>2, <1>3, <1>4, <1>5, <1>6 DEF Moving

\* The functions that edit.
LEMMA EditingKeeps ==
  ASSUME VInv, Editing
  PROVE  VInv'
<1>1. ASSUME NEW n \in 1 .. Width, Does("char", To(InsertChar(vt, n)))
      PROVE  VInv'
  BY <1>1, CharDuring, PerformedKeeps
<1>2. ASSUME NEW n \in 1 .. Width, Does("char", To(DeleteChar(vt, n)))
      PROVE  VInv'
  BY <1>2, CharDuring, PerformedKeeps
<1>3. ASSUME NEW n \in 1 .. Width, Does("char", To(EraseChar(vt, n)))
      PROVE  VInv'
  BY <1>3, CharDuring, PerformedKeeps
<1>4. ASSUME NEW n \in 1 .. Height - 1, Does("line", To(InsertLine(vt, n)))
      PROVE  VInv'
  BY <1>4, LineDuring, PerformedKeeps
<1>5. ASSUME NEW n \in 1 .. Height - 1, Does("line", To(DeleteLine(vt, n)))
      PROVE  VInv'
  BY <1>5, LineDuring, PerformedKeeps
<1>6. ASSUME NEW how \in 0 .. 2, Does("erase", To(EraseLine(vt, how)))
      PROVE  VInv'
  BY <1>6, EraseDuring, PerformedKeeps
<1>7. ASSUME NEW how \in 0 .. 2, Does("erase", To(EraseDisplay(vt, how)))
      PROVE  VInv'
  BY <1>7, EraseDuring, PerformedKeeps
<1>8. CASE Does("align", To(ScreenAlign(vt)))
  BY <1>8, ScreenAlignDuring, PerformedKeeps
<1> QED
  BY <1>1, <1>2, <1>3, <1>4, <1>5, <1>6, <1>7, <1>8 DEF Editing

\* The functions that set margins and modes.
LEMMA SettingKeeps ==
  ASSUME VInv, Setting
  PROVE  VInv'
<1>1. ASSUME NEW top \in 0 .. Height, NEW bot \in Rows, Does("margins", SetMargins(Screen, top, bot))
      PROVE  VInv'
  <2> DEFINE u == SetMargins(Screen, top, bot)
  <2>1. reading \in Nat /\ reading # -1
    BY <1>1 DEF Does, VInv
  <2>2. Screen \in ScreenType /\ During(Screen.t, Screen.p, stray)
    BY <2>1, ScreenIs DEF VInv
  <2>3. u \in ScreenType /\ During(u.t, u.p, stray)
    BY <2>2, SetMarginsDuring
  <2> HIDE DEF u
  <2>4. vt' = u.t /\ panel' = u.p /\ reading' = reading + 1 /\ stray' = stray
    BY <1>1 DEF Does, Becomes, u
  <2>5. reading' \in Nat \union {-1} /\ reading' # -1
    BY <2>1, <2>4
  <2> QED
    BY <2>3, <2>4, <2>5 DEF VInv, ScreenType
<1>2. ASSUME NEW mode \in {"crlf", "inverse", "relative", "wrap", "visible"}, NEW on \in BOOLEAN,
             Does(mode, To(EnableMode(vt, mode, on)))
      PROVE  VInv'
  BY <1>2, EnableModeDuring, PerformedKeeps
<1>3. CASE Does("reset", To(Reset(vt)))
  BY <1>3, ResetDuring, PerformedKeeps
<1> QED
  BY <1>1, <1>2, <1>3 DEF Setting

\* What comes between two reads.
LEMMA HappenedKeeps ==
  ASSUME NEW s \in ScreenType, vt' = s.t, panel' = s.p, reading' = -1, stray' \in BOOLEAN,
         Between(s.t, s.p, stray')
  PROVE  VInv'
BY DEF VInv, ScreenType

\* An event of the front end.
LEMMA EventKeeps ==
  ASSUME VInv, NEW s, Event(s),
         Between(vt, panel, stray) => s \in ScreenType /\ Between(s.t, s.p, stray)
  PROVE  VInv'
<1>1. reading = -1 /\ Between(vt, panel, stray) /\ stray \in BOOLEAN
  BY DEF Event, VInv
<1>2. vt' = s.t /\ panel' = s.p /\ reading' = -1 /\ stray' = stray
  BY DEF Event, Becomes
<1> QED
  BY <1>1, <1>2, HappenedKeeps

\* A read begins.
LEMMA BeginInputKeeps ==
  ASSUME VInv, BeginInput
  PROVE  VInv'
<1> DEFINE s == HistoryDisplay(Screen, TotalHistory(vt))
           u == IF CursorVisible(s.t) THEN ChangedLine(s.t, s.t.y, s.t.x, s.t.x) ELSE s.t
<1>1. Screen \in ScreenType /\ Screen.t = vt /\ Screen.p = panel
  BY ScreenIs
<1>2. Between(vt, panel, stray) /\ vt \in TermType
  BY DEF BeginInput, VInv
<1>3. TotalHistory(vt) \in Int
  <2>1. Ordered(vt)
    BY <1>2 DEF Between
  <2> QED
    BY <2>1, HistoryFits, Sizes
<1>4. s \in ScreenType /\ Between(s.t, s.p, stray) /\ s.t.visual = TotalHistory(s.t)
  BY <1>1, <1>2, <1>3, HistoryDisplayBetween
<1>5. vt' = [s EXCEPT !.t = u].t /\ panel' = [s EXCEPT !.t = u].p /\ reading' = 0 /\ stray' = stray
  BY DEF BeginInput, Becomes
<1> HIDE DEF s
<1>6. During(u, s.p, stray)
  BY <1>4, BeginsDuring
<1>7. u \in TermType
  BY <1>6, CursorIsHere
<1> HIDE DEF u
<1>8. vt' = u /\ panel' = s.p
  BY <1>4, <1>5 DEF ScreenType
<1>9. reading' \in Nat \union {-1} /\ reading' # -1
  BY <1>5
<1>10. s.p \in PanelType /\ stray' \in BOOLEAN
  BY <1>4, <1>5 DEF ScreenType, VInv
<1> QED
  BY <1>5, <1>6, <1>7, <1>8, <1>9, <1>10 DEF VInv

\* A read ends.
LEMMA EndInputKeeps ==
  ASSUME VInv, EndInput
  PROVE  VInv'
<1> DEFINE s == DrawCursor(Update(Screen))
<1>1. Screen \in ScreenType /\ Screen.t = vt /\ Screen.p = panel
  BY ScreenIs
<1>2. During(vt, panel, stray) /\ stray \in BOOLEAN
  BY DEF EndInput, VInv
<1>3. s \in ScreenType /\ Between(s.t, s.p, stray)
  BY <1>1, <1>2, EndsBetween
<1>4. vt' = s.t /\ panel' = s.p /\ reading' = -1 /\ stray' = stray
  BY DEF EndInput, Becomes
<1> HIDE DEF s
<1> QED
  BY <1>2, <1>3, <1>4, HappenedKeeps

\* The view is moved.
LEMMA HistoryScrollsKeeps ==
  ASSUME VInv, HistoryScrolls
  PROVE  VInv'
<1>1. PICK by \in {Height, -Height} : Event(HistoryDisplay(Screen, vt.visual + by))
  BY DEF HistoryScrolls
<1> DEFINE v == vt.visual + by
           s == HistoryDisplay(Screen, v)
<1>2. v \in Int
  <2>1. vt.visual \in Nat /\ by \in Int
    BY <1>1, Sizes DEF VInv, TermType
  <2> QED
    BY <2>1
<1> HIDE DEF v
<1>3. Screen \in ScreenType /\ Screen.t = vt /\ Screen.p = panel
  BY ScreenIs
<1>4. Between(vt, panel, stray) => s \in ScreenType /\ Between(s.t, s.p, stray)
  BY <1>2, <1>3, HistoryDisplayBetween
<1>5. Event(s)
  BY <1>1 DEF v
<1> HIDE DEF s
<1> QED
  BY <1>4, <1>5, EventKeeps

\* The shell comes to the panel.
LEMMA ActivateKeeps ==
  ASSUME VInv, Activate
  PROVE  VInv'
<1> DEFINE s == Activated(Screen)
<1>1. Screen \in ScreenType /\ Screen.t = vt /\ Screen.p = panel
  BY ScreenIs
<1>2. Between(vt, panel, stray) => s \in ScreenType /\ Between(s.t, s.p, stray)
  BY <1>1, ActivatedBetween DEF Between
<1>3. Event(s)
  BY DEF Activate
<1> HIDE DEF s
<1> QED
  BY <1>2, <1>3, EventKeeps

\* The shell leaves the panel, which it no longer answers for.
LEMMA DeactivateKeeps ==
  ASSUME VInv, Deactivate
  PROVE  VInv'
<1> DEFINE off == FALSE
<1>0. off = FALSE /\ off \in BOOLEAN
  OBVIOUS
<1> HIDE DEF off
<1> DEFINE t == [vt EXCEPT !.active = off, !.timer = off]
           s == [t |-> t, p |-> Other]
<1>1. vt \in TermType
  BY DEF VInv
<1>2. /\ t \in TermType
      /\ t.text = vt.text /\ t.lines = vt.lines /\ t.dirty = vt.dirty
      /\ t.save = vt.save /\ t.full = vt.full /\ t.visual = vt.visual
      /\ t.pending = vt.pending /\ t.x = vt.x /\ t.y = vt.y
      /\ t.cx = vt.cx /\ t.cy = vt.cy /\ t.visible = vt.visible
      /\ t.active = off
  BY <1>0, <1>1, ZenonT(60) DEF TermType
<1>3. Event(s)
  BY <1>0 DEF Deactivate
<1> HIDE DEF t
<1>4. TotalHistory(t) = TotalHistory(vt)
  BY <1>2 DEF TotalHistory
<1>5. Between(vt, panel, stray) => Between(t, Other, stray)
  <2> SUFFICES ASSUME Between(vt, panel, stray)
               PROVE  Between(t, Other, stray)
    OBVIOUS
  <2>1. Ordered(t)
    BY <1>2, <1>4 DEF Between, Ordered, Lined
  <2>2. Rests(t)
    BY <1>2 DEF Between, Rests
  <2>3. Placed(t)
    BY <1>2, <1>4 DEF Between, Placed, CursorVisible
  <2> QED
    BY <1>0, <1>2, <2>1, <2>2, <2>3 DEF Between
<1>6. s \in ScreenType /\ s.t = t /\ s.p = Other
  BY <1>2, OtherIs DEF ScreenType
<1> HIDE DEF s
<1> QED
  BY <1>3, <1>5, <1>6, EventKeeps

\* A signal of the timer inverts the underline of the cursor, or is stray.
LEMMA TimerSignalKeeps ==
  ASSUME VInv, TimerSignal
  PROVE  VInv'
<1> DEFINE s == UpdateCursor(Screen)
<1>1. Screen \in ScreenType /\ Screen.t = vt /\ Screen.p = panel
  BY ScreenIs
<1>2. Between(vt, panel, stray) /\ stray \in BOOLEAN
  BY DEF TimerSignal, VInv
<1>3. vt' = s.t /\ panel' = s.p /\ reading' = -1 /\ stray' = (stray \/ (vt.active /\ ~vt.timer))
  BY DEF TimerSignal, Becomes
<1>4. s \in ScreenType
  BY <1>1, UpdateCursorIs
<1>5. Between(s.t, s.p, stray \/ (vt.active /\ ~vt.timer))
  BY <1>1, <1>2, UpdateCursorBetween
<1> HIDE DEF s
<1>6. stray' \in BOOLEAN
  <2>1. vt.active \in BOOLEAN /\ vt.timer \in BOOLEAN
    BY DEF VInv, TermType
  <2> QED
    BY <1>2, <1>3, <2>1
<1> QED
  BY <1>3, <1>4, <1>5, <1>6, HappenedKeeps

\* Every step keeps the invariant.
LEMMA VNext ==
  ASSUME VInv, [Next]_vars
  PROVE  VInv'
<1>1. CASE Alarm
  BY <1>1 DEF Alarm, VInv
<1>2. CASE UNCHANGED vars
  BY <1>2 DEF vars, VInv
<1> QED
  BY <1>1, <1>2, BeginInputKeeps, EndInputKeeps, PrintingKeeps, CursorMovesKeep, EditingKeeps,
     SettingKeeps, HistoryScrollsKeeps, ActivateKeeps, DeactivateKeeps, TimerSignalKeeps DEF Next

\* The terminal keeps its lines, its margins and its ring in order, and the panel follows it,
\* when every line of memory has a number of its own.
THEOREM TerminalInvariant ==
  Numbered /\ Spec => []VInv
BY VInit, VNext, PTL DEF Spec

\* The invariant, during a read and between two.
LEMMA VIsSound ==
  ASSUME VInv
  PROVE  /\ vt \in TermType /\ Ordered(vt) /\ TotalHistory(vt) \in Nat
         /\ vt.visual \in 0 .. TotalHistory(vt)
<1>1. Ordered(vt)
  BY DEF VInv, Between, During
<1> QED
  BY <1>1, HistoryFits, Sizes DEF Ordered

\* The invariant bounds the terminal.
LEMMA TermHolds ==
  VInv => TermInv
<1> SUFFICES ASSUME VInv
             PROVE  TermInv
  OBVIOUS
<1>1. vt \in TermType /\ Ordered(vt)
  BY VIsSound
<1>2. {vt.lines[y] : y \in Rows} = HistoryLines .. HistoryLines + Height - 1
  <2>1. \A y \in Rows : vt.lines[y] \in Lines /\ vt.lines[y] >= HistoryLines
    BY <1>1 DEF TermType, Ordered, Lined
  <2>2. \A l \in Lines : l >= HistoryLines => \E y \in Rows : vt.lines[y] = l
    BY <1>1 DEF Ordered, Lined
  <2>3. \A l : l \in HistoryLines .. HistoryLines + Height - 1 <=> l \in Lines /\ l >= HistoryLines
    BY Sizes DEF Lines
  <2>4. \A l : l \in {vt.lines[y] : y \in Rows} <=> l \in HistoryLines .. HistoryLines + Height - 1
    BY <2>1, <2>2, <2>3
  <2> QED
    BY <2>4
<1>3. vt.save \in 0 .. Most(0, HistoryLines - 1) /\ vt.visual \in 0 .. TotalHistory(vt)
  BY <1>1 DEF Ordered
<1>4. vt.x \in 0 .. Width /\ vt.y \in Rows /\ vt.top \in 0 .. Height /\ vt.bot \in Rows
  BY <1>1 DEF TermType
<1>5. reading >= 0 => vt.visual = TotalHistory(vt)
  <2>1. reading >= 0 => reading # -1
    BY DEF VInv
  <2> QED
    BY <2>1 DEF VInv, During
<1>6. reading = -1 => vt.pending = 0 /\ \A y \in Rows : vt.dirty[y] \in {Clean, Whole}
  BY DEF VInv, Between, Rests
<1> QED
  BY <1>2, <1>3, <1>4, <1>5, <1>6 DEF TermInv

\* The view over the history and the screen is made of the lines that get_line names.
LEMMA SeenIs ==
  ASSUME VInv, NEW y \in Rows
  PROVE  Scroll!Seen(y) = vt.text[GetLine(vt, y)]
<1> DEFINE total == TotalHistory(vt)
           Old(i) == vt.text[((IF vt.full THEN vt.save ELSE 0) + i - 1) % HistoryLines]
           now == [i \in 1 .. Height |-> ScreenRows[i - 1]]
           at == vt.visual + y + 1
           S == {Old(i) : i \in 1 .. total} \union {ScreenRows[i - 1] : i \in 1 .. Height}
<1>1. /\ total \in Nat /\ vt.visual \in Nat /\ vt.visual <= total
      /\ y \in Nat /\ y <= Height - 1
  BY VIsSound, Sizes DEF Rows
<1>2. Past = [i \in 1 .. total |-> Old(i)] /\ Past \in Seq(S) /\ Len(Past) = total
  <2>1. Past = [i \in 1 .. total |-> Old(i)]
    BY DEF Past
  <2>2. \A i \in 1 .. total : Old(i) \in S
    OBVIOUS
  <2> HIDE DEF Old, S, total
  <2>3. Past \in [1 .. total -> S]
    BY <2>1, <2>2
  <2> QED
    BY <1>1, <2>1, <2>3
<1>3. Scroll!Span(0, Height - 1) = now /\ now \in Seq(S) /\ Len(now) = Height
  <2>1. Height - 1 - 0 + 1 = Height /\ \A i \in 1 .. Height : 0 + i - 1 = i - 1
    BY Sizes
  <2>2. Scroll!Span(0, Height - 1) = now
    BY <2>1 DEF Scroll!Span
  <2>3. \A i \in 1 .. Height : ScreenRows[i - 1] \in S
    OBVIOUS
  <2> HIDE DEF S
  <2>4. now \in [1 .. Height -> S]
    BY <2>3
  <2> QED
    BY <2>2, <2>4, Sizes
<1>4. Len(Past) - (total - vt.visual) + y + 1 = at
  BY <1>1, <1>2
<1>5. Scroll!Seen(y) = (Past \o now)[at]
  BY <1>3, <1>4 DEF Scroll!Seen
<1>6. /\ at \in 1 .. total + Height
      /\ \A i \in 1 .. total + Height :
           (Past \o now)[i] = IF i <= total THEN Past[i] ELSE now[i - total]
  <2>1. at \in 1 .. total + Height
    BY <1>1, Sizes
  <2> HIDE DEF now, S, total, at
  <2>2. \A i \in 1 .. Len(Past) + Len(now) :
          (Past \o now)[i] = IF i <= Len(Past) THEN Past[i] ELSE now[i - Len(Past)]
    BY <1>2, <1>3, ConcatProperties
  <2> QED
    BY <1>2, <1>3, <2>1, <2>2
<1>7. CASE vt.visual + y >= total
  <2>1. ~(at <= total) /\ at - total \in 1 .. Height /\ at - total - 1 = vt.visual + y - total
        /\ at - total - 1 \in Rows
    BY <1>1, <1>7, Sizes DEF Rows
  <2>2. (Past \o now)[at] = now[at - total]
    BY <1>6, <2>1
  <2>3. now[at - total] = ScreenRows[vt.visual + y - total]
    BY <2>1
  <2>4. ScreenRows[vt.visual + y - total] = vt.text[vt.lines[vt.visual + y - total]]
    BY <2>1 DEF ScreenRows
  <2>5. GetLine(vt, y) = vt.lines[vt.visual + y - total]
    <3> HIDE DEF S, at, now, Old
    <3> QED
      BY <1>1, <1>7, GetLineCounts, VIsSound
  <2> QED
    BY <1>5, <2>2, <2>3, <2>4, <2>5
<1>8. CASE ~(vt.visual + y >= total)
  <2>1. at \in 1 .. total /\ at <= total
    BY <1>1, <1>8
  <2>2. (Past \o now)[at] = Old(at)
    BY <1>2, <1>6, <2>1
  <2>3. (IF vt.full THEN vt.save ELSE 0) + at - 1 = (IF vt.full THEN vt.save ELSE 0) + (vt.visual + y)
    <3>1. vt.save \in Nat
      BY VIsSound DEF TermType
    <3> QED
      BY <1>1, <3>1
  <2>4. GetLine(vt, y) = ((IF vt.full THEN vt.save ELSE 0) + (vt.visual + y)) % HistoryLines
    BY <1>8, GetLineCounts, VIsSound
  <2>5. Old(at) = vt.text[GetLine(vt, y)]
    BY <2>3, <2>4
  <2> QED
    BY <1>5, <2>2, <2>5
<1> QED
  BY <1>7, <1>8

\* The invariant says what the panel shows.
LEMMA PanelHolds ==
  VInv => PanelIsTrue
<1> SUFFICES ASSUME VInv, reading = -1, vt.active
             PROVE  /\ \A y \in Rows, x \in Cols : panel.shown[y][x] = <<Scroll!Seen(y)[x], vt.inverse>>
                    /\ ~stray => panel.mark \subseteq (IF CursorVisible(vt) THEN {<<vt.x, vt.y>>} ELSE {})
  BY DEF PanelIsTrue, ShowsTheView, CursorLeavesNoTrace
<1>1. Shown(vt, panel) /\ Underlined(vt, panel, stray)
  BY DEF VInv, Between
<1>2. \A y \in Rows, x \in Cols : panel.shown[y][x] = <<Scroll!Seen(y)[x], vt.inverse>>
  BY <1>1, SeenIs DEF Shown
<1>3. ~stray => panel.mark \subseteq (IF CursorVisible(vt) THEN {<<vt.x, vt.y>>} ELSE {})
  BY <1>1 DEF Underlined
<1> QED
  BY <1>2, <1>3

\* The screen uses each of its lines of memory once and none of the ring's, the cursor and the
\* margins stay on it, and nothing is pending or partly dirty between two reads, for every size
\* of the screen, every program and every length of history for which the numbers of the lines
\* fit 16 bits.
THEOREM TerminalIsSound ==
  Numbered /\ Spec => []TermInv
BY TerminalInvariant, TermHolds, PTL

\* Between two reads the panel shows what a reader of the history and the screen expects in the
\* view, though only dirty ranges are painted, and no underline stays behind the cursor; again
\* when the numbers of the lines fit 16 bits.
THEOREM PanelShowsTheView ==
  Numbered /\ Spec => []PanelIsTrue
BY TerminalInvariant, PanelHolds, PTL

-----------------------------------------------------------------------------
(* The history as a list, and what history_scroll adds to it.              *)

\* The rows of the screen, those of the history, and how far the view is moved back.
Texts == [Cols -> Glyphs]
RowsOf(t) == [y \in Rows |-> t.text[t.lines[y]]]
OldestAt(t) == IF t.full THEN t.save ELSE 0
PastOf(t) == [i \in 1 .. TotalHistory(t) |-> t.text[(OldestAt(t) + i - 1) % HistoryLines]]
BackOf(t) == TotalHistory(t) - t.visual

\* The first n rows of the screen, as a list, and what is kept of a list of old rows.
TopOf(t, n) == [i \in 1 .. n |-> RowsOf(t)[i - 1]]
Kept(s) == IF Len(s) <= HistoryLines THEN s ELSE SubSeq(s, Len(s) - HistoryLines + 1, Len(s))

\* Going once around changes no remainder.
LEMMA OnceAround ==
  ASSUME NEW a \in Nat, NEW d \in Nat \ {0}
  PROVE  (a + d) % d = a % d
<1>1. PICK q \in Nat, r \in 0 .. d - 1 : q = a \div d /\ r = a % d
  BY Division
<1>2. a = (q * d) + r
  BY <1>1, Division
<1>3. a + d = ((q + 1) * d) + r
  BY <1>2
<1>4. a + d \in Nat /\ q + 1 \in Int
  OBVIOUS
<1> QED
  BY <1>1, <1>3, <1>4, RemainderIs

\* Two numbers that are less than d apart and leave the same remainder are one.
LEMMA SameRemainder ==
  ASSUME NEW d \in Nat \ {0}, NEW a \in Nat, NEW b \in Nat, a % d = b % d, a <= b, b - a < d
  PROVE  a = b
<1>1. PICK q \in Nat, r \in 0 .. d - 1 : q = a \div d /\ r = a % d
  BY Division
<1>2. PICK k \in Nat : k = b \div d
  BY Division
<1>3. a = (q * d) + r /\ b = (k * d) + r
  BY <1>1, <1>2, Division
<1>4. b - a = (k - q) * d
  <2>1. (k - q) * d = (k * d) - (q * d)
    OBVIOUS
  <2>2. q * d \in Int /\ k * d \in Int
    OBVIOUS
  <2> QED
    BY <1>3, <2>1, <2>2
<1>5. k - q = 0
  <2>1. k - q \in Int /\ -d < b - a
    OBVIOUS
  <2> QED
    BY <1>4, <2>1, NoMultiple
<1>6. 0 * d = 0
  OBVIOUS
<1> QED
  BY <1>4, <1>5, <1>6

\* What the rows and the history are made of.
LEMMA TextsAre ==
  ASSUME NEW t, Ordered(t)
  PROVE  /\ t \in TermType
         /\ RowsOf(t) \in [Rows -> Texts]
         /\ TotalHistory(t) \in Nat /\ TotalHistory(t) <= HistoryLines
         /\ OldestAt(t) \in Nat
         /\ PastOf(t) \in Seq(Texts) /\ Len(PastOf(t)) = TotalHistory(t)
         /\ \A i \in 1 .. TotalHistory(t) :
              PastOf(t)[i] = t.text[(OldestAt(t) + i - 1) % HistoryLines]
<1>1. t \in TermType /\ t.text \in [Lines -> Texts] /\ t.lines \in [Rows -> Lines] /\ t.save \in Nat
  BY DEF Ordered, TermType, Texts
<1>2. RowsOf(t) \in [Rows -> Texts]
  BY <1>1 DEF RowsOf
<1>3. TotalHistory(t) \in Nat /\ TotalHistory(t) <= HistoryLines /\ (HistoryLines = 0 => TotalHistory(t) = 0)
  BY HistoryFits, Sizes
<1>4. OldestAt(t) \in Nat
  BY <1>1 DEF OldestAt
<1>5. ASSUME NEW i \in 1 .. TotalHistory(t)
      PROVE  t.text[(OldestAt(t) + i - 1) % HistoryLines] \in Texts
  <2>1. HistoryLines \in Nat \ {0} /\ OldestAt(t) + i - 1 \in Nat
    BY <1>3, <1>4, Sizes
  <2>2. (OldestAt(t) + i - 1) % HistoryLines \in 0 .. HistoryLines - 1
    BY <2>1, Division
  <2>3. (OldestAt(t) + i - 1) % HistoryLines \in Lines
    BY <2>2, Sizes DEF Lines
  <2> QED
    BY <1>1, <2>3
<1>6. PastOf(t) \in [1 .. TotalHistory(t) -> Texts]
      /\ \A i \in 1 .. TotalHistory(t) :
           PastOf(t)[i] = t.text[(OldestAt(t) + i - 1) % HistoryLines]
  BY <1>5 DEF PastOf
<1>7. PastOf(t) \in Seq(Texts) /\ Len(PastOf(t)) = TotalHistory(t)
  BY <1>3, <1>6
<1> QED
  BY <1>1, <1>2, <1>3, <1>4, <1>6, <1>7

\* What is kept of a list.
LEMMA KeptIs ==
  ASSUME NEW s \in Seq(Texts)
  PROVE  /\ Kept(s) \in Seq(Texts)
         /\ Len(Kept(s)) = Least(Len(s), HistoryLines)
         /\ \A i \in 1 .. Len(Kept(s)) : Kept(s)[i] = s[i + (Len(s) - Len(Kept(s)))]
<1>0. Len(s) \in Nat /\ HistoryLines \in Nat
  BY Sizes
<1>1. CASE Len(s) <= HistoryLines
  <2>1. Kept(s) = s /\ Least(Len(s), HistoryLines) = Len(s)
    BY <1>0, <1>1 DEF Kept, Least
  <2>2. \A i \in 1 .. Len(s) : i + (Len(s) - Len(s)) = i
    BY <1>0
  <2> QED
    BY <2>1, <2>2
<1>2. CASE ~(Len(s) <= HistoryLines)
  <2> DEFINE m == Len(s) - HistoryLines + 1
             n == Len(s)
  <2>1. Kept(s) = SubSeq(s, m, n) /\ Least(Len(s), HistoryLines) = HistoryLines
    BY <1>0, <1>2 DEF Kept, Least
  <2>2. m \in Int /\ n \in Int /\ m >= 1 /\ n - m + 1 = HistoryLines
    BY <1>0, <1>2
  <2>3. \A i \in m .. n : s[i] \in Texts
    BY <1>0, <2>2
  <2>4. SubSeq(s, m, n) \in Seq(Texts)
        /\ Len(SubSeq(s, m, n)) = (IF m <= n THEN n - m + 1 ELSE 0)
        /\ \A i \in 1 .. n - m + 1 : SubSeq(s, m, n)[i] = s[m + i - 1]
    <3> HIDE DEF m, n
    <3> QED
      BY <2>2, <2>3, SubSeqProperties
  <2>5. (IF m <= n THEN n - m + 1 ELSE 0) = HistoryLines
    BY <1>0, <2>2
  <2>6. \A i \in 1 .. HistoryLines : m + i - 1 = i + (Len(s) - HistoryLines)
    BY <1>0
  <2> HIDE DEF m, n
  <2> QED
    BY <2>1, <2>2, <2>4, <2>5, <2>6
<1> QED
  BY <1>1, <1>2

\* The rows that leave at the top.
LEMMA TopIs ==
  ASSUME NEW t, Ordered(t), NEW n \in 1 .. Height
  PROVE  /\ TopOf(t, n) \in Seq(Texts) /\ Len(TopOf(t, n)) = n
         /\ \A i \in 1 .. n : TopOf(t, n)[i] = t.text[t.lines[i - 1]]
<1>1. \A i \in 1 .. n : i - 1 \in Rows
  BY Sizes DEF Rows
<1>2. \A i \in 1 .. n : RowsOf(t)[i - 1] \in Texts /\ RowsOf(t)[i - 1] = t.text[t.lines[i - 1]]
  <2>1. RowsOf(t) \in [Rows -> Texts]
    BY TextsAre
  <2>2. \A y \in Rows : RowsOf(t)[y] = t.text[t.lines[y]]
    BY DEF RowsOf
  <2> QED
    BY <1>1, <2>1, <2>2
<1>3. TopOf(t, n) \in [1 .. n -> Texts] /\ \A i \in 1 .. n : TopOf(t, n)[i] = RowsOf(t)[i - 1]
  BY <1>2 DEF TopOf
<1>4. n \in Nat
  BY Sizes
<1> QED
  BY <1>2, <1>3, <1>4

\* Where a row of the history is in the ring, counted from the line that is written next.
LEMMA PlaceInRing ==
  ASSUME NEW t, Ordered(t), HistoryLines # 0, NEW i \in 1 .. TotalHistory(t)
  PROVE  (OldestAt(t) + i - 1) % HistoryLines =
           (t.save + HistoryLines + (i - 1 - TotalHistory(t))) % HistoryLines
<1>1. /\ t.save \in Nat /\ HistoryLines \in Nat \ {0}
      /\ TotalHistory(t) \in Nat /\ TotalHistory(t) <= HistoryLines
  BY TextsAre, Sizes DEF TermType
<1>2. CASE t.full
  <2>1. OldestAt(t) = t.save /\ TotalHistory(t) = HistoryLines
    BY <1>2 DEF OldestAt, TotalHistory
  <2>2. OldestAt(t) + i - 1 = t.save + HistoryLines + (i - 1 - TotalHistory(t))
    BY <1>1, <2>1
  <2> QED
    BY <2>2
<1>3. CASE ~t.full
  <2>1. OldestAt(t) = 0 /\ TotalHistory(t) = t.save
    BY <1>3 DEF OldestAt, TotalHistory
  <2>2. i - 1 \in Nat
    BY <1>1
  <2>3. t.save + HistoryLines + (i - 1 - TotalHistory(t)) = (i - 1) + HistoryLines
        /\ OldestAt(t) + i - 1 = i - 1
    BY <1>1, <2>1
  <2> QED
    BY <1>1, <2>2, <2>3, OnceAround
<1> QED
  BY <1>2, <1>3

\* history_scroll appends the top rows to the history and keeps its newest rows.
LEMMA HistoryScrollKeeps ==
  ASSUME NEW t, Ordered(t), t.visual = TotalHistory(t), NEW num \in 1 .. Height
  PROVE  /\ PastOf(HistoryScroll(t, num)) = Kept(PastOf(t) \o TopOf(t, num))
         /\ RowsOf(HistoryScroll(t, num)) = RowsOf(t)
         /\ BackOf(HistoryScroll(t, num)) = BackOf(t)
<1> DEFINE u == HistoryScroll(t, num)
           d == HistoryLines
           old == TotalHistory(t)
           total == TotalHistory(u)
           Copied(l) == {i \in 0 .. num - 1 : (t.save + i) % HistoryLines = l}
           list == PastOf(t) \o TopOf(t, num)
<1>1. Fed(t, u) /\ Ordered(u)
  BY HistoryScrollFeeds DEF Fed
<1>2. /\ old \in Nat /\ old <= d /\ total \in Nat /\ total <= d /\ num \in Nat /\ num >= 1
      /\ d \in Nat /\ t.save \in Nat
  <2>1. old \in Nat /\ old <= d /\ t \in TermType
    BY TextsAre
  <2>2. total \in Nat /\ total <= d
    <3> HIDE DEF u
    <3> QED
      BY <1>1, TextsAre
  <2>3. t.save \in Nat
    BY <2>1 DEF TermType
  <2> HIDE DEF u, old, total
  <2> QED
    BY <2>1, <2>2, <2>3, Sizes
<1>3. RowsOf(u) = RowsOf(t)
  <2>1. t.lines \in [Rows -> Lines] /\ \A y \in Rows : t.lines[y] >= HistoryLines
    BY DEF Ordered, TermType, Lined
  <2>2. \A y \in Rows : u.text[u.lines[y]] = t.text[t.lines[y]]
    BY <1>1, <2>1 DEF Fed
  <2> QED
    BY <2>2 DEF RowsOf
<1>4. BackOf(u) = BackOf(t)
  <2>1. u.visual = TotalHistory(u)
    BY <1>1 DEF Fed
  <2> QED
    BY <1>2, <2>1 DEF BackOf
<1>5. /\ list \in Seq(Texts) /\ Len(list) = old + num
      /\ \A i \in 1 .. old : list[i] = PastOf(t)[i]
      /\ \A i \in 1 .. num : list[old + i] = t.text[t.lines[i - 1]]
  <2>1. PastOf(t) \in Seq(Texts) /\ Len(PastOf(t)) = old
    BY TextsAre
  <2>2. TopOf(t, num) \in Seq(Texts) /\ Len(TopOf(t, num)) = num
        /\ \A i \in 1 .. num : TopOf(t, num)[i] = t.text[t.lines[i - 1]]
    BY TopIs
  <2> DEFINE past == PastOf(t)
             top == TopOf(t, num)
  <2> HIDE DEF past, top, old
  <2>3. /\ past \o top \in Seq(Texts) /\ Len(past \o top) = old + num
        /\ \A i \in 1 .. old + num : (past \o top)[i] = IF i <= old THEN past[i] ELSE top[i - old]
    <3>1. /\ past \o top \in Seq(Texts) /\ Len(past \o top) = Len(past) + Len(top)
          /\ \A i \in 1 .. Len(past) + Len(top) :
               (past \o top)[i] = IF i <= Len(past) THEN past[i] ELSE top[i - Len(past)]
      BY <2>1, <2>2, ConcatProperties DEF past, top
    <3> QED
      BY <2>1, <2>2, <3>1 DEF past, top
  <2>4. \A i \in 1 .. old : i \in 1 .. old + num /\ i <= old
    BY <1>2
  <2>5. \A i \in 1 .. num : old + i \in 1 .. old + num /\ ~(old + i <= old) /\ (old + i) - old = i
    BY <1>2
  <2>6. list = past \o top
    BY DEF past, top
  <2> HIDE DEF list
  <2>7. \A i \in 1 .. old : list[i] = PastOf(t)[i]
    BY <2>3, <2>4, <2>6 DEF past
  <2>8. \A i \in 1 .. num : list[old + i] = t.text[t.lines[i - 1]]
    BY <2>2, <2>3, <2>5, <2>6 DEF top
  <2> QED
    BY <2>3, <2>6, <2>7, <2>8
<1> HIDE DEF list
<1>6. CASE d = 0
  <2>1. total = 0 /\ Len(PastOf(u)) = 0 /\ Len(Kept(list)) = 0
    <3>1. Least(old + num, 0) = 0
      BY <1>2 DEF Least
    <3> QED
      BY <1>1, <1>2, <1>5, <1>6, <3>1, TextsAre, KeptIs
  <2>2. PastOf(u) \in Seq(Texts) /\ Kept(list) \in Seq(Texts)
    BY <1>1, <1>5, TextsAre, KeptIs
  <2>3. PastOf(u) = Kept(list)
    BY <2>1, <2>2, SeqEqual
  <2> QED
    BY <1>3, <1>4, <2>3 DEF list
<1>7. CASE d # 0
  <2> d \in Nat \ {0}
    BY <1>2, <1>7
  <2>1. /\ u.save = (t.save + num) % d
        /\ u.full = (t.full \/ t.save + num >= d)
        /\ \A l \in Lines : u.text[l] = IF l < d /\ Copied(l) # {} THEN t.text[t.lines[Max(Copied(l))]]
                                       ELSE t.text[l]
    <3> DEFINE text == [l \in DOMAIN t.text |->
                          IF l < d /\ Copied(l) # {} THEN t.text[t.lines[Max(Copied(l))]] ELSE t.text[l]]
               save == (t.save + num) % d
               full == t.full \/ t.save + num >= d
               new == [t EXCEPT !.text = text, !.save = save, !.full = full]
    <3>1. u = [new EXCEPT !.visual = TotalHistory(new)]
      BY <1>7 DEF HistoryScroll
    <3>2. DOMAIN t.text = Lines /\ t \in TermType
      BY DEF Ordered, TermType
    <3> HIDE DEF text, save, full
    <3>3. u.text = text /\ u.save = save /\ u.full = full
      BY <3>1, <3>2 DEF TermType
    <3> QED
      BY <3>2, <3>3 DEF text, save, full
  <2>2. total = Least(old + num, d) /\ total >= 1
    <3>1. t.full \in BOOLEAN /\ (t.full => old = d) /\ (~t.full => old = t.save)
      BY DEF Ordered, TermType, TotalHistory
    <3>2. CASE t.full
      <4>1. u.full /\ total = d
        BY <2>1, <3>2 DEF TotalHistory
      <4>2. Least(old + num, d) = d
        BY <1>2, <3>1, <3>2 DEF Least
      <4> QED
        BY <4>1, <4>2
    <3>3. CASE ~t.full /\ t.save + num >= d
      <4>1. u.full /\ total = d
        BY <2>1, <3>3 DEF TotalHistory
      <4>2. Least(old + num, d) = d
        BY <1>2, <3>1, <3>3 DEF Least
      <4> QED
        BY <4>1, <4>2
    <3>4. CASE ~t.full /\ ~(t.save + num >= d)
      <4>1. ~u.full /\ total = u.save
        BY <2>1, <3>4 DEF TotalHistory
      <4>2. t.save + num \in Nat /\ t.save + num < d
        BY <1>2, <3>4
      <4>3. (t.save + num) % d = t.save + num
        BY <4>2
      <4>4. Least(old + num, d) = t.save + num
        BY <1>2, <3>1, <3>4, <4>2 DEF Least
      <4> QED
        BY <1>2, <2>1, <4>1, <4>3, <4>4
    <3> QED
      BY <3>1, <3>2, <3>3, <3>4
  <2>3. PastOf(u) \in Seq(Texts) /\ Len(PastOf(u)) = total
        /\ Kept(list) \in Seq(Texts) /\ Len(Kept(list)) = total
        /\ \A i \in 1 .. total : Kept(list)[i] = list[i + (old + num - total)]
    <3> HIDE DEF u, old
    <3>1. PastOf(u) \in Seq(Texts) /\ Len(PastOf(u)) = total
      BY <1>1, TextsAre
    <3> HIDE DEF total
    <3>2. Kept(list) \in Seq(Texts) /\ Len(Kept(list)) = Least(Len(list), d)
          /\ \A i \in 1 .. Len(Kept(list)) : Kept(list)[i] = list[i + (Len(list) - Len(Kept(list)))]
      BY <1>5, KeptIs
    <3>3. Len(list) = old + num /\ Len(Kept(list)) = total
      BY <1>5, <2>2, <3>2
    <3>4. \A i \in 1 .. total : Kept(list)[i] = list[i + (Len(list) - total)]
      BY <3>2, <3>3
    <3>5. \A i \in 1 .. total : Kept(list)[i] = list[i + (old + num - total)]
      <4> DEFINE by == Len(list) - total
      <4>1. by = old + num - total
        BY <1>2, <3>3
      <4>2. \A i \in 1 .. total : Kept(list)[i] = list[i + by]
        BY <3>4
      <4> HIDE DEF by
      <4> QED
        BY <4>1, <4>2
    <3> QED
      BY <3>1, <3>2, <3>3, <3>5
  <2>4. ASSUME NEW i \in 1 .. total
        PROVE  PastOf(u)[i] = Kept(list)[i]
    <3> DEFINE j == i - 1 - total + num
               l == (t.save + d + j) % d
    <3>1. /\ j \in Int /\ num - d <= j /\ j <= num - 1 /\ t.save + d + j \in Nat
          /\ num - total <= j
      BY <1>2
    <3>2. PastOf(u)[i] = u.text[l]
      <4>1. PastOf(u)[i] = u.text[(OldestAt(u) + i - 1) % d]
        BY <1>1, TextsAre
      <4>2. (OldestAt(u) + i - 1) % d = (u.save + d + (i - 1 - total)) % d
        BY <1>1, <1>7, PlaceInRing
      <4>3. t.save + num \in Nat /\ d + (i - 1 - total) \in Nat
        BY <1>2
      <4>4. (((t.save + num) % d) + (d + (i - 1 - total))) % d
              = ((t.save + num) + (d + (i - 1 - total))) % d
        <5> DEFINE a == t.save + num
                   b == d + (i - 1 - total)
        <5> HIDE DEF a, b
        <5>1. ((a % d) + b) % d = (a + b) % d
          BY <4>3, StepAround DEF a, b
        <5> QED
          BY <5>1 DEF a, b
      <4>5. (t.save + num) + (d + (i - 1 - total)) = t.save + d + j
        BY <1>2
      <4>6. u.save \in Nat
        BY <1>1, TextsAre DEF TermType
      <4>7. u.save + d + (i - 1 - total) = ((t.save + num) % d) + (d + (i - 1 - total))
        BY <1>2, <2>1, <4>6
      <4> QED
        BY <4>1, <4>2, <4>4, <4>5, <4>7
    <3> HIDE DEF j
    <3>3. l \in 0 .. d - 1 /\ l \in Lines /\ l < d
      <4>1. l \in 0 .. d - 1
        BY <3>1, Division
      <4> HIDE DEF l
      <4> QED
        BY <1>2, <4>1, Sizes DEF Lines
    <3>4. ASSUME NEW k \in Copied(l), k >= j
          PROVE  k = j
      <4>1. k \in 0 .. num - 1 /\ (t.save + k) % d = l
        BY <3>4
      <4>2. t.save + k \in Nat /\ t.save + k + d \in Nat
        BY <1>2, <4>1
      <4>3. (t.save + k + d) % d = l
        <5>1. (t.save + k + d) % d = (t.save + k) % d
          BY <4>2, OnceAround
        <5> QED
          BY <4>1, <5>1
      <4>4. t.save + d + j <= t.save + k + d /\ (t.save + k + d) - (t.save + d + j) < d
        BY <1>2, <3>1, <3>4, <4>1
      <4>5. t.save + d + j = t.save + k + d
        BY <3>1, <4>2, <4>3, <4>4, SameRemainder
      <4> QED
        BY <1>2, <3>1, <4>1, <4>5
    <3>5. Kept(list)[i] = list[old + 1 + j]
      <4>1. i + (old + num - total) = old + 1 + j
        BY <1>2 DEF j
      <4> QED
        BY <2>3, <4>1
    <3>6. CASE j >= 0
      <4>1. j \in Copied(l)
        <5>1. j \in 0 .. num - 1 /\ t.save + j \in Nat
          BY <1>2, <3>1, <3>6
        <5>2. (t.save + j + d) % d = (t.save + j) % d
          BY <5>1, OnceAround
        <5>3. t.save + j + d = t.save + d + j
          BY <1>2, <3>1
        <5> QED
          BY <5>1, <5>2, <5>3
      <4>2. Copied(l) \in SUBSET (0 .. num - 1) /\ num - 1 \in Nat
        BY <1>2
      <4> HIDE DEF Copied, l
      <4>3. Max(Copied(l)) \in Copied(l) /\ \A k \in Copied(l) : k <= Max(Copied(l))
        BY <4>1, <4>2, MaxIs
      <4>4. Max(Copied(l)) = j
        BY <3>4, <4>1, <4>3
      <4>5. u.text[l] = t.text[t.lines[j]]
        BY <2>1, <3>3, <4>1, <4>4
      <4>6. list[old + (j + 1)] = t.text[t.lines[(j + 1) - 1]]
        <5>1. j + 1 \in 1 .. num
          BY <1>2, <3>1, <3>6
        <5> QED
          BY <1>5, <5>1
      <4>7. old + (j + 1) = old + 1 + j /\ (j + 1) - 1 = j
        BY <1>2, <3>1
      <4> QED
        BY <3>2, <3>5, <4>5, <4>6, <4>7
    <3>7. CASE ~(j >= 0)
      <4>1. Copied(l) = {}
        <5>1. ASSUME NEW k \in Copied(l)
              PROVE  FALSE
          <6>1. k \in 0 .. num - 1
            OBVIOUS
          <6>2. k >= j /\ k # j
            BY <3>1, <3>7, <6>1
          <6> QED
            BY <3>4, <6>2
        <5> QED
          BY <5>1
      <4> HIDE DEF Copied
      <4>2. u.text[l] = t.text[l]
        BY <2>1, <3>3, <4>1
      <4>3. old + 1 + j \in 1 .. old
        <5>1. total <= old + num
          BY <1>2, <2>2 DEF Least
        <5> QED
          BY <1>2, <3>1, <3>7, <5>1
      <4>4. list[old + 1 + j] = t.text[(OldestAt(t) + (old + 1 + j) - 1) % d]
        BY <1>5, <4>3, TextsAre
      <4>5. (OldestAt(t) + (old + 1 + j) - 1) % d = (t.save + d + ((old + 1 + j) - 1 - old)) % d
        BY <1>7, <4>3, PlaceInRing
      <4>6. t.save + d + ((old + 1 + j) - 1 - old) = t.save + d + j
        BY <1>2, <3>1
      <4> QED
        BY <3>2, <3>5, <4>2, <4>4, <4>5, <4>6
    <3> QED
      BY <3>1, <3>6, <3>7
  <2>5. PastOf(u) = Kept(list)
    BY <2>3, <2>4, SeqEqual
  <2> QED
    BY <1>3, <1>4, <2>5 DEF list
<1> QED
  BY <1>6, <1>7

-----------------------------------------------------------------------------
(* What a function does to the rows and to the history.                    *)

\* Rows, history and view are the same.
Stays(t, u) ==
  /\ u.text = t.text /\ u.lines = t.lines
  /\ u.save = t.save /\ u.full = t.full /\ u.visual = t.visual

\* The history is the same, as far as the memory of it goes.
KeepsRing(t, u) ==
  /\ u.save = t.save /\ u.full = t.full /\ u.visual = t.visual
  /\ \A l \in Lines : l < HistoryLines => u.text[l] = t.text[l]

\* What is behind the screen is the same.
KeepsPast(t, u) == PastOf(u) = PastOf(t) /\ BackOf(u) = BackOf(t)

\* A region of the rows is scrolled, and what leaves at the top goes to the history.
ShiftedRows(r, a, b, n) ==
  [z \in Rows |->
     IF z \notin a .. b THEN r[z]
     ELSE IF z + n \in a .. b THEN r[z + n] ELSE BlankRow]
Leaving(t, a, n) == IF a = 0 /\ n > 0 THEN TopOf(t, n) ELSE <<>>
Shifts(t, u, a, b, n) ==
  /\ RowsOf(u) = ShiftedRows(RowsOf(t), a, b, n)
  /\ PastOf(u) = Kept(PastOf(t) \o Leaving(t, a, n))
  /\ BackOf(u) = BackOf(t)

\* A top row that scrolls alone stays, and goes to the history nevertheless.
Repeats(t, u) ==
  /\ t.top = 0 /\ t.bot = 0
  /\ RowsOf(u) = RowsOf(t)
  /\ PastOf(u) = Kept(PastOf(t) \o TopOf(t, 1))
  /\ BackOf(u) = BackOf(t)
Scrolls(t, u) ==
  \/ Repeats(t, u)
  \/ \E a, b \in Rows : \E n \in a - b .. b - a : Shifts(t, u, a, b, n)

\* The functions scroll fewer rows than the region has, or the margins by one.
Slides(t, a, b, n) == Turns(a, b, n) \/ (a = t.top /\ b = t.bot /\ n \in {-1, 1})

\* One row is written.
Writes(t, u) ==
  /\ KeepsPast(t, u)
  /\ \E y \in Rows : \A z \in Rows \ {y} : RowsOf(u)[z] = RowsOf(t)[z]

\* One row is written, and others are filled.
Edits(t, u) ==
  /\ KeepsPast(t, u)
  /\ \E y \in Rows : \A z \in Rows \ {y} : RowsOf(u)[z] \in {RowsOf(t)[z], BlankRow, AlignRow}

\* A function of a read, or what comes between two reads without moving the view.
Performs(t, u) == Edits(t, u) \/ \E w : Scrolls(t, w) /\ Writes(w, u)

\* What is looked at is the same.
LEMMA StaysIs ==
  ASSUME NEW t, NEW u, Stays(t, u)
  PROVE  RowsOf(u) = RowsOf(t) /\ KeepsPast(t, u) /\ TotalHistory(u) = TotalHistory(t)
<1>1. RowsOf(u) = RowsOf(t)
  BY DEF Stays, RowsOf
<1>2. TotalHistory(u) = TotalHistory(t) /\ OldestAt(u) = OldestAt(t)
  BY DEF Stays, TotalHistory, OldestAt
<1>3. PastOf(u) = PastOf(t)
  BY <1>2 DEF Stays, PastOf
<1>4. BackOf(u) = BackOf(t)
  BY <1>2 DEF Stays, BackOf
<1> QED
  BY <1>1, <1>2, <1>3, <1>4 DEF KeepsPast

\* The history is in the ring.
LEMMA RingIsPast ==
  ASSUME NEW t, Ordered(t), NEW u, KeepsRing(t, u)
  PROVE  KeepsPast(t, u)
<1>1. TotalHistory(u) = TotalHistory(t) /\ OldestAt(u) = OldestAt(t)
  BY DEF KeepsRing, TotalHistory, OldestAt
<1>2. TotalHistory(t) \in Nat /\ TotalHistory(t) <= HistoryLines /\ OldestAt(t) \in Nat
  BY TextsAre
<1>3. ASSUME NEW i \in 1 .. TotalHistory(t)
      PROVE  u.text[(OldestAt(t) + i - 1) % HistoryLines] = t.text[(OldestAt(t) + i - 1) % HistoryLines]
  <2> DEFINE l == (OldestAt(t) + i - 1) % HistoryLines
  <2>1. HistoryLines \in Nat \ {0} /\ OldestAt(t) + i - 1 \in Nat
    BY <1>2, Sizes
  <2>2. l \in 0 .. HistoryLines - 1
    BY <2>1, Division
  <2> HIDE DEF l
  <2>3. l \in Lines /\ l < HistoryLines
    BY <2>1, <2>2, Sizes DEF Lines
  <2>4. u.text[l] = t.text[l]
    BY <2>3 DEF KeepsRing
  <2> QED
    BY <2>4 DEF l
<1>4. PastOf(u) = PastOf(t)
  BY <1>1, <1>3 DEF PastOf
<1>5. BackOf(u) = BackOf(t)
  BY <1>1 DEF BackOf, KeepsRing
<1> QED
  BY <1>4, <1>5 DEF KeepsPast

\* Nothing leaves, and nothing is forgotten.
LEMMA NothingLeaves ==
  ASSUME NEW t, Ordered(t)
  PROVE  Kept(PastOf(t) \o <<>>) = PastOf(t)
<1>1. PastOf(t) \in Seq(Texts) /\ Len(PastOf(t)) <= HistoryLines
  BY TextsAre
<1>2. PastOf(t) \o <<>> = PastOf(t)
  <2> DEFINE past == PastOf(t)
  <2> HIDE DEF past
  <2>1. past \o <<>> = past
    BY <1>1 DEF past
  <2> QED
    BY <2>1 DEF past
<1> QED
  BY <1>1, <1>2 DEF Kept

\* Scrolling by nothing.
LEMMA UnmovedScrolls ==
  ASSUME NEW t, Ordered(t), NEW u, RowsOf(u) = RowsOf(t), KeepsPast(t, u)
  PROVE  Scrolls(t, u)
<1>1. 0 \in Rows /\ 0 \in 0 - 0 .. 0 - 0 /\ ~(0 > 0)
  BY Sizes DEF Rows
<1>2. RowsOf(u) = ShiftedRows(RowsOf(t), 0, 0, 0)
  <2>1. RowsOf(t) \in [Rows -> Texts]
    BY TextsAre
  <2>2. \A z \in Rows : z + 0 = z
    BY Sizes DEF Rows
  <2>3. \A z \in Rows : RowsOf(t)[z] =
          IF z \notin 0 .. 0 THEN RowsOf(t)[z]
          ELSE IF z + 0 \in 0 .. 0 THEN RowsOf(t)[z + 0] ELSE BlankRow
    BY <2>2
  <2> QED
    BY <2>1, <2>3 DEF ShiftedRows
<1>3. PastOf(u) = Kept(PastOf(t) \o Leaving(t, 0, 0)) /\ BackOf(u) = BackOf(t)
  BY <1>1, NothingLeaves DEF Leaving, KeepsPast
<1>4. Shifts(t, u, 0, 0, 0)
  BY <1>2, <1>3 DEF Shifts
<1> QED
  BY <1>1, <1>4 DEF Scrolls

\* Staying is scrolling by nothing.
LEMMA StayingScrolls ==
  ASSUME NEW t, Ordered(t), NEW u, Stays(t, u)
  PROVE  Scrolls(t, u)
BY StaysIs, UnmovedScrolls

\* Scrolling and staying are scrolling.
LEMMA ScrollsAndStays ==
  ASSUME NEW t, NEW w, NEW u, Scrolls(t, w), Stays(w, u)
  PROVE  Scrolls(t, u)
<1>0. RowsOf(u) = RowsOf(w) /\ PastOf(u) = PastOf(w) /\ BackOf(u) = BackOf(w)
  BY StaysIs DEF KeepsPast
<1>1. CASE Repeats(t, w)
  BY <1>0, <1>1 DEF Repeats, Scrolls
<1>2. CASE \E a, b \in Rows : \E n \in a - b .. b - a : Shifts(t, w, a, b, n)
  <2>1. PICK a \in Rows, b \in Rows : \E n \in a - b .. b - a : Shifts(t, w, a, b, n)
    BY <1>2
  <2>2. PICK n \in a - b .. b - a : Shifts(t, w, a, b, n)
    BY <2>1
  <2>3. Shifts(t, u, a, b, n)
    BY <1>0, <2>2 DEF Shifts
  <2> QED
    BY <2>3 DEF Scrolls
<1> QED
  BY <1>1, <1>2 DEF Scrolls

\* Scrolling alone.
LEMMA ScrollingPerforms ==
  ASSUME NEW t, NEW u, Scrolls(t, u)
  PROVE  Performs(t, u)
<1>1. Writes(u, u)
  <2>1. 0 \in Rows
    BY Sizes DEF Rows
  <2> QED
    BY <2>1 DEF Writes, KeepsPast
<1> QED
  BY <1>1 DEF Performs

\* Writing alone.
LEMMA WritingPerforms ==
  ASSUME NEW t, NEW u, Writes(t, u)
  PROVE  Performs(t, u)
BY DEF Performs, Writes, Edits

\* Some columns of some rows are cleared.
Erased(t, u, x0, y0, x1, y1) ==
  /\ KeepsRing(t, u) /\ u.lines = t.lines
  /\ \A z \in Rows : ~(y0 <= z /\ z <= y1) => RowsOf(u)[z] = RowsOf(t)[z]
  /\ x0 = 0 /\ x1 = Width - 1 => \A z \in Rows : y0 <= z /\ z <= y1 => RowsOf(u)[z] = BlankRow

\* What clear_area does to the rows.
LEMMA ClearAreaErases ==
  ASSUME NEW t \in TermType, Lined(t),
         NEW x0 \in Nat, NEW y0 \in Int, NEW x1 \in Nat, NEW y1 \in Int
  PROVE  Erased(t, ClearArea(t, x0, y0, x1, y1), x0, y0, x1, y1)
<1> DEFINE u == ClearArea(t, x0, y0, x1, y1)
           area == {y \in Rows : y0 <= y /\ y <= y1}
           text == [l \in DOMAIN t.text |-> Wiped(t, l, y0, y1, x0, x1)]
           ranges == [y \in Rows |-> IF y \in area THEN Widened(t.dirty[y], x0, x1) ELSE t.dirty[y]]
<1>1. t.text \in [Lines -> [Cols -> Glyphs]] /\ t.lines \in [Rows -> Lines]
  BY DEF TermType
<1>2. CASE x0 >= Width \/ x0 > x1
  <2>1. u = t
    BY <1>2 DEF ClearArea
  <2>2. ~(x0 = 0 /\ x1 = Width - 1)
    BY <1>2, Sizes
  <2> QED
    BY <2>1, <2>2 DEF KeepsRing, Erased
<1>3. CASE ~(x0 >= Width \/ x0 > x1)
  <2>1. u = [t EXCEPT !.text = text, !.dirty = ranges]
    BY <1>3 DEF ClearArea, Wiped
  <2> HIDE DEF ranges
  <2>2. u.text = text /\ u.lines = t.lines /\ u.save = t.save /\ u.full = t.full
        /\ u.visual = t.visual
    BY <2>1 DEF TermType
  <2> HIDE DEF u
  <2>3. ASSUME NEW l \in Lines, l < HistoryLines
        PROVE  u.text[l] = t.text[l]
    <3>1. ~ \E y \in area : t.lines[y] = l
      <4>1. \A y \in Rows : t.lines[y] \in Lines /\ t.lines[y] >= HistoryLines
        BY <1>1 DEF Lined
      <4> QED
        BY <2>3, <4>1, Sizes DEF Lines
    <3> QED
      BY <1>1, <2>2, <3>1 DEF Wiped
  <2>4. KeepsRing(t, u)
    BY <2>2, <2>3 DEF KeepsRing
  <2>5. \A z \in Rows : RowsOf(t)[z] = t.text[t.lines[z]]
                        /\ RowsOf(u)[z] = Wiped(t, t.lines[z], y0, y1, x0, x1)
    BY <1>1, <2>2 DEF RowsOf
  <2>6. ASSUME NEW z \in Rows, ~(y0 <= z /\ z <= y1)
        PROVE  RowsOf(u)[z] = RowsOf(t)[z]
    <3>1. ~ \E y \in area : t.lines[y] = t.lines[z]
      BY <2>6 DEF Lined
    <3> QED
      BY <2>5, <3>1 DEF Wiped
  <2>7. ASSUME x0 = 0, x1 = Width - 1, NEW z \in Rows, y0 <= z, z <= y1
        PROVE  RowsOf(u)[z] = BlankRow
    <3>1. \E y \in area : t.lines[y] = t.lines[z]
      BY <2>7
    <3>2. \A x \in Cols : x \in x0 .. x1
      BY <2>7 DEF Cols
    <3> QED
      BY <2>5, <3>1, <3>2 DEF Wiped, BlankRow
  <2> QED
    BY <2>2, <2>4, <2>6, <2>7 DEF u, Erased
<1> QED
  BY <1>2, <1>3

\* scroll_region moves the rows of the region as a block.
LEMMA ScrollRegionScrolls ==
  ASSUME NEW t, Ordered(t), t.visual = TotalHistory(t),
         NEW a \in Rows, NEW b \in Rows, NEW n \in Int, Slides(t, a, b, n)
  PROVE  Scrolls(t, ScrollRegion(t, a, b, n))
<1> DEFINE u == ScrollRegion(t, a, b, n)
<1>1. CASE u = t
  BY <1>1, StayingScrolls DEF Stays
<1>2. CASE u # t
  <2>1. PICK num \in a - b - 1 .. b - a + 1 : a <= b /\ num # 0 /\ (Turns(a, b, n) => num = n)
                                             /\ ScrollsTo(t, u, a, b, num)
    BY <1>2, ScrollRegionIs
  <2> HIDE DEF u
  <2> DEFINE h == IF a = 0 /\ num > 0 THEN HistoryScroll(t, num) ELSE t
  <2>2. /\ Fed(t, h)
        /\ \/ /\ num \in {b - a + 1, a - b - 1}
              /\ u = [h EXCEPT !.pending = IF Fast(t, a, b) THEN t.pending + num ELSE t.pending]
           \/ TurnsTo(t, h, u, a, b, num)
    BY <2>1 DEF ScrollsTo
  <2>3. a \in Int /\ b \in Int /\ num \in Int /\ a >= 0 /\ b <= Height - 1
    BY <2>1, Sizes DEF Rows
  <2>4. RowsOf(h) = RowsOf(t) /\ BackOf(h) = BackOf(t)
        /\ PastOf(h) = Kept(PastOf(t) \o Leaving(t, a, num))
    <3>1. CASE a = 0 /\ num > 0
      <4>1. num \in 1 .. Height
        BY <2>1, <2>3, <3>1, Sizes
      <4> QED
        BY <3>1, <4>1, HistoryScrollKeeps DEF Leaving
    <3>2. CASE ~(a = 0 /\ num > 0)
      BY <3>2, NothingLeaves DEF Leaving
    <3> QED
      BY <3>1, <3>2
  <2> HIDE DEF h
  <2>5. h \in TermType /\ Ordered(h) /\ RowsOf(t) \in [Rows -> Texts]
    BY <2>2, TextsAre DEF Fed, Ordered
  <2>6. CASE /\ num \in {b - a + 1, a - b - 1}
             /\ u = [h EXCEPT !.pending = IF Fast(t, a, b) THEN t.pending + num ELSE t.pending]
    <3>1. Stays(h, u)
      BY <2>5, <2>6 DEF Stays, TermType
    <3>2. RowsOf(u) = RowsOf(t) /\ KeepsPast(h, u)
      BY <2>4, <3>1, StaysIs
    <3>3. ~Turns(a, b, n)
      BY <2>1, <2>3, <2>6 DEF Turns
    <3>4. a = t.top /\ b = t.bot /\ n \in {-1, 1}
      BY <3>3 DEF Slides
    <3>5. a = b /\ num \in {-1, 1}
      BY <2>1, <2>3, <2>6, <3>3, <3>4 DEF Turns
    <3>6. CASE a = 0 /\ num = 1
      <4>1. Repeats(t, u)
        BY <2>4, <3>2, <3>4, <3>5, <3>6 DEF Repeats, Leaving, KeepsPast
      <4> QED
        BY <4>1 DEF Scrolls, u
    <3>7. CASE ~(a = 0 /\ num = 1)
      <4>1. Leaving(t, a, num) = <<>>
        BY <3>5, <3>7 DEF Leaving
      <4>2. KeepsPast(t, u)
        BY <2>4, <3>2, <4>1, NothingLeaves DEF KeepsPast
      <4> QED
        BY <3>2, <4>2, UnmovedScrolls DEF u
    <3> QED
      BY <3>6, <3>7
  <2>7. CASE TurnsTo(t, h, u, a, b, num)
    <3>1. PICK m : \E lo, hi \in Int :
                     /\ Turned(t, h, m, a, b, num)
                     /\ u = ClearArea(m, 0, lo, Width - 1, hi)
                     /\ \A y \in Rows : lo <= y /\ y <= hi <=> y \in Entering(a, b, num)
      BY <2>7 DEF TurnsTo
    <3>2. PICK lo \in Int, hi \in Int :
                     /\ Turned(t, h, m, a, b, num)
                     /\ u = ClearArea(m, 0, lo, Width - 1, hi)
                     /\ \A y \in Rows : lo <= y /\ y <= hi <=> y \in Entering(a, b, num)
      BY <3>1
    <3>3. Turns(a, b, num)
      BY <2>7 DEF TurnsTo
    <3>4. m \in TermType /\ Lined(m) /\ Width - 1 \in Nat /\ 0 \in Nat
      BY <2>3, <3>2, <3>3, TurnedIsLined, Sizes DEF Turned
    <3>5. /\ KeepsRing(m, u) /\ u.lines = m.lines
          /\ \A z \in Rows : ~(lo <= z /\ z <= hi) => RowsOf(u)[z] = RowsOf(m)[z]
          /\ \A z \in Rows : lo <= z /\ z <= hi => RowsOf(u)[z] = BlankRow
      <4>1. Erased(m, ClearArea(m, 0, lo, Width - 1, hi), 0, lo, Width - 1, hi)
        BY <3>4, ClearAreaErases
      <4>2. Erased(m, u, 0, lo, Width - 1, hi)
        BY <3>2, <4>1
      <4> QED
        BY <4>2 DEF Erased
    <3>6. KeepsRing(h, u)
      BY <3>2, <3>5 DEF Turned, KeepsRing
    <3>7. PastOf(u) = PastOf(h) /\ BackOf(u) = BackOf(h)
      BY <2>5, <3>6, RingIsPast DEF KeepsPast
    <3>8. ASSUME NEW z \in Rows
          PROVE  RowsOf(m)[z] = RowsOf(t)[Taken(a, b, num, z)] /\ Taken(a, b, num, z) \in Rows
      <4> DEFINE y == Taken(a, b, num, z)
      <4>1. y \in Rows
        BY <2>3, <3>3, TakenIs
      <4> HIDE DEF y
      <4>2. m.lines[z] = t.lines[y]
        BY <3>2 DEF Turned, Deals, y
      <4>3. t.lines[y] \in Lines /\ t.lines[y] >= HistoryLines
        BY <4>1 DEF Ordered, TermType, Lined
      <4>4. m.text[m.lines[z]] = t.text[t.lines[y]]
        BY <2>2, <3>2, <4>2, <4>3 DEF Turned, Fed
      <4> QED
        BY <4>1, <4>4 DEF RowsOf, y
    <3>9. ASSUME NEW z \in Rows
          PROVE  RowsOf(u)[z] = ShiftedRows(RowsOf(t), a, b, num)[z]
      <4>2. ShiftedRows(RowsOf(t), a, b, num)[z] =
              IF z \notin a .. b THEN RowsOf(t)[z]
              ELSE IF z + num \in a .. b THEN RowsOf(t)[z + num] ELSE BlankRow
        BY DEF ShiftedRows
      <4>3. z \in Entering(a, b, num) <=> z \in a .. b /\ z + num \notin a .. b
        BY DEF Entering
      <4>4. z \notin a .. b => Taken(a, b, num, z) = z
        BY DEF Taken
      <4>5. z \in a .. b /\ z + num \in a .. b => Taken(a, b, num, z) = z + num
        BY <2>3, Sizes DEF Taken, Rows
      <4> QED
        BY <3>2, <3>5, <3>8, <4>2, <4>3, <4>4, <4>5
    <3>10. RowsOf(u) = ShiftedRows(RowsOf(t), a, b, num)
      <4>1. RowsOf(u) = [z \in Rows |-> RowsOf(u)[z]]
        BY DEF RowsOf
      <4>2. ShiftedRows(RowsOf(t), a, b, num) = [z \in Rows |-> ShiftedRows(RowsOf(t), a, b, num)[z]]
        BY DEF ShiftedRows
      <4> QED
        BY <3>9, <4>1, <4>2
    <3>11. Shifts(t, u, a, b, num)
      BY <2>4, <3>7, <3>10 DEF Shifts
    <3>12. num \in a - b .. b - a
      BY <2>3, <3>3 DEF Turns
    <3> QED
      BY <3>11, <3>12 DEF Scrolls, u
  <2> QED
    BY <2>2, <2>6, <2>7
<1> QED
  BY <1>1, <1>2

\* The scrolling of line feed, reverse index and the lines: also below the margins.
LEMMA RegionScrolls ==
  ASSUME NEW t, Ordered(t), t.visual = TotalHistory(t), NEW a \in Nat, NEW b \in Rows, NEW n \in Int,
         a <= b => Slides(t, a, b, n)
  PROVE  Scrolls(t, ScrollRegion(t, a, b, n))
<1>1. CASE a <= b
  <2>1. a \in Rows
    BY <1>1, Sizes DEF Rows
  <2> QED
    BY <1>1, <2>1, ScrollRegionScrolls
<1>2. CASE a > b
  <2>1. Least(b, Height - 1) = b
    BY Sizes DEF Least, Rows
  <2>2. ScrollRegion(t, a, b, n) = t
    BY <1>2, <2>1 DEF ScrollRegion
  <2> QED
    BY <2>2, StayingScrolls DEF Stays
<1>3. b \in Int
  BY Sizes DEF Rows
<1> QED
  BY <1>1, <1>2, <1>3

\* Nothing moves.
LEMMA StayingPerforms ==
  ASSUME NEW t, Ordered(t), NEW u, Stays(t, u)
  PROVE  Performs(t, u)
BY StayingScrolls, ScrollingPerforms

\* What During says of the rows.
LEMMA DuringIs ==
  ASSUME NEW t, NEW p, NEW st, During(t, p, st)
  PROVE  t \in TermType /\ Ordered(t) /\ Lined(t) /\ t.visual = TotalHistory(t)
BY DEF During, Ordered

\* A row of memory is written.
LEMMA LineWritten ==
  ASSUME NEW t, Ordered(t), NEW y \in Rows, NEW u,
         u.lines = t.lines, u.save = t.save, u.full = t.full, u.visual = t.visual,
         \A l \in Lines : l # t.lines[y] => u.text[l] = t.text[l]
  PROVE  Writes(t, u)
<1>1. \A z \in Rows : t.lines[z] \in Lines /\ t.lines[z] >= HistoryLines
                      /\ (t.lines[z] = t.lines[y] => z = y)
  BY DEF Ordered, TermType, Lined
<1>2. KeepsRing(t, u)
  <2>1. \A l \in Lines : l < HistoryLines => l # t.lines[y]
    BY <1>1, Sizes DEF Lines
  <2> QED
    BY <2>1 DEF KeepsRing
<1>3. \A z \in Rows \ {y} : RowsOf(u)[z] = RowsOf(t)[z]
  BY <1>1 DEF RowsOf
<1> QED
  BY <1>2, <1>3, RingIsPast DEF Writes

\* Clearing within one row writes it; clearing whole rows fills them.
LEMMA ErasingEdits ==
  ASSUME NEW t, Ordered(t), NEW u, NEW x0, NEW x1, NEW y0 \in Int, NEW y1 \in Int,
         Erased(t, u, x0, y0, x1, y1)
  PROVE  /\ y0 \in Rows /\ y1 = y0 => Writes(t, u)
         /\ x0 = 0 /\ x1 = Width - 1 =>
              /\ KeepsPast(t, u)
              /\ \A z \in Rows : RowsOf(u)[z] \in {RowsOf(t)[z], BlankRow, AlignRow}
<1>1. KeepsPast(t, u)
  BY RingIsPast DEF Erased
<1>2. ASSUME y0 \in Rows, y1 = y0
      PROVE  Writes(t, u)
  <2>1. \A z \in Rows \ {y0} : ~(y0 <= z /\ z <= y1)
    BY <1>2 DEF Rows
  <2>2. \A z \in Rows \ {y0} : RowsOf(u)[z] = RowsOf(t)[z]
    BY <2>1 DEF Erased
  <2> QED
    BY <1>1, <1>2, <2>2 DEF Writes
<1>3. ASSUME x0 = 0, x1 = Width - 1, NEW z \in Rows
      PROVE  RowsOf(u)[z] \in {RowsOf(t)[z], BlankRow, AlignRow}
  BY <1>3 DEF Erased
<1> QED
  BY <1>1, <1>2, <1>3

\* One row may be written before others are filled.
LEMMA WritesAndFills ==
  ASSUME NEW t, NEW w, NEW u, Writes(t, w), KeepsPast(w, u),
         \A z \in Rows : RowsOf(u)[z] \in {RowsOf(w)[z], BlankRow, AlignRow}
  PROVE  Performs(t, u)
<1>1. PICK y \in Rows : \A z \in Rows \ {y} : RowsOf(w)[z] = RowsOf(t)[z]
  BY DEF Writes
<1>2. \A z \in Rows \ {y} : RowsOf(u)[z] \in {RowsOf(t)[z], BlankRow, AlignRow}
  BY <1>1
<1>3. KeepsPast(t, u)
  BY DEF Writes, KeepsPast
<1> QED
  BY <1>2, <1>3 DEF Performs, Edits

\* Filling alone.
LEMMA FillingPerforms ==
  ASSUME NEW t, NEW u, KeepsPast(t, u),
         \A z \in Rows : RowsOf(u)[z] \in {RowsOf(t)[z], BlankRow, AlignRow}
  PROVE  Performs(t, u)
<1>1. 0 \in Rows
  BY Sizes DEF Rows
<1> QED
  BY <1>1 DEF Performs, Edits

\* The cursor is no part of the picture.
LEMMA MoveCursorStays ==
  ASSUME NEW t \in TermType, NEW x, NEW y
  PROVE  Stays(t, MoveCursor(t, x, y))
BY DEF MoveCursor, Stays, TermType

\* The functions that only move the cursor or set stops.
LEMMA CursorStays ==
  ASSUME NEW t \in TermType
  PROVE  /\ Stays(t, Cr(t)) /\ Stays(t, Bs(t)) /\ Stays(t, Tab(t)) /\ Stays(t, SetTab(t))
         /\ \A all : Stays(t, ClearTab(t, all))
         /\ Stays(t, SaveCursor(t)) /\ Stays(t, RestoreCursor(t))
         /\ \A dx, dy : Stays(t, CursorBy(t, dx, dy))
         /\ \A x, y : Stays(t, CursorPosition(t, x, y))
<1>1. Stays(t, t)
  BY DEF Stays
<1>2. Stays(t, Cr(t)) /\ Stays(t, Bs(t)) /\ Stays(t, Tab(t))
  BY <1>1, MoveCursorStays DEF Cr, Bs, Tab
<1>3. Stays(t, SetTab(t)) /\ Stays(t, SaveCursor(t))
  BY DEF SetTab, SaveCursor, Stays, TermType
<1>4. \A all : Stays(t, ClearTab(t, all))
  BY DEF ClearTab, Stays, TermType
<1>5. /\ Stays(t, RestoreCursor(t))
      /\ \A dx, dy : Stays(t, CursorBy(t, dx, dy))
      /\ \A x, y : Stays(t, CursorPosition(t, x, y))
  BY MoveCursorStays DEF RestoreCursor, CursorBy, CursorPosition
<1> QED
  BY <1>2, <1>3, <1>4, <1>5

\* Line feed scrolls at the bottom margin.
LEMMA LfScrolls ==
  ASSUME NEW t, NEW p, NEW st, During(t, p, st)
  PROVE  Scrolls(t, Lf(t))
<1> DEFINE lower == IF t.y < t.bot THEN MoveCursor(t, t.x, t.y + 1)
                   ELSE ScrollRegion(t, t.top, t.bot, 1)
<1>0. t \in TermType /\ Ordered(t) /\ t.visual = TotalHistory(t)
  BY DuringIs
<1>1. During(lower, p, st)
  <2>1. t.y + 1 \in Nat /\ 1 \in {-1, 1}
    BY CursorIsHere
  <2>2. During(MoveCursor(t, t.x, t.y + 1), p, st)
    BY <2>1, CursorIsHere, MoveCursorDuring
  <2>3. During(ScrollRegion(t, t.top, t.bot, 1), p, st)
    BY <2>1, ScrollsByOne
  <2> QED
    BY <2>2, <2>3
<1>2. Scrolls(t, lower)
  <2>1. Scrolls(t, MoveCursor(t, t.x, t.y + 1))
    BY <1>0, MoveCursorStays, StayingScrolls
  <2>2. Scrolls(t, ScrollRegion(t, t.top, t.bot, 1))
    <3>1. Slides(t, t.top, t.bot, 1) /\ 1 \in Int
      BY DEF Slides
    <3> QED
      BY <1>0, <3>1, CursorIsHere, RegionScrolls
  <2> QED
    BY <2>1, <2>2
<1> HIDE DEF lower
<1>3. Lf(t) = IF t.crlf THEN Cr(lower) ELSE lower
  BY DEF Lf, lower
<1>4. Stays(lower, Cr(lower))
  BY <1>1, CursorIsHere, CursorStays
<1> QED
  BY <1>2, <1>3, <1>4, ScrollsAndStays

\* So do a new line, and reverse index at the top margin.
LEMMA LinesScroll ==
  ASSUME NEW t, NEW p, NEW st, During(t, p, st)
  PROVE  Scrolls(t, NextLine(t)) /\ Scrolls(t, IndexUp(t))
<1>1. Scrolls(t, NextLine(t))
  <2>1. Lf(t) \in TermType
    BY LfDuring, DuringIs
  <2>2. Stays(Lf(t), Cr(Lf(t)))
    BY <2>1, CursorStays
  <2> QED
    BY <2>2, LfScrolls, ScrollsAndStays DEF NextLine
<1>2. Scrolls(t, IndexUp(t))
  <2>1. t \in TermType /\ Ordered(t) /\ t.visual = TotalHistory(t)
    BY DuringIs
  <2>2. Scrolls(t, MoveCursor(t, t.x, t.y - 1))
    BY <2>1, MoveCursorStays, StayingScrolls
  <2>3. Slides(t, t.top, t.bot, -1) /\ -1 \in Int
    BY DEF Slides
  <2>4. Scrolls(t, ScrollRegion(t, t.top, t.bot, -1))
    BY <2>1, <2>3, CursorIsHere, RegionScrolls
  <2> QED
    BY <2>2, <2>4 DEF IndexUp
<1> QED
  BY <1>1, <1>2

\* A character is printed, on a new line when the row is full.
LEMMA PrintPerforms ==
  ASSUME NEW t, NEW p, NEW st, During(t, p, st), NEW c \in Chars
  PROVE  Performs(t, DoNormalChar(t, c))
<1> DEFINE u == IF t.x < Width THEN t
                ELSE IF t.wrap THEN NextLine(t) ELSE [t EXCEPT !.x = Width - 1]
           m == ChangedLine(u, u.y, u.x, u.x)
           n == [m EXCEPT !.text[m.lines[m.y]][m.x] = c, !.x = @ + 1]
<1>0. t \in TermType /\ Ordered(t)
  BY DuringIs
<1>1. Scrolls(t, u) /\ Ordered(u)
  <2>1. CASE t.x < Width
    BY <1>0, <2>1, StayingScrolls DEF Stays
  <2>2. CASE ~(t.x < Width) /\ t.wrap
    BY <2>2, LinesScroll, MovingDuring, DuringIs
  <2>3. CASE ~(t.x < Width) /\ ~t.wrap
    <3>1. Width - 1 \in 0 .. Width
      BY Sizes
    <3>2. Alike(t, u) /\ Stays(t, u)
      BY <1>0, <2>3, <3>1 DEF Alike, Stays, TermType
    <3>3. During(u, p, st)
      BY <3>2, AlikeDuring
    <3> QED
      BY <1>0, <3>2, <3>3, StayingScrolls, DuringIs
  <2> QED
    BY <2>1, <2>2, <2>3
<1>2. DoNormalChar(t, c) = n
  BY DEF DoNormalChar
<1> HIDE DEF u
<1>3. u \in TermType /\ u.y \in Rows /\ u.x \in Nat
  BY <1>1, Sizes DEF Ordered, TermType
<1>4. /\ m.text = u.text /\ m.lines = u.lines /\ m.save = u.save /\ m.full = u.full
      /\ m.visual = u.visual /\ m.y = u.y
  BY <1>3 DEF ChangedLine, TermType
<1>5. m \in TermType
  BY <1>3, ChangedLineTypes
<1> HIDE DEF m
<1>6. /\ n.lines = u.lines /\ n.save = u.save /\ n.full = u.full /\ n.visual = u.visual
      /\ \A l \in Lines : l # u.lines[u.y] => n.text[l] = u.text[l]
  <2> DEFINE text == [m.text EXCEPT ![m.lines[m.y]] = [@ EXCEPT ![m.x] = c]]
  <2>1. n = [m EXCEPT !.text = text, !.x = m.x + 1]
    BY <1>5 DEF TermType
  <2>2. \A l \in Lines : l # m.lines[m.y] => text[l] = m.text[l]
    BY <1>5 DEF TermType
  <2> HIDE DEF text, n
  <2>3. /\ n.text = text /\ n.lines = m.lines /\ n.save = m.save /\ n.full = m.full
        /\ n.visual = m.visual
    BY <1>5, <2>1 DEF TermType
  <2> QED
    BY <1>4, <2>2, <2>3
<1> HIDE DEF n
<1>7. Writes(u, n)
  BY <1>1, <1>3, <1>6, LineWritten
<1> QED
  BY <1>1, <1>2, <1>7 DEF Performs

\* A row is shifted.
LEMMA ShiftTextWrites ==
  ASSUME NEW t, Ordered(t), NEW y \in Rows, NEW x0 \in Cols, NEW n \in Int
  PROVE  Writes(t, ShiftText(t, y, x0, n))
<1> DEFINE row == t.text[t.lines[y]]
           new == [x \in Cols |-> IF x < x0 THEN row[x]
                                  ELSE IF x - n \in x0 .. Width - 1 THEN row[x - n] ELSE Blank]
           text == [t.text EXCEPT ![t.lines[y]] = new]
           m == [t EXCEPT !.text = text]
           u == ChangedLine(m, y, x0, Width - 1)
<1>0. t \in TermType /\ t.lines[y] \in Lines
  BY DEF Ordered, TermType
<1>1. ShiftText(t, y, x0, n) = u
  BY DEF ShiftText
<1>2. \A l \in Lines : l # t.lines[y] => text[l] = t.text[l]
  BY <1>0 DEF TermType
<1> HIDE DEF text
<1>3. /\ u.text = text /\ u.lines = t.lines /\ u.save = t.save /\ u.full = t.full
      /\ u.visual = t.visual
  BY <1>0 DEF ChangedLine, TermType
<1> HIDE DEF u
<1> QED
  BY <1>1, <1>2, <1>3, LineWritten

\* Clearing columns of one row.
LEMMA ClearingWrites ==
  ASSUME NEW t, Ordered(t), NEW x0 \in Nat, NEW x1 \in Nat, NEW y \in Rows
  PROVE  Writes(t, ClearArea(t, x0, y, x1, y))
<1>1. y \in Int /\ t \in TermType /\ Lined(t)
  BY Sizes DEF Rows, Ordered
<1>2. Erased(t, ClearArea(t, x0, y, x1, y), x0, y, x1, y)
  BY <1>1, ClearAreaErases
<1> QED
  BY <1>1, <1>2, ErasingEdits

\* Clearing whole rows.
LEMMA ClearingFills ==
  ASSUME NEW t, Ordered(t), NEW y0 \in Int, NEW y1 \in Int
  PROVE  /\ KeepsPast(t, ClearArea(t, 0, y0, Width - 1, y1))
         /\ \A z \in Rows : RowsOf(ClearArea(t, 0, y0, Width - 1, y1))[z]
                              \in {RowsOf(t)[z], BlankRow, AlignRow}
<1> DEFINE u == ClearArea(t, 0, y0, Width - 1, y1)
<1>1. 0 \in Nat /\ Width - 1 \in Nat /\ t \in TermType /\ Lined(t)
  BY Sizes DEF Ordered
<1>2. Erased(t, u, 0, y0, Width - 1, y1)
  BY <1>1, ClearAreaErases
<1> HIDE DEF u
<1>3. KeepsPast(t, u) /\ \A z \in Rows : RowsOf(u)[z] \in {RowsOf(t)[z], BlankRow, AlignRow}
  BY <1>1, <1>2, ErasingEdits
<1> QED
  BY <1>3 DEF u

\* Characters are inserted, deleted and erased.
LEMMA CharPerforms ==
  ASSUME NEW t, NEW p, NEW st, During(t, p, st), NEW n \in 1 .. Width
  PROVE  /\ Performs(t, InsertChar(t, n))
         /\ Performs(t, DeleteChar(t, n))
         /\ Performs(t, EraseChar(t, n))
<1>0. Ordered(t) /\ Width - 1 \in Nat /\ n \in Int /\ -n \in Int /\ t.x \in Nat /\ t.y \in Rows
  BY DuringIs, CursorIsHere, Sizes
<1>1. Writes(t, ClearArea(t, t.x, t.y, Width - 1, t.y))
  BY <1>0, ClearingWrites
<1>2. ASSUME ~(n >= Width - t.x)
      PROVE  Writes(t, ShiftText(t, t.y, t.x, n)) /\ Writes(t, ShiftText(t, t.y, t.x, -n))
  <2>1. t.x \in Cols
    BY <1>2, CursorIsHere, Sizes DEF Cols
  <2> QED
    BY <1>0, <2>1, ShiftTextWrites
<1>3. Writes(t, EraseChar(t, n))
  <2>1. t.x + Least(n, Width - t.x) - 1 \in Nat
    BY CursorIsHere, Sizes DEF Least
  <2> QED
    BY <1>0, <2>1, ClearingWrites DEF EraseChar
<1>4. Writes(t, InsertChar(t, n)) /\ Writes(t, DeleteChar(t, n))
  BY <1>1, <1>2 DEF InsertChar, DeleteChar
<1> QED
  BY <1>3, <1>4, WritingPerforms

\* Lines are inserted and deleted.
LEMMA LinePerforms ==
  ASSUME NEW t, NEW p, NEW st, During(t, p, st), NEW n \in 1 .. Height - 1
  PROVE  Performs(t, InsertLine(t, n)) /\ Performs(t, DeleteLine(t, n))
<1>0. /\ Ordered(t) /\ t.visual = TotalHistory(t) /\ n \in Int /\ -n \in Int
      /\ t.y \in Nat /\ t.y \in Int /\ t.bot \in Rows /\ t.bot \in Int
  BY DuringIs, CursorIsHere, Sizes
<1>1. Performs(t, ClearArea(t, 0, t.y, Width - 1, t.bot))
  BY <1>0, ClearingFills, FillingPerforms
<1>2. ASSUME ~(n >= RowsBelow(t))
      PROVE  /\ Scrolls(t, ScrollRegion(t, t.y, t.bot, -n))
             /\ Scrolls(t, ScrollRegion(t, t.y, t.bot, n))
  <2>1. t.y <= t.bot => RowsBelow(t) <= t.bot - t.y + 1 /\ RowsBelow(t) \in Nat
    <3>1. t.y <= t.bot => t.bot - t.y + 1 \in Nat
      BY <1>0
    <3> QED
      BY <3>1, U16Is, RemainderIsLess, Division DEF RowsBelow
  <2>2. t.y <= t.bot => Turns(t.y, t.bot, n) /\ Turns(t.y, t.bot, -n)
    BY <1>0, <1>2, <2>1 DEF Turns
  <2>3. t.y <= t.bot => Slides(t, t.y, t.bot, n) /\ Slides(t, t.y, t.bot, -n)
    BY <2>2 DEF Slides
  <2> QED
    BY <1>0, <2>3, RegionScrolls
<1>3. ASSUME ~(n >= RowsBelow(t))
      PROVE  /\ Performs(t, ScrollRegion(t, t.y, t.bot, -n))
             /\ Performs(t, ScrollRegion(t, t.y, t.bot, n))
  BY <1>2, <1>3, ScrollingPerforms
<1> QED
  BY <1>1, <1>3 DEF InsertLine, DeleteLine

\* A line or the display is erased.
LEMMA ErasePerforms ==
  ASSUME NEW t, NEW p, NEW st, During(t, p, st), NEW how \in 0 .. 2
  PROVE  Performs(t, EraseLine(t, how)) /\ Performs(t, EraseDisplay(t, how))
<1>0. /\ Ordered(t) /\ t.y \in Rows /\ t.x \in Nat /\ Width - 1 \in Nat /\ 0 \in Nat
      /\ t.y + 1 \in Int /\ t.y - 1 \in Int /\ 0 \in Int /\ Height - 1 \in Int
  BY DuringIs, CursorIsHere, Sizes
<1>1. \A h \in 0 .. 2 : Writes(t, EraseLine(t, h))
  BY <1>0, ClearingWrites DEF EraseLine
<1>2. \A h \in 0 .. 2 : Ordered(EraseLine(t, h))
  BY EraseDuring, DuringIs
<1>3. ASSUME how = 0
      PROVE  Performs(t, EraseDisplay(t, how))
  <2>1. Performs(t, ClearArea(EraseLine(t, 0), 0, t.y + 1, Width - 1, Height - 1))
    <3> DEFINE w == EraseLine(t, 0)
    <3>1. Writes(t, w) /\ Ordered(w)
      BY <1>1, <1>2
    <3> HIDE DEF w
    <3>2. Performs(t, ClearArea(w, 0, t.y + 1, Width - 1, Height - 1))
      BY <1>0, <3>1, ClearingFills, WritesAndFills
    <3> QED
      BY <3>2 DEF w
  <2>2. EraseDisplay(t, how) = ClearArea(EraseLine(t, 0), 0, t.y + 1, Width - 1, Height - 1)
    BY <1>3 DEF EraseDisplay
  <2> QED
    BY <2>1, <2>2
<1>4. ASSUME how = 1
      PROVE  Performs(t, EraseDisplay(t, how))
  <2>1. Performs(t, ClearArea(EraseLine(t, 1), 0, 0, Width - 1, t.y - 1))
    <3> DEFINE w == EraseLine(t, 1)
    <3>1. Writes(t, w) /\ Ordered(w)
      BY <1>1, <1>2
    <3> HIDE DEF w
    <3>2. Performs(t, ClearArea(w, 0, 0, Width - 1, t.y - 1))
      BY <1>0, <3>1, ClearingFills, WritesAndFills
    <3> QED
      BY <3>2 DEF w
  <2>2. EraseDisplay(t, how) = ClearArea(EraseLine(t, 1), 0, 0, Width - 1, t.y - 1)
    BY <1>4 DEF EraseDisplay
  <2> QED
    BY <2>1, <2>2
<1>5. ASSUME how = 2
      PROVE  Performs(t, EraseDisplay(t, how))
  <2>1. EraseDisplay(t, how) = ClearArea(t, 0, 0, Width - 1, Height - 1)
    BY <1>5 DEF EraseDisplay
  <2> QED
    BY <1>0, <2>1, ClearingFills, FillingPerforms
<1>6. Performs(t, EraseDisplay(t, how))
  BY <1>3, <1>4, <1>5
<1> QED
  BY <1>1, <1>6, WritingPerforms

\* The alignment pattern fills the screen.
LEMMA AlignPerforms ==
  ASSUME NEW t, Ordered(t)
  PROVE  Performs(t, ScreenAlign(t))
<1> DEFINE text == [l \in DOMAIN t.text |->
                      IF \E y \in Rows : t.lines[y] = l THEN AlignRow ELSE t.text[l]]
           u == ScreenAlign(t)
<1>0. t \in TermType /\ Lined(t)
  BY DEF Ordered
<1>1. u = [t EXCEPT !.text = text, !.dirty = [y \in Rows |-> Whole]]
  BY DEF ScreenAlign
<1>2. /\ u.text = text /\ u.lines = t.lines /\ u.save = t.save /\ u.full = t.full
      /\ u.visual = t.visual
  BY <1>0, <1>1 DEF TermType
<1>3. \A l \in Lines : text[l] = IF \E y \in Rows : t.lines[y] = l THEN AlignRow ELSE t.text[l]
  BY <1>0 DEF TermType
<1> HIDE DEF text, u
<1>4. KeepsRing(t, u)
  <2>1. \A l \in Lines : l < HistoryLines => ~\E y \in Rows : t.lines[y] = l
    BY <1>0, Sizes DEF Lined, Lines
  <2> QED
    BY <1>2, <1>3, <2>1 DEF KeepsRing
<1>5. \A z \in Rows : RowsOf(u)[z] = AlignRow
  BY <1>0, <1>2, <1>3 DEF RowsOf, TermType
<1>6. Performs(t, u)
  BY <1>4, <1>5, RingIsPast, FillingPerforms
<1> QED
  BY <1>6 DEF u

\* The timer of the cursor is no part of the picture.
LEMMA ModeChangedStays ==
  ASSUME NEW t \in TermType
  PROVE  Stays(t, ModeChanged(t))
BY DEF ModeChanged, Stays, TermType

\* Nor are the modes.
LEMMA EnableModeStays ==
  ASSUME NEW t \in TermType, NEW on \in BOOLEAN,
         NEW mode \in {"crlf", "inverse", "relative", "wrap", "visible"}
  PROVE  Stays(t, EnableMode(t, mode, on))
<1>1. CASE mode \in {"crlf", "relative", "wrap"}
  <2>1. /\ Stays(t, [t EXCEPT !.crlf = on])
        /\ Stays(t, [t EXCEPT !.relative = on])
        /\ Stays(t, [t EXCEPT !.wrap = on])
    BY DEF Stays, TermType
  <2> QED
    BY <1>1, <2>1 DEF EnableMode
<1>2. CASE mode = "inverse"
  <2> DEFINE ranges == [y \in Rows |-> Whole]
  <2>1. EnableMode(t, mode, on) = [t EXCEPT !.inverse = on, !.dirty = ranges]
    BY <1>2 DEF EnableMode
  <2> HIDE DEF ranges
  <2> QED
    BY <2>1 DEF Stays, TermType
<1>3. CASE mode = "visible"
  <2> DEFINE m == [t EXCEPT !.visible = on]
  <2>1. m \in TermType /\ Stays(t, m)
    BY DEF Stays, TermType
  <2>2. EnableMode(t, mode, on) = ModeChanged(m)
    BY <1>3 DEF EnableMode
  <2> HIDE DEF m
  <2> QED
    BY <2>1, <2>2, ModeChangedStays DEF Stays
<1> QED
  BY <1>1, <1>2, <1>3

\* A reset clears the screen.
LEMMA ResetPerforms ==
  ASSUME NEW t, Ordered(t)
  PROVE  Performs(t, Reset(t))
<1> DEFINE r == Over(Defaults, t)
           w == ClearArea(r, 0, 0, Width - 1, Height - 1)
           u == ModeChanged(w)
<1>0. t \in TermType /\ 0 \in Int /\ Height - 1 \in Int /\ 0 \in Nat /\ Width - 1 \in Nat
  BY Sizes DEF Ordered
<1>1. /\ r \in TermType
      /\ r.text = t.text /\ r.lines = t.lines /\ r.save = t.save /\ r.full = t.full
      /\ r.visual = t.visual
  BY <1>0, RestoredIs
<1>2. Reset(t) = u
  BY DEF Reset
<1> HIDE DEF r
<1>3. Stays(t, r) /\ Ordered(r)
  BY <1>1 DEF Stays, Ordered, Lined, TotalHistory
<1>4. KeepsPast(r, w) /\ \A z \in Rows : RowsOf(w)[z] \in {RowsOf(r)[z], BlankRow, AlignRow}
  BY <1>0, <1>3, ClearingFills
<1>5. w \in TermType
  BY <1>0, <1>1, <1>3, ClearAreaTouched DEF Touched, Ordered
<1> HIDE DEF w
<1>6. Stays(w, u)
  BY <1>5, ModeChangedStays
<1> HIDE DEF u
<1>7. KeepsPast(t, u) /\ \A z \in Rows : RowsOf(u)[z] \in {RowsOf(t)[z], BlankRow, AlignRow}
  BY <1>3, <1>4, <1>6, StaysIs DEF KeepsPast
<1> QED
  BY <1>2, <1>7, FillingPerforms

\* Margins are set once pending scrolling is painted.
LEMMA MarginsPerform ==
  ASSUME NEW s \in ScreenType, NEW st, During(s.t, s.p, st), NEW top \in 0 .. Height, NEW bot \in Rows
  PROVE  Performs(s.t, SetMargins(s, top, bot).t)
<1> DEFINE u == IF s.t.pending # 0 THEN Update(s) ELSE s
           m == [u.t EXCEPT !.top = top, !.bot = bot]
           low == IF m.y < top THEN MoveCursor(m, m.x, top) ELSE m
           end == IF low.y > bot THEN MoveCursor(low, low.x, bot) ELSE low
<1>1. u \in ScreenType /\ Stays(s.t, u.t)
  BY UpdateIs DEF Refreshed, Stays
<1>2. SetMargins(s, top, bot) = [u EXCEPT !.t = end]
  <2>1. bot < Height
    BY Sizes DEF Rows
  <2> QED
    BY <2>1 DEF SetMargins
<1> HIDE DEF u
<1>3. m \in TermType /\ Stays(u.t, m)
  BY <1>1 DEF ScreenType, TermType, Stays
<1> HIDE DEF m
<1>4. Stays(m, low)
  BY <1>3, MoveCursorStays DEF Stays
<1>5. top \in Nat /\ bot \in Nat
  BY Sizes DEF Rows
<1>6. low \in TermType
  <2>1. m.x \in Nat
    BY <1>3, Sizes DEF TermType
  <2> QED
    BY <1>3, <1>5, <2>1, MoveCursorTypes DEF Alike
<1> HIDE DEF low
<1>7. Stays(low, end)
  BY <1>6, MoveCursorStays DEF Stays
<1> HIDE DEF end
<1>8. SetMargins(s, top, bot).t = end
  BY <1>1, <1>2 DEF ScreenType
<1>9. Stays(s.t, end)
  BY <1>1, <1>3, <1>4, <1>7 DEF Stays
<1> QED
  BY <1>8, <1>9, StayingPerforms, DuringIs

\* A function of a read is a step of the screen with its history.
LEMMA PerformingIsAStep ==
  ASSUME VInv, Performs(vt, vt')
  PROVE  Scroll!Next
<1>1. /\ ScreenRows = RowsOf(vt) /\ Past = PastOf(vt)
      /\ ScreenRows' = RowsOf(vt') /\ Past' = PastOf(vt')
      /\ (TotalHistory(vt) - vt.visual)' = BackOf(vt') /\ TotalHistory(vt) - vt.visual = BackOf(vt)
      /\ Scroll!RowIds = Rows
  BY DEF ScreenRows, Past, RowsOf, PastOf, BackOf, OldestAt, TotalHistory, Scroll!RowIds, Rows
<1>2. CASE Edits(vt, vt')
  <2>1. Past' = Past /\ (TotalHistory(vt) - vt.visual)' = TotalHistory(vt) - vt.visual
    BY <1>1, <1>2 DEF Edits, KeepsPast
  <2>2. PICK y \in Rows : \A z \in Rows \ {y} :
          ScreenRows'[z] \in {ScreenRows[z], BlankRow, AlignRow}
    BY <1>1, <1>2 DEF Edits
  <2>3. Scroll!Written(ScreenRows)
    BY <1>1, <2>2 DEF Scroll!Written
  <2> QED
    BY <2>1, <2>3 DEF Scroll!Edit, Scroll!Next
<1>3. ASSUME NEW w, Repeats(vt, w), Writes(w, vt')
      PROVE  Scroll!Next
  <2>1. PICK y \in Rows : \A z \in Rows \ {y} : RowsOf(vt')[z] = RowsOf(w)[z]
    BY <1>3 DEF Writes
  <2>2. Scroll!OneWritten(ScreenRows)
    BY <1>1, <1>3, <2>1 DEF Repeats, Scroll!OneWritten
  <2>3. (TotalHistory(vt) - vt.visual)' = TotalHistory(vt) - vt.visual
    BY <1>1, <1>3 DEF Repeats, Writes, KeepsPast
  <2>4. Past' = Kept(Past \o TopOf(vt, 1))
    BY <1>1, <1>3 DEF Repeats, Writes, KeepsPast
  <2>5. Scroll!Span(0, 0) = TopOf(vt, 1)
    <3>1. 0 - 0 + 1 = 1 /\ \A i \in 1 .. 1 : 0 + i - 1 = i - 1
      OBVIOUS
    <3> QED
      BY <1>1, <3>1 DEF Scroll!Span, TopOf
  <2>6. Past' = Scroll!Newest(Past \o Scroll!Span(0, 0))
    BY <2>4, <2>5 DEF Scroll!Newest, Kept
  <2>7. vt.top = 0 /\ vt.bot = 0
    BY <1>3 DEF Repeats
  <2> QED
    BY <2>2, <2>3, <2>6, <2>7 DEF Scroll!Repeat, Scroll!Next
<1>4. ASSUME NEW w, NEW a \in Rows, NEW b \in Rows, NEW n \in a - b .. b - a,
             Shifts(vt, w, a, b, n), Writes(w, vt')
      PROVE  Scroll!Next
  <2>2. Shifts(vt, w, a, b, n)
    BY <1>4
  <2>3. PICK y \in Rows : \A z \in Rows \ {y} : RowsOf(vt')[z] = RowsOf(w)[z]
    BY <1>4 DEF Writes
  <2>4. Scroll!Shifted(a, b, n) = ShiftedRows(RowsOf(vt), a, b, n)
    BY <1>1 DEF Scroll!Shifted, ShiftedRows
  <2>5. \A z \in Rows \ {y} : ScreenRows'[z] = Scroll!Shifted(a, b, n)[z]
    BY <1>1, <2>2, <2>3, <2>4 DEF Shifts
  <2>6. (TotalHistory(vt) - vt.visual)' = TotalHistory(vt) - vt.visual
    BY <1>1, <1>4, <2>2 DEF Shifts, Writes, KeepsPast
  <2>7. Past' = Kept(Past \o Leaving(vt, a, n))
    BY <1>1, <1>4, <2>2 DEF Shifts, Writes, KeepsPast
  <2>8. a \in Int /\ b \in Int /\ n \in Int
    BY Sizes DEF Rows
  <2>9. Scroll!Span(0, n - 1) = TopOf(vt, n)
    <3>1. (n - 1) - 0 + 1 = n /\ \A i \in 1 .. n : 0 + i - 1 = i - 1
      BY <2>8
    <3> QED
      BY <1>1, <3>1 DEF Scroll!Span, TopOf
  <2>10. \A s : Scroll!Newest(s) = Kept(s)
    BY DEF Scroll!Newest, Kept
  <2>11. Past' = Scroll!Newest(Past \o (IF a = 0 /\ n > 0 THEN Scroll!Span(0, n - 1) ELSE <<>>))
    BY <2>7, <2>9, <2>10 DEF Leaving
  <2>12. Scroll!OneWritten(Scroll!Shifted(a, b, n))
    BY <1>1, <2>5 DEF Scroll!OneWritten
  <2>13. Scroll!Scroll(a, b, n)
    BY <2>12, <2>6, <2>11 DEF Scroll!Scroll
  <2> QED
    BY <1>1, <2>13 DEF Scroll!Next
<1>5. ASSUME NEW w, Scrolls(vt, w), Writes(w, vt')
      PROVE  Scroll!Next
  BY <1>3, <1>4, <1>5 DEF Scrolls
<1> QED
  BY <1>2, <1>5 DEF Performs

\* The view is moved, or stays.
LooksAt(t, u) ==
  u.text = t.text /\ u.lines = t.lines /\ u.save = t.save /\ u.full = t.full

\* Moving the view is a step of the screen with its history.
LEMMA LookingIsAStep ==
  ASSUME VInv, VInv', LooksAt(vt, vt')
  PROVE  Scroll!Next
<1>1. /\ ScreenRows = RowsOf(vt) /\ Past = PastOf(vt)
      /\ ScreenRows' = RowsOf(vt') /\ Past' = PastOf(vt')
      /\ (TotalHistory(vt) - vt.visual)' = TotalHistory(vt') - vt'.visual
  BY DEF ScreenRows, Past, RowsOf, PastOf, OldestAt, TotalHistory
<1>2. ScreenRows' = ScreenRows /\ TotalHistory(vt') = TotalHistory(vt) /\ OldestAt(vt') = OldestAt(vt)
  BY <1>1 DEF LooksAt, RowsOf, TotalHistory, OldestAt
<1>3. Past' = Past
  BY <1>1, <1>2 DEF LooksAt, PastOf
<1>4. Ordered(vt) /\ Ordered(vt')
  BY DEF VInv, Between, During
<1>5. TotalHistory(vt) \in Nat /\ Len(Past) = TotalHistory(vt) /\ vt'.visual \in 0 .. TotalHistory(vt')
  BY <1>1, <1>4, TextsAre DEF Ordered
<1>6. (TotalHistory(vt) - vt.visual)' \in 0 .. Len(Past)
  BY <1>1, <1>2, <1>5
<1> QED
  BY <1>2, <1>3, <1>6 DEF Scroll!Look, Scroll!Next

\* The cursor is drawn over the picture.
LEMMA UpdateCursorStays ==
  ASSUME NEW s \in ScreenType
  PROVE  Stays(s.t, UpdateCursor(s).t)
BY UpdateCursorIs DEF TellsCursor, Stays

\* So is it where the cursor stands.
LEMMA DrawCursorStays ==
  ASSUME NEW s \in ScreenType
  PROVE  Stays(s.t, DrawCursor(s).t)
<1> DEFINE off == FALSE
           v == [s.t EXCEPT !.cx = s.t.x, !.cy = s.t.y, !.showed = off]
           w == [s EXCEPT !.t = v]
<1>1. CASE ~CursorVisible(s.t)
  BY <1>1 DEF DrawCursor, Stays
<1>2. CASE CursorVisible(s.t)
  <2>1. DrawCursor(s) = UpdateCursor(w)
    BY <1>2 DEF DrawCursor
  <2>2. off \in BOOLEAN /\ s.t \in TermType
    BY DEF ScreenType
  <2> HIDE DEF off
  <2>3. s.t.x \in Nat /\ s.t.y \in Nat
    BY <2>2, Sizes DEF TermType, Rows
  <2>4. v \in TermType /\ Stays(s.t, v)
    BY <2>2, <2>3 DEF TermType, Stays
  <2> HIDE DEF v
  <2>5. w \in ScreenType /\ w.t = v
    BY <2>4 DEF ScreenType
  <2> HIDE DEF w
  <2> QED
    BY <2>1, <2>4, <2>5, UpdateCursorStays DEF Stays
<1> QED
  BY <1>1, <1>2

\* The shell comes to the panel with what it had.
LEMMA ExposeStays ==
  ASSUME NEW s \in ScreenType
  PROVE  Stays(s.t, Expose(s).t)
<1> DEFINE q == Paint(s.t, s.p, Cols \X Rows)
           painted == [s EXCEPT !.p = q]
<1>1. painted.t = s.t
  BY DEF ScreenType
<1>2. CASE ~(CursorVisible(s.t) /\ s.t.cx < Width /\ s.t.cy < Height)
  BY <1>1, <1>2 DEF Expose, Stays
<1>3. CASE CursorVisible(s.t) /\ s.t.cx < Width /\ s.t.cy < Height
  <2> DEFINE off == FALSE
             v == [s.t EXCEPT !.showed = off]
             w == [painted EXCEPT !.t = v]
             on == ~v.showed
             u == [v EXCEPT !.showed = on]
  <2>1. Expose(s) = UpdateCursor(w)
    BY <1>1, <1>3 DEF Expose, ScreenType
  <2>2. s.t \in TermType /\ off \in BOOLEAN
    BY DEF ScreenType
  <2> HIDE DEF off
  <2>3. v \in TermType /\ Stays(s.t, v)
    BY <2>2 DEF TermType, Stays
  <2>4. w.t = v
    BY DEF ScreenType
  <2> HIDE DEF v, w
  <2>5. UpdateCursor(w).t \in {v, u}
    BY <2>4 DEF UpdateCursor
  <2>6. on \in BOOLEAN
    OBVIOUS
  <2> HIDE DEF on
  <2>7. Stays(v, u)
    BY <2>3, <2>6 DEF TermType, Stays
  <2> HIDE DEF u
  <2> QED
    BY <2>1, <2>3, <2>5, <2>7 DEF Stays
<1> QED
  BY <1>2, <1>3

\* And so does all that comes with it.
LEMMA ActivatedStays ==
  ASSUME NEW s \in ScreenType
  PROVE  Stays(s.t, Activated(s).t)
<1> DEFINE on == TRUE
           v == [s.t EXCEPT !.active = on]
           u == ModeChanged(v)
           w == [s EXCEPT !.t = u]
<1>1. Activated(s) = Expose(w)
  BY DEF Activated
<1>2. s.t \in TermType /\ on \in BOOLEAN
  BY DEF ScreenType
<1> HIDE DEF on
<1>3. v \in TermType /\ Stays(s.t, v)
  BY <1>2 DEF TermType, Stays
<1> HIDE DEF v
<1>4. u \in TermType /\ Stays(v, u)
  BY <1>3, ModeChangedIs, ModeChangedStays
<1> HIDE DEF u
<1>5. w \in ScreenType /\ w.t = u
  BY <1>4 DEF ScreenType
<1> HIDE DEF w
<1> QED
  BY <1>1, <1>3, <1>4, <1>5, ExposeStays DEF Stays

\* The view moves.
LEMMA HistoryDisplayLooks ==
  ASSUME NEW s \in ScreenType, Ordered(s.t), NEW v \in Int
  PROVE  LooksAt(s.t, HistoryDisplay(s, v).t)
<1> DEFINE to == Most(0, Least(v, TotalHistory(s.t)))
           m == [s.t EXCEPT !.visual = to]
           u == ModeChanged(m)
           q == Paint(u, s.p, Cols \X Rows)
           w == [t |-> u, p |-> q]
<1>0. s.t \in TermType /\ s.p \in PanelType
  BY DEF ScreenType
<1>1. CASE HistoryLines = 0 \/ to = s.t.visual
  BY <1>1 DEF HistoryDisplay, LooksAt
<1>2. CASE ~(HistoryLines = 0 \/ to = s.t.visual)
  <2>1. HistoryDisplay(s, v) = DrawCursor(w)
    BY <1>2 DEF HistoryDisplay
  <2>2. to \in Nat /\ to <= TotalHistory(s.t)
    <3>1. TotalHistory(s.t) \in Nat
      BY HistoryFits, Sizes
    <3> QED
      BY <3>1 DEF Most, Least
  <2> HIDE DEF to
  <2>3. m \in TermType /\ LooksAt(s.t, m) /\ m.visual = to
    BY <1>0, <2>2 DEF TermType, LooksAt
  <2> HIDE DEF m
  <2>4. u \in TermType /\ Stays(m, u)
    BY <2>3, ModeChangedIs, ModeChangedStays
  <2> HIDE DEF u
  <2>5. Ordered(u)
    BY <2>2, <2>3, <2>4 DEF Ordered, Lined, LooksAt, Stays, TotalHistory
  <2>6. q \in PanelType
    BY <1>0, <2>5, PaintAllIs
  <2> HIDE DEF q
  <2>7. w \in ScreenType /\ w.t = u
    BY <2>4, <2>6 DEF ScreenType
  <2> HIDE DEF w
  <2> QED
    BY <2>1, <2>3, <2>4, <2>7, DrawCursorStays DEF Stays, LooksAt
<1> QED
  BY <1>1, <1>2

\* A new shell shows blank rows and remembers none.
LEMMA ShellShowsNothing ==
  ASSUME Numbered, NEW t, Stays(NewShell.t, t)
  PROVE  RowsOf(t) = [y \in Rows |-> BlankRow] /\ PastOf(t) = <<>> /\ BackOf(t) = 0
<1> DEFINE k == NewShell.t
<1>1. /\ k.text \in [Lines -> [Cols -> Glyphs]] /\ k.save = 0 /\ k.full = FALSE /\ k.visual = 0
      /\ \A y \in Rows : k.lines[y] = HistoryLines + y
      /\ \A l \in Lines : k.text[l] = BlankRow
  BY ShellIs DEF TermType
<1> HIDE DEF k
<1>2. RowsOf(t) = RowsOf(k) /\ PastOf(t) = PastOf(k) /\ BackOf(t) = BackOf(k)
  BY StaysIs DEF KeepsPast, k
<1>3. RowsOf(k) = [y \in Rows |-> BlankRow]
  <2>1. \A y \in Rows : HistoryLines + y \in Lines
    BY Sizes DEF Rows, Lines
  <2>2. \A y \in Rows : k.text[k.lines[y]] = BlankRow
    BY <1>1, <2>1
  <2> QED
    BY <2>2 DEF RowsOf
<1>4. TotalHistory(k) = 0
  BY <1>1 DEF TotalHistory
<1>5. PastOf(k) = <<>>
  <2>1. 1 .. TotalHistory(k) = {}
    BY <1>4
  <2> QED
    BY <2>1 DEF PastOf
<1>6. BackOf(k) = 0
  BY <1>1, <1>4 DEF BackOf
<1> QED
  BY <1>2, <1>3, <1>5, <1>6

\* The terminal begins as an empty screen.
LEMMA BeginsEmpty ==
  Numbered /\ Init => Scroll!Init
<1> SUFFICES ASSUME Numbered, Init
             PROVE  Scroll!Init
  OBVIOUS
<1>1. PICK s \in {NewShell, Activated(NewShell)} : vt = s.t
  BY DEF Init
<1>2. NewShell \in ScreenType
  <2>1. NewShell = [t |-> NewShell.t, p |-> NewShell.p]
    BY DEF NewShell
  <2> QED
    BY <2>1, ShellIs, OtherIs DEF ScreenType
<1>3. Stays(NewShell.t, NewShell.t) /\ Stays(NewShell.t, Activated(NewShell).t)
  BY <1>2, ActivatedStays DEF Stays
<1>4. Stays(NewShell.t, vt)
  BY <1>1, <1>3
<1>5. RowsOf(vt) = [y \in Rows |-> BlankRow] /\ PastOf(vt) = <<>> /\ BackOf(vt) = 0
  BY <1>4, ShellShowsNothing
<1>6. /\ ScreenRows = RowsOf(vt) /\ Past = PastOf(vt) /\ TotalHistory(vt) - vt.visual = BackOf(vt)
      /\ Scroll!RowIds = Rows
  BY DEF ScreenRows, Past, RowsOf, PastOf, BackOf, OldestAt, Scroll!RowIds, Rows
<1> QED
  BY <1>5, <1>6 DEF Scroll!Init

\* A function of a read.
LEMMA FunctionIsAStep ==
  ASSUME VInv, NEW name, NEW u, Does(name, To(u)),
         During(vt, panel, stray) => Performs(vt, u)
  PROVE  Scroll!Next
<1>1. reading # -1
  BY DEF Does
<1>2. During(vt, panel, stray)
  BY <1>1 DEF VInv
<1>3. Screen \in ScreenType /\ Screen.t = vt
  BY ScreenIs
<1>4. vt' = u
  BY <1>3 DEF To, ScreenType, Does, Becomes
<1> QED
  BY <1>2, <1>4, PerformingIsAStep

\* The functions that print.
LEMMA PrintingIsAStep ==
  ASSUME VInv, Printing
  PROVE  Scroll!Next
<1>0. ASSUME NEW u, Stays(vt, u), During(vt, panel, stray)
      PROVE  Performs(vt, u)
  BY <1>0, StayingPerforms, DuringIs
<1>1. vt \in TermType
  BY DEF VInv
<1>2. ASSUME NEW c \in Chars, Does("print", To(DoNormalChar(vt, c)))
      PROVE  Scroll!Next
  BY <1>2, PrintPerforms, FunctionIsAStep
<1>3. CASE Does("lf", To(Lf(vt)))
  <2>1. During(vt, panel, stray) => Performs(vt, Lf(vt))
    BY LfScrolls, ScrollingPerforms
  <2> QED
    BY <1>3, <2>1, FunctionIsAStep
<1>4. CASE Does("cr", To(Cr(vt)))
  <2>1. During(vt, panel, stray) => Performs(vt, Cr(vt))
    BY <1>0, <1>1, CursorStays
  <2> QED
    BY <1>4, <2>1, FunctionIsAStep
<1>5. CASE Does("bs", To(Bs(vt)))
  <2>1. During(vt, panel, stray) => Performs(vt, Bs(vt))
    BY <1>0, <1>1, CursorStays
  <2> QED
    BY <1>5, <2>1, FunctionIsAStep
<1>6. CASE Does("tab", To(Tab(vt)))
  <2>1. During(vt, panel, stray) => Performs(vt, Tab(vt))
    BY <1>0, <1>1, CursorStays
  <2> QED
    BY <1>6, <2>1, FunctionIsAStep
<1>7. CASE Does("tab", To(SetTab(vt)))
  <2>1. During(vt, panel, stray) => Performs(vt, SetTab(vt))
    BY <1>0, <1>1, CursorStays
  <2> QED
    BY <1>7, <2>1, FunctionIsAStep
<1>8. ASSUME NEW all \in BOOLEAN, Does("tab", To(ClearTab(vt, all)))
      PROVE  Scroll!Next
  <2>1. During(vt, panel, stray) => Performs(vt, ClearTab(vt, all))
    BY <1>0, <1>1, CursorStays
  <2> QED
    BY <1>8, <2>1, FunctionIsAStep
<1> QED
  BY <1>2, <1>3, <1>4, <1>5, <1>6, <1>7, <1>8 DEF Printing

\* The functions that move the cursor.
LEMMA MovingIsAStep ==
  ASSUME VInv, Moving
  PROVE  Scroll!Next
<1>0. ASSUME NEW u, Stays(vt, u), During(vt, panel, stray)
      PROVE  Performs(vt, u)
  BY <1>0, StayingPerforms, DuringIs
<1>1. vt \in TermType
  BY DEF VInv
<1>2. During(vt, panel, stray) => Performs(vt, NextLine(vt)) /\ Performs(vt, IndexUp(vt))
  BY LinesScroll, ScrollingPerforms
<1>3. CASE Does("nextline", To(NextLine(vt)))
  BY <1>2, <1>3, FunctionIsAStep
<1>4. CASE Does("indexup", To(IndexUp(vt)))
  BY <1>2, <1>4, FunctionIsAStep
<1>5. CASE Does("save", To(SaveCursor(vt)))
  <2>1. During(vt, panel, stray) => Performs(vt, SaveCursor(vt))
    BY <1>0, <1>1, CursorStays
  <2> QED
    BY <1>5, <2>1, FunctionIsAStep
<1>6. CASE Does("save", To(RestoreCursor(vt)))
  <2>1. During(vt, panel, stray) => Performs(vt, RestoreCursor(vt))
    BY <1>0, <1>1, CursorStays
  <2> QED
    BY <1>6, <2>1, FunctionIsAStep
<1>7. ASSUME NEW dx \in {-1, 0, 1}, NEW dy \in {-1, 0, 1}, Does("move", To(CursorBy(vt, dx, dy)))
      PROVE  Scroll!Next
  <2>1. During(vt, panel, stray) => Performs(vt, CursorBy(vt, dx, dy))
    BY <1>0, <1>1, CursorStays
  <2> QED
    BY <1>7, <2>1, FunctionIsAStep
<1>8. ASSUME NEW x \in Cols, NEW y \in Rows, Does("position", To(CursorPosition(vt, x, y)))
      PROVE  Scroll!Next
  <2>1. During(vt, panel, stray) => Performs(vt, CursorPosition(vt, x, y))
    BY <1>0, <1>1, CursorStays
  <2> QED
    BY <1>8, <2>1, FunctionIsAStep
<1> QED
  BY <1>3, <1>4, <1>5, <1>6, <1>7, <1>8 DEF Moving

\* The functions that edit.
LEMMA EditingIsAStep ==
  ASSUME VInv, Editing
  PROVE  Scroll!Next
<1>1. ASSUME NEW n \in 1 .. Width, Does("char", To(InsertChar(vt, n)))
      PROVE  Scroll!Next
  BY <1>1, CharPerforms, FunctionIsAStep
<1>2. ASSUME NEW n \in 1 .. Width, Does("char", To(DeleteChar(vt, n)))
      PROVE  Scroll!Next
  BY <1>2, CharPerforms, FunctionIsAStep
<1>3. ASSUME NEW n \in 1 .. Width, Does("char", To(EraseChar(vt, n)))
      PROVE  Scroll!Next
  BY <1>3, CharPerforms, FunctionIsAStep
<1>4. ASSUME NEW n \in 1 .. Height - 1, Does("line", To(InsertLine(vt, n)))
      PROVE  Scroll!Next
  BY <1>4, LinePerforms, FunctionIsAStep
<1>5. ASSUME NEW n \in 1 .. Height - 1, Does("line", To(DeleteLine(vt, n)))
      PROVE  Scroll!Next
  BY <1>5, LinePerforms, FunctionIsAStep
<1>6. ASSUME NEW how \in 0 .. 2, Does("erase", To(EraseLine(vt, how)))
      PROVE  Scroll!Next
  BY <1>6, ErasePerforms, FunctionIsAStep
<1>7. ASSUME NEW how \in 0 .. 2, Does("erase", To(EraseDisplay(vt, how)))
      PROVE  Scroll!Next
  BY <1>7, ErasePerforms, FunctionIsAStep
<1>8. CASE Does("align", To(ScreenAlign(vt)))
  BY <1>8, AlignPerforms, DuringIs, FunctionIsAStep
<1> QED
  BY <1>1, <1>2, <1>3, <1>4, <1>5, <1>6, <1>7, <1>8 DEF Editing

\* The functions that set margins and modes.
LEMMA SettingIsAStep ==
  ASSUME VInv, Setting
  PROVE  Scroll!Next
<1>1. ASSUME NEW top \in 0 .. Height, NEW bot \in Rows, Does("margins", SetMargins(Screen, top, bot))
      PROVE  Scroll!Next
  <2>1. reading # -1
    BY <1>1 DEF Does
  <2>2. Screen \in ScreenType /\ Screen.t = vt /\ During(Screen.t, Screen.p, stray)
    BY <2>1, ScreenIs DEF VInv
  <2>3. Performs(vt, SetMargins(Screen, top, bot).t)
    BY <2>2, MarginsPerform
  <2>4. vt' = SetMargins(Screen, top, bot).t
    BY <1>1 DEF Does, Becomes
  <2> QED
    BY <2>3, <2>4, PerformingIsAStep
<1>2. ASSUME NEW mode \in {"crlf", "inverse", "relative", "wrap", "visible"}, NEW on \in BOOLEAN,
             Does(mode, To(EnableMode(vt, mode, on)))
      PROVE  Scroll!Next
  <2>1. During(vt, panel, stray) => Performs(vt, EnableMode(vt, mode, on))
    BY EnableModeStays, StayingPerforms, DuringIs
  <2> QED
    BY <1>2, <2>1, FunctionIsAStep
<1>3. CASE Does("reset", To(Reset(vt)))
  BY <1>3, ResetPerforms, DuringIs, FunctionIsAStep
<1> QED
  BY <1>1, <1>2, <1>3 DEF Setting

\* What the front end does between two reads, and the beginning and the end of one.
LEMMA EventsLook ==
  ASSUME VInv, \/ BeginInput \/ EndInput \/ HistoryScrolls \/ Activate \/ Deactivate
               \/ Alarm \/ TimerSignal
  PROVE  LooksAt(vt, vt')
<1>0. /\ Screen \in ScreenType /\ Screen.t = vt /\ Screen.p = panel /\ vt \in TermType
      /\ Ordered(vt) /\ TotalHistory(vt) \in Int
  BY ScreenIs, VIsSound, Sizes
<1>1. CASE BeginInput
  <2> DEFINE s == HistoryDisplay(Screen, TotalHistory(vt))
             u == IF CursorVisible(s.t) THEN ChangedLine(s.t, s.t.y, s.t.x, s.t.x) ELSE s.t
  <2>1. LooksAt(vt, s.t)
    BY <1>0, HistoryDisplayLooks
  <2>2. s \in ScreenType
    <3>1. Between(vt, panel, stray)
      BY <1>1 DEF BeginInput, VInv
    <3> QED
      BY <1>0, <3>1, HistoryDisplayBetween
  <2>3. vt' = [s EXCEPT !.t = u].t
    BY <1>1 DEF BeginInput, Becomes
  <2> HIDE DEF s
  <2>4. LooksAt(s.t, u)
    BY <2>2 DEF LooksAt, ChangedLine, ScreenType, TermType
  <2> HIDE DEF u
  <2>5. vt' = u
    BY <2>2, <2>3 DEF ScreenType
  <2> QED
    BY <2>1, <2>4, <2>5 DEF LooksAt
<1>2. CASE EndInput
  <2> DEFINE w == Update(Screen)
  <2>1. During(vt, panel, stray) /\ vt' = DrawCursor(w).t
    BY <1>2 DEF EndInput, VInv, Becomes
  <2>2. w \in ScreenType /\ Refreshed(vt, w.t)
    BY <1>0, <2>1, UpdateIs
  <2> HIDE DEF w
  <2>3. Stays(w.t, DrawCursor(w).t)
    BY <2>2, DrawCursorStays
  <2> QED
    BY <2>1, <2>2, <2>3 DEF LooksAt, Refreshed, Stays
<1>3. CASE HistoryScrolls
  <2>1. PICK by \in {Height, -Height} : vt' = HistoryDisplay(Screen, vt.visual + by).t
    BY <1>3 DEF HistoryScrolls, Event, Becomes
  <2>2. vt.visual + by \in Int
    BY <1>0, <2>1, Sizes DEF TermType
  <2> QED
    BY <1>0, <2>1, <2>2, HistoryDisplayLooks
<1>4. CASE Activate
  <2>1. vt' = Activated(Screen).t
    BY <1>4 DEF Activate, Event, Becomes
  <2> QED
    BY <1>0, <2>1, ActivatedStays DEF Stays, LooksAt
<1>5. CASE Deactivate
  <2>1. vt' = [vt EXCEPT !.active = FALSE, !.timer = FALSE]
    BY <1>5 DEF Deactivate, Event, Becomes
  <2> QED
    BY <1>0, <2>1 DEF TermType, LooksAt
<1>6. CASE Alarm
  BY <1>6 DEF Alarm, LooksAt
<1>7. CASE TimerSignal
  <2>1. vt' = UpdateCursor(Screen).t
    BY <1>7 DEF TimerSignal, Becomes
  <2> QED
    BY <1>0, <2>1, UpdateCursorStays DEF Stays, LooksAt
<1> QED
  BY <1>1, <1>2, <1>3, <1>4, <1>5, <1>6, <1>7

\* Every step of the terminal is one of the screen with its history, or none.
LEMMA EveryStepMaps ==
  ASSUME VInv, VInv', [Next]_vars
  PROVE  [Scroll!Next]_(Scroll!vars)
<1>1. CASE UNCHANGED vars
  BY <1>1 DEF vars, Scroll!vars, ScreenRows, Past, TotalHistory
<1>2. CASE \/ BeginInput \/ EndInput \/ HistoryScrolls \/ Activate \/ Deactivate
           \/ Alarm \/ TimerSignal
  BY <1>2, EventsLook, LookingIsAStep
<1> QED
  BY <1>1, <1>2, PrintingIsAStep, MovingIsAStep, EditingIsAStep, SettingIsAStep DEF Next

\* Permuted line numbers, a ring of history lines and a view over both are a screen with a
\* scrollback, when the numbers of the lines fit 16 bits: every function scrolls rows as a block,
\* and the history receives the rows that leave at the top, in order, and no others, but for the
\* top row when the margins hold it alone, which is received at each line feed although it stays.
THEOREM TerminalImplementsScrollback ==
  Numbered /\ Spec => ImplementsScrollback
<1>1. VInv /\ VInv' /\ [Next]_vars => [Scroll!Next]_(Scroll!vars)
  BY EveryStepMaps
<1> QED
  BY <1>1, BeginsEmpty, TerminalInvariant, PTL DEF Spec, ImplementsScrollback, Scroll!Spec
=============================================================================
