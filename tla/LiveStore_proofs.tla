-------------------------- MODULE LiveStore_proofs --------------------------
(***************************************************************************)
(* Proofs about module LiveStore, for any number of changes, stops and     *)
(* failures.  The inductive invariant says how the snapshots that are      *)
(* still to be written relate to one another and to the row: a later       *)
(* number is a later state, and savedSeq divides them into those the row   *)
(* has overtaken and those it has not.                                     *)
(***************************************************************************)
EXTENDS LiveStore, TLAPS

(* The snapshots prepared and not yet written, persistSync's included. *)
Pending == writes \cup {w \in {shut} : proc = "shutdown"}

(* Snapshots are numbered in the order of their states. *)
Numbered ==
    /\ savedSeq <= persistSeq
    /\ \A w \in Pending : w.seq \in 1 .. persistSeq /\ w.state \in 1 .. state
    /\ \A v, w \in Pending : v.seq <= w.seq => v.state <= w.state

(* Where a snapshot stands against the row. *)
Placed ==
    \A w \in Pending :
        /\ w.seq > savedSeq => row <= w.state
        /\ ~persistOff /\ w.seq <= savedSeq => w.state <= row

(* What a stopped process, a row and a deletion mean for the rest. *)
Settled ==
    /\ ~Running => ~present /\ writes = {} /\ saver = "none" /\ savedSeq = 0 /\ persistSeq = 0
    /\ Running => row <= state
    /\ present => state > 0
    /\ proc \in {"up", "down"} => shut = NoWrite
    /\ deleted => row = NoRow /\ (persistOff \/ Pending = {}) /\ (present => ended)

(* The part of the invariant that the refinement needs. *)
Ordered == TypeOK /\ Numbered /\ Placed /\ Settled

-----------------------------------------------------------------------------
(* writeSnapshot of a pending snapshot never takes the row back, leaves     *)
(* every other snapshot on its side of savedSeq, and unless the statement   *)
(* fails or the row is gone, the row ends up at least that far.             *)
LEMMA SnapshotWritten ==
    ASSUME Ordered, Running, NEW w \in Pending, writeSnapshot(w), persistOff' = persistOff
    PROVE  /\ row' \in Nat /\ savedSeq' \in Nat /\ failures' \in Nat
           /\ failures <= failures' /\ savedSeq' <= persistSeq
           /\ row <= row' /\ row' <= state
           /\ row' # row => ~persistOff
           /\ \A v \in Pending :
                /\ v.seq > savedSeq' => row' <= v.state
                /\ ~persistOff /\ v.seq <= savedSeq' => v.state <= row'
           /\ ~persistOff /\ failures' = 0 => w.state <= row'
<1>0. /\ row \in Nat /\ savedSeq \in Nat /\ failures \in Nat /\ state \in Nat
      /\ persistSeq \in Nat /\ savedSeq <= persistSeq /\ row <= state
  BY DEF Ordered, TypeOK, Numbered, Settled
<1>1. /\ w.seq \in Nat /\ w.state \in Nat /\ w.seq <= persistSeq /\ w.state <= state
      /\ w.seq > savedSeq => row <= w.state
      /\ ~persistOff /\ w.seq <= savedSeq => w.state <= row
  BY <1>0 DEF Ordered, Numbered, Placed
<1>2. CASE ~Newer(w) /\ UNCHANGED <<row, savedSeq, failures>>
  BY <1>0, <1>1, <1>2 DEF Newer, Ordered, Placed
<1>3. CASE Newer(w) /\ row' = w.state /\ Recorded(w) /\ UNCHANGED failures
  <2>1. \A v \in Pending : /\ v.seq \in Nat /\ v.state \in Nat
                           /\ v.seq <= w.seq => v.state <= w.state
                           /\ w.seq <= v.seq => w.state <= v.state
    BY <1>0 DEF Ordered, Numbered
  <2> QED
    BY <1>0, <1>1, <1>3, <2>1 DEF Newer, Recorded
<1>4. CASE Newer(w) /\ Fails /\ UNCHANGED <<row, savedSeq>>
  BY <1>0, <1>1, <1>4 DEF Newer, Fails, Ordered, Placed
<1> QED
  BY <1>2, <1>3, <1>4 DEF writeSnapshot

(* A new snapshot, of the present state or of the one it has just moved to, *)
(* takes its place at the end.                                              *)
LEMMA SnapshotPrepared ==
    ASSUME Ordered, Running, present, ~ended,
           NEW new, new.seq = persistSeq + 1, new.state = state',
           Pending' \subseteq Pending \cup {new},
           state' \in Nat, state <= state', persistSeq' = persistSeq + 1,
           UNCHANGED <<savedSeq, row, persistOff>>
    PROVE  Numbered' /\ Placed'
<1>0. /\ row \in Nat /\ savedSeq \in Nat /\ state \in Nat /\ 0 < state
      /\ persistSeq \in Nat /\ savedSeq <= persistSeq /\ row <= state
  BY DEF Ordered, TypeOK, Numbered, Settled
<1>1. \A v \in Pending : /\ v.seq \in 1 .. persistSeq /\ v.state \in 1 .. state
                         /\ v.seq > savedSeq => row <= v.state
                         /\ ~persistOff /\ v.seq <= savedSeq => v.state <= row
  BY DEF Ordered, Numbered, Placed
<1>2. Numbered'
  BY <1>0, <1>1 DEF Ordered, Numbered
<1>3. Placed'
  BY <1>0, <1>1 DEF Placed
<1> QED
  BY <1>2, <1>3

(* With nothing added to what is pending, and row and numbers as they were, *)
(* the order stays.                                                         *)
LEMMA OrderKept ==
    ASSUME Numbered, Placed, Pending' \subseteq Pending,
           UNCHANGED <<state, persistSeq, savedSeq, row>>, persistOff => persistOff'
    PROVE  Numbered' /\ Placed'
BY DEF Numbered, Placed

-----------------------------------------------------------------------------
(* Every step keeps the invariant of the refinement. *)

(* A change of the match, followed by persist. *)
LEMMA ChangeOrdered == ASSUME Ordered, Change PROVE Ordered'
<1> DEFINE new == [seq |-> persistSeq + 1, state |-> state + 1]
<1>0. Running /\ present /\ ~ended /\ state \in Nat /\ persistSeq \in Nat
  BY DEF Change, Ordered, TypeOK
<1>1. TypeOK'
  BY <1>0 DEF Change, Ordered, TypeOK, Write_
<1>2. Pending' \subseteq Pending \cup {new}
  BY DEF Change, Pending
<1>3. Numbered' /\ Placed'
  <2>1. /\ new.seq = persistSeq + 1 /\ new.state = state'
        /\ state' \in Nat /\ state <= state' /\ persistSeq' = persistSeq + 1
        /\ UNCHANGED <<savedSeq, row, persistOff>>
    BY <1>0 DEF Change
  <2> HIDE DEF new
  <2> QED
    BY <1>0, <1>2, <2>1, SnapshotPrepared
<1>4. Settled'
  BY <1>0 DEF Change, Ordered, TypeOK, Settled, Running
<1> QED
  BY <1>1, <1>3, <1>4 DEF Ordered

(* A snapshot's goroutine. *)
LEMMA WriteOrdered == ASSUME Ordered, NEW w \in writes, Write(w) PROVE Ordered'
<1>0. Running /\ w \in Pending /\ writeSnapshot(w) /\ persistOff' = persistOff
  BY DEF Write, Pending
<1>1. Pending' \subseteq Pending
  BY DEF Write, Pending
<1>2. TypeOK'
  BY <1>0, SnapshotWritten DEF Write, Ordered, TypeOK
<1>3. Numbered' /\ Placed'
  BY <1>0, <1>1, SnapshotWritten DEF Write, Ordered, Numbered, Placed
<1>4. Settled'
  <2>1. deleted => row' = row
    BY <1>0, SnapshotWritten DEF Ordered, Settled
  <2>2. row' <= state
    BY <1>0, SnapshotWritten
  <2> QED
    BY <1>0, <1>1, <2>1, <2>2 DEF Write, Ordered, Settled, Running
<1> QED
  BY <1>2, <1>3, <1>4 DEF Ordered

(* persistSync's write. *)
LEMMA SyncOrdered == ASSUME Ordered, persistSync PROVE Ordered'
<1>0. Running /\ shut \in Pending /\ writeSnapshot(shut) /\ persistOff' = persistOff
  BY DEF persistSync, Pending, Running
<1>1. Pending' \subseteq Pending
  BY DEF persistSync, Pending
<1>2. TypeOK'
  BY <1>0, SnapshotWritten DEF persistSync, Ordered, TypeOK
<1>3. Numbered' /\ Placed'
  BY <1>0, <1>1, SnapshotWritten DEF persistSync, Ordered, Numbered, Placed
<1>4. Settled'
  <2>1. deleted => row' = row
    BY <1>0, SnapshotWritten DEF Ordered, Settled
  <2>2. row' <= state
    BY <1>0, SnapshotWritten
  <2> QED
    BY <1>0, <1>1, <2>1, <2>2 DEF persistSync, Ordered, Settled, Running
<1> QED
  BY <1>2, <1>3, <1>4 DEF Ordered

(* Shutdown up to the release of r.mu. *)
LEMMA ShutdownOrdered == ASSUME Ordered, Shutdown PROVE Ordered'
<1>1. TypeOK'
  BY DEF Shutdown, Snapshot, Ordered, TypeOK, Write_
<1>2. Numbered' /\ Placed'
  <2>1. CASE present /\ ~ended
    <3>1. Pending' \subseteq Pending \cup {Snapshot}
      BY <2>1 DEF Shutdown, Pending
    <3>2. Running /\ state \in Nat
      BY DEF Shutdown, Running, Ordered, TypeOK
    <3> QED
      BY <2>1, <3>1, <3>2, SnapshotPrepared DEF Shutdown, Snapshot
  <2>2. CASE ~(present /\ ~ended)
    BY <2>2, OrderKept DEF Shutdown, Pending, Ordered
  <2> QED
    BY <2>1, <2>2
<1>3. Settled'
  BY DEF Shutdown, Ordered, Settled, Running, Pending
<1> QED
  BY <1>1, <1>2, <1>3 DEF Ordered

(* The goroutine of announceEnd, before it removes the room. *)
LEMMA SaverOrdered ==
    ASSUME Ordered, Finish \/ SaveGame \/ removeLiveMatch \/ RemoveRoom
    PROVE  Ordered'
<1>1. CASE Finish
  <2>1. TypeOK'
    BY <1>1 DEF Finish, Ordered, TypeOK
  <2>2. Numbered' /\ Placed'
    BY <1>1, OrderKept DEF Finish, Ordered, Pending
  <2>3. Settled'
    BY <1>1 DEF Finish, Ordered, Settled, Running, Pending
  <2> QED
    BY <2>1, <2>2, <2>3 DEF Ordered
<1>2. CASE SaveGame
  <2>1. TypeOK'
    BY <1>2 DEF SaveGame, Fails, Ordered, TypeOK
  <2>2. Numbered' /\ Placed'
    BY <1>2, OrderKept DEF SaveGame, Ordered, Pending
  <2>3. Settled'
    BY <1>2 DEF SaveGame, Ordered, Settled, Running, Pending
  <2> QED
    BY <2>1, <2>2, <2>3 DEF Ordered
<1>3. CASE removeLiveMatch
  <2>1. TypeOK'
    <3>0. row \in Nat /\ failures \in Nat /\ deleted \in BOOLEAN
      BY DEF Ordered, TypeOK
    <3>a. row' \in Nat /\ failures' \in Nat
      BY <1>3, <3>0 DEF removeLiveMatch, Fails, NoRow
    <3>b. deleted' \in BOOLEAN
      <4>1. deleted' = TRUE \/ deleted' = deleted
        BY <1>3 DEF removeLiveMatch
      <4> QED
        BY <3>0, <4>1, Zenon
    <3>1. row' \in Nat /\ deleted' \in BOOLEAN /\ failures' \in Nat
      BY <3>a, <3>b
    <3>2. /\ saver' = "unlisted" /\ persistOff' = TRUE
          /\ UNCHANGED <<state, ended, present, persistSeq, savedSeq, writes, proc, shut,
                        games, stops>>
      BY <1>3 DEF removeLiveMatch
    <3>3. ended' /\ persistOff' /\ persistOff' \in BOOLEAN
      BY <3>2, <1>3 DEF removeLiveMatch, Ordered, TypeOK
    <3> QED
      BY <3>1, <3>2, <3>3 DEF Ordered, TypeOK
  <2>2. Numbered'
    BY <1>3 DEF removeLiveMatch, Ordered, Numbered, Pending
  <2>3. Placed'
    BY <1>3 DEF removeLiveMatch, NoRow, Ordered, TypeOK, Numbered, Placed, Pending
  <2>4. Settled'
    BY <1>3 DEF removeLiveMatch, NoRow, Ordered, TypeOK, Settled, Running, Pending
  <2> QED
    BY <2>1, <2>2, <2>3, <2>4 DEF Ordered
<1>4. CASE RemoveRoom
  <2>1. TypeOK'
    BY <1>4 DEF RemoveRoom, Ordered, TypeOK
  <2>2. Numbered' /\ Placed'
    BY <1>4, OrderKept DEF RemoveRoom, Ordered, Pending
  <2>3. Settled'
    BY <1>4 DEF RemoveRoom, Ordered, Settled, Running, Pending
  <2> QED
    BY <2>1, <2>2, <2>3 DEF Ordered
<1> QED
  BY <1>1, <1>2, <1>3, <1>4

(* The end of a process and the start of the next. *)
LEMMA RestartOrdered ==
    ASSUME Ordered, Exit \/ Crash \/ LoadPersisted
    PROVE  Ordered'
<1>1. ASSUME Vanish, stops' \in Nat PROVE Ordered'
  <2>1. TypeOK'
    BY <1>1 DEF Vanish, Ordered, TypeOK, Write_, NoRow, NoWrite
  <2>2. Pending' = {}
    BY <1>1 DEF Vanish, Pending
  <2>3. Settled'
    BY <1>1, <2>2 DEF Vanish, Ordered, Settled, Running
  <2> QED
    BY <1>1, <2>1, <2>2, <2>3 DEF Vanish, Ordered, Numbered, Placed
<1>2. ASSUME LoadPersisted PROVE Ordered'
  <2>1. TypeOK'
    BY <1>2 DEF LoadPersisted, Ordered, TypeOK
  <2>2. Pending' = {}
    BY <1>2 DEF LoadPersisted, Pending, Ordered, Settled, Running
  <2>3. Settled'
    BY <1>2, <2>2 DEF LoadPersisted, Ordered, TypeOK, Settled, Running, NoRow
  <2> QED
    BY <1>2, <2>1, <2>2, <2>3 DEF LoadPersisted, Ordered, Numbered, Placed
<1> QED
  BY <1>1, <1>2 DEF Exit, Crash, Ordered, TypeOK

(* Every step keeps the order of the snapshots. *)
LEMMA NextOrdered == Ordered /\ [Next]_vars => Ordered'
<1> SUFFICES ASSUME Ordered, [Next]_vars PROVE Ordered'
  OBVIOUS
<1>1. CASE UNCHANGED vars
  BY <1>1 DEF vars, room, Ordered, TypeOK, Numbered, Placed, Settled, Pending, Running
<1>2. CASE Next
  BY <1>2, ChangeOrdered, WriteOrdered, SyncOrdered, ShutdownOrdered, SaverOrdered,
     RestartOrdered DEF Next
<1> QED
  BY <1>1, <1>2

(* A new match satisfies it. *)
LEMMA InitOrdered == Init => Ordered
<1> SUFFICES ASSUME Init PROVE Ordered
  OBVIOUS
<1>1. TypeOK
  <2>1. writes \subseteq Write_ /\ shut \in Write_
    BY DEF Init, Write_, NoWrite
  <2> QED
    BY <2>1 DEF Init, TypeOK, NoRow
<1>2. Pending = {[seq |-> 1, state |-> 1]}
  BY DEF Init, Pending
<1> QED
  BY <1>1, <1>2 DEF Init, Ordered, Numbered, Placed, Settled, Running, NoRow

(* The snapshots stay in order, and a deleted row is never due again.       *)
THEOREM OrderedAlways == Spec => []Ordered
BY InitOrdered, NextOrdered, PTL DEF Spec

(* The types of LiveStore's state hold throughout. *)
THEOREM TypeCorrect == Spec => []TypeOK
BY OrderedAlways, PTL DEF Ordered

(* A row that has been deleted never comes back, whatever snapshots were    *)
(* still to be written and however often the process stops.                 *)
THEOREM DeletedStaysDeleted == Spec => []DeletedForGood
<1>1. Ordered => DeletedForGood
  BY DEF Ordered, Settled, DeletedForGood
<1> QED
  BY <1>1, OrderedAlways, PTL


-----------------------------------------------------------------------------
(* The row implements Durable. *)

(* An ordered state's step is a step of Durable, or changes nothing there.  *)
LEMMA StepDurable == Ordered /\ [Next]_vars => [Implements!Next]_(Implements!vars)
<1> DEFINE here == IF proc = "down" THEN row ELSE state
           over == ended \/ deleted
<1> SUFFICES ASSUME Ordered, Next
             PROVE  Implements!Next \/ UNCHANGED <<here, over, row, deleted>>
  BY DEF Implements!vars, vars, room
<1>0. /\ row \in Nat /\ state \in Nat /\ Ordered'
      /\ Running => row <= state
      /\ present => Running /\ state > 0
      /\ deleted => row = NoRow /\ (present => ended)
  BY NextOrdered DEF Ordered, TypeOK, Settled
<1>1. ASSUME NEW w \in Pending, writeSnapshot(w), Running, Running',
             UNCHANGED <<state, ended, deleted, persistOff>>
      PROVE  Implements!Next \/ UNCHANGED <<here, over, row, deleted>>
  <2>1. row <= row' /\ row' <= state /\ row' \in Nat /\ (row' # row => ~persistOff)
    BY <1>1, SnapshotWritten
  <2>2. row' # row => ~deleted
    BY <1>1, <2>1 DEF Ordered, Settled
  <2>3. row' # row => row' \in (row + 1) .. state
    BY <1>0, <2>1
  <2>4. ASSUME row' # row PROVE Implements!Keep
    BY <1>1, <2>2, <2>3, <2>4 DEF Implements!Keep, Running
  <2> QED
    BY <1>1, <2>4 DEF Implements!Next, Running
<1>2. CASE Change
  <2>1. Implements!Play
    BY <1>0, <1>2 DEF Change, Running, Implements!Play, Implements!Playing
  <2> QED
    BY <2>1 DEF Implements!Next
<1>3. ASSUME NEW w \in writes, Write(w)
      PROVE  Implements!Next \/ UNCHANGED <<here, over, row, deleted>>
  BY <1>1, <1>3 DEF Write, Pending, Running
<1>4. CASE persistSync
  <2>1. shut \in Pending
    BY <1>4 DEF persistSync, Pending
  <2> QED
    BY <1>1, <1>4, <2>1 DEF persistSync, Running
<1>5. CASE Finish
  <2>1. Implements!End
    BY <1>0, <1>5 DEF Finish, Running, Implements!End, Implements!Playing
  <2> QED
    BY <2>1 DEF Implements!Next
<1>6. CASE removeLiveMatch
  <2>1. ended /\ ended' = ended /\ Running /\ Running' /\ state' = state
    BY <1>6 DEF removeLiveMatch, Running, Ordered, TypeOK
  <2>2. CASE row' = NoRow /\ deleted' = TRUE
    <3>1. over /\ (over' <=> over) /\ deleted' /\ here' = here
      BY <2>1, <2>2 DEF Running
    <3>2. row' = 0
      BY <2>2 DEF NoRow
    <3>3. Implements!Delete
      BY <3>1, <3>2, Zenon DEF Implements!Delete
    <3> QED
      BY <3>3 DEF Implements!Next
  <2>3. CASE UNCHANGED <<row, deleted>>
    BY <2>1, <2>3 DEF Running
  <2> QED
    BY <1>6, <2>2, <2>3 DEF removeLiveMatch
<1>7. CASE SaveGame \/ RemoveRoom \/ Shutdown
  BY <1>7 DEF SaveGame, RemoveRoom, Shutdown, Running
<1>8. CASE Exit \/ Crash
  <2>1. proc' = "down" /\ row' = row /\ deleted' = deleted /\ ended' = FALSE
    BY <1>8 DEF Exit, Crash, Vanish
  <2>2. deleted \in BOOLEAN
    BY DEF Ordered, TypeOK
  <2>3. (ended' \/ deleted') = deleted
    BY <2>1, <2>2, Zenon
  <2>4. Implements!Restart
    BY <2>1, <2>3 DEF Implements!Restart
  <2> QED
    BY <2>4 DEF Implements!Next
<1>9. CASE LoadPersisted
  BY <1>9 DEF LoadPersisted, Running
<1> QED
  BY <1>2, <1>3, <1>4, <1>5, <1>6, <1>7, <1>8, <1>9 DEF Next

(* live_matches keeps what module Durable promises of it: states the match  *)
(* was really in, never back to an older one, and gone for good once        *)
(* deleted.                                                                 *)
THEOREM StoreImplementsDurable == Spec => DurableSpec
<1>1. Init => Implements!Init
  BY DEF Init, Implements!Init, NoRow
<1> QED
  BY <1>1, StepDurable, OrderedAlways, PTL DEF Spec, DurableSpec, Implements!Spec


-----------------------------------------------------------------------------
(* Nothing is lost: as long as no statement fails, the last change of a     *)
(* running match is in the row or still to be written, and a finished game  *)
(* is saved before its row goes.                                            *)
Kept ==
    /\ Running /\ present /\ ~ended /\ failures = 0 =>
          row = state \/ \E w \in Pending : w.state = state
    /\ ShutdownKeeps
    /\ saver \in {"saved", "unlisted", "settled"} /\ failures = 0 => games > 0
    /\ SavedBeforeDeleted

(* The write of a pending snapshot, by its goroutine or by persistSync,     *)
(* loses nothing: a snapshot that is skipped is one the row has overtaken.  *)
LEMMA WriteKept ==
    ASSUME Ordered, Ordered', Kept, Running, NEW w \in Pending, writeSnapshot(w),
           Pending \subseteq Pending' \cup {w}, Running',
           UNCHANGED <<state, ended, present, persistOff, saver, shut, games, deleted>>,
           proc' = proc \/ (proc' = "stopping" /\ w = shut)
    PROVE  Kept'
<1>0. /\ row \in Nat /\ row' \in Nat /\ state \in Nat /\ row <= row' /\ row' <= state
      /\ failures \in Nat /\ failures' \in Nat /\ failures <= failures'
      /\ ~persistOff /\ failures' = 0 => w.state <= row'
      /\ w.state \in Nat /\ shut.state \in Nat
  BY SnapshotWritten DEF Ordered, TypeOK, Write_, Numbered
<1>1. Running' /\ present' /\ ~ended' /\ failures' = 0 =>
          row' = state' \/ \E v \in Pending' : v.state = state'
  <2> SUFFICES ASSUME present, ~ended, failures' = 0
               PROVE  row' = state \/ \E v \in Pending' : v.state = state
    OBVIOUS
  <2>1. ~persistOff /\ failures = 0
    BY <1>0 DEF Ordered, TypeOK
  <2>2. CASE row = state
    BY <1>0, <2>2
  <2>3. ASSUME NEW v \in Pending, v.state = state
        PROVE  row' = state \/ \E u \in Pending' : u.state = state
    <3>1. CASE v = w
      BY <1>0, <2>1, <2>3, <3>1
    <3>2. CASE v # w
      BY <2>3, <3>2
    <3> QED
      BY <3>1, <3>2
  <2> QED
    BY <2>1, <2>2, <2>3 DEF Kept
<1>2. ShutdownKeeps'
  <2> SUFFICES ASSUME proc' = "stopping", shut # NoWrite, ~persistOff, failures' = 0
               PROVE  row' >= shut.state
    BY DEF ShutdownKeeps
  <2>1. CASE proc = "stopping"
    BY <1>0, <2>1 DEF Kept, ShutdownKeeps
  <2>2. CASE w = shut
    BY <1>0, <2>2
  <2> QED
    BY <2>1, <2>2
<1>3. failures' = 0 => failures = 0
  BY <1>0
<1> QED
  BY <1>1, <1>2, <1>3 DEF Kept, SavedBeforeDeleted

(* Every step keeps what has been kept. *)
LEMMA NextKept == Ordered /\ Kept /\ [Next]_vars => Kept'
<1> SUFFICES ASSUME Ordered, Kept, [Next]_vars PROVE Kept'
  OBVIOUS
<1>0. Ordered'
  BY NextOrdered
<1>1. CASE UNCHANGED vars
  BY <1>1 DEF vars, room, Kept, ShutdownKeeps, SavedBeforeDeleted, Pending, Running
<1>2. CASE Change
  <2>1. \E w \in Pending' : w.state = state'
    <3>1. [seq |-> persistSeq + 1, state |-> state + 1] \in Pending'
      BY <1>2 DEF Change, Pending
    <3>2. [seq |-> persistSeq + 1, state |-> state + 1].state = state'
      BY <1>2 DEF Change
    <3> QED
      BY <3>1, <3>2
  <2> QED
    BY <1>2, <2>1 DEF Change, Kept, ShutdownKeeps, SavedBeforeDeleted
<1>3. ASSUME NEW w \in writes, Write(w) PROVE Kept'
  <2>1. w \in Pending /\ Pending \subseteq Pending' \cup {w} /\ Running'
    BY <1>3 DEF Write, Pending, Running
  <2> QED
    BY <1>0, <1>3, <2>1, WriteKept DEF Write
<1>4. CASE persistSync
  <2>1. shut \in Pending /\ Pending \subseteq Pending' \cup {shut} /\ Running /\ Running'
    BY <1>4 DEF persistSync, Pending, Running
  <2> QED
    BY <1>0, <1>4, <2>1, WriteKept DEF persistSync
<1>5. CASE Shutdown
  <2>1. Running' /\ present' /\ ~ended' /\ failures' = 0 =>
            row' = state' \/ \E w \in Pending' : w.state = state'
    <3>1. CASE present /\ ~ended
      BY <1>5, <3>1 DEF Shutdown, Snapshot, Pending
    <3> QED
      BY <1>5, <3>1 DEF Shutdown
  <2>2. ShutdownKeeps'
    BY <1>5 DEF Shutdown, ShutdownKeeps, Ordered, Settled
  <2> QED
    BY <1>5, <2>1, <2>2 DEF Shutdown, Kept, SavedBeforeDeleted
<1>6. CASE Finish
  BY <1>6 DEF Finish, Kept, ShutdownKeeps, SavedBeforeDeleted
<1>7. CASE SaveGame
  <2>1. ended /\ ended' /\ games \in Nat /\ failures \in Nat
    BY <1>7 DEF SaveGame, Ordered, TypeOK
  <2>2. failures' = 0 => failures = 0 /\ games' = games + 1
    BY <1>7, <2>1 DEF SaveGame, Fails
  <2> QED
    BY <1>7, <2>1, <2>2 DEF SaveGame, Kept, ShutdownKeeps, SavedBeforeDeleted
<1>8. CASE removeLiveMatch
  <2>1. ended' /\ persistOff' /\ (failures' = 0 => failures = 0)
    BY <1>8 DEF removeLiveMatch, Fails, Ordered, TypeOK
  <2>2. failures' = 0 => games' > 0
    BY <1>8, <2>1 DEF removeLiveMatch, Kept
  <2> QED
    BY <2>1, <2>2 DEF Kept, ShutdownKeeps, SavedBeforeDeleted
<1>9. CASE RemoveRoom
  BY <1>9 DEF RemoveRoom, Kept, ShutdownKeeps, SavedBeforeDeleted
<1>10. CASE Exit \/ Crash
  BY <1>10 DEF Exit, Crash, Vanish, Kept, ShutdownKeeps, SavedBeforeDeleted, Running
<1>11. CASE LoadPersisted
  BY <1>11 DEF LoadPersisted, Kept, ShutdownKeeps, SavedBeforeDeleted, Ordered, Settled, Running
<1> QED
  BY <1>1, <1>2, <1>3, <1>4, <1>5, <1>6, <1>7, <1>8, <1>9, <1>10, <1>11 DEF Next

(* A new match has lost nothing. *)
LEMMA InitKept == Init => Kept
<1> SUFFICES ASSUME Init PROVE Kept
  OBVIOUS
<1>1. [seq |-> 1, state |-> 1] \in Pending /\ state = 1
  BY DEF Init, Pending
<1> QED
  BY <1>1 DEF Init, Kept, ShutdownKeeps, SavedBeforeDeleted

(* What has been kept stays kept. *)
THEOREM KeptAlways == Spec => []Kept
BY InitKept, NextKept, OrderedAlways, PTL DEF Spec

(* When every snapshot has been written, the row is the match. *)
THEOREM RowCatchesUp == Spec => []CaughtUp
<1>1. Kept => CaughtUp
  BY DEF Kept, CaughtUp, Pending
<1> QED
  BY <1>1, KeptAlways, PTL

(* Shutdown leaves the match in the row, at least as far as it found it. *)
THEOREM ShutdownIsKept == Spec => []ShutdownKeeps
BY KeptAlways, PTL DEF Kept

(* Without failures the row goes only after the game was saved. *)
THEOREM SavedFirst == Spec => []SavedBeforeDeleted
BY KeptAlways, PTL DEF Kept

(* The row catches up, and a shutdown keeps what it found. *)
THEOREM RowIsSound == Spec => []RowSound
<1>1. TypeOK /\ CaughtUp /\ ShutdownKeeps => RowSound
  BY DEF RowSound
<1> QED
  BY <1>1, TypeCorrect, RowCatchesUp, ShutdownIsKept, PTL
=============================================================================
