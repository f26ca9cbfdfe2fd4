----------------------------- MODULE LiveStore ------------------------------
(***************************************************************************)
(* One match and its row in live_matches (internal/game/room.go, persist   *)
(* to removeLiveMatch, and announceEnd; Manager.Shutdown, LoadPersisted).  *)
(* Each change of the match prepares a snapshot under r.mu and leaves it   *)
(* to a goroutine; those goroutines run in any order, each under           *)
(* r.persistMu.  The end of the match starts one more goroutine, which     *)
(* saves the game, deletes the row and removes the room.  The process may  *)
(* be shut down or crash at any point, and loads the row when it starts    *)
(* again; a statement of the database may fail, changing nothing.          *)
(*                                                                         *)
(* A state of the match is the number of changes that led to it; how those *)
(* changes come about is module Room.                                      *)
(***************************************************************************)
EXTENDS Naturals

CONSTANTS
    MaxState,    \* bound: changes of the match
    MaxStops,    \* bound: crashes and shutdowns
    MaxFailures  \* bound: failures of a statement

ASSUME BoundsAssumption ==
    MaxState \in Nat \ {0} /\ MaxStops \in Nat /\ MaxFailures \in Nat

VARIABLES
    state,      \* the match: r.Board, r.Match and the rest of a snapshot
    ended,      \* r.ended
    present,    \* the room is in memory
    persistSeq, \* r.persistSeq
    savedSeq,   \* r.savedSeq
    persistOff, \* r.persistOff
    writes,     \* the snapshots whose goroutine has not written them yet
    saver,      \* progress of announceEnd's goroutine
    proc,       \* the process: up, in Manager.Shutdown, past it, or down
    shut,       \* the snapshot persistSync has prepared
    row,        \* the row of live_matches
    games,      \* how many times the game has been saved (table games, ELO)
    deleted,    \* history: the row has been deleted
    stops,      \* crashes and shutdowns so far
    failures    \* failed statements so far

room == <<state, ended, present, persistSeq, savedSeq, persistOff, writes, saver>>
vars == <<room, proc, shut, row, games, deleted, stops, failures>>

NoRow   == 0
NoWrite == [seq |-> 0, state |-> 0]

Running == proc # "down"

(* The snapshot of the match as it is now, numbered after the last one. *)
Snapshot == [seq |-> persistSeq + 1, state |-> state]

(* A statement fails. *)
Fails == failures < MaxFailures /\ failures' = failures + 1

-----------------------------------------------------------------------------
(* A change of the match and the persist that follows it under r.mu.  The   *)
(* sockets outlive Shutdown, so it may still come while the process stops.  *)
Change ==
    /\ Running /\ present /\ ~ended
    /\ state < MaxState
    /\ state' = state + 1
    /\ persistSeq' = persistSeq + 1
    /\ writes' = writes \cup {[seq |-> persistSeq + 1, state |-> state + 1]}
    /\ UNCHANGED <<ended, present, savedSeq, persistOff, saver,
                   proc, shut, row, games, deleted, stops, failures>>

(* A mutant of Newer: a late snapshot is written all the same. *)
InTime(w) == ~persistOff

(* A mutant of Newer: a snapshot is written after the row's removal. *)
AfterSaved(w) == w.seq > savedSeq

(* writeSnapshot's condition: not after the removal, and not older than the *)
(* last one written.                                                        *)
Newer(w) == ~persistOff /\ w.seq > savedSeq

(* A mutant of Recorded: the last snapshot prepared is taken for this one. *)
RecordedLatest(w) == savedSeq' = persistSeq

Recorded(w) == savedSeq' = w.seq

(* writeSnapshot: skipped, written, or failed. *)
writeSnapshot(w) ==
    \/ /\ ~Newer(w)
       /\ UNCHANGED <<row, savedSeq, failures>>
    \/ /\ Newer(w)
       /\ row' = w.state
       /\ Recorded(w)
       /\ UNCHANGED failures
    \/ /\ Newer(w)
       /\ Fails
       /\ UNCHANGED <<row, savedSeq>>

Write(w) ==
    /\ Running
    /\ writeSnapshot(w)
    /\ writes' = writes \ {w}
    /\ UNCHANGED <<state, ended, present, persistSeq, persistOff, saver,
                   proc, shut, games, deleted, stops>>

-----------------------------------------------------------------------------
(* finishLocked and announceEnd: the goroutine is started at once. *)
Finish ==
    /\ Running /\ present /\ ~ended
    /\ ended' = TRUE
    /\ saver' = "saving"
    /\ UNCHANGED <<state, present, persistSeq, savedSeq, persistOff, writes,
                   proc, shut, row, games, deleted, stops, failures>>

(* A mutant of SaveGame: the game is saved only after the row is deleted. *)
SaveGameLater ==
    /\ Running /\ saver \in {"saving", "unlisted"}
    /\ saver' = IF saver = "saving" THEN "saved" ELSE "settled"
    /\ games' = IF saver = "saving" THEN games ELSE games + 1
    /\ UNCHANGED <<state, ended, present, persistSeq, savedSeq, persistOff, writes,
                   proc, shut, row, deleted, stops, failures>>

(* SaveGame: a failure is logged and nothing more. *)
SaveGame ==
    /\ Running /\ saver = "saving"
    /\ saver' = "saved"
    /\ \/ games' = games + 1 /\ UNCHANGED failures
       \/ Fails /\ UNCHANGED games
    /\ UNCHANGED <<state, ended, present, persistSeq, savedSeq, persistOff, writes,
                   proc, shut, row, deleted, stops>>

(* Later writes are blocked whether or not the row could be deleted. *)
removeLiveMatch ==
    /\ Running /\ saver = "saved"
    /\ saver' = "unlisted"
    /\ persistOff' = TRUE
    /\ \/ row' = NoRow /\ deleted' = TRUE /\ UNCHANGED failures
       \/ Fails /\ UNCHANGED <<row, deleted>>
    /\ UNCHANGED <<state, ended, present, persistSeq, savedSeq, writes,
                   proc, shut, games, stops>>

(* RemoveRoom waits for m.mu, which Shutdown holds. *)
RemoveRoom ==
    /\ proc \in {"up", "stopping"} /\ saver = "unlisted"
    /\ saver' = "settled"
    /\ present' = FALSE
    /\ UNCHANGED <<state, ended, persistSeq, savedSeq, persistOff, writes,
                   proc, shut, row, games, deleted, stops, failures>>

-----------------------------------------------------------------------------
(* Manager.Shutdown: persistSync prepares a snapshot under r.mu, unless the *)
(* match is over, and writes it after releasing the lock.                   *)
Shutdown ==
    /\ proc = "up" /\ stops < MaxStops
    /\ stops' = stops + 1
    /\ IF present /\ ~ended
       THEN /\ proc' = "shutdown"
            /\ shut' = Snapshot
            /\ persistSeq' = persistSeq + 1
       ELSE /\ proc' = "stopping"
            /\ UNCHANGED <<shut, persistSeq>>
    /\ UNCHANGED <<state, ended, present, savedSeq, persistOff, writes, saver,
                   row, games, deleted, failures>>

persistSync ==
    /\ proc = "shutdown"
    /\ proc' = "stopping"
    /\ writeSnapshot(shut)
    /\ UNCHANGED <<state, ended, present, persistSeq, persistOff, writes, saver,
                   shut, games, deleted, stops>>

(* The process is gone and everything in memory with it. *)
Vanish ==
    /\ proc' = "down"
    /\ state' = NoRow /\ ended' = FALSE /\ present' = FALSE
    /\ persistSeq' = 0 /\ savedSeq' = 0 /\ persistOff' = FALSE
    /\ writes' = {} /\ saver' = "none" /\ shut' = NoWrite
    /\ UNCHANGED <<row, games, deleted, failures>>

(* main returns. *)
Exit == proc = "stopping" /\ Vanish /\ UNCHANGED stops

Crash == Running /\ stops < MaxStops /\ stops' = stops + 1 /\ Vanish

(* LoadPersisted, for the one row there may be. *)
LoadPersisted ==
    /\ proc = "down"
    /\ proc' = "up"
    /\ present' = (row # NoRow)
    /\ state' = row
    /\ UNCHANGED <<ended, persistSeq, savedSeq, persistOff, writes, saver,
                   shut, row, games, deleted, stops, failures>>

-----------------------------------------------------------------------------
(* newRoom has just persisted the first state of the match. *)
Init ==
    /\ state = 1 /\ ended = FALSE /\ present = TRUE
    /\ persistSeq = 1 /\ savedSeq = 0 /\ persistOff = FALSE
    /\ writes = {[seq |-> 1, state |-> 1]}
    /\ saver = "none"
    /\ proc = "up" /\ shut = NoWrite
    /\ row = NoRow /\ games = 0 /\ deleted = FALSE
    /\ stops = 0 /\ failures = 0

Next ==
    \/ Change
    \/ \E w \in writes : Write(w)
    \/ Finish \/ SaveGame \/ removeLiveMatch \/ RemoveRoom
    \/ Shutdown \/ persistSync \/ Exit \/ Crash \/ LoadPersisted

Spec == Init /\ [][Next]_vars

-----------------------------------------------------------------------------
(* Properties. *)

Write_ == [seq : Nat, state : Nat]

(* The types of the state.  The values of saver and of proc agree with the  *)
(* room's: the goroutine of announceEnd runs for an ended match only.       *)
TypeOK ==
    /\ state \in Nat /\ persistSeq \in Nat /\ savedSeq \in Nat
    /\ ended \in BOOLEAN /\ present \in BOOLEAN /\ persistOff \in BOOLEAN
    /\ writes \subseteq Write_
    /\ saver \in {"none", "saving", "saved", "unlisted", "settled"}
    /\ proc \in {"up", "shutdown", "stopping", "down"}
    /\ shut \in Write_
    /\ row \in Nat /\ games \in Nat /\ deleted \in BOOLEAN
    /\ stops \in Nat /\ failures \in Nat
    /\ ended <=> saver # "none"
    /\ persistOff <=> saver \in {"unlisted", "settled"}

(* When no snapshot waits to be written and no statement has failed, the    *)
(* row is the match: whatever order the goroutines ran in, the last change  *)
(* is the one that was kept.                                                *)
CaughtUp ==
    Running /\ present /\ ~ended /\ writes = {} /\ proc # "shutdown" /\ failures = 0
        => row = state

(* A match that Shutdown found in progress is kept as Shutdown found it, or *)
(* further on: persistSync does not depend on the goroutines still to run.  *)
ShutdownKeeps ==
    proc = "stopping" /\ shut # NoWrite /\ ~persistOff /\ failures = 0 => row >= shut.state

(* A row that has been deleted never comes back, in spite of the snapshots  *)
(* prepared before the end, and no restart plays the match again.           *)
DeletedForGood == deleted => row = NoRow /\ (present => ended)

(* The row of a match that ended is not deleted before the game is saved: a *)
(* crash on the way loses nothing (only a failure of SaveGame does).        *)
SavedBeforeDeleted == deleted /\ failures = 0 => games > 0

(* The row and the match behave as module Durable says. *)
Implements == INSTANCE Durable WITH
    state <- IF proc = "down" THEN row ELSE state,
    over  <- ended \/ deleted

DurableSpec == Implements!Spec

(* The row never says less than it should: it catches up with the match    *)
(* when nothing is under way, and a shutdown keeps what it found.          *)
RowSound == TypeOK /\ CaughtUp /\ ShutdownKeeps
=============================================================================
