------------------------------ MODULE GoalState ------------------------------
(***************************************************************************)
(* The file of one goal and the processes that change it, each from a copy  *)
(* of its own: GoalStateManager of lilith_core/goal_state.py, and           *)
(* GoalsStore of lilith_skills/cross_context.py, which follow the same      *)
(* protocol with different schemas, so that no file has users of both.      *)
(*                                                                         *)
(* A change is made to the copy first.  Under a lock of the file (flock,    *)
(* which dies with its owner, and for which one waits ten seconds) the      *)
(* revision of the copy is compared with the one of the file, and the copy  *)
(* replaces the file or is refused.  Deletion takes no lock of the file.    *)
(*                                                                         *)
(* What a change does is data: turns, gates, todos and status are the set   *)
(* of the changes that made them.                                           *)
(***************************************************************************)
EXTENDS Integers, FiniteSets

CONSTANTS
    Managers,       \* processes, each with one manager, or one copy
    Changes,        \* bound: what is done to the goal
    MaxCrashes,     \* bound: processes that die
    MaxDeletes,     \* bound: deletions
    MaxFaults,      \* bound: writes that fail
    MaxImports      \* bound: handoffs imported

ASSUME GoalConstants ==
    /\ MaxCrashes \in Nat /\ MaxDeletes \in Nat /\ MaxFaults \in Nat
    /\ MaxImports \in Nat
    /\ "birth" \notin Changes /\ "nobody" \notin Managers

VARIABLES
    family,     \* "core" or "cross"
    created,    \* the goal has been created: its id is never made again
    file,       \* the goal on disk
    memory,     \* manager -> its copy
    pc,         \* manager -> idle, locking, locked, loading or writing
    change,     \* manager -> the change it makes
    found,      \* manager -> the file as it read it under the lock
    lock,       \* who holds the lock of the file
    pack,       \* a handoff that was exported
    outcome,    \* change -> what its caller was told
    deletes, crashes, faults, imports

goalVars == <<family, created, file, memory, pc, change, found, lock, pack, outcome,
              deletes, crashes, faults, imports>>
budget == <<deletes, crashes, faults, imports>>

Nobody == "nobody"
Birth == "birth"    \* what create_goal does to it
Gone == [exists |-> FALSE, revision |-> 0, content |-> {}]

GoalInit ==
    /\ family \in {"core", "cross"}
    /\ created = FALSE /\ file = Gone /\ pack = Gone
    /\ memory = [p \in Managers |-> Gone]
    /\ pc = [p \in Managers |-> "idle"]
    /\ change = [p \in Managers |-> Birth]
    /\ found = [p \in Managers |-> Gone]
    /\ lock = Nobody
    /\ outcome = [c \in Changes |-> "none"]
    /\ deletes = 0 /\ crashes = 0 /\ faults = 0 /\ imports = 0

-----------------------------------------------------------------------------
\* A manager is opened again (_load_all), or a copy is read anew (get).
Open(p) ==
    /\ pc[p] = "idle"
    /\ memory' = [memory EXCEPT ![p] = file]
    /\ UNCHANGED <<family, created, file, pc, change, found, lock, pack, outcome, budget>>

\* The change is made to the copy, which is then to be saved.
Begin(p, c, copy) ==
    /\ pc[p] = "idle"
    /\ memory' = [memory EXCEPT ![p] = copy]
    /\ change' = [change EXCEPT ![p] = c]
    /\ pc' = [pc EXCEPT ![p] = "locking"]

Create(p) ==
    /\ ~created /\ created' = TRUE
    /\ Begin(p, Birth, [exists |-> TRUE, revision |-> 0, content |-> {}])
    /\ UNCHANGED <<family, file, found, lock, pack, outcome, budget>>

\* update_status, record_turn, add_gate, resolve_gate, add_todo, ...
Change(p, c) ==
    /\ memory[p].exists /\ outcome[c] = "none"
    /\ Begin(p, c, [memory[p] EXCEPT !.content = @ \cup {c}])
    /\ outcome' = [outcome EXCEPT ![c] = "begun"]
    /\ UNCHANGED <<family, created, file, found, lock, pack, budget>>

Export(p) ==
    /\ pc[p] = "idle" /\ memory[p].exists /\ family = "core"
    /\ pack' = memory[p]
    /\ UNCHANGED <<family, created, file, memory, pc, change, found, lock, outcome, budget>>

\* The copy is replaced by the handoff, whatever its revision.
Import(p) ==
    /\ pack.exists
    /\ imports < MaxImports /\ imports' = imports + 1
    /\ Begin(p, Birth, pack)
    /\ UNCHANGED <<family, created, file, found, lock, pack, outcome,
                   deletes, crashes, faults>>

\* The caller of p learns what became of the change.
Told(p, what) ==
    /\ pc' = [pc EXCEPT ![p] = "idle"]
    /\ change' = [change EXCEPT ![p] = Birth]
    /\ found' = [found EXCEPT ![p] = Gone]
    /\ outcome' = IF change[p] \in Changes THEN [outcome EXCEPT ![change[p]] = what]
                                           ELSE outcome

Lock(p) ==
    /\ pc[p] = "locking" /\ lock = Nobody
    /\ lock' = p
    /\ pc' = [pc EXCEPT ![p] = "locked"]
    /\ UNCHANGED <<family, created, file, memory, change, found, pack, outcome, budget>>

\* The copy keeps the change.
LockTimeout(p) ==
    /\ pc[p] = "locking" /\ lock # Nobody
    /\ Told(p, "timeout")
    /\ UNCHANGED <<family, created, file, memory, lock, pack, budget>>

\* _save_locked: without a file there is nothing to compare with.
Look(p) ==
    /\ pc[p] = "locked"
    /\ pc' = [pc EXCEPT ![p] = IF file.exists THEN "loading" ELSE "writing"]
    /\ UNCHANGED <<family, created, file, memory, change, found, lock, pack, outcome, budget>>

\* Mutant: only a copy with a later revision is stale.
StaleIfLater(p) == memory[p].revision > file.revision

Stale(p) == memory[p].revision # file.revision

\* GoalsStore saves a copy that its caller has, and leaves it as it is when the
\* save is refused or fails: only a written copy gets the new revision.
KeptCopy(p) == memory[p]

\* A stale copy is refused; a manager takes the file for its copy instead.
Refused(p) == IF family = "core" THEN file ELSE KeptCopy(p)

\* If the file has been deleted since, neither happens.
Compare(p) ==
    /\ pc[p] = "loading"
    /\ IF file.exists /\ ~Stale(p)
         THEN /\ pc' = [pc EXCEPT ![p] = "writing"]
              /\ found' = [found EXCEPT ![p] = file]
              /\ UNCHANGED <<memory, change, lock, outcome>>
         ELSE /\ lock' = Nobody
              /\ Told(p, IF file.exists THEN "conflict" ELSE "disappeared")
              /\ memory' = IF file.exists THEN [memory EXCEPT ![p] = Refused(p)]
                                          ELSE memory
    /\ UNCHANGED <<family, created, file, pack, budget>>

\* The copy replaces the file.
Write(p) ==
    /\ pc[p] = "writing"
    /\ file' = [memory[p] EXCEPT !.revision = IF found[p].exists
                                                THEN found[p].revision + 1 ELSE 0]
    /\ memory' = [memory EXCEPT ![p] = file']
    /\ lock' = Nobody
    /\ Told(p, "saved")
    /\ UNCHANGED <<family, created, pack, budget>>

\* What the copy is when it could not be written.
\* Mutant: it keeps the change.
StillChanged(p) == memory[p]

\* A manager goes back to what it had read under the lock.
GoneBack(p) == IF family = "core" THEN found[p] ELSE KeptCopy(p)

WriteFails(p) ==
    /\ pc[p] = "writing" /\ faults < MaxFaults
    /\ faults' = faults + 1
    /\ memory' = [memory EXCEPT ![p] = GoneBack(p)]
    /\ lock' = Nobody
    /\ Told(p, "failed")
    /\ UNCHANGED <<family, created, file, pack, deletes, crashes, imports>>

\* A manager deletes a goal it has, and forgets its copy.
Forget(p) ==
    /\ family = "core" /\ memory[p].exists
    /\ memory' = [memory EXCEPT ![p] = Gone]

\* GoalsStore deletes by the id; the copies of its callers stay.
DeleteById ==
    /\ family = "cross"
    /\ UNCHANGED memory

\* The file is removed without its lock.
Delete(p) ==
    /\ pc[p] = "idle" /\ deletes < MaxDeletes
    /\ deletes' = deletes + 1
    /\ Forget(p) \/ DeleteById
    /\ file' = Gone
    /\ UNCHANGED <<family, created, pc, change, found, lock, pack, outcome, crashes, faults, imports>>

Crash(p) ==
    /\ crashes < MaxCrashes
    /\ crashes' = crashes + 1
    /\ memory' = [memory EXCEPT ![p] = Gone]
    /\ lock' = IF lock = p THEN Nobody ELSE lock
    /\ Told(p, "crashed")
    /\ UNCHANGED <<family, created, file, pack, deletes, faults, imports>>

GoalNext ==
    \E p \in Managers :
        \/ Open(p) \/ Create(p) \/ Export(p) \/ Import(p) \/ Delete(p) \/ Crash(p)
        \/ \E c \in Changes : Change(p, c)
        \/ Lock(p) \/ LockTimeout(p) \/ Look(p) \/ Compare(p) \/ Write(p) \/ WriteFails(p)

GoalSpec == GoalInit /\ [][GoalNext]_goalVars

-----------------------------------------------------------------------------
\* A change whose caller was told that it is saved stays in the file, whoever
\* writes it afterwards, until the goal is deleted (RevisionConflictError: no
\* stale copy replaces a newer one).  Deletion starts the revisions again.
NoLostUpdate ==
    deletes = 0 =>
        \A c \in Changes : outcome[c] = "saved" => file.exists /\ c \in file.content

\* A change that a manager refused, for a conflict or because it could not be
\* written, is in no file and no copy afterwards: it does not come back with
\* a later change, nor with a handoff.
RefusedStaysOut ==
    family = "core" =>
        \A c \in Changes : outcome[c] \in {"conflict", "failed"} =>
            /\ c \notin file.content \cup pack.content
            /\ \A p \in Managers : c \notin memory[p].content
=============================================================================
