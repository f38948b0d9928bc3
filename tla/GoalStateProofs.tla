--------------------------- MODULE GoalStateProofs ---------------------------
(***************************************************************************)
(* No update of a goal is lost, and what was refused stays out, for every   *)
(* number of processes, changes, crashes and failed writes.                 *)
(***************************************************************************)
EXTENDS GoalState, TLAPS

Goal == [exists : BOOLEAN, revision : Nat, content : SUBSET Changes]
HasLock == {"locked", "loading", "writing"}
Answers == {"saved", "timeout", "conflict", "disappeared", "failed", "crashed"}

GoalTypeOK ==
    /\ family \in {"core", "cross"} /\ created \in BOOLEAN
    /\ file \in Goal /\ pack \in Goal
    /\ memory \in [Managers -> Goal] /\ found \in [Managers -> Goal]
    /\ pc \in [Managers -> {"idle", "locking"} \cup HasLock]
    /\ change \in [Managers -> Changes \cup {Birth}]
    /\ lock \in Managers \cup {Nobody}
    /\ outcome \in [Changes -> {"none", "begun"} \cup Answers]
    /\ deletes \in Nat /\ crashes \in Nat /\ faults \in Nat /\ imports \in Nat

\* The lock is with the one process that is between Lock and Told.
LockHeld == \A p \in Managers : pc[p] \in HasLock <=> lock = p

\* Who saves has a copy to save; what was read under the lock is forgotten
\* with it; a change under way is in the copy of the one who makes it.
UnderWay ==
    \A p \in Managers :
        /\ pc[p] # "idle" => memory[p].exists
        /\ pc[p] # "writing" => found[p] = Gone
        /\ change[p] \in Changes =>
               /\ pc[p] # "idle"
               /\ outcome[change[p]] = "begun"
               /\ change[p] \in memory[p].content
               /\ \A q \in Managers : change[q] = change[p] => q = p

\* A copy is no newer than the file, and as new only with all of its content.
Follows(copy) ==
    copy.exists /\ file.exists =>
        /\ copy.revision <= file.revision
        /\ copy.revision = file.revision => file.content \subseteq copy.content

CopiesFollow ==
    deletes = 0 => Follows(pack) /\ \A p \in Managers : Follows(memory[p])

\* Before the first write one process at most has a copy, and none to give away.
Unwritten ==
    deletes = 0 =>
        /\ ~created => ~file.exists
        /\ ~file.exists =>
            /\ ~pack.exists
            /\ ~created => \A p \in Managers : ~memory[p].exists
            /\ \A p, q \in Managers : memory[p].exists /\ memory[q].exists => p = q
            /\ family = "core" =>
                   \A p \in Managers : pc[p] = "idle" => ~memory[p].exists

\* What was read under the lock is the file until it is replaced.
ReadUnderLock ==
    deletes = 0 =>
        \A p \in Managers :
            /\ pc[p] = "loading" => file.exists
            /\ pc[p] = "writing" =>
                   /\ found[p].exists = file.exists
                   /\ file.exists => found[p] = file /\ memory[p].revision = file.revision

\* A change that is not answered is in the one copy, and a refused one in none.
Private ==
    family = "core" =>
        \A c \in Changes : outcome[c] \in {"none", "begun", "conflict", "failed"} =>
            /\ c \notin file.content \cup pack.content
            /\ \A p \in Managers :
                   /\ c \notin found[p].content
                   /\ c \in memory[p].content => change[p] = c

GoalInv ==
    /\ GoalTypeOK /\ LockHeld /\ UnderWay
    /\ CopiesFollow /\ Unwritten /\ ReadUnderLock /\ NoLostUpdate
    /\ Private

-----------------------------------------------------------------------------
\* The initial state and every action keep the invariant.

USE GoalConstants DEF Birth, Nobody

LEMMA InitSatisfiesGoalInv == GoalInit => GoalInv
<1>. SUFFICES ASSUME GoalInit PROVE GoalInv
  OBVIOUS
<1>. USE DEF GoalInit, Gone
<1>1. GoalTypeOK
  BY DEF GoalTypeOK, Goal, HasLock, Answers
<1>2. LockHeld /\ UnderWay
  BY DEF LockHeld, HasLock, UnderWay
<1>3. CopiesFollow /\ Unwritten /\ ReadUnderLock /\ NoLostUpdate
  BY DEF CopiesFollow, Follows, Unwritten, ReadUnderLock, NoLostUpdate
<1>4. Private
  BY DEF Private
<1>5. QED BY <1>1, <1>2, <1>3, <1>4 DEF GoalInv

\* A copy read anew is the file.
LEMMA OpenKeepsInv ==
    ASSUME GoalInv, NEW p \in Managers, Open(p)
    PROVE  GoalInv'
<1>. USE DEF GoalInv, Open, budget
<1>1. GoalTypeOK'
  BY DEF GoalTypeOK, Goal, HasLock, Answers, Gone
<1>2. LockHeld'
  BY DEF GoalTypeOK, HasLock, LockHeld
<1>3. UnderWay'
  BY DEF GoalTypeOK, Goal, HasLock, UnderWay, Gone
<1>4. CopiesFollow'
  BY DEF GoalTypeOK, Goal, Gone, CopiesFollow, Follows
<1>5. Unwritten'
  BY DEF GoalTypeOK, Goal, Gone, UnderWay, Unwritten
<1>6. ReadUnderLock'
  BY DEF GoalTypeOK, Goal, HasLock, LockHeld, ReadUnderLock
<1>7. NoLostUpdate'
  BY DEF GoalTypeOK, Goal, NoLostUpdate
<1>8. Private'
  BY DEF GoalTypeOK, Goal, Gone, UnderWay, Private
<1>9. QED BY <1>1, <1>2, <1>3, <1>4, <1>5, <1>6, <1>7, <1>8

\* The one creation is the first copy.
LEMMA CreateKeepsInv ==
    ASSUME GoalInv, NEW p \in Managers, Create(p)
    PROVE  GoalInv'
<1>. USE DEF GoalInv, Create, Begin, budget
<1>1. GoalTypeOK'
  BY DEF GoalTypeOK, Goal, HasLock, Answers, Gone
<1>2. LockHeld'
  BY DEF GoalTypeOK, HasLock, LockHeld
<1>3. UnderWay'
  BY DEF GoalTypeOK, Goal, HasLock, UnderWay, Gone
<1>4. CopiesFollow'
  BY DEF GoalTypeOK, Goal, Gone, CopiesFollow, Follows, Unwritten
<1>5. Unwritten'
  BY DEF GoalTypeOK, Goal, Gone, UnderWay, Unwritten
<1>6. ReadUnderLock'
  BY DEF GoalTypeOK, Goal, HasLock, LockHeld, ReadUnderLock
<1>7. NoLostUpdate'
  BY DEF GoalTypeOK, Goal, NoLostUpdate
<1>8. Private'
  BY DEF GoalTypeOK, Goal, Gone, UnderWay, Private
<1>9. QED BY <1>1, <1>2, <1>3, <1>4, <1>5, <1>6, <1>7, <1>8

\* A change that was never made is in nobody's copy; it now is in one.
LEMMA ChangeKeepsInv ==
    ASSUME GoalInv, NEW p \in Managers, NEW c \in Changes, Change(p, c)
    PROVE  GoalInv'
<1>. USE DEF GoalInv, Change, Begin, budget
<1>1. GoalTypeOK'
  BY DEF GoalTypeOK, Goal, HasLock, Answers, Gone
<1>2. LockHeld'
  BY DEF GoalTypeOK, HasLock, LockHeld
<1>3. UnderWay'
  BY DEF GoalTypeOK, Goal, HasLock, UnderWay, Gone
<1>4. CopiesFollow'
  BY DEF GoalTypeOK, Goal, Gone, CopiesFollow, Follows
<1>5. Unwritten'
  BY DEF GoalTypeOK, Goal, Gone, UnderWay, Unwritten
<1>6. ReadUnderLock'
  BY DEF GoalTypeOK, Goal, HasLock, LockHeld, ReadUnderLock
<1>7. NoLostUpdate'
  BY DEF GoalTypeOK, Goal, NoLostUpdate
<1>8. Private'
  BY DEF GoalTypeOK, Goal, Gone, UnderWay, Private
<1>9. QED BY <1>1, <1>2, <1>3, <1>4, <1>5, <1>6, <1>7, <1>8

\* What is exported is what its manager had, and no change is under way there.
LEMMA ExportKeepsInv ==
    ASSUME GoalInv, NEW p \in Managers, Export(p)
    PROVE  GoalInv'
<1>. USE DEF GoalInv, Export, budget
<1>1. GoalTypeOK'
  BY DEF GoalTypeOK, Goal, HasLock, Answers, Gone
<1>2. LockHeld'
  BY DEF GoalTypeOK, HasLock, LockHeld
<1>3. UnderWay'
  BY DEF GoalTypeOK, Goal, HasLock, UnderWay, Gone
<1>4. CopiesFollow'
  BY DEF GoalTypeOK, Goal, Gone, CopiesFollow, Follows
<1>5. Unwritten'
  BY DEF GoalTypeOK, Goal, Gone, UnderWay, Unwritten
<1>6. ReadUnderLock'
  BY DEF GoalTypeOK, Goal, HasLock, LockHeld, ReadUnderLock
<1>7. NoLostUpdate'
  BY DEF GoalTypeOK, Goal, NoLostUpdate
<1>8. Private'
  BY DEF GoalTypeOK, Goal, Gone, UnderWay, Private
<1>9. QED BY <1>1, <1>2, <1>3, <1>4, <1>5, <1>6, <1>7, <1>8

\* What is imported is what was exported.
LEMMA ImportKeepsInv ==
    ASSUME GoalInv, NEW p \in Managers, Import(p)
    PROVE  GoalInv'
<1>. USE DEF GoalInv, Import, Begin, budget
<1>1. GoalTypeOK'
  BY DEF GoalTypeOK, Goal, HasLock, Answers, Gone
<1>2. LockHeld'
  BY DEF GoalTypeOK, HasLock, LockHeld
<1>3. UnderWay'
  BY DEF GoalTypeOK, Goal, HasLock, UnderWay, Gone
<1>4. CopiesFollow'
  BY DEF GoalTypeOK, Goal, Gone, CopiesFollow, Follows
<1>5. Unwritten'
  BY DEF GoalTypeOK, Goal, Gone, UnderWay, Unwritten
<1>6. ReadUnderLock'
  BY DEF GoalTypeOK, Goal, HasLock, LockHeld, ReadUnderLock
<1>7. NoLostUpdate'
  BY DEF GoalTypeOK, Goal, NoLostUpdate
<1>8. Private'
  BY DEF GoalTypeOK, Goal, Gone, UnderWay, Private
<1>9. QED BY <1>1, <1>2, <1>3, <1>4, <1>5, <1>6, <1>7, <1>8

\* The lock goes to one that waits for it.
LEMMA LockKeepsInv ==
    ASSUME GoalInv, NEW p \in Managers, Lock(p)
    PROVE  GoalInv'
<1>. USE DEF GoalInv, Lock, budget
<1>1. GoalTypeOK'
  BY DEF GoalTypeOK, Goal, HasLock, Answers, Gone
<1>2. LockHeld'
  BY DEF GoalTypeOK, HasLock, LockHeld
<1>3. UnderWay'
  BY DEF GoalTypeOK, Goal, HasLock, UnderWay, Gone
<1>4. CopiesFollow'
  BY DEF GoalTypeOK, Goal, Gone, CopiesFollow, Follows
<1>5. Unwritten'
  BY DEF GoalTypeOK, Goal, Gone, UnderWay, Unwritten
<1>6. ReadUnderLock'
  BY DEF GoalTypeOK, Goal, HasLock, LockHeld, ReadUnderLock
<1>7. NoLostUpdate'
  BY DEF GoalTypeOK, Goal, NoLostUpdate
<1>8. Private'
  BY DEF GoalTypeOK, Goal, Gone, UnderWay, Private
<1>9. QED BY <1>1, <1>2, <1>3, <1>4, <1>5, <1>6, <1>7, <1>8

\* Before the first write nobody waits for the lock of another.
LEMMA LockTimeoutKeepsInv ==
    ASSUME GoalInv, NEW p \in Managers, LockTimeout(p)
    PROVE  GoalInv'
<1>. USE DEF GoalInv, LockTimeout, Told, budget
<1>1. GoalTypeOK'
  BY DEF GoalTypeOK, Goal, HasLock, Answers, Gone
<1>2. LockHeld'
  BY DEF GoalTypeOK, HasLock, LockHeld
<1>3. UnderWay'
  BY DEF GoalTypeOK, Goal, HasLock, UnderWay, Gone
<1>4. CopiesFollow'
  BY DEF GoalTypeOK, Goal, Gone, CopiesFollow, Follows
<1>5. Unwritten'
  BY DEF GoalTypeOK, Goal, Gone, UnderWay, Unwritten, HasLock, LockHeld
<1>6. ReadUnderLock'
  BY DEF GoalTypeOK, Goal, HasLock, LockHeld, ReadUnderLock
<1>7. NoLostUpdate'
  BY DEF GoalTypeOK, Goal, NoLostUpdate, Birth
<1>8. Private'
  BY DEF GoalTypeOK, Goal, Gone, UnderWay, Private
<1>9. QED BY <1>1, <1>2, <1>3, <1>4, <1>5, <1>6, <1>7, <1>8

\* Under the lock the file is there or has not been written yet.
LEMMA LookKeepsInv ==
    ASSUME GoalInv, NEW p \in Managers, Look(p)
    PROVE  GoalInv'
<1>. USE DEF GoalInv, Look, budget
<1>1. GoalTypeOK'
  BY DEF GoalTypeOK, Goal, HasLock, Answers, Gone
<1>2. LockHeld'
  BY DEF GoalTypeOK, HasLock, LockHeld
<1>3. UnderWay'
  BY DEF GoalTypeOK, Goal, HasLock, UnderWay, Gone
<1>4. CopiesFollow'
  BY DEF GoalTypeOK, Goal, Gone, CopiesFollow, Follows
<1>5. Unwritten'
  BY DEF GoalTypeOK, Goal, Gone, UnderWay, Unwritten
<1>6. ReadUnderLock'
  BY DEF GoalTypeOK, Goal, HasLock, LockHeld, ReadUnderLock, UnderWay, Gone
<1>7. NoLostUpdate'
  BY DEF GoalTypeOK, Goal, NoLostUpdate
<1>8. Private'
  BY DEF GoalTypeOK, Goal, Gone, UnderWay, Private
<1>9. QED BY <1>1, <1>2, <1>3, <1>4, <1>5, <1>6, <1>7, <1>8

\* The file had nothing that the copy lacks, and every copy is older now.
LEMMA WriteKeepsInv ==
    ASSUME GoalInv, NEW p \in Managers, Write(p)
    PROVE  GoalInv'
<1>. USE DEF GoalInv, Write, Told, budget
<1>1. GoalTypeOK'
  BY DEF GoalTypeOK, Goal, HasLock, Answers, Gone
<1>2. LockHeld'
  BY DEF GoalTypeOK, HasLock, LockHeld
<1>3. UnderWay'
  BY DEF GoalTypeOK, Goal, HasLock, UnderWay, Gone
<1>4. CopiesFollow'
  BY DEF GoalTypeOK, Goal, Gone, CopiesFollow, Follows, UnderWay, Unwritten,
         ReadUnderLock
<1>5. Unwritten'
  BY DEF GoalTypeOK, Goal, Gone, UnderWay, Unwritten
<1>6. ReadUnderLock'
  BY DEF GoalTypeOK, Goal, HasLock, LockHeld, ReadUnderLock, UnderWay
<1>7. NoLostUpdate'
  BY DEF GoalTypeOK, Goal, NoLostUpdate, UnderWay, CopiesFollow, Follows,
         ReadUnderLock
<1>8. Private'
  BY DEF GoalTypeOK, Goal, Gone, UnderWay, Private
<1>9. QED BY <1>1, <1>2, <1>3, <1>4, <1>5, <1>6, <1>7, <1>8

\* The copy is what was read under the lock, without the change.
LEMMA WriteFailsKeepsInv ==
    ASSUME GoalInv, NEW p \in Managers, WriteFails(p)
    PROVE  GoalInv'
<1>. USE DEF GoalInv, WriteFails, GoneBack, KeptCopy, Told, budget
<1>1. GoalTypeOK'
  BY DEF GoalTypeOK, Goal, HasLock, Answers, Gone
<1>2. LockHeld'
  BY DEF GoalTypeOK, HasLock, LockHeld
<1>3. UnderWay'
  BY DEF GoalTypeOK, Goal, HasLock, UnderWay, Gone
<1>4. CopiesFollow'
  BY DEF GoalTypeOK, Goal, Gone, CopiesFollow, Follows, UnderWay,
         ReadUnderLock
<1>5. Unwritten'
  BY DEF GoalTypeOK, Goal, Gone, UnderWay, Unwritten, ReadUnderLock
<1>6. ReadUnderLock'
  BY DEF GoalTypeOK, Goal, HasLock, LockHeld, ReadUnderLock
<1>7. NoLostUpdate'
  BY DEF GoalTypeOK, Goal, NoLostUpdate
<1>8. Private'
  BY DEF GoalTypeOK, Goal, Gone, UnderWay, Private
<1>9. QED BY <1>1, <1>2, <1>3, <1>4, <1>5, <1>6, <1>7, <1>8

\* The argument of the update that is not lost ends with a deletion.
LEMMA DeleteKeepsInv ==
    ASSUME GoalInv, NEW p \in Managers, Delete(p)
    PROVE  GoalInv'
<1>0. /\ pc[p] = "idle" /\ deletes' = deletes + 1 /\ file' = Gone
      /\ memory' = IF family = "core" THEN [memory EXCEPT ![p] = Gone] ELSE memory
      /\ UNCHANGED <<family, created, pc, change, found, lock, pack, outcome,
                     crashes, faults, imports>>
  BY DEF Delete, Forget, DeleteById
<1>. USE <1>0 DEF GoalInv, budget
<1>1. GoalTypeOK'
  BY DEF GoalTypeOK, Goal, HasLock, Answers, Gone
<1>2. LockHeld'
  BY DEF GoalTypeOK, HasLock, LockHeld
<1>3. UnderWay'
  BY DEF GoalTypeOK, Goal, HasLock, UnderWay, Gone
<1>4. CopiesFollow'
  BY DEF GoalTypeOK, Goal, Gone, CopiesFollow, Follows
<1>5. Unwritten'
  BY DEF GoalTypeOK, Goal, Gone, UnderWay, Unwritten
<1>6. ReadUnderLock'
  BY DEF GoalTypeOK, Goal, HasLock, LockHeld, ReadUnderLock
<1>7. NoLostUpdate'
  BY DEF GoalTypeOK, Goal, NoLostUpdate
<1>8. Private'
  BY DEF GoalTypeOK, Goal, Gone, UnderWay, Private
<1>9. QED BY <1>1, <1>2, <1>3, <1>4, <1>5, <1>6, <1>7, <1>8

\* A process that dies takes its copy, its change and the lock with it.
LEMMA CrashKeepsInv ==
    ASSUME GoalInv, NEW p \in Managers, Crash(p)
    PROVE  GoalInv'
<1>. USE DEF GoalInv, Crash, Told, budget
<1>1. GoalTypeOK'
  BY DEF GoalTypeOK, Goal, HasLock, Answers, Gone
<1>2. LockHeld'
  BY DEF GoalTypeOK, HasLock, LockHeld
<1>3. UnderWay'
  BY DEF GoalTypeOK, Goal, HasLock, UnderWay, Gone
<1>4. CopiesFollow'
  BY DEF GoalTypeOK, Goal, Gone, CopiesFollow, Follows
<1>5. Unwritten'
  BY DEF GoalTypeOK, Goal, Gone, UnderWay, Unwritten
<1>6. ReadUnderLock'
  BY DEF GoalTypeOK, Goal, HasLock, LockHeld, ReadUnderLock
<1>7. NoLostUpdate'
  BY DEF GoalTypeOK, Goal, NoLostUpdate
<1>8. Private'
  BY DEF GoalTypeOK, Goal, Gone, UnderWay, Private
<1>9. QED BY <1>1, <1>2, <1>3, <1>4, <1>5, <1>6, <1>7, <1>8

\* A copy of the revision of the file goes on to be written, with what was
\* read of the file; nothing else changes.
LEMMA CompareAgreesKeepsInv ==
    ASSUME GoalInv, NEW p \in Managers, Compare(p), file.exists, ~Stale(p)
    PROVE  GoalInv'
<1>1. /\ pc[p] = "loading" /\ file.exists /\ memory[p].revision = file.revision
      /\ pc' = [pc EXCEPT ![p] = "writing"]
      /\ found' = [found EXCEPT ![p] = file]
      /\ UNCHANGED <<family, created, file, memory, change, lock, pack, outcome, budget>>
  BY DEF Compare, Stale
<1>. USE <1>1 DEF GoalInv, budget
<1>2. GoalTypeOK'
  BY DEF GoalTypeOK, HasLock
<1>3. LockHeld' /\ UnderWay'
  BY DEF GoalTypeOK, HasLock, LockHeld, UnderWay
<1>4. CopiesFollow' /\ Unwritten' /\ NoLostUpdate'
  BY DEF GoalTypeOK, CopiesFollow, Follows, Unwritten, NoLostUpdate
<1>5. ReadUnderLock'
  BY DEF GoalTypeOK, Goal, ReadUnderLock
<1>6. Private'
  BY DEF GoalTypeOK, UnderWay, Private
<1>7. QED BY <1>2, <1>3, <1>4, <1>5, <1>6

\* Any other is refused.  In the copy of a manager the file takes its place,
\* which never had the change.
LEMMA CompareRefusesKeepsInv ==
    ASSUME GoalInv, NEW p \in Managers, Compare(p), ~(file.exists /\ ~Stale(p))
    PROVE  GoalInv'
<1>1. PICK what \in {"conflict", "disappeared"} :
          /\ what = IF file.exists THEN "conflict" ELSE "disappeared"
          /\ Told(p, what)
  BY DEF Compare
<1>2. /\ pc[p] = "loading" /\ lock' = Nobody
      /\ memory' = IF file.exists /\ family = "core" THEN [memory EXCEPT ![p] = file] ELSE memory
      /\ UNCHANGED <<family, created, file, pack, budget>>
  BY DEF Compare, Refused, KeptCopy, GoalInv, GoalTypeOK
<1>. USE <1>1, <1>2 DEF GoalInv, Told, budget
<1>3. GoalTypeOK'
  BY DEF GoalTypeOK, Goal, Gone, HasLock, Answers
<1>4. LockHeld' /\ UnderWay'
  BY DEF GoalTypeOK, HasLock, LockHeld, UnderWay, Gone
<1>5. CopiesFollow' /\ NoLostUpdate'
  BY DEF GoalTypeOK, Goal, CopiesFollow, Follows, NoLostUpdate
<1>6. Unwritten' /\ ReadUnderLock'
  BY DEF GoalTypeOK, HasLock, LockHeld, Unwritten, ReadUnderLock
<1>7. Private'
  BY DEF GoalTypeOK, Goal, Gone, UnderWay, Private
<1>8. QED BY <1>3, <1>4, <1>5, <1>6, <1>7

LEMMA CompareKeepsInv ==
    ASSUME GoalInv, NEW p \in Managers, Compare(p)
    PROVE  GoalInv'
BY CompareAgreesKeepsInv, CompareRefusesKeepsInv

LEMMA StutterKeepsGoalInv ==
    ASSUME GoalInv, UNCHANGED goalVars
    PROVE  GoalInv'
<1>. USE DEF GoalInv, goalVars, budget
<1>1. GoalTypeOK' /\ LockHeld' /\ UnderWay'
  BY DEF GoalTypeOK, LockHeld, UnderWay
<1>2. CopiesFollow' /\ Unwritten' /\ ReadUnderLock' /\ NoLostUpdate'
  BY DEF CopiesFollow, Follows, Unwritten, ReadUnderLock, NoLostUpdate
<1>3. Private'
  BY DEF Private
<1>4. QED BY <1>1, <1>2, <1>3

THEOREM GoalInvariant == GoalSpec => []GoalInv
<1>1. GoalInv /\ [GoalNext]_goalVars => GoalInv'
  <2>. SUFFICES ASSUME GoalInv, [GoalNext]_goalVars PROVE GoalInv'
    OBVIOUS
  <2>1. CASE UNCHANGED goalVars
    BY <2>1, StutterKeepsGoalInv
  <2>2. ASSUME NEW p \in Managers,
               Open(p) \/ Create(p) \/ Export(p) \/ Import(p) \/ Delete(p) \/ Crash(p)
        PROVE  GoalInv'
    BY <2>2, OpenKeepsInv, CreateKeepsInv, ExportKeepsInv, ImportKeepsInv, DeleteKeepsInv,
       CrashKeepsInv
  <2>3. ASSUME NEW p \in Managers, NEW c \in Changes, Change(p, c)
        PROVE  GoalInv'
    BY <2>3, ChangeKeepsInv
  <2>4. ASSUME NEW p \in Managers,
               Lock(p) \/ LockTimeout(p) \/ Look(p) \/ Compare(p) \/ Write(p) \/ WriteFails(p)
        PROVE  GoalInv'
    BY <2>4, LockKeepsInv, LockTimeoutKeepsInv, LookKeepsInv, CompareKeepsInv, WriteKeepsInv,
       WriteFailsKeepsInv
  <2>5. QED BY <2>1, <2>2, <2>3, <2>4 DEF GoalNext
<1>2. QED BY <1>1, InitSatisfiesGoalInv, PTL DEF GoalSpec

-----------------------------------------------------------------------------
\* While the goal is not deleted, what was saved is in its file: a copy that
\* lacks it is refused, because the revision of the file has gone on.
THEOREM SavedIsKept == GoalSpec => []NoLostUpdate
<1>1. GoalInv => NoLostUpdate
  BY DEF GoalInv
<1>2. QED BY <1>1, GoalInvariant, PTL

\* The lock of the file is with one process at a time, and what that process
\* read of the file is still what is there when it writes.
THEOREM OneWriter == GoalSpec => [](LockHeld /\ ReadUnderLock)
<1>1. GoalInv => LockHeld /\ ReadUnderLock
  BY DEF GoalInv
<1>2. QED BY <1>1, GoalInvariant, PTL

\* What a manager refused is nowhere: its copy is the file again, which only
\* the writer of the change could have put the change into.
THEOREM RefusedIsNowhere == GoalSpec => []RefusedStaysOut
<1>1. GoalInv => RefusedStaysOut
  BY DEF GoalInv, UnderWay, Private, RefusedStaysOut
<1>2. QED BY <1>1, GoalInvariant, PTL
=============================================================================
