----------------------- MODULE LongrunSupervisorProofs -----------------------
(***************************************************************************)
(* The budget of a guarded run, its record and its verdict, for every       *)
(* budget, every set of causes and every number of deaths.                  *)
(***************************************************************************)
EXTENDS LongrunSupervisor, TLAPS

USE LongrunConstants DEF NoCause

\* What goes into a count once.
Once(condition) == IF condition THEN 1 ELSE 0

State == [session : Nat, signatures : SUBSET Causes, park_until : Nat,
          stopped : {"no"} \cup Verdicts]
Budget == [legs : Nat, spent : BOOLEAN]
Leg == [kind : {"ok", "quota", "decision", "irreversible"}, session : Nat, cause : {NoCause}]
            \cup [kind : {"transient"}, session : Nat, cause : Causes]
Journal == [leg : Nat, failure : Nat, escalation : Nat, torn : BOOLEAN]
Places == {"down", "top", "park", "check", "ready", "drop", "launch", "leg", "ended", "log",
           "decide", "announce"}

LongrunTypeOK ==
    /\ pc \in Places /\ now \in Nat /\ cancel \in BOOLEAN
    /\ state \in State /\ stateFile \in State
    /\ consumed \in Budget /\ consumedFile \in Budget
    /\ leg \in Leg /\ journal \in Journal
    /\ launched \in Nat /\ late \in Nat /\ dropped \in Nat /\ crashes \in Nat
    /\ failed \in [Causes -> Nat]

\* What the supervisor knows is in the files, but for the leg that has ended;
\* a run with a verdict is over.
CopiesAgree ==
    /\ pc # "down" =>
           /\ state.signatures = stateFile.signatures
           /\ state.stopped = stateFile.stopped
           /\ consumed.legs = consumedFile.legs + Once(pc = "ended")
    /\ pc \notin {"down", "announce"} => stateFile.stopped = "no"
    /\ pc = "announce" => stateFile.stopped \notin {"no", "terminado"}
    /\ journal.torn => crashes >= 1

\* A leg is started only with budget left for it.
WithinBudget ==
    /\ consumedFile.legs + Once(pc = "ended") <= MaxLegs
    /\ pc \in {"ready", "drop", "launch", "leg"} => consumedFile.legs < MaxLegs
    /\ launched <= consumedFile.legs + crashes + Once(pc \in {"leg", "ended"})

\* Between the request and the next look at it at most one leg is started.
AfterCancel ==
    /\ ~cancel => late = 0
    /\ late <= crashes + Once(pc \notin {"park", "check", "ready", "drop", "launch"})

\* A cause is in the file of causes, under way, or the reason to stop, each once.
CausesCounted ==
    \A c \in Causes :
        failed[c] <= crashes + Once(c \in stateFile.signatures)
                             + Once(leg.cause = c /\ pc \in {"ended", "log", "decide"})
                             + Once(stateFile.stopped # "no")

\* A death takes one entry in the making and one that follows a torn line.
EntriesCounted ==
    /\ consumedFile.legs + Once(journal.torn) <= journal.leg + 2 * crashes + Once(pc = "log")
    /\ dropped + Once(journal.torn) + Once(pc = "drop") <= journal.failure + crashes
    /\ (pc = "down" /\ stateFile.stopped \notin {"no", "terminado"})
            => journal.escalation + crashes >= 1

LongrunInv ==
    /\ LongrunTypeOK /\ CopiesAgree /\ WithinBudget /\ AfterCancel
    /\ CausesCounted /\ EntriesCounted

-----------------------------------------------------------------------------
\* The initial state and every action keep the invariant.

LEMMA InitSatisfiesLongrunInv == LongrunInit => LongrunInv
<1>. SUFFICES ASSUME LongrunInit PROVE LongrunInv
  OBVIOUS
<1>. USE DEF LongrunInit, NoState, NoLeg
<1>1. LongrunTypeOK
  BY DEF LongrunTypeOK, Places, State, Budget, Leg, Journal
<1>2. CopiesAgree /\ WithinBudget /\ AfterCancel
  BY DEF CopiesAgree, WithinBudget, AfterCancel, Once
<1>3. CausesCounted /\ EntriesCounted
  BY DEF CausesCounted, EntriesCounted, Once
<1>4. QED BY <1>1, <1>2, <1>3 DEF LongrunInv

\* An entry that can be read is one more, if it does not follow a torn line.
LEMMA AppendedIsJournal ==
    ASSUME LongrunTypeOK
    PROVE  /\ journal.torn => \A kind : Appended(kind) = [journal EXCEPT !.torn = FALSE]
           /\ ~journal.torn => /\ Appended("leg") = [journal EXCEPT !.leg = @ + 1]
                               /\ Appended("failure") = [journal EXCEPT !.failure = @ + 1]
                               /\ Appended("escalation") = [journal EXCEPT !.escalation = @ + 1]
           /\ \A kind \in {"leg", "failure", "escalation"} : Appended(kind) \in Journal
<1>1. journal.torn => \A kind : Appended(kind) = [journal EXCEPT !.torn = FALSE]
  BY DEF Appended
<1>2. ~journal.torn => /\ Appended("leg") = [journal EXCEPT !.leg = @ + 1]
                       /\ Appended("failure") = [journal EXCEPT !.failure = @ + 1]
                       /\ Appended("escalation") = [journal EXCEPT !.escalation = @ + 1]
  BY DEF Appended, LongrunTypeOK, Journal
<1>3. \A kind \in {"leg", "failure", "escalation"} : Appended(kind) \in Journal
  <2>1. journal \in Journal
    BY DEF LongrunTypeOK
  <2>2. CASE journal.torn
    BY <1>1, <2>1, <2>2 DEF Journal
  <2>3. CASE ~journal.torn
    BY <1>2, <2>1, <2>3 DEF Journal
  <2>4. QED BY <2>2, <2>3
<1>4. QED BY <1>1, <1>2, <1>3

\* What the files say is what the run goes on from.
LEMMA RestartKeepsInv ==
    ASSUME LongrunInv, Restart
    PROVE  LongrunInv'
<1>. USE DEF LongrunInv, Restart, memory, files, ledger
<1>1. LongrunTypeOK'
  BY DEF LongrunTypeOK, Places, State, Budget, Leg, Journal, Verdicts, Times
<1>2. CopiesAgree'
  BY DEF LongrunTypeOK, State, Budget, Once, CopiesAgree
<1>3. WithinBudget'
  BY DEF LongrunTypeOK, Budget, Once, CopiesAgree, WithinBudget
<1>4. AfterCancel'
  BY DEF LongrunTypeOK, Once, AfterCancel
<1>5. CausesCounted'
  BY DEF LongrunTypeOK, State, Leg, Once, CopiesAgree, CausesCounted
<1>6. EntriesCounted'
  BY DEF LongrunTypeOK, State, Budget, Journal, Once, CopiesAgree,
         EntriesCounted
<1>7. QED BY <1>1, <1>2, <1>3, <1>4, <1>5, <1>6

\* After a request to stop, and without budget, nothing is started.
LEMMA TopKeepsInv ==
    ASSUME LongrunInv, Top
    PROVE  LongrunInv'
<1>. USE DEF LongrunInv, Top, Stop, Save, exhausted, memory, files, ledger
<1>1. LongrunTypeOK'
  BY DEF LongrunTypeOK, Places, State, Budget, Leg, Journal, Verdicts
<1>2. CopiesAgree'
  BY DEF LongrunTypeOK, State, Budget, Once, CopiesAgree
<1>3. WithinBudget'
  BY DEF LongrunTypeOK, Budget, Once, CopiesAgree, WithinBudget
<1>4. AfterCancel'
  BY DEF LongrunTypeOK, Once, AfterCancel
<1>5. CausesCounted'
  BY DEF LongrunTypeOK, State, Leg, Once, CopiesAgree, CausesCounted
<1>6. EntriesCounted'
  BY DEF LongrunTypeOK, State, Budget, Journal, Once, CopiesAgree,
         EntriesCounted
<1>7. QED BY <1>1, <1>2, <1>3, <1>4, <1>5, <1>6

\* A request to stop ends the wait.
LEMMA SleepKeepsInv ==
    ASSUME LongrunInv, Sleep
    PROVE  LongrunInv'
<1>. USE DEF LongrunInv, Sleep, Stop, Save, memory, files, ledger
<1>1. LongrunTypeOK'
  BY DEF LongrunTypeOK, Places, State, Budget, Leg, Journal, Verdicts
<1>2. CopiesAgree'
  BY DEF LongrunTypeOK, State, Budget, Once, CopiesAgree
<1>3. WithinBudget'
  BY DEF LongrunTypeOK, Budget, Once, CopiesAgree, WithinBudget
<1>4. AfterCancel'
  BY DEF LongrunTypeOK, Once, AfterCancel
<1>5. CausesCounted'
  BY DEF LongrunTypeOK, State, Leg, Once, CopiesAgree, CausesCounted
<1>6. EntriesCounted'
  BY DEF LongrunTypeOK, State, Budget, Journal, Once, CopiesAgree,
         EntriesCounted
<1>7. QED BY <1>1, <1>2, <1>3, <1>4, <1>5, <1>6

\* The end of the parking touches neither counts nor verdict.
LEMMA UnparkKeepsInv ==
    ASSUME LongrunInv, Unpark
    PROVE  LongrunInv'
<1>. USE DEF LongrunInv, Unpark, memory, files, ledger
<1>1. LongrunTypeOK'
  BY DEF LongrunTypeOK, Places, State, Budget, Leg, Journal, Verdicts
<1>2. CopiesAgree'
  BY DEF LongrunTypeOK, State, Budget, Once, CopiesAgree
<1>3. WithinBudget'
  BY DEF LongrunTypeOK, Budget, Once, CopiesAgree, WithinBudget
<1>4. AfterCancel'
  BY DEF LongrunTypeOK, Once, AfterCancel
<1>5. CausesCounted'
  BY DEF LongrunTypeOK, State, Leg, Once, CopiesAgree, CausesCounted
<1>6. EntriesCounted'
  BY DEF LongrunTypeOK, State, Budget, Journal, Once, CopiesAgree,
         EntriesCounted
<1>7. QED BY <1>1, <1>2, <1>3, <1>4, <1>5, <1>6

\* A leg is prepared only with budget left.
LEMMA CheckKeepsInv ==
    ASSUME LongrunInv, Check
    PROVE  LongrunInv'
<1>. USE DEF LongrunInv, Check, exhausted, Stop, Save, memory, files, ledger
<1>1. LongrunTypeOK'
  BY DEF LongrunTypeOK, Places, State, Budget, Leg, Journal, Verdicts
<1>2. CopiesAgree'
  BY DEF LongrunTypeOK, State, Budget, Once, CopiesAgree
<1>3. WithinBudget'
  BY DEF LongrunTypeOK, Budget, Once, CopiesAgree, WithinBudget
<1>4. AfterCancel'
  BY DEF LongrunTypeOK, Once, AfterCancel
<1>5. CausesCounted'
  BY DEF LongrunTypeOK, State, Leg, Once, CopiesAgree, CausesCounted
<1>6. EntriesCounted'
  BY DEF LongrunTypeOK, State, Budget, Journal, Once, CopiesAgree,
         EntriesCounted
<1>7. QED BY <1>1, <1>2, <1>3, <1>4, <1>5, <1>6

\* The entry of the session given up comes before it is given up.
LEMMA InspectKeepsInv ==
    ASSUME LongrunInv, Inspect
    PROVE  LongrunInv'
<1>. USE DEF LongrunInv, Inspect, append, memory, files, ledger
<1>1. LongrunTypeOK'
  BY AppendedIsJournal DEF LongrunTypeOK, Places, State, Budget, Leg, Journal,
         Verdicts, Once
<1>2. CopiesAgree'
  BY AppendedIsJournal DEF LongrunTypeOK, State, Budget, Once, CopiesAgree,
         Journal
<1>3. WithinBudget'
  BY AppendedIsJournal DEF LongrunTypeOK, Budget, Once, CopiesAgree,
         WithinBudget
<1>4. AfterCancel'
  BY AppendedIsJournal DEF LongrunTypeOK, Once, AfterCancel
<1>5. CausesCounted'
  BY AppendedIsJournal DEF LongrunTypeOK, State, Leg, Once, CopiesAgree,
         CausesCounted
<1>6. EntriesCounted'
  BY AppendedIsJournal DEF LongrunTypeOK, State, Budget, Journal, Once,
         CopiesAgree, EntriesCounted
<1>7. QED BY <1>1, <1>2, <1>3, <1>4, <1>5, <1>6

\* The session that is given up has its entry.
LEMMA DropKeepsInv ==
    ASSUME LongrunInv, Drop
    PROVE  LongrunInv'
<1>. USE DEF LongrunInv, Drop, Save, memory, files, ledger
<1>1. LongrunTypeOK'
  BY DEF LongrunTypeOK, Places, State, Budget, Leg, Journal, Verdicts
<1>2. CopiesAgree'
  BY DEF LongrunTypeOK, State, Budget, Once, CopiesAgree
<1>3. WithinBudget'
  BY DEF LongrunTypeOK, Budget, Once, CopiesAgree, WithinBudget
<1>4. AfterCancel'
  BY DEF LongrunTypeOK, Once, AfterCancel
<1>5. CausesCounted'
  BY DEF LongrunTypeOK, State, Leg, Once, CopiesAgree, CausesCounted
<1>6. EntriesCounted'
  BY DEF LongrunTypeOK, State, Budget, Journal, Once, CopiesAgree,
         EntriesCounted
<1>7. QED BY <1>1, <1>2, <1>3, <1>4, <1>5, <1>6

\* The leg is within the budget that Check saw.
LEMMA LaunchKeepsInv ==
    ASSUME LongrunInv, Launch
    PROVE  LongrunInv'
<1>. USE DEF LongrunInv, Launch, memory, files, ledger
<1>1. LongrunTypeOK'
  BY DEF LongrunTypeOK, Places, State, Budget, Leg, Journal, Verdicts
<1>2. CopiesAgree'
  BY DEF LongrunTypeOK, State, Budget, Once, CopiesAgree
<1>3. WithinBudget'
  BY DEF LongrunTypeOK, Budget, Once, CopiesAgree, WithinBudget
<1>4. AfterCancel'
  BY DEF LongrunTypeOK, Once, AfterCancel
<1>5. CausesCounted'
  BY DEF LongrunTypeOK, State, Leg, Once, CopiesAgree, CausesCounted
<1>6. EntriesCounted'
  BY DEF LongrunTypeOK, State, Budget, Journal, Once, CopiesAgree,
         EntriesCounted
<1>7. QED BY <1>1, <1>2, <1>3, <1>4, <1>5, <1>6

\* The leg is counted where it is known, and its cause is under way.
LEMMA LegEndsKeepsInv ==
    ASSUME LongrunInv, LegEnds
    PROVE  LongrunInv'
<1>. USE DEF LongrunInv, LegEnds, memory, files, ledger
<1>1. LongrunTypeOK'
  <2>1. Current \in Nat
    BY DEF LongrunTypeOK, State, Current
  <2>2. leg' \in Leg
    BY <2>1 DEF Reports, Leg
  <2>3. consumed' \in Budget
    <3>1. PICK more \in BOOLEAN : consumed' = [legs |-> consumed.legs + 1, spent |-> more]
      BY DEF LongrunTypeOK, Budget
    <3>2. QED BY <3>1 DEF LongrunTypeOK, Budget
  <2>4. failed' \in [Causes -> Nat]
    BY <2>2 DEF LongrunTypeOK, Leg
  <2>5. QED BY <2>2, <2>3, <2>4 DEF LongrunTypeOK, Places, Times
<1>2. CopiesAgree'
  BY DEF LongrunTypeOK, State, Budget, Once, CopiesAgree
<1>3. WithinBudget'
  BY DEF LongrunTypeOK, Budget, Once, CopiesAgree, WithinBudget
<1>4. AfterCancel'
  BY DEF LongrunTypeOK, Once, AfterCancel
<1>5. CausesCounted'
  BY DEF LongrunTypeOK, State, Leg, Once, CopiesAgree, CausesCounted
<1>6. EntriesCounted'
  BY DEF LongrunTypeOK, State, Budget, Journal, Once, CopiesAgree,
         EntriesCounted
<1>7. QED BY <1>1, <1>2, <1>3, <1>4, <1>5, <1>6

\* What the leg cost reaches its file.
LEMMA SaveConsumedKeepsInv ==
    ASSUME LongrunInv, SaveConsumed
    PROVE  LongrunInv'
<1>. USE DEF LongrunInv, SaveConsumed, memory, files, ledger
<1>1. LongrunTypeOK'
  BY DEF LongrunTypeOK, Places, State, Budget, Leg, Journal, Verdicts
<1>2. CopiesAgree'
  BY DEF LongrunTypeOK, State, Budget, Once, CopiesAgree
<1>3. WithinBudget'
  BY DEF LongrunTypeOK, Budget, Once, CopiesAgree, WithinBudget
<1>4. AfterCancel'
  BY DEF LongrunTypeOK, Once, AfterCancel
<1>5. CausesCounted'
  BY DEF LongrunTypeOK, State, Leg, Once, CopiesAgree, CausesCounted
<1>6. EntriesCounted'
  BY DEF LongrunTypeOK, State, Budget, Journal, Once, CopiesAgree,
         EntriesCounted
<1>7. QED BY <1>1, <1>2, <1>3, <1>4, <1>5, <1>6

\* The entry of the leg follows the budget.
LEMMA LogKeepsInv ==
    ASSUME LongrunInv, Log
    PROVE  LongrunInv'
<1>. USE DEF LongrunInv, Log, append, memory, files, ledger
<1>1. LongrunTypeOK'
  BY AppendedIsJournal DEF LongrunTypeOK, Places, State, Budget, Leg, Journal,
         Verdicts, Once
<1>2. CopiesAgree'
  BY AppendedIsJournal DEF LongrunTypeOK, State, Budget, Once, CopiesAgree,
         Journal
<1>3. WithinBudget'
  BY AppendedIsJournal DEF LongrunTypeOK, Budget, Once, CopiesAgree,
         WithinBudget
<1>4. AfterCancel'
  BY AppendedIsJournal DEF LongrunTypeOK, Once, AfterCancel
<1>5. CausesCounted'
  BY AppendedIsJournal DEF LongrunTypeOK, State, Leg, Once, CopiesAgree,
         CausesCounted
<1>6. EntriesCounted'
  BY AppendedIsJournal DEF LongrunTypeOK, State, Budget, Journal, Once,
         CopiesAgree, EntriesCounted
<1>7. QED BY <1>1, <1>2, <1>3, <1>4, <1>5, <1>6

\* The session, the causes and the parking are saved with the decision.
LEMMA DecideKeepsInv ==
    ASSUME LongrunInv, Decide
    PROVE  LongrunInv'
<1>. USE DEF LongrunInv, memory, files, ledger
<1>1. ASSUME NEW code \in Verdicts, Stop(code), pc = "decide", leg' = NoLeg,
             UNCHANGED <<now, cancel, consumed, consumedFile, journal, ledger>>
      PROVE  LongrunInv'
  <2>. USE <1>1 DEF Stop, Save
  <2>1. LongrunTypeOK' /\ CopiesAgree'
    BY DEF LongrunTypeOK, Places, State, Budget, Leg, NoLeg, Verdicts, CopiesAgree, Once
  <2>2. WithinBudget' /\ AfterCancel'
    BY DEF LongrunTypeOK, Budget, Once, CopiesAgree, WithinBudget, AfterCancel
  <2>3. CausesCounted'
    BY DEF LongrunTypeOK, State, Leg, NoLeg, Verdicts, Once, CopiesAgree, CausesCounted
  <2>4. EntriesCounted'
    BY DEF LongrunTypeOK, State, Budget, Journal, Verdicts, Once, EntriesCounted
  <2>5. QED BY <2>1, <2>2, <2>3, <2>4
<1>2. CASE leg.kind \in {"ok", "decision", "irreversible"}
  BY <1>1, <1>2 DEF Decide, Verdicts
<1>3. CASE leg.kind = "quota"
  <2>1. PICK until \in Times : state' = [state EXCEPT !.park_until = until]
    BY <1>3 DEF Decide, Save
  <2>2. /\ pc = "decide" /\ pc' = "top" /\ leg' = NoLeg /\ stateFile' = state'
        /\ UNCHANGED <<now, cancel, consumed, consumedFile, journal, ledger>>
    BY <1>3 DEF Decide, Save
  <2>. USE <2>1, <2>2
  <2>3. LongrunTypeOK' /\ CopiesAgree'
    BY DEF LongrunTypeOK, Places, State, Budget, Leg, NoLeg, Times, CopiesAgree, Once
  <2>4. WithinBudget' /\ AfterCancel'
    BY DEF LongrunTypeOK, Budget, Once, WithinBudget, AfterCancel
  <2>5. CausesCounted'
    BY <1>3 DEF LongrunTypeOK, State, Leg, NoLeg, Once, CopiesAgree, CausesCounted
  <2>6. EntriesCounted'
    BY DEF LongrunTypeOK, State, Budget, Journal, Once, EntriesCounted
  <2>7. QED BY <2>3, <2>4, <2>5, <2>6
<1>4. CASE leg.kind = "transient"
  <2>1. CASE leg.cause \in state.signatures
    BY <1>1, <1>4, <2>1 DEF Decide, Verdicts
  <2>2. CASE leg.cause \notin state.signatures
    <3>1. /\ pc = "decide" /\ pc' = "top" /\ leg' = NoLeg /\ stateFile' = state'
          /\ state' = [state EXCEPT !.signatures = @ \cup {leg.cause}]
          /\ leg.cause \in Causes
          /\ UNCHANGED <<now, cancel, consumed, consumedFile, journal, ledger>>
      BY <1>4, <2>2 DEF Decide, Save, LongrunTypeOK, Leg
    <3>. USE <3>1
    <3>2. LongrunTypeOK' /\ CopiesAgree'
      BY DEF LongrunTypeOK, Places, State, Budget, Leg, NoLeg, CopiesAgree, Once
    <3>3. WithinBudget' /\ AfterCancel'
      BY DEF LongrunTypeOK, Budget, Once, WithinBudget, AfterCancel
    <3>4. CausesCounted'
      BY <2>2 DEF LongrunTypeOK, State, NoLeg, Once, CopiesAgree, CausesCounted
    <3>5. EntriesCounted'
      BY DEF LongrunTypeOK, State, Budget, Journal, Once, EntriesCounted
    <3>6. QED BY <3>2, <3>3, <3>4, <3>5
  <2>3. QED BY <2>1, <2>2
<1>5. leg.kind \in {"ok", "decision", "irreversible", "quota", "transient"}
  BY DEF LongrunTypeOK, Leg
<1>6. QED BY <1>2, <1>3, <1>4, <1>5

\* The entry of the verdict is made or follows a torn line.
LEMMA AnnounceKeepsInv ==
    ASSUME LongrunInv, Announce
    PROVE  LongrunInv'
<1>. USE DEF LongrunInv, Announce, append, memory, files, ledger
<1>1. LongrunTypeOK'
  BY AppendedIsJournal DEF LongrunTypeOK, Places, State, Budget, Leg, Journal,
         Verdicts, Once
<1>2. CopiesAgree'
  BY AppendedIsJournal DEF LongrunTypeOK, State, Budget, Once, CopiesAgree,
         Journal
<1>3. WithinBudget'
  BY AppendedIsJournal DEF LongrunTypeOK, Budget, Once, CopiesAgree,
         WithinBudget
<1>4. AfterCancel'
  BY AppendedIsJournal DEF LongrunTypeOK, Once, AfterCancel
<1>5. CausesCounted'
  BY AppendedIsJournal DEF LongrunTypeOK, State, Leg, Once, CopiesAgree,
         CausesCounted
<1>6. EntriesCounted'
  BY AppendedIsJournal DEF LongrunTypeOK, State, Budget, Journal, Once,
         CopiesAgree, EntriesCounted
<1>7. QED BY <1>1, <1>2, <1>3, <1>4, <1>5, <1>6

\* The request by itself starts nothing.
LEMMA CancelKeepsInv ==
    ASSUME LongrunInv, Cancel
    PROVE  LongrunInv'
<1>. USE DEF LongrunInv, Cancel, memory, files, ledger
<1>1. LongrunTypeOK'
  BY DEF LongrunTypeOK, Places, State, Budget, Leg, Journal, Verdicts
<1>2. CopiesAgree'
  BY DEF LongrunTypeOK, State, Budget, Once, CopiesAgree
<1>3. WithinBudget'
  BY DEF LongrunTypeOK, Budget, Once, CopiesAgree, WithinBudget
<1>4. AfterCancel'
  BY DEF LongrunTypeOK, Once, AfterCancel
<1>5. CausesCounted'
  BY DEF LongrunTypeOK, State, Leg, Once, CopiesAgree, CausesCounted
<1>6. EntriesCounted'
  BY DEF LongrunTypeOK, State, Budget, Journal, Once, CopiesAgree,
         EntriesCounted
<1>7. QED BY <1>1, <1>2, <1>3, <1>4, <1>5, <1>6

\* A death costs the leg that runs or has not been counted yet, the entry that
\* is being written and, if its line stays torn, the one after it.
LEMMA CrashKeepsInv ==
    ASSUME LongrunInv, Crash
    PROVE  LongrunInv'
<1>1. /\ pc # "down" /\ pc' = "down" /\ crashes' = crashes + 1
      /\ state' = NoState /\ leg' = NoLeg /\ consumed' = [legs |-> 0, spent |-> FALSE]
      /\ UNCHANGED <<now, cancel, stateFile, consumedFile, launched, late, failed, dropped>>
  BY DEF Crash
<1>2. /\ journal' \in Journal
      /\ journal'.leg >= journal.leg /\ journal'.failure >= journal.failure
      /\ journal'.leg + 1 >= journal.leg + Once(journal'.torn)
      /\ journal'.failure + 1 >= journal.failure + Once(journal'.torn)
  <2>1. PICK k \in {"leg", "failure", "escalation"} :
            journal' \in {journal, [journal EXCEPT !.torn = TRUE], Appended(k)}
    BY DEF Crash, Writing
  <2>2. CASE journal' \in {journal, [journal EXCEPT !.torn = TRUE]}
    <3>1. journal \in Journal
      BY DEF LongrunInv, LongrunTypeOK
    <3>2. CASE journal' = journal
      BY <3>1, <3>2 DEF Journal, Once
    <3>3. CASE journal' = [journal EXCEPT !.torn = TRUE]
      <4>1. journal'.torn /\ journal'.leg = journal.leg /\ journal'.failure = journal.failure
        BY <3>1, <3>3 DEF Journal
      <4>2. journal' \in Journal
        BY <3>1, <3>3 DEF Journal
      <4>3. journal.leg \in Nat /\ journal.failure \in Nat
        BY <3>1 DEF Journal
      <4>4. QED BY <4>1, <4>2, <4>3 DEF Once
    <3>4. QED BY <2>2, <3>2, <3>3
  <2>3. CASE journal' = Appended(k)
    BY <2>3, AppendedIsJournal DEF LongrunInv, LongrunTypeOK, Journal, Once
  <2>4. QED BY <2>1, <2>2, <2>3
<1>. USE <1>1, <1>2 DEF LongrunInv
<1>3. LongrunTypeOK'
  BY DEF LongrunTypeOK, Places, State, Budget, Leg, NoState, NoLeg
<1>4. CopiesAgree' /\ WithinBudget' /\ AfterCancel'
  BY DEF LongrunTypeOK, Budget, Once, CopiesAgree, WithinBudget, AfterCancel
<1>5. CausesCounted'
  BY DEF LongrunTypeOK, State, Leg, NoLeg, Once, CausesCounted
<1>6. EntriesCounted'
  BY DEF LongrunTypeOK, State, Budget, Journal, Once, EntriesCounted
<1>7. QED BY <1>3, <1>4, <1>5, <1>6

\* What a leg without a supervisor does is in no count.
LEMMA OrphanKeepsInv ==
    ASSUME LongrunInv, NEW s, Orphan(s)
    PROVE  LongrunInv'
<1>. USE DEF LongrunInv, Orphan, memory, files, ledger
<1>1. LongrunTypeOK'
  BY DEF LongrunTypeOK, Places, State, Budget, Leg, Journal, Verdicts
<1>2. CopiesAgree'
  BY DEF LongrunTypeOK, State, Budget, Once, CopiesAgree
<1>3. WithinBudget'
  BY DEF LongrunTypeOK, Budget, Once, CopiesAgree, WithinBudget
<1>4. AfterCancel'
  BY DEF LongrunTypeOK, Once, AfterCancel
<1>5. CausesCounted'
  BY DEF LongrunTypeOK, State, Leg, Once, CopiesAgree, CausesCounted
<1>6. EntriesCounted'
  BY DEF LongrunTypeOK, State, Budget, Journal, Once, CopiesAgree,
         EntriesCounted
<1>7. QED BY <1>1, <1>2, <1>3, <1>4, <1>5, <1>6

LEMMA StutterKeepsLongrunInv ==
    ASSUME LongrunInv, UNCHANGED longrunVars
    PROVE  LongrunInv'
BY DEF LongrunInv, longrunVars, memory, files, ledger, LongrunTypeOK, CopiesAgree, WithinBudget,
       AfterCancel, CausesCounted, EntriesCounted

THEOREM LongrunInvariant == LongrunSpec => []LongrunInv
<1>1. LongrunInv /\ [LongrunNext]_longrunVars => LongrunInv'
  BY RestartKeepsInv, TopKeepsInv, SleepKeepsInv, UnparkKeepsInv, CheckKeepsInv, InspectKeepsInv,
     DropKeepsInv, LaunchKeepsInv, LegEndsKeepsInv, SaveConsumedKeepsInv, LogKeepsInv,
     DecideKeepsInv, AnnounceKeepsInv, CancelKeepsInv, CrashKeepsInv, OrphanKeepsInv,
     StutterKeepsLongrunInv
  DEF LongrunNext, Supervise
<1>2. QED BY <1>1, InitSatisfiesLongrunInv, PTL DEF LongrunSpec

-----------------------------------------------------------------------------
\* The budget holds over all lives of the supervisor: MaxLegs legs and one for
\* each death, one leg after a request to stop, and two failures of a cause.
THEOREM BudgetHolds == LongrunSpec => []LegsBounded
<1>1. ASSUME LongrunInv PROVE LegsBounded
  <2>. USE DEF LongrunInv, LongrunTypeOK, Once
  <2>1. launched <= MaxLegs + crashes
    BY <1>1 DEF WithinBudget, Budget
  <2>2. late <= 1 + crashes
    BY <1>1 DEF AfterCancel
  <2>3. \A c \in Causes : failed[c] <= 2 + crashes
    <3>1. ASSUME NEW c \in Causes
          PROVE  Once(leg.cause = c /\ pc \in {"ended", "log", "decide"})
                     + Once(stateFile.stopped # "no") <= 1
      BY <1>1 DEF CopiesAgree
    <3>2. QED BY <1>1, <3>1 DEF CausesCounted
  <2>4. QED BY <2>1, <2>2, <2>3 DEF LegsBounded
<1>2. QED BY <1>1, LongrunInvariant, PTL

\* consumed.json, the journal and what happened differ by what the deaths took.
THEOREM RecordIsKept == LongrunSpec => []RecordKept
<1>1. ASSUME LongrunInv PROVE RecordKept
  BY <1>1 DEF LongrunInv, LongrunTypeOK, Budget, Journal, Once, WithinBudget, EntriesCounted,
              RecordKept, InFlight
<1>2. QED BY <1>1, LongrunInvariant, PTL

\* Nothing is started after a verdict, and no verdict replaces another.
THEOREM VerdictIsFinal == LongrunSpec => [][VerdictStands]_longrunVars
<1>1. ASSUME LongrunInv, [LongrunNext]_longrunVars PROVE [VerdictStands]_longrunVars
  <2>. SUFFICES ASSUME stateFile.stopped # "no"
                PROVE  launched' = launched /\ stateFile' = stateFile
    BY DEF VerdictStands
  <2>1. pc \in {"down", "announce"}
    BY <1>1 DEF LongrunInv, CopiesAgree
  <2>2. ~Restart
    BY DEF Restart
  <2>3. QED
    BY <1>1, <2>1, <2>2
    DEF LongrunNext, Supervise, Top, Sleep, Unpark, Check, Inspect, Drop, Launch, LegEnds,
        SaveConsumed, Log, Decide, Announce, Cancel, Crash, Orphan, longrunVars, memory, files,
        ledger
<1>2. QED BY <1>1, LongrunInvariant, PTL DEF LongrunSpec
=============================================================================
