-------------------------- MODULE WorkSessionProofs --------------------------
(***************************************************************************)
(* Proofs about a conversation and the processes that carry it on, for any *)
(* numbers of rounds, attempts, calls, messages and kills.                 *)
(***************************************************************************)
EXTENDS WorkSession, FiniteSetTheorems, TLAPS


SavedFiles == [exists : BOOLEAN, history : Seq(Messages), pending : SUBSET Calls,
               namespace : Nat, receipt : BOOLEAN]

\* SessionTypeOK, in three parts.
ProcessOK ==
    /\ pc \in {"off", "prompt", "leaving", "stream", "noted", "declare", "execute"}
    /\ mode \in Modes /\ serial \in BOOLEAN
    /\ history \in Seq(Messages) /\ iter \in 0..MaxIterations
    /\ namespace \in Nat /\ receipt \in BOOLEAN /\ replay \in BOOLEAN
    /\ restored \in 0..Len(history)
CallsOK ==
    /\ todo \subseteq 1..Asked /\ waiting \subseteq 1..Asked /\ awaited \subseteq 1..Asked
    /\ got \subseteq 1..Asked /\ pending \subseteq 1..Asked
    /\ succeeded \subseteq 1..Asked /\ owed \subseteq 1..Asked
    /\ awaited \cap got = {} /\ awaited \cup got \subseteq waiting
    /\ kind \in Seq({"write", "delegate"}) /\ Asked <= MaxCalls
WorldOK ==
    /\ saved \in SavedFiles
    /\ tries \in [Calls -> 0..MaxTries] /\ threads \in [Calls -> 0..MaxTries]
    /\ file \in {"base", "mine", "edited"}
    /\ launched \subseteq Nat
    /\ inputs \in 0..MaxInputs /\ crashes \in 0..MaxCrashes

\* Where nothing is under way, nothing is kept of a round, and of a process
\* that has ended nothing at all.
RoundOK ==
    /\ pc \in {"off", "prompt", "leaving", "stream"} =>
          todo = {} /\ waiting = {}
    /\ pc \in {"noted", "declare"} => awaited = {} /\ got = {}
    /\ pc = "noted" => waiting = {}
    /\ pc \in {"noted", "declare", "execute"} => iter < MaxIterations
    /\ todo \cap waiting = {}
OffOK ==
    pc = "off" =>
        /\ mode = "repl" /\ history = <<>> /\ pending = {} /\ namespace = 0
        /\ receipt = FALSE /\ replay = FALSE /\ restored = 0 /\ serial = FALSE
        /\ iter = 0 /\ \A c \in Calls : threads[c] = 0

\* The threads of a call are its attempts, until nobody waits for them; before
\* it is executed it has none.
ThreadsOK ==
    /\ \A c \in awaited : threads[c] \in 1..tries[c]
    /\ \A c \in Calls \ awaited : tries[c] = 0
    /\ \A c \in Calls : c \in todo \cup (waiting \ (awaited \cup got)) \/ c > Asked
                            => threads[c] = 0

\* A file is never taken away.
SavedOK == ~saved.exists => saved = NoFile

\* A call that has no result yet is in no history.
Answered == Resulted(history) \cup Resulted(saved.history)
FreshOK == Answered \subseteq (1..Asked) \ (todo \cup waiting)

ShapeInv ==
    /\ ProcessOK /\ CallsOK /\ WorldOK
    /\ RoundOK /\ OffOK /\ ThreadsOK /\ SavedOK /\ FreshOK

\* One namespace is given out, and a process that could launch a delegation
\* under it has it, or reads it from the file.
NamespaceInv ==
    /\ launched = {} => namespace = 0 /\ saved.namespace = 0
    /\ launched # {} =>
          /\ launched = {1} /\ saved.exists /\ saved.namespace = 1
          /\ pc # "off" => namespace = 1

\* What the process knows accounts for every effect, so that whatever it saves
\* does; what it is about to execute is in the file already.
EffectsInv ==
    /\ EffectsAccounted
    /\ pc # "off" => owed \subseteq pending \cup Resulted(history)
    /\ Tracked => waiting \subseteq pending /\ waiting \subseteq saved.pending
    /\ mode = "repl" /\ pc # "off" => owed = {}

\* A write whose success is in a history has a receipt next to it; a saga that
\* was resumed with receipts runs no write.
ReceiptsInv ==
    /\ succeeded \cap Resulted(saved.history) # {} => saved.receipt
    /\ pc # "off" /\ succeeded \cap (waiting \cup Resulted(history)) # {} => receipt
    /\ succeeded \subseteq (1..Asked) \ todo
    /\ mode = "task" /\ ~replay => Reported = {}
    /\ replay => \A c \in 1..Asked : kind[c] = "write" => threads[c] = 0

SessionInv == ShapeInv /\ NamespaceInv /\ EffectsInv /\ ReceiptsInv

-----------------------------------------------------------------------------
(* Histories and files.                                                    *)
ResultsOf(m) == IF m.role = "tool" THEN m.calls ELSE {}

\* What a history has when a message is added, and what a prefix has.
LEMMA AppendResults ==
  ASSUME NEW h \in Seq(Messages), NEW m \in Messages
  PROVE  /\ Append(h, m) \in Seq(Messages) /\ Len(Append(h, m)) = Len(h) + 1
         /\ Resulted(Append(h, m)) = Resulted(h) \cup ResultsOf(m)
         /\ \A n \in 0..Len(h) : SubSeq(Append(h, m), 1, n) = SubSeq(h, 1, n)
  <1> DEFINE g == Append(h, m)
  <1>1. /\ g \in Seq(Messages) /\ Len(g) = Len(h) + 1 /\ Len(h) \in Nat
        /\ DOMAIN g = 1..(Len(h) + 1) /\ DOMAIN h = 1..Len(h)
        /\ g[Len(h) + 1] = m
        /\ \A i \in 1..Len(h) : g[i] = h[i]
    OBVIOUS
  <1> HIDE DEF g
  <1>2. Resulted(g) = Resulted(h) \cup ResultsOf(m)
    <2>1. ASSUME NEW c
          PROVE  c \in Resulted(g) <=> c \in Resulted(h) \cup ResultsOf(m)
      <3>1. c \in Resulted(g) <=> \E i \in DOMAIN g : g[i].role = "tool" /\ c \in g[i].calls
        BY DEF Resulted
      <3>2. c \in Resulted(h) <=> \E i \in DOMAIN h : h[i].role = "tool" /\ c \in h[i].calls
        BY DEF Resulted
      <3>3. c \in ResultsOf(m) <=> m.role = "tool" /\ c \in m.calls
        BY DEF ResultsOf
      <3> QED
        BY <1>1, <3>1, <3>2, <3>3
    <2> QED
      BY <2>1
  <1>3. ASSUME NEW n \in 0..Len(h)
        PROVE  SubSeq(g, 1, n) = SubSeq(h, 1, n)
    BY <1>1
  <1> QED
    BY <1>1, <1>2, <1>3 DEF g

LEMMA EmptyResults == Resulted(<<>>) = {} /\ <<>> \in Seq(Messages) /\ Len(<<>>) = 0
  BY DEF Resulted

LEMMA WholePrefix ==
  ASSUME NEW h \in Seq(Messages)
  PROVE  SubSeq(h, 1, Len(h)) = h /\ Len(h) \in Nat
  OBVIOUS

LEMMA PrefixResults ==
  ASSUME NEW h \in Seq(Messages), NEW n \in 0..Len(h)
  PROVE  Resulted(SubSeq(h, 1, n)) \subseteq Resulted(h)
  <1> DEFINE g == SubSeq(h, 1, n)
  <1>1. /\ DOMAIN g = 1..n /\ DOMAIN h = 1..Len(h) /\ n \in Nat /\ n <= Len(h)
        /\ \A i \in 1..n : g[i] = h[i]
    OBVIOUS
  <1> HIDE DEF g
  <1>2. Resulted(g) \subseteq Resulted(h)
    BY <1>1 DEF Resulted
  <1> QED
    BY <1>2 DEF g

\* The messages that the actions write.
LEMMA NewMessages ==
  /\ User \in Messages /\ ResultsOf(User) = {}
  /\ \A s \in SUBSET Calls, t \in BOOLEAN :
        Assistant(s, t) \in Messages /\ ResultsOf(Assistant(s, t)) = {}
  /\ \A c \in Calls : Result(c) \in Messages /\ ResultsOf(Result(c)) = {c}
  BY DEF User, Assistant, Result, Messages, ResultsOf

\* A checkpoint, or none.
LEMMA SaveShape ==
  ASSUME ShapeInv, saved' = saved \/ saved' = Snapshot',
         history' \in Seq(Messages), pending' \subseteq Calls, namespace' \in Nat,
         receipt' \in BOOLEAN
  PROVE  /\ saved' \in SavedFiles /\ SavedOK'
         /\ Resulted(saved'.history) \subseteq Resulted(saved.history) \cup Resulted(history')
  <1>1. CASE saved' = saved
    BY <1>1 DEF ShapeInv, WorldOK, SavedOK
  <1>2. CASE saved' = Snapshot'
    BY <1>2 DEF Snapshot, SavedFiles, SavedOK
  <1> QED
    BY <1>1, <1>2

LEMMA ShapeIsType == ShapeInv => SessionTypeOK
  BY DEF ShapeInv, ProcessOK, CallsOK, WorldOK, SessionTypeOK, SavedFiles

LEMMA InitSessionInv == SessionInit => SessionInv
  <1> SUFFICES ASSUME SessionInit
               PROVE  SessionInv
    OBVIOUS
  <1>1. Asked = 0 /\ kind \in Seq({"write", "delegate"}) /\ 1..Asked = {}
    BY DEF SessionInit, Asked
  <1>2. saved \in SavedFiles /\ saved.history = <<>> /\ saved.namespace = 0
    BY EmptyResults DEF SessionInit, NoFile, SavedFiles
  <1>3. ProcessOK /\ CallsOK /\ WorldOK
    <2>1. ProcessOK
      <3>1. history \in Seq(Messages) /\ Len(history) = 0
        BY EmptyResults DEF SessionInit
      <3> QED
        <4>1. pc \in {"off", "prompt", "leaving", "stream", "noted", "declare", "execute"}
          BY DEF SessionInit
        <4>2. mode \in Modes /\ serial \in BOOLEAN
          BY DEF SessionInit, Modes
        <4>3. iter \in 0..MaxIterations
          BY SessionConstants DEF SessionInit
        <4>4. namespace \in Nat /\ receipt \in BOOLEAN /\ replay \in BOOLEAN
          BY DEF SessionInit
        <4>5. restored \in 0..Len(history)
          BY <3>1 DEF SessionInit
        <4> QED
          BY <3>1, <4>1, <4>2, <4>3, <4>4, <4>5 DEF ProcessOK
    <2>2. CallsOK
      BY <1>1, SessionConstants DEF SessionInit, CallsOK
    <2>3. WorldOK
      BY <1>2, SessionConstants DEF SessionInit, WorldOK
    <2> QED
      BY <2>1, <2>2, <2>3
  <1>a. \A c \in Calls : threads[c] = 0 /\ tries[c] = 0
    BY DEF SessionInit
  <1>b. RoundOK /\ OffOK /\ ThreadsOK /\ SavedOK
    BY <1>1, <1>a DEF SessionInit, RoundOK, OffOK, ThreadsOK, SavedOK
  <1>c. FreshOK
    BY <1>1, <1>2, EmptyResults DEF SessionInit, FreshOK, Answered
  <1>4. ShapeInv
    BY <1>1, <1>3, <1>b, <1>c, SessionConstants DEF ShapeInv
  <1>5. NamespaceInv /\ EffectsInv /\ ReceiptsInv
    BY <1>1, <1>2
    DEF SessionInit, NamespaceInv, EffectsInv, ReceiptsInv, EffectsAccounted, Tracked
  <1> QED
    BY <1>4, <1>5 DEF SessionInv

-----------------------------------------------------------------------------
(* The shape of the session.                                               *)

\* The turn is over.
LEMMA TurnOver ==
  ASSUME NEW b \in BOOLEAN, EndTurn(b)
  PROVE  /\ pc' \in {"leaving", "prompt"}
         /\ todo' = {} /\ waiting' = {} /\ awaited' = {} /\ got' = {}
  BY DEF EndTurn

\* Nothing is under way unless a call is executed.
LEMMA NothingAwaited ==
  ASSUME ShapeInv, pc # "execute"
  PROVE  awaited = {} /\ got = {}
  BY DEF ShapeInv, ProcessOK, CallsOK, RoundOK

\* The calls asked for are calls.
LEMMA PendingCalls ==
  ASSUME ShapeInv
  PROVE  1..Asked \subseteq Calls /\ pending \subseteq Calls /\ Asked \in Nat
  BY SessionConstants DEF ShapeInv, CallsOK, Calls, Asked

LEMMA AskShape ==
  ASSUME ShapeInv, Ask
  PROVE  ShapeInv'
  <1>1. /\ history' \in Seq(Messages) /\ Len(history') = Len(history) + 1
        /\ Resulted(history') = Resulted(history)
    BY AppendResults, NewMessages DEF Ask, ShapeInv, ProcessOK
  <1>2. /\ pc = "prompt" /\ pc' = "stream" /\ iter' = 0 /\ pending' = {}
        /\ owed' \subseteq owed /\ inputs < MaxInputs /\ inputs' = inputs + 1
        /\ UNCHANGED <<mode, serial, todo, waiting, awaited, got, namespace, receipt,
                       replay, saved, restored, succeeded, crashes, kind, tries,
                       threads, file, launched>>
        /\ Asked' = Asked
    BY DEF Ask, worldVars, Asked
  <1>3. ProcessOK'
    BY <1>1, <1>2, SessionConstants DEF ShapeInv, ProcessOK
  <1>4. CallsOK'
    BY <1>2 DEF ShapeInv, CallsOK
  <1>5. WorldOK'
    BY <1>2, SessionConstants DEF ShapeInv, WorldOK
  <1>6. RoundOK' /\ OffOK' /\ SavedOK'
    BY <1>2 DEF ShapeInv, RoundOK, OffOK, SavedOK
  <1>7. ThreadsOK'
    BY <1>2 DEF ShapeInv, ThreadsOK
  <1>8. FreshOK'
    BY <1>1, <1>2 DEF ShapeInv, FreshOK, Answered
  <1> QED
    BY <1>3, <1>4, <1>5, <1>6, <1>7, <1>8 DEF ShapeInv

LEMMA StartShape ==
  ASSUME ShapeInv, Start
  PROVE  ShapeInv'
  <1>1. /\ pc = "off" /\ pc' = "prompt" /\ mode' \in Modes /\ serial' \in BOOLEAN
        /\ UNCHANGED <<history, iter, todo, waiting, awaited, got, pending, namespace,
                       receipt, replay, saved, restored, succeeded, owed, inputs,
                       crashes, kind, tries, threads, file, launched>>
        /\ Asked' = Asked
    BY DEF Start, worldVars, ghosts, Asked
  <1>2. ProcessOK'
    BY <1>1 DEF ShapeInv, ProcessOK
  <1>3. CallsOK'
    BY <1>1 DEF ShapeInv, CallsOK
  <1>4. WorldOK'
    BY <1>1 DEF ShapeInv, WorldOK
  <1>5. RoundOK' /\ OffOK' /\ SavedOK'
    BY <1>1 DEF ShapeInv, RoundOK, OffOK, SavedOK
  <1>6. ThreadsOK'
    BY <1>1 DEF ShapeInv, ThreadsOK
  <1>7. FreshOK'
    BY <1>1 DEF ShapeInv, FreshOK, Answered
  <1> QED
    BY <1>2, <1>3, <1>4, <1>5, <1>6, <1>7 DEF ShapeInv

\* The next process has what the file has.
LEMMA ResumeShape ==
  ASSUME ShapeInv, Resume
  PROVE  ShapeInv'
  <1>1. /\ pc = "off" /\ pc' = "prompt" /\ saved.exists
        /\ history' = saved.history /\ namespace' = saved.namespace
        /\ receipt' = saved.receipt /\ restored' = Len(saved.history)
        /\ mode' \in {"task", "console"} /\ serial' \in BOOLEAN
        /\ UNCHANGED <<iter, todo, waiting, awaited, got, pending, saved, succeeded,
                       owed, inputs, crashes, kind, tries, threads, file, launched>>
        /\ Asked' = Asked
    BY DEF Resume, MayRestore, worldVars, Asked
  <1>a. replay' \in BOOLEAN
    BY DEF Resume
  <1>b. /\ saved.history \in Seq(Messages) /\ saved.namespace \in Nat
        /\ saved.receipt \in BOOLEAN /\ Len(saved.history) \in Nat
    BY DEF ShapeInv, WorldOK, SavedFiles
  <1>2. ProcessOK'
    BY <1>1, <1>a, <1>b DEF ShapeInv, ProcessOK, Modes
  <1>3. CallsOK'
    BY <1>1 DEF ShapeInv, CallsOK
  <1>4. WorldOK'
    BY <1>1 DEF ShapeInv, WorldOK
  <1>5. RoundOK' /\ OffOK' /\ SavedOK'
    BY <1>1 DEF ShapeInv, RoundOK, OffOK, SavedOK
  <1>6. ThreadsOK'
    BY <1>1 DEF ShapeInv, ThreadsOK
  <1>7. FreshOK'
    BY <1>1 DEF ShapeInv, FreshOK, Answered
  <1> QED
    BY <1>2, <1>3, <1>4, <1>5, <1>6, <1>7 DEF ShapeInv

\* The process is gone, with its threads, and left its file or not.
LEMMA GoneShape ==
  ASSUME ShapeInv, Gone, saved' \in {saved, Snapshot},
         \A c \in Calls : threads'[c] = 0 /\ tries'[c] = 0,
         threads' \in [Calls -> 0..MaxTries], tries' \in [Calls -> 0..MaxTries],
         crashes' \in 0..MaxCrashes,
         UNCHANGED <<kind, file, launched, succeeded, owed, inputs>>
  PROVE  ShapeInv'
  <1>1. /\ pc' = "off" /\ mode' = "repl" /\ serial' = FALSE
        /\ history' = <<>> /\ iter' = 0
        /\ todo' = {} /\ waiting' = {} /\ awaited' = {} /\ got' = {} /\ pending' = {}
        /\ namespace' = 0 /\ receipt' = FALSE /\ replay' = FALSE /\ restored' = 0
        /\ Asked' = Asked
    BY DEF Gone, Asked
  <1>2. /\ saved' \in SavedFiles /\ SavedOK'
        /\ Resulted(saved'.history) \subseteq Answered
    <2>1. CASE saved' = saved
      BY <2>1 DEF ShapeInv, WorldOK, SavedOK, Answered
    <2>2. CASE saved' = Snapshot
      <3>1. pending \subseteq Calls
        BY PendingCalls
      <3> QED
        BY <2>2, <3>1 DEF ShapeInv, ProcessOK, Snapshot, SavedFiles, SavedOK, Answered
    <2> QED
      BY <2>1, <2>2
  <1>3. ProcessOK'
    <2>1. history' \in Seq(Messages) /\ Len(history') = 0
      BY <1>1, EmptyResults
    <2>2. /\ mode' \in Modes /\ serial' \in BOOLEAN /\ receipt' \in BOOLEAN
          /\ replay' \in BOOLEAN
      BY <1>1 DEF Modes
    <2>3. iter' \in 0..MaxIterations /\ namespace' \in Nat /\ restored' \in 0..Len(history')
      BY <1>1, <2>1, SessionConstants
    <2> QED
      BY <1>1, <2>1, <2>2, <2>3 DEF ProcessOK
  <1>4. CallsOK'
    BY <1>1 DEF ShapeInv, CallsOK
  <1>5. WorldOK'
    BY <1>2 DEF ShapeInv, WorldOK
  <1>6. RoundOK' /\ OffOK'
    BY <1>1 DEF RoundOK, OffOK
  <1>7. ThreadsOK'
    BY <1>1 DEF ThreadsOK
  <1>8. FreshOK'
    BY <1>1, <1>2, EmptyResults DEF ShapeInv, FreshOK, Answered
  <1> QED
    BY <1>2, <1>3, <1>4, <1>5, <1>6, <1>7, <1>8 DEF ShapeInv

LEMMA LeaveShape ==
  ASSUME ShapeInv, Leave
  PROVE  ShapeInv'
  <1>1. \A c \in Calls : threads'[c] = 0 /\ tries'[c] = 0
    BY NothingAwaited DEF Leave, worldVars, ShapeInv, ThreadsOK
  <1> QED
    BY <1>1, GoneShape DEF Leave, worldVars, ShapeInv, WorldOK

LEMMA CrashShape ==
  ASSUME ShapeInv, Crash
  PROVE  ShapeInv'
  <1>1. /\ \A c \in Calls : threads'[c] = 0 /\ tries'[c] = 0
        /\ threads' \in [Calls -> 0..MaxTries] /\ tries' \in [Calls -> 0..MaxTries]
    BY SessionConstants DEF Crash
  <1>2. crashes' \in 0..MaxCrashes
    BY SessionConstants DEF Crash, ShapeInv, WorldOK
  <1> QED
    BY <1>1, <1>2, GoneShape DEF Crash

\* What somebody does to the file of the project is no step of the session.
LEMMA EditShape ==
  ASSUME ShapeInv, Edit
  PROVE  ShapeInv'
  <1>1. /\ UNCHANGED <<processVars, saved, ghosts, kind, tries, threads, launched>>
        /\ Asked' = Asked /\ file' = "edited"
    BY DEF Edit, Asked
  <1>2. ProcessOK' /\ CallsOK' /\ RoundOK' /\ SavedOK'
    BY <1>1 DEF ShapeInv, ProcessOK, CallsOK, RoundOK, SavedOK, processVars, ghosts
  <1>3. WorldOK' /\ OffOK' /\ ThreadsOK' /\ FreshOK'
    BY <1>1
    DEF ShapeInv, WorldOK, OffOK, ThreadsOK, FreshOK, Answered, processVars, ghosts
  <1> QED
    BY <1>2, <1>3 DEF ShapeInv

LEMMA AnswerShape ==
  ASSUME ShapeInv, Answer
  PROVE  ShapeInv'
  <1>1. /\ history' \in Seq(Messages) /\ Len(history') = Len(history) + 1
        /\ Resulted(history') = Resulted(history)
    BY AppendResults, NewMessages DEF Answer, ShapeInv, ProcessOK
  <1>2. /\ pc' \in {"leaving", "prompt"}
        /\ todo' = {} /\ waiting' = {} /\ awaited' = {} /\ got' = {}
        /\ saved' = saved \/ saved' = Snapshot'
    BY TurnOver DEF Answer, Done, SaveOrFail
  <1>3. /\ pc = "stream" /\ Asked' = Asked
        /\ UNCHANGED <<mode, serial, iter, pending, namespace, receipt, replay, kind,
                       tries, threads, file, launched, restored, succeeded, owed,
                       inputs, crashes>>
    BY DEF Answer, worldVars, ghosts, Asked
  <1>4. /\ saved' \in SavedFiles /\ SavedOK'
        /\ Resulted(saved'.history) \subseteq Resulted(saved.history) \cup Resulted(history')
    BY <1>1, <1>2, <1>3, PendingCalls, SaveShape DEF ShapeInv, ProcessOK
  <1>5. ProcessOK'
    BY <1>1, <1>2, <1>3 DEF ShapeInv, ProcessOK
  <1>6. CallsOK'
    BY <1>2, <1>3 DEF ShapeInv, CallsOK
  <1>7. WorldOK'
    BY <1>3, <1>4 DEF ShapeInv, WorldOK
  <1>8. RoundOK' /\ OffOK'
    BY <1>2, <1>3 DEF ShapeInv, RoundOK, OffOK
  <1>9. ThreadsOK'
    BY <1>2, <1>3, NothingAwaited DEF ShapeInv, ThreadsOK
  <1>10. FreshOK'
    BY <1>1, <1>2, <1>3, <1>4 DEF ShapeInv, FreshOK, Answered
  <1> QED
    BY <1>4, <1>5, <1>6, <1>7, <1>8, <1>9, <1>10 DEF ShapeInv

\* What the model asks for is new.
LEMMA AskToolsFacts ==
  ASSUME ShapeInv, AskTools
  PROVE  /\ pc = "stream" /\ pc' \in {"noted", "declare"} /\ iter < MaxIterations
         /\ history' \in Seq(Messages) /\ Len(history') >= Len(history)
         /\ Resulted(history') = Resulted(history)
         /\ \A n \in 0..Len(history) : SubSeq(history', 1, n) = SubSeq(history, 1, n)
         /\ kind' \in Seq({"write", "delegate"}) /\ Asked' \in Asked..MaxCalls
         /\ \A c \in 1..Asked : kind'[c] = kind[c]
         /\ todo' = (Asked + 1)..Asked'
         /\ inputs' \in 0..MaxInputs
         /\ UNCHANGED <<mode, serial, iter, waiting, awaited, got, pending, namespace,
                        receipt, replay, saved, tries, threads, file, launched,
                        restored, succeeded, owed, crashes>>
  <1>0. /\ history \in Seq(Messages) /\ Len(history) \in Nat
        /\ kind \in Seq({"write", "delegate"}) /\ Asked = Len(kind)
        /\ Asked \in Nat /\ Asked <= MaxCalls /\ inputs \in 0..MaxInputs
        /\ MaxCalls \in Nat /\ MaxInputs \in Nat
    BY SessionConstants DEF ShapeInv, ProcessOK, CallsOK, WorldOK, Asked
  <1>1. PICK kinds \in UNION {[1..n -> {"write", "delegate"}] : n \in 0..2},
             notes \in {<<>>, <<User>>}, text \in BOOLEAN :
          LET new == {Asked + i : i \in DOMAIN kinds}
              turn == IF serial THEN Assistant({}, TRUE) ELSE Assistant(new, text)
          IN  /\ new # {} \/ notes # <<>>
              /\ new \subseteq Calls
              /\ inputs' = inputs + Len(notes) /\ inputs' <= MaxInputs
              /\ kind' = kind \o kinds
              /\ history' = Append(history, turn) \o notes
              /\ todo' = new
              /\ pc' = IF notes # <<>> THEN "noted" ELSE "declare"
    BY DEF AskTools
  <1>2. PICK n \in 0..2 : kinds \in [1..n -> {"write", "delegate"}]
    OBVIOUS
  <1>3. /\ kinds \in Seq({"write", "delegate"}) /\ Len(kinds) = n /\ DOMAIN kinds = 1..n
    BY <1>2
  <1> DEFINE new == {Asked + i : i \in DOMAIN kinds}
             turn == IF serial THEN Assistant({}, TRUE) ELSE Assistant(new, text)
  <1>4. new = (Asked + 1)..(Asked + n)
    <2>1. ASSUME NEW x \in new
          PROVE  x \in (Asked + 1)..(Asked + n)
      BY <1>0, <1>3
    <2>2. ASSUME NEW x \in (Asked + 1)..(Asked + n)
          PROVE  x \in new
      <3>1. x - Asked \in 1..n /\ x = Asked + (x - Asked)
        BY <1>0
      <3> QED
        BY <1>3, <3>1
    <2> QED
      BY <2>1, <2>2
  <1>5. /\ kind' \in Seq({"write", "delegate"}) /\ Asked' = Asked + n
        /\ \A c \in 1..Asked : kind'[c] = kind[c]
    <2>1. kind' = kind \o kinds
      BY <1>1
    <2> QED
      BY <1>0, <1>3, <2>1 DEF Asked
  <1>6. Asked + n <= MaxCalls
    <2>1. new \subseteq Calls
      BY <1>1
    <2>2. n > 0 => Asked + n \in (Asked + 1)..(Asked + n)
      BY <1>0
    <2>3. n > 0 => Asked + n \in Calls
      BY <1>4, <2>1, <2>2
    <2> QED
      BY <1>0, <2>3 DEF Calls
  <1>7. turn \in Messages /\ ResultsOf(turn) = {}
    <2>1. new \in SUBSET Calls
      BY <1>1
    <2> QED
      BY <2>1, NewMessages
  <1> HIDE DEF turn, new
  <1>8. history' = Append(history, turn) \o notes
    BY <1>1 DEF turn, new
  <1>9. /\ history' \in Seq(Messages) /\ Len(history') >= Len(history)
        /\ Resulted(history') = Resulted(history)
        /\ \A k \in 0..Len(history) : SubSeq(history', 1, k) = SubSeq(history, 1, k)
    <2> DEFINE g == Append(history, turn)
    <2>1. /\ g \in Seq(Messages) /\ Len(g) = Len(history) + 1
          /\ Resulted(g) = Resulted(history)
          /\ \A k \in 0..Len(history) : SubSeq(g, 1, k) = SubSeq(history, 1, k)
      BY <1>0, <1>7, AppendResults
    <2> HIDE DEF g
    <2>2. CASE notes = <<>>
      <3>1. history' = g
        BY <1>8, <2>1, <2>2 DEF g
      <3> QED
        BY <1>0, <2>1, <3>1
    <2>3. CASE notes = <<User>>
      <3>1. history' = Append(g, User)
        BY <1>8, <2>1, <2>3, NewMessages DEF g
      <3>2. /\ history' \in Seq(Messages) /\ Len(history') = Len(g) + 1
            /\ Resulted(history') = Resulted(g)
            /\ \A k \in 0..Len(g) : SubSeq(history', 1, k) = SubSeq(g, 1, k)
        BY <2>1, <3>1, NewMessages, AppendResults
      <3>3. 0..Len(history) \subseteq 0..Len(g)
        BY <1>0, <2>1
      <3> QED
        BY <1>0, <2>1, <3>2, <3>3
    <2> QED
      BY <2>2, <2>3
  <1>10. pc' \in {"noted", "declare"} /\ inputs' \in 0..MaxInputs /\ todo' = new
    <2>1. Len(notes) \in Nat
      BY NewMessages
    <2> QED
      BY <1>0, <1>1, <2>1 DEF new
  <1>11. /\ Asked' \in Asked..MaxCalls /\ todo' = (Asked + 1)..Asked'
    BY <1>0, <1>4, <1>5, <1>6, <1>10
  <1>12. /\ pc = "stream" /\ iter < MaxIterations
         /\ UNCHANGED <<mode, serial, iter, waiting, awaited, got, pending, namespace,
                        receipt, replay, saved, tries, threads, file, launched,
                        restored, succeeded, owed, crashes>>
    BY DEF AskTools
  <1> QED
    BY <1>5, <1>9, <1>10, <1>11, <1>12

LEMMA AskToolsShape ==
  ASSUME ShapeInv, AskTools
  PROVE  ShapeInv'
  <1>1. /\ pc = "stream" /\ pc' \in {"noted", "declare"} /\ iter < MaxIterations
        /\ history' \in Seq(Messages) /\ Len(history') >= Len(history)
        /\ Resulted(history') = Resulted(history)
        /\ kind' \in Seq({"write", "delegate"}) /\ Asked' \in Asked..MaxCalls
        /\ todo' = (Asked + 1)..Asked'
        /\ inputs' \in 0..MaxInputs
        /\ UNCHANGED <<mode, serial, iter, waiting, awaited, got, pending, namespace,
                       receipt, replay, saved, tries, threads, file, launched,
                       restored, succeeded, owed, crashes>>
    BY AskToolsFacts
  <1>2. awaited = {} /\ got = {} /\ waiting = {}
    BY <1>1 DEF ShapeInv, RoundOK, CallsOK
  <1>3. 1..Asked \subseteq 1..Asked' /\ Asked \in Nat /\ Asked' \in Nat /\ MaxCalls \in Nat
    BY <1>1, PendingCalls, SessionConstants
  <1>4. ProcessOK'
    <2>1. Len(history) \in Nat /\ Len(history') \in Nat
      BY <1>1 DEF ShapeInv, ProcessOK
    <2> QED
      BY <1>1, <2>1 DEF ShapeInv, ProcessOK
  <1>5. CallsOK'
    BY <1>1, <1>3 DEF ShapeInv, CallsOK
  <1>6. WorldOK'
    BY <1>1 DEF ShapeInv, WorldOK
  <1>7. RoundOK' /\ OffOK' /\ SavedOK'
    BY <1>1, <1>2 DEF ShapeInv, RoundOK, OffOK, SavedOK
  <1>8. ThreadsOK'
    <2>1. \A c \in Calls : c \in todo' \/ c > Asked' => c > Asked
      BY <1>1, <1>3 DEF Calls
    <2> QED
      BY <1>1, <1>2, <2>1 DEF ShapeInv, ThreadsOK
  <1>9. FreshOK'
    BY <1>1, <1>2, <1>3 DEF ShapeInv, FreshOK, Answered
  <1> QED
    BY <1>4, <1>5, <1>6, <1>7, <1>8, <1>9 DEF ShapeInv

LEMMA TellNoteShape ==
  ASSUME ShapeInv, TellNote
  PROVE  ShapeInv'
  <1>1. /\ pc = "noted" /\ Asked' = Asked
        /\ iter' = IF todo = {} THEN iter + 1 ELSE iter
        /\ UNCHANGED <<mode, serial, history, pending, namespace, receipt, replay, kind,
                       tries, threads, file, launched, restored, succeeded, owed,
                       inputs, crashes>>
    BY DEF TellNote, worldVars, ghosts, Asked
  <1>2. /\ saved' = saved \/ saved' = Snapshot'
        /\ \/ /\ pc' = IF todo = {} THEN "stream" ELSE "declare"
              /\ UNCHANGED <<todo, waiting, awaited, got>>
           \/ /\ pc' \in {"leaving", "prompt"}
              /\ todo' = {} /\ waiting' = {} /\ awaited' = {} /\ got' = {}
    BY TurnOver DEF TellNote, Tell
  <1>3. awaited = {} /\ got = {} /\ waiting = {} /\ iter < MaxIterations
    BY <1>1 DEF ShapeInv, RoundOK
  <1>4. /\ saved' \in SavedFiles /\ SavedOK'
        /\ Resulted(saved'.history) \subseteq Answered
    BY <1>1, <1>2, PendingCalls, SaveShape DEF ShapeInv, ProcessOK, Answered
  <1>5. iter' \in 0..MaxIterations /\ (todo # {} => iter' < MaxIterations)
    BY <1>1, <1>3, SessionConstants DEF ShapeInv, ProcessOK
  <1>6. ProcessOK'
    BY <1>1, <1>2, <1>5 DEF ShapeInv, ProcessOK
  <1>7. CallsOK'
    BY <1>1, <1>2, <1>3 DEF ShapeInv, CallsOK
  <1>8. WorldOK'
    BY <1>1, <1>4 DEF ShapeInv, WorldOK
  <1>9. RoundOK' /\ OffOK'
    BY <1>1, <1>2, <1>3, <1>5 DEF ShapeInv, RoundOK, OffOK
  <1>10. ThreadsOK'
    BY <1>1, <1>2, <1>3 DEF ShapeInv, ThreadsOK
  <1>11. FreshOK'
    BY <1>1, <1>2, <1>4 DEF ShapeInv, FreshOK, Answered
  <1> QED
    BY <1>4, <1>6, <1>7, <1>8, <1>9, <1>10, <1>11 DEF ShapeInv

\* What Declare does, whatever becomes of the checkpoint.
LEMMA DeclareFacts ==
  ASSUME ShapeInv, Declare
  PROVE  \E c \in todo :
           /\ history' \in Seq(Messages) /\ Len(history') >= Len(history)
           /\ Resulted(history') = Resulted(history)
           /\ \A n \in 0..Len(history) : SubSeq(history', 1, n) = SubSeq(history, 1, n)
           /\ pending' = IF Tracked THEN pending \cup {c} ELSE pending
           /\ \/ /\ todo' = todo \ {c} /\ waiting' = waiting \cup {c}
                 /\ pc' \in {"execute", "declare"} /\ (pc' = "declare" => todo' # {})
                 /\ UNCHANGED <<awaited, got>>
                 /\ saved' = IF Tracked THEN Snapshot' ELSE saved
              \/ /\ Tracked /\ pc' \in {"leaving", "prompt"}
                 /\ todo' = {} /\ waiting' = {} /\ awaited' = {} /\ got' = {}
                 /\ saved' = saved
  <1>1. PICK c \in todo :
          /\ history' = IF serial THEN Append(history, Assistant({c}, FALSE)) ELSE history
          /\ pending' = IF Tracked THEN pending \cup {c} ELSE pending
          /\ Tell(/\ todo' = todo \ {c}
                  /\ waiting' = waiting \cup {c}
                  /\ pc' = IF serial \/ todo = {c} THEN "execute" ELSE "declare"
                  /\ UNCHANGED <<awaited, got>>, FALSE)
    BY DEF Declare
  <1>a. c \in Calls
    BY PendingCalls DEF ShapeInv, CallsOK
  <1>2. c \in Calls /\ history \in Seq(Messages) /\ Len(history) \in Nat
    BY <1>a DEF ShapeInv, ProcessOK
  <1>3. /\ history' \in Seq(Messages) /\ Len(history') >= Len(history)
        /\ Resulted(history') = Resulted(history)
        /\ \A n \in 0..Len(history) : SubSeq(history', 1, n) = SubSeq(history, 1, n)
    <2>1. CASE serial
      <3> DEFINE m == Assistant({c}, FALSE)
      <3>1. history' = Append(history, m)
        BY <1>1, <2>1
      <3>2. {c} \in SUBSET Calls
        BY <1>2
      <3>3. m \in Messages /\ ResultsOf(m) = {}
        BY <3>2, NewMessages
      <3> HIDE DEF m
      <3>4. /\ Append(history, m) \in Seq(Messages) /\ Len(Append(history, m)) = Len(history) + 1
            /\ Resulted(Append(history, m)) = Resulted(history) \cup ResultsOf(m)
            /\ \A n \in 0..Len(history) :
                  SubSeq(Append(history, m), 1, n) = SubSeq(history, 1, n)
        BY <1>2, <3>3, AppendResults, Zenon
      <3>5. Len(history') >= Len(history)
        BY <1>2, <3>1, <3>4
      <3>6. Resulted(history') = Resulted(history)
        BY <3>1, <3>3, <3>4
      <3> QED
        BY <3>1, <3>4, <3>5, <3>6, Zenon
    <2>2. CASE ~serial
      BY <1>1, <1>2, <2>2
    <2> QED
      BY <2>1, <2>2
  <1>4. \/ /\ todo' = todo \ {c} /\ waiting' = waiting \cup {c}
           /\ pc' = IF serial \/ todo = {c} THEN "execute" ELSE "declare"
           /\ UNCHANGED <<awaited, got>>
           /\ saved' = IF Tracked THEN Snapshot' ELSE saved
        \/ /\ Tracked /\ EndTurn(TRUE) /\ saved' = saved
    BY <1>1 DEF Tell
  <1>5. \/ /\ todo' = todo \ {c} /\ waiting' = waiting \cup {c}
           /\ pc' \in {"execute", "declare"} /\ (pc' = "declare" => todo' # {})
           /\ UNCHANGED <<awaited, got>>
           /\ saved' = IF Tracked THEN Snapshot' ELSE saved
        \/ /\ Tracked /\ pc' \in {"leaving", "prompt"}
           /\ todo' = {} /\ waiting' = {} /\ awaited' = {} /\ got' = {}
           /\ saved' = saved
    BY <1>4, TurnOver
  <1> QED
    BY <1>1, <1>3, <1>5

LEMMA DeclareShape ==
  ASSUME ShapeInv, Declare
  PROVE  ShapeInv'
  <1>1. PICK c \in todo :
           /\ history' \in Seq(Messages) /\ Len(history') >= Len(history)
           /\ Resulted(history') = Resulted(history)
           /\ pending' = IF Tracked THEN pending \cup {c} ELSE pending
           /\ \/ /\ todo' = todo \ {c} /\ waiting' = waiting \cup {c}
                 /\ pc' \in {"execute", "declare"} /\ (pc' = "declare" => todo' # {})
                 /\ UNCHANGED <<awaited, got>>
                 /\ saved' = IF Tracked THEN Snapshot' ELSE saved
              \/ /\ Tracked /\ pc' \in {"leaving", "prompt"}
                 /\ todo' = {} /\ waiting' = {} /\ awaited' = {} /\ got' = {}
                 /\ saved' = saved
    BY DeclareFacts
  <1>2. /\ pc = "declare" /\ Asked' = Asked
        /\ UNCHANGED <<mode, serial, iter, namespace, receipt, replay, kind, tries,
                       threads, file, launched, restored, succeeded, owed, inputs,
                       crashes>>
    BY DEF Declare, worldVars, ghosts, Asked
  <1>3. /\ awaited = {} /\ got = {} /\ iter < MaxIterations /\ todo \cap waiting = {}
        /\ todo \subseteq 1..Asked /\ waiting \subseteq 1..Asked
    BY <1>2 DEF ShapeInv, RoundOK, CallsOK
  <1>4. pending' \subseteq 1..Asked
    BY <1>1, <1>3 DEF ShapeInv, CallsOK
  <1>5. /\ saved' \in SavedFiles /\ SavedOK'
        /\ Resulted(saved'.history) \subseteq Answered
    <2>1. pending' \subseteq Calls
      BY <1>4, PendingCalls
    <2> QED
      BY <1>1, <1>2, <2>1, SaveShape DEF ShapeInv, ProcessOK, Answered
  <1>6. ProcessOK'
    <2>1. Len(history) \in Nat /\ Len(history') \in Nat
      BY <1>1 DEF ShapeInv, ProcessOK
    <2> QED
      BY <1>1, <1>2, <2>1 DEF ShapeInv, ProcessOK
  <1>7. CallsOK'
    BY <1>1, <1>2, <1>3, <1>4 DEF ShapeInv, CallsOK
  <1>8. WorldOK'
    BY <1>2, <1>5 DEF ShapeInv, WorldOK
  <1>9. RoundOK' /\ OffOK'
    BY <1>1, <1>2, <1>3 DEF ShapeInv, RoundOK, OffOK
  <1>10. ThreadsOK'
    BY <1>1, <1>2, <1>3 DEF ShapeInv, ThreadsOK
  <1>11. FreshOK'
    BY <1>1, <1>2, <1>5 DEF ShapeInv, FreshOK, Answered
  <1> QED
    BY <1>5, <1>6, <1>7, <1>8, <1>9, <1>10, <1>11 DEF ShapeInv

LEMMA RefuseShape ==
  ASSUME ShapeInv, NEW c \in Calls, Refuse(c)
  PROVE  ShapeInv'
  <1>1. /\ pc = "execute" /\ c \in waiting /\ c \notin awaited /\ got' = got \cup {c}
        /\ Asked' = Asked
        /\ UNCHANGED <<pc, mode, serial, history, iter, todo, waiting, awaited, pending,
                       namespace, receipt, replay, saved, kind, tries, threads, file,
                       launched, restored, succeeded, owed, inputs, crashes>>
    BY DEF Refuse, Ready, worldVars, ghosts, Asked
  <1>2. ProcessOK'
    BY <1>1 DEF ShapeInv, ProcessOK
  <1>3. CallsOK'
    BY <1>1 DEF ShapeInv, CallsOK
  <1>4. WorldOK'
    BY <1>1 DEF ShapeInv, WorldOK
  <1>5. RoundOK' /\ OffOK' /\ SavedOK'
    BY <1>1 DEF ShapeInv, RoundOK, OffOK, SavedOK
  <1>6. ThreadsOK'
    BY <1>1 DEF ShapeInv, ThreadsOK
  <1>7. FreshOK'
    BY <1>1 DEF ShapeInv, FreshOK, Answered
  <1> QED
    BY <1>2, <1>3, <1>4, <1>5, <1>6, <1>7 DEF ShapeInv

\* A call that is executed has its first thread.
LEMMA ExecuteShape ==
  ASSUME ShapeInv, NEW c \in Calls, Ready(c), Execute(c),
         namespace' \in Nat, launched' \subseteq Nat, saved' = saved \/ saved' = Snapshot'
  PROVE  ShapeInv'
  <1>1. /\ pc = "execute" /\ c \in waiting /\ c \notin awaited /\ c \notin got
        /\ awaited' = awaited \cup {c} /\ c \in 1..Asked /\ Asked' = Asked
        /\ owed' \subseteq owed \cup {c}
        /\ UNCHANGED <<pc, mode, serial, history, iter, todo, waiting, got, pending,
                       receipt, replay, kind, file, restored, succeeded, inputs,
                       crashes>>
    BY DEF Ready, Execute, Asked, ShapeInv, CallsOK
  <1>2. threads[c] = 0 /\ tries[c] = 0
    BY <1>1 DEF ShapeInv, ThreadsOK
  <1>3. /\ threads' \in [Calls -> 0..MaxTries] /\ tries' \in [Calls -> 0..MaxTries]
        /\ threads'[c] = 1 /\ tries'[c] = 1
        /\ \A d \in Calls : d # c => threads'[d] = threads[d] /\ tries'[d] = tries[d]
    BY <1>2, SessionConstants DEF Execute, ShapeInv, WorldOK
  <1>4. /\ saved' \in SavedFiles /\ SavedOK'
        /\ Resulted(saved'.history) \subseteq Answered
    BY <1>1, PendingCalls, SaveShape DEF ShapeInv, ProcessOK, Answered
  <1>5. ProcessOK'
    BY <1>1 DEF ShapeInv, ProcessOK
  <1>6. CallsOK'
    BY <1>1 DEF ShapeInv, CallsOK
  <1>7. WorldOK'
    BY <1>1, <1>3, <1>4 DEF ShapeInv, WorldOK
  <1>8. RoundOK' /\ OffOK'
    BY <1>1 DEF ShapeInv, RoundOK, OffOK
  <1>9. ThreadsOK'
    <2>1. awaited \subseteq Calls /\ 1 \in 1..1
      BY PendingCalls DEF ShapeInv, CallsOK
    <2>2. \A d \in Calls : d \in todo' \cup (waiting' \ (awaited' \cup got')) \/ d > Asked'
                              => threads'[d] = 0
      <3>1. c \notin todo /\ ~(c > Asked)
        BY <1>1, PendingCalls DEF ShapeInv, RoundOK
      <3> QED
        BY <1>1, <1>3, <3>1 DEF ShapeInv, ThreadsOK
    <2> QED
      BY <1>1, <1>3, <2>1, <2>2 DEF ShapeInv, ThreadsOK
  <1>10. FreshOK'
    BY <1>1, <1>4 DEF ShapeInv, FreshOK, Answered
  <1> QED
    BY <1>4, <1>5, <1>6, <1>7, <1>8, <1>9, <1>10 DEF ShapeInv

LEMMA WriteShape ==
  ASSUME ShapeInv, NEW c \in Calls, Write(c)
  PROVE  ShapeInv'
  BY ExecuteShape DEF Write, ShapeInv, ProcessOK, WorldOK

\* The namespace that a delegation is launched under.
LEMMA DelegateShape ==
  ASSUME ShapeInv, NamespaceInv, NEW c \in Calls, Delegate(c)
  PROVE  ShapeInv' /\ namespace' = 1 /\ launched' = {1}
  <1>1. namespace' = 1 /\ launched' = {1}
    <2>1. pc # "off"
      BY DEF Delegate, Ready
    <2>2. CASE launched = {}
      <3>1. Fresh = 1
        BY <2>2, FS_EmptySet DEF Fresh
      <3> QED
        BY <2>2, <3>1 DEF Delegate, NamespaceInv
    <2>3. CASE launched # {}
      BY <2>1, <2>3 DEF Delegate, NamespaceInv
    <2> QED
      BY <2>2, <2>3
  <1> QED
    BY <1>1, ExecuteShape DEF Delegate

LEMMA ReturnShape ==
  ASSUME ShapeInv, NEW c \in Calls, Return(c)
  PROVE  ShapeInv'
  <1>1. /\ pc = "execute" /\ c \in awaited /\ c \in waiting /\ c \in 1..Asked
        /\ awaited' = awaited \ {c} /\ got' = got \cup {c} /\ Asked' = Asked
        /\ UNCHANGED <<pc, mode, serial, history, iter, todo, waiting, pending, namespace,
                       replay, saved, kind, launched, restored, owed, inputs, crashes>>
    BY DEF Return, Asked, ShapeInv, CallsOK
  <1>2. /\ kind[c] \in {"write", "delegate"}
        /\ file' \in {file, "mine"} /\ receipt' \in BOOLEAN
        /\ succeeded' \subseteq succeeded \cup {c}
    <2>1. kind[c] \in {"write", "delegate"}
      BY <1>1 DEF ShapeInv, CallsOK, Asked
    <2> QED
      BY <2>1 DEF Return, ShapeInv, ProcessOK
  <1>3. /\ threads' \in [Calls -> 0..MaxTries] /\ tries' \in [Calls -> 0..MaxTries]
        /\ tries'[c] = 0
        /\ \A d \in Calls : d # c => threads'[d] = threads[d] /\ tries'[d] = tries[d]
    <2>1. /\ threads \in [Calls -> 0..MaxTries] /\ tries \in [Calls -> 0..MaxTries]
          /\ threads[c] \in 1..tries[c] /\ threads' = [threads EXCEPT ![c] = @ - 1]
          /\ tries' = [tries EXCEPT ![c] = 0] /\ MaxTries \in Nat
      BY <1>1, SessionConstants DEF Return, ShapeInv, WorldOK, ThreadsOK
    <2> QED
      BY <2>1
  <1>4. ProcessOK'
    BY <1>1, <1>2 DEF ShapeInv, ProcessOK
  <1>5. CallsOK'
    BY <1>1, <1>2 DEF ShapeInv, CallsOK
  <1>6. WorldOK'
    BY <1>1, <1>2, <1>3 DEF ShapeInv, WorldOK
  <1>7. RoundOK' /\ OffOK' /\ SavedOK'
    BY <1>1 DEF ShapeInv, RoundOK, OffOK, SavedOK
  <1>8. ThreadsOK'
    <2>a. awaited \subseteq Calls
      BY PendingCalls DEF ShapeInv, CallsOK
    <2>b. ~(c > Asked)
      BY <1>1, PendingCalls
    <2>1. awaited \subseteq Calls /\ ~(c > Asked) /\ c \notin todo
      BY <1>1, <2>a, <2>b DEF ShapeInv, RoundOK
    <2> QED
      BY <1>1, <1>3, <2>1 DEF ShapeInv, ThreadsOK
  <1>9. FreshOK'
    BY <1>1 DEF ShapeInv, FreshOK, Answered
  <1> QED
    BY <1>4, <1>5, <1>6, <1>7, <1>8, <1>9 DEF ShapeInv

LEMMA ThreadEndsShape ==
  ASSUME ShapeInv, NEW c \in Calls, ThreadEnds(c)
  PROVE  ShapeInv'
  <1>1. /\ threads[c] > IF c \in awaited THEN 1 ELSE 0
        /\ threads' = [threads EXCEPT ![c] = @ - 1] /\ Asked' = Asked
        /\ file' \in {file, "mine"}
        /\ UNCHANGED <<processVars, saved, kind, tries, launched, ghosts>>
    BY DEF ThreadEnds, Asked
  <1>2. /\ threads' \in [Calls -> 0..MaxTries] /\ threads[c] \in Nat /\ threads[c] > 0
        /\ threads'[c] = threads[c] - 1
        /\ \A d \in Calls : d # c => threads'[d] = threads[d]
    <2>1. threads \in [Calls -> 0..MaxTries] /\ MaxTries \in Nat
      BY SessionConstants DEF ShapeInv, WorldOK
    <2> QED
      BY <1>1, <2>1
  <1>3. ProcessOK' /\ CallsOK' /\ RoundOK' /\ SavedOK'
    BY <1>1 DEF ShapeInv, ProcessOK, CallsOK, RoundOK, SavedOK, processVars, ghosts
  <1>4. WorldOK'
    BY <1>1, <1>2 DEF ShapeInv, WorldOK, ghosts
  <1>5. OffOK'
    BY <1>1, <1>2 DEF ShapeInv, OffOK, processVars, ghosts
  <1>6. ThreadsOK'
    <2>1. /\ UNCHANGED <<todo, waiting, awaited, got, tries>>
          /\ awaited \subseteq Calls
      BY <1>1, PendingCalls DEF processVars, ShapeInv, CallsOK
    <2>2. \A d \in awaited : tries[d] \in Nat
      BY <2>1 DEF ShapeInv, WorldOK
    <2> QED
      BY <1>1, <1>2, <2>1, <2>2 DEF ShapeInv, ThreadsOK
  <1>7. FreshOK'
    BY <1>1 DEF ShapeInv, FreshOK, Answered, processVars
  <1> QED
    BY <1>3, <1>4, <1>5, <1>6, <1>7 DEF ShapeInv

LEMMA TimeoutShape ==
  ASSUME ShapeInv, NEW c \in Calls, Timeout(c)
  PROVE  ShapeInv'
  <1>1. /\ pc = "execute" /\ c \in awaited /\ c \in waiting /\ c \in 1..Asked
        /\ Asked' = Asked
        /\ UNCHANGED <<pc, mode, serial, history, iter, todo, waiting, pending, namespace,
                       receipt, replay, saved, kind, file, launched, restored, succeeded,
                       owed, inputs, crashes>>
    BY DEF Timeout, Asked, ShapeInv, CallsOK, ghosts
  <1>2. /\ threads \in [Calls -> 0..MaxTries] /\ tries \in [Calls -> 0..MaxTries]
        /\ threads[c] \in 1..tries[c] /\ MaxTries \in Nat
    BY <1>1, SessionConstants DEF ShapeInv, WorldOK, ThreadsOK
  <1>a. awaited \subseteq Calls /\ ~(c > Asked) /\ c \notin todo
    BY <1>1, PendingCalls DEF ShapeInv, CallsOK, RoundOK
  <1>3. /\ threads' \in [Calls -> 0..MaxTries] /\ tries' \in [Calls -> 0..MaxTries]
        /\ \A d \in Calls : d # c => threads'[d] = threads[d] /\ tries'[d] = tries[d]
        /\ \/ /\ UNCHANGED <<awaited, got>> /\ threads'[c] \in 1..tries'[c]
           \/ /\ awaited' = awaited \ {c} /\ got' = got \cup {c} /\ tries'[c] = 0
    <2>1. CASE MayRetry(c)
      <3>1. /\ threads' = [threads EXCEPT ![c] = @ + 1] /\ tries' = [tries EXCEPT ![c] = @ + 1]
            /\ UNCHANGED <<awaited, got>> /\ tries[c] < MaxTries
        BY <2>1 DEF Timeout, MayRetry
      <3> QED
        BY <1>2, <3>1
    <2>2. CASE ~MayRetry(c)
      <3>1. /\ awaited' = awaited \ {c} /\ got' = got \cup {c}
            /\ tries' = [tries EXCEPT ![c] = 0] /\ threads' = threads
        BY <2>2 DEF Timeout
      <3> QED
        BY <1>2, <3>1
    <2> QED
      BY <2>1, <2>2
  <1>4. ProcessOK'
    BY <1>1 DEF ShapeInv, ProcessOK
  <1>5. CallsOK'
    BY <1>1, <1>3 DEF ShapeInv, CallsOK
  <1>6. WorldOK'
    BY <1>1, <1>3 DEF ShapeInv, WorldOK
  <1>7. RoundOK' /\ OffOK' /\ SavedOK'
    BY <1>1 DEF ShapeInv, RoundOK, OffOK, SavedOK
  <1>8. ThreadsOK'
    BY <1>1, <1>a, <1>3 DEF ShapeInv, ThreadsOK
  <1>9. FreshOK'
    BY <1>1 DEF ShapeInv, FreshOK, Answered
  <1> QED
    BY <1>4, <1>5, <1>6, <1>7, <1>8, <1>9 DEF ShapeInv

\* What Collect does, whatever becomes of the checkpoint.
LEMMA CollectFacts ==
  ASSUME ShapeInv, NEW c \in Calls, Collect(c)
  PROVE  /\ pc = "execute" /\ c \in got /\ c \in waiting /\ waiting \subseteq got
         /\ history' \in Seq(Messages) /\ Len(history') = Len(history) + 1
         /\ Resulted(history') = Resulted(history) \cup {c}
         /\ \A n \in 0..Len(history) : SubSeq(history', 1, n) = SubSeq(history, 1, n)
         /\ pending' = pending \ {c}
         /\ iter' = IF waiting \cup todo = {c} THEN iter + 1 ELSE iter
         /\ \/ /\ pc' = IF waiting # {c} THEN "execute"
                        ELSE IF todo # {} THEN "declare" ELSE "stream"
               /\ waiting' = waiting \ {c} /\ got' = got \ {c}
               /\ UNCHANGED <<todo, awaited>>
               /\ saved' = IF Tracked THEN Snapshot' ELSE saved
            \/ /\ pc' \in {"leaving", "prompt"} /\ Tracked
               /\ todo' = {} /\ waiting' = {} /\ awaited' = {} /\ got' = {}
               /\ saved' = saved \/ saved' = Snapshot'
         /\ UNCHANGED <<mode, serial, namespace, receipt, replay, kind, tries, threads,
                        file, launched, restored, succeeded, owed, inputs, crashes>>
  <1>1. /\ pc = "execute" /\ c \in got /\ waiting \subseteq got
        /\ history' = Append(history, Result(c))
        /\ pending' = pending \ {c}
        /\ iter' = IF waiting \cup todo = {c} THEN iter + 1 ELSE iter
        /\ UNCHANGED <<mode, serial, namespace, receipt, replay, kind, tries, threads,
                       file, launched, restored, succeeded, owed, inputs, crashes>>
    BY DEF Collect, worldVars, ghosts
  <1>2. c \in waiting
    BY <1>1 DEF ShapeInv, CallsOK
  <1>3. /\ history' \in Seq(Messages) /\ Len(history') = Len(history) + 1
        /\ Resulted(history') = Resulted(history) \cup {c}
        /\ \A n \in 0..Len(history) : SubSeq(history', 1, n) = SubSeq(history, 1, n)
    <2>1. Result(c) \in Messages /\ ResultsOf(Result(c)) = {c}
      BY NewMessages
    <2>2. history \in Seq(Messages)
      BY DEF ShapeInv, ProcessOK
    <2> QED
      BY <1>1, <2>1, <2>2, AppendResults
  <1>4. \/ /\ pc' = IF waiting # {c} THEN "execute"
                    ELSE IF todo # {} THEN "declare" ELSE "stream"
           /\ waiting' = waiting \ {c} /\ got' = got \ {c}
           /\ UNCHANGED <<todo, awaited>>
           /\ saved' = IF Tracked THEN Snapshot' ELSE saved
        \/ /\ Tracked /\ EndTurn(TRUE)
           /\ saved' = saved \/ saved' = Snapshot'
    BY DEF Collect, Tell
  <1> QED
    BY <1>1, <1>2, <1>3, <1>4, TurnOver

LEMMA CollectShape ==
  ASSUME ShapeInv, NEW c \in Calls, Collect(c)
  PROVE  ShapeInv'
  <1>1. /\ pc = "execute" /\ c \in got /\ c \in waiting /\ waiting \subseteq got
        /\ history' \in Seq(Messages) /\ Len(history') = Len(history) + 1
        /\ Resulted(history') = Resulted(history) \cup {c}
        /\ pending' = pending \ {c}
        /\ iter' = IF waiting \cup todo = {c} THEN iter + 1 ELSE iter
        /\ \/ /\ pc' = IF waiting # {c} THEN "execute"
                       ELSE IF todo # {} THEN "declare" ELSE "stream"
              /\ waiting' = waiting \ {c} /\ got' = got \ {c}
              /\ UNCHANGED <<todo, awaited>>
              /\ saved' = IF Tracked THEN Snapshot' ELSE saved
           \/ /\ pc' \in {"leaving", "prompt"}
              /\ todo' = {} /\ waiting' = {} /\ awaited' = {} /\ got' = {}
              /\ saved' = saved \/ saved' = Snapshot'
        /\ UNCHANGED <<mode, serial, namespace, receipt, replay, kind, tries, threads,
                       file, launched, restored, succeeded, owed, inputs, crashes>>
    BY CollectFacts
  <1>2. /\ Asked' = Asked /\ awaited = {} /\ todo \cap waiting = {} /\ iter < MaxIterations
        /\ c \in 1..Asked /\ iter \in Nat /\ MaxIterations \in Nat
    BY <1>1, SessionConstants DEF ShapeInv, ProcessOK, CallsOK, RoundOK, Asked
  <1>3. iter' \in 0..MaxIterations /\ (waiting \cup todo # {c} => iter' < MaxIterations)
    BY <1>1, <1>2
  <1>4. /\ saved' \in SavedFiles /\ SavedOK'
        /\ Resulted(saved'.history) \subseteq Answered \cup {c}
    <2>1. pending' \subseteq Calls
      BY <1>1, PendingCalls
    <2> QED
      BY <1>1, <2>1, SaveShape DEF ShapeInv, ProcessOK, Answered
  <1>5. ProcessOK'
    BY <1>1, <1>3 DEF ShapeInv, ProcessOK
  <1>6. CallsOK'
    BY <1>1, <1>2 DEF ShapeInv, CallsOK
  <1>7. WorldOK'
    BY <1>1, <1>4 DEF ShapeInv, WorldOK
  <1>8. RoundOK' /\ OffOK'
    <2>1. waiting = {c} /\ todo # {} => waiting \cup todo # {c}
      BY <1>2
    <2>2. waiting # {c} => waiting \cup todo # {c}
      BY <1>1
    <2>3. waiting = {c} => got \ {c} = {}
      BY <1>1 DEF ShapeInv, CallsOK
    <2> QED
      BY <1>1, <1>2, <1>3, <2>1, <2>2, <2>3 DEF ShapeInv, RoundOK, OffOK
  <1>9. ThreadsOK'
    BY <1>1, <1>2 DEF ShapeInv, ThreadsOK
  <1>10. FreshOK'
    BY <1>1, <1>2, <1>4 DEF ShapeInv, FreshOK, Answered
  <1> QED
    BY <1>4, <1>5, <1>6, <1>7, <1>8, <1>9, <1>10 DEF ShapeInv

LEMMA InterruptShape ==
  ASSUME ShapeInv, Interrupt
  PROVE  ShapeInv'
  <1>1. /\ pc' \in {"leaving", "prompt"} /\ pc # "off" /\ Asked' = Asked
        /\ todo' = {} /\ waiting' = {} /\ awaited' = {} /\ got' = {}
        /\ saved' = saved \/ saved' = Snapshot'
        /\ tries' = [c \in Calls |-> 0]
        /\ UNCHANGED <<mode, serial, history, iter, pending, namespace, receipt, replay,
                       kind, threads, file, launched, restored, succeeded, owed, inputs,
                       crashes>>
    BY TurnOver DEF Interrupt, InTurn, SaveOrFail, ghosts, Asked
  <1>2. /\ saved' \in SavedFiles /\ SavedOK'
        /\ Resulted(saved'.history) \subseteq Answered
    BY <1>1, PendingCalls, SaveShape DEF ShapeInv, ProcessOK, Answered
  <1>3. ProcessOK'
    BY <1>1 DEF ShapeInv, ProcessOK
  <1>4. CallsOK'
    BY <1>1 DEF ShapeInv, CallsOK
  <1>5. WorldOK'
    BY <1>1, <1>2, SessionConstants DEF ShapeInv, WorldOK
  <1>6. RoundOK' /\ OffOK'
    BY <1>1 DEF ShapeInv, RoundOK, OffOK
  <1>7. ThreadsOK'
    BY <1>1 DEF ShapeInv, ThreadsOK
  <1>8. FreshOK'
    BY <1>1, <1>2 DEF ShapeInv, FreshOK, Answered
  <1> QED
    BY <1>2, <1>3, <1>4, <1>5, <1>6, <1>7, <1>8 DEF ShapeInv

LEMMA StutterShape ==
  ASSUME ShapeInv, UNCHANGED sessionVars
  PROVE  ShapeInv'
  <1>1. UNCHANGED <<processVars, saved, worldVars, ghosts>> /\ Asked' = Asked
    BY DEF sessionVars, Asked, worldVars
  <1>2. ProcessOK' /\ CallsOK' /\ RoundOK' /\ SavedOK'
    BY <1>1 DEF ShapeInv, ProcessOK, CallsOK, RoundOK, SavedOK, processVars, worldVars, ghosts
  <1>3. WorldOK' /\ OffOK' /\ ThreadsOK' /\ FreshOK'
    BY <1>1 DEF ShapeInv, WorldOK, OffOK, ThreadsOK, FreshOK, Answered, processVars,
               worldVars, ghosts
  <1> QED
    BY <1>2, <1>3 DEF ShapeInv

-----------------------------------------------------------------------------
(* The namespace of the delegations.                                       *)

\* A process that launches nothing keeps its namespace, and so does what it
\* saves.
LEMMA NamespaceKept ==
  ASSUME NamespaceInv, pc # "off", pc' # "off",
         UNCHANGED <<namespace, launched>>, saved' = saved \/ saved' = Snapshot'
  PROVE  NamespaceInv'
  BY DEF NamespaceInv, Snapshot

LEMMA NamespaceGone ==
  ASSUME NamespaceInv, pc # "off", Gone, saved' \in {saved, Snapshot}, UNCHANGED launched
  PROVE  NamespaceInv'
  <1>1. namespace' = 0 /\ pc' = "off"
    BY DEF Gone
  <1>3. CASE saved' = saved
    BY <1>1, <1>3 DEF NamespaceInv
  <1>4. CASE saved' = Snapshot
    BY <1>1, <1>4 DEF NamespaceInv, Snapshot
  <1> QED
    BY <1>3, <1>4

-----------------------------------------------------------------------------
(* The effects.                                                            *)

\* A step of a process that keeps account of what it begins, and saves or not.
LEMMA EffectsKept ==
  ASSUME EffectsInv, pc # "off", pc' # "off", mode' = mode,
         saved' = saved \/ saved' = Snapshot',
         owed' \subseteq pending' \cup Resulted(history'),
         owed' \subseteq owed \cup waiting, mode = "repl" => owed' \subseteq owed,
         Tracked => waiting' \subseteq pending' /\ (waiting' \subseteq waiting \/ saved' = Snapshot')
  PROVE  EffectsInv'
  <1>1. Tracked' = Tracked
    BY DEF Tracked
  <1>2. CASE saved' = saved
    <2>1. \A c \in owed' : c \in saved.pending \cup Resulted(saved.history)
      BY DEF EffectsInv, EffectsAccounted, Tracked
    <2>2. Tracked => waiting' \subseteq saved'.pending
      <3>1. CASE waiting' \subseteq waiting
        BY <1>2, <3>1 DEF EffectsInv
      <3>2. CASE saved' = Snapshot' /\ Tracked
        BY <3>2 DEF Snapshot
      <3> QED
        BY <3>1, <3>2
    <2> QED
      BY <1>1, <1>2, <2>1, <2>2 DEF EffectsInv, EffectsAccounted
  <1>3. CASE saved' = Snapshot'
    BY <1>1, <1>3 DEF EffectsInv, EffectsAccounted, Snapshot
  <1> QED
    BY <1>2, <1>3

\* Nothing is lost with a process.
LEMMA EffectsGone ==
  ASSUME EffectsInv, pc # "off", Gone, saved' \in {saved, Snapshot}, UNCHANGED owed
  PROVE  EffectsInv'
  <1>1. pc' = "off" /\ waiting' = {} /\ mode' = "repl"
    BY DEF Gone
  <1>2. CASE saved' = saved
    BY <1>1, <1>2 DEF EffectsInv, EffectsAccounted, Tracked
  <1>3. CASE saved' = Snapshot
    BY <1>1, <1>3 DEF EffectsInv, EffectsAccounted, Tracked, Snapshot
  <1> QED
    BY <1>2, <1>3

-----------------------------------------------------------------------------
(* The receipts.                                                           *)

\* A step that reports no success, of a process that keeps its receipts.
LEMMA ReceiptsKept ==
  ASSUME ShapeInv, ReceiptsInv, pc # "off",
         UNCHANGED <<mode, replay, restored, succeeded, receipt>>,
         saved' = saved \/ saved' = Snapshot',
         SubSeq(history', 1, restored) = SubSeq(history, 1, restored),
         waiting' \cup Resulted(history') \subseteq waiting \cup todo \cup Resulted(history),
         succeeded \cap todo' = {}, 1..Asked \subseteq 1..Asked',
         replay => \A c \in 1..Asked' : kind'[c] = "write" => threads'[c] = 0
  PROVE  ReceiptsInv'
  <1>1. succeeded \cap todo = {} /\ succeeded \subseteq 1..Asked
    BY DEF ReceiptsInv
  <1>2. succeeded' \cap (waiting' \cup Resulted(history')) # {} => receipt'
    BY <1>1 DEF ReceiptsInv
  <1>3. succeeded' \cap Resulted(saved'.history) # {} => saved'.receipt
    <2>1. CASE saved' = saved
      BY <2>1 DEF ReceiptsInv
    <2>2. CASE saved' = Snapshot'
      BY <1>2, <2>2 DEF Snapshot
    <2> QED
      BY <2>1, <2>2
  <1>4. Reported' = Reported
    BY DEF Reported
  <1> QED
    BY <1>1, <1>2, <1>3, <1>4 DEF ReceiptsInv

LEMMA ReceiptsGone ==
  ASSUME ReceiptsInv, pc # "off", Gone, saved' \in {saved, Snapshot},
         UNCHANGED <<succeeded, kind>>
  PROVE  ReceiptsInv'
  <1>1. pc' = "off" /\ mode' = "repl" /\ replay' = FALSE /\ todo' = {} /\ Asked' = Asked
    BY DEF Gone, Asked
  <1>2. CASE saved' = saved
    BY <1>1, <1>2 DEF ReceiptsInv
  <1>3. CASE saved' = Snapshot
    BY <1>1, <1>3 DEF ReceiptsInv, Snapshot
  <1> QED
    BY <1>2, <1>3

-----------------------------------------------------------------------------
(* The steps.                                                              *)

\* What the last three invariants know of the history.
LEMMA RestoredPrefix ==
  ASSUME ShapeInv
  PROVE  restored \in 0..Len(history) /\ history \in Seq(Messages)
  BY DEF ShapeInv, ProcessOK

LEMMA StartInv ==
  ASSUME SessionInv, Start
  PROVE  SessionInv'
  <1>1. /\ pc = "off" /\ pc' = "prompt" /\ saved = NoFile /\ ~saved.exists
        /\ UNCHANGED <<history, todo, waiting, pending, namespace, receipt, replay,
                       saved, restored, succeeded, owed, kind, threads, launched>>
        /\ Asked' = Asked
    BY DEF Start, worldVars, ghosts, Asked, SessionInv, ShapeInv, SavedOK
  <1>2. /\ history = <<>> /\ pending = {} /\ namespace = 0 /\ waiting = {} /\ restored = 0
        /\ replay = FALSE
    BY <1>1 DEF SessionInv, ShapeInv, OffOK, RoundOK
  <1>3. NamespaceInv'
    BY <1>1, <1>2 DEF SessionInv, NamespaceInv
  <1>4. EffectsInv'
    <2>1. owed = {}
      BY <1>1, EmptyResults DEF SessionInv, EffectsInv, EffectsAccounted, NoFile
    <2> QED
      BY <1>1, <1>2, <2>1 DEF EffectsInv, EffectsAccounted
  <1>5. ReceiptsInv'
    <2>1. Resulted(SubSeq(history', 1, restored')) = {}
      BY <1>1, <1>2, EmptyResults, WholePrefix
    <2> QED
      BY <1>1, <1>2, <2>1, EmptyResults DEF SessionInv, ReceiptsInv, Reported
  <1> QED
    BY <1>3, <1>4, <1>5, StartShape DEF SessionInv

LEMMA ResumeInv ==
  ASSUME SessionInv, Resume
  PROVE  SessionInv'
  <1>1. /\ pc = "off" /\ pc' = "prompt" /\ saved.exists /\ saved.pending = {}
        /\ history' = saved.history /\ namespace' = saved.namespace
        /\ receipt' = saved.receipt /\ restored' = Len(saved.history)
        /\ mode' \in {"task", "console"} /\ replay' = (mode' = "task" /\ saved.receipt)
        /\ UNCHANGED <<todo, waiting, pending, saved, succeeded, owed, kind, threads,
                       launched>>
        /\ Asked' = Asked
    BY DEF Resume, MayRestore, worldVars, Asked
  <1>2. waiting = {} /\ (\A c \in Calls : threads[c] = 0) /\ saved.history \in Seq(Messages)
    BY <1>1 DEF SessionInv, ShapeInv, OffOK, RoundOK, WorldOK, SavedFiles
  <1>3. NamespaceInv'
    BY <1>1 DEF SessionInv, NamespaceInv
  <1>4. EffectsInv'
    BY <1>1, <1>2 DEF SessionInv, EffectsInv, EffectsAccounted
  <1>5. ReceiptsInv'
    <2>1. Reported' = succeeded \cap Resulted(saved.history)
      BY <1>1, <1>2, WholePrefix DEF Reported
    <2>2. \A c \in 1..Asked : threads'[c] = 0
      BY <1>1, <1>2, PendingCalls DEF SessionInv
    <2> QED
      BY <1>1, <1>2, <2>1, <2>2 DEF SessionInv, ReceiptsInv
  <1> QED
    BY <1>3, <1>4, <1>5, ResumeShape DEF SessionInv

LEMMA LeaveInv ==
  ASSUME SessionInv, Leave
  PROVE  SessionInv'
  <1>1. /\ pc # "off" /\ Gone /\ saved' \in {saved, Snapshot}
        /\ UNCHANGED <<launched, owed, succeeded, kind>>
    BY DEF Leave, worldVars
  <1> QED
    BY <1>1, LeaveShape, NamespaceGone, EffectsGone, ReceiptsGone DEF SessionInv

LEMMA CrashInv ==
  ASSUME SessionInv, Crash
  PROVE  SessionInv'
  <1>1. /\ pc # "off" /\ Gone /\ saved' \in {saved, Snapshot}
        /\ UNCHANGED <<launched, owed, succeeded, kind>>
    BY DEF Crash
  <1> QED
    BY <1>1, CrashShape, NamespaceGone, EffectsGone, ReceiptsGone DEF SessionInv

\* A step that changes none of what the last three invariants are about.
LEMMA OthersUnchanged ==
  ASSUME SessionInv, ShapeInv',
         UNCHANGED <<pc, mode, history, todo, waiting, pending, namespace, receipt, replay,
                     saved, restored, succeeded, owed, kind, launched>>,
         replay => \A c \in 1..Asked : kind[c] = "write" => threads'[c] = 0
  PROVE  SessionInv'
  <1>1. Asked' = Asked /\ Reported' = Reported /\ Tracked' = Tracked
    BY DEF Asked, Reported, Tracked
  <1> QED
    BY <1>1 DEF SessionInv, NamespaceInv, EffectsInv, EffectsAccounted, ReceiptsInv

LEMMA EditInv ==
  ASSUME SessionInv, Edit
  PROVE  SessionInv'
  <1>1. ShapeInv'
    BY EditShape DEF SessionInv
  <1> QED
    BY <1>1, OthersUnchanged
    DEF Edit, processVars, ghosts, SessionInv, ReceiptsInv

LEMMA StutterInv ==
  ASSUME SessionInv, UNCHANGED sessionVars
  PROVE  SessionInv'
  <1>1. ShapeInv'
    BY StutterShape DEF SessionInv
  <1> QED
    BY <1>1, OthersUnchanged
    DEF sessionVars, processVars, worldVars, ghosts, SessionInv, ReceiptsInv

LEMMA AskInv ==
  ASSUME SessionInv, Ask
  PROVE  SessionInv'
  <1>1. /\ pc = "prompt" /\ pc' = "stream" /\ pending' = {} /\ owed' = owed \ pending
        /\ history' = Append(history, User)
        /\ UNCHANGED <<mode, todo, waiting, namespace, receipt, replay, saved, restored,
                       succeeded, kind, threads, launched>>
        /\ Asked' = Asked
    BY DEF Ask, worldVars, Asked
  <1>2. /\ Resulted(history') = Resulted(history)
        /\ SubSeq(history', 1, restored) = SubSeq(history, 1, restored)
        /\ waiting = {} /\ todo = {}
    BY <1>1, RestoredPrefix, AppendResults, NewMessages DEF SessionInv, ShapeInv, RoundOK
  <1>3. NamespaceInv'
    BY <1>1, NamespaceKept DEF SessionInv
  <1>4. EffectsInv'
    BY <1>1, <1>2, EffectsKept DEF SessionInv, EffectsInv
  <1>5. ReceiptsInv'
    <2>1. replay => \A c \in 1..Asked' : kind'[c] = "write" => threads'[c] = 0
      BY <1>1 DEF SessionInv, ReceiptsInv
    <2> QED
      BY <1>1, <1>2, <2>1, ReceiptsKept DEF SessionInv
  <1> QED
    BY <1>3, <1>4, <1>5, AskShape DEF SessionInv

LEMMA AnswerInv ==
  ASSUME SessionInv, Answer
  PROVE  SessionInv'
  <1>1. /\ pc = "stream" /\ pc' \in {"leaving", "prompt"}
        /\ history' = Append(history, Assistant({}, TRUE))
        /\ todo' = {} /\ waiting' = {}
        /\ saved' = saved \/ saved' = Snapshot'
        /\ UNCHANGED <<mode, pending, namespace, receipt, replay, kind, threads, launched,
                       restored, succeeded, owed>>
        /\ Asked' = Asked
    BY TurnOver DEF Answer, Done, SaveOrFail, worldVars, ghosts, Asked
  <1>2. /\ Resulted(history') = Resulted(history)
        /\ SubSeq(history', 1, restored) = SubSeq(history, 1, restored)
    BY <1>1, RestoredPrefix, AppendResults, NewMessages DEF SessionInv
  <1>3. NamespaceInv'
    BY <1>1, NamespaceKept DEF SessionInv
  <1>4. EffectsInv'
    BY <1>1, <1>2, EffectsKept DEF SessionInv, EffectsInv
  <1>5. ReceiptsInv'
    <2>1. replay => \A c \in 1..Asked' : kind'[c] = "write" => threads'[c] = 0
      BY <1>1 DEF SessionInv, ReceiptsInv
    <2> QED
      BY <1>1, <1>2, <2>1, ReceiptsKept DEF SessionInv
  <1> QED
    BY <1>3, <1>4, <1>5, AnswerShape DEF SessionInv

\* What is asked for has no thread and no success.
LEMMA AskToolsInv ==
  ASSUME SessionInv, AskTools
  PROVE  SessionInv'
  <1>1. /\ pc = "stream" /\ pc' \in {"noted", "declare"}
        /\ Resulted(history') = Resulted(history)
        /\ \A n \in 0..Len(history) : SubSeq(history', 1, n) = SubSeq(history, 1, n)
        /\ Asked' \in Asked..MaxCalls
        /\ \A c \in 1..Asked : kind'[c] = kind[c]
        /\ todo' = (Asked + 1)..Asked'
        /\ UNCHANGED <<mode, waiting, pending, namespace, receipt, replay, saved, threads,
                       launched, restored, succeeded, owed>>
    BY AskToolsFacts DEF SessionInv
  <1>2. SubSeq(history', 1, restored) = SubSeq(history, 1, restored)
    BY <1>1, RestoredPrefix DEF SessionInv
  <1>3. NamespaceInv'
    BY <1>1, NamespaceKept DEF SessionInv
  <1>4. EffectsInv'
    BY <1>1, EffectsKept DEF SessionInv, EffectsInv
  <1>5. ReceiptsInv'
    <2>1. Asked \in Nat /\ Asked' \in Nat /\ MaxCalls \in Nat
      BY <1>1, PendingCalls, SessionConstants DEF SessionInv
    <2>2. 1..Asked \subseteq 1..Asked' /\ 1..Asked' \subseteq Calls
      BY <1>1, <2>1 DEF Calls
    <2>3. replay => \A c \in 1..Asked' : kind'[c] = "write" => threads'[c] = 0
      <3>1. \A c \in 1..Asked' : c \in 1..Asked \/ c > Asked
        BY <2>1
      <3> QED
        BY <1>1, <2>2, <3>1 DEF SessionInv, ReceiptsInv, ShapeInv, ThreadsOK
    <2>4. succeeded \cap todo' = {}
      BY <1>1, <2>1 DEF SessionInv, ReceiptsInv
    <2> QED
      BY <1>1, <1>2, <2>2, <2>3, <2>4, ReceiptsKept DEF SessionInv
  <1> QED
    BY <1>3, <1>4, <1>5, AskToolsShape DEF SessionInv

LEMMA TellNoteInv ==
  ASSUME SessionInv, TellNote
  PROVE  SessionInv'
  <1>1. /\ pc = "noted" /\ pc' # "off"
        /\ \/ UNCHANGED <<todo, waiting>>
           \/ todo' = {} /\ waiting' = {}
        /\ saved' = saved \/ saved' = Snapshot'
        /\ UNCHANGED <<mode, history, pending, namespace, receipt, replay, kind, threads,
                       launched, restored, succeeded, owed>>
        /\ Asked' = Asked
    BY TurnOver DEF TellNote, Tell, worldVars, ghosts, Asked
  <1>3. NamespaceInv'
    BY <1>1, NamespaceKept DEF SessionInv
  <1>4. EffectsInv'
    BY <1>1, EffectsKept DEF SessionInv, EffectsInv
  <1>5. ReceiptsInv'
    <2>1. replay => \A c \in 1..Asked' : kind'[c] = "write" => threads'[c] = 0
      BY <1>1 DEF SessionInv, ReceiptsInv
    <2>2. succeeded \cap todo' = {}
      BY <1>1 DEF SessionInv, ReceiptsInv
    <2> QED
      BY <1>1, <2>1, <2>2, ReceiptsKept DEF SessionInv
  <1> QED
    BY <1>3, <1>4, <1>5, TellNoteShape DEF SessionInv

LEMMA DeclareInv ==
  ASSUME SessionInv, Declare
  PROVE  SessionInv'
  <1>1. PICK c \in todo :
           /\ Resulted(history') = Resulted(history)
           /\ \A n \in 0..Len(history) : SubSeq(history', 1, n) = SubSeq(history, 1, n)
           /\ pending' = IF Tracked THEN pending \cup {c} ELSE pending
           /\ \/ /\ todo' = todo \ {c} /\ waiting' = waiting \cup {c}
                 /\ pc' \in {"execute", "declare"}
                 /\ saved' = IF Tracked THEN Snapshot' ELSE saved
              \/ /\ Tracked /\ pc' \in {"leaving", "prompt"}
                 /\ todo' = {} /\ waiting' = {}
                 /\ saved' = saved
    BY DeclareFacts DEF SessionInv
  <1>2. /\ pc = "declare" /\ pc' # "off" /\ Asked' = Asked
        /\ UNCHANGED <<mode, namespace, receipt, replay, kind, threads, launched, restored,
                       succeeded, owed>>
    BY <1>1 DEF Declare, worldVars, ghosts, Asked
  <1>3. SubSeq(history', 1, restored) = SubSeq(history, 1, restored)
    BY <1>1, RestoredPrefix DEF SessionInv
  <1>4. NamespaceInv'
    BY <1>1, <1>2, NamespaceKept DEF SessionInv
  <1>5. EffectsInv'
    <2>1. owed' \subseteq pending' \cup Resulted(history')
      BY <1>1, <1>2 DEF SessionInv, EffectsInv
    <2>2. Tracked => /\ waiting' \subseteq pending'
                     /\ waiting' \subseteq waiting \/ saved' = Snapshot'
      BY <1>1 DEF SessionInv, EffectsInv
    <2> QED
      BY <1>1, <1>2, <2>1, <2>2, EffectsKept DEF SessionInv
  <1>6. ReceiptsInv'
    <2>1. replay => \A d \in 1..Asked' : kind'[d] = "write" => threads'[d] = 0
      BY <1>2 DEF SessionInv, ReceiptsInv
    <2>2. succeeded \cap todo' = {}
      BY <1>1 DEF SessionInv, ReceiptsInv
    <2> QED
      BY <1>1, <1>2, <1>3, <2>1, <2>2, ReceiptsKept DEF SessionInv
  <1> QED
    BY <1>4, <1>5, <1>6, DeclareShape DEF SessionInv

LEMMA RefuseInv ==
  ASSUME SessionInv, NEW c \in Calls, Refuse(c)
  PROVE  SessionInv'
  <1>1. ShapeInv'
    BY RefuseShape DEF SessionInv
  <1> QED
    BY <1>1, OthersUnchanged DEF Refuse, worldVars, ghosts, SessionInv, ReceiptsInv

\* What is begun has been declared to the file.
LEMMA WriteInv ==
  ASSUME SessionInv, NEW c \in Calls, Write(c)
  PROVE  SessionInv'
  <1>1. /\ pc = "execute" /\ pc' = pc /\ c \in waiting /\ ~replay
        /\ owed' = IF Tracked THEN owed \cup {c} ELSE owed
        /\ UNCHANGED <<mode, history, todo, waiting, pending, namespace, receipt, replay,
                       saved, kind, launched, restored, succeeded>>
        /\ Asked' = Asked
    BY DEF Write, Ready, Execute, Asked
  <1>2. NamespaceInv'
    BY <1>1, NamespaceKept DEF SessionInv
  <1>3. EffectsInv'
    BY <1>1, EffectsKept DEF SessionInv, EffectsInv, Tracked
  <1>4. ReceiptsInv'
    <2>1. succeeded \cap todo' = {}
      BY <1>1 DEF SessionInv, ReceiptsInv
    <2> QED
      BY <1>1, <2>1, ReceiptsKept DEF SessionInv
  <1> QED
    BY <1>2, <1>3, <1>4, WriteShape DEF SessionInv

LEMMA DelegateInv ==
  ASSUME SessionInv, NEW c \in Calls, Delegate(c)
  PROVE  SessionInv'
  <1>1. /\ pc = "execute" /\ pc' = pc /\ c \in waiting /\ kind[c] = "delegate"
        /\ owed' = IF Tracked THEN owed \cup {c} ELSE owed
        /\ saved' = Snapshot' /\ threads' = [threads EXCEPT ![c] = @ + 1]
        /\ UNCHANGED <<mode, history, todo, waiting, pending, receipt, replay, kind,
                       restored, succeeded>>
        /\ Asked' = Asked
    BY DEF Delegate, Ready, Execute, Asked
  <1>2. ShapeInv' /\ namespace' = 1 /\ launched' = {1}
    BY DelegateShape DEF SessionInv
  <1>3. NamespaceInv'
    BY <1>1, <1>2 DEF NamespaceInv, Snapshot
  <1>4. EffectsInv'
    BY <1>1, EffectsKept DEF SessionInv, EffectsInv, Tracked
  <1>5. ReceiptsInv'
    <2>1. succeeded \cap todo' = {}
      BY <1>1 DEF SessionInv, ReceiptsInv
    <2>2. replay => \A d \in 1..Asked' : kind'[d] = "write" => threads'[d] = 0
      <3>1. \A d \in 1..Asked : kind[d] = "write" => threads'[d] = threads[d]
        BY <1>1, PendingCalls DEF SessionInv, ShapeInv, WorldOK
      <3> QED
        BY <1>1, <3>1 DEF SessionInv, ReceiptsInv
    <2> QED
      BY <1>1, <2>1, <2>2, ReceiptsKept DEF SessionInv
  <1> QED
    BY <1>2, <1>3, <1>4, <1>5 DEF SessionInv

\* A success is new to every history, and leaves its receipt.
LEMMA ReturnInv ==
  ASSUME SessionInv, NEW c \in Calls, Return(c)
  PROVE  SessionInv'
  <1>1. /\ pc = "execute" /\ pc' = pc /\ c \in awaited /\ c \in waiting /\ c \in 1..Asked
        /\ threads' = [threads EXCEPT ![c] = @ - 1]
        /\ UNCHANGED <<mode, history, todo, waiting, pending, namespace, replay, saved,
                       kind, launched, restored, owed>>
        /\ Asked' = Asked
    BY DEF Return, Asked, SessionInv, ShapeInv, CallsOK
  <1>2. \/ succeeded' = succeeded \cup {c} /\ receipt' = TRUE /\ kind[c] = "write"
        \/ succeeded' = succeeded /\ (receipt => receipt')
    <2>1. kind[c] \in {"write", "delegate"}
      BY <1>1 DEF SessionInv, ShapeInv, CallsOK, Asked
    <2> QED
      BY <2>1 DEF Return
  <1>3. threads[c] # 0 /\ c \notin todo /\ c \notin Answered
    <2>1. c \notin todo /\ c \notin Answered
      BY <1>1 DEF SessionInv, ShapeInv, FreshOK, RoundOK
    <2>2. threads[c] \in 1..tries[c] /\ tries[c] \in 0..MaxTries
      BY <1>1 DEF SessionInv, ShapeInv, ThreadsOK, WorldOK
    <2>3. threads[c] # 0
      BY <2>2, SessionConstants
    <2> QED
      BY <2>1, <2>3
  <1>4. NamespaceInv'
    BY <1>1, NamespaceKept DEF SessionInv
  <1>5. EffectsInv'
    BY <1>1, EffectsKept DEF SessionInv, EffectsInv
  <1>6. ReceiptsInv'
    <2>1. succeeded \cap Answered = succeeded' \cap Answered
      BY <1>2, <1>3
    <2>2. Reported' = Reported
      <3>1. Resulted(SubSeq(history, 1, restored)) \subseteq Answered
        BY RestoredPrefix, PrefixResults DEF SessionInv, Answered
      <3> QED
        BY <1>1, <2>1, <3>1 DEF Reported
    <2>3. succeeded' \cap Resulted(saved'.history) # {} => saved'.receipt
      BY <1>1, <2>1 DEF SessionInv, ReceiptsInv, Answered
    <2>4. succeeded' \cap (waiting' \cup Resulted(history')) # {} => receipt'
      BY <1>1, <1>2 DEF SessionInv, ReceiptsInv
    <2>5. succeeded' \subseteq (1..Asked') \ todo'
      BY <1>1, <1>2, <1>3 DEF SessionInv, ReceiptsInv
    <2>6. replay' => \A d \in 1..Asked' : kind'[d] = "write" => threads'[d] = 0
      <3>1. replay => kind[c] # "write"
        BY <1>1, <1>3 DEF SessionInv, ReceiptsInv
      <3>2. \A d \in 1..Asked : d # c => threads'[d] = threads[d]
        BY <1>1, PendingCalls DEF SessionInv, ShapeInv, WorldOK
      <3> QED
        BY <1>1, <3>1, <3>2 DEF SessionInv, ReceiptsInv
    <2> QED
      BY <1>1, <2>2, <2>3, <2>4, <2>5, <2>6 DEF SessionInv, ReceiptsInv
  <1> QED
    BY <1>4, <1>5, <1>6, ReturnShape DEF SessionInv

LEMMA ThreadEndsInv ==
  ASSUME SessionInv, NEW c \in Calls, ThreadEnds(c)
  PROVE  SessionInv'
  <1>1. ShapeInv'
    BY ThreadEndsShape DEF SessionInv
  <1>2. replay => \A d \in 1..Asked : kind[d] = "write" => threads'[d] = 0
    <2>1. /\ threads[c] > IF c \in awaited THEN 1 ELSE 0
          /\ threads' = [threads EXCEPT ![c] = @ - 1]
      BY DEF ThreadEnds
    <2>2. threads[c] # 0
      BY <2>1 DEF SessionInv, ShapeInv, WorldOK
    <2>3. \A d \in 1..Asked : d # c => threads'[d] = threads[d]
      BY <2>1, PendingCalls DEF SessionInv, ShapeInv, WorldOK
    <2> QED
      BY <2>2, <2>3 DEF SessionInv, ReceiptsInv
  <1> QED
    BY <1>1, <1>2, OthersUnchanged DEF ThreadEnds, processVars, ghosts

LEMMA TimeoutInv ==
  ASSUME SessionInv, NEW c \in Calls, Timeout(c)
  PROVE  SessionInv'
  <1>1. ShapeInv'
    BY TimeoutShape DEF SessionInv
  <1>2. replay => \A d \in 1..Asked : kind[d] = "write" => threads'[d] = 0
    <2>1. threads[c] # 0 /\ c \in awaited
      <3>1. c \in awaited
        BY DEF Timeout
      <3>2. threads[c] \in 1..tries[c] /\ tries[c] \in 0..MaxTries
        BY <3>1 DEF SessionInv, ShapeInv, ThreadsOK, WorldOK
      <3> QED
        BY <3>1, <3>2, SessionConstants
    <2>2. \A d \in 1..Asked : d # c => threads'[d] = threads[d]
      BY PendingCalls DEF Timeout, SessionInv, ShapeInv, WorldOK
    <2> QED
      BY <2>1, <2>2 DEF SessionInv, ReceiptsInv, ShapeInv, CallsOK
  <1> QED
    BY <1>1, <1>2, OthersUnchanged DEF Timeout, ghosts

LEMMA CollectInv ==
  ASSUME SessionInv, NEW c \in Calls, Collect(c)
  PROVE  SessionInv'
  <1>1. /\ pc = "execute" /\ c \in waiting
        /\ Resulted(history') = Resulted(history) \cup {c}
        /\ \A n \in 0..Len(history) : SubSeq(history', 1, n) = SubSeq(history, 1, n)
        /\ pending' = pending \ {c}
        /\ \/ waiting' = waiting \ {c} /\ todo' = todo
           \/ todo' = {} /\ waiting' = {}
        /\ pc' \in {"execute", "declare", "stream", "leaving", "prompt"}
        /\ saved' = saved \/ saved' = Snapshot'
        /\ UNCHANGED <<mode, namespace, receipt, replay, kind, threads, launched, restored,
                       succeeded, owed>>
    BY CollectFacts DEF SessionInv
  <1>2. SubSeq(history', 1, restored) = SubSeq(history, 1, restored) /\ Asked' = Asked
    BY <1>1, RestoredPrefix DEF SessionInv, Asked
  <1>3. NamespaceInv'
    BY <1>1, NamespaceKept DEF SessionInv
  <1>4. EffectsInv'
    <2>1. owed' \subseteq pending' \cup Resulted(history')
      BY <1>1 DEF SessionInv, EffectsInv
    <2>2. waiting' \subseteq waiting /\ (Tracked => waiting' \subseteq pending')
      BY <1>1 DEF SessionInv, EffectsInv
    <2> QED
      BY <1>1, <2>1, <2>2, EffectsKept DEF SessionInv
  <1>5. ReceiptsInv'
    <2>1. replay => \A d \in 1..Asked' : kind'[d] = "write" => threads'[d] = 0
      BY <1>1, <1>2 DEF SessionInv, ReceiptsInv
    <2>2. succeeded \cap todo' = {}
      BY <1>1 DEF SessionInv, ReceiptsInv
    <2> QED
      BY <1>1, <1>2, <2>1, <2>2, ReceiptsKept DEF SessionInv
  <1> QED
    BY <1>3, <1>4, <1>5, CollectShape DEF SessionInv

LEMMA InterruptInv ==
  ASSUME SessionInv, Interrupt
  PROVE  SessionInv'
  <1>1. /\ pc # "off" /\ pc' # "off" /\ todo' = {} /\ waiting' = {}
        /\ saved' = saved \/ saved' = Snapshot'
        /\ UNCHANGED <<mode, history, pending, namespace, receipt, replay, kind, threads,
                       launched, restored, succeeded, owed>>
        /\ Asked' = Asked
    BY TurnOver DEF Interrupt, InTurn, SaveOrFail, ghosts, Asked
  <1>3. NamespaceInv'
    BY <1>1, NamespaceKept DEF SessionInv
  <1>4. EffectsInv'
    BY <1>1, EffectsKept DEF SessionInv, EffectsInv
  <1>5. ReceiptsInv'
    <2>1. replay => \A c \in 1..Asked' : kind'[c] = "write" => threads'[c] = 0
      BY <1>1 DEF SessionInv, ReceiptsInv
    <2> QED
      BY <1>1, <2>1, ReceiptsKept DEF SessionInv
  <1> QED
    BY <1>3, <1>4, <1>5, InterruptShape DEF SessionInv

LEMMA StepSessionInv == SessionInv /\ [SessionNext]_sessionVars => SessionInv'
  <1> SUFFICES ASSUME SessionInv, [SessionNext]_sessionVars
               PROVE  SessionInv'
    OBVIOUS
  <1>1. CASE Start
    BY <1>1, StartInv
  <1>2. CASE Resume
    BY <1>2, ResumeInv
  <1>3. CASE Ask
    BY <1>3, AskInv
  <1>4. CASE Leave
    BY <1>4, LeaveInv
  <1>5. CASE TurnStep
    <2>1. CASE Answer \/ AskTools \/ TellNote \/ Declare
      BY <2>1, AnswerInv, AskToolsInv, TellNoteInv, DeclareInv
    <2>2. ASSUME NEW c \in Calls,
                 Refuse(c) \/ Write(c) \/ Delegate(c) \/ Timeout(c) \/ Collect(c)
          PROVE  SessionInv'
      BY <2>2, RefuseInv, WriteInv, DelegateInv, TimeoutInv, CollectInv
    <2> QED
      BY <1>5, <2>1, <2>2 DEF TurnStep
  <1>6. ASSUME NEW c \in Calls, Return(c) \/ ThreadEnds(c)
        PROVE  SessionInv'
    BY <1>6, ReturnInv, ThreadEndsInv
  <1>7. CASE Interrupt
    BY <1>7, InterruptInv
  <1>8. CASE Crash
    BY <1>8, CrashInv
  <1>9. CASE Edit
    BY <1>9, EditInv
  <1>10. CASE UNCHANGED sessionVars
    BY <1>10, StutterInv
  <1> QED
    BY <1>1, <1>2, <1>3, <1>4, <1>5, <1>6, <1>7, <1>8, <1>9, <1>10 DEF SessionNext

-----------------------------------------------------------------------------
(* The requests.  What the provider accepts is a property of sequences that *)
(* are cut and repaired; the invariant is one of the whole histories.       *)

Declared(h) == UNION {h[i].calls : i \in {j \in DOMAIN h : Declares(h[j])}}

\* Every result is of one call, and comes after what declares that call,
\* without a word of the model between them.
WellPaired(h) ==
    /\ \A i \in DOMAIN h : h[i].role = "tool" => \E c \in Calls : h[i] = Result(c)
    /\ \A i, j \in DOMAIN h :
          h[i].role = "tool" /\ Declares(h[j]) /\ h[i].calls \subseteq h[j].calls =>
             j < i /\ \A k \in (j + 1)..(i - 1) : h[k].role # "assistant"

\* The model has said nothing since it declared the call, if it has.
LastSaid(h, c) ==
    \A j \in DOMAIN h : Declares(h[j]) /\ c \in h[j].calls =>
        \A k \in (j + 1)..Len(h) : h[k].role # "assistant"

PairingInv ==
    /\ WellPaired(history) /\ WellPaired(saved.history)
    /\ Declared(history) \cup Declared(saved.history) \subseteq 1..Asked
    /\ \A c \in todo \cup waiting : LastSaid(history, c)
    /\ serial => todo \cap Declared(history) = {}
    /\ serial /\ pc = "declare" => waiting = {}

\* The positions in P are numbered in their order.
LEMMA NthInOrder ==
  ASSUME NEW m \in Nat, NEW P \in SUBSET (1..m)
  PROVE  /\ Cardinality(P) \in Nat
         /\ \A n \in 1..Cardinality(P) : Nth(P, n) \in P
         /\ \A n, o \in 1..Cardinality(P) : n < o => Nth(P, n) < Nth(P, o)
         /\ \A i \in P : \E n \in 1..Cardinality(P) : Nth(P, n) = i
  <1> DEFINE UpTo(i) == {j \in P : j <= i}
             Rank(i) == Cardinality(UpTo(i))
             N == Cardinality(P)
  <1>0. P \subseteq Int
    OBVIOUS
  <1>1. IsFiniteSet(P) /\ N \in Nat
    <2>1. IsFiniteSet(1..m)
      BY FS_Interval
    <2>2. IsFiniteSet(P)
      BY <2>1, FS_Subset
    <2> QED
      BY <2>2, FS_CardinalityType
  <1>2. ASSUME NEW i \in P
        PROVE  IsFiniteSet(UpTo(i)) /\ Rank(i) \in 1..N
    <2>1. UpTo(i) \in SUBSET P /\ i \in UpTo(i)
      OBVIOUS
    <2>2. IsFiniteSet(UpTo(i)) /\ Rank(i) <= N
      BY <1>1, <2>1, FS_Subset
    <2>3. Rank(i) \in Nat /\ Rank(i) # 0
      BY <2>1, <2>2, FS_CardinalityType, FS_EmptySet
    <2> QED
      BY <1>1, <2>2, <2>3
  <1>3. ASSUME NEW i \in P, NEW k \in P, i < k
        PROVE  Rank(i) < Rank(k)
    <2>a. i \in Int /\ k \in Int /\ \A j \in P : j \in Int
      BY <1>0
    <2>1. UpTo(i) \in SUBSET UpTo(k) /\ UpTo(i) # UpTo(k)
      <3>1. ASSUME NEW j \in UpTo(i)
            PROVE  j \in UpTo(k)
        <4>1. j \in P /\ j <= i /\ j \in Int
          BY <2>a
        <4> QED
          BY <1>3, <2>a, <4>1
      <3>2. k \in UpTo(k) /\ k \notin UpTo(i)
        BY <1>3, <2>a
      <3> QED
        BY <3>1, <3>2
    <2>2. Rank(i) <= Rank(k) /\ Rank(i) # Rank(k)
      BY <1>2, <2>1, FS_Subset
    <2> QED
      BY <1>1, <1>2, <2>2
  <1>4. \A i, k \in P : Rank(i) = Rank(k) => i = k
    <2>1. \A i, k \in P : i < k \/ k < i \/ i = k
      OBVIOUS
    <2>2. \A i \in P : Rank(i) \in Nat
      BY <1>1, <1>2
    <2> HIDE DEF Rank
    <2> QED
      BY <1>3, <2>1, <2>2
  <1>5. \A n \in 1..N : \E i \in P : Rank(i) = n
    <2> DEFINE f == [i \in P |-> Rank(i)]
    <2>1. f \in Injection(P, 1..N)
      <3>1. f \in [P -> 1..N]
        BY <1>2
      <3> HIDE DEF Rank
      <3> QED
        BY <1>4, <3>1 DEF Injection, IsInjective
    <2>2. IsFiniteSet(1..N) /\ Cardinality(1..N) = N
      BY <1>1, FS_Interval
    <2>3. f \in Surjection(P, 1..N)
      BY <2>1, <2>2, FS_Injection
    <2> HIDE DEF Rank
    <2> QED
      BY <2>3 DEF Surjection
  <1>6. ASSUME NEW n \in 1..N
        PROVE  Nth(P, n) \in P /\ Rank(Nth(P, n)) = n
    BY <1>5 DEF Nth
  <1> HIDE DEF Rank
  <1>7. ASSUME NEW n \in 1..N, NEW o \in 1..N, n < o
        PROVE  Nth(P, n) < Nth(P, o)
    <2>1. /\ Nth(P, n) \in P /\ Rank(Nth(P, n)) = n
          /\ Nth(P, o) \in P /\ Rank(Nth(P, o)) = o
      BY <1>6
    <2>2. ~(Nth(P, o) < Nth(P, n))
      <3> SUFFICES ASSUME Nth(P, o) < Nth(P, n)
                   PROVE  FALSE
        OBVIOUS
      <3>1. Rank(Nth(P, o)) < Rank(Nth(P, n))
        BY <1>3, <2>1
      <3> QED
        BY <1>1, <1>7, <2>1, <3>1
    <2>3. Nth(P, o) # Nth(P, n) /\ n # o
      BY <1>1, <1>7, <2>1
    <2>4. Nth(P, n) \in Int /\ Nth(P, o) \in Int
      BY <1>0, <2>1
    <2> QED
      BY <2>2, <2>3, <2>4
  <1>8. ASSUME NEW i \in P
        PROVE  \E n \in 1..N : Nth(P, n) = i
    BY <1>2, <1>4, <1>6
  <1> QED
    BY <1>1, <1>6, <1>7, <1>8

\* What is left of a history, and what becomes of a message that is.
Keeps(h, m) ==
    CASE m.role = "tool" -> m.calls \subseteq Kept(h)
      [] Declares(m)     -> Whole(h, m) \/ m.text
      [] OTHER           -> TRUE
Mended(h, m) == IF Declares(m) /\ ~Whole(h, m) THEN [m EXCEPT !.calls = {}] ELSE m
Left(h) == {i \in DOMAIN h : Keeps(h, h[i])}

LEMMA RepairedLeft ==
  ASSUME NEW h
  PROVE  Repaired(h) = [n \in 1..Cardinality(Left(h)) |-> Mended(h, h[Nth(Left(h), n)])]
  BY DEF Repaired, Left, Keeps, Mended

LEMMA MendedMessage ==
  ASSUME NEW h, NEW m \in Messages
  PROVE  /\ Mended(h, m) \in Messages /\ Mended(h, m).role = m.role
         /\ Declares(Mended(h, m)) <=> Declares(m) /\ Whole(h, m)
         /\ ~Declares(m) \/ Whole(h, m) => Mended(h, m) = m
  <1>1. CASE Declares(m) /\ ~Whole(h, m)
    <2>1. Mended(h, m) = [m EXCEPT !.calls = {}]
      BY <1>1 DEF Mended
    <2> QED
      BY <1>1, <2>1 DEF Messages, Declares
  <1>2. CASE ~(Declares(m) /\ ~Whole(h, m))
    <2>1. Mended(h, m) = m
      BY <1>2 DEF Mended
    <2> QED
      BY <1>2, <2>1
  <1> QED
    BY <1>1, <1>2

\* The repair makes a request of any part of a history.
LEMMA RepairedIsPaired ==
  ASSUME NEW h \in Seq(Messages), WellPaired(h)
  PROVE  Paired(Repaired(h))
  <1> DEFINE L == Left(h)
             N == Cardinality(L)
             p(n) == Nth(L, n)
             r == Repaired(h)
  <1>1. DOMAIN h = 1..Len(h) /\ Len(h) \in Nat /\ L \subseteq DOMAIN h
    BY DEF Left
  <1>2. /\ N \in Nat
        /\ \A n \in 1..N : p(n) \in L
        /\ \A n, o \in 1..N : n < o => p(n) < p(o)
        /\ \A i \in L : \E n \in 1..N : p(n) = i
    BY <1>1, NthInOrder
  <1>3. /\ r = [n \in 1..N |-> Mended(h, h[p(n)])]
    BY RepairedLeft
  <1> HIDE DEF L, N, p, r
  <1>4. /\ DOMAIN r = 1..N /\ Len(r) = N
        /\ \A n \in 1..N : /\ h[p(n)] \in Messages /\ p(n) \in 1..Len(h)
                           /\ r[n] = Mended(h, h[p(n)]) /\ r[n].role = h[p(n)].role
                           /\ Declares(r[n]) <=> Declares(h[p(n)]) /\ Whole(h, h[p(n)])
                           /\ ~Declares(h[p(n)]) \/ Whole(h, h[p(n)]) => r[n] = h[p(n)]
    <2>1. \A n \in 1..N : p(n) \in 1..Len(h) /\ h[p(n)] \in Messages
      BY <1>1, <1>2
    <2>2. r \in [1..N -> Messages]
      BY <1>3, <2>1, MendedMessage
    <2>3. DOMAIN r = 1..N /\ Len(r) = N
      BY <1>2, <2>2
    <2> QED
      BY <1>3, <2>1, <2>3, MendedMessage
  <1>5. ASSUME NEW n \in 1..N, NEW o \in 1..N, p(n) < p(o)
        PROVE  n < o
    <2>1. p(n) \in Int /\ p(o) \in Int
      BY <1>4
    <2> QED
      BY <1>2, <1>5, <2>1
  <1>6. ASSUME NEW i \in DOMAIN r, r[i].role = "tool"
        PROVE  \E j \in 1..(i - 1) :
                  /\ Declares(r[j]) /\ r[i].calls \subseteq r[j].calls
                  /\ \A k \in (j + 1)..(i - 1) : r[k].role # "assistant"
    <2>1. i \in 1..N /\ p(i) \in L /\ p(i) \in DOMAIN h /\ h[p(i)].role = "tool"
      BY <1>1, <1>2, <1>4, <1>6
    <2>2. PICK c \in Calls : h[p(i)] = Result(c)
      BY <2>1 DEF WellPaired
    <2>3. c \in Kept(h) /\ r[i] = Result(c) /\ Result(c).calls = {c}
      BY <1>4, <2>1, <2>2 DEF L, Left, Keeps, Result, Declares
    <2>4. PICK q \in DOMAIN h : Declares(h[q]) /\ Whole(h, h[q]) /\ c \in h[q].calls
      BY <2>3 DEF Kept
    <2>5. q < p(i) /\ \A k \in (q + 1)..(p(i) - 1) : h[k].role # "assistant"
      BY <2>1, <2>2, <2>3, <2>4 DEF WellPaired
    <2>6. q \in L
      BY <2>4 DEF L, Left, Keeps, Declares
    <2>7. PICK j \in 1..N : p(j) = q
      BY <1>2, <2>6
    <2>8. j < i
      BY <1>5, <2>1, <2>5, <2>7
    <2>9. r[j] = h[q] /\ Declares(r[j]) /\ r[i].calls \subseteq r[j].calls
      BY <1>4, <2>3, <2>4, <2>7
    <2>10. ASSUME NEW k \in (j + 1)..(i - 1)
           PROVE  r[k].role # "assistant"
      <3>1. k \in 1..N /\ j < k /\ k < i
        BY <1>2, <2>1, <2>7
      <3>2. p(j) < p(k) /\ p(k) < p(i) /\ p(k) \in Int /\ p(i) \in Int
        BY <1>2, <1>4, <2>1, <3>1
      <3>3. p(k) \in (q + 1)..(p(i) - 1)
        BY <1>1, <2>7, <3>2
      <3> QED
        BY <1>4, <2>5, <3>1, <3>3
    <2>11. j \in 1..(i - 1)
      BY <1>2, <2>1, <2>8
    <2> QED
      BY <2>9, <2>10, <2>11
  <1>7. ASSUME NEW j \in DOMAIN r, Declares(r[j]), NEW c \in r[j].calls
        PROVE  \E i \in (j + 1)..Len(r) : r[i] = Result(c)
    <2>1. /\ j \in 1..N /\ p(j) \in DOMAIN h /\ r[j] = h[p(j)]
          /\ Declares(h[p(j)]) /\ Whole(h, h[p(j)]) /\ c \in h[p(j)].calls
      BY <1>1, <1>4, <1>7
    <2>2. PICK q \in DOMAIN h : h[q].role = "tool" /\ c \in h[q].calls
      BY <2>1 DEF Whole, Resulted
    <2>3. h[q] = Result(c) /\ h[q].calls = {c}
      BY <2>2 DEF WellPaired, Result
    <2>4. p(j) < q
      BY <2>1, <2>2, <2>3 DEF WellPaired
    <2>5. c \in Kept(h)
      BY <2>1 DEF Kept
    <2>6. q \in L
      BY <2>2, <2>3, <2>5 DEF L, Left, Keeps, Declares
    <2>7. PICK i \in 1..N : p(i) = q
      BY <1>2, <2>6
    <2>8. j < i
      BY <1>5, <2>1, <2>4, <2>7
    <2>9. r[i] = Result(c)
      BY <1>4, <2>2, <2>3, <2>7 DEF Declares
    <2>10. i \in (j + 1)..Len(r)
      BY <1>2, <1>4, <2>1, <2>8
    <2> QED
      BY <2>9, <2>10
  <1> QED
    BY <1>6, <1>7 DEF Paired, r

LEMMA SuffixPaired ==
  ASSUME NEW h \in Seq(Messages), WellPaired(h), NEW n \in 0..Len(h)
  PROVE  /\ SubSeq(h, n + 1, Len(h)) \in Seq(Messages)
         /\ WellPaired(SubSeq(h, n + 1, Len(h)))
  <1> DEFINE g == SubSeq(h, n + 1, Len(h))
             M == Len(h) - n
  <1>1. /\ g \in Seq(Messages) /\ M \in Nat /\ n \in Nat /\ Len(h) \in Nat
        /\ DOMAIN g = 1..M /\ DOMAIN h = 1..Len(h)
        /\ \A i \in 1..M : g[i] = h[n + i] /\ n + i \in 1..Len(h)
    OBVIOUS
  <1> HIDE DEF g
  <1>2. \A i \in DOMAIN g : g[i].role = "tool" => \E c \in Calls : g[i] = Result(c)
    BY <1>1 DEF WellPaired
  <1>3. ASSUME NEW i \in DOMAIN g, NEW j \in DOMAIN g, g[i].role = "tool",
               Declares(g[j]), g[i].calls \subseteq g[j].calls
        PROVE  j < i /\ \A k \in (j + 1)..(i - 1) : g[k].role # "assistant"
    <2> DEFINE a == n + i
               b == n + j
    <2>a. /\ a \in DOMAIN h /\ b \in DOMAIN h
          /\ h[a].role = "tool" /\ Declares(h[b]) /\ h[a].calls \subseteq h[b].calls
      BY <1>1, <1>3
    <2> HIDE DEF a, b
    <2>b. b < a /\ \A k \in (b + 1)..(a - 1) : h[k].role # "assistant"
      BY <2>a DEF WellPaired
    <2>1. /\ n + j < n + i
          /\ \A k \in (n + j + 1)..(n + i - 1) : h[k].role # "assistant"
      BY <2>b DEF a, b
    <2>2. ASSUME NEW k \in (j + 1)..(i - 1)
          PROVE  g[k].role # "assistant"
      <3>1. k \in 1..M /\ n + k \in (n + j + 1)..(n + i - 1)
        BY <1>1
      <3> QED
        BY <1>1, <2>1, <3>1
    <2> QED
      BY <1>1, <2>1, <2>2
  <1> QED
    BY <1>1, <1>2, <1>3 DEF WellPaired, g

LEMMA AppendPaired ==
  ASSUME NEW h \in Seq(Messages), WellPaired(h), NEW m \in Messages,
         m.role = "tool" => \E c \in Calls : m = Result(c) /\ LastSaid(h, c),
         Declares(m) => m.calls \cap Resulted(h) = {}
  PROVE  /\ WellPaired(Append(h, m))
         /\ Declared(Append(h, m)) = Declared(h) \cup (IF Declares(m) THEN m.calls ELSE {})
  <1> DEFINE g == Append(h, m)
             n == Len(h) + 1
  <1>1. /\ n \in Nat /\ Len(h) \in Nat /\ DOMAIN g = 1..n /\ DOMAIN h = 1..Len(h)
        /\ n \in 1..n /\ g[n] = m
        /\ \A i \in 1..Len(h) : g[i] = h[i]
    OBVIOUS
  <1>a. \A i \in DOMAIN g : i = n \/ i \in DOMAIN h
    BY <1>1
  <1>b. Len(h) = n - 1
    OBVIOUS
  <1> HIDE DEF g, n
  <1>2. Declared(g) = Declared(h) \cup (IF Declares(m) THEN m.calls ELSE {})
    <2>1. ASSUME NEW c
          PROVE  c \in Declared(g) <=> c \in Declared(h) \/ (Declares(m) /\ c \in m.calls)
      <3>1. c \in Declared(g) <=> \E i \in DOMAIN g : Declares(g[i]) /\ c \in g[i].calls
        BY DEF Declared
      <3>2. c \in Declared(h) <=> \E i \in DOMAIN h : Declares(h[i]) /\ c \in h[i].calls
        BY DEF Declared
      <3>3. ASSUME c \in Declared(g)
            PROVE  c \in Declared(h) \/ (Declares(m) /\ c \in m.calls)
        <4>1. PICK i \in DOMAIN g : Declares(g[i]) /\ c \in g[i].calls
          BY <3>1, <3>3
        <4>2. CASE i = n
          BY <1>1, <4>1, <4>2
        <4>3. CASE i \in DOMAIN h
          BY <1>1, <3>2, <4>1, <4>3
        <4> QED
          BY <1>a, <4>2, <4>3
      <3>4. ASSUME c \in Declared(h)
            PROVE  c \in Declared(g)
        <4>1. PICK i \in DOMAIN h : Declares(h[i]) /\ c \in h[i].calls
          BY <3>2, <3>4
        <4>2. i \in DOMAIN g /\ g[i] = h[i]
          BY <1>1, <1>b
        <4> QED
          BY <3>1, <4>1, <4>2
      <3>5. ASSUME Declares(m), c \in m.calls
            PROVE  c \in Declared(g)
        BY <1>1, <3>1, <3>5
      <3> QED
        BY <3>3, <3>4, <3>5
    <2> QED
      BY <2>1
  <1>3. \A i \in DOMAIN g : g[i].role = "tool" => \E c \in Calls : g[i] = Result(c)
    BY <1>1, <1>a DEF WellPaired
  <1>4. ASSUME NEW i \in DOMAIN g, NEW j \in DOMAIN g, g[i].role = "tool",
               Declares(g[j]), g[i].calls \subseteq g[j].calls
        PROVE  j < i /\ \A k \in (j + 1)..(i - 1) : g[k].role # "assistant"
    <2>1. CASE i \in DOMAIN h /\ j \in DOMAIN h
      <3>1. j < i /\ \A k \in (j + 1)..(i - 1) : h[k].role # "assistant"
        BY <1>1, <1>4, <2>1 DEF WellPaired
      <3>2. \A k \in (j + 1)..(i - 1) : k \in 1..Len(h)
        BY <1>1, <2>1
      <3> QED
        BY <1>1, <3>1, <3>2
    <2>2. CASE i = n /\ j \in DOMAIN h
      <3>1. PICK c \in Calls : m = Result(c) /\ LastSaid(h, c)
        BY <1>1, <1>4, <2>2
      <3>2. c \in h[j].calls /\ Declares(h[j])
        BY <1>1, <1>4, <2>2, <3>1 DEF Result
      <3>3. \A k \in (j + 1)..(i - 1) : h[k].role # "assistant" /\ k \in 1..Len(h)
        BY <1>1, <1>b, <2>2, <3>1, <3>2 DEF LastSaid
      <3>4. j < i
        BY <1>1, <1>b, <2>2
      <3> QED
        BY <1>1, <3>3, <3>4
    <2>3. CASE j = n
      <3>1. Declares(m) /\ i # n /\ i \in DOMAIN h
        BY <1>1, <1>4, <1>a, <2>3 DEF Declares
      <3>2. PICK c \in Calls : h[i] = Result(c)
        BY <1>1, <1>4, <3>1 DEF WellPaired
      <3>3. c \in Resulted(h)
        BY <1>1, <1>4, <3>1, <3>2 DEF Resulted, Result
      <3>4. c \in m.calls
        BY <1>1, <1>4, <2>3, <3>1, <3>2 DEF Result
      <3> QED
        BY <3>1, <3>3, <3>4
    <2> QED
      BY <1>a, <2>1, <2>2, <2>3
  <1> QED
    BY <1>2, <1>3, <1>4 DEF WellPaired, g

LEMMA AppendLastSaid ==
  ASSUME NEW h \in Seq(Messages), NEW m \in Messages, NEW c, LastSaid(h, c),
         m.role # "assistant" \/ c \notin Declared(h)
  PROVE  LastSaid(Append(h, m), c)
  <1> DEFINE g == Append(h, m)
             n == Len(h) + 1
  <1>1. /\ n \in Nat /\ Len(h) \in Nat /\ DOMAIN g = 1..n /\ DOMAIN h = 1..Len(h)
        /\ g[n] = m /\ Len(g) = n
        /\ \A i \in 1..Len(h) : g[i] = h[i]
    OBVIOUS
  <1>a. \A i \in 1..n : i = n \/ i \in 1..Len(h)
    BY <1>1
  <1> HIDE DEF g, n
  <1>2. ASSUME NEW j \in DOMAIN g, Declares(g[j]), c \in g[j].calls,
               NEW k \in (j + 1)..Len(g)
        PROVE  g[k].role # "assistant"
    <2>1. j \in 1..n /\ k \in 1..n /\ j < k
      BY <1>1, <1>2
    <2>2. j \in DOMAIN h
      BY <1>1, <1>a, <2>1
    <2>3. c \in Declared(h) /\ Declares(h[j]) /\ c \in h[j].calls
      BY <1>1, <1>2, <2>2 DEF Declared
    <2>4. CASE k = n
      BY <1>1, <2>3, <2>4
    <2>5. CASE k \in 1..Len(h)
      <3>1. k \in (j + 1)..Len(h)
        BY <1>1, <2>1, <2>5
      <3> QED
        BY <1>1, <2>2, <2>3, <2>5, <3>1 DEF LastSaid
    <2> QED
      BY <1>a, <2>1, <2>4, <2>5
  <1> QED
    BY <1>2 DEF LastSaid, g

\* A call that no history declares.
LEMMA UndeclaredLastSaid ==
  ASSUME NEW h, NEW c, c \notin Declared(h)
  PROVE  LastSaid(h, c)
  BY DEF LastSaid, Declared

LEMMA EmptyPaired == WellPaired(<<>>) /\ Declared(<<>>) = {}
  <1>1. DOMAIN <<>> = {}
    OBVIOUS
  <1> QED
    BY <1>1 DEF WellPaired, Declared

\* A step of a process, which saves its history or not.
LEMMA PairingKept ==
  ASSUME PairingInv, 1..Asked \subseteq 1..Asked', serial' = serial,
         WellPaired(history'), Declared(history') \subseteq 1..Asked',
         saved' = saved \/ saved' = Snapshot',
         \A c \in todo' \cup waiting' : LastSaid(history', c),
         serial => todo' \cap Declared(history') = {},
         serial /\ pc' = "declare" => waiting' = {}
  PROVE  PairingInv'
  <1>1. saved'.history = saved.history \/ saved'.history = history'
    BY DEF Snapshot
  <1> QED
    BY <1>1 DEF PairingInv

LEMMA PairingSame ==
  ASSUME PairingInv, UNCHANGED <<history, serial>>, Asked' = Asked,
         saved' = saved \/ saved' = Snapshot', todo' \subseteq todo, waiting' \subseteq waiting,
         pc' = "declare" => pc = "declare" \/ waiting' = {}
  PROVE  PairingInv'
  <1>1. WellPaired(history') /\ Declared(history') \subseteq 1..Asked'
    BY DEF PairingInv
  <1>2. \A c \in todo' \cup waiting' : LastSaid(history', c)
    BY DEF PairingInv
  <1>3. serial => todo' \cap Declared(history') = {}
    BY DEF PairingInv
  <1>4. serial /\ pc' = "declare" => waiting' = {}
    BY DEF PairingInv
  <1> QED
    BY <1>1, <1>2, <1>3, <1>4, PairingKept

LEMMA PairingGone ==
  ASSUME PairingInv, Gone, saved' \in {saved, Snapshot}, UNCHANGED kind
  PROVE  PairingInv'
  <1>1. /\ history' = <<>> /\ todo' = {} /\ waiting' = {} /\ serial' = FALSE
        /\ Asked' = Asked
    BY DEF Gone, Asked
  <1>2. saved'.history = saved.history \/ saved'.history = history
    BY DEF Snapshot
  <1> QED
    BY <1>1, <1>2, EmptyPaired DEF PairingInv

LEMMA InitPairingInv == SessionInit => PairingInv
  <1> SUFFICES ASSUME SessionInit
               PROVE  PairingInv
    OBVIOUS
  <1>1. history = <<>> /\ saved.history = <<>> /\ todo = {} /\ waiting = {} /\ serial = FALSE
    BY DEF SessionInit, NoFile
  <1> QED
    BY <1>1, EmptyPaired DEF PairingInv

LEMMA StartPairing ==
  ASSUME SessionInv, PairingInv, Start
  PROVE  PairingInv'
  <1>1. /\ pc = "off" /\ pc' = "prompt" /\ UNCHANGED <<history, todo, waiting, saved>>
        /\ Asked' = Asked
    BY DEF Start, worldVars, Asked
  <1>2. history = <<>> /\ todo = {} /\ waiting = {}
    BY <1>1 DEF SessionInv, ShapeInv, OffOK, RoundOK
  <1> QED
    BY <1>1, <1>2, EmptyPaired DEF PairingInv

\* The next process has the history of the file.
LEMMA ResumePairing ==
  ASSUME SessionInv, PairingInv, Resume
  PROVE  PairingInv'
  <1>1. /\ pc = "off" /\ pc' = "prompt" /\ history' = saved.history
        /\ UNCHANGED <<todo, waiting, saved>> /\ Asked' = Asked
    BY DEF Resume, worldVars, Asked
  <1>2. todo = {} /\ waiting = {}
    BY <1>1 DEF SessionInv, ShapeInv, RoundOK
  <1> QED
    BY <1>1, <1>2 DEF PairingInv

\* A word of the user or the model, where nothing is under way.
LEMMA AskPairing ==
  ASSUME SessionInv, PairingInv, Ask
  PROVE  PairingInv'
  <1>1. /\ pc = "prompt" /\ pc' = "stream" /\ history' = Append(history, User)
        /\ UNCHANGED <<serial, todo, waiting, saved>> /\ Asked' = Asked
    BY DEF Ask, worldVars, Asked
  <1>2. /\ todo = {} /\ waiting = {}
        /\ User.role = "user" /\ ~Declares(User) /\ User \in Messages
    BY <1>1, NewMessages DEF SessionInv, ShapeInv, RoundOK, User, Declares
  <1>3. WellPaired(history') /\ Declared(history') = Declared(history)
    BY <1>1, <1>2, RestoredPrefix, AppendPaired DEF SessionInv, PairingInv
  <1> QED
    BY <1>1, <1>2, <1>3, PairingKept DEF PairingInv

LEMMA AnswerPairing ==
  ASSUME SessionInv, PairingInv, Answer
  PROVE  PairingInv'
  <1> DEFINE m == Assistant({}, TRUE)
  <1>1. /\ pc' # "declare" /\ history' = Append(history, m)
        /\ todo' = {} /\ waiting' = {} /\ serial' = serial /\ Asked' = Asked
        /\ saved' = saved \/ saved' = Snapshot'
    BY TurnOver DEF Answer, Done, SaveOrFail, worldVars, Asked
  <1>2. m.role = "assistant" /\ ~Declares(m) /\ m \in Messages
    BY NewMessages DEF Assistant, Declares
  <1> HIDE DEF m
  <1>3. WellPaired(history') /\ Declared(history') = Declared(history)
    BY <1>1, <1>2, RestoredPrefix, AppendPaired DEF SessionInv, PairingInv
  <1> QED
    BY <1>1, <1>3, PairingKept DEF PairingInv

\* The calls asked for are new: what declares them declares nothing else that
\* is in the history, and only notes come after it.
LEMMA AskToolsPairing ==
  ASSUME SessionInv, PairingInv, AskTools
  PROVE  PairingInv'
  <1>1. PICK kinds \in UNION {[1..n -> {"write", "delegate"}] : n \in 0..2},
             notes \in {<<>>, <<User>>}, text \in BOOLEAN :
          LET new == {Asked + i : i \in DOMAIN kinds}
              turn == IF serial THEN Assistant({}, TRUE) ELSE Assistant(new, text)
          IN  /\ new \subseteq Calls
              /\ history' = Append(history, turn) \o notes
              /\ todo' = new
    BY DEF AskTools
  <1> DEFINE turn == IF serial THEN Assistant({}, TRUE) ELSE Assistant(todo', text)
             g == Append(history, turn)
  <1>2. history' = g \o notes /\ todo' \in SUBSET Calls
    BY <1>1
  <1>3. /\ pc = "stream" /\ Asked' \in Asked..MaxCalls /\ todo' = (Asked + 1)..Asked'
        /\ UNCHANGED <<serial, waiting, saved>>
    BY AskToolsFacts DEF SessionInv
  <1>4. /\ waiting = {} /\ Asked \in Nat /\ Asked' \in Nat /\ MaxCalls \in Nat
        /\ history \in Seq(Messages)
    BY <1>3, PendingCalls, RestoredPrefix, SessionConstants DEF SessionInv, ShapeInv, RoundOK
  <1>5. todo' \cap (1..Asked) = {} /\ 1..Asked \subseteq 1..Asked' /\ todo' \subseteq 1..Asked'
    BY <1>3, <1>4
  <1>6. /\ turn \in Messages /\ turn.role = "assistant"
        /\ turn.calls \subseteq todo' /\ (serial => ~Declares(turn))
    <2>1. CASE serial
      <3>1. turn = Assistant({}, TRUE)
        BY <2>1
      <3> QED
        BY <2>1, <3>1, NewMessages DEF Assistant, Declares
    <2>2. CASE ~serial
      <3>1. turn = Assistant(todo', text)
        BY <2>2
      <3>2. turn.role = "assistant" /\ turn.calls = todo'
        BY <3>1 DEF Assistant
      <3> QED
        BY <1>2, <2>2, <3>1, <3>2, NewMessages
    <2> QED
      BY <2>1, <2>2
  <1> HIDE DEF turn
  <1>7. turn.calls \cap Resulted(history) = {} /\ todo' \cap Declared(history) = {}
    BY <1>5, <1>6 DEF SessionInv, ShapeInv, FreshOK, Answered, PairingInv
  <1>8. /\ WellPaired(g) /\ g \in Seq(Messages)
        /\ Declared(g) = Declared(history) \cup (IF Declares(turn) THEN turn.calls ELSE {})
    <2>1. turn.role # "tool"
      BY <1>6
    <2> QED
      BY <1>4, <1>6, <1>7, <2>1, AppendPaired, AppendResults DEF PairingInv
  <1>9. \A c \in todo' : LastSaid(g, c)
    BY <1>4, <1>6, <1>7, UndeclaredLastSaid, AppendLastSaid
  <1>10. serial => todo' \cap Declared(g) = {}
    BY <1>6, <1>7, <1>8
  <1>11. Declared(g) \subseteq 1..Asked'
    BY <1>5, <1>6, <1>8 DEF PairingInv
  <1> HIDE DEF g
  <1>12. /\ WellPaired(history') /\ Declared(history') = Declared(g)
         /\ \A c \in todo' : LastSaid(history', c)
    <2>1. CASE notes = <<>>
      <3>1. history' = g
        BY <1>2, <1>8, <2>1
      <3> QED
        BY <1>8, <1>9, <3>1
    <2>2. CASE notes = <<User>>
      <3>1. User \in Messages /\ ~Declares(User) /\ User.role = "user"
        BY NewMessages DEF User, Declares
      <3>2. history' = Append(g, User)
        BY <1>2, <1>8, <2>2, <3>1
      <3>3. WellPaired(Append(g, User)) /\ Declared(Append(g, User)) = Declared(g)
        BY <1>8, <3>1, AppendPaired
      <3>4. \A c \in todo' : LastSaid(Append(g, User), c)
        BY <1>8, <1>9, <3>1, AppendLastSaid
      <3> QED
        BY <3>2, <3>3, <3>4
    <2> QED
      BY <2>1, <2>2
  <1> QED
    BY <1>3, <1>4, <1>5, <1>10, <1>11, <1>12, PairingKept

\* In a serial session each call is declared when its turn has come.
LEMMA DeclarePairing ==
  ASSUME SessionInv, PairingInv, Declare
  PROVE  PairingInv'
  <1>1. PICK c \in todo :
          /\ history' = IF serial THEN Append(history, Assistant({c}, FALSE)) ELSE history
          /\ Tell(/\ todo' = todo \ {c}
                  /\ waiting' = waiting \cup {c}
                  /\ pc' = IF serial \/ todo = {c} THEN "execute" ELSE "declare"
                  /\ UNCHANGED <<awaited, got>>, FALSE)
    BY DEF Declare
  <1>2. pc = "declare" /\ serial' = serial /\ Asked' = Asked
    BY DEF Declare, worldVars, Asked
  <1>3. /\ saved' = saved \/ saved' = Snapshot'
        /\ \/ /\ todo' = todo \ {c} /\ waiting' = waiting \cup {c}
              /\ serial => pc' = "execute"
           \/ /\ todo' = {} /\ waiting' = {} /\ pc' \in {"leaving", "prompt"}
    BY <1>1, TurnOver DEF Tell
  <1>4. c \in Calls /\ history \in Seq(Messages) /\ c \in 1..Asked /\ c \notin Resulted(history)
    <2>1. c \in 1..Asked /\ c \notin Resulted(history)
      BY DEF SessionInv, ShapeInv, CallsOK, FreshOK, Answered
    <2> QED
      BY <2>1, PendingCalls, RestoredPrefix DEF SessionInv
  <1>5. CASE serial
    <2> DEFINE m == Assistant({c}, FALSE)
    <2>1. /\ m \in Messages /\ m.role = "assistant" /\ Declares(m) /\ m.calls = {c}
      <3>1. {c} \in SUBSET Calls
        BY <1>4
      <3> QED
        BY <3>1, NewMessages DEF Assistant, Declares
    <2>2. history' = Append(history, m)
      BY <1>1, <1>5
    <2> HIDE DEF m
    <2>3. WellPaired(history') /\ Declared(history') = Declared(history) \cup {c}
      BY <1>4, <2>1, <2>2, AppendPaired DEF PairingInv
    <2>4. c \notin Declared(history) /\ waiting = {} /\ todo \cap Declared(history) = {}
      BY <1>2, <1>5 DEF PairingInv
    <2>5. \A d \in todo' \cup waiting' : LastSaid(history', d)
      <3>1. \A d \in todo' \cup waiting' : d \in todo
        BY <1>3, <2>4
      <3> QED
        BY <1>4, <2>1, <2>2, <2>4, <3>1, UndeclaredLastSaid, AppendLastSaid
    <2>6. todo' \cap Declared(history') = {} /\ Declared(history') \subseteq 1..Asked'
      BY <1>2, <1>3, <1>4, <2>3, <2>4 DEF PairingInv
    <2>7. pc' = "declare" => waiting' = {}
      BY <1>3, <1>5
    <2> QED
      BY <1>2, <1>3, <2>3, <2>5, <2>6, <2>7, PairingKept
  <1>6. CASE ~serial
    <2>1. history' = history /\ todo' \cup waiting' \subseteq todo \cup waiting
      BY <1>1, <1>3, <1>6
    <2> QED
      BY <1>2, <1>3, <1>6, <2>1, PairingKept DEF PairingInv
  <1> QED
    BY <1>5, <1>6

\* A result comes before the model says anything else.
LEMMA CollectPairing ==
  ASSUME SessionInv, PairingInv, NEW c \in Calls, Collect(c)
  PROVE  PairingInv'
  <1>1. /\ pc = "execute" /\ c \in waiting /\ history' = Append(history, Result(c))
        /\ serial' = serial /\ Asked' = Asked
    BY DEF Collect, worldVars, Asked, SessionInv, ShapeInv, CallsOK
  <1>2. /\ saved' = saved \/ saved' = Snapshot'
        /\ \/ /\ todo' = todo /\ waiting' = waiting \ {c}
              /\ pc' = "declare" => waiting' = {}
           \/ /\ todo' = {} /\ waiting' = {}
    BY TurnOver DEF Collect, Tell
  <1>3. /\ Result(c) \in Messages /\ ~Declares(Result(c)) /\ Result(c).role = "tool"
        /\ history \in Seq(Messages)
    BY NewMessages, RestoredPrefix DEF Result, Declares, SessionInv
  <1>4. LastSaid(history, c)
    BY <1>1 DEF PairingInv
  <1>5. WellPaired(history') /\ Declared(history') = Declared(history)
    BY <1>1, <1>3, <1>4, AppendPaired DEF PairingInv
  <1>6. \A d \in todo' \cup waiting' : LastSaid(history', d)
    <2>1. \A d \in todo' \cup waiting' : LastSaid(history, d)
      BY <1>2 DEF PairingInv
    <2> QED
      BY <1>1, <1>3, <2>1, AppendLastSaid
  <1> QED
    BY <1>1, <1>2, <1>5, <1>6, PairingKept DEF PairingInv

LEMMA StepPairingInv == SessionInv /\ PairingInv /\ [SessionNext]_sessionVars => PairingInv'
  <1> SUFFICES ASSUME SessionInv, PairingInv, [SessionNext]_sessionVars
               PROVE  PairingInv'
    OBVIOUS
  <1>1. CASE Start
    BY <1>1, StartPairing
  <1>2. CASE Resume
    BY <1>2, ResumePairing
  <1>3. CASE Ask
    BY <1>3, AskPairing
  <1>4. CASE Leave
    <2>1. Gone /\ saved' \in {saved, Snapshot} /\ UNCHANGED kind
      BY <1>4 DEF Leave, worldVars
    <2> QED
      BY <2>1, PairingGone
  <1>5. CASE TurnStep
    <2>1. CASE Answer \/ AskTools \/ Declare
      BY <2>1, AnswerPairing, AskToolsPairing, DeclarePairing
    <2>2. CASE TellNote
      <3>1. /\ UNCHANGED <<history, serial>> /\ Asked' = Asked
            /\ saved' = saved \/ saved' = Snapshot'
            /\ UNCHANGED <<todo, waiting>> \/ (todo' = {} /\ waiting' = {})
        BY <2>2, TurnOver DEF TellNote, Tell, worldVars, Asked
      <3>2. waiting = {}
        BY <2>2 DEF TellNote, SessionInv, ShapeInv, RoundOK
      <3> QED
        BY <3>1, <3>2, PairingSame
    <2>3. ASSUME NEW c \in Calls, Refuse(c) \/ Write(c) \/ Delegate(c) \/ Timeout(c)
          PROVE  PairingInv'
      <3>1. /\ UNCHANGED <<history, serial, todo, waiting, pc, kind>>
            /\ saved' = saved \/ saved' = Snapshot'
        BY <2>3 DEF Refuse, Write, Delegate, Execute, Timeout, worldVars
      <3>2. Asked' = Asked
        BY <3>1 DEF Asked
      <3> QED
        BY <3>1, <3>2, PairingSame
    <2>4. ASSUME NEW c \in Calls, Collect(c)
          PROVE  PairingInv'
      BY <2>4, CollectPairing
    <2> QED
      BY <1>5, <2>1, <2>2, <2>3, <2>4 DEF TurnStep
  <1>6. ASSUME NEW c \in Calls, Return(c) \/ ThreadEnds(c)
        PROVE  PairingInv'
    <2>1. UNCHANGED <<history, serial, todo, waiting, pc, kind, saved>>
      BY <1>6 DEF Return, ThreadEnds, processVars
    <2>2. Asked' = Asked
      BY <2>1 DEF Asked
    <2> QED
      BY <2>1, <2>2, PairingSame
  <1>7. CASE Interrupt
    <2>1. /\ UNCHANGED <<history, serial>> /\ Asked' = Asked
          /\ saved' = saved \/ saved' = Snapshot'
          /\ todo' = {} /\ waiting' = {}
      BY <1>7, TurnOver DEF Interrupt, SaveOrFail, Asked
    <2> QED
      BY <2>1, PairingSame
  <1>8. CASE Crash
    <2>1. Gone /\ saved' \in {saved, Snapshot} /\ UNCHANGED kind
      BY <1>8 DEF Crash
    <2> QED
      BY <2>1, PairingGone
  <1>9. CASE Edit \/ UNCHANGED sessionVars
    <2>1. UNCHANGED <<history, serial, todo, waiting, pc, kind, saved>>
      BY <1>9 DEF Edit, sessionVars, processVars, worldVars
    <2>2. Asked' = Asked
      BY <2>1 DEF Asked
    <2> QED
      BY <2>1, <2>2, PairingSame
  <1> QED
    BY <1>1, <1>2, <1>3, <1>4, <1>5, <1>6, <1>7, <1>8, <1>9 DEF SessionNext

-----------------------------------------------------------------------------
(* The theorems.                                                           *)

\* Every state of a conversation satisfies the inductive invariant: threads
\* are attempts somebody may still wait for, histories hold no call that is
\* under way, what a process knows accounts for every effect, and receipts
\* stand next to the results they belong to.
THEOREM SessionInvariant == SessionSpec => []SessionInv
  BY InitSessionInv, StepSessionInv, PTL DEF SessionSpec

\* The process, its file and the world have the shape of the code's, whatever
\* is interrupted, fails or is killed.
THEOREM SessionTypeCorrect == SessionSpec => []SessionTypeOK
  <1>1. SessionInv => SessionTypeOK
    BY ShapeIsType DEF SessionInv
  <1> QED
    BY <1>1, SessionInvariant, PTL

\* Of every call that a process with checkpoints began to execute, the file
\* has the result or says that it is unknown, through kills, failed saves,
\* timeouts and pauses (work_session.track_stream, restore_session).
THEOREM SessionEffectsAccounted == SessionSpec => []EffectsAccounted
  <1>1. SessionInv => EffectsAccounted
    BY DEF SessionInv, EffectsInv
  <1> QED
    BY <1>1, SessionInvariant, PTL

\* However many processes a conversation goes through and however often the
\* model asks for it, a delegation is launched under one namespace, which the
\* file has before the first launch.
THEOREM SessionOneIdentity == SessionSpec => []OneDelegationIdentity
  <1>1. SessionInv => OneDelegationIdentity
    <2> SUFFICES ASSUME SessionInv
                 PROVE  OneDelegationIdentity
      OBVIOUS
    <2>1. launched = {} \/ launched = {1}
      BY DEF SessionInv, NamespaceInv
    <2>2. Cardinality({}) = 0 /\ Cardinality({1}) = 1
      BY FS_EmptySet, FS_Singleton
    <2> QED
      BY <2>1, <2>2 DEF OneDelegationIdentity
  <1> QED
    BY <1>1, SessionInvariant, PTL

\* Whatever interrupted the turns before, wherever the history is cut and
\* whichever process goes on with it, the request pairs every call with its
\* results (_drop_orphan_tool_messages), so that the provider accepts it.
THEOREM SessionRequestPaired == SessionSpec => []RequestPaired
  <1>1. SessionInv /\ PairingInv => RequestPaired
    BY RestoredPrefix, SuffixPaired, RepairedIsPaired
    DEF SessionInv, PairingInv, RequestPaired, Request
  <1> QED
    BY <1>1, InitPairingInv, StepPairingInv, SessionInvariant, PTL DEF SessionSpec

\* A thread that a resumed saga waits for, or has given up, is not a write if
\* its history reports one as done: that process executes no write.
LEMMA WriterReportsNothing ==
  ASSUME SessionInv, NEW c \in Calls, kind[c] = "write", threads[c] # 0, mode = "task"
  PROVE  Reported = {}
  <1>1. c \in 1..Asked
    <2>1. ~(c > Asked)
      BY DEF SessionInv, ShapeInv, ThreadsOK
    <2> QED
      BY <2>1, PendingCalls DEF SessionInv, Calls
  <1> QED
    BY <1>1 DEF SessionInv, ReceiptsInv

\* A saga never overwrites what somebody changed while it rested by a write
\* that its history already reports as done: the receipts are saved together
\* with the results, and a process resumed with receipts refuses the write.
THEOREM SessionEditsKept == SessionSpec => EditsKept
  <1>1. ASSUME SessionInv, [SessionNext]_sessionVars, mode = "task", file = "edited",
               file' = "mine"
        PROVE  Reported = {}
    <2>1. PICK c \in Calls : Return(c) \/ ThreadEnds(c)
      BY <1>1
      DEF SessionNext, sessionVars, worldVars, Start, Resume, Ask, Leave, TurnStep, Answer,
          AskTools, TellNote, Declare, Refuse, Write, Delegate, Execute, Timeout, Collect,
          Interrupt, Crash, Edit
    <2>2. CASE Return(c)
      <3>1. c \in awaited
        BY <2>2 DEF Return
      <3>2. threads[c] \in 1..tries[c] /\ tries[c] \in 0..MaxTries
        BY <1>1, <3>1 DEF SessionInv, ShapeInv, ThreadsOK, WorldOK
      <3>3. threads[c] # 0
        BY <3>2, SessionConstants
      <3>4. kind[c] \in {"write", "delegate"}
        BY <1>1, <3>1 DEF SessionInv, ShapeInv, CallsOK, Asked
      <3>5. kind[c] = "write"
        BY <1>1, <2>2, <3>4 DEF Return
      <3> QED
        BY <1>1, <3>3, <3>5, WriterReportsNothing
    <2>3. CASE ThreadEnds(c)
      <3>1. kind[c] = "write" /\ threads[c] > IF c \in awaited THEN 1 ELSE 0
        BY <1>1, <2>3 DEF ThreadEnds
      <3>2. threads[c] # 0
        BY <1>1, <3>1 DEF SessionInv, ShapeInv, WorldOK
      <3> QED
        BY <1>1, <3>1, <3>2, WriterReportsNothing
    <2> QED
      BY <2>1, <2>2, <2>3
  <1> QED
    BY <1>1, SessionInvariant, PTL DEF EditsKept, SessionSpec
=============================================================================
