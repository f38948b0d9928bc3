--------------------------- MODULE OpsQueueProofs ---------------------------
(***************************************************************************)
(* Proofs about the work queue, for any number of workers, whatever they   *)
(* are called, and however often they die: a task is executed once or      *)
(* cancelled.                                                              *)
(***************************************************************************)
EXTENDS OpsQueue, FiniteSetTheorems, TLAPS

\* The table and the processes keep their shape.
QueueTypeOK ==
    /\ messages \in Seq(Messages) /\ Len(messages) <= MaxMessages
    /\ cardRole \in Roles
    /\ at \in [Workers -> {"idle", "claimed", "running", "ended", "dead"}]
    /\ task \in [Workers -> Nat]
    /\ exited \in [Workers -> BOOLEAN]
    /\ successes \in [Numbers -> Nat]
    /\ cancelling \subseteq Ids /\ cancelled \subseteq Ids

\* A process that is at work owns its message, under its name, and a process
\* that died has never given it back.
WorkOwned ==
    \A w \in Workers :
        /\ at[w] = "idle" => task[w] = 0
        /\ at[w] # "idle" => task[w] \in Ids /\ Owned(task[w], Name[w])
CancelOwned == \A id \in cancelling : Owned(id, Panel)

\* Names may be shared, messages are not.
Apart ==
    /\ \A v, w \in Workers : task[v] = task[w] /\ task[w] # 0 => v = w
    /\ \A w \in Workers : task[w] \notin cancelling

\* A message that somebody may claim, or that is claimed and was not executed
\* yet, has no outcome; a message that was cancelled is delivered and was
\* never executed.
NotExecuted(w) == at[w] \in {"claimed", "running"} \/ (at[w] = "ended" /\ ~exited[w])
Outcomes ==
    /\ \A id \in Numbers : id \in Ids => successes[id] <= 1
    /\ \A id \in Numbers : id \notin Ids => successes[id] = 0
    /\ \A id \in Ids : Free(id) => successes[id] = 0 /\ ~messages[id].delivered
    /\ \A id \in cancelled : messages[id].delivered /\ successes[id] = 0
    /\ \A id \in cancelling : successes[id] = 0
    /\ \A w \in Workers : NotExecuted(w) => successes[task[w]] = 0

QueueInv == QueueTypeOK /\ WorkOwned /\ CancelOwned /\ Apart /\ Outcomes

-----------------------------------------------------------------------------
(* The statements of the bus.                                              *)

\* The ids are numbers of the table.
LEMMA IdsAreNumbers ==
  ASSUME messages \in Seq(Messages), Len(messages) <= MaxMessages
  PROVE  Ids \subseteq Numbers /\ Ids = 1..Len(messages) /\ 0 \notin Ids
  BY BusConstants DEF Ids, Numbers

\* The oldest message that waits is one that waits.
LEMMA OldestWaits ==
  ASSUME messages \in Seq(Messages), NEW role, Waiting(role) # {}
  PROVE  Min(Waiting(role)) \in Waiting(role)
  <1> DEFINE W == Waiting(role)
  <1>1. W \subseteq Nat /\ W # {}
    BY DEF Waiting, Ids
  <1> HIDE DEF W
  <1>2. PICK x \in W : \A y \in W : <<y, x>> \notin OpToRel(<, Nat)
    BY <1>1, NatLessThanWellFounded, WFMin, Zenon
  <1>3. ASSUME NEW y \in W
        PROVE  x <= y
    <2>1. x \in Nat /\ y \in Nat /\ <<y, x>> \in Nat \X Nat
      BY <1>1
    <2>2. <<y, x>>[1] = y /\ <<y, x>>[2] = x
      OBVIOUS
    <2>3. y < x => <<y, x>>[1] < <<y, x>>[2]
      BY <2>2
    <2>4. ~(y < x)
      BY <1>2, <2>1, <2>3, Zenon DEF OpToRel
    <2> QED
      BY <2>1, <2>4
  <1> QED
    BY <1>2, <1>3 DEF Min, W

\* A row is added to the table, which nobody has claimed, or nothing is done.
Grown ==
    /\ messages' \in Seq(Messages) /\ Len(messages') <= MaxMessages
    /\ Ids \subseteq Ids'
    /\ \A id \in Ids : messages'[id] = messages[id]
    /\ \A id \in Ids' \ Ids : messages'[id].claimed_by = NoClaimer
                              /\ messages'[id].delivered = FALSE

LEMMA PublishGrows ==
  ASSUME messages \in Seq(Messages), Len(messages) <= MaxMessages,
         NEW role \in Roles, NEW t \in BOOLEAN, Publish(role, t)
  PROVE  Grown
  <1> DEFINE row == [role |-> role, task |-> t, claimed_by |-> NoClaimer,
                     delivered |-> FALSE]
  <1>1. row \in Messages
    BY DEF Messages
  <1>2. messages' = Append(messages, row) /\ Len(messages) < MaxMessages
    BY DEF Publish
  <1>3. row.claimed_by = NoClaimer /\ row.delivered = FALSE
    OBVIOUS
  <1> HIDE DEF row
  <1>4. /\ messages' \in Seq(Messages) /\ Len(messages') = Len(messages) + 1
        /\ \A i \in 1..Len(messages) : messages'[i] = messages[i]
        /\ messages'[Len(messages) + 1] = row
    BY <1>1, <1>2
  <1>5. Ids = 1..Len(messages) /\ Ids' = 1..(Len(messages) + 1)
    BY <1>4 DEF Ids
  <1>6. Len(messages) \in Nat /\ MaxMessages \in Nat
    BY BusConstants
  <1> QED
    BY <1>2, <1>3, <1>4, <1>5, <1>6 DEF Grown

LEMMA NothingGrows ==
  ASSUME messages \in Seq(Messages), Len(messages) <= MaxMessages, messages' = messages
  PROVE  Grown
  BY DEF Grown, Ids

\* One row is written.
Written(id, row) ==
    /\ messages' \in Seq(Messages) /\ Len(messages') = Len(messages)
    /\ Ids' = Ids
    /\ messages'[id] = row
    /\ \A j \in Ids : j # id => messages'[j] = messages[j]

LEMMA RowWrites ==
  ASSUME messages \in Seq(Messages), NEW id \in Ids, NEW row \in Messages,
         messages' = [messages EXCEPT ![id] = row]
  PROVE  Written(id, row)
  <1>1. Len(messages) \in Nat /\ Ids = 1..Len(messages)
    BY DEF Ids
  <1>2. messages' \in Seq(Messages) /\ Len(messages') = Len(messages)
    BY <1>1
  <1> QED
    BY <1>1, <1>2 DEF Written, Ids

LEMMA ClaimWrites ==
  ASSUME messages \in Seq(Messages), NEW id \in Ids,
         NEW name \in Claimers \cup {NoClaimer},
         messages' = [messages EXCEPT ![id].claimed_by = name]
  PROVE  Written(id, [messages[id] EXCEPT !.claimed_by = name])
  <1>1. messages[id] \in Messages
    BY DEF Ids
  <1>2. [messages[id] EXCEPT !.claimed_by = name] \in Messages
    BY <1>1 DEF Messages
  <1> QED
    BY <1>2, RowWrites

LEMMA AckWrites ==
  ASSUME messages \in Seq(Messages), NEW id \in Ids,
         messages' = [messages EXCEPT ![id].delivered = TRUE]
  PROVE  Written(id, [messages[id] EXCEPT !.delivered = TRUE])
  <1>1. messages[id] \in Messages
    BY DEF Ids
  <1>2. [messages[id] EXCEPT !.delivered = TRUE] \in Messages
    BY <1>1 DEF Messages
  <1> QED
    BY <1>2, RowWrites

-----------------------------------------------------------------------------
(* The invariant.                                                          *)

LEMMA InitQueueInv == QueueInit => QueueInv
  <1> SUFFICES ASSUME QueueInit
               PROVE  QueueInv
    OBVIOUS
  <1>1. messages = <<>> /\ Ids = {}
    BY DEF QueueInit, BusInit, Ids
  <1>2. messages \in Seq(Messages) /\ Len(messages) <= MaxMessages
    BY <1>1, BusConstants
  <1> QED
    BY <1>1, <1>2, QueueConstants
    DEF QueueInit, QueueInv, QueueTypeOK, WorkOwned, CancelOwned, Apart, Outcomes,
        NotExecuted

\* The shape of the table and of what the processes have of it.
LEMMA InvFacts ==
  ASSUME QueueInv
  PROVE  /\ messages \in Seq(Messages) /\ Len(messages) <= MaxMessages
         /\ Ids \subseteq Numbers /\ 0 \notin Ids
         /\ \A id \in Ids : messages[id] \in Messages
         /\ \A w \in Workers : Name[w] \in Claimers /\ Name[w] # NoClaimer
         /\ Panel \in Claimers /\ Panel # NoClaimer
  BY IdsAreNumbers, BusConstants, QueueConstants DEF QueueInv, QueueTypeOK, Ids

\* What is at work goes on with its message, and may have executed it now.
Progress(w) ==
    /\ at[w] = "idle" <=> at'[w] = "idle"
    /\ NotExecuted(w)' => NotExecuted(w)
Executed(w) ==
    /\ NotExecuted(w) /\ ~NotExecuted(w)' /\ at[w] # "idle"
    /\ successes' = [successes EXCEPT ![task[w]] = @ + 1]

LEMMA ProgressKeepsInv ==
  ASSUME QueueInv, Grown, \A w \in Workers : Progress(w),
         at' \in [Workers -> {"idle", "claimed", "running", "ended", "dead"}],
         exited' \in [Workers -> BOOLEAN],
         successes' = successes \/ \E w \in Workers : Executed(w),
         UNCHANGED <<cardRole, task, cancelling, cancelled>>
  PROVE  QueueInv'
  <1>1. /\ Ids \subseteq Numbers /\ Ids' \subseteq Numbers /\ 0 \notin Ids'
    BY InvFacts, BusConstants DEF Grown, Ids, Numbers
  <1>2. Numbers' = Numbers
    BY DEF Numbers
  <1>3. \A w \in Workers : at[w] # "idle" => task[w] \in Ids /\ task[w] # 0
    BY InvFacts DEF QueueInv, WorkOwned
  <1>4. QueueTypeOK'
    <2>1. ASSUME NEW w \in Workers, Executed(w)
          PROVE  successes' \in [Numbers -> Nat]
      <3>1. task[w] \in Numbers /\ successes \in [Numbers -> Nat]
        BY <1>1, <1>3, <2>1 DEF QueueInv, QueueTypeOK, Executed
      <3> QED
        BY <2>1, <3>1 DEF Executed
    <2>2. successes' \in [Numbers -> Nat]
      BY <2>1 DEF QueueInv, QueueTypeOK
    <2> QED
      BY <1>1, <1>2, <2>2 DEF QueueInv, QueueTypeOK, Grown
  <1>5. \A id \in Ids, n \in Claimers : Owned(id, n) => Owned(id, n)'
    BY DEF Grown, Owned
  <1>6. \A id \in Ids : Free(id)' => Free(id)
    BY DEF Grown, Free
  <1>7. WorkOwned' /\ CancelOwned' /\ Apart'
    BY <1>5, InvFacts
    DEF QueueInv, QueueTypeOK, WorkOwned, CancelOwned, Apart, Grown, Progress
  <1>8. CASE successes' = successes
    <2>1. \A id \in Ids' : Free(id)' => successes'[id] = 0 /\ ~messages'[id].delivered
      BY <1>1, <1>6, <1>8 DEF QueueInv, Outcomes, Grown
    <2>2. /\ \A id \in Numbers : id \in Ids' => successes'[id] <= 1
          /\ \A id \in Numbers : id \notin Ids' => successes'[id] = 0
      BY <1>1, <1>8 DEF QueueInv, Outcomes, Grown
    <2>3. /\ \A id \in cancelled' : messages'[id].delivered /\ successes'[id] = 0
          /\ \A id \in cancelling' : successes'[id] = 0
      BY <1>8 DEF QueueInv, QueueTypeOK, Outcomes, Grown
    <2>4. \A w \in Workers : NotExecuted(w)' => successes'[task'[w]] = 0
      BY <1>8 DEF QueueInv, Outcomes, Progress
    <2>5. Outcomes'
      BY <1>2, <2>1, <2>2, <2>3, <2>4 DEF Outcomes
    <2> QED
      BY <1>4, <1>7, <2>5 DEF QueueInv
  <1>9. ASSUME NEW w \in Workers, Executed(w)
        PROVE  QueueInv'
    <2>1. /\ task[w] \in Ids /\ Owned(task[w], Name[w]) /\ successes[task[w]] = 0
          /\ task[w] \notin cancelling /\ task[w] \notin cancelled
          /\ ~Free(task[w])
      BY <1>3, <1>9, InvFacts
      DEF QueueInv, WorkOwned, Apart, Outcomes, Executed, Owned, Free
    <2>2. /\ successes'[task[w]] = 1
          /\ \A id \in Numbers : id # task[w] => successes'[id] = successes[id]
      BY <1>1, <1>9, <2>1 DEF QueueInv, QueueTypeOK, Executed
    <2>3. \A v \in Workers : NotExecuted(v)' => v # w /\ task[v] # task[w] /\ task[v] \in Ids
      BY <1>3, <1>9 DEF QueueInv, Apart, Executed, Progress, NotExecuted
    <2>4. \A v \in Workers : NotExecuted(v)' => successes'[task'[v]] = 0
      BY <1>1, <2>2, <2>3 DEF QueueInv, Outcomes, Progress
    <2>5. Outcomes'
      <3>1. \A id \in Numbers : id \in Ids' => successes'[id] <= 1
        BY <1>1, <2>2 DEF QueueInv, QueueTypeOK, Outcomes
      <3>2. \A id \in Numbers : id \notin Ids' => successes'[id] = 0
        BY <1>1, <2>1, <2>2 DEF QueueInv, Outcomes, Grown
      <3>3. \A id \in Ids' : Free(id)' => successes'[id] = 0 /\ ~messages'[id].delivered
        BY <1>1, <1>6, <2>1, <2>2 DEF QueueInv, Outcomes, Grown, Free
      <3>4. \A id \in cancelled' : messages'[id].delivered /\ successes'[id] = 0
        BY <1>1, <2>1, <2>2 DEF QueueInv, QueueTypeOK, Outcomes, Grown
      <3>5. \A id \in cancelling' : successes'[id] = 0
        BY <1>1, <2>1, <2>2 DEF QueueInv, QueueTypeOK, Outcomes
      <3> QED
        BY <1>2, <2>4, <3>1, <3>2, <3>3, <3>4, <3>5 DEF Outcomes
    <2> QED
      BY <1>4, <1>7, <2>5 DEF QueueInv
  <1> QED
    BY <1>8, <1>9

\* A worker returns to the queue, and its message is left as it is, given
\* back if it was not executed, or delivered.
Settles(id, unexecuted) ==
    \/ messages' = messages
    \/ unexecuted /\ Written(id, [messages[id] EXCEPT !.claimed_by = NoClaimer])
    \/ Written(id, [messages[id] EXCEPT !.delivered = TRUE])

\* The other rows are undisturbed, and the one that settles can be claimed only
\* if it has no outcome.
LEMMA SettleRows ==
  ASSUME QueueInv, NEW id \in Ids, NEW unexecuted \in BOOLEAN,
         ~Free(id), ~messages[id].delivered, Settles(id, unexecuted)
  PROVE  /\ messages' \in Seq(Messages) /\ Len(messages') = Len(messages) /\ Ids' = Ids
         /\ \A j \in Ids : j # id => messages'[j] = messages[j]
         /\ Free(id)' => unexecuted /\ ~messages'[id].delivered
  <1>1. messages[id] \in Messages
    BY InvFacts
  <1>3. CASE messages' = messages
    BY <1>3 DEF QueueInv, QueueTypeOK, Ids, Free
  <1>4. CASE unexecuted /\ Written(id, [messages[id] EXCEPT !.claimed_by = NoClaimer])
    BY <1>1, <1>4 DEF Written, Messages, Free
  <1>5. CASE Written(id, [messages[id] EXCEPT !.delivered = TRUE])
    BY <1>1, <1>5 DEF Written, Messages, Free
  <1> QED
    BY <1>3, <1>4, <1>5 DEF Settles

LEMMA ReturnKeepsInv ==
  ASSUME QueueInv, NEW w \in Workers, at[w] # "idle", Return(w),
         Settles(task[w], NotExecuted(w)),
         UNCHANGED <<cardRole, cancelling, successes, cancelled>>
  PROVE  QueueInv'
  <1> PICK id \in Ids : id = task[w]
    BY DEF QueueInv, WorkOwned
  <1>1. /\ id \in Ids /\ Owned(id, Name[w]) /\ id \notin cancelling /\ id # 0
        /\ ~Free(id) /\ ~messages[id].delivered /\ id \notin cancelled
        /\ NotExecuted(w) => successes[id] = 0
    BY InvFacts DEF QueueInv, WorkOwned, Apart, Outcomes, Owned, Free
  <1>2. NotExecuted(w) \in BOOLEAN
    BY DEF NotExecuted
  <1>3. /\ messages' \in Seq(Messages) /\ Len(messages') = Len(messages) /\ Ids' = Ids
        /\ \A j \in Ids : j # id => messages'[j] = messages[j]
        /\ Free(id)' => NotExecuted(w) /\ ~messages'[id].delivered
    BY <1>1, <1>2, SettleRows
  <1>4. /\ at' \in [Workers -> {"idle", "claimed", "running", "ended", "dead"}]
        /\ task' \in [Workers -> Nat] /\ exited' \in [Workers -> BOOLEAN]
        /\ at'[w] = "idle" /\ task'[w] = 0
        /\ \A v \in Workers : v # w => /\ at'[v] = at[v] /\ task'[v] = task[v]
                                       /\ exited'[v] = exited[v]
    BY DEF Return, QueueInv, QueueTypeOK
  <1>5. \A v \in Workers : v # w /\ at[v] # "idle" => task[v] \in Ids /\ task[v] # id
    BY <1>1 DEF QueueInv, WorkOwned, Apart
  <1>6. Numbers' = Numbers
    BY DEF Numbers
  <1>7. QueueTypeOK'
    BY <1>3, <1>4, <1>6 DEF QueueInv, QueueTypeOK
  <1>8. WorkOwned'
    BY <1>3, <1>4, <1>5 DEF QueueInv, WorkOwned, Owned
  <1>9. CancelOwned'
    BY <1>1, <1>3 DEF QueueInv, QueueTypeOK, CancelOwned, Owned
  <1>10. Apart'
    BY <1>4, InvFacts DEF QueueInv, QueueTypeOK, Apart
  <1>11. Outcomes'
    <2>1. \A j \in Ids' : Free(j)' => successes'[j] = 0 /\ ~messages'[j].delivered
      BY <1>1, <1>3 DEF QueueInv, Outcomes, Free
    <2>2. \A j \in cancelled' : messages'[j].delivered /\ successes'[j] = 0
      BY <1>1, <1>3 DEF QueueInv, QueueTypeOK, Outcomes
    <2>3. \A v \in Workers : NotExecuted(v)' => successes'[task'[v]] = 0
      BY <1>4 DEF QueueInv, Outcomes, NotExecuted
    <2> QED
      BY <1>3, <1>6, <2>1, <2>2, <2>3 DEF QueueInv, Outcomes
  <1> QED
    BY <1>7, <1>8, <1>9, <1>10, <1>11 DEF QueueInv

-----------------------------------------------------------------------------
(* The operations.                                                         *)

\* Add, and what begins and ends an agent.
LEMMA AddKeepsInv == QueueInv /\ Add => QueueInv'
  <1> SUFFICES ASSUME QueueInv, Add
               PROVE  QueueInv'
    OBVIOUS
  <1>1. Grown
    BY QueueConstants, PublishGrows, InvFacts DEF Add
  <1>2. \A w \in Workers : Progress(w)
    BY DEF Add, work, Progress, NotExecuted
  <1> QED
    BY <1>1, <1>2, ProgressKeepsInv DEF Add, work, results, QueueInv, QueueTypeOK

LEMMA AnnounceGrows ==
  ASSUME QueueInv, NEW t \in BOOLEAN, Announce(t)
  PROVE  Grown
  BY InvFacts, PublishGrows, NothingGrows DEF Announce, QueueInv, QueueTypeOK

LEMMA BeginKeepsInv ==
  ASSUME QueueInv, NEW w \in Workers, Begin(w)
  PROVE  QueueInv'
  <1>1. Grown
    BY AnnounceGrows DEF Begin
  <1>2. /\ at' \in [Workers -> {"idle", "claimed", "running", "ended", "dead"}]
        /\ at[w] = "claimed" /\ at'[w] = "running"
        /\ \A v \in Workers : v # w => at'[v] = at[v]
    BY DEF Begin, QueueInv, QueueTypeOK
  <1>3. \A v \in Workers : Progress(v)
    BY <1>2 DEF Begin, Progress, NotExecuted
  <1> QED
    BY <1>1, <1>2, <1>3, ProgressKeepsInv DEF Begin, results, QueueInv, QueueTypeOK

LEMMA EndKeepsInv ==
  ASSUME QueueInv, NEW w \in Workers, End(w)
  PROVE  QueueInv'
  <1>1. Grown
    BY AnnounceGrows DEF End
  <1>2. /\ at' \in [Workers -> {"idle", "claimed", "running", "ended", "dead"}]
        /\ at[w] = "running" /\ at'[w] = "ended"
        /\ \A v \in Workers : v # w => at'[v] = at[v]
    BY DEF End, QueueInv, QueueTypeOK
  <1>3. UNCHANGED <<cardRole, task, cancelling, cancelled>>
    BY DEF End
  <1>4. CASE /\ exited' = [exited EXCEPT ![w] = TRUE]
             /\ successes' = [successes EXCEPT ![task[w]] = @ + 1]
    <2>1. /\ exited' \in [Workers -> BOOLEAN] /\ exited'[w] = TRUE
          /\ \A v \in Workers : v # w => exited'[v] = exited[v]
      BY <1>4 DEF QueueInv, QueueTypeOK
    <2>2. \A v \in Workers : Progress(v)
      BY <1>2, <2>1 DEF Progress, NotExecuted
    <2>3. Executed(w)
      BY <1>2, <1>4, <2>1 DEF Executed, NotExecuted
    <2> QED
      BY <1>1, <1>2, <1>3, <2>1, <2>2, <2>3, ProgressKeepsInv
  <1>5. CASE UNCHANGED <<exited, successes>>
    <2>1. \A v \in Workers : Progress(v)
      BY <1>2, <1>5 DEF Progress, NotExecuted
    <2> QED
      BY <1>1, <1>2, <1>3, <1>5, <2>1, ProgressKeepsInv DEF QueueInv, QueueTypeOK
  <1> QED
    BY <1>4, <1>5 DEF End

\* A death leaves the message as it is, executed or not.
LEMMA DieKeepsInv ==
  ASSUME QueueInv, NEW w \in Workers, Die(w)
  PROVE  QueueInv'
  <1>1. Grown
    BY NothingGrows DEF Die, QueueInv, QueueTypeOK
  <1>2. /\ at' \in [Workers -> {"idle", "claimed", "running", "ended", "dead"}]
        /\ at[w] # "idle" /\ at'[w] = "dead"
        /\ \A v \in Workers : v # w => at'[v] = at[v]
    BY DEF Die, QueueInv, QueueTypeOK
  <1>3. UNCHANGED <<cardRole, task, exited, cancelling, cancelled>>
    BY DEF Die
  <1>4. \A v \in Workers : Progress(v)
    BY <1>2, <1>3 DEF Progress, NotExecuted
  <1>5. successes' = successes \/ Executed(w)
    <2>1. CASE at[w] = "running"
      BY <1>2, <2>1 DEF Die, Executed, NotExecuted
    <2>2. CASE at[w] # "running"
      BY <2>2 DEF Die
    <2> QED
      BY <2>1, <2>2
  <1>6. exited' \in [Workers -> BOOLEAN]
    BY <1>3 DEF QueueInv, QueueTypeOK
  <1> QED
    BY <1>1, <1>2, <1>3, <1>4, <1>5, <1>6, ProgressKeepsInv

\* A message is released or delivered by the name that owns it.
LEMMA RejectKeepsInv ==
  ASSUME QueueInv, NEW w \in Workers, Reject(w)
  PROVE  QueueInv'
  <1>1. task[w] \in Ids /\ at[w] = "claimed" /\ Owned(task[w], Name[w])
    BY DEF Reject, QueueInv, WorkOwned
  <1>2. messages' = [messages EXCEPT ![task[w]].claimed_by = NoClaimer]
    BY <1>1 DEF Reject, Release
  <1>3. Settles(task[w], NotExecuted(w))
    BY <1>1, <1>2, ClaimWrites, InvFacts DEF Settles, NotExecuted
  <1> QED
    BY <1>1, <1>3, ReturnKeepsInv DEF Reject, results

LEMMA FinishKeepsInv ==
  ASSUME QueueInv, NEW w \in Workers, Finish(w)
  PROVE  QueueInv'
  <1>1. task[w] \in Ids /\ at[w] = "ended" /\ Owned(task[w], Name[w])
    BY DEF Finish, QueueInv, WorkOwned
  <1>2. Settles(task[w], NotExecuted(w))
    <2>1. CASE exited[w]
      <3>1. messages' = [messages EXCEPT ![task[w]].delivered = TRUE]
        BY <1>1, <2>1 DEF Finish, Ack
      <3> QED
        BY <1>1, <3>1, AckWrites, InvFacts DEF Settles
    <2>2. CASE ~exited[w]
      <3>1. messages' = [messages EXCEPT ![task[w]].claimed_by = NoClaimer]
        BY <1>1, <2>2 DEF Finish, Release
      <3> QED
        BY <1>1, <2>2, <3>1, ClaimWrites, InvFacts DEF Settles, NotExecuted
    <2> QED
      BY <2>1, <2>2
  <1> QED
    BY <1>1, <1>2, ReturnKeepsInv DEF Finish, results

LEMMA RestartKeepsInv ==
  ASSUME QueueInv, NEW w \in Workers, Restart(w)
  PROVE  QueueInv'
  BY ReturnKeepsInv DEF Restart, Settles, results
\* A message that nobody owns gets an owner, and nothing else is disturbed.
LEMMA ClaimRows ==
  ASSUME QueueInv, NEW id \in Ids, Free(id), NEW name \in Claimers,
         messages' = [messages EXCEPT ![id].claimed_by = name]
  PROVE  /\ messages' \in Seq(Messages) /\ Len(messages') = Len(messages) /\ Ids' = Ids
         /\ \A j \in Ids : j # id => messages'[j] = messages[j]
         /\ messages'[id].delivered = messages[id].delivered
         /\ messages'[id].claimed_by = name /\ name # NoClaimer
         /\ ~messages[id].delivered /\ successes[id] = 0
         /\ \A w \in Workers : task[w] # id
         /\ id \notin cancelling /\ id \notin cancelled
  <1>1. messages[id] \in Messages /\ name # NoClaimer
    BY InvFacts, BusConstants
  <1>2. Written(id, [messages[id] EXCEPT !.claimed_by = name])
    BY ClaimWrites, InvFacts
  <1>3. ~messages[id].delivered /\ successes[id] = 0 /\ id \notin cancelled
    BY DEF QueueInv, Outcomes
  <1>4. \A w \in Workers : task[w] # id
    BY InvFacts DEF QueueInv, WorkOwned, Owned, Free
  <1>5. id \notin cancelling
    BY InvFacts DEF QueueInv, CancelOwned, Owned, Free
  <1> QED
    BY <1>1, <1>2, <1>3, <1>4, <1>5 DEF Written, Messages

LEMMA ClaimKeepsInv ==
  ASSUME QueueInv, NEW w \in Workers, Claim(w)
  PROVE  QueueInv'
  <1>1. PICK id \in Ids : ClaimAny(Role, Name[w], id) /\ task' = [task EXCEPT ![w] = id]
    BY DEF Claim
  <1>2. Free(id) /\ messages' = [messages EXCEPT ![id].claimed_by = Name[w]]
    <2>1. id \in Waiting(Role)
      BY <1>1, OldestWaits, InvFacts DEF ClaimAny
    <2> QED
      BY <1>1, <2>1 DEF ClaimAny, Waiting
  <1>3. /\ messages' \in Seq(Messages) /\ Len(messages') = Len(messages) /\ Ids' = Ids
        /\ \A j \in Ids : j # id => messages'[j] = messages[j]
        /\ messages'[id].delivered = messages[id].delivered
        /\ messages'[id].claimed_by = Name[w] /\ Name[w] # NoClaimer
        /\ ~messages[id].delivered /\ successes[id] = 0
        /\ \A v \in Workers : task[v] # id
        /\ id \notin cancelling /\ id \notin cancelled
    BY <1>2, ClaimRows, InvFacts
  <1>4. /\ at' \in [Workers -> {"idle", "claimed", "running", "ended", "dead"}]
        /\ task' \in [Workers -> Nat]
        /\ at'[w] = "claimed" /\ task'[w] = id
        /\ \A v \in Workers : v # w => at'[v] = at[v] /\ task'[v] = task[v]
    <2>1. id \in Nat
      BY InvFacts DEF Numbers
    <2> QED
      BY <1>1, <2>1 DEF Claim, QueueInv, QueueTypeOK
  <1>5. UNCHANGED <<cardRole, exited, cancelling, successes, cancelled>> /\ Numbers' = Numbers
    BY DEF Claim, results, Numbers
  <1>6. QueueTypeOK'
    BY <1>3, <1>4, <1>5 DEF QueueInv, QueueTypeOK
  <1>7. WorkOwned'
    BY <1>3, <1>4 DEF QueueInv, WorkOwned, Owned
  <1>8. CancelOwned'
    BY <1>3, <1>5 DEF QueueInv, QueueTypeOK, CancelOwned, Owned
  <1>9. Apart'
    BY <1>3, <1>4, <1>5 DEF QueueInv, Apart
  <1>10. Outcomes'
    <2>1. \A j \in Ids' : Free(j)' => successes'[j] = 0 /\ ~messages'[j].delivered
      BY <1>3, <1>5 DEF QueueInv, Outcomes, Free
    <2>2. \A j \in cancelled' : messages'[j].delivered /\ successes'[j] = 0
      BY <1>3, <1>5 DEF QueueInv, QueueTypeOK, Outcomes
    <2>3. \A v \in Workers : NotExecuted(v)' => successes'[task'[v]] = 0
      BY <1>3, <1>4, <1>5 DEF QueueInv, Outcomes, NotExecuted
    <2> QED
      BY <1>3, <1>5, <2>1, <2>2, <2>3 DEF QueueInv, Outcomes
  <1> QED
    BY <1>6, <1>7, <1>8, <1>9, <1>10 DEF QueueInv

LEMMA CancelClaimKeepsInv ==
  ASSUME QueueInv, NEW id \in Ids, CancelClaim(id)
  PROVE  QueueInv'
  <1>1. Free(id) /\ messages' = [messages EXCEPT ![id].claimed_by = Panel]
    BY DEF CancelClaim, ClaimById
  <1>2. /\ messages' \in Seq(Messages) /\ Len(messages') = Len(messages) /\ Ids' = Ids
        /\ \A j \in Ids : j # id => messages'[j] = messages[j]
        /\ messages'[id].delivered = messages[id].delivered
        /\ messages'[id].claimed_by = Panel /\ Panel # NoClaimer
        /\ ~messages[id].delivered /\ successes[id] = 0
        /\ \A v \in Workers : task[v] # id
        /\ id \notin cancelling /\ id \notin cancelled
    BY <1>1, ClaimRows, QueueConstants
  <1>3. /\ UNCHANGED <<cardRole, at, task, exited, successes, cancelled>>
        /\ cancelling' = cancelling \cup {id} /\ Numbers' = Numbers
    BY DEF CancelClaim, work, results, Numbers
  <1>4. QueueTypeOK'
    BY <1>2, <1>3 DEF QueueInv, QueueTypeOK
  <1>5. WorkOwned'
    BY <1>2, <1>3 DEF QueueInv, WorkOwned, Owned
  <1>6. CancelOwned'
    BY <1>2, <1>3 DEF QueueInv, QueueTypeOK, CancelOwned, Owned
  <1>7. Apart'
    BY <1>2, <1>3 DEF QueueInv, Apart
  <1>8. Outcomes'
    <2>1. \A j \in Ids' : Free(j)' => successes'[j] = 0 /\ ~messages'[j].delivered
      BY <1>2, <1>3 DEF QueueInv, Outcomes, Free
    <2>2. \A j \in cancelled' : messages'[j].delivered /\ successes'[j] = 0
      BY <1>2, <1>3 DEF QueueInv, QueueTypeOK, Outcomes
    <2>3. \A v \in Workers : NotExecuted(v)' => successes'[task'[v]] = 0
      BY <1>3 DEF QueueInv, Outcomes, NotExecuted
    <2> QED
      BY <1>2, <1>3, <2>1, <2>2, <2>3 DEF QueueInv, Outcomes
  <1> QED
    BY <1>4, <1>5, <1>6, <1>7, <1>8 DEF QueueInv

\* What a cancellation has claimed is its own until it delivers it.
LEMMA CancelAckKeepsInv ==
  ASSUME QueueInv, NEW id \in Ids, CancelAck(id)
  PROVE  QueueInv'
  <1>1. /\ id \in cancelling /\ Owned(id, Panel) /\ successes[id] = 0
        /\ ~Free(id) /\ \A w \in Workers : task[w] # id
    BY InvFacts DEF CancelAck, QueueInv, CancelOwned, Outcomes, Apart, Owned, Free
  <1>2. messages' = [messages EXCEPT ![id].delivered = TRUE]
    BY <1>1 DEF CancelAck, Ack
  <1>3. /\ messages' \in Seq(Messages) /\ Len(messages') = Len(messages) /\ Ids' = Ids
        /\ \A j \in Ids : j # id => messages'[j] = messages[j]
        /\ messages'[id].delivered = TRUE /\ ~Free(id)'
    <2>1. Written(id, [messages[id] EXCEPT !.delivered = TRUE])
      BY <1>2, AckWrites, InvFacts
    <2>2. messages[id] \in Messages
      BY InvFacts
    <2> QED
      BY <1>1, <2>1, <2>2 DEF Written, Messages, Free
  <1>4. /\ UNCHANGED <<cardRole, at, task, exited, successes>> /\ Numbers' = Numbers
        /\ cancelling' = cancelling \ {id} /\ cancelled' = cancelled \cup {id}
    BY <1>1 DEF CancelAck, work, Numbers
  <1>5. QueueTypeOK'
    BY <1>3, <1>4 DEF QueueInv, QueueTypeOK
  <1>6. WorkOwned'
    BY <1>1, <1>3, <1>4 DEF QueueInv, WorkOwned, Owned
  <1>7. CancelOwned'
    BY <1>3, <1>4 DEF QueueInv, QueueTypeOK, CancelOwned, Owned
  <1>8. Apart'
    BY <1>4 DEF QueueInv, Apart
  <1>9. Outcomes'
    <2>1. \A j \in Ids' : Free(j)' => successes'[j] = 0 /\ ~messages'[j].delivered
      BY <1>3, <1>4 DEF QueueInv, Outcomes, Free
    <2>2. \A j \in cancelled' : messages'[j].delivered /\ successes'[j] = 0
      BY <1>1, <1>3, <1>4 DEF QueueInv, QueueTypeOK, Outcomes
    <2>3. \A v \in Workers : NotExecuted(v)' => successes'[task'[v]] = 0
      BY <1>4 DEF QueueInv, Outcomes, NotExecuted
    <2> QED
      BY <1>3, <1>4, <2>1, <2>2, <2>3 DEF QueueInv, Outcomes
  <1> QED
    BY <1>5, <1>6, <1>7, <1>8, <1>9 DEF QueueInv

LEMMA CancelDiesKeepsInv ==
  ASSUME QueueInv, NEW id \in Ids, CancelDies(id)
  PROVE  QueueInv'
  <1>1. /\ UNCHANGED <<messages, cardRole, at, task, exited, successes, cancelled>>
        /\ cancelling' = cancelling \ {id} /\ Ids' = Ids /\ Numbers' = Numbers
    BY DEF CancelDies, work, Ids, Numbers
  <1>2. QueueTypeOK' /\ WorkOwned' /\ CancelOwned' /\ Apart'
    BY <1>1 DEF QueueInv, QueueTypeOK, WorkOwned, CancelOwned, Apart, Owned
  <1>3. Outcomes'
    BY <1>1 DEF QueueInv, Outcomes, NotExecuted, Free
  <1> QED
    BY <1>2, <1>3 DEF QueueInv

LEMMA StepQueueInv == QueueInv /\ [QueueNext]_queueVars => QueueInv'
  <1> SUFFICES ASSUME QueueInv, [QueueNext]_queueVars
               PROVE  QueueInv'
    OBVIOUS
  <1>1. CASE Add
    BY <1>1, AddKeepsInv
  <1>2. ASSUME NEW id \in Ids, CancelClaim(id) \/ CancelAck(id) \/ CancelDies(id)
        PROVE  QueueInv'
    BY <1>2, CancelClaimKeepsInv, CancelAckKeepsInv, CancelDiesKeepsInv
  <1>3. ASSUME NEW w \in Workers, WorkerStep(w) \/ Die(w) \/ Restart(w)
        PROVE  QueueInv'
    BY <1>3, ClaimKeepsInv, RejectKeepsInv, BeginKeepsInv, EndKeepsInv, FinishKeepsInv,
       DieKeepsInv, RestartKeepsInv DEF WorkerStep
  <1>4. CASE UNCHANGED queueVars
    <2>1. /\ UNCHANGED <<messages, cardRole, at, task, exited, cancelling, successes,
                         cancelled>>
          /\ Ids' = Ids /\ Numbers' = Numbers
      BY <1>4 DEF queueVars, work, results, Ids, Numbers
    <2>2. QueueTypeOK' /\ WorkOwned' /\ CancelOwned' /\ Apart'
      BY <2>1 DEF QueueInv, QueueTypeOK, WorkOwned, CancelOwned, Apart, Owned
    <2>3. Outcomes'
      BY <2>1 DEF QueueInv, Outcomes, NotExecuted, Free
    <2> QED
      BY <2>2, <2>3 DEF QueueInv
  <1> QED
    BY <1>1, <1>2, <1>3, <1>4 DEF QueueNext

-----------------------------------------------------------------------------
\* Whoever is at work on a message owns it under its name, no two processes
\* are at work on the same one though they may share their names, and what can
\* be claimed has no outcome yet.
THEOREM QueueInvariant == QueueSpec => []QueueInv
  BY InitQueueInv, StepQueueInv, PTL DEF QueueSpec

\* The counts of OneOutcome are what the invariant says with sets.
LEMMA InvGivesOneOutcome == QueueInv => OneOutcome
  <1> SUFFICES ASSUME QueueInv, NEW id \in Ids
               PROVE  /\ Cardinality(Holders(id)) + Cardinality(cancelling \cap {id}) <= 1
                      /\ successes[id] + Cardinality(cancelled \cap {id}) <= 1
    BY DEF OneOutcome
  <1>1. \A S : S \cap {id} = IF id \in S THEN {id} ELSE {}
    OBVIOUS
  <1>2. Cardinality({}) = 0 /\ \A x : Cardinality({x}) = 1
    BY FS_EmptySet, FS_Singleton
  <1>3. Cardinality(Holders(id)) \in {0, 1} /\ (id \in cancelling => Holders(id) = {})
    <2>1. id # 0 /\ \A v, w \in Holders(id) : v = w
      BY InvFacts DEF Holders, QueueInv, Apart
    <2>2. Holders(id) = {} \/ \E w : Holders(id) = {w}
      BY <2>1
    <2>3. id \in cancelling => Holders(id) = {}
      BY DEF Holders, QueueInv, Apart
    <2> QED
      BY <1>2, <2>2, <2>3
  <1>4. successes[id] \in {0, 1} /\ (id \in cancelled => successes[id] = 0)
    <2>1. successes[id] \in Nat /\ successes[id] <= 1
      BY InvFacts DEF QueueInv, QueueTypeOK, Outcomes
    <2> QED
      BY <2>1 DEF QueueInv, Outcomes
  <1>5. /\ Cardinality(cancelling \cap {id}) = IF id \in cancelling THEN 1 ELSE 0
        /\ Cardinality(cancelled \cap {id}) = IF id \in cancelled THEN 1 ELSE 0
    BY <1>1, <1>2
  <1>6. Cardinality(Holders(id)) + Cardinality(cancelling \cap {id}) <= 1
    BY <1>2, <1>3, <1>5
  <1>7. successes[id] + Cardinality(cancelled \cap {id}) <= 1
    BY <1>4, <1>5
  <1> QED
    BY <1>6, <1>7

\* A message is at no two processes at once, and is executed with success at
\* most once or cancelled, never both, for any number of workers, whatever
\* names they share with each other and with the panel, and wherever they die.
THEOREM QueueOneOutcome == QueueSpec => []OneOutcome
  BY QueueInvariant, InvGivesOneOutcome, PTL
=============================================================================
