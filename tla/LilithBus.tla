----------------------------- MODULE LilithBus -----------------------------
(***************************************************************************)
(* The message table of lilith_core/bus.py: a message is published, claimed *)
(* by name, and then acknowledged for good or released for others to claim. *)
(* Every operation is one SQL statement of its own transaction, so it is    *)
(* one action here; a message is its row, and its id its place in the table.*)
(***************************************************************************)
EXTENDS Integers, Sequences, FiniteSetsExt

CONSTANTS
    Roles,      \* what a claim asks for
    Claimers,   \* the names that claim
    NoClaimer,  \* claimed_by IS NULL
    MaxMessages \* bound: rows of the table

ASSUME BusConstants == NoClaimer \notin Claimers /\ MaxMessages \in Nat

VARIABLE messages

Ids == DOMAIN messages

\* Of a payload it matters whether it has a task to execute.
Messages == [role : Roles, task : BOOLEAN, claimed_by : Claimers \cup {NoClaimer},
             delivered : BOOLEAN]

BusInit == messages = <<>>

Publish(role, task) ==
    /\ Len(messages) < MaxMessages
    /\ messages' = Append(messages, [role |-> role, task |-> task,
                                     claimed_by |-> NoClaimer, delivered |-> FALSE])

Free(id) == messages[id].claimed_by = NoClaimer

\* What a worker of a role may claim: the topic of a message is not looked at.
Waiting(role) == {id \in Ids : Free(id) /\ messages[id].role = role}

\* Mutant: a message that is claimed by the same name is claimed again.
ClaimAnyOfMine(role, name, id) ==
    /\ id \in Ids /\ messages[id].role = role /\ ~messages[id].delivered
    /\ messages[id].claimed_by \in {NoClaimer, name}
    /\ messages' = [messages EXCEPT ![id].claimed_by = name]

\* claim_any takes the oldest.
ClaimAny(role, name, id) ==
    /\ Waiting(role) # {} /\ id = Min(Waiting(role))
    /\ messages' = [messages EXCEPT ![id].claimed_by = name]

\* Mutant: only delivered messages cannot be claimed.
ClaimByIdUndelivered(id, name) ==
    /\ ~messages[id].delivered
    /\ messages' = [messages EXCEPT ![id].claimed_by = name]

ClaimById(id, name) ==
    /\ Free(id) /\ ~messages[id].delivered
    /\ messages' = [messages EXCEPT ![id].claimed_by = name]

Owned(id, name) == messages[id].claimed_by = name /\ ~messages[id].delivered

\* The statement changes no row, and says so, if the name does not own it.
Ack(id, name) ==
    messages' = IF Owned(id, name) THEN [messages EXCEPT ![id].delivered = TRUE]
                                   ELSE messages

\* Mutant: nothing is released.
ReleaseNothing(id, name) == UNCHANGED messages

Release(id, name) ==
    messages' = IF Owned(id, name) THEN [messages EXCEPT ![id].claimed_by = NoClaimer]
                                   ELSE messages
=============================================================================
