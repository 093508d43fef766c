---------------------------- MODULE TurnPromise ----------------------------
(***************************************************************************)
(* What ConversationRuntime promises to the callers of start_turn and to   *)
(* the readers of the turns table, without tasks, locks, capacity or       *)
(* transcripts: a thread serves one turn at a time; the outcome of a turn  *)
(* is written once, in the step in which its waiter is told and its thread *)
(* becomes free; a waiter that is not told an outcome is told that there   *)
(* is none; recovery writes outcomes only when nobody waits.               *)
(***************************************************************************)
EXTENDS Naturals

CONSTANTS
    Threads,    \* thread ids
    Turns,      \* turn ids
    NoTurn      \* the absent turn

VARIABLES
    outcome,    \* what the store says of each turn
    holder,     \* the turn each thread serves
    told,       \* what the waiter of each turn has been told
    heard       \* turn/completed events of each turn

vars == <<outcome, holder, told, heard>>

Outcomes == {"completed", "interrupted", "failed", "cancelled"}

Init ==
    /\ outcome = [t \in Turns |-> "absent"]
    /\ holder = [th \in Threads |-> NoTurn]
    /\ told = [t \in Turns |-> "none"]
    /\ heard = [t \in Turns |-> 0]

\* A thread that serves nothing takes a new turn.
Accept(t, th) ==
    /\ outcome[t] = "absent"
    /\ holder[th] = NoTurn
    /\ outcome' = [outcome EXCEPT ![t] = "open"]
    /\ holder' = [holder EXCEPT ![th] = t]
    /\ told' = [told EXCEPT ![t] = "pending"]
    /\ UNCHANGED heard

\* A turn that can never fit is recorded and answered at once.
Refuse(t) ==
    /\ outcome[t] = "absent"
    /\ outcome' = [outcome EXCEPT ![t] = "failed"]
    /\ told' = [told EXCEPT ![t] = "failed"]
    /\ heard' = [heard EXCEPT ![t] = @ + 1]
    /\ UNCHANGED holder

\* That answer is cut off: a record nobody serves.
Strand(t) ==
    /\ outcome[t] = "absent"
    /\ outcome' = [outcome EXCEPT ![t] = "open"]
    /\ told' = [told EXCEPT ![t] = "pending"]
    /\ UNCHANGED <<holder, heard>>

\* Outcome, announcement, answer and release are one step.
Resolve(t, th, end) ==
    /\ holder[th] = t
    /\ outcome[t] = "open"
    /\ told[t] = "pending"
    /\ outcome' = [outcome EXCEPT ![t] = end]
    /\ holder' = [holder EXCEPT ![th] = NoTurn]
    /\ told' = [told EXCEPT ![t] = end]
    /\ heard' = [heard EXCEPT ![t] = @ + 1]

\* No outcome can be recorded: the waiter is told so, and only the waiter.
GiveUp(t, th) ==
    /\ holder[th] = t
    /\ outcome[t] = "open"
    /\ told[t] = "pending"
    /\ holder' = [holder EXCEPT ![th] = NoTurn]
    /\ told' = [told EXCEPT ![t] = "error"]
    /\ UNCHANGED <<outcome, heard>>

\* The process dies with its waiters.
Die ==
    /\ holder' = [th \in Threads |-> NoTurn]
    /\ told' = [t \in Turns |-> "none"]
    /\ UNCHANGED <<outcome, heard>>

\* A new process closes what the last one left open, unheard.
Recover(ran) ==
    /\ \A t \in Turns : told[t] = "none"
    /\ \A th \in Threads : holder[th] = NoTurn
    /\ outcome' = [t \in Turns |->
                     IF outcome[t] # "open" THEN outcome[t]
                     ELSE IF t \in ran THEN "interrupted" ELSE "cancelled"]
    /\ UNCHANGED <<holder, told, heard>>

Next ==
    \/ \E t \in Turns : Refuse(t) \/ Strand(t)
    \/ \E t \in Turns, th \in Threads :
        \/ Accept(t, th)
        \/ GiveUp(t, th)
        \/ \E end \in Outcomes : Resolve(t, th, end)
    \/ Die
    \/ \E ran \in SUBSET Turns : Recover(ran)

Spec == Init /\ [][Next]_vars

=============================================================================
