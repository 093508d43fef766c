------------------------------ MODULE ChatLane ------------------------------
(***************************************************************************)
(* ChatLane of bus/queue.py: what is sent to one chat goes one at a time,  *)
(* a push that answers nobody waits until every passive turn and every     *)
(* passive send of the chat is over, and pushes go in the order they came. *)
(*                                                                         *)
(* The callers are inbound messages (mark_passive_pending / _done), queued *)
(* outbound messages (mark_passive_send_pending, then run_passive with     *)
(* pending_registered, or mark_passive_send_done), direct passive sends    *)
(* (run_passive) and pushes (run_non_passive).  A caller makes one call.   *)
(* No caller awaits while it holds a condition's lock, so a lock is never  *)
(* contended and every stretch between two awaits is one action: entering, *)
(* waking from condition.wait, and leaving when the send ends.             *)
(***************************************************************************)
EXTENDS Naturals, FiniteSets

CONSTANTS
    Chats,
    Turns,      \* inbound messages
    Queued,     \* outbound messages of the MessageBus queue
    Direct,     \* message_push calls with the passive role
    Pushes,     \* every other message_push call
    ChatOf,     \* the chat of each caller
    Objects,    \* _ChatLaneState objects
    None

Passives == Queued \cup Direct
Senders == Passives \cup Pushes
Callers == Turns \cup Senders

ASSUME CallersAssumption ==
    /\ IsFiniteSet(Callers)
    /\ Turns \cap Senders = {} /\ Queued \cap Direct = {}
    /\ Passives \cap Pushes = {}
    /\ ChatOf \in [Callers -> Chats]
ASSUME NoneAssumption == None \notin Objects /\ None \notin Nat

VARIABLES
    registered, \* _states: the object of each chat, if any
    object,     \* the state objects; a forgotten one is Blank
    at,         \* idle, pending (registered only), wait, send, done
    holds,      \* the object a caller works with
    ticket,     \* the ticket of a push
    awake       \* waiters that were notified and have not run yet

vars == <<registered, object, at, holds, ticket, awake>>

\* active_users is kept as the set of calls it counts.
Blank == [users |-> {}, turns |-> 0, sends |-> 0, next |-> 0, serving |-> 0,
          cancelled |-> {}, sending |-> FALSE]

Init ==
    /\ registered = [c \in Chats |-> None]
    /\ object = [o \in Objects |-> Blank]
    /\ at = [k \in Callers |-> "idle"]
    /\ holds = [k \in Callers |-> None]
    /\ ticket = [k \in Pushes |-> None]
    /\ awake = {}

-----------------------------------------------------------------------------
\* Finding, forgetting and waking

\* _acquire_state: the registered object, or a new one.
Acquires(c, o) ==
    \/ registered[c] = o
    \/ /\ registered[c] = None
       /\ \A d \in Chats : registered[d] # o
       /\ object[o] = Blank

\* Mutant: an object is forgotten although sends are still announced.
Forgettable_Sends(s) ==
    /\ s.users = {} /\ s.turns = 0 /\ ~s.sending
    /\ s.next = s.serving /\ s.cancelled = {}

\* Mutant: an object is forgotten although a turn is still pending.
Forgettable_Turns(s) ==
    /\ s.users = {} /\ s.sends = 0 /\ ~s.sending
    /\ s.next = s.serving /\ s.cancelled = {}

Forgettable(s) ==
    /\ s.users = {} /\ s.turns = 0 /\ s.sends = 0 /\ ~s.sending
    /\ s.next = s.serving /\ s.cancelled = {}

\* The chat's object becomes s; a call that releases it forgets an unused one.
Keep(c, o, s) ==
    /\ object' = [object EXCEPT ![o] = s]
    /\ registered' = [registered EXCEPT ![c] = o]

Release(c, o, s) ==
    IF Forgettable(s)
    THEN /\ object' = [object EXCEPT ![o] = Blank]
         /\ registered' = [registered EXCEPT ![c] = IF @ = o THEN None ELSE @]
    ELSE /\ object' = [object EXCEPT ![o] = s]
         /\ registered' = [registered EXCEPT ![c] = IF @ = None THEN o ELSE @]

\* The calls that wait on the condition of o: notify_all wakes them.
WaitersOf(o) == {k \in Senders : at[k] = "wait" /\ holds[k] = o}

\* A mark_* method, on object o: one atomic change of the chat's counts to s.
Mark(k, o, s, state) ==
    /\ Acquires(ChatOf[k], o)
    /\ Release(ChatOf[k], o, s)
    /\ awake' = awake \cup WaitersOf(o)
    /\ at' = [at EXCEPT ![k] = state]
    /\ UNCHANGED <<holds, ticket>>

-----------------------------------------------------------------------------
\* Counts

TurnPending(t) ==
    /\ at[t] = "idle"
    /\ \E o \in Objects : Mark(t, o, [object[o] EXCEPT !.turns = @ + 1], "pending")

TurnDone(t) ==
    /\ at[t] = "pending"
    /\ \E o \in Objects :
           Mark(t, o, [object[o] EXCEPT !.turns = IF @ > 0 THEN @ - 1 ELSE @], "done")

SendPending(q) ==
    /\ at[q] = "idle"
    /\ \E o \in Objects : Mark(q, o, [object[o] EXCEPT !.sends = @ + 1], "pending")

SendRollback(q) ==
    /\ at[q] = "pending"
    /\ \E o \in Objects :
           Mark(q, o, [object[o] EXCEPT !.sends = IF @ > 0 THEN @ - 1 ELSE @], "done")

-----------------------------------------------------------------------------
\* run_passive

\* The first section: it sends at once unless somebody else is sending.
EnterPassive(p) ==
    \E o \in Objects :
        /\ at[p] = IF p \in Queued THEN "pending" ELSE "idle"
        /\ Acquires(ChatOf[p], o)
        /\ Keep(ChatOf[p], o,
                [object[o] EXCEPT !.users = @ \cup {p}, !.sending = TRUE,
                     !.sends = IF p \in Queued THEN @ ELSE @ + 1])
        /\ holds' = [holds EXCEPT ![p] = o]
        /\ at' = [at EXCEPT ![p] = IF object[o].sending THEN "wait" ELSE "send"]
        /\ UNCHANGED <<ticket, awake>>

\* Mutant: a woken passive sends without looking whether the chat is taken.
WakePassive_Blind(p) ==
    /\ at[p] = "wait" /\ p \in awake
    /\ awake' = awake \ {p}
    /\ object' = [object EXCEPT ![holds[p]].sending = TRUE]
    /\ at' = [at EXCEPT ![p] = "send"]
    /\ UNCHANGED <<registered, holds, ticket>>

\* It was notified: it sends, or waits again.
WakePassive(p) ==
    /\ at[p] = "wait" /\ p \in awake
    /\ awake' = awake \ {p}
    /\ object' = [object EXCEPT ![holds[p]].sending = TRUE]
    /\ at' = [at EXCEPT ![p] = IF object[holds[p]].sending THEN @ ELSE "send"]
    /\ UNCHANGED <<registered, holds, ticket>>

\* The send returned, failed or was cancelled; or the wait was cancelled.
LeavePassive(p) ==
    LET o == holds[p]
    IN  /\ at[p] \in {"wait", "send"}
        /\ Release(ChatOf[p], o,
               [object[o] EXCEPT !.users = @ \ {p}, !.sends = @ - 1,
                                 !.sending = @ /\ at[p] # "send"])
        /\ awake' = (awake \cup WaitersOf(o)) \ {p}
        /\ at' = [at EXCEPT ![p] = "done"]
        /\ holds' = [holds EXCEPT ![p] = None]
        /\ UNCHANGED ticket

-----------------------------------------------------------------------------
\* run_non_passive

\* _skip_cancelled_non_passive: serve the first ticket that was not cancelled.
Skip(s) ==
    LET first == CHOOSE n \in s.serving..s.next :
            n \notin s.cancelled /\ (s.serving..(n - 1)) \subseteq s.cancelled
    IN  [s EXCEPT !.serving = first, !.cancelled = @ \ (s.serving..(first - 1))]

\* Mutant: announced sends that have not started do not hold a push back.
PushMayGo_Announced(s, n) ==
    ~s.sending /\ s.turns = 0 /\ n = s.serving

\* Mutant: a push goes as soon as nothing passive is left, whatever its ticket.
PushMayGo_Unordered(s, n) ==
    ~s.sending /\ s.turns = 0 /\ s.sends = 0

PushMayGo(s, n) ==
    ~s.sending /\ s.turns = 0 /\ s.sends = 0 /\ n = s.serving

EnterPush(n) ==
    \E o \in Objects :
        LET s == Skip([object[o] EXCEPT !.users = @ \cup {n}, !.next = @ + 1])
            mine == object[o].next
        IN  /\ at[n] = "idle"
            /\ Acquires(ChatOf[n], o)
            /\ Keep(ChatOf[n], o, [s EXCEPT !.sending = @ \/ PushMayGo(s, mine)])
            /\ ticket' = [ticket EXCEPT ![n] = mine]
            /\ holds' = [holds EXCEPT ![n] = o]
            /\ at' = [at EXCEPT ![n] = IF PushMayGo(s, mine) THEN "send" ELSE "wait"]
            /\ UNCHANGED awake

WakePush(n) ==
    LET s == Skip(object[holds[n]])
    IN  /\ at[n] = "wait" /\ n \in awake
        /\ awake' = awake \ {n}
        /\ object' = [object EXCEPT ![holds[n]] =
                          [s EXCEPT !.sending = @ \/ PushMayGo(s, ticket[n])]]
        /\ at' = [at EXCEPT ![n] = IF PushMayGo(s, ticket[n]) THEN "send" ELSE @]
        /\ UNCHANGED <<registered, holds, ticket>>

\* Mutant: a push that gives up while it waits leaves its ticket unserved.
Spend_Forgets(s, n) ==
    IF at[n] = "send" THEN [s EXCEPT !.serving = @ + 1, !.sending = FALSE] ELSE s

\* The ticket is used up: served by the one who sent, else marked cancelled.
Spend(s, n) ==
    IF at[n] = "send" THEN [s EXCEPT !.serving = @ + 1, !.sending = FALSE]
                      ELSE [s EXCEPT !.cancelled = @ \cup {ticket[n]}]

LeavePush(n) ==
    LET o == holds[n]
    IN  /\ at[n] \in {"wait", "send"}
        /\ Release(ChatOf[n], o, Skip([Spend(object[o], n) EXCEPT !.users = @ \ {n}]))
        /\ awake' = (awake \cup WaitersOf(o)) \ {n}
        /\ at' = [at EXCEPT ![n] = "done"]
        /\ holds' = [holds EXCEPT ![n] = None]
        /\ UNCHANGED ticket

-----------------------------------------------------------------------------
Next ==
    \/ \E t \in Turns : TurnPending(t) \/ TurnDone(t)
    \/ \E q \in Queued : SendPending(q) \/ SendRollback(q)
    \/ \E p \in Passives : EnterPassive(p) \/ WakePassive(p) \/ LeavePassive(p)
    \/ \E n \in Pushes : EnterPush(n) \/ WakePush(n) \/ LeavePush(n)

Spec == Init /\ [][Next]_vars

\* A notified waiter runs; a send ends (the channel returns, fails or its call
\* is cancelled); a turn ends; the dispatcher takes what is queued.
LeaveSend(k) ==
    at[k] = "send" /\ (IF k \in Passives THEN LeavePassive(k) ELSE LeavePush(k))

Fairness ==
    /\ \A t \in Turns : WF_vars(TurnDone(t))
    /\ \A p \in Passives : WF_vars(WakePassive(p))
    /\ \A q \in Queued : WF_vars(at[q] = "pending" /\ EnterPassive(q))
    /\ \A n \in Pushes : WF_vars(WakePush(n))
    /\ \A k \in Senders : WF_vars(LeaveSend(k))

FairSpec == Spec /\ Fairness

-----------------------------------------------------------------------------
\* Properties

\* Types, and which callers hold an object: those inside run_*.
TypeOK ==
    /\ registered \in [Chats -> Objects \cup {None}]
    /\ object \in [Objects ->
           [users : SUBSET Senders, turns : Nat, sends : Nat, next : Nat,
            serving : Nat, cancelled : SUBSET Nat, sending : BOOLEAN]]
    /\ at \in [Callers -> {"idle", "pending", "wait", "send", "done"}]
    /\ holds \in [Callers -> Objects \cup {None}]
    /\ ticket \in [Pushes -> Nat \cup {None}]
    /\ awake \subseteq Senders

Sending(c) == {k \in Senders : ChatOf[k] = c /\ at[k] = "send"}
PendingTurns(c) == {t \in Turns : ChatOf[t] = c /\ at[t] = "pending"}
OpenSends(c) == {p \in Passives : ChatOf[p] = c /\ at[p] \in {"pending", "wait", "send"}}
LiveCalls(c) ==
    {k \in Callers : ChatOf[k] = c /\ at[k] \in {"pending", "wait", "send"}}

\* No two messages are under way to one chat, although state objects are
\* forgotten and made anew between calls (run_passive, run_non_passive).
OneSender == \A c \in Chats : \A j, k \in Sending(c) : j = k

\* The counts of a chat are those of its turns and sends, so no call finds
\* "passive send pending count out of balance", and the chat has an object
\* exactly while somebody needs one (_release_state: nothing leaks).
CountsMatch ==
    \A c \in Chats :
        IF registered[c] = None THEN LiveCalls(c) = {}
        ELSE /\ object[registered[c]].turns = Cardinality(PendingTurns(c))
             /\ object[registered[c]].sends = Cardinality(OpenSends(c))
             /\ LiveCalls(c) # {}

\* A push starts only when its chat has no pending turn and no passive send,
\* queued ones included (the condition of run_non_passive).
PushesYield ==
    [][\A n \in Pushes :
           at[n] # "send" /\ at'[n] = "send" =>
               PendingTurns(ChatOf[n]) = {} /\ OpenSends(ChatOf[n]) = {}]_vars

\* A push never overtakes one of its chat that is waiting with an older ticket.
PushesInOrder ==
    [][\A n, m \in Pushes :
           /\ ChatOf[n] = ChatOf[m]
           /\ at[m] = "wait" /\ at'[m] = "wait"
           /\ at[n] # "send" /\ at'[n] = "send"
           => ticket'[n] < ticket[m]]_vars

\* Whoever waits gets its turn or gives up: no cancelled ticket and no lost
\* notification wedges the chat.
WaitersMove == \A k \in Senders : at[k] = "wait" ~> at[k] \in {"send", "done"}
=============================================================================
