--------------------------- MODULE InboundHandoff ---------------------------
(***************************************************************************)
(* A message.send of a mobile client, from the command receipt through the *)
(* durable handoff row (MessageBus, SessionStore) and the one turn it may  *)
(* run (PassiveMessageWorker) to the terminal in the device's durable      *)
(* inbox, after which the row is deleted.  The process may die anywhere.   *)
(*                                                                         *)
(* publish_inbound, a recovery page and complete_inbound hold the durable  *)
(* lock or a lane's condition, but nobody suspends while holding either:   *)
(* the SQLite calls are synchronous.  Each is therefore one action, and so *)
(* is handle_command, except that a crash can fall between its commits.    *)
(*                                                                         *)
(* An InboundMessage is known by its command; owners[c] counts the objects *)
(* of c that _inbound_accepted holds.  The bus queue and the worker's      *)
(* queue of a session lose their content together and keep its order, so   *)
(* one sequence per session stands for both.                               *)
(***************************************************************************)
EXTENDS Naturals, FiniteSets, SequencesExt

CONSTANTS
    Commands,    \* client_message_id of each command
    Chats,
    ChatOf,
    PageLimit,   \* _DURABLE_INBOUND_RECOVERY_PAGE_SIZE
    MaxCrashes, MaxFaults, MaxExpiries,
    None

\* Every command belongs to one session, limits are numbers, and None is no command.
ASSUME HandoffAssumption ==
    /\ IsFiniteSet(Commands) /\ ChatOf \in [Commands -> Chats]
    /\ PageLimit \in Nat \ {0} /\ {MaxCrashes, MaxFaults, MaxExpiries} \subseteq Nat
    /\ None \notin Commands

VARIABLES
    receipt,    \* mobile_command_receipts
    rows,       \* inbound_handoffs, oldest first
    runs,       \* turn records that carry the command
    turn,       \* none, running (queued or in progress), ended
    message,    \* the user message is in the session history
    inbox,      \* the terminal is in the device's durable inbox
    host,       \* down, up (channels started), working (worker.run)
    owners,     \* _inbound_accepted
    claimed,    \* _recovery_claimed
    cleaning,   \* owners with a delete retry task
    fatal,      \* _inbound_cleanup_error is set
    unrecorded, \* _receipt_completion_failures
    lanes,      \* what waits for the lane of a session
    item,       \* what the lane works on
    step,       \* idle, start, await, deliver, complete, retained
    crashes, faults, expiries

durable == <<receipt, rows, runs, turn, message, inbox>>
bus == <<owners, claimed, cleaning, fatal>>
lane == <<lanes, item, step>>
limits == <<crashes, faults, expiries>>
handoffVars == <<durable, host, bus, unrecorded, lane, limits>>

HandoffInit ==
    /\ receipt = [c \in Commands |-> "none"]
    /\ rows = <<>>
    /\ runs = [c \in Commands |-> 0]
    /\ turn = [c \in Commands |-> "none"]
    /\ message = [c \in Commands |-> FALSE]
    /\ inbox = [c \in Commands |-> FALSE]
    /\ host = "down"
    /\ owners = [c \in Commands |-> 0]
    /\ claimed = {} /\ cleaning = {} /\ fatal = FALSE
    /\ unrecorded = {}
    /\ lanes = [s \in Chats |-> <<>>]
    /\ item = [s \in Chats |-> None]
    /\ step = [s \in Chats |-> "idle"]
    /\ crashes = 0 /\ faults = 0 /\ expiries = 0

Reserved(c) == c \in ToSet(rows)

\* Something the code catches goes wrong once more.
Fault == faults < MaxFaults /\ faults' = faults + 1

-----------------------------------------------------------------------------
\* MessageBus

\* What a sequence has of a set of commands, in the same order: its n-th is the
\* one with n positions up to it.
Kept(s, keep) ==
    LET at == {i \in 1..Len(s) : s[i] \in keep}
        Rank(i) == Cardinality({j \in at : j <= i})
    IN  [n \in 1..Cardinality(at) |-> s[CHOOSE i \in at : Rank(i) = n]]

\* list_inbound_handoffs(limit): the oldest rows.
Page(rs) == IF Len(rs) <= PageLimit THEN rs ELSE SubSeq(rs, 1, PageLimit)

\* Mutant: the page takes rows whose live owner is still at work.
Fresh_Copies(rs, own, cl) == Kept(Page(rs), Commands \ cl)

\* The rows of the oldest page that nobody in this process owns.
Fresh(rs, own, cl) ==
    Kept(Page(rs), {c \in Commands \ cl : own[c] = 0})

\* recover_durable_inbounds: a page is queued, each row with an owner.
Recover(rs, own, cl) ==
    LET new == IF fatal' THEN <<>> ELSE Fresh(rs, own, cl)
    IN  /\ rows' = rs
        /\ owners' = [c \in Commands |->
                        IF c \in ToSet(new) THEN own[c] + 1 ELSE own[c]]
        /\ claimed' = cl \cup ToSet(new)
        /\ lanes' = [s \in Chats |->
                        lanes[s] \o Kept(new, {c \in Commands : ChatOf[c] = s})]

\* complete_inbound from the DELETE on: the owner goes, the next page comes.
Finalize(c) ==
    Recover(Kept(rows, Commands \ {c}),
            [owners EXCEPT ![c] = @ - 1], claimed \ {c})

\* reserve_inbound_handoff of a new dedupe key.
Reserve(c) == rows' = Append(rows, c)

\* publish_inbound: a row that exists already is left to its owner.
PublishInbound(c) ==
    \/ Reserved(c) /\ UNCHANGED <<rows, owners, lanes>>
    \/ /\ ~Reserved(c)
       /\ Reserve(c)
       /\ owners' = [owners EXCEPT ![c] = @ + 1]
       /\ lanes' = [lanes EXCEPT ![ChatOf[c]] = Append(@, c)]

-----------------------------------------------------------------------------
\* MobileChannel.handle_command

\* reserve_command, _send_message, complete_command.
Send(c) ==
    /\ host # "down" /\ receipt[c] = "none"
    /\ \/ /\ ~fatal /\ PublishInbound(c)
          /\ receipt' = [receipt EXCEPT ![c] = "ok"]
       \/ /\ fatal /\ UNCHANGED <<rows, owners, lanes>>
          /\ receipt' = [receipt EXCEPT ![c] = "processing"]
    /\ UNCHANGED <<runs, turn, message, inbox, host, claimed, cleaning,
                   fatal, unrecorded, item, step, limits>>

\* The message is published, but its receipt cannot be completed.
SendUnrecorded(c) ==
    /\ host # "down" /\ receipt[c] = "none" /\ ~fatal /\ PublishInbound(c)
    /\ receipt' = [receipt EXCEPT ![c] = "processing"]
    /\ unrecorded' = unrecorded \cup {c}
    /\ Fault
    /\ UNCHANGED <<runs, turn, message, inbox, host, claimed, cleaning,
                   fatal, item, step, crashes, expiries>>

\* _recover_message_send_receipt.
Resend(c) ==
    /\ host # "down" /\ receipt[c] = "processing"
    /\ message[c] \/ ~Reserved(c)
    /\ receipt' = [receipt EXCEPT ![c] =
                     IF message[c] THEN "ok"
                     ELSE IF c \in unrecorded THEN "unknown"
                     ELSE "interrupted"]
    /\ unrecorded' = unrecorded \ {c}
    /\ UNCHANGED <<rows, runs, turn, message, inbox, host, bus, lane, limits>>

\* A receipt completed more than _COMMAND_RECEIPT_RETENTION ago is forgotten.
ReceiptExpires(c) ==
    /\ host # "down" /\ receipt[c] \in {"ok", "interrupted"}
    /\ expiries < MaxExpiries /\ expiries' = expiries + 1
    /\ receipt' = [receipt EXCEPT ![c] = "none"]
    /\ UNCHANGED <<rows, runs, turn, message, inbox, host, bus, unrecorded,
                   lane, crashes, faults>>

-----------------------------------------------------------------------------
\* PassiveMessageWorker: the lane of a session

\* _run_lane gives up on its item, which keeps its row and its owner.
LaneDrops(s) ==
    /\ item' = [item EXCEPT ![s] = None]
    /\ step' = [step EXCEPT ![s] = "idle"]

\* Mutant: a recovered item always starts a turn.
Admit_Blind(s, c) ==
    /\ item' = [item EXCEPT ![s] = c]
    /\ step' = [step EXCEPT ![s] = "start"]

\* _admit_message: the turn that carries the command decides what is left.  (A
\* record still running would be an error; Boot leaves none.)
Admit(s, c) ==
    \/ /\ turn[c] = "ended" /\ item' = [item EXCEPT ![s] = c]
       /\ step' = [step EXCEPT ![s] = "deliver"]
    \/ /\ turn[c] = "none" /\ item' = [item EXCEPT ![s] = c]
       /\ step' = [step EXCEPT ![s] = "start"]

LaneTakes(s) ==
    /\ host = "working" /\ step[s] = "idle" /\ lanes[s] # <<>>
    /\ Admit(s, Head(lanes[s]))
    /\ lanes' = [lanes EXCEPT ![s] = Tail(@)]
    /\ UNCHANGED <<durable, host, bus, unrecorded, limits>>

\* One second after the terminal could not be delivered.
Retry(s) ==
    /\ step[s] = "retained" /\ Admit(s, item[s])
    /\ UNCHANGED <<durable, host, bus, unrecorded, lanes, limits>>

\* start_turn, once the thread is free, there is room and turns are admitted.
TurnStarts(s) ==
    /\ step[s] = "start"
    /\ runs' = [runs EXCEPT ![item[s]] = @ + 1]
    /\ turn' = [turn EXCEPT ![item[s]] = "running"]
    /\ step' = [step EXCEPT ![s] = "await"]
    /\ UNCHANGED <<receipt, rows, message, inbox, host, bus, unrecorded,
                   lanes, item, limits>>

\* The session was deleted, or the turn could not be stored.
StartFails(s) ==
    /\ step[s] = "start" /\ Fault /\ LaneDrops(s)
    /\ UNCHANGED <<durable, host, bus, unrecorded, lanes, crashes, expiries>>

\* The executor appends the exchange to the history ...
TurnPersists(s) ==
    /\ step[s] = "await" /\ ~message[item[s]]
    /\ message' = [message EXCEPT ![item[s]] = TRUE]
    /\ UNCHANGED <<receipt, rows, runs, turn, inbox, host, bus, unrecorded,
                   lane, limits>>

\* ... and the turn ends: completed after that, failed or interrupted anywhere.
TurnEnds(s) ==
    /\ step[s] = "await"
    /\ turn' = [turn EXCEPT ![item[s]] = "ended"]
    /\ step' = [step EXCEPT ![s] = "deliver"]
    /\ UNCHANGED <<receipt, rows, runs, message, inbox, host, bus,
                   unrecorded, lanes, item, limits>>

\* The store refuses the terminal: the result raises, the record stays open.
TurnAbandoned(s) ==
    /\ step[s] = "await" /\ Fault /\ LaneDrops(s)
    /\ UNCHANGED <<durable, host, bus, unrecorded, lanes, crashes, expiries>>

\* dispatch_outbound hands the terminal to the channel, which commits it.
Deliver(s) ==
    /\ step[s] = "deliver"
    /\ inbox' = [inbox EXCEPT ![item[s]] = TRUE]
    /\ step' = [step EXCEPT ![s] = "complete"]
    /\ UNCHANGED <<receipt, rows, runs, turn, message, host, bus, unrecorded,
                   lanes, item, limits>>

\* Mutant: a failed delivery still authorizes the delete.
DeliveryFails_Forgets(s) ==
    /\ step[s] = "deliver" /\ Fault
    /\ step' = [step EXCEPT ![s] = "complete"]
    /\ UNCHANGED <<durable, host, bus, unrecorded, lanes, item, crashes,
                   expiries>>

\* Every attempt of _deliver_terminal got False.
DeliveryFails(s) ==
    /\ step[s] = "deliver" /\ Fault
    /\ step' = [step EXCEPT ![s] = "retained"]
    /\ UNCHANGED <<durable, host, bus, unrecorded, lanes, item, crashes,
                   expiries>>

-----------------------------------------------------------------------------
\* MessageBus.complete_inbound, called by the lane, and its retry task

Complete(s) ==
    /\ step[s] = "complete" /\ ~fatal
    /\ UNCHANGED fatal
    /\ Finalize(item[s]) /\ LaneDrops(s)
    /\ UNCHANGED <<receipt, runs, turn, message, inbox, host, cleaning,
                   unrecorded, limits>>

\* Mutant: nobody tries the delete again.
DeleteFails_NoRetry(s) ==
    /\ step[s] = "complete" /\ ~fatal /\ Fault
    /\ LaneDrops(s)
    /\ UNCHANGED <<durable, host, bus, unrecorded, lanes, crashes, expiries>>

\* OSError: the owner stays and only the delete is tried again.
DeleteFails(s) ==
    /\ step[s] = "complete" /\ ~fatal /\ Fault
    /\ cleaning' = cleaning \cup {item[s]}
    /\ LaneDrops(s)
    /\ UNCHANGED <<durable, host, owners, claimed, fatal, unrecorded, lanes,
                   crashes, expiries>>

\* Any other error stops this process from accepting and completing.
DeleteBreaks(s) ==
    /\ step[s] = "complete" /\ ~fatal /\ Fault
    /\ fatal' = TRUE
    /\ LaneDrops(s)
    /\ UNCHANGED <<durable, host, owners, claimed, cleaning, unrecorded,
                   lanes, crashes, expiries>>

CompleteRefused(s) ==
    /\ step[s] = "complete" /\ fatal /\ LaneDrops(s)
    /\ UNCHANGED <<durable, host, bus, unrecorded, lanes, limits>>

\* _retry_inbound_cleanup.
RetryDelete(c) ==
    /\ c \in cleaning
    /\ cleaning' = cleaning \ {c}
    /\ UNCHANGED fatal
    /\ Finalize(c)
    /\ UNCHANGED <<receipt, runs, turn, message, inbox, host, unrecorded,
                   item, step, limits>>

RetryBreaks(c) ==
    /\ c \in cleaning /\ Fault
    /\ cleaning' = cleaning \ {c}
    /\ fatal' = TRUE
    /\ UNCHANGED <<durable, host, owners, claimed, unrecorded, lane, crashes,
                   expiries>>

-----------------------------------------------------------------------------
\* The process

\* Everything that is not durable is lost.
Dies ==
    /\ host # "down" /\ host' = "down"
    /\ crashes < MaxCrashes /\ crashes' = crashes + 1
    /\ owners' = [c \in Commands |-> 0]
    /\ claimed' = {} /\ cleaning' = {} /\ fatal' = FALSE /\ unrecorded' = {}
    /\ lanes' = [s \in Chats |-> <<>>]
    /\ item' = [s \in Chats |-> None]
    /\ step' = [s \in Chats |-> "idle"]

Crash == Dies /\ UNCHANGED <<durable, faults, expiries>>

\* A crash between the commits of handle_command: the receipt is reserved,
\* and the row may be.
CrashInSend(c) ==
    /\ receipt[c] = "none" /\ Dies
    /\ receipt' = [receipt EXCEPT ![c] = "processing"]
    /\ \/ UNCHANGED rows
       \/ ~fatal /\ ~Reserved(c) /\ Reserve(c)
    /\ UNCHANGED <<runs, turn, message, inbox, faults, expiries>>

\* recover_in_progress_turns, then the channels accept.
Boot ==
    /\ host = "down" /\ host' = "up"
    /\ turn' = [c \in Commands |->
                  IF turn[c] = "running" THEN "ended" ELSE turn[c]]
    /\ UNCHANGED <<receipt, rows, runs, message, inbox, bus, unrecorded, lane,
                   limits>>

\* PassiveMessageWorker.run reads the first page.
StartWorker ==
    /\ host = "up" /\ host' = "working"
    /\ UNCHANGED fatal
    /\ Recover(rows, owners, claimed)
    /\ UNCHANGED <<receipt, runs, turn, message, inbox, cleaning, unrecorded,
                   item, step, limits>>

Lane(s) ==
    \/ LaneTakes(s) \/ Retry(s) \/ TurnStarts(s) \/ TurnEnds(s)
    \/ Deliver(s) \/ Complete(s) \/ CompleteRefused(s)

HandoffNext ==
    \/ \E s \in Chats :
         Lane(s) \/ StartFails(s) \/ TurnPersists(s) \/ TurnAbandoned(s)
           \/ DeliveryFails(s) \/ DeleteFails(s) \/ DeleteBreaks(s)
    \/ \E c \in Commands :
         Send(c) \/ SendUnrecorded(c) \/ Resend(c) \/ ReceiptExpires(c)
           \/ RetryDelete(c) \/ RetryBreaks(c) \/ CrashInSend(c)
    \/ Crash \/ Boot \/ StartWorker

HandoffSpec == HandoffInit /\ [][HandoffNext]_handoffVars

\* The service manager restarts the process, lanes and retry tasks go on, and
\* every turn ends.
HandoffFairness ==
    /\ WF_handoffVars(Boot) /\ WF_handoffVars(StartWorker)
    /\ \A s \in Chats : WF_handoffVars(Lane(s))
    /\ \A c \in Commands : WF_handoffVars(RetryDelete(c))

HandoffFairSpec == HandoffSpec /\ HandoffFairness

-----------------------------------------------------------------------------
\* Types; a handoff has one row, and a lane has an item exactly while it works.
HandoffTypeOK ==
    /\ receipt \in [Commands ->
                     {"none", "processing", "ok", "interrupted", "unknown"}]
    /\ rows \in Seq(Commands) /\ IsInjective(rows)
    /\ runs \in [Commands -> Nat]
    /\ turn \in [Commands -> {"none", "running", "ended"}]
    /\ message \in [Commands -> BOOLEAN] /\ inbox \in [Commands -> BOOLEAN]
    /\ host \in {"down", "up", "working"}
    /\ owners \in [Commands -> Nat]
    /\ claimed \subseteq Commands /\ cleaning \subseteq Commands
    /\ fatal \in BOOLEAN /\ unrecorded \subseteq Commands
    /\ lanes \in [Chats -> Seq(Commands)]
    /\ item \in [Chats -> Commands \cup {None}]
    /\ step \in [Chats -> {"idle", "start", "await", "deliver", "complete",
                          "retained"}]
    /\ \A s \in Chats : step[s] = "idle" <=> item[s] = None
    /\ crashes \in 0 .. MaxCrashes /\ faults \in 0 .. MaxFaults
    /\ expiries \in 0 .. MaxExpiries

\* What is queued or worked on.
AtWork(c) ==
    c \in ToSet(lanes[ChatOf[c]]) \/ item[ChatOf[c]] = c

\* The lane dropped the command before it had an answer: until the process
\* restarts its owner keeps the row away from the recovery.
Stranded(c) == owners[c] > 0 /\ ~AtWork(c) /\ ~inbox[c]

\* A live publish, the pages of the recovery and the retries never make two
\* objects for one handoff, and an owner always has its row to delete.
OneOwner ==
    \A c \in Commands :
        /\ owners[c] <= 1
        /\ AtWork(c) => owners[c] = 1 /\ c \notin cleaning
        /\ owners[c] = 1 => Reserved(c)

\* However often a command is sent again, recovered or redelivered, at most
\* one turn ever runs for it.
OneRun == \A c \in Commands : runs[c] <= 1

\* A command that was acknowledged, or that ran, has its row until its
\* terminal is in the durable inbox of the device.
NothingAcceptedIsLost ==
    \A c \in Commands :
        receipt[c] = "ok" \/ runs[c] > 0 => Reserved(c) \/ inbox[c]

\* The owners of a handoff, in memory and in the store, are of their types, and
\* never two of one command (bus/queue.py).
OwnersAreExact == HandoffTypeOK /\ OneOwner

\* A command is run once, whatever is resent or recovered, and one that the device
\* was told is accepted is somewhere until its answer is in the device's inbox
\* (bus/queue.py, passive_worker.py).
OnceAndNeverLost == OneRun /\ NothingAcceptedIsLost

\* Every accepted command is answered and its row deleted, unless the lane
\* dropped it, a page full of rows was dropped, or the store failed for good.
RowsAreAnswered ==
    \A c \in Commands :
        Reserved(c) ~> \/ inbox[c] /\ ~Reserved(c)
                       \/ fatal \/ Stranded(c)
                       \/ Cardinality({d \in Commands : Stranded(d)}) >= PageLimit

\* channel.py:736 tells the client that an interrupted command may safely be
\* sent again: no turn ever ran for it.
InterruptedNeverRan ==
    \A c \in Commands : receipt[c] = "interrupted" => runs[c] = 0
=============================================================================
