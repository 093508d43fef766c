---------------------------- MODULE OutboundQueue ----------------------------
(***************************************************************************)
(* The outbound half of MessageBus (bus/queue.py) and the end of the       *)
(* runtime tasks around it (bootstrap/app.py): replies are queued, one     *)
(* dispatcher sends them in their chat lanes, and a sender that asked for  *)
(* a receipt waits for it.  A channel has one callback or none.            *)
(***************************************************************************)
EXTENDS Naturals, Sequences, SequencesExt

CONSTANTS Messages,     \* replies, each published once
          Awaited,      \* those published with publish_outbound_awaited
          Nothing,      \* no message
          MaxFailures   \* bound on callbacks that raise

ASSUME RepliesAssumption ==
  Awaited \subseteq Messages /\ Nothing \notin Messages /\ MaxFailures \in Nat

VARIABLES queue,       \* _outbound
          sender,      \* where the publisher of each message is
          receipt,     \* the future in its envelope
          counted,     \* the messages in passive_sends of their chats
          dispatcher,  \* dispatch_outbound: the await it is at, its message, what was sent
          stopped,     \* _outbound_dispatch_stopped
          app,         \* AppRuntime
          shown,       \* messages the channel has sent
          excused,     \* messages it has sent an excuse for
          observed,    \* what the delivery observer was told of each
          failures

outVars == <<queue, sender, receipt, counted, dispatcher, stopped, app, shown, excused, observed,
             failures>>

Off == [at |-> "off", msg |-> Nothing, sent |-> FALSE]

OutInit ==
  /\ queue = <<>> /\ counted = {} /\ shown = {} /\ excused = {} /\ failures = 0
  /\ sender = [m \in Messages |-> "idle"]
  /\ receipt = [m \in Messages |-> "none"]
  /\ observed = [m \in Messages |-> "none"]
  /\ dispatcher = Off /\ stopped = FALSE /\ app = "up"

\* A future that was set or cancelled before is left alone.
Resolve(m, value) ==
  receipt' = IF m # Nothing /\ receipt[m] = "pending" THEN [receipt EXCEPT ![m] = value] ELSE receipt
----------------------------------------------------------------------------
(* Publishers: the passive worker awaits its receipts and is a runtime     *)
(* task; turns publish without one and run to the end of the shutdown.     *)

Publish(m) ==
  /\ sender[m] = "idle" /\ (m \in Awaited => app \in {"up", "failing"})
  /\ sender' = [sender EXCEPT ![m] = IF m \in Awaited /\ stopped THEN "refused" ELSE "entering"]
  /\ UNCHANGED <<queue, receipt, counted, dispatcher, stopped, app, shown, excused, observed, failures>>

\* mark_passive_send_pending has returned.
Enqueued(m) ==
  /\ sender[m] = "entering"
  /\ counted' = counted \cup {m} /\ queue' = Append(queue, m)
  /\ sender' = [sender EXCEPT ![m] = IF m \in Awaited THEN "waiting" ELSE "sent"]
  /\ receipt' = [receipt EXCEPT ![m] = IF m \in Awaited THEN "pending" ELSE "none"]
  /\ UNCHANGED <<dispatcher, stopped, app, shown, excused, observed, failures>>

Answered(m) ==
  /\ sender[m] = "waiting" /\ receipt[m] \in {"true", "false"}
  /\ sender' = [sender EXCEPT ![m] = "answered"]
  /\ UNCHANGED <<queue, receipt, counted, dispatcher, stopped, app, shown, excused, observed, failures>>

\* The worker is cancelled with the other runtime tasks, a turn by its interrupt.
SenderCancelled(m) ==
  /\ \/ sender[m] = "entering" /\ (m \in Awaited => app = "cancelling")
     \/ sender[m] = "waiting" /\ app = "cancelling"
  /\ sender' = [sender EXCEPT ![m] = "cancelled"] /\ Resolve(m, "cancelled")
  /\ UNCHANGED <<queue, counted, dispatcher, stopped, app, shown, excused, observed, failures>>
----------------------------------------------------------------------------
(* dispatch_outbound *)

At(p) == dispatcher.at = p
Goto(p) == dispatcher' = [dispatcher EXCEPT !.at = p]
Sent(s) == dispatcher' = [dispatcher EXCEPT !.at = "settle", !.sent = s]

Starts ==
  /\ At("off") /\ app = "up" /\ Goto("get")
  /\ UNCHANGED <<queue, sender, receipt, counted, stopped, app, shown, excused, observed, failures>>

Take ==
  /\ At("get") /\ queue # <<>>
  /\ dispatcher' = [at |-> "lane", msg |-> Head(queue), sent |-> FALSE] /\ queue' = Tail(queue)
  /\ UNCHANGED <<sender, receipt, counted, stopped, app, shown, excused, observed, failures>>

\* The lane is free.
Enters ==
  /\ At("lane") /\ Goto("send")
  /\ UNCHANGED <<queue, sender, receipt, counted, stopped, app, shown, excused, observed, failures>>

\* The original is sent at the first or the second attempt, or there is no callback.
Sends ==
  /\ \/ /\ dispatcher.at \in {"send", "again"}
        /\ shown' = shown \cup {dispatcher.msg} /\ Sent(TRUE)
     \/ At("send") /\ Sent(FALSE) /\ UNCHANGED shown
  /\ UNCHANGED <<queue, sender, receipt, counted, stopped, app, excused, observed, failures>>

\* Mutant: who waits for a receipt gets the excuse, too.
Raises_AlwaysExcuses ==
  /\ dispatcher.at \in {"send", "again"} /\ failures < MaxFailures /\ failures' = failures + 1
  /\ IF At("send") THEN Goto("again") ELSE Goto("excuse")
  /\ UNCHANGED <<queue, sender, receipt, counted, stopped, app, shown, excused, observed>>

Raises ==
  /\ dispatcher.at \in {"send", "again"}
  /\ failures < MaxFailures /\ failures' = failures + 1
  /\ IF At("send") THEN Goto("again")
     ELSE IF dispatcher.msg \in Awaited THEN Sent(FALSE) ELSE Goto("excuse")
  /\ UNCHANGED <<queue, sender, receipt, counted, stopped, app, shown, excused, observed>>

Excuses ==
  /\ At("excuse") /\ Sent(FALSE)
  /\ excused' \in {excused, excused \cup {dispatcher.msg}}
  /\ UNCHANGED <<queue, sender, receipt, counted, stopped, app, shown, observed, failures>>

\* Mutant: only a success is reported.
Settle_SuccessOnly ==
  /\ At("settle") /\ Goto("observe")
  /\ counted' = counted \ {dispatcher.msg}
  /\ IF dispatcher.sent THEN Resolve(dispatcher.msg, "true") ELSE UNCHANGED receipt
  /\ UNCHANGED <<queue, sender, stopped, app, shown, excused, observed, failures>>

\* The lane is left, then the receipt is set.
Settle ==
  /\ At("settle") /\ Goto("observe")
  /\ counted' = counted \ {dispatcher.msg}
  /\ Resolve(dispatcher.msg, IF dispatcher.sent THEN "true" ELSE "false")
  /\ UNCHANGED <<queue, sender, stopped, app, shown, excused, observed, failures>>

Observes ==
  /\ At("observe") /\ dispatcher' = [Off EXCEPT !.at = "get"]
  /\ observed' = [observed EXCEPT ![dispatcher.msg] = IF dispatcher.sent THEN "true" ELSE "false"]
  /\ UNCHANGED <<queue, sender, receipt, counted, stopped, app, shown, excused, failures>>

\* finally: the receipt in flight is answered.
Ends ==
  dispatcher' = [Off EXCEPT !.at = "done"] /\ stopped' = TRUE /\ Resolve(dispatcher.msg, "false")

\* The observer raises, which ends the dispatcher and with it the application.
ObserverRaises ==
  /\ At("observe") /\ Ends /\ app' = IF app = "up" THEN "failing" ELSE app
  /\ UNCHANGED <<queue, sender, counted, shown, excused, observed, failures>>

\* A cancellation that arrives while the lane is left may keep the count.
DispatcherCancelled ==
  /\ app = "cancelling" /\ dispatcher.at \notin {"off", "done"} /\ Ends
  /\ \/ counted' = counted \ {dispatcher.msg}
     \/ At("settle") /\ UNCHANGED counted
  /\ UNCHANGED <<queue, sender, app, shown, excused, observed, failures>>
----------------------------------------------------------------------------
(* shutdown: runtime tasks first, then the bus, the turns last *)

Shutdown ==
  /\ app \in {"up", "failing"} /\ app' = "cancelling"
  /\ UNCHANGED <<queue, sender, receipt, counted, dispatcher, stopped, shown, excused, observed, failures>>

Cancelled ==
  /\ app = "cancelling" /\ dispatcher.at \in {"off", "done"}
  /\ \A m \in Awaited : sender[m] \notin {"entering", "waiting"}
  /\ app' = "draining"
  /\ UNCHANGED <<queue, sender, receipt, counted, dispatcher, stopped, shown, excused, observed, failures>>

\* _drain_outbound_queue
Drain ==
  /\ app = "draining" /\ queue # <<>>
  /\ queue' = Tail(queue) /\ counted' = counted \ {Head(queue)} /\ Resolve(Head(queue), "false")
  /\ UNCHANGED <<sender, dispatcher, stopped, app, shown, excused, observed, failures>>

Drained ==
  /\ app = "draining" /\ queue = <<>> /\ app' = "closed"
  /\ UNCHANGED <<queue, sender, receipt, counted, dispatcher, stopped, shown, excused, observed, failures>>
----------------------------------------------------------------------------
Dispatch ==
  Starts \/ Take \/ Enters \/ Sends \/ Raises \/ Excuses \/ Settle \/ Observes \/ ObserverRaises

Closing == DispatcherCancelled \/ Cancelled \/ Drain \/ Drained

OutNext ==
  \/ \E m \in Messages : Publish(m) \/ Enqueued(m) \/ Answered(m) \/ SenderCancelled(m)
  \/ Dispatch \/ Shutdown \/ Closing

\* The loop runs what is ready, sends end, and a failed task ends the application.
OutFairness ==
  /\ WF_outVars(Dispatch) /\ WF_outVars(Closing) /\ WF_outVars(app = "failing" /\ Shutdown)
  /\ \A m \in Messages : WF_outVars(Answered(m)) /\ WF_outVars(SenderCancelled(m))

OutSpec == OutInit /\ [][OutNext]_outVars /\ OutFairness
----------------------------------------------------------------------------
OutTypeOK ==
  /\ queue \in Seq(Messages) /\ counted \subseteq Messages /\ stopped \in BOOLEAN
  /\ sender \in [Messages -> {"idle", "entering", "waiting", "sent", "refused", "answered", "cancelled"}]
  /\ receipt \in [Messages -> {"none", "pending", "true", "false", "cancelled"}]
  /\ app \in {"up", "failing", "cancelling", "draining", "closed"}

\* A receipt that says sent is true; one that says not sent is, too, unless the
\* application was ending; and no excuse is sent for a reply whose sender will try again
\* (queue.py _send_outbound).
ReceiptsAreTrue ==
  /\ \A m \in Awaited :
       /\ receipt[m] = "true" => m \in shown
       /\ receipt[m] = "false" /\ m \in shown => app \notin {"up", "failing"}
       /\ m \notin excused
  /\ \A m \in Messages : observed[m] = "true" => m \in shown /\ m \notin excused

\* While the application is up, every reply that was taken over holds its place in the
\* lane until it was sent, and then the observer hears of it (queue.py).
NothingSlipsAway ==
  app = "up" =>
    /\ counted = ToSet(queue) \cup
         (IF dispatcher.at \in {"get", "off", "observe"} THEN {} ELSE {dispatcher.msg})
    /\ \A m \in Messages : sender[m] \in {"waiting", "sent", "answered"} =>
         m \in ToSet(queue) \/ m = dispatcher.msg \/ observed[m] # "none"

\* Replies: a receipt is true, and a reply keeps its place in the lane until it was sent and
\* the observer heard of it (bus/queue.py).
RepliesAreAccounted == OutTypeOK /\ ReceiptsAreTrue /\ NothingSlipsAway

\* Who waits for a receipt gets it, or is itself cancelled (queue.py publish_outbound_awaited).
SendersAreAnswered ==
  \A m \in Awaited : sender[m] = "waiting" ~> sender[m] # "waiting"
=============================================================================
