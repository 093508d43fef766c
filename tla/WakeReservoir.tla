---------------------------- MODULE WakeReservoir ----------------------------
(***************************************************************************)
(* The reservoir of proactive events (plugins/wake_proactive/runtime.py    *)
(* and state.py).  One loop: tell the sources what is settled, fetch what  *)
(* they offer, store what is new, let an alert or a page of content be     *)
(* sent, and settle what was sent.  A row outlives its sending, so that    *)
(* a source which offers an event again finds it settled; the word to the  *)
(* source waits in a table until the source takes it.  The process may die *)
(* anywhere, sends and acknowledgements may get through without an answer. *)
(* Tombstones are kept; the code drops them after thirty days.             *)
(***************************************************************************)
EXTENDS Naturals

CONSTANTS Alerts, Contents,  \* item ids: source and event id
          MaxCuts            \* bound on deaths and on answers that are lost

Items == Alerts \cup Contents

VARIABLES row,     \* reservoir_events.status
          pending, \* pending_acknowledgements: the action, by item
          tomb,    \* reservoir_tombstones
          pc,      \* where the loop is
          fresh,   \* items this turn of the loop stored first
          page,    \* items of the message being sent
          told,    \* items the source has taken an acknowledgement for
          settled, \* items whose sending is on record
          given,   \* items the loop let expire
          cuts

wakeVars == <<row, pending, tomb, pc, fresh, page, told, settled, given, cuts>>

WakeInit ==
  /\ row = [i \in Items |-> "none"] /\ pending = [i \in Items |-> "none"] /\ tomb = {}
  /\ pc = "flush" /\ fresh = {} /\ page = {}
  /\ told = {} /\ settled = {} /\ given = {} /\ cuts = 0

Cut == cuts < MaxCuts /\ cuts' = cuts + 1
Unread(items) == {i \in items : row[i] = "unread"}
Owed == {i \in Items : pending[i] # "none"}
----------------------------------------------------------------------------
(* Acknowledgements *)

\* mark_acknowledged: an expired item leaves a tombstone for its row.
Acknowledged(items) ==
  LET expired == {i \in items : pending[i] = "expire"} IN
  /\ tomb' = tomb \cup expired
  /\ row' = [i \in Items |-> IF i \in expired /\ row[i] = "pending_expiry" THEN "none" ELSE row[i]]
  /\ pending' = [i \in Items |-> IF i \in items THEN "none" ELSE pending[i]]

Flushed_Anyway ==
  \E answered \in SUBSET Owed :
    /\ told' = told \cup answered
    /\ Acknowledged(Owed)
    /\ IF answered = Owed THEN UNCHANGED cuts ELSE Cut

\* _flush_pending_acknowledgements: what a source does not answer stays, whether
\* or not it took the call.
Flushed ==
  \E answered \in SUBSET Owed : \E lost \in SUBSET (Owed \ answered) :
    /\ told' = told \cup answered \cup lost
    /\ Acknowledged(answered)
    /\ IF answered = Owed THEN UNCHANGED cuts ELSE Cut

\* The flush that opens a turn of the loop, and the one after ingest.
Flush ==
  /\ pc \in {"flush", "stored"}
  /\ Flushed
  /\ pc' = IF pc = "flush" THEN "fetch" ELSE "decide"
  /\ UNCHANGED <<fresh, page, settled, given>>
----------------------------------------------------------------------------
Kept_StatusReset(i) == "unread"

\* ON CONFLICT(item_id): payload and score are replaced, the status is kept.
Kept(i) == IF row[i] = "none" THEN "unread" ELSE row[i]

\* ingest_with_ids of what the sources offer, which may be anything again.
Ingest ==
  /\ pc = "fetch"
  /\ \E offered \in SUBSET Items :
       LET taken == offered \ tomb IN
       /\ row' = [i \in Items |-> IF i \in taken THEN Kept(i) ELSE row[i]]
       /\ fresh' = {i \in taken : row[i] = "none"}
  /\ pc' = "stored"
  /\ UNCHANGED <<pending, tomb, page, told, settled, given, cuts>>

\* The sources cannot be read: this turn of the loop ends.
FetchFails ==
  /\ pc = "fetch" /\ pc' = "flush"
  /\ UNCHANGED <<row, pending, tomb, fresh, page, told, settled, given, cuts>>
----------------------------------------------------------------------------
(* decide_content *)

\* The first alert is sent, whatever else there is; a busy chat ends the turn.
DecideAlert ==
  /\ pc = "decide"
  /\ \/ pc' = "flush" /\ UNCHANGED page
     \/ pc' = "send" /\ \E a \in Unread(Alerts) : page' = {a}
  /\ UNCHANGED <<row, pending, tomb, fresh, told, settled, given, cuts>>

Queued(action, items) ==
  [i \in Items |-> IF i \in items /\ pending[i] # "expire" THEN action ELSE pending[i]]

\* queue_expiration of content that is past its residence and below the floor.
Expire ==
  /\ pc = "decide" /\ Unread(Alerts) = {}
  /\ \E old \in SUBSET (Unread(Contents) \ fresh) \ {{}} :
       /\ row' = [i \in Items |-> IF i \in old THEN "pending_expiry" ELSE row[i]]
       /\ pending' = Queued("expire", old)
       /\ given' = given \cup old
  /\ pc' = "expired"
  /\ UNCHANGED <<tomb, fresh, page, told, settled, cuts>>

FlushExpired ==
  /\ pc = "expired" /\ pc' = "choose"
  /\ Flushed
  /\ UNCHANGED <<fresh, page, settled, given>>

\* New content may wake the model, which shares some of the page or skips.
DecideContent ==
  /\ pc \in {"decide", "choose"} /\ Unread(Alerts) = {}
  /\ \/ pc' = "flush" /\ UNCHANGED page
     \/ /\ Unread(Contents) \cap fresh # {}
        /\ page' \in SUBSET Unread(Contents) \ {{}}
        /\ pc' = "send"
  /\ UNCHANGED <<row, pending, tomb, fresh, told, settled, given, cuts>>
----------------------------------------------------------------------------
(* handle_proactive_turn *)

\* The channel answers, or not: then what it did is not known.
Send ==
  /\ pc = "send"
  /\ \/ pc' = "sent" /\ UNCHANGED <<page, cuts>>
     \/ pc' = "flush" /\ page' = {} /\ Cut
  /\ UNCHANGED <<row, pending, tomb, fresh, told, settled, given>>

\* consume_and_queue_ack, the effect of a successful send, in one transaction;
\* an error of it is logged.
Consume ==
  /\ pc = "sent"
  /\ \/ /\ row' = [i \in Items |-> IF i \in page /\ row[i] # "pending_expiry" THEN "consumed" ELSE row[i]]
        /\ pending' = [i \in Items |-> IF i \in page /\ pending[i] = "none" THEN "consume" ELSE pending[i]]
        /\ settled' = settled \cup page
        /\ pc' = "consumed" /\ UNCHANGED cuts
     \/ Cut /\ pc' = "flush" /\ UNCHANGED <<row, pending, settled>>
  /\ page' = {}
  /\ UNCHANGED <<tomb, fresh, told, given>>

FlushConsumed ==
  /\ pc = "consumed" /\ pc' = "flush"
  /\ Flushed
  /\ UNCHANGED <<fresh, page, settled, given>>

\* The process dies and the next one starts from the tables.
Die ==
  /\ pc # "flush" /\ Cut
  /\ pc' = "flush" /\ fresh' = {} /\ page' = {}
  /\ UNCHANGED <<row, pending, tomb, told, settled, given>>

WakeNext ==
  \/ Flush \/ Ingest \/ FetchFails
  \/ DecideAlert \/ Expire \/ FlushExpired \/ DecideContent
  \/ Send \/ Consume \/ FlushConsumed
  \/ Die

WakeSpec == WakeInit /\ [][WakeNext]_wakeVars
----------------------------------------------------------------------------
(* Properties *)

WakeTypeOK ==
  /\ row \in [Items -> {"none", "unread", "consumed", "pending_expiry"}]
  /\ pending \in [Items -> {"none", "consume", "expire"}]
  /\ pc \in {"flush", "fetch", "stored", "decide", "expired", "choose", "send", "sent", "consumed"}
  /\ page # {} => pc \in {"send", "sent"}
  /\ \A i \in Items : row[i] = "pending_expiry" <=> pending[i] = "expire"

\* What was sent or let go is never sent again, however often its source offers
\* it (state.py:503, 928).
NothingIsToldTwice == page \cap (settled \cup given) = {}

\* A source hears of what was sent or let go and of nothing else, and what it
\* has not taken yet is still on the list (state.py:893, 1028).
SourcesHearOfAll ==
  /\ told \subseteq settled \cup given
  /\ settled \cup given \subseteq told \cup Owed
=============================================================================
