----------------------------- MODULE TurnReplay -----------------------------
(***************************************************************************)
(* The replay log of agent/control/runtime.py and the subscribers of a     *)
(* turn: _publish with its two trims, _finish_streams, _fail_streams, the  *)
(* expiry of a terminal replay and subscribe.                              *)
(*                                                                         *)
(* An event is its sequence number and its encoded size.  None of these    *)
(* methods holds an await, except that a subscriber waits on its queue, so *)
(* each is one action.  _history, _history_sequences and _replay_order     *)
(* hold the same events; `log` is that one ordered collection.             *)
(***************************************************************************)
EXTENDS Naturals, Sequences

LOCAL INSTANCE SequencesExt

CONSTANTS
    Turns,         \* turn ids
    Subscribers,   \* one call of subscribe each
    Sizes,         \* encoded sizes of an event
    PerTurnEvents, \* replay_events_per_turn
    PerTurnBytes,  \* replay_bytes_per_turn
    GlobalBytes,   \* replay_bytes_global
    QueueSize,     \* subscriber_queue_size
    MaxEvents,     \* bound: events published by one turn
    NoCursor,      \* after_event = None
    Notice,        \* replay/truncated or replay/expired, with its snapshot
    End,           \* _STREAM_END
    Error          \* SlowConsumerError, or the turn's fatal error

ASSUME SizesAssumption == Sizes \subseteq Nat \ {0}
ASSUME LimitsAssumption ==
    {PerTurnEvents, PerTurnBytes, GlobalBytes, QueueSize} \subseteq Nat \ {0}
ASSUME MarkersAssumption == {NoCursor, Notice, End, Error} \cap Nat = {}

VARIABLES
    life,       \* none, live, ended (terminal), fatal (no terminal), gone (expired)
    next,       \* _next_event_sequence
    log,        \* _replay_order: the retained events, oldest first
    truncated,  \* _history_truncated
    queue,      \* the queue of each subscriber
    attached,   \* subscribers in _subscribers of their turn
    sub         \* what each subscriber asked for and has seen

replayVars == <<life, next, log, truncated, queue, attached, sub>>

Bytes(events) == FoldLeft(LAMBDA sum, e : sum + e.size, 0, events)
Of(t, events) == SelectSeq(events, LAMBDA e : e.turn = t)

ReplayInit ==
    /\ life = [t \in Turns |-> "none"]
    /\ next = [t \in Turns |-> 0]
    /\ log = <<>>
    /\ truncated = {}
    /\ queue = [s \in Subscribers |-> <<>>]
    /\ attached = {}
    /\ sub = [s \in Subscribers |-> [state |-> "idle"]]

-----------------------------------------------------------------------------
\* The log

\* The longest suffix of events that Fits; the code drops the oldest one by one.
LongestFitting(events, Fits(_)) ==
    LET keep == CHOOSE k \in 0..Len(events) :
            /\ Fits(SubSeq(events, k + 1, Len(events)))
            /\ \A j \in 0..(k - 1) : ~Fits(SubSeq(events, j + 1, Len(events)))
    IN  SubSeq(events, keep + 1, Len(events))

\* _trim_turn_replay
TrimTurn(t, events) ==
    LET kept == LongestFitting(Of(t, events),
                    LAMBDA h : Len(h) <= PerTurnEvents /\ Bytes(h) <= PerTurnBytes)
    IN  SelectSeq(events, LAMBDA e : e.turn = t => e \in ToSet(kept))

\* _trim_global_replay
TrimGlobal(events) ==
    LongestFitting(events, LAMBDA all : Bytes(all) <= GlobalBytes)

\* Mutant: only the trim of the turn itself marks a history as truncated.
Retain_MarksOwn(t, size) ==
    LET own == TrimTurn(t, Append(log, [turn |-> t, seq |-> next[t], size |-> size]))
        all == TrimGlobal(own)
    IN  /\ log' = all
        /\ truncated' = truncated \cup
             {u \in {t} : Len(Of(u, own)) < next[u] + 1}

\* Mutant: the global trim runs before the event is appended.
Retain_TrimsFirst(t, size) ==
    LET own == TrimTurn(t, TrimGlobal(log))
        all == Append(own, [turn |-> t, seq |-> next[t], size |-> size])
    IN  /\ log' = all
        /\ truncated' = truncated
             \cup {u \in Turns : Len(Of(u, own)) < Len(Of(u, log))}

\* The event is appended, both trims run, and whoever lost one is marked.
Retain(t, size) ==
    LET own == TrimTurn(t, Append(log, [turn |-> t, seq |-> next[t], size |-> size]))
        all == TrimGlobal(own)
    IN  /\ log' = all
        /\ truncated' = truncated
             \cup {u \in {t} : Len(Of(u, own)) < next[u] + 1}
             \cup {u \in Turns : Len(Of(u, all)) < Len(Of(u, own))}

\* put_nowait; a full queue is emptied for the error that ends the stream.
Offer(s, items) ==
    IF Len(queue[s]) + Len(items) <= sub[s].capacity
    THEN queue[s] \o items
    ELSE <<Error>>

\* Mutant: what does not fit into a queue is dropped, the subscriber stays.
Broadcast_Drops(t, items, last) ==
    LET mine == {s \in attached : sub[s].turn = t}
        fits == {s \in mine : Len(queue[s]) + Len(items) <= sub[s].capacity}
    IN  /\ queue' = [s \in Subscribers |->
                        IF s \in fits THEN queue[s] \o items ELSE queue[s]]
        /\ attached' = attached \ (IF last THEN mine ELSE {})

\* The subscribers in _subscribers[t] are offered items; one that overflows,
\* and everybody after the end, leaves.
Broadcast(t, items, last) ==
    LET mine == {s \in attached : sub[s].turn = t}
        over == {s \in mine : Len(queue[s]) + Len(items) > sub[s].capacity}
    IN  /\ queue' = [s \in Subscribers |->
                        IF s \in mine THEN Offer(s, items) ELSE queue[s]]
        /\ attached' = attached \ (IF last THEN mine ELSE over)

-----------------------------------------------------------------------------
\* The turn

\* start_turn publishes turn/queued; the user's item follows as a Publish.
Start(t, size) ==
    /\ life[t] = "none"
    /\ life' = [life EXCEPT ![t] = "live"]
    /\ next' = [next EXCEPT ![t] = 1]
    /\ Retain(t, size)
    /\ UNCHANGED <<queue, attached, sub>>

\* _publish of an item or a delta
Publish(t, size) ==
    /\ life[t] = "live"
    /\ next[t] < MaxEvents - 1
    /\ next' = [next EXCEPT ![t] = @ + 1]
    /\ Retain(t, size)
    /\ Broadcast(t, <<next[t]>>, FALSE)
    /\ UNCHANGED <<life, sub>>

\* turn/completed and _finish_streams, one step after the terminal was written
FinishStreams(t, size) ==
    /\ life[t] = "live"
    /\ life' = [life EXCEPT ![t] = "ended"]
    /\ next' = [next EXCEPT ![t] = @ + 1]
    /\ Retain(t, size)
    /\ Broadcast(t, <<next[t], End>>, TRUE)
    /\ UNCHANGED sub

\* _fail_streams: no terminal could be written.
FailStreams(t) ==
    /\ life[t] = "live"
    /\ life' = [life EXCEPT ![t] = "fatal"]
    /\ queue' = [s \in Subscribers |->
                    IF s \in attached /\ sub[s].turn = t THEN <<Error>> ELSE queue[s]]
    /\ UNCHANGED <<next, log, truncated, attached, sub>>

\* _gc_terminal_replay: the terminal replay is older than its ttl.
Expire(t) ==
    /\ life[t] = "ended"
    /\ life' = [life EXCEPT ![t] = "gone"]
    /\ log' = SelectSeq(log, LAMBDA e : e.turn # t)
    /\ truncated' = truncated \ {t}
    /\ UNCHANGED <<next, queue, attached, sub>>

-----------------------------------------------------------------------------
\* subscribe

\* The sequence numbers the log still has for t, from the cursor on.
After(t, cursor) ==
    LET kept == [i \in DOMAIN Of(t, log) |-> Of(t, log)[i].seq]
    IN  IF cursor = NoCursor THEN kept
        ELSE SelectSeq(kept, LAMBDA n : n > cursor)

\* replay_truncated
Lost(t, cursor) ==
    IF cursor = NoCursor THEN t \in truncated
    ELSE Len(Of(t, log)) > 0 /\ cursor + 1 < Of(t, log)[1].seq

\* Mutant: the end of a finished turn is not put into the new queue.
Opening_NoEnd(t, cursor) ==
    IF life[t] = "gone" THEN <<Notice, End>>
    ELSE (IF Lost(t, cursor) THEN <<Notice>> ELSE <<>>) \o After(t, cursor)

\* What the new queue holds.
Opening(t, cursor) ==
    IF life[t] = "gone" THEN <<Notice, End>>
    ELSE (IF Lost(t, cursor) THEN <<Notice>> ELSE <<>>)
         \o After(t, cursor)
         \o (IF life[t] = "ended" THEN <<End>> ELSE <<>>)

Larger(a, b) == IF a > b THEN a ELSE b

\* A cursor is the number of an event that was published.
Subscribe(s, t, cursor) ==
    /\ sub[s].state = "idle"
    /\ life[t] # "none"
    /\ queue' = [queue EXCEPT ![s] = Opening(t, cursor)]
    /\ sub' = [sub EXCEPT ![s] =
                 [state |-> "open", turn |-> t, cursor |-> cursor,
                  capacity |-> Larger(QueueSize, Len(Opening(t, cursor)) + 1),
                  want |-> IF cursor = NoCursor THEN 0 ELSE cursor + 1,
                  told |-> FALSE, gap |-> FALSE]]
    /\ attached' = IF life[t] \in {"ended", "gone"} THEN attached
                   ELSE attached \cup {s}
    /\ UNCHANGED <<life, next, log, truncated>>

\* The consumer takes the next value.  `want` is the number it expects, `told`
\* that a notice announced a gap, `gap` that one went by unannounced.
Take(s) ==
    /\ sub[s].state = "open"
    /\ queue[s] # <<>>
    /\ LET v == Head(queue[s])
           missed == \/ v \in Nat /\ v # sub[s].want
                     \/ v = End /\ sub[s].want # next[sub[s].turn]
           gap == \/ sub[s].gap \/ (missed /\ ~sub[s].told)
                  \/ v \in Nat /\ v < sub[s].want
       IN  \/ /\ v \in {End, Error}
              /\ sub' = [sub EXCEPT ![s] =
                            [state |-> "over", cursor |-> sub[s].cursor, gap |-> gap]]
              /\ attached' = attached \ {s}
           \/ /\ v \notin {End, Error}
              /\ sub' = [sub EXCEPT ![s].want = IF v = Notice THEN @ ELSE v + 1,
                                    ![s].told = v = Notice, ![s].gap = gap]
              /\ attached' = attached
    /\ queue' = [queue EXCEPT ![s] = Tail(@)]
    /\ UNCHANGED <<life, next, log, truncated>>

\* The consumer goes away: the finally of subscribe.  It may ask again.
Leave(s) ==
    /\ sub[s].state # "idle"
    /\ sub' = [sub EXCEPT ![s] = [state |-> "idle"]]
    /\ queue' = [queue EXCEPT ![s] = <<>>]
    /\ attached' = attached \ {s}
    /\ UNCHANGED <<life, next, log, truncated>>

Cursors(t) == {NoCursor} \cup 0..(next[t] - 1)

ReplayNext ==
    \/ \E t \in Turns :
        \/ \E size \in Sizes : Start(t, size) \/ Publish(t, size) \/ FinishStreams(t, size)
        \/ FailStreams(t)
        \/ Expire(t)
        \/ \E s \in Subscribers, c \in Cursors(t) : Subscribe(s, t, c)
    \/ \E s \in Subscribers : Take(s) \/ Leave(s)

ReplaySpec == ReplayInit /\ [][ReplayNext]_replayVars

\* A consumer keeps taking what is in its queue.
ReplayFairSpec == ReplaySpec /\ \A s \in Subscribers : WF_replayVars(Take(s))

-----------------------------------------------------------------------------
\* Properties

Open(s) == sub[s].state = "open"

\* The values each variable may hold, the log and the queues within their
\* limits.
ReplayTypeOK ==
    /\ Bytes(log) <= GlobalBytes
    /\ \A t \in Turns :
        Len(Of(t, log)) <= PerTurnEvents /\ Bytes(Of(t, log)) <= PerTurnBytes
    /\ life \in [Turns -> {"none", "live", "ended", "fatal", "gone"}]
    /\ next \in [Turns -> 0..MaxEvents]
    /\ \A i \in DOMAIN log : log[i].turn \in Turns /\ log[i].size \in Sizes
    /\ truncated \subseteq Turns
    /\ \A s \in Subscribers : \A i \in DOMAIN queue[s] :
        queue[s][i] \in {Notice, End, Error} \/ queue[s][i] \in 0..(MaxEvents - 1)
    /\ attached \subseteq Subscribers
    /\ \A s \in Subscribers : Open(s) => Len(queue[s]) <= sub[s].capacity

\* A subscriber that asks for the whole turn sees every event in order, or is
\* told that the replay was cut, whatever other turns pushed out of the log
\* and however slowly it reads (runtime.py subscribe against the two trims).
WholeReplayIsHonest ==
    \A s \in Subscribers :
        sub[s].state # "idle" /\ sub[s].cursor = NoCursor => ~sub[s].gap

\* docs/projectneed.md SEC-008: eviction affects late requests only.  What a
\* live subscriber has not read yet is in its queue, to the last event.
LiveSubscriberMissesNothing ==
    \A s \in attached :
        Open(s) /\ (queue[s] = <<>> \/ Last(queue[s]) \in Nat) =>
            LET seen == IF queue[s] = <<>> THEN sub[s].want ELSE Last(queue[s]) + 1
            IN  sub[s].cursor = NoCursor /\ ~sub[s].told
                    => seen = next[sub[s].turn]

\* The stream of a turn that reached its terminal ends: none stays open for ever.
StreamsEnd ==
    \A s \in Subscribers : []<>~(Open(s) /\ life[sub[s].turn] \in {"ended", "gone"})

\* runtime.py:1281 and docs/projectneed.md SEC-008: a truncated replay is
\* answered with replay/truncated and a snapshot.
TruncationIsTold == \A s \in Subscribers : sub[s].state # "idle" => ~sub[s].gap

=============================================================================
