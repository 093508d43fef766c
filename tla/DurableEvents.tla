---------------------------- MODULE DurableEvents ----------------------------
(***************************************************************************)
(* Durable events of one mobile device (infra/mobile_realtime: storage.py, *)
(* inbox.py, gateway.py).  Every event gets the device's next sequence     *)
(* number and a row of its inbox; a connection first replays a frozen      *)
(* window of rows, closed by sync.completed or replaced by                 *)
(* sync.reset_required, then drains the events published meanwhile.  The   *)
(* device acknowledges cumulatively and acknowledged rows are deleted.     *)
(* What a replaced connection still does has no effect on this state, so   *)
(* only the last one is kept.  The device is external: it handles frames   *)
(* in order, keeps the number of the last and, on a reset, fetches all     *)
(* that was published so far.                                              *)
(***************************************************************************)
EXTENDS Integers, Sequences, FiniteSets, SequencesExt

CONSTANTS MaxEvents,    \* bound on published events
          MaxSeq,       \* bound on sequence numbers
          MaxQueue,     \* _MAX_PENDING_CONNECTION_EVENTS
          MaxFaults     \* bound on lost links, restarts, losses and rollbacks

VARIABLES db,         \* rows and cursors of the device
          published,  \* number of events published so far
          conn,       \* ActiveMobileConnection of the device
          cmd,        \* the command the connection handles
          link,       \* the device's socket is up
          wire,       \* frames on it
          device,     \* last: last number handled; known: events it has
          outgrown,   \* the rows were rolled back behind the device and it was not told
          eventFaults

eventVars == <<db, published, conn, cmd, link, wire, device, outgrown, eventFaults>>

NoFrame == [seq |-> 0, type |-> "none", id |-> 0]
Frame(seq, type, id) == [seq |-> seq, type |-> type, id |-> id]
NoConn == [registered |-> FALSE, step |-> "none", window |-> <<>>, ready |-> FALSE,
           queue |-> <<>>, drain |-> "idle", frame |-> NoFrame, barrier |-> 0]
NoCmd == [pc |-> "idle", barrier |-> 0]

EventInit ==
  /\ db = [inbox |-> {}, next |-> 1, sent |-> 0, acked |-> 0, log |-> {}]
  /\ published = 0
  /\ conn = NoConn /\ cmd = NoCmd /\ link = FALSE /\ wire = <<>>
  /\ device = [last |-> 0, known |-> {}]
  /\ outgrown = FALSE /\ eventFaults = 0
----------------------------------------------------------------------------
(* Storage.  log is inbox with the rows an acknowledgement deleted. *)

Append1(d, type, id) ==
  LET row == Frame(d.next, type, id)
  IN  [d EXCEPT !.inbox = @ \cup {row}, !.log = @ \cup {row}, !.next = @ + 1]
After(d, seq) == {row \in d.inbox : row.seq > seq}

\* The rows by their numbers: the i-th has i rows up to it.
InOrder(rows) ==
  [i \in 1..Cardinality(rows) |-> CHOOSE row \in rows : Cardinality({r \in rows : r.seq <= row.seq}) = i]

MarkSent(d, seq) == [d EXCEPT !.sent = seq]

Contiguous_FirstOnly(d, after, through) ==
  through = after \/ \E row \in d.inbox : row.seq = after + 1

Contiguous(d, after, through) ==
  Cardinality({row \in d.inbox : row.seq > after /\ row.seq <= through}) = through - after

\* rebase_cursor_with_durable_event: the numbering continues where the device is.
Rebase(seq) ==
  LET row == Frame(seq + 1, "reset", 0)
  IN  [inbox |-> {row}, next |-> seq + 2, sent |-> seq, acked |-> seq, log |-> {row}]
----------------------------------------------------------------------------
(* Publication and delivery *)

\* _schedule_delivery_locked: one drain task at a time.
Scheduled(c) ==
  IF c.ready /\ c.queue # <<>> /\ c.drain = "idle" THEN [c EXCEPT !.drain = "take"] ELSE c

\* Off the table, a connection has no events and no barrier any more.
TakenOff(c) == [c EXCEPT !.registered = FALSE, !.ready = FALSE, !.queue = <<>>, !.barrier = 0]

\* A full queue costs the connection, not the event.
Queued(c, frame) ==
  IF ~c.registered THEN c
  ELSE IF Len(c.queue) >= MaxQueue THEN TakenOff(c)
  ELSE Scheduled([c EXCEPT !.queue = Append(@, frame)])

PublishEvent ==
  /\ published < MaxEvents /\ db.next <= MaxSeq
  /\ published' = published + 1
  /\ db' = Append1(db, "event", published + 1)
  /\ conn' = Queued(conn, Frame(db.next, "event", published + 1))
  /\ UNCHANGED <<cmd, link, wire, device, outgrown, eventFaults>>

\* What is sent into a dead socket is lost.
Sent(frames) == wire' = IF link THEN wire \o frames ELSE wire

DrainTakes ==
  /\ conn.drain = "take"
  /\ conn' = IF ~conn.registered \/ conn.queue = <<>> THEN [conn EXCEPT !.drain = "idle"]
             ELSE [conn EXCEPT !.drain = "send", !.frame = Head(conn.queue), !.queue = Tail(@)]
  /\ UNCHANGED <<db, published, cmd, link, wire, device, outgrown, eventFaults>>

DrainSends ==
  /\ conn.drain = "send"
  /\ \/ Sent(<<conn.frame>>) /\ conn' = [conn EXCEPT !.drain = "mark"]
     \/ ~link /\ conn' = [TakenOff(conn) EXCEPT !.drain = "idle", !.frame = NoFrame] /\ UNCHANGED wire
  /\ UNCHANGED <<db, published, cmd, link, device, outgrown, eventFaults>>

Stops_Early(c) == c.barrier > 0 /\ c.frame.seq + 1 >= c.barrier

Stops(c) == c.barrier > 0 /\ c.frame.seq >= c.barrier

\* Only the registered connection advances the sent cursor; at the barrier of a
\* command the task ends and leaves the socket to the reply.
DrainMarks ==
  /\ conn.drain = "mark"
  /\ db' = IF conn.registered THEN MarkSent(db, conn.frame.seq) ELSE db
  /\ conn' = [conn EXCEPT !.drain = IF conn.registered /\ ~Stops(conn) THEN "take" ELSE "idle",
                          !.frame = NoFrame]
  /\ UNCHANGED <<published, cmd, link, wire, device, outgrown, eventFaults>>
----------------------------------------------------------------------------
(* Connecting *)

EventFault == eventFaults < MaxFaults /\ eventFaults' = eventFaults + 1

\* A window [after, through] to replay and the frame that closes it.
Window(after, through, frame) == [after |-> after, through |-> through, terminal |-> frame]
Reset(d, last) == [db |-> Append1(d, "reset", 0), window |-> Window(last, last, Frame(d.next, "reset", 0))]

\* _prepare_resume, in the order of its checks.  Between the second and the
\* third it refuses rows that outlived the retention or hold an identity an old
\* version wrote.
Refused(d, last) == IF last \in d.acked..(d.next - 1) /\ d.inbox # {} THEN {Reset(d, last)} ELSE {}

Prepared(d, last) ==
  LET through == d.next - 1
      rows == InOrder(After(d, last))
      first == Head(rows)
  IN  IF last < d.acked THEN Reset(d, last)
      ELSE IF last > through
      THEN [db |-> Rebase(last), window |-> Window(last, last, Frame(last + 1, "reset", 0))]
      ELSE IF rows # <<>> /\ first.type = "reset"
      THEN IF ~Contiguous(d, first.seq, through) THEN Reset(d, last)
           ELSE IF through = first.seq THEN [db |-> d, window |-> Window(last, last, first)]
           ELSE [db |-> d, window |-> Window(first.seq - 1, through - 1, Last(rows))]
      ELSE IF ~Contiguous(d, last, through) THEN Reset(d, last)
      ELSE [db |-> Append1(d, "completed", 0), window |-> Window(last, through, Frame(d.next, "completed", 0))]

\* The device connects (again); events published from here on are queued.
Resume ==
  /\ ~link /\ db.next <= MaxSeq /\ device.last < MaxSeq
  /\ \E p \in {Prepared(db, device.last)} \cup Refused(db, device.last) :
       /\ IF p = Prepared(db, device.last) THEN UNCHANGED eventFaults ELSE EventFault
       /\ db' = p.db
       /\ conn' = [NoConn EXCEPT !.registered = TRUE, !.step = "send", !.window = p.window]
  /\ outgrown' = (outgrown /\ device.last < db.next)
  /\ link' = TRUE /\ wire' = <<>> /\ cmd' = NoCmd
  /\ UNCHANGED <<published, device>>

\* _send_resume_window, under the connection's send lock.
ResumeSends ==
  /\ conn.step = "send"
  /\ LET w == conn.window
         replay == InOrder({row \in After(db, w.after) : row.seq <= w.through})
     IN  Sent(Append(replay, w.terminal))
  /\ conn' = [conn EXCEPT !.step = "mark"]
  /\ UNCHANGED <<db, published, cmd, link, device, outgrown, eventFaults>>

ResumeMarks ==
  /\ conn.step = "mark"
  /\ db' = IF conn.registered THEN MarkSent(db, conn.window.terminal.seq) ELSE db
  /\ conn' = [conn EXCEPT !.step = "ready"]
  /\ UNCHANGED <<published, cmd, link, wire, device, outgrown, eventFaults>>

ResumeReady ==
  /\ conn.step = "ready"
  /\ conn' = IF conn.registered
             THEN Scheduled([conn EXCEPT !.step = "up", !.window = <<>>, !.ready = TRUE])
             ELSE [conn EXCEPT !.step = "up", !.window = <<>>]
  /\ UNCHANGED <<db, published, cmd, link, wire, device, outgrown, eventFaults>>

\* The receive loop of a connection ends: its socket died, it was taken off the
\* table, or a command failed on it.
ConnectionEnds ==
  /\ conn.step # "none" /\ (~link \/ ~conn.registered)
  /\ conn' = NoConn /\ cmd' = NoCmd /\ link' = FALSE /\ wire' = <<>>
  /\ UNCHANGED <<db, published, device, outgrown, eventFaults>>
----------------------------------------------------------------------------
(* Frames of the device *)

DeviceHandles ==
  /\ link /\ wire # <<>>
  /\ LET f == Head(wire) IN
     device' = [last |-> f.seq,
                known |-> CASE f.type = "event" -> device.known \cup {f.id}
                            [] f.type = "reset" -> 1..published
                            [] f.type = "completed" -> device.known]
  /\ outgrown' = (outgrown /\ Head(wire).type # "reset")
  /\ wire' = Tail(wire)
  /\ UNCHANGED <<db, published, conn, cmd, link, eventFaults>>

\* _acknowledge_active_connection: an acknowledgement of what is not yet marked
\* as sent closes the connection.
Acknowledge(seq) ==
  /\ link /\ conn.step = "up" /\ conn.registered /\ cmd = NoCmd
  /\ seq \in db.acked..device.last
  /\ IF seq > db.sent
     THEN link' = FALSE /\ wire' = <<>> /\ UNCHANGED db
     ELSE /\ db' = [db EXCEPT !.acked = seq, !.inbox = After(db, seq)]
          /\ UNCHANGED <<link, wire>>
  /\ UNCHANGED <<published, conn, cmd, device, outgrown, eventFaults>>

\* _handle_command, once the command itself is done: the reply waits for the
\* events that were published by then.
CommandHandled ==
  /\ link /\ conn.step = "up" /\ conn.registered /\ cmd = NoCmd
  /\ cmd' = [pc |-> "flush", barrier |-> db.next - 1]
  /\ conn' = IF db.sent < db.next - 1 THEN [conn EXCEPT !.barrier = db.next - 1] ELSE conn
  /\ UNCHANGED <<db, published, link, wire, device, outgrown, eventFaults>>

FlushEnds ==
  /\ cmd.pc = "flush" /\ conn.registered /\ db.sent >= cmd.barrier
  /\ cmd' = [cmd EXCEPT !.pc = "reply"]
  /\ UNCHANGED <<db, published, conn, link, wire, device, outgrown, eventFaults>>

CommandReplies ==
  /\ cmd.pc = "reply"
  /\ conn' = IF conn.barrier # cmd.barrier THEN conn
             ELSE LET c == [conn EXCEPT !.barrier = 0] IN IF c.registered THEN Scheduled(c) ELSE c
  /\ cmd' = NoCmd
  /\ UNCHANGED <<db, published, link, wire, device, outgrown, eventFaults>>
----------------------------------------------------------------------------
(* Faults *)

LinkDrops ==
  /\ link /\ EventFault
  /\ link' = FALSE /\ wire' = <<>>
  /\ UNCHANGED <<db, published, conn, cmd, device, outgrown>>

ServerRestarts ==
  /\ EventFault
  /\ conn' = NoConn /\ cmd' = NoCmd /\ link' = FALSE /\ wire' = <<>>
  /\ UNCHANGED <<db, published, device, outgrown>>

\* The device starts from nothing, or from an older state of its own.
DeviceForgets ==
  /\ ~link /\ device.last > 0 /\ EventFault
  /\ device' = [last |-> 0, known |-> {}]
  /\ outgrown' = FALSE
  /\ UNCHANGED <<db, published, conn, cmd, link, wire>>

\* A row of the file is gone; the file is restored from a copy.  The server is down.
Offline == conn = NoConn /\ ~link

RowLost ==
  /\ Offline /\ EventFault
  /\ \E row \in db.inbox : db' = [db EXCEPT !.inbox = @ \ {row}]
  /\ UNCHANGED <<published, conn, cmd, link, wire, device, outgrown>>

RolledBack ==
  /\ Offline /\ EventFault
  /\ \E next \in 1..(db.next - 1), acked \in 0..db.acked :
       LET log == {row \in db.log : row.seq < next} IN
       /\ acked < next
       /\ db' = [inbox |-> {row \in log : row.seq > acked}, next |-> next, acked |-> acked,
                 sent |-> IF db.sent < next THEN db.sent ELSE next - 1, log |-> log]
       /\ outgrown' = (outgrown \/ device.last >= next)
  /\ UNCHANGED <<published, conn, cmd, link, wire, device>>

EventNext ==
  \/ PublishEvent \/ DrainTakes \/ DrainSends \/ DrainMarks
  \/ Resume \/ ResumeSends \/ ResumeMarks \/ ResumeReady \/ ConnectionEnds
  \/ DeviceHandles \/ (\E seq \in 0..MaxSeq : Acknowledge(seq))
  \/ CommandHandled \/ FlushEnds \/ CommandReplies
  \/ LinkDrops \/ ServerRestarts \/ DeviceForgets \/ RowLost \/ RolledBack

EventSpec == EventInit /\ [][EventNext]_eventVars
----------------------------------------------------------------------------
(* Properties *)

EventTypeOK ==
  /\ db.next \in 1..(MaxSeq + 3) /\ db.sent < db.next /\ db.acked <= db.sent
  /\ \A row \in db.inbox : row.seq > db.acked /\ row.seq < db.next
  /\ conn.drain \in {"idle", "take", "send", "mark"} /\ Len(conn.queue) <= MaxQueue
  /\ cmd.pc \in {"idle", "flush", "reply"}
  /\ link \in BOOLEAN /\ outgrown \in BOOLEAN

\* The device has every event numbered up to the last frame it handled, by its
\* own frame or by a reset, over any connections, losses and restarts (gateway.py
\* _prepare_resume: "a window with a gap must be rebuilt").
NothingMissed == \A row \in db.log : row.type = "event" /\ row.seq <= device.last => row.id \in device.known
NothingIsMissed == outgrown \/ NothingMissed

\* While a command waits for its events, a task is sending them: the runtime error
\* "the barrier has no active task" is never raised (gateway.py:2184).
BarrierHasATask ==
  cmd.pc = "flush" /\ conn.registered /\ db.sent < cmd.barrier => conn.drain # "idle"
=============================================================================
