-------------------------- MODULE CompactionLedger --------------------------
(***************************************************************************)
(* Context compaction of one session (session/compaction_runtime.py and    *)
(* the compaction half of session/store.py).  A generation of the ledger   *)
(* is a summary of complete history units plus a copy of the units it      *)
(* retains; the cursor names the generation in force.  A checkpoint is     *)
(* committed over two files: a prepare row fences the session, an          *)
(* immutable receipt goes to the other file, one transaction inserts the   *)
(* generation, moves the cursor and drops the fence.  The process may die  *)
(* between any two of these steps and the dashboard edits and deletes      *)
(* whenever no turn is admitted.  The Markdown tasks a commit starts read  *)
(* the ledger and change nothing here.                                     *)
(*                                                                         *)
(* A unit is its sequence number and the version of its text; one written  *)
(* by a turn carries a control_turn_id, a plain one does not.              *)
(***************************************************************************)
EXTENDS Naturals, Sequences, FiniteSets, FiniteSetsExt

CONSTANTS MaxUnits,        \* bound on history units
          MaxGenerations,  \* bound on ledger generations
          MaxUpsets        \* bound on crashes, failed receipt writes and dashboard edits

VARIABLES rows,      \* messages: kind, version and whether the row exists, by seq
          ledger,    \* session_compactions, by generation
          cursor,    \* sessions.last_consolidated
          life,      \* sessions.created_at
          fence,     \* session_compaction_prepares
          receipts,  \* consolidation_writes.db: checkpoints by life and generation
          turn,      \* the admitted turn of the session and its compactor
          upsets

ledgerVars == <<rows, ledger, cursor, life, fence, receipts, turn, upsets>>

NoCheckpoint == [generation |-> 0]
AtRest == [pc |-> "idle"]

LedgerInit ==
  /\ rows = <<>> /\ ledger = <<>> /\ cursor = 0 /\ life = 1
  /\ fence = NoCheckpoint /\ receipts = {}
  /\ turn = AtRest
  /\ upsets = 0
----------------------------------------------------------------------------
\* A crash, a failed write or a request from the dashboard.
Upset == upsets < MaxUpsets /\ upsets' = upsets + 1

Seqs(units) == {u[1] : u \in units}
Current(after) == {<<s, rows[s].version>> : s \in {s \in DOMAIN rows : rows[s].live /\ s > after}}
Canonical(units) == units \subseteq Current(0)

\* The last unit a generation accounts for.
Through(g) == Max(Seqs(IF ledger[g].tail # {} THEN ledger[g].tail ELSE ledger[g].sources))

Units_NoTail(g) == IF g = 0 THEN Current(0) ELSE Current(Through(g))

\* projection: committed units after the summary of generation g.
Units(g) == IF g = 0 THEN Current(0) ELSE ledger[g].tail \cup Current(Through(g))

\* Units already told by the summary of g, which builds on its parent's.
Summarised ==
  LET told[g \in 0..Len(ledger)] ==
        IF g = 0 THEN {} ELSE Seqs(ledger[g].sources) \cup told[ledger[g].parent]
  IN  told

\* A checkpoint summarises a run of units and retains the ones after it.  The
\* first one may leave out what is older than its window.
Checkpoints(head, units) ==
  {c \in {[generation |-> head.next, parent |-> head.parent,
           sources |-> {u \in units : from <= u[1] /\ u[1] <= split},
           tail |-> {u \in units : u[1] > split}] : from \in Seqs(units), split \in Seqs(units)} :
     c.sources # {} /\ (head.parent = 0 \/ c.sources \cup c.tail = units)}

Head0 == [parent |-> cursor, next |-> Len(ledger) + 1]
ReceiptFor_AnyLife(generation) == {r \in receipts : r.checkpoint.generation = generation}

\* The key of a receipt holds the session's created_at.
ReceiptFor(generation) == {r \in receipts : r.life = life /\ r.checkpoint.generation = generation}

\* _validate_compaction_prepare_locked, persist_compaction and the checks of
\* recovery: same head, and every unit still as the checkpoint saw it.
Valid(c) == c.parent = cursor /\ c.generation = Len(ledger) + 1 /\ Canonical(c.sources \cup c.tail)

Persisted(c) ==
  /\ ledger' = Append(ledger, [parent |-> c.parent, sources |-> c.sources, tail |-> c.tail, active |-> TRUE])
  /\ cursor' = c.generation
  /\ fence' = NoCheckpoint
----------------------------------------------------------------------------
(* A turn *)

Admit ==
  /\ turn = AtRest
  /\ turn' = [pc |-> "admitted"]
  /\ UNCHANGED <<rows, ledger, cursor, life, fence, receipts, upsets>>

\* _recover_pending: a fence without a receipt is released, one with a receipt
\* is finished without Markdown, or the projection fails.
Recover ==
  /\ turn.pc = "admitted" /\ fence # NoCheckpoint
  /\ IF ReceiptFor(Len(ledger) + 1) = {}
     THEN fence' = NoCheckpoint /\ UNCHANGED <<ledger, cursor, turn>>
     ELSE LET c == (CHOOSE r \in ReceiptFor(Len(ledger) + 1) : TRUE).checkpoint IN
          IF Valid(c) /\ c = fence
          THEN Persisted(c) /\ UNCHANGED turn
          ELSE turn' = AtRest /\ UNCHANGED <<ledger, cursor, fence>>
  /\ UNCHANGED <<rows, life, receipts, upsets>>

\* The turn takes its context: the head and the units after the summary.
Project ==
  /\ turn.pc = "admitted" /\ fence = NoCheckpoint
  /\ turn' = [pc |-> "running", head |-> Head0, units |-> Units(cursor)]
  /\ UNCHANGED <<rows, ledger, cursor, life, fence, receipts, upsets>>

\* commit_checkpoint begins, once the summary is written: the fence.  It fails,
\* and the turn with it, when the units are not what SessionDB holds.
Prepare ==
  /\ turn.pc = "running" /\ Len(ledger) < MaxGenerations
  /\ \E c \in Checkpoints(turn.head, turn.units) :
       IF Valid(c)
       THEN fence' = c /\ turn' = [turn EXCEPT !.pc = "prepared"]
       ELSE turn' = AtRest /\ UNCHANGED fence
  /\ UNCHANGED <<rows, ledger, cursor, life, receipts, upsets>>

WriteReceipt ==
  /\ turn.pc = "prepared"
  /\ \/ /\ receipts' = receipts \cup {[life |-> life, checkpoint |-> fence]}
        /\ turn' = [turn EXCEPT !.pc = "received"]
        /\ UNCHANGED upsets
     \/ \* the file cannot be written: the turn fails, the fence stays
        /\ Upset
        /\ turn' = AtRest /\ UNCHANGED receipts
  /\ UNCHANGED <<rows, ledger, cursor, life, fence>>

\* acknowledge_committed_checkpoint: the compactor goes on with the tail.
Advanced(c) ==
  turn' = [pc |-> "running", head |-> [parent |-> c.generation, next |-> c.generation + 1], units |-> c.tail]

Persist ==
  /\ turn.pc = "received"
  /\ IF Valid(fence)
     THEN /\ Persisted(fence) /\ Advanced(fence)
     ELSE turn' = AtRest /\ UNCHANGED <<ledger, cursor, fence>>
  /\ UNCHANGED <<rows, life, receipts, upsets>>

\* A session excluded from memory commits to the ledger alone.
PersistExcluded ==
  /\ turn.pc = "running" /\ Len(ledger) < MaxGenerations
  /\ \E c \in Checkpoints(turn.head, turn.units) :
       IF Valid(c) /\ fence = NoCheckpoint
       THEN Persisted(c) /\ Advanced(c)
       ELSE turn' = AtRest /\ UNCHANGED <<ledger, cursor, fence>>
  /\ UNCHANGED <<rows, life, receipts, upsets>>

Unit(kind) == [kind |-> kind, version |-> 0, live |-> TRUE]

\* The transcript of the turn, or nothing when it failed.
EndTurn ==
  /\ turn.pc = "running"
  /\ turn' = AtRest
  /\ rows' \in {rows} \cup (IF Len(rows) < MaxUnits THEN {Append(rows, Unit("turn"))} ELSE {})
  /\ UNCHANGED <<ledger, cursor, life, fence, receipts, upsets>>

\* A message no turn owns.
AppendPlain ==
  /\ Len(rows) < MaxUnits
  /\ rows' = Append(rows, Unit("plain"))
  /\ UNCHANGED <<ledger, cursor, life, fence, receipts, turn, upsets>>
----------------------------------------------------------------------------
(* The dashboard *)

Editable_Fenced == turn = AtRest /\ Upset

\* store.py _require_no_pending_compaction_prepare and _require_sessions_not_admitted.
Editable == turn = AtRest /\ fence = NoCheckpoint /\ Upset

EditMessage ==
  /\ Editable
  /\ \E s \in DOMAIN rows : rows[s].live /\ rows' = [rows EXCEPT ![s].version = @ + 1]
  /\ UNCHANGED <<ledger, cursor, life, fence, receipts, turn>>

DeleteMessage ==
  /\ Editable
  /\ \E s \in DOMAIN rows :
       rows[s].live /\ rows[s].kind = "plain" /\ rows' = [rows EXCEPT ![s].live = FALSE, ![s].version = 0]
  /\ UNCHANGED <<ledger, cursor, life, fence, receipts, turn>>

Invalid_HitOnly(s) ==
  {g \in DOMAIN ledger : ledger[g].active /\ s \in Seqs(ledger[g].sources \cup ledger[g].tail)}

\* _invalidate_compactions_for_messages_locked: the first active generation that
\* saw the unit, and every later one.
Invalid(s) ==
  LET hit == {g \in DOMAIN ledger : ledger[g].active /\ s \in Seqs(ledger[g].sources \cup ledger[g].tail)}
  IN  {g \in DOMAIN ledger : ledger[g].active /\ \E h \in hit : h <= g}

DeleteInteraction ==
  /\ Editable
  /\ \E s \in DOMAIN rows :
       LET kept == {g \in DOMAIN ledger : ledger[g].active} \ Invalid(s) IN
       /\ rows[s].live /\ rows[s].kind = "turn"
       /\ rows' = [rows EXCEPT ![s].live = FALSE, ![s].version = 0]
       /\ ledger' = [g \in DOMAIN ledger |-> [ledger[g] EXCEPT !.active = g \in kept]]
       /\ cursor' = IF Invalid(s) = {} THEN cursor ELSE Max({0} \cup kept)
  /\ UNCHANGED <<life, fence, receipts, turn>>

\* The whole session goes, and one of the same key may be created later; the
\* receipts stay.
DeleteSession ==
  /\ Editable
  /\ rows' = <<>> /\ ledger' = <<>> /\ cursor' = 0 /\ life' = life + 1
  /\ UNCHANGED <<fence, receipts, turn>>
----------------------------------------------------------------------------
Crash ==
  /\ Upset
  /\ turn' = AtRest
  /\ UNCHANGED <<rows, ledger, cursor, life, fence, receipts>>

LedgerNext ==
  \/ Admit \/ Recover \/ Project \/ Prepare \/ WriteReceipt \/ Persist \/ PersistExcluded
  \/ EndTurn \/ AppendPlain
  \/ EditMessage \/ DeleteMessage \/ DeleteInteraction \/ DeleteSession
  \/ Crash

LedgerSpec == LedgerInit /\ [][LedgerNext]_ledgerVars
----------------------------------------------------------------------------
(* Properties *)

LedgerTypeOK ==
  /\ cursor \in 0..Len(ledger) /\ Len(ledger) <= MaxGenerations
  /\ life \in 1..(MaxUpsets + 1) /\ upsets \in 0..MaxUpsets
  /\ turn.pc \in {"idle", "admitted", "running", "prepared", "received"}
  /\ turn.pc \in {"prepared", "received"} => fence # NoCheckpoint
  /\ \A r \in receipts : r.life <= life

\* The active generations are the line of ancestors of the cursor, after any
\* deletions: get_active_compaction and get_compaction_head never raise, and
\* no summary in force builds on one that was withdrawn (store.py:2145).
CursorEndsTheLine ==
  LET active == {g \in DOMAIN ledger : ledger[g].active} IN
  /\ cursor = Max({0} \cup active)
  /\ \A g \in active : ledger[g].parent = Max({0} \cup {h \in active : h < g})

\* A prompt tells every unit of the history once: in the summary, in the
\* retained copy or after it; and it tells no interaction the user deleted
\* (compaction_runtime.py projection).
ProjectionIsExact ==
  LET told == Summarised[cursor]
      rest == Seqs(Units(cursor))
  IN  /\ told \cap rest = {}
      /\ \A g \in DOMAIN ledger : Seqs(ledger[g].sources) \cap Summarised[ledger[g].parent] = {}
      /\ \A s \in DOMAIN rows : rows[s].live /\ (\A t \in told : t <= s) => s \in told \cup rest
      /\ \A s \in told \cup rest : rows[s].kind = "turn" => rows[s].live

\* Whatever step a commit was cut off after, the next projection can release or
\* finish it: nothing moved under the fence (compaction_runtime.py:152).
FenceCanBeCleared ==
  fence # NoCheckpoint =>
    /\ Valid(fence)
    /\ \A r \in ReceiptFor(Len(ledger) + 1) : r.checkpoint = fence
=============================================================================
