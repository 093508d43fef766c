------------------------------ MODULE MCRuntime ------------------------------
(***************************************************************************)
(* One TLC instance for what a conversation leaves behind: the record of   *)
(* its turns, the compacted history the next turn reads, and the events    *)
(* that tell a device of it.  They share nothing here: part names the one  *)
(* a behaviour runs.  Only the turns may never come to rest.               *)
(***************************************************************************)
EXTENDS MCConversationRuntime

CONSTANTS MaxUnits, MaxGenerations, MaxUpsets,
          MaxEvents, MaxSeq, MaxQueue, MaxEventFaults

\* The bounds of the instance.
ASSUME BoundsAreNumbers == {MaxUnits, MaxGenerations, MaxUpsets, MaxSeq, MaxQueue} \subseteq Nat

VARIABLES part,
          rows, ledger, cursor, life, fence, receipts, turn, upsets,
          db, published, conn, cmd, socket, wire, device, outgrown, eventFaults

Compaction == INSTANCE CompactionLedger
Events == INSTANCE DurableEvents WITH link <- socket, MaxFaults <- MaxEventFaults

ledgerVars == <<rows, ledger, cursor, life, fence, receipts, turn, upsets>>
eventVars == <<db, published, conn, cmd, socket, wire, device, outgrown, eventFaults>>
runtimeVars == <<part, vars, ledgerVars, eventVars>>

RuntimeInit ==
  /\ part \in {"turns", "compaction", "events"}
  /\ Init /\ Compaction!LedgerInit /\ Events!EventInit

Rest == part # "turns" /\ UNCHANGED <<vars, ledgerVars, eventVars>>

RuntimeNext ==
  /\ UNCHANGED part
  /\ \/ part = "turns" /\ Next /\ UNCHANGED <<ledgerVars, eventVars>>
     \/ part = "compaction" /\ Compaction!LedgerNext /\ UNCHANGED <<vars, eventVars>>
     \/ part = "events" /\ Events!EventNext /\ UNCHANGED <<vars, ledgerVars>>
     \/ Rest

RuntimeSpec == RuntimeInit /\ [][RuntimeNext]_runtimeVars

\* Compaction: the active generations are the ancestors of the cursor, a commit cut
\* off anywhere can be released or finished, and a projection is the summary of what
\* its generation consumed and the history after it (compaction_runtime.py).
LedgerStands == part = "compaction" =>
  /\ Compaction!LedgerTypeOK /\ Compaction!CursorEndsTheLine
  /\ Compaction!FenceCanBeCleared /\ Compaction!ProjectionIsExact

\* Durable events: a device that is caught up missed nothing, and a connection
\* held back by a barrier always has the task that ends it (gateway.py).
EventsReachDevices == part = "events" =>
  Events!EventTypeOK /\ Events!NothingIsMissed /\ Events!BarrierHasATask
=============================================================================
