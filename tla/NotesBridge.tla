---------------------------- MODULE NotesBridge ----------------------------
(***************************************************************************)
(* Writing an Apple Note from the cloud.  Three parties keep a ledger of   *)
(* their own and none can see the others':                                 *)
(*   - the notes service (plugins/apple_notes/service.py): receipt;        *)
(*   - the broker (infra/notes_bridge/broker.py): audit;                   *)
(*   - the executor on the Mac (companion/mac_notes_bridge): mac.          *)
(* The broker proposes, the Mac reserves and accepts, the broker records   *)
(* that it commits and commits, the Mac runs a script and answers.  The    *)
(* link may drop with messages in it, every wait may time out, the tool    *)
(* may be cancelled and both processes may die between any two steps.      *)
(* Every operation has a document key of its own.  Heartbeats are not      *)
(* queued: whether presence is fresh is a choice where it is read.         *)
(***************************************************************************)
EXTENDS Naturals, Sequences

CONSTANTS Ops,        \* notes the user asks for
          MaxFaults   \* bound on lost links, stops, cancellations, timeouts and stale presence

VARIABLES receipt,   \* service: status of the operation
          audit,     \* broker: status by ledger id
          call,      \* broker: the one call under _operation_lock
          active,    \* broker: _active is a connection it believes open
          link,      \* the connection the Mac opened last is "up" or "down"
          toMac, toCloud,
          joined,    \* Mac: it still serves that connection
          pending,   \* Mac: accepted proposals, in memory
          mac,       \* Mac: durable ledger by id, with the request it was made for
          run,       \* Mac: the request being executed
          notes,     \* Apple Notes: how often the operation changed it
          faults

cloudVars == <<receipt, audit, call, active>>
macVars == <<joined, pending, mac, run, notes>>
vars == <<receipt, audit, call, active, link, toMac, toCloud,
          joined, pending, mac, run, notes, faults>>

----------------------------------------------------------------------------
\* A lookup is made under the current marker, then under the legacy one; both
\* have the ledger id find-<operation>.
Lookups == {"roxy", "akashic"}
Request(o, kind) == [op |-> o, kind |-> kind]
Requests == {Request(o, k) : o \in Ops, k \in {"write"} \cup Lookups}
Id(r) == <<r.op, IF r.kind = "write" THEN "write" ELSE "find">>
Ids == Ops \X {"write", "find"}

Terminal == {"committed", "not_found", "operation_rejected", "unit_failed", "outcome_unknown"}
NoCall == [pc |-> "idle"]
NoRun == [step |-> "idle"]
Fault == faults < MaxFaults /\ faults' = faults + 1
Lost(f) == IF f = "none" THEN "lost" ELSE f

InCall == call.pc \notin {"idle", "reserved", "done"}
\* _ActiveConnection.fail_pending: the answer the call waits for becomes an error.
Failed(c) ==
  IF ~InCall \/ c.pc = "begin" THEN c
  ELSE [c EXCEPT !.closed = TRUE,
                 !.accepted = IF c.commitSent THEN @ ELSE Lost(@),
                 !.result = IF c.commitSent THEN Lost(@) ELSE @]

Prefixes(s) == {SubSeq(s, 1, n) : n \in 0..Len(s)}
Message(type, r) == [type |-> type, req |-> r]
Result(r, status) == [type |-> "result", req |-> r, status |-> status]
\* What is sent into a link that is down is lost.
ToMac(m) == toMac' = IF link = "up" THEN Append(toMac, m) ELSE toMac
ToCloud(m) == toCloud' = IF link = "up" THEN Append(toCloud, m) ELSE toCloud

Init ==
  /\ receipt = [o \in Ops |-> "none"]
  /\ audit = [i \in Ids |-> "none"]
  /\ call = NoCall /\ active = FALSE /\ link = "down"
  /\ toMac = <<>> /\ toCloud = <<>> /\ joined = FALSE
  /\ pending = {}
  /\ mac = [i \in Ids |-> [status |-> "none", kind |-> "write"]]
  /\ run = NoRun
  /\ notes = [o \in Ops |-> 0]
  /\ faults = 0
----------------------------------------------------------------------------
(* The service *)

NewCall(r, pc) ==
  call' = [pc |-> pc, req |-> r, commitSent |-> FALSE, closed |-> FALSE,
           accepted |-> "none", result |-> "none"]

\* create: reserve the receipt, or find one that was never started.
Create(o) ==
  /\ call = NoCall
  /\ receipt[o] \in {"none", "prepared"}
  /\ receipt' = [receipt EXCEPT ![o] = "prepared"]
  /\ NewCall(Request(o, "write"), "reserved")
  /\ UNCHANGED <<audit, active, link, toMac, toCloud, macVars, faults>>

StartWrite ==
  /\ call.pc = "reserved"
  /\ receipt' = [receipt EXCEPT ![call.req.op] = "executing"]
  /\ call' = [call EXCEPT !.pc = "begin"]
  /\ UNCHANGED <<audit, active, link, toMac, toCloud, macVars, faults>>

\* _resume_or_reconcile: what was started is only looked up, never written again.
Reconcile(o) ==
  /\ call = NoCall
  /\ receipt[o] \in {"executing", "outcome_unknown"}
  /\ receipt' = [receipt EXCEPT ![o] = "outcome_unknown"]
  /\ NewCall(Request(o, "roxy"), "begin")
  /\ UNCHANGED <<audit, active, link, toMac, toCloud, macVars, faults>>

\* The bridge answered a write: _mutation_receipt and the marks of _call_bridge.
SettleWrite_Forgets ==
  /\ call.pc = "done" /\ call.req.kind = "write"
  /\ receipt' = [receipt EXCEPT ![call.req.op] = IF call.result = "committed" THEN "committed" ELSE "failed"]
  /\ call' = NoCall
  /\ UNCHANGED <<audit, active, link, toMac, toCloud, macVars, faults>>

SettleWrite ==
  /\ call.pc = "done" /\ call.req.kind = "write"
  /\ receipt' = [receipt EXCEPT ![call.req.op] =
       IF call.result \in {"committed", "outcome_unknown"} THEN call.result ELSE "failed"]
  /\ call' = NoCall
  /\ UNCHANGED <<audit, active, link, toMac, toCloud, macVars, faults>>

\* The bridge answered a lookup: a miss under the first marker asks for the second.
SettleLookup ==
  /\ call.pc = "done" /\ call.req.kind \in Lookups
  /\ \/ /\ call.result = "committed"
        /\ receipt' = [receipt EXCEPT ![call.req.op] = "committed"]
        /\ call' = NoCall
     \/ /\ call.result = "not_found" /\ call.req.kind = "roxy"
        /\ NewCall(Request(call.req.op, "akashic"), "begin")
        /\ UNCHANGED receipt
     \/ /\ call.result # "committed" /\ ~(call.result = "not_found" /\ call.req.kind = "roxy")
        /\ call' = NoCall
        /\ UNCHANGED receipt
  /\ UNCHANGED <<audit, active, link, toMac, toCloud, macVars, faults>>
----------------------------------------------------------------------------
(* NotesBridgeBroker.execute *)

Audit(status) == audit' = [audit EXCEPT ![Id(call.req)] = status]
Return(status) == call' = [call EXCEPT !.pc = "done", !.result = status]
Goto(pc) == call' = [call EXCEPT !.pc = pc]

\* Not online: recorded as skipped, nothing is sent.
BeginOffline ==
  /\ call.pc = "begin"
  /\ IF active THEN Fault ELSE UNCHANGED faults
  /\ Audit("skipped_offline") /\ Return("skipped_offline")
  /\ UNCHANGED <<receipt, active, link, toMac, toCloud, macVars>>

BeginOnline ==
  /\ call.pc = "begin" /\ active
  /\ \/ ToMac(Message("propose", call.req)) /\ Goto("record_proposed")
     \/ /\ link = "down"   \* the send itself fails
        /\ call' = [call EXCEPT !.pc = "terminal", !.closed = TRUE]
        /\ UNCHANGED toMac
  /\ UNCHANGED <<receipt, audit, active, link, toCloud, macVars, faults>>

RecordProposed ==
  /\ call.pc = "record_proposed"
  /\ Audit("proposed") /\ Goto("wait_accept")
  /\ UNCHANGED <<receipt, active, link, toMac, toCloud, macVars, faults>>

\* The proposal was answered, the connection was lost, or proposal_timeout passed.
EndProposal ==
  /\ call.pc = "wait_accept"
  /\ \/ call.accepted = "yes" /\ Audit("proposal_accepted") /\ Goto("recheck") /\ UNCHANGED faults
     \/ call.accepted = "no" /\ Audit("operation_rejected") /\ Return("operation_rejected") /\ UNCHANGED faults
     \/ /\ call.accepted \in {"none", "lost"}
        /\ IF call.accepted = "none" THEN Fault ELSE UNCHANGED faults
        /\ call' = [call EXCEPT !.pc = "terminal", !.accepted = "lost"]
        /\ UNCHANGED audit
  /\ UNCHANGED <<receipt, active, link, toMac, toCloud, macVars>>

\* _terminal_before_commit: withdraw the proposal if the connection is still there.
TerminalBeforeCommit ==
  /\ call.pc = "terminal"
  /\ IF ~call.closed /\ active THEN ToMac(Message("abort", call.req)) ELSE UNCHANGED toMac
  /\ Audit("skipped_offline") /\ Return("skipped_offline")
  /\ UNCHANGED <<receipt, active, link, toCloud, macVars, faults>>

\* The connection and its presence are looked at again before the commit boundary.
Recheck ==
  /\ call.pc = "recheck"
  /\ IF call.closed \/ ~active THEN Goto("terminal") /\ UNCHANGED faults
     ELSE \/ call' = [call EXCEPT !.pc = "record_commit", !.commitSent = TRUE] /\ UNCHANGED faults
          \/ Fault /\ Goto("terminal")   \* heartbeat overdue or Mac not ready
  /\ UNCHANGED <<receipt, audit, active, link, toMac, toCloud, macVars>>

RecordCommit ==
  /\ call.pc = "record_commit"
  /\ Audit("commit_sent") /\ Goto("commit")
  /\ UNCHANGED <<receipt, active, link, toMac, toCloud, macVars, faults>>

SendCommit ==
  /\ call.pc = "commit"
  /\ \/ ~call.closed /\ ToMac(Message("commit", call.req)) /\ Goto("wait_result")
     \/ /\ call.closed \/ link = "down"
        /\ call' = [call EXCEPT !.pc = "wait_result", !.result = Lost(@)]
        /\ UNCHANGED toMac
  /\ UNCHANGED <<receipt, audit, active, link, toCloud, macVars, faults>>

\* A result, a lost connection or commit_timeout ends the call.
EndCommit ==
  /\ call.pc = "wait_result"
  /\ LET status == IF call.result \in Terminal THEN call.result ELSE "outcome_unknown"
     IN  Audit(status) /\ Return(status)
  /\ IF call.result = "none" THEN Fault ELSE UNCHANGED faults
  /\ UNCHANGED <<receipt, active, link, toMac, toCloud, macVars>>

\* _handle_authenticated_message: the reply belongs to the call under way on this
\* connection, or the connection is dropped (an unknown operation, another
\* request under the same id, a result before the commit).
Expected(m) ==
  /\ InCall /\ call.pc # "begin" /\ ~call.closed
  /\ m.req = call.req
  /\ m.type = "result" => call.commitSent

BrokerReads ==
  /\ active /\ toCloud # <<>>
  /\ LET m == Head(toCloud) IN
     IF Expected(m)
     THEN /\ call' = CASE m.type = "result" /\ call.result = "none" -> [call EXCEPT !.result = m.status]
                       [] m.type = "accepted" /\ call.accepted = "none" -> [call EXCEPT !.accepted = "yes"]
                       [] m.type = "rejected" /\ call.accepted = "none" -> [call EXCEPT !.accepted = "no"]
                       [] OTHER -> call
          /\ toCloud' = Tail(toCloud)
          /\ UNCHANGED <<active, link>>
     ELSE /\ call' = Failed(call)
          /\ active' = FALSE /\ link' = "down" /\ toCloud' = <<>>
  /\ UNCHANGED <<receipt, audit, toMac, macVars, faults>>

\* The end of handle_websocket.
BrokerLosesLink ==
  /\ active /\ link = "down" /\ toCloud = <<>>
  /\ active' = FALSE /\ call' = Failed(call)
  /\ UNCHANGED <<receipt, audit, link, toMac, toCloud, macVars, faults>>

\* The tool is cancelled: the call is forgotten where it stands, a ledger write
\* that had been handed to a thread is still made, a write's result is unknown.
Cancel ==
  /\ InCall /\ Fault
  /\ \/ UNCHANGED audit
     \/ call.pc = "record_proposed" /\ Audit("proposed")
     \/ call.pc = "record_commit" /\ Audit("commit_sent")
  /\ receipt' = IF call.req.kind = "write"
                THEN [receipt EXCEPT ![call.req.op] = "outcome_unknown"] ELSE receipt
  /\ call' = NoCall
  /\ UNCHANGED <<active, link, toMac, toCloud, macVars>>

\* The cloud process dies; NotesBridgeAuditStore.recover_incomplete at the next start.
Recovered_NothingSent(status) ==
  IF status \in {"proposed", "proposal_accepted", "commit_sent"} THEN "skipped_offline" ELSE status

Recovered(status) ==
  CASE status \in {"proposed", "proposal_accepted"} -> "skipped_offline"
    [] status = "commit_sent" -> "outcome_unknown"
    [] OTHER -> status

CloudRestart ==
  /\ Fault
  /\ audit' = [i \in Ids |-> Recovered(audit[i])]
  /\ call' = NoCall /\ active' = FALSE /\ link' = "down" /\ toCloud' = <<>>
  /\ toMac' \in Prefixes(toMac)
  /\ UNCHANGED <<receipt, macVars>>
----------------------------------------------------------------------------
(* The link *)

\* The Mac connects again; a connection the broker still believed in is replaced.
Connect ==
  /\ ~joined /\ run = NoRun
  /\ joined' = TRUE /\ link' = "up" /\ active' = TRUE
  /\ toMac' = <<>> /\ toCloud' = <<>>
  /\ call' = Failed(call)
  /\ UNCHANGED <<receipt, audit, pending, mac, run, notes, faults>>

\* The link drops; what was in it may or may not have arrived.
Drop ==
  /\ link = "up" /\ Fault
  /\ link' = "down"
  /\ toMac' \in Prefixes(toMac) /\ toCloud' \in Prefixes(toCloud)
  /\ UNCHANGED <<cloudVars, macVars>>
----------------------------------------------------------------------------
(* The Mac: one message after the other *)

Leave == joined' = FALSE /\ pending' = {} /\ link' = "down" /\ toMac' = <<>>

MacLosesLink ==
  /\ joined /\ run = NoRun /\ link = "down" /\ toMac = <<>>
  /\ Leave
  /\ UNCHANGED <<cloudVars, toCloud, mac, run, notes, faults>>

MacReceives(type, r) ==
  /\ joined /\ run = NoRun /\ toMac # <<>>
  /\ Head(toMac) = Message(type, r)

\* accept_proposal: not ready, or reserved under the operation's id; a row of the
\* same request is taken as it is, one of another request is an error that ends
\* the connection.
Conflict(r) == mac[Id(r)].status # "none" /\ mac[Id(r)].kind # r.kind

MacPropose(r) ==
  /\ MacReceives("propose", r)
  /\ \/ /\ ToCloud(Message("rejected", r))
        /\ toMac' = Tail(toMac)
        /\ UNCHANGED <<joined, pending, mac, link>>
     \/ /\ ~Conflict(r)
        /\ mac' = IF mac[Id(r)].status = "none"
                  THEN [mac EXCEPT ![Id(r)] = [status |-> "proposal_accepted", kind |-> r.kind]]
                  ELSE mac
        /\ pending' = {q \in pending : Id(q) # Id(r)} \cup {r}
        /\ ToCloud(Message("accepted", r))
        /\ toMac' = Tail(toMac)
        /\ UNCHANGED <<joined, link>>
     \/ Conflict(r) /\ Leave /\ UNCHANGED <<mac, toCloud>>
  /\ UNCHANGED <<cloudVars, run, notes, faults>>

MacAbort(r) ==
  /\ MacReceives("abort", r)
  /\ pending' = pending \ {r}
  /\ toMac' = Tail(toMac)
  /\ UNCHANGED <<cloudVars, link, toCloud, joined, mac, run, notes, faults>>

\* A commit of a proposal it no longer holds ends the connection; of one it
\* holds it reads the ledger: a finished operation is answered again, an
\* interrupted one becomes unknown, a reserved one starts.
MacCommit(r) ==
  /\ MacReceives("commit", r)
  /\ \/ r \notin pending /\ Leave /\ UNCHANGED <<mac, run, toCloud>>
     \/ /\ r \in pending /\ mac[Id(r)].status \in Terminal \cup {"executing"}
        /\ LET stored == IF mac[Id(r)].status = "executing" THEN "outcome_unknown" ELSE mac[Id(r)].status
           IN  /\ mac' = [mac EXCEPT ![Id(r)].status = stored]
               /\ ToCloud(Result(r, stored))
        /\ pending' = pending \ {r}
        /\ toMac' = Tail(toMac)
        /\ UNCHANGED <<joined, link, run>>
     \/ /\ r \in pending /\ mac[Id(r)].status = "proposal_accepted"
        /\ mac' = [mac EXCEPT ![Id(r)].status = "executing"]
        /\ run' = [step |-> "script", req |-> r]
        /\ toMac' = Tail(toMac)
        /\ UNCHANGED <<joined, link, pending, toCloud>>
  /\ UNCHANGED <<cloudVars, notes, faults>>

\* The script: a write takes place or not and may say neither; a failure or a
\* rejection that is reported as such came before anything was changed.  Notes
\* written by this version carry the current marker.
MacScript ==
  /\ run.step = "script"
  /\ LET r == run.req IN
     \/ /\ r.kind = "write"
        /\ notes' = [notes EXCEPT ![r.op] = @ + 1]
        /\ \E outcome \in {"committed", "outcome_unknown"} : run' = [step |-> "mark", req |-> r, status |-> outcome]
     \/ /\ r.kind = "write"
        /\ \E outcome \in {"unit_failed", "operation_rejected", "outcome_unknown"} :
              run' = [step |-> "mark", req |-> r, status |-> outcome]
        /\ UNCHANGED notes
     \/ /\ r.kind \in Lookups
        /\ \E outcome \in {IF r.kind = "roxy" /\ notes[r.op] > 0 THEN "committed" ELSE "not_found",
                         "unit_failed", "operation_rejected"} :
              run' = [step |-> "mark", req |-> r, status |-> outcome]
        /\ UNCHANGED notes
  /\ UNCHANGED <<cloudVars, link, toMac, toCloud, joined, pending, mac, faults>>

\* mark_terminal, which keeps a row that was settled meanwhile, then what it holds is
\* sent as the result; on a lost link the send ends the connection.
MacFinish ==
  /\ run.step = "mark"
  /\ LET row == mac[Id(run.req)].status
         stored == IF row \in Terminal THEN row ELSE run.status
     IN  /\ mac' = [mac EXCEPT ![Id(run.req)].status = stored]
         /\ IF link = "up"
            THEN /\ ToCloud(Result(run.req, stored))
                 /\ pending' = pending \ {run.req}
                 /\ UNCHANGED <<joined, link, toMac>>
            ELSE Leave /\ UNCHANGED toCloud
  /\ run' = NoRun
  /\ UNCHANGED <<cloudVars, notes, faults>>

\* The Mac process dies, or is stopped: cancelled in the script it still marks
\* the operation unknown.
MacStops ==
  /\ Fault
  /\ Leave
  /\ toCloud' \in Prefixes(toCloud)
  /\ run' = NoRun
  /\ \/ UNCHANGED mac
     \/ run.step = "script" /\ mac' = [mac EXCEPT ![Id(run.req)].status = "outcome_unknown"]
  /\ UNCHANGED <<cloudVars, notes>>

\* The reconcile command of the Mac, a process of its own: only a note that is there
\* settles the row, whatever the client is doing.
MacReconcile(o) ==
  /\ mac[<<o, "write">>].status \in {"executing", "outcome_unknown"}
  /\ notes[o] > 0
  /\ mac' = [mac EXCEPT ![<<o, "write">>].status = "committed"]
  /\ UNCHANGED <<cloudVars, link, toMac, toCloud, joined, pending, run, notes, faults>>

Next ==
  \/ \E o \in Ops : Create(o) \/ Reconcile(o) \/ MacReconcile(o)
  \/ StartWrite \/ SettleWrite \/ SettleLookup
  \/ BeginOffline \/ BeginOnline \/ RecordProposed \/ EndProposal \/ TerminalBeforeCommit
  \/ Recheck \/ RecordCommit \/ SendCommit \/ EndCommit
  \/ BrokerReads \/ BrokerLosesLink \/ Cancel \/ CloudRestart
  \/ Connect \/ Drop
  \/ \E r \in Requests : MacPropose(r) \/ MacAbort(r) \/ MacCommit(r)
  \/ MacLosesLink \/ MacScript \/ MacFinish \/ MacStops

Spec == Init /\ [][Next]_vars
----------------------------------------------------------------------------
(* Properties *)

TypeOK ==
  /\ receipt \in [Ops -> {"none", "prepared", "executing", "committed", "failed", "outcome_unknown"}]
  /\ DOMAIN audit = Ids /\ DOMAIN mac = Ids
  /\ link \in {"up", "down"} /\ active \in BOOLEAN /\ joined \in BOOLEAN
  /\ pending \subseteq Requests
  /\ link = "up" => joined
  /\ faults \in 0..MaxFaults

\* The three ledgers and the notes never contradict each other, whatever was lost
\* or restarted in between: what the broker or the service calls unsaved is not
\* in Notes and never gets there, what one of them calls saved is, and the Mac's
\* row says so (broker.py _terminal_before_commit, "no commit was emitted, so
\* this remains a known no-effect outcome").
LedgersAgree ==
  \A o \in Ops :
    LET w == <<o, "write">> IN
    /\ audit[w] \in {"proposed", "proposal_accepted", "skipped_offline", "operation_rejected", "unit_failed"}
         => notes[o] = 0 /\ mac[w].status \in {"none", "proposal_accepted", "operation_rejected", "unit_failed"}
    /\ audit[w] = "committed" => notes[o] = 1 /\ mac[w].status = "committed"
    /\ mac[w].status = "committed" => notes[o] = 1
    /\ mac[w].status \in {"none", "proposal_accepted", "operation_rejected", "unit_failed"} => notes[o] = 0
    /\ receipt[o] = "failed" => mac[w].status \notin {"executing", "committed", "outcome_unknown"}
    /\ receipt[o] = "committed" => notes[o] = 1

\* The tools keep their promise to the user (service.py _call_bridge and
\* _resume_or_reconcile over broker, link and Mac).
Told(status) ==
  CASE status = "failed" -> "unsaved"
    [] status = "committed" -> "saved"
    [] status = "outcome_unknown" -> "unknown"
    [] OTHER -> "nothing"

Promise == INSTANCE NotesPromise WITH told <- [o \in Ops |-> Told(receipt[o])], written <- notes
KeepsPromise == Promise!Spec
=============================================================================
