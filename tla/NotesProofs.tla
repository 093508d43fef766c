---------------------------- MODULE NotesProofs ----------------------------
(***************************************************************************)
(* Proofs about NotesBridge, for every set of operations and every number  *)
(* of faults: the three ledgers agree, and the tools implement what        *)
(* NotesPromise says they promise.                                         *)
(*                                                                         *)
(* The invariant NotesInv has three parts.  What the Mac says is true      *)
(* (MacInv): its rows agree with the notes, a request before its script    *)
(* has its row in "executing" and has changed nothing, and every answer on *)
(* its way is so.  What the cloud records is true (CloudInv): a write that *)
(* its ledger places before the commit boundary is at most reserved on the *)
(* Mac and no commit of it is on its way; one it calls rejected was        *)
(* refused as a proposal or by the script.  Last, the one call under way   *)
(* is at a step its own record allows (CallFits).                          *)
(***************************************************************************)
EXTENDS NotesBridge, TLAPS

W(o) == <<o, "write">>

Outcomes == {"committed", "not_found", "operation_rejected", "unit_failed", "outcome_unknown"}
\* The statuses of a write's row on the Mac that no longer change.
Settled == {"committed", "operation_rejected", "unit_failed"}
MacMessages == [type : {"propose", "abort", "commit"}, req : Requests]
CloudMessages == [type : {"accepted", "rejected"}, req : Requests]
                   \cup [type : {"result"}, req : Requests, status : Outcomes]
Rows == [status : {"none", "proposal_accepted", "executing"} \cup Outcomes,
         kind : {"write", "roxy", "akashic"}]
Runs == [step : {"script"}, req : Requests]
          \cup [step : {"mark"}, req : Requests, status : Outcomes]
CallSteps == {"reserved", "begin", "record_proposed", "wait_accept", "terminal", "recheck",
              "record_commit", "commit", "wait_result", "done"}
Calls == [pc : CallSteps, req : Requests, commitSent : BOOLEAN, closed : BOOLEAN,
          accepted : {"none", "yes", "no", "lost"},
          result : Outcomes \cup {"none", "lost", "skipped_offline"}]

\* The types of the three ledgers and of what is on its way between them.
NotesTyped ==
  /\ receipt \in [Ops -> {"none", "prepared", "executing", "committed", "failed", "outcome_unknown"}]
  /\ audit \in [Ids -> {"none", "proposed", "proposal_accepted", "commit_sent",
                            "skipped_offline", "operation_rejected"} \cup Outcomes]
  /\ call \in Calls \cup {NoCall}
  /\ active \in BOOLEAN /\ joined \in BOOLEAN /\ link \in {"up", "down"}
  /\ link = "up" => joined
  /\ toMac \in Seq(MacMessages) /\ toCloud \in Seq(CloudMessages)
  /\ pending \subseteq Requests
  /\ mac \in [Ids -> Rows]
  /\ run \in Runs \cup {NoRun}
  /\ notes \in [Ops -> {0, 1}]
  /\ faults \in 0..MaxFaults /\ MaxFaults \in Nat

\* An outcome that is told is so: a note that is there, and for a write the Mac's row.
Truth(r, status) ==
  /\ status = "committed" => notes[r.op] = 1
  /\ r.kind = "write" =>
       /\ status # "not_found"
       /\ status \in Settled => mac[W(r.op)].status = status

\* The Mac: its rows agree with the notes.
RowFits(o) ==
  /\ mac[W(o)].status # "not_found"
  /\ mac[W(o)].status = "committed" => notes[o] = 1
  /\ mac[W(o)].status \in {"none", "proposal_accepted", "operation_rejected", "unit_failed"} => notes[o] = 0
  /\ mac[<<o, "find">>].status = "committed" => notes[o] = 1

\* A request that runs has its row, and has changed nothing before its script; after it
\* the reconcile command may have found the note before the row is marked.
RunFits ==
  /\ run.step = "script" =>
       /\ mac[Id(run.req)].status = "executing"
       /\ run.req.kind = "write" => notes[run.req.op] = 0
  /\ run.step = "mark" =>
       /\ \/ mac[Id(run.req)].status = "executing"
          \/ mac[Id(run.req)].status = "committed" /\ notes[run.req.op] = 1
       /\ run.status = "committed" => notes[run.req.op] = 1
       /\ run.req.kind = "write" =>
            /\ run.status # "not_found"
            /\ run.status \in {"operation_rejected", "unit_failed"} => notes[run.req.op] = 0

\* The answers on their way are true.
AnswersAreTrue ==
  \A i \in DOMAIN toCloud :
    toCloud[i].type = "result" => Truth(toCloud[i].req, toCloud[i].status)

\* Before the commit boundary.
Early == {"none", "proposed", "proposal_accepted", "skipped_offline"}

CommitUnderway(o) ==
  \E i \in DOMAIN toMac : toMac[i].type = "commit" /\ toMac[i].req = Request(o, "write")

\* The Mac has at most reserved the write, and is not told to go on.
Withheld(o) == mac[W(o)].status \in {"none", "proposal_accepted"} /\ ~ CommitUnderway(o)

\* The broker's ledger and the service's: nothing was committed that they place before
\* the boundary, a rejected write was refused as a proposal or by the script, and what
\* they call settled is settled on the Mac.
LedgersFit(o) ==
  /\ audit[W(o)] \in Early => Withheld(o)
  /\ audit[W(o)] = "operation_rejected" => Withheld(o) \/ mac[W(o)].status = "operation_rejected"
  /\ audit[W(o)] \in {"committed", "unit_failed"} => mac[W(o)].status = audit[W(o)]
  /\ audit[W(o)] # "not_found"
  /\ receipt[o] \in {"none", "prepared"} => audit[W(o)] = "none"
  /\ receipt[o] = "failed" => audit[W(o)] \in {"skipped_offline", "operation_rejected", "unit_failed"}
  /\ receipt[o] = "committed" => notes[o] = 1

\* What the broker has recorded of the write it is at.
Recorded(pc) ==
  CASE pc \in {"begin", "record_proposed"} -> {"none"}
    [] pc = "wait_accept" -> {"proposed"}
    [] pc = "terminal" -> {"none", "proposed", "proposal_accepted"}
    [] pc \in {"recheck", "record_commit"} -> {"proposal_accepted"}
    [] pc \in {"commit", "wait_result"} -> {"commit_sent"}
    [] OTHER -> {}

\* The one call agrees with both ledgers, and has an answer only if it is true; one that
\* is over may have been refused as a proposal.
CallFits ==
  call # NoCall =>
    /\ call.pc = "reserved" => call.req.kind = "write" /\ receipt[call.req.op] = "prepared"
    /\ call.req.kind = "write" /\ call.pc # "reserved" => receipt[call.req.op] = "executing"
    /\ call.req.kind # "write" => receipt[call.req.op] = "outcome_unknown"
    /\ call.req.kind = "write" /\ call.pc \notin {"reserved", "done"} =>
         audit[W(call.req.op)] \in Recorded(call.pc)
    /\ call.req.kind = "write" /\ call.pc = "done" =>
         /\ audit[W(call.req.op)] = call.result
         /\ call.result \in {"skipped_offline"} \cup Outcomes
    /\ call.pc # "done" => call.result \in Outcomes \cup {"none", "lost"}
    /\ Truth(call.req, call.result) \/ (call.pc = "done" /\ call.result = "operation_rejected")

MacInv == RunFits /\ AnswersAreTrue /\ \A o \in Ops : RowFits(o)
CloudInv == CallFits /\ \A o \in Ops : LedgersFit(o)
NotesInv == NotesTyped /\ MacInv /\ CloudInv

----------------------------------------------------------------------------
\* Requests and their ledger ids.
LEMMA RequestFacts ==
  ASSUME NEW r \in Requests
  PROVE  /\ r.op \in Ops /\ r.kind \in {"write", "roxy", "akashic"}
         /\ r = Request(r.op, r.kind) /\ Id(r) \in Ids
         /\ r.kind = "write" => Id(r) = W(r.op)
         /\ r.kind # "write" => Id(r) = <<r.op, "find">>
         /\ \A o \in Ops : Id(r) = W(o) => r.kind = "write" /\ r.op = o
         /\ \A o \in Ops : Id(r) = <<o, "find">> => r.kind # "write" /\ r.op = o
BY DEF Requests, Request, Lookups, Id, Ids, W

\* A request for an operation is one of the requests.
LEMMA RequestIn ==
  ASSUME NEW o \in Ops, NEW k \in {"write", "roxy", "akashic"}
  PROVE  /\ Request(o, k) \in Requests
         /\ Request(o, k).op = o /\ Request(o, k).kind = k
BY DEF Requests, Request, Lookups

\* The ledger ids of a write and of a lookup are apart.
LEMMA IdsIn ==
  ASSUME NEW o \in Ops
  PROVE  W(o) \in Ids /\ <<o, "find">> \in Ids /\ W(o) # <<o, "find">>
         /\ \A k \in Ops : (W(o) = W(k) => o = k) /\ W(o) # <<k, "find">>
BY DEF Ids, W

\* What is left of a sequence, or what it gains, is made of what was there and of that.
LEMMA Shortened ==
  ASSUME NEW S, NEW s \in Seq(S), NEW p, p \in Prefixes(s) \/ (s # <<>> /\ p = Tail(s)) \/ p = <<>>
  PROVE  p \in Seq(S) /\ \A i \in DOMAIN p : \E k \in DOMAIN s : p[i] = s[k]
<1>1. CASE p \in Prefixes(s)
  <2>1. PICK n \in 0..Len(s) : p = SubSeq(s, 1, n) BY <1>1 DEF Prefixes
  <2>2. p \in Seq(S) /\ Len(p) = n /\ \A i \in 1..n : p[i] = s[i] BY <2>1
  <2> QED BY <2>1, <2>2
<1>2. CASE s # <<>> /\ p = Tail(s)
  <2>1. p \in Seq(S) /\ Len(p) = Len(s) - 1 /\ \A i \in 1..Len(p) : p[i] = s[i + 1] BY <1>2
  <2>2. \A i \in 1..Len(p) : i + 1 \in 1..Len(s) BY <1>2, <2>1
  <2> QED BY <2>1, <2>2
<1>3. CASE p = <<>> BY <1>3
<1> QED BY <1>1, <1>2, <1>3

\* A sequence with at most one more element holds that and what was there.
LEMMA Lengthened ==
  ASSUME NEW S, NEW s \in Seq(S), NEW m \in S, NEW p, p \in {s, Append(s, m)}
  PROVE  p \in Seq(S) /\ \A i \in DOMAIN p : p[i] = m \/ \E k \in DOMAIN s : p[i] = s[k]
<1>1. CASE p = s BY <1>1
<1>2. CASE p = Append(s, m)
  <2>1. p \in Seq(S) /\ Len(p) = Len(s) + 1 /\ p[Len(s) + 1] = m /\ \A i \in 1..Len(s) : p[i] = s[i]
    BY <1>2
  <2> QED BY <2>1
<1> QED BY <1>1, <1>2

\* A row is given another status.
LEMMA RowSet ==
  ASSUME NotesTyped, NEW i \in Ids, NEW s \in {"none", "proposal_accepted", "executing"} \cup Outcomes,
         mac' = [mac EXCEPT ![i].status = s]
  PROVE  /\ mac' \in [Ids -> Rows] /\ mac'[i].status = s
         /\ \A k \in Ids : k # i => mac'[k] = mac[k]
<1>1. mac[i] \in Rows BY DEF NotesTyped
<1>2. PICK row : row = [mac[i] EXCEPT !.status = s] OBVIOUS
<1>3. row \in Rows /\ row.status = s BY <1>1, <1>2 DEF Rows
<1>4. mac' = [mac EXCEPT ![i] = row] BY <1>2
<1> QED BY <1>3, <1>4 DEF NotesTyped

----------------------------------------------------------------------------
\* Outcomes stay true while notes stay and settled rows keep their status.
Settles ==
  \A o \in Ops :
    /\ notes[o] = 1 => notes'[o] = 1
    /\ mac[W(o)].status \in Settled => mac'[W(o)].status = mac[W(o)].status

\* What was true of an outcome stays true.
LEMMA TruthStays ==
  ASSUME Settles, NEW r \in Requests, NEW s, Truth(r, s)
  PROVE  Truth(r, s)'
BY RequestFacts DEF Settles, Truth

\* Cloud and link steps: the Mac's side is as it was, if no untrue answer is added.
LEMMA MacRests ==
  ASSUME NotesTyped, MacInv, UNCHANGED <<mac, run, notes>>,
         \A i \in DOMAIN toCloud' : \E k \in DOMAIN toCloud : toCloud'[i] = toCloud[k]
  PROVE  MacInv'
<1>1. RunFits' BY DEF MacInv, RunFits, Id, W
<1>2. ASSUME NEW o \in Ops PROVE RowFits(o)'
  <2>1. RowFits(o) BY DEF MacInv
  <2> QED BY <2>1 DEF RowFits, W
<1>3. AnswersAreTrue'
  <2>1. \A r, s : Truth(r, s) => Truth(r, s)' BY DEF Truth, W
  <2>2. ASSUME NEW i \in DOMAIN toCloud', toCloud'[i].type = "result"
        PROVE  Truth(toCloud[i].req, toCloud[i].status)'
    <3>1. PICK k \in DOMAIN toCloud : toCloud'[i] = toCloud[k] OBVIOUS
    <3>2. Truth(toCloud[k].req, toCloud[k].status) BY <2>2, <3>1 DEF MacInv, AnswersAreTrue
    <3>3. PICK r, s : r = toCloud[k].req /\ s = toCloud[k].status OBVIOUS
    <3>4. Truth(r, s)' BY <2>1, <3>2, <3>3
    <3> QED BY <3>1, <3>3, <3>4 DEF Truth
  <2> QED BY <2>2 DEF AnswersAreTrue
<1> QED BY <1>1, <1>2, <1>3 DEF MacInv

\* Mac and link steps: the cloud's side is as it was, if outcomes stay true, the Mac goes
\* no further with what is before the boundary, and no commit is added.
LEMMA CloudRests ==
  ASSUME NotesTyped, CloudInv, UNCHANGED <<receipt, audit, call>>, Settles,
         \A o \in Ops : Withheld(o) => mac'[W(o)].status \in {"none", "proposal_accepted"},
         \A i \in DOMAIN toMac' : toMac'[i].type = "commit" => \E k \in DOMAIN toMac : toMac'[i] = toMac[k]
  PROVE  CloudInv'
<1>1. \A o \in Ops : CommitUnderway(o)' => CommitUnderway(o) BY DEF CommitUnderway, Request
<1>2. \A o \in Ops : LedgersFit(o)'
  <2>1. SUFFICES ASSUME NEW o \in Ops PROVE LedgersFit(o)' OBVIOUS
  <2>2. LedgersFit(o) BY DEF CloudInv
  <2>3. Withheld(o) => Withheld(o)' BY <1>1 DEF Withheld, W
  <2>4. mac[W(o)].status \in Settled => (mac[W(o)].status = mac'[W(o)].status) BY DEF Settles
  <2> QED BY <2>2, <2>3, <2>4 DEF LedgersFit, Settles, Settled, W
<1>3. CallFits'
  <2>1. SUFFICES ASSUME call # NoCall PROVE CallFits' BY DEF CallFits
  <2>2. PICK c : c = call OBVIOUS
  <2>3. c.req \in Requests BY <2>1, <2>2 DEF NotesTyped, Calls
  <2>4. Truth(c.req, c.result) \/ (c.pc = "done" /\ c.result = "operation_rejected")
    BY <2>1, <2>2 DEF CloudInv, CallFits
  <2>5. Truth(c.req, c.result)' \/ (c.pc = "done" /\ c.result = "operation_rejected")
    BY <2>3, <2>4, TruthStays
  <2>6. Truth(call.req, call.result)' \/ (call.pc = "done" /\ call.result = "operation_rejected")
    BY <2>2, <2>5 DEF Truth, W
  <2> QED BY <2>1, <2>6 DEF CloudInv, CallFits, W
<1> QED BY <1>2, <1>3 DEF CloudInv

----------------------------------------------------------------------------
\* The broker answers, or gives up what it waits for: the call's answers stay true.
LEMMA FailedIs ==
  ASSUME NotesTyped
  PROVE  /\ Failed(call) \in Calls \cup {NoCall}
         /\ (call = NoCall) <=> (Failed(call) = NoCall)
         /\ call # NoCall =>
              /\ Failed(call).pc = call.pc /\ Failed(call).req = call.req
              /\ Failed(call).result \in {call.result, "lost"}
              /\ call.pc = "done" => Failed(call).result = call.result
<1>1. CASE call = NoCall
  BY <1>1 DEF Failed, InCall, NoCall
<1>2. CASE call # NoCall
  <2>1. call \in Calls BY <1>2 DEF NotesTyped
  <2>2. CASE ~ InCall \/ call.pc = "begin"
    <3>1. Failed(call) = call BY <2>2 DEF Failed
    <3> QED BY <2>1, <3>1, <1>2
  <2>3. CASE ~ (~ InCall \/ call.pc = "begin")
    <3>1. PICK a, t : /\ a = IF call.commitSent THEN call.accepted ELSE Lost(call.accepted)
                      /\ t = IF call.commitSent THEN Lost(call.result) ELSE call.result
      OBVIOUS
    <3>2. Failed(call) = [call EXCEPT !.closed = TRUE, !.accepted = a, !.result = t]
      BY <2>3, <3>1 DEF Failed
    <3>3. a \in {"none", "yes", "no", "lost"} /\ t \in {call.result, "lost"}
      BY <2>1, <3>1 DEF Lost, Calls
    <3>4. Failed(call) = [pc |-> call.pc, req |-> call.req, commitSent |-> call.commitSent,
                                closed |-> TRUE, accepted |-> a, result |-> t]
      BY <2>1, <3>2 DEF Calls
    <3>5. call.pc # "done" BY <2>3 DEF InCall
    <3>6. Failed(call) \in Calls BY <2>1, <3>3, <3>4 DEF Calls
    <3>7. \A c \in Calls : c # NoCall
      <4>1. ASSUME NEW c \in Calls PROVE c.pc # "idle" BY DEF Calls, CallSteps
      <4>2. NoCall.pc = "idle" BY DEF NoCall
      <4> QED BY <4>1, <4>2
    <3>8. PICK f : f = Failed(call) OBVIOUS
    <3>9. f.pc = call.pc /\ f.req = call.req /\ f.result = t BY <3>4, <3>8
    <3>10. f \in Calls /\ f # NoCall BY <3>6, <3>7, <3>8
    <3> QED BY <1>2, <3>3, <3>5, <3>8, <3>9, <3>10
  <2> QED BY <2>2, <2>3
<1> QED BY <1>1, <1>2

\* A call is not the absence of one.
LEMMA CallIsSome ==
  /\ \A c \in Calls : c # NoCall /\ c.pc # "idle"
  /\ NoCall.pc = "idle"
<1>1. ASSUME NEW c \in Calls PROVE c.pc # "idle" BY DEF Calls, CallSteps
<1>2. NoCall.pc = "idle" BY DEF NoCall
<1> QED BY <1>1, <1>2

\* The link drops, the Mac joins again or the broker finds the connection gone: a call
\* may be told that it has failed, and nothing else changes but what is in the link.
LEMMA LinkStep ==
  ASSUME NotesInv, UNCHANGED <<receipt, audit, mac, run, notes, pending>>,
         call' \in {call, Failed(call)},
         active' \in BOOLEAN, joined' \in BOOLEAN, link' \in {"up", "down"},
         link' = "up" => joined',
         toMac' \in Prefixes(toMac) \cup {toMac, <<>>},
         toCloud' \in Prefixes(toCloud) \cup {toCloud, <<>>},
         faults' \in 0..MaxFaults
  PROVE  NotesInv'
<1>0. NotesTyped /\ MacInv /\ CloudInv BY DEF NotesInv
<1>1. /\ toMac' \in Seq(MacMessages)
      /\ \A i \in DOMAIN toMac' : \E k \in DOMAIN toMac : toMac'[i] = toMac[k]
  <2>1. toMac \in Seq(MacMessages) BY <1>0 DEF NotesTyped
  <2> QED BY <2>1, Shortened
<1>2. /\ toCloud' \in Seq(CloudMessages)
      /\ \A i \in DOMAIN toCloud' : \E k \in DOMAIN toCloud : toCloud'[i] = toCloud[k]
  <2>1. toCloud \in Seq(CloudMessages) BY <1>0 DEF NotesTyped
  <2> QED BY <2>1, Shortened
<1>3. NotesTyped' BY <1>0, <1>1, <1>2, FailedIs DEF NotesTyped
<1>4. MacInv' BY <1>0, <1>2, MacRests
<1>5. CASE call' = call
  <2>1. CloudInv' BY <1>0, <1>1, <1>5, CloudRests DEF Settles, Withheld
  <2> QED BY <1>3, <1>4, <2>1 DEF NotesInv
<1>6. CASE call' = Failed(call)
  <2>1. ASSUME NEW o \in Ops PROVE LedgersFit(o)'
    <3>1. LedgersFit(o) BY <1>0 DEF CloudInv
    <3>2. CommitUnderway(o)' => CommitUnderway(o) BY <1>1 DEF CommitUnderway, Request
    <3>3. Withheld(o) => Withheld(o)' BY <3>2 DEF Withheld, W
    <3> QED BY <3>1, <3>3 DEF LedgersFit, W
  <2>2. CallFits'
    <3>1. SUFFICES ASSUME call' # NoCall PROVE CallFits' BY DEF CallFits
    <3>2. call # NoCall BY <1>0, <1>6, <3>1, FailedIs
    <3>3. PICK c, d : c = call /\ d = call' OBVIOUS
    <3>4. /\ d.pc = c.pc /\ d.req = c.req /\ d.result \in {c.result, "lost"}
          /\ c.pc = "done" => d.result = c.result
      BY <1>0, <1>6, <3>2, <3>3, FailedIs
    <3>5. Truth(c.req, c.result) \/ (c.pc = "done" /\ c.result = "operation_rejected")
      BY <1>0, <3>2, <3>3 DEF CloudInv, CallFits
    <3>6. Truth(d.req, d.result)' \/ (d.pc = "done" /\ d.result = "operation_rejected")
      BY <3>4, <3>5 DEF Truth, Settled, W
    <3>7. (Truth(call.req, call.result) \/ (call.pc = "done" /\ call.result = "operation_rejected"))'
      BY <3>3, <3>6 DEF Truth, W
    <3> QED BY <1>0, <3>2, <3>3, <3>4, <3>7 DEF CloudInv, CallFits, W
  <2> QED BY <1>3, <1>4, <2>1, <2>2 DEF NotesInv, CloudInv
<1> QED BY <1>5, <1>6

\* Connect, Drop, the end of handle_websocket.
LEMMA LinkSteps ==
  ASSUME NotesInv, Connect \/ Drop \/ BrokerLosesLink
  PROVE  NotesInv'
<1>0. NotesTyped BY DEF NotesInv
<1>1. CASE Connect
  BY <1>0, <1>1, LinkStep DEF Connect, NotesTyped
<1>2. CASE Drop
  <2>1. faults' \in 0..MaxFaults BY <1>0, <1>2 DEF Drop, Fault, NotesTyped
  <2> QED BY <1>0, <1>2, <2>1, LinkStep DEF Drop, NotesTyped, cloudVars, macVars
<1>3. CASE BrokerLosesLink
  BY <1>0, <1>3, LinkStep DEF BrokerLosesLink, NotesTyped, macVars
<1> QED BY <1>1, <1>2, <1>3

----------------------------------------------------------------------------
(* The Mac *)

\* Its connection ends.
LEMMA LeaveIs ==
  ASSUME Leave
  PROVE  joined' = FALSE /\ pending' = {} /\ link' = "down" /\ toMac' = <<>>
BY DEF Leave

\* What it sends arrives in the link or is lost.
LEMMA SentToCloud ==
  ASSUME NotesTyped, NEW m \in CloudMessages, ToCloud(m)
  PROVE  /\ toCloud' \in Seq(CloudMessages)
         /\ \A i \in DOMAIN toCloud' : toCloud'[i] = m \/ \E k \in DOMAIN toCloud : toCloud'[i] = toCloud[k]
<1>1. toCloud' \in {toCloud, Append(toCloud, m)} BY DEF ToCloud
<1>2. toCloud \in Seq(CloudMessages) BY DEF NotesTyped
<1> QED BY <1>1, <1>2, Lengthened

\* The answers stay true: those that were there, and the one that is sent.
LEMMA AnswersStay ==
  ASSUME NotesTyped, AnswersAreTrue, Settles, NEW m,
         \A i \in DOMAIN toCloud' : toCloud'[i] = m \/ \E k \in DOMAIN toCloud : toCloud'[i] = toCloud[k],
         m.type = "result" => Truth(m.req, m.status)'
  PROVE  AnswersAreTrue'
<1>1. SUFFICES ASSUME NEW i \in DOMAIN toCloud', toCloud'[i].type = "result"
               PROVE  Truth(toCloud[i].req, toCloud[i].status)'
  BY DEF AnswersAreTrue
<1>2. CASE toCloud'[i] = m BY <1>1, <1>2 DEF Truth, W
<1>3. CASE \E k \in DOMAIN toCloud : toCloud'[i] = toCloud[k]
  <2>1. PICK k \in DOMAIN toCloud : toCloud'[i] = toCloud[k] BY <1>3
  <2>2. PICK r, s : r = toCloud[k].req /\ s = toCloud[k].status OBVIOUS
  <2>3. Truth(r, s) BY <1>1, <2>1, <2>2 DEF AnswersAreTrue
  <2>4. r \in Requests
    <3>1. toCloud[k] \in CloudMessages BY <2>1 DEF NotesTyped
    <3> QED BY <2>2, <3>1 DEF CloudMessages
  <2>5. Truth(r, s)' BY <2>3, <2>4, TruthStays
  <2> QED BY <2>1, <2>2, <2>5 DEF Truth, W
<1> QED BY <1>2, <1>3

\* The head of what comes to the Mac is a message of it, and the rest is no more than that.
LEMMA ReceivedIs ==
  ASSUME NotesTyped, NEW type, NEW r \in Requests, MacReceives(type, r)
  PROVE  /\ joined /\ run = NoRun
         /\ \E k \in DOMAIN toMac : toMac[k].type = type /\ toMac[k].req = r
         /\ \A p : p \in {Tail(toMac), <<>>, toMac} =>
              p \in Seq(MacMessages) /\ \A i \in DOMAIN p : \E k \in DOMAIN toMac : p[i] = toMac[k]
<1>1. toMac \in Seq(MacMessages) /\ toMac # <<>> BY DEF NotesTyped, MacReceives
<1>2. 1 \in DOMAIN toMac /\ toMac[1].type = type /\ toMac[1].req = r
  BY <1>1 DEF MacReceives, Message
<1>3. ASSUME NEW p \in {Tail(toMac), <<>>, toMac}
      PROVE  p \in Seq(MacMessages) /\ \A i \in DOMAIN p : \E k \in DOMAIN toMac : p[i] = toMac[k]
  BY <1>1, <1>3, Shortened
<1> QED BY <1>2, <1>3 DEF MacReceives

\* Every step of the Mac comes to this: it says what is true, and takes a write beyond its
\* proposal only when the commit was underway.
LEMMA MacStep ==
  ASSUME NotesInv, UNCHANGED <<receipt, audit, call, active>>, NotesTyped',
         Settles, RunFits', \A o \in Ops : RowFits(o)', AnswersAreTrue',
         \A o \in Ops : Withheld(o) => mac'[W(o)].status \in {"none", "proposal_accepted"},
         \A i \in DOMAIN toMac' : \E k \in DOMAIN toMac : toMac'[i] = toMac[k]
  PROVE  NotesInv'
<1>1. MacInv' BY DEF MacInv
<1>2. CloudInv' BY CloudRests DEF NotesInv
<1> QED BY <1>1, <1>2 DEF NotesInv

\* A proposal is refused, or its row is reserved if there was none.
LEMMA MacProposeStep ==
  ASSUME NotesInv, NEW r \in Requests, MacPropose(r)
  PROVE  NotesInv'
<1>0. NotesTyped /\ MacInv /\ CloudInv BY DEF NotesInv
<1>i. Id(r) \in Ids /\ r.kind \in {"write", "roxy", "akashic"} /\ r.op \in Ops BY RequestFacts
<1>u. UNCHANGED <<receipt, audit, call, active, run, notes, faults>>
  BY DEF MacPropose, cloudVars
<1>g. MacReceives("propose", r) BY DEF MacPropose
<1>r. /\ joined /\ run = NoRun
      /\ toMac' \in {Tail(toMac), <<>>, toMac}
  <2>1. toMac' \in {Tail(toMac), <<>>} BY DEF MacPropose, Leave
  <2> QED BY <1>0, <1>g, <2>1, ReceivedIs
<1>m. toMac' \in Seq(MacMessages) /\ \A i \in DOMAIN toMac' : \E k \in DOMAIN toMac : toMac'[i] = toMac[k]
  BY <1>0, <1>g, <1>r, ReceivedIs
<1>1. /\ mac' \in [Ids -> Rows]
      /\ \A k \in Ids : \/ mac'[k] = mac[k]
                        \/ k = Id(r) /\ mac[k].status = "none" /\ mac'[k].status = "proposal_accepted"
  <2>1. CASE mac' = mac BY <1>0, <2>1 DEF NotesTyped
  <2>2. CASE /\ mac[Id(r)].status = "none"
             /\ mac' = [mac EXCEPT ![Id(r)] = [status |-> "proposal_accepted", kind |-> r.kind]]
    <3>1. PICK row : row = [status |-> "proposal_accepted", kind |-> r.kind] OBVIOUS
    <3>2. row \in Rows /\ row.status = "proposal_accepted" BY <1>i, <3>1 DEF Rows
    <3> QED BY <1>0, <1>i, <2>2, <3>1, <3>2 DEF NotesTyped
  <2> QED BY <2>1, <2>2 DEF MacPropose
<1>2. PICK m \in CloudMessages : /\ m.type # "result"
                                 /\ ToCloud(m) \/ UNCHANGED toCloud
  <2>1. \A t \in {"accepted", "rejected"} :
          Message(t, r) \in CloudMessages /\ Message(t, r).type # "result"
    BY DEF Message, CloudMessages
  <2>2. \/ ToCloud(Message("accepted", r)) \/ ToCloud(Message("rejected", r))
        \/ UNCHANGED toCloud
    BY DEF MacPropose
  <2> QED BY <2>1, <2>2
<1>3. /\ toCloud' \in Seq(CloudMessages)
      /\ \A i \in DOMAIN toCloud' : toCloud'[i] = m \/ \E k \in DOMAIN toCloud : toCloud'[i] = toCloud[k]
  BY <1>0, <1>2, SentToCloud DEF NotesTyped
<1>4. pending' \subseteq Requests BY <1>0 DEF MacPropose, Leave, NotesTyped
<1>5. joined' \in BOOLEAN /\ link' \in {"up", "down"} /\ (link' = "up" => joined')
  BY <1>0, <1>r DEF MacPropose, Leave, NotesTyped
<1>6. NotesTyped'
  BY <1>0, <1>u, <1>m, <1>1, <1>3, <1>4, <1>5
     DEF NotesTyped
<1>7. Settles BY <1>1, <1>u, IdsIn DEF Settles, Settled
<1>8. RunFits' BY <1>r, <1>u DEF RunFits, NoRun
<1>9. ASSUME NEW o \in Ops PROVE RowFits(o)'
  <2>1. RowFits(o) BY <1>0 DEF MacInv
  <2>2. W(o) \in Ids /\ <<o, "find">> \in Ids BY IdsIn
  <2>3. UNCHANGED W(o) BY DEF W
  <2> QED BY <1>1, <1>u, <2>1, <2>2, <2>3 DEF RowFits
<1>10. AnswersAreTrue' BY <1>0, <1>2, <1>3, <1>7, AnswersStay DEF MacInv
<1>11. \A o \in Ops : Withheld(o) => mac'[W(o)].status \in {"none", "proposal_accepted"}
  BY <1>0, <1>1, IdsIn DEF Withheld
<1> QED BY <1>u, <1>m, <1>6, <1>7, <1>8, <1>9, <1>10, <1>11, MacStep

\* A proposal is withdrawn, or the Mac finds its link gone.
LEMMA MacWithdraws ==
  ASSUME NotesInv, MacLosesLink \/ \E r \in Requests : MacAbort(r)
  PROVE  NotesInv'
<1>0. NotesTyped /\ MacInv /\ CloudInv BY DEF NotesInv
<1>u. UNCHANGED <<receipt, audit, call, active, mac, run, notes, faults, toCloud>>
  BY DEF MacLosesLink, MacAbort, cloudVars
<1>m. toMac' \in Seq(MacMessages) /\ \A i \in DOMAIN toMac' : \E k \in DOMAIN toMac : toMac'[i] = toMac[k]
  <2>1. CASE MacLosesLink
    <3>1. toMac' = <<>> BY <2>1 DEF MacLosesLink, Leave
    <3>2. toMac \in Seq(MacMessages) BY <1>0 DEF NotesTyped
    <3> QED BY <3>1, <3>2, Shortened
  <2>2. ASSUME NEW r \in Requests, MacAbort(r)
        PROVE  toMac' \in Seq(MacMessages) /\ \A i \in DOMAIN toMac' : \E k \in DOMAIN toMac : toMac'[i] = toMac[k]
    <3>1. toMac' = Tail(toMac) /\ MacReceives("abort", r) BY <2>2 DEF MacAbort
    <3> QED BY <1>0, <3>1, ReceivedIs
  <2> QED BY <2>1, <2>2
<1>1. /\ pending' \subseteq Requests
      /\ joined' \in BOOLEAN /\ link' \in {"up", "down"} /\ (link' = "up" => joined')
  BY <1>0 DEF MacLosesLink, MacAbort, Leave, NotesTyped
<1>2. NotesTyped'
  BY <1>0, <1>u, <1>m, <1>1
     DEF NotesTyped
<1>3. MacInv'
  BY <1>0, <1>u, MacRests
<1>4. Settles BY <1>u DEF Settles
<1>5. \A o \in Ops : Withheld(o) => mac'[W(o)].status \in {"none", "proposal_accepted"}
  BY <1>0, <1>u DEF Withheld
<1>6. CloudInv' BY <1>0, <1>u, <1>m, <1>4, <1>5, CloudRests
<1> QED BY <1>2, <1>3, <1>6 DEF NotesInv

\* A row of the Mac that is given another status: what the invariant asks of it.
LEMMA RowMoves ==
  ASSUME NotesInv, NEW r \in Requests,
         NEW s \in {"executing"} \cup Outcomes,
         mac' = [mac EXCEPT ![Id(r)].status = s],
         notes' \in [Ops -> {0, 1}], \A o \in Ops : notes[o] = 1 => notes'[o] = 1,
         \A o \in Ops : notes'[o] = notes[o] \/ mac[W(o)].status \in {"executing", "outcome_unknown"},
         mac[Id(r)].status \in Settled => s = mac[Id(r)].status,
         r.kind = "write" =>
           /\ s # "not_found"
           /\ mac[Id(r)].status \notin {"none", "proposal_accepted"} \/ CommitUnderway(r.op)
           /\ s \in {"operation_rejected", "unit_failed"} => notes'[r.op] = 0,
         s = "committed" => notes'[r.op] = 1
  PROVE  /\ mac' \in [Ids -> Rows] /\ Settles /\ \A o \in Ops : RowFits(o)'
         /\ \A o \in Ops : Withheld(o) => mac'[W(o)].status \in {"none", "proposal_accepted"}
<1>0. NotesTyped /\ MacInv /\ CloudInv BY DEF NotesInv
<1>i. PICK id \in Ids : id = Id(r) BY RequestFacts
<1>1. /\ mac' \in [Ids -> Rows] /\ mac'[id].status = s
      /\ \A k \in Ids : k # id => mac'[k] = mac[k]
  BY <1>0, <1>i, RowSet
<1>2. \A o \in Ops : W(o) = id => r.kind = "write" /\ r.op = o BY <1>i, RequestFacts
<1>3. \A o \in Ops : <<o, "find">> = id => r.kind # "write" /\ r.op = o BY <1>i, RequestFacts
<1>4. ASSUME NEW o \in Ops PROVE W(o) \in Ids /\ <<o, "find">> \in Ids BY IdsIn
<1>5. Settles
  <2>1. SUFFICES ASSUME NEW o \in Ops, mac[W(o)].status \in Settled
                 PROVE  mac'[W(o)].status = mac[W(o)].status
    BY DEF Settles
  <2> QED BY <1>1, <1>4, <1>i, <2>1
<1>6. ASSUME NEW o \in Ops PROVE RowFits(o)'
  <2>1. RowFits(o) BY <1>0 DEF MacInv
  <2>2. UNCHANGED W(o) BY DEF W
  <2>3. notes[o] \in {0, 1} /\ notes'[o] \in {0, 1} BY <1>0 DEF NotesTyped
  <2>4. CASE W(o) = id
    <3>1. mac'[W(o)].status = s /\ mac'[<<o, "find">>] = mac[<<o, "find">>] /\ r.kind = "write" /\ r.op = o
      BY <1>1, <1>2, <1>4, <2>4, IdsIn
    <3>2. mac'[<<o, "find">>].status = "committed" => notes'[o] = 1 BY <2>1, <2>3, <3>1 DEF RowFits
    <3> QED BY <2>2, <3>1, <3>2 DEF RowFits, Outcomes
  <2>5. CASE W(o) # id
    <3>1. mac'[W(o)] = mac[W(o)] BY <1>1, <1>4, <2>5
    <3>2. mac'[<<o, "find">>].status = "committed" => notes'[o] = 1
      <4>1. CASE <<o, "find">> = id BY <1>1, <1>3, <4>1
      <4>2. CASE <<o, "find">> # id BY <1>1, <1>4, <2>1, <2>3, <4>2 DEF RowFits
      <4> QED BY <4>1, <4>2
    <3>3. mac[W(o)].status \in {"none", "proposal_accepted", "operation_rejected", "unit_failed"}
            => notes'[o] = notes[o]
      OBVIOUS
    <3> QED BY <2>1, <2>2, <2>3, <3>1, <3>2, <3>3 DEF RowFits
  <2> QED BY <2>4, <2>5
<1>7. ASSUME NEW o \in Ops, Withheld(o) PROVE mac'[W(o)].status \in {"none", "proposal_accepted"}
  <2>1. mac[W(o)].status \in {"none", "proposal_accepted"} /\ ~ CommitUnderway(o)
    BY <1>7 DEF Withheld
  <2>2. W(o) # id BY <1>2, <1>i, <2>1
  <2> QED BY <1>1, <1>4, <2>1, <2>2
<1> QED BY <1>1, <1>5, <1>6, <1>7

\* A commit of what it no longer holds ends the connection; a finished row is answered
\* again, an interrupted one becomes unknown, a reserved one starts.
LEMMA MacCommitStep ==
  ASSUME NotesInv, NEW r \in Requests, MacCommit(r)
  PROVE  NotesInv'
<1>0. NotesTyped /\ MacInv /\ CloudInv BY DEF NotesInv
<1>u. UNCHANGED <<receipt, audit, call, active, notes, faults>>
  BY DEF MacCommit, cloudVars
<1>g. MacReceives("commit", r) BY DEF MacCommit
<1>i. PICK id \in Ids : id = Id(r) BY RequestFacts
<1>k. r.op \in Ops /\ (r.kind = "write" => id = W(r.op)) /\ (r.kind # "write" => id = <<r.op, "find">>)
  BY <1>i, RequestFacts
<1>r. /\ joined /\ run = NoRun /\ (CommitUnderway(r.op) \/ r.kind # "write")
      /\ toMac' \in {Tail(toMac), <<>>, toMac}
  <2>1. toMac' \in {Tail(toMac), <<>>} BY DEF MacCommit, Leave
  <2>2. r.kind = "write" => r = Request(r.op, "write") BY RequestFacts
  <2> QED BY <1>0, <1>g, <2>1, <2>2, ReceivedIs DEF CommitUnderway
<1>m. toMac' \in Seq(MacMessages) /\ \A i \in DOMAIN toMac' : \E k \in DOMAIN toMac : toMac'[i] = toMac[k]
  BY <1>0, <1>g, <1>r, ReceivedIs
<1>n. run = NoRun BY <1>0, <1>g, ReceivedIs
<1>4. pending' \subseteq Requests BY <1>0 DEF MacCommit, Leave, NotesTyped
<1>5. joined' \in BOOLEAN /\ link' \in {"up", "down"} /\ (link' = "up" => joined')
  BY <1>0 DEF MacCommit, Leave, NotesTyped
<1>f. \A o \in Ops : RowFits(o) BY <1>0 DEF MacInv
<1>1. CASE Leave /\ UNCHANGED <<mac, run, toCloud>>
  <2>1. NotesTyped'
    BY <1>0, <1>u, <1>m, <1>1, <1>4, <1>5
       DEF NotesTyped
  <2>2. MacInv' BY <1>0, <1>u, <1>1, MacRests
  <2>3. Settles BY <1>u, <1>1 DEF Settles
  <2>4. \A o \in Ops : Withheld(o) => mac'[W(o)].status \in {"none", "proposal_accepted"}
    BY <1>0, <1>1 DEF Withheld
  <2>5. CloudInv' BY <1>0, <1>u, <1>m, <2>3, <2>4, CloudRests
  <2> QED BY <2>1, <2>2, <2>5 DEF NotesInv
<1>2. ASSUME NEW s, s = IF mac[id].status = "executing" THEN "outcome_unknown" ELSE mac[id].status,
             mac[id].status \in Terminal \cup {"executing"},
             mac' = [mac EXCEPT ![id].status = s], ToCloud(Result(r, s)), UNCHANGED run
      PROVE  NotesInv'
  <2>1. mac[id] \in Rows BY <1>0 DEF NotesTyped
  <2>2. s \in Outcomes BY <1>2, <2>1 DEF Rows, Terminal, Outcomes
  <2>3. r.kind = "write" =>
          /\ s # "not_found"
          /\ s \in {"operation_rejected", "unit_failed"} => notes'[r.op] = 0
    BY <1>2, <1>f, <1>k, <1>u DEF RowFits
  <2>4. s = "committed" => notes'[r.op] = 1
    BY <1>2, <1>f, <1>k, <1>u DEF RowFits
  <2>5. notes' \in [Ops -> {0, 1}] BY <1>0, <1>u DEF NotesTyped
  <2>6. mac[id].status \notin {"none", "proposal_accepted"} BY <1>2 DEF Terminal
  <2>7. mac[id].status \in Settled => s = mac[id].status BY <1>2 DEF Settled
  <2>8. /\ mac' \in [Ids -> Rows] /\ Settles /\ \A o \in Ops : RowFits(o)'
        /\ \A o \in Ops : Withheld(o) => mac'[W(o)].status \in {"none", "proposal_accepted"}
    BY <1>2, <1>i, <1>u, <2>2, <2>3, <2>4, <2>5, <2>6, <2>7, RowMoves
  <2>9. PICK m \in CloudMessages : m = Result(r, s)
    BY <2>2 DEF Result, CloudMessages
  <2>10. m.req = r /\ m.status = s BY <2>9 DEF Result
  <2>11. /\ toCloud' \in Seq(CloudMessages)
         /\ \A i \in DOMAIN toCloud' : toCloud'[i] = m \/ \E k \in DOMAIN toCloud : toCloud'[i] = toCloud[k]
    BY <1>0, <1>2, <2>9, SentToCloud
  <2>12. Truth(m.req, m.status)'
    <3>1. mac'[id].status = s BY <1>0, <1>2, <2>2, RowSet
    <3> QED BY <1>k, <2>3, <2>4, <2>10, <3>1 DEF Truth, W
  <2>13. AnswersAreTrue' BY <1>0, <2>8, <2>11, <2>12, AnswersStay DEF MacInv
  <2>14. NotesTyped'
    BY <1>0, <1>u, <1>m, <1>2, <1>4, <1>5, <2>8, <2>11
       DEF NotesTyped
  <2>15. RunFits' BY <1>2, <1>n DEF RunFits, NoRun
  <2> QED BY <1>u, <1>m, <2>8, <2>13, <2>14, <2>15, MacStep
<1>3. CASE /\ mac[id].status = "proposal_accepted"
           /\ mac' = [mac EXCEPT ![id].status = "executing"]
           /\ run' = [step |-> "script", req |-> r]
           /\ UNCHANGED toCloud
  <2>1. notes' \in [Ops -> {0, 1}] BY <1>0, <1>u DEF NotesTyped
  <2>2. r.kind = "write" => CommitUnderway(r.op) BY <1>r
  <2>3. /\ mac' \in [Ids -> Rows] /\ Settles /\ \A o \in Ops : RowFits(o)'
        /\ \A o \in Ops : Withheld(o) => mac'[W(o)].status \in {"none", "proposal_accepted"}
    BY <1>3, <1>i, <1>u, <2>1, <2>2, RowMoves DEF Settled
  <2>4. AnswersAreTrue'
    <3>1. PICK m \in CloudMessages : m.type # "result"
      <4>1. Message("accepted", r) \in CloudMessages /\ Message("accepted", r).type # "result"
        BY DEF Message, CloudMessages
      <4> QED BY <4>1
    <3>2. \A i \in DOMAIN toCloud' : toCloud'[i] = m \/ \E k \in DOMAIN toCloud : toCloud'[i] = toCloud[k]
      BY <1>3
    <3> QED BY <1>0, <2>3, <3>1, <3>2, AnswersStay DEF MacInv
  <2>5. run' \in Runs BY <1>3 DEF Runs
  <2>6. NotesTyped'
    BY <1>0, <1>u, <1>m, <1>3, <1>4, <1>5, <2>3, <2>5
       DEF NotesTyped
  <2>7. RunFits'
    <3>1. mac'[id].status = "executing" BY <1>0, <1>3, RowSet
    <3>2. r.kind = "write" => notes[r.op] = 0 BY <1>f, <1>k, <1>3 DEF RowFits
    <3>3. run'.step = "script" /\ run'.req = r BY <1>3
    <3>4. Id(run.req)' = id BY <1>i, <3>3 DEF Id
    <3> QED BY <1>u, <3>1, <3>2, <3>3, <3>4 DEF RunFits
  <2> QED BY <1>u, <1>m, <2>3, <2>4, <2>6, <2>7, MacStep
<1>4a. \/ Leave /\ UNCHANGED <<mac, run, toCloud>>
       \/ /\ mac[id].status \in Terminal \cup {"executing"}
          /\ \E s : /\ s = IF mac[id].status = "executing" THEN "outcome_unknown" ELSE mac[id].status
                    /\ mac' = [mac EXCEPT ![id].status = s]
                    /\ ToCloud(Result(r, s))
          /\ UNCHANGED run
       \/ /\ mac[id].status = "proposal_accepted"
          /\ mac' = [mac EXCEPT ![id].status = "executing"]
          /\ run' = [step |-> "script", req |-> r]
          /\ UNCHANGED toCloud
  BY <1>i DEF MacCommit
<1> QED BY <1>1, <1>2, <1>3, <1>4a

\* The script of a request runs.
LEMMA MacScriptStep ==
  ASSUME NotesInv, MacScript
  PROVE  NotesInv'
<1>0. NotesTyped /\ MacInv /\ CloudInv BY DEF NotesInv
<1>u. UNCHANGED <<receipt, audit, call, active, link, toMac, toCloud, joined, pending, mac, faults>>
  BY DEF MacScript, cloudVars
<1>g. run.step = "script" BY DEF MacScript
<1>n. run # NoRun /\ run \in Runs BY <1>0, <1>g DEF NoRun, NotesTyped
<1>r. PICK r : r = run.req OBVIOUS
<1>k. /\ r \in Requests /\ r.op \in Ops /\ (r.kind = "write" => Id(r) = W(r.op))
      /\ r.kind \in {"write", "roxy", "akashic"}
  <2>1. r \in Requests BY <1>n, <1>r DEF Runs
  <2> QED BY <2>1, RequestFacts
<1>f. /\ mac[Id(r)].status = "executing"
      /\ r.kind = "write" => notes[r.op] = 0
  BY <1>0, <1>g, <1>r DEF MacInv, RunFits
<1>o. PICK s : /\ run' = [step |-> "mark", req |-> r, status |-> s] /\ s \in Outcomes
               /\ \/ /\ r.kind = "write" /\ s \in {"committed", "outcome_unknown"}
                     /\ notes' = [notes EXCEPT ![r.op] = notes[r.op] + 1]
                  \/ /\ r.kind = "write" /\ s \in {"unit_failed", "operation_rejected", "outcome_unknown"}
                     /\ notes' = notes
                  \/ /\ r.kind # "write" /\ (s = "committed" => notes[r.op] > 0) /\ notes' = notes
  BY <1>r DEF MacScript, Lookups, Outcomes
<1>1. /\ notes' \in [Ops -> {0, 1}]
      /\ \A o \in Ops : notes[o] = 1 => notes'[o] = 1
      /\ \A o \in Ops : notes'[o] = notes[o] \/ mac[W(o)].status = "executing"
      /\ r.kind = "write" /\ s = "committed" => notes'[r.op] = 1
      /\ r.kind = "write" /\ s \in {"operation_rejected", "unit_failed"} => notes'[r.op] = 0
  BY <1>0, <1>f, <1>k, <1>o DEF NotesTyped
<1>2. r.kind # "write" /\ s = "committed" => notes'[r.op] = 1
  BY <1>0, <1>k, <1>o DEF NotesTyped
<1>3. Settles BY <1>1, <1>u DEF Settles
<1>4. NotesTyped'
  <2>1. run' \in Runs BY <1>k, <1>o DEF Runs
  <2> QED BY <1>0, <1>u, <1>1, <2>1
       DEF NotesTyped
<1>5. RunFits'
  <2>1. run'.step = "mark" /\ run'.req = r /\ run'.status = s BY <1>o
  <2>2. Id(run.req)' = Id(r) BY <2>1 DEF Id
  <2>3. r.kind = "write" => s # "not_found" BY <1>o
  <2> QED BY <1>f, <1>u, <1>1, <1>2, <2>1, <2>2, <2>3 DEF RunFits
<1>6. ASSUME NEW o \in Ops PROVE RowFits(o)'
  <2>1. RowFits(o) /\ UNCHANGED W(o) BY <1>0 DEF MacInv, W
  <2>2. notes'[o] = notes[o] \/ mac[W(o)].status = "executing" BY <1>1
  <2> QED BY <1>1, <1>u, <2>1, <2>2 DEF RowFits
<1>7. AnswersAreTrue'
  <2>1. PICK m \in CloudMessages : m.type # "result"
    <3>1. Message("accepted", r) \in CloudMessages /\ Message("accepted", r).type # "result"
      BY <1>k DEF Message, CloudMessages
    <3> QED BY <3>1
  <2>2. \A i \in DOMAIN toCloud' : toCloud'[i] = m \/ \E k \in DOMAIN toCloud : toCloud'[i] = toCloud[k]
    BY <1>u
  <2> QED BY <1>0, <1>3, <2>1, <2>2, AnswersStay DEF MacInv
<1>8. \A o \in Ops : Withheld(o) => mac'[W(o)].status \in {"none", "proposal_accepted"}
  BY <1>0, <1>u DEF Withheld
<1> QED BY <1>u, <1>3, <1>4, <1>5, <1>6, <1>7, <1>8, MacStep

\* The row is marked, and the outcome sent if the link is up.
LEMMA MacFinishStep ==
  ASSUME NotesInv, MacFinish
  PROVE  NotesInv'
<1>0. NotesTyped /\ MacInv /\ CloudInv BY DEF NotesInv
<1>u. UNCHANGED <<receipt, audit, call, active, notes, faults>>
  BY DEF MacFinish, cloudVars
<1>g. run.step = "mark" BY DEF MacFinish
<1>n. run # NoRun /\ run \in Runs BY <1>0, <1>g DEF NoRun, NotesTyped
<1>r. PICK r, v : r = run.req /\ v = run.status OBVIOUS
<1>k. r \in Requests /\ v \in Outcomes /\ r.op \in Ops /\ (r.kind = "write" => Id(r) = W(r.op))
  <2>1. r \in Requests /\ v \in Outcomes BY <1>g, <1>n, <1>r DEF Runs
  <2> QED BY <2>1, RequestFacts
<1>f. /\ \/ mac[Id(r)].status = "executing"
         \/ mac[Id(r)].status = "committed" /\ notes[r.op] = 1
      /\ v = "committed" => notes[r.op] = 1
      /\ r.kind = "write" =>
           v # "not_found" /\ (v \in {"operation_rejected", "unit_failed"} => notes[r.op] = 0)
  BY <1>0, <1>g, <1>r DEF MacInv, RunFits
<1>s. PICK s : s = IF mac[Id(r)].status \in Terminal THEN mac[Id(r)].status ELSE v OBVIOUS
<1>b. /\ s \in Outcomes /\ (s = "committed" => notes[r.op] = 1)
      /\ mac[Id(r)].status \in Settled => s = mac[Id(r)].status
      /\ r.kind = "write" =>
           s # "not_found" /\ (s \in {"operation_rejected", "unit_failed"} => notes[r.op] = 0)
  BY <1>f, <1>k, <1>s DEF Terminal, Outcomes, Settled
<1>a. mac' = [mac EXCEPT ![Id(r)].status = s] /\ run' = NoRun
  BY <1>r, <1>s DEF MacFinish
<1>1. notes' \in [Ops -> {0, 1}] BY <1>0, <1>u DEF NotesTyped
<1>2. /\ mac' \in [Ids -> Rows] /\ Settles /\ \A o \in Ops : RowFits(o)'
      /\ \A o \in Ops : Withheld(o) => mac'[W(o)].status \in {"none", "proposal_accepted"}
  <2>1. s \in {"executing"} \cup Outcomes BY <1>b
  <2>2. mac[Id(r)].status \notin {"none", "proposal_accepted"} BY <1>f
  <2> QED BY <1>a, <1>b, <1>k, <1>u, <1>1, <2>1, <2>2, RowMoves
<1>3. PICK m \in CloudMessages : m = Result(r, s) BY <1>b, <1>k DEF Result, CloudMessages
<1>4. m.req = r /\ m.status = s BY <1>3 DEF Result
<1>5. /\ toCloud' \in Seq(CloudMessages)
      /\ \A i \in DOMAIN toCloud' : toCloud'[i] = m \/ \E k \in DOMAIN toCloud : toCloud'[i] = toCloud[k]
  <2>1. ToCloud(m) \/ UNCHANGED toCloud BY <1>r, <1>s, <1>3 DEF MacFinish
  <2> QED BY <1>0, <2>1, SentToCloud DEF NotesTyped
<1>6. /\ toMac' \in Seq(MacMessages) /\ \A i \in DOMAIN toMac' : \E k \in DOMAIN toMac : toMac'[i] = toMac[k]
  <2>1. toMac' \in {toMac, <<>>} BY DEF MacFinish, Leave
  <2>2. toMac \in Seq(MacMessages) BY <1>0 DEF NotesTyped
  <2> QED BY <2>1, <2>2, Shortened
<1>7. Truth(m.req, m.status)'
  <2>1. mac'[Id(r)].status = s BY <1>0, <1>a, <1>b, <1>k, RowSet, RequestFacts
  <2> QED BY <1>b, <1>k, <1>u, <1>4, <2>1 DEF Truth, W
<1>8. AnswersAreTrue' BY <1>0, <1>2, <1>5, <1>7, AnswersStay DEF MacInv
<1>9. NotesTyped'
  <2>1. /\ pending' \subseteq Requests
        /\ joined' \in BOOLEAN /\ link' \in {"up", "down"} /\ (link' = "up" => joined')
    BY <1>0 DEF MacFinish, Leave, NotesTyped
  <2> QED BY <1>0, <1>a, <1>u, <1>1, <1>2, <1>5, <1>6, <2>1
       DEF NotesTyped
<1>10. RunFits' BY <1>a DEF RunFits, NoRun
<1> QED BY <1>u, <1>2, <1>6, <1>8, <1>9, <1>10, MacStep

\* The Mac stops: cancelled in its script it marks the request unknown.
LEMMA MacStopsStep ==
  ASSUME NotesInv, MacStops
  PROVE  NotesInv'
<1>0. NotesTyped /\ MacInv /\ CloudInv BY DEF NotesInv
<1>u. UNCHANGED <<receipt, audit, call, active, notes>> BY DEF MacStops, cloudVars
<1>l. /\ joined' = FALSE /\ pending' = {} /\ link' = "down" /\ toMac' = <<>>
      /\ run' = NoRun /\ toCloud' \in Prefixes(toCloud)
      /\ faults' \in 0..MaxFaults
  BY <1>0 DEF MacStops, Leave, Fault, NotesTyped
<1>m. /\ toMac' \in Seq(MacMessages)
      /\ \A i \in DOMAIN toMac' : \E k \in DOMAIN toMac : toMac'[i] = toMac[k]
  <2>1. toMac \in Seq(MacMessages) BY <1>0 DEF NotesTyped
  <2> QED BY <1>l, <2>1, Shortened
<1>c. /\ toCloud' \in Seq(CloudMessages)
      /\ \A i \in DOMAIN toCloud' : \E k \in DOMAIN toCloud : toCloud'[i] = toCloud[k]
  <2>1. toCloud \in Seq(CloudMessages) BY <1>0 DEF NotesTyped
  <2> QED BY <1>l, <2>1, Shortened
<1>1. notes' \in [Ops -> {0, 1}] BY <1>0, <1>u DEF NotesTyped
<1>2. /\ mac' \in [Ids -> Rows] /\ Settles /\ \A o \in Ops : RowFits(o)'
      /\ \A o \in Ops : Withheld(o) => mac'[W(o)].status \in {"none", "proposal_accepted"}
  <2>1. CASE UNCHANGED mac
    <3>1. mac' \in [Ids -> Rows] BY <1>0, <2>1 DEF NotesTyped
    <3>2. Settles BY <1>u, <2>1 DEF Settles
    <3>3. ASSUME NEW o \in Ops PROVE RowFits(o)'
      <4>1. RowFits(o) BY <1>0 DEF MacInv
      <4> QED BY <1>u, <2>1, <4>1 DEF RowFits, W
    <3> QED BY <2>1, <3>1, <3>2, <3>3 DEF Withheld
  <2>2. CASE run.step = "script" /\ mac' = [mac EXCEPT ![Id(run.req)].status = "outcome_unknown"]
    <3>1. run # NoRun /\ run \in Runs BY <1>0, <2>2 DEF NoRun, NotesTyped
    <3>2. PICK r : r = run.req OBVIOUS
    <3>3. r \in Requests BY <3>1, <3>2 DEF Runs
    <3>4. mac[Id(r)].status = "executing" BY <1>0, <2>2, <3>2 DEF MacInv, RunFits
    <3>5. mac' = [mac EXCEPT ![Id(r)].status = "outcome_unknown"] BY <2>2, <3>2
    <3>6. "outcome_unknown" \in {"executing"} \cup Outcomes BY DEF Outcomes
    <3> QED BY <1>u, <1>1, <3>3, <3>4, <3>5, <3>6, RowMoves DEF Settled
  <2> QED BY <2>1, <2>2 DEF MacStops
<1>3. AnswersAreTrue'
  <2>1. SUFFICES ASSUME NEW i \in DOMAIN toCloud', toCloud'[i].type = "result"
                 PROVE  Truth(toCloud[i].req, toCloud[i].status)'
    BY DEF AnswersAreTrue
  <2>2. PICK k \in DOMAIN toCloud : toCloud'[i] = toCloud[k] BY <1>c
  <2>3. PICK r, s : r = toCloud[k].req /\ s = toCloud[k].status OBVIOUS
  <2>4. Truth(r, s) BY <1>0, <2>1, <2>2, <2>3 DEF MacInv, AnswersAreTrue
  <2>5. r \in Requests
    <3>1. toCloud[k] \in CloudMessages BY <1>0, <2>2 DEF NotesTyped
    <3> QED BY <2>3, <3>1 DEF CloudMessages
  <2>6. Truth(r, s)' BY <1>2, <2>4, <2>5, TruthStays
  <2> QED BY <2>2, <2>3, <2>6 DEF Truth, W
<1>4. NotesTyped'
  <2>1. /\ joined' \in BOOLEAN /\ link' \in {"up", "down"} /\ ~ (link' = "up")
        /\ pending' \subseteq Requests /\ run' \in Runs \cup {NoRun}
        /\ faults' \in 0..MaxFaults
    BY <1>l
  <2> QED BY <1>0, <1>u, <1>m, <1>c, <1>1, <1>2, <2>1 DEF NotesTyped
<1>5. RunFits' BY <1>l DEF RunFits, NoRun
<1> QED BY <1>u, <1>m, <1>2, <1>3, <1>4, <1>5, MacStep

\* The reconcile command finds a note that is there.
LEMMA MacReconcileStep ==
  ASSUME NotesInv, NEW o \in Ops, MacReconcile(o)
  PROVE  NotesInv'
<1>0. NotesTyped /\ MacInv /\ CloudInv BY DEF NotesInv
<1>u. UNCHANGED <<receipt, audit, call, active, link, toMac, toCloud, joined, pending, run, notes, faults>>
  BY DEF MacReconcile, cloudVars
<1>r. PICK r : r = Request(o, "write") OBVIOUS
<1>k. r \in Requests /\ r.op = o /\ r.kind = "write" /\ Id(r) = W(o)
  <2>1. r \in Requests /\ r.op = o /\ r.kind = "write" BY <1>r, RequestIn
  <2> QED BY <2>1, RequestFacts
<1>g. /\ notes[o] > 0
      /\ mac[W(o)].status \in {"executing", "outcome_unknown"}
      /\ mac' = [mac EXCEPT ![W(o)].status = "committed"]
  BY DEF MacReconcile, W
<1>1. notes[o] = 1 /\ notes' \in [Ops -> {0, 1}] BY <1>0, <1>g, <1>u DEF NotesTyped
<1>2. /\ mac' \in [Ids -> Rows] /\ Settles /\ \A k \in Ops : RowFits(k)'
      /\ \A k \in Ops : Withheld(k) => mac'[W(k)].status \in {"none", "proposal_accepted"}
  <2>1. "committed" \in {"executing"} \cup Outcomes BY DEF Outcomes
  <2>2. mac' = [mac EXCEPT ![Id(r)].status = "committed"] BY <1>g, <1>k
  <2>3. mac[Id(r)].status \notin {"none", "proposal_accepted"} \cup Settled
    BY <1>g, <1>k DEF Settled
  <2> QED BY <1>k, <1>u, <1>1, <2>1, <2>2, <2>3, RowMoves
<1>3. AnswersAreTrue'
  <2>1. PICK m \in CloudMessages : m.type # "result"
    <3>1. Message("accepted", r) \in CloudMessages /\ Message("accepted", r).type # "result"
      BY <1>k DEF Message, CloudMessages
    <3> QED BY <3>1
  <2>2. \A i \in DOMAIN toCloud' : toCloud'[i] = m \/ \E k \in DOMAIN toCloud : toCloud'[i] = toCloud[k]
    BY <1>u
  <2> QED BY <1>0, <1>2, <2>1, <2>2, AnswersStay DEF MacInv
<1>4. NotesTyped'
  BY <1>0, <1>u, <1>1, <1>2
     DEF NotesTyped
<1>5. RunFits'
  <2>1. RunFits BY <1>0 DEF MacInv
  <2>2. CASE run = NoRun BY <1>u, <2>2 DEF RunFits, NoRun
  <2>3. CASE run # NoRun
    <3>1. PICK e \in Requests : e = run.req BY <1>0, <2>3 DEF NotesTyped, Runs
    <3>2. PICK id \in Ids : id = Id(e) /\ (id = W(o) => e.kind = "write" /\ e.op = o) BY RequestFacts
    <3>3. mac'[id] = IF id = W(o) THEN [mac[id] EXCEPT !.status = "committed"] ELSE mac[id]
      BY <1>0, <1>g DEF NotesTyped
    <3>4. id = W(o) => mac'[id].status = "committed"
      <4>1. mac[id] \in Rows BY <1>0 DEF NotesTyped
      <4> QED BY <3>3, <4>1 DEF Rows
    <3>5. Id(run.req)' = id /\ Id(run.req) = id /\ run' = run BY <1>u, <3>1, <3>2 DEF Id
    <3> QED BY <1>1, <1>u, <2>1, <3>1, <3>2, <3>3, <3>4, <3>5 DEF RunFits
  <2> QED BY <2>2, <2>3
<1> QED BY <1>u, <1>2, <1>3, <1>4, <1>5, MacStep

----------------------------------------------------------------------------
(* The service and the broker *)

\* A cloud step that moves the ledgers of one operation within what the invariant allows.
LEMMA LedgersMove ==
  ASSUME NotesInv, UNCHANGED <<mac, notes>>, NEW q \in Ops,
         \A o \in Ops : o # q => receipt'[o] = receipt[o] /\ audit'[W(o)] = audit[W(o)],
         \A i \in DOMAIN toMac' : toMac'[i].type = "commit" =>
           \/ \E k \in DOMAIN toMac : toMac'[i] = toMac[k]
           \/ toMac'[i].req.kind # "write"
           \/ toMac'[i].req.op = q /\ audit'[W(q)] = "commit_sent",
         audit'[W(q)] \in Early => audit[W(q)] \in Early,
         audit'[W(q)] = "operation_rejected" =>
           audit[W(q)] \in Early \cup {"operation_rejected"} \/ mac[W(q)].status = "operation_rejected",
         audit'[W(q)] \in {"committed", "unit_failed"} => mac[W(q)].status = audit'[W(q)],
         audit'[W(q)] # "not_found",
         receipt'[q] \in {"none", "prepared"} => audit'[W(q)] = "none",
         receipt'[q] = "failed" => audit'[W(q)] \in {"skipped_offline", "operation_rejected", "unit_failed"},
         receipt'[q] = "committed" => notes[q] = 1
  PROVE  \A o \in Ops : LedgersFit(o)'
<1>0. \A o \in Ops : LedgersFit(o) BY DEF NotesInv, CloudInv
<1>1. ASSUME NEW o \in Ops, audit'[W(o)] # "commit_sent", CommitUnderway(o)' PROVE CommitUnderway(o)
  <2>1. PICK i \in DOMAIN toMac' : toMac'[i].type = "commit" /\ toMac'[i].req = Request(o, "write")
    BY <1>1 DEF CommitUnderway, Request
  <2>2. toMac'[i].req.op = o /\ toMac'[i].req.kind = "write" BY <2>1 DEF Request
  <2>3. \E k \in DOMAIN toMac : toMac'[i] = toMac[k] BY <1>1, <2>1, <2>2
  <2> QED BY <2>1, <2>3 DEF CommitUnderway
<1>w. ASSUME NEW o \in Ops, audit'[W(o)] # "commit_sent", Withheld(o) PROVE Withheld(o)'
  BY <1>1, <1>w DEF Withheld, W
<1>2. ASSUME NEW o \in Ops, o # q PROVE LedgersFit(o)'
  <2>1. LedgersFit(o) /\ UNCHANGED W(o) BY <1>0 DEF W
  <2>2. receipt'[o] = receipt[o] /\ audit'[W(o)] = audit[W(o)] BY <1>2
  <2> QED BY <1>w, <2>1, <2>2 DEF LedgersFit, Early
<1>3. LedgersFit(q)'
  <2>1. LedgersFit(q) /\ UNCHANGED W(q) BY <1>0 DEF W
  <2> QED BY <1>w, <2>1 DEF LedgersFit, Early
<1> QED BY <1>2, <1>3

\* A step of the cloud: the ledgers and the call are what is left to look at.
LEMMA CloudStep ==
  ASSUME NotesInv, NotesTyped', UNCHANGED <<mac, run, notes>>,
         \A i \in DOMAIN toCloud' : \E k \in DOMAIN toCloud : toCloud'[i] = toCloud[k],
         \A o \in Ops : LedgersFit(o)', CallFits'
  PROVE  NotesInv'
<1>1. MacInv' BY MacRests DEF NotesInv
<1> QED BY <1>1 DEF NotesInv, CloudInv

\* What is sent to the Mac is under way or lost.
LEMMA SentToMac ==
  ASSUME NotesTyped, NEW type \in {"propose", "abort", "commit"}, NEW r \in Requests,
         ToMac(Message(type, r))
  PROVE  /\ toMac' \in Seq(MacMessages)
         /\ \A i \in DOMAIN toMac' : \/ toMac'[i].type = type /\ toMac'[i].req = r
                                     \/ \E k \in DOMAIN toMac : toMac'[i] = toMac[k]
<1>1. PICK m \in MacMessages : m = Message(type, r) BY DEF Message, MacMessages
<1>2. m.type = type /\ m.req = r BY <1>1 DEF Message
<1>3. toMac' \in {toMac, Append(toMac, m)} BY <1>1 DEF ToMac
<1>4. toMac \in Seq(MacMessages) BY DEF NotesTyped
<1> QED BY <1>2, <1>3, <1>4, Lengthened

\* The new call of a request has no answer yet.
LEMMA NewCallIs ==
  ASSUME NEW r \in Requests, NEW pc \in {"reserved", "begin"}, NewCall(r, pc)
  PROVE  /\ call' \in Calls /\ call' # NoCall /\ call'.pc = pc /\ call'.req = r
         /\ call'.result = "none"
<1>1. call' = [pc |-> pc, req |-> r, commitSent |-> FALSE, closed |-> FALSE,
               accepted |-> "none", result |-> "none"]
  BY DEF NewCall
<1>2. call' \in Calls BY <1>1 DEF Calls, CallSteps
<1> QED BY <1>1, <1>2, CallIsSome

\* create, _resume_or_reconcile and the second lookup: one call at a time, of an operation
\* whose receipt says so.
LEMMA NewCallStep ==
  ASSUME NotesInv, NEW r \in Requests, NEW pc \in {"reserved", "begin"}, NewCall(r, pc),
         UNCHANGED <<audit, active, link, toMac, toCloud, joined, pending, mac, run, notes, faults>>,
         NEW s, receipt' = [receipt EXCEPT ![r.op] = s],
         \/ pc = "reserved" /\ r.kind = "write" /\ s = "prepared" /\ receipt[r.op] \in {"none", "prepared"}
         \/ pc = "begin" /\ r.kind # "write" /\ s = "outcome_unknown"
  PROVE  NotesInv'
<1>0. NotesTyped /\ CloudInv BY DEF NotesInv
<1>k. r.op \in Ops BY RequestFacts
<1>q. PICK q \in Ops : q = r.op BY <1>k
<1>1. /\ receipt' \in [Ops -> {"none", "prepared", "executing", "committed", "failed", "outcome_unknown"}]
      /\ receipt'[q] = s /\ \A o \in Ops : o # q => receipt'[o] = receipt[o]
  BY <1>0, <1>q DEF NotesTyped
<1>2. NotesTyped'
  BY <1>0, <1>1, NewCallIs
     DEF NotesTyped
<1>3. \A o \in Ops : LedgersFit(o)'
  <2>1. LedgersFit(q) BY <1>0 DEF CloudInv
  <2>2. audit'[W(q)] = audit[W(q)] /\ \A o \in Ops : audit'[W(o)] = audit[W(o)] OBVIOUS
  <2>3. receipt'[q] \in {"none", "prepared"} => audit[W(q)] = "none" BY <1>1, <1>q, <2>1 DEF LedgersFit
  <2>4. \A i \in DOMAIN toMac' : \E k \in DOMAIN toMac : toMac'[i] = toMac[k] OBVIOUS
  <2>5. audit[W(q)] \in {"committed", "unit_failed"} => mac[W(q)].status = audit[W(q)]
    BY <2>1 DEF LedgersFit
  <2>6. audit[W(q)] # "not_found" BY <2>1 DEF LedgersFit
  <2>7. receipt'[q] # "failed" /\ receipt'[q] # "committed" BY <1>1
  <2> QED BY <1>1, <2>2, <2>3, <2>4, <2>5, <2>6, <2>7, LedgersMove
<1>4. CallFits'
  <2>1. /\ call'.pc = pc /\ call'.req = r /\ call'.result = "none" BY NewCallIs
  <2>2. Truth(call.req, call.result)' BY <2>1 DEF Truth, Settled
  <2>3. receipt'[call'.req.op] = s BY <1>1, <1>q, <2>1
  <2>4. pc = "begin" => r.kind # "write" OBVIOUS
  <2>5. r.kind = "write" <=> pc = "reserved" OBVIOUS
  <2> QED BY <2>1, <2>2, <2>3, <2>5 DEF CallFits
<1> QED BY <1>2, <1>3, <1>4, CloudStep

\* create reserves, _resume_or_reconcile looks up.
LEMMA CreateStep ==
  ASSUME NotesInv, NEW o \in Ops, Create(o) \/ Reconcile(o)
  PROVE  NotesInv'
<1>u. UNCHANGED <<audit, active, link, toMac, toCloud, joined, pending, mac, run, notes, faults>>
  BY DEF Create, Reconcile, macVars
<1>1. CASE Create(o)
  <2>1. PICK r : r = Request(o, "write") OBVIOUS
  <2>2. r \in Requests /\ r.op = o /\ r.kind = "write" BY <2>1, RequestIn
  <2>3. /\ NewCall(r, "reserved") /\ receipt[r.op] \in {"none", "prepared"}
        /\ receipt' = [receipt EXCEPT ![r.op] = "prepared"]
    BY <1>1, <2>1, <2>2 DEF Create
  <2> QED BY <1>u, <2>2, <2>3, NewCallStep
<1>2. CASE Reconcile(o)
  <2>1. PICK r : r = Request(o, "roxy") OBVIOUS
  <2>2. r \in Requests /\ r.op = o /\ r.kind # "write" BY <2>1, RequestIn
  <2>3. /\ NewCall(r, "begin")
        /\ receipt' = [receipt EXCEPT ![r.op] = "outcome_unknown"]
    BY <1>2, <2>1, <2>2 DEF Reconcile
  <2> QED BY <1>u, <2>2, <2>3, NewCallStep
<1> QED BY <1>1, <1>2

\* The call is over, or forgotten where it stands: the receipt of its operation may be
\* settled by a true answer.
LEMMA CallEnds ==
  ASSUME NotesInv, call # NoCall, call' = NoCall,
         UNCHANGED <<active, link, toMac, toCloud, joined, pending, mac, run, notes>>,
         faults' \in 0..MaxFaults,
         NEW q \in Ops, q = call.req.op,
         NEW s \in {receipt[q], "outcome_unknown", "failed", "committed"}, receipt' = [receipt EXCEPT ![q] = s],
         NEW a, audit' = [audit EXCEPT ![Id(call.req)] = a],
         a \in {audit[Id(call.req)], "proposed", "commit_sent"},
         call.req.kind = "write" => a = audit[Id(call.req)] \/ audit[W(q)] \in Early,
         call.req.kind = "write" => a = audit[Id(call.req)] \/ s = "outcome_unknown",
         s = "failed" /\ s # receipt[q] => audit'[W(q)] \in {"skipped_offline", "operation_rejected", "unit_failed"},
         s = "committed" /\ s # receipt[q] => notes[q] = 1
  PROVE  NotesInv'
<1>0. NotesTyped /\ CloudInv BY DEF NotesInv
<1>c. PICK r \in Requests : r = call.req
  BY <1>0 DEF NotesTyped, Calls
<1>i. PICK id \in Ids : id = Id(r) BY RequestFacts
<1>1. /\ receipt' \in [Ops -> {"none", "prepared", "executing", "committed", "failed", "outcome_unknown"}]
      /\ receipt'[q] = s /\ \A o \in Ops : o # q => receipt'[o] = receipt[o]
  BY <1>0 DEF NotesTyped
<1>2. /\ audit' \in [Ids -> {"none", "proposed", "proposal_accepted", "commit_sent",
                                 "skipped_offline", "operation_rejected"} \cup Outcomes]
      /\ audit'[id] = a /\ \A k \in Ids : k # id => audit'[k] = audit[k]
  BY <1>0, <1>c, <1>i DEF NotesTyped
<1>3. NotesTyped'
  BY <1>0, <1>1, <1>2
     DEF NotesTyped
<1>4. \A o \in Ops : LedgersFit(o)'
  <2>1. LedgersFit(q) BY <1>0 DEF CloudInv
  <2>2. ASSUME NEW o \in Ops, o # q PROVE audit'[W(o)] = audit[W(o)]
    <3>1. W(o) \in Ids /\ W(o) # id BY <1>c, <1>i, <2>2, IdsIn, RequestFacts
    <3> QED BY <1>2, <3>1
  <2>3. W(q) \in Ids /\ (W(q) = id => r.kind = "write") BY <1>i, IdsIn, RequestFacts
  <2>4. \/ audit'[W(q)] = audit[W(q)]
        \/ /\ audit[W(q)] \in Early /\ audit'[W(q)] \in {"proposed", "commit_sent"}
           /\ s = "outcome_unknown"
    BY <1>2, <1>c, <1>i, <2>3
  <2>5. \A i \in DOMAIN toMac' : \E k \in DOMAIN toMac : toMac'[i] = toMac[k] OBVIOUS
  <2>6. /\ audit'[W(q)] \in Early => audit[W(q)] \in Early
        /\ audit'[W(q)] = "operation_rejected" => audit[W(q)] = "operation_rejected"
    BY <2>4
  <2>7. audit'[W(q)] \in {"committed", "unit_failed"} => mac[W(q)].status = audit'[W(q)]
    BY <2>1, <2>4 DEF LedgersFit
  <2>8. audit'[W(q)] # "not_found" BY <2>1, <2>4 DEF LedgersFit
  <2>9. receipt'[q] \in {"none", "prepared"} => audit'[W(q)] = "none"
    BY <1>1, <2>1, <2>4 DEF LedgersFit
  <2>10. receipt'[q] = "failed" => audit'[W(q)] \in {"skipped_offline", "operation_rejected", "unit_failed"}
    BY <1>1, <2>1, <2>4 DEF LedgersFit
  <2>11. receipt'[q] = "committed" => notes[q] = 1 BY <1>1, <2>1 DEF LedgersFit
  <2> QED BY <1>1, <2>2, <2>5, <2>6, <2>7, <2>8, <2>9, <2>10, <2>11, LedgersMove
<1>5. CallFits' BY DEF CallFits, NoCall
<1> QED BY <1>3, <1>4, <1>5, CloudStep

\* A call that is under way, and what the invariant says of it.
LEMMA CallUnderway ==
  ASSUME NotesInv, call.pc \in CallSteps
  PROVE  /\ call \in Calls /\ call # NoCall /\ call.req \in Requests /\ call.req.op \in Ops
         /\ Id(call.req) \in Ids
         /\ call.req.kind = "write" => Id(call.req) = W(call.req.op)
         /\ call.req.kind = "write" /\ call.pc \notin {"reserved", "done"} =>
              audit[Id(call.req)] \in Recorded(call.pc)
         /\ call.pc # "done" => call.result \in Outcomes \cup {"none", "lost"}
         /\ Truth(call.req, call.result) \/ (call.pc = "done" /\ call.result = "operation_rejected")
<1>1. call # NoCall BY CallIsSome DEF CallSteps
<1>2. call \in Calls BY <1>1 DEF NotesInv, NotesTyped
<1>3. PICK r \in Requests : r = call.req BY <1>2 DEF Calls
<1>4. r.op \in Ops /\ Id(r) \in Ids /\ (r.kind = "write" => Id(r) = W(r.op))
  BY RequestFacts
<1>5. CallFits BY DEF NotesInv, CloudInv
<1> QED BY <1>1, <1>2, <1>3, <1>4, <1>5 DEF CallFits

\* The call goes on: a step that is recorded before it is made, and an answer that is true.
LEMMA CallMoves ==
  ASSUME NotesInv, call.pc \in CallSteps \ {"reserved"},
         call' \in Calls, call'.pc # "reserved", call'.req = call.req,
         UNCHANGED <<receipt, mac, run, notes, joined, pending>>,
         active' \in BOOLEAN, link' \in {"up", "down"}, link' = "up" => joined,
         faults' \in 0..MaxFaults,
         toCloud' \in Seq(CloudMessages),
         \A i \in DOMAIN toCloud' : \E k \in DOMAIN toCloud : toCloud'[i] = toCloud[k],
         NEW a, audit' = [audit EXCEPT ![Id(call.req)] = a],
         a \in {"none", "proposed", "proposal_accepted", "commit_sent", "skipped_offline",
                "operation_rejected"} \cup Outcomes,
         toMac' \in Seq(MacMessages),
         \A i \in DOMAIN toMac' :
           \/ \E k \in DOMAIN toMac : toMac'[i] = toMac[k]
           \/ toMac'[i].req = call.req /\ (toMac'[i].type = "commit" => call.req.kind # "write" \/ a = "commit_sent"),
         NEW t, t = call'.result,
         \/ Truth(call.req, t)
         \/ /\ call'.pc = "done" /\ t = "operation_rejected"
            /\ call.req.kind = "write" => audit[Id(call.req)] \in Early,
         call'.pc # "done" => t \in Outcomes \cup {"none", "lost"},
         call.req.kind = "write" =>
           /\ a \in Early => audit[Id(call.req)] \in Early
           /\ call'.pc # "done" => a \in Recorded(call'.pc)
           /\ call'.pc = "done" => a = t /\ t \in {"skipped_offline"} \cup Outcomes
  PROVE  NotesInv'
<1>0. NotesTyped /\ CloudInv BY DEF NotesInv
<1>c. /\ call # NoCall /\ call.req \in Requests BY CallUnderway
<1>r. PICK r \in Requests : r = call.req BY <1>c
<1>q. PICK q \in Ops : q = r.op BY RequestFacts
<1>i. PICK id \in Ids : id = Id(r) BY RequestFacts
<1>w. (r.kind = "write" => id = W(q)) /\ (r.kind # "write" => id # W(q))
      /\ \A o \in Ops : o # q => W(o) # id
  BY <1>i, <1>q, RequestFacts
<1>a. /\ audit' \in [Ids -> {"none", "proposed", "proposal_accepted", "commit_sent",
                                 "skipped_offline", "operation_rejected"} \cup Outcomes]
      /\ audit'[id] = a /\ \A k \in Ids : k # id => audit'[k] = audit[k]
  BY <1>0, <1>r, <1>i DEF NotesTyped
<1>t. r.kind = "write" =>
        /\ t # "not_found" /\ (t \in {"committed", "unit_failed"} => mac[W(q)].status = t)
        /\ t = "operation_rejected" => mac[W(q)].status = t \/ audit[id] \in Early
  BY <1>r, <1>q, <1>i DEF Truth, Settled
<1>e. /\ r.kind = "write" => receipt[q] = "executing"
      /\ r.kind # "write" => receipt[q] = "outcome_unknown"
  BY <1>0, <1>c, <1>r, <1>q DEF CloudInv, CallFits
<1>f. r.kind = "write" =>
        /\ a # "not_found" /\ (a \in {"committed", "unit_failed"} => mac[W(q)].status = a)
        /\ a = "operation_rejected" => mac[W(q)].status = a \/ audit[W(q)] \in Early
  <2>1. \A pc : a \in Recorded(pc) => a \notin {"not_found", "operation_rejected", "committed", "unit_failed"}
    BY DEF Recorded
  <2>2. r.kind = "write" => a = t \/ a \in Recorded(call'.pc) BY <1>r
  <2> QED BY <1>t, <1>w, <2>1, <2>2
<1>1. NotesTyped'
  BY <1>0, <1>a
     DEF NotesTyped
<1>2. \A o \in Ops : LedgersFit(o)'
  <2>1. LedgersFit(q) BY <1>0 DEF CloudInv
  <2>2. W(q) \in Ids /\ \A o \in Ops : W(o) \in Ids BY IdsIn
  <2>3. \A o \in Ops : o # q => receipt'[o] = receipt[o] /\ audit'[W(o)] = audit[W(o)]
    BY <1>a, <1>w, <2>2
  <2>4. r.kind # "write" => audit'[W(q)] = audit[W(q)] BY <1>a, <1>w, <2>2
  <2>5. r.kind = "write" => audit'[W(q)] = a /\ (a \in Early => audit[W(q)] \in Early)
    BY <1>a, <1>r, <1>i, <1>w
  <2>6. \A i \in DOMAIN toMac' : toMac'[i].type = "commit" =>
           \/ \E k \in DOMAIN toMac : toMac'[i] = toMac[k]
           \/ toMac'[i].req.kind # "write"
           \/ toMac'[i].req.op = q /\ audit'[W(q)] = "commit_sent"
    BY <1>r, <1>q, <2>5
  <2>7. audit'[W(q)] \in Early => audit[W(q)] \in Early BY <2>4, <2>5
  <2>8. audit'[W(q)] \in {"committed", "unit_failed"} => mac[W(q)].status = audit'[W(q)]
    BY <1>f, <2>1, <2>4, <2>5 DEF LedgersFit
  <2>9. audit'[W(q)] # "not_found" BY <1>f, <2>1, <2>4, <2>5 DEF LedgersFit
  <2>10. audit'[W(q)] = "operation_rejected" =>
           audit[W(q)] \in Early \cup {"operation_rejected"} \/ mac[W(q)].status = "operation_rejected"
    BY <1>f, <2>4, <2>5
  <2>11. receipt'[q] \in {"executing", "outcome_unknown"} BY <1>e
  <2> QED BY <2>3, <2>6, <2>7, <2>8, <2>9, <2>10, <2>11, LedgersMove
<1>3. CallFits'
  <2>1. PICK d : d = call' OBVIOUS
  <2>2. d.pc # "reserved" /\ d.req = r /\ d.result = t BY <1>r, <2>1
  <2>3. /\ r.kind = "write" => receipt'[r.op] = "executing"
        /\ r.kind # "write" => receipt'[r.op] = "outcome_unknown"
    BY <1>e, <1>q
  <2>4. r.kind = "write" /\ d.pc \notin {"reserved", "done"} => audit'[W(r.op)] \in Recorded(d.pc)
    BY <1>a, <1>r, <1>q, <1>w, <2>1
  <2>5. r.kind = "write" /\ d.pc = "done" =>
          audit'[W(r.op)] = t /\ t \in {"skipped_offline"} \cup Outcomes
    BY <1>a, <1>r, <1>q, <1>w, <2>1
  <2>8. d.pc # "done" => d.result \in Outcomes \cup {"none", "lost"} BY <2>1
  <2>6. Truth(r, t)' \/ (d.pc = "done" /\ t = "operation_rejected") BY <1>r, <2>1 DEF Truth, W
  <2>7. (Truth(call.req, call.result) \/ (call.pc = "done" /\ call.result = "operation_rejected"))'
    BY <2>1, <2>2, <2>6 DEF Truth, W
  <2> QED BY <2>1, <2>2, <2>3, <2>4, <2>5, <2>7, <2>8 DEF CallFits, W
<1> QED BY <1>1, <1>2, <1>3, CloudStep

\* The steps of the call that touch neither ledger of the link: what is in the link is as
\* it was, or one message longer.
LinkSame ==
  /\ UNCHANGED <<receipt, active, link, toCloud, joined, pending, mac, run, notes>>
  /\ faults' \in 0..MaxFaults

\* What is in the link is as it was, or one message of the call longer.
LEMMA CallGoes ==
  ASSUME NotesInv, call.pc \in CallSteps \ {"reserved"}, LinkSame,
         call' \in Calls, call'.pc # "reserved", call'.req = call.req,
         NEW a, audit' = [audit EXCEPT ![Id(call.req)] = a],
         a \in {"none", "proposed", "proposal_accepted", "commit_sent", "skipped_offline",
                "operation_rejected"} \cup Outcomes,
         \/ UNCHANGED toMac
         \/ \E type \in {"propose", "abort", "commit"} :
              /\ ToMac(Message(type, call.req))
              /\ type = "commit" => call.req.kind # "write" \/ a = "commit_sent",
         NEW t, t = call'.result,
         \/ Truth(call.req, t)
         \/ /\ call'.pc = "done" /\ t = "operation_rejected"
            /\ call.req.kind = "write" => audit[Id(call.req)] \in Early,
         call'.pc # "done" => t \in Outcomes \cup {"none", "lost"},
         call.req.kind = "write" =>
           /\ a \in Early => audit[Id(call.req)] \in Early
           /\ call'.pc # "done" => a \in Recorded(call'.pc)
           /\ call'.pc = "done" => a = t /\ t \in {"skipped_offline"} \cup Outcomes
  PROVE  NotesInv'
<1>0. NotesTyped BY DEF NotesInv
<1>1. call.req \in Requests BY CallUnderway
<1>2. /\ toMac' \in Seq(MacMessages)
      /\ \A i \in DOMAIN toMac' :
           \/ \E k \in DOMAIN toMac : toMac'[i] = toMac[k]
           \/ toMac'[i].req = call.req /\ (toMac'[i].type = "commit" => call.req.kind # "write" \/ a = "commit_sent")
  <2>1. CASE UNCHANGED toMac BY <1>0, <2>1 DEF NotesTyped
  <2>2. CASE \E type \in {"propose", "abort", "commit"} :
               /\ ToMac(Message(type, call.req))
               /\ type = "commit" => call.req.kind # "write" \/ a = "commit_sent"
    BY <1>0, <1>1, <2>2, SentToMac
  <2> QED BY <2>1, <2>2
<1>3. /\ active' \in BOOLEAN /\ link' \in {"up", "down"} /\ (link' = "up" => joined)
      /\ toCloud' \in Seq(CloudMessages)
      /\ \A i \in DOMAIN toCloud' : \E k \in DOMAIN toCloud : toCloud'[i] = toCloud[k]
  BY <1>0 DEF LinkSame, NotesTyped
<1> QED BY <1>2, <1>3, CallMoves DEF LinkSame

\* The call's record with some of its fields changed.
LEMMA CallGoto ==
  ASSUME call \in Calls, NEW pc \in CallSteps, call' = [call EXCEPT !.pc = pc]
  PROVE  call' \in Calls /\ call'.pc = pc /\ call'.req = call.req /\ call'.result = call.result
BY DEF Calls

\* A fault is counted, or none happened.
LEMMA FaultIs ==
  ASSUME NotesTyped, Fault \/ UNCHANGED faults
  PROVE  faults' \in 0..MaxFaults
BY DEF Fault, NotesTyped

\* Without a connection the request is recorded as skipped, and nothing is sent.
LEMMA BeginOfflineStep ==
  ASSUME NotesInv, BeginOffline
  PROVE  NotesInv'
<1>0. NotesTyped BY DEF NotesInv
<1>g. call.pc = "begin" /\ "begin" \in CallSteps /\ "done" \in CallSteps BY DEF BeginOffline, CallSteps
<1>c. call \in Calls /\ (call.req.kind = "write" => audit[Id(call.req)] = "none")
  BY <1>g, CallUnderway DEF Recorded
<1>1. LinkSame /\ UNCHANGED toMac
  BY <1>0, FaultIs DEF BeginOffline, LinkSame, macVars
<1>2. /\ audit' = [audit EXCEPT ![Id(call.req)] = "skipped_offline"]
      /\ call' = [call EXCEPT !.pc = "done", !.result = "skipped_offline"]
  BY DEF BeginOffline, Audit, Return
<1>3. call' \in Calls /\ call'.pc = "done" /\ call'.req = call.req /\ call'.result = "skipped_offline"
  BY <1>c, <1>g, <1>2 DEF Calls
<1>4. Truth(call.req, "skipped_offline") BY DEF Truth, Settled
<1>5. call.req.kind = "write" => audit[Id(call.req)] \in Early BY <1>c DEF Early
<1> QED BY <1>g, <1>1, <1>2, <1>3, <1>4, <1>5, CallGoes

\* A step of the call that records nothing: the audit may be taken as written again.
LEMMA AuditSame ==
  ASSUME NotesInv, call.pc \in CallSteps, UNCHANGED audit
  PROVE  \E a : /\ a = audit[Id(call.req)]
                /\ audit' = [audit EXCEPT ![Id(call.req)] = a]
                /\ a \in {"none", "proposed", "proposal_accepted", "commit_sent", "skipped_offline",
                          "operation_rejected"} \cup Outcomes
<1>1. PICK id \in Ids : id = Id(call.req) BY CallUnderway
<1>2. audit' = [audit EXCEPT ![id] = audit[id]] BY DEF NotesInv, NotesTyped
<1>3. audit[id] \in {"none", "proposed", "proposal_accepted", "commit_sent", "skipped_offline",
                     "operation_rejected"} \cup Outcomes
  BY DEF NotesInv, NotesTyped
<1> QED BY <1>1, <1>2, <1>3

\* The proposal is sent, or the send itself fails.
LEMMA BeginOnlineStep ==
  ASSUME NotesInv, BeginOnline
  PROVE  NotesInv'
<1>0. NotesTyped BY DEF NotesInv
<1>g. call.pc = "begin" /\ {"begin", "record_proposed", "terminal"} \subseteq CallSteps
  BY DEF BeginOnline, CallSteps
<1>c. /\ call \in Calls /\ (call.req.kind = "write" => audit[Id(call.req)] = "none")
      /\ Truth(call.req, call.result) /\ call.result \in Outcomes \cup {"none", "lost"}
  BY <1>g, CallUnderway DEF Recorded
<1>1. LinkSame /\ UNCHANGED audit BY <1>0, FaultIs DEF BeginOnline, LinkSame, macVars
<1>2. /\ call' \in {[call EXCEPT !.pc = "record_proposed"], [call EXCEPT !.pc = "terminal", !.closed = TRUE]}
      /\ UNCHANGED toMac \/ ToMac(Message("propose", call.req))
  BY DEF BeginOnline, Goto
<1>3. /\ call' \in Calls /\ call'.pc \in {"record_proposed", "terminal"} /\ call'.req = call.req
      /\ call'.result = call.result
  <2>1. CASE call' = [call EXCEPT !.pc = "record_proposed"] BY <1>c, <1>g, <2>1, CallGoto
  <2>2. CASE call' = [call EXCEPT !.pc = "terminal", !.closed = TRUE] BY <1>c, <1>g, <2>2 DEF Calls
  <2> QED BY <1>2, <2>1, <2>2
<1>4. PICK a : /\ a = audit[Id(call.req)]
               /\ audit' = [audit EXCEPT ![Id(call.req)] = a]
               /\ a \in {"none", "proposed", "proposal_accepted", "commit_sent", "skipped_offline",
                         "operation_rejected"} \cup Outcomes
  BY <1>g, <1>1, AuditSame
<1>5. call.req.kind = "write" => a \in Recorded(call'.pc) BY <1>c, <1>3, <1>4 DEF Recorded
<1> QED BY <1>g, <1>c, <1>1, <1>2, <1>3, <1>4, <1>5, CallGoes

\* A step that records a status and goes on.
LEMMA RecordsStep ==
  ASSUME NotesInv, RecordProposed \/ RecordCommit
  PROVE  NotesInv'
<1>0. NotesTyped BY DEF NotesInv
<1>1. LinkSame /\ UNCHANGED toMac
  BY <1>0, FaultIs DEF RecordProposed, RecordCommit, LinkSame, macVars
<1>2. PICK pc, next, a :
        /\ <<pc, next, a>> \in {<<"record_proposed", "wait_accept", "proposed">>,
                                <<"record_commit", "commit", "commit_sent">>}
        /\ call.pc = pc /\ call' = [call EXCEPT !.pc = next]
        /\ audit' = [audit EXCEPT ![Id(call.req)] = a]
  BY DEF RecordProposed, RecordCommit, Audit, Goto
<1>g. pc \in CallSteps \ {"reserved"} /\ next \in CallSteps \ {"reserved", "done"} BY <1>2 DEF CallSteps
<1>c. /\ call \in Calls /\ (call.req.kind = "write" => audit[Id(call.req)] \in Recorded(pc))
      /\ Truth(call.req, call.result) /\ call.result \in Outcomes \cup {"none", "lost"}
  BY <1>g, <1>2, CallUnderway
<1>3. call' \in Calls /\ call'.pc = next /\ call'.req = call.req /\ call'.result = call.result
  BY <1>c, <1>g, <1>2, CallGoto
<1>4. a \in Recorded(next) /\ \A b \in Recorded(pc) : a \in Early => b \in Early
  BY <1>2 DEF Recorded, Early
<1>5. a \in {"proposed", "commit_sent"} BY <1>2
<1> QED BY <1>c, <1>g, <1>1, <1>2, <1>3, <1>4, <1>5, CallGoes

\* The proposal is answered, or not in time.
LEMMA EndProposalStep ==
  ASSUME NotesInv, EndProposal
  PROVE  NotesInv'
<1>0. NotesTyped BY DEF NotesInv
<1>g. call.pc = "wait_accept" /\ {"wait_accept", "recheck", "done", "terminal"} \subseteq CallSteps
  BY DEF EndProposal, CallSteps
<1>c. /\ call \in Calls /\ (call.req.kind = "write" => audit[Id(call.req)] = "proposed")
      /\ Truth(call.req, call.result) /\ call.result \in Outcomes \cup {"none", "lost"}
  BY <1>g, CallUnderway DEF Recorded
<1>1. LinkSame /\ UNCHANGED toMac BY <1>0, FaultIs DEF EndProposal, LinkSame, macVars
<1>e. call.req.kind = "write" => audit[Id(call.req)] \in Early BY <1>c DEF Early
<1>2. CASE /\ audit' = [audit EXCEPT ![Id(call.req)] = "proposal_accepted"]
           /\ call' = [call EXCEPT !.pc = "recheck"]
  <2>1. call' \in Calls /\ call'.pc = "recheck" /\ call'.req = call.req /\ call'.result = call.result
    BY <1>c, <1>g, <1>2, CallGoto
  <2>2. "proposal_accepted" \in Recorded("recheck") BY DEF Recorded
  <2> QED BY <1>c, <1>e, <1>g, <1>1, <1>2, <2>1, <2>2, CallGoes
<1>3. CASE /\ audit' = [audit EXCEPT ![Id(call.req)] = "operation_rejected"]
           /\ call' = [call EXCEPT !.pc = "done", !.result = "operation_rejected"]
  <2>1. call' \in Calls /\ call'.pc = "done" /\ call'.req = call.req /\ call'.result = "operation_rejected"
    BY <1>c, <1>g, <1>3 DEF Calls, Outcomes
  <2>2. PICK t : t = "operation_rejected" OBVIOUS
  <2>3. t = call'.result /\ t \in Outcomes /\ t \notin Early BY <2>1, <2>2 DEF Outcomes, Early
  <2>4. audit' = [audit EXCEPT ![Id(call.req)] = t] BY <1>3, <2>2
  <2> QED BY <1>e, <1>g, <1>1, <2>1, <2>2, <2>3, <2>4, CallGoes
<1>4. CASE UNCHANGED audit /\ call' = [call EXCEPT !.pc = "terminal", !.accepted = "lost"]
  <2>1. call' \in Calls /\ call'.pc = "terminal" /\ call'.req = call.req /\ call'.result = call.result
    BY <1>c, <1>g, <1>4 DEF Calls
  <2>2. PICK a : /\ a = audit[Id(call.req)]
                 /\ audit' = [audit EXCEPT ![Id(call.req)] = a]
                 /\ a \in {"none", "proposed", "proposal_accepted", "commit_sent", "skipped_offline",
                           "operation_rejected"} \cup Outcomes
    BY <1>g, <1>4, AuditSame
  <2>3. call.req.kind = "write" => a \in Recorded("terminal") BY <1>c, <2>2 DEF Recorded
  <2> QED BY <1>c, <1>e, <1>g, <1>1, <2>1, <2>2, <2>3, CallGoes
<1> QED BY <1>2, <1>3, <1>4 DEF EndProposal, Audit, Goto, Return

\* Without an answer to the proposal nothing is committed.
LEMMA TerminalStep ==
  ASSUME NotesInv, TerminalBeforeCommit
  PROVE  NotesInv'
<1>0. NotesTyped BY DEF NotesInv
<1>g. call.pc = "terminal" /\ {"terminal", "done"} \subseteq CallSteps
  BY DEF TerminalBeforeCommit, CallSteps
<1>c. /\ call \in Calls
      /\ call.req.kind = "write" => audit[Id(call.req)] \in {"none", "proposed", "proposal_accepted"}
  BY <1>g, CallUnderway DEF Recorded
<1>1. LinkSame BY <1>0 DEF TerminalBeforeCommit, LinkSame, macVars, NotesTyped
<1>2. /\ audit' = [audit EXCEPT ![Id(call.req)] = "skipped_offline"]
      /\ call' = [call EXCEPT !.pc = "done", !.result = "skipped_offline"]
      /\ UNCHANGED toMac \/ ToMac(Message("abort", call.req))
  BY DEF TerminalBeforeCommit, Audit, Return
<1>3. call' \in Calls /\ call'.pc = "done" /\ call'.req = call.req /\ call'.result = "skipped_offline"
  BY <1>c, <1>g, <1>2 DEF Calls
<1>4. Truth(call.req, "skipped_offline") BY DEF Truth, Settled
<1>5. call.req.kind = "write" => audit[Id(call.req)] \in Early BY <1>c DEF Early
<1> QED BY <1>g, <1>1, <1>2, <1>3, <1>4, <1>5, CallGoes

\* The connection is looked at again.
LEMMA RecheckStep ==
  ASSUME NotesInv, Recheck
  PROVE  NotesInv'
<1>0. NotesTyped BY DEF NotesInv
<1>g. call.pc = "recheck" /\ {"recheck", "terminal", "record_commit"} \subseteq CallSteps
  BY DEF Recheck, CallSteps
<1>c. /\ call \in Calls
      /\ call.req.kind = "write" => audit[Id(call.req)] = "proposal_accepted"
      /\ Truth(call.req, call.result) /\ call.result \in Outcomes \cup {"none", "lost"}
  BY <1>g, CallUnderway DEF Recorded
<1>1. LinkSame /\ UNCHANGED <<audit, toMac>>
  BY <1>0, FaultIs DEF Recheck, LinkSame, macVars
<1>2. call' \in {[call EXCEPT !.pc = "terminal"], [call EXCEPT !.pc = "record_commit", !.commitSent = TRUE]}
  BY DEF Recheck, Goto
<1>3. /\ call' \in Calls /\ call'.pc \in {"terminal", "record_commit"} /\ call'.req = call.req
      /\ call'.result = call.result
  <2>1. CASE call' = [call EXCEPT !.pc = "terminal"] BY <1>c, <1>g, <2>1, CallGoto
  <2>2. CASE call' = [call EXCEPT !.pc = "record_commit", !.commitSent = TRUE]
    BY <1>c, <1>g, <2>2 DEF Calls
  <2> QED BY <1>2, <2>1, <2>2
<1>4. PICK a : /\ a = audit[Id(call.req)]
               /\ audit' = [audit EXCEPT ![Id(call.req)] = a]
               /\ a \in {"none", "proposed", "proposal_accepted", "commit_sent", "skipped_offline",
                         "operation_rejected"} \cup Outcomes
  BY <1>g, <1>1, AuditSame
<1>5. call.req.kind = "write" => a \in Recorded(call'.pc) BY <1>c, <1>3, <1>4 DEF Recorded
<1> QED BY <1>g, <1>c, <1>1, <1>3, <1>4, <1>5, CallGoes

\* The commit is sent, or the send itself fails.
LEMMA SendCommitStep ==
  ASSUME NotesInv, SendCommit
  PROVE  NotesInv'
<1>0. NotesTyped BY DEF NotesInv
<1>g. call.pc = "commit" /\ {"commit", "wait_result"} \subseteq CallSteps BY DEF SendCommit, CallSteps
<1>c. /\ call \in Calls
      /\ call.req.kind = "write" => audit[Id(call.req)] = "commit_sent"
      /\ Truth(call.req, call.result) /\ call.result \in Outcomes \cup {"none", "lost"}
  BY <1>g, CallUnderway DEF Recorded
<1>1. LinkSame /\ UNCHANGED audit
  BY <1>0 DEF SendCommit, LinkSame, macVars, NotesTyped
<1>2. PICK t \in {call.result, "lost"} :
        call' \in {[call EXCEPT !.pc = "wait_result"], [call EXCEPT !.pc = "wait_result", !.result = t]}
  BY DEF SendCommit, Goto, Lost
<1>3. /\ call' \in Calls /\ call'.pc = "wait_result" /\ call'.req = call.req
      /\ call'.result \in {call.result, "lost"}
  <2>1. CASE call' = [call EXCEPT !.pc = "wait_result"] BY <1>c, <1>g, <2>1, CallGoto
  <2>2. CASE call' = [call EXCEPT !.pc = "wait_result", !.result = t]
    BY <1>c, <1>g, <2>2 DEF Calls
  <2> QED BY <1>2, <2>1, <2>2
<1>4. PICK a : /\ a = audit[Id(call.req)]
               /\ audit' = [audit EXCEPT ![Id(call.req)] = a]
               /\ a \in {"none", "proposed", "proposal_accepted", "commit_sent", "skipped_offline",
                         "operation_rejected"} \cup Outcomes
  BY <1>g, <1>1, AuditSame
<1>5. call.req.kind = "write" => a \in Recorded("wait_result") /\ a \notin Early /\ a = "commit_sent"
  BY <1>c, <1>4 DEF Recorded, Early
<1>6. UNCHANGED toMac \/ ToMac(Message("commit", call.req)) BY DEF SendCommit
<1>7. PICK u : u = call'.result OBVIOUS
<1>8. Truth(call.req, u) /\ u \in Outcomes \cup {"none", "lost"} BY <1>c, <1>3, <1>7 DEF Truth, Settled
<1> QED BY <1>g, <1>1, <1>3, <1>4, <1>5, <1>6, <1>7, <1>8, CallGoes

\* A result, a lost connection or the timeout ends the call.
LEMMA EndCommitStep ==
  ASSUME NotesInv, EndCommit
  PROVE  NotesInv'
<1>0. NotesTyped BY DEF NotesInv
<1>g. call.pc = "wait_result" /\ {"wait_result", "done"} \subseteq CallSteps BY DEF EndCommit, CallSteps
<1>c. /\ call \in Calls
      /\ call.req.kind = "write" => audit[Id(call.req)] = "commit_sent"
      /\ Truth(call.req, call.result) /\ call.result \in Outcomes \cup {"none", "lost"}
  BY <1>g, CallUnderway DEF Recorded
<1>1. LinkSame /\ UNCHANGED toMac BY <1>0, FaultIs DEF EndCommit, LinkSame, macVars
<1>p. PICK t : t = IF call.result \in Terminal THEN call.result ELSE "outcome_unknown" OBVIOUS
<1>2. /\ t = IF call.result \in Terminal THEN call.result ELSE "outcome_unknown"
      /\ audit' = [audit EXCEPT ![Id(call.req)] = t]
      /\ call' = [call EXCEPT !.pc = "done", !.result = t]
  BY <1>p DEF EndCommit, Audit, Return
<1>t. t \in Outcomes BY <1>c, <1>2 DEF Outcomes, Terminal
<1>3. call' \in Calls /\ call'.pc = "done" /\ call'.req = call.req /\ call'.result = t
  BY <1>c, <1>g, <1>2, <1>t DEF Calls
<1>4. Truth(call.req, t) BY <1>c, <1>2 DEF Truth, Settled
<1>5. t \notin Early BY <1>t DEF Early, Outcomes
<1> QED BY <1>g, <1>1, <1>2, <1>3, <1>4, <1>5, <1>t, CallGoes

\* The broker reads an answer that belongs to the call: it is taken once, and it is true.
LEMMA AnswerIsRead ==
  ASSUME NotesInv, toCloud # <<>>, NEW m, m = Head(toCloud), Expected(m),
         call' = CASE m.type = "result" /\ call.result = "none" -> [call EXCEPT !.result = m.status]
                   [] m.type = "accepted" /\ call.accepted = "none" -> [call EXCEPT !.accepted = "yes"]
                   [] m.type = "rejected" /\ call.accepted = "none" -> [call EXCEPT !.accepted = "no"]
                   [] OTHER -> call,
         toCloud' = Tail(toCloud),
         UNCHANGED <<receipt, audit, active, link, toMac, joined, pending, mac, run, notes, faults>>
  PROVE  NotesInv'
<1>0. NotesTyped BY DEF NotesInv
<1>g. call.pc \in CallSteps \ {"reserved", "done"}
  BY <1>0, CallIsSome DEF Expected, InCall, NotesTyped, Calls
<1>c. /\ call \in Calls /\ (call.req.kind = "write" => audit[Id(call.req)] \in Recorded(call.pc))
      /\ Truth(call.req, call.result) /\ call.result \in Outcomes \cup {"none", "lost"}
  BY <1>g, CallUnderway
<1>m. /\ m \in CloudMessages /\ (m.type = "result" => Truth(m.req, m.status))
      /\ m.req = call.req
  <2>1. 1 \in DOMAIN toCloud /\ m = toCloud[1] /\ toCloud[1] \in CloudMessages BY <1>0 DEF NotesTyped
  <2> QED BY <2>1 DEF NotesInv, MacInv, AnswersAreTrue, Expected
<1>s. m.type = "result" => m.status \in Outcomes BY <1>m DEF CloudMessages
<1>1. /\ call' \in Calls /\ call'.pc = call.pc /\ call'.req = call.req
      /\ call'.result \in Outcomes \cup {"none", "lost"}
      /\ call'.result = call.result \/ (m.type = "result" /\ call'.result = m.status)
  <2>1. CASE m.type = "result" /\ call.result = "none" BY <1>c, <1>s, <2>1 DEF Calls
  <2>2. CASE ~ (m.type = "result" /\ call.result = "none")
    <3>1. call' \in {call, [call EXCEPT !.accepted = "yes"], [call EXCEPT !.accepted = "no"]} BY <2>2
    <3>2. call' \in Calls /\ call'.pc = call.pc /\ call'.req = call.req /\ call'.result = call.result
      BY <1>c, <3>1 DEF Calls
    <3> QED BY <1>c, <3>2
  <2> QED BY <2>1, <2>2
<1>2. PICK a : /\ a = audit[Id(call.req)]
               /\ audit' = [audit EXCEPT ![Id(call.req)] = a]
               /\ a \in {"none", "proposed", "proposal_accepted", "commit_sent", "skipped_offline",
                         "operation_rejected"} \cup Outcomes
  BY <1>g, AuditSame
<1>3. PICK u : u = call'.result OBVIOUS
<1>4. Truth(call.req, u) /\ u \in Outcomes \cup {"none", "lost"} BY <1>c, <1>m, <1>1, <1>3
<1>5. toCloud' \in Seq(CloudMessages) /\ \A i \in DOMAIN toCloud' : \E k \in DOMAIN toCloud : toCloud'[i] = toCloud[k]
  BY <1>0, Shortened DEF NotesTyped
<1>6. toMac' \in Seq(MacMessages) /\ \A i \in DOMAIN toMac' : \E k \in DOMAIN toMac : toMac'[i] = toMac[k]
  BY <1>0 DEF NotesTyped
<1>7. /\ active' \in BOOLEAN /\ link' \in {"up", "down"} /\ (link' = "up" => joined) /\ faults' \in 0..MaxFaults
  BY <1>0 DEF NotesTyped
<1> QED BY <1>g, <1>c, <1>1, <1>2, <1>3, <1>4, <1>5, <1>6, <1>7, CallMoves

\* Any other message costs the connection.
LEMMA BrokerReadsStep ==
  ASSUME NotesInv, BrokerReads
  PROVE  NotesInv'
<1>0. NotesTyped BY DEF NotesInv
<1>1. PICK m : m = Head(toCloud) OBVIOUS
<1>2. /\ toCloud # <<>>
      /\ UNCHANGED <<receipt, audit, toMac, joined, pending, mac, run, notes, faults>>
  BY DEF BrokerReads, macVars
<1>3. CASE Expected(m) BY <1>1, <1>2, <1>3, AnswerIsRead DEF BrokerReads
<1>4. CASE ~ Expected(m)
  <2>1. call' = Failed(call) /\ active' = FALSE /\ link' = "down" /\ toCloud' = <<>>
    BY <1>1, <1>4 DEF BrokerReads
  <2>2. joined' \in BOOLEAN /\ faults' \in 0..MaxFaults BY <1>0, <1>2 DEF NotesTyped
  <2> QED BY <1>2, <2>1, <2>2, LinkStep
<1> QED BY <1>3, <1>4

\* A write that is about to begin: its receipt says so before anything is sent.
LEMMA StartWriteStep ==
  ASSUME NotesInv, StartWrite
  PROVE  NotesInv'
<1>0. NotesTyped /\ CloudInv BY DEF NotesInv
<1>g. call.pc = "reserved" /\ {"reserved", "begin"} \subseteq CallSteps BY DEF StartWrite, CallSteps
<1>c. call \in Calls /\ call # NoCall /\ call.req \in Requests BY <1>g, CallUnderway
<1>r. PICK r \in Requests : r = call.req BY <1>c
<1>q. PICK q \in Ops : q = r.op BY RequestFacts
<1>f. /\ r.kind = "write" /\ receipt[q] = "prepared"
      /\ Truth(call.req, call.result) /\ call.result \in Outcomes \cup {"none", "lost"}
  BY <1>0, <1>c, <1>g, <1>r, <1>q DEF CloudInv, CallFits
<1>n. audit[W(q)] = "none" BY <1>0, <1>f DEF CloudInv, LedgersFit
<1>1. UNCHANGED <<audit, active, link, toMac, toCloud, joined, pending, mac, run, notes, faults>>
  BY DEF StartWrite, macVars
<1>2. receipt' = [receipt EXCEPT ![q] = "executing"] /\ call' = [call EXCEPT !.pc = "begin"]
  BY <1>r, <1>q DEF StartWrite
<1>3. call' \in Calls /\ call'.pc = "begin" /\ call'.req = r /\ call'.result = call.result
  BY <1>c, <1>g, <1>r, <1>2, CallGoto
<1>4. /\ receipt' \in [Ops -> {"none", "prepared", "executing", "committed", "failed", "outcome_unknown"}]
      /\ receipt'[q] = "executing" /\ \A o \in Ops : o # q => receipt'[o] = receipt[o]
  BY <1>0, <1>2 DEF NotesTyped
<1>5. NotesTyped'
  BY <1>0, <1>1, <1>3, <1>4
     DEF NotesTyped
<1>6. \A o \in Ops : LedgersFit(o)'
  <2>1. audit'[W(q)] = audit[W(q)] /\ \A o \in Ops : audit'[W(o)] = audit[W(o)] BY <1>1
  <2>2. \A i \in DOMAIN toMac' : \E k \in DOMAIN toMac : toMac'[i] = toMac[k] BY <1>1
  <2>3. UNCHANGED <<mac, notes>> BY <1>1
  <2> QED BY <1>n, <1>4, <2>1, <2>2, <2>3, LedgersMove
<1>7. CallFits'
  <2>1. PICK d : d = call' OBVIOUS
  <2>2. d.pc = "begin" /\ d.req = r /\ d.result = call.result BY <1>3, <2>1
  <2>3. receipt'[r.op] = "executing" BY <1>4, <1>q
  <2>4. audit'[W(r.op)] \in Recorded("begin") BY <1>n, <1>q, <1>1 DEF Recorded, W
  <2>5. PICK u : u = call.result OBVIOUS
  <2>6. Truth(r, u) BY <1>f, <1>r, <2>5
  <2>7. Truth(r, u)' BY <1>1, <2>6 DEF Truth, W
  <2>8. Truth(call.req, call.result)' BY <2>1, <2>2, <2>5, <2>7 DEF Truth, W
  <2> QED BY <1>f, <2>1, <2>2, <2>3, <2>4, <2>8 DEF CallFits, W
<1> QED BY <1>1, <1>5, <1>6, <1>7, CloudStep

\* The ledger of a call that ends may be taken as written again.
LEMMA AuditIsKept ==
  ASSUME NotesInv, call.pc \in CallSteps, UNCHANGED audit
  PROVE  audit' = [audit EXCEPT ![Id(call.req)] = audit[Id(call.req)]]
<1>1. PICK id \in Ids : id = Id(call.req) BY CallUnderway
<1>2. audit' = [audit EXCEPT ![id] = audit[id]] BY DEF NotesInv, NotesTyped
<1> QED BY <1>1, <1>2

\* The bridge answered a write.
LEMMA SettleWriteStep ==
  ASSUME NotesInv, SettleWrite
  PROVE  NotesInv'
<1>0. NotesTyped /\ CloudInv BY DEF NotesInv
<1>g. call.pc = "done" /\ call.req.kind = "write" /\ call.pc \in CallSteps
  BY DEF SettleWrite, CallSteps
<1>c. /\ call \in Calls /\ call # NoCall /\ call.req \in Requests /\ call.req.op \in Ops
      /\ Id(call.req) = W(call.req.op)
      /\ Truth(call.req, call.result) \/ call.result = "operation_rejected"
  BY <1>g, CallUnderway
<1>q. PICK q \in Ops : q = call.req.op BY <1>c
<1>f. /\ audit[W(q)] = call.result /\ call.result \in {"skipped_offline"} \cup Outcomes
  BY <1>0, <1>c, <1>g, <1>q DEF CloudInv, CallFits
<1>1. /\ UNCHANGED <<audit, active, link, toMac, toCloud, joined, pending, mac, run, notes, faults>>
      /\ call' = NoCall
  BY DEF SettleWrite, macVars
<1>2. PICK s : s = IF call.result \in {"committed", "outcome_unknown"} THEN call.result ELSE "failed" OBVIOUS
<1>3. receipt' = [receipt EXCEPT ![q] = s] BY <1>q, <1>2 DEF SettleWrite
<1>4. s \in {"outcome_unknown", "failed", "committed"} BY <1>2
<1>5. s = "failed" => audit[W(q)] \in {"skipped_offline", "operation_rejected", "unit_failed"}
  BY <1>f, <1>c, <1>g, <1>2 DEF Outcomes, Truth
<1>6. s = "committed" => notes[q] = 1 BY <1>c, <1>q, <1>2 DEF Truth
<1>7. PICK a : a = audit[Id(call.req)] OBVIOUS
<1>8. audit' = [audit EXCEPT ![Id(call.req)] = a] BY <1>1, <1>7, <1>g, AuditIsKept
<1>9. audit'[W(q)] = audit[W(q)] /\ faults' \in 0..MaxFaults BY <1>0, <1>1 DEF NotesTyped
<1>10. UNCHANGED <<active, link, toMac, toCloud, joined, pending, mac, run, notes>> BY <1>1
<1> QED BY <1>c, <1>q, <1>1, <1>3, <1>4, <1>5, <1>6, <1>7, <1>8, <1>9, <1>10, CallEnds

\* The bridge answered a lookup.
LEMMA SettleLookupStep ==
  ASSUME NotesInv, SettleLookup
  PROVE  NotesInv'
<1>0. NotesTyped /\ CloudInv BY DEF NotesInv
<1>g. call.pc = "done" /\ call.req.kind \in {"roxy", "akashic"} /\ call.pc \in CallSteps
  BY DEF SettleLookup, CallSteps, Lookups
<1>c. /\ call \in Calls /\ call # NoCall /\ call.req \in Requests /\ call.req.op \in Ops
      /\ Truth(call.req, call.result) \/ call.result = "operation_rejected"
  BY <1>g, CallUnderway
<1>q. PICK q \in Ops : q = call.req.op BY <1>c
<1>f. receipt[q] = "outcome_unknown" BY <1>0, <1>c, <1>g, <1>q DEF CloudInv, CallFits
<1>1. UNCHANGED <<audit, active, link, toMac, toCloud, joined, pending, mac, run, notes, faults>>
  BY DEF SettleLookup, macVars
<1>2. CASE call' = NoCall
  <2>1. PICK s \in {"outcome_unknown", "committed"} :
          receipt' = [receipt EXCEPT ![q] = s] /\ (s = "committed" => call.result = "committed")
    <3>1. CASE call.result = "committed" /\ receipt' = [receipt EXCEPT ![call.req.op] = "committed"]
      BY <1>q, <3>1
    <3>2. CASE UNCHANGED receipt
      <4>1. receipt' = [receipt EXCEPT ![q] = "outcome_unknown"] BY <1>0, <1>f, <3>2 DEF NotesTyped
      <4> QED BY <4>1
    <3> QED BY <3>1, <3>2 DEF SettleLookup
  <2>2. s = "committed" => notes[q] = 1 BY <1>c, <1>q, <2>1 DEF Truth
  <2>3. PICK a : a = audit[Id(call.req)] OBVIOUS
  <2>4. audit' = [audit EXCEPT ![Id(call.req)] = a] BY <1>1, <1>g, <2>3, AuditIsKept
  <2>5. faults' \in 0..MaxFaults BY <1>0, <1>1 DEF NotesTyped
  <2>6. UNCHANGED <<active, link, toMac, toCloud, joined, pending, mac, run, notes>> BY <1>1
  <2> QED BY <1>c, <1>g, <1>q, <1>2, <2>1, <2>2, <2>3, <2>4, <2>5, <2>6, CallEnds
<1>3. CASE NewCall(Request(call.req.op, "akashic"), "begin") /\ UNCHANGED receipt
  <2>1. PICK r : r = Request(q, "akashic") OBVIOUS
  <2>2. r \in Requests /\ r.op = q /\ r.kind = "akashic" BY <2>1, RequestIn
  <2>3. NewCall(r, "begin") BY <1>3, <1>q, <2>1
  <2>4. receipt' = [receipt EXCEPT ![r.op] = "outcome_unknown"] BY <1>0, <1>3, <1>f, <2>2 DEF NotesTyped
  <2> QED BY <1>1, <2>2, <2>3, <2>4, NewCallStep
<1> QED BY <1>2, <1>3 DEF SettleLookup

\* The tool is cancelled: what it had handed to a thread is still recorded, and the
\* result of a write is unknown.
LEMMA CancelStep ==
  ASSUME NotesInv, Cancel
  PROVE  NotesInv'
<1>0. NotesTyped /\ CloudInv BY DEF NotesInv
<1>n. call # NoCall /\ call.pc \notin {"reserved", "done"}
  BY DEF Cancel, InCall, NoCall
<1>g. call.pc \in CallSteps BY <1>0, <1>n DEF NotesTyped, Calls
<1>c. /\ call \in Calls /\ call.req \in Requests /\ call.req.op \in Ops
      /\ call.req.kind = "write" => Id(call.req) = W(call.req.op)
      /\ call.req.kind = "write" => audit[Id(call.req)] \in Recorded(call.pc)
  BY <1>g, <1>n, CallUnderway
<1>q. PICK q \in Ops : q = call.req.op BY <1>c
<1>1. /\ UNCHANGED <<active, link, toMac, toCloud, joined, pending, mac, run, notes>>
      /\ call' = NoCall /\ faults' \in 0..MaxFaults
  BY <1>0, FaultIs DEF Cancel, macVars
<1>2. PICK a : /\ audit' = [audit EXCEPT ![Id(call.req)] = a]
               /\ a \in {audit[Id(call.req)], "proposed", "commit_sent"}
               /\ a = audit[Id(call.req)] \/ call.pc \in {"record_proposed", "record_commit"}
  <2>1. CASE UNCHANGED audit BY <1>g, <2>1, AuditIsKept
  <2>2. CASE call.pc = "record_proposed" /\ Audit("proposed") BY <2>2 DEF Audit
  <2>3. CASE call.pc = "record_commit" /\ Audit("commit_sent") BY <2>3 DEF Audit
  <2> QED BY <2>1, <2>2, <2>3 DEF Cancel
<1>3. PICK s : /\ s \in {receipt[q], "outcome_unknown"} /\ receipt' = [receipt EXCEPT ![q] = s]
               /\ call.req.kind = "write" => s = "outcome_unknown"
  <2>1. CASE call.req.kind = "write"
    <3>1. receipt' = [receipt EXCEPT ![q] = "outcome_unknown"] BY <1>q, <2>1 DEF Cancel
    <3> QED BY <3>1
  <2>2. CASE call.req.kind # "write"
    <3>1. receipt' = receipt BY <2>2 DEF Cancel
    <3>2. receipt' = [receipt EXCEPT ![q] = receipt[q]] BY <1>0, <3>1 DEF NotesTyped
    <3> QED BY <2>2, <3>2
  <2> QED BY <2>1, <2>2
<1>4. call.req.kind = "write" => a = audit[Id(call.req)] \/ audit[W(q)] \in Early
  BY <1>c, <1>q, <1>2 DEF Recorded, Early
<1>5. s # receipt[q] => s = "outcome_unknown" BY <1>3
<1>6. s \in {receipt[q], "outcome_unknown", "failed", "committed"} BY <1>3
<1> QED BY <1>n, <1>q, <1>1, <1>2, <1>3, <1>4, <1>5, <1>6, CallEnds

\* The cloud process dies: its ledger is settled by where it stood, the call and what was
\* on its way are gone.
LEMMA CloudRestartStep ==
  ASSUME NotesInv, CloudRestart
  PROVE  NotesInv'
<1>0. NotesTyped /\ CloudInv BY DEF NotesInv
<1>1. /\ UNCHANGED <<receipt, joined, pending, mac, run, notes>> /\ faults' \in 0..MaxFaults
      /\ call' = NoCall /\ active' = FALSE /\ link' = "down" /\ toCloud' = <<>>
      /\ toMac' \in Prefixes(toMac)
  BY <1>0, FaultIs DEF CloudRestart, macVars
<1>2. audit' = [i \in Ids |-> Recovered(audit[i])] BY DEF CloudRestart, Ids
<1>3. \A i \in Ids :
        /\ audit'[i] \in {"none", "proposed", "proposal_accepted", "commit_sent", "skipped_offline",
                          "operation_rejected"} \cup Outcomes
        /\ audit'[i] = IF audit[i] \in {"proposed", "proposal_accepted"} THEN "skipped_offline"
                       ELSE IF audit[i] = "commit_sent" THEN "outcome_unknown" ELSE audit[i]
  BY <1>0, <1>2 DEF Recovered, NotesTyped, Outcomes
<1>4. /\ toMac' \in Seq(MacMessages)
      /\ \A i \in DOMAIN toMac' : \E k \in DOMAIN toMac : toMac'[i] = toMac[k]
  BY <1>0, <1>1, Shortened DEF NotesTyped
<1>5. audit' \in [Ids -> {"none", "proposed", "proposal_accepted", "commit_sent", "skipped_offline",
                              "operation_rejected"} \cup Outcomes]
  BY <1>2, <1>3
<1>6. NotesTyped'
  <2>1. /\ UNCHANGED <<Ids, Requests>>
        /\ UNCHANGED <<MacMessages, CloudMessages, Rows, Runs, Calls>>
    BY DEF Ids, Requests, Request, Lookups,
           MacMessages, CloudMessages, Rows, Runs, Calls
  <2>2. /\ receipt' \in [Ops -> {"none", "prepared", "executing", "committed", "failed", "outcome_unknown"}]
        /\ pending' \subseteq Requests /\ mac' \in [Ids -> Rows]
        /\ run' \in Runs \cup {NoRun} /\ notes' \in [Ops -> {0, 1}]
    BY <1>0, <1>1 DEF NotesTyped
  <2>3. toCloud' \in Seq(CloudMessages) /\ toMac' \in Seq(MacMessages) BY <1>1, <1>4
  <2>4. /\ active' \in BOOLEAN /\ joined' \in BOOLEAN /\ link' \in {"up", "down"}
        /\ (link' = "up" => joined')
        /\ MaxFaults \in Nat
    BY <1>0, <1>1 DEF NotesTyped
  <2> QED BY <1>1, <1>5, <2>1, <2>2, <2>3, <2>4 DEF NotesTyped
<1>7. \A o \in Ops : LedgersFit(o)'
  <2>1. SUFFICES ASSUME NEW o \in Ops PROVE LedgersFit(o)' OBVIOUS
  <2>2. LedgersFit(o) /\ UNCHANGED W(o) /\ W(o) \in Ids BY <1>0, IdsIn DEF CloudInv, W
  <2>3. CommitUnderway(o)' => CommitUnderway(o) BY <1>4 DEF CommitUnderway, Request
  <2>4. audit'[W(o)] = IF audit[W(o)] \in {"proposed", "proposal_accepted"} THEN "skipped_offline"
                       ELSE IF audit[W(o)] = "commit_sent" THEN "outcome_unknown" ELSE audit[W(o)]
    BY <1>3, <2>2
  <2>5. audit'[W(o)] \in Early => audit[W(o)] \in Early BY <2>4 DEF Early
  <2>6. Withheld(o) => Withheld(o)' BY <1>1, <2>2, <2>3 DEF Withheld
  <2> QED BY <1>1, <2>2, <2>4, <2>5, <2>6 DEF LedgersFit
<1>8. CallFits' BY <1>1 DEF CallFits, NoCall
<1>9. \A i \in DOMAIN toCloud' : \E k \in DOMAIN toCloud : toCloud'[i] = toCloud[k] BY <1>1
<1> QED BY <1>1, <1>6, <1>7, <1>8, <1>9, CloudStep

\* Nothing is on record, on its way or written.
LEMMA NotesFirst ==
  ASSUME Init, MaxFaults \in Nat
  PROVE  NotesInv
<1>1. /\ mac \in [Ids -> Rows] /\ \A i \in Ids : mac[i].status = "none"
      /\ audit \in [Ids -> {"none"}] /\ \A i \in Ids : audit[i] = "none"
      /\ receipt \in [Ops -> {"none"}] /\ notes \in [Ops -> {0}]
  BY DEF Init, Ids, Rows
<1>2. toMac = <<>> /\ toCloud = <<>> /\ call = NoCall /\ run = NoRun
      /\ active = FALSE /\ joined = FALSE /\ link = "down" /\ pending = {} /\ faults = 0
  BY DEF Init
<1>3. NotesTyped
  <2>1. toMac \in Seq(MacMessages) /\ toCloud \in Seq(CloudMessages) BY <1>2
  <2>2. faults \in 0..MaxFaults BY <1>2
  <2> QED BY <1>1, <1>2, <2>1, <2>2 DEF NotesTyped
<1>4. RunFits /\ AnswersAreTrue BY <1>2 DEF RunFits, AnswersAreTrue, NoRun
<1>5. CallFits BY <1>2 DEF CallFits
<1>6. ASSUME NEW o \in Ops PROVE RowFits(o) /\ LedgersFit(o)
  <2>1. ~ CommitUnderway(o) BY <1>2 DEF CommitUnderway
  <2>2. /\ mac[W(o)].status = "none" /\ mac[<<o, "find">>].status = "none" /\ audit[W(o)] = "none"
        /\ receipt[o] = "none" /\ notes[o] = 0
    BY <1>1, IdsIn
  <2>3. RowFits(o) BY <2>2 DEF RowFits
  <2>4. LedgersFit(o) BY <2>1, <2>2 DEF LedgersFit, Withheld
  <2> QED BY <2>3, <2>4
<1> QED BY <1>3, <1>4, <1>5, <1>6 DEF NotesInv, MacInv, CloudInv

\* Every step of the bridge keeps the invariant.
LEMMA NotesStep ==
  ASSUME NotesInv, Next
  PROVE  NotesInv'
<1>1. CASE \E o \in Ops : Create(o) \/ Reconcile(o) \/ MacReconcile(o)
  BY <1>1, CreateStep, MacReconcileStep
<1>2. CASE StartWrite \/ SettleWrite \/ SettleLookup
  BY <1>2, StartWriteStep, SettleWriteStep, SettleLookupStep
<1>3. CASE \/ BeginOffline \/ BeginOnline \/ RecordProposed \/ EndProposal
           \/ TerminalBeforeCommit \/ Recheck \/ RecordCommit \/ SendCommit
           \/ EndCommit
  BY <1>3, BeginOfflineStep, BeginOnlineStep, RecordsStep, EndProposalStep, TerminalStep,
     RecheckStep, SendCommitStep, EndCommitStep
<1>4. CASE \/ BrokerReads \/ BrokerLosesLink \/ Cancel \/ CloudRestart
           \/ Connect \/ Drop
  BY <1>4, BrokerReadsStep, LinkSteps, CancelStep, CloudRestartStep
<1>5. CASE \E r \in Requests : MacPropose(r) \/ MacAbort(r) \/ MacCommit(r)
  <2>1. PICK r \in Requests : MacPropose(r) \/ MacAbort(r) \/ MacCommit(r)
    BY <1>5 DEF Requests
  <2> QED BY <2>1, MacProposeStep, MacWithdraws, MacCommitStep
<1>6. CASE MacLosesLink \/ MacScript \/ MacFinish \/ MacStops
  BY <1>6, MacWithdraws, MacScriptStep, MacFinishStep, MacStopsStep
<1> QED BY <1>1, <1>2, <1>3, <1>4, <1>5, <1>6 DEF Next

\* The other services do not touch the notes.
LEMMA NotesRest ==
  ASSUME NotesInv, UNCHANGED vars
  PROVE  NotesInv'
<1>0. NotesTyped BY DEF NotesInv
<1>1. faults' \in 0..MaxFaults BY <1>0 DEF NotesTyped, vars
<1> QED BY <1>0, <1>1, LinkStep DEF NotesTyped, vars

\* The ledgers of the link, the broker, the service and the Mac agree at every step.
THEOREM NotesInvariant == MaxFaults \in Nat /\ Spec => []NotesInv
<1>1. MaxFaults \in Nat /\ Init => NotesInv BY NotesFirst
<1>2. NotesInv /\ [Next]_vars => NotesInv' BY NotesStep, NotesRest
<1> QED BY <1>1, <1>2, PTL DEF Spec

\* The invariant says what the properties ask.
LEMMA NotesPromises ==
  ASSUME NotesInv
  PROVE  TypeOK /\ LedgersAgree
<1>0. NotesTyped /\ MacInv /\ CloudInv BY DEF NotesInv
<1>1. TypeOK BY <1>0 DEF NotesTyped, TypeOK, Ids, Requests
<1>2. ASSUME NEW o \in Ops, NEW w, w = <<o, "write">>
      PROVE  /\ audit[w] \in {"proposed", "proposal_accepted", "skipped_offline", "operation_rejected", "unit_failed"}
                  => notes[o] = 0 /\ mac[w].status \in {"none", "proposal_accepted", "operation_rejected", "unit_failed"}
             /\ audit[w] = "committed" => notes[o] = 1 /\ mac[w].status = "committed"
             /\ mac[w].status = "committed" => notes[o] = 1
             /\ mac[w].status \in {"none", "proposal_accepted", "operation_rejected", "unit_failed"} => notes[o] = 0
             /\ receipt[o] = "failed" => mac[w].status \notin {"executing", "committed", "outcome_unknown"}
             /\ receipt[o] = "committed" => notes[o] = 1
  <2>1. RowFits(o) /\ LedgersFit(o) /\ w = W(o) BY <1>0, <1>2 DEF MacInv, CloudInv, W
  <2>2. {"proposed", "proposal_accepted", "skipped_offline"} \subseteq Early BY DEF Early
  <2> QED BY <2>1, <2>2 DEF RowFits, LedgersFit, Withheld
<1> QED BY <1>1, <1>2 DEF LedgersAgree

\* For any notes and any number of lost links, stops, cancellations and timeouts: what the
\* service, the broker and the Mac have on record never contradicts Apple Notes or each
\* other (apple_notes/service.py, notes_bridge/broker.py, mac_notes_bridge).
THEOREM LedgersAlwaysAgree == MaxFaults \in Nat /\ Spec => [](TypeOK /\ LedgersAgree)
<1>1. NotesInv => TypeOK /\ LedgersAgree BY NotesPromises
<1> QED BY <1>1, NotesInvariant, PTL

----------------------------------------------------------------------------
\* The promise to the user: a step that changes one receipt tells what may be told.
LEMMA ToldStep ==
  ASSUME NotesTyped, NEW q \in Ops, NEW s, receipt' = [receipt EXCEPT ![q] = s], UNCHANGED notes,
         \/ Told(s) = Told(receipt[q])
         \/ Told(receipt[q]) = "nothing" /\ notes[q] = 0 /\ Told(s) \in {"unsaved", "unknown"}
         \/ Told(receipt[q]) = "nothing" /\ notes[q] = 1 /\ Told(s) \in {"saved", "unknown"}
         \/ Told(receipt[q]) = "unknown" /\ notes[q] = 1 /\ Told(s) = "saved"
  PROVE  [Promise!Next]_(Promise!vars)
<1>1. PICK T : T = [o \in Ops |-> Told(receipt[o])] OBVIOUS
<1>2. PICK U : U = [o \in Ops |-> Told(receipt'[o])] OBVIOUS
<1>3. \A o \in Ops : receipt'[o] = IF o = q THEN s ELSE receipt[o] BY DEF NotesTyped
<1>4. U = [T EXCEPT ![q] = Told(s)] BY <1>1, <1>2, <1>3
<1>5. U[q] = Told(s) /\ T[q] = Told(receipt[q]) BY <1>1, <1>2, <1>3
<1>6. CASE Told(s) = Told(receipt[q])
  <2>1. U = T BY <1>1, <1>2, <1>3, <1>6
  <2> QED BY <1>1, <1>2, <2>1 DEF Promise!vars, Told
<1>7. CASE Told(s) # Told(receipt[q])
  <2>1. U[q] \in CASE T[q] = "nothing" -> IF notes[q] = 0 THEN {"unsaved", "unknown"} ELSE {"saved", "unknown"}
                   [] T[q] = "unknown" /\ notes[q] = 1 -> {"saved"}
                   [] OTHER -> {}
    BY <1>5, <1>7
  <2>2. Promise!Tell(q) BY <1>1, <1>2, <1>4, <1>5, <2>1 DEF Promise!Tell, Promise!Answers, Told
  <2> QED BY <2>2 DEF Promise!Next
<1> QED BY <1>6, <1>7

\* A note is written once, by a request that runs, and its user has not been told.
LEMMA ScriptKeepsPromise ==
  ASSUME NotesInv, MacScript
  PROVE  [Promise!Next]_(Promise!vars)
<1>0. NotesTyped /\ MacInv /\ CloudInv BY DEF NotesInv
<1>1. UNCHANGED receipt BY DEF MacScript, cloudVars
<1>2. CASE UNCHANGED notes BY <1>1, <1>2 DEF Promise!vars, Told
<1>3. CASE notes' # notes
  <2>1. run.step = "script" /\ run.req.kind = "write" /\ notes' = [notes EXCEPT ![run.req.op] = @ + 1]
    BY <1>3 DEF MacScript
  <2>2. run # NoRun BY <2>1 DEF NoRun
  <2>3. run.req \in Requests BY <1>0, <2>2 DEF NotesTyped, Runs
  <2>4. PICK q \in Ops : q = run.req.op BY <2>3, RequestFacts
  <2>5. Id(run.req) = W(q) BY <2>1, <2>3, <2>4, RequestFacts
  <2>6. mac[W(q)].status = "executing" /\ notes[q] = 0
    BY <1>0, <2>1, <2>4, <2>5 DEF MacInv, RunFits
  <2>7. receipt[q] \notin {"failed", "committed"}
    BY <1>0, <2>6 DEF CloudInv, LedgersFit, Withheld, Early
  <2>8. Told(receipt[q]) \in {"nothing", "unknown"} BY <1>0, <2>7 DEF Told, NotesTyped
  <2>9. notes' = [notes EXCEPT ![q] = 1] BY <2>1, <2>4, <2>6
  <2>10. Promise!Write(q) BY <1>1, <2>6, <2>8, <2>9 DEF Promise!Write, Told
  <2> QED BY <2>10 DEF Promise!Next
<1> QED BY <1>2, <1>3

\* What settles a receipt tells the user what is so.
LEMMA SettleKeepsPromise ==
  ASSUME NotesInv, SettleWrite \/ SettleLookup
  PROVE  [Promise!Next]_(Promise!vars)
<1>0. NotesTyped /\ MacInv /\ CloudInv BY DEF NotesInv
<1>g. call.pc = "done" /\ call.pc \in CallSteps BY DEF SettleWrite, SettleLookup, CallSteps
<1>c. /\ call \in Calls /\ call # NoCall /\ call.req \in Requests /\ call.req.op \in Ops
      /\ Truth(call.req, call.result) \/ call.result = "operation_rejected"
  BY <1>g, CallUnderway
<1>q. PICK q \in Ops : q = call.req.op BY <1>c
<1>n. UNCHANGED notes /\ notes[q] \in {0, 1}
  BY <1>0 DEF SettleWrite, SettleLookup, macVars, NotesTyped
<1>1. CASE SettleWrite
  <2>1. call.req.kind = "write" BY <1>1 DEF SettleWrite
  <2>2. /\ receipt[q] = "executing" /\ audit[W(q)] = call.result
        /\ call.result \in {"skipped_offline"} \cup Outcomes
    BY <1>0, <1>c, <1>g, <1>q, <2>1 DEF CloudInv, CallFits
  <2>3. PICK s : s = IF call.result \in {"committed", "outcome_unknown"} THEN call.result ELSE "failed" OBVIOUS
  <2>4. receipt' = [receipt EXCEPT ![q] = s] BY <1>1, <1>q, <2>3 DEF SettleWrite
  <2>5. s = "committed" => notes[q] = 1 BY <1>c, <1>q, <2>3 DEF Truth
  <2>6. s = "failed" => notes[q] = 0
    <3>1. SUFFICES ASSUME s = "failed" PROVE notes[q] = 0 OBVIOUS
    <3>2. call.result \in {"skipped_offline", "operation_rejected", "unit_failed"}
      BY <1>c, <2>1, <2>2, <2>3, <3>1 DEF Truth, Outcomes
    <3>3. mac[W(q)].status \in {"none", "proposal_accepted", "operation_rejected", "unit_failed"}
      BY <1>0, <2>2, <3>2 DEF CloudInv, LedgersFit, Withheld, Early
    <3> QED BY <1>0, <3>3 DEF MacInv, RowFits
  <2>7. s \in {"committed", "outcome_unknown", "failed"} BY <2>3
  <2>8. /\ Told(receipt[q]) = "nothing" /\ (s = "committed" => Told(s) = "saved")
        /\ (s = "outcome_unknown" => Told(s) = "unknown") /\ (s = "failed" => Told(s) = "unsaved")
    BY <2>2 DEF Told
  <2> QED BY <1>0, <1>n, <2>4, <2>5, <2>6, <2>7, <2>8, ToldStep
<1>2. CASE SettleLookup
  <2>1. call.req.kind # "write" BY <1>2 DEF SettleLookup, Lookups
  <2>2. receipt[q] = "outcome_unknown" BY <1>0, <1>c, <1>g, <1>q, <2>1 DEF CloudInv, CallFits
  <2>3. CASE UNCHANGED receipt BY <1>n, <2>3 DEF Promise!vars, Told
  <2>4. CASE call.result = "committed" /\ receipt' = [receipt EXCEPT ![call.req.op] = "committed"]
    <3>1. notes[q] = 1 /\ receipt' = [receipt EXCEPT ![q] = "committed"] BY <1>c, <1>q, <2>4 DEF Truth
    <3>2. Told("committed") = "saved" /\ Told(receipt[q]) = "unknown" BY <2>2 DEF Told
    <3> QED BY <1>0, <1>n, <3>1, <3>2, ToldStep
  <2> QED BY <1>2, <2>3, <2>4 DEF SettleLookup
<1> QED BY <1>1, <1>2

\* A cancelled write is unknown.
LEMMA CancelKeepsPromise ==
  ASSUME NotesInv, Cancel
  PROVE  [Promise!Next]_(Promise!vars)
<1>0. NotesTyped /\ CloudInv BY DEF NotesInv
<1>n. call # NoCall /\ call.pc \notin {"reserved", "done"}
  BY DEF Cancel, InCall, NoCall
<1>g. call.pc \in CallSteps BY <1>0, <1>n DEF NotesTyped, Calls
<1>c. call.req.op \in Ops BY <1>g, CallUnderway
<1>q. PICK q \in Ops : q = call.req.op BY <1>c
<1>u. UNCHANGED notes /\ notes[q] \in {0, 1} BY <1>0 DEF Cancel, macVars, NotesTyped
<1>1. CASE call.req.kind = "write"
  <2>1. receipt[q] = "executing" BY <1>0, <1>n, <1>q, <1>1 DEF CloudInv, CallFits
  <2>2. receipt' = [receipt EXCEPT ![q] = "outcome_unknown"] BY <1>1, <1>q DEF Cancel
  <2>3. Told(receipt[q]) = "nothing" /\ Told("outcome_unknown") = "unknown"
    BY <2>1 DEF Told
  <2> QED BY <1>0, <1>u, <2>2, <2>3, ToldStep
<1>2. CASE call.req.kind # "write"
  <2>1. UNCHANGED receipt BY <1>2 DEF Cancel
  <2> QED BY <1>u, <2>1 DEF Promise!vars, Told
<1> QED BY <1>1, <1>2

\* What the service marks before it calls the bridge tells nothing, or that nothing is known.
LEMMA MarkKeepsPromise ==
  ASSUME NotesInv, StartWrite \/ \E o \in Ops : Create(o) \/ Reconcile(o)
  PROVE  [Promise!Next]_(Promise!vars)
<1>0. NotesTyped /\ CloudInv BY DEF NotesInv
<1>1. CASE StartWrite
  <2>1. call.pc = "reserved" /\ call.pc \in CallSteps BY <1>1 DEF StartWrite, CallSteps
  <2>2. call # NoCall /\ call.req.op \in Ops BY <2>1, CallUnderway
  <2>3. PICK q \in Ops : q = call.req.op BY <2>2
  <2>4. receipt[q] = "prepared" BY <1>0, <2>1, <2>2, <2>3 DEF CloudInv, CallFits
  <2>5. receipt' = [receipt EXCEPT ![q] = "executing"] /\ UNCHANGED notes
    BY <1>1, <2>3 DEF StartWrite, macVars
  <2>6. Told("executing") = Told(receipt[q]) BY <2>4 DEF Told
  <2> QED BY <1>0, <2>5, <2>6, ToldStep
<1>2. ASSUME NEW o \in Ops, Create(o) PROVE [Promise!Next]_(Promise!vars)
  <2>1. /\ receipt[o] \in {"none", "prepared"} /\ receipt' = [receipt EXCEPT ![o] = "prepared"]
        /\ UNCHANGED notes
    BY <1>2 DEF Create, macVars
  <2>2. Told("prepared") = Told(receipt[o]) BY <2>1 DEF Told
  <2> QED BY <1>0, <2>1, <2>2, ToldStep
<1>3. ASSUME NEW o \in Ops, Reconcile(o) PROVE [Promise!Next]_(Promise!vars)
  <2>1. /\ receipt[o] \in {"executing", "outcome_unknown"} /\ receipt' = [receipt EXCEPT ![o] = "outcome_unknown"]
        /\ UNCHANGED notes
    BY <1>3 DEF Reconcile, macVars
  <2>2. /\ Told("outcome_unknown") = "unknown" /\ Told("executing") = "nothing"
        /\ notes[o] \in {0, 1}
    BY <1>0 DEF Told, NotesTyped
  <2>3. CASE receipt[o] = "executing" BY <1>0, <2>1, <2>2, <2>3, ToldStep
  <2>4. CASE receipt[o] = "outcome_unknown" BY <1>0, <2>1, <2>4, ToldStep
  <2> QED BY <2>1, <2>3, <2>4
<1> QED BY <1>1, <1>2, <1>3

\* Every other step of the bridge tells the user nothing and writes nothing.
LEMMA OthersKeepPromise ==
  ASSUME UNCHANGED <<receipt, notes>>
  PROVE  [Promise!Next]_(Promise!vars)
BY DEF Promise!vars, Told

\* Every step is a Write, a Tell or no step of the promise.
LEMMA NotesStepKeepsPromise ==
  ASSUME NotesInv, Next
  PROVE  [Promise!Next]_(Promise!vars)
<1>1. CASE \E o \in Ops : Create(o) \/ Reconcile(o) \/ MacReconcile(o)
  <2>1. PICK o \in Ops : Create(o) \/ Reconcile(o) \/ MacReconcile(o) BY <1>1
  <2>2. CASE MacReconcile(o)
    BY <2>2, OthersKeepPromise DEF MacReconcile, cloudVars
  <2> QED BY <2>1, <2>2, MarkKeepsPromise
<1>2. CASE StartWrite \/ SettleWrite \/ SettleLookup \/ Cancel \/ MacScript
  BY <1>2, MarkKeepsPromise, SettleKeepsPromise, CancelKeepsPromise, ScriptKeepsPromise
<1>3. CASE \/ BeginOffline \/ BeginOnline \/ RecordProposed \/ EndProposal
           \/ TerminalBeforeCommit \/ Recheck \/ RecordCommit \/ SendCommit
           \/ EndCommit
  <2>1. UNCHANGED <<receipt, notes>>
    BY <1>3
       DEF BeginOffline, BeginOnline, RecordProposed, EndProposal,
           TerminalBeforeCommit, Recheck, RecordCommit, SendCommit,
           EndCommit, macVars
  <2> QED BY <2>1, OthersKeepPromise
<1>4. CASE \/ BrokerReads \/ BrokerLosesLink \/ CloudRestart
           \/ Connect \/ Drop
  <2>1. UNCHANGED <<receipt, notes>>
    BY <1>4
       DEF BrokerReads, BrokerLosesLink, CloudRestart, Connect, Drop,
           macVars, cloudVars
  <2> QED BY <2>1, OthersKeepPromise
<1>5. CASE \E r \in Requests : MacPropose(r) \/ MacAbort(r) \/ MacCommit(r)
  <2>1. UNCHANGED <<receipt, notes>>
    BY <1>5 DEF MacPropose, MacAbort, MacCommit, cloudVars
  <2> QED BY <2>1, OthersKeepPromise
<1>6. CASE MacLosesLink \/ MacFinish \/ MacStops
  <2>1. UNCHANGED <<receipt, notes>>
    BY <1>6 DEF MacLosesLink, MacFinish, MacStops, cloudVars
  <2> QED BY <2>1, OthersKeepPromise
<1> QED BY <1>1, <1>2, <1>3, <1>4, <1>5, <1>6 DEF Next

\* For any notes and any number of faults the notes tools implement NotesPromise: a note
\* reported unsaved is never written, one reported saved is there, none is written twice
\* (apple_notes/service.py over the broker, the link and the Mac).
THEOREM ToolsKeepTheirPromise == MaxFaults \in Nat /\ Spec => KeepsPromise
<1>1. Init => Promise!Init BY DEF Init, Promise!Init, Told
<1>2. NotesInv /\ [Next]_vars => [Promise!Next]_(Promise!vars)
  <2>1. ASSUME NotesInv, Next PROVE [Promise!Next]_(Promise!vars) BY <2>1, NotesStepKeepsPromise
  <2>2. ASSUME UNCHANGED vars PROVE [Promise!Next]_(Promise!vars) BY <2>2, OthersKeepPromise DEF vars
  <2> QED BY <2>1, <2>2
<1> QED BY <1>1, <1>2, NotesInvariant, PTL DEF Spec, KeepsPromise, Promise!Spec
=============================================================================
