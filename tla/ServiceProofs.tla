--------------------------- MODULE ServiceProofs ---------------------------
(***************************************************************************)
(* Proofs about the services beside the turns, as MCServices runs them,    *)
(* for every value of their bounds: the subagents and the model registry,  *)
(* each with an inductive invariant of its own (SpawnInv, ModelInv) which  *)
(* the steps of the other services leave alone, and the notes bridge,      *)
(* whose invariant and refinement are proved in NotesProofs.               *)
(***************************************************************************)
EXTENDS MCServices, Sequences, FiniteSetTheorems, TLAPS

(***************************************************************************)
(* Subagents.                                                              *)
(***************************************************************************)
SpawnJobs == Spawned!Jobs
LiveJobs == {j \in SpawnJobs : worker[j] \notin {"none", "gone"}}

\* The types of what the manager keeps.
SpawnTyped ==
  /\ worker \in [SpawnJobs ->
       {"none", "created", "running", "telling", "failing", "excusing", "over", "gone"}]
  /\ awaiting \in [SpawnJobs -> {"none", "waiting", "cut", "ended"}]
  /\ snapshot \in [SpawnJobs -> {"none", "held", "releasing", "released"}]
  /\ messages \in [SpawnJobs -> Seq({"finished", "failed", "cancelled"})]
  /\ cancelling \subseteq SpawnJobs /\ marked \subseteq SpawnJobs
  /\ canceller \subseteq Background
  /\ manager \in {"up", "stopping", "down"}

\* The admission and the registry both follow the workers.
SlotsFollow ==
  slot = LiveJobs /\ spawned = LiveJobs /\ IsFiniteSet(slot) /\ Cardinality(slot) <= MaxActive

\* What a worker may hold at each stage of its life.
SnapshotFits(j) ==
  \/ worker[j] = "none" /\ snapshot[j] = "none"
  \/ /\ worker[j] \in {"created", "running", "telling", "failing", "excusing"}
     /\ snapshot[j] \in {"none", "held"}
  \/ worker[j] = "over" /\ snapshot[j] \in {"none", "held", "released"}
  \/ worker[j] = "gone" /\ snapshot[j] \in {"none", "releasing", "released"}

SnapshotsFit == \A j \in SpawnJobs : SnapshotFits(j)

\* A manager that is down has no worker and no snapshot on its way back.
DownIsEmpty ==
  manager = "down" =>
    \A j \in SpawnJobs : worker[j] \in {"none", "gone"} /\ snapshot[j] # "releasing"

\* A turn awaits none of the background jobs.
TurnsAwaitTheirs == \A j \in Background : awaiting[j] = "none"

\* Nobody announces the cancellation of a job that was never started.
CancelsAreOfJobs == \A j \in canceller : worker[j] # "none"

\* Before the shutdown the chat hears of a job before its task is cancelled or ends.
HeardFirst ==
  manager = "up" => \A j \in Background :
    j \in cancelling \/ worker[j] \in {"over", "gone"} => messages[j] # <<>>

Says(j, what) == \E i \in DOMAIN messages[j] : messages[j][i] = what

\* A job whose cancellation was announced has that cancellation before it, or is past
\* any result: it may be left with an error to announce.
CancelledStays ==
  \A j \in Background :
    Says(j, "cancelled") => \/ worker[j] \in {"failing", "excusing", "over", "gone"}
                            \/ worker[j] \in {"created", "running", "telling"} /\ j \in cancelling

\* Nothing is said to have finished after it was said to be cancelled.
InOrder(j) ==
  \A a, b \in DOMAIN messages[j] :
    a < b => ~ (messages[j][a] = "cancelled" /\ messages[j][b] = "finished")

SpawnInv ==
  /\ SpawnTyped /\ SlotsFollow /\ SnapshotsFit /\ DownIsEmpty /\ TurnsAwaitTheirs
  /\ CancelsAreOfJobs /\ HeardFirst /\ CancelledStays
  /\ \A j \in Background : InOrder(j)

----------------------------------------------------------------------------
\* The instance counts as this module does.
LEMMA SameCount ==
  ASSUME NEW S
  PROVE  Spawned!Cardinality(S) = Cardinality(S)
BY DEF Cardinality, Spawned!Cardinality

\* A sequence that was appended to is not empty.
LEMMA AppendedIsSome ==
  ASSUME NEW S, NEW heard \in Seq(S), NEW what \in S
  PROVE  Append(heard, what) # <<>>
<1>1. Len(Append(heard, what)) = Len(heard) + 1 /\ Len(heard) \in Nat OBVIOUS
<1>2. Len(<<>>) = 0 OBVIOUS
<1> QED BY <1>1, <1>2

\* Nothing has been started yet.
LEMMA SpawnFirst ==
  ASSUME Spawned!SubagentInit
  PROVE  SpawnInv
<1>0. LiveJobs = {} BY DEF Spawned!SubagentInit, LiveJobs, SpawnJobs, Spawned!Jobs
<1>1. SpawnTyped BY DEF Spawned!SubagentInit, SpawnTyped, SpawnJobs, Spawned!Jobs
<1>2. SlotsFollow
  BY <1>0, FS_EmptySet, LimitsAreNumbers, SMT DEF Spawned!SubagentInit, SlotsFollow
<1>3. SnapshotsFit /\ DownIsEmpty /\ TurnsAwaitTheirs /\ CancelsAreOfJobs
  BY DEF Spawned!SubagentInit, SnapshotsFit, SnapshotFits, DownIsEmpty, TurnsAwaitTheirs,
         CancelsAreOfJobs, SpawnJobs, Spawned!Jobs
<1>4. \A j \in Background : messages[j] = <<>>
  BY DEF Spawned!SubagentInit, Spawned!Jobs
<1>5. HeardFirst
  BY DEF Spawned!SubagentInit, HeardFirst, Spawned!Jobs
<1>6. CancelledStays /\ \A j \in Background : InOrder(j)
  BY <1>4 DEF CancelledStays, Says, InOrder
<1> QED BY <1>1, <1>2, <1>3, <1>5, <1>6 DEF SpawnInv

\* A job is started.
LEMMA SpawnStep ==
  ASSUME NEW j \in SpawnJobs, SpawnInv, Spawned!Spawn(j)
  PROVE  SpawnInv'
<1> USE DEF SpawnJobs, Spawned!Jobs
<1>0. SpawnTyped /\ SlotsFollow /\ SnapshotsFit /\ DownIsEmpty /\ TurnsAwaitTheirs
      /\ CancelsAreOfJobs /\ HeardFirst /\ CancelledStays /\ \A k \in Background : InOrder(k)
  BY DEF SpawnInv
<1>g. manager = "up" /\ worker[j] = "none" /\ Cardinality(slot) < MaxActive
  BY SameCount DEF Spawned!Spawn
<1>w. worker' = [worker EXCEPT ![j] = "created"] BY DEF Spawned!Spawn, Spawned!Goes
<1>s. slot' = slot \cup {j} /\ spawned' = spawned \cup {j} BY DEF Spawned!Spawn
<1>a. /\ manager = "up" /\ worker[j] = "none" /\ Cardinality(slot) < MaxActive
      /\ worker' = [worker EXCEPT ![j] = "created"]
      /\ slot' = slot \cup {j} /\ spawned' = spawned \cup {j}
  BY <1>g, <1>w, <1>s
<1>c. UNCHANGED <<cancelling, marked, canceller, messages, manager>>
  BY DEF Spawned!Spawn
<1>b. /\ snapshot' \in {snapshot, [snapshot EXCEPT ![j] = "held"]}
      /\ awaiting' \in {awaiting, [awaiting EXCEPT ![j] = "waiting"]}
      /\ j \in Background => awaiting' = awaiting
  BY DEF Spawned!Spawn
<1>1. SpawnTyped'
  <2>1. worker' \in [SpawnJobs ->
          {"none", "created", "running", "telling", "failing", "excusing", "over", "gone"}]
    BY <1>0, <1>a DEF SpawnTyped
  <2>2. awaiting' \in [SpawnJobs -> {"none", "waiting", "cut", "ended"}]
    BY <1>0, <1>b DEF SpawnTyped
  <2>3. snapshot' \in [SpawnJobs -> {"none", "held", "releasing", "released"}]
    BY <1>0, <1>b DEF SpawnTyped
  <2> QED BY <1>0, <1>c, <2>1, <2>2, <2>3 DEF SpawnTyped
<1>2. LiveJobs' = LiveJobs \cup {j} /\ j \notin LiveJobs
  BY <1>0, <1>a DEF LiveJobs, SpawnTyped
<1>3. SlotsFollow'
  <2>1. IsFiniteSet(slot') /\ Cardinality(slot') = Cardinality(slot) + 1
    BY <1>0, <1>a, <1>2, FS_AddElement DEF SlotsFollow
  <2>2. Cardinality(slot) \in Nat BY <1>0, FS_CardinalityType DEF SlotsFollow
  <2>3. Cardinality(slot') <= MaxActive BY <1>a, <2>1, <2>2, LimitsAreNumbers
  <2> QED BY <1>0, <1>a, <1>2, <2>1, <2>3 DEF SlotsFollow
<1>4. SnapshotsFit' BY <1>0, <1>a, <1>b DEF SnapshotsFit, SnapshotFits, SpawnTyped
<1>5. DownIsEmpty' BY <1>a, <1>c DEF DownIsEmpty
<1>6. TurnsAwaitTheirs' BY <1>0, <1>b DEF TurnsAwaitTheirs, SpawnTyped
<1>7. CancelsAreOfJobs' BY <1>0, <1>a, <1>c DEF CancelsAreOfJobs, SpawnTyped
<1>8. HeardFirst' BY <1>0, <1>a, <1>c DEF HeardFirst, SpawnTyped
<1>9. CancelledStays'
  BY <1>0, <1>a, <1>c DEF CancelledStays, Says, SpawnTyped
<1>10. (\A k \in Background : InOrder(k))' BY <1>0, <1>a, <1>c DEF InOrder
<1> QED BY <1>1, <1>3, <1>4, <1>5, <1>6, <1>7, <1>8, <1>9, <1>10 DEF SpawnInv

\* A task takes its first step.
LEMMA StartsStep ==
  ASSUME NEW j \in SpawnJobs, SpawnInv, Spawned!Starts(j)
  PROVE  SpawnInv'
<1> USE DEF SpawnJobs, Spawned!Jobs
<1>0. SpawnTyped /\ SlotsFollow /\ SnapshotsFit /\ DownIsEmpty /\ TurnsAwaitTheirs
      /\ CancelsAreOfJobs /\ HeardFirst /\ CancelledStays /\ \A k \in Background : InOrder(k)
  BY DEF SpawnInv
<1>a. worker[j] = "created" /\ j \notin cancelling /\ worker' = [worker EXCEPT ![j] = "running"]
  BY DEF Spawned!Starts, Spawned!Goes
<1>u. UNCHANGED <<cancelling, slot, spawned, marked, canceller, snapshot, messages, awaiting,
                  manager>>
  BY DEF Spawned!Starts, Spawned!Turn
<1>1. SpawnTyped' BY <1>0, <1>a, <1>u DEF SpawnTyped
<1>2. LiveJobs' = LiveJobs BY <1>0, <1>a DEF LiveJobs, SpawnTyped
<1>3. SlotsFollow' BY <1>0, <1>u, <1>2 DEF SlotsFollow
<1>4. SnapshotsFit' BY <1>0, <1>a, <1>u DEF SnapshotsFit, SnapshotFits, SpawnTyped
<1>5. DownIsEmpty' BY <1>0, <1>a, <1>u DEF DownIsEmpty
<1>6. TurnsAwaitTheirs' BY <1>0, <1>u DEF TurnsAwaitTheirs
<1>7. CancelsAreOfJobs' BY <1>0, <1>a, <1>u DEF CancelsAreOfJobs, SpawnTyped
<1>8. HeardFirst' BY <1>0, <1>a, <1>u DEF HeardFirst, SpawnTyped
<1>9. CancelledStays' BY <1>0, <1>a, <1>u DEF CancelledStays, Says, SpawnTyped
<1>10. (\A k \in Background : InOrder(k))' BY <1>0, <1>u DEF InOrder
<1> QED BY <1>1, <1>3, <1>4, <1>5, <1>6, <1>7, <1>8, <1>9, <1>10 DEF SpawnInv

\* A task ends, with nothing said about it: a synchronous job, or one whose cancellation
\* has arrived.
LEMMA OverStep ==
  ASSUME NEW j \in SpawnJobs, SpawnInv, NEW entered \in BOOLEAN, Spawned!Over(j, entered),
         worker[j] \in {"created", "running", "telling", "failing", "excusing"},
         entered <=> worker[j] # "created",
         j \in cancelling \/ j \notin Background, UNCHANGED messages
  PROVE  SpawnInv'
<1> USE DEF SpawnJobs, Spawned!Jobs
<1>0. SpawnTyped /\ SlotsFollow /\ SnapshotsFit /\ DownIsEmpty /\ TurnsAwaitTheirs
      /\ CancelsAreOfJobs /\ HeardFirst /\ CancelledStays /\ \A k \in Background : InOrder(k)
  BY DEF SpawnInv
<1>a. /\ worker' = [worker EXCEPT ![j] = "over"] /\ cancelling' = cancelling \ {j}
      /\ snapshot' \in {snapshot, [snapshot EXCEPT ![j] = "released"]}
  BY DEF Spawned!Over, Spawned!Goes
<1>u. UNCHANGED <<slot, spawned, marked, canceller, messages, awaiting, manager>>
  BY DEF Spawned!Over, Spawned!Turn
<1>1. SpawnTyped'
  <2>1. /\ worker' \in [SpawnJobs ->
               {"none", "created", "running", "telling", "failing", "excusing", "over", "gone"}]
        /\ snapshot' \in [SpawnJobs -> {"none", "held", "releasing", "released"}]
        /\ cancelling' \subseteq SpawnJobs
    BY <1>0, <1>a DEF SpawnTyped
  <2> QED BY <1>0, <1>u, <2>1 DEF SpawnTyped
<1>2. LiveJobs' = LiveJobs BY <1>0, <1>a DEF LiveJobs, SpawnTyped
<1>3. SlotsFollow' BY <1>0, <1>u, <1>2 DEF SlotsFollow
<1>4. SnapshotsFit' BY <1>0, <1>a, <1>u DEF SnapshotsFit, SnapshotFits, SpawnTyped
<1>5. DownIsEmpty' BY <1>0, <1>a, <1>u DEF DownIsEmpty
<1>6. TurnsAwaitTheirs' BY <1>0, <1>u DEF TurnsAwaitTheirs
<1>7. CancelsAreOfJobs' BY <1>0, <1>a, <1>u DEF CancelsAreOfJobs, SpawnTyped
<1>8. HeardFirst'
  <2>1. \A k \in SpawnJobs : k # j => worker'[k] = worker[k] BY <1>0, <1>a DEF SpawnTyped
  <2> QED BY <1>0, <1>a, <1>u, <2>1 DEF HeardFirst
<1>9. CancelledStays' BY <1>0, <1>a, <1>u DEF CancelledStays, Says, SpawnTyped
<1>10. (\A k \in Background : InOrder(k))' BY <1>0, <1>u DEF InOrder
<1> QED BY <1>1, <1>3, <1>4, <1>5, <1>6, <1>7, <1>8, <1>9, <1>10 DEF SpawnInv

\* What a task does once its agent has ended.
LEMMA AgentEndsStep ==
  ASSUME NEW j \in SpawnJobs, SpawnInv, Spawned!AgentEnds(j)
  PROVE  SpawnInv'
<1> USE DEF SpawnJobs, Spawned!Jobs
<1>0. SpawnTyped /\ SlotsFollow /\ SnapshotsFit /\ DownIsEmpty /\ TurnsAwaitTheirs
      /\ CancelsAreOfJobs /\ HeardFirst /\ CancelledStays /\ \A k \in Background : InOrder(k)
  BY DEF SpawnInv
<1>g. worker[j] = "running" /\ j \notin cancelling BY DEF Spawned!AgentEnds
<1>1. CASE j \notin Background
  BY <1>1, <1>g, OverStep DEF Spawned!AgentEnds
<1>2. CASE j \in Background
  <2>a. worker' \in {[worker EXCEPT ![j] = "telling"], [worker EXCEPT ![j] = "failing"]}
    BY <1>2 DEF Spawned!AgentEnds, Spawned!Goes
  <2>u. UNCHANGED <<cancelling, slot, spawned, marked, canceller, snapshot, messages, awaiting,
                    manager>>
    BY <1>2 DEF Spawned!AgentEnds, Spawned!Turn
  <2>1. SpawnTyped' BY <1>0, <2>a, <2>u DEF SpawnTyped
  <2>2. LiveJobs' = LiveJobs BY <1>0, <1>g, <2>a DEF LiveJobs, SpawnTyped
  <2>3. SlotsFollow' BY <1>0, <2>u, <2>2 DEF SlotsFollow
  <2>4. SnapshotsFit' BY <1>0, <1>g, <2>a, <2>u DEF SnapshotsFit, SnapshotFits, SpawnTyped
  <2>5. DownIsEmpty' BY <1>0, <1>g, <2>a, <2>u DEF DownIsEmpty
  <2>6. TurnsAwaitTheirs' BY <1>0, <2>u DEF TurnsAwaitTheirs
  <2>7. CancelsAreOfJobs' BY <1>0, <2>a, <2>u DEF CancelsAreOfJobs, SpawnTyped
  <2>8. HeardFirst' BY <1>0, <1>g, <2>a, <2>u DEF HeardFirst, SpawnTyped
  <2>9. CancelledStays' BY <1>0, <1>g, <2>a, <2>u DEF CancelledStays, Says, SpawnTyped
  <2>10. (\A k \in Background : InOrder(k))' BY <1>0, <2>u DEF InOrder
  <2> QED BY <2>1, <2>3, <2>4, <2>5, <2>6, <2>7, <2>8, <2>9, <2>10 DEF SpawnInv
<1> QED BY <1>1, <1>2

\* The cancellation of a task arrives.
LEMMA CancelHitsStep ==
  ASSUME NEW j \in SpawnJobs, SpawnInv, Spawned!CancelHits(j)
  PROVE  SpawnInv'
<1> USE DEF SpawnJobs, Spawned!Jobs
<1>0. SpawnTyped /\ SlotsFollow /\ SnapshotsFit /\ DownIsEmpty /\ TurnsAwaitTheirs
      /\ CancelsAreOfJobs /\ HeardFirst /\ CancelledStays /\ \A k \in Background : InOrder(k)
  BY DEF SpawnInv
<1>g. j \in cancelling /\ UNCHANGED messages BY DEF Spawned!CancelHits
<1>1. CASE ~ (worker[j] = "running" /\ j \in Background /\ j \notin marked)
  BY <1>1, <1>g, OverStep DEF Spawned!CancelHits
<1>2. CASE worker[j] = "running" /\ j \in Background /\ j \notin marked
  <2>a. worker' = [worker EXCEPT ![j] = "excusing"] /\ cancelling' = cancelling \ {j}
    BY <1>2 DEF Spawned!CancelHits, Spawned!Goes
  <2>u. UNCHANGED <<slot, spawned, marked, canceller, snapshot, messages, awaiting, manager>>
    BY <1>2 DEF Spawned!CancelHits, Spawned!Turn
  <2>1. SpawnTyped' BY <1>0, <2>a, <2>u DEF SpawnTyped
  <2>2. LiveJobs' = LiveJobs BY <1>0, <1>2, <2>a DEF LiveJobs, SpawnTyped
  <2>3. SlotsFollow' BY <1>0, <2>u, <2>2 DEF SlotsFollow
  <2>4. SnapshotsFit' BY <1>0, <1>2, <2>a, <2>u DEF SnapshotsFit, SnapshotFits, SpawnTyped
  <2>5. DownIsEmpty' BY <1>0, <1>2, <2>a, <2>u DEF DownIsEmpty
  <2>6. TurnsAwaitTheirs' BY <1>0, <2>u DEF TurnsAwaitTheirs
  <2>7. CancelsAreOfJobs' BY <1>0, <2>a, <2>u DEF CancelsAreOfJobs, SpawnTyped
  <2>8. HeardFirst' BY <1>0, <1>g, <2>a, <2>u DEF HeardFirst, SpawnTyped
  <2>9. CancelledStays' BY <1>0, <1>2, <2>a, <2>u DEF CancelledStays, Says, SpawnTyped
  <2>10. (\A k \in Background : InOrder(k))' BY <1>0, <2>u DEF InOrder
  <2> QED BY <2>1, <2>3, <2>4, <2>5, <2>6, <2>7, <2>8, <2>9, <2>10 DEF SpawnInv
<1> QED BY <1>1, <1>2

\* The cancellation of a task is dropped: what is left is the error of its agent.
LEMMA CancelLostStep ==
  ASSUME NEW j \in SpawnJobs, SpawnInv, Spawned!CancelLost(j)
  PROVE  SpawnInv'
<1> USE DEF SpawnJobs, Spawned!Jobs
<1>0. SpawnTyped /\ SlotsFollow /\ SnapshotsFit /\ DownIsEmpty /\ TurnsAwaitTheirs
      /\ CancelsAreOfJobs /\ HeardFirst /\ CancelledStays /\ \A k \in Background : InOrder(k)
  BY DEF SpawnInv
<1>a. /\ worker[j] = "running" /\ worker' = [worker EXCEPT ![j] = "failing"]
      /\ cancelling' = cancelling \ {j}
  BY DEF Spawned!CancelLost, Spawned!Goes
<1>u. UNCHANGED <<slot, spawned, marked, canceller, snapshot, messages, awaiting, manager>>
  BY DEF Spawned!CancelLost, Spawned!Turn
<1>1. SpawnTyped' BY <1>0, <1>a, <1>u DEF SpawnTyped
<1>2. LiveJobs' = LiveJobs BY <1>0, <1>a DEF LiveJobs, SpawnTyped
<1>3. SlotsFollow' BY <1>0, <1>u, <1>2 DEF SlotsFollow
<1>4. SnapshotsFit' BY <1>0, <1>a, <1>u DEF SnapshotsFit, SnapshotFits, SpawnTyped
<1>5. DownIsEmpty' BY <1>0, <1>a, <1>u DEF DownIsEmpty
<1>6. TurnsAwaitTheirs' BY <1>0, <1>u DEF TurnsAwaitTheirs
<1>7. CancelsAreOfJobs' BY <1>0, <1>a, <1>u DEF CancelsAreOfJobs, SpawnTyped
<1>8. HeardFirst' BY <1>0, <1>a, <1>u DEF HeardFirst, SpawnTyped
<1>9. CancelledStays' BY <1>0, <1>a, <1>u DEF CancelledStays, Says, SpawnTyped
<1>10. (\A k \in Background : InOrder(k))' BY <1>0, <1>u DEF InOrder
<1> QED BY <1>1, <1>3, <1>4, <1>5, <1>6, <1>7, <1>8, <1>9, <1>10 DEF SpawnInv

\* The task tells the chat itself, and ends: that it has finished while nothing was said
\* of its cancellation, that it failed, or that it was cancelled.
LEMMA SaysItself ==
  ASSUME NEW j \in SpawnJobs, SpawnInv, NEW what \in {"finished", "failed", "cancelled"},
         Spawned!Tells(j, what), Spawned!Over(j, TRUE), j \notin cancelling,
         \/ what = "finished" /\ worker[j] = "telling"
         \/ what = "failed" /\ worker[j] = "failing"
         \/ what = "cancelled" /\ worker[j] = "excusing"
  PROVE  SpawnInv'
<1> USE DEF SpawnJobs, Spawned!Jobs
<1>0. SpawnTyped /\ SlotsFollow /\ SnapshotsFit /\ DownIsEmpty /\ TurnsAwaitTheirs
      /\ CancelsAreOfJobs /\ HeardFirst /\ CancelledStays /\ \A k \in Background : InOrder(k)
  BY DEF SpawnInv
<1>a. /\ worker' = [worker EXCEPT ![j] = "over"] /\ cancelling' = cancelling \ {j}
      /\ snapshot' = IF snapshot[j] = "held" THEN [snapshot EXCEPT ![j] = "released"] ELSE snapshot
  BY DEF Spawned!Over, Spawned!Goes
<1>b. messages' = [messages EXCEPT ![j] = Append(messages[j], what)]
  BY DEF Spawned!Tells
<1>u. UNCHANGED <<slot, spawned, marked, canceller, awaiting, manager>>
  BY DEF Spawned!Over, Spawned!Turn
<1>m. /\ messages[j] \in Seq({"finished", "failed", "cancelled"})
      /\ messages' \in [SpawnJobs -> Seq({"finished", "failed", "cancelled"})]
      /\ messages'[j] = Append(messages[j], what)
      /\ \A k \in SpawnJobs : k # j => messages'[k] = messages[k]
  BY <1>0, <1>b DEF SpawnTyped
<1>1. SpawnTyped'
  <2>1. /\ worker' \in [SpawnJobs ->
               {"none", "created", "running", "telling", "failing", "excusing", "over", "gone"}]
        /\ snapshot' \in [SpawnJobs -> {"none", "held", "releasing", "released"}]
        /\ cancelling' \subseteq SpawnJobs
    BY <1>0, <1>a DEF SpawnTyped
  <2> QED BY <1>0, <1>m, <1>u, <2>1 DEF SpawnTyped
<1>2. LiveJobs' = LiveJobs BY <1>0, <1>a DEF LiveJobs, SpawnTyped
<1>3. SlotsFollow' BY <1>0, <1>u, <1>2 DEF SlotsFollow
<1>4. SnapshotsFit' BY <1>0, <1>a, <1>u DEF SnapshotsFit, SnapshotFits, SpawnTyped
<1>5. DownIsEmpty' BY <1>0, <1>a, <1>u DEF DownIsEmpty
<1>6. TurnsAwaitTheirs' BY <1>0, <1>u DEF TurnsAwaitTheirs
<1>7. CancelsAreOfJobs' BY <1>0, <1>a, <1>u DEF CancelsAreOfJobs, SpawnTyped
<1>8. HeardFirst'
  <2>1. \A k \in SpawnJobs : k # j => worker'[k] = worker[k] BY <1>0, <1>a DEF SpawnTyped
  <2>2. messages'[j] # <<>> BY <1>m, AppendedIsSome
  <2> QED BY <1>0, <1>a, <1>m, <1>u, <2>1, <2>2 DEF HeardFirst
<1>9. CancelledStays'
  <2>1. \A k \in SpawnJobs : k # j => worker'[k] = worker[k] BY <1>0, <1>a DEF SpawnTyped
  <2>2. worker'[j] = "over" BY <1>0, <1>a DEF SpawnTyped
  <2> QED BY <1>0, <1>a, <1>m, <2>1, <2>2 DEF CancelledStays, Says
<1>10. (\A k \in Background : InOrder(k))'
  <2>1. ASSUME NEW k \in Background, k # j PROVE InOrder(k)'
    BY <1>0, <1>m, <2>1 DEF InOrder
  <2>2. ASSUME j \in Background PROVE InOrder(j)'
    <3>1. what = "finished" => ~ Says(j, "cancelled")
      BY <1>0, <2>2 DEF CancelledStays
    <3>2. what = "finished" => \A a \in DOMAIN messages[j] : messages[j][a] # "cancelled"
      BY <3>1 DEF Says
    <3>3. InOrder(j) BY <1>0, <2>2
    <3>4. /\ DOMAIN messages'[j] = 1..(Len(messages[j]) + 1)
          /\ DOMAIN messages[j] = 1..Len(messages[j]) /\ Len(messages[j]) \in Nat
          /\ \A a \in 1..Len(messages[j]) : messages'[j][a] = messages[j][a]
          /\ messages'[j][Len(messages[j]) + 1] = what
      BY <1>m
    <3> QED BY <3>2, <3>3, <3>4 DEF InOrder
  <2> QED BY <2>1, <2>2
<1> QED BY <1>1, <1>3, <1>4, <1>5, <1>6, <1>7, <1>8, <1>9, <1>10 DEF SpawnInv

\* _announce_result and the excuse of a cancelled job.
LEMMA TellStep ==
  ASSUME NEW j \in SpawnJobs, SpawnInv, Spawned!Tell(j) \/ Spawned!Excuse(j)
  PROVE  SpawnInv'
BY SaysItself DEF Spawned!Tell, Spawned!Excuse

\* _finish_background_job and _finish_sync_job: the slot is given back with the worker.
LEMMA ForgetStep ==
  ASSUME NEW j \in SpawnJobs, SpawnInv, Spawned!Forget(j)
  PROVE  SpawnInv'
<1> USE DEF SpawnJobs, Spawned!Jobs
<1>0. SpawnTyped /\ SlotsFollow /\ SnapshotsFit /\ DownIsEmpty /\ TurnsAwaitTheirs
      /\ CancelsAreOfJobs /\ HeardFirst /\ CancelledStays /\ \A k \in Background : InOrder(k)
  BY DEF SpawnInv
<1>g. worker[j] = "over" BY DEF Spawned!Forget
<1>w. worker' = [worker EXCEPT ![j] = "gone"] BY DEF Spawned!Forget, Spawned!Goes
<1>s. slot' = slot \ {j} /\ spawned' = spawned \ {j} /\ marked' = marked \ {j}
  BY DEF Spawned!Forget
<1>n. snapshot' = IF snapshot[j] = "held" THEN [snapshot EXCEPT ![j] = "releasing"] ELSE snapshot
  BY DEF Spawned!Forget
<1>u. UNCHANGED <<cancelling, canceller, messages, awaiting, manager>>
  BY DEF Spawned!Forget, Spawned!Turn
<1>1. SpawnTyped'
  <2>1. /\ worker' \in [SpawnJobs ->
               {"none", "created", "running", "telling", "failing", "excusing", "over", "gone"}]
        /\ snapshot' \in [SpawnJobs -> {"none", "held", "releasing", "released"}]
        /\ marked' \subseteq SpawnJobs
    BY <1>0, <1>w, <1>n, <1>s DEF SpawnTyped
  <2> QED BY <1>0, <1>u, <2>1 DEF SpawnTyped
<1>2. LiveJobs' = LiveJobs \ {j} /\ j \in LiveJobs
  BY <1>0, <1>g, <1>w DEF LiveJobs, SpawnTyped
<1>3. SlotsFollow'
  <2>1. IsFiniteSet(slot') /\ Cardinality(slot') = Cardinality(slot) - 1
    BY <1>0, <1>s, <1>2, FS_RemoveElement DEF SlotsFollow
  <2>2. Cardinality(slot) \in Nat BY <1>0, FS_CardinalityType DEF SlotsFollow
  <2>3. Cardinality(slot') <= MaxActive BY <1>0, <2>1, <2>2, LimitsAreNumbers DEF SlotsFollow
  <2> QED BY <1>0, <1>s, <1>2, <2>1, <2>3 DEF SlotsFollow
<1>4. SnapshotsFit' BY <1>0, <1>g, <1>w, <1>n DEF SnapshotsFit, SnapshotFits, SpawnTyped
<1>5. DownIsEmpty' BY <1>0, <1>g, <1>u DEF DownIsEmpty
<1>6. TurnsAwaitTheirs' BY <1>0, <1>u DEF TurnsAwaitTheirs
<1>7. CancelsAreOfJobs' BY <1>0, <1>w, <1>u DEF CancelsAreOfJobs, SpawnTyped
<1>8. HeardFirst' BY <1>0, <1>g, <1>w, <1>u DEF HeardFirst, SpawnTyped
<1>9. CancelledStays' BY <1>0, <1>g, <1>w, <1>u DEF CancelledStays, Says, SpawnTyped
<1>10. (\A k \in Background : InOrder(k))' BY <1>0, <1>u DEF InOrder
<1> QED BY <1>1, <1>3, <1>4, <1>5, <1>6, <1>7, <1>8, <1>9, <1>10 DEF SpawnInv

\* A snapshot on its way back arrives.
LEMMA SnapshotReleasedStep ==
  ASSUME NEW j \in SpawnJobs, SpawnInv, Spawned!SnapshotReleased(j)
  PROVE  SpawnInv'
<1> USE DEF SpawnJobs, Spawned!Jobs
<1>0. SpawnTyped /\ SlotsFollow /\ SnapshotsFit /\ DownIsEmpty /\ TurnsAwaitTheirs
      /\ CancelsAreOfJobs /\ HeardFirst /\ CancelledStays /\ \A k \in Background : InOrder(k)
  BY DEF SpawnInv
<1>a. snapshot[j] = "releasing" /\ snapshot' = [snapshot EXCEPT ![j] = "released"]
  BY DEF Spawned!SnapshotReleased
<1>u. UNCHANGED <<worker, cancelling, slot, spawned, marked, canceller, messages, awaiting, manager>>
  BY DEF Spawned!SnapshotReleased, Spawned!Turn
<1>1. SpawnTyped' BY <1>0, <1>a, <1>u DEF SpawnTyped
<1>2. LiveJobs' = LiveJobs BY <1>u DEF LiveJobs
<1>3. SlotsFollow' BY <1>0, <1>u, <1>2 DEF SlotsFollow
<1>4. SnapshotsFit' BY <1>0, <1>a, <1>u DEF SnapshotsFit, SnapshotFits, SpawnTyped
<1>5. DownIsEmpty' BY <1>0, <1>a, <1>u DEF DownIsEmpty
<1>6. TurnsAwaitTheirs' /\ CancelsAreOfJobs' /\ HeardFirst' /\ CancelledStays'
  BY <1>0, <1>u DEF TurnsAwaitTheirs, CancelsAreOfJobs, HeardFirst, CancelledStays, Says
<1>7. (\A k \in Background : InOrder(k))' BY <1>0, <1>u DEF InOrder
<1> QED BY <1>1, <1>3, <1>4, <1>5, <1>6, <1>7 DEF SpawnInv

\* The steps that leave the workers alone and say nothing: what the invariant asks of
\* such a step is that it starts no wait on a background job, speaks for jobs that were
\* started and cancels none that the chat has not heard of.
LEMMA WorkersAlone ==
  ASSUME SpawnInv, UNCHANGED <<worker, slot, spawned, snapshot, messages>>,
         SpawnTyped', DownIsEmpty', TurnsAwaitTheirs', CancelsAreOfJobs', HeardFirst',
         \A k \in Background : k \in cancelling /\ k \notin cancelling' =>
           worker[k] \in {"none", "over", "gone"}
  PROVE  SpawnInv'
<1>0. SlotsFollow /\ SnapshotsFit /\ CancelledStays /\ \A k \in Background : InOrder(k)
  BY DEF SpawnInv
<1>1. LiveJobs' = LiveJobs BY DEF LiveJobs, SpawnJobs, Spawned!Jobs
<1>2. SlotsFollow' BY <1>0, <1>1 DEF SlotsFollow
<1>3. SnapshotsFit'
  BY <1>0 DEF SnapshotsFit, SnapshotFits, SpawnJobs, Spawned!Jobs
<1>4. CancelledStays' BY <1>0 DEF CancelledStays, Says
<1>5. (\A k \in Background : InOrder(k))' BY <1>0 DEF InOrder
<1> QED BY <1>2, <1>3, <1>4, <1>5 DEF SpawnInv

\* cancel marks the job before it says or does anything.
LEMMA CancelStep ==
  ASSUME NEW j \in SpawnJobs, SpawnInv, Spawned!Cancel(j) \/ Spawned!CancelCut(j)
  PROVE  SpawnInv'
<1> USE DEF SpawnJobs, Spawned!Jobs
<1>0. SpawnTyped /\ SlotsFollow /\ DownIsEmpty /\ TurnsAwaitTheirs /\ CancelsAreOfJobs /\ HeardFirst
  BY DEF SpawnInv
<1>a. /\ marked' \in {marked, marked \cup {j}}
      /\ \/ canceller' = canceller \ {j}
         \/ canceller' = canceller \cup {j} /\ j \in Background /\ j \in spawned
  BY DEF Spawned!Cancel, Spawned!CancelCut, Spawned!Active
<1>u. UNCHANGED <<worker, cancelling, slot, spawned, snapshot, messages, awaiting, manager>>
  BY DEF Spawned!Cancel, Spawned!CancelCut, Spawned!Turn
<1>1. SpawnTyped'
  <2>1. marked' \subseteq SpawnJobs /\ canceller' \subseteq Background BY <1>0, <1>a DEF SpawnTyped
  <2> QED BY <1>0, <1>u, <2>1 DEF SpawnTyped
<1>2. CancelsAreOfJobs'
  BY <1>0, <1>a, <1>u DEF CancelsAreOfJobs, SlotsFollow, LiveJobs
<1>3. DownIsEmpty' /\ TurnsAwaitTheirs' /\ HeardFirst'
  BY <1>0, <1>u DEF DownIsEmpty, TurnsAwaitTheirs, HeardFirst
<1> QED BY <1>1, <1>2, <1>3, <1>u, WorkersAlone

\* The chat is told, and the cancellation follows at once if the task still lives.
LEMMA CancelToldStep ==
  ASSUME NEW j \in SpawnJobs, SpawnInv, Spawned!CancelTold(j)
  PROVE  SpawnInv'
<1> USE DEF SpawnJobs, Spawned!Jobs
<1>0. SpawnTyped /\ SlotsFollow /\ SnapshotsFit /\ DownIsEmpty /\ TurnsAwaitTheirs
      /\ CancelsAreOfJobs /\ HeardFirst /\ CancelledStays /\ \A k \in Background : InOrder(k)
  BY DEF SpawnInv
<1>g. j \in canceller BY DEF Spawned!CancelTold
<1>c. canceller' = canceller \ {j} BY DEF Spawned!CancelTold
<1>b. messages' = [messages EXCEPT ![j] = Append(messages[j], "cancelled")]
  BY DEF Spawned!CancelTold, Spawned!Tells
<1>d. /\ cancelling' \subseteq cancelling \cup {j} /\ cancelling \subseteq cancelling'
      /\ j \in spawned /\ worker[j] \notin {"over", "gone"} => j \in cancelling'
  BY DEF Spawned!CancelTold, Spawned!Active
<1>u. UNCHANGED <<worker, slot, spawned, marked, snapshot, awaiting, manager>>
  BY DEF Spawned!CancelTold, Spawned!Turn
<1>m. /\ messages[j] \in Seq({"finished", "failed", "cancelled"})
      /\ messages' \in [SpawnJobs -> Seq({"finished", "failed", "cancelled"})]
      /\ messages'[j] = Append(messages[j], "cancelled")
      /\ \A k \in SpawnJobs : k # j => messages'[k] = messages[k]
  BY <1>0, <1>b DEF SpawnTyped
<1>1. SpawnTyped'
  <2>1. cancelling' \subseteq SpawnJobs /\ canceller' \subseteq Background
    BY <1>0, <1>c, <1>d DEF SpawnTyped
  <2> QED BY <1>0, <1>m, <1>u, <2>1 DEF SpawnTyped
<1>2. LiveJobs' = LiveJobs BY <1>u DEF LiveJobs
<1>3. SlotsFollow' BY <1>0, <1>u, <1>2 DEF SlotsFollow
<1>4. SnapshotsFit' /\ DownIsEmpty' /\ TurnsAwaitTheirs'
  BY <1>0, <1>u DEF SnapshotsFit, SnapshotFits, DownIsEmpty, TurnsAwaitTheirs
<1>5. CancelsAreOfJobs' BY <1>0, <1>c, <1>u DEF CancelsAreOfJobs
<1>6. HeardFirst'
  <2>1. messages'[j] # <<>> BY <1>m, AppendedIsSome
  <2> QED BY <1>0, <1>d, <1>m, <1>u, <2>1 DEF HeardFirst
<1>7. CancelledStays'
  <2>1. ASSUME NEW k \in Background, k # j, Says(k, "cancelled")'
        PROVE  \/ worker[k] \in {"failing", "excusing", "over", "gone"}
               \/ worker[k] \in {"created", "running", "telling"} /\ k \in cancelling
    BY <1>0, <1>m, <2>1 DEF CancelledStays, Says
  <2>2. \/ worker[j] \in {"failing", "excusing", "over", "gone"}
        \/ worker[j] \in {"created", "running", "telling"} /\ j \in cancelling'
    BY <1>0, <1>g, <1>d DEF CancelsAreOfJobs, SlotsFollow, LiveJobs, SpawnTyped
  <2> QED BY <1>d, <1>u, <2>1, <2>2 DEF CancelledStays
<1>8. (\A k \in Background : InOrder(k))'
  <2>1. ASSUME NEW k \in Background, k # j PROVE InOrder(k)'
    BY <1>0, <1>m, <2>1 DEF InOrder
  <2>2. ASSUME j \in Background PROVE InOrder(j)'
    <3>1. InOrder(j) BY <1>0, <2>2
    <3>2. /\ DOMAIN messages'[j] = 1..(Len(messages[j]) + 1)
          /\ DOMAIN messages[j] = 1..Len(messages[j]) /\ Len(messages[j]) \in Nat
          /\ \A a \in 1..Len(messages[j]) : messages'[j][a] = messages[j][a]
          /\ messages'[j][Len(messages[j]) + 1] = "cancelled"
      BY <1>m
    <3>3. ASSUME NEW a \in DOMAIN messages'[j], NEW b \in DOMAIN messages'[j], a < b,
                 messages'[j][a] = "cancelled", messages'[j][b] = "finished"
          PROVE  FALSE
      <4>1. b # Len(messages[j]) + 1 BY <3>2, <3>3
      <4>2. a \in 1..Len(messages[j]) /\ b \in 1..Len(messages[j]) BY <3>2, <3>3, <4>1
      <4> QED BY <3>1, <3>2, <3>3, <4>2 DEF InOrder
    <3> QED BY <3>3 DEF InOrder
  <2> QED BY <2>1, <2>2
<1> QED BY <1>1, <1>3, <1>4, <1>5, <1>6, <1>7, <1>8 DEF SpawnInv

\* A turn that waits is interrupted or comes to the end of its wait: only a synchronous
\* job can be cancelled by it.
LEMMA WaitStep ==
  ASSUME NEW j \in SpawnJobs, SpawnInv, Spawned!WaitCut(j) \/ Spawned!WaitEnds(j)
  PROVE  SpawnInv'
<1> USE DEF SpawnJobs, Spawned!Jobs
<1>0. SpawnTyped /\ DownIsEmpty /\ TurnsAwaitTheirs /\ CancelsAreOfJobs /\ HeardFirst
  BY DEF SpawnInv
<1>a. /\ awaiting[j] # "none"
      /\ awaiting' \in {[awaiting EXCEPT ![j] = "cut"], [awaiting EXCEPT ![j] = "ended"]}
  BY DEF Spawned!WaitCut, Spawned!WaitEnds
<1>b. cancelling \subseteq cancelling' /\ cancelling' \subseteq cancelling \cup {j}
  BY DEF Spawned!WaitCut, Spawned!WaitEnds
<1>u. UNCHANGED <<worker, slot, spawned, marked, canceller, snapshot, messages, manager>>
  BY DEF Spawned!WaitCut, Spawned!WaitEnds
<1>1. j \notin Background BY <1>0, <1>a DEF TurnsAwaitTheirs
<1>2. SpawnTyped'
  <2>1. awaiting' \in [SpawnJobs -> {"none", "waiting", "cut", "ended"}] /\ cancelling' \subseteq SpawnJobs
    BY <1>0, <1>a, <1>b DEF SpawnTyped
  <2> QED BY <1>0, <1>u, <2>1 DEF SpawnTyped
<1>3. TurnsAwaitTheirs' BY <1>0, <1>1, <1>a DEF TurnsAwaitTheirs, SpawnTyped
<1>4. HeardFirst' BY <1>0, <1>1, <1>b, <1>u DEF HeardFirst
<1>5. DownIsEmpty' /\ CancelsAreOfJobs' BY <1>0, <1>u DEF DownIsEmpty, CancelsAreOfJobs
<1> QED BY <1>2, <1>3, <1>4, <1>5, <1>b, <1>u, WorkersAlone

\* shutdown cancels every task that lives, and is over when none is registered.
LEMMA ShutdownStep ==
  ASSUME SpawnInv, Spawned!Shutdown \/ Spawned!Stopped
  PROVE  SpawnInv'
<1> USE DEF SpawnJobs, Spawned!Jobs
<1>0. SpawnTyped /\ SlotsFollow /\ DownIsEmpty /\ TurnsAwaitTheirs /\ CancelsAreOfJobs
  BY DEF SpawnInv
<1>u. UNCHANGED <<worker, slot, spawned, marked, canceller, awaiting, snapshot, messages>>
  BY DEF Spawned!Shutdown, Spawned!Stopped
<1>a. \/ manager' = "stopping" /\ cancelling' = {j \in spawned : worker[j] \notin {"over", "gone"}}
      \/ /\ manager' = "down" /\ cancelling' = cancelling
         /\ spawned = {} /\ \A j \in SpawnJobs : snapshot[j] # "releasing"
  BY DEF Spawned!Shutdown, Spawned!Stopped, Spawned!Active
<1>1. SpawnTyped'
  <2>1. cancelling' \subseteq SpawnJobs /\ manager' \in {"up", "stopping", "down"}
    BY <1>0, <1>a DEF SpawnTyped, SlotsFollow, LiveJobs
  <2> QED BY <1>0, <1>u, <2>1 DEF SpawnTyped
<1>2. DownIsEmpty'
  BY <1>0, <1>a, <1>u DEF DownIsEmpty, SlotsFollow, LiveJobs, SpawnTyped
<1>3. TurnsAwaitTheirs' /\ CancelsAreOfJobs' /\ HeardFirst'
  BY <1>0, <1>a, <1>u DEF TurnsAwaitTheirs, CancelsAreOfJobs, HeardFirst
<1>4. \A k \in Background : k \in cancelling /\ k \notin cancelling' =>
        worker[k] \in {"none", "over", "gone"}
  BY <1>0, <1>a DEF SlotsFollow, LiveJobs
<1> QED BY <1>1, <1>2, <1>3, <1>4, <1>u, WorkersAlone

\* The rest of the services leave the subagents alone.
LEMMA SpawnRests ==
  ASSUME SpawnInv, UNCHANGED spawnVars
  PROVE  SpawnInv'
<1>u. UNCHANGED <<worker, cancelling, slot, spawned, marked, canceller, awaiting, snapshot,
                  messages, manager>>
  BY DEF spawnVars
<1>1. SpawnTyped' BY <1>u DEF SpawnInv, SpawnTyped, SpawnJobs, Spawned!Jobs
<1>2. (\A k \in Background : k \in cancelling /\ k \notin cancelling' =>
        worker[k] \in {"none", "over", "gone"}) BY <1>u
<1>3. DownIsEmpty' /\ TurnsAwaitTheirs' /\ CancelsAreOfJobs' /\ HeardFirst'
  BY <1>u DEF SpawnInv, DownIsEmpty, TurnsAwaitTheirs, CancelsAreOfJobs, HeardFirst, SpawnJobs,
              Spawned!Jobs
<1> QED BY <1>u, <1>1, <1>2, <1>3, WorkersAlone

\* Every step of the subagents.
LEMMA SpawnInvariant ==
  ASSUME SpawnInv, Spawned!SubagentNext
  PROVE  SpawnInv'
<1>1. CASE Spawned!Shutdown \/ Spawned!Stopped BY <1>1, ShutdownStep
<1>2. ASSUME NEW j \in Spawned!Jobs,
             \/ Spawned!Spawn(j) \/ Spawned!Starts(j) \/ Spawned!AgentEnds(j) \/ Spawned!Tell(j)
             \/ Spawned!CancelHits(j) \/ Spawned!CancelLost(j) \/ Spawned!Excuse(j) \/ Spawned!Forget(j)
             \/ Spawned!SnapshotReleased(j) \/ Spawned!Cancel(j) \/ Spawned!CancelTold(j)
             \/ Spawned!CancelCut(j) \/ Spawned!WaitCut(j) \/ Spawned!WaitEnds(j)
      PROVE  SpawnInv'
  <2>0. j \in SpawnJobs BY DEF SpawnJobs
  <2> QED BY <1>2, <2>0, SpawnStep, StartsStep, AgentEndsStep, TellStep, CancelHitsStep, CancelLostStep,
             ForgetStep, SnapshotReleasedStep, CancelStep, CancelToldStep, WaitStep
<1> QED BY <1>1, <1>2 DEF Spawned!SubagentNext

\* The invariant gives the three promises of the subagents.
LEMMA SpawnPromises ==
  ASSUME SpawnInv
  PROVE  Spawned!SubagentTypeOK /\ Spawned!SlotsAreReal /\ Spawned!ChatsAreTold
<1> USE DEF SpawnJobs, Spawned!Jobs
<1>0. SpawnTyped /\ SlotsFollow /\ SnapshotsFit /\ DownIsEmpty /\ HeardFirst
      /\ \A k \in Background : InOrder(k)
  BY DEF SpawnInv
<1>1. Spawned!SubagentTypeOK BY <1>0 DEF Spawned!SubagentTypeOK, SpawnTyped
<1>2. Spawned!SlotsAreReal
  <2>1. slot = {j \in SpawnJobs : worker[j] \notin {"none", "gone"}} /\ Cardinality(slot) <= MaxActive
    BY <1>0 DEF SlotsFollow, LiveJobs
  <2>2. \A j \in SpawnJobs : worker[j] \in {"running", "telling", "failing", "excusing"} =>
         snapshot[j] \in {"none", "held"}
    BY <1>0 DEF SnapshotsFit, SnapshotFits
  <2>3. manager = "down" => \A j \in SpawnJobs : snapshot[j] \in {"none", "released"}
    BY <1>0 DEF DownIsEmpty, SnapshotsFit, SnapshotFits
  <2> QED BY <2>1, <2>2, <2>3, SameCount DEF Spawned!SlotsAreReal
<1>3. Spawned!ChatsAreTold BY <1>0 DEF Spawned!ChatsAreTold, HeardFirst, InOrder
<1> QED BY <1>1, <1>2, <1>3

\* The subagents keep their invariant whichever part of the services runs.
THEOREM SubagentsInvariant == ServiceSpec => []SpawnInv
<1>1. ServiceInit => SpawnInv BY SpawnFirst DEF ServiceInit
<1>2. ASSUME SpawnInv, [ServiceNext]_serviceVars PROVE SpawnInv'
  <2>1. CASE ServiceNext
    BY <1>2, <2>1, SpawnInvariant, SpawnRests DEF ServiceNext
  <2>2. CASE UNCHANGED serviceVars
    BY <1>2, <2>2, SpawnRests DEF serviceVars
  <2> QED BY <1>2, <2>1, <2>2
<1> QED BY <1>1, <1>2, PTL DEF ServiceSpec

\* For any number of jobs, and any limit: a slot is held exactly as long as its worker
\* lives and the limit is kept, a snapshot is held as long as its worker runs, and the
\* chat is told how each background job ended: after it was told that one is cancelled it
\* is given no result of it, though it may hear of an error, as a cancellation that meets
\* the clean-up of a failed agent is lost (SubagentsAreHonest; subagent_manager.py).
THEOREM SubagentsStayHonest == ServiceSpec => []SubagentsAreHonest
<1>1. SpawnInv => SubagentsAreHonest BY SpawnPromises DEF SubagentsAreHonest
<1> QED BY <1>1, SubagentsInvariant, PTL

(***************************************************************************)
(* The models.                                                             *)
(***************************************************************************)
Entries == [revision : Nat, models : Nat, over : Nat, by : {"migration", "command", "save"}]
ScopeStates == [at : {"outside", "notifying", "running"}, id : Nat, models : Nat,
                since : Nat, until : Nat]
SaveStates == [at : {"none", "open", "probe", "read", "ready", "replaced", "asked", "withdrawn"},
               revision : Nat, source : Nat, backup : Entries \cup {Models!Entry(0, 0, 0, "none")}]
Gens == Models!Generations

\* The types of what the two processes keep.
ModelTyped ==
  /\ log \in Seq(Entries) /\ Len(log) \in Nat \ {0}
  /\ visible \in [id : Gens, revision : Nat, models : Nat]
  /\ leases \in [Gens -> Nat] /\ retiring \subseteq Gens
  /\ scope \in [Scopes -> ScopeStates]
  /\ command \in [at : {"none", "decided"}, revision : Nat, models : Nat]
  /\ save \in SaveStates
  /\ reload \in {"none", "asked", "done", "failed"}

\* The executions that run with a generation.
Using(g) == {s \in Scopes : scope[s].at = "running" /\ scope[s].id = g}

\* Every generation has a lease for each of them; those that came before the visible one
\* are retiring while they are used, and none is used that is still to come.
LeaseInv ==
  /\ \A g \in Gens : leases[g] = Cardinality(Using(g))
  /\ retiring = {g \in Gens : leases[g] > 0} \ {visible.id}
  /\ \A s \in Scopes : scope[s].at = "running" => scope[s].id \in Gens /\ scope[s].id <= visible.id

\* The database has held these models under this revision.
Held(revision, models) ==
  \E i \in 1..Len(log) : log[i].revision = revision /\ log[i].models = models

\* It has held these models between two of its changes.
HeldSince(first, last, models) == \E i \in first..last : log[i].models = models

Recoverable == {"ready", "replaced", "asked"}

\* Whatever is shown, decided upon or kept as a backup was once in the database.
Known ==
  /\ \A i \in 1..Len(log) : log[i].models <= i
  /\ Held(visible.revision, visible.models)
  /\ command.at = "decided" => Held(command.revision, command.models)
  /\ save.at = "open" => Held(save.revision, save.source)
  /\ save.at \in Recoverable => \E i \in 1..Len(log) : log[i] = save.backup
  /\ \A s \in Scopes : scope[s].at = "notifying" =>
       /\ scope[s].since \in 1..Len(log)
       /\ HeldSince(scope[s].since, Len(log), visible.models)
  /\ \A s \in Scopes : scope[s].at = "running" => scope[s].since >= 1 /\ scope[s].until <= Len(log)

\* A command's entry says which models it replaced, and it replaced those.
CommandsReplaceTheirs ==
  \A i \in 2..Len(log) :
    log[i].by = "command" /\ log[i].models = i => log[i].over = log[i - 1].models

Reused == Models!RevisionReused
Honest == Models!ScopesReadTheLatest /\ CommandsReplaceTheirs

ModelInv == ModelTyped /\ LeaseInv /\ Known /\ (Reused \/ Honest)

----------------------------------------------------------------------------
\* What the database holds is the last of its log.
LEMMA DatabaseIsLast ==
  ASSUME ModelTyped
  PROVE  /\ Models!database = log[Len(log)] /\ Models!database \in Entries
         /\ Len(log) \in 1..Len(log)
BY DEF Models!database, Models!Last, ModelTyped

\* The log grows by at most one entry.
Grows(e) ==
  /\ e \in Entries /\ e.models <= Len(log) + 1
  /\ log' \in {log, Append(log, e)}

\* What was in the log stays there.
LEMMA GrowsKeeps ==
  ASSUME ModelTyped, NEW e, Grows(e)
  PROVE  /\ log' \in Seq(Entries) /\ Len(log') \in {Len(log), Len(log) + 1}
         /\ \A i \in 1..Len(log) : log'[i] = log[i]
         /\ Len(log') = Len(log) + 1 => log'[Len(log')] = e
         /\ Models!database' = log'[Len(log')]
         /\ Reused => Reused'
<1>0. log \in Seq(Entries) /\ Len(log) \in Nat \ {0} /\ e \in Entries BY DEF ModelTyped, Grows
<1>1. CASE log' = log
  BY <1>0, <1>1 DEF Reused, Models!RevisionReused, Models!database, Models!Last
<1>2. CASE log' = Append(log, e)
  <2>1. /\ log' \in Seq(Entries) /\ Len(log') = Len(log) + 1
        /\ \A i \in 1..Len(log) : log'[i] = log[i]
        /\ log'[Len(log')] = e
    BY <1>0, <1>2
  <2>2. Reused => Reused'
    <3>1. DOMAIN log = 1..Len(log) /\ DOMAIN log' = 1..Len(log') BY <1>0, <2>1
    <3>2. DOMAIN log \subseteq DOMAIN log' BY <1>0, <2>1, <3>1
    <3> QED BY <2>1, <3>1, <3>2 DEF Reused, Models!RevisionReused
  <2>3. Models!database' = log'[Len(log')] BY DEF Models!database, Models!Last
  <2> QED BY <2>1, <2>2, <2>3
<1> QED BY <1>1, <1>2 DEF Grows

\* In particular its numbers stay those of its entries.
LEMMA GrowsPrefix ==
  ASSUME ModelTyped, NEW e, Grows(e)
  PROVE  /\ Len(log) \in Nat \ {0} /\ Len(log') \in Nat \ {0} /\ Len(log) <= Len(log')
         /\ Len(log') \in 1..Len(log')
         /\ \A i \in 1..Len(log) : i \in 1..Len(log') /\ log'[i] = log[i]
<1>1. Len(log) \in Nat \ {0} /\ Len(log') \in {Len(log), Len(log) + 1}
  BY GrowsKeeps DEF ModelTyped
<1>2. /\ Len(log') \in Nat \ {0} /\ Len(log) <= Len(log') /\ Len(log') \in 1..Len(log')
      /\ \A i \in 1..Len(log) : i \in 1..Len(log')
  BY <1>1
<1>3. \A i \in 1..Len(log) : log'[i] = log[i] BY GrowsKeeps
<1> QED BY <1>1, <1>2, <1>3

\* Under one revision the database has held one set of models, as long as none is reused.
LEMMA HeldOnce ==
  ASSUME ModelTyped, ~ Reused, NEW revision, NEW models, Held(revision, models),
         log[Len(log)].revision = revision
  PROVE  log[Len(log)].models = models
<1>1. DOMAIN log = 1..Len(log) /\ Len(log) \in DOMAIN log BY DEF ModelTyped
<1>2. PICK i \in 1..Len(log) : log[i].revision = revision /\ log[i].models = models BY DEF Held
<1> QED BY <1>1, <1>2 DEF Reused, Models!RevisionReused

\* What was known stays known when the log grows, and what is newly shown, decided upon or
\* kept was read from the database in the same step.
LEMMA KnownStays ==
  ASSUME ModelTyped, ModelTyped', Known, NEW e, Grows(e),
         \/ visible' = visible
         \/ /\ visible'.revision = log'[Len(log')].revision
            /\ visible'.models = log'[Len(log')].models,
         command'.at = "decided" =>
           \/ command' = command
           \/ /\ command'.revision = log'[Len(log')].revision
              /\ command'.models = log'[Len(log')].models,
         save'.at = "open" =>
           \/ save' = save
           \/ /\ save'.revision = log'[Len(log')].revision
              /\ save'.source = log'[Len(log')].models,
         save'.at \in Recoverable =>
           \/ save'.backup = log'[Len(log')]
           \/ save'.backup = save.backup /\ save.at \in Recoverable,
         \A s \in Scopes : scope'[s].at = "notifying" =>
           \/ scope'[s] = scope[s]
           \/ scope'[s].since = Len(log') /\ visible'.models = log'[Len(log')].models,
         \A s \in Scopes : scope'[s].at = "running" =>
           \/ scope'[s] = scope[s]
           \/ scope'[s].since >= 1 /\ scope'[s].until <= Len(log')
  PROVE  Known'
<1>t. /\ Len(log) \in Nat \ {0} /\ Len(log') \in Nat \ {0} /\ Len(log) <= Len(log')
      /\ Len(log') \in 1..Len(log')
  BY GrowsPrefix
<1>k. \A i \in 1..Len(log) : i \in 1..Len(log') /\ log'[i] = log[i] BY GrowsPrefix
<1>h. \A r, m : Held(r, m) => Held(r, m)' BY <1>k DEF Held
<1>l. \A r, m : log'[Len(log')].revision = r /\ log'[Len(log')].models = m => Held(r, m)'
  BY <1>t DEF Held
<1>1. \A i \in 1..Len(log') : log'[i].models <= i
  <2>1. CASE Len(log') = Len(log)
    BY <1>k, <2>1 DEF Known
  <2>2. CASE Len(log') = Len(log) + 1
    BY <1>t, <1>k, <2>2, GrowsKeeps DEF Known, Grows
  <2> QED BY <2>1, <2>2, GrowsKeeps
<1>2. Held(visible.revision, visible.models)'
  <2>1. CASE visible' = visible BY <1>h, <2>1 DEF Known
  <2>2. CASE /\ visible'.revision = log'[Len(log')].revision
             /\ visible'.models = log'[Len(log')].models
    BY <1>t, <2>2 DEF Held
  <2> QED BY <2>1, <2>2
<1>3. command'.at = "decided" => Held(command.revision, command.models)'
  <2>1. CASE command' = command BY <1>h, <2>1 DEF Known
  <2>2. CASE /\ command'.revision = log'[Len(log')].revision
             /\ command'.models = log'[Len(log')].models
    BY <1>t, <2>2 DEF Held
  <2> QED BY <2>1, <2>2
<1>4. save'.at = "open" => Held(save.revision, save.source)'
  <2>1. CASE save' = save BY <1>h, <2>1 DEF Known
  <2>2. CASE /\ save'.revision = log'[Len(log')].revision
             /\ save'.source = log'[Len(log')].models
    BY <1>t, <2>2 DEF Held
  <2> QED BY <2>1, <2>2
<1>5. save'.at \in Recoverable => \E i \in 1..Len(log') : log'[i] = save'.backup
  BY <1>t, <1>k DEF Known
<1>6. ASSUME NEW s \in Scopes, scope'[s].at = "notifying"
      PROVE  /\ scope'[s].since \in 1..Len(log')
             /\ \E i \in scope'[s].since..Len(log') : log'[i].models = visible'.models
  <2>1. CASE scope'[s].since = Len(log') /\ visible'.models = log'[Len(log')].models
    BY <1>t, <2>1
  <2>2. CASE scope'[s] = scope[s]
    <3>1. /\ scope[s].since \in 1..Len(log)
          /\ \E i \in scope[s].since..Len(log) : log[i].models = visible.models
      BY <1>6, <2>2 DEF Known, HeldSince
    <3>2. CASE visible' = visible
      <4>1. PICK i \in scope[s].since..Len(log) : log[i].models = visible.models BY <3>1
      <4>2. i \in 1..Len(log) /\ i \in scope[s].since..Len(log') BY <1>t, <3>1, <4>1
      <4> QED BY <1>t, <1>k, <2>2, <3>1, <3>2, <4>1, <4>2
    <3>3. CASE visible'.models = log'[Len(log')].models
      <4>1. Len(log') \in scope[s].since..Len(log') BY <1>t, <3>1
      <4> QED BY <1>t, <2>2, <3>1, <3>3, <4>1
    <3> QED BY <3>2, <3>3
  <2> QED BY <1>6, <2>1, <2>2
<1>7. ASSUME NEW s \in Scopes, scope'[s].at = "running"
      PROVE  scope'[s].since >= 1 /\ scope'[s].until <= Len(log')
  <2>1. scope[s] \in ScopeStates /\ scope'[s] \in ScopeStates BY DEF ModelTyped
  <2> QED BY <1>7, <1>t, <2>1 DEF Known, ScopeStates
<1> QED BY <1>1, <1>2, <1>3, <1>4, <1>5, <1>6, <1>7 DEF Known, HeldSince

\* Executions that started before keep models that were the latest; a new one has read
\* some that were, and a command's entry says what it replaced.
LEMMA HonestStays ==
  ASSUME ModelTyped, ModelTyped', Known, NEW e, Grows(e), Honest,
         \A s \in Scopes : scope'[s].at = "running" =>
           \/ scope'[s] = scope[s]
           \/ \E i \in scope'[s].since..scope'[s].until :
                i \in 1..Len(log) /\ log[i].models = scope'[s].models,
         log' # log /\ e.by = "command" /\ e.models = Len(log) + 1 =>
           e.over = log[Len(log)].models
  PROVE  Honest'
<1>t. /\ Len(log) \in Nat \ {0} /\ Len(log') \in Nat \ {0} /\ Len(log) <= Len(log')
  BY GrowsPrefix
<1>k. \A i \in 1..Len(log) : i \in 1..Len(log') /\ log'[i] = log[i] BY GrowsPrefix
<1>1. ASSUME NEW s \in Scopes, scope'[s].at = "running"
      PROVE  \E i \in scope'[s].since..scope'[s].until : log'[i].models = scope'[s].models
  <2>1. CASE scope'[s] = scope[s]
    <3>1. PICK i \in scope[s].since..scope[s].until : log[i].models = scope[s].models
      BY <1>1, <2>1 DEF Honest, Models!ScopesReadTheLatest
    <3>2. scope[s] \in ScopeStates BY DEF ModelTyped
    <3>3. i \in 1..Len(log)
      BY <1>1, <1>t, <2>1, <3>1, <3>2 DEF Known, ScopeStates
    <3> QED BY <1>k, <2>1, <3>1, <3>3
  <2>2. CASE \E i \in scope'[s].since..scope'[s].until :
               i \in 1..Len(log) /\ log[i].models = scope'[s].models
    BY <1>k, <2>2
  <2> QED BY <1>1, <2>1, <2>2
<1>2. ASSUME NEW i \in 2..Len(log'), log'[i].by = "command", log'[i].models = i
      PROVE  log'[i].over = log'[i - 1].models
  <2>1. CASE i \in 1..Len(log)
    <3>1. i - 1 \in 1..Len(log) /\ i \in 2..Len(log) BY <1>t, <2>1
    <3> QED BY <1>2, <1>k, <2>1, <3>1 DEF Honest, CommandsReplaceTheirs
  <2>2. CASE i \notin 1..Len(log)
    <3>1. i = Len(log) + 1 /\ Len(log') = Len(log) + 1 BY <1>t, <2>2, GrowsKeeps
    <3>2. log' # log /\ log'[i] = e BY <1>t, <3>1, GrowsKeeps
    <3>3. i - 1 = Len(log) /\ i - 1 \in 1..Len(log) BY <1>t, <3>1
    <3> QED BY <1>2, <1>k, <3>1, <3>2, <3>3
  <2> QED BY <2>1, <2>2
<1> QED BY <1>1, <1>2 DEF Honest, Models!ScopesReadTheLatest, CommandsReplaceTheirs

----------------------------------------------------------------------------
\* Each generation is used by finitely many executions.
LEMMA UsersAreFinite ==
  ASSUME NEW g
  PROVE  /\ IsFiniteSet(Using(g)) /\ Cardinality(Using(g)) \in Nat
         /\ Cardinality(Using(g)) = 0 <=> Using(g) = {}
<1>1. Using(g) \subseteq Scopes BY DEF Using
<1>2. IsFiniteSet(Using(g)) BY <1>1, ScopesAreFinite, FS_Subset
<1> QED BY <1>2, FS_CardinalityType, FS_EmptySet

\* The same executions with the same generations: the same leases.
LEMMA LeasesRest ==
  ASSUME ModelTyped, LeaseInv, UNCHANGED <<leases, retiring, visible>>,
         \A s \in Scopes :
           \/ scope'[s] = scope[s]
           \/ scope[s].at # "running" /\ scope'[s].at # "running"
  PROVE  LeaseInv'
<1>1. \A g : Using(g)' = Using(g) BY DEF Using
<1> QED BY <1>1 DEF LeaseInv, Gens, Models!Generations

\* A publication retires the generation it replaces if that is in use, and nothing uses
\* the new one.
LEMMA PublishLeases ==
  ASSUME ModelTyped, ModelTyped', LeaseInv, UNCHANGED leases,
         visible'.id = visible.id + 1,
         retiring' = retiring \cup {g \in {visible.id} : leases[g] > 0},
         \A s \in Scopes :
           \/ scope'[s] = scope[s]
           \/ scope[s].at # "running" /\ scope'[s].at # "running"
  PROVE  LeaseInv'
<1>0. visible.id \in Gens /\ visible'.id \in Gens /\ visible.id \in Nat /\ Gens \subseteq Nat
  <2>1. visible.id \in Gens BY DEF ModelTyped
  <2>2. visible'.id \in Gens' BY DEF ModelTyped
  <2>3. Gens' = Gens BY DEF Gens, Models!Generations
  <2>4. Gens \subseteq Nat BY LimitsAreNumbers DEF Gens, Models!Generations
  <2> QED BY <2>1, <2>2, <2>3, <2>4
<1>1. \A g : Using(g)' = Using(g) BY DEF Using
<1>2. \A g \in Gens : leases'[g] = Cardinality(Using(g))' BY <1>1 DEF LeaseInv
<1>3. leases[visible'.id] = 0
  <2>1. Using(visible'.id) = {} BY <1>0 DEF LeaseInv, Using
  <2> QED BY <1>0, <2>1, UsersAreFinite DEF LeaseInv
<1>4. retiring' = {g \in Gens : leases'[g] > 0} \ {visible'.id}
  <2>1. \A g \in Gens : g \in retiring <=> leases[g] > 0 /\ g # visible.id BY DEF LeaseInv
  <2>2. retiring \subseteq Gens BY DEF ModelTyped
  <2>3. \A g \in Gens : g \in retiring' <=> leases[g] > 0
    BY <1>0, <2>1
  <2>4. retiring' \subseteq Gens BY <1>0, <2>2
  <2>5. \A g : g \in retiring' <=> g \in Gens /\ leases[g] > 0 BY <2>3, <2>4
  <2>6. ~ (leases[visible'.id] > 0) BY <1>3
  <2>7. \A g : g \in retiring' <=> g \in Gens /\ leases[g] > 0 /\ g # visible'.id
    BY <2>5, <2>6
  <2> QED BY <2>7
<1>5. \A s \in Scopes : scope'[s].at = "running" => scope'[s].id \in Gens /\ scope'[s].id <= visible'.id
  <2>1. ASSUME NEW s \in Scopes, scope'[s].at = "running"
        PROVE  scope'[s].id \in Gens /\ scope'[s].id <= visible.id + 1
    <3>1. scope'[s] = scope[s] /\ scope[s].id \in Gens /\ scope[s].id <= visible.id
      BY <2>1 DEF LeaseInv
    <3>2. PICK h : h = scope[s].id OBVIOUS
    <3>3. PICK v : v = visible.id OBVIOUS
    <3>4. h \in Gens /\ h <= v BY <3>1, <3>2, <3>3
    <3>5. h \in Nat /\ v \in Nat BY <1>0, <3>3, <3>4
    <3>6. h <= v + 1 BY <3>4, <3>5
    <3> QED BY <3>1, <3>2, <3>3, <3>4, <3>6
  <2> QED BY <2>1
<1> QED BY <1>2, <1>4, <1>5 DEF LeaseInv, Gens, Models!Generations

\* An execution takes a lease of the visible generation.
LEMMA BindLeases ==
  ASSUME ModelTyped, ModelTyped', LeaseInv, NEW s \in Scopes, scope[s].at # "running",
         NEW since, Models!Bind(s, since), UNCHANGED <<visible, retiring>>
  PROVE  LeaseInv'
<1> PICK v : v = visible.id OBVIOUS
<1>0. visible.id = v /\ v \in Gens /\ Gens \subseteq Nat
  BY LimitsAreNumbers DEF ModelTyped, Gens, Models!Generations
<1>a. /\ scope'[s].at = "running" /\ scope'[s].id = v
      /\ \A t \in Scopes : t # s => scope'[t] = scope[t]
  BY <1>0 DEF Models!Bind, ModelTyped
<1>b. /\ leases'[v] = leases[v] + 1
      /\ \A g \in Gens : g # v => leases'[g] = leases[g]
  BY <1>0 DEF Models!Bind, ModelTyped
<1>1. Using(v)' = Using(v) \cup {s} /\ s \notin Using(v)
  BY <1>a DEF Using
<1>2. \A g \in Gens : g # v => Using(g)' = Using(g) BY <1>a DEF Using
<1>3. \A g \in Gens : leases'[g] = Cardinality(Using(g))'
  <2>1. leases'[v] = Cardinality(Using(v)')
    <3>1. IsFiniteSet(Using(v)) /\ Cardinality(Using(v)) \in Nat BY UsersAreFinite
    <3>2. Cardinality(Using(v) \cup {s}) = Cardinality(Using(v)) + 1
      BY <1>1, <3>1, FS_AddElement
    <3> QED BY <1>0, <1>b, <1>1, <3>2 DEF LeaseInv
  <2> QED BY <1>b, <1>2, <2>1 DEF LeaseInv
<1>4. retiring' = {g \in Gens : leases'[g] > 0} \ {visible'.id}
  BY <1>b DEF LeaseInv
<1>5. \A t \in Scopes : scope'[t].at = "running" => scope'[t].id \in Gens /\ scope'[t].id <= visible'.id
  BY <1>0, <1>a DEF LeaseInv
<1> QED BY <1>3, <1>4, <1>5 DEF LeaseInv, Gens, Models!Generations

\* An execution gives its lease back; the last one lets a retired generation go.
LEMMA LeaveLeases ==
  ASSUME ModelTyped, ModelTyped', LeaseInv, NEW s \in Scopes, Models!Leave(s), UNCHANGED visible
  PROVE  LeaseInv'
<1> PICK h : h = scope[s].id OBVIOUS
<1>g. scope[s].at = "running" BY DEF Models!Leave
<1>0. scope[s].id = h /\ h \in Gens /\ Gens \subseteq Nat
  BY <1>g, LimitsAreNumbers DEF LeaseInv, Gens, Models!Generations
<1>a. /\ scope'[s].at # "running"
      /\ \A t \in Scopes : t # s => scope'[t] = scope[t]
  BY DEF Models!Leave, ModelTyped, Models!Outside
<1>b. /\ leases'[h] = leases[h] - 1
      /\ \A g \in Gens : g # h => leases'[g] = leases[g]
  BY <1>0 DEF Models!Leave, ModelTyped
<1>c. retiring' = {g \in retiring : leases'[g] > 0} BY DEF Models!Leave
<1>1. Using(h)' = Using(h) \ {s} /\ s \in Using(h)
  BY <1>0, <1>a, <1>g DEF Using
<1>2. \A g \in Gens : g # h => Using(g)' = Using(g) BY <1>a DEF Using
<1>3. \A g \in Gens : leases'[g] = Cardinality(Using(g))'
  <2>1. leases'[h] = Cardinality(Using(h)')
    <3>1. IsFiniteSet(Using(h)) /\ Cardinality(Using(h)) \in Nat BY UsersAreFinite
    <3>2. Cardinality(Using(h) \ {s}) = Cardinality(Using(h)) - 1
      BY <1>1, <3>1, FS_RemoveElement
    <3> QED BY <1>0, <1>b, <1>1, <3>2 DEF LeaseInv
  <2> QED BY <1>b, <1>2, <2>1 DEF LeaseInv
<1>4. retiring' = {g \in Gens : leases'[g] > 0} \ {visible'.id}
  <2>1. \A g \in Gens : leases[g] \in Nat /\ leases'[g] \in Nat BY DEF ModelTyped
  <2>2. \A g \in Gens : leases'[g] > 0 => leases[g] > 0 BY <1>0, <1>b, <2>1
  <2>3. \A g \in Gens : g \in retiring <=> leases[g] > 0 /\ g # visible.id BY DEF LeaseInv
  <2>4. retiring \subseteq Gens BY DEF ModelTyped
  <2> QED BY <1>c, <2>2, <2>3, <2>4
<1>5. \A t \in Scopes : scope'[t].at = "running" => scope'[t].id \in Gens /\ scope'[t].id <= visible'.id
  BY <1>a DEF LeaseInv
<1> QED BY <1>3, <1>4, <1>5 DEF LeaseInv, Gens, Models!Generations

----------------------------------------------------------------------------
\* Three facts of the Gateway's steps: what it publishes, whom it binds, and what it
\* compares.
LEMMA PublishIs ==
  ASSUME ModelTyped, Models!Publish
  PROVE  /\ visible' \in [id : Gens, revision : Nat, models : Nat]
         /\ visible'.id = visible.id + 1
         /\ visible'.revision = log[Len(log)].revision /\ visible'.models = log[Len(log)].models
         /\ retiring' = retiring \cup {g \in {visible.id} : leases[g] > 0}
         /\ retiring' \subseteq Gens
<1>1. visible' = [id |-> visible.id + 1, revision |-> log[Len(log)].revision,
                  models |-> log[Len(log)].models]
  BY DatabaseIsLast DEF Models!Publish
<1>2. retiring' = retiring \cup {g \in {visible.id} : leases[g] > 0} BY DEF Models!Publish
<1>3. visible.id < MaxGenerations BY DEF Models!Publish
<1>4. visible.id + 1 \in Gens /\ visible.id \in Gens
  BY <1>3, LimitsAreNumbers DEF ModelTyped, Gens, Models!Generations
<1>5. log[Len(log)] \in Entries BY DatabaseIsLast
<1>6. log[Len(log)].revision \in Nat /\ log[Len(log)].models \in Nat BY <1>5 DEF Entries
<1>7. retiring' \subseteq Gens BY <1>2, <1>4 DEF ModelTyped
<1> QED BY <1>1, <1>2, <1>4, <1>6, <1>7

\* What binding an execution to the log changes.
LEMMA BindIs ==
  ASSUME ModelTyped, NEW s \in Scopes, NEW since \in Nat, Models!Bind(s, since)
  PROVE  /\ leases' \in [Gens -> Nat] /\ scope' \in [Scopes -> ScopeStates]
         /\ \A t \in Scopes : t # s => scope'[t] = scope[t]
         /\ scope'[s].since = since /\ scope'[s].until = Len(log)
         /\ scope'[s].at = "running" /\ scope'[s].models = visible.models
<1>1. leases' = [leases EXCEPT ![visible.id] = leases[visible.id] + 1] BY DEF Models!Bind
<1>2. PICK c : c = [at |-> "running", id |-> visible.id, models |-> visible.models,
                    since |-> since, until |-> Len(log)] OBVIOUS
<1>3. scope' = [scope EXCEPT ![s] = c] BY <1>2 DEF Models!Bind
<1>4. visible.id \in Gens /\ visible.id \in Nat /\ visible.models \in Nat /\ Len(log) \in Nat
  BY LimitsAreNumbers DEF ModelTyped, Gens, Models!Generations
<1>5. c \in ScopeStates BY <1>2, <1>4 DEF ScopeStates
<1>6. leases' \in [Gens -> Nat] BY <1>1, <1>4 DEF ModelTyped
<1> QED BY <1>2, <1>3, <1>5, <1>6 DEF ModelTyped

\* An execution that is outside holds nothing.
LEMMA OutsideIs ==
  /\ Models!Outside \in ScopeStates /\ Models!Outside.at = "outside"
  /\ Models!NoCommand \in [at : {"none", "decided"}, revision : Nat, models : Nat]
  /\ Models!NoCommand.at = "none"
  /\ Models!NoSave \in SaveStates /\ Models!NoSave.at = "none"
  /\ Models!NoSave.backup = Models!Entry(0, 0, 0, "none")
BY DEF Models!Outside, ScopeStates, Models!NoCommand, Models!NoSave, SaveStates

\* An entry that changes nothing can always stand for a step that leaves the log alone.
LEMMA LogRests ==
  ASSUME ModelTyped, Known, UNCHANGED log
  PROVE  /\ Grows(log[Len(log)])
         /\ Reused => Reused'
<1>1. log[Len(log)] \in Entries /\ Len(log) \in 1..Len(log) /\ Len(log) \in Nat
  BY DatabaseIsLast DEF ModelTyped
<1>2. log[Len(log)].models <= Len(log) BY <1>1 DEF Known
<1>3. log[Len(log)].models \in Nat BY <1>1 DEF Entries
<1> QED BY <1>1, <1>2, <1>3 DEF Grows, Reused, Models!RevisionReused

\* An execution enters: with what is visible if that is the database's revision, else it
\* publishes what the database holds and waits for the listeners.
LEMMA EnterStep ==
  ASSUME ModelInv, NEW s \in Scopes, Models!Enter(s), UNCHANGED <<log, command, save, reload>>
  PROVE  ModelInv'
<1>0. ModelTyped /\ LeaseInv /\ Known /\ (Reused \/ Honest) BY DEF ModelInv
<1>l. Len(log) \in Nat \ {0} /\ Len(log) \in 1..Len(log) BY <1>0 DEF ModelTyped
<1>g. scope[s].at = "outside" BY DEF Models!Enter
<1>e. Grows(log[Len(log)]) /\ (Reused => Reused') BY <1>0, LogRests
<1>1. CASE Models!Stale
  <2>a. Models!Publish /\ UNCHANGED leases BY <1>1 DEF Models!Enter
  <2>1. PICK c : c = [at |-> "notifying", id |-> 0, models |-> 0, since |-> Len(log), until |-> 0]
    OBVIOUS
  <2>2. scope' = [scope EXCEPT ![s] = c]
    BY <1>1, <2>1 DEF Models!Enter, Models!Outside
  <2>3. c \in ScopeStates /\ c.at = "notifying" /\ c.since = Len(log) BY <1>l, <2>1 DEF ScopeStates
  <2>4. scope' \in [Scopes -> ScopeStates] /\ scope'[s] = c /\ \A t \in Scopes : t # s => scope'[t] = scope[t]
    BY <1>0, <2>2, <2>3 DEF ModelTyped
  <2>5. ModelTyped' BY <1>0, <2>a, <2>4, PublishIs DEF ModelTyped, Gens, Models!Generations
  <2>6. LeaseInv' BY <1>0, <1>g, <2>a, <2>3, <2>4, <2>5, PublishIs, PublishLeases
  <2>7. Known'
    <3>1. \A t \in Scopes : scope'[t].at = "notifying" =>
             \/ scope'[t] = scope[t]
             \/ scope'[t].since = Len(log') /\ visible'.models = log'[Len(log')].models
      BY <1>0, <2>a, <2>3, <2>4, PublishIs
    <3>2. \A t \in Scopes : scope'[t].at = "running" => scope'[t] = scope[t] BY <2>3, <2>4
    <3>3. /\ visible'.revision = log'[Len(log')].revision
          /\ visible'.models = log'[Len(log')].models
      BY <1>0, <2>a, PublishIs
    <3> QED BY <1>0, <1>e, <2>5, <3>1, <3>2, <3>3, KnownStays
  <2>8. Honest => Honest'
    BY <1>0, <1>e, <2>3, <2>4, <2>5, HonestStays
  <2> QED BY <1>0, <1>e, <2>5, <2>6, <2>7, <2>8 DEF ModelInv
<1>2. CASE ~ Models!Stale
  <2>a. Models!Bind(s, Len(log)) /\ UNCHANGED <<visible, retiring>> BY <1>2 DEF Models!Enter
  <2>b. log[Len(log)].revision = visible.revision BY <1>0, <1>2, DatabaseIsLast DEF Models!Stale
  <2>1. ModelTyped' BY <1>0, <1>l, <2>a, BindIs DEF ModelTyped, Gens, Models!Generations
  <2>2. LeaseInv' BY <1>0, <1>g, <2>a, <2>1, BindLeases
  <2>3. Known'
    <3>1. \A t \in Scopes : t # s => scope'[t] = scope[t] BY <1>0, <1>l, <2>a, BindIs
    <3>2. scope'[s].at = "running" /\ scope'[s].since >= 1 /\ scope'[s].until <= Len(log')
      BY <1>0, <1>l, <2>a, BindIs
    <3> QED BY <1>0, <1>e, <2>a, <2>1, <3>1, <3>2, KnownStays
  <2>4. ~ Reused /\ Honest => Honest'
    <3>1. ~ Reused => log[Len(log)].models = visible.models
      BY <1>0, <2>b, HeldOnce DEF Known
    <3>2. ~ Reused => \E i \in scope'[s].since..scope'[s].until :
                        i \in 1..Len(log) /\ log[i].models = scope'[s].models
      BY <1>0, <1>l, <2>a, <3>1, BindIs
    <3>3. \A t \in Scopes : t # s => scope'[t] = scope[t] BY <1>0, <1>l, <2>a, BindIs
    <3> QED BY <1>0, <1>e, <2>1, <3>2, <3>3, HonestStays
  <2> QED BY <1>0, <1>e, <2>1, <2>2, <2>3, <2>4 DEF ModelInv
<1> QED BY <1>1, <1>2

\* The listeners were awaited: the execution runs with what is visible by then, or ends.
LEMMA NotifiedStep ==
  ASSUME ModelInv, NEW s \in Scopes, Models!Notified(s),
         UNCHANGED <<log, visible, retiring, command, save, reload>>
  PROVE  ModelInv'
<1>0. ModelTyped /\ LeaseInv /\ Known /\ (Reused \/ Honest) BY DEF ModelInv
<1>l. Len(log) \in Nat \ {0} /\ Len(log) \in 1..Len(log) BY <1>0 DEF ModelTyped
<1>g. scope[s].at = "notifying" BY DEF Models!Notified
<1>e. Grows(log[Len(log)]) /\ (Reused => Reused') BY <1>0, LogRests
<1>1. CASE Models!Bind(s, scope[s].since)
  <2>0. PICK n : n = scope[s].since OBVIOUS
  <2>a. Models!Bind(s, n) /\ n \in 1..Len(log) /\ n \in Nat BY <1>0, <1>1, <1>g, <1>l, <2>0 DEF Known
  <2>1. ModelTyped' BY <1>0, <2>a, BindIs DEF ModelTyped, Gens, Models!Generations
  <2>2. LeaseInv' BY <1>0, <1>g, <2>a, <2>1, BindLeases
  <2>3. \A t \in Scopes : t # s => scope'[t] = scope[t] BY <1>0, <2>a, BindIs
  <2>4. Known'
    <3>1. scope'[s].at = "running" /\ scope'[s].since >= 1 /\ scope'[s].until <= Len(log')
      BY <1>0, <1>l, <2>a, BindIs
    <3> QED BY <1>0, <1>e, <2>1, <2>3, <3>1, KnownStays
  <2>5. Honest => Honest'
    <3>1. PICK i \in n..Len(log) : log[i].models = visible.models
      BY <1>0, <1>g, <2>0 DEF Known, HeldSince
    <3>2. i \in 1..Len(log) BY <1>l, <2>a, <3>1
    <3>3. \E k \in scope'[s].since..scope'[s].until :
            k \in 1..Len(log) /\ log[k].models = scope'[s].models
      BY <1>0, <2>a, <3>1, <3>2, BindIs
    <3> QED BY <1>0, <1>e, <2>1, <2>3, <3>3, HonestStays
  <2> QED BY <1>0, <1>e, <2>1, <2>2, <2>4, <2>5 DEF ModelInv
<1>2. CASE scope' = [scope EXCEPT ![s] = Models!Outside] /\ UNCHANGED leases
  <2>1. /\ scope' \in [Scopes -> ScopeStates] /\ scope'[s].at = "outside"
        /\ \A t \in Scopes : t # s => scope'[t] = scope[t]
    BY <1>0, <1>2, OutsideIs DEF ModelTyped
  <2>2. ModelTyped' BY <1>0, <1>2, <2>1 DEF ModelTyped, Gens, Models!Generations
  <2>3. LeaseInv' BY <1>0, <1>2, <1>g, <2>1, LeasesRest
  <2>4. Known' BY <1>0, <1>e, <2>1, <2>2, KnownStays
  <2>5. Honest => Honest' BY <1>0, <1>e, <2>1, <2>2, HonestStays
  <2> QED BY <1>0, <1>e, <2>2, <2>3, <2>4, <2>5 DEF ModelInv
<1> QED BY <1>1, <1>2 DEF Models!Notified

\* An execution leaves.
LEMMA LeaveStep ==
  ASSUME ModelInv, NEW s \in Scopes, Models!Leave(s),
         UNCHANGED <<log, visible, command, save, reload>>
  PROVE  ModelInv'
<1>0. ModelTyped /\ LeaseInv /\ Known /\ (Reused \/ Honest) BY DEF ModelInv
<1>e. Grows(log[Len(log)]) /\ (Reused => Reused') BY <1>0, LogRests
<1>g. scope[s].at = "running" /\ scope' = [scope EXCEPT ![s] = Models!Outside] BY DEF Models!Leave
<1>1. /\ scope' \in [Scopes -> ScopeStates] /\ scope'[s].at = "outside"
      /\ \A t \in Scopes : t # s => scope'[t] = scope[t]
  BY <1>0, <1>g, OutsideIs DEF ModelTyped
<1>2. leases' \in [Gens -> Nat] /\ retiring' \subseteq Gens
  <2>0. PICK h : h = scope[s].id OBVIOUS
  <2>1. h \in Gens /\ s \in Using(h) BY <1>0, <1>g, <2>0 DEF LeaseInv, Using
  <2>2. leases[h] \in Nat /\ leases[h] # 0
    BY <1>0, <2>1, UsersAreFinite DEF LeaseInv
  <2>3. leases' = [leases EXCEPT ![h] = leases[h] - 1] BY <2>0 DEF Models!Leave
  <2>4. leases[h] - 1 \in Nat BY <2>2
  <2>5. leases' \in [Gens -> Nat] BY <1>0, <2>1, <2>3, <2>4 DEF ModelTyped
  <2>6. retiring' \subseteq retiring BY DEF Models!Leave
  <2> QED BY <1>0, <2>5, <2>6 DEF ModelTyped
<1>3. ModelTyped' BY <1>0, <1>1, <1>2 DEF ModelTyped, Gens, Models!Generations
<1>4. LeaseInv' BY <1>0, <1>3, LeaveLeases
<1>5. Known' BY <1>0, <1>e, <1>1, <1>3, KnownStays
<1>6. Honest => Honest' BY <1>0, <1>e, <1>1, <1>3, HonestStays
<1> QED BY <1>0, <1>e, <1>3, <1>4, <1>5, <1>6 DEF ModelInv

\* Steps that leave the log, the executions and their generations alone.
LEMMA DeskStep ==
  ASSUME ModelInv, UNCHANGED <<log, visible, leases, retiring, scope>>,
         command' \in [at : {"none", "decided"}, revision : Nat, models : Nat],
         save' \in SaveStates, reload' \in {"none", "asked", "done", "failed"},
         command'.at = "decided" =>
           \/ command' = command
           \/ /\ command'.revision = log[Len(log)].revision
              /\ command'.models = log[Len(log)].models,
         save'.at = "open" =>
           \/ save' = save
           \/ /\ save'.revision = log[Len(log)].revision
              /\ save'.source = log[Len(log)].models,
         save'.at \in Recoverable =>
           \/ save'.backup = log[Len(log)]
           \/ save'.backup = save.backup /\ save.at \in Recoverable
  PROVE  ModelInv'
<1>0. ModelTyped /\ LeaseInv /\ Known /\ (Reused \/ Honest) BY DEF ModelInv
<1>e. Grows(log[Len(log)]) /\ (Reused => Reused') BY <1>0, LogRests
<1>1. ModelTyped' BY <1>0 DEF ModelTyped, Gens, Models!Generations
<1>2. LeaseInv' BY <1>0, LeasesRest
<1>3. Known' BY <1>0, <1>e, <1>1, KnownStays
<1>4. Honest => Honest' BY <1>0, <1>e, <1>1, HonestStays
<1> QED BY <1>0, <1>e, <1>1, <1>2, <1>3, <1>4 DEF ModelInv

\* A command looks at the database, or is refused.
LEMMA LookStep ==
  ASSUME ModelInv, Models!Look \/ Models!Refuse,
         UNCHANGED <<log, visible, leases, retiring, scope, save, reload>>
  PROVE  ModelInv'
<1>0. ModelTyped BY DEF ModelInv
<1>1. log[Len(log)].revision \in Nat /\ log[Len(log)].models \in Nat
  BY <1>0, DatabaseIsLast DEF Entries
<1>2. save' \in SaveStates /\ reload' \in {"none", "asked", "done", "failed"}
  BY <1>0 DEF ModelTyped
<1>3. CASE Models!Look
  <2>1. command' = [at |-> "decided", revision |-> log[Len(log)].revision,
                    models |-> log[Len(log)].models]
    BY <1>0, <1>3, DatabaseIsLast DEF Models!Look
  <2> QED BY <1>1, <1>2, <2>1, DeskStep
<1>4. CASE Models!Refuse
  <2>1. command' = Models!NoCommand BY <1>4 DEF Models!Refuse
  <2> QED BY <1>2, <2>1, OutsideIs, DeskStep
<1> QED BY <1>3, <1>4

\* The settings service reads, or ends an operation, with nothing written.
LEMMA PageStep ==
  ASSUME ModelInv,
         \/ Models!OpenPage \/ Models!Apply \/ Models!ReadSource \/ Models!BackUp
         \/ Models!SettingsEnd,
         UNCHANGED <<log, visible, leases, retiring, scope, command, reload>>
  PROVE  ModelInv'
<1>0. ModelTyped BY DEF ModelInv
<1>1. /\ log[Len(log)].revision \in Nat /\ log[Len(log)].models \in Nat
      /\ log[Len(log)] \in Entries /\ Models!database = log[Len(log)]
  BY <1>0, DatabaseIsLast DEF Entries
<1>2. /\ command' \in [at : {"none", "decided"}, revision : Nat, models : Nat]
      /\ reload' \in {"none", "asked", "done", "failed"} /\ save \in SaveStates
  BY <1>0 DEF ModelTyped
<1>3. CASE Models!OpenPage
  <2>1. save' = [at |-> "open", revision |-> log[Len(log)].revision,
                 source |-> log[Len(log)].models, backup |-> Models!Entry(0, 0, 0, "none")]
    BY <1>1, <1>3 DEF Models!OpenPage, Models!NoSave
  <2>2. save' \in SaveStates BY <1>1, <2>1 DEF SaveStates
  <2> QED BY <1>2, <2>1, <2>2, DeskStep DEF Recoverable
<1>4. CASE Models!Apply
  <2>1. save' = [save EXCEPT !.at = "probe"] BY <1>4 DEF Models!Apply
  <2>2. save' \in SaveStates /\ save'.at = "probe" BY <1>2, <2>1 DEF SaveStates
  <2> QED BY <1>2, <2>2, DeskStep DEF Recoverable
<1>5. CASE Models!ReadSource
  <2>1. save' = [save EXCEPT !.at = "read", !.source = log[Len(log)].models]
    BY <1>1, <1>5 DEF Models!ReadSource
  <2>2. save' \in SaveStates /\ save'.at = "read" BY <1>1, <1>2, <2>1 DEF SaveStates
  <2> QED BY <1>2, <2>2, DeskStep DEF Recoverable
<1>6. CASE Models!BackUp
  <2>1. save' = [save EXCEPT !.at = "ready", !.backup = log[Len(log)]]
    BY <1>1, <1>6 DEF Models!BackUp
  <2>2. save' \in SaveStates /\ save'.at = "ready" /\ save'.backup = log[Len(log)]
    BY <1>1, <1>2, <2>1 DEF SaveStates
  <2> QED BY <1>2, <2>2, DeskStep
<1>7. CASE Models!SettingsEnd
  <2>1. save' = Models!NoSave BY <1>7 DEF Models!SettingsEnd
  <2> QED BY <1>2, <2>1, OutsideIs, DeskStep DEF Recoverable
<1> QED BY <1>3, <1>4, <1>5, <1>6, <1>7

\* The settings service asks for a reload, or has its answer.
LEMMA AskStep ==
  ASSUME ModelInv, Models!Ask \/ Models!Answered \/ Models!Withdrawn,
         UNCHANGED <<log, visible, leases, retiring, scope, command>>
  PROVE  ModelInv'
<1>0. ModelTyped BY DEF ModelInv
<1>1. /\ command' \in [at : {"none", "decided"}, revision : Nat, models : Nat]
      /\ save \in SaveStates
  BY <1>0 DEF ModelTyped
<1>2. CASE Models!Ask
  <2>1. save' = [save EXCEPT !.at = "asked"] /\ save.at = "replaced" /\ reload' = "asked"
    BY <1>2 DEF Models!Ask
  <2>2. save' \in SaveStates /\ save'.at = "asked" /\ save'.backup = save.backup
    BY <1>1, <2>1 DEF SaveStates
  <2> QED BY <1>1, <2>1, <2>2, DeskStep DEF Recoverable
<1>3. CASE Models!Answered \/ Models!Withdrawn
  <2>1. save' = Models!NoSave /\ reload' \in {"none", "asked", "done", "failed"}
    BY <1>0, <1>3 DEF Models!Answered, Models!Withdrawn, ModelTyped
  <2> QED BY <1>1, <2>1, OutsideIs, DeskStep DEF Recoverable
<1> QED BY <1>2, <1>3

\* reload_model_config
LEMMA ReloadsStep ==
  ASSUME ModelInv, Models!Reloads, UNCHANGED <<log, leases, scope, command, save>>
  PROVE  ModelInv'
<1>0. ModelTyped /\ LeaseInv /\ Known /\ (Reused \/ Honest) BY DEF ModelInv
<1>e. Grows(log[Len(log)]) /\ (Reused => Reused') BY <1>0, LogRests
<1>1. CASE Models!Publish
  <2>0. reload' \in {"none", "asked", "done", "failed"} BY DEF Models!Reloads
  <2>1. ModelTyped' BY <1>0, <1>1, <2>0, PublishIs DEF ModelTyped, Gens, Models!Generations
  <2>2. LeaseInv' BY <1>0, <1>1, <2>1, PublishIs, PublishLeases
  <2>3. Known'
    <3>1. /\ visible'.revision = log'[Len(log')].revision
          /\ visible'.models = log'[Len(log')].models
      BY <1>0, <1>1, PublishIs
    <3> QED BY <1>0, <1>e, <2>1, <3>1, KnownStays
  <2>4. Honest => Honest' BY <1>0, <1>e, <2>1, HonestStays
  <2> QED BY <1>0, <1>e, <2>1, <2>2, <2>3, <2>4 DEF ModelInv
<1>2. CASE reload' = "failed" /\ UNCHANGED <<visible, retiring>>
  BY <1>0, <1>2, DeskStep DEF ModelTyped
<1> QED BY <1>1, <1>2 DEF Models!Reloads

\* A Gateway that restarts has one generation, of what the database holds.
LEMMA RestartStep ==
  ASSUME ModelInv, Models!Restarts, UNCHANGED <<log, save>>
  PROVE  ModelInv'
<1>0. ModelTyped /\ LeaseInv /\ Known /\ (Reused \/ Honest) BY DEF ModelInv
<1>e. Grows(log[Len(log)]) /\ (Reused => Reused') BY <1>0, LogRests
<1>d. log[Len(log)].revision \in Nat /\ log[Len(log)].models \in Nat
  BY <1>0, DatabaseIsLast DEF Entries
<1>a. /\ scope' = [s \in Scopes |-> Models!Outside] /\ command' = Models!NoCommand
      /\ retiring' = {}
  BY DEF Models!Restarts
<1>b. leases' = [g \in Gens |-> 0] BY DEF Models!Restarts, Gens
<1>c. visible' = [id |-> 1, revision |-> log[Len(log)].revision, models |-> log[Len(log)].models]
  BY <1>0, DatabaseIsLast DEF Models!Restarts
<1>r. reload' \in {"none", "asked", "done", "failed"}
  BY <1>0 DEF Models!Restarts, ModelTyped
<1>1. \A s \in Scopes : scope'[s].at = "outside" BY <1>a, OutsideIs
<1>2. ModelTyped'
  <2>1. 1 \in Gens BY LimitsAreNumbers DEF Gens, Models!Generations
  <2>2. visible' \in [id : Gens, revision : Nat, models : Nat] BY <1>c, <1>d, <2>1
  <2>3. scope' \in [Scopes -> ScopeStates] BY <1>a, OutsideIs
  <2>4. leases' \in [Gens -> Nat] /\ retiring' \subseteq Gens BY <1>a, <1>b
  <2>5. command' \in [at : {"none", "decided"}, revision : Nat, models : Nat] BY <1>a, OutsideIs
  <2> QED BY <1>0, <1>r, <2>2, <2>3, <2>4, <2>5 DEF ModelTyped, Gens, Models!Generations
<1>3. LeaseInv'
  <2>1. \A g : Using(g)' = {} BY <1>1 DEF Using
  <2>2. Cardinality({}) = 0 BY FS_EmptySet
  <2>3. \A g \in Gens : leases'[g] = 0 BY <1>b
  <2>4. \A g \in Gens : leases'[g] = Cardinality(Using(g))' BY <2>1, <2>2, <2>3
  <2>5. retiring' = {g \in Gens : leases'[g] > 0} \ {visible'.id} BY <1>a, <2>3
  <2> QED BY <1>1, <2>4, <2>5 DEF LeaseInv, Gens, Models!Generations
<1>4. Known'
  <2>1. visible'.revision = log'[Len(log')].revision /\ visible'.models = log'[Len(log')].models
    BY <1>c
  <2>2. command'.at = "none" BY <1>a, OutsideIs
  <2> QED BY <1>0, <1>e, <1>1, <1>2, <2>1, <2>2, KnownStays
<1>5. Honest => Honest' BY <1>0, <1>1, <1>e, <1>2, HonestStays
<1> QED BY <1>0, <1>e, <1>2, <1>3, <1>4, <1>5 DEF ModelInv

\* What a commit appends.
LEMMA CommitIs ==
  ASSUME ModelTyped, NEW models \in Nat, NEW by \in {"command", "save"}, Models!Commit(models, by)
  PROVE  \E e : /\ Grows(e) /\ e.over = models /\ e.by = by
                /\ log' = Append(log, e) /\ Len(log') = Len(log) + 1
<1>1. PICK e : e = Models!Entry(log[Len(log)].revision + 1, Len(log) + 1, models, by) OBVIOUS
<1>2. log[Len(log)].revision \in Nat /\ Len(log) \in Nat /\ log \in Seq(Entries)
  BY DatabaseIsLast DEF Entries, ModelTyped
<1>3. /\ e \in Entries /\ e.models = Len(log) + 1 /\ e.over = models /\ e.by = by
  BY <1>1, <1>2, SMTT(30) DEF Models!Entry, Entries
<1>4. log' = Append(log, e) BY <1>1, DatabaseIsLast DEF Models!Commit
<1>5. e.models <= Len(log) + 1 BY <1>2, <1>3
<1>6. Len(log') = Len(log) + 1 BY <1>2, <1>3, <1>4
<1> QED BY <1>3, <1>4, <1>5, <1>6 DEF Grows

\* A step of the settings service that writes the log, with no execution, command or
\* generation touched: what it keeps of the operation was so before.
LEMMA WriteStep ==
  ASSUME ModelInv, NEW e, Grows(e), UNCHANGED <<visible, leases, retiring, scope>>,
         command' \in {command, Models!NoCommand},
         save' \in SaveStates, reload' \in {"none", "asked", "done", "failed"},
         save'.at # "open" \/ save' = save,
         save'.at \in Recoverable => save'.backup = save.backup /\ save.at \in Recoverable,
         log' # log /\ e.by = "command" /\ e.models = Len(log) + 1 =>
           Reused \/ e.over = log[Len(log)].models
  PROVE  ModelInv'
<1>0. ModelTyped /\ LeaseInv /\ Known /\ (Reused \/ Honest) BY DEF ModelInv
<1>1. log' \in Seq(Entries) /\ Len(log') \in Nat \ {0} /\ (Reused => Reused')
  BY <1>0, GrowsKeeps DEF ModelTyped
<1>2. ModelTyped' BY <1>0, <1>1, OutsideIs DEF ModelTyped, Gens, Models!Generations
<1>3. LeaseInv' BY <1>0, LeasesRest
<1>4. command'.at = "decided" => command' = command BY OutsideIs
<1>5. Known' BY <1>0, <1>2, <1>4, KnownStays
<1>6. ~ Reused /\ Honest => Honest' BY <1>0, <1>2, HonestStays
<1> QED BY <1>0, <1>1, <1>2, <1>3, <1>5, <1>6 DEF ModelInv

\* set_role writes what the page shows, at the revision the page shows.
LEMMA SetRoleStep ==
  ASSUME ModelInv, Models!SetRole, UNCHANGED <<visible, leases, retiring, scope, command, reload>>
  PROVE  ModelInv'
<1>0. ModelTyped /\ Known BY DEF ModelInv
<1>1. save.at = "open" /\ save.revision = log[Len(log)].revision /\ save' = Models!NoSave
  BY <1>0, DatabaseIsLast DEF Models!SetRole
<1>2. save.source \in Nat BY <1>0 DEF ModelTyped, SaveStates
<1>3. PICK e : Grows(e) /\ e.over = save.source /\ e.by = "command"
  BY <1>0, <1>2, CommitIs DEF Models!SetRole
<1>4. ~ Reused => save.source = log[Len(log)].models
  BY <1>0, <1>1, HeldOnce DEF Known
<1>5. reload' \in {"none", "asked", "done", "failed"} BY <1>0 DEF ModelTyped
<1> QED BY <1>1, <1>3, <1>4, <1>5, OutsideIs, WriteStep DEF Recoverable

\* replace_from_llm_config writes what it has read since.
LEMMA ReplaceStep ==
  ASSUME ModelInv, Models!Replace, UNCHANGED <<visible, leases, retiring, scope, command, reload>>
  PROVE  ModelInv'
<1>0. ModelTyped BY DEF ModelInv
<1>1. save.at = "ready" /\ save' \in {Models!NoSave, [save EXCEPT !.at = "replaced"]}
  BY DEF Models!Replace
<1>2. save \in SaveStates /\ save.source \in Nat BY <1>0 DEF ModelTyped, SaveStates
<1>3. PICK e : Grows(e) /\ e.by = "save"
  BY <1>0, <1>2, CommitIs DEF Models!Replace
<1>4. /\ save' \in SaveStates /\ save'.at # "open"
      /\ save'.at \in Recoverable => save'.backup = save.backup
  BY <1>1, <1>2, OutsideIs DEF SaveStates, Recoverable
<1>5. reload' \in {"none", "asked", "done", "failed"} BY <1>0 DEF ModelTyped
<1> QED BY <1>1, <1>3, <1>4, <1>5, WriteStep DEF Recoverable

\* A restore puts back an entry that was there.
LEMMA RestoreIs ==
  ASSUME ModelTyped, Known, save.at \in Recoverable, Models!Restore
  PROVE  /\ Grows(save.backup) /\ save.backup.models <= Len(log)
<1>1. PICK i \in 1..Len(log) : log[i] = save.backup BY DEF Known
<1>2. log[i] \in Entries /\ log[i].models <= i /\ i <= Len(log) /\ Len(log) \in Nat /\ i \in Nat
  BY <1>1 DEF Known, ModelTyped
<1>3. log[i].models \in Nat BY <1>2 DEF Entries
<1>4. save.backup.models <= Len(log) /\ save.backup.models <= Len(log) + 1 BY <1>1, <1>2, <1>3
<1>5. log' \in {log, Append(log, save.backup)} BY DEF Models!Restore
<1> QED BY <1>1, <1>2, <1>4, <1>5 DEF Grows

\* A save that fails puts the database back.
LEMMA RestoreStep ==
  ASSUME ModelInv,
         \/ Models!ReplaceFails /\ UNCHANGED <<visible, leases, retiring, scope, command, reload>>
         \/ Models!Withdraw /\ UNCHANGED <<visible, leases, retiring, scope, command>>
  PROVE  ModelInv'
<1>0. ModelTyped /\ Known BY DEF ModelInv
<1>1. save.at \in Recoverable /\ Models!Restore
  BY DEF Models!ReplaceFails, Models!Withdraw, Recoverable
<1>2. Grows(save.backup) /\ save.backup.models <= Len(log) BY <1>0, <1>1, RestoreIs
<1>3. save \in SaveStates BY <1>0 DEF ModelTyped
<1>4. save' \in {Models!NoSave, [save EXCEPT !.at = "withdrawn"]}
  BY DEF Models!ReplaceFails, Models!Withdraw
<1>5. save' \in SaveStates /\ save'.at \in {"none", "withdrawn"}
  BY <1>3, <1>4, OutsideIs DEF SaveStates
<1>6. reload' \in {"none", "asked", "done", "failed"}
  BY <1>0 DEF ModelTyped, Models!Withdraw
<1>7. save.backup.models # Len(log) + 1
  <2>1. Len(log) \in Nat BY <1>0 DEF ModelTyped
  <2>2. save.backup.models \in Nat BY <1>2 DEF Grows, Entries
  <2> QED BY <1>2, <2>1, <2>2
<1> QED BY <1>2, <1>5, <1>6, <1>7, WriteStep DEF Recoverable

\* A command commits, and the Gateway publishes what it has written if it can.
LEMMA ExecuteStep ==
  ASSUME ModelInv, Models!Execute, UNCHANGED <<leases, scope, save, reload>>
  PROVE  ModelInv'
<1>0. ModelTyped /\ LeaseInv /\ Known /\ (Reused \/ Honest) BY DEF ModelInv
<1>1. /\ command.at = "decided" /\ command.revision = log[Len(log)].revision
      /\ command' = Models!NoCommand
  BY <1>0, DatabaseIsLast DEF Models!Execute, Models!Mutate
<1>2. command.models \in Nat BY <1>0 DEF ModelTyped
<1>3. PICK e : Grows(e) /\ e.over = command.models /\ e.by = "command"
  BY <1>0, <1>2, CommitIs DEF Models!Execute, Models!Mutate
<1>4. ~ Reused => command.models = log[Len(log)].models
  BY <1>0, <1>1, HeldOnce DEF Known
<1>5. save' \in SaveStates /\ reload' \in {"none", "asked", "done", "failed"}
  BY <1>0 DEF ModelTyped
<1>6. /\ log' \in Seq(Entries) /\ Len(log') \in Nat \ {0} /\ (Reused => Reused')
      /\ Models!database' = log'[Len(log')] /\ Len(log') \in 1..Len(log')
  BY <1>0, <1>3, GrowsKeeps DEF ModelTyped
<1>7. CASE UNCHANGED <<visible, retiring>>
  <2>1. ModelTyped' BY <1>0, <1>1, <1>5, <1>6, <1>7, OutsideIs DEF ModelTyped, Gens, Models!Generations
  <2>2. LeaseInv' BY <1>0, <1>7, LeasesRest
  <2>3. command'.at = "none" BY <1>1, OutsideIs
  <2>4. Known' BY <1>0, <1>3, <1>7, <2>1, <2>3, KnownStays
  <2>5. ~ Reused /\ Honest => Honest' BY <1>0, <1>3, <1>4, <2>1, HonestStays
  <2> QED BY <1>0, <1>6, <2>1, <2>2, <2>4, <2>5 DEF ModelInv
<1>8. CASE /\ visible.id < MaxGenerations
           /\ visible' = [id |-> visible.id + 1, revision |-> Models!database'.revision,
                          models |-> Models!database'.models]
           /\ retiring' = retiring \cup {g \in {visible.id} : leases[g] > 0}
  <2>0. /\ log'[Len(log')].revision \in Nat /\ log'[Len(log')].models \in Nat
    <3>1. log'[Len(log')] \in Entries BY <1>6
    <3> QED BY <3>1 DEF Entries
  <2>1. /\ visible.id \in Gens /\ visible.id + 1 \in Gens
    BY <1>0, <1>8, LimitsAreNumbers DEF ModelTyped, Gens, Models!Generations
  <2>2. /\ visible' \in [id : Gens, revision : Nat, models : Nat] /\ visible'.id = visible.id + 1
        /\ visible'.revision = log'[Len(log')].revision /\ visible'.models = log'[Len(log')].models
    BY <1>6, <1>8, <2>0, <2>1
  <2>3. retiring' \subseteq Gens BY <1>0, <1>8, <2>1 DEF ModelTyped
  <2>4. ModelTyped' BY <1>0, <1>1, <1>5, <1>6, <2>2, <2>3, OutsideIs DEF ModelTyped, Gens, Models!Generations
  <2>5. LeaseInv' BY <1>0, <1>8, <2>2, <2>4, PublishLeases
  <2>6. command'.at = "none" BY <1>1, OutsideIs
  <2>7. Known' BY <1>0, <1>3, <2>2, <2>4, <2>6, KnownStays
  <2>8. ~ Reused /\ Honest => Honest' BY <1>0, <1>3, <1>4, <2>4, HonestStays
  <2> QED BY <1>0, <1>6, <2>4, <2>5, <2>7, <2>8 DEF ModelInv
<1> QED BY <1>7, <1>8 DEF Models!Execute

\* The rest of the services leave the models alone.
LEMMA ModelsRest ==
  ASSUME ModelInv, UNCHANGED modelVars
  PROVE  ModelInv'
<1>0. ModelTyped /\ Known BY DEF ModelInv
<1> QED BY <1>0, DeskStep DEF modelVars, ModelTyped

\* Every step of the model registry.
LEMMA ModelStep ==
  ASSUME ModelInv, Models!ModelNext
  PROVE  ModelInv'
BY EnterStep, NotifiedStep, LeaveStep, RestartStep, ReloadsStep, LookStep, ExecuteStep, PageStep,
   SetRoleStep, ReplaceStep, RestoreStep, AskStep
   DEF Models!ModelNext

\* The database holds its first revision, and nothing runs.
LEMMA ModelFirst ==
  ASSUME Models!ModelInit
  PROVE  ModelInv
<1>1. PICK e : e = Models!Entry(1, 1, 0, "migration") OBVIOUS
<1>2. e \in Entries /\ e.revision = 1 /\ e.models = 1 /\ e.by = "migration"
  BY <1>1 DEF Entries, Models!Entry
<1>3. log = <<e>> BY <1>1 DEF Models!ModelInit
<1>4. log \in Seq(Entries) /\ Len(log) = 1 /\ log[1] = e BY <1>2, <1>3
<1>5. visible = [id |-> 1, revision |-> 1, models |-> 1] BY DEF Models!ModelInit
<1>6. leases = [g \in Gens |-> 0] /\ retiring = {} BY DEF Models!ModelInit, Gens
<1>7. /\ scope = [s \in Scopes |-> Models!Outside] /\ command = Models!NoCommand
      /\ save = Models!NoSave /\ reload = "none"
  BY DEF Models!ModelInit
<1>8. \A s \in Scopes : scope[s].at = "outside" BY <1>7, OutsideIs
<1>9. ModelTyped
  <2>1. 1 \in Gens BY LimitsAreNumbers DEF Gens, Models!Generations
  <2>2. visible \in [id : Gens, revision : Nat, models : Nat] BY <1>5, <2>1
  <2>3. scope \in [Scopes -> ScopeStates] BY <1>7, OutsideIs
  <2>4. leases \in [Gens -> Nat] /\ retiring \subseteq Gens BY <1>6
  <2> QED BY <1>4, <1>7, <2>2, <2>3, <2>4, OutsideIs DEF ModelTyped
<1>10. LeaseInv
  <2>1. \A g : Using(g) = {} BY <1>8 DEF Using
  <2>2. Cardinality({}) = 0 BY FS_EmptySet
  <2>3. \A g \in Gens : leases[g] = 0 BY <1>6
  <2> QED BY <1>6, <1>8, <2>1, <2>2, <2>3 DEF LeaseInv
<1>11. Known
  <2>1. Held(visible.revision, visible.models) BY <1>2, <1>4, <1>5 DEF Held
  <2>2. command.at = "none" /\ save.at = "none" BY <1>7, OutsideIs
  <2>3. \A i \in 1..Len(log) : log[i].models <= i BY <1>2, <1>4
  <2> QED BY <1>8, <2>1, <2>2, <2>3 DEF Known, Recoverable
<1>12. Honest
  <2>1. 2..Len(log) = {} BY <1>4
  <2> QED BY <1>8, <2>1 DEF Honest, Models!ScopesReadTheLatest, CommandsReplaceTheirs
<1> QED BY <1>9, <1>10, <1>11, <1>12 DEF ModelInv

\* The instance counts as this module does.
LEMMA ModelsCountSame ==
  ASSUME NEW S
  PROVE  Models!Cardinality(S) = Cardinality(S)
BY DEF Cardinality, Models!Cardinality

\* The invariant gives what is promised of the models.
LEMMA ModelPromises ==
  ASSUME ModelInv
  PROVE  Models!ModelTypeOK /\ Models!LeasesAreExact /\ Models!ModelsAreHonest
<1>0. ModelTyped /\ LeaseInv /\ (Reused \/ Honest) BY DEF ModelInv
<1>1. Models!ModelTypeOK
  BY <1>0 DEF Models!ModelTypeOK, ModelTyped, Gens, Entries, ScopeStates
<1>2. Models!LeasesAreExact
  <2>1. \A g \in Gens : leases[g] = Models!Cardinality({s \in Scopes : scope[s].at = "running" /\ scope[s].id = g})
    BY <1>0, ModelsCountSame DEF LeaseInv, Using
  <2> QED BY <1>0, <2>1 DEF Models!LeasesAreExact, LeaseInv, Gens
<1>3. Models!ModelsAreHonest
  BY <1>0 DEF Models!ModelsAreHonest, Reused, Honest, CommandsReplaceTheirs
<1> QED BY <1>1, <1>2, <1>3

\* The models keep their invariant whichever part of the services runs.
THEOREM ModelsInvariant == ServiceSpec => []ModelInv
<1>1. ServiceInit => ModelInv BY ModelFirst DEF ServiceInit
<1>2. ASSUME ModelInv, [ServiceNext]_serviceVars PROVE ModelInv'
  <2>1. CASE ServiceNext
    BY <1>2, <2>1, ModelStep, ModelsRest DEF ServiceNext
  <2>2. CASE UNCHANGED serviceVars
    BY <1>2, <2>2, ModelsRest DEF serviceVars
  <2> QED BY <1>2, <2>1, <2>2
<1> QED BY <1>1, <1>2, PTL DEF ServiceSpec

\* For any finite set of executions and any bounds: each generation has a lease for every
\* execution that uses it and a retired one is held exactly as long; and as long as no
\* revision was used for two sets of models, an execution runs with models the database
\* held after it had entered and a command replaces what its author saw (ModelsAreHonest;
\* registry.py, management.py).
THEOREM ModelsStayHonest == ServiceSpec => []ModelsAreHonest
<1>1. ModelInv => ModelsAreHonest BY ModelPromises DEF ModelsAreHonest
<1> QED BY <1>1, ModelsInvariant, PTL

(***************************************************************************)
(* The notes bridge: a behaviour of the services is one of the bridge.     *)
(***************************************************************************)
Bridge == INSTANCE NotesProofs WITH pending <- proposals

\* The steps of the service are steps of the bridge.
LEMMA BridgeServiceSteps ==
  ASSUME \/ \E o \in Ops : Notes!Create(o) \/ Notes!Reconcile(o)
         \/ Notes!StartWrite \/ Notes!SettleWrite \/ Notes!SettleLookup \/ Notes!Cancel
  PROVE  Bridge!Next
<1>1. ASSUME NEW o \in Ops, Notes!Create(o) \/ Notes!Reconcile(o) PROVE Bridge!Next
  <2>1. Bridge!Create(o) \/ Bridge!Reconcile(o)
    BY <1>1
       DEF Notes!Create, Bridge!Create, Notes!Reconcile, Bridge!Reconcile, Notes!NoCall, Bridge!NoCall,
           Notes!NewCall, Bridge!NewCall, Notes!Request, Bridge!Request, Notes!macVars, Bridge!macVars
  <2> QED BY <2>1 DEF Bridge!Next
<1>2. ASSUME Notes!StartWrite \/ Notes!SettleWrite \/ Notes!SettleLookup \/ Notes!Cancel PROVE Bridge!Next
  <2>1. Bridge!StartWrite \/ Bridge!SettleWrite \/ Bridge!SettleLookup \/ Bridge!Cancel
    BY <1>2
       DEF Notes!StartWrite, Bridge!StartWrite, Notes!SettleWrite, Bridge!SettleWrite,
           Notes!SettleLookup, Bridge!SettleLookup, Notes!Cancel, Bridge!Cancel,
           Notes!NoCall, Bridge!NoCall, Notes!NewCall, Bridge!NewCall, Notes!Request, Bridge!Request,
           Notes!Lookups, Bridge!Lookups, Notes!InCall, Bridge!InCall, Notes!Fault, Bridge!Fault,
           Notes!Audit, Bridge!Audit, Notes!Id, Bridge!Id, Notes!macVars, Bridge!macVars
  <2> QED BY <2>1 DEF Bridge!Next
<1> QED BY <1>1, <1>2

\* So are those of the broker and the link.
LEMMA BridgeBrokerSteps ==
  ASSUME \/ Notes!BeginOffline \/ Notes!BeginOnline \/ Notes!RecordProposed \/ Notes!EndProposal
         \/ Notes!TerminalBeforeCommit \/ Notes!Recheck \/ Notes!RecordCommit \/ Notes!SendCommit
         \/ Notes!EndCommit \/ Notes!BrokerReads \/ Notes!BrokerLosesLink \/ Notes!CloudRestart
         \/ Notes!Connect \/ Notes!Drop
  PROVE  Bridge!Next
<1>1. CASE \/ Notes!BeginOffline \/ Notes!BeginOnline \/ Notes!RecordProposed \/ Notes!EndProposal
           \/ Notes!TerminalBeforeCommit \/ Notes!Recheck \/ Notes!RecordCommit \/ Notes!SendCommit
           \/ Notes!EndCommit
  <2>1. \/ Bridge!BeginOffline \/ Bridge!BeginOnline \/ Bridge!RecordProposed \/ Bridge!EndProposal
        \/ Bridge!TerminalBeforeCommit \/ Bridge!Recheck \/ Bridge!RecordCommit \/ Bridge!SendCommit
        \/ Bridge!EndCommit
    BY <1>1
       DEF Notes!BeginOffline, Bridge!BeginOffline, Notes!BeginOnline, Bridge!BeginOnline,
           Notes!RecordProposed, Bridge!RecordProposed, Notes!EndProposal, Bridge!EndProposal,
           Notes!TerminalBeforeCommit, Bridge!TerminalBeforeCommit, Notes!Recheck, Bridge!Recheck,
           Notes!RecordCommit, Bridge!RecordCommit, Notes!SendCommit, Bridge!SendCommit,
           Notes!EndCommit, Bridge!EndCommit, Notes!Fault, Bridge!Fault, Notes!Audit, Bridge!Audit,
           Notes!Return, Bridge!Return, Notes!Goto, Bridge!Goto, Notes!Lost, Bridge!Lost,
           Notes!ToMac, Bridge!ToMac, Notes!Message, Bridge!Message, Notes!Id, Bridge!Id,
           Notes!Terminal, Bridge!Terminal, Notes!macVars, Bridge!macVars
  <2> QED BY <2>1 DEF Bridge!Next
<1>2. CASE \/ Notes!BrokerReads \/ Notes!BrokerLosesLink \/ Notes!CloudRestart
           \/ Notes!Connect \/ Notes!Drop
  <2>1. \/ Bridge!BrokerReads \/ Bridge!BrokerLosesLink \/ Bridge!CloudRestart
        \/ Bridge!Connect \/ Bridge!Drop
    BY <1>2
       DEF Notes!BrokerReads, Bridge!BrokerReads, Notes!BrokerLosesLink, Bridge!BrokerLosesLink,
           Notes!CloudRestart, Bridge!CloudRestart, Notes!Connect, Bridge!Connect, Notes!Drop, Bridge!Drop,
           Notes!Expected, Bridge!Expected, Notes!InCall, Bridge!InCall, Notes!Failed, Bridge!Failed,
           Notes!Lost, Bridge!Lost, Notes!Fault, Bridge!Fault, Notes!Recovered, Bridge!Recovered,
           Notes!Ids, Bridge!Ids, Notes!Prefixes, Bridge!Prefixes, Notes!NoCall, Bridge!NoCall,
           Notes!NoRun, Bridge!NoRun, Notes!macVars, Bridge!macVars, Notes!cloudVars, Bridge!cloudVars
  <2> QED BY <2>1 DEF Bridge!Next
<1> QED BY <1>1, <1>2

\* So are those of the Mac.
LEMMA BridgeMacSteps ==
  ASSUME \/ \E r \in Notes!Requests : Notes!MacPropose(r) \/ Notes!MacAbort(r) \/ Notes!MacCommit(r)
         \/ Notes!MacLosesLink \/ Notes!MacScript \/ Notes!MacFinish \/ Notes!MacStops
         \/ \E o \in Ops : Notes!MacReconcile(o)
  PROVE  Bridge!Next
<1>1. ASSUME NEW r \in Notes!Requests, Notes!MacPropose(r) \/ Notes!MacAbort(r) \/ Notes!MacCommit(r)
      PROVE  Bridge!Next
  <2>1. Notes!MacPropose(r) => Bridge!MacPropose(r)
    BY DEF Notes!MacPropose, Bridge!MacPropose, Notes!Conflict, Bridge!Conflict,
           Notes!MacReceives, Bridge!MacReceives, Notes!Message, Bridge!Message,
           Notes!Result, Bridge!Result, Notes!ToCloud, Bridge!ToCloud, Notes!Id, Bridge!Id,
           Notes!Leave, Bridge!Leave, Notes!NoRun, Bridge!NoRun, Notes!cloudVars, Bridge!cloudVars
  <2>3. Notes!MacAbort(r) => Bridge!MacAbort(r)
    BY DEF Notes!MacAbort, Bridge!MacAbort,
           Notes!MacReceives, Bridge!MacReceives, Notes!Message, Bridge!Message,
           Notes!Result, Bridge!Result, Notes!ToCloud, Bridge!ToCloud, Notes!Id, Bridge!Id,
           Notes!Leave, Bridge!Leave, Notes!NoRun, Bridge!NoRun, Notes!cloudVars, Bridge!cloudVars
  <2>4. Notes!MacCommit(r) => Bridge!MacCommit(r)
    BY DEF Notes!MacCommit, Bridge!MacCommit, Notes!Terminal, Bridge!Terminal,
           Notes!MacReceives, Bridge!MacReceives, Notes!Message, Bridge!Message,
           Notes!Result, Bridge!Result, Notes!ToCloud, Bridge!ToCloud, Notes!Id, Bridge!Id,
           Notes!Leave, Bridge!Leave, Notes!NoRun, Bridge!NoRun, Notes!cloudVars, Bridge!cloudVars
  <2>2. r \in Bridge!Requests
    BY DEF Notes!Requests, Bridge!Requests, Notes!Request, Bridge!Request, Notes!Lookups, Bridge!Lookups
  <2> QED BY <1>1, <2>1, <2>2, <2>3, <2>4 DEF Bridge!Next
<1>2. ASSUME NEW o \in Ops, Notes!MacReconcile(o) PROVE Bridge!Next
  <2>1. Bridge!MacReconcile(o)
    BY <1>2
       DEF Notes!MacReconcile, Bridge!MacReconcile, Notes!cloudVars, Bridge!cloudVars
  <2> QED BY <2>1 DEF Bridge!Next
<1>3. ASSUME Notes!MacLosesLink \/ Notes!MacScript \/ Notes!MacFinish \/ Notes!MacStops PROVE Bridge!Next
  <2>1. Notes!MacLosesLink => Bridge!MacLosesLink
    BY DEF Notes!MacLosesLink, Bridge!MacLosesLink, Notes!Leave, Bridge!Leave,
           Notes!NoRun, Bridge!NoRun, Notes!cloudVars, Bridge!cloudVars
  <2>2. Notes!MacScript => Bridge!MacScript
    BY DEF Notes!MacScript, Bridge!MacScript, Notes!Lookups, Bridge!Lookups,
           Notes!cloudVars, Bridge!cloudVars
  <2>3. Notes!MacFinish => Bridge!MacFinish
    BY DEF Notes!MacFinish, Bridge!MacFinish, Notes!Terminal, Bridge!Terminal,
           Notes!Result, Bridge!Result, Notes!ToCloud, Bridge!ToCloud, Notes!Id, Bridge!Id,
           Notes!Leave, Bridge!Leave, Notes!NoRun, Bridge!NoRun, Notes!cloudVars, Bridge!cloudVars
  <2>4. Notes!MacStops => Bridge!MacStops
    BY DEF Notes!MacStops, Bridge!MacStops, Notes!Prefixes, Bridge!Prefixes, Notes!Fault, Bridge!Fault,
           Notes!Id, Bridge!Id, Notes!Leave, Bridge!Leave, Notes!NoRun, Bridge!NoRun,
           Notes!cloudVars, Bridge!cloudVars
  <2> QED BY <1>3, <2>1, <2>2, <2>3, <2>4 DEF Bridge!Next
<1> QED BY <1>1, <1>2, <1>3

\* Each behaviour of the services is a behaviour of the bridge.
LEMMA ServicesRunTheBridge == ServiceSpec => Bridge!Spec
<1>1. ServiceInit => Bridge!Init
  BY DEF ServiceInit, Notes!Init, Bridge!Init, Notes!Ids, Bridge!Ids, Notes!NoCall, Bridge!NoCall,
         Notes!NoRun, Bridge!NoRun
<1>2. [ServiceNext]_serviceVars => [Bridge!Next]_(Bridge!vars)
  <2>1. ASSUME Notes!Next PROVE Bridge!Next
    BY <2>1, BridgeServiceSteps, BridgeBrokerSteps, BridgeMacSteps DEF Notes!Next
  <2>2. notesVars = Bridge!vars BY DEF notesVars, Bridge!vars
  <2>3. ASSUME UNCHANGED notesVars PROVE UNCHANGED Bridge!vars BY <2>3 DEF notesVars, Bridge!vars
  <2>4. ServiceNext => Notes!Next \/ UNCHANGED notesVars BY DEF ServiceNext
  <2>5. UNCHANGED serviceVars => UNCHANGED notesVars BY DEF serviceVars
  <2> QED BY <2>1, <2>3, <2>4, <2>5
<1> QED BY <1>1, <1>2, PTL DEF ServiceSpec, Bridge!Spec

\* For any notes and any number of lost links, stops, cancellations and timeouts: what the
\* service, the broker and the Mac have on record never contradicts Apple Notes or each
\* other (apple_notes/service.py, notes_bridge/broker.py, mac_notes_bridge).
THEOREM LedgersAlwaysAgree == ServiceSpec => []LedgersAgree
<1>1. MaxFaults \in Nat BY LimitsAreNumbers
<1>2. ServiceSpec => [](Bridge!TypeOK /\ Bridge!LedgersAgree)
  BY <1>1, ServicesRunTheBridge, Bridge!LedgersAlwaysAgree
<1>3. Bridge!TypeOK /\ Bridge!LedgersAgree => LedgersAgree
  BY DEF LedgersAgree, Notes!TypeOK, Bridge!TypeOK, Notes!LedgersAgree, Bridge!LedgersAgree,
         Notes!Ids, Bridge!Ids, Notes!Requests, Bridge!Requests, Notes!Request, Bridge!Request,
         Notes!Lookups, Bridge!Lookups
<1> QED BY <1>2, <1>3, PTL

\* For any notes and any number of faults the notes tools implement NotesPromise: a note
\* reported unsaved is never written, one reported saved is there, none is written twice
\* (apple_notes/service.py over the broker, the link and the Mac).
THEOREM ToolsKeepTheirPromise == ServiceSpec => KeepsPromise
<1>1. MaxFaults \in Nat BY LimitsAreNumbers
<1>2. ServiceSpec => Bridge!KeepsPromise BY <1>1, ServicesRunTheBridge, Bridge!ToolsKeepTheirPromise
<1>3. Bridge!Promise!Init => Notes!Promise!Init
  BY DEF Bridge!Promise!Init, Notes!Promise!Init, Bridge!Told, Notes!Told
<1>4. [Bridge!Promise!Next]_(Bridge!Promise!vars) => [Notes!Promise!Next]_(Notes!Promise!vars)
  BY DEF Bridge!Promise!Next, Notes!Promise!Next, Bridge!Promise!vars, Notes!Promise!vars,
         Bridge!Promise!Write, Notes!Promise!Write, Bridge!Promise!Tell, Notes!Promise!Tell,
         Bridge!Promise!Answers, Notes!Promise!Answers, Bridge!Told, Notes!Told
<1> QED BY <1>2, <1>3, <1>4, PTL
       DEF KeepsPromise, Notes!KeepsPromise, Notes!Promise!Spec, Bridge!KeepsPromise, Bridge!Promise!Spec
=============================================================================
