------------------------------ MODULE HostProofs ------------------------------
(***************************************************************************)
(* Proofs about three things that the process of the agent does for whoever*)
(* asks: the commands it runs for its sessions (ShellExecutions), for every*)
(* set of sessions and every size of the register; the rollout of an       *)
(* installed plugin (PluginRollout), for any turns, revisions, transactions*)
(* and deaths; and the message a mobile device sends it (InboundHandoff),  *)
(* for any commands, sessions, pages, crashes and failures.                *)
(*                                                                         *)
(* ShellInv says of each call that is under way what it has seen: who is   *)
(* about to remove an entry saw the process end, or its failure noted; who *)
(* holds the spawn lock has room, or a victim; the cleanup of an owner has *)
(* every command of the owner on its list, or its owner quarantined.       *)
(*                                                                         *)
(* RolloutInv relates what is on disk to what the process is doing: at most*)
(* one transaction is neither promoted nor given up, the pointers are its  *)
(* base or its revision as far as its phase says, and the call that holds  *)
(* the lock, the ready candidate and the operation of the turn are where   *)
(* the phase lets them be.                                                 *)
(*                                                                         *)
(* HandoffInv relates the durable tables, the owners of the bus and the    *)
(* lanes: what waits or is worked on is in the lane of its session, once,  *)
(* with its one owner and its row; a turn record is there exactly for what *)
(* ran, and only the row of a delivered answer is being deleted.           *)
(***************************************************************************)
EXTENDS ShellExecutions, PluginRollout, InboundHandoff, SequenceTheorems, FiniteSetTheorems, TLAPS

(* The commands of the sessions *)

\* The numbers of the executions, and who may own one.
Runs == Executions
Names == Sessions \cup {"nobody"}

\* The register is a list without repetitions.
Listed(s) == s \in Seq(Runs) /\ \A i, j \in 1..Len(s) : s[i] = s[j] => i = j

\* The types of the rest.
ShellTyped ==
  /\ session \in [Runs -> Names] /\ process \in [Runs -> {"none", "alive", "dead"}]
  /\ unended \subseteq Runs /\ failed \subseteq Runs /\ quarantined \subseteq Sessions
  /\ waiter \in [Runs -> {"none", "waiting", "removing"}]
  /\ stopper \in [Runs -> {"none", "kill", "drop"}]
  /\ launch \in [at : {"none", "prune", "drop", "spawn"}, by : Names, victim : Runs \cup {0}]
  /\ sweep \in [at : {"none", "kill", "drop"}, by : Names, todo : SUBSET Runs,
                next : Runs \cup {0}, fails : BOOLEAN]

\* Executions start in the order of their numbers, and what a call holds has started.
InTurn(n) == \A e \in Runs : process[e] # "none" <=> e <= n
StartsFit ==
  /\ \E n \in 0..MaxStarted : InTurn(n)
  /\ \A e \in Registered \cup sweep.todo : process[e] # "none"
  /\ launch.at \in {"prune", "drop"} => launch.victim \in Runs /\ process[launch.victim] # "none"
  /\ \A e \in Runs : waiter[e] # "none" \/ stopper[e] # "none" => process[e] # "none"

\* Who is about to remove an entry has seen its process end, or its failure.
RemovesFit ==
  /\ launch.at = "drop" => process[launch.victim] = "dead"
  /\ sweep.at = "drop" => sweep.next \in Runs /\ process[sweep.next] = "dead"
  /\ \A e \in Runs : stopper[e] = "drop" => process[e] = "dead"
  /\ \A e \in Runs : waiter[e] = "removing" => process[e] = "dead" \/ e \in failed

\* The spawn lock has one holder, and no quarantined owner starts anything.
LockFits ==
  /\ launch.at = "none" \/ sweep.at = "none"
  /\ launch.at # "none" => launch.by \in Sessions \ quarantined

\* There is room once the victim has no entry, whoever removed it.
RoomFits ==
  /\ Len(register) <= MaxExecutions
  /\ launch.at = "spawn" => Len(register) < MaxExecutions
  /\ launch.at \in {"prune", "drop"} /\ launch.victim \notin Registered =>
       Len(register) < MaxExecutions

\* What runs has an entry, or its owner was told.
SeenFits == \A e \in Runs : process[e] = "alive" => e \in Registered \cup unended

\* What a cleanup without failure has yet to end.
SweepFits ==
  sweep.at # "none" /\ ~sweep.fails /\ sweep.by # "nobody" =>
    \A e \in Runs : process[e] = "alive" /\ session[e] = sweep.by => e \in sweep.todo \cup unended

ShellInv ==
  /\ Listed(register) /\ ShellTyped /\ StartsFit /\ RemovesFit /\ LockFits /\ RoomFits
  /\ SeenFits /\ SweepFits

\* What is in the register, by position.
LEMMA RegisteredIs ==
  ASSUME register \in Seq(Runs)
  PROVE  /\ Registered = {register[i] : i \in 1..Len(register)} /\ Registered \subseteq Runs
         /\ Len(register) \in Nat
BY DEF Registered, ToSet

\* A list without one of its positions.
LEMMA RemovedAt ==
  ASSUME NEW s, Listed(s), NEW k \in 1..Len(s)
  PROVE  /\ Listed(RemoveAt(s, k)) /\ Len(RemoveAt(s, k)) = Len(s) - 1
         /\ {RemoveAt(s, k)[i] : i \in 1..(Len(s) - 1)} = {s[i] : i \in 1..Len(s)} \ {s[k]}
<1> DEFINE a == SubSeq(s, 1, k - 1)
           b == SubSeq(s, k + 1, Len(s))
           r == a \o b
<1>0. s \in Seq(Runs) /\ Len(s) \in Nat BY DEF Listed
<1>1. a \in Seq(Runs) /\ Len(a) = k - 1 /\ \A i \in 1..(k - 1) : a[i] = s[i]
  BY <1>0, SubSeqProperties
<1>2. b \in Seq(Runs) /\ Len(b) = Len(s) - k /\ \A i \in 1..(Len(s) - k) : b[i] = s[k + i]
  <2>1. CASE k = Len(s) BY <1>0, <2>1, SubSeqProperties
  <2>2. CASE k < Len(s)
    <3>1. k + 1 \in 1..(Len(s) + 1) /\ Len(s) \in k..Len(s) BY <1>0, <2>2
    <3> QED BY <1>0, <2>2, <3>1, SubSeqProperties
  <2> QED BY <2>1, <2>2, <1>0
<1> HIDE DEF a, b
<1>3. r \in Seq(Runs) /\ Len(r) = Len(s) - 1
  <2>1. r \in Seq(Runs) /\ Len(r) = Len(a) + Len(b) BY <1>1, <1>2, ConcatProperties
  <2> QED BY <2>1, <1>0, <1>1, <1>2
<1>4. \A i \in 1..(Len(s) - 1) : r[i] = IF i < k THEN s[i] ELSE s[i + 1]
  <2> SUFFICES ASSUME NEW i \in 1..(Len(s) - 1) PROVE r[i] = IF i < k THEN s[i] ELSE s[i + 1] OBVIOUS
  <2>1. r[i] = IF i <= Len(a) THEN a[i] ELSE b[i - Len(a)]
    BY <1>0, <1>1, <1>2, ConcatProperties
  <2>2. CASE i < k BY <2>1, <2>2, <1>0, <1>1
  <2>3. CASE ~(i < k)
    <3>1. i - (k - 1) \in 1..(Len(s) - k) /\ k + (i - (k - 1)) = i + 1 BY <1>0, <2>3
    <3> QED BY <2>1, <2>3, <3>1, <1>0, <1>1, <1>2
  <2> QED BY <2>2, <2>3
<1>5. r = RemoveAt(s, k) BY DEF RemoveAt, a, b
<1> HIDE DEF r
<1>6. \A i, j \in 1..(Len(s) - 1) : r[i] = r[j] => i = j
  <2>1. \A i, j \in 1..Len(s) : s[i] = s[j] => i = j BY DEF Listed
  <2> QED BY <2>1, <1>0, <1>4
<1>7. {r[i] : i \in 1..(Len(s) - 1)} = {s[i] : i \in 1..Len(s)} \ {s[k]}
  <2>1. ASSUME NEW i \in 1..(Len(s) - 1) PROVE r[i] \in {s[j] : j \in 1..Len(s)} \ {s[k]}
    <3>1. CASE i < k
      <4>1. i \in 1..Len(s) /\ i # k BY <3>1, <1>0
      <4> QED BY <4>1, <3>1, <1>4 DEF Listed
    <3>2. CASE ~(i < k)
      <4>1. i + 1 \in 1..Len(s) /\ i + 1 # k BY <3>2, <1>0
      <4> QED BY <4>1, <3>2, <1>4 DEF Listed
    <3> QED BY <3>1, <3>2
  <2>2. ASSUME NEW j \in 1..Len(s), s[j] # s[k] PROVE \E i \in 1..(Len(s) - 1) : r[i] = s[j]
    <3>1. j # k BY <2>2
    <3>2. CASE j < k
      <4>1. j \in 1..(Len(s) - 1) BY <3>2, <1>0
      <4> QED BY <4>1, <3>2, <1>4
    <3>3. CASE j > k
      <4>1. j - 1 \in 1..(Len(s) - 1) /\ ~(j - 1 < k) /\ (j - 1) + 1 = j BY <3>3, <1>0
      <4>2. r[j - 1] = s[(j - 1) + 1] BY <4>1, <1>4
      <4>3. r[j - 1] = s[j] BY <4>1, <4>2
      <4> QED BY <4>1, <4>3
    <3> QED BY <3>1, <3>2, <3>3, <1>0
  <2> DEFINE those == {r[i] : i \in 1..(Len(s) - 1)}
             rest == {s[i] : i \in 1..Len(s)} \ {s[k]}
  <2>3. those \subseteq rest BY <2>1
  <2>4. rest \subseteq those
    <3> SUFFICES ASSUME NEW x \in rest PROVE x \in those OBVIOUS
    <3>1. PICK j \in 1..Len(s) : x = s[j] OBVIOUS
    <3>2. PICK i \in 1..(Len(s) - 1) : r[i] = s[j] BY <3>1, <2>2
    <3> QED BY <3>1, <3>2
  <2> HIDE DEF those, rest
  <2>5. those = rest BY <2>3, <2>4
  <2> QED BY <2>5 DEF those, rest
<1>8. Listed(r) BY <1>0, <1>3, <1>6 DEF Listed
<1>9. Listed(RemoveAt(s, k)) /\ Len(RemoveAt(s, k)) = Len(s) - 1
  BY <1>3, <1>5, <1>8
<1> QED BY <1>5, <1>7, <1>9

\* The members of a list of executions.
LEMMA MembersAre ==
  ASSUME NEW s \in Seq(Runs)
  PROVE  /\ ToSet(s) = {s[i] : i \in 1..Len(s)} /\ ToSet(s) \subseteq Runs
         /\ Len(s) \in Nat
BY DEF ToSet

\* A removal takes the entry out and nothing else.
LEMMA WithoutIs ==
  ASSUME Listed(register), NEW e
  PROVE  /\ Listed(RegisterWithout(e)) /\ ToSet(RegisterWithout(e)) = Registered \ {e}
         /\ Len(RegisterWithout(e)) \in Nat /\ Len(register) \in Nat
         /\ Len(RegisterWithout(e)) = Len(register) - (IF e \in Registered THEN 1 ELSE 0)
<1> DEFINE k == CHOOSE i \in DOMAIN register : register[i] = e
<1>0. register \in Seq(Runs) /\ Len(register) \in Nat /\ DOMAIN register = 1..Len(register)
  BY DEF Listed
<1>1. Registered = {register[i] : i \in 1..Len(register)} BY <1>0, RegisteredIs
<1>2. CASE e \in Registered
  <2>1. k \in 1..Len(register) /\ register[k] = e BY <1>0, <1>1, <1>2
  <2>2. RegisterWithout(e) = RemoveAt(register, k) BY <1>2 DEF RegisterWithout
  <2> HIDE DEF k
  <2>3. /\ Listed(RegisterWithout(e)) /\ Len(RegisterWithout(e)) = Len(register) - 1
        /\ {RegisterWithout(e)[i] : i \in 1..(Len(register) - 1)} = Registered \ {e}
    <3> DEFINE w == RemoveAt(register, k)
    <3>1. /\ Listed(w) /\ Len(w) = Len(register) - 1
          /\ {w[i] : i \in 1..(Len(register) - 1)} = {register[i] : i \in 1..Len(register)} \ {register[k]}
      BY <2>1, RemovedAt
    <3> HIDE DEF w
    <3>2. w = RegisterWithout(e) BY <2>2 DEF w
    <3> QED BY <3>1, <3>2, <1>1, <2>1
  <2>4. RegisterWithout(e) \in Seq(Runs) BY <2>3 DEF Listed
  <2>5. ToSet(RegisterWithout(e)) = {RegisterWithout(e)[i] : i \in 1..(Len(register) - 1)}
    BY <2>3, <2>4, MembersAre
  <2> QED BY <1>0, <1>2, <2>3, <2>4, <2>5, MembersAre
<1>3. CASE e \notin Registered
  BY <1>0, <1>3 DEF RegisterWithout, Registered
<1> QED BY <1>2, <1>3

\* Using an entry moves it to the end of the list.
LEMMA UsedIs ==
  ASSUME Listed(register), NEW e
  PROVE  /\ Listed(Used(e)) /\ ToSet(Used(e)) = Registered
         /\ Len(Used(e)) = Len(register)
<1>0. register \in Seq(Runs) /\ Len(register) \in Nat /\ Registered \subseteq Runs
  BY RegisteredIs DEF Listed
<1>1. CASE e \in Registered
  <2> DEFINE w == RegisterWithout(e)
  <2>1. /\ Listed(w) /\ ToSet(w) = Registered \ {e} /\ Len(w) = Len(register) - 1
        /\ Len(w) \in Nat
    BY <1>1, WithoutIs
  <2>2. Used(e) = Append(w, e) BY <1>1 DEF Used
  <2> HIDE DEF w
  <2>3. w \in Seq(Runs) /\ ToSet(w) = {w[i] : i \in 1..Len(w)} /\ e \in Runs
    BY <2>1, MembersAre, <1>0, <1>1 DEF Listed
  <2>4. e \notin {w[i] : i \in 1..Len(w)} BY <2>1, <2>3
  <2>5. /\ Append(w, e) \in Seq(Runs) /\ Len(Append(w, e)) = Len(w) + 1
        /\ Append(w, e)[Len(w) + 1] = e /\ \A i \in 1..Len(w) : Append(w, e)[i] = w[i]
    BY <2>1, <2>3, AppendProperties
  <2> DEFINE u == Append(w, e)
  <2> HIDE DEF u
  <2>6. \A i, j \in 1..(Len(w) + 1) : u[i] = u[j] => i = j
    <3>1. \A i, j \in 1..Len(w) : w[i] = w[j] => i = j BY <2>1 DEF Listed
    <3>2. \A i \in 1..(Len(w) + 1) : i \in 1..Len(w) \/ i = Len(w) + 1 BY <2>1
    <3> QED BY <3>1, <3>2, <2>4, <2>5 DEF u
  <2>7. {u[i] : i \in 1..(Len(w) + 1)} = {w[i] : i \in 1..Len(w)} \cup {e}
    <3>1. \A i \in 1..(Len(w) + 1) : i \in 1..Len(w) \/ i = Len(w) + 1 BY <2>1
    <3>2. \A i \in 1..Len(w) : i \in 1..(Len(w) + 1) BY <2>1
    <3>3. Len(w) + 1 \in 1..(Len(w) + 1) BY <2>1
    <3>4. u[Len(w) + 1] = e /\ \A i \in 1..Len(w) : u[i] = w[i] BY <2>5 DEF u
    <3>5. \A i \in 1..(Len(w) + 1) : u[i] \in {w[j] : j \in 1..Len(w)} \cup {e} BY <3>1, <3>4
    <3>6. {w[i] : i \in 1..Len(w)} \subseteq {u[i] : i \in 1..(Len(w) + 1)}
      <4> SUFFICES ASSUME NEW i \in 1..Len(w) PROVE \E j \in 1..(Len(w) + 1) : u[j] = w[i]
        OBVIOUS
      <4> QED BY <3>2, <3>4
    <3>7. e \in {u[i] : i \in 1..(Len(w) + 1)} BY <3>3, <3>4
    <3> QED BY <3>5, <3>6, <3>7
  <2>8. Listed(u) /\ Len(u) = Len(register) BY <2>1, <2>5, <2>6, <1>0 DEF u, Listed
  <2>9. ToSet(u) = Registered
    <3>1. u \in Seq(Runs) /\ Len(u) = Len(w) + 1 BY <2>5 DEF u
    <3>2. ToSet(u) = {u[i] : i \in 1..(Len(w) + 1)} BY <3>1, MembersAre
    <3>3. {w[i] : i \in 1..Len(w)} = Registered \ {e} BY <2>1, <2>3
    <3> QED BY <1>1, <2>7, <3>2, <3>3
  <2> QED BY <2>2, <2>8, <2>9 DEF u
<1>2. CASE e \notin Registered
  BY <1>2 DEF Used, Registered
<1> QED BY <1>1, <1>2

\* A set of numbers that is not empty has a least one, which Min chooses.
LEMMA LeastIsIn ==
  ASSUME NEW S \in SUBSET Nat, S # {}
  PROVE  Min(S) \in S
<1> DEFINE R == {ss \in Nat \X Nat : ss[1] < ss[2]}
<1>1. IsWellFoundedOn(R, Nat) BY NatLessThanWellFounded DEF OpToRel
<1>2. PICK x \in S : \A y \in S : ~ (<<y, x>> \in R)
  <2> HIDE DEF R
  <2> QED BY <1>1, WFMin
<1>3. ASSUME NEW y \in S PROVE x <= y
  <2>1. <<y, x>> \in Nat \X Nat /\ ~ (<<y, x>> \in R) BY <1>2
  <2>2. ~ (y < x) BY <2>1
  <2> QED BY <2>2
<1> QED BY <1>3 DEF Min

\* The victim of a pruning is in the register.
LEMMA CandidateIs ==
  ASSUME Listed(register), Len(register) >= MaxExecutions
  PROVE  PruneCandidate \in Registered
<1> DEFINE spare == Len(register) - ProtectedRecent
           old == 1..(IF spare > 1 THEN spare ELSE 1)
           dead == {i \in old : ~Alive(register[i])}
           those == IF dead = {} THEN old ELSE dead
<1>0. register \in Seq(Runs) /\ Len(register) \in Nat /\ MaxExecutions \in Nat \ {0} /\ ProtectedRecent \in Nat
  BY RegisterHasRoom DEF Listed
<1>1. old \subseteq 1..Len(register) /\ 1 \in old BY <1>0
<1>2. those # {} /\ those \subseteq 1..Len(register) BY <1>1
<1>3. PruneCandidate = register[Min(those)] BY DEF PruneCandidate
<1> HIDE DEF those
<1>4. Min(those) \in 1..Len(register)
  <2>1. those \in SUBSET Nat BY <1>0, <1>2
  <2> QED BY <1>2, <2>1, LeastIsIn
<1> QED BY <1>0, <1>3, <1>4, RegisteredIs

\* The executions that have started are counted by the last number.
LEMMA StartedIs ==
  ASSUME NEW n \in 0..MaxStarted, InTurn(n)
  PROVE  Started = n
<1>0. MaxStarted \in Nat /\ n \in Nat BY RegisterHasRoom
<1>1. {e \in Runs : process[e] # "none"} = 1..n BY <1>0 DEF InTurn, Runs, Executions
<1>2. {e \in Executions : process[e] # "none"} = 1..n BY <1>1 DEF Runs
<1>3. Cardinality(1..n) = n BY <1>0, FS_Interval
<1>4. Started = Cardinality({e \in Executions : process[e] # "none"})
  BY DEF Started
<1> QED BY <1>2, <1>3, <1>4

\* At first nothing has been started.
LEMMA ShellFirst ==
  ASSUME ExecInit
  PROVE  ShellInv
<1> USE DEF ExecInit
<1>0. MaxStarted \in Nat /\ MaxExecutions \in Nat \ {0} BY RegisterHasRoom
<1>1. Listed(register) /\ Len(register) = 0 /\ Registered = {}
  <2>1. register = <<>> OBVIOUS
  <2> QED BY <2>1 DEF Listed, Registered, ToSet
<1>2. ShellTyped
  BY DEF ShellTyped, Names, Runs, NoSession, NoLaunch, NoSweep
<1>3. StartsFit
  <2>1. InTurn(0) /\ 0 \in 0..MaxStarted BY <1>0 DEF InTurn, Runs, Executions
  <2> QED BY <1>1, <2>1 DEF StartsFit, Runs, NoLaunch, NoSweep
<1>4. RemovesFit BY DEF RemovesFit, Runs, NoLaunch, NoSweep
<1>5. LockFits /\ RoomFits BY <1>0, <1>1 DEF LockFits, RoomFits, NoLaunch, NoSweep
<1>6. SeenFits /\ SweepFits BY DEF SeenFits, SweepFits, Runs, NoSweep
<1> QED BY <1>1, <1>2, <1>3, <1>4, <1>5, <1>6 DEF ShellInv

\* The register may get another order.
LEMMA Reordered ==
  ASSUME ShellInv, NEW e, register' = Used(e)
  PROVE  Listed(register') /\ Registered' = Registered /\ Len(register') = Len(register)
BY UsedIs DEF ShellInv, Registered

\* An entry goes, when nothing runs behind it or its owner is told.
LEMMA EntryGoes ==
  ASSUME ShellInv, NEW e \in Runs, Deregister(e),
         process[e] = "dead" \/ e \in unended',
         unended \subseteq unended', unended' \subseteq Runs,
         process[e] = "dead" \/ (waiter[e] = "removing" /\ waiter'[e] = "none"),
         UNCHANGED <<process, session, quarantined>>,
         waiter' \in [Runs -> {"none", "waiting", "removing"}],
         \A r \in Runs : waiter'[r] # "none" => waiter'[r] = waiter[r],
         stopper' \in [Runs -> {"none", "kill", "drop"}],
         \A r \in Runs : stopper'[r] # "none" => stopper'[r] = stopper[r],
         \/ UNCHANGED launch
         \/ launch.at = "drop" /\ launch.victim = e /\ launch' = [launch EXCEPT !.at = "spawn"],
         \/ UNCHANGED sweep
         \/ sweep.at = "drop" /\ sweep' = [sweep EXCEPT !.at = "kill"]
  PROVE  ShellInv'
<1>0. /\ Listed(register) /\ ShellTyped /\ StartsFit /\ RemovesFit /\ LockFits /\ RoomFits
      /\ SeenFits /\ SweepFits
  BY DEF ShellInv
<1>1. register' = RegisterWithout(e) /\ failed' = failed \ {e} BY DEF Deregister
<1>2. /\ Listed(register)' /\ Registered' = Registered \ {e}
      /\ Len(register') \in Nat /\ Len(register) \in Nat /\ MaxExecutions \in Nat
      /\ Len(register') = Len(register) - (IF e \in Registered THEN 1 ELSE 0)
  <2>1. /\ Listed(RegisterWithout(e)) /\ ToSet(RegisterWithout(e)) = Registered \ {e}
        /\ Len(RegisterWithout(e)) \in Nat /\ Len(register) \in Nat
        /\ Len(RegisterWithout(e)) = Len(register) - (IF e \in Registered THEN 1 ELSE 0)
    BY <1>0, WithoutIs
  <2>2. Registered' = ToSet(register') BY DEF Registered, ToSet
  <2>3. Listed(register)' = Listed(register') BY DEF Listed, Runs, Executions
  <2> QED BY <1>1, <2>1, <2>2, <2>3, RegisterHasRoom
<1>3. ShellTyped' BY <1>0, <1>1 DEF ShellTyped, Runs, Executions, Names
<1>4. StartsFit' BY <1>0, <1>2 DEF StartsFit, ShellTyped, InTurn, Runs, Executions
<1>5. RemovesFit'
  <2>1. (launch.at = "drop" => process[launch.victim] = "dead")' BY <1>0 DEF RemovesFit, ShellTyped
  <2>2. (sweep.at = "drop" => sweep.next \in Runs /\ process[sweep.next] = "dead")'
    BY <1>0 DEF RemovesFit, ShellTyped, Runs, Executions
  <2>3. ASSUME NEW r \in Runs PROVE (stopper[r] = "drop" => process[r] = "dead")'
    <3>1. stopper[r] = "drop" => process[r] = "dead" BY <1>0 DEF RemovesFit
    <3> QED BY <3>1
  <2>4. ASSUME NEW r \in Runs
        PROVE  (waiter[r] = "removing" => process[r] = "dead" \/ r \in failed)'
    <3>1. waiter[r] = "removing" => process[r] = "dead" \/ r \in failed BY <1>0 DEF RemovesFit
    <3>2. waiter'[r] = "removing" => waiter[r] = "removing" /\ (r # e \/ process[r] = "dead") OBVIOUS
    <3> QED BY <3>1, <3>2, <1>1
  <2> QED BY <2>1, <2>2, <2>3, <2>4 DEF RemovesFit, Runs, Executions
<1>6. LockFits' BY <1>0 DEF LockFits, ShellTyped
<1>7. RoomFits'
  <2>1. Len(register') <= Len(register) BY <1>2
  <2>2. CASE UNCHANGED launch BY <1>0, <1>2, <2>1, <2>2 DEF RoomFits
  <2>3. CASE launch.at = "drop" /\ launch.victim = e /\ launch' = [launch EXCEPT !.at = "spawn"]
    <3>1. Len(register') < MaxExecutions BY <1>0, <1>2, <2>3 DEF RoomFits
    <3> QED BY <1>0, <2>3, <3>1, <1>2 DEF RoomFits, ShellTyped
  <2> QED BY <2>2, <2>3
<1>8. SeenFits' BY <1>0, <1>2 DEF SeenFits, Runs, Executions
<1>9. SweepFits' BY <1>0 DEF SweepFits, ShellTyped, Runs, Executions
<1> QED BY <1>2, <1>3, <1>4, <1>5, <1>6, <1>7, <1>8, <1>9 DEF ShellInv

\* A process is seen dead.
LEMMA ProcessDies ==
  ASSUME ShellInv, NEW e \in Runs, Confirmed(e), process[e] # "none",
         UNCHANGED <<register, session, failed, quarantined, waiter>>,
         UNCHANGED stopper \/ stopper' = [stopper EXCEPT ![e] = "drop"],
         UNCHANGED launch \/ (launch.victim = e /\ launch.at = "prune" /\ launch' = [launch EXCEPT !.at = "drop"]),
         \/ UNCHANGED sweep
         \/ sweep.at = "kill" /\ sweep' = [sweep EXCEPT !.at = "drop", !.todo = @ \ {e}, !.next = e]
  PROVE  ShellInv'
<1>0. /\ Listed(register) /\ ShellTyped /\ StartsFit /\ RemovesFit /\ LockFits /\ RoomFits
      /\ SeenFits /\ SweepFits
  BY DEF ShellInv
<1>1. process' = [process EXCEPT ![e] = "dead"] /\ unended' = unended \ {e} BY DEF Confirmed
<1>2. Listed(register)' /\ Registered' = Registered
  BY <1>0 DEF Listed, Runs, Executions, Registered
<1>s. /\ sweep' \in [at : {"none", "kill", "drop"}, by : Names, todo : SUBSET Runs,
                      next : Runs \cup {0}, fails : BOOLEAN]
      /\ sweep'.todo \subseteq sweep.todo /\ sweep'.todo \subseteq Runs
      /\ sweep'.by = sweep.by /\ sweep'.fails = sweep.fails /\ (sweep'.at = "none" <=> sweep.at = "none")
      /\ \A r \in Runs : r \in sweep.todo => r \in sweep'.todo \/ r = e
      /\ UNCHANGED <<sweep.at, sweep.next>> \/ (sweep'.at = "drop" /\ sweep'.next = e)
  <2>0. sweep \in [at : {"none", "kill", "drop"}, by : Names, todo : SUBSET Runs,
                   next : Runs \cup {0}, fails : BOOLEAN] BY <1>0 DEF ShellTyped
  <2>1. CASE UNCHANGED sweep BY <2>0, <2>1
  <2>2. CASE sweep.at = "kill" /\ sweep' = [sweep EXCEPT !.at = "drop", !.todo = @ \ {e}, !.next = e]
    <3>1. sweep' = [at |-> "drop", by |-> sweep.by, todo |-> sweep.todo \ {e}, next |-> e,
                    fails |-> sweep.fails] BY <2>0, <2>2
    <3> QED BY <2>0, <2>2, <3>1
  <2> QED BY <2>1, <2>2
<1>l. launch' \in [at : {"none", "prune", "drop", "spawn"}, by : Names, victim : Runs \cup {0}]
  BY <1>0 DEF ShellTyped
<1>p. stopper' \in [Runs -> {"none", "kill", "drop"}] BY <1>0 DEF ShellTyped
<1>3. ShellTyped' BY <1>0, <1>1, <1>s, <1>l, <1>p DEF ShellTyped, Runs, Executions, Names
<1>4. StartsFit'
  <2>1. PICK n \in 0..MaxStarted : InTurn(n) BY <1>0 DEF StartsFit
  <2>2. \A r \in Runs : process'[r] # "none" <=> process[r] # "none" BY <1>0, <1>1 DEF ShellTyped
  <2>3. InTurn(n)' BY <2>1, <2>2 DEF InTurn, Runs, Executions
  <2>4. Registered \cup sweep'.todo \subseteq Runs /\ sweep'.todo \subseteq sweep.todo
    BY <1>0, <1>s, RegisteredIs DEF Listed
  <2>5. launch'.at \in {"prune", "drop"} => launch'.victim \in Runs /\ process'[launch'.victim] # "none"
    BY <1>0, <2>2 DEF StartsFit, ShellTyped
  <2>6. \A r \in Runs : waiter'[r] # "none" \/ stopper'[r] # "none" => process'[r] # "none"
    BY <1>0, <1>1, <2>2 DEF StartsFit, ShellTyped
  <2> QED BY <1>0, <1>2, <2>2, <2>3, <2>4, <2>5, <2>6 DEF StartsFit, Runs, Executions
<1>5. RemovesFit'
  <2>1. \A r \in Runs : process[r] = "dead" => process'[r] = "dead" BY <1>0, <1>1 DEF ShellTyped
  <2>2. process'[e] = "dead" BY <1>0, <1>1 DEF ShellTyped
  <2>3. launch'.at = "drop" => process'[launch'.victim] = "dead"
    BY <1>0, <2>1, <2>2 DEF RemovesFit, StartsFit, ShellTyped
  <2>4. sweep'.at = "drop" => sweep'.next \in Runs /\ process'[sweep'.next] = "dead"
    BY <1>0, <1>s, <2>1, <2>2 DEF RemovesFit
  <2>5. \A r \in Runs : stopper'[r] = "drop" => process'[r] = "dead"
    BY <1>0, <2>1, <2>2 DEF RemovesFit, ShellTyped
  <2>6. \A r \in Runs : waiter'[r] = "removing" => process'[r] = "dead" \/ r \in failed'
    BY <1>0, <2>1 DEF RemovesFit
  <2> QED BY <2>3, <2>4, <2>5, <2>6 DEF RemovesFit, Runs, Executions
<1>6. LockFits' BY <1>0, <1>s DEF LockFits, ShellTyped
<1>7. RoomFits' BY <1>0, <1>2 DEF RoomFits, ShellTyped
<1>8. SeenFits' BY <1>0, <1>1, <1>2 DEF SeenFits, ShellTyped, Runs, Executions
<1>9. SweepFits' BY <1>0, <1>1, <1>s DEF SweepFits, ShellTyped, Runs, Executions
<1> QED BY <1>2, <1>3, <1>4, <1>5, <1>6, <1>7, <1>8, <1>9 DEF ShellInv

\* The spawn lock is taken or given back; nothing has been started or ended.
LEMMA LockMoves ==
  ASSUME ShellInv, UNCHANGED <<register, process, session, failed, unended, waiter, stopper>>,
         \/ (\E s \in Sessions : Launch(s)) /\ UNCHANGED <<quarantined, sweep>>
         \/ LaunchEnds /\ UNCHANGED <<quarantined, sweep>>
         \/ SweepBegins /\ UNCHANGED <<quarantined, launch>>
         \/ (SweepFails \/ SweepCancelled) /\ UNCHANGED <<quarantined, launch>>
         \/ SweepDone /\ UNCHANGED launch
  PROVE  ShellInv'
<1>0. /\ Listed(register) /\ ShellTyped /\ StartsFit /\ RemovesFit /\ LockFits /\ RoomFits
      /\ SeenFits /\ SweepFits
  BY DEF ShellInv
<1>1. Listed(register)' /\ Registered' = Registered
  BY <1>0 DEF Listed, Runs, Executions, Registered
<1>2. Len(register) \in Nat /\ MaxExecutions \in Nat /\ Registered \subseteq Runs
  BY <1>0, RegisteredIs, RegisterHasRoom DEF Listed
<1>n. (\E n \in 0..MaxStarted : InTurn(n))' BY <1>0 DEF StartsFit, InTurn, Runs, Executions
<1>s. SeenFits' BY <1>0, <1>1 DEF SeenFits, Runs, Executions
<1>3. CASE (\E s \in Sessions : Launch(s)) /\ UNCHANGED <<quarantined, sweep>>
  <2>1. PICK s \in Sessions :
             /\ s \notin quarantined /\ launch.at = "none" /\ sweep.at = "none"
             /\ launch' = IF Len(register) < MaxExecutions
                          THEN [at |-> "spawn", by |-> s, victim |-> 0]
                          ELSE [at |-> "prune", by |-> s, victim |-> PruneCandidate]
    BY <1>3 DEF Launch, Launch_Quarantined, SpawnLockFree
  <2>2. CASE Len(register) < MaxExecutions
    <3>1. launch' = [at |-> "spawn", by |-> s, victim |-> 0] BY <2>1, <2>2
    <3> QED BY <1>0, <1>1, <1>2, <1>n, <1>s, <1>3, <2>1, <2>2, <3>1
         DEF ShellInv, ShellTyped, StartsFit, RemovesFit, LockFits, RoomFits, SweepFits, Names, Runs,
             Executions
  <2>3. CASE ~(Len(register) < MaxExecutions)
    <3> DEFINE v == PruneCandidate
    <3>1. v \in Registered BY <1>0, <1>2, <2>3, CandidateIs
    <3>2. launch' = [at |-> "prune", by |-> s, victim |-> v] BY <2>1, <2>3
    <3> HIDE DEF v
    <3>3. v \in Runs /\ process[v] # "none" BY <1>0, <1>2, <3>1 DEF StartsFit
    <3>4. ShellTyped' /\ LockFits' /\ RoomFits' /\ RemovesFit' /\ SweepFits'
      BY <1>0, <1>1, <1>3, <2>1, <3>1, <3>2, <3>3
         DEF ShellTyped, RemovesFit, LockFits, RoomFits, SweepFits, Names, Runs, Executions
    <3>5. StartsFit' BY <1>0, <1>1, <1>n, <1>3, <3>2, <3>3 DEF StartsFit, Runs, Executions
    <3> QED BY <1>1, <1>s, <3>4, <3>5 DEF ShellInv
  <2> QED BY <2>2, <2>3
<1>4. CASE LaunchEnds /\ UNCHANGED <<quarantined, sweep>>
  <2>1. launch' = [at |-> "none", by |-> "nobody", victim |-> 0]
    BY <1>4 DEF LaunchEnds, NoLaunch, NoSession
  <2> QED BY <1>0, <1>1, <1>2, <1>n, <1>s, <1>4, <2>1
       DEF ShellInv, ShellTyped, StartsFit, RemovesFit, LockFits, RoomFits, SweepFits, Names, Runs,
           Executions
<1>5. CASE SweepBegins /\ UNCHANGED <<quarantined, launch>>
  <2>1. PICK s \in Names :
             sweep' = [at |-> "kill", by |-> s, next |-> 0, fails |-> FALSE,
                       todo |-> {e \in Registered : s \in {session[e], "nobody"}}]
    BY <1>5 DEF SweepBegins, NoSweep, NoSession, Names
  <2>2. launch.at = "none" /\ sweep.at = "none" BY <1>5 DEF SweepBegins, SpawnLockFree
  <2>3. sweep'.todo \subseteq Registered /\ sweep'.todo \in SUBSET Runs BY <1>2, <2>1
  <2>4. ShellTyped'
    BY <1>0, <1>5, <2>1, <2>3 DEF ShellTyped, Names, Runs, Executions
  <2>5. SweepFits'
    BY <1>0, <2>1 DEF SweepFits, SeenFits, Runs, Executions
  <2>6. StartsFit'
    BY <1>0, <1>1, <1>n, <1>5, <2>3 DEF StartsFit, Runs, Executions
  <2>7. RemovesFit' /\ LockFits' /\ RoomFits'
    BY <1>0, <1>1, <1>5, <2>1, <2>2 DEF RemovesFit, LockFits, RoomFits, Runs, Executions
  <2> QED BY <1>1, <1>s, <2>4, <2>5, <2>6, <2>7 DEF ShellInv
<1>6. CASE /\ UNCHANGED launch
           /\ \/ (SweepFails \/ SweepCancelled) /\ UNCHANGED quarantined
              \/ SweepDone
  <2>0. sweep \in [at : {"none", "kill", "drop"}, by : Names, todo : SUBSET Runs,
                   next : Runs \cup {0}, fails : BOOLEAN] BY <1>0 DEF ShellTyped
  <2>1. /\ sweep' \in [at : {"none", "kill", "drop"}, by : Names, todo : SUBSET Runs,
                       next : Runs \cup {0}, fails : BOOLEAN]
        /\ sweep'.todo \subseteq sweep.todo /\ sweep'.at # "drop"
        /\ sweep'.at = "none" \/ (sweep.at # "none" /\ sweep'.fails)
    <3>1. CASE SweepFails
      <4>1. CASE sweep.at = "kill" /\ \E e \in sweep.todo :
                   Alive(e) /\ sweep' = [sweep EXCEPT !.todo = @ \ {e}, !.fails = TRUE]
        <5>1. PICK e \in sweep.todo :
                sweep' = [at |-> sweep.at, by |-> sweep.by, todo |-> sweep.todo \ {e},
                          next |-> sweep.next, fails |-> TRUE] BY <4>1, <2>0
        <5> QED BY <4>1, <5>1, <2>0
      <4>2. CASE sweep.at = "drop" /\ sweep' = [sweep EXCEPT !.at = "kill", !.fails = TRUE]
        BY <4>2, <2>0
      <4> QED BY <3>1, <4>1, <4>2 DEF SweepFails
    <3>2. CASE SweepCancelled \/ SweepDone
      <4>1. sweep' = [at |-> "none", by |-> "nobody", todo |-> {}, next |-> 0, fails |-> FALSE]
        BY <3>2 DEF SweepCancelled, SweepDone, NoSweep, NoSession
      <4> QED BY <4>1 DEF Names
    <3> QED BY <1>6, <3>1, <3>2
  <2>2. /\ launch.at = "none" \/ sweep'.at = "none"
        /\ quarantined' \subseteq Sessions
        /\ launch.at # "none" => UNCHANGED quarantined
    <3>1. CASE SweepDone
      <4>1. sweep.at = "kill" /\ launch.at = "none" BY <3>1, <1>0 DEF SweepDone, LockFits
      <4>2. quarantined' \subseteq Sessions
        <5>1. \/ sweep.by # "nobody" /\ quarantined' = quarantined \cup {sweep.by}
              \/ quarantined' = quarantined \ {sweep.by}
          BY <3>1 DEF SweepDone, NoSession
        <5> QED BY <5>1, <1>0, <2>0 DEF ShellTyped, Names
      <4> QED BY <4>1, <4>2
    <3>2. CASE (SweepFails \/ SweepCancelled) /\ UNCHANGED quarantined
      BY <3>2, <1>0, <2>1 DEF LockFits, ShellTyped
    <3> QED BY <1>6, <3>1, <3>2
  <2>3. ShellTyped' BY <1>0, <1>6, <2>1, <2>2 DEF ShellTyped, Names, Runs, Executions
  <2>4. StartsFit' BY <1>0, <1>1, <1>n, <1>6, <2>1 DEF StartsFit, Runs, Executions
  <2>5. RemovesFit' /\ LockFits' /\ RoomFits' /\ SweepFits'
    BY <1>0, <1>1, <1>6, <2>1, <2>2
       DEF RemovesFit, LockFits, RoomFits, SweepFits, Runs, Executions
  <2> QED BY <1>1, <1>s, <2>3, <2>4, <2>5 DEF ShellInv
<1> QED BY <1>3, <1>4, <1>5, <1>6

\* A new execution has the next number, its entry and a call that waits for it.
LEMMA SpawnStep ==
  ASSUME ShellInv, Spawn, UNCHANGED <<failed, unended, quarantined, stopper, sweep>>
  PROVE  ShellInv'
<1>0. /\ Listed(register) /\ ShellTyped /\ StartsFit /\ RemovesFit /\ LockFits /\ RoomFits
      /\ SeenFits /\ SweepFits
  BY DEF ShellInv
<1> DEFINE e == Started + 1
<1>1. /\ launch.at = "spawn" /\ launch' = [at |-> "none", by |-> "nobody", victim |-> 0]
      /\ e \in Runs /\ register' = Append(register, e)
      /\ session' = [session EXCEPT ![e] = launch.by]
      /\ process' = [process EXCEPT ![e] = "alive"]
      /\ waiter' = [waiter EXCEPT ![e] = "waiting"]
  BY DEF Spawn, NoLaunch, NoSession, Runs
<1>2. PICK n \in 0..MaxStarted : InTurn(n) BY <1>0 DEF StartsFit
<1>3. e = n + 1 /\ n \in Nat /\ MaxStarted \in Nat BY <1>2, StartedIs, RegisterHasRoom
<1> HIDE DEF e
<1>4. process[e] = "none" /\ n + 1 \in 0..MaxStarted
  BY <1>0, <1>1, <1>2, <1>3 DEF InTurn, ShellTyped, Runs, Executions
<1>5. e \notin Registered /\ e \notin sweep.todo BY <1>0, <1>4 DEF StartsFit
<1>6. register \in Seq(Runs) /\ Len(register) \in Nat /\ MaxExecutions \in Nat
      /\ Registered = {register[i] : i \in 1..Len(register)} /\ Registered \subseteq Runs
  BY <1>0, RegisteredIs, RegisterHasRoom DEF Listed
<1>7. /\ register' \in Seq(Runs) /\ Len(register') = Len(register) + 1
      /\ register'[Len(register) + 1] = e /\ \A i \in 1..Len(register) : register'[i] = register[i]
  BY <1>1, <1>6, AppendProperties
<1>8. \A i \in 1..(Len(register) + 1) : i \in 1..Len(register) \/ i = Len(register) + 1 BY <1>6
<1>9. Listed(register')
  <2>1. \A i, j \in 1..Len(register) : register[i] = register[j] => i = j BY <1>0 DEF Listed
  <2>2. \A i \in 1..Len(register) : register[i] # e BY <1>5, <1>6
  <2>3. \A i, j \in 1..(Len(register) + 1) : register'[i] = register'[j] => i = j
    BY <2>1, <2>2, <1>7, <1>8
  <2> QED BY <2>3, <1>7 DEF Listed
<1>10. Registered' = Registered \cup {e}
  <2>1. Registered' = {register'[i] : i \in 1..Len(register')}
    BY <1>7, MembersAre DEF Registered
  <2>2. \A i \in 1..Len(register) : i \in 1..Len(register') BY <1>6, <1>7
  <2>3. Len(register) + 1 \in 1..Len(register') BY <1>6, <1>7
  <2> QED BY <2>1, <2>2, <2>3, <1>6, <1>7, <1>8
<1>11. sweep.at = "none" /\ sweep' = sweep BY <1>0, <1>1 DEF LockFits
<1>12. ShellTyped' BY <1>0, <1>1 DEF ShellTyped, Names, Runs, Executions
<1>13. StartsFit'
  <2>1. \A r \in Runs : process'[r] # "none" <=> (process[r] # "none" \/ r = e)
    BY <1>0, <1>1 DEF ShellTyped
  <2>2. InTurn(n + 1)'
    BY <2>1, <1>2, <1>3, <1>4 DEF InTurn, Runs, Executions
  <2>3. \A r \in Registered' \cup sweep'.todo : process'[r] # "none"
    <3>1. sweep.todo \subseteq Runs BY <1>0 DEF ShellTyped
    <3> QED BY <1>0, <1>1, <1>6, <1>10, <1>11, <2>1, <3>1 DEF StartsFit
  <2>4. \A r \in Runs : waiter'[r] # "none" \/ stopper'[r] # "none" => process'[r] # "none"
    BY <1>0, <1>1, <2>1 DEF StartsFit, ShellTyped
  <2> QED BY <1>1, <1>4, <2>2, <2>3, <2>4 DEF StartsFit, Runs, Executions
<1>14. RemovesFit'
  BY <1>0, <1>1, <1>4, <1>11 DEF RemovesFit, ShellTyped, Runs, Executions
<1>15. LockFits' /\ RoomFits'
  BY <1>0, <1>1, <1>6, <1>7, <1>11 DEF LockFits, RoomFits
<1>16. SeenFits' BY <1>0, <1>1, <1>10 DEF SeenFits, ShellTyped, Runs, Executions
<1>17. SweepFits' BY <1>11 DEF SweepFits
<1> QED BY <1>9, <1>12, <1>13, <1>14, <1>15, <1>16, <1>17 DEF ShellInv, Listed, Runs, Executions

\* A call looks at the register or gives up, without ending anything.
LEMMA CallMoves ==
  ASSUME ShellInv, UNCHANGED <<process, session, unended, quarantined, launch, sweep>>,
         NEW e \in Runs,
         \/ (WriteStdin(e) \/ WaitEnds(e)) /\ UNCHANGED <<failed, stopper>>
         \/ WaitCut(e) /\ UNCHANGED <<register, failed, stopper>>
         \/ Stop(e) /\ UNCHANGED <<failed, waiter>>
         \/ StopFails(e) /\ UNCHANGED <<register, failed, waiter>>
         \/ TimeoutFails(e) /\ UNCHANGED <<register, waiter, stopper>>
  PROVE  ShellInv'
<1>0. /\ Listed(register) /\ ShellTyped /\ StartsFit /\ RemovesFit /\ LockFits /\ RoomFits
      /\ SeenFits /\ SweepFits
  BY DEF ShellInv
<1>1. UNCHANGED register \/ register' = Used(e)
  BY DEF WriteStdin, WaitEnds, Stop
<1>2. Listed(register)' /\ Registered' = Registered /\ Len(register') = Len(register)
  <2>1. CASE register' = Used(e)
    BY <2>1, Reordered DEF Listed, Runs, Executions
  <2>2. CASE UNCHANGED register
    BY <2>2, <1>0 DEF Listed, Runs, Executions, Registered
  <2> QED BY <1>1, <2>1, <2>2
<1>3. /\ failed \subseteq failed' /\ failed' \subseteq Runs
      /\ waiter' \in [Runs -> {"none", "waiting", "removing"}]
      /\ stopper' \in [Runs -> {"none", "kill", "drop"}]
      /\ \A r \in Runs : stopper'[r] = "drop" => stopper[r] = "drop"
      /\ \A r \in Runs : waiter'[r] = "removing" /\ waiter[r] # "removing" =>
           process[r] = "dead" \/ r \in failed
      /\ \A r \in Runs : waiter'[r] # "none" \/ stopper'[r] # "none" => process[r] # "none"
  <2>0. e \in Registered => process[e] # "none" BY <1>0 DEF StartsFit
  <2>1. CASE WriteStdin(e) /\ UNCHANGED <<failed, stopper>>
    BY <2>0, <2>1, <1>0 DEF WriteStdin, ShellTyped, StartsFit
  <2>2. CASE WaitEnds(e) /\ UNCHANGED <<failed, stopper>>
    <3>1. waiter[e] = "waiting" /\ process[e] \in {"alive", "dead"}
      BY <2>2, <1>0 DEF WaitEnds, ShellTyped, StartsFit
    <3>2. \/ waiter' = [waiter EXCEPT ![e] = "none"]
          \/ /\ waiter' = [waiter EXCEPT ![e] = "removing"]
             /\ process[e] = "dead" \/ e \in failed
      BY <2>2, <3>1 DEF WaitEnds, Alive
    <3> QED BY <2>2, <3>1, <3>2, <1>0 DEF ShellTyped, StartsFit
  <2>3. CASE WaitCut(e) /\ UNCHANGED <<register, failed, stopper>>
    BY <2>3, <1>0 DEF WaitCut, ShellTyped, StartsFit
  <2>4. CASE Stop(e) /\ UNCHANGED <<failed, waiter>>
    BY <2>0, <2>4, <1>0 DEF Stop, ShellTyped, StartsFit
  <2>5. CASE StopFails(e) /\ UNCHANGED <<register, failed, waiter>>
    BY <2>5, <1>0 DEF StopFails, ShellTyped, StartsFit
  <2>6. CASE TimeoutFails(e) /\ UNCHANGED <<register, waiter, stopper>>
    BY <2>6, <1>0 DEF TimeoutFails, ShellTyped, StartsFit
  <2> QED BY <2>1, <2>2, <2>3, <2>4, <2>5, <2>6
<1>4. ShellTyped' BY <1>0, <1>3 DEF ShellTyped, Names, Runs, Executions
<1>5. StartsFit' BY <1>0, <1>2, <1>3 DEF StartsFit, InTurn, Runs, Executions
<1>6. RemovesFit' BY <1>0, <1>3 DEF RemovesFit, Runs, Executions
<1>7. LockFits' /\ RoomFits' BY <1>0, <1>2 DEF LockFits, RoomFits
<1>8. SeenFits' /\ SweepFits' BY <1>0, <1>2 DEF SeenFits, SweepFits, Runs, Executions
<1> QED BY <1>2, <1>4, <1>5, <1>6, <1>7, <1>8 DEF ShellInv

\* Every step of the shell executions.
LEMMA ShellSteps ==
  ASSUME ShellInv, ExecNext
  PROVE  ShellInv'
<1> USE DEF owned
<1>0. ShellTyped /\ StartsFit /\ RemovesFit BY DEF ShellInv
<1>1. CASE \/ /\ LaunchEnds \/ \E s \in Sessions : Launch(s)
              /\ UNCHANGED <<register, process, owned, waiter, stopper, sweep>>
           \/ /\ SweepBegins \/ SweepFails \/ SweepCancelled
              /\ UNCHANGED <<register, process, owned, waiter, stopper, launch>>
           \/ /\ SweepDone
              /\ UNCHANGED <<register, session, process, failed, unended, waiter, stopper, launch>>
  BY <1>1, LockMoves
<1>2. CASE /\ PruneKills
           /\ UNCHANGED <<register, session, failed, quarantined, waiter, stopper, sweep>>
  BY <1>0, <1>2, ProcessDies DEF PruneKills, StartsFit
<1>3. CASE PruneDrops /\ UNCHANGED <<process, session, unended, quarantined, waiter, stopper,
                                     sweep>>
  <2>1. launch.victim \in Runs /\ process[launch.victim] = "dead" /\ launch.at = "drop"
        /\ Deregister(launch.victim) /\ launch' = [launch EXCEPT !.at = "spawn"]
    BY <1>0, <1>3 DEF PruneDrops, StartsFit, RemovesFit
  <2> QED BY <1>0, <1>3, <2>1, EntryGoes DEF ShellTyped
<1>4. CASE Spawn /\ UNCHANGED <<failed, unended, quarantined, stopper, sweep>>
  BY <1>4, SpawnStep
<1>5. CASE /\ SweepKills
           /\ UNCHANGED <<register, session, failed, quarantined, waiter, stopper, launch>>
  <2>1. PICK e \in sweep.todo : Confirmed(e) /\ sweep.at = "kill"
               /\ sweep' = [sweep EXCEPT !.at = "drop", !.todo = @ \ {e}, !.next = e]
    BY <1>5 DEF SweepKills
  <2>2. e \in Runs /\ process[e] # "none" BY <1>0 DEF ShellTyped, StartsFit
  <2> QED BY <1>5, <2>1, <2>2, ProcessDies
<1>6. CASE SweepDrops /\ UNCHANGED <<process, session, unended, quarantined, waiter, stopper,
                                     launch>>
  <2>1. sweep.next \in Runs /\ process[sweep.next] = "dead" /\ sweep.at = "drop"
        /\ Deregister(sweep.next) /\ sweep' = [sweep EXCEPT !.at = "kill"]
    BY <1>0, <1>6 DEF SweepDrops, RemovesFit
  <2> QED BY <1>0, <1>6, <2>1, EntryGoes DEF ShellTyped
<1>7. ASSUME NEW e \in Runs,
             \/ /\ ProcessEnds(e)
                /\ UNCHANGED <<register, session, failed, quarantined, waiter, stopper, launch,
                               sweep>>
             \/ /\ StopKills(e)
                /\ UNCHANGED <<register, session, failed, quarantined, waiter, launch, sweep>>
      PROVE  ShellInv'
  <2>1. Confirmed(e) /\ process[e] # "none"
        /\ (UNCHANGED stopper \/ stopper' = [stopper EXCEPT ![e] = "drop"])
    BY <1>0, <1>7 DEF ProcessEnds, StopKills, Alive, StartsFit
  <2> QED BY <1>7, <2>1, ProcessDies
<1>8. ASSUME NEW e \in Runs, WaiterRemoves(e),
             UNCHANGED <<session, process, quarantined, stopper, launch, sweep>>
      PROVE  ShellInv'
  <2>1. /\ waiter[e] = "removing" /\ Deregister(e) /\ waiter' = [waiter EXCEPT ![e] = "none"]
        /\ unended' = unended \cup {x \in failed \cap {e} : Alive(x)}
    BY <1>8 DEF WaiterRemoves
  <2>2. process[e] = "dead" \/ e \in unended'
    BY <1>0, <2>1 DEF RemovesFit, StartsFit, ShellTyped, Alive
  <2>3. unended \subseteq unended' /\ unended' \subseteq Runs BY <1>0, <2>1 DEF ShellTyped
  <2> QED BY <1>0, <1>8, <2>1, <2>2, <2>3, EntryGoes DEF ShellTyped
<1>9. ASSUME NEW e \in Runs, StopDrops(e),
             UNCHANGED <<process, session, unended, quarantined, waiter, launch, sweep>>
      PROVE  ShellInv'
  <2>1. stopper[e] = "drop" /\ Deregister(e) /\ stopper' = [stopper EXCEPT ![e] = "none"]
    BY <1>9 DEF StopDrops
  <2>2. process[e] = "dead" BY <1>0, <2>1 DEF RemovesFit
  <2> QED BY <1>0, <1>9, <2>1, <2>2, EntryGoes DEF ShellTyped
<1>10. ASSUME NEW e \in Runs, UNCHANGED <<process, session, unended, quarantined, launch, sweep>>,
              \/ (WriteStdin(e) \/ WaitEnds(e)) /\ UNCHANGED <<failed, stopper>>
              \/ WaitCut(e) /\ UNCHANGED <<register, failed, stopper>>
              \/ Stop(e) /\ UNCHANGED <<failed, waiter>>
              \/ StopFails(e) /\ UNCHANGED <<register, failed, waiter>>
              \/ TimeoutFails(e) /\ UNCHANGED <<register, waiter, stopper>>
       PROVE  ShellInv'
  BY <1>10, CallMoves
<1> QED
  BY <1>1, <1>2, <1>3, <1>4, <1>5, <1>6, <1>7, <1>8, <1>9, <1>10 DEF ExecNext, Runs

\* The rest of the services leave the executions alone.
LEMMA ShellRests ==
  ASSUME ShellInv, UNCHANGED execVars
  PROVE  ShellInv'
<1>u. UNCHANGED <<register, session, process, failed, unended, waiter, stopper, quarantined, launch,
                  sweep>>
  BY DEF execVars
<1>0. /\ Listed(register) /\ ShellTyped /\ StartsFit /\ RemovesFit /\ LockFits /\ RoomFits
      /\ SeenFits /\ SweepFits
  BY DEF ShellInv
<1>1. Listed(register)' /\ Registered' = Registered
  BY <1>u, <1>0 DEF Listed, Runs, Executions, Registered
<1>2. ShellTyped' BY <1>u, <1>0 DEF ShellTyped, Names, Runs, Executions
<1>3. StartsFit' BY <1>u, <1>0, <1>1 DEF StartsFit, InTurn, Runs, Executions
<1>4. RemovesFit' /\ LockFits' /\ RoomFits'
  BY <1>u, <1>0, <1>1 DEF RemovesFit, LockFits, RoomFits, Runs, Executions
<1>5. SeenFits' /\ SweepFits' BY <1>u, <1>0, <1>1 DEF SeenFits, SweepFits, Runs, Executions
<1> QED BY <1>1, <1>2, <1>3, <1>4, <1>5 DEF ShellInv

\* For any sessions, calls and size of the register, what each call has seen of the process it
\* is about to forget, and the room that a launch was given, still hold when it goes on.
THEOREM ShellInvariant == ExecSpec => []ShellInv
<1>1. ExecInit => ShellInv BY ShellFirst
<1>2. ShellInv /\ [ExecNext]_execVars => ShellInv' BY ShellSteps, ShellRests
<1> QED BY <1>1, <1>2, PTL DEF ExecSpec

\* What a step may do to the owners of executions.
OwnersAdmitted ==
  \A e \in Runs : session[e] = "nobody" /\ session'[e] # "nobody" => session'[e] \notin quarantined

\* Only a start gives an execution an owner, the one that holds the lock.
LEMMA StartsAdmitted ==
  ASSUME ShellInv, ExecNext
  PROVE  OwnersAdmitted
<1>1. CASE UNCHANGED session BY <1>1 DEF OwnersAdmitted
<1>2. CASE Spawn
  <2>1. launch.by \notin quarantined /\ session \in [Runs -> Names]
    BY <1>2 DEF Spawn, ShellInv, LockFits, ShellTyped
  <2>2. \A e \in Runs : session'[e] # session[e] => session'[e] = launch.by
    BY <1>2, <2>1 DEF Spawn, Runs
  <2> QED BY <2>1, <2>2 DEF OwnersAdmitted
<1> QED BY <1>1, <1>2 DEF ExecNext, owned

\* A list without repetitions has as many members as positions.
LEMMA ListedCount ==
  ASSUME Listed(register)
  PROVE  Cardinality(Registered) = Len(register)
<1> DEFINE n == Len(register)
           f == [i \in 1..n |-> register[i]]
<1>1. n \in Nat /\ Registered = {register[i] : i \in 1..n} BY RegisteredIs DEF Listed
<1>2. \A i, j \in 1..n : register[i] = register[j] => i = j BY DEF Listed
<1> HIDE DEF n
<1>3. f \in Bijection(1..n, Registered)
  BY <1>1, <1>2 DEF Bijection, Injection, Surjection, IsInjective
<1>4. ExistsBijection(1..n, Registered) BY <1>3 DEF ExistsBijection
<1>5. IsFiniteSet(1..n) /\ Cardinality(1..n) = n BY <1>1, FS_Interval
<1> QED BY <1>4, <1>5, FS_Bijection DEF n

\* The invariant gives the promises of the executions.
LEMMA ShellPromises ==
  ASSUME ShellInv
  PROVE  ExecTypeOK /\ RoomIsKept /\ NothingRunsUnseen /\ CleanMeansClean
<1>0. Listed(register) /\ ShellTyped /\ RoomFits /\ SeenFits /\ SweepFits BY DEF ShellInv
<1>1. Cardinality(Registered) = Len(register) BY <1>0, ListedCount
<1>2. ExecTypeOK
  BY <1>0, <1>1 DEF ExecTypeOK, ShellTyped, Listed, Runs, Names, NoSession
<1>3. RoomIsKept BY <1>0 DEF RoomIsKept, RoomFits
<1>4. NothingRunsUnseen BY <1>0 DEF NothingRunsUnseen, SeenFits, Alive, Runs
<1>5. CleanMeansClean
  BY <1>0 DEF CleanMeansClean, SweepFits, Alive, Runs, NoSession
<1> QED BY <1>2, <1>3, <1>4, <1>5

\* For any limits, sessions and calls: there is room for each start whoever removes entries
\* meanwhile, nothing runs that neither has an entry nor was reported to its owner, a
\* cleanup without failure left nothing running, and an owner whose cleanup is not
\* confirmed starts nothing (CommandsStayOwned; unified_exec.py).
THEOREM CommandsStayWithOwners == ExecSpec => CommandsStayOwned
<1>1. ShellInv => ExecTypeOK /\ RoomIsKept /\ NothingRunsUnseen /\ CleanMeansClean
  BY ShellPromises
<1>2. ShellInv /\ [ExecNext]_execVars => [OwnersAdmitted]_execVars BY StartsAdmitted
<1>3. [OwnersAdmitted]_execVars =>
        [\A e \in Executions :
           session[e] = NoSession /\ session'[e] # NoSession
             => session'[e] \notin quarantined]_execVars
  BY DEF OwnersAdmitted, execVars, NoSession, Runs
<1> QED
  BY <1>1, <1>2, <1>3, ShellInvariant, PTL DEF ExecSpec, CommandsStayOwned, QuarantineHolds
----------------------------------------------------------------------------
(* The rollout of a plugin *)

\* The steps of a call that stages a candidate, tries to promote one, or drops one.
Stages == {"load", "publish", "validate", "open"}
Promotes == {"seal", "promote", "point", "commit"}
Drops == {"restore", "leases"}
CallSteps == {"idle", "manifest", "found", "abort", "unpoint", "track", "deactivate", "drain"}
               \cup Stages \cup Promotes \cup Drops
OpSteps == {"none", "open", "switch", "cancel", "clean", "disable", "drain", "remove", "forget"}
Askers == Operators \cup {"nobody", "install", "watcher", "resolve", "revert"}
Someone == Owners \cup {"nobody"}
LockCalls == [at : CallSteps, who : Askers, owner : Someone, cut : BOOLEAN]
Operations(n) == [at : OpSteps, owner : Someone, kind : {"install", "uninstall"}, tx : 0..n,
                  evidence : BOOLEAN]
Facts == [says : {"nothing", "kept", "failed", "switched", "removed", "committed"}, tx : 0..MaxTx]
Entries == [rev : Revs, base : Revs, phase : Phases]
Base(tx) == journal[tx].base

\* The types.
RolloutTyped ==
  /\ disk \in [stable : Revs, latest : Revs] /\ manifest \in {"absent", "on", "off"}
  /\ journal \in Seq(Entries) /\ Len(journal) <= MaxTx
  /\ fact \in Facts
  /\ up \in {"up", "down", "refused"} /\ serving \in Revs
  /\ ready \in [tx : 0..Len(journal), prev : Revs]
  /\ proc \in LockCalls /\ op \in Operations(Len(journal))
  /\ reverting \in BOOLEAN /\ stage \in [Owners -> {"new", "running", "over"}]
  /\ child \in [tx : 0..Len(journal), owner : Someone] /\ deaths \in 0..MaxDeaths

\* A process that does not run remembers nothing.
MemoryFits == up # "up" => ready = NoReady /\ proc = NoProc /\ op = NoOp /\ serving = 0

\* At most one transaction is neither promoted nor given up, and it has somebody.
Blocked(tx) == Phase(tx) \in Blocking
NoneBlocked == \A tx \in Txs : ~Blocked(tx)
CandidateFits ==
  /\ \A tx, other \in Txs : Blocked(tx) /\ Blocked(other) => tx = other
  /\ up = "up" => \A tx \in Txs : Blocked(tx) =>
                    tx = ready.tx \/ (tx = Newest /\ proc.at \in Stages \cup {"abort"})

\* What the pointers are while there is a candidate, the process running or not.
PointersFit ==
  \A tx \in Txs : Blocked(tx) =>
    \/ disk \in {Pair(Base(tx), Rev(tx)), Pair(Base(tx), Base(tx))}
    \/ disk = Pair(Rev(tx), Rev(tx)) /\ Phase(tx) \in {"promoting", "discarding"}

\* Staging goes through the phases one by one, over the pointers it found.
StagePhase == [load |-> "preparing", publish |-> "prepared", validate |-> "validating",
               open |-> "commit_started"]
StagingFits ==
  /\ proc.at \in {"manifest", "found"} => ready.tx = 0 /\ Newest < MaxTx /\ NoneBlocked
  /\ proc.at = "manifest" => proc.who = "install"
  /\ proc.at \in Stages =>
       /\ ready.tx = 0 /\ Newest > 0 /\ Phase(Newest) = StagePhase[proc.at]
       /\ disk = Pair(Base(Newest), Rev(Newest))
  /\ proc.at = "abort" =>
       /\ ready.tx = 0 /\ Newest > 0 /\ Phase(Newest) \in {"prepared", "validating", "commit_started"}
       /\ disk = Pair(Base(Newest), Base(Newest))
  /\ proc.at = "unpoint" => ready.tx = 0

\* A transaction is left committed only until the call that committed it goes on.
IsCommitted(tx) == Phase(tx) = "committed"
TrackFits ==
  up = "up" =>
    /\ \A tx, other \in Txs : IsCommitted(tx) /\ IsCommitted(other) => tx = other
    /\ proc.at = "track" <=> \E tx \in Txs : IsCommitted(tx)
    /\ proc.at = "track" =>
         /\ ready.tx = 0
         /\ \A tx \in Txs : IsCommitted(tx) => disk = Pair(Rev(tx), Rev(tx)) /\ serving = Rev(tx)

\* The ready candidate: what the pointers are follows from how far its promotion or
\* its dropping is.
ReadyPointersFit ==
  \/ disk = Pair(Base(ready.tx), Candidate)
  \/ /\ Base(ready.tx) = ready.prev /\ disk = Pair(Candidate, Candidate)
     /\ Phase(ready.tx) \in {"promoting", "discarding"}
  \/ Base(ready.tx) = ready.prev /\ disk = Pair(ready.prev, ready.prev) /\ proc.at = "leases"
ReadyFits ==
  ready.tx # 0 =>
     /\ Phase(ready.tx) \in {"latest_ready", "promoting", "discarding"}
     /\ Candidate # Base(ready.tx) /\ serving = ready.prev
     /\ serving # 0 => Base(ready.tx) = serving
     /\ ReadyPointersFit
     /\ Phase(ready.tx) = "discarding" => proc.at \in Drops \/ ~Restorable
     /\ proc.at \in Drops => Phase(ready.tx) = "discarding"
     /\ proc.at = "leases" => disk = Pair(ready.prev, ready.prev) /\ Base(ready.tx) = ready.prev
     /\ proc.at = "point" => Phase(ready.tx) # "latest_ready"
     /\ proc.at = "commit" => Phase(ready.tx) = "promoting" /\ disk = Pair(Candidate, Candidate)

\* What the call at work may rely on.
CallFits ==
  /\ proc.at \in Promotes \cup Drops => ready.tx # 0
  /\ proc.at \in Promotes => proc.who \in Operators \cup {"resolve"}
  /\ proc.at \in Promotes /\ proc.who = "resolve" => op.at = "switch"
  /\ proc.at \in {"deactivate", "drain"} => ready.tx = 0 /\ op.at = "drain"
  /\ proc.at = "drain" => serving = 0
  /\ ready.tx = 0 => ready = NoReady /\ (serving # 0 => disk.stable = serving)

\* What the operation of a turn may rely on: its candidate is the one that is ready, or
\* there will be none before it ends.
OperationFits ==
  /\ proc.who = "install" => op.at = "none" /\ (proc.at # "manifest" => manifest = "on")
  /\ op.at = "switch" => op.kind = "install" /\ op.evidence
  /\ op.at \in {"open", "switch"} /\ op.kind = "install" =>
       /\ manifest = "on"
       /\ \/ op.tx = ready.tx /\ ready.tx # 0
          \/ ready.tx = 0 /\ proc.at \in {"idle", "track"} /\ disk.latest \in {0, serving}
  /\ op.at = "drain" => manifest = "off"
  /\ op.at \in {"remove", "forget"} =>
       proc.at = "idle" /\ ready.tx = 0 /\ manifest = "off" /\ serving = 0
  /\ op.at = "forget" => disk = Pair(0, 0)

RolloutInv ==
  /\ RolloutTyped /\ MemoryFits /\ CandidateFits /\ PointersFit /\ StagingFits /\ TrackFits
  /\ ReadyFits /\ CallFits /\ OperationFits

\* The phases, and those without a successor.
LEMMA PhasesAre ==
  /\ Phases = {"preparing", "prepared", "validating", "commit_started", "latest_ready", "discarding",
               "promoting", "committed", "draining", "complete", "aborted", "recovered"}
  /\ Terminal = {"complete", "aborted", "recovered"}
  /\ Blocking = {"preparing", "prepared", "validating", "latest_ready", "discarding",
                 "commit_started", "promoting"}
<1>1. Phases = {"preparing", "prepared", "validating", "commit_started", "latest_ready", "discarding",
                "promoting", "committed", "draining", "complete", "aborted", "recovered"}
  BY DEF Phases, Transitions
<1>2. Terminal = {"complete", "aborted", "recovered"}
  BY <1>1 DEF Terminal, Transitions
<1> QED BY <1>1, <1>2 DEF Blocking, DiscardPhases

\* The values that calls, operations and facts take.
LEMMA RecordsAre ==
  ASSUME RolloutTyped
  PROVE  /\ Len(journal) \in Nat /\ MaxTx \in Nat /\ MaxRev \in Nat \ {0} /\ MaxDeaths \in Nat
         /\ NoOp \in Operations(Len(journal))
         /\ \A s \in OpSteps : [op EXCEPT !.at = s] \in Operations(Len(journal))
         /\ NoProc \in LockCalls
         /\ \A s \in CallSteps : [proc EXCEPT !.at = s] \in LockCalls
         /\ \A s \in CallSteps, a \in Askers : [NoProc EXCEPT !.at = s, !.who = a] \in LockCalls
<1>1. /\ Len(journal) \in Nat /\ MaxTx \in Nat /\ MaxRev \in Nat \ {0} /\ MaxDeaths \in Nat
  BY RolloutIsBounded DEF RolloutTyped
<1>2. NoOp \in Operations(Len(journal)) BY <1>1 DEF NoOp, Operations, OpSteps, Someone
<1>3. \A s \in OpSteps : [op EXCEPT !.at = s] \in Operations(Len(journal))
  BY DEF RolloutTyped, Operations
<1>4. NoProc \in LockCalls BY DEF NoProc, LockCalls, CallSteps, Askers, Someone
<1>5. \A s \in CallSteps : [proc EXCEPT !.at = s] \in LockCalls BY DEF RolloutTyped, LockCalls
<1>6. \A s \in CallSteps, a \in Askers : [NoProc EXCEPT !.at = s, !.who = a] \in LockCalls
  BY <1>4 DEF LockCalls
<1> QED BY <1>1, <1>2, <1>3, <1>4, <1>5, <1>6

\* The journal after a transaction moved to a phase.
Moved(tx, phase) ==
  /\ journal' \in Seq(Entries) /\ Len(journal') = Len(journal)
  /\ \A u \in Txs :
       /\ journal'[u].rev = journal[u].rev /\ journal'[u].base = journal[u].base
       /\ journal'[u].phase = IF u = tx THEN phase ELSE journal[u].phase
LEMMA Advance ==
  ASSUME journal \in Seq(Entries), NEW tx \in Txs, NEW phase \in Phases, journal' = Advanced(tx, phase)
  PROVE  Moved(tx, phase)
<1>1. Len(journal) \in Nat /\ \A u \in Txs : journal[u] \in Entries BY DEF Txs
<1>2. journal' = [journal EXCEPT ![tx] = [journal[tx] EXCEPT !.phase = phase]] BY DEF Advanced
<1>3. [journal[tx] EXCEPT !.phase = phase] \in Entries BY <1>1 DEF Entries
<1>4. journal' \in Seq(Entries) /\ Len(journal') = Len(journal)
  BY <1>2, <1>3, ExceptSeq DEF Txs
<1>5. \A u \in Txs : journal'[u] = IF u = tx THEN [journal[tx] EXCEPT !.phase = phase] ELSE journal[u]
  BY <1>2 DEF Txs
<1> QED BY <1>1, <1>4, <1>5 DEF Moved, Entries

\* At first there is nothing but, perhaps, the installed version.
LEMMA RolloutFirst ==
  ASSUME RolloutInit
  PROVE  RolloutInv
<1> USE DEF RolloutInit, NoReady, NoProc, NoOp, NoChild, NoFact, Revs, Txs
<1>0. MaxRev \in Nat \ {0} /\ MaxTx \in Nat /\ MaxDeaths \in Nat BY RolloutIsBounded
<1>1. journal \in Seq(Entries) /\ Len(journal) = 0 OBVIOUS
<1>2. RolloutTyped
  <2>1. proc \in LockCalls BY DEF LockCalls, CallSteps, Askers, Someone
  <2>2. op \in Operations(Len(journal)) BY <1>1 DEF Operations, OpSteps, Someone
  <2>3. fact \in Facts BY <1>0 DEF Facts
  <2>4. disk \in [stable : Revs, latest : Revs] /\ serving \in Revs BY <1>0
  <2>5. ready \in [tx : 0..Len(journal), prev : Revs] BY <1>0, <1>1
  <2>6. child \in [tx : 0..Len(journal), owner : Someone] BY <1>1 DEF Someone
  <2>7. /\ manifest \in {"absent", "on", "off"} /\ up = "up" /\ reverting \in BOOLEAN
        /\ stage \in [Owners -> {"new", "running", "over"}]
    OBVIOUS
  <2>8. deaths \in 0..MaxDeaths /\ Len(journal) <= MaxTx BY <1>0, <1>1
  <2> QED BY <1>1, <2>1, <2>2, <2>3, <2>4, <2>5, <2>6, <2>7, <2>8 DEF RolloutTyped
<1>3. /\ MemoryFits /\ CandidateFits /\ PointersFit /\ StagingFits /\ TrackFits /\ ReadyFits
      /\ CallFits /\ OperationFits
  BY <1>1 DEF MemoryFits, CandidateFits, PointersFit, StagingFits, TrackFits, ReadyFits, CallFits,
              OperationFits, Stages, Promotes, Drops
<1> QED BY <1>2, <1>3 DEF RolloutInv

\* The call that has the lock stays where it is, or ends where it may.
MayEnd ==
  /\ proc.at \notin Stages \cup {"abort", "track", "leases"}
  /\ ready.tx # 0 /\ Phase(ready.tx) = "discarding" => ~Restorable
Stays ==
  /\ UNCHANGED <<disk, journal, up, serving, ready>>
  /\ \/ proc'.at = proc.at /\ proc'.who = proc.who
     \/ proc' = NoProc /\ MayEnd

\* A step that leaves the versions alone keeps what is known of them.
LEMMA VersionsStay ==
  ASSUME RolloutInv, Stays
  PROVE  CandidateFits' /\ PointersFit' /\ StagingFits' /\ TrackFits' /\ ReadyFits'
<1> USE DEF Stays, RolloutInv, Txs, Phase, Newest
<1>1. proc'.at = proc.at \/ (proc'.at = "idle" /\ proc'.who = "nobody" /\ MayEnd)
  BY DEF NoProc
<1>2. CandidateFits' BY <1>1 DEF CandidateFits, Blocked, MayEnd
<1>3. PointersFit' BY DEF PointersFit, Blocked, Base, Rev, Pair
<1>4. StagingFits'
  <2>1. CASE proc'.at = proc.at /\ proc'.who = proc.who
    BY <2>1 DEF StagingFits, NoneBlocked, Blocked, Base, Rev, Pair, StagePhase
  <2>2. CASE proc'.at = "idle" BY <2>2 DEF StagingFits, Stages
  <2> QED BY <2>1, <2>2 DEF NoProc
<1>5. TrackFits' BY <1>1 DEF TrackFits, IsCommitted, Rev, Pair, MayEnd
<1>6. ReadyFits'
  <2>1. CASE proc'.at = proc.at
    BY <2>1 DEF ReadyFits, ReadyPointersFit, Base, Candidate, Restorable, Promotable, Pair
  <2>2. CASE proc'.at = "idle" /\ MayEnd
    BY <2>2 DEF ReadyFits, ReadyPointersFit, Base, Candidate, Restorable, Promotable, Pair,
                MayEnd, Drops
  <2> QED BY <1>1, <2>1, <2>2
<1> QED BY <1>2, <1>3, <1>4, <1>5, <1>6
----------------------------------------------------------------------------
(* Turns and their operations *)

\* What a turn does while the call that has the lock rests.
LEMMA TurnsKeep ==
  ASSUME RolloutInv,
         \/ \E t \in Owners : StartTurn(t) \/ Uninstall(t) \/ Revert(t) \/ StartChild(t) \/ EndTurn(t)
         \/ EndChild \/ CutInstall
  PROVE  RolloutInv'
<1> USE DEF RolloutInv
<1>0. Len(journal) \in Nat /\ MaxTx \in Nat BY RecordsAre
<1>1. /\ Stays /\ UNCHANGED <<manifest, deaths>> /\ up = "up"
      /\ proc'.at = proc.at /\ proc'.who = proc.who /\ proc'.owner = proc.owner /\ proc'.cut \in BOOLEAN
      /\ proc' \in LockCalls
  BY DEF StartTurn, Uninstall, Revert, StartChild, EndTurn, EndChild, CutInstall, Stays,
         RolloutTyped, LockCalls
<1>2. \/ op' = op \/ (op.at = "open" /\ op' = NoOp)
      \/ op.at = "none" /\ proc.who # "install" /\ op'.at = "open" /\ op'.kind = "uninstall"
      \/ op.at = "open" /\ op' = [op EXCEPT !.evidence = TRUE]
      \/ op.at = "open" /\ op.kind = "install" /\ op.evidence /\ op' = [op EXCEPT !.at = "switch"]
      \/ op.at = "open" /\ op' = [op EXCEPT !.at = "cancel"]
      \/ op.at = "open" /\ op' = [op EXCEPT !.at = "disable"]
  <2>1. CASE \E t \in Owners : EndTurn(t) BY <2>1 DEF EndTurn, Sealed, Resolution
  <2>2. CASE \E t \in Owners : Uninstall(t) BY <2>2 DEF Uninstall, NoOp
  <2>3. CASE EndChild BY <2>3 DEF EndChild, Attested
  <2>4. CASE (\E t \in Owners : StartTurn(t) \/ Revert(t) \/ StartChild(t)) \/ CutInstall
    BY <2>4 DEF StartTurn, Revert, StartChild, CutInstall
  <2> QED BY <2>1, <2>2, <2>3, <2>4
<1>3. RolloutTyped'
  <2>1. op' \in Operations(Len(journal))
    <3>1. ASSUME NEW t \in Owners, Uninstall(t) PROVE op' \in Operations(Len(journal))
      <4>1. op' = [NoOp EXCEPT !.at = "open", !.owner = t, !.kind = "uninstall"] BY <3>1 DEF Uninstall
      <4>2. NoOp \in Operations(Len(journal)) /\ t \in Someone BY RecordsAre DEF Someone
      <4> QED BY <4>1, <4>2 DEF Operations, OpSteps
    <3>2. CASE ~\E t \in Owners : Uninstall(t)
      <4>1. \/ op' = op \/ op' = NoOp
            \/ op' = [op EXCEPT !.evidence = TRUE]
            \/ \E at \in OpSteps : op' = [op EXCEPT !.at = at]
        BY <3>2 DEF StartTurn, Revert, StartChild, EndTurn, EndChild, CutInstall, Sealed,
                    Resolution, OpSteps
      <4>2. [op EXCEPT !.evidence = TRUE] \in Operations(Len(journal)) BY DEF Operations, RolloutTyped
      <4>3. \A at \in OpSteps : [op EXCEPT !.at = at] \in Operations(Len(journal))
        BY DEF Operations, RolloutTyped
      <4>4. op \in Operations(Len(journal)) BY DEF RolloutTyped
      <4>5. NoOp \in Operations(Len(journal)) BY RecordsAre
      <4> HIDE DEF RolloutInv
      <4> QED BY <4>1, <4>2, <4>3, <4>4, <4>5
    <3> QED BY <3>1, <3>2
  <2>2. stage' \in [Owners -> {"new", "running", "over"}]
    BY DEF StartTurn, Uninstall, Revert, StartChild, EndTurn, EndChild, CutInstall, RolloutTyped
  <2>3. fact' \in {fact, NoFact} /\ reverting' \in BOOLEAN
    BY DEF StartTurn, Uninstall, Revert, StartChild, EndTurn, EndChild, CutInstall, RolloutTyped
  <2>4. child' \in [tx : 0..Len(journal), owner : Someone]
    <3>1. \/ child' = child \/ child' = NoChild
          \/ \E t \in Owners : child' = [tx |-> op.tx, owner |-> t]
      BY DEF StartTurn, Uninstall, Revert, StartChild, EndTurn, EndChild, CutInstall
    <3>2. op.tx \in 0..Len(journal) BY DEF RolloutTyped, Operations
    <3>3. child \in [tx : 0..Len(journal), owner : Someone] /\ 0 \in 0..Len(journal)
      BY <1>0 DEF RolloutTyped
    <3> QED BY <3>1, <3>2, <3>3 DEF NoChild, Someone
  <2>5. fact' \in Facts
    <3>1. 0 \in 0..MaxTx /\ fact \in Facts BY <1>0 DEF RolloutTyped
    <3> QED BY <2>3, <3>1 DEF NoFact, Facts
  <2> QED BY <1>1, <2>1, <2>2, <2>3, <2>4, <2>5 DEF RolloutTyped, Stays, Operations, Revs
<1>4. MemoryFits' BY <1>1 DEF MemoryFits, Stays
<1>5. CandidateFits' /\ PointersFit' /\ StagingFits' /\ TrackFits' /\ ReadyFits' BY <1>1, VersionsStay
<1>6. CallFits'
  BY <1>1, <1>2 DEF CallFits, Stays, RolloutTyped, Operations, NoOp, NoReady
<1>7. OperationFits'
  BY <1>1, <1>2 DEF OperationFits, Stays, RolloutTyped, Operations, NoOp, Pair
<1> QED BY <1>3, <1>4, <1>5, <1>6, <1>7

\* A switch that fails, for whatever reason, leaves everything but the operation.
LEMMA SwitchEnds ==
  ASSUME RolloutInv, up = "up", proc.at \in {"seal", "point", "commit"}, SwitchFails,
         UNCHANGED <<disk, manifest, journal, up, serving, ready, reverting, stage, child, deaths>>
  PROVE  RolloutInv'
<1>0. /\ RolloutTyped /\ Len(journal) \in Nat /\ MaxTx \in Nat /\ NoProc \in LockCalls
      /\ NoOp \in Operations(Len(journal)) /\ [op EXCEPT !.at = "clean"] \in Operations(Len(journal))
  BY RecordsAre DEF RolloutInv, OpSteps
<1>1. /\ proc' = NoProc
      /\ \/ op' = op /\ fact' = fact
         \/ op' \in {NoOp, [op EXCEPT !.at = "clean"]} /\ fact' = Fact("failed", ready.tx)
  BY DEF SwitchFails, Release
<1>2. Stays
  BY <1>1 DEF Stays, MayEnd, RolloutInv, ReadyFits, Stages, Drops
<1>3. RolloutTyped'
  <2>1. op' \in Operations(Len(journal)) BY <1>0, <1>1 DEF RolloutTyped
  <2>2. fact' \in Facts BY <1>0, <1>1 DEF RolloutTyped, Fact, Facts
  <2> QED BY <1>0, <1>1, <2>1, <2>2 DEF RolloutTyped, Operations, Facts, LockCalls
<1>4. CandidateFits' /\ PointersFit' /\ StagingFits' /\ TrackFits' /\ ReadyFits' BY <1>2, VersionsStay
<1>5. MemoryFits' BY DEF MemoryFits
<1>6. CallFits'
  BY <1>1 DEF RolloutInv, CallFits, NoProc, NoReady, Promotes, Drops, Stages
<1>7. OperationFits'
  <2>1. op'.at \in {op.at, "none", "clean"} /\ (op'.at = op.at => op' = op \/ op'.at \in {"none", "clean"})
    BY <1>0, <1>1 DEF NoOp, RolloutTyped, Operations
  <2>2. op.at \notin {"remove", "forget"} BY DEF RolloutInv, OperationFits
  <2> QED BY <1>1, <2>1, <2>2 DEF RolloutInv, OperationFits, CallFits, NoProc, Promotes, Pair
<1> QED BY <1>3, <1>4, <1>5, <1>6, <1>7 DEF RolloutInv

\* Calls that find nothing to do, and the operations of a removal.
LEMMA OperationsKeep ==
  ASSUME RolloutInv, InstallSame \/ SwitchRefused \/ RestoreFails \/ NothingToDrop \/ Disable \/ Removable \/ Forget
  PROVE  RolloutInv'
<1>0. /\ RolloutTyped /\ Len(journal) \in Nat /\ MaxTx \in Nat /\ NoProc \in LockCalls
      /\ NoOp \in Operations(Len(journal))
      /\ \A s \in OpSteps : [op EXCEPT !.at = s] \in Operations(Len(journal))
  BY RecordsAre DEF RolloutInv
<1>1. CASE SwitchRefused
  BY <1>1, SwitchEnds DEF SwitchRefused, At
<1>2. CASE InstallSame \/ RestoreFails \/ NothingToDrop \/ Disable \/ Removable \/ Forget
  <2>1. /\ UNCHANGED <<disk, journal, up, serving, ready, stage, child, deaths>> /\ up = "up"
        /\ \/ proc' = proc /\ (manifest' = manifest \/ op.at \in {"disable", "forget"})
           \/ proc' = NoProc /\ UNCHANGED manifest /\ proc.at \in {"found", "restore", "drain"}
        /\ proc.at = "restore" /\ proc' # proc => ~Restorable
        /\ manifest' \in {"absent", "on", "off"} /\ reverting' \in BOOLEAN
    <3>1. CASE InstallSame BY <1>0, <3>1 DEF InstallSame, At, Release, RolloutTyped
    <3>2. CASE RestoreFails BY <1>0, <3>2 DEF RestoreFails, At, Release, DropEnds, RolloutTyped
    <3>3. CASE NothingToDrop BY <1>0, <3>3 DEF NothingToDrop, Idle, NoProc, RolloutTyped
    <3>4. CASE Disable BY <1>0, <3>4 DEF Disable, Resolves, NoProc, RolloutTyped
    <3>5. CASE Removable BY <1>0, <3>5 DEF Removable, At, Release, Resolves, RolloutTyped
    <3>6. CASE Forget BY <1>0, <3>6 DEF Forget, RolloutTyped, RolloutInv, OperationFits
    <3> QED BY <1>2, <3>1, <3>2, <3>3, <3>4, <3>5, <3>6
  <2>2. \/ op' = op /\ UNCHANGED manifest
        \/ op' = NoOp
        \/ op.at = "disable" /\ op' = [op EXCEPT !.at = "drain"] /\ manifest' = "off" /\ UNCHANGED proc
        \/ op.at = "drain" /\ op' = [op EXCEPT !.at = "remove"] /\ proc.at = "drain" /\ proc' = NoProc
           /\ UNCHANGED manifest
    BY <1>2 DEF InstallSame, RestoreFails, NothingToDrop, Disable, Removable, Forget, At,
                Resolves, Release,
                 DropEnds
  <2>3. fact' \in Facts
    <3>1. \/ fact' = fact
          \/ \E says \in {"kept", "failed", "removed"}, tx \in {0, ready.tx} : fact' = Fact(says, tx)
      BY <1>2 DEF InstallSame, RestoreFails, NothingToDrop, Disable, Removable, Forget, DropEnds
    <3>2. ready.tx \in 0..MaxTx /\ 0 \in 0..MaxTx /\ fact \in Facts BY <1>0 DEF RolloutTyped
    <3> QED BY <3>1, <3>2 DEF Fact, Facts
  <2>4. Stays
    BY <2>1 DEF Stays, MayEnd, RolloutInv, Stages, StagingFits, CallFits
  <2>5. RolloutTyped'
    <3>1. op' \in Operations(Len(journal)) BY <1>0, <2>2 DEF RolloutTyped, OpSteps
    <3>2. proc' \in LockCalls BY <1>0, <2>1 DEF RolloutTyped
    <3> QED BY <1>0, <2>1, <2>3, <3>1, <3>2 DEF RolloutTyped, Operations, Facts, LockCalls
  <2>6. CandidateFits' /\ PointersFit' /\ StagingFits' /\ TrackFits' /\ ReadyFits' BY <2>4, VersionsStay
  <2>7. MemoryFits' BY <2>1 DEF MemoryFits
  <2>8. ASSUME UNCHANGED proc, op' # op PROVE op.at \in {"cancel", "clean", "switch", "disable", "forget"}
    BY <1>0, <1>2, <2>8 DEF InstallSame, RestoreFails, NothingToDrop, Disable, Removable, Forget,
                            At, Idle,
        Resolves, Release, DropEnds, NoProc, RolloutTyped
  <2>9. ASSUME UNCHANGED proc, op' # op, op.at = "switch" PROVE proc.at = "idle"
    BY <1>0, <1>2, <2>9 DEF InstallSame, RestoreFails, NothingToDrop, Disable, Removable, Forget,
                            At, Idle,
        Resolves, Release, DropEnds, NoProc, RolloutTyped
  <2>10. CallFits'
    BY <1>0, <2>1, <2>2, <2>8, <2>9 DEF RolloutInv, CallFits, NoProc, NoReady, Promotes, Drops,
                                        Stages
  <2>11. OperationFits'
    <3>1. CASE op' = op /\ UNCHANGED manifest
      BY <2>1, <3>1 DEF RolloutInv, OperationFits, CallFits, NoProc, Pair
    <3>2. CASE op' = NoOp
      BY <2>1, <2>8, <3>2 DEF RolloutInv, OperationFits, NoProc, NoOp
    <3>3. CASE op.at = "disable" /\ op' = [op EXCEPT !.at = "drain"] /\ manifest' = "off" /\ UNCHANGED proc
      BY <1>0, <2>1, <3>3 DEF RolloutInv, OperationFits, RolloutTyped, Operations
    <3>4. CASE op.at = "drain" /\ op' = [op EXCEPT !.at = "remove"] /\ proc.at = "drain" /\ proc' = NoProc
               /\ UNCHANGED manifest
      BY <1>0, <2>1, <3>4 DEF RolloutInv, OperationFits, CallFits, RolloutTyped, Operations, NoProc
    <3> QED BY <2>2, <3>1, <3>2, <3>3, <3>4
  <2> QED BY <2>5, <2>6, <2>7, <2>10, <2>11 DEF RolloutInv
<1> QED BY <1>1, <1>2

\* Calls that take the lock and change no version yet.
LEMMA LockKeeps ==
  ASSUME RolloutInv, Watch \/ Seal
  PROVE  RolloutInv'
<1>0. /\ RolloutTyped /\ Len(journal) \in Nat /\ MaxTx \in Nat
      /\ \A s \in CallSteps, a \in Askers : [NoProc EXCEPT !.at = s, !.who = a] \in LockCalls
  BY RecordsAre DEF RolloutInv
<1>1. /\ up = "up" /\ proc.at = "idle"
      /\ UNCHANGED <<disk, manifest, journal, fact, up, serving, ready, op, reverting, stage,
                     child, deaths>>
      /\ \/ /\ proc' = [NoProc EXCEPT !.at = "found", !.who = "watcher"] /\ ready = NoReady /\ Changed
            /\ Newest < MaxTx
         \/ /\ \E who \in Operators \cup (IF op.at = "switch" THEN {"resolve"} ELSE {}) :
                 proc' = [NoProc EXCEPT !.at = "seal", !.who = who]
            /\ ready.tx # 0
  BY DEF Watch, Seal, Idle, Take
<1>2. proc' \in LockCalls /\ proc'.at \in {"found", "seal"}
  <2>1. \E s \in {"found", "seal"}, a \in Operators \cup {"watcher", "resolve"} :
          proc' = [NoProc EXCEPT !.at = s, !.who = a]
    BY <1>1
  <2>2. PICK s \in {"found", "seal"}, a \in Operators \cup {"watcher", "resolve"} :
          proc' = [NoProc EXCEPT !.at = s, !.who = a]
    BY <2>1
  <2>3. s \in CallSteps /\ a \in Askers BY DEF CallSteps, Promotes, Askers
  <2>4. proc' \in LockCalls BY <1>0, <2>2, <2>3
  <2>5. proc'.at = s BY <2>2 DEF NoProc
  <2> QED BY <2>4, <2>5
<1>3. RolloutTyped' BY <1>0, <1>1, <1>2 DEF RolloutTyped, Operations, Facts, LockCalls
<1>4. MemoryFits' BY <1>1 DEF MemoryFits
<1> USE DEF RolloutInv, Txs, Phase, Newest
<1>5. ready = NoReady => NoneBlocked
  BY <1>1 DEF CandidateFits, NoneBlocked, Blocked, Stages, NoReady
<1>6. CandidateFits' BY <1>1 DEF CandidateFits, Blocked, Stages
<1>7. PointersFit' BY <1>1 DEF PointersFit, Blocked, Base, Rev, Pair
<1>8. StagingFits'
  <2>1. proc'.at = "found" => ready'.tx = 0 /\ Newest' < MaxTx /\ NoneBlocked'
    <3>1. CASE ready = NoReady /\ Newest < MaxTx
      BY <1>1, <1>5, <3>1 DEF NoneBlocked, Blocked, NoReady
    <3>2. CASE \E who \in Askers : proc' = [NoProc EXCEPT !.at = "seal", !.who = who]
      BY <3>2 DEF NoProc
    <3> QED BY <1>1, <3>1, <3>2 DEF Askers
  <2> QED BY <1>2, <2>1 DEF StagingFits, Stages
<1>9. TrackFits' BY <1>1, <1>2 DEF TrackFits, IsCommitted, Rev, Pair
<1>10. ReadyFits'
  BY <1>1, <1>2 DEF ReadyFits, ReadyPointersFit, Base, Candidate, Restorable, Promotable, Pair,
                    Drops, NoReady
<1>11. CallFits'
  <2>1. proc'.at = "seal" => ready.tx # 0 /\ proc'.who \in Operators \cup {"resolve"}
                             /\ (proc'.who = "resolve" => op.at = "switch")
    BY <1>1, RolloutIsBounded DEF NoProc
  <2> QED BY <1>1, <1>2, <2>1 DEF CallFits, Promotes, Drops, NoReady
<1>12. OperationFits'
  <2>1. proc'.who # "install" BY <1>1, RolloutIsBounded DEF NoProc
  <2>2. op.at \in {"open", "switch"} /\ op.kind = "install" => op.tx = ready.tx /\ ready.tx # 0
    BY <1>1 DEF OperationFits, Changed, NoReady
  <2>3. op.at \notin {"remove", "forget"} BY <1>1 DEF OperationFits, Changed
  <2> QED BY <1>1, <2>1, <2>2, <2>3 DEF OperationFits, Pair
<1> QED BY <1>3, <1>4, <1>6, <1>7, <1>8, <1>9, <1>10, <1>11, <1>12

\* A version is taken out, by the removal or by the watcher, or its artifacts go.
LEMMA RemovalKeeps ==
  ASSUME RolloutInv, Deactivate \/ WatcherDeactivates \/ RemoveArtifacts
  PROVE  RolloutInv'
<1>0. /\ RolloutTyped /\ Len(journal) \in Nat /\ MaxTx \in Nat /\ MaxRev \in Nat
      /\ \A s \in CallSteps, a \in Askers : [NoProc EXCEPT !.at = s, !.who = a] \in LockCalls
      /\ \A s \in OpSteps : [op EXCEPT !.at = s] \in Operations(Len(journal))
  BY RecordsAre DEF RolloutInv
<1>1. /\ up = "up" /\ ready = NoReady /\ serving' = 0
      /\ UNCHANGED <<manifest, journal, fact, up, ready, reverting, stage, child, deaths>>
      /\ \/ /\ proc.at \in {"idle", "deactivate"} /\ op.at = "drain" /\ UNCHANGED <<disk, op>>
            /\ proc' = [NoProc EXCEPT !.at = "drain", !.who = "resolve"]
         \/ proc.at = "idle" /\ manifest = "off" /\ serving # 0 /\ UNCHANGED <<disk, op, proc>>
         \/ /\ proc.at = "idle" /\ op.at = "remove" /\ op' = [op EXCEPT !.at = "forget"]
            /\ disk' = Pair(0, 0) /\ manifest = "off" /\ UNCHANGED proc
  BY DEF Deactivate, WatcherDeactivates, RemoveArtifacts, Idle, At, Take, Resolves, RolloutInv,
         CallFits, OperationFits,
         NoReady, NoProc
<1>2. /\ proc'.at \in {"idle", "drain"} /\ proc.at \in {"idle", "deactivate"} /\ ready.tx = 0
      /\ proc' = proc \/ proc'.who = "resolve"
  BY <1>1 DEF NoProc, NoReady
<1>3. RolloutTyped'
  <2>1. proc' \in LockCalls
    <3>1. "drain" \in CallSteps /\ "resolve" \in Askers BY DEF CallSteps, Askers
    <3>2. [NoProc EXCEPT !.at = "drain", !.who = "resolve"] \in LockCalls BY <1>0, <3>1
    <3> QED BY <1>0, <1>1, <3>2 DEF RolloutTyped
  <2>2. op' \in Operations(Len(journal))
    <3>1. [op EXCEPT !.at = "forget"] \in Operations(Len(journal)) BY <1>0 DEF OpSteps
    <3> QED BY <1>0, <1>1, <3>1 DEF RolloutTyped
  <2>3. disk' \in [stable : Revs, latest : Revs] /\ 0 \in Revs
    <3>1. 0 \in Revs BY RolloutIsBounded DEF Revs
    <3>2. disk' = disk \/ disk' = Pair(0, 0) BY <1>1
    <3>3. disk \in [stable : Revs, latest : Revs] BY <1>0 DEF RolloutTyped
    <3> QED BY <3>1, <3>2, <3>3 DEF Pair
  <2> QED BY <1>0, <1>1, <2>1, <2>2, <2>3 DEF RolloutTyped, Operations, Facts, LockCalls
<1>4. MemoryFits' BY <1>1 DEF MemoryFits
<1> USE DEF RolloutInv, Txs, Phase, Newest
<1>5. NoneBlocked BY <1>1, <1>2 DEF CandidateFits, NoneBlocked, Blocked, Stages
<1>6. CandidateFits' /\ PointersFit' BY <1>1, <1>5 DEF CandidateFits, PointersFit, NoneBlocked, Blocked
<1>7. StagingFits' BY <1>2 DEF StagingFits, Stages
<1>8. TrackFits' BY <1>1, <1>2 DEF TrackFits, IsCommitted
<1>9. ReadyFits' BY <1>1, <1>2 DEF ReadyFits
<1>10. CallFits'
  BY <1>1, <1>2 DEF CallFits, Promotes, Drops
<1>11. OperationFits'
  <2>1. CASE op.at = "remove" /\ op' = [op EXCEPT !.at = "forget"] /\ disk' = Pair(0, 0) /\ manifest = "off"
             /\ UNCHANGED proc /\ proc.at = "idle"
    BY <1>0, <1>1, <1>2, <2>1 DEF OperationFits, RolloutTyped, Operations, Pair
  <2>2. CASE UNCHANGED <<disk, op>> /\ ((UNCHANGED proc /\ manifest = "off") \/ (op.at = "drain" /\ proc'.who = "resolve"))
    BY <1>1, <1>2, <2>2 DEF OperationFits, Pair
  <2> QED BY <1>1, <2>1, <2>2 DEF NoProc
<1> QED BY <1>3, <1>4, <1>6, <1>7, <1>8, <1>9, <1>10, <1>11
----------------------------------------------------------------------------
(* Dropping and promoting the ready candidate *)

\* A candidate that leaves its latest_ready or its promotion behind is being discarded,
\* whoever drops it.
LEMMA DropStarts ==
  ASSUME RolloutInv, up = "up", ready.tx # 0, proc.at \in {"idle", "seal", "point", "commit"},
         journal' = Discarded(ready.tx), proc' \in LockCalls, proc'.at = "restore", proc'.who # "install",
         UNCHANGED <<disk, manifest, fact, up, serving, ready, op, reverting, stage, child, deaths>>
  PROVE  RolloutInv'
<1> USE DEF RolloutInv
<1>0. /\ journal \in Seq(Entries) /\ Len(journal) \in Nat /\ ready.tx \in Txs
      /\ \A u \in Txs : journal[u] \in Entries
  <2>1. journal \in Seq(Entries) /\ ready.tx \in 0..Len(journal) BY DEF RolloutTyped
  <2> QED BY <2>1 DEF Txs
<1>1. Phase(ready.tx) \in {"latest_ready", "promoting", "discarding"} BY DEF ReadyFits
<1>2. Moved(ready.tx, "discarding")
  <2>1. CASE Phase(ready.tx) \in {"latest_ready", "promoting"}
    BY <1>0, <2>1, Advance, PhasesAre DEF Discarded
  <2>2. CASE Phase(ready.tx) = "discarding"
    BY <1>0, <2>2 DEF Discarded, Moved, Phase
  <2> QED BY <1>1, <2>1, <2>2
<1>3. /\ journal' \in Seq(Entries) /\ Len(journal') = Len(journal)
      /\ \A u \in Txs :
           /\ journal'[u].rev = journal[u].rev /\ journal'[u].base = journal[u].base
           /\ u # ready.tx => journal'[u].phase = journal[u].phase
      /\ journal'[ready.tx].phase = "discarding" /\ Txs' = Txs
  BY <1>0, <1>2 DEF Moved, Txs
<1>4. /\ \A u \in Txs : Blocked(u)' <=> Blocked(u)
      /\ \A u \in Txs : IsCommitted(u)' <=> IsCommitted(u)
      /\ \A u \in Txs : Blocked(u) => u = ready.tx
  <2>1. \A u \in Txs : u # ready.tx => Phase(u)' = Phase(u) BY <1>3 DEF Phase
  <2>2. Phase(ready.tx)' = "discarding" BY <1>3 DEF Phase
  <2>3. Blocked(ready.tx) /\ ~IsCommitted(ready.tx) BY <1>1, PhasesAre DEF Blocked, IsCommitted
  <2>4. Blocked(ready.tx)' /\ ~IsCommitted(ready.tx)' BY <2>2, PhasesAre DEF Blocked, IsCommitted
  <2>5. \A u \in Txs : u # ready.tx => (Blocked(u)' <=> Blocked(u)) /\ (IsCommitted(u)' <=> IsCommitted(u))
    BY <2>1 DEF Blocked, IsCommitted
  <2>6. \A u \in Txs : Blocked(u) => u = ready.tx BY <1>0, <2>3 DEF CandidateFits
  <2> QED BY <2>3, <2>4, <2>5, <2>6
<1>5. RolloutTyped'
  BY <1>3 DEF RolloutTyped, Operations, Facts, LockCalls
<1>6. MemoryFits' BY DEF MemoryFits
<1>7. CandidateFits' BY <1>3, <1>4 DEF CandidateFits
<1>8. PointersFit'
  <2>1. \/ disk \in {Pair(Base(ready.tx), Candidate), Pair(Base(ready.tx), Base(ready.tx))}
        \/ disk = Pair(Candidate, Candidate)
    BY DEF ReadyFits, ReadyPointersFit
  <2>2. Base(ready.tx)' = Base(ready.tx) /\ Rev(ready.tx)' = Candidate /\ Phase(ready.tx)' = "discarding"
    BY <1>0, <1>3 DEF Base, Rev, Candidate, Phase
  <2> QED BY <1>3, <1>4, <2>1, <2>2 DEF PointersFit, Pair
<1>9. StagingFits' BY DEF StagingFits, Stages
<1>10. TrackFits'
  BY <1>0, <1>3, <1>4 DEF TrackFits, Rev, Pair
<1>11. ReadyFits'
  <2>1. /\ Base(ready.tx)' = Base(ready.tx) /\ Candidate' = Candidate /\ Phase(ready.tx)' = "discarding"
        /\ ready' = ready
    BY <1>0, <1>3 DEF Base, Candidate, Phase
  <2>2. ReadyPointersFit'
    BY <1>1, <2>1 DEF ReadyFits, ReadyPointersFit, Pair
  <2> QED BY <2>1, <2>2 DEF ReadyFits, Drops
<1>12. CallFits' BY DEF CallFits, Promotes, Drops
<1>13. OperationFits'
  <2>1. op.at \notin {"remove", "forget"} BY DEF OperationFits
  <2>2. op.at \in {"open", "switch"} /\ op.kind = "install" => op.tx = ready.tx BY DEF OperationFits
  <2> QED BY <2>1, <2>2 DEF OperationFits, Pair
<1> QED BY <1>5, <1>6, <1>7, <1>8, <1>9, <1>10, <1>11, <1>12, <1>13

\* Every way to begin a drop.
LEMMA DropsKeep ==
  ASSUME RolloutInv,
         \/ Drop
         \/ proc.at \in {"seal", "point", "commit"} /\ up = "up" /\ Goto("restore")
            /\ journal' = Discarded(ready.tx)
            /\ UNCHANGED <<disk, manifest, fact, up, serving, ready, op, reverting, stage, child,
                           deaths>>
  PROVE  RolloutInv'
<1>0. /\ RolloutTyped /\ proc \in LockCalls
      /\ \A s \in CallSteps : [proc EXCEPT !.at = s] \in LockCalls
      /\ \A s \in CallSteps, a \in Askers : [NoProc EXCEPT !.at = s, !.who = a] \in LockCalls
  BY RecordsAre DEF RolloutInv, RolloutTyped
<1>1. "restore" \in CallSteps BY DEF CallSteps, Drops
<1>2. CASE Drop
  <2>1. PICK who \in Droppers : Take(who, "restore") BY <1>2 DEF Drop
  <2>2. who \in Askers /\ who # "install" BY RolloutIsBounded DEF Droppers, Askers
  <2>3. proc' = [NoProc EXCEPT !.at = "restore", !.who = who] BY <2>1 DEF Take
  <2>4. proc' \in LockCalls BY <1>0, <1>1, <2>2, <2>3
  <2>5. proc'.at = "restore" /\ proc'.who = who BY <2>3 DEF NoProc
  <2> QED BY <1>2, <2>2, <2>4, <2>5, DropStarts DEF Drop, Idle
<1>3. CASE proc.at \in {"seal", "point", "commit"} /\ up = "up" /\ Goto("restore")
           /\ journal' = Discarded(ready.tx)
           /\ UNCHANGED <<disk, manifest, fact, up, serving, ready, op, reverting, stage, child,
                          deaths>>
  <2>1. proc' = [proc EXCEPT !.at = "restore"] BY <1>3 DEF Goto
  <2>2. proc' \in LockCalls BY <1>0, <1>1, <2>1
  <2>3. proc'.at = "restore" /\ proc'.who = proc.who BY <1>0, <2>1 DEF LockCalls
  <2>4. proc.who # "install" /\ ready.tx # 0
    BY <1>3, RolloutIsBounded DEF RolloutInv, CallFits, Promotes
  <2> QED BY <1>3, <2>2, <2>3, <2>4, DropStarts
<1> QED BY <1>2, <1>3

\* What a move of one transaction leaves alone.
LEMMA OneMoves ==
  ASSUME journal \in Seq(Entries), NEW tx \in Txs, NEW phase \in Phases, Moved(tx, phase)
  PROVE  /\ journal' \in Seq(Entries) /\ Len(journal') = Len(journal) /\ Txs' = Txs /\ Newest' = Newest
         /\ \A u \in Txs :
              /\ Rev(u)' = Rev(u) /\ Base(u)' = Base(u)
              /\ u # tx => Phase(u)' = Phase(u)
              /\ u # tx => (Blocked(u)' <=> Blocked(u))
              /\ u # tx => (IsCommitted(u)' <=> IsCommitted(u))
         /\ Phase(tx)' = phase
         /\ Blocked(tx)' <=> phase \in Blocking
         /\ IsCommitted(tx)' <=> phase = "committed"
<1>1. journal' \in Seq(Entries) /\ Len(journal') = Len(journal) /\ Txs' = Txs /\ Newest' = Newest
  BY DEF Moved, Txs, Newest
<1>2. \A u \in Txs : Rev(u)' = Rev(u) /\ Base(u)' = Base(u) /\ (u # tx => Phase(u)' = Phase(u))
  BY DEF Moved, Rev, Base, Phase
<1>3. Phase(tx)' = phase BY DEF Moved, Phase
<1>4. \A u \in Txs : u # tx => (Blocked(u)' <=> Blocked(u)) /\ (IsCommitted(u)' <=> IsCommitted(u))
  BY <1>2 DEF Blocked, IsCommitted
<1>5. (Blocked(tx)' <=> phase \in Blocking) /\ (IsCommitted(tx)' <=> phase = "committed")
  BY <1>3 DEF Blocked, IsCommitted
<1> QED BY <1>1, <1>2, <1>3, <1>4, <1>5

\* The facts about the ready candidate that its handlers begin with.
LEMMA ReadyIs ==
  ASSUME RolloutInv, ready.tx # 0
  PROVE  /\ journal \in Seq(Entries) /\ Len(journal) \in Nat /\ ready.tx \in Txs
         /\ Blocked(ready.tx) /\ ~IsCommitted(ready.tx)
         /\ \A u \in Txs : Blocked(u) => u = ready.tx
         /\ Candidate = Rev(ready.tx) /\ Rev(ready.tx) \in Revs /\ Base(ready.tx) \in Revs
         /\ ready.prev \in Revs /\ up = "up"
<1> USE DEF RolloutInv
<1>1. journal \in Seq(Entries) /\ ready.tx \in 0..Len(journal) /\ ready.prev \in Revs BY DEF RolloutTyped
<1>2. Len(journal) \in Nat /\ ready.tx \in Txs BY <1>1 DEF Txs
<1>3. journal[ready.tx] \in Entries BY <1>1, <1>2 DEF Txs
<1>4. Phase(ready.tx) \in {"latest_ready", "promoting", "discarding"} BY DEF ReadyFits
<1>5. Blocked(ready.tx) /\ ~IsCommitted(ready.tx) BY <1>4, PhasesAre DEF Blocked, IsCommitted
<1>6. \A u \in Txs : Blocked(u) => u = ready.tx BY <1>2, <1>5 DEF CandidateFits
<1>7. up = "up" BY DEF MemoryFits, NoReady
<1> QED BY <1>1, <1>2, <1>3, <1>5, <1>6, <1>7 DEF Candidate, Rev, Base, Entries

\* The pointers that a restore or a promotion accepts were written for this candidate.
LEMMA OwnPointers ==
  ASSUME RolloutInv, ready.tx # 0, Restorable
  PROVE  Base(ready.tx) = ready.prev
<1>1. /\ Candidate # Base(ready.tx) /\ ReadyPointersFit
  BY DEF RolloutInv, ReadyFits
<1> QED BY <1>1 DEF ReadyPointersFit, Restorable, Promotable, Pair

\* The pointers of the ready candidate go back, or to it; or nothing is written yet.
LEMMA PointersKeep ==
  ASSUME RolloutInv,
         \/ Restore
         \/ At("point") /\ Promotable /\ disk' = Pair(Candidate, Candidate) /\ Goto("commit")
            /\ UNCHANGED <<manifest, journal, fact, up, serving, ready, op, reverting, stage,
                           child, deaths>>
         \/ At("seal") /\ Goto("promote")
            /\ UNCHANGED <<disk, manifest, journal, fact, up, serving, ready, op, reverting,
                           stage, child, deaths>>
  PROVE  RolloutInv'
<1> USE DEF RolloutInv
<1>0. /\ RolloutTyped /\ proc \in LockCalls /\ \A s \in CallSteps : [proc EXCEPT !.at = s] \in LockCalls
  BY RecordsAre DEF RolloutTyped
<1>1. ready.tx # 0 BY DEF Restore, At, CallFits, Promotes, Drops
<1>2. /\ journal \in Seq(Entries) /\ Len(journal) \in Nat /\ ready.tx \in Txs
      /\ Blocked(ready.tx) /\ ~IsCommitted(ready.tx)
      /\ \A u \in Txs : Blocked(u) => u = ready.tx
      /\ Candidate = Rev(ready.tx) /\ Rev(ready.tx) \in Revs /\ Base(ready.tx) \in Revs
      /\ ready.prev \in Revs /\ up = "up"
  BY <1>1, ReadyIs
<1>3. /\ UNCHANGED <<manifest, journal, fact, up, serving, ready, op, reverting, stage, child,
                     deaths>>
      /\ \/ /\ proc.at = "restore" /\ proc' = [proc EXCEPT !.at = "leases"]
            /\ Restorable /\ disk' = Pair(ready.prev, ready.prev)
         \/ /\ proc.at = "point" /\ proc' = [proc EXCEPT !.at = "commit"]
            /\ Promotable /\ disk' = Pair(Candidate, Candidate)
         \/ proc.at = "seal" /\ proc' = [proc EXCEPT !.at = "promote"] /\ disk' = disk
  BY DEF Restore, At, Goto
<1>4. proc' \in LockCalls /\ proc'.who = proc.who
      /\ \/ proc.at = "restore" /\ proc'.at = "leases"
         \/ proc.at = "point" /\ proc'.at = "commit"
         \/ proc.at = "seal" /\ proc'.at = "promote"
  <2>1. \A s \in {"leases", "commit", "promote"} : s \in CallSteps BY DEF CallSteps, Drops, Promotes
  <2> QED BY <1>0, <1>3, <2>1 DEF LockCalls
<1>5. proc'.at # "promote" => Base(ready.tx) = ready.prev
  BY <1>1, <1>3, <1>4, OwnPointers DEF Restorable
<1>6. proc'.at = "commit" => Phase(ready.tx) = "promoting"
  BY <1>1, <1>3, <1>4 DEF ReadyFits, Restorable, Drops
<1>7. proc'.at = "leases" => Phase(ready.tx) = "discarding"
  BY <1>1, <1>3, <1>4 DEF ReadyFits, Drops
<1>8. RolloutTyped'
  <2>1. disk' \in [stable : Revs, latest : Revs] BY <1>0, <1>2, <1>3 DEF Pair, RolloutTyped
  <2> QED BY <1>0, <1>3, <1>4, <2>1 DEF RolloutTyped, Operations, Facts, LockCalls
<1>9. MemoryFits' BY <1>2, <1>3 DEF MemoryFits
<1>10. \A u \in Txs : (Blocked(u)' <=> Blocked(u)) /\ (IsCommitted(u)' <=> IsCommitted(u))
       /\ Base(u)' = Base(u) /\ Rev(u)' = Rev(u) /\ Phase(u)' = Phase(u) /\ Txs' = Txs
       /\ Candidate' = Candidate
  BY <1>3 DEF Blocked, IsCommitted, Base, Rev, Phase, Txs, Candidate
<1>11. CandidateFits' BY <1>2, <1>3, <1>10 DEF CandidateFits, Txs
<1>12. PointersFit'
  <2>1. \/ disk' \in {Pair(Base(ready.tx), Rev(ready.tx)), Pair(Base(ready.tx), Base(ready.tx))}
        \/ disk' = Pair(Rev(ready.tx), Rev(ready.tx)) /\ Phase(ready.tx) \in {"promoting", "discarding"}
    BY <1>1, <1>2, <1>3, <1>4, <1>5, <1>6 DEF PointersFit
  <2> QED BY <1>2, <1>3, <1>10, <2>1 DEF PointersFit, Pair, Txs
<1>13. StagingFits' BY <1>4 DEF StagingFits, Stages
<1>14. TrackFits' BY <1>2, <1>3, <1>4, <1>10 DEF TrackFits, Txs
<1>15. ReadyFits'
  <2>1. ReadyPointersFit'
    BY <1>1, <1>2, <1>3, <1>4, <1>5, <1>6, <1>10 DEF ReadyFits, ReadyPointersFit, Pair
  <2>2. CASE proc'.at = "promote"
    <3>1. disk' = disk /\ ready' = ready /\ (Restorable' <=> Restorable)
      BY <1>2, <1>3, <1>4, <1>10, <2>2 DEF Restorable, Promotable, Pair
    <3> QED BY <1>2, <1>3, <1>4, <1>10, <2>1, <2>2, <3>1 DEF ReadyFits, Drops
  <2>3. CASE proc'.at \in {"leases", "commit"}
    BY <1>1, <1>2, <1>3, <1>4, <1>5, <1>6, <1>7, <1>10, <2>1, <2>3 DEF ReadyFits, Drops, Pair
  <2> QED BY <1>4, <2>2, <2>3
<1>16. CallFits' BY <1>1, <1>3, <1>4 DEF CallFits, Promotes, Drops
<1>17. OperationFits'
  <2>1. op.at \notin {"remove", "forget"} BY <1>4 DEF OperationFits
  <2>2. op.at \in {"open", "switch"} /\ op.kind = "install" => op.tx = ready.tx BY <1>1 DEF OperationFits
  <2> QED BY <1>1, <1>3, <1>4, <2>1, <2>2 DEF OperationFits
<1> QED BY <1>8, <1>9, <1>11, <1>12, <1>13, <1>14, <1>15, <1>16, <1>17

\* A promotion is written in the journal before the pointers are.
LEMMA PromoteKeeps ==
  ASSUME RolloutInv, Promote
  PROVE  RolloutInv'
<1> USE DEF RolloutInv
<1>0. /\ RolloutTyped /\ proc \in LockCalls /\ \A s \in CallSteps : [proc EXCEPT !.at = s] \in LockCalls
  BY RecordsAre DEF RolloutTyped
<1>1. proc.at = "promote" /\ ready.tx # 0 BY DEF Promote, At, CallFits, Promotes
<1>2. /\ journal \in Seq(Entries) /\ Len(journal) \in Nat /\ ready.tx \in Txs
      /\ Blocked(ready.tx) /\ ~IsCommitted(ready.tx)
      /\ \A u \in Txs : Blocked(u) => u = ready.tx
      /\ Candidate = Rev(ready.tx) /\ up = "up"
  BY <1>1, ReadyIs
<1>3. UNCHANGED <<disk, manifest, fact, up, serving, ready, op, reverting, stage, child, deaths>>
  BY DEF Promote
<1>4. proc' \in LockCalls /\ proc'.who = proc.who /\ proc'.at = "point"
  <2>1. "point" \in CallSteps BY DEF CallSteps, Promotes
  <2>2. proc' = [proc EXCEPT !.at = "point"] BY DEF Promote, Goto
  <2> QED BY <1>0, <2>1, <2>2 DEF LockCalls
<1>5. \E phase \in {"promoting", "discarding"} :
        Moved(ready.tx, phase) /\ (phase = "discarding" => Phase(ready.tx) = "discarding")
  <2>1. CASE Phase(ready.tx) = "latest_ready"
    <3>1. Moved(ready.tx, "promoting") BY <1>2, <2>1, Advance, PhasesAre DEF Promote
    <3> QED BY <3>1
  <2>2. CASE Phase(ready.tx) # "latest_ready"
    <3>1. Phase(ready.tx) \in {"promoting", "discarding"} BY <1>1, <2>2 DEF ReadyFits
    <3>2. journal' = journal BY <2>2 DEF Promote
    <3>3. Moved(ready.tx, Phase(ready.tx)) BY <1>2, <3>2 DEF Moved, Phase
    <3> QED BY <3>1, <3>3
  <2> QED BY <2>1, <2>2
<1>6. PICK phase \in {"promoting", "discarding"} :
        Moved(ready.tx, phase) /\ (phase = "discarding" => Phase(ready.tx) = "discarding")
  BY <1>5
<1>7. phase \in Phases /\ phase \in Blocking /\ phase # "committed" BY PhasesAre
<1>8. /\ journal' \in Seq(Entries) /\ Len(journal') = Len(journal) /\ Txs' = Txs /\ Newest' = Newest
      /\ \A u \in Txs :
           /\ Rev(u)' = Rev(u) /\ Base(u)' = Base(u)
           /\ Blocked(u)' <=> Blocked(u)
           /\ IsCommitted(u)' <=> IsCommitted(u)
      /\ Phase(ready.tx)' = phase /\ Candidate' = Candidate
  <2>1. /\ journal' \in Seq(Entries) /\ Len(journal') = Len(journal) /\ Txs' = Txs /\ Newest' = Newest
        /\ \A u \in Txs :
             /\ Rev(u)' = Rev(u) /\ Base(u)' = Base(u)
             /\ u # ready.tx => (Blocked(u)' <=> Blocked(u))
             /\ u # ready.tx => (IsCommitted(u)' <=> IsCommitted(u))
        /\ Phase(ready.tx)' = phase
        /\ Blocked(ready.tx)' <=> phase \in Blocking
        /\ IsCommitted(ready.tx)' <=> phase = "committed"
    BY <1>2, <1>3, <1>6, <1>7, OneMoves
  <2>2. Candidate' = Rev(ready.tx)' BY <1>3 DEF Candidate, Rev
  <2> QED BY <1>2, <1>3, <1>7, <2>1, <2>2
<1>9. RolloutTyped' BY <1>0, <1>3, <1>4, <1>8 DEF RolloutTyped, Operations, Facts, LockCalls
<1>10. MemoryFits' BY <1>2, <1>3 DEF MemoryFits
<1>11. CandidateFits' BY <1>2, <1>3, <1>8 DEF CandidateFits
<1>12. PointersFit'
  <2>1. \/ disk \in {Pair(Base(ready.tx), Rev(ready.tx)), Pair(Base(ready.tx), Base(ready.tx))}
        \/ disk = Pair(Rev(ready.tx), Rev(ready.tx))
    BY <1>2 DEF PointersFit
  <2> QED BY <1>2, <1>3, <1>8, <2>1 DEF PointersFit, Pair
<1>13. StagingFits' BY <1>4 DEF StagingFits, Stages
<1>14. TrackFits' BY <1>1, <1>2, <1>3, <1>4, <1>8 DEF TrackFits
<1>15. ReadyFits'
  <2>1. ReadyPointersFit' BY <1>1, <1>2, <1>3, <1>8 DEF ReadyFits, ReadyPointersFit, Pair
  <2>2. Restorable' <=> Restorable BY <1>3, <1>8 DEF Restorable, Promotable, Pair
  <2> QED BY <1>1, <1>2, <1>3, <1>4, <1>6, <1>8, <2>1, <2>2 DEF ReadyFits, Drops
<1>16. CallFits' BY <1>1, <1>3, <1>4 DEF CallFits, Promotes, Drops
<1>17. OperationFits'
  <2>1. op.at \notin {"remove", "forget"} BY <1>1 DEF OperationFits
  <2>2. op.at \in {"open", "switch"} /\ op.kind = "install" => op.tx = ready.tx BY <1>1 DEF OperationFits
  <2> QED BY <1>1, <1>3, <1>4, <2>1, <2>2 DEF OperationFits
<1> QED BY <1>9, <1>10, <1>11, <1>12, <1>13, <1>14, <1>15, <1>16, <1>17

\* The candidate serves, or it is gone: nothing is ready any more.
LEMMA ReadyEnds ==
  ASSUME RolloutInv, SwitchCommits \/ Dropped
  PROVE  RolloutInv'
<1> USE DEF RolloutInv
<1>0. /\ RolloutTyped /\ proc \in LockCalls /\ \A s \in CallSteps : [proc EXCEPT !.at = s] \in LockCalls
      /\ NoProc \in LockCalls /\ NoOp \in Operations(Len(journal))
  BY RecordsAre DEF RolloutTyped
<1>1. proc.at \in {"commit", "leases"} /\ ready.tx # 0
  BY DEF SwitchCommits, Dropped, At, CallFits, Promotes, Drops
<1>2. /\ journal \in Seq(Entries) /\ Len(journal) \in Nat /\ ready.tx \in Txs
      /\ Blocked(ready.tx) /\ ~IsCommitted(ready.tx)
      /\ \A u \in Txs : Blocked(u) => u = ready.tx
      /\ Candidate = Rev(ready.tx) /\ Rev(ready.tx) \in Revs /\ Base(ready.tx) \in Revs
      /\ ready.prev \in Revs /\ up = "up"
  BY <1>1, ReadyIs
<1>3. /\ UNCHANGED <<disk, manifest, up, stage, child, deaths>> /\ ready' = NoReady
      /\ reverting' \in BOOLEAN
  BY <1>0 DEF SwitchCommits, Dropped, DropEnds, RolloutTyped
<1>4. PICK phase \in {"committed", "aborted"} :
        Moved(ready.tx, phase) /\ (phase = "committed" <=> proc.at = "commit")
  <2>1. CASE SwitchCommits
    <3>1. Moved(ready.tx, "committed") BY <1>2, <2>1, Advance, PhasesAre DEF SwitchCommits
    <3> QED BY <2>1, <3>1 DEF SwitchCommits, At
  <2>2. CASE Dropped
    <3>1. Moved(ready.tx, "aborted") BY <1>2, <2>2, Advance, PhasesAre DEF Dropped
    <3> QED BY <2>2, <3>1 DEF Dropped, At
  <2> QED BY <2>1, <2>2
<1>t. PICK tx \in Txs : tx = ready.tx BY <1>2
<1>5. /\ journal' \in Seq(Entries) /\ Len(journal') = Len(journal) /\ Txs' = Txs /\ Newest' = Newest
      /\ \A u \in Txs :
           /\ Rev(u)' = Rev(u) /\ Base(u)' = Base(u)
           /\ u # tx => (Blocked(u)' <=> Blocked(u))
           /\ u # tx => (IsCommitted(u)' <=> IsCommitted(u))
      /\ ~Blocked(tx)'
      /\ IsCommitted(tx)' <=> phase = "committed"
  <2>1. phase \in Phases /\ phase \notin Blocking BY PhasesAre
  <2>2. Moved(tx, phase) BY <1>4, <1>t
  <2> QED BY <1>2, <2>1, <2>2, OneMoves
<1>6. \A u \in Txs : ~Blocked(u)' BY <1>2, <1>t, <1>5
<1>7. \A u \in Txs : ~IsCommitted(u) BY <1>1, <1>2 DEF TrackFits
<1>8. /\ proc' \in LockCalls
      /\ \/ /\ proc.at = "commit" /\ proc'.at = "track" /\ proc'.who = proc.who /\ UNCHANGED <<op, fact>>
            /\ serving' = Candidate
         \/ /\ proc.at = "leases" /\ proc' = NoProc /\ (op' = NoOp \/ (op' = op /\ proc.who # "resolve"))
            /\ serving' = serving
         \/ /\ proc.at = "leases" /\ proc'.at = "deactivate" /\ proc'.who = "resolve" /\ op.at = "drain" /\ op' = op
            /\ serving' = serving
  <2>1. \A s \in {"track", "deactivate"} : s \in CallSteps BY DEF CallSteps
  <2>2. CASE SwitchCommits BY <1>0, <2>1, <2>2 DEF SwitchCommits, At, Goto, LockCalls
  <2>3. CASE Dropped BY <1>0, <2>1, <2>3 DEF Dropped, At, DropEnds, Goto, Release, LockCalls
  <2> QED BY <2>2, <2>3
<1>9. RolloutTyped'
  <2>1. op' \in Operations(Len(journal)) BY <1>0, <1>8 DEF RolloutTyped
  <2>2. ready' \in [tx : 0..Len(journal'), prev : Revs]
    <3>1. 0 \in Revs BY RolloutIsBounded DEF Revs
    <3>2. 0 \in 0..Len(journal') BY <1>2, <1>5
    <3> QED BY <1>3, <3>1, <3>2 DEF NoReady
  <2>3. fact' \in Facts
    <3>1. fact' = fact \/ \E says \in {"kept", "failed"} : fact' = Fact(says, ready.tx)
      BY <1>8 DEF SwitchCommits, Dropped, DropEnds
    <3>2. ready.tx \in 0..MaxTx /\ fact \in Facts
      <4>1. ready.tx \in 0..Len(journal) /\ Len(journal) <= MaxTx /\ fact \in Facts BY <1>0 DEF RolloutTyped
      <4> QED BY <1>2, <4>1, RolloutIsBounded
    <3> QED BY <3>1, <3>2 DEF Fact, Facts
  <2>4. serving' \in Revs BY <1>0, <1>2, <1>8 DEF RolloutTyped
  <2> QED BY <1>0, <1>3, <1>5, <1>8, <2>1, <2>2, <2>3, <2>4 DEF RolloutTyped, Operations, Facts, LockCalls
<1>10. MemoryFits' BY <1>2, <1>3 DEF MemoryFits
<1>11. CandidateFits' /\ PointersFit' BY <1>5, <1>6 DEF CandidateFits, PointersFit
<1>12. proc'.at \in {"idle", "track", "deactivate"} /\ ready'.tx = 0 BY <1>3, <1>8 DEF NoProc, NoReady
<1>13. StagingFits' BY <1>12 DEF StagingFits, Stages
<1>14. TrackFits'
  <2>1. \A u \in Txs' : IsCommitted(u)' <=> (u = tx /\ proc.at = "commit")
    BY <1>4, <1>5, <1>7
  <2>2. proc'.at = "track" <=> proc.at = "commit" BY <1>8 DEF NoProc
  <2>3. proc.at = "commit" => disk' = Pair(Rev(tx), Rev(tx))' /\ serving' = Rev(tx)'
    <3>1. Rev(tx)' = Rev(tx) /\ Candidate = Rev(tx) BY <1>2, <1>t, <1>5
    <3>2. proc.at = "commit" => disk' = Pair(Candidate, Candidate) /\ serving' = Candidate
      BY <1>1, <1>3, <1>8 DEF ReadyFits
    <3> QED BY <3>1, <3>2 DEF Pair
  <2> QED BY <1>2, <1>5, <1>12, <2>1, <2>2, <2>3 DEF TrackFits, Pair
<1>15. ReadyFits' BY <1>12 DEF ReadyFits
<1>16. /\ disk'.stable = disk'.latest /\ disk'.stable = serving'
  <2>1. CASE proc.at = "commit" BY <1>1, <1>3, <1>8, <2>1 DEF ReadyFits, Pair
  <2>2. CASE proc.at = "leases" BY <1>1, <1>3, <1>8, <2>2 DEF ReadyFits, Pair
  <2> QED BY <1>1, <2>1, <2>2
<1>17. CallFits'
  <2>1. proc'.at = "deactivate" => op'.at = "drain" BY <1>8 DEF NoProc
  <2> QED BY <1>3, <1>12, <1>16, <2>1 DEF CallFits, Promotes, Drops
<1>18. OperationFits'
  <2>1. op.at \notin {"remove", "forget"} BY <1>1 DEF OperationFits
  <2>2. op' = op \/ op'.at = "none" BY <1>8 DEF NoOp
  <2>3. op'.at \in {"open", "switch"} => proc'.at \in {"idle", "track"}
    BY <1>8 DEF NoOp, NoProc
  <2>4. proc'.who = "install" => proc.who = "install" /\ op' = op BY <1>8 DEF NoProc
  <2> QED BY <1>1, <1>3, <1>12, <1>16, <2>1, <2>2, <2>3, <2>4 DEF OperationFits
<1> QED BY <1>9, <1>10, <1>11, <1>13, <1>14, <1>15, <1>17, <1>18

\* A committed transaction is tracked and drains; nothing else depends on it.
LEMMA DrainsKeep ==
  ASSUME RolloutInv, Track \/ \E tx \in Txs : Drained(tx)
  PROVE  RolloutInv'
<1> USE DEF RolloutInv
<1>0. /\ RolloutTyped /\ NoProc \in LockCalls /\ NoOp \in Operations(Len(journal))
      /\ journal \in Seq(Entries) /\ Len(journal) \in Nat /\ Len(journal) <= MaxTx
  BY RecordsAre DEF RolloutTyped
<1>1. UNCHANGED <<disk, manifest, up, serving, ready, reverting, stage, child, deaths>> /\ up = "up"
  BY DEF Track, Drained, At
<1>2. ASSUME Track PROVE Committed \in Txs /\ IsCommitted(Committed)
  <2>1. \E tx \in Txs : IsCommitted(tx) BY <1>2 DEF Track, At, TrackFits
  <2> QED BY <2>1 DEF Committed, IsCommitted
<1>3. \E tx \in Txs, phase \in {"draining", "complete"} :
        /\ journal' = Advanced(tx, phase)
        /\ \/ Track /\ tx = Committed /\ IsCommitted(tx)
           \/ Drained(tx) /\ Phase(tx) = "draining"
  BY <1>2 DEF Track, Drained
<1>4. PICK tx \in Txs, phase \in {"draining", "complete"} :
        /\ journal' = Advanced(tx, phase)
        /\ \/ Track /\ tx = Committed /\ IsCommitted(tx)
           \/ Drained(tx) /\ Phase(tx) = "draining"
  BY <1>3
<1>5. Moved(tx, phase) BY <1>0, <1>4, Advance, PhasesAre
<1>6. /\ journal' \in Seq(Entries) /\ Len(journal') = Len(journal) /\ Txs' = Txs /\ Newest' = Newest
      /\ \A u \in Txs :
           /\ Rev(u)' = Rev(u) /\ Base(u)' = Base(u)
           /\ u # tx => Phase(u)' = Phase(u)
           /\ Blocked(u)' <=> Blocked(u)
           /\ u # tx => (IsCommitted(u)' <=> IsCommitted(u))
      /\ ~IsCommitted(tx)' /\ ~Blocked(tx)
  <2>1. phase \in Phases /\ phase \notin Blocking BY PhasesAre
  <2>2. /\ journal' \in Seq(Entries) /\ Len(journal') = Len(journal) /\ Txs' = Txs /\ Newest' = Newest
        /\ \A u \in Txs :
             /\ Rev(u)' = Rev(u) /\ Base(u)' = Base(u)
             /\ u # tx => Phase(u)' = Phase(u)
             /\ u # tx => (Blocked(u)' <=> Blocked(u))
             /\ u # tx => (IsCommitted(u)' <=> IsCommitted(u))
        /\ Blocked(tx)' <=> phase \in Blocking
        /\ IsCommitted(tx)' <=> phase = "committed"
    BY <1>0, <1>5, <2>1, OneMoves
  <2>3. ~Blocked(tx) BY <1>4, PhasesAre DEF Blocked, IsCommitted
  <2> QED BY <2>1, <2>2, <2>3
<1>7. \/ Track /\ proc.at = "track" /\ proc' = NoProc
         /\ (op' = op \/ op' = NoOp)
         /\ (fact' = fact \/ fact' = Fact("switched", tx))
      \/ UNCHANGED <<proc, op, fact>> /\ Phase(tx) = "draining"
  BY <1>4 DEF Track, Drained, At, Release
<1>8. RolloutTyped'
  <2>1. proc' \in LockCalls /\ op' \in Operations(Len(journal)) BY <1>0, <1>7 DEF RolloutTyped
  <2>2. tx \in 0..MaxTx /\ fact \in Facts
    <3>1. tx \in 1..Len(journal) /\ fact \in Facts BY <1>0 DEF RolloutTyped, Txs
    <3> QED BY <1>0, <3>1, RolloutIsBounded
  <2>3. fact' \in Facts BY <1>7, <2>2 DEF Fact, Facts
  <2> QED BY <1>0, <1>1, <1>6, <2>1, <2>3 DEF RolloutTyped, Operations, Facts, LockCalls
<1>9. MemoryFits' BY <1>1 DEF MemoryFits
<1>10. proc.at = "track" => \A u \in Txs : ~Blocked(u)
  <2>1. proc.at = "track" => ready.tx = 0 BY <1>1 DEF TrackFits
  <2> QED BY <1>1, <2>1 DEF CandidateFits, Stages, Txs
<1>11. CandidateFits' BY <1>1, <1>6, <1>7, <1>10 DEF CandidateFits
<1>12. PointersFit'
  <2>1. \A u \in Txs : Blocked(u) => u # tx BY <1>6
  <2> QED BY <1>1, <1>6, <2>1 DEF PointersFit, Pair
<1>13. StagingFits'
  <2>1. CASE proc' = NoProc BY <2>1 DEF StagingFits, NoProc, Stages
  <2>2. CASE UNCHANGED proc /\ Phase(tx) = "draining"
    <3>1. NoneBlocked => NoneBlocked' BY <1>6 DEF NoneBlocked
    <3>2. proc.at \in Stages \cup {"abort"} => Newest \in Txs /\ Newest # tx /\ Newest > 0
      BY <1>0, <2>2 DEF StagingFits, StagePhase, Stages, Txs, Newest
    <3>3. proc.at \in Stages \cup {"abort"} =>
            Phase(Newest)' = Phase(Newest) /\ Base(Newest)' = Base(Newest) /\ Rev(Newest)' = Rev(Newest)
      BY <1>6, <3>2
    <3>a. /\ proc.at \in {"manifest", "found"} => ready.tx = 0 /\ Newest < MaxTx /\ NoneBlocked
          /\ proc.at = "manifest" => proc.who = "install"
          /\ proc.at = "unpoint" => ready.tx = 0
      BY DEF StagingFits
    <3>4. proc.at \in Stages => (/\ ready.tx = 0 /\ Newest > 0 /\ Phase(Newest) = StagePhase[proc.at]
                                 /\ disk = Pair(Base(Newest), Rev(Newest)))'
      BY <1>1, <1>6, <2>2, <3>3 DEF StagingFits, StagePhase, Pair
    <3>5. proc.at = "abort" => (/\ ready.tx = 0 /\ Newest > 0
                                /\ Phase(Newest) \in {"prepared", "validating", "commit_started"}
                                /\ disk = Pair(Base(Newest), Base(Newest)))'
      BY <1>1, <1>6, <2>2, <3>3 DEF StagingFits, Pair
    <3> QED BY <1>1, <1>6, <2>2, <3>1, <3>a, <3>4, <3>5 DEF StagingFits
  <2> QED BY <1>7, <2>1, <2>2
<1>14. TrackFits'
  <2>1. CASE proc.at = "track" /\ proc' = NoProc /\ Track
    <3>1. tx = Committed /\ IsCommitted(tx)
      <4>1. ~Drained(tx) \/ UNCHANGED proc BY DEF Drained
      <4>2. proc.at # "idle" /\ proc' # proc BY <2>1 DEF NoProc
      <4> QED BY <1>4, <4>1, <4>2
    <3>2. \A u \in Txs : IsCommitted(u) => u = tx BY <1>1, <3>1 DEF TrackFits
    <3>3. \A u \in Txs : ~IsCommitted(u)' BY <1>6, <3>2
    <3> QED BY <1>6, <2>1, <3>3 DEF TrackFits, NoProc
  <2>2. CASE UNCHANGED proc /\ Phase(tx) = "draining"
    <3>1. ~IsCommitted(tx) BY <2>2 DEF IsCommitted
    <3>2. \A u \in Txs : (IsCommitted(u)' <=> IsCommitted(u)) /\ Rev(u)' = Rev(u) BY <1>6, <3>1
    <3> QED BY <1>1, <1>6, <2>2, <3>2 DEF TrackFits, Pair
  <2> QED BY <1>7, <2>1, <2>2
<1>15. ReadyFits'
  <2>1. CASE ready.tx = 0 BY <1>1, <2>1 DEF ReadyFits
  <2>2. CASE ready.tx # 0
    <3>1. UNCHANGED proc BY <1>1, <1>7, <2>2 DEF TrackFits
    <3>2. ready.tx \in Txs /\ ready.tx # tx
      BY <1>6, <2>2, ReadyIs
    <3>3. /\ Phase(ready.tx)' = Phase(ready.tx) /\ Base(ready.tx)' = Base(ready.tx)
          /\ Candidate' = Candidate
      BY <1>1, <1>6, <3>2 DEF Candidate, Rev
    <3>4. (Restorable' <=> Restorable) /\ (ReadyPointersFit' <=> ReadyPointersFit)
      BY <1>1, <3>1, <3>3 DEF Restorable, Promotable, ReadyPointersFit, Pair
    <3> QED BY <1>1, <2>2, <3>1, <3>3, <3>4 DEF ReadyFits, Pair
  <2> QED BY <2>1, <2>2
<1>16. CallFits'
  <2>1. CASE proc' = NoProc BY <1>1, <2>1 DEF CallFits, NoProc, Promotes, Drops
  <2>2. CASE UNCHANGED <<proc, op>> BY <1>1, <2>2 DEF CallFits
  <2> QED BY <1>7, <2>1, <2>2
<1>17. OperationFits'
  <2>1. CASE proc.at = "track" /\ proc' = NoProc /\ (op' = op \/ op' = NoOp)
    BY <1>1, <2>1 DEF OperationFits, NoProc, NoOp
  <2>2. CASE UNCHANGED <<proc, op>> BY <1>1, <2>2 DEF OperationFits
  <2> QED BY <1>7, <2>1, <2>2
<1> QED BY <1>8, <1>9, <1>11, <1>12, <1>13, <1>14, <1>15, <1>16, <1>17
----------------------------------------------------------------------------
(* Staging *)

\* An install that only wrote its pointer, or took it back, or listed the entry.
LEMMA InstallsKeep ==
  ASSUME RolloutInv, (\E t \in Owners, rev \in 1..MaxRev : Install(t, rev)) \/ InstallListed
  PROVE  RolloutInv'
<1> USE DEF RolloutInv
<1>0. /\ RolloutTyped /\ proc \in LockCalls /\ \A s \in CallSteps : [proc EXCEPT !.at = s] \in LockCalls
      /\ NoProc \in LockCalls /\ Len(journal) \in Nat /\ Len(journal) <= MaxTx
  BY RecordsAre DEF RolloutTyped
<1>1. /\ UNCHANGED <<journal, fact, up, serving, ready, op, reverting, stage, child, deaths>> /\ up = "up"
      /\ ready.tx = 0 /\ NoneBlocked /\ Newest < MaxTx /\ op.at = "none"
      /\ disk'.stable = disk.stable /\ disk'.latest \in Revs /\ disk' \in [stable : Revs, latest : Revs]
      /\ proc.at \in {"idle", "manifest"}
  <2>0. disk \in [stable : Revs, latest : Revs] BY <1>0 DEF RolloutTyped
  <2>1. ASSUME NEW t \in Owners, NEW rev \in 1..MaxRev, Install(t, rev)
        PROVE  /\ UNCHANGED <<journal, fact, up, serving, ready, op, reverting, stage, child, deaths>> /\ up = "up"
               /\ ready.tx = 0 /\ NoneBlocked /\ Newest < MaxTx /\ op.at = "none"
               /\ disk'.stable = disk.stable /\ disk'.latest \in Revs /\ disk' \in [stable : Revs, latest : Revs]
               /\ proc.at = "idle"
    <3>1. rev \in Revs BY RolloutIsBounded DEF Revs
    <3>2. NoneBlocked BY <2>1 DEF Install, NoneBlocked, Blocked
    <3> QED BY <2>0, <2>1, <3>1, <3>2 DEF Install, Free, Idle, NoReady
  <2>2. CASE InstallListed
    <3>1. ready.tx = 0 /\ NoneBlocked /\ Newest < MaxTx /\ op.at = "none"
      BY <2>2 DEF InstallListed, At, StagingFits, OperationFits
    <3> QED BY <2>0, <2>2, <3>1 DEF InstallListed, At
  <2> QED BY <2>1, <2>2
<1>2. /\ manifest' \in {"absent", "on", "off"} /\ proc' \in LockCalls
      /\ \/ proc'.at = "manifest" /\ proc'.who = "install" /\ manifest' = manifest
         \/ proc'.at = "found" /\ proc'.who = "install" /\ manifest' = "on"
         \/ proc' = NoProc /\ manifest' = manifest
  <2>1. ASSUME NEW t \in Owners, NEW rev \in 1..MaxRev, Install(t, rev)
        PROVE  proc' \in LockCalls /\ proc'.at = "manifest" /\ proc'.who = "install" /\ manifest' = manifest
    <3>1. proc' = [NoProc EXCEPT !.at = "manifest", !.who = "install", !.owner = t] BY <2>1 DEF Install
    <3>2. "manifest" \in CallSteps /\ "install" \in Askers /\ t \in Someone BY DEF CallSteps, Askers, Someone
    <3> QED BY <1>0, <2>1, <3>1, <3>2 DEF Install, LockCalls, NoProc
  <2>2. CASE InstallListed
    <3>1. "found" \in CallSteps BY DEF CallSteps
    <3>2. proc.who = "install" BY <2>2 DEF InstallListed, At, StagingFits
    <3> QED BY <1>0, <2>2, <3>1, <3>2 DEF InstallListed, Goto, Release, LockCalls, RolloutTyped
  <2> QED BY <1>0, <2>1, <2>2 DEF RolloutTyped
<1>3. RolloutTyped' BY <1>0, <1>1, <1>2 DEF RolloutTyped, Operations, Facts, LockCalls
<1>4. MemoryFits' BY <1>1 DEF MemoryFits
<1>5. /\ Txs' = Txs /\ Newest' = Newest
      /\ \A u \in Txs : ~Blocked(u) /\ ~Blocked(u)' /\ (IsCommitted(u)' <=> IsCommitted(u))
  BY <1>1 DEF NoneBlocked, Blocked, IsCommitted, Txs, Phase, Newest
<1>6. CandidateFits' /\ PointersFit' BY <1>5 DEF CandidateFits, PointersFit
<1>7. NoneBlocked' BY <1>5 DEF NoneBlocked
<1>8. proc'.at \in {"idle", "manifest", "found"} BY <1>2 DEF NoProc
<1>9. StagingFits'
  <2>1. proc'.at = "manifest" => proc'.who = "install" BY <1>2 DEF NoProc
  <2> QED BY <1>1, <1>5, <1>7, <1>8, <2>1 DEF StagingFits, Stages
<1>10. TrackFits' BY <1>1, <1>5, <1>8 DEF TrackFits
<1>11. ReadyFits' BY <1>1 DEF ReadyFits
<1>12. CallFits' BY <1>1, <1>8 DEF CallFits, Promotes, Drops
<1>13. OperationFits'
  <2>1. proc'.who = "install" => (proc'.at # "manifest" => manifest' = "on") BY <1>2 DEF NoProc
  <2> QED BY <1>1, <2>1 DEF OperationFits
<1> QED BY <1>3, <1>4, <1>6, <1>9, <1>10, <1>11, <1>12, <1>13

\* The transaction begins over the pointers that were found.
LEMMA BeginKeeps ==
  ASSUME RolloutInv, Begin
  PROVE  RolloutInv'
<1> USE DEF RolloutInv
<1>0. /\ RolloutTyped /\ proc \in LockCalls /\ \A s \in CallSteps : [proc EXCEPT !.at = s] \in LockCalls
      /\ Len(journal) \in Nat /\ Len(journal) <= MaxTx /\ journal \in Seq(Entries)
      /\ disk \in [stable : Revs, latest : Revs]
  BY RecordsAre DEF RolloutTyped
<1>1. /\ UNCHANGED <<disk, manifest, fact, up, serving, ready, op, reverting, stage, child, deaths>>
      /\ up = "up" /\ proc.at = "found" /\ disk.latest \notin {0, serving}
      /\ ready.tx = 0 /\ Newest < MaxTx /\ NoneBlocked
  BY DEF Begin, At, Changed, StagingFits
<1>2. proc' \in LockCalls /\ proc'.at = "load" /\ proc'.who = proc.who
  <2>1. "load" \in CallSteps /\ proc' = [proc EXCEPT !.at = "load"] BY DEF Begin, Goto, CallSteps, Stages
  <2> QED BY <1>0, <2>1 DEF LockCalls
<1>3. PICK entry \in Entries :
        /\ entry.rev = disk.latest /\ entry.base = disk.stable /\ entry.phase = "preparing"
        /\ journal' = Append(journal, entry)
  BY <1>0, PhasesAre DEF Begin, Entries
<1>4. /\ journal' \in Seq(Entries) /\ Len(journal') = Len(journal) + 1
      /\ \A u \in Txs : journal'[u] = journal[u]
      /\ journal'[Len(journal) + 1] = entry
  BY <1>0, <1>3, AppendProperties DEF Txs
<1>5. PICK new \in Nat : new = Len(journal) + 1 BY <1>0
<1>6. /\ Newest' = new /\ new > 0 /\ new <= MaxTx /\ new \notin Txs
      /\ \A u : u \in Txs' <=> u \in Txs \/ u = new
      /\ \A u \in Txs : (Blocked(u)' <=> Blocked(u)) /\ (IsCommitted(u)' <=> IsCommitted(u)) /\ Rev(u)' = Rev(u)
      /\ Phase(new)' = "preparing" /\ Rev(new)' = disk.latest /\ Base(new)' = disk.stable
  <2>1. Newest' = new /\ new > 0 /\ new <= MaxTx /\ new \notin Txs
    BY <1>0, <1>1, <1>4, <1>5, RolloutIsBounded DEF Txs, Newest
  <2>2. \A u : u \in Txs' <=> u \in Txs \/ u = new BY <1>0, <1>4, <1>5 DEF Txs
  <2>3. \A u \in Txs : Phase(u)' = Phase(u) /\ Rev(u)' = Rev(u) BY <1>4 DEF Phase, Rev
  <2>4. Phase(new)' = "preparing" /\ Rev(new)' = disk.latest /\ Base(new)' = disk.stable
    BY <1>3, <1>4, <1>5 DEF Phase, Rev, Base
  <2> QED BY <2>1, <2>2, <2>3, <2>4 DEF Blocked, IsCommitted
<1>7. Blocked(new)' /\ ~IsCommitted(new)' BY <1>6, PhasesAre DEF Blocked, IsCommitted
<1>8. \A u \in Txs : ~Blocked(u) BY <1>1 DEF NoneBlocked
<1>9. RolloutTyped'
  <2>1. Len(journal') <= MaxTx /\ \A n : n \in 0..Len(journal) => n \in 0..Len(journal')
    BY <1>0, <1>4, <1>5, <1>6
  <2>2. /\ ready.tx \in 0..Len(journal) /\ ready \in [tx : 0..Len(journal), prev : Revs]
        /\ child \in [tx : 0..Len(journal), owner : Someone] /\ op \in Operations(Len(journal))
    BY <1>0 DEF RolloutTyped
  <2>3. /\ ready \in [tx : 0..Len(journal'), prev : Revs]
        /\ child \in [tx : 0..Len(journal'), owner : Someone] /\ op \in Operations(Len(journal'))
    BY <2>1, <2>2 DEF Operations
  <2>4. op' \in Operations(Len(journal'))  BY <1>1, <2>3
  <2> QED BY <1>0, <1>1, <1>2, <1>4, <2>1, <2>3, <2>4 DEF RolloutTyped, Facts, LockCalls, Operations
<1>10. MemoryFits' BY <1>1 DEF MemoryFits
<1>11. CandidateFits' BY <1>2, <1>6, <1>7, <1>8 DEF CandidateFits, Stages
<1>12. PointersFit'
  <2>1. disk = Pair(disk.stable, disk.latest) BY <1>0 DEF Pair
  <2> QED BY <1>1, <1>6, <1>8, <2>1 DEF PointersFit, Pair
<1>13. StagingFits'
  <2>1. disk = Pair(disk.stable, disk.latest) BY <1>0 DEF Pair
  <2>2. /\ ready'.tx = 0 /\ Newest' > 0 /\ Phase(Newest)' = "preparing"
        /\ Base(Newest)' = disk.stable /\ Rev(Newest)' = disk.latest
    BY <1>1, <1>6
  <2> QED BY <1>1, <1>2, <2>1, <2>2 DEF StagingFits, StagePhase, Pair
<1>14. TrackFits' BY <1>1, <1>2, <1>6, <1>7 DEF TrackFits
<1>15. ReadyFits' BY <1>1 DEF ReadyFits
<1>16. CallFits' BY <1>1, <1>2 DEF CallFits, Promotes, Drops
<1>17. OperationFits' BY <1>1, <1>2 DEF OperationFits
<1> QED BY <1>9, <1>10, <1>11, <1>12, <1>13, <1>14, <1>15, <1>16, <1>17

\* While a candidate is staged it is the newest transaction, and nothing else is open.
LEMMA StagedIs ==
  ASSUME RolloutInv, proc.at \in Stages \cup {"abort"}
  PROVE  /\ up = "up" /\ ready.tx = 0
         /\ journal \in Seq(Entries) /\ Len(journal) \in Nat /\ Newest = Len(journal) /\ Newest \in Txs
         /\ Blocked(Newest) /\ \A u \in Txs : Blocked(u) => u = Newest
         /\ \A u \in Txs : ~IsCommitted(u)
         /\ ~(op.at \in {"open", "switch"} /\ op.kind = "install")
         /\ op.at \notin {"drain", "remove", "forget"} \/ (op.at = "drain" /\ manifest = "off")
<1> USE DEF RolloutInv
<1>1. up = "up" /\ ready.tx = 0 /\ Newest > 0
  BY DEF MemoryFits, NoProc, StagingFits, Stages
<1>2. journal \in Seq(Entries) /\ Len(journal) \in Nat /\ Newest = Len(journal) /\ Newest \in Txs
  <2>1. journal \in Seq(Entries) BY DEF RolloutTyped
  <2> QED BY <1>1, <2>1 DEF Newest, Txs
<1>3. Blocked(Newest) BY PhasesAre DEF StagingFits, StagePhase, Stages, Blocked
<1>4. \A u \in Txs : Blocked(u) => u = Newest BY <1>2, <1>3 DEF CandidateFits
<1>5. \A u \in Txs : ~IsCommitted(u) BY <1>1 DEF TrackFits, Stages
<1>6. /\ ~(op.at \in {"open", "switch"} /\ op.kind = "install")
      /\ op.at \notin {"drain", "remove", "forget"} \/ (op.at = "drain" /\ manifest = "off")
  BY <1>1 DEF OperationFits, Stages
<1> QED BY <1>1, <1>2, <1>3, <1>4, <1>5, <1>6

\* A candidate goes from phase to phase, or is given up: the journal and the pointers.
LEMMA StagesKeep ==
  ASSUME RolloutInv, Prepare \/ LoadFails \/ PublishFails
  PROVE  RolloutInv'
<1> USE DEF RolloutInv
<1>0. /\ RolloutTyped /\ proc \in LockCalls /\ \A s \in CallSteps : [proc EXCEPT !.at = s] \in LockCalls
      /\ Len(journal) <= MaxTx /\ disk \in [stable : Revs, latest : Revs]
  BY RecordsAre DEF RolloutTyped
<1>1. proc.at \in Stages BY DEF Prepare, LoadFails, PublishFails, At, NextStep, Stages
<1>2. PICK new \in Txs : new = Newest BY <1>1, StagedIs
<1>3. /\ up = "up" /\ ready.tx = 0
      /\ journal \in Seq(Entries) /\ Len(journal) \in Nat /\ new = Len(journal)
      /\ Blocked(new) /\ \A u \in Txs : Blocked(u) => u = new
      /\ \A u \in Txs : ~IsCommitted(u)
      /\ ~(op.at \in {"open", "switch"} /\ op.kind = "install")
      /\ op.at \notin {"drain", "remove", "forget"} \/ (op.at = "drain" /\ manifest = "off")
  BY <1>1, <1>2, StagedIs
<1>4. Phase(new) = StagePhase[proc.at] /\ disk = Pair(Base(new), Rev(new)) BY <1>1, <1>2 DEF StagingFits
<1>5. UNCHANGED <<manifest, fact, up, serving, ready, op, reverting, stage, child, deaths>>
  BY DEF Prepare, LoadFails, PublishFails
<1>6. \E phase \in {"preparing", "prepared", "validating", "commit_started", "aborted"} :
        /\ Moved(new, phase) /\ disk' \in {disk, Pair(Base(new), Base(new))}
        /\ proc' \in LockCalls /\ proc'.who = proc.who
        /\ \/ proc'.at \in Stages /\ phase = StagePhase[proc'.at] /\ disk' = disk
           \/ proc'.at = "unpoint" /\ phase = "aborted" /\ disk' = disk
           \/ /\ proc'.at = "abort" /\ phase \in {"prepared", "validating", "commit_started"}
              /\ disk' = Pair(Base(new), Base(new))
  <2>0. \A s \in Stages \cup {"unpoint", "abort"} : s \in CallSteps BY DEF CallSteps
  <2>1. CASE Prepare
    <3>1. \E s \in {"publish", "validate", "open"} :
            proc' = [proc EXCEPT !.at = s] /\ journal' = Advanced(new, StagePhase[s])
      BY <1>2, <2>1 DEF Prepare, NextStep, NextPhase, StagePhase, Goto
    <3>2. PICK s \in {"publish", "validate", "open"} :
            proc' = [proc EXCEPT !.at = s] /\ journal' = Advanced(new, StagePhase[s])
      BY <3>1
    <3>3. StagePhase[s] \in {"prepared", "validating", "commit_started"} BY DEF StagePhase
    <3>4. Moved(new, StagePhase[s]) BY <1>3, <3>2, <3>3, Advance, PhasesAre
    <3>5. s \in Stages /\ proc' \in LockCalls /\ proc'.at = s /\ proc'.who = proc.who
      BY <1>0, <2>0, <3>2 DEF LockCalls, Stages
    <3> QED BY <2>1, <3>3, <3>4, <3>5 DEF Prepare
  <2>2. CASE LoadFails
    <3>1. proc' = [proc EXCEPT !.at = "unpoint"] /\ journal' = Advanced(new, "aborted") /\ disk' = disk
      BY <1>2, <2>2 DEF LoadFails, Goto
    <3>2. Moved(new, "aborted") BY <1>3, <3>1, Advance, PhasesAre
    <3>3. proc' \in LockCalls /\ proc'.at = "unpoint" /\ proc'.who = proc.who BY <1>0, <2>0, <3>1 DEF LockCalls
    <3> QED BY <3>1, <3>2, <3>3
  <2>3. CASE PublishFails
    <3>1. /\ proc' = [proc EXCEPT !.at = "abort"] /\ journal' = journal
          /\ disk' = [disk EXCEPT !.latest = disk.stable] /\ proc.at \in {"publish", "validate", "open"}
      BY <2>3 DEF PublishFails, Goto
    <3>2. Moved(new, Phase(new)) BY <1>3, <3>1 DEF Moved, Phase
    <3>3. Phase(new) \in {"prepared", "validating", "commit_started"} BY <1>4, <3>1 DEF StagePhase
    <3>4. proc' \in LockCalls /\ proc'.at = "abort" /\ proc'.who = proc.who BY <1>0, <2>0, <3>1 DEF LockCalls
    <3>5. disk' = Pair(Base(new), Base(new)) BY <1>4, <3>1 DEF Pair
    <3> QED BY <3>2, <3>3, <3>4, <3>5
  <2> QED BY <2>1, <2>2, <2>3
<1>7. PICK phase \in {"preparing", "prepared", "validating", "commit_started", "aborted"} :
        /\ Moved(new, phase) /\ disk' \in {disk, Pair(Base(new), Base(new))}
        /\ proc' \in LockCalls /\ proc'.who = proc.who
        /\ \/ proc'.at \in Stages /\ phase = StagePhase[proc'.at] /\ disk' = disk
           \/ proc'.at = "unpoint" /\ phase = "aborted" /\ disk' = disk
           \/ /\ proc'.at = "abort" /\ phase \in {"prepared", "validating", "commit_started"}
              /\ disk' = Pair(Base(new), Base(new))
  BY <1>6
<1>8. /\ journal' \in Seq(Entries) /\ Len(journal') = Len(journal) /\ Txs' = Txs /\ Newest' = new
      /\ \A u \in Txs :
           /\ Rev(u)' = Rev(u) /\ Base(u)' = Base(u)
           /\ u # new => ~Blocked(u)'
           /\ ~IsCommitted(u)'
      /\ Phase(new)' = phase
      /\ Blocked(new)' <=> phase # "aborted"
  <2>1. phase \in Phases /\ (phase \in Blocking <=> phase # "aborted") /\ phase # "committed" BY PhasesAre
  <2>2. /\ journal' \in Seq(Entries) /\ Len(journal') = Len(journal) /\ Txs' = Txs /\ Newest' = Newest
        /\ \A u \in Txs :
             /\ Rev(u)' = Rev(u) /\ Base(u)' = Base(u)
             /\ u # new => (Blocked(u)' <=> Blocked(u))
             /\ u # new => (IsCommitted(u)' <=> IsCommitted(u))
        /\ Phase(new)' = phase
        /\ Blocked(new)' <=> phase \in Blocking
        /\ IsCommitted(new)' <=> phase = "committed"
    BY <1>3, <1>7, <2>1, OneMoves
  <2> QED BY <1>2, <1>3, <2>1, <2>2
<1>9. proc'.at \in Stages \cup {"unpoint", "abort"} /\ (Blocked(new)' <=> proc'.at \in Stages \cup {"abort"})
  BY <1>7, <1>8 DEF Stages, StagePhase
<1>10. disk' \in [stable : Revs, latest : Revs] /\ disk'.stable = disk.stable
  <2>1. journal[new] \in Entries BY <1>3 DEF Txs
  <2>2. Base(new) \in Revs BY <2>1 DEF Base, Entries
  <2> QED BY <1>0, <1>4, <1>7, <2>2 DEF Pair
<1>11. RolloutTyped' BY <1>0, <1>5, <1>7, <1>8, <1>10 DEF RolloutTyped, Operations, Facts, LockCalls
<1>12. MemoryFits' BY <1>3, <1>5 DEF MemoryFits
<1>13. CandidateFits' BY <1>8, <1>9 DEF CandidateFits
<1>14. PointersFit' BY <1>4, <1>7, <1>8 DEF PointersFit, Pair
<1>15. StagingFits'
  <2>1. Rev(new)' = Rev(new) /\ Base(new)' = Base(new) /\ Newest' > 0 /\ ready'.tx = 0
    BY <1>3, <1>5, <1>8 DEF Txs
  <2>2. Phase(Newest)' = phase /\ Rev(Newest)' = Rev(new) /\ Base(Newest)' = Base(new)
    BY <1>8, <2>1
  <2>3. proc'.at \in Stages => phase = StagePhase[proc'.at] /\ disk' = Pair(Base(new), Rev(new))
    BY <1>4, <1>7 DEF Stages
  <2>4. proc'.at = "abort" =>
          phase \in {"prepared", "validating", "commit_started"} /\ disk' = Pair(Base(new), Base(new))
    BY <1>7 DEF Stages
  <2> QED BY <1>9, <2>1, <2>2, <2>3, <2>4 DEF StagingFits, Stages, Pair
<1>16. TrackFits' BY <1>8, <1>9 DEF TrackFits, Stages
<1>17. ReadyFits' BY <1>3, <1>5 DEF ReadyFits
<1>18. CallFits' BY <1>3, <1>5, <1>9, <1>10 DEF CallFits, Stages, Promotes, Drops
<1>19. OperationFits' BY <1>1, <1>3, <1>5, <1>7, <1>9 DEF OperationFits, Stages
<1> QED BY <1>11, <1>12, <1>13, <1>14, <1>15, <1>16, <1>17, <1>18, <1>19

\* The end of staging: the candidate is ready, or serves at once, or is given up.
LEMMA StagingEnds ==
  ASSUME RolloutInv, StagingGivenUp \/ CandidateReady \/ PublishAtOnce
  PROVE  RolloutInv'
<1> USE DEF RolloutInv
<1>0. /\ RolloutTyped /\ proc \in LockCalls /\ \A s \in CallSteps : [proc EXCEPT !.at = s] \in LockCalls
      /\ Len(journal) <= MaxTx /\ disk \in [stable : Revs, latest : Revs] /\ serving \in Revs
      /\ NoProc \in LockCalls /\ NoOp \in Operations(Len(journal))
  BY RecordsAre DEF RolloutTyped
<1>1. CASE StagingGivenUp /\ proc.at = "unpoint"
  <2>1. /\ UNCHANGED <<manifest, journal, fact, up, serving, ready, op, reverting, stage, child,
                       deaths>>
        /\ disk' = [disk EXCEPT !.latest = disk.stable] /\ proc' = NoProc
    BY <1>1 DEF StagingGivenUp, At, Release
  <2>2. up = "up" /\ ready.tx = 0 BY <1>1 DEF StagingGivenUp, At, StagingFits
  <2>3. /\ \A u \in Txs : ~Blocked(u) /\ ~Blocked(u)' /\ (IsCommitted(u)' <=> IsCommitted(u))
        /\ Txs' = Txs
    <3>1. \A u \in Txs : ~Blocked(u) BY <1>1, <2>2 DEF CandidateFits, Stages, Txs
    <3> QED BY <2>1, <3>1 DEF Blocked, IsCommitted, Txs, Phase
  <2>4. proc'.at = "idle" /\ proc'.who = "nobody" BY <2>1 DEF NoProc
  <2>5. RolloutTyped' BY <1>0, <2>1 DEF RolloutTyped, Operations, Facts, LockCalls
  <2>6. MemoryFits' BY <2>1, <2>2 DEF MemoryFits
  <2>7. CandidateFits' /\ PointersFit' BY <2>3 DEF CandidateFits, PointersFit
  <2>8. StagingFits' BY <2>4 DEF StagingFits, Stages
  <2>9. TrackFits' BY <1>1, <2>2, <2>3, <2>4 DEF TrackFits
  <2>10. ReadyFits' BY <2>1, <2>2 DEF ReadyFits
  <2>11. CallFits'
    <3>1. disk'.stable = disk.stable BY <1>0, <2>1
    <3> QED BY <2>1, <2>4, <3>1 DEF CallFits, Promotes, Drops
  <2>12. OperationFits' BY <1>1, <2>1, <2>2, <2>4 DEF OperationFits
  <2> QED BY <2>5, <2>6, <2>7, <2>8, <2>9, <2>10, <2>11, <2>12
<1>2. CASE (StagingGivenUp /\ proc.at = "abort") \/ CandidateReady \/ PublishAtOnce
  <2>1. proc.at \in {"abort", "open"} /\ proc.at \in Stages \cup {"abort"}
    BY <1>2 DEF StagingGivenUp, CandidateReady, PublishAtOnce, At, Stages
  <2>2. PICK new \in Txs : new = Newest BY <2>1, StagedIs
  <2>3. /\ up = "up" /\ ready.tx = 0
        /\ journal \in Seq(Entries) /\ Len(journal) \in Nat /\ new = Len(journal)
        /\ Blocked(new) /\ \A u \in Txs : Blocked(u) => u = new
        /\ \A u \in Txs : ~IsCommitted(u)
        /\ ~(op.at \in {"open", "switch"} /\ op.kind = "install")
        /\ op.at \notin {"drain", "remove", "forget"} \/ (op.at = "drain" /\ manifest = "off")
    BY <2>1, <2>2, StagedIs
  <2>4. proc.at = "open" => disk = Pair(Base(new), Rev(new)) BY <2>1, <2>2 DEF StagingFits, Stages
  <2>5. UNCHANGED <<disk, manifest, fact, up, reverting, stage, child, deaths>>
    BY <1>2 DEF StagingGivenUp, CandidateReady, PublishAtOnce, At
  <2>6. PICK phase \in {"aborted", "latest_ready", "committed"} :
          /\ Moved(new, phase)
          /\ \/ /\ phase = "aborted" /\ proc' = NoProc /\ UNCHANGED <<op, serving, ready>>
             \/ /\ phase = "latest_ready" /\ proc.at = "open" /\ Staged /\ proc' = NoProc
                /\ ready' = [tx |-> new, prev |-> serving] /\ UNCHANGED serving
                /\ \/ op' = op
                   \/ /\ op' = [NoOp EXCEPT !.at = "open", !.owner = proc.owner, !.tx = new]
                      /\ proc.who = "install"
             \/ /\ phase = "committed" /\ proc.at = "open" /\ ~Staged
                /\ proc' = [proc EXCEPT !.at = "track"] /\ serving' = disk.latest /\ UNCHANGED <<op, ready>>
    <3>1. CASE StagingGivenUp /\ proc.at = "abort"
      <4>1. /\ journal' = Advanced(new, "aborted") /\ proc' = NoProc /\ UNCHANGED <<op, serving, ready>>
        BY <2>2, <3>1 DEF StagingGivenUp, At, Release
      <4>2. Moved(new, "aborted") BY <2>3, <4>1, Advance, PhasesAre
      <4> QED BY <4>1, <4>2
    <3>2. CASE CandidateReady
      <4>1. /\ journal' = Advanced(new, "latest_ready") /\ proc.at = "open" /\ Staged /\ proc' = NoProc
            /\ ready' = [tx |-> new, prev |-> serving] /\ UNCHANGED serving
            /\ \/ op' = op
               \/ /\ op' = [NoOp EXCEPT !.at = "open", !.owner = proc.owner, !.tx = new]
                  /\ proc.who = "install"
        BY <2>2, <3>2 DEF CandidateReady, At, Release
      <4>2. Moved(new, "latest_ready") BY <2>3, <4>1, Advance, PhasesAre
      <4> QED BY <4>1, <4>2
    <3>3. CASE PublishAtOnce
      <4>1. /\ journal' = Advanced(new, "committed") /\ proc.at = "open" /\ ~Staged
            /\ proc' = [proc EXCEPT !.at = "track"] /\ serving' = disk.latest /\ UNCHANGED <<op, ready>>
        BY <2>2, <3>3 DEF PublishAtOnce, At, Goto
      <4>2. Moved(new, "committed") BY <2>3, <4>1, Advance, PhasesAre
      <4> QED BY <4>1, <4>2
    <3> QED BY <1>2, <3>1, <3>2, <3>3
  <2>7. /\ journal' \in Seq(Entries) /\ Len(journal') = Len(journal) /\ Txs' = Txs /\ Newest' = new
        /\ \A u \in Txs :
             /\ Rev(u)' = Rev(u) /\ Base(u)' = Base(u)
             /\ u # new => ~Blocked(u)' /\ ~IsCommitted(u)'
        /\ Phase(new)' = phase
        /\ Blocked(new)' <=> phase = "latest_ready"
        /\ IsCommitted(new)' <=> phase = "committed"
    <3>1. phase \in Phases /\ (phase \in Blocking <=> phase = "latest_ready") BY PhasesAre
    <3>2. /\ journal' \in Seq(Entries) /\ Len(journal') = Len(journal) /\ Txs' = Txs /\ Newest' = Newest
          /\ \A u \in Txs :
               /\ Rev(u)' = Rev(u) /\ Base(u)' = Base(u)
               /\ u # new => (Blocked(u)' <=> Blocked(u))
               /\ u # new => (IsCommitted(u)' <=> IsCommitted(u))
          /\ Phase(new)' = phase
          /\ Blocked(new)' <=> phase \in Blocking
          /\ IsCommitted(new)' <=> phase = "committed"
      BY <2>3, <2>6, <3>1, OneMoves
    <3> QED BY <2>2, <2>3, <3>1, <3>2
  <2>8. /\ proc' \in LockCalls /\ proc'.at \in {"idle", "track"} /\ (proc'.at = "track" <=> phase = "committed")
        /\ proc'.who = "install" => proc.who = "install" /\ phase = "committed"
    <3>1. "track" \in CallSteps BY DEF CallSteps
    <3>2. CASE phase = "committed" BY <1>0, <2>6, <3>1, <3>2 DEF LockCalls
    <3>3. CASE phase # "committed"
      <4>1. proc' = NoProc BY <2>6, <3>3
      <4>2. NoProc.at = "idle" /\ NoProc.who = "nobody" BY DEF NoProc
      <4> QED BY <1>0, <3>3, <4>1, <4>2
    <3> QED BY <3>2, <3>3
  <2>9. IF phase = "latest_ready" THEN ready'.tx = new /\ ready'.prev = serving ELSE ready' = ready /\ ready'.tx = 0
    BY <2>3, <2>6
  <2>10. RolloutTyped'
    <3>1. new \in 0..Len(journal') BY <2>3, <2>7
    <3>2. ready' \in [tx : 0..Len(journal'), prev : Revs]
      BY <1>0, <2>6, <2>7, <3>1 DEF RolloutTyped
    <3>3. op' \in Operations(Len(journal'))
      <4>1. CASE op' = op BY <1>0, <2>7, <4>1 DEF RolloutTyped
      <4>2. CASE op' = [NoOp EXCEPT !.at = "open", !.owner = proc.owner, !.tx = new]
        <5>1. "open" \in OpSteps /\ proc.owner \in Someone BY <1>0 DEF OpSteps, LockCalls
        <5>2. NoOp \in Operations(Len(journal')) BY <1>0, <2>7
        <5> QED BY <3>1, <4>2, <5>1, <5>2 DEF Operations
      <4> QED BY <2>6, <4>1, <4>2
    <3>4. serving' \in Revs BY <1>0, <2>6
    <3>5. /\ stage \in [Owners -> {"new", "running", "over"}] /\ deaths \in 0..MaxDeaths /\ fact \in Facts
          /\ child \in [tx : 0..Len(journal'), owner : Someone] /\ reverting \in BOOLEAN
          /\ manifest \in {"absent", "on", "off"}
      BY <1>0, <2>7 DEF RolloutTyped
    <3> QED BY <1>0, <2>3, <2>5, <2>7, <2>8, <3>2, <3>3, <3>4, <3>5 DEF RolloutTyped, Operations, Facts, LockCalls
  <2>11. MemoryFits' BY <2>3, <2>5 DEF MemoryFits
  <2>12. CandidateFits' BY <2>7, <2>9 DEF CandidateFits
  <2>13. PointersFit'
    <3>1. phase = "latest_ready" => disk' = Pair(Base(new), Rev(new))' BY <2>4, <2>5, <2>6, <2>7 DEF Pair
    <3> QED BY <2>7, <3>1 DEF PointersFit, Pair
  <2>14. StagingFits' BY <2>8 DEF StagingFits, Stages
  <2>15. phase = "committed" => disk = Pair(Rev(new), Rev(new)) /\ serving' = Rev(new)
    BY <2>4, <2>6 DEF Staged, Pair
  <2>16. TrackFits'
    <3>1. \A u \in Txs' : IsCommitted(u)' <=> u = new /\ phase = "committed" BY <2>7
    <3>2. phase = "committed" => disk' = Pair(Rev(new), Rev(new))' /\ serving' = Rev(new)' /\ ready'.tx = 0
      BY <2>5, <2>7, <2>9, <2>15 DEF Pair
    <3> QED BY <2>7, <2>8, <3>1, <3>2 DEF TrackFits, Pair
  <2>17. CASE phase = "latest_ready"
    <3>1. /\ ready'.tx = new /\ ready'.prev = serving /\ serving' = serving /\ proc'.at = "idle" /\ disk' = disk
          /\ disk = Pair(Base(new), Rev(new)) /\ Base(new) # Rev(new) /\ new # 0
      BY <2>3, <2>4, <2>5, <2>6, <2>8, <2>9, <2>17 DEF Staged, Pair, Txs
    <3>2. Candidate' = Rev(new)' /\ Base(ready.tx)' = Base(new)' /\ Phase(ready.tx)' = phase
      BY <2>7, <3>1 DEF Candidate, Rev
    <3>3. serving # 0 => Base(new) = serving
      <4>1. serving # 0 => disk.stable = serving BY <2>3 DEF CallFits
      <4> QED BY <3>1, <4>1 DEF Pair
    <3>4. ReadyPointersFit' BY <2>7, <3>1, <3>2 DEF ReadyPointersFit, Pair
    <3>5. ReadyFits' BY <2>7, <2>17, <3>1, <3>2, <3>3, <3>4 DEF ReadyFits, Drops
    <3>6. CallFits' BY <3>1 DEF CallFits, Promotes, Drops
    <3>7. OperationFits'
      <4>1. CASE op' = op BY <2>3, <2>5, <2>8, <3>1, <4>1, <2>17 DEF OperationFits
      <4>2. CASE op' = [NoOp EXCEPT !.at = "open", !.owner = proc.owner, !.tx = new] /\ proc.who = "install"
        <5>1. op'.at = "open" /\ op'.tx = new BY <4>2 DEF NoOp
        <5>2. manifest = "on" BY <2>1, <4>2 DEF OperationFits
        <5> QED BY <2>5, <2>8, <2>17, <3>1, <5>1, <5>2 DEF OperationFits
      <4> QED BY <2>6, <2>17, <4>1, <4>2
    <3> QED BY <2>10, <2>11, <2>12, <2>13, <2>14, <2>16, <3>5, <3>6, <3>7
  <2>18. CASE phase # "latest_ready"
    <3>1. ready' = ready /\ ready'.tx = 0 /\ op' = op BY <2>6, <2>9, <2>18
    <3>2. ReadyFits' BY <3>1 DEF ReadyFits
    <3>3. ready' = NoReady /\ (serving' # 0 => disk'.stable = serving')
      BY <2>3, <2>5, <2>6, <2>15, <2>18, <3>1 DEF CallFits, Pair
    <3>4. CallFits' BY <2>8, <3>1, <3>3 DEF CallFits, Promotes, Drops
    <3>5. OperationFits' BY <2>1, <2>3, <2>5, <2>8, <3>1 DEF OperationFits
    <3> QED BY <2>10, <2>11, <2>12, <2>13, <2>14, <2>16, <3>2, <3>4, <3>5
  <2> QED BY <2>17, <2>18
<1>3. StagingGivenUp => proc.at \in {"unpoint", "abort"} BY DEF StagingGivenUp, At
<1> QED BY <1>1, <1>2, <1>3
----------------------------------------------------------------------------
(* Deaths and boots *)

\* A process that dies takes the memory with it.
LEMMA DeathKeeps ==
  ASSUME RolloutInv, HostDies
  PROVE  RolloutInv'
<1> USE DEF RolloutInv
<1>0. /\ RolloutTyped /\ NoProc \in LockCalls /\ NoOp \in Operations(Len(journal)) /\ Len(journal) \in Nat
      /\ deaths \in 0..MaxDeaths /\ MaxDeaths \in Nat
  BY RecordsAre DEF RolloutTyped
<1>1. /\ UNCHANGED <<disk, manifest, journal, fact>> /\ up' = "down" /\ serving' = 0 /\ ready' = NoReady
      /\ proc' = NoProc /\ op' = NoOp /\ reverting' = FALSE /\ child' = NoChild
      /\ deaths' = deaths + 1 /\ deaths < MaxDeaths
      /\ stage' = [t \in Owners |-> IF stage[t] = "running" THEN "over" ELSE stage[t]]
  BY DEF HostDies
<1>2. RolloutTyped'
  <2>1. 0 \in Revs /\ 0 \in 0..Len(journal) BY <1>0, RolloutIsBounded DEF Revs
  <2>2. ready' \in [tx : 0..Len(journal), prev : Revs] /\ child' \in [tx : 0..Len(journal), owner : Someone]
    BY <1>1, <2>1 DEF NoReady, NoChild, Someone
  <2>3. deaths' \in 0..MaxDeaths BY <1>0, <1>1
  <2>4. stage' \in [Owners -> {"new", "running", "over"}] BY <1>0, <1>1 DEF RolloutTyped
  <2> QED BY <1>0, <1>1, <2>1, <2>2, <2>3, <2>4 DEF RolloutTyped, Operations, Facts, LockCalls
<1>3. MemoryFits' BY <1>1 DEF MemoryFits
<1>4. CandidateFits' BY <1>1 DEF CandidateFits, Blocked, Txs, Phase
<1>5. PointersFit' BY <1>1 DEF PointersFit, Blocked, Txs, Phase, Base, Rev, Pair
<1>6. proc'.at = "idle" /\ proc'.who = "nobody" /\ ready'.tx = 0 /\ op'.at = "none"
  BY <1>1 DEF NoProc, NoReady, NoOp
<1>7. StagingFits' /\ TrackFits' /\ ReadyFits'
  BY <1>1, <1>6 DEF StagingFits, Stages, TrackFits, ReadyFits
<1>8. CallFits' /\ OperationFits'
  BY <1>1, <1>6 DEF CallFits, OperationFits, Promotes, Drops
<1> QED BY <1>2, <1>3, <1>4, <1>5, <1>7, <1>8

\* While the process is down nothing but the disk counts.
LEMMA DownIs ==
  ASSUME RolloutInv, up # "up"
  PROVE  /\ proc = NoProc /\ op = NoOp /\ ready = NoReady /\ serving = 0
         /\ proc.at = "idle" /\ proc.who = "nobody" /\ ready.tx = 0 /\ op.at = "none"
         /\ journal \in Seq(Entries) /\ Len(journal) \in Nat
<1>1. proc = NoProc /\ op = NoOp /\ ready = NoReady /\ serving = 0 BY DEF RolloutInv, MemoryFits
<1>2. journal \in Seq(Entries) BY DEF RolloutInv, RolloutTyped
<1> QED BY <1>1, <1>2 DEF NoProc, NoOp, NoReady

\* One unfinished transaction is the only one.
LEMMA OnlyUnfinished ==
  ASSUME Len(journal) \in Nat, Cardinality(Unfinished) = 1, NEW tx \in Unfinished
  PROVE  \A u \in Unfinished : u = tx
<1>1. IsFiniteSet(1..Len(journal)) BY FS_Interval
<1>2. IsFiniteSet(Unfinished) BY <1>1, FS_Subset DEF Unfinished, Txs
<1> QED BY <1>2, FS_Singleton

\* A boot takes a pointer back, or refuses to go on.
LEMMA BootsKeep ==
  ASSUME RolloutInv, BootPointsBack \/ BootRefuses
  PROVE  RolloutInv'
<1> USE DEF RolloutInv
<1>1. up = "down" BY DEF BootPointsBack, BootRefuses
<1>2. /\ proc = NoProc /\ op = NoOp /\ ready = NoReady /\ serving = 0
      /\ proc.at = "idle" /\ proc.who = "nobody" /\ ready.tx = 0 /\ op.at = "none"
      /\ journal \in Seq(Entries) /\ Len(journal) \in Nat
  BY <1>1, DownIs
<1>3. /\ UNCHANGED <<manifest, journal, fact, serving, ready, proc, op, reverting, stage, child,
                     deaths>>
      /\ up' \in {"down", "refused"}
  BY <1>1 DEF BootPointsBack, BootRefuses
<1>4. disk \in [stable : Revs, latest : Revs] /\ RolloutTyped BY DEF RolloutTyped
<1>5. \/ disk' = disk
      \/ /\ disk' = [disk EXCEPT !.latest = disk.stable]
         /\ \E tx \in Unfinished : ~SwitchedOnDisk(tx) /\ \A u \in Unfinished : u = tx
  <2>1. CASE BootRefuses BY <2>1 DEF BootRefuses
  <2>2. CASE BootPointsBack
    <3>1. PICK tx \in Unfinished : ~SwitchedOnDisk(tx) BY <2>2 DEF BootPointsBack
    <3>2. \A u \in Unfinished : u = tx BY <1>2, <2>2, OnlyUnfinished DEF BootPointsBack
    <3> QED BY <2>2, <3>1, <3>2 DEF BootPointsBack
  <2> QED BY <2>1, <2>2
<1>6. disk' \in [stable : Revs, latest : Revs] BY <1>4, <1>5
<1>7. RolloutTyped' BY <1>3, <1>4, <1>6 DEF RolloutTyped, Operations, Facts, LockCalls
<1>8. MemoryFits' BY <1>2, <1>3 DEF MemoryFits
<1>9. /\ Txs' = Txs
      /\ \A u \in Txs : (Blocked(u)' <=> Blocked(u)) /\ Rev(u)' = Rev(u) /\ Base(u)' = Base(u) /\ Phase(u)' = Phase(u)
  BY <1>3 DEF Txs, Blocked, Rev, Base, Phase
<1>10. CandidateFits' BY <1>2, <1>3, <1>9 DEF CandidateFits
<1>11. \A u \in Txs : Blocked(u) => u \in Unfinished
  BY PhasesAre DEF Blocked, Unfinished
<1>12. PointersFit'
  <2>1. SUFFICES ASSUME NEW tx \in Txs, Blocked(tx)
                 PROVE  \/ disk' \in {Pair(Base(tx), Rev(tx)), Pair(Base(tx), Base(tx))}
                        \/ disk' = Pair(Rev(tx), Rev(tx)) /\ Phase(tx) \in {"promoting", "discarding"}
    BY <1>9 DEF PointersFit, Pair
  <2>2. \/ disk \in {Pair(Base(tx), Rev(tx)), Pair(Base(tx), Base(tx))}
        \/ disk = Pair(Rev(tx), Rev(tx)) /\ Phase(tx) \in {"promoting", "discarding"}
    BY <2>1 DEF PointersFit
  <2> QED BY <1>5, <2>2 DEF Pair
<1>13. StagingFits' BY <1>2, <1>3 DEF StagingFits, Stages
<1>14. TrackFits' BY <1>3 DEF TrackFits
<1>15. ReadyFits' BY <1>2, <1>3 DEF ReadyFits
<1>16. CallFits' BY <1>2, <1>3 DEF CallFits, Promotes, Drops
<1>17. OperationFits' BY <1>2, <1>3 DEF OperationFits
<1> QED BY <1>7, <1>8, <1>10, <1>12, <1>13, <1>14, <1>15, <1>16, <1>17

\* A boot settles the transaction that was left, and may go on: nothing is blocked then.
LEMMA BootsSettle ==
  ASSUME RolloutInv, BootGivesUp \/ BootLoads
  PROVE  RolloutInv'
<1> USE DEF RolloutInv
<1>1. up = "down" BY DEF BootGivesUp, BootLoads
<1>2. /\ proc = NoProc /\ op = NoOp /\ ready = NoReady /\ serving = 0
      /\ proc.at = "idle" /\ proc.who = "nobody" /\ ready.tx = 0 /\ op.at = "none"
      /\ journal \in Seq(Entries) /\ Len(journal) \in Nat
  BY <1>1, DownIs
<1>3. UNCHANGED <<disk, manifest, ready, proc, op, reverting, stage, child, deaths>>
  BY DEF BootGivesUp, BootLoads
<1>4. disk \in [stable : Revs, latest : Revs] /\ RolloutTyped /\ 0 \in Revs
  BY RolloutIsBounded DEF RolloutTyped, Revs
<1>5. \/ Unfinished = {} /\ UNCHANGED <<journal, fact>> /\ BootLoads
      \/ \E tx \in Unfinished, phase \in {"aborted", "recovered"}, says \in {"kept", "committed"} :
           /\ journal' = Advanced(tx, phase) /\ fact' = Fact(says, tx) /\ \A u \in Unfinished : u = tx
           /\ BootLoads \/ UNCHANGED <<up, serving>>
  <2>1. CASE BootGivesUp
    <3>1. PICK tx \in Unfinished :
            /\ \E phase \in {"aborted", "recovered"} : journal' = Advanced(tx, phase)
            /\ fact' = Fact("kept", tx)
      BY <2>1 DEF BootGivesUp
    <3>2. \A u \in Unfinished : u = tx BY <1>2, <2>1, OnlyUnfinished DEF BootGivesUp
    <3> QED BY <2>1, <3>1, <3>2 DEF BootGivesUp
  <2>2. CASE BootLoads /\ Unfinished # {}
    <3>1. PICK tx \in Unfinished : journal' = Advanced(tx, "recovered") /\ fact' = Fact("committed", tx)
      BY <2>2 DEF BootLoads
    <3>2. Cardinality(Unfinished) = 1 BY <2>2 DEF BootLoads
    <3>3. \A u \in Unfinished : u = tx BY <1>2, <3>2, OnlyUnfinished
    <3> QED BY <2>2, <3>1, <3>3
  <2>3. CASE BootLoads /\ Unfinished = {} BY <2>3 DEF BootLoads
  <2> QED BY <2>1, <2>2, <2>3
<1>6. /\ journal' \in Seq(Entries) /\ Len(journal') = Len(journal) /\ Txs' = Txs /\ fact' \in Facts
      /\ \A u \in Txs : ~Blocked(u)' /\ ~IsCommitted(u)'
  <2>1. CASE Unfinished = {} /\ UNCHANGED <<journal, fact>>
    <3>1. \A u \in Txs : ~Blocked(u) /\ ~IsCommitted(u)
      BY <2>1, PhasesAre DEF Unfinished, Blocked, IsCommitted
    <3> QED BY <1>2, <1>4, <2>1, <3>1 DEF Txs, Blocked, IsCommitted, Phase, RolloutTyped
  <2>2. ASSUME NEW tx \in Unfinished, NEW phase \in {"aborted", "recovered"}, NEW says \in {"kept", "committed"},
               journal' = Advanced(tx, phase), fact' = Fact(says, tx), \A u \in Unfinished : u = tx
        PROVE  /\ journal' \in Seq(Entries) /\ Len(journal') = Len(journal) /\ Txs' = Txs /\ fact' \in Facts
               /\ \A u \in Txs : ~Blocked(u)' /\ ~IsCommitted(u)'
    <3>1. tx \in Txs BY DEF Unfinished
    <3>2. phase \in Phases /\ phase \notin Blocking /\ phase # "committed" BY PhasesAre
    <3>3. Moved(tx, phase) BY <1>2, <2>2, <3>1, <3>2, Advance
    <3>4. /\ journal' \in Seq(Entries) /\ Len(journal') = Len(journal) /\ Txs' = Txs
          /\ \A u \in Txs :
               /\ u # tx => (Blocked(u)' <=> Blocked(u))
               /\ u # tx => (IsCommitted(u)' <=> IsCommitted(u))
          /\ ~Blocked(tx)' /\ ~IsCommitted(tx)'
      BY <1>2, <3>1, <3>2, <3>3, OneMoves
    <3>5. \A u \in Txs : u # tx => ~Blocked(u) /\ ~IsCommitted(u)
      BY <2>2, PhasesAre DEF Unfinished, Blocked, IsCommitted
    <3>6. fact' \in Facts
      <4>1. tx \in 1..Len(journal) /\ Len(journal) <= MaxTx BY <1>4, <3>1 DEF Txs, RolloutTyped
      <4>2. tx \in 0..MaxTx BY <1>2, <4>1, RolloutIsBounded
      <4> QED BY <2>2, <4>2 DEF Fact, Facts
    <3> QED BY <3>4, <3>5, <3>6
  <2> QED BY <1>5, <2>1, <2>2
<1>7. /\ up' \in {"up", "down"} /\ serving' \in Revs
      /\ up' = "down" => serving' = 0
      /\ serving' # 0 => disk.stable = serving'
  <2>1. CASE BootLoads BY <1>4, <2>1 DEF BootLoads
  <2>2. CASE UNCHANGED <<up, serving>> BY <1>1, <1>2, <1>4, <2>2
  <2> QED BY <1>5, <2>1, <2>2
<1>8. RolloutTyped' BY <1>3, <1>4, <1>6, <1>7 DEF RolloutTyped, Operations, Facts, LockCalls
<1>9. MemoryFits' BY <1>2, <1>3, <1>7 DEF MemoryFits
<1>10. CandidateFits' /\ PointersFit' BY <1>6 DEF CandidateFits, PointersFit
<1>11. StagingFits' BY <1>2, <1>3 DEF StagingFits, Stages
<1>12. TrackFits' BY <1>2, <1>3, <1>6 DEF TrackFits
<1>13. ReadyFits' BY <1>2, <1>3 DEF ReadyFits
<1>14. CallFits' BY <1>2, <1>3, <1>7 DEF CallFits, Promotes, Drops
<1>15. OperationFits' BY <1>2, <1>3 DEF OperationFits
<1> QED BY <1>8, <1>9, <1>10, <1>11, <1>12, <1>13, <1>14, <1>15
----------------------------------------------------------------------------
(* The invariant *)

\* Every step of the rollout keeps the invariant.
LEMMA RolloutSteps ==
  ASSUME RolloutInv, RolloutNext
  PROVE  RolloutInv'
<1>1. CASE \/ \E t \in Owners : StartTurn(t) \/ Uninstall(t) \/ Revert(t) \/ StartChild(t) \/ EndTurn(t)
           \/ EndChild \/ CutInstall
  BY <1>1, TurnsKeep
<1>2. CASE InstallSame \/ SwitchRefused \/ RestoreFails \/ NothingToDrop \/ Disable \/ Removable \/ Forget
  BY <1>2, OperationsKeep
<1>3. CASE Watch \/ Seal BY <1>3, LockKeeps
<1>4. CASE Deactivate \/ WatcherDeactivates \/ RemoveArtifacts BY <1>4, RemovalKeeps
<1>5. CASE Drop BY <1>5, DropsKeep
<1>6. CASE Quiet
  <2>1. CASE Goto("promote") /\ UNCHANGED journal BY <1>6, <2>1, PointersKeep DEF Quiet
  <2>2. CASE Goto("restore") /\ journal' = Discarded(ready.tx) BY <1>6, <2>2, DropsKeep DEF Quiet, At
  <2> QED BY <1>6, <2>1, <2>2 DEF Quiet
<1>7. CASE Point \/ CommitFails
  <2>1. CASE Point /\ Promotable BY <2>1, PointersKeep DEF Point
  <2>2. CASE PromotionFails /\ UNCHANGED <<disk, manifest, up, serving, ready, reverting, stage,
                                           child, deaths>>
             /\ proc.at \in {"point", "commit"} /\ up = "up"
    <3>1. CASE SwitchFails /\ UNCHANGED journal BY <2>2, <3>1, SwitchEnds
    <3>2. CASE Goto("restore") /\ journal' = Discarded(ready.tx) /\ UNCHANGED <<fact, op>>
      BY <2>2, <3>2, DropsKeep
    <3> QED BY <2>2, <3>1, <3>2 DEF PromotionFails
  <2> QED BY <1>7, <2>1, <2>2 DEF Point, CommitFails, At
<1>8. CASE Restore BY <1>8, PointersKeep
<1>9. CASE Promote BY <1>9, PromoteKeeps
<1>10. CASE SwitchCommits \/ Dropped BY <1>10, ReadyEnds
<1>11. CASE Track \/ \E tx \in Txs : Drained(tx) BY <1>11, DrainsKeep
<1>12. CASE (\E t \in Owners, rev \in 1..MaxRev : Install(t, rev)) \/ InstallListed BY <1>12, InstallsKeep
<1>13. CASE Begin BY <1>13, BeginKeeps
<1>14. CASE Prepare \/ LoadFails \/ PublishFails BY <1>14, StagesKeep
<1>15. CASE StagingGivenUp \/ CandidateReady \/ PublishAtOnce BY <1>15, StagingEnds
<1>16. CASE HostDies BY <1>16, DeathKeeps
<1>17. CASE BootPointsBack \/ BootRefuses BY <1>17, BootsKeep
<1>18. CASE BootGivesUp \/ BootLoads BY <1>18, BootsSettle
<1> QED
  BY <1>1, <1>2, <1>3, <1>4, <1>5, <1>6, <1>7, <1>8, <1>9, <1>10, <1>11, <1>12, <1>13, <1>14, <1>15,
     <1>16, <1>17, <1>18 DEF RolloutNext

\* What nobody writes to stays as it is.
LEMMA RolloutRests ==
  ASSUME RolloutInv, UNCHANGED rolloutVars
  PROVE  RolloutInv'
<1> USE DEF rolloutVars
<1>1. /\ UNCHANGED <<disk, manifest, journal, fact, up, serving, ready, proc, op, reverting,
                     stage, child, deaths>>
  OBVIOUS
<1>2. RolloutTyped'
  BY <1>1 DEF RolloutInv, RolloutTyped, Operations, Facts, LockCalls
<1>3. Stays BY <1>1 DEF Stays
<1>4. CandidateFits' /\ PointersFit' /\ StagingFits' /\ TrackFits' /\ ReadyFits' BY <1>3, VersionsStay
<1>5. MemoryFits' /\ CallFits' /\ OperationFits'
  BY <1>1 DEF RolloutInv, MemoryFits, CallFits, OperationFits, Pair
<1> QED BY <1>2, <1>4, <1>5 DEF RolloutInv

\* For any turns, revisions, transactions and deaths: the disk, the journal, the call that
\* holds the lock, the ready candidate and the operation of the turn fit each other.
THEOREM RolloutInvariant == RolloutSpec => []RolloutInv
<1>1. RolloutInit => RolloutInv BY RolloutFirst
<1>2. RolloutInv /\ [RolloutNext]_rolloutVars => RolloutInv' BY RolloutSteps, RolloutRests
<1> QED BY <1>1, <1>2, PTL DEF RolloutSpec
----------------------------------------------------------------------------
(* What the rollout promises *)

\* The invariant gives the promises about states.
LEMMA RolloutPromises ==
  ASSUME RolloutInv
  PROVE  RolloutTypeOK /\ DiskAgrees /\ OneCandidate
<1> USE DEF RolloutInv
<1>1. RolloutTypeOK
  <2>1. journal \in Seq(Entries) /\ Len(journal) <= MaxTx BY DEF RolloutTyped
  <2>2. \A tx \in Txs : journal[tx] \in [rev : Revs, base : Revs, phase : Phases]
    <3>1. \A tx \in Txs : journal[tx] \in Entries BY <2>1 DEF Txs
    <3> QED BY <3>1 DEF Entries
  <2> QED BY <2>1, <2>2 DEF RolloutTyped, RolloutTypeOK, Newest, Facts, Operations
<1>2. OneCandidate
  BY DEF CandidateFits, Blocked, OneCandidate, Stages
<1>3. ASSUME ready.tx # 0, Phase(ready.tx) = "latest_ready"
      PROVE  disk = Pair(Base(ready.tx), Candidate) /\ Candidate # Base(ready.tx)
  BY <1>3 DEF ReadyFits, ReadyPointersFit, Drops
<1>4. ASSUME up = "up", ~Undecided, serving # 0 PROVE disk.stable = serving
  <2>1. CASE ready.tx = 0 BY <1>4, <2>1 DEF CallFits
  <2>2. CASE ready.tx # 0
    <3>1. ready.tx \in Txs BY <2>2, ReadyIs
    <3>2. Phase(ready.tx) \in {"latest_ready", "promoting", "discarding"} BY <2>2 DEF ReadyFits
    <3>3. ready.tx \in Unfinished BY <3>1, <3>2, PhasesAre DEF Unfinished
    <3>4. Phase(ready.tx) = "latest_ready" BY <1>4, <3>2, <3>3 DEF Undecided
    <3>5. disk = Pair(Base(ready.tx), Candidate) /\ Base(ready.tx) = serving
      BY <1>3, <1>4, <2>2, <3>4 DEF ReadyFits
    <3> QED BY <3>5 DEF Pair
  <2> QED BY <2>1, <2>2
<1>5. DiskAgrees BY <1>3, <1>4 DEF DiskAgrees, Staged, Pair
<1> QED BY <1>1, <1>2, <1>5

\* The phases go where the journal lets them.
PhasesMoveOn == \A tx \in Txs : Phase(tx)' # Phase(tx) => Phase(tx)' \in Transitions[Phase(tx)]

\* One allowed move is all that moves.
LEMMA AllowedMove ==
  ASSUME journal \in Seq(Entries), NEW tx \in Txs, NEW phase \in Transitions[Phase(tx)],
         journal' = Advanced(tx, phase)
  PROVE  PhasesMoveOn
<1>1. journal[tx] \in Entries BY DEF Txs
<1>2. Phase(tx) \in Phases BY <1>1 DEF Phase, Entries
<1>3. phase \in Phases BY <1>2, PhasesAre DEF Transitions
<1>4. Moved(tx, phase) BY <1>3, Advance
<1>5. Phase(tx)' = phase /\ \A u \in Txs : u # tx => Phase(u)' = Phase(u) BY <1>3, <1>4, OneMoves
<1> QED BY <1>5 DEF PhasesMoveOn

\* No step asks the journal for a jump.
LEMMA JournalGoesOn ==
  ASSUME RolloutInv, RolloutNext
  PROVE  PhasesMoveOn
<1> USE DEF RolloutInv
<1>0. journal \in Seq(Entries) /\ Len(journal) \in Nat BY DEF RolloutTyped
<1>a. ASSUME NEW tx \in Txs, NEW phase, phase \in Transitions[Phase(tx)], journal' = Advanced(tx, phase)
      PROVE  PhasesMoveOn
  BY <1>0, <1>a, AllowedMove
<1>b. ASSUME UNCHANGED journal PROVE PhasesMoveOn BY <1>b DEF PhasesMoveOn, Phase
<1>c. ASSUME ready.tx # 0, journal' = Discarded(ready.tx) PROVE PhasesMoveOn
  <2>1. ready.tx \in Txs BY <1>c, ReadyIs
  <2>2. CASE Phase(ready.tx) \in {"latest_ready", "promoting"}
    <3>1. "discarding" \in Transitions[Phase(ready.tx)] BY <2>2 DEF Transitions
    <3> QED BY <1>a, <1>c, <2>1, <2>2, <3>1 DEF Discarded
  <2>3. CASE Phase(ready.tx) \notin {"latest_ready", "promoting"} BY <1>b, <1>c, <2>3 DEF Discarded
  <2> QED BY <2>2, <2>3
<1>1. CASE Begin
  <2>1. \A u \in Txs : journal'[u] = journal[u]
    <3>1. PICK entry \in Entries : journal' = Append(journal, entry)
      <4>1. disk \in [stable : Revs, latest : Revs] BY DEF RolloutTyped
      <4> QED BY <1>1, <4>1, PhasesAre DEF Begin, Entries
    <3> QED BY <1>0, <3>1, AppendProperties DEF Txs
  <2> QED BY <2>1 DEF PhasesMoveOn, Phase
<1>2. CASE Prepare \/ LoadFails \/ (StagingGivenUp /\ proc.at = "abort") \/ CandidateReady \/ PublishAtOnce
  <2>1. proc.at \in Stages \cup {"abort"}
    BY <1>2 DEF Prepare, LoadFails, CandidateReady, PublishAtOnce, At, NextStep, Stages
  <2>2. Newest \in Txs BY <2>1, StagedIs
  <2>3. \/ Phase(Newest) = StagePhase[proc.at] /\ proc.at \in Stages
        \/ Phase(Newest) \in {"prepared", "validating", "commit_started"} /\ proc.at = "abort"
    BY <2>1 DEF StagingFits
  <2>4. CASE Prepare
    <3>1. /\ proc.at \in {"load", "publish", "validate"}
          /\ journal' = Advanced(Newest, NextPhase[proc.at])
      BY <2>4 DEF Prepare, NextStep
    <3>2. NextPhase[proc.at] \in Transitions[Phase(Newest)]
      BY <2>3, <3>1 DEF NextPhase, StagePhase, Transitions
    <3> QED BY <1>a, <2>2, <3>1, <3>2
  <2>5. CASE LoadFails
    <3>1. proc.at = "load" /\ journal' = Advanced(Newest, "aborted") BY <2>5 DEF LoadFails, At
    <3>2. "aborted" \in Transitions[Phase(Newest)] BY <2>3, <3>1 DEF StagePhase, Transitions
    <3> QED BY <1>a, <2>2, <3>1, <3>2
  <2>6. CASE StagingGivenUp /\ proc.at = "abort"
    <3>1. journal' = Advanced(Newest, "aborted") BY <2>6 DEF StagingGivenUp, At
    <3>2. "aborted" \in Transitions[Phase(Newest)] BY <2>3, <2>6 DEF Transitions, Stages
    <3> QED BY <1>a, <2>2, <3>1, <3>2
  <2>7. CASE CandidateReady \/ PublishAtOnce
    <3>1. proc.at = "open" /\ \E phase \in {"latest_ready", "committed"} : journal' = Advanced(Newest, phase)
      BY <2>7 DEF CandidateReady, PublishAtOnce, At
    <3>2. {"latest_ready", "committed"} \subseteq Transitions[Phase(Newest)]
      BY <2>3, <3>1 DEF StagePhase, Transitions
    <3> QED BY <1>a, <2>2, <3>1, <3>2
  <2> QED BY <1>2, <2>4, <2>5, <2>6, <2>7
<1>3. CASE StagingGivenUp /\ proc.at # "abort" BY <1>b, <1>3 DEF StagingGivenUp, At
<1>4. CASE Drop \/ Quiet \/ Point \/ CommitFails
  <2>1. ready.tx # 0 BY <1>4 DEF Drop, Quiet, Point, CommitFails, At, CallFits, Promotes
  <2>2. UNCHANGED journal \/ journal' = Discarded(ready.tx)
    BY <1>4 DEF Drop, Quiet, Point, CommitFails, PromotionFails
  <2> QED BY <1>b, <1>c, <2>1, <2>2
<1>5. CASE Promote \/ SwitchCommits \/ Dropped
  <2>1. ready.tx # 0 /\ proc.at \in {"promote", "commit", "leases"}
    BY <1>5 DEF Promote, SwitchCommits, Dropped, At, CallFits, Promotes, Drops
  <2>2. ready.tx \in Txs BY <2>1, ReadyIs
  <2>3. CASE Promote /\ Phase(ready.tx) = "latest_ready"
    <3>1. "promoting" \in Transitions[Phase(ready.tx)] BY <2>3 DEF Transitions
    <3> QED BY <1>a, <2>2, <2>3, <3>1 DEF Promote
  <2>4. CASE Promote /\ Phase(ready.tx) # "latest_ready" BY <1>b, <2>4 DEF Promote
  <2>5. CASE SwitchCommits
    <3>1. Phase(ready.tx) = "promoting" BY <2>1, <2>5 DEF SwitchCommits, At, ReadyFits
    <3>2. "committed" \in Transitions[Phase(ready.tx)] BY <3>1 DEF Transitions
    <3> QED BY <1>a, <2>2, <2>5, <3>2 DEF SwitchCommits
  <2>6. CASE Dropped
    <3>1. Phase(ready.tx) = "discarding" BY <2>1, <2>6 DEF Dropped, At, ReadyFits, Drops
    <3>2. "aborted" \in Transitions[Phase(ready.tx)] BY <3>1 DEF Transitions
    <3> QED BY <1>a, <2>2, <2>6, <3>2 DEF Dropped
  <2> QED BY <1>5, <2>3, <2>4, <2>5, <2>6
<1>6. CASE Track
  <2>1. \E tx \in Txs : IsCommitted(tx) BY <1>6 DEF Track, At, TrackFits
  <2>2. Committed \in Txs /\ Phase(Committed) = "committed" BY <2>1 DEF Committed, IsCommitted
  <2>3. {"draining", "complete"} \subseteq Transitions[Phase(Committed)] BY <2>2 DEF Transitions
  <2> QED BY <1>a, <1>6, <2>2, <2>3 DEF Track
<1>7. CASE \E tx \in Txs : Drained(tx)
  <2>1. PICK tx \in Txs : Drained(tx) BY <1>7
  <2>2. "complete" \in Transitions[Phase(tx)] BY <2>1 DEF Drained, Transitions
  <2> QED BY <1>a, <2>1, <2>2 DEF Drained
<1>8. CASE BootGivesUp
  <2>1. PICK tx \in Unfinished :
          /\ GivenUp(tx)
          /\ \E phase \in {"aborted"} \cup (IF Switching(tx) THEN {"recovered"} ELSE {}) :
               journal' = Advanced(tx, phase)
    BY <1>8 DEF BootGivesUp
  <2>2. tx \in Txs /\ Phase(tx) \in DiscardPhases \cup {"commit_started", "promoting"}
    BY <2>1 DEF GivenUp, Unfinished, Switching
  <2>3. "aborted" \in Transitions[Phase(tx)] BY <2>2 DEF Transitions, DiscardPhases
  <2>4. Switching(tx) => "recovered" \in Transitions[Phase(tx)] BY DEF Switching, Transitions
  <2> QED BY <1>a, <2>1, <2>2, <2>3, <2>4
<1>9. CASE BootLoads
  <2>1. CASE UNCHANGED journal BY <1>b, <2>1
  <2>2. ASSUME NEW tx \in Unfinished, SwitchedOnDisk(tx), journal' = Advanced(tx, "recovered")
        PROVE  PhasesMoveOn
    <3>0. journal[tx] \in Entries /\ tx \in Txs BY <1>0 DEF Unfinished, Txs
    <3>1. Phase(tx) \in {"commit_started", "promoting", "committed", "draining"}
      BY <2>2, <3>0, PhasesAre DEF SwitchedOnDisk, Unfinished, DiscardPhases, Phase, Entries
    <3>2. "recovered" \in Transitions[Phase(tx)] BY <3>1 DEF Transitions
    <3> QED BY <1>a, <2>2, <3>0, <3>2
  <2> QED BY <1>9, <2>1, <2>2 DEF BootLoads
<1>10. CASE UNCHANGED journal BY <1>b, <1>10
<1>11. \/ Begin \/ Prepare \/ LoadFails \/ StagingGivenUp \/ CandidateReady \/ PublishAtOnce
       \/ Drop \/ Quiet \/ Point \/ CommitFails \/ Promote \/ SwitchCommits \/ Dropped \/ Track
       \/ (\E tx \in Txs : Drained(tx)) \/ BootGivesUp \/ BootLoads \/ UNCHANGED journal
  BY DEF RolloutNext, Install, InstallListed, InstallSame, CutInstall, Watch, PublishFails,
         StartTurn, Uninstall,
         Revert, StartChild, EndChild, EndTurn, Restore, RestoreFails, NothingToDrop, Seal,
         SwitchRefused,
         Disable, Deactivate, WatcherDeactivates, Removable, RemoveArtifacts, Forget, HostDies,
         BootPointsBack, BootRefuses
<1> QED BY <1>1, <1>2, <1>3, <1>4, <1>5, <1>6, <1>7, <1>8, <1>9, <1>10, <1>11

\* Who moves the stable pointer, and where to.
StableMoves ==
  disk'.stable # disk.stable =>
     \/ proc.at = "point" /\ Validated
     \/ proc.at = "restore" /\ disk'.stable = ready.prev
     \/ disk'.stable = 0 /\ serving = 0 /\ ready = NoReady

\* Only a promotion that was asked for with evidence, or by an operator, a drop and a
\* removal write the stable pointer.
LEMMA StableIsMoved ==
  ASSUME RolloutInv, RolloutNext
  PROVE  StableMoves
<1> USE DEF RolloutInv
<1>0. disk \in [stable : Revs, latest : Revs] BY DEF RolloutTyped
<1>1. CASE UNCHANGED disk BY <1>1 DEF StableMoves
<1>2. CASE Restore BY <1>2 DEF Restore, At, StableMoves, Pair
<1>3. CASE Point
  <2>1. proc.at = "point" /\ ready.tx # 0 /\ proc.who \in Operators \cup {"resolve"}
    BY <1>3 DEF Point, At, CallFits, Promotes
  <2>2. proc.who = "resolve" => op.at = "switch" BY <2>1 DEF CallFits, Promotes
  <2>3. op.at = "switch" => op.evidence /\ op.tx = ready.tx BY <2>1 DEF OperationFits
  <2> QED BY <2>1, <2>2, <2>3 DEF Validated, StableMoves
<1>4. CASE RemoveArtifacts
  <2>1. ready.tx = 0 /\ serving = 0 BY <1>4 DEF RemoveArtifacts, Resolves, OperationFits
  <2>2. ready = NoReady BY <2>1 DEF CallFits
  <2> QED BY <1>4, <2>1, <2>2 DEF RemoveArtifacts, Pair, StableMoves
<1>5. CASE disk'.stable = disk.stable BY <1>5 DEF StableMoves
<1>6. \/ UNCHANGED disk \/ Restore \/ Point \/ RemoveArtifacts \/ disk'.stable = disk.stable
  <2>1. CASE \/ InstallListed \/ PublishFails \/ StagingGivenUp \/ BootPointsBack
             \/ \E t \in Owners, rev \in 1..MaxRev : Install(t, rev)
    BY <1>0, <2>1 DEF Install, InstallListed, PublishFails, StagingGivenUp, BootPointsBack
  <2>2. CASE ~(InstallListed \/ PublishFails \/ StagingGivenUp \/ BootPointsBack
               \/ \E t \in Owners, rev \in 1..MaxRev : Install(t, rev))
    BY <2>2 DEF RolloutNext, InstallSame, CutInstall, Watch, StartTurn, Uninstall, Revert,
                StartChild, EndChild,
                EndTurn, RestoreFails, NothingToDrop, Seal, SwitchRefused, Disable, Deactivate,
                WatcherDeactivates, Removable, Forget, HostDies, BootRefuses, Begin, Prepare,
                LoadFails,
                CandidateReady, PublishAtOnce, Drop, Quiet, CommitFails, Promote, SwitchCommits,
                Dropped, Track,
                Drained, BootGivesUp, BootLoads
  <2> QED BY <2>1, <2>2
<1> QED BY <1>1, <1>2, <1>3, <1>4, <1>5, <1>6

\* A fact that is told is so.
FactIsSo == fact' # fact /\ ~MovedAndRejected => FactHolds'

\* What a fact of each kind needs to be so.
LEMMA FactIs ==
  ASSUME journal \in Seq(Entries), Len(journal') = Len(journal), NEW tx \in Txs,
         \A u \in Txs : journal'[u].rev = journal[u].rev /\ journal'[u].base = journal[u].base
  PROVE  /\ fact' = Fact("kept", tx) /\ disk'.stable = Base(tx) => FactHolds'
         /\ \A says \in {"switched", "committed"} :
              fact' = Fact(says, tx) /\ disk'.stable = Rev(tx) /\ serving' = Rev(tx) => FactHolds'
<1>1. ASSUME fact' = Fact("kept", tx), disk'.stable = Base(tx) PROVE FactHolds'
  <2>1. fact'.says = "kept" /\ fact'.tx = tx BY <1>1 DEF Fact
  <2> QED BY <1>1, <2>1 DEF FactHolds, Base
<1>2. ASSUME NEW says \in {"switched", "committed"},
             fact' = Fact(says, tx), disk'.stable = Rev(tx), serving' = Rev(tx)
      PROVE  FactHolds'
  <2>1. fact'.says = says /\ fact'.tx = tx BY <1>2 DEF Fact
  <2>2. journal'[tx].rev = Rev(tx) BY DEF Rev
  <2> QED BY <1>2, <2>1, <2>2 DEF FactHolds, Rev
<1> QED BY <1>1, <1>2

\* Failures claim nothing.
LEMMA FailuresHold ==
  (fact' = NoFact \/ \E tx : fact' = Fact("failed", tx)) => FactHolds'
BY DEF NoFact, Fact, FactHolds

\* What is told to the next turn, by a call, by a resolution or by a boot, is so.
LEMMA FactsAreSo ==
  ASSUME RolloutInv, RolloutNext
  PROVE  FactIsSo
<1> USE DEF RolloutInv
<1>0. /\ journal \in Seq(Entries) /\ Len(journal) \in Nat
      /\ \A u \in Txs : journal[u] \in Entries
  <2>1. journal \in Seq(Entries) BY DEF RolloutTyped
  <2> QED BY <2>1 DEF Txs
<1>1. CASE UNCHANGED fact BY <1>1 DEF FactIsSo
<1>2. CASE fact' = NoFact \/ \E tx : fact' = Fact("failed", tx) BY <1>2, FailuresHold DEF FactIsSo
<1>a. ASSUME NEW tx \in Txs, NEW phase \in Phases, journal' = Advanced(tx, phase)
      PROVE  /\ Len(journal') = Len(journal)
             /\ \A u \in Txs : journal'[u].rev = journal[u].rev /\ journal'[u].base = journal[u].base
  <2>1. Moved(tx, phase) BY <1>0, <1>a, Advance
  <2> QED BY <2>1 DEF Moved
<1>3. CASE Dropped
  <2>1. proc.at = "leases" /\ ready.tx # 0 BY <1>3 DEF Dropped, At, CallFits, Drops
  <2>2. ready.tx \in Txs BY <2>1, ReadyIs
  <2>3. PICK tx \in Txs : tx = ready.tx BY <2>2
  <2>4. disk'.stable = Base(tx) BY <1>3, <2>1, <2>3 DEF Dropped, ReadyFits, Pair
  <2>5. /\ Len(journal') = Len(journal)
        /\ \A u \in Txs : journal'[u].rev = journal[u].rev /\ journal'[u].base = journal[u].base
    BY <1>3, <1>a, <2>3, PhasesAre DEF Dropped
  <2>6. fact' = Fact("kept", tx) => FactHolds' BY <1>0, <2>4, <2>5, FactIs
  <2>7. fact' = fact \/ fact' = Fact("kept", tx) \/ fact' = Fact("failed", tx)
    BY <1>3, <2>3 DEF Dropped, DropEnds
  <2> QED BY <2>6, <2>7, FailuresHold DEF FactIsSo
<1>4. CASE Track
  <2>1. proc.at = "track" /\ up = "up" BY <1>4 DEF Track, At
  <2>2. \E tx \in Txs : IsCommitted(tx) BY <2>1 DEF TrackFits
  <2>3. Committed \in Txs /\ IsCommitted(Committed) BY <2>2 DEF Committed, IsCommitted
  <2>4. PICK tx \in Txs : tx = Committed BY <2>3
  <2>5. disk = Pair(Rev(tx), Rev(tx)) /\ serving = Rev(tx) BY <2>1, <2>3, <2>4 DEF TrackFits
  <2>6. disk'.stable = Rev(tx) /\ serving' = Rev(tx) BY <1>4, <2>5 DEF Track, Pair
  <2>7. PICK phase \in {"draining", "complete"} : journal' = Advanced(tx, phase) BY <1>4, <2>4 DEF Track
  <2>8. /\ Len(journal') = Len(journal)
        /\ \A u \in Txs : journal'[u].rev = journal[u].rev /\ journal'[u].base = journal[u].base
    BY <1>a, <2>7, PhasesAre
  <2>9. fact' = Fact("switched", tx) => FactHolds' BY <1>0, <2>6, <2>8, FactIs
  <2>10. fact' = fact \/ fact' = Fact("switched", tx) BY <1>4, <2>4 DEF Track
  <2> QED BY <2>9, <2>10 DEF FactIsSo
<1>5. CASE Forget
  <2>1. disk = Pair(0, 0) /\ serving = 0 BY <1>5 DEF Forget, OperationFits
  <2>2. fact'.says = "removed" /\ disk' = Pair(0, 0)' /\ serving' = 0 /\ manifest' = "absent"
    BY <1>5, <2>1 DEF Forget, Fact, Pair
  <2> QED BY <2>2 DEF FactIsSo, FactHolds
<1>6. CASE BootGivesUp /\ ~MovedAndRejected
  <2>1. PICK tx \in Unfinished :
          /\ GivenUp(tx) /\ fact' = Fact("kept", tx)
          /\ \E phase \in {"aborted", "recovered"} : journal' = Advanced(tx, phase)
    BY <1>6 DEF BootGivesUp
  <2>2. tx \in Txs BY DEF Unfinished
  <2>3. Blocked(tx) BY <2>1, PhasesAre DEF GivenUp, Switching, DiscardPhases, Blocked
  <2>4. disk.stable = Base(tx)
    <3>1. \/ disk \in {Pair(Base(tx), Rev(tx)), Pair(Base(tx), Base(tx))}
          \/ disk = Pair(Rev(tx), Rev(tx)) /\ Phase(tx) \in {"promoting", "discarding"}
      BY <2>2, <2>3 DEF PointersFit
    <3>2. CASE disk = Pair(Rev(tx), Rev(tx)) /\ Phase(tx) = "discarding"
      BY <1>6, <2>2, <3>2 DEF MovedAndRejected, Pair
    <3>3. CASE disk = Pair(Rev(tx), Rev(tx)) /\ Phase(tx) = "promoting"
      BY <2>1, <3>3 DEF GivenUp, DiscardPhases, Pair
    <3> QED BY <3>1, <3>2, <3>3 DEF Pair
  <2>5. disk'.stable = Base(tx) BY <1>6, <2>4 DEF BootGivesUp
  <2>6. /\ Len(journal') = Len(journal)
        /\ \A u \in Txs : journal'[u].rev = journal[u].rev /\ journal'[u].base = journal[u].base
    BY <1>a, <2>1, <2>2, PhasesAre
  <2>7. FactHolds' BY <1>0, <2>1, <2>2, <2>5, <2>6, FactIs
  <2> QED BY <2>7 DEF FactIsSo
<1>7. CASE BootLoads /\ ~UNCHANGED fact
  <2>1. PICK tx \in Unfinished :
          /\ SwitchedOnDisk(tx) /\ manifest # "off"
          /\ journal' = Advanced(tx, "recovered") /\ fact' = Fact("committed", tx)
    BY <1>7 DEF BootLoads
  <2>2. tx \in Txs BY DEF Unfinished
  <2>3. disk'.stable = Rev(tx) /\ serving' = Rev(tx) BY <1>7, <2>1 DEF BootLoads, SwitchedOnDisk
  <2>4. /\ Len(journal') = Len(journal)
        /\ \A u \in Txs : journal'[u].rev = journal[u].rev /\ journal'[u].base = journal[u].base
    BY <1>a, <2>1, <2>2, PhasesAre
  <2>5. FactHolds' BY <1>0, <2>1, <2>2, <2>3, <2>4, FactIs
  <2> QED BY <2>5 DEF FactIsSo
<1>8. CASE BootGivesUp /\ MovedAndRejected BY <1>8 DEF FactIsSo
<1>9. \/ UNCHANGED fact \/ fact' = NoFact \/ (\E tx : fact' = Fact("failed", tx))
      \/ Dropped \/ Track \/ Forget \/ BootGivesUp \/ BootLoads
  <2>1. CASE RestoreFails \/ NothingToDrop \/ SwitchRefused \/ Point \/ CommitFails \/ \E t \in Owners : StartTurn(t)
    BY <2>1 DEF RestoreFails, DropEnds, NothingToDrop, SwitchRefused, Point, CommitFails,
                PromotionFails,
                SwitchFails, StartTurn
  <2>2. CASE ~(RestoreFails \/ NothingToDrop \/ SwitchRefused \/ Point \/ CommitFails \/ \E t \in Owners : StartTurn(t))
    BY <2>2 DEF RolloutNext, Install, InstallListed, InstallSame, CutInstall, Watch,
                PublishFails, StagingGivenUp,
                Uninstall, Revert, StartChild, EndChild, EndTurn, Restore, Seal, RemoveArtifacts,
                Disable, Deactivate,
                WatcherDeactivates, Removable, HostDies, BootPointsBack, BootRefuses, Begin,
                Prepare, LoadFails,
                CandidateReady, PublishAtOnce, Drop, Quiet, Promote, SwitchCommits, Drained
  <2> QED BY <2>1, <2>2
<1> QED BY <1>1, <1>2, <1>3, <1>4, <1>5, <1>6, <1>7, <1>8, <1>9

\* For any turns, revisions, transactions and deaths: the version that runs is the one the
\* next boot would load, one candidate at a time is neither promoted nor given up, the
\* journal takes no jump, the stable pointer moves to a version only for an operator or with
\* evidence for that very candidate, and what the next turn is told is so
\* (RolloutIsHonest; manager.py, artifacts.py, reload_journal.py, turn_rollout.py).
THEOREM RolloutStaysHonest == RolloutSpec => RolloutIsHonest
<1>1. RolloutInv => RolloutTypeOK /\ DiskAgrees /\ OneCandidate BY RolloutPromises
<1>2. ASSUME RolloutInv, [RolloutNext]_rolloutVars
      PROVE  [PhasesMoveOn]_journal /\ [StableMoves]_disk /\ [FactIsSo]_fact
  <2>1. CASE RolloutNext BY <1>2, <2>1, JournalGoesOn, StableIsMoved, FactsAreSo
  <2>2. CASE UNCHANGED rolloutVars BY <2>2 DEF rolloutVars
  <2> QED BY <1>2, <2>1, <2>2
<1>3. [PhasesMoveOn]_journal =>
        [\A tx \in Txs : Phase(tx)' # Phase(tx) => Phase(tx)' \in Transitions[Phase(tx)]]_journal
  BY DEF PhasesMoveOn
<1>4. [StableMoves]_disk =>
        [disk'.stable # disk.stable =>
           \/ proc.at = "point" /\ Validated
           \/ proc.at = "restore" /\ disk'.stable = ready.prev
           \/ disk'.stable = 0 /\ serving = 0 /\ ready = NoReady]_disk
  BY DEF StableMoves
<1>5. [FactIsSo]_fact => [fact' # fact /\ ~MovedAndRejected => FactHolds']_fact
  BY DEF FactIsSo
<1> QED
  BY <1>1, <1>2, <1>3, <1>4, <1>5, RolloutInvariant, PTL
     DEF RolloutSpec, RolloutIsHonest, JournalMovesForward, StableMovesByRight, FactsAreTrue

(* The handoff of mobile commands *)

\* A sequence of commands without repetitions.
Single(s) == s \in Seq(Commands) /\ IsInjective(s)

\* A lane holds commands of its session, each once, and not the one it works on.
LanesFit ==
  \A s \in Chats :
    /\ IsInjective(lanes[s]) /\ item[s] \notin ToSet(lanes[s])
    /\ \A c \in Commands : c \in ToSet(lanes[s]) \/ c = item[s] => ChatOf[c] = s

\* What a lane is about to do agrees with the turn and the inbox of its item.
StepsFit ==
  \A s \in Chats :
    /\ step[s] = "start" => turn[item[s]] = "none"
    /\ step[s] = "await" => turn[item[s]] # "none"
    /\ step[s] = "complete" => inbox[item[s]]

\* A command has run exactly if it has a turn record; only a turn writes the history.
RunsFit ==
  \A c \in Commands :
    /\ runs[c] = IF turn[c] = "none" THEN 0 ELSE 1
    /\ message[c] => turn[c] # "none"

\* Only the row of a delivered answer is deleted again.
CleaningFits == \A c \in cleaning : owners[c] = 1 /\ inbox[c]

\* The inductive invariant of the handoff.
HandoffInv ==
  HandoffTypeOK /\ LanesFit /\ StepsFit /\ RunsFit /\ CleaningFits /\ OneOwner
    /\ NothingAcceptedIsLost

\* The members of a sequence are what it holds at its positions.
LEMMA HeldAt ==
  ASSUME NEW S, NEW q \in Seq(S)
  PROVE  /\ Len(q) \in Nat /\ DOMAIN q = 1..Len(q)
         /\ \A x : x \in ToSet(q) <=> \E i \in 1..Len(q) : x = q[i]
         /\ ToSet(q) \subseteq S
<1>1. Len(q) \in Nat /\ DOMAIN q = 1..Len(q) /\ \A i \in 1..Len(q) : q[i] \in S BY LenProperties
<1> QED BY <1>1 DEF ToSet

\* Kept keeps, in a sequence, exactly what it should, as often as it was there.
LEMMA KeptIs ==
  ASSUME NEW S, NEW s \in Seq(S), NEW keep
  PROVE  /\ Kept(s, keep) \in Seq(S)
         /\ ToSet(Kept(s, keep)) = ToSet(s) \cap keep
         /\ IsInjective(s) => IsInjective(Kept(s, keep))
<1> DEFINE at == {i \in 1..Len(s) : s[i] \in keep}
           Upto(i) == {j \in at : j <= i}
           Rank(i) == Cardinality(Upto(i))
           n == Cardinality(at)
           place(k) == CHOOSE i \in at : Rank(i) = k
           r == [k \in 1..n |-> s[place(k)]]
<1>1. Len(s) \in Nat /\ DOMAIN s = 1..Len(s) /\ \A x : x \in ToSet(s) <=> \E i \in 1..Len(s) : x = s[i]
  BY HeldAt
<1>2. IsFiniteSet(at) /\ n \in Nat /\ at \in SUBSET (1..Len(s)) /\ IsFiniteSet(1..Len(s))
  <2>1. IsFiniteSet(1..Len(s)) BY <1>1, FS_Interval
  <2>2. at \in SUBSET (1..Len(s)) OBVIOUS
  <2>3. IsFiniteSet(at) BY <2>1, <2>2, FS_Subset
  <2> QED BY <2>1, <2>2, <2>3, FS_CardinalityType
<1>3. \A i \in at : i \in 1..Len(s) /\ s[i] \in keep OBVIOUS
<1>4. \A i \in 1..Len(s) : s[i] \in keep => i \in at OBVIOUS
<1> HIDE DEF at
<1>5. \A i \in at : /\ IsFiniteSet(Upto(i)) /\ Rank(i) \in 1..n
                    /\ \A j \in at : j \in Upto(i) <=> j <= i
  <2> SUFFICES ASSUME NEW i \in at PROVE IsFiniteSet(Upto(i)) /\ Rank(i) \in 1..n OBVIOUS
  <2>1. Upto(i) \in SUBSET at OBVIOUS
  <2>2. IsFiniteSet(Upto(i)) /\ Rank(i) <= n BY <1>2, <2>1, FS_Subset
  <2>3. i \in Upto(i) BY <1>1, <1>3
  <2>4. Rank(i) \in Nat BY <2>2, FS_CardinalityType
  <2>5. Rank(i) # 0 BY <2>2, <2>3, FS_EmptySet
  <2> QED BY <1>2, <2>2, <2>4, <2>5
<1>6. \A i, j \in at : Rank(i) = Rank(j) => ~(i < j)
  <2> SUFFICES ASSUME NEW i \in at, NEW j \in at, Rank(i) = Rank(j), i < j PROVE FALSE OBVIOUS
  <2>1. Upto(i) \in SUBSET Upto(j) BY <1>1, <1>3
  <2>2. Upto(j) = Upto(i) BY <1>5, <2>1, FS_Subset
  <2>3. j \in Upto(j) BY <1>5, <1>1, <1>3
  <2>4. j <= i BY <2>2, <2>3, <1>5
  <2> QED BY <2>4, <1>1, <1>3
<1>7. \A k \in 1..n : place(k) \in at /\ Rank(place(k)) = k
  <2> DEFINE f == [i \in at |-> Rank(i)]
  <2>1. f \in [at -> 1..n] BY <1>5
  <2>2. ASSUME NEW i \in at, NEW j \in at, Rank(i) = Rank(j) PROVE i = j
    <3>1. ~(i < j) /\ ~(j < i) BY <1>6, <2>2
    <3> QED BY <1>1, <1>3, <3>1
  <2>3. f \in Injection(at, 1..n)
    <3>1. \A i, j \in at : f[i] = f[j] => i = j BY <2>2
    <3> QED BY <2>1, <3>1 DEF Injection, IsInjective
  <2>4. IsFiniteSet(1..n) /\ Cardinality(1..n) = n BY <1>2, FS_Interval
  <2>5. f \in Surjection(at, 1..n) BY <2>3, <2>4, FS_Injection
  <2>6. \A k \in 1..n : \E i \in at : Rank(i) = k BY <2>5 DEF Surjection
  <2> QED BY <2>6
<1> HIDE DEF Rank, place
<1>8. r \in Seq(S) /\ Len(r) = n /\ DOMAIN r = 1..n
  <2>1. \A k \in 1..n : s[place(k)] \in S BY <1>3, <1>7, LenProperties
  <2> QED BY <1>2, <2>1
<1>9. Kept(s, keep) = r BY DEF Kept, r, place, Rank, at
<1>10. ToSet(r) = ToSet(s) \cap keep
  <2>1. \A x : x \in ToSet(r) <=> \E k \in 1..n : x = s[place(k)]
    <3>1. \A x : x \in ToSet(r) <=> \E k \in 1..Len(r) : x = r[k] BY <1>8, HeldAt
    <3>2. \A k \in 1..n : r[k] = s[place(k)] OBVIOUS
    <3> HIDE DEF r
    <3> QED BY <1>8, <3>1, <3>2
  <2>2. \A i \in at : \E k \in 1..n : i = place(k)
    <3> SUFFICES ASSUME NEW i \in at PROVE i = place(Rank(i)) BY <1>5
    <3>1. Rank(i) \in 1..n BY <1>5
    <3>2. place(Rank(i)) \in at /\ Rank(place(Rank(i))) = Rank(i) BY <1>7, <3>1
    <3> QED BY <1>1, <1>3, <1>6, <3>2
  <2> QED BY <1>1, <1>3, <1>4, <1>7, <2>1, <2>2
<1>11. ASSUME IsInjective(s) PROVE IsInjective(r)
  <2> SUFFICES ASSUME NEW a \in 1..n, NEW b \in 1..n, s[place(a)] = s[place(b)] PROVE a = b
    BY <1>8 DEF IsInjective
  <2>1. place(a) \in 1..Len(s) /\ place(b) \in 1..Len(s) BY <1>3, <1>7
  <2>2. place(a) = place(b) BY <1>1, <1>11, <2>1 DEF IsInjective
  <2> QED BY <1>7, <2>2
<1> QED BY <1>8, <1>9, <1>10, <1>11

\* A list without repetitions that loses its head has it no more.
LEMMA HeadGone ==
  ASSUME NEW q, Single(q), q # <<>>
  PROVE  /\ Single(Tail(q)) /\ Head(q) \in Commands /\ Head(q) \in ToSet(q)
         /\ ToSet(Tail(q)) = ToSet(q) \ {Head(q)}
<1> DEFINE t == Tail(q)
<1>0. q \in Seq(Commands) BY DEF Single
<1>1. /\ Len(q) \in Nat \ {0} /\ Len(t) = Len(q) - 1 /\ t \in Seq(Commands) /\ Head(q) = q[1]
      /\ \A i \in 1..Len(t) : t[i] = q[i + 1]
  BY <1>0, HeadTailProperties, LenProperties
<1> HIDE DEF t
<1>2. /\ DOMAIN q = 1..Len(q) /\ \A x : x \in ToSet(q) <=> \E i \in 1..Len(q) : x = q[i]
      /\ DOMAIN t = 1..Len(t) /\ \A x : x \in ToSet(t) <=> \E i \in 1..Len(t) : x = t[i]
      /\ ToSet(q) \subseteq Commands
  BY <1>0, <1>1, HeldAt
<1>3. \A i, j \in 1..Len(q) : q[i] = q[j] => i = j BY <1>2 DEF Single, IsInjective
<1>4. IsInjective(t) BY <1>1, <1>2, <1>3 DEF IsInjective
<1>5. ASSUME NEW x \in ToSet(t) PROVE x \in ToSet(q) /\ x # Head(q)
  <2>1. PICK i \in 1..Len(t) : x = t[i] BY <1>2
  <2>2. x = q[i + 1] /\ i + 1 \in 1..Len(q) /\ i + 1 # 1 /\ 1 \in 1..Len(q) BY <1>1, <2>1
  <2> QED BY <1>1, <1>2, <1>3, <2>2
<1>6. ASSUME NEW x \in ToSet(q), x # Head(q) PROVE x \in ToSet(t)
  <2>1. PICK i \in 1..Len(q) : x = q[i] BY <1>2
  <2>2. i # 1 /\ i - 1 \in 1..Len(t) /\ i = (i - 1) + 1 BY <1>1, <1>6, <2>1
  <2>3. x = t[i - 1] BY <1>1, <2>1, <2>2
  <2> QED BY <1>2, <2>2, <2>3
<1>7. Head(q) \in ToSet(q)
  <2>1. 1 \in 1..Len(q) BY <1>1
  <2> QED BY <1>1, <1>2, <2>1
<1> QED BY <1>1, <1>2, <1>4, <1>5, <1>6, <1>7 DEF Single, t

\* Two lists without a common member, one after the other.
LEMMA OneAfterOther ==
  ASSUME NEW p, NEW q, Single(p), Single(q), ToSet(p) \cap ToSet(q) = {}
  PROVE  Single(p \o q) /\ ToSet(p \o q) = ToSet(p) \cup ToSet(q)
<1> DEFINE r == p \o q
<1>0. p \in Seq(Commands) /\ q \in Seq(Commands) BY DEF Single
<1>1. /\ r \in Seq(Commands) /\ Len(r) = Len(p) + Len(q)
      /\ \A i \in 1..Len(r) : r[i] = IF i <= Len(p) THEN p[i] ELSE q[i - Len(p)]
  BY <1>0, ConcatProperties
<1> HIDE DEF r
<1>2. /\ Len(p) \in Nat /\ DOMAIN p = 1..Len(p) /\ \A x : x \in ToSet(p) <=> \E i \in 1..Len(p) : x = p[i]
      /\ Len(q) \in Nat /\ DOMAIN q = 1..Len(q) /\ \A x : x \in ToSet(q) <=> \E i \in 1..Len(q) : x = q[i]
      /\ DOMAIN r = 1..Len(r) /\ \A x : x \in ToSet(r) <=> \E i \in 1..Len(r) : x = r[i]
  BY <1>0, <1>1, HeldAt
<1>3. \A i \in 1..Len(p) : i \in 1..Len(r) /\ r[i] = p[i] BY <1>1, <1>2
<1>4. \A i \in 1..Len(q) : i + Len(p) \in 1..Len(r) /\ r[i + Len(p)] = q[i] BY <1>1, <1>2
<1>5. \A i \in 1..Len(r) : \/ i \in 1..Len(p) /\ r[i] = p[i]
                           \/ i - Len(p) \in 1..Len(q) /\ r[i] = q[i - Len(p)]
  BY <1>1, <1>2
<1>6. ToSet(r) = ToSet(p) \cup ToSet(q) BY <1>2, <1>3, <1>4, <1>5
<1>7. \A i, j \in 1..Len(r) : r[i] = r[j] => i = j
  <2>1. /\ \A i, j \in 1..Len(p) : p[i] = p[j] => i = j
        /\ \A i, j \in 1..Len(q) : q[i] = q[j] => i = j
    BY <1>2 DEF Single, IsInjective
  <2>2. \A i \in 1..Len(p), j \in 1..Len(q) : p[i] # q[j] BY <1>2
  <2>3. \A i \in 1..Len(r) : i \in Int /\ Len(p) \in Int BY <1>2
  <2>4. ASSUME NEW i \in 1..Len(r), NEW j \in 1..Len(r), r[i] = r[j] PROVE i = j
    <3>1. CASE i \in 1..Len(p) /\ r[i] = p[i] /\ j \in 1..Len(p) /\ r[j] = p[j] BY <2>1, <2>4, <3>1
    <3>2. CASE i - Len(p) \in 1..Len(q) /\ r[i] = q[i - Len(p)] /\ j - Len(p) \in 1..Len(q) /\ r[j] = q[j - Len(p)]
      <4>1. i - Len(p) = j - Len(p) BY <2>1, <2>4, <3>2
      <4> QED BY <4>1, <2>3
    <3> QED BY <1>5, <2>2, <2>4, <3>1, <3>2
  <2> QED BY <2>4
<1> QED BY <1>1, <1>2, <1>6, <1>7 DEF Single, IsInjective, r

\* A list without repetitions stays one when a newcomer is appended.
LEMMA OneMore ==
  ASSUME NEW q, Single(q), NEW c \in Commands, c \notin ToSet(q)
  PROVE  Single(Append(q, c)) /\ ToSet(Append(q, c)) = ToSet(q) \cup {c}
<1>1. <<c>> \in Seq(Commands) /\ Len(<<c>>) = 1 /\ <<c>>[1] = c OBVIOUS
<1>2. Single(<<c>>) /\ ToSet(<<c>>) = {c}
  <2>1. DOMAIN <<c>> = {1} OBVIOUS
  <2> QED BY <1>1, <2>1 DEF Single, IsInjective, ToSet
<1>3. Append(q, c) = q \o <<c>> BY DEF Single
<1> QED BY <1>2, <1>3, OneAfterOther

\* A page is a beginning of the rows.
LEMMA PageIs ==
  ASSUME NEW rs, Single(rs)
  PROVE  Single(Page(rs)) /\ ToSet(Page(rs)) \subseteq ToSet(rs)
<1>1. CASE Len(rs) <= PageLimit BY <1>1 DEF Page
<1>2. CASE ~(Len(rs) <= PageLimit)
  <2> DEFINE p == SubSeq(rs, 1, PageLimit)
  <2>0. rs \in Seq(Commands) /\ PageLimit \in Nat /\ PageLimit >= 1 BY HandoffAssumption DEF Single
  <2>1. /\ Len(rs) \in Nat /\ DOMAIN rs = 1..Len(rs)
        /\ \A x : x \in ToSet(rs) <=> \E i \in 1..Len(rs) : x = rs[i]
    BY <2>0, HeldAt
  <2>2. PageLimit \in 1..Len(rs) BY <1>2, <2>0, <2>1
  <2>3. p \in Seq(Commands) /\ Len(p) = PageLimit /\ \A i \in 1..PageLimit : p[i] = rs[i]
    BY <2>0, <2>1, <2>2, SubSeqProperties
  <2> HIDE DEF p
  <2>4. DOMAIN p = 1..PageLimit /\ \A x : x \in ToSet(p) <=> \E i \in 1..PageLimit : x = p[i]
    BY <2>3, HeldAt
  <2>5. \A i \in 1..PageLimit : i \in 1..Len(rs) BY <2>0, <2>1, <2>2
  <2>6. ToSet(p) \subseteq ToSet(rs) BY <2>1, <2>3, <2>4, <2>5
  <2>7. IsInjective(p) BY <2>1, <2>3, <2>4, <2>5 DEF IsInjective, Single
  <2>8. p = Page(rs) BY <1>2 DEF p, Page
  <2> QED BY <2>3, <2>6, <2>7, <2>8 DEF Single
<1> QED BY <1>1, <1>2

\* A page of the recovery gives new owners to rows that had none, and queues them.
Queues(new, rs, own, cl) ==
  /\ new \subseteq ToSet(rs) /\ \A c \in new : c \in Commands /\ own[c] = 0
  /\ rows' = rs /\ claimed' = cl \cup new
  /\ owners' = [c \in Commands |-> IF c \in new THEN own[c] + 1 ELSE own[c]]
  /\ lanes' \in [Chats -> Seq(Commands)]
  /\ \A s \in Chats : /\ IsInjective(lanes'[s])
                      /\ ToSet(lanes'[s]) = ToSet(lanes[s]) \cup {c \in new : ChatOf[c] = s}

\* So does recover_durable_inbounds.
LEMMA RecoverIs ==
  ASSUME NEW rs, Single(rs), NEW own \in [Commands -> Nat], NEW cl \in SUBSET Commands,
         lanes \in [Chats -> Seq(Commands)],
         \A s \in Chats : IsInjective(lanes[s]) /\ \A c \in ToSet(lanes[s]) : own[c] > 0,
         Recover(rs, own, cl)
  PROVE  \E new : Queues(new, rs, own, cl)
<1> DEFINE q == IF fatal' THEN <<>> ELSE Fresh(rs, own, cl)
           of(s) == Kept(q, {c \in Commands : ChatOf[c] = s})
<1>1. Single(q) /\ \A c \in ToSet(q) : c \in ToSet(rs) /\ c \in Commands /\ own[c] = 0
  <2>1. CASE fatal'
    <3>1. q = <<>> BY <2>1
    <3>2. <<>> \in Seq(Commands) /\ IsInjective(<<>>) /\ ToSet(<<>>) = {} BY DEF IsInjective, ToSet
    <3> QED BY <3>1, <3>2 DEF Single
  <2>2. CASE ~fatal'
    <3> DEFINE keep == {c \in Commands \ cl : own[c] = 0}
    <3>1. q = Kept(Page(rs), keep) BY <2>2 DEF Fresh
    <3>2. Single(Page(rs)) /\ ToSet(Page(rs)) \subseteq ToSet(rs) BY PageIs
    <3>3. Page(rs) \in Seq(Commands) /\ IsInjective(Page(rs)) BY <3>2 DEF Single
    <3> HIDE DEF q, keep
    <3>4. q \in Seq(Commands) /\ ToSet(q) = ToSet(Page(rs)) \cap keep /\ IsInjective(q)
      BY <3>1, <3>3, KeptIs
    <3>5. Single(q) BY <3>4 DEF Single
    <3> QED BY <3>2, <3>4, <3>5 DEF keep
  <2> QED BY <2>1, <2>2
<1>2. /\ rows' = rs /\ claimed' = cl \cup ToSet(q)
      /\ owners' = [c \in Commands |-> IF c \in ToSet(q) THEN own[c] + 1 ELSE own[c]]
      /\ lanes' = [s \in Chats |-> lanes[s] \o of(s)]
  BY DEF Recover
<1> HIDE DEF q
<1>3. \A s \in Chats : Single(of(s)) /\ ToSet(of(s)) = {c \in ToSet(q) : ChatOf[c] = s}
  <2> SUFFICES ASSUME NEW s \in Chats
      PROVE Single(of(s)) /\ ToSet(of(s)) = {c \in ToSet(q) : ChatOf[c] = s}
    OBVIOUS
  <2> DEFINE keep == {c \in Commands : ChatOf[c] = s}
             r == Kept(q, keep)
  <2>1. q \in Seq(Commands) /\ IsInjective(q) BY <1>1 DEF Single
  <2> HIDE DEF keep
  <2>2. r \in Seq(Commands) /\ ToSet(r) = ToSet(q) \cap keep /\ IsInjective(r) BY <2>1, KeptIs
  <2>3. ToSet(r) = {c \in ToSet(q) : ChatOf[c] = s} BY <1>1, <2>2 DEF keep
  <2> QED BY <2>2, <2>3 DEF Single, keep
<1> HIDE DEF of
<1>4. \A s \in Chats : /\ Single(lanes[s] \o of(s))
                       /\ ToSet(lanes[s] \o of(s)) = ToSet(lanes[s]) \cup ToSet(of(s))
  <2> SUFFICES ASSUME NEW s \in Chats
      PROVE /\ Single(lanes[s] \o of(s))
            /\ ToSet(lanes[s] \o of(s)) = ToSet(lanes[s]) \cup ToSet(of(s))
    OBVIOUS
  <2>1. Single(lanes[s]) BY DEF Single
  <2>2. ToSet(lanes[s]) \cap ToSet(of(s)) = {} BY <1>1, <1>3
  <2> QED BY <1>3, <2>1, <2>2, OneAfterOther
<1>5. lanes' \in [Chats -> Seq(Commands)] BY <1>2, <1>4 DEF Single
<1>6. \A s \in Chats : /\ IsInjective(lanes'[s])
                       /\ ToSet(lanes'[s]) = ToSet(lanes[s]) \cup {c \in ToSet(q) : ChatOf[c] = s}
  BY <1>2, <1>3, <1>4 DEF Single
<1>7. Queues(ToSet(q), rs, own, cl) BY <1>1, <1>2, <1>5, <1>6 DEF Queues
<1> QED BY <1>7

\* What the lane works on is its own, and has its owner and its row.
LEMMA ItemIs ==
  ASSUME HandoffInv, NEW s \in Chats, step[s] # "idle"
  PROVE  /\ item[s] \in Commands /\ ChatOf[item[s]] = s /\ item[s] \notin ToSet(lanes[s])
         /\ owners[item[s]] = 1 /\ item[s] \notin cleaning /\ Reserved(item[s])
         /\ \A r \in Chats : item[r] = item[s] => r = s
<1>1. item[s] \in Commands BY HandoffAssumption DEF HandoffInv, HandoffTypeOK
<1>2. ChatOf[item[s]] = s /\ item[s] \notin ToSet(lanes[s]) BY <1>1 DEF HandoffInv, LanesFit
<1>3. AtWork(item[s]) BY <1>2 DEF AtWork
<1> QED BY <1>1, <1>2, <1>3 DEF HandoffInv, OneOwner, LanesFit

\* Nothing was sent when the tables are made.
LEMMA HandoffBegins ==
  ASSUME HandoffInit PROVE HandoffInv
<1>1. ToSet(<<>>) = {} /\ <<>> \in Seq(Commands) /\ IsInjective(<<>>) BY DEF ToSet, IsInjective
<1>2. HandoffTypeOK
  <2>1. MaxCrashes \in Nat /\ MaxFaults \in Nat /\ MaxExpiries \in Nat BY HandoffAssumption
  <2> USE DEF HandoffInit, HandoffTypeOK
  <2>2. rows \in Seq(Commands) /\ IsInjective(rows) /\ lanes \in [Chats -> Seq(Commands)] BY <1>1
  <2>3. \A s \in Chats : step[s] = "idle" <=> item[s] = None OBVIOUS
  <2>4. /\ crashes \in 0..MaxCrashes /\ faults \in 0..MaxFaults /\ expiries \in 0..MaxExpiries
    BY <2>1
  <2> QED BY <2>2, <2>3, <2>4
<1>3. LanesFit /\ StepsFit /\ RunsFit /\ CleaningFits
  BY <1>1, HandoffAssumption DEF HandoffInit, LanesFit, StepsFit, RunsFit, CleaningFits
<1>4. OneOwner /\ NothingAcceptedIsLost
  BY <1>1, HandoffAssumption DEF HandoffInit, OneOwner, AtWork, Reserved, NothingAcceptedIsLost
<1> QED BY <1>2, <1>3, <1>4 DEF HandoffInv

\* Rows with a delivered answer go, the next page comes: so the lane's completion, the
\* retried delete and the start of the worker leave everything in place.
LEMMA PagesKeep ==
  ASSUME HandoffInv, NEW gone \in SUBSET Commands,
         \A c \in gone : inbox[c] /\ c \notin ToSet(lanes[ChatOf[c]]),
         NEW rs, Single(rs), ToSet(rs) = ToSet(rows) \ gone,
         NEW own, own = [c \in Commands |-> IF c \in gone THEN 0 ELSE owners[c]],
         NEW cl \in SUBSET Commands, Recover(rs, own, cl),
         fatal' = fatal, host' \in {"down", "up", "working"}, cleaning' = cleaning \ gone,
         item' \in [Chats -> Commands \cup {None}],
         step' \in [Chats -> {"idle", "start", "await", "deliver", "complete", "retained"}],
         \A s \in Chats : \/ item'[s] = item[s] /\ step'[s] = step[s] /\ item[s] \notin gone
                          \/ item'[s] = None /\ step'[s] = "idle",
         UNCHANGED <<receipt, runs, turn, message, inbox, unrecorded, limits>>
  PROVE  HandoffInv'
<1> USE DEF HandoffInv
<1>1. lanes \in [Chats -> Seq(Commands)] /\ owners \in [Commands -> Nat] BY DEF HandoffTypeOK
<1>2. own \in [Commands -> Nat] BY <1>1
<1>3. \A s \in Chats : \A c \in ToSet(lanes[s]) : c \in Commands /\ ChatOf[c] = s /\ owners[c] = 1 /\ c \notin gone
  <2> SUFFICES ASSUME NEW s \in Chats, NEW c \in ToSet(lanes[s])
      PROVE c \in Commands /\ ChatOf[c] = s /\ owners[c] = 1 /\ c \notin gone
    OBVIOUS
  <2>1. c \in Commands BY <1>1, HeldAt
  <2>2. ChatOf[c] = s BY <2>1 DEF LanesFit
  <2> QED BY <2>1, <2>2 DEF OneOwner, AtWork
<1>4. \A s \in Chats : IsInjective(lanes[s]) /\ \A c \in ToSet(lanes[s]) : own[c] > 0
  BY <1>1, <1>3 DEF LanesFit
<1>5. PICK new \in SUBSET ToSet(rs) :
        /\ \A c \in new : c \in Commands /\ own[c] = 0
        /\ rows' = rs /\ claimed' = cl \cup new
        /\ owners' = [c \in Commands |-> IF c \in new THEN own[c] + 1 ELSE own[c]]
        /\ lanes' \in [Chats -> Seq(Commands)]
        /\ \A s \in Chats : /\ IsInjective(lanes'[s])
                            /\ ToSet(lanes'[s]) = ToSet(lanes[s]) \cup {c \in new : ChatOf[c] = s}
  <2>1. PICK new : Queues(new, rs, own, cl) BY <1>1, <1>2, <1>4, RecoverIs
  <2> QED BY <2>1 DEF Queues
<1>6. \A c \in new : c \in Commands /\ c \notin gone /\ owners[c] = 0 /\ c \in ToSet(rows)
  BY <1>5
<1>7. \A c \in Commands : owners'[c] = IF c \in new THEN 1 ELSE IF c \in gone THEN 0 ELSE owners[c]
  BY <1>1, <1>5, <1>6
<1>8. \A c \in Commands : c \in ToSet(rows') <=> c \in ToSet(rows) /\ c \notin gone BY <1>5
<1>9. \A s \in Chats : item[s] \in Commands => owners[item[s]] = 1 /\ ChatOf[item[s]] = s
  BY HandoffAssumption, ItemIs DEF HandoffTypeOK
<1>10. HandoffTypeOK'
  <2>1. rows' \in Seq(Commands) /\ IsInjective(rows') BY <1>5 DEF Single
  <2>2. owners' \in [Commands -> Nat] BY <1>2, <1>5
  <2>3. \A s \in Chats : step'[s] = "idle" <=> item'[s] = None BY DEF HandoffTypeOK
  <2>4. claimed' \subseteq Commands BY <1>5, <1>6
  <2> QED BY <1>5, <2>1, <2>2, <2>3, <2>4 DEF HandoffTypeOK, limits
<1>11. LanesFit'
  <2> SUFFICES ASSUME NEW s \in Chats
      PROVE /\ item'[s] \notin ToSet(lanes'[s])
            /\ \A c \in Commands : c \in ToSet(lanes'[s]) \/ c = item'[s] => ChatOf[c] = s
    BY <1>5 DEF LanesFit
  <2>1. None \notin ToSet(lanes'[s]) BY <1>3, <1>5, <1>6, HandoffAssumption
  <2>2. item'[s] # None => item'[s] = item[s] /\ item[s] \in Commands BY DEF HandoffTypeOK
  <2>3. item'[s] \notin ToSet(lanes'[s])
    BY <1>5, <1>6, <1>9, <2>1, <2>2 DEF LanesFit
  <2>4. \A c \in Commands : c \in ToSet(lanes'[s]) \/ c = item'[s] => ChatOf[c] = s
    BY <1>5, <1>9, <2>2, HandoffAssumption DEF LanesFit
  <2> QED BY <2>3, <2>4
<1>12. StepsFit' BY DEF StepsFit
<1>13. RunsFit' BY DEF RunsFit
<1>14. CleaningFits' BY <1>6, <1>7 DEF CleaningFits, HandoffTypeOK
<1>15. OneOwner'
  <2> SUFFICES ASSUME NEW c \in Commands
      PROVE /\ owners'[c] <= 1
            /\ AtWork(c)' => owners'[c] = 1 /\ c \notin cleaning'
            /\ owners'[c] = 1 => Reserved(c)'
    BY DEF OneOwner
  <2>1. ChatOf[c] \in Chats BY HandoffAssumption
  <2>2. AtWork(c)' => (AtWork(c) /\ c \notin gone) \/ c \in new
    BY <1>3, <1>5, <2>1, HandoffAssumption DEF AtWork
  <2>3. c \in new => c \notin cleaning BY <1>6 DEF CleaningFits
  <2>4. AtWork(c) => owners[c] = 1 /\ c \notin cleaning BY DEF OneOwner
  <2>5. AtWork(c)' => owners'[c] = 1 /\ c \notin cleaning' BY <1>7, <2>2, <2>3, <2>4
  <2>6. owners'[c] <= 1 BY <1>7 DEF OneOwner
  <2>7. owners'[c] = 1 => Reserved(c)' BY <1>6, <1>7, <1>8 DEF OneOwner, Reserved
  <2> QED BY <2>5, <2>6, <2>7
<1>16. NothingAcceptedIsLost' BY <1>8 DEF NothingAcceptedIsLost, Reserved
<1> QED BY <1>10, <1>11, <1>12, <1>13, <1>14, <1>15, <1>16

\* The lane gives its item up: the row and the owner stay, and a delete may be retried.
LEMMA DropKeeps ==
  ASSUME HandoffInv, NEW s \in Chats, step[s] # "idle", LaneDrops(s),
         UNCHANGED <<durable, host, owners, claimed, unrecorded, lanes, crashes, expiries>>,
         fatal' \in BOOLEAN, faults' \in 0..MaxFaults,
         cleaning' = cleaning \/ (cleaning' = cleaning \cup {item[s]} /\ inbox[item[s]])
  PROVE  HandoffInv'
<1> USE DEF HandoffInv, durable
<1>1. /\ item' = [item EXCEPT ![s] = None] /\ step' = [step EXCEPT ![s] = "idle"]
      /\ item \in [Chats -> Commands \cup {None}] /\ lanes \in [Chats -> Seq(Commands)]
  BY DEF LaneDrops, HandoffTypeOK
<1>2. \A r \in Chats : \/ item'[r] = item[r] /\ step'[r] = step[r] /\ r # s
                       \/ item'[r] = None /\ step'[r] = "idle"
  BY <1>1 DEF HandoffTypeOK
<1>3. item[s] \in Commands /\ ChatOf[item[s]] = s /\ owners[item[s]] = 1
      /\ item[s] \notin ToSet(lanes[s])
  BY ItemIs
<1>4. HandoffTypeOK'
  <2>1. item' \in [Chats -> Commands \cup {None}] BY <1>1
  <2>2. step' \in [Chats -> {"idle", "start", "await", "deliver", "complete", "retained"}]
    BY <1>1 DEF HandoffTypeOK
  <2>3. \A r \in Chats : step'[r] = "idle" <=> item'[r] = None BY <1>2 DEF HandoffTypeOK
  <2>4. cleaning' \subseteq Commands BY <1>3 DEF HandoffTypeOK
  <2> QED BY <2>1, <2>2, <2>3, <2>4 DEF HandoffTypeOK
<1>5. LanesFit'
  <2>1. \A r \in Chats : None \notin ToSet(lanes[r]) BY <1>1, HeldAt, HandoffAssumption
  <2> QED BY <1>2, <2>1, HandoffAssumption DEF LanesFit
<1>6. StepsFit' BY <1>2 DEF StepsFit
<1>7. RunsFit' BY DEF RunsFit
<1>8. CleaningFits' BY <1>3 DEF CleaningFits
<1>9. OneOwner'
  <2>1. \A c \in Commands : AtWork(c)' => AtWork(c) /\ c # item[s]
    BY <1>1, <1>2, <1>3, HandoffAssumption DEF AtWork
  <2>2. \A c \in Commands : Reserved(c)' <=> Reserved(c) BY DEF Reserved
  <2> QED BY <2>1, <2>2 DEF OneOwner
<1>10. NothingAcceptedIsLost' BY DEF NothingAcceptedIsLost, Reserved
<1> QED BY <1>4, <1>5, <1>6, <1>7, <1>8, <1>9, <1>10

\* The lane admits a command, out of its queue or once more.
LEMMA AdmitKeeps ==
  ASSUME HandoffInv, NEW s \in Chats, LaneTakes(s) \/ Retry(s)
  PROVE  HandoffInv'
<1> USE DEF HandoffInv, durable, bus, limits
<1>0. UNCHANGED <<durable, host, bus, unrecorded, limits>> BY DEF LaneTakes, Retry
<1>1. item \in [Chats -> Commands \cup {None}] /\ lanes \in [Chats -> Seq(Commands)]
      /\ step \in [Chats -> {"idle", "start", "await", "deliver", "complete", "retained"}]
  BY DEF HandoffTypeOK
<1>2. PICK c \in Commands :
        /\ Admit(s, c) /\ ChatOf[c] = s
        /\ lanes' \in [Chats -> Seq(Commands)]
        /\ \A r \in Chats : r # s => lanes'[r] = lanes[r]
        /\ IsInjective(lanes'[s]) /\ c \notin ToSet(lanes'[s])
        /\ ToSet(lanes'[s]) \subseteq ToSet(lanes[s])
        /\ c \in ToSet(lanes[s]) \/ c = item[s]
        /\ ToSet(lanes[s]) \subseteq ToSet(lanes'[s]) \cup {c}
  <2>1. CASE LaneTakes(s)
    <3> DEFINE q == lanes[s]
    <3>1. Single(q) /\ q # <<>> /\ lanes' = [lanes EXCEPT ![s] = Tail(q)] /\ Admit(s, Head(q))
      BY <1>1, <2>1 DEF LaneTakes, Single, LanesFit
    <3>2. /\ Single(Tail(q)) /\ Head(q) \in Commands /\ Head(q) \in ToSet(q)
          /\ ToSet(Tail(q)) = ToSet(q) \ {Head(q)}
      BY <3>1, HeadGone
    <3>3. ChatOf[Head(q)] = s BY <3>2 DEF LanesFit
    <3>4. lanes'[s] = Tail(q) /\ lanes' \in [Chats -> Seq(Commands)] BY <1>1, <3>1, <3>2 DEF Single
    <3> HIDE DEF q
    <3>5. lanes[s] = q BY DEF q
    <3>6. \A r \in Chats : r # s => lanes'[r] = lanes[r] BY <1>1, <3>1
    <3> QED BY <3>1, <3>2, <3>3, <3>4, <3>5, <3>6 DEF Single
  <2>2. CASE Retry(s)
    <3>1. step[s] # "idle" /\ Admit(s, item[s]) /\ lanes' = lanes BY <2>2 DEF Retry
    <3>2. item[s] \in Commands /\ ChatOf[item[s]] = s /\ item[s] \notin ToSet(lanes[s])
      BY <3>1, ItemIs
    <3>3. IsInjective(lanes[s]) BY DEF LanesFit
    <3> QED BY <1>1, <3>1, <3>2, <3>3
  <2> QED BY <2>1, <2>2
<1>3. PICK x \in {"start", "deliver"} :
        /\ item' = [item EXCEPT ![s] = c] /\ step' = [step EXCEPT ![s] = x]
        /\ x = "start" => turn[c] = "none"
  BY <1>2 DEF Admit
<1>4. /\ \A r \in Chats : r # s => item'[r] = item[r] /\ step'[r] = step[r]
      /\ item'[s] = c /\ step'[s] = x
  BY <1>1, <1>3
<1>5. HandoffTypeOK'
  <2>1. item' \in [Chats -> Commands \cup {None}] BY <1>1, <1>3
  <2>2. step' \in [Chats -> {"idle", "start", "await", "deliver", "complete", "retained"}]
    BY <1>1, <1>3
  <2>3. \A r \in Chats : step'[r] = "idle" <=> item'[r] = None
    BY <1>4, HandoffAssumption DEF HandoffTypeOK
  <2> QED BY <1>0, <1>2, <2>1, <2>2, <2>3 DEF HandoffTypeOK
<1>6. LanesFit' BY <1>2, <1>4 DEF LanesFit
<1>7. StepsFit' BY <1>0, <1>3, <1>4 DEF StepsFit
<1>8. RunsFit' BY <1>0 DEF RunsFit
<1>9. CleaningFits' BY <1>0 DEF CleaningFits
<1>10. OneOwner'
  <2>1. \A d \in Commands : AtWork(d)' => AtWork(d)
    <3> SUFFICES ASSUME NEW d \in Commands, AtWork(d)' PROVE AtWork(d) OBVIOUS
    <3>1. d \in ToSet(lanes'[ChatOf[d]]) \/ item'[ChatOf[d]] = d BY DEF AtWork
    <3>2. CASE ChatOf[d] = s BY <1>2, <1>4, <3>1, <3>2 DEF AtWork
    <3>3. CASE ChatOf[d] # s
      <4>1. ChatOf[d] \in Chats BY HandoffAssumption
      <4> QED BY <1>2, <1>4, <3>1, <3>3, <4>1 DEF AtWork
    <3> QED BY <3>2, <3>3
  <2>2. \A d \in Commands : Reserved(d)' <=> Reserved(d) BY <1>0 DEF Reserved
  <2> QED BY <1>0, <2>1, <2>2 DEF OneOwner
<1>11. NothingAcceptedIsLost' BY <1>0 DEF NothingAcceptedIsLost, Reserved
<1> QED BY <1>5, <1>6, <1>7, <1>8, <1>9, <1>10, <1>11

\* The turn of the item starts, writes the history and ends, and its answer is delivered,
\* or is not: the bus, the rows and the lanes stay as they are.
LEMMA WorkKeeps ==
  ASSUME HandoffInv, NEW s \in Chats,
         TurnStarts(s) \/ TurnPersists(s) \/ TurnEnds(s) \/ Deliver(s) \/ DeliveryFails(s)
  PROVE  HandoffInv'
<1> USE DEF HandoffInv, durable, bus, limits, lane
<1>0. step[s] # "idle" /\ UNCHANGED <<receipt, rows, host, bus, unrecorded, lanes, item, crashes, expiries>>
  BY DEF TurnStarts, TurnPersists, TurnEnds, Deliver, DeliveryFails
<1>1. item[s] \in Commands /\ Reserved(item[s]) /\ \A r \in Chats : item[r] = item[s] => r = s
  BY <1>0, ItemIs
<1>2. OneOwner'
  <2>1. \A c \in Commands : (AtWork(c)' <=> AtWork(c)) /\ (Reserved(c)' <=> Reserved(c))
    BY <1>0 DEF AtWork, Reserved
  <2> QED BY <1>0, <2>1 DEF OneOwner
<1>3. LanesFit' BY <1>0 DEF LanesFit
<1>4. CASE TurnStarts(s)
  <2>1. /\ step[s] = "start" /\ turn[item[s]] = "none"
        /\ runs' = [runs EXCEPT ![item[s]] = @ + 1] /\ turn' = [turn EXCEPT ![item[s]] = "running"]
        /\ step' = [step EXCEPT ![s] = "await"] /\ UNCHANGED <<message, inbox, faults>>
    BY <1>4 DEF TurnStarts, StepsFit
  <2>2. HandoffTypeOK' BY <1>0, <1>1, <2>1 DEF HandoffTypeOK
  <2>3. StepsFit' BY <1>0, <1>1, <2>1 DEF StepsFit, HandoffTypeOK
  <2>4. RunsFit' BY <1>1, <2>1 DEF RunsFit, HandoffTypeOK
  <2>5. CleaningFits' BY <1>0, <2>1 DEF CleaningFits
  <2>6. NothingAcceptedIsLost' BY <1>0, <1>1, <2>1 DEF NothingAcceptedIsLost, Reserved, HandoffTypeOK
  <2> QED BY <1>2, <1>3, <2>2, <2>3, <2>4, <2>5, <2>6
<1>5. CASE TurnPersists(s)
  <2>1. /\ step[s] = "await" /\ turn[item[s]] # "none" /\ UNCHANGED <<runs, turn, inbox, step, faults>>
        /\ message' = [message EXCEPT ![item[s]] = TRUE]
    BY <1>5 DEF TurnPersists, StepsFit
  <2>2. HandoffTypeOK' BY <1>0, <1>1, <2>1 DEF HandoffTypeOK
  <2>3. StepsFit' BY <1>0, <2>1 DEF StepsFit
  <2>4. RunsFit' BY <1>1, <2>1 DEF RunsFit, HandoffTypeOK
  <2>5. CleaningFits' BY <1>0, <2>1 DEF CleaningFits
  <2>6. NothingAcceptedIsLost' BY <1>0, <2>1 DEF NothingAcceptedIsLost, Reserved
  <2> QED BY <1>2, <1>3, <2>2, <2>3, <2>4, <2>5, <2>6
<1>6. CASE TurnEnds(s)
  <2>1. /\ turn[item[s]] # "none" /\ turn' = [turn EXCEPT ![item[s]] = "ended"]
        /\ step' = [step EXCEPT ![s] = "deliver"] /\ UNCHANGED <<runs, message, inbox, faults>>
    BY <1>6 DEF TurnEnds, StepsFit
  <2>2. HandoffTypeOK' BY <1>0, <1>1, <2>1 DEF HandoffTypeOK, TurnEnds
  <2>3. StepsFit' BY <1>0, <1>1, <2>1 DEF StepsFit, HandoffTypeOK
  <2>4. RunsFit' BY <1>1, <2>1 DEF RunsFit, HandoffTypeOK
  <2>5. CleaningFits' BY <1>0, <2>1 DEF CleaningFits
  <2>6. NothingAcceptedIsLost' BY <1>0, <2>1 DEF NothingAcceptedIsLost, Reserved
  <2> QED BY <1>2, <1>3, <2>2, <2>3, <2>4, <2>5, <2>6
<1>7. CASE Deliver(s) \/ DeliveryFails(s)
  <2>1. PICK x \in {"complete", "retained"} :
          /\ step' = [step EXCEPT ![s] = x] /\ UNCHANGED <<runs, message, turn>>
          /\ faults' \in 0..MaxFaults
          /\ inbox' = inbox \/ inbox' = [inbox EXCEPT ![item[s]] = TRUE]
          /\ x = "complete" => inbox'[item[s]]
    <3>1. CASE Deliver(s) BY <1>1, <3>1 DEF Deliver, HandoffTypeOK
    <3>2. CASE DeliveryFails(s)
      <4>1. faults' \in 0..MaxFaults BY <3>2, HandoffAssumption DEF DeliveryFails, Fault, HandoffTypeOK
      <4> QED BY <3>2, <4>1 DEF DeliveryFails
    <3> QED BY <1>7, <3>1, <3>2
  <2>2. \A c \in Commands : inbox[c] => inbox'[c]
    <3>1. inbox \in [Commands -> BOOLEAN] BY DEF HandoffTypeOK
    <3>2. CASE inbox' = inbox BY <3>2
    <3>3. CASE inbox' = [inbox EXCEPT ![item[s]] = TRUE]
      <4> SUFFICES ASSUME NEW c \in Commands, inbox[c] PROVE inbox'[c] OBVIOUS
      <4>1. CASE c = item[s] BY <3>1, <3>3, <4>1
      <4>2. CASE c # item[s] BY <3>1, <3>3, <4>2
      <4> QED BY <4>1, <4>2
    <3> QED BY <2>1, <3>2, <3>3
  <2>3. HandoffTypeOK'
    <3>1. \A r \in Chats : step'[r] = "idle" <=> item[r] = None
      BY <1>0, <2>1 DEF HandoffTypeOK
    <3> QED BY <1>0, <1>1, <2>1, <3>1 DEF HandoffTypeOK
  <2>4. StepsFit'
    <3>1. \A r \in Chats : step[r] # "idle" => item[r] \in Commands BY ItemIs
    <3> QED BY <1>0, <2>1, <2>2, <3>1 DEF StepsFit, HandoffTypeOK
  <2>5. RunsFit' BY <2>1 DEF RunsFit
  <2>6. CleaningFits' BY <1>0, <2>2 DEF CleaningFits, HandoffTypeOK
  <2>7. NothingAcceptedIsLost' BY <1>0, <2>1, <2>2 DEF NothingAcceptedIsLost, Reserved
  <2> QED BY <1>2, <1>3, <2>3, <2>4, <2>5, <2>6, <2>7
<1> QED BY <1>4, <1>5, <1>6, <1>7

\* A row is reserved for a command that has none, and so has no owner.
LEMMA NotReserved ==
  ASSUME HandoffInv, NEW c \in Commands, ~Reserved(c)
  PROVE  /\ owners[c] = 0 /\ c \notin cleaning /\ ~AtWork(c)
         /\ Single(Append(rows, c)) /\ ToSet(Append(rows, c)) = ToSet(rows) \cup {c}
<1>1. owners[c] = 0 BY DEF HandoffInv, HandoffTypeOK, OneOwner
<1>2. c \notin cleaning /\ ~AtWork(c) BY <1>1 DEF HandoffInv, OneOwner, CleaningFits
<1>3. Single(rows) /\ c \notin ToSet(rows) BY DEF HandoffInv, HandoffTypeOK, Single, Reserved
<1> QED BY <1>1, <1>2, <1>3, OneMore

\* A command arrives: its row, if it has none, comes with an owner and a place in its lane.
LEMMA SendKeeps ==
  ASSUME HandoffInv, NEW c \in Commands, Send(c) \/ SendUnrecorded(c)
  PROVE  HandoffInv'
<1> USE DEF HandoffInv, limits
<1>0. UNCHANGED <<runs, turn, message, inbox, host, claimed, cleaning, fatal, item, step, crashes, expiries>>
  BY DEF Send, SendUnrecorded
<1>1. /\ unrecorded' \subseteq Commands /\ faults' \in 0..MaxFaults
      /\ receipt' \in [Commands -> {"none", "processing", "ok", "interrupted", "unknown"}]
      /\ \A d \in Commands : d # c => receipt'[d] = receipt[d]
  <2>1. CASE Send(c) BY <2>1 DEF Send, HandoffTypeOK
  <2>2. CASE SendUnrecorded(c)
    <3>1. faults' \in 0..MaxFaults BY <2>2, HandoffAssumption DEF SendUnrecorded, Fault, HandoffTypeOK
    <3> QED BY <2>2, <3>1 DEF SendUnrecorded, HandoffTypeOK
  <2> QED BY <2>1, <2>2
<1>2. StepsFit' /\ RunsFit' BY <1>0 DEF StepsFit, RunsFit
<1>3. CASE PublishInbound(c) /\ ~Reserved(c)
  <2>1. /\ rows' = Append(rows, c) /\ owners' = [owners EXCEPT ![c] = @ + 1]
        /\ lanes' = [lanes EXCEPT ![ChatOf[c]] = Append(@, c)]
    BY <1>3 DEF PublishInbound, Reserve
  <2>2. /\ owners[c] = 0 /\ c \notin cleaning /\ ~AtWork(c)
        /\ Single(rows') /\ ToSet(rows') = ToSet(rows) \cup {c}
    BY <1>3, <2>1, NotReserved
  <2>3. ChatOf[c] \in Chats /\ lanes \in [Chats -> Seq(Commands)] BY HandoffAssumption DEF HandoffTypeOK
  <2>4. /\ Single(Append(lanes[ChatOf[c]], c))
        /\ ToSet(Append(lanes[ChatOf[c]], c)) = ToSet(lanes[ChatOf[c]]) \cup {c}
    <3>1. Single(lanes[ChatOf[c]]) BY <2>3 DEF Single, LanesFit
    <3>2. c \notin ToSet(lanes[ChatOf[c]]) BY <2>2 DEF AtWork
    <3> QED BY <3>1, <3>2, OneMore
  <2>5. /\ lanes' \in [Chats -> Seq(Commands)]
        /\ \A s \in Chats : /\ IsInjective(lanes'[s])
                            /\ ToSet(lanes'[s]) = IF s = ChatOf[c] THEN ToSet(lanes[s]) \cup {c} ELSE ToSet(lanes[s])
    <3>1. lanes' \in [Chats -> Seq(Commands)] BY <2>1, <2>3, <2>4 DEF Single
    <3>2. ASSUME NEW s \in Chats, s # ChatOf[c] PROVE lanes'[s] = lanes[s] BY <2>1, <2>3, <3>2
    <3>3. lanes'[ChatOf[c]] = Append(lanes[ChatOf[c]], c) BY <2>1, <2>3
    <3> QED BY <2>4, <3>1, <3>2, <3>3 DEF Single, LanesFit
  <2>6. \A d \in Commands : owners'[d] = IF d = c THEN 1 ELSE owners[d]
    BY <2>1, <2>2 DEF HandoffTypeOK
  <2>7. HandoffTypeOK'
    <3>1. owners' \in [Commands -> Nat] BY <2>1 DEF HandoffTypeOK
    <3> QED BY <1>0, <1>1, <2>2, <2>5, <3>1 DEF HandoffTypeOK, Single
  <2>8. LanesFit'
    <3>1. \A s \in Chats : item[s] # c \/ s # ChatOf[c] BY <2>2 DEF AtWork
    <3> QED BY <1>0, <2>5, <3>1 DEF LanesFit
  <2>9. CleaningFits' BY <1>0, <2>2, <2>6 DEF CleaningFits, HandoffTypeOK
  <2>10. OneOwner'
    <3>1. \A d \in Commands : AtWork(d)' => AtWork(d) \/ d = c
      BY <1>0, <2>5, HandoffAssumption DEF AtWork
    <3>2. \A d \in Commands : Reserved(d)' <=> Reserved(d) \/ d = c BY <2>2 DEF Reserved
    <3> QED BY <1>0, <2>2, <2>6, <3>1, <3>2 DEF OneOwner
  <2>11. NothingAcceptedIsLost' BY <1>0, <1>1, <2>2 DEF NothingAcceptedIsLost, Reserved
  <2> QED BY <1>2, <2>7, <2>8, <2>9, <2>10, <2>11
<1>4. CASE UNCHANGED <<rows, owners, lanes>> /\ (Reserved(c) \/ receipt'[c] # "ok")
  <2>1. HandoffTypeOK' BY <1>0, <1>1, <1>4 DEF HandoffTypeOK
  <2>2. LanesFit' /\ CleaningFits' BY <1>0, <1>4 DEF LanesFit, CleaningFits
  <2>3. OneOwner'
    <3>1. \A d \in Commands : (AtWork(d)' <=> AtWork(d)) /\ (Reserved(d)' <=> Reserved(d))
      BY <1>0, <1>4 DEF AtWork, Reserved
    <3> QED BY <1>0, <1>4, <3>1 DEF OneOwner
  <2>4. NothingAcceptedIsLost' BY <1>0, <1>1, <1>4 DEF NothingAcceptedIsLost, Reserved
  <2> QED BY <1>2, <2>1, <2>2, <2>3, <2>4
<1>5. \/ PublishInbound(c) /\ ~Reserved(c)
      \/ UNCHANGED <<rows, owners, lanes>> /\ (Reserved(c) \/ receipt'[c] # "ok")
  BY DEF Send, SendUnrecorded, PublishInbound, HandoffTypeOK
<1> QED BY <1>3, <1>4, <1>5

\* A receipt is settled by a resend, or forgotten: what it says is backed by the history.
LEMMA ReceiptKeeps ==
  ASSUME HandoffInv, NEW c \in Commands, Resend(c) \/ ReceiptExpires(c)
  PROVE  HandoffInv'
<1> USE DEF HandoffInv, bus, lane, limits
<1>0. UNCHANGED <<rows, runs, turn, message, inbox, host, bus, lane, crashes, faults>>
  BY DEF Resend, ReceiptExpires
<1>1. /\ unrecorded' \subseteq Commands /\ expiries' \in 0..MaxExpiries
      /\ receipt' \in [Commands -> {"none", "processing", "ok", "interrupted", "unknown"}]
      /\ \A d \in Commands : receipt'[d] = "ok" => receipt[d] = "ok" \/ message[d]
  <2>1. CASE Resend(c) BY <2>1 DEF Resend, HandoffTypeOK
  <2>2. CASE ReceiptExpires(c)
    <3>1. expiries' \in 0..MaxExpiries BY <2>2, HandoffAssumption DEF ReceiptExpires, HandoffTypeOK
    <3> QED BY <2>2, <3>1 DEF ReceiptExpires, HandoffTypeOK
  <2> QED BY <2>1, <2>2
<1>2. HandoffTypeOK' BY <1>0, <1>1 DEF HandoffTypeOK
<1>3. LanesFit' /\ StepsFit' /\ RunsFit' /\ CleaningFits'
  BY <1>0 DEF LanesFit, StepsFit, RunsFit, CleaningFits
<1>4. OneOwner'
  <2>1. \A d \in Commands : (AtWork(d)' <=> AtWork(d)) /\ (Reserved(d)' <=> Reserved(d))
    BY <1>0 DEF AtWork, Reserved
  <2> QED BY <1>0, <2>1 DEF OneOwner
<1>5. NothingAcceptedIsLost'
  <2>1. \A d \in Commands : message[d] => runs[d] > 0 BY DEF RunsFit
  <2>2. \A d \in Commands : (receipt[d] = "ok" \/ runs[d] > 0) => Reserved(d) \/ inbox[d]
    BY DEF NothingAcceptedIsLost
  <2> QED BY <1>0, <1>1, <2>1, <2>2 DEF NothingAcceptedIsLost, Reserved
<1> QED BY <1>2, <1>3, <1>4, <1>5

\* The row of a delivered answer is deleted, by the lane or by its retry.
LEMMA DeleteKeeps ==
  ASSUME HandoffInv, NEW c \in Commands, Finalize(c), UNCHANGED fatal,
         inbox[c], owners[c] = 1, c \notin ToSet(lanes[ChatOf[c]]),
         UNCHANGED <<receipt, runs, turn, message, inbox, host, unrecorded, limits>>,
         cleaning' = cleaning \ {c},
         item' \in [Chats -> Commands \cup {None}],
         step' \in [Chats -> {"idle", "start", "await", "deliver", "complete", "retained"}],
         \A s \in Chats : \/ item'[s] = item[s] /\ step'[s] = step[s] /\ item[s] # c
                          \/ item'[s] = None /\ step'[s] = "idle"
  PROVE  HandoffInv'
<1> DEFINE keep == Commands \ {c}
           rs == Kept(rows, keep)
           own == [owners EXCEPT ![c] = @ - 1]
<1>1. rows \in Seq(Commands) /\ IsInjective(rows) /\ owners \in [Commands -> Nat]
      /\ claimed \ {c} \in SUBSET Commands
  BY DEF HandoffInv, HandoffTypeOK
<1>2. Single(rs) /\ ToSet(rs) = ToSet(rows) \ {c}
  <2> HIDE DEF keep
  <2>1. rs \in Seq(Commands) /\ ToSet(rs) = ToSet(rows) \cap keep /\ IsInjective(rs) BY <1>1, KeptIs
  <2>2. ToSet(rows) \subseteq Commands BY <1>1, HeldAt
  <2> QED BY <2>1, <2>2 DEF Single, keep
<1>3. own = [d \in Commands |-> IF d \in {c} THEN 0 ELSE owners[d]]
  <2>1. own = [d \in Commands |-> IF d = c THEN owners[c] - 1 ELSE owners[d]] BY <1>1
  <2>2. owners[c] - 1 = 0 OBVIOUS
  <2> QED BY <2>1, <2>2
<1>4. Recover(rs, own, claimed \ {c}) BY DEF Finalize
<1>5. \A s \in Chats : \/ item'[s] = item[s] /\ step'[s] = step[s] /\ item[s] \notin {c}
                       \/ item'[s] = None /\ step'[s] = "idle"
  OBVIOUS
<1>6. {c} \in SUBSET Commands /\ \A d \in {c} : inbox[d] /\ d \notin ToSet(lanes[ChatOf[d]]) OBVIOUS
<1>7. host' \in {"down", "up", "working"} BY DEF HandoffInv, HandoffTypeOK
<1> HIDE DEF rs, own
<1> QED BY <1>1, <1>2, <1>3, <1>4, <1>5, <1>6, <1>7, PagesKeep

\* The lane completes its item, or fails to.
LEMMA CompletionKeeps ==
  ASSUME HandoffInv, NEW s \in Chats,
         Complete(s) \/ DeleteFails(s) \/ DeleteBreaks(s) \/ CompleteRefused(s)
  PROVE  HandoffInv'
<1> DEFINE c == item[s]
<1>1. step[s] = "complete" /\ LaneDrops(s)
  BY DEF Complete, DeleteFails, DeleteBreaks, CompleteRefused
<1>2. /\ c \in Commands /\ ChatOf[c] = s /\ c \notin ToSet(lanes[s]) /\ owners[c] = 1
      /\ c \notin cleaning /\ \A r \in Chats : item[r] = c => r = s
  BY <1>1, ItemIs
<1>3. inbox[c] BY <1>1 DEF HandoffInv, StepsFit
<1>4. CASE Complete(s)
  <2>1. /\ item' = [item EXCEPT ![s] = None] /\ step' = [step EXCEPT ![s] = "idle"]
        /\ item \in [Chats -> Commands \cup {None}]
        /\ step \in [Chats -> {"idle", "start", "await", "deliver", "complete", "retained"}]
    BY <1>1 DEF LaneDrops, HandoffInv, HandoffTypeOK
  <2>2. \A r \in Chats : \/ item'[r] = item[r] /\ step'[r] = step[r] /\ item[r] # c
                         \/ item'[r] = None /\ step'[r] = "idle"
    BY <1>2, <2>1
  <2>3. /\ item' \in [Chats -> Commands \cup {None}]
        /\ step' \in [Chats -> {"idle", "start", "await", "deliver", "complete", "retained"}]
    BY <2>1
  <2>4. Finalize(c) /\ UNCHANGED fatal
        /\ UNCHANGED <<receipt, runs, turn, message, inbox, host, unrecorded, limits>>
        /\ cleaning' = cleaning \ {c}
    BY <1>2, <1>4 DEF Complete
  <2> HIDE DEF c
  <2> QED BY <1>2, <1>3, <2>2, <2>3, <2>4, DeleteKeeps
<1>5. CASE ~Complete(s)
  <2>1. UNCHANGED <<durable, host, owners, claimed, unrecorded, lanes, crashes, expiries>>
    BY <1>5 DEF DeleteFails, DeleteBreaks, CompleteRefused, bus, limits
  <2>2. fatal' \in BOOLEAN /\ faults' \in 0..MaxFaults
    <3>1. fatal \in BOOLEAN /\ faults \in 0..MaxFaults /\ MaxFaults \in Nat
      BY HandoffAssumption DEF HandoffInv, HandoffTypeOK
    <3>2. (fatal' = fatal \/ fatal' = TRUE) /\ (faults' = faults \/ Fault)
      BY <1>5 DEF DeleteFails, DeleteBreaks, CompleteRefused, bus, limits
    <3>3. fatal' \in BOOLEAN BY <3>1, <3>2
    <3>4. faults' \in 0..MaxFaults BY <3>1, <3>2 DEF Fault
    <3> QED BY <3>3, <3>4
  <2>3. cleaning' = cleaning \/ (cleaning' = cleaning \cup {c} /\ inbox[c])
    BY <1>3, <1>5 DEF DeleteFails, DeleteBreaks, CompleteRefused, bus
  <2>4. step[s] # "idle" BY <1>1
  <2> QED BY <1>1, <2>1, <2>2, <2>3, <2>4, DropKeeps
<1> QED BY <1>4, <1>5

\* A delete that failed is tried again, or breaks for good.
LEMMA RetriesKeep ==
  ASSUME HandoffInv, NEW c \in Commands, RetryDelete(c) \/ RetryBreaks(c)
  PROVE  HandoffInv'
<1> USE DEF HandoffInv
<1>1. c \in cleaning /\ cleaning' = cleaning \ {c} /\ owners[c] = 1 /\ inbox[c] /\ ~AtWork(c)
  BY DEF RetryDelete, RetryBreaks, CleaningFits, OneOwner
<1>2. CASE RetryDelete(c)
  <2>1. Finalize(c) /\ UNCHANGED fatal
        /\ UNCHANGED <<receipt, runs, turn, message, inbox, host, unrecorded, item, step, limits>>
    BY <1>2 DEF RetryDelete
  <2>2. c \notin ToSet(lanes[ChatOf[c]]) BY <1>1 DEF AtWork
  <2>3. \A s \in Chats : item[s] # c
    <3>1. \A s \in Chats : item[s] = c => ChatOf[c] = s BY DEF LanesFit
    <3> QED BY <1>1, <3>1 DEF AtWork
  <2>4. /\ item' \in [Chats -> Commands \cup {None}]
        /\ step' \in [Chats -> {"idle", "start", "await", "deliver", "complete", "retained"}]
    BY <2>1 DEF HandoffTypeOK
  <2>5. \A s \in Chats : \/ item'[s] = item[s] /\ step'[s] = step[s] /\ item[s] # c
                         \/ item'[s] = None /\ step'[s] = "idle"
    BY <2>1, <2>3
  <2> QED BY <1>1, <2>1, <2>2, <2>4, <2>5, DeleteKeeps
<1>3. CASE RetryBreaks(c)
  <2>1. UNCHANGED <<durable, host, owners, claimed, unrecorded, lane, crashes, expiries>>
        /\ fatal' \in BOOLEAN /\ faults' \in 0..MaxFaults
    BY <1>3, HandoffAssumption DEF RetryBreaks, Fault, HandoffTypeOK
  <2> USE DEF durable, lane
  <2>2. HandoffTypeOK' BY <1>1, <2>1 DEF HandoffTypeOK
  <2>3. LanesFit' /\ StepsFit' /\ RunsFit' /\ CleaningFits'
    BY <1>1, <2>1 DEF LanesFit, StepsFit, RunsFit, CleaningFits
  <2>4. \A d \in Commands : (AtWork(d)' <=> AtWork(d)) /\ (Reserved(d)' <=> Reserved(d))
    BY <2>1 DEF AtWork, Reserved
  <2>5. OneOwner' BY <1>1, <2>1, <2>4 DEF OneOwner
  <2>6. NothingAcceptedIsLost' BY <2>1 DEF NothingAcceptedIsLost, Reserved
  <2> QED BY <2>2, <2>3, <2>5, <2>6
<1> QED BY <1>2, <1>3

\* The process dies, also between the commits of a command, and is started again.
LEMMA CrashesKeep ==
  ASSUME HandoffInv, Crash \/ (\E c \in Commands : CrashInSend(c)) \/ Boot
  PROVE  HandoffInv'
<1> USE DEF HandoffInv, durable, bus, lane, limits
<1>0. ToSet(<<>>) = {} /\ <<>> \in Seq(Commands) /\ IsInjective(<<>>) BY DEF ToSet, IsInjective
<1>1. ASSUME Dies, UNCHANGED <<runs, turn, message, inbox, faults, expiries>>,
             rows' \in Seq(Commands), IsInjective(rows'), ToSet(rows) \subseteq ToSet(rows'),
             receipt' \in [Commands -> {"none", "processing", "ok", "interrupted", "unknown"}],
             \A c \in Commands : receipt'[c] = "ok" => receipt[c] = "ok"
      PROVE  HandoffInv'
  <2>1. HandoffTypeOK'
    <3>1. crashes' \in 0..MaxCrashes BY <1>1, HandoffAssumption DEF Dies, HandoffTypeOK
    <3>2. lanes' \in [Chats -> Seq(Commands)] BY <1>0, <1>1 DEF Dies
    <3>3. \A s \in Chats : step'[s] = "idle" <=> item'[s] = None BY <1>1 DEF Dies
    <3> QED BY <1>1, <3>1, <3>2, <3>3 DEF Dies, HandoffTypeOK
  <2>2. LanesFit' BY <1>0, <1>1, HandoffAssumption DEF Dies, LanesFit
  <2>3. StepsFit' /\ RunsFit' /\ CleaningFits' BY <1>1 DEF Dies, StepsFit, RunsFit, CleaningFits
  <2>4. OneOwner' BY <1>0, <1>1, HandoffAssumption DEF Dies, OneOwner, AtWork, Reserved
  <2>5. NothingAcceptedIsLost' BY <1>1 DEF NothingAcceptedIsLost, Reserved
  <2> QED BY <2>1, <2>2, <2>3, <2>4, <2>5
<1>2. rows \in Seq(Commands) /\ IsInjective(rows) BY DEF HandoffTypeOK
<1>3. CASE Crash
  <2>1. receipt' \in [Commands -> {"none", "processing", "ok", "interrupted", "unknown"}]
    BY <1>3 DEF Crash, HandoffTypeOK
  <2> QED BY <1>1, <1>2, <1>3, <2>1 DEF Crash
<1>4. ASSUME NEW c \in Commands, CrashInSend(c) PROVE HandoffInv'
  <2>1. rows' = rows \/ (~Reserved(c) /\ rows' = Append(rows, c)) BY <1>4 DEF CrashInSend, Reserve
  <2>2. rows' \in Seq(Commands) /\ IsInjective(rows') /\ ToSet(rows) \subseteq ToSet(rows')
    <3>1. CASE rows' = rows BY <1>2, <3>1
    <3>2. CASE ~Reserved(c) /\ rows' = Append(rows, c) BY <3>2, NotReserved DEF Single
    <3> QED BY <2>1, <3>1, <3>2
  <2>3. /\ receipt' \in [Commands -> {"none", "processing", "ok", "interrupted", "unknown"}]
        /\ \A d \in Commands : receipt'[d] = "ok" => receipt[d] = "ok"
    BY <1>4 DEF CrashInSend, HandoffTypeOK
  <2> QED BY <1>1, <1>4, <2>2, <2>3 DEF CrashInSend
<1>5. CASE Boot
  <2>1. /\ host' = "up" /\ UNCHANGED <<receipt, rows, runs, message, inbox, bus, unrecorded, lane, limits>>
        /\ turn' = [c \in Commands |-> IF turn[c] = "running" THEN "ended" ELSE turn[c]]
    BY <1>5 DEF Boot
  <2>2. /\ turn' \in [Commands -> {"none", "running", "ended"}]
        /\ \A c \in Commands : turn'[c] = "none" <=> turn[c] = "none"
    BY <2>1 DEF HandoffTypeOK
  <2>3. HandoffTypeOK' BY <2>1, <2>2 DEF HandoffTypeOK
  <2>4. LanesFit' /\ CleaningFits' BY <2>1 DEF LanesFit, CleaningFits
  <2>5. StepsFit'
    <3>1. \A s \in Chats : step[s] # "idle" => item[s] \in Commands BY ItemIs
    <3> QED BY <2>1, <2>2, <3>1 DEF StepsFit
  <2>6. RunsFit' BY <2>1, <2>2 DEF RunsFit
  <2>7. \A d \in Commands : (AtWork(d)' <=> AtWork(d)) /\ (Reserved(d)' <=> Reserved(d))
    BY <2>1 DEF AtWork, Reserved
  <2>8. OneOwner' BY <2>1, <2>7 DEF OneOwner
  <2>9. NothingAcceptedIsLost' BY <2>1 DEF NothingAcceptedIsLost, Reserved
  <2> QED BY <2>3, <2>4, <2>5, <2>6, <2>8, <2>9
<1> QED BY <1>3, <1>4, <1>5

\* The worker reads the first page: what was sent since the channels accept has its owner.
LEMMA FirstPageKeeps ==
  ASSUME HandoffInv, StartWorker PROVE HandoffInv'
<1>1. /\ rows \in Seq(Commands) /\ IsInjective(rows) /\ owners \in [Commands -> Nat]
      /\ claimed \in SUBSET Commands
      /\ item \in [Chats -> Commands \cup {None}]
      /\ step \in [Chats -> {"idle", "start", "await", "deliver", "complete", "retained"}]
  BY DEF HandoffInv, HandoffTypeOK
<1>2. /\ Recover(rows, owners, claimed) /\ host' = "working" /\ fatal' = fatal
      /\ UNCHANGED <<receipt, runs, turn, message, inbox, cleaning, unrecorded, item, step, limits>>
  BY DEF StartWorker
<1>3. Single(rows) /\ ToSet(rows) = ToSet(rows) \ {} BY <1>1 DEF Single
<1>4. owners = [c \in Commands |-> IF c \in {} THEN 0 ELSE owners[c]] BY <1>1
<1>5. /\ \A s \in Chats : \/ item'[s] = item[s] /\ step'[s] = step[s] /\ item[s] \notin {}
                          \/ item'[s] = None /\ step'[s] = "idle"
      /\ item' \in [Chats -> Commands \cup {None}]
      /\ step' \in [Chats -> {"idle", "start", "await", "deliver", "complete", "retained"}]
  BY <1>1, <1>2
<1>6. {} \in SUBSET Commands /\ cleaning' = cleaning \ {} /\ host' \in {"down", "up", "working"}
      /\ \A c \in {} : inbox[c] /\ c \notin ToSet(lanes[ChatOf[c]])
  BY <1>2
<1> QED BY <1>1, <1>2, <1>3, <1>4, <1>5, <1>6, PagesKeep

\* Every step of the handoff keeps the invariant.
LEMMA HandoffKeeps ==
  ASSUME HandoffInv, [HandoffNext]_handoffVars PROVE HandoffInv'
<1>1. ASSUME NEW s \in Chats, StartFails(s) \/ TurnAbandoned(s) PROVE HandoffInv'
  <2>1. /\ step[s] # "idle" /\ LaneDrops(s)
        /\ UNCHANGED <<durable, host, owners, claimed, unrecorded, lanes, crashes, expiries>>
        /\ cleaning' = cleaning /\ fatal' \in BOOLEAN /\ faults' \in 0..MaxFaults
    BY <1>1, HandoffAssumption DEF StartFails, TurnAbandoned, bus, Fault, HandoffInv, HandoffTypeOK
  <2> QED BY <2>1, DropKeeps
<1>2. ASSUME NEW s \in Chats,
             \/ Lane(s) \/ StartFails(s) \/ TurnPersists(s) \/ TurnAbandoned(s)
             \/ DeliveryFails(s) \/ DeleteFails(s) \/ DeleteBreaks(s)
      PROVE HandoffInv'
  BY <1>1, <1>2, AdmitKeeps, WorkKeeps, CompletionKeeps DEF Lane
<1>3. ASSUME NEW c \in Commands,
             \/ Send(c) \/ SendUnrecorded(c) \/ Resend(c) \/ ReceiptExpires(c)
             \/ RetryDelete(c) \/ RetryBreaks(c) \/ CrashInSend(c)
      PROVE HandoffInv'
  BY <1>3, SendKeeps, ReceiptKeeps, RetriesKeep, CrashesKeep
<1>4. CASE Crash \/ Boot \/ StartWorker BY <1>4, CrashesKeep, FirstPageKeeps
<1>5. CASE UNCHANGED handoffVars
  <2> USE DEF HandoffInv, handoffVars, durable, bus, lane, limits
  <2>1. HandoffTypeOK' BY <1>5 DEF HandoffTypeOK
  <2>2. LanesFit' /\ StepsFit' /\ RunsFit' /\ CleaningFits'
    BY <1>5 DEF LanesFit, StepsFit, RunsFit, CleaningFits
  <2>3. \A d \in Commands : (AtWork(d)' <=> AtWork(d)) /\ (Reserved(d)' <=> Reserved(d))
    BY <1>5 DEF AtWork, Reserved
  <2>4. OneOwner' BY <1>5, <2>3 DEF OneOwner
  <2>5. NothingAcceptedIsLost' BY <1>5 DEF NothingAcceptedIsLost, Reserved
  <2> QED BY <2>1, <2>2, <2>4, <2>5
<1> QED BY <1>2, <1>3, <1>4, <1>5 DEF HandoffNext

\* For every set of commands and sessions, every page and any crashes, failures and forgotten
\* receipts: the tables, the owners, the lanes and the turns agree as HandoffInv says.
THEOREM HandoffInvariant == HandoffSpec => []HandoffInv
<1>1. HandoffInit => HandoffInv BY HandoffBegins
<1>2. HandoffInv /\ [HandoffNext]_handoffVars => HandoffInv' BY HandoffKeeps
<1> QED BY <1>1, <1>2, PTL DEF HandoffSpec

\* MessageBus and the worker never make two objects of one command, an object that waits or
\* is worked on is the command's one owner, and an owner has its row to delete.
THEOREM OwnersStayExact == HandoffSpec => []OwnersAreExact
<1>1. HandoffInv => OwnersAreExact BY DEF HandoffInv, OwnersAreExact
<1> QED BY <1>1, HandoffInvariant, PTL

\* A command runs at most once, however often it is sent, recovered or redelivered, and once
\* it was acknowledged or ran it has its row until its answer is in the device's inbox.
THEOREM CommandsRunOnce == HandoffSpec => []OnceAndNeverLost
<1>1. HandoffInv => OnceAndNeverLost
  BY DEF HandoffInv, OnceAndNeverLost, RunsFit, OneRun
<1> QED BY <1>1, HandoffInvariant, PTL

==============================================================================
