------------------------- MODULE SnapshotStoreProofs -------------------------
(***************************************************************************)
(* Proofs about SnapshotStore, for every number of plugins, snapshots and  *)
(* faults and every finite set of holders.                                 *)
(*                                                                         *)
(* StoreInv relates the snapshots, their leases and their drains, and does *)
(* not mention the procedure that holds the lock; the other parts of IInv  *)
(* say what the store looks like at each step of a procedure.  The core is *)
(* EveryGenerationOwed: as long as a generation is not closed there is a   *)
(* snapshot that is in use, or whose drain has yet to reach the plugin, or *)
(* that is disposing it now.  One lemma per group of actions shows that    *)
(* IInv is preserved; the frame lemmas say which part survives a step      *)
(* that leaves its variables alone.                                        *)
(***************************************************************************)
EXTENDS SnapshotStore, FiniteSetTheorems, WellFoundedInduction, TLAPS

\* The values of a procedure, and of op.
Steps == {"idle", "reconciled", "quiesce", "switch", "begin", "validate", "aborting", "finish",
          "seal", "giveup", "drop", "discarding", "await", "retry", "cancelled", "uses", "removed"}
Kinds == {"none", "replace", "stage", "disable", "remove", "promote", "drop", "reconcile"}
Procedures == [at : Steps, kind : Kinds, cand : 0 .. MaxSnapshots, plugin : 0 .. PluginCount,
               endpoint : BOOLEAN, awaits : SUBSET Snapshots, left : SUBSET Snapshots]
OpTyped == op \in Procedures

\* A snapshot that keeps its generations from being disposed.
Live(s) == state[s] \in {"validating", "committed"} \/ leases[s] > 0

\* Nothing refers to a snapshot or a generation before it was made.
GensRight ==
  /\ \A s \in Snapshots : s > made => state[s] = "compiled"
  /\ \A s \in Snapshots, p \in Plugins :
       /\ gens[s][p] <= s
       /\ gens[s][p] \notin {0, s} => state[gens[s][p]] # "compiled"
       /\ begun[<<p, s>>] # 0 => state[s] # "compiled"

\* Only the stable and the latest snapshot are committed, and only the candidate of the
\* publication in progress is being validated.
Pointers ==
  /\ state[current] = "committed" /\ state[latest] = "committed"
  /\ \A s \in Snapshots : state[s] = "committed" => s \in {current, latest}
  /\ \A s \in Snapshots : state[s] = "validating" => op.at = "validate" /\ s = op.cand
  /\ ready = 0 => latest = current
  /\ ready # 0 => ready = made /\ latest \in {current, ready}

\* Snapshot c is the current one with generation k of plugin p.
Changes(c, p, k) == gens[c] = [gens[current] EXCEPT ![p] = k]

\* promote_latest returned, and the candidate is still on record as ready.
Promoting == op.kind = "promote" /\ op.at = "finish"

\* The ready candidate differs from the current snapshot in one new generation.
ReadyRight ==
  ready # 0 /\ ~Promoting =>
    /\ current < ready /\ previous[ready] = current
    /\ state[ready] \in {"committed", "aborted", "gone"}
    /\ latest = ready <=> state[ready] = "committed"
    /\ \E p \in Plugins : Changes(ready, p, ready)

\* A publication before its commit.
Preparing == op.kind # "promote" /\ op.at \in {"quiesce", "switch", "begin", "validate"}

\* Its candidate is the newest snapshot and brings, or drops, one generation.
Publishing ==
  Preparing =>
    /\ op.kind \in {"replace", "stage", "disable", "remove"} /\ op.plugin \in Plugins
    /\ op.kind = "stage" => ~op.endpoint
    /\ ready = 0 /\ op.cand = made /\ current < op.cand
    /\ Changes(op.cand, op.plugin, IF op.kind \in {"disable", "remove"} THEN 0 ELSE op.cand)
    /\ op.at # "validate" => state[op.cand] = "compiled"
    /\ op.at = "validate" => state[op.cand] = "validating" /\ previous[op.cand] = current

\* A promotion works on the ready candidate, which is the latest snapshot.
Promotes ==
  op.kind = "promote" /\ op.at # "finish" =>
    /\ op.at \in {"quiesce", "seal", "switch", "giveup"}
    /\ op.cand = ready /\ ready # 0 
    /\ latest = ready /\ op.plugin \in Plugins
    /\ Changes(ready, op.plugin, ready)

\* After a commit the replaced snapshot drains, or has drained and left its trace.
Finishing ==
  op.at = "finish" =>
    /\ op.kind \in {"replace", "disable", "remove", "promote"} /\ op.plugin \in Plugins
    /\ op.cand = current /\ latest = current /\ previous[current] \in Snapshots
    /\ ready = IF op.kind = "promote" THEN current ELSE 0
    /\ op.kind = "remove" => gens[current][op.plugin] = 0
    /\ op.kind \in {"replace", "promote"} => phase[current] = "moving" /\
         LET s == previous[current] IN
         \/ s \in early /\ state[s] = "gone"
         \/ s \notin early /\ state[s] = "retired" /\ tx[s] = current

\* A candidate that is given up is not committed any more; only such a candidate may be
\* aborted and leased at once, while the procedure waits for that lease.
Dropping ==
  /\ op.at = "giveup" => op.kind = "promote"
  /\ op.at = "seal" => op.kind = "promote"
  /\ op.at \in {"drop", "discarding"} =>
       /\ op.cand = ready /\ ready # 0
       /\ latest = current /\ state[ready] \in {"aborted", "gone"}
       /\ op.kind \in {"reconcile", "drop"}
  /\ op.at \in {"aborting"} => /\ op.cand # 0 /\ op.kind \in {"replace", "stage", "disable", "remove"}
  /\ \A s \in Snapshots : state[s] = "aborted" /\ leases[s] > 0 => op.at = "drop" /\ s = op.cand

\* Only a retired or aborted snapshot without leases drains, and the disposal in hand is
\* on record.
Drains ==
  \A s \in Snapshots :
    /\ drain[s] # "no" => state[s] \in {"retired", "aborted"} /\ leases[s] = 0 /\ s \notin failed
    /\ hand[s] # 0 => /\ drain[s] \in {"runs", "stopping"} /\ gens[s][hand[s]] # 0
                      /\ begun[<<hand[s], gens[s][hand[s]]>>] # 0

\* What is leased, validated or committed has no generation whose disposal began.
LiveRight ==
  \A s \in Snapshots :
    /\ leases[s] > 0 => state[s] \in {"committed", "retired", "aborted"}
    /\ Live(s) => \A p \in Plugins : gens[s][p] # 0 => begun[<<p, gens[s][p]>>] = 0

\* Where admission is paused, where it is open, and where no lease is left.
Paused ==
  /\ op.at = "begin" => op.kind # "promote" /\ ~op.endpoint
  /\ op.kind # "promote" /\ op.at \in {"quiesce", "switch"} => op.endpoint
  /\ op.kind = "promote" /\ op.at = "quiesce" => op.endpoint
  /\ op.at \in {"quiesce", "seal", "switch"} /\ op.endpoint => ~accepting[current]
  /\ op.at \in {"seal", "switch"} /\ op.endpoint => leases[current] = 0
  /\ op.kind = "promote" /\ op.at \in {"quiesce", "seal", "switch"} => ~accepting[op.cand]
  /\ op.kind = "promote" /\ op.at = "switch" => leases[op.cand] = 0
  /\ (op.at \in {"seal", "switch", "begin", "validate"} /\ ~op.endpoint) => accepting[current]
  /\ op.at \notin {"quiesce", "seal", "switch", "begin", "validate"} =>
       accepting[current] /\ accepting[latest]

\* A generation in use that is neither stable nor latest is on record as draining.
TrackedRight ==
  \A t \in Snapshots, p \in Plugins :
    Live(t) /\ gens[t][p] # 0 =>
      \/ <<p, gens[t][p]>> \in draining
      \/ gens[t][p] \in {gens[current][p], gens[latest][p]}
      \/ t = op.cand /\ op.at \in {"validate", "drop"}

\* Snapshot t is in use, or its drain has yet to come to plugin p.
Owes(t, p) == Live(t) \/ (state[t] \in {"retired", "aborted"} /\ hand[t] < p)

\* Every generation that is not closed is owed by some snapshot.
EveryGenerationOwed ==
  \A s \in Snapshots, p \in Plugins :
    state[s] # "compiled" /\ gens[s][p] # 0 =>
      \/ <<p, gens[s][p]>> \in closed
      \/ \E t \in Snapshots : gens[t][p] = gens[s][p] /\ (hand[t] = p \/ Owes(t, p))

\* The journal speaks of snapshots that were published.
JournalRight ==
  \A c \in Snapshots :
    /\ phase[c] # "none" => state[c] # "compiled"
    /\ phase[c] \in {"complete", "draining"} => previous[c] # 0
    /\ tx[c] # 0 => previous[tx[c]] = c /\ state[tx[c]] # "compiled"
    /\ c \in early => state[c] = "gone"

\* The generation a removal is waiting for, once its leases have ended.
Processed == IF op.at = "uses" THEN {} ELSE {Min(op.left)}

\* A removal that retries the drains: no snapshot in use has a generation it is done with,
\* and it awaits the drain of every snapshot that still has one.
Removing ==
  /\ op.at \in {"uses", "removed"} => op.kind = "remove"
  /\ op.at \in {"await", "retry"} => op.kind \in {"reconcile", "remove"}
  /\ op.at = "retry" => \A t \in op.awaits : drain[t] # "no" \/ t \in failed \/ state[t] = "gone"
  /\ op.kind = "remove" /\ op.at \in {"uses", "await", "retry"} =>
       /\ ready = 0 /\ op.plugin \in Plugins /\ gens[current][op.plugin] = 0
       /\ op.left # {}
       /\ \A t \in Snapshots : 
            gens[t][op.plugin] # 0 =>
             /\ Live(t) => gens[t][op.plugin] \in op.left \ Processed
             /\ op.at = "retry" /\ state[t] \in {"retired", "aborted"} /\ leases[t] = 0
                  /\ gens[t][op.plugin] \notin op.left \ Processed => t \in op.awaits

\* Who waits for a lease has none, and does not fork.
Waiting == \A h \in Holders : want[h] # "none" => holder[h] = 0 /\ h \notin Forks

\* What does not depend on where the procedure is.
StoreInv ==
  /\ CountsMatch /\ Waiting /\ GensRight /\ Drains /\ LiveRight /\ EveryGenerationOwed
  /\ JournalRight /\ JournalFollowsDrain

\* The inductive invariant.
IInv ==
  /\ TypeOK /\ OpTyped /\ StoreInv /\ Pointers /\ ReadyRight
  /\ Publishing /\ Promotes /\ Finishing /\ Dropping
  /\ Paused /\ TrackedRight /\ Removing /\ RemovedAreClosed
-----------------------------------------------------------------------------
USE CountAssumption, PluginsAssumption, HoldersAssumption

\* The CHOOSE of Min has a witness: the order of the naturals is well-founded.
LEMMA MinOfNat ==
  ASSUME NEW S \in SUBSET Nat, S # {}
  PROVE  Min(S) \in S /\ \A n \in S : Min(S) <= n
<1> DEFINE R == {ss \in Nat \X Nat : ss[1] < ss[2]}
<1>0. IsWellFoundedOn(R, Nat)
  BY NatLessThanWellFounded DEF OpToRel
<1>1. \E x \in S : \A y \in S : ~ (<<y, x>> \in R)
  <2> HIDE DEF R
  <2> QED BY <1>0, WFMin
<1>2. PICK x \in S : \A y \in S : ~ (<<y, x>> \in R)
  BY <1>1
<1>3. ASSUME NEW y \in S PROVE x <= y
  <2>1. <<y, x>> \in Nat \X Nat /\ ~ (<<y, x>> \in R)
    BY <1>2
  <2>2. ~ (y < x)
    BY <2>1
  <2> QED BY <2>1, <2>2
<1>4. \E z \in S : \A y \in S : z =< y
  BY <1>3
<1> QED BY <1>4 DEF Min

\* 0 stands for none, and is neither a snapshot nor a plugin.
LEMMA Numbers ==
  /\ Snapshots \subseteq Nat /\ 0 \notin Snapshots /\ 0 .. MaxSnapshots = {0} \cup Snapshots
  /\ Plugins \subseteq Nat /\ 0 \notin Plugins /\ 0 .. PluginCount = {0} \cup Plugins
  /\ 1 \in Snapshots
BY DEF Snapshots, Plugins

\* The procedures that begin have the type of op.
LEMMA ProcedureTyped ==
  ASSUME NEW at \in Steps, NEW kind \in Kinds, NEW c \in 0 .. MaxSnapshots,
         NEW p \in 0 .. PluginCount, NEW e \in BOOLEAN
  PROVE  Procedure(at, kind, c, p, e) \in Procedures
BY DEF Procedure, Procedures

\* What a step writes to op, field by field.
LEMMA ProcedureIs ==
  ASSUME NEW at, NEW kind, NEW c, NEW p, NEW e, op' = Procedure(at, kind, c, p, e)
  PROVE  /\ op'.at = at /\ op'.kind = kind /\ op'.cand = c /\ op'.plugin = p
         /\ op'.endpoint = e /\ op'.awaits = {} /\ op'.left = {}
BY DEF Procedure
-----------------------------------------------------------------------------
\* The holders behind a count.
LeasesOf(s) == {h \in Holders : holder[h] = s}
UsersOf(g) == {h \in Holders : holder[h] # 0 /\ g \in GenerationsOf(holder[h])}

\* Which generations a snapshot holds.
LEMMA InSnapshot ==
  ASSUME TypeOK, NEW s \in Snapshots, NEW p \in Plugins, NEW k \in Snapshots
  PROVE  <<p, k>> \in GenerationsOf(s) <=> gens[s][p] = k
BY Numbers DEF GenerationsOf, TypeOK

\* The counts are those of finite sets.
LEMMA CountSets ==
  ASSUME CountsMatch
  PROVE  /\ \A s \in Snapshots : IsFiniteSet(LeasesOf(s)) /\ leases[s] = Cardinality(LeasesOf(s))
         /\ \A g \in Generations : IsFiniteSet(UsersOf(g)) /\ uses[g] = Cardinality(UsersOf(g))
<1>1. \A s : LeasesOf(s) \in SUBSET Holders /\ UsersOf(s) \in SUBSET Holders
  BY DEF LeasesOf, UsersOf
<1>2. \A T \in SUBSET Holders : IsFiniteSet(T)
  BY FS_Subset
<1> QED BY <1>1, <1>2 DEF CountsMatch, LeasesOf, UsersOf

\* The counts survive a step that leaves the leases alone.
LEMMA CountsFrame ==
  ASSUME CountsMatch, UNCHANGED <<gens, leases, uses, holder>>
  PROVE  CountsMatch'
<1>1. \A s : GenerationsOf(s)' = GenerationsOf(s)
  BY DEF GenerationsOf
<1>2. \A s : LeasesOf(s)' = LeasesOf(s) /\ UsersOf(s)' = UsersOf(s)
  BY <1>1 DEF LeasesOf, UsersOf
<1>3. CountsMatch' <=> /\ \A s \in Snapshots : leases'[s] = Cardinality(LeasesOf(s)')
                       /\ \A g \in Generations : uses'[g] = Cardinality(UsersOf(g)')
  BY DEF CountsMatch, LeasesOf, UsersOf
<1> QED BY <1>2, <1>3 DEF CountsMatch, LeasesOf, UsersOf

\* A holder of a lease is counted for the snapshot and for each of its generations.
LEMMA HeldIsCounted ==
  ASSUME CountsMatch, TypeOK, NEW h \in Holders, holder[h] # 0
  PROVE  /\ leases[holder[h]] > 0
         /\ \A g \in Generations : g \in GenerationsOf(holder[h]) => uses[g] > 0
<1>1. \A s \in Snapshots : leases[s] \in Nat
  BY DEF TypeOK
<1>2. \A g \in Generations : uses[g] \in Nat
  BY DEF TypeOK
<1>3. holder[h] \in Snapshots
  BY Numbers DEF TypeOK
<1>4. h \in LeasesOf(holder[h])
  BY DEF LeasesOf
<1>5. Cardinality(LeasesOf(holder[h])) # 0
  BY <1>3, <1>4, CountSets, FS_EmptySet
<1>6. ASSUME NEW g \in Generations, g \in GenerationsOf(holder[h])
      PROVE  uses[g] # 0
  <2>1. h \in UsersOf(g)
    BY <1>6 DEF UsersOf
  <2> QED BY <2>1, CountSets, FS_EmptySet
<1> QED BY <1>1, <1>2, <1>3, <1>5, <1>6, CountSets

\* Every count above zero has a holder, and a leased snapshot uses its generations.
LEMMA CountedIsHeld ==
  ASSUME CountsMatch, TypeOK, NEW s \in Snapshots, leases[s] > 0
  PROVE  /\ \E h \in Holders : holder[h] = s
         /\ \A g \in Generations : g \in GenerationsOf(s) => uses[g] > 0
<1>1. LeasesOf(s) # {}
  BY CountSets, FS_EmptySet, SMTT(30) DEF TypeOK
<1>2. PICK h \in Holders : holder[h] = s
  BY <1>1 DEF LeasesOf
<1> QED BY <1>2, HeldIsCounted, Numbers

\* _claim_lease counts the new holder, and nobody else.
LEMMA ClaimCounts ==
  ASSUME CountsMatch, TypeOK, NEW h \in Holders, NEW s \in Snapshots, holder[h] = 0,
         Claim(h, s), gens' = gens
  PROVE  /\ CountsMatch'
         /\ leases' \in [Snapshots -> Nat] /\ uses' \in [Generations -> Nat]
         /\ holder' \in [Holders -> 0 .. MaxSnapshots]
<1> USE DEF Claim
<1>1. \A t : GenerationsOf(t)' = GenerationsOf(t)
  BY DEF GenerationsOf
<1>2. \A i \in Holders : holder'[i] = IF i = h THEN s ELSE holder[i]
  BY DEF TypeOK
<1>3. ASSUME NEW t \in Snapshots PROVE leases'[t] = Cardinality(LeasesOf(t)') /\ leases'[t] \in Nat
  <2>1. LeasesOf(t)' = IF t = s THEN LeasesOf(t) \cup {h} ELSE LeasesOf(t)
    BY <1>2, Numbers DEF LeasesOf
  <2>2. h \notin LeasesOf(t)
    BY Numbers DEF LeasesOf
  <2>3. leases'[t] = IF t = s THEN leases[t] + 1 ELSE leases[t]
    BY DEF TypeOK
  <2>4. Cardinality(LeasesOf(t) \cup {h}) = Cardinality(LeasesOf(t)) + 1
    BY <2>2, CountSets, FS_AddElement
  <2> QED BY <2>1, <2>3, <2>4, CountSets DEF TypeOK
<1>4. ASSUME NEW g \in Generations PROVE uses'[g] = Cardinality(UsersOf(g)') /\ uses'[g] \in Nat
  <2>1. UsersOf(g)' = IF g \in GenerationsOf(s) THEN UsersOf(g) \cup {h} ELSE UsersOf(g)
    BY <1>1, <1>2, Numbers DEF UsersOf
  <2>2. h \notin UsersOf(g)
    BY DEF UsersOf
  <2>3. uses'[g] = IF g \in GenerationsOf(s) THEN uses[g] + 1 ELSE uses[g]
    OBVIOUS
  <2>4. Cardinality(UsersOf(g) \cup {h}) = Cardinality(UsersOf(g)) + 1
    BY <2>2, CountSets, FS_AddElement
  <2> QED BY <2>1, <2>3, <2>4, CountSets DEF TypeOK
<1>5. CountsMatch' <=> /\ \A t \in Snapshots : leases'[t] = Cardinality(LeasesOf(t)')
                       /\ \A g \in Generations : uses'[g] = Cardinality(UsersOf(g)')
  BY DEF CountsMatch, LeasesOf, UsersOf
<1>6. /\ leases' = [t \in Snapshots |-> leases'[t]] /\ uses' = [g \in Generations |-> uses'[g]]
      /\ holder' \in [Holders -> 0 .. MaxSnapshots]
  BY Numbers DEF TypeOK
<1> QED BY <1>3, <1>4, <1>5, <1>6

\* release_lease counts the holder out, and nobody else.
LEMMA ReleaseCounts ==
  ASSUME CountsMatch, TypeOK, NEW h \in Holders, holder[h] # 0, gens' = gens,
         holder' = [holder EXCEPT ![h] = 0],
         leases' = [leases EXCEPT ![holder[h]] = @ - 1],
         uses' = [g \in Generations |->
                    IF g \in GenerationsOf(holder[h]) THEN uses[g] - 1 ELSE uses[g]]
  PROVE  /\ CountsMatch'
         /\ leases' \in [Snapshots -> Nat] /\ uses' \in [Generations -> Nat]
         /\ holder' \in [Holders -> 0 .. MaxSnapshots]
<1> DEFINE s == holder[h]
<1>1. \A t : GenerationsOf(t)' = GenerationsOf(t)
  BY DEF GenerationsOf
<1>2. \A i \in Holders : holder'[i] = IF i = h THEN 0 ELSE holder[i]
  BY DEF TypeOK
<1>3. ASSUME NEW t \in Snapshots PROVE leases'[t] = Cardinality(LeasesOf(t)') /\ leases'[t] \in Nat
  <2>1. LeasesOf(t)' = LeasesOf(t) \ {h}
    BY <1>2, Numbers DEF LeasesOf
  <2>2. h \in LeasesOf(t) <=> t = s
    BY DEF LeasesOf
  <2>3. leases'[t] = IF t = s THEN leases[t] - 1 ELSE leases[t]
    BY DEF TypeOK
  <2>4. Cardinality(LeasesOf(t) \ {h}) = IF t = s THEN Cardinality(LeasesOf(t)) - 1
                                                   ELSE Cardinality(LeasesOf(t))
    BY <2>2, CountSets, FS_RemoveElement
  <2>5. t = s => leases[t] > 0
    BY HeldIsCounted
  <2> QED BY <2>1, <2>3, <2>4, <2>5, CountSets DEF TypeOK
<1>4. ASSUME NEW g \in Generations PROVE uses'[g] = Cardinality(UsersOf(g)') /\ uses'[g] \in Nat
  <2>1. UsersOf(g)' = UsersOf(g) \ {h}
    BY <1>1, <1>2, Numbers DEF UsersOf
  <2>2. h \in UsersOf(g) <=> g \in GenerationsOf(s)
    BY DEF UsersOf
  <2>3. uses'[g] = IF g \in GenerationsOf(s) THEN uses[g] - 1 ELSE uses[g]
    OBVIOUS
  <2>4. Cardinality(UsersOf(g) \ {h}) = IF g \in GenerationsOf(s) THEN Cardinality(UsersOf(g)) - 1
                                                                  ELSE Cardinality(UsersOf(g))
    BY <2>2, CountSets, FS_RemoveElement
  <2>5. g \in GenerationsOf(s) => uses[g] > 0
    BY HeldIsCounted
  <2> QED BY <2>1, <2>3, <2>4, <2>5, CountSets DEF TypeOK
<1>5. CountsMatch' <=> /\ \A t \in Snapshots : leases'[t] = Cardinality(LeasesOf(t)')
                       /\ \A g \in Generations : uses'[g] = Cardinality(UsersOf(g)')
  BY DEF CountsMatch, LeasesOf, UsersOf
<1>6. /\ leases' = [t \in Snapshots |-> leases'[t]] /\ uses' = [g \in Generations |-> uses'[g]]
      /\ holder' \in [Holders -> 0 .. MaxSnapshots]
  BY Numbers DEF TypeOK
<1> QED BY <1>3, <1>4, <1>5, <1>6
-----------------------------------------------------------------------------
\* StoreInv survives a step of which only the procedure knows.
LEMMA StoreFrame ==
  ASSUME StoreInv,
         UNCHANGED <<made, gens, state, leases, uses, holder, want, begun, closed, drain, hand, failed,
                     previous, phase, tx, early>>
  PROVE  StoreInv'
<1>1. CountsMatch' /\ Waiting'
  BY CountsFrame DEF StoreInv, Waiting
<1>2. GensRight'
  BY DEF StoreInv, GensRight
<1>3. Drains'
  BY DEF StoreInv, Drains
<1>4. LiveRight'
  BY DEF StoreInv, LiveRight, Live
<1>5. EveryGenerationOwed'
  <2> SUFFICES ASSUME NEW s \in Snapshots, NEW p \in Plugins, state[s] # "compiled", gens[s][p] # 0,
                      <<p, gens[s][p]>> \notin closed
               PROVE  \E t \in Snapshots : gens[t][p] = gens[s][p] /\ (hand[t] = p \/ Owes(t, p))'
    BY DEF EveryGenerationOwed
  <2>1. PICK t \in Snapshots : gens[t][p] = gens[s][p] /\ (hand[t] = p \/ Owes(t, p))
    BY DEF StoreInv, EveryGenerationOwed
  <2>2. Owes(t, p)' = Owes(t, p)
    BY DEF Owes, Live
  <2> QED BY <2>1, <2>2
<1>6. JournalRight' /\ JournalFollowsDrain'
  BY DEF StoreInv, JournalRight, JournalFollowsDrain
<1> QED BY <1>1, <1>2, <1>3, <1>4, <1>5, <1>6 DEF StoreInv

\* Every retained or drained generation keeps who owes it, when nobody who owes it changes.
LEMMA OwedFrame ==
  ASSUME TypeOK, EveryGenerationOwed, gens' = gens, closed \subseteq closed',
         \A s \in Snapshots : state'[s] # "compiled" => state[s] # "compiled" \/ Live(s)',
         \A s \in Snapshots, p \in Plugins : hand[s] = p => hand'[s] = p,
         \A s \in Snapshots, p \in Plugins : Owes(s, p) => Owes(s, p)'
  PROVE  EveryGenerationOwed'
<1> SUFFICES ASSUME NEW s \in Snapshots, NEW p \in Plugins, state'[s] # "compiled", gens[s][p] # 0,
                    <<p, gens[s][p]>> \notin closed
             PROVE  \E t \in Snapshots : gens[t][p] = gens[s][p] /\ (hand[t] = p \/ Owes(t, p))'
  BY DEF EveryGenerationOwed
<1>1. CASE state[s] # "compiled"
  <2>1. PICK t \in Snapshots : gens[t][p] = gens[s][p] /\ (hand[t] = p \/ Owes(t, p))
    BY <1>1 DEF EveryGenerationOwed
  <2> QED BY <2>1
<1>2. CASE Live(s)'
  BY <1>2 DEF Owes
<1> QED BY <1>1, <1>2

\* A snapshot may change its state, but never back to compiled.
LEMMA GensFrame ==
  ASSUME TypeOK, GensRight, UNCHANGED <<gens, begun, made>>,
         \A t \in Snapshots : state'[t] = "compiled" => state[t] = "compiled",
         \A t \in Snapshots : t > made => state'[t] = "compiled"
  PROVE  GensRight'
<1>1. \A t \in Snapshots, p \in Plugins : gens[t][p] # 0 => gens[t][p] \in Snapshots
  BY Numbers DEF TypeOK
<1> QED BY <1>1 DEF GensRight

\* A step that puts no snapshot in use begins no disposal of one.
LEMMA LiveFrame ==
  ASSUME LiveRight, UNCHANGED <<gens, begun>>,
         \A t \in Snapshots : Live(t)' => Live(t),
         \A t \in Snapshots : leases'[t] > 0 => state'[t] \in {"committed", "retired", "aborted"}
  PROVE  LiveRight'
BY DEF LiveRight

\* A candidate that is in no other's journal changes its state, phase or previous.
LEMMA JournalFrame ==
  ASSUME TypeOK, JournalRight, JournalFollowsDrain, NEW c \in Snapshots,
         UNCHANGED <<tx, early>>,
         \A t \in Snapshots \ {c} : /\ state'[t] = state[t] /\ phase'[t] = phase[t]
                                    /\ previous'[t] = previous[t],
         state'[c] = state[c] \/ state[c] \notin {"gone", "retired"},
         previous'[c] = previous[c] \/ state[c] = "compiled",
         state'[c] # "compiled", phase'[c] \notin {"complete", "draining"}
  PROVE  JournalRight' /\ JournalFollowsDrain'
<1>1. \A t \in Snapshots : tx[t] # 0 => /\ tx[t] \in Snapshots /\ previous[tx[t]] = t
                                        /\ state[tx[t]] # "compiled"
  BY Numbers DEF JournalRight, TypeOK
<1>2. \A t \in Snapshots : tx[t] # 0 => previous'[tx[t]] = t /\ state'[tx[t]] # "compiled"
  BY <1>1
<1>3. \A t \in Snapshots : phase'[t] \in {"complete", "draining"} =>
         /\ t # c /\ previous'[t] = previous[t] /\ previous[t] \in Snapshots
         /\ state'[previous[t]] = state[previous[t]]
  BY Numbers DEF JournalRight, JournalFollowsDrain, TypeOK
<1>4. JournalRight'
  BY <1>2, <1>3, Numbers DEF JournalRight
<1>5. JournalFollowsDrain'
  BY <1>3 DEF JournalFollowsDrain
<1> QED BY <1>4, <1>5
-----------------------------------------------------------------------------
\* What a step that changes at most the procedure's own state leaves as it is.
unmoved == <<made, gens, state, leases, uses, holder, want, begun, closed, drain, hand, failed,
             previous, phase, tx, early, current, latest, accepting, draining, ready>>

\* The procedure gives the lock back, or goes on to the next plugin.
LEMMA RestKeeps ==
  ASSUME IInv, UNCHANGED unmoved,
         op.at \in {"await", "retry", "cancelled", "reconciled", "removed", "uses"},
         op' = Idle \/ op' = [Idle EXCEPT !.at = "reconciled"],
         asleep' \subseteq Holders \cup {Publisher}, mishaps' \in 0 .. MaxMishaps
  PROVE  IInv'
<1> USE DEF unmoved
<1>0. /\ op'.at \in {"idle", "reconciled"} /\ op'.kind = "none" /\ op'.cand = 0
      /\ op' = Procedure(op'.at, "none", 0, 0, FALSE)
  BY DEF Idle, Procedure
<1>1. TypeOK'
  BY <1>0 DEF IInv, TypeOK, Procedure
<1>2. OpTyped'
  <2>1. op'.at \in Steps /\ "none" \in Kinds /\ 0 \in 0 .. MaxSnapshots /\ 0 \in 0 .. PluginCount
    BY <1>0, Numbers DEF Steps, Kinds
  <2>2. Procedure(op'.at, "none", 0, 0, FALSE) \in Procedures
    BY <2>1, ProcedureTyped
  <2> QED BY <1>0, <2>2 DEF OpTyped
<1>3. StoreInv'
  BY StoreFrame DEF IInv
<1>4. Pointers' /\ ReadyRight'
  BY <1>0 DEF IInv, Pointers, ReadyRight, Promoting, Changes
<1>5. Publishing' /\ Promotes' /\ Finishing' /\ Removing' /\ RemovedAreClosed'
  BY <1>0 DEF Publishing, Preparing, Promotes, Finishing, Removing, RemovedAreClosed
<1>6. Dropping'
  BY <1>0 DEF IInv, Dropping
<1>7. Paused'
  BY <1>0 DEF IInv, Paused
<1>8. TrackedRight'
  BY <1>0 DEF IInv, TrackedRight, Live
<1> QED BY <1>1, <1>2, <1>3, <1>4, <1>5, <1>6, <1>7, <1>8 DEF IInv

\* The procedure that retried the drains ends.
LEMMA EndsKeep ==
  ASSUME IInv, RetryRaises \/ RetryFails \/ CancelEnds \/ Reconciled \/ Return \/ UsesCancelled
  PROVE  IInv'
<1>1. /\ op.at \in {"await", "retry", "cancelled", "reconciled", "removed", "uses"}
      /\ op' = Idle \/ op' = [Idle EXCEPT !.at = "reconciled"]
      /\ UNCHANGED unmoved
      /\ asleep' \subseteq asleep /\ (mishaps' = mishaps \/ Mishap)
  BY DEF RetryRaises, RetryFails, CancelEnds, Reconciled, Return, UsesCancelled, Raise, Continue,
         Succeeded, unmoved, store, published, counts, readers, drains, journal
<1>2. asleep' \subseteq Holders \cup {Publisher} /\ mishaps' \in 0 .. MaxMishaps
  BY <1>1, CountAssumption DEF IInv, TypeOK, Mishap
<1> QED BY <1>1, <1>2, RestKeeps

\* The procedure waits, or is past a wait.
LEMMA WaitsKeep ==
  ASSUME IInv, Waits \/ Quiesced \/ Sealed
  PROVE  IInv'
<1> USE DEF unmoved
<1>1. /\ UNCHANGED unmoved /\ asleep' \subseteq asleep \cup {Publisher} /\ mishaps' = mishaps
      /\ \/ op' = op
         \/ /\ op.at = "quiesce" /\ leases[current] = 0
            /\ op' = [op EXCEPT !.at = IF op.kind = "promote" THEN "seal" ELSE "switch"]
         \/ /\ op.at = "seal" /\ leases[op.cand] = 0 /\ op' = [op EXCEPT !.at = "switch"]
  <2>1. op.at = "quiesce" /\ ~Blocked => leases[current] = 0
    BY DEF Blocked, IInv, TypeOK
  <2>2. op.at = "seal" /\ ~Blocked => leases[op.cand] = 0
    <3>1. op.at = "seal" => op.cand \in Snapshots
      BY Numbers DEF IInv, TypeOK, Dropping, Promotes
    <3> QED BY <3>1 DEF Blocked, IInv, TypeOK
  <2> QED BY <2>1, <2>2 DEF Waits, Quiesced, Sealed, Admitted, Goto, store, published, counts, readers, drains, journal
<1>2. /\ op'.kind = op.kind /\ op'.cand = op.cand /\ op'.plugin = op.plugin
      /\ op'.endpoint = op.endpoint /\ op'.awaits = op.awaits /\ op'.left = op.left
      /\ \/ op' = op
         \/ op.at \in {"quiesce", "seal"} /\ op'.at \in {"seal", "switch"}
  BY <1>1 DEF IInv, OpTyped, Procedures
<1>3. TypeOK'
  BY <1>1, <1>2 DEF IInv, TypeOK
<1>4. OpTyped'
  BY <1>1 DEF IInv, OpTyped, Procedures, Steps
<1>5. StoreInv'
  BY <1>1, StoreFrame DEF IInv
<1>6. Pointers' /\ ReadyRight'
  BY <1>1, <1>2 DEF IInv, Pointers, ReadyRight, Promoting, Changes
<1>7. Publishing' /\ Promotes' /\ Finishing' /\ Removing' /\ RemovedAreClosed'
  BY <1>1, <1>2 DEF IInv, Publishing, Preparing, Promotes, Finishing, Removing, RemovedAreClosed, Changes, Live, Dropping, Processed
<1>8. Dropping'
  BY <1>1, <1>2 DEF IInv, Dropping, OpTyped, Procedures
<1>9. Paused'
  BY <1>1, <1>2 DEF IInv, Paused, OpTyped, Procedures, Dropping
<1>10. TrackedRight'
  BY <1>1, <1>2 DEF IInv, TrackedRight, Live
<1> QED BY <1>3, <1>4, <1>5, <1>6, <1>7, <1>8, <1>9, <1>10 DEF IInv

\* A procedure that only looks on begins, or begins to retry the drains.
LEMMA RetriesBegin ==
  ASSUME IInv, Reconcile \/ Unused \/ (\E p \in Plugins : RemoveAgain(p))
  PROVE  IInv'
<1> USE DEF unmoved
<1>1. UNCHANGED unmoved /\ asleep' = asleep /\ mishaps' = mishaps
  <2>1. UNCHANGED <<store, readers, asleep, drains, journal, ready, mishaps>>
    BY DEF Reconcile, Unused, RemoveAgain
  <2> QED BY <2>1 DEF store, published, counts, readers, drains, journal
<1>2. /\ op.at \in {"idle", "uses"} /\ op'.at \in {"await", "uses"}
      /\ op'.kind \in {"reconcile", "remove"} /\ op'.awaits \subseteq Snapshots
      /\ op'.left \subseteq Snapshots /\ op'.cand \in 0 .. MaxSnapshots
      /\ op'.plugin \in 0 .. PluginCount /\ op'.endpoint \in BOOLEAN
      /\ op' = [at |-> op'.at, kind |-> op'.kind, cand |-> op'.cand, plugin |-> op'.plugin,
                endpoint |-> op'.endpoint, awaits |-> op'.awaits, left |-> op'.left]
  <2>1. Tasks(drain) \subseteq Snapshots /\ \A p : Tracked(p) \subseteq Snapshots
    BY DEF Tasks, Tracked
  <2>2. op.at = "uses" => op.kind = "remove"
    BY DEF IInv, Removing
  <2>3. CASE Reconcile
    BY <2>1, <2>3, Numbers DEF Reconcile, Procedure
  <2>4. CASE Unused
    BY <2>1, <2>2, <2>4, Numbers DEF Unused, IInv, OpTyped, Procedures
  <2>5. CASE \E p \in Plugins : RemoveAgain(p)
    <3>1. PICK p \in Plugins : RemoveAgain(p)
      BY <2>5
    <3> QED BY <2>1, <3>1, Numbers DEF RemoveAgain, Procedure
  <2> QED BY <2>3, <2>4, <2>5
<1>3. TypeOK'
  BY <1>1, <1>2 DEF IInv, TypeOK
<1>4. OpTyped'
  BY <1>2 DEF OpTyped, Procedures, Steps, Kinds
<1>5. StoreInv'
  BY <1>1, StoreFrame DEF IInv
<1>6. Pointers' /\ ReadyRight'
  BY <1>1, <1>2 DEF IInv, Pointers, ReadyRight, Promoting, Changes
<1>7. Publishing' /\ Promotes' /\ Finishing' /\ RemovedAreClosed'
  BY <1>1, <1>2 DEF IInv, Publishing, Preparing, Promotes, Finishing, RemovedAreClosed
<1>8. Dropping' /\ Paused' /\ TrackedRight'
  BY <1>1, <1>2 DEF IInv, Dropping, Paused, TrackedRight, Live
<1>9. Removing'
  <2>1. CASE Reconcile
    BY <2>1 DEF Reconcile, Procedure, Removing
  <2>2. CASE Unused
    <3>1. op.kind = "remove" /\ op.at = "uses"
      BY <2>2 DEF IInv, Removing, Unused
    <3>2. /\ op'.kind = "remove" /\ op'.at = "await" /\ op'.left = op.left /\ op'.plugin = op.plugin
      BY <2>2, <3>1 DEF IInv, OpTyped, Procedures, Unused
    <3>3. /\ ready = 0 /\ op.plugin \in Plugins /\ gens[current][op.plugin] = 0 /\ op.left # {}
          /\ \A t \in Snapshots : gens[t][op.plugin] # 0 /\ Live(t) => gens[t][op.plugin] \in op.left
      BY <3>1 DEF IInv, Removing, Processed
    <3>4. Min(op.left) \in op.left /\ op.left \subseteq Snapshots
      <4>1. op.left \in SUBSET Nat /\ op.left \subseteq Snapshots
        BY Numbers DEF IInv, TypeOK
      <4> QED BY <3>3, <4>1, MinOfNat
    <3>5. uses[<<op.plugin, Min(op.left)>>] = 0
      BY <2>2, <3>1, <3>3, <3>4 DEF Unused, Admitted, Blocked, IInv, TypeOK, Generations
    <3>6. ASSUME NEW t \in Snapshots, Live(t), gens[t][op.plugin] = Min(op.left)
          PROVE  FALSE
      <4>1. <<op.plugin, Min(op.left)>> \in GenerationsOf(t) /\ <<op.plugin, Min(op.left)>> \in Generations
        BY <3>3, <3>4, <3>6, InSnapshot DEF IInv, Generations
      <4>2. leases[t] = 0
        BY <3>5, <4>1, CountedIsHeld, SMTT(30) DEF IInv, StoreInv, TypeOK
      <4>3. t = current
        BY <3>3, <3>1, <3>6, <4>2 DEF Live, IInv, Pointers
      <4> QED BY <3>3, <3>4, <3>6, <4>3, Numbers
    <3> QED BY <1>1, <3>2, <3>3, <3>6 DEF Removing, Processed, Live
  <2>3. CASE \E p \in Plugins : RemoveAgain(p)
    <3>1. PICK p \in Plugins : RemoveAgain(p)
      BY <2>3
    <3>2. /\ op' = [Procedure("uses", "remove", 0, p, FALSE) EXCEPT !.left = Tracked(p)]
          /\ op.at = "idle" /\ ready = 0 /\ gens[current][p] = 0 /\ Tracked(p) # {}
      BY <3>1 DEF RemoveAgain
    <3>4. op'.kind = "remove" /\ op'.at = "uses" /\ op'.left = Tracked(p) /\ op'.plugin = p
      BY <3>2 DEF Procedure
    <3>3. ASSUME NEW t \in Snapshots, Live(t), gens[t][p] # 0
          PROVE  gens[t][p] \in Tracked(p)
      <4>1. <<p, gens[t][p]>> \in draining
        BY <3>2, <3>3 DEF IInv, TrackedRight, Pointers
      <4>2. gens[t][p] \in Snapshots
        BY <3>3, Numbers DEF IInv, TypeOK
      <4> QED BY <4>1, <4>2 DEF Tracked
    <3> QED BY <1>1, <3>2, <3>3, <3>4 DEF Removing, Processed, Live
  <2> QED BY <2>1, <2>2, <2>3
<1> QED BY <1>3, <1>4, <1>5, <1>6, <1>7, <1>8, <1>9 DEF IInv
-----------------------------------------------------------------------------
\* The count of the disposals of a generation stays in its bound.
LEMMA Capped ==
  ASSUME NEW n \in 0 .. 2
  PROVE  Min({n + 1, 2}) \in 1 .. 2
<1>1. {n + 1, 2} \in SUBSET Nat /\ {n + 1, 2} # {}
  OBVIOUS
<1>2. Min({n + 1, 2}) \in {n + 1, 2} /\ Min({n + 1, 2}) <= 2
  BY <1>1, MinOfNat
<1> QED BY <1>2

\* A generation whose disposal ends is closed or in the hand of another drain task.
LEMMA DisposedOwes ==
  ASSUME TypeOK, NEW s \in Snapshots, Disposed(s), hand[s] # 0
  PROVE  \/ <<hand[s], gens[s][hand[s]]>> \in closed'
         \/ \E t \in Snapshots \ {s} : hand[t] = hand[s] /\ gens[t][hand[s]] = gens[s][hand[s]]
BY DEF Disposed, InHand

\* What is closed stays closed.
LEMMA DisposedTyped ==
  ASSUME TypeOK, Drains, NEW s \in Snapshots, Disposed(s)
  PROVE  closed \subseteq closed' /\ closed' \subseteq Generations
<1>1. hand[s] # 0 => hand[s] \in Plugins /\ gens[s][hand[s]] \in Snapshots
  <2>1. hand[s] # 0 => hand[s] \in Plugins
    BY Numbers DEF TypeOK
  <2>2. \A p \in Plugins : gens[s][p] \in {0} \cup Snapshots
    BY Numbers DEF TypeOK
  <2> QED BY <2>1, <2>2 DEF Drains
<1>2. InHand(s) \subseteq Generations
  BY <1>1 DEF InHand, Generations
<1> QED BY <1>2 DEF Disposed, TypeOK

\* A drain task fails, or ends because it was cancelled.
LEMMA DrainStopsKeeps ==
  ASSUME IInv, NEW s \in Snapshots, DrainStops(s) \/ DrainFails(s)
  PROVE  IInv'
<1>1. /\ drain[s] \in {"stopping", "made"}
      /\ drain' = [drain EXCEPT ![s] = "no"] /\ hand' = [hand EXCEPT ![s] = 0]
      /\ failed' = failed \cup {s} /\ asleep' = {}
      /\ \/ drain[s] = "stopping" /\ Disposed(s) /\ mishaps' = mishaps
         \/ drain[s] = "made" /\ closed' = closed /\ Mishap
      /\ UNCHANGED <<made, gens, state, accepting, current, latest, leases, uses, holder, want,
                     begun, draining, previous, phase, tx, early, ready, op>>
  BY DEF DrainStops, DrainFails, DrainEnds, NotifyAll, published, store, counts, readers, journal
<1>2. /\ state[s] \in {"retired", "aborted"} /\ leases[s] = 0
      /\ drain[s] = "made" => hand[s] = 0
  BY <1>1 DEF IInv, StoreInv, Drains
<1>3. closed \subseteq closed' /\ closed' \subseteq Generations /\ mishaps' \in 0 .. MaxMishaps
  <2>1. closed \subseteq Generations /\ mishaps \in 0 .. MaxMishaps
    BY DEF IInv, TypeOK
  <2>2. Mishap => mishaps' \in 0 .. MaxMishaps
    BY <2>1, CountAssumption DEF Mishap
  <2> QED BY <1>1, <2>1, <2>2, DisposedTyped DEF IInv, StoreInv
<1>4. \A t \in Snapshots : /\ drain'[t] = IF t = s THEN "no" ELSE drain[t]
                           /\ hand'[t] = IF t = s THEN 0 ELSE hand[t]
  BY <1>1 DEF IInv, TypeOK
<1>5. TypeOK' /\ OpTyped'
  BY <1>1, <1>3, Numbers DEF IInv, TypeOK, OpTyped, Procedures
<1>6. StoreInv'
  <2>1. CountsMatch' /\ Waiting'
    BY <1>1, CountsFrame DEF IInv, StoreInv, Waiting
  <2>2. GensRight' /\ LiveRight' /\ JournalRight' /\ JournalFollowsDrain'
    BY <1>1 DEF IInv, StoreInv, GensRight, LiveRight, Live, JournalRight, JournalFollowsDrain
  <2>3. Drains'
    BY <1>1, <1>4 DEF IInv, StoreInv, Drains
  <2>4. EveryGenerationOwed'
    <3> SUFFICES ASSUME NEW r \in Snapshots, NEW p \in Plugins, state[r] # "compiled",
                        gens[r][p] # 0, <<p, gens[r][p]>> \notin closed'
                 PROVE  \E t \in Snapshots : gens[t][p] = gens[r][p] /\ (hand'[t] = p \/ Owes(t, p)')
      BY <1>1 DEF EveryGenerationOwed
    <3>1. PICK t \in Snapshots : gens[t][p] = gens[r][p] /\ (hand[t] = p \/ Owes(t, p))
      BY <1>3 DEF EveryGenerationOwed, IInv, StoreInv
    <3>2. CASE Owes(t, p)
      BY <1>1, <1>2, <1>4, <3>1, <3>2, Numbers DEF Owes, Live
    <3>3. CASE hand[t] = p /\ t = s
      <4>1. hand[s] # 0 /\ Disposed(s)
        BY <1>1, <1>2, <3>3, Numbers
      <4>2. \E u \in Snapshots \ {s} : hand[u] = hand[s] /\ gens[u][hand[s]] = gens[s][hand[s]]
        BY <4>1, <3>1, <3>3, DisposedOwes DEF IInv
      <4> QED BY <1>4, <3>1, <3>3, <4>2
    <3> QED BY <1>4, <3>1, <3>2, <3>3
  <2> QED BY <2>1, <2>2, <2>3, <2>4 DEF StoreInv
<1>7. Pointers' /\ TrackedRight'
  BY <1>1 DEF IInv, Pointers, TrackedRight, Live
<1>8. ReadyRight' /\ Publishing' /\ Promotes' /\ Finishing' /\ Dropping' /\ Paused'
  BY <1>1, ZenonT(40) DEF IInv, ReadyRight, Promoting, Changes, Publishing, Preparing, Promotes, Finishing, Dropping, Paused
<1>9. Removing' /\ RemovedAreClosed'
  BY <1>1, <1>3, <1>4 DEF IInv, Removing, Processed, Live, RemovedAreClosed
<1> QED BY <1>5, <1>6, <1>7, <1>8, <1>9 DEF IInv

\* A drain task begins the disposal of the first generation that nobody else uses.
LEMMA DrainGoesOn ==
  ASSUME IInv, NEW s \in Snapshots, NEW p \in Plugins, drain[s] \in {"made", "runs"},
         Disposed(s), draining' = draining \ InHand(s),
         p \in StillToDispose(s), \A q \in StillToDispose(s) : p <= q,
         hand' = [hand EXCEPT ![s] = p],
         begun' = [begun EXCEPT ![<<p, gens[s][p]>>] = Min({@ + 1, 2})],
         drain' = [drain EXCEPT ![s] = "runs"],
         UNCHANGED <<made, gens, state, accepting, current, latest, leases, uses, holder, want,
                     asleep, failed, previous, phase, tx, early, ready, op, mishaps>>
  PROVE  IInv'
<1>1. /\ state[s] \in {"retired", "aborted"} /\ leases[s] = 0 /\ s \notin failed
      /\ p > hand[s] /\ gens[s][p] \in Snapshots /\ ~ReferencedElsewhere(<<p, gens[s][p]>>, s)
      /\ <<p, gens[s][p]>> \in Generations
  <2>1. drain[s] # "no" /\ p > hand[s] /\ gens[s][p] # 0 /\ ~ReferencedElsewhere(<<p, gens[s][p]>>, s)
    BY DEF StillToDispose
  <2>2. gens[s][p] \in Snapshots
    BY <2>1, Numbers DEF IInv, TypeOK
  <2> QED BY <2>1, <2>2 DEF IInv, StoreInv, Drains, Generations
<1>2. closed \subseteq closed' /\ closed' \subseteq Generations
  BY DisposedTyped DEF IInv, StoreInv
<1>3. \A t \in Snapshots : /\ drain'[t] = IF t = s THEN "runs" ELSE drain[t]
                           /\ hand'[t] = IF t = s THEN p ELSE hand[t]
  BY DEF IInv, TypeOK
<1>4. /\ begun' \in [Generations -> 0 .. 2] /\ begun'[<<p, gens[s][p]>>] # 0
      /\ \A g \in Generations : g # <<p, gens[s][p]>> => begun'[g] = begun[g]
      /\ \A g \in Generations : begun[g] # 0 => begun'[g] # 0
  <2>1. begun \in [Generations -> 0 .. 2]
    BY DEF IInv, TypeOK
  <2>2. Min({begun[<<p, gens[s][p]>>] + 1, 2}) \in 1 .. 2
    BY <1>1, <2>1, Capped
  <2> DEFINE g == <<p, gens[s][p]>>
             n == Min({begun[g] + 1, 2})
  <2>3. begun' = [begun EXCEPT ![g] = n] /\ g \in Generations /\ n \in 1 .. 2
    BY <1>1, <2>2
  <2> HIDE DEF g, n
  <2>4. /\ begun' \in [Generations -> 0 .. 2] /\ begun'[g] # 0
        /\ \A h \in Generations : h # g => begun'[h] = begun[h]
    <3>1. n \in 0 .. 2 /\ n # 0
      BY <2>3
    <3> QED BY <2>1, <2>3, <3>1
  <2> QED BY <2>4 DEF g
<1>5. \A t \in Snapshots, q \in Plugins : gens[t][q] # 0 => <<q, gens[t][q]>> \in Generations
  BY Numbers DEF IInv, TypeOK, Generations
<1>6. \A t \in Snapshots : Live(t) => t # s /\ gens[t][p] # gens[s][p]
  <2> SUFFICES ASSUME NEW t \in Snapshots, Live(t), t = s \/ gens[t][p] = gens[s][p]
               PROVE  FALSE
    OBVIOUS
  <2>1. t # s
    BY <1>1 DEF Live
  <2>2. <<p, gens[s][p]>> \in GenerationsOf(t)
    BY <1>1, <2>1, InSnapshot DEF IInv
  <2> QED BY <1>1, <2>1, <2>2 DEF ReferencedElsewhere, Live
<1>7. TypeOK' /\ OpTyped'
  BY <1>2, <1>4, Numbers DEF IInv, TypeOK, OpTyped, Procedures
<1>8. StoreInv'
  <2>1. CountsMatch' /\ Waiting'
    BY CountsFrame DEF IInv, StoreInv, Waiting
  <2>2. GensRight'
    <3>1. \A t \in Snapshots, q \in Plugins : begun'[<<q, t>>] # 0 => state[t] # "compiled"
      <4> SUFFICES ASSUME NEW t \in Snapshots, NEW q \in Plugins, begun'[<<q, t>>] # 0
                   PROVE  state[t] # "compiled"
        OBVIOUS
      <4>1. CASE <<q, t>> # <<p, gens[s][p]>>
        BY <1>4, <4>1 DEF IInv, StoreInv, GensRight, Generations
      <4>2. CASE <<q, t>> = <<p, gens[s][p]>>
        <5>1. t = gens[s][p] /\ t # 0
          BY <4>2, Numbers
        <5> QED BY <1>1, <5>1 DEF IInv, StoreInv, GensRight
      <4> QED BY <4>1, <4>2
    <3> QED BY <3>1 DEF IInv, StoreInv, GensRight
  <2>3. Drains'
    BY <1>1, <1>3, <1>4, <1>5, Numbers DEF IInv, StoreInv, Drains, TypeOK
  <2>4. LiveRight'
    BY <1>4, <1>5, <1>6 DEF IInv, StoreInv, LiveRight, Live
  <2>5. EveryGenerationOwed'
    <3> SUFFICES ASSUME NEW r \in Snapshots, NEW q \in Plugins, state[r] # "compiled",
                        gens[r][q] # 0, <<q, gens[r][q]>> \notin closed'
                 PROVE  \E t \in Snapshots : gens[t][q] = gens[r][q] /\ (hand'[t] = q \/ Owes(t, q)')
      BY DEF EveryGenerationOwed
    <3>1. PICK t \in Snapshots : gens[t][q] = gens[r][q] /\ (hand[t] = q \/ Owes(t, q))
      BY <1>2 DEF EveryGenerationOwed, IInv, StoreInv
    <3>2. CASE t # s
      BY <1>3, <3>1, <3>2 DEF Owes, Live
    <3>3. CASE t = s /\ hand[s] = q
      <4>1. \E u \in Snapshots \ {s} : hand[u] = hand[s] /\ gens[u][hand[s]] = gens[s][hand[s]]
        BY <3>1, <3>3, DisposedOwes, Numbers DEF IInv
      <4> QED BY <1>3, <3>1, <3>3, <4>1
    <3>4. CASE t = s /\ hand[s] < q /\ q < p
      <4>1. q \notin StillToDispose(s)
        BY <3>4, Numbers DEF StillToDispose
      <4>2. ReferencedElsewhere(<<q, gens[s][q]>>, s)
        BY <3>1, <3>4, <4>1 DEF StillToDispose
      <4>3. PICK u \in Snapshots \ {s} : Live(u) /\ <<q, gens[s][q]>> \in GenerationsOf(u)
        BY <4>2 DEF ReferencedElsewhere, Live
      <4>4. gens[u][q] = gens[s][q]
        BY <4>3, <3>1, <3>4, InSnapshot, Numbers DEF IInv, TypeOK
      <4> QED BY <3>1, <3>4, <4>3, <4>4 DEF Owes, Live
    <3>5. CASE t = s /\ hand[s] < q /\ p <= q
      BY <1>1, <1>3, <3>1, <3>5, Numbers DEF Owes, Live
    <3> QED BY <1>1, <3>1, <3>2, <3>3, <3>4, <3>5, Numbers DEF Owes, Live, IInv, TypeOK
  <2>6. JournalRight' /\ JournalFollowsDrain'
    BY DEF IInv, StoreInv, JournalRight, JournalFollowsDrain
  <2> QED BY <2>1, <2>2, <2>3, <2>4, <2>5, <2>6 DEF StoreInv
<1>9. Pointers'
  BY DEF IInv, Pointers
<1>10. TrackedRight'
  <2> SUFFICES ASSUME NEW t \in Snapshots, NEW q \in Plugins, Live(t), gens[t][q] # 0,
                      <<q, gens[t][q]>> \in InHand(s)
               PROVE  FALSE
    BY DEF IInv, TrackedRight, Live
  <2> QED BY DEF InHand, IInv, StoreInv, Drains, LiveRight
<1>11. ReadyRight' /\ Publishing' /\ Promotes' /\ Finishing' /\ Dropping' /\ Paused'
  BY ZenonT(40) DEF IInv, ReadyRight, Promoting, Changes, Publishing, Preparing, Promotes, Finishing, Dropping, Paused
<1>12. Removing' /\ RemovedAreClosed'
  BY <1>2, <1>3 DEF IInv, Removing, Processed, Live, RemovedAreClosed
<1> QED BY <1>7, <1>8, <1>9, <1>10, <1>11, <1>12 DEF IInv
-----------------------------------------------------------------------------
\* A drain task has nothing left to dispose: the snapshot is forgotten.
LEMMA DrainGoesOut ==
  ASSUME IInv, NEW s \in Snapshots, drain[s] \in {"made", "runs"},
         Disposed(s), draining' = draining \ InHand(s), StillToDispose(s) = {},
         drain' = [drain EXCEPT ![s] = "no"], hand' = [hand EXCEPT ![s] = 0],
         state' = [state EXCEPT ![s] = "gone"], tx' = [tx EXCEPT ![s] = 0],
         early' = early \cup {t \in {s} : tx[s] # 0 /\ phase[tx[s]] = "moving"},
         phase' = [c \in Snapshots |->
                     IF c = tx[s] /\ phase[c] = "draining" THEN "complete" ELSE phase[c]],
         asleep' = {},
         UNCHANGED <<made, gens, accepting, current, latest, leases, uses, holder, want,
                     failed, begun, previous, ready, op, mishaps>>
  PROVE  IInv'
<1>1. /\ state[s] \in {"retired", "aborted"} /\ leases[s] = 0 /\ s \notin failed /\ ~Live(s)
      /\ s # current /\ s # latest
  <2>1. state[s] \in {"retired", "aborted"} /\ leases[s] = 0 /\ s \notin failed
    BY DEF IInv, StoreInv, Drains
  <2> QED BY <2>1 DEF Live, IInv, Pointers
<1>2. closed \subseteq closed' /\ closed' \subseteq Generations
  BY DisposedTyped DEF IInv, StoreInv
<1>3. \A t \in Snapshots : /\ drain'[t] = IF t = s THEN "no" ELSE drain[t]
                           /\ hand'[t] = IF t = s THEN 0 ELSE hand[t]
                           /\ state'[t] = IF t = s THEN "gone" ELSE state[t]
                           /\ tx'[t] = IF t = s THEN 0 ELSE tx[t]
                           /\ phase'[t] = IF t = tx[s] /\ phase[t] = "draining" THEN "complete"
                                                                               ELSE phase[t]
                           /\ Live(t)' = Live(t)
  BY <1>1 DEF IInv, TypeOK, Live
<1>4. TypeOK' /\ OpTyped'
  <2>1. early' \subseteq Snapshots
    BY DEF IInv, TypeOK
  <2> QED BY <1>2, <2>1, Numbers DEF IInv, TypeOK, OpTyped, Procedures
<1>5. StoreInv'
  <2>1. CountsMatch' /\ Waiting'
    BY CountsFrame DEF IInv, StoreInv, Waiting
  <2>2. GensRight' /\ LiveRight' /\ Drains'
    <3>1. GensRight'
      <4>1. \A t \in Snapshots : state'[t] = "compiled" <=> state[t] = "compiled"
        BY <1>1, <1>3
      <4>2. \A t \in Snapshots, p \in Plugins : gens[t][p] # 0 => gens[t][p] \in Snapshots
        BY Numbers DEF IInv, TypeOK
      <4> QED BY <4>1, <4>2 DEF IInv, StoreInv, GensRight
    <3>2. LiveRight'
      BY <1>1, <1>3 DEF IInv, StoreInv, LiveRight
    <3>3. Drains'
      BY <1>1, <1>3 DEF IInv, StoreInv, Drains
    <3> QED BY <3>1, <3>2, <3>3
  <2>3. EveryGenerationOwed'
    <3> SUFFICES ASSUME NEW r \in Snapshots, NEW q \in Plugins, state'[r] # "compiled",
                        gens[r][q] # 0, <<q, gens[r][q]>> \notin closed'
                 PROVE  \E t \in Snapshots : gens[t][q] = gens[r][q] /\ (hand'[t] = q \/ Owes(t, q)')
      BY DEF EveryGenerationOwed
    <3>1. PICK t \in Snapshots : gens[t][q] = gens[r][q] /\ (hand[t] = q \/ Owes(t, q))
      BY <1>1, <1>2, <1>3 DEF EveryGenerationOwed, IInv, StoreInv
    <3>2. CASE t # s
      BY <1>3, <3>1, <3>2 DEF Owes, Live
    <3>3. CASE t = s /\ hand[s] = q
      <4>1. \E u \in Snapshots \ {s} : hand[u] = hand[s] /\ gens[u][hand[s]] = gens[s][hand[s]]
        BY <3>1, <3>3, DisposedOwes, Numbers DEF IInv
      <4> QED BY <1>3, <3>1, <3>3, <4>1
    <3>4. CASE t = s /\ hand[s] < q
      <4>1. ReferencedElsewhere(<<q, gens[s][q]>>, s)
        BY <3>1, <3>4, Numbers DEF StillToDispose
      <4>2. PICK u \in Snapshots \ {s} : Live(u) /\ <<q, gens[s][q]>> \in GenerationsOf(u)
        BY <4>1 DEF ReferencedElsewhere, Live
      <4>3. gens[u][q] = gens[s][q]
        BY <4>2, <3>1, <3>4, InSnapshot, Numbers DEF IInv, TypeOK
      <4> QED BY <1>3, <3>1, <3>4, <4>2, <4>3 DEF Owes
    <3> QED BY <1>1, <3>1, <3>2, <3>3, <3>4 DEF Owes
  <2>4. JournalRight' /\ JournalFollowsDrain'
    <3>1. \A c \in Snapshots : tx[c] # 0 => tx[c] \in Snapshots /\ previous[tx[c]] = c
      BY Numbers DEF IInv, StoreInv, JournalRight, TypeOK
    <3>2. JournalRight'
      BY <1>1, <1>3, <3>1, Numbers DEF IInv, StoreInv, JournalRight, TypeOK
    <3>3. JournalFollowsDrain'
      <4> SUFFICES ASSUME NEW c \in Snapshots
                   PROVE  /\ phase'[c] = "complete" => state'[previous[c]] = "gone"
                          /\ phase'[c] = "draining" => /\ state'[previous[c]] = "retired"
                                                       /\ tx'[previous[c]] = c
        BY DEF JournalFollowsDrain
      <4>1. phase[c] \in {"complete", "draining"} => previous[c] \in Snapshots
        BY Numbers DEF IInv, StoreInv, JournalRight, TypeOK
      <4>2. CASE c = tx[s] /\ phase[c] = "draining"
        BY <1>3, <3>1, <4>2, Numbers
      <4>3. CASE ~(c = tx[s] /\ phase[c] = "draining")
        BY <1>1, <1>3, <4>1, <4>3 DEF IInv, StoreInv, JournalFollowsDrain
      <4> QED BY <4>2, <4>3
    <3> QED BY <3>2, <3>3
  <2> QED BY <2>1, <2>2, <2>3, <2>4 DEF StoreInv
<1>6. Pointers'
  BY <1>1, <1>3 DEF IInv, Pointers, TypeOK
<1>7. TrackedRight'
  <2> SUFFICES ASSUME NEW t \in Snapshots, NEW q \in Plugins, Live(t), gens[t][q] # 0,
                      <<q, gens[t][q]>> \in InHand(s)
               PROVE  FALSE
    BY <1>3 DEF IInv, TrackedRight
  <2> QED BY SMTT(30) DEF InHand, IInv, StoreInv, Drains, LiveRight
<1>8. ReadyRight'
  BY <1>1, <1>3, Numbers DEF IInv, ReadyRight, Promoting, Changes, TypeOK
<1>9. Publishing' /\ Promotes' /\ Paused'
  BY <1>1, <1>3, Numbers DEF IInv, Publishing, Preparing, Promotes, Paused, Changes, TypeOK
<1>10. Finishing'
  <2> SUFFICES ASSUME op.at = "finish" PROVE Finishing'
    BY DEF Finishing
  <2>1. previous[current] \in Snapshots
    BY DEF IInv, Finishing
  <2>2. CASE previous[current] = s
    <3>1. state'[s] = "gone" /\ early \subseteq early'
      BY <1>3
    <3>2. op.kind \in {"replace", "promote"} => s \in early'
      <4>1. op.kind \in {"replace", "promote"} => tx[s] = current /\ phase[current] = "moving"
        BY <1>1, <2>2 DEF IInv, Finishing
      <4>2. current # 0
        BY Numbers DEF IInv, TypeOK
      <4> QED BY <4>1, <4>2
    <3>3. phase[current] = "moving" => phase'[current] = "moving"
      BY <1>3 DEF IInv, TypeOK
    <3> QED BY <2>2, <3>1, <3>2, <3>3 DEF IInv, Finishing
  <2>3. CASE previous[current] # s
    BY <1>1, <1>3, <2>1, <2>3 DEF IInv, Finishing, TypeOK
  <2> QED BY <2>2, <2>3
<1>11. Dropping'
  BY <1>1, <1>3, Numbers DEF IInv, Dropping, TypeOK
<1>12. Removing'
  BY <1>1, <1>2, <1>3 DEF IInv, Removing, Processed
<1>13. RemovedAreClosed'
  BY <1>1, <1>2, <1>3 DEF IInv, RemovedAreClosed
<1> QED BY <1>4, <1>5, <1>6, <1>7, <1>8, <1>9, <1>10, <1>11, <1>12, <1>13 DEF IInv

\* A drain task begins the next disposal, or the snapshot is drained.
LEMMA DrainGoesKeeps ==
  ASSUME IInv, NEW s \in Snapshots, DrainGoes(s)
  PROVE  IInv'
<1>1. CASE StillToDispose(s) # {}
  <2>1. StillToDispose(s) \in SUBSET Nat
    BY Numbers DEF StillToDispose
  <2>2. PICK p : p = Min(StillToDispose(s))
    OBVIOUS
  <2>3. p \in StillToDispose(s) /\ (\A q \in StillToDispose(s) : p <= q)
    BY <1>1, <2>1, <2>2, MinOfNat
  <2>4. p \in Plugins
    BY <2>3 DEF StillToDispose
  <2> QED BY <1>1, <2>2, <2>3, <2>4, DrainGoesOn
          DEF DrainGoes, store, published, counts, readers, journal
<1>2. CASE StillToDispose(s) = {}
  BY <1>2, DrainGoesOut
     DEF DrainGoes, DrainEnds, NotifyAll, FinishDrainedReload, counts, readers
<1> QED BY <1>1, <1>2
-----------------------------------------------------------------------------
\* _schedule_drain makes tasks of unused snapshots that retired or aborted.
LEMMA Scheduled ==
  ASSUME TypeOK, NEW S \in SUBSET Snapshots, NEW st, NEW ls, Schedule(S, st, ls)
  PROVE  /\ drain' \in [Snapshots -> {"no", "made", "runs", "stopping", "lost"}]
         /\ failed' \subseteq failed
         /\ \A t \in Snapshots :
              \/ drain'[t] = drain[t] /\ (t \in failed' <=> t \in failed)
              \/ /\ drain[t] \in {"no", "lost"} /\ drain'[t] = "made" /\ t \notin failed'
                 /\ st[t] \in {"retired", "aborted"} /\ ls[t] = 0
BY DEF Schedule, Drainable, TypeOK

\* acquire gets a lease, an error, or waits.
LEMMA ClaimKeeps ==
  ASSUME IInv, NEW h \in Holders, NEW s \in Snapshots, holder[h] = 0, Claim(h, s),
         (state[s] = "committed" /\ accepting[s]) \/ leases[s] > 0,
         want' \in [Holders -> {"none", "stable", "latest"}], asleep' = asleep,
         \A i \in Holders : want'[i] = IF i = h THEN "none" ELSE want[i],
         UNCHANGED <<published, drains, journal, ready, op, mishaps>>
  PROVE  IInv'
<1> USE DEF published, drains, journal
<1>1. /\ CountsMatch' /\ leases' \in [Snapshots -> Nat] /\ uses' \in [Generations -> Nat]
      /\ holder' \in [Holders -> 0 .. MaxSnapshots]
  BY ClaimCounts DEF IInv, StoreInv
<1>2. \A t \in Snapshots : /\ leases'[t] = IF t = s THEN leases[t] + 1 ELSE leases[t]
                           /\ Live(t)' = Live(t)
  BY DEF Claim, IInv, TypeOK, Live
<1>3. /\ Live(s) /\ state[s] \in {"committed", "retired", "aborted"}
      /\ leases[s] = 0 => accepting[s] /\ s \in {current, latest}
      /\ leases'[s] > 0
  <2>1. leases[s] \in Nat
    BY DEF IInv, TypeOK
  <2> QED BY <1>2, <2>1 DEF Live, IInv, StoreInv, LiveRight, Pointers
<1>4. TypeOK' /\ OpTyped'
  BY <1>1 DEF IInv, TypeOK, OpTyped
<1>5. StoreInv'
  <2>1. GensRight' /\ JournalRight' /\ JournalFollowsDrain'
    BY DEF IInv, StoreInv, GensRight, JournalRight, JournalFollowsDrain
  <2>2. Drains'
    <3>1. drain[s] = "no"
      <4>1. leases[s] = 0 => state[s] = "committed"
        BY <1>3 DEF IInv, Pointers
      <4> QED BY <4>1 DEF IInv, StoreInv, Drains
    <3> QED BY <1>2, <3>1 DEF IInv, StoreInv, Drains
  <2>3. LiveRight'
    BY <1>2, <1>3 DEF IInv, StoreInv, LiveRight
  <2>4. EveryGenerationOwed'
    BY <1>2, OwedFrame DEF IInv, StoreInv, Owes
  <2>5. Waiting'
    <3>1. \A i \in Holders : holder'[i] = IF i = h THEN s ELSE holder[i]
      BY DEF Claim, IInv, TypeOK
    <3> QED BY <3>1 DEF IInv, StoreInv, Waiting
  <2> QED BY <1>1, <2>1, <2>2, <2>3, <2>4, <2>5 DEF StoreInv
<1>6. Pointers' /\ TrackedRight' /\ ReadyRight'
  BY <1>2 DEF IInv, Pointers, TrackedRight, ReadyRight, Promoting, Changes
<1>7. Publishing' /\ Promotes' /\ Finishing'
  BY DEF IInv, Publishing, Preparing, Promotes, Finishing, Changes
<1>8. Dropping'
  BY <1>2, <1>3 DEF IInv, Dropping
<1>9. Paused'
  <2>1. op.at \in {"seal", "switch"} /\ op.endpoint => s # current
    BY <1>3 DEF IInv, Paused
  <2>2. op.kind = "promote" /\ op.at = "switch" => s # op.cand
    BY <1>3 DEF IInv, Paused
  <2>3. current \in Snapshots
    BY DEF IInv, TypeOK
  <2>4. op.kind = "promote" /\ op.at = "switch" => op.cand \in Snapshots
    BY Numbers DEF IInv, Promotes, TypeOK
  <2> QED BY <1>2, <2>1, <2>2, <2>3, <2>4 DEF IInv, Paused
<1>10. Removing' /\ RemovedAreClosed'
  <2>1. leases[s] = 0 => state[s] = "committed"
    BY <1>3 DEF IInv, Pointers
  <2>2. \A t \in Snapshots :
           leases'[t] = 0 /\ state[t] \in {"retired", "aborted"} => leases[t] = 0
    BY <1>2, <1>3
  <2> QED BY <1>2, <2>2 DEF IInv, Removing, Processed, RemovedAreClosed
<1> QED BY <1>4, <1>5, <1>6, <1>7, <1>8, <1>9, <1>10 DEF IInv

\* Waiting, an error and the end of a wait leave the store alone.
LEMMA ReaderKeeps ==
  ASSUME IInv, want' \in [Holders -> {"none", "stable", "latest"}],
         \A h \in Holders : want'[h] # "none" => holder[h] = 0 /\ h \notin Forks,
         asleep' \subseteq Holders \cup {Publisher},
         UNCHANGED <<store, holder, drains, journal, ready, op, mishaps>>
  PROVE  IInv'
<1> USE DEF store, published, counts, drains, journal
<1>1. TypeOK' /\ OpTyped'
  BY DEF IInv, TypeOK, OpTyped
<1>2. StoreInv'
  BY CountsFrame, OwedFrame DEF IInv, StoreInv, Waiting, GensRight, Drains, LiveRight, Live,
     Owes, JournalRight, JournalFollowsDrain
<1>3. Pointers' /\ TrackedRight' /\ ReadyRight'
  BY DEF IInv, Pointers, TrackedRight, Live, ReadyRight, Promoting, Changes
<1>4. Publishing' /\ Promotes' /\ Finishing' /\ Dropping' /\ Paused'
  BY DEF IInv, Publishing, Preparing, Promotes, Finishing, Changes, Dropping, Paused
<1>5. Removing' /\ RemovedAreClosed'
  BY DEF IInv, Removing, Processed, Live, RemovedAreClosed
<1> QED BY <1>1, <1>2, <1>3, <1>4, <1>5 DEF IInv

\* One pass of the loop of acquire.
LEMMA TryAcquireKeeps ==
  ASSUME IInv, NEW h \in Holders, NEW selector \in {"stable", "latest"}, holder[h] = 0,
         h \notin Forks, TryAcquire(h, selector)
  PROVE  IInv'
<1>1. /\ \A w \in {"none", "stable", "latest"} :
           /\ [want EXCEPT ![h] = w] \in [Holders -> {"none", "stable", "latest"}]
           /\ \A i \in Holders : [want EXCEPT ![h] = w][i] = IF i = h THEN w ELSE want[i]
      /\ asleep \subseteq Holders \cup {Publisher} /\ Selected(selector) \in Snapshots
  BY DEF IInv, TypeOK, Selected
<1>2. CASE Leasable(Selected(selector)) /\ Claim(h, Selected(selector))
           /\ want' = [want EXCEPT ![h] = "none"] /\ asleep' = asleep
  <2>1. UNCHANGED <<published, drains, journal, ready, op, mishaps>>
    BY DEF TryAcquire
  <2> QED BY <1>1, <1>2, <2>1, ClaimKeeps DEF Leasable
<1>3. CASE ~(Leasable(Selected(selector)) /\ Claim(h, Selected(selector))
             /\ want' = [want EXCEPT ![h] = "none"] /\ asleep' = asleep)
  <2>1. /\ want' = [want EXCEPT ![h] = selector] \/ want' = [want EXCEPT ![h] = "none"]
        /\ asleep' \subseteq asleep \cup {h}
        /\ UNCHANGED <<store, holder, drains, journal, ready, op, mishaps>>
    BY <1>3 DEF TryAcquire, store, counts
  <2>2. \A i \in Holders : want'[i] # "none" => holder[i] = 0 /\ i \notin Forks
    BY <1>1, <2>1 DEF IInv, StoreInv, Waiting
  <2> QED BY <1>1, <2>1, <2>2, ReaderKeeps
<1> QED BY <1>2, <1>3

\* acquire, its wait, its cancellation and fork_lease.
LEMMA ReadersKeep ==
  ASSUME IInv, NEW h \in Holders,
         \/ \E selector \in {"stable", "latest"} : Acquire(h, selector)
         \/ Wake(h) \/ AcquireCancelled(h)
         \/ \E i \in Holders : Fork(h, i)
  PROVE  IInv'
<1>1. CASE \E selector \in {"stable", "latest"} : Acquire(h, selector)
  BY <1>1, TryAcquireKeeps DEF Acquire
<1>2. CASE Wake(h)
  <2>1. want[h] \in {"stable", "latest"}
    BY <1>2 DEF Wake, IInv, TypeOK
  <2>2. holder[h] = 0 /\ h \notin Forks
    BY <1>2 DEF Wake, IInv, StoreInv, Waiting
  <2> QED BY <1>2, <2>1, <2>2, TryAcquireKeeps DEF Wake
<1>3. CASE AcquireCancelled(h)
  <2>1. /\ want' \in [Holders -> {"none", "stable", "latest"}]
        /\ asleep' \subseteq Holders \cup {Publisher}
        /\ \A i \in Holders : want'[i] # "none" => holder[i] = 0 /\ i \notin Forks
    BY <1>3 DEF AcquireCancelled, IInv, TypeOK, StoreInv, Waiting
  <2> QED BY <1>3, <2>1, ReaderKeeps DEF AcquireCancelled
<1>4. CASE \E i \in Holders : Fork(h, i)
  <2>1. PICK i \in Holders : Fork(h, i)
    BY <1>4
  <2>2. holder[h] \in Snapshots
    BY <2>1, Numbers DEF Fork, IInv, TypeOK
  <2>3. leases[holder[h]] > 0
    BY <2>1, HeldIsCounted DEF Fork, IInv, StoreInv
  <2>4. want' \in [Holders -> {"none", "stable", "latest"}]
    BY <2>1 DEF Fork, IInv, TypeOK
  <2>5. \A j \in Holders : want'[j] = IF j = i THEN "none" ELSE want[j]
    BY <2>1 DEF Fork, IInv, StoreInv, Waiting
  <2> QED BY <2>1, <2>2, <2>3, <2>4, <2>5, ClaimKeeps DEF Fork
<1> QED BY <1>1, <1>2, <1>3, <1>4

\* The end of a lease, which may schedule the drain of its snapshot.
LEMMA ReleaseKeeps ==
  ASSUME IInv, NEW h \in Holders, Release(h)
  PROVE  IInv'
<1> PICK s : s = holder[h]
  OBVIOUS
<1>0. /\ s \in Snapshots /\ UNCHANGED <<made, gens, state, accepting, current, latest, want, hand,
                   begun, closed, draining, previous, phase, tx, early, ready, op, mishaps>>
      /\ asleep' = {} /\ leases[s] > 0 /\ leases' = [leases EXCEPT ![s] = @ - 1]
      /\ Schedule({s}, state, leases')
  <2>1. s \in Snapshots
    BY Numbers DEF Release, IInv, TypeOK
  <2>2. leases[s] > 0
    BY HeldIsCounted DEF Release, IInv, StoreInv
  <2> QED BY <2>1, <2>2 DEF Release, NotifyAll, published, journal
<1>1. /\ CountsMatch' /\ leases' \in [Snapshots -> Nat] /\ uses' \in [Generations -> Nat]
      /\ holder' \in [Holders -> 0 .. MaxSnapshots]
  BY ReleaseCounts DEF IInv, StoreInv, Release, published
<1>2. \A t \in Snapshots : leases'[t] = IF t = s THEN leases[t] - 1 ELSE leases[t]
  BY <1>0 DEF IInv, TypeOK
<1>3. /\ drain' \in [Snapshots -> {"no", "made", "runs", "stopping", "lost"}]
      /\ failed' \subseteq failed
      /\ \A t \in Snapshots :
              \/ drain'[t] = drain[t] /\ (t \in failed' <=> t \in failed)
              \/ /\ drain[t] \in {"no", "lost"} /\ drain'[t] = "made" /\ t \notin failed'
                 /\ state[t] \in {"retired", "aborted"} /\ leases'[t] = 0
  <2>1. TypeOK /\ {s} \in SUBSET Snapshots
    BY <1>0 DEF IInv
  <2>2. PICK ls : ls = leases'
    OBVIOUS
  <2>3. Schedule({s}, state, ls)
    BY <1>0, <2>2
  <2> QED BY <2>1, <2>2, <2>3, Scheduled
<1>4. \A t \in Snapshots : leases[t] \in Nat /\ (Live(t)' => Live(t))
                           /\ (Live(t) /\ ~Live(t)' => t = s /\ state[s] \in {"retired", "aborted"})
  <2>1. leases \in [Snapshots -> Nat]
    BY DEF IInv, TypeOK
  <2> QED BY <1>0, <1>2, <2>1 DEF Live, IInv, StoreInv, LiveRight
<1>5. /\ drain[s] = "no" /\ hand[s] = 0
  <2>1. leases[s] # 0
    BY <1>0
  <2> QED BY <1>0, <2>1 DEF IInv, StoreInv, Drains
<1>6. TypeOK' /\ OpTyped'
  BY <1>0, <1>1, <1>3 DEF IInv, TypeOK, OpTyped
<1>7. StoreInv'
  <2>1. GensRight' /\ JournalRight' /\ JournalFollowsDrain'
    BY <1>0 DEF IInv, StoreInv, GensRight, JournalRight, JournalFollowsDrain
  <2>2. Drains'
    BY <1>0, <1>2, <1>3, <1>4, <1>5, Numbers DEF IInv, StoreInv, Drains
  <2>3. LiveRight'
    BY <1>0, <1>2, <1>4 DEF IInv, StoreInv, LiveRight
  <2>4. EveryGenerationOwed'
    <3>1. \A t \in Snapshots, p \in Plugins : Owes(t, p) => Owes(t, p)'
      BY <1>0, <1>4, <1>5, Numbers DEF Owes
    <3> QED BY <1>0, <3>1, OwedFrame DEF IInv, StoreInv
  <2>5. Waiting'
    <3>1. \A i \in Holders : holder'[i] = IF i = h THEN 0 ELSE holder[i]
      BY DEF Release, IInv, TypeOK
    <3> QED BY <1>0, <3>1 DEF IInv, StoreInv, Waiting
  <2> QED BY <1>1, <2>1, <2>2, <2>3, <2>4, <2>5 DEF StoreInv
<1>8. Pointers' /\ TrackedRight' /\ ReadyRight'
  BY <1>0, <1>4 DEF IInv, Pointers, TrackedRight, ReadyRight, Promoting, Changes
<1>9. Publishing' /\ Promotes' /\ Finishing'
  BY <1>0 DEF IInv, Publishing, Preparing, Promotes, Finishing, Changes
<1>10. Dropping'
  BY <1>0, <1>2, <1>4 DEF IInv, Dropping
<1>11. Paused'
  <2>1. \A t \in Snapshots : leases[t] = 0 => leases'[t] = 0
    BY <1>0, <1>2
  <2>2. current \in Snapshots /\ (op.kind = "promote" /\ op.at = "switch" => op.cand \in Snapshots)
    BY Numbers DEF IInv, Promotes, TypeOK
  <2> QED BY <1>0, <2>1, <2>2 DEF IInv, Paused
<1>12. Removing'
  <2>1. op.at = "retry" => \A t \in op.awaits : drain'[t] # "no" \/ t \in failed' \/ state[t] = "gone"
    BY <1>3 DEF IInv, Removing, TypeOK
  <2>2. Removing => \A t \in Snapshots :
           op.kind = "remove" /\ op.at \in {"uses", "await", "retry"} /\ gens[t][op.plugin] # 0 =>
             /\ Live(t)' => gens[t][op.plugin] \in op.left \ Processed
             /\ op.at = "retry" /\ state[t] \in {"retired", "aborted"} /\ leases'[t] = 0
                  /\ gens[t][op.plugin] \notin op.left \ Processed => t \in op.awaits
    <3>1. Live(s)
      BY <1>0 DEF Live
    <3> QED BY <1>2, <1>4, <3>1 DEF Removing
  <2> QED BY <1>0, <2>1, <2>2 DEF IInv, Removing, Processed
<1>13. RemovedAreClosed'
  BY <1>0 DEF IInv, RemovedAreClosed
<1> QED BY <1>6, <1>7, <1>8, <1>9, <1>10, <1>11, <1>12, <1>13 DEF IInv
-----------------------------------------------------------------------------
\* Where a candidate stands, from its compilation to its validation.
LEMMA CandidateStands ==
  ASSUME IInv, Preparing
  PROVE  /\ op.kind \in {"replace", "stage", "disable", "remove"} /\ op.plugin \in Plugins
         /\ op.cand \in Snapshots /\ op.cand # current /\ current \in Snapshots
         /\ current < op.cand /\ op.cand = made /\ ready = 0 /\ latest = current
         /\ state[current] = "committed" /\ state[op.cand] \in {"compiled", "validating"}
         /\ op.at = "validate" <=> state[op.cand] = "validating"
         /\ op.at = "validate" => previous[op.cand] = current
         /\ leases[op.cand] = 0 /\ drain[op.cand] = "no" /\ hand[op.cand] = 0
         /\ drain[current] = "no" /\ hand[current] = 0
         /\ op.kind = "stage" => ~op.endpoint
         /\ Changes(op.cand, op.plugin, IF op.kind \in {"disable", "remove"} THEN 0 ELSE op.cand)
<1>1. /\ op.kind \in {"replace", "stage", "disable", "remove"} /\ op.plugin \in Plugins
      /\ current < op.cand /\ op.cand = made /\ ready = 0
      /\ op.at # "validate" => state[op.cand] = "compiled"
      /\ op.at = "validate" => state[op.cand] = "validating" /\ previous[op.cand] = current
      /\ op.kind = "stage" => ~op.endpoint
      /\ Changes(op.cand, op.plugin, IF op.kind \in {"disable", "remove"} THEN 0 ELSE op.cand)
  BY DEF IInv, Publishing
<1>2. op.cand \in Snapshots /\ current \in Snapshots /\ latest = current /\ op.cand # current
  BY <1>1, Numbers DEF IInv, TypeOK, Pointers
<1>3. state[current] = "committed"
  BY DEF IInv, Pointers
<1>4. leases[op.cand] = 0 /\ drain[op.cand] = "no" /\ drain[current] = "no"
  <2>1. leases[op.cand] \in Nat
    BY <1>2 DEF IInv, TypeOK
  <2>2. state[op.cand] \in {"compiled", "validating"}
    BY <1>1
  <2>3. leases[op.cand] = 0
    BY <1>2, <2>1, <2>2 DEF IInv, StoreInv, LiveRight
  <2>4. drain[op.cand] = "no" /\ drain[current] = "no"
    BY <1>2, <1>3, <2>2 DEF IInv, StoreInv, Drains
  <2> QED BY <2>3, <2>4
<1>5. hand[op.cand] = 0 /\ hand[current] = 0
  BY <1>2, <1>4 DEF IInv, StoreInv, Drains
<1> QED BY <1>1, <1>2, <1>3, <1>4, <1>5

\* begin_publish.
LEMMA BeginKeeps ==
  ASSUME IInv, Begin
  PROVE  IInv'
<1> PICK c : c = op.cand
  OBVIOUS
<1>1. /\ Preparing /\ op.at \in {"switch", "begin"} /\ op' = [op EXCEPT !.at = "validate"]
      /\ state' = [state EXCEPT ![c] = "validating"]
      /\ accepting' = [accepting EXCEPT ![c] = FALSE]
      /\ previous' = [previous EXCEPT ![c] = current]
      /\ phase' = [phase EXCEPT ![c] = IF op.kind \in {"replace", "stage"} THEN "validating" ELSE @]
      /\ UNCHANGED <<made, gens, current, latest, leases, uses, holder, want, asleep, drain, hand,
                     failed, begun, closed, draining, tx, early, ready, mishaps>>
  BY DEF Begin, Preparing, Goto, counts, readers, drains
<1>2. /\ op.kind \in {"replace", "stage", "disable", "remove"} /\ op.plugin \in Plugins
      /\ c \in Snapshots /\ c # current /\ current \in Snapshots /\ current < c /\ c = made
      /\ ready = 0 /\ latest = current /\ state[c] = "compiled" /\ leases[c] = 0
      /\ drain[c] = "no"
      /\ Changes(c, op.plugin, IF op.kind \in {"disable", "remove"} THEN 0 ELSE c)
  BY <1>1, CandidateStands
<1>3. /\ op'.at = "validate" /\ op'.kind = op.kind /\ op'.cand = c /\ op'.plugin = op.plugin
      /\ op'.endpoint = op.endpoint /\ op'.awaits = op.awaits /\ op'.left = op.left
  BY <1>1 DEF IInv, OpTyped, Procedures
<1>4. \A t \in Snapshots :
        /\ state'[t] = IF t = c THEN "validating" ELSE state[t]
        /\ accepting'[t] = IF t = c THEN FALSE ELSE accepting[t]
        /\ previous'[t] = IF t = c THEN current ELSE previous[t]
        /\ t # c => phase'[t] = phase[t] /\ Live(t)' = Live(t)
        /\ Live(t)' => t = c \/ Live(t)
        /\ Live(t) => t # c
  BY <1>1, <1>2 DEF IInv, TypeOK, Live
<1>0. UNCHANGED <<made, gens, current, latest, leases, uses, holder, want, asleep, drain, hand,
                  failed, begun, closed, draining, tx, early, ready, mishaps>>
  BY <1>1
<1>5. phase[c] = "none" /\ phase'[c] \in {"none", "validating"}
  BY <1>1, <1>2 DEF IInv, StoreInv, JournalRight, TypeOK
<1>6. TypeOK' /\ OpTyped'
  <2>1. OpTyped'
    BY <1>1 DEF IInv, OpTyped, Procedures, Steps
  <2> QED BY <1>1, <1>2, <1>3, <2>1, Numbers DEF IInv, TypeOK
<1>7. StoreInv'
  <2>1. CountsMatch' /\ Waiting'
    BY <1>1, CountsFrame DEF IInv, StoreInv, Waiting
  <2>2. GensRight'
    <3>1. \A t \in Snapshots : /\ state'[t] = "compiled" => state[t] = "compiled"
                               /\ t > made => state'[t] = "compiled"
      <4>1. \A t \in Snapshots : t > made => state[t] = "compiled"
        BY DEF IInv, StoreInv, GensRight
      <4>2. \A t \in Snapshots : t > made => t # c
        BY <1>2, Numbers
      <4> QED BY <1>4, <4>1, <4>2
    <3> QED BY <1>0, <3>1, GensFrame DEF IInv, StoreInv
  <2>3. Drains'
    BY <1>0, <1>2, <1>4 DEF IInv, StoreInv, Drains
  <2>4. LiveRight'
    <3>1. \A p \in Plugins : gens[c][p] # 0 => begun[<<p, gens[c][p]>>] = 0
      <4>1. \A p \in Plugins : gens[c][p] \in {0, c} \/ gens[c][p] = gens[current][p]
        BY <1>2 DEF IInv, TypeOK, Changes
      <4>2. Live(current)
        BY DEF Live, IInv, Pointers
      <4> QED BY <1>2, <4>1, <4>2 DEF IInv, StoreInv, LiveRight, GensRight
    <3>2. \A t \in Snapshots : leases'[t] > 0 => state'[t] \in {"committed", "retired", "aborted"}
      BY <1>1, <1>2, <1>4 DEF IInv, StoreInv, LiveRight
    <3>3. \A t \in Snapshots, p \in Plugins : Live(t) /\ gens[t][p] # 0 => begun[<<p, gens[t][p]>>] = 0
      BY DEF IInv, StoreInv, LiveRight
    <3> QED BY <1>0, <1>4, <3>1, <3>2, <3>3, ZenonT(40) DEF LiveRight
  <2>5. EveryGenerationOwed'
    <3>1. \A t \in Snapshots : state'[t] # "compiled" => state[t] # "compiled" \/ Live(t)'
      BY <1>4 DEF Live
    <3>2. \A t \in Snapshots, p \in Plugins : Owes(t, p) => Owes(t, p)'
      BY <1>1, <1>2, <1>4 DEF Owes
    <3> QED BY <1>1, <3>1, <3>2, OwedFrame DEF IInv, StoreInv
  <2>6. JournalRight' /\ JournalFollowsDrain'
    <3>1. TypeOK /\ JournalRight /\ JournalFollowsDrain
      BY DEF IInv, StoreInv
    <3>2. \A t \in Snapshots \ {c} : /\ state'[t] = state[t] /\ phase'[t] = phase[t]
                                      /\ previous'[t] = previous[t]
      BY <1>4
    <3>3. /\ c \in Snapshots /\ state[c] = "compiled" /\ state'[c] # "compiled"
          /\ phase'[c] \notin {"complete", "draining"}
      BY <1>2, <1>4, <1>5
    <3>4. UNCHANGED <<tx, early>>
      BY <1>0
    <3> QED BY <3>1, <3>2, <3>3, <3>4, JournalFrame
  <2> QED BY <2>1, <2>2, <2>3, <2>4, <2>5, <2>6 DEF StoreInv
<1>8. Pointers' /\ ReadyRight'
  BY <1>1, <1>2, <1>3, <1>4 DEF IInv, Pointers, ReadyRight
<1>9. Publishing'
  <2>1. UNCHANGED <<gens, current, made, ready>>
    BY <1>1
  <2>2. state'[c] = "validating" /\ previous'[c] = current
    BY <1>2, <1>4
  <2>3. op.kind = "stage" => ~op.endpoint
    BY <1>1, CandidateStands
  <2> QED BY <1>2, <1>3, <2>1, <2>2, <2>3 DEF Publishing, Changes
<1>10. Promotes' /\ Finishing' /\ Dropping' /\ Removing' /\ RemovedAreClosed'
  BY <1>1, <1>2, <1>3, <1>4 DEF Promotes, Finishing, Dropping, Removing, RemovedAreClosed, IInv
<1>11. Paused'
  BY <1>1, <1>2, <1>3, <1>4 DEF Paused, IInv
<1>12. TrackedRight'
  BY <1>1, <1>3, <1>4, ZenonT(40) DEF TrackedRight, IInv
<1> QED BY <1>6, <1>7, <1>8, <1>9, <1>10, <1>11, <1>12 DEF IInv

\* A publication fails before begin_publish.
LEMMA PublicationFailsKeeps ==
  ASSUME IInv, PublicationFails
  PROVE  IInv'
<1>1. /\ Preparing /\ op.at \in {"quiesce", "switch", "begin"}
      /\ accepting' = [t \in Snapshots |-> t \in (IF op.endpoint THEN {current} ELSE {}) \/ accepting[t]]
      /\ asleep' = {} /\ op' = Procedure(op'.at, "none", 0, 0, FALSE) /\ op'.at \in {"idle", "reconciled"}
      /\ UNCHANGED <<made, gens, state, current, latest, leases, uses, holder, want, drain, hand,
                     failed, begun, closed, draining, previous, phase, tx, early, ready, mishaps>>
  BY DEF PublicationFails, Preparing, Resume, NotifyAll, Raise, Continue, Idle, Procedure,
         counts, readers, drains, journal
<1>2. op'.kind = "none" /\ op'.cand = 0 /\ op'.plugin = 0 /\ op'.awaits = {} /\ op'.left = {}
  BY <1>1 DEF Procedure
<1>3. /\ current \in Snapshots /\ ready = 0 /\ latest = current /\ accepting'[current]
  BY <1>1, CandidateStands DEF IInv, Paused
<1>4. TypeOK'
  BY <1>1, <1>2, Numbers DEF IInv, TypeOK
<1>5. OpTyped'
  <2>1. op'.at \in Steps /\ "none" \in Kinds /\ 0 \in 0 .. MaxSnapshots /\ 0 \in 0 .. PluginCount
    BY <1>1, Numbers DEF Steps, Kinds
  <2>2. Procedure(op'.at, "none", 0, 0, FALSE) \in Procedures
    BY <2>1, ProcedureTyped
  <2> QED BY <1>1, <2>2 DEF OpTyped
<1>6. StoreInv'
  BY <1>1, StoreFrame DEF IInv
<1>7. Pointers' /\ ReadyRight' /\ Dropping'
  <2>1. Pointers'
    BY <1>1, <1>2, <1>3 DEF IInv, Pointers
  <2>2. ReadyRight'
    BY <1>1, <1>3 DEF ReadyRight
  <2>3. Dropping'
    BY <1>1, <1>2 DEF IInv, Dropping
  <2> QED BY <2>1, <2>2, <2>3
<1>8. Publishing' /\ Promotes' /\ Finishing' /\ Removing' /\ RemovedAreClosed'
  BY <1>1, <1>2 DEF Publishing, Preparing, Promotes, Finishing, Removing, RemovedAreClosed
<1>9. Paused' /\ TrackedRight'
  <2>1. Paused'
    BY <1>1, <1>2, <1>3 DEF Paused
  <2>2. TrackedRight'
    BY <1>1, <1>2 DEF IInv, TrackedRight, Live
  <2> QED BY <2>1, <2>2
<1> QED BY <1>4, <1>5, <1>6, <1>7, <1>8, <1>9 DEF IInv

\* A candidate that is not valid is aborted and drains.
LEMMA AbortKeeps ==
  ASSUME IInv, Abort
  PROVE  IInv'
<1> PICK c : c = op.cand
  OBVIOUS
<1>1. /\ op.at = "validate" /\ Preparing /\ op' = [op EXCEPT !.at = "aborting"]
      /\ state' = [state EXCEPT ![c] = "aborted"]
      /\ accepting' = [accepting EXCEPT ![c] = FALSE, ![current] = TRUE]
      /\ Schedule({c}, state', leases)
      /\ UNCHANGED <<made, gens, current, latest, leases, uses, holder, want, asleep, hand,
                     begun, closed, draining, previous, phase, tx, early, ready, mishaps>>
  <2>1. op.at = "validate" => op.kind # "promote"
    BY DEF IInv, Promotes
  <2> QED BY <2>1 DEF Abort, Preparing, Goto, counts, readers, journal
<1>2. /\ op.kind \in {"replace", "stage", "disable", "remove"} /\ op.plugin \in Plugins
      /\ c \in Snapshots /\ c # current /\ current \in Snapshots /\ c = made
      /\ ready = 0 /\ latest = current /\ state[c] = "validating" /\ leases[c] = 0
      /\ drain[c] = "no" /\ hand[c] = 0
  BY <1>1, CandidateStands
<1>3. /\ op'.at = "aborting" /\ op'.kind = op.kind /\ op'.cand = c /\ op'.plugin = op.plugin
  BY <1>1 DEF IInv, OpTyped, Procedures
<1>4. \A t \in Snapshots :
        /\ state'[t] = IF t = c THEN "aborted" ELSE state[t]
        /\ accepting'[t] = IF t = c THEN FALSE ELSE IF t = current THEN TRUE ELSE accepting[t]
        /\ Live(t)' <=> t # c /\ Live(t)
  <2>1. \A t \in Snapshots :
        /\ state'[t] = IF t = c THEN "aborted" ELSE state[t]
        /\ accepting'[t] = IF t = c THEN FALSE ELSE IF t = current THEN TRUE ELSE accepting[t]
    BY <1>1, <1>2 DEF IInv, TypeOK
  <2>2. \A t \in Snapshots : Live(t)' <=> t # c /\ Live(t)
    <3>1. leases' = leases /\ leases[c] = 0 /\ state'[c] = "aborted"
      BY <1>1, <1>2, <2>1
    <3>2. ~Live(c)'
      BY <3>1 DEF Live
    <3>3. \A t \in Snapshots \ {c} : Live(t)' <=> Live(t)
      BY <2>1, <3>1 DEF Live
    <3> QED BY <3>2, <3>3
  <2> QED BY <2>1, <2>2
<1>5. /\ drain' \in [Snapshots -> {"no", "made", "runs", "stopping", "lost"}]
      /\ failed' \subseteq failed
      /\ \A t \in Snapshots :
              \/ drain'[t] = drain[t] /\ (t \in failed' <=> t \in failed)
              \/ /\ drain[t] \in {"no", "lost"} /\ drain'[t] = "made" /\ t \notin failed'
                 /\ state'[t] \in {"retired", "aborted"} /\ leases[t] = 0
  <2>1. TypeOK /\ {c} \in SUBSET Snapshots
    BY <1>2 DEF IInv
  <2>2. PICK st : st = state'
    OBVIOUS
  <2>3. Schedule({c}, st, leases)
    BY <1>1, <2>2
  <2> QED BY <2>1, <2>2, <2>3, Scheduled
<1>6. TypeOK' /\ OpTyped'
  <2>1. OpTyped'
    BY <1>1 DEF IInv, OpTyped, Procedures, Steps
  <2> QED BY <1>1, <1>2, <1>5, <2>1, Numbers DEF IInv, TypeOK, OpTyped, Procedures
<1>7. StoreInv'
  <2>1. CountsMatch' /\ Waiting'
    BY <1>1, CountsFrame DEF IInv, StoreInv, Waiting
  <2>2. GensRight'
    <3>1. \A t \in Snapshots : /\ state'[t] = "compiled" => state[t] = "compiled"
                               /\ t > made => state'[t] = "compiled"
      <4>1. \A t \in Snapshots : t > made => state[t] = "compiled"
        BY DEF IInv, StoreInv, GensRight
      <4>2. \A t \in Snapshots : t > made => t # c
        BY <1>2, Numbers
      <4> QED BY <1>2, <1>4, <4>1, <4>2
    <3> QED BY <1>1, <3>1, GensFrame DEF IInv, StoreInv
  <2>3. Drains'
    <3>1. \A t \in Snapshots : hand[t] # 0 => drain'[t] = drain[t]
      BY <1>5 DEF IInv, StoreInv, Drains
    <3>2. \A t \in Snapshots : state[t] \in {"retired", "aborted"} => state'[t] = state[t]
      BY <1>2, <1>4
    <3> QED BY <1>1, <1>4, <1>5, <3>1, <3>2 DEF IInv, StoreInv, Drains
  <2>4. LiveRight'
    <3>1. \A t \in Snapshots : leases'[t] > 0 => state'[t] \in {"committed", "retired", "aborted"}
      BY <1>1, <1>2, <1>4 DEF IInv, StoreInv, LiveRight
    <3> QED BY <1>1, <1>4, <3>1, LiveFrame DEF IInv, StoreInv
  <2>5. EveryGenerationOwed'
    <3>1. \A t \in Snapshots : state'[t] # "compiled" => state[t] # "compiled"
      BY <1>2, <1>4
    <3>2. \A t \in Snapshots, p \in Plugins : Owes(t, p) => Owes(t, p)'
      <4>1. \A t \in Snapshots : hand'[t] = hand[t] /\ (t # c => state'[t] = state[t])
        BY <1>1, <1>4
      <4>2. \A p \in Plugins : hand[c] < p
        BY <1>2, Numbers
      <4> QED BY <1>4, <1>2, <4>1, <4>2 DEF Owes
    <3> QED BY <1>1, <3>1, <3>2, OwedFrame DEF IInv, StoreInv
  <2>6. JournalRight' /\ JournalFollowsDrain'
    <3>1. previous[c] = current /\ phase[c] \notin {"complete", "draining"}
      <4>1. previous[c] = current /\ state[current] = "committed"
        BY <1>1, CandidateStands
      <4> QED BY <1>2, <4>1 DEF IInv, StoreInv, JournalFollowsDrain
    <3> QED BY <1>1, <1>2, <1>4, <3>1, JournalFrame DEF IInv, StoreInv
  <2> QED BY <2>1, <2>2, <2>3, <2>4, <2>5, <2>6 DEF StoreInv
<1>8. Pointers' /\ ReadyRight'
  <2>1. Pointers'
    <3>1. \A t \in Snapshots : state'[t] # "validating"
      <4>1. \A t \in Snapshots : state[t] = "validating" => t = c
        BY DEF IInv, Pointers
      <4> QED BY <1>4, <4>1
    <3>2. \A t \in Snapshots : state'[t] = "committed" <=> state[t] = "committed"
      BY <1>2, <1>4
    <3>3. UNCHANGED <<current, latest, ready>>
      BY <1>1
    <3> QED BY <1>2, <3>1, <3>2, <3>3 DEF IInv, Pointers
  <2>2. ReadyRight'
    BY <1>1, <1>2 DEF ReadyRight
  <2> QED BY <2>1, <2>2
<1>9. Publishing' /\ Promotes' /\ Finishing' /\ Removing' /\ RemovedAreClosed'
  BY <1>1, <1>2, <1>3 DEF Publishing, Preparing, Promotes, Finishing, Removing, RemovedAreClosed
<1>10. Dropping'
  BY <1>1, <1>2, <1>3, <1>4, Numbers DEF Dropping, IInv
<1>11. Paused'
  BY <1>1, <1>2, <1>3, <1>4 DEF Paused, IInv
<1>12. TrackedRight'
  BY <1>1, <1>2, <1>3, <1>4 DEF TrackedRight, IInv
<1> QED BY <1>6, <1>7, <1>8, <1>9, <1>10, <1>11, <1>12 DEF IInv
-----------------------------------------------------------------------------
\* commit: the previous snapshot retires.
LEMMA CommitKeeps ==
  ASSUME IInv, Commit
  PROVE  IInv'
<1> PICK c : c = op.cand
  OBVIOUS
<1>1. /\ op.at = "validate" /\ op.kind # "stage" /\ Preparing
      /\ op' = [op EXCEPT !.at = "finish"]
      /\ state' = [state EXCEPT ![c] = "committed", ![current] = "retired"]
      /\ accepting' = [accepting EXCEPT ![c] = TRUE]
      /\ current' = c /\ latest' = c
      /\ draining' = Retired(current) /\ Schedule({current}, state', leases) /\ asleep' = {}
      /\ op.kind = "replace" => /\ phase' = [phase EXCEPT ![c] = "moving"]
                                /\ tx' = [tx EXCEPT ![current] = c]
      /\ op.kind # "replace" => phase' = phase /\ tx' = tx
  <2>1. op.at = "validate" => op.kind # "promote"
    BY DEF IInv, Promotes
  <2> QED BY <2>1 DEF Commit, Preparing, Goto, NotifyAll
<1>2. UNCHANGED <<made, gens, leases, uses, holder, want, hand, begun, closed, previous, early,
                  ready, mishaps>>
  BY DEF Commit, counts, readers
<1>3. /\ op.kind \in {"replace", "disable", "remove"} /\ op.plugin \in Plugins
      /\ c \in Snapshots /\ c # current /\ current \in Snapshots /\ c = made
      /\ ready = 0 /\ latest = current /\ state[c] = "validating" /\ state[current] = "committed"
      /\ leases[c] = 0 /\ previous[c] = current
      /\ drain[c] = "no" /\ hand[c] = 0 /\ drain[current] = "no" /\ hand[current] = 0
      /\ Changes(c, op.plugin, IF op.kind \in {"disable", "remove"} THEN 0 ELSE c)
  BY <1>1, CandidateStands
<1>4. /\ op'.at = "finish" /\ op'.kind = op.kind /\ op'.cand = c /\ op'.plugin = op.plugin
  BY <1>1 DEF IInv, OpTyped, Procedures
<1>5. \A t \in Snapshots :
        /\ state'[t] = IF t = c THEN "committed" ELSE IF t = current THEN "retired" ELSE state[t]
        /\ accepting'[t] = IF t = c THEN TRUE ELSE accepting[t]
  BY <1>1, <1>3 DEF IInv, TypeOK
<1>6. \A t \in Snapshots :
        /\ t # c => phase'[t] = phase[t]
        /\ t # current => tx'[t] = tx[t]
        /\ op.kind = "replace" => phase'[c] = "moving" /\ tx'[current] = c
        /\ op.kind # "replace" => phase'[c] = phase[c] /\ tx'[current] = tx[current]
  BY <1>1, <1>3 DEF IInv, TypeOK
<1>7. \A t \in Snapshots : Live(t)' => Live(t)
  BY <1>2, <1>3, <1>5 DEF Live
<1>8. /\ drain' \in [Snapshots -> {"no", "made", "runs", "stopping", "lost"}]
      /\ failed' \subseteq failed
      /\ \A t \in Snapshots :
              \/ drain'[t] = drain[t] /\ (t \in failed' <=> t \in failed)
              \/ /\ drain[t] \in {"no", "lost"} /\ drain'[t] = "made" /\ t \notin failed'
                 /\ state'[t] \in {"retired", "aborted"} /\ leases[t] = 0
  <2>1. TypeOK /\ {current} \in SUBSET Snapshots
    BY <1>3 DEF IInv
  <2>2. PICK st : st = state'
    OBVIOUS
  <2>3. Schedule({current}, st, leases)
    BY <1>1, <2>2
  <2> QED BY <2>1, <2>2, <2>3, Scheduled
<1>9. OpTyped'
  BY <1>1 DEF IInv, OpTyped, Procedures, Steps
<1>10. TypeOK'
  <2>1. draining' \subseteq Generations
    <3>1. gens[current][op.plugin] # 0 => gens[current][op.plugin] \in Snapshots
      BY <1>3, Numbers DEF IInv, TypeOK
    <3> QED BY <1>1, <1>3, <3>1 DEF Retired, IInv, TypeOK, Generations
  <2>2. /\ phase' \in [Snapshots -> {"none", "validating", "ready", "moving", "draining",
                                     "complete", "discarding", "aborted"}]
        /\ tx' \in [Snapshots -> 0 .. MaxSnapshots]
    <3>1. c \in 0 .. MaxSnapshots
      BY <1>3, Numbers
    <3>2. CASE op.kind = "replace"
      <4>1. phase' = [phase EXCEPT ![c] = "moving"] /\ tx' = [tx EXCEPT ![current] = c]
        BY <1>1, <3>2
      <4> QED BY <1>3, <3>1, <4>1 DEF IInv, TypeOK
    <3>3. CASE op.kind # "replace"
      BY <1>1, <3>3 DEF IInv, TypeOK
    <3> QED BY <3>2, <3>3
  <2>3. /\ state' \in [Snapshots -> {"compiled", "validating", "committed", "retired",
                                     "aborted", "gone"}]
        /\ accepting' \in [Snapshots -> BOOLEAN]
    BY <1>1, <1>3 DEF IInv, TypeOK
  <2>4. op'.cand \in 0 .. MaxSnapshots /\ op'.plugin \in 0 .. PluginCount
        /\ op'.awaits \subseteq Snapshots /\ op'.left \subseteq Snapshots
    BY <1>9 DEF OpTyped, Procedures
  <2>5. drain' \in [Snapshots -> {"no", "made", "runs", "stopping", "lost"}] /\ failed' \subseteq Snapshots
    BY <1>8 DEF IInv, TypeOK
  <2>6. current' \in Snapshots /\ latest' \in Snapshots /\ asleep' \subseteq Holders \cup {Publisher}
    BY <1>1, <1>3
  <2> QED BY <1>2, <2>1, <2>2, <2>3, <2>4, <2>5, <2>6 DEF IInv, TypeOK
<1>11. StoreInv'
  <2>1. CountsMatch' /\ Waiting'
    BY <1>2, CountsFrame DEF IInv, StoreInv, Waiting
  <2>2. GensRight'
    <3>1. \A t \in Snapshots : /\ state'[t] = "compiled" => state[t] = "compiled"
                               /\ t > made => state'[t] = "compiled"
      <4>1. \A t \in Snapshots : t > made => state[t] = "compiled"
        BY DEF IInv, StoreInv, GensRight
      <4>2. \A t \in Snapshots : t > made => t # c /\ t # current
        BY <1>3, <4>1, Numbers
      <4> QED BY <1>3, <1>5, <4>1, <4>2
    <3> QED BY <1>2, <3>1, GensFrame DEF IInv, StoreInv
  <2>3. Drains'
    <3>1. \A t \in Snapshots : hand[t] # 0 => drain'[t] = drain[t]
      BY <1>8 DEF IInv, StoreInv, Drains
    <3>2. \A t \in Snapshots : state[t] \in {"retired", "aborted"} => state'[t] = state[t]
      BY <1>3, <1>5
    <3> QED BY <1>2, <1>5, <1>8, <3>1, <3>2 DEF IInv, StoreInv, Drains
  <2>4. LiveRight'
    <3>1. \A t \in Snapshots : leases'[t] > 0 => state'[t] \in {"committed", "retired", "aborted"}
      BY <1>2, <1>3, <1>5 DEF IInv, StoreInv, LiveRight
    <3> QED BY <1>2, <1>7, <3>1, LiveFrame DEF IInv, StoreInv
  <2>5. EveryGenerationOwed'
    <3>1. \A t \in Snapshots : state'[t] # "compiled" => state[t] # "compiled"
      BY <1>3, <1>5
    <3>2. \A t \in Snapshots, p \in Plugins : Owes(t, p) => Owes(t, p)'
      <4>1. \A t \in Snapshots : hand'[t] = hand[t] /\ (t \notin {c, current} => state'[t] = state[t])
                                 /\ leases'[t] = leases[t]
        BY <1>2, <1>5
      <4>2. \A p \in Plugins : hand[current] < p
        BY <1>3, Numbers
      <4> QED BY <1>5, <1>3, <4>1, <4>2 DEF Owes, Live
    <3> QED BY <1>2, <3>1, <3>2, OwedFrame DEF IInv, StoreInv
  <2>6. \A t \in Snapshots : phase'[t] \in {"complete", "draining"} =>
           /\ t # c /\ phase'[t] = phase[t] /\ previous[t] \in Snapshots \ {c, current}
    <3>1. \A t \in Snapshots : phase[t] \in {"complete", "draining"} =>
             previous[t] \in Snapshots /\ state[previous[t]] \in {"gone", "retired"}
      BY Numbers DEF IInv, StoreInv, JournalRight, JournalFollowsDrain, TypeOK
    <3>2. phase[c] \notin {"complete", "draining"}
      BY <1>3, <3>1
    <3> QED BY <1>3, <1>6, <3>1, <3>2
  <2>7. JournalRight'
    <3>1. \A t \in Snapshots : tx[t] # 0 => /\ tx[t] \in Snapshots /\ previous[tx[t]] = t
                                            /\ state[tx[t]] # "compiled"
      BY Numbers DEF IInv, StoreInv, JournalRight, TypeOK
    <3>2. \A t \in Snapshots : state'[t] = "compiled" => state[t] = "compiled"
      BY <1>5
    <3>3. \A t \in Snapshots : tx'[t] # 0 => /\ previous[tx'[t]] = t /\ state'[tx'[t]] # "compiled"
      BY <1>3, <1>5, <1>6, <3>1, <3>2
    <3>4. \A t \in Snapshots : phase'[t] # "none" => state'[t] # "compiled"
      <4>1. state'[c] # "compiled"
        BY <1>3, <1>5
      <4>2. \A t \in Snapshots \ {c} : phase'[t] # "none" => state[t] # "compiled"
        BY <1>6 DEF IInv, StoreInv, JournalRight
      <4> QED BY <3>2, <4>1, <4>2
    <3>5. \A t \in early : state'[t] = "gone"
      <4>1. \A t \in early : t \in Snapshots /\ state[t] = "gone"
        BY DEF IInv, StoreInv, JournalRight, TypeOK
      <4> QED BY <1>3, <1>5, <4>1
    <3>6. \A t \in Snapshots : phase'[t] \in {"complete", "draining"} => previous[t] # 0
      BY <2>6, Numbers
    <3> QED BY <1>2, <3>3, <3>4, <3>5, <3>6 DEF JournalRight
  <2>8. JournalFollowsDrain'
    <3> SUFFICES ASSUME NEW t \in Snapshots, phase'[t] \in {"complete", "draining"}
                 PROVE  /\ phase'[t] = "complete" => state'[previous[t]] = "gone"
                        /\ phase'[t] = "draining" => /\ state'[previous[t]] = "retired"
                                                     /\ tx'[previous[t]] = t
      BY <1>2 DEF JournalFollowsDrain
    <3>1. phase'[t] = phase[t] /\ previous[t] \in Snapshots \ {c, current}
      BY <2>6
    <3>2. state'[previous[t]] = state[previous[t]] /\ tx'[previous[t]] = tx[previous[t]]
      BY <1>5, <1>6, <3>1
    <3> QED BY <3>1, <3>2 DEF IInv, StoreInv, JournalFollowsDrain
  <2> QED BY <2>1, <2>2, <2>3, <2>4, <2>5, <2>7, <2>8 DEF StoreInv
<1>12. Pointers'
  <2>1. \A t \in Snapshots : state[t] = "validating" => t = c
    BY DEF IInv, Pointers
  <2>2. \A t \in Snapshots : state[t] = "committed" => t = current
    BY <1>3 DEF IInv, Pointers
  <2>3. /\ state'[c] = "committed"
        /\ \A t \in Snapshots : (state'[t] = "committed" => t = c) /\ state'[t] # "validating"
    BY <1>3, <1>5, <2>1, <2>2
  <2>4. current' = c /\ latest' = c /\ ready' = 0
    BY <1>1, <1>2, <1>3
  <2> QED BY <2>3, <2>4 DEF Pointers
<1>13. ReadyRight' /\ Publishing' /\ Promotes' /\ Removing' /\ RemovedAreClosed'
  BY <1>2, <1>3, <1>4 DEF ReadyRight, Publishing, Preparing, Promotes, Removing, RemovedAreClosed
<1>14. Finishing'
  <2>1. op.kind = "remove" => gens[c][op.plugin] = 0
    BY <1>3 DEF Changes, IInv, TypeOK
  <2>2. current \notin early /\ state'[current] = "retired"
    BY <1>3, <1>5 DEF IInv, StoreInv, JournalRight
  <2>3. /\ current' = c /\ latest' = c /\ previous' = previous /\ ready' = 0 /\ gens' = gens
        /\ early' = early
    BY <1>1, <1>2, <1>3
  <2> QED BY <1>3, <1>4, <1>6, <2>1, <2>2, <2>3 DEF Finishing
<1>15. Dropping'
  BY <1>2, <1>3, <1>4, <1>5 DEF Dropping, IInv
<1>16. Paused'
  BY <1>1, <1>3, <1>4, <1>5 DEF Paused
<1>17. TrackedRight'
  <2> SUFFICES ASSUME NEW t \in Snapshots, NEW p \in Plugins, Live(t), gens[t][p] # 0
               PROVE  \/ <<p, gens[t][p]>> \in draining'
                      \/ gens[t][p] = gens[c][p]
    BY <1>1, <1>2, <1>7 DEF TrackedRight
  <2>1. \/ <<p, gens[t][p]>> \in draining
        \/ gens[t][p] = gens[current][p]
        \/ t = c
    BY <1>1, <1>3 DEF IInv, TrackedRight
  <2>2. draining \subseteq draining'
    BY <1>1 DEF Retired
  <2>3. p # op.plugin => gens[c][p] = gens[current][p]
    BY <1>3 DEF Changes, IInv, TypeOK
  <2>4. p = op.plugin /\ gens[t][p] = gens[current][p] => <<p, gens[t][p]>> \in draining'
    BY <1>1 DEF Retired
  <2> QED BY <2>1, <2>2, <2>3, <2>4
<1> QED BY <1>9, <1>10, <1>11, <1>12, <1>13, <1>14, <1>15, <1>16, <1>17 DEF IInv

\* commit_latest: the candidate becomes ready.
LEMMA CommitLatestKeeps ==
  ASSUME IInv, CommitLatest
  PROVE  IInv'
<1> PICK c : c = op.cand
  OBVIOUS
<1>1. /\ op.at = "validate" /\ op.kind = "stage" /\ Preparing
      /\ op' = Idle /\ asleep' = {}
      /\ state' = [state EXCEPT ![c] = "committed"]
      /\ accepting' = [accepting EXCEPT ![c] = TRUE]
      /\ latest' = c /\ ready' = c
      /\ phase' = [phase EXCEPT ![c] = "ready"]
  BY DEF CommitLatest, Preparing, Raise, NotifyAll
<1>2. UNCHANGED <<made, gens, current, leases, uses, holder, want, drain, hand, failed, begun,
                  closed, draining, previous, tx, early, mishaps>>
  BY DEF CommitLatest, counts, readers, drains
<1>3. /\ op.plugin \in Plugins /\ c \in Snapshots /\ c # current /\ current \in Snapshots
      /\ current < c /\ c = made /\ ready = 0 /\ latest = current
      /\ state[c] = "validating" /\ state[current] = "committed"
      /\ leases[c] = 0 /\ previous[c] = current /\ drain[c] = "no" /\ hand[c] = 0
      /\ Changes(c, op.plugin, c) /\ ~op.endpoint
  BY <1>1, CandidateStands
<1>4. op' = Procedure("idle", "none", 0, 0, FALSE) /\ op'.at = "idle" /\ op'.kind = "none"
      /\ op'.cand = 0 /\ op'.plugin = 0 /\ op'.awaits = {} /\ op'.left = {}
  BY <1>1 DEF Idle, Procedure
<1>5. \A t \in Snapshots :
        /\ state'[t] = IF t = c THEN "committed" ELSE state[t]
        /\ accepting'[t] = IF t = c THEN TRUE ELSE accepting[t]
        /\ phase'[t] = IF t = c THEN "ready" ELSE phase[t]
  BY <1>1, <1>3 DEF IInv, TypeOK
<1>6. \A t \in Snapshots : Live(t)' <=> Live(t)
  BY <1>2, <1>3, <1>5 DEF Live
<1>7. OpTyped'
  <2>1. "idle" \in Steps /\ "none" \in Kinds /\ 0 \in 0 .. MaxSnapshots /\ 0 \in 0 .. PluginCount
    BY Numbers DEF Steps, Kinds
  <2>2. Procedure("idle", "none", 0, 0, FALSE) \in Procedures
    BY <2>1, ProcedureTyped
  <2> QED BY <1>4, <2>2 DEF OpTyped
<1>8. TypeOK'
  <2>1. /\ state' \in [Snapshots -> {"compiled", "validating", "committed", "retired",
                                     "aborted", "gone"}]
        /\ accepting' \in [Snapshots -> BOOLEAN]
        /\ phase' \in [Snapshots -> {"none", "validating", "ready", "moving", "draining",
                                     "complete", "discarding", "aborted"}]
    BY <1>1, <1>3 DEF IInv, TypeOK
  <2>2. /\ latest' \in Snapshots /\ ready' \in 0 .. MaxSnapshots
        /\ asleep' \subseteq Holders \cup {Publisher}
    BY <1>1, <1>3, Numbers
  <2>3. op'.cand \in 0 .. MaxSnapshots /\ op'.plugin \in 0 .. PluginCount
        /\ op'.awaits \subseteq Snapshots /\ op'.left \subseteq Snapshots
    BY <1>7 DEF OpTyped, Procedures
  <2> QED BY <1>2, <2>1, <2>2, <2>3 DEF IInv, TypeOK
<1>9. StoreInv'
  <2>1. CountsMatch' /\ Waiting'
    BY <1>2, CountsFrame DEF IInv, StoreInv, Waiting
  <2>2. GensRight'
    <3>1. \A t \in Snapshots : /\ state'[t] = "compiled" => state[t] = "compiled"
                               /\ t > made => state'[t] = "compiled"
      <4>1. \A t \in Snapshots : t > made => state[t] = "compiled"
        BY DEF IInv, StoreInv, GensRight
      <4>2. \A t \in Snapshots : t > made => t # c
        BY <1>3, <4>1, Numbers
      <4> QED BY <1>3, <1>5, <4>1, <4>2
    <3> QED BY <1>2, <3>1, GensFrame DEF IInv, StoreInv
  <2>3. Drains'
    BY <1>2, <1>3, <1>5 DEF IInv, StoreInv, Drains
  <2>4. LiveRight'
    <3>1. \A t \in Snapshots : leases'[t] > 0 => state'[t] \in {"committed", "retired", "aborted"}
      BY <1>2, <1>3, <1>5 DEF IInv, StoreInv, LiveRight
    <3> QED BY <1>2, <1>6, <3>1, LiveFrame DEF IInv, StoreInv
  <2>5. EveryGenerationOwed'
    <3>1. \A t \in Snapshots : state'[t] # "compiled" => state[t] # "compiled"
      BY <1>3, <1>5
    <3>2. \A t \in Snapshots, p \in Plugins : Owes(t, p) => Owes(t, p)'
      BY <1>2, <1>3, <1>5, <1>6 DEF Owes
    <3> QED BY <1>2, <3>1, <3>2, OwedFrame DEF IInv, StoreInv
  <2>6. JournalRight' /\ JournalFollowsDrain'
    <3>1. TypeOK /\ JournalRight /\ JournalFollowsDrain
      BY DEF IInv, StoreInv
    <3>2. /\ \A t \in Snapshots \ {c} : /\ state'[t] = state[t] /\ phase'[t] = phase[t]
                                        /\ previous'[t] = previous[t]
          /\ previous'[c] = previous[c]
      BY <1>2, <1>5
    <3>3. /\ c \in Snapshots /\ state[c] \notin {"gone", "retired"} /\ state'[c] # "compiled"
          /\ phase'[c] \notin {"complete", "draining"}
      BY <1>3, <1>5
    <3>4. UNCHANGED <<tx, early>>
      BY <1>2
    <3> QED BY <3>1, <3>2, <3>3, <3>4, JournalFrame
  <2> QED BY <2>1, <2>2, <2>3, <2>4, <2>5, <2>6 DEF StoreInv
<1>10. Pointers'
  <2>1. \A t \in Snapshots : state[t] = "validating" => t = c
    BY DEF IInv, Pointers
  <2>2. \A t \in Snapshots : state[t] = "committed" => t = current
    BY <1>3 DEF IInv, Pointers
  <2>3. /\ state'[c] = "committed" /\ state'[current] = "committed"
        /\ \A t \in Snapshots : (state'[t] = "committed" => t \in {c, current})
                                /\ state'[t] # "validating"
    BY <1>3, <1>5, <2>1, <2>2, ZenonT(40)
  <2>4. current' = current /\ latest' = c /\ ready' = c /\ made' = c /\ c # 0
    BY <1>1, <1>2, <1>3, Numbers
  <2> QED BY <2>3, <2>4 DEF Pointers
<1>11. ReadyRight'
  <2>1. PICK p \in Plugins : Changes(c, p, c)
    BY <1>3
  <2>2. Changes(c, p, c)'
    BY <1>2, <2>1 DEF Changes
  <2>3. /\ current' = current /\ latest' = c /\ ready' = c /\ current < c
        /\ previous'[c] = current /\ state'[c] = "committed"
    BY <1>1, <1>2, <1>3, <1>5
  <2> QED BY <2>2, <2>3 DEF ReadyRight, Changes
<1>12. Publishing' /\ Promotes' /\ Finishing' /\ Removing' /\ RemovedAreClosed'
  BY <1>4 DEF Publishing, Preparing, Promotes, Finishing, Removing, RemovedAreClosed
<1>13. Dropping'
  <2>1. \A t \in Snapshots : state'[t] = "aborted" => state[t] = "aborted" /\ leases'[t] = leases[t]
    BY <1>2, <1>5
  <2>2. \A t \in Snapshots : ~(state[t] = "aborted" /\ leases[t] > 0)
    BY <1>1 DEF Dropping, IInv
  <2> QED BY <1>4, <2>1, <2>2 DEF Dropping
<1>14. Paused'
  <2>1. accepting[current]
    BY <1>1, <1>3 DEF IInv, Paused
  <2> QED BY <1>1, <1>2, <1>3, <1>4, <1>5, <2>1, ZenonT(40) DEF Paused
<1>15. TrackedRight'
  <2> SUFFICES ASSUME NEW t \in Snapshots, NEW p \in Plugins, Live(t), gens[t][p] # 0
               PROVE  \/ <<p, gens[t][p]>> \in draining
                      \/ gens[t][p] \in {gens[current][p], gens[c][p]}
    BY <1>1, <1>2, <1>6 DEF TrackedRight
  <2> QED BY <1>1, <1>3 DEF IInv, TrackedRight
<1> QED BY <1>7, <1>8, <1>9, <1>10, <1>11, <1>12, <1>13, <1>14, <1>15 DEF IInv
-----------------------------------------------------------------------------
\* The drain of an aborted candidate is over.
LEMMA CandidateGoneKeeps ==
  ASSUME IInv, CandidateGone
  PROVE  IInv'
<1> PICK c : c = op.cand
  OBVIOUS
<1>1. /\ op.at \in {"aborting", "discarding"} /\ drain[c] = "no" /\ asleep' \subseteq asleep
      /\ \/ phase' = phase /\ ready' = ready
         \/ /\ phase' = [phase EXCEPT ![c] = IF @ = "none" THEN @ ELSE "aborted"]
            /\ ready' = IF op.at = "discarding" THEN 0 ELSE ready
      /\ op' = Procedure(op'.at, "none", 0, 0, FALSE) /\ op'.at \in {"idle", "reconciled"}
  BY DEF CandidateGone, NotifyAll, Continue, Raise, Idle, Procedure
<1>2. UNCHANGED <<made, gens, state, accepting, current, latest, leases, uses, holder, want, drain,
                  hand, failed, begun, closed, draining, previous, tx, early, mishaps>>
  BY DEF CandidateGone, store, published, counts, readers, drains
<1>3. op'.kind = "none" /\ op'.cand = 0 /\ op'.plugin = 0 /\ op'.awaits = {} /\ op'.left = {}
  BY <1>1 DEF Procedure
<1>4. /\ c \in Snapshots /\ accepting[current] /\ accepting[latest]
      /\ op.at = "discarding" => latest = current
  BY <1>1, Numbers DEF IInv, Dropping, Paused, TypeOK
<1>5. OpTyped'
  <2>1. op'.at \in Steps /\ "none" \in Kinds /\ 0 \in 0 .. MaxSnapshots /\ 0 \in 0 .. PluginCount
    BY <1>1, Numbers DEF Steps, Kinds
  <2>2. Procedure(op'.at, "none", 0, 0, FALSE) \in Procedures
    BY <2>1, ProcedureTyped
  <2> QED BY <1>1, <2>2 DEF OpTyped
<1>6. TypeOK'
  <2>1. phase' \in [Snapshots -> {"none", "validating", "ready", "moving", "draining",
                                  "complete", "discarding", "aborted"}]
    <3>1. phase \in [Snapshots -> {"none", "validating", "ready", "moving", "draining",
                                  "complete", "discarding", "aborted"}]
      BY DEF IInv, TypeOK
    <3> QED BY <1>1, <1>4, <3>1
  <2>2. ready' \in 0 .. MaxSnapshots /\ asleep' \subseteq Holders \cup {Publisher}
    BY <1>1, Numbers DEF IInv, TypeOK
  <2>3. op'.cand \in 0 .. MaxSnapshots /\ op'.plugin \in 0 .. PluginCount
        /\ op'.awaits \subseteq Snapshots /\ op'.left \subseteq Snapshots
    BY <1>5 DEF OpTyped, Procedures
  <2> QED BY <1>2, <2>1, <2>2, <2>3 DEF IInv, TypeOK
<1>7. StoreInv'
  <2>1. CountsMatch' /\ Waiting'
    BY <1>2, CountsFrame DEF IInv, StoreInv, Waiting
  <2>2. GensRight' /\ Drains' /\ LiveRight'
    BY <1>2 DEF IInv, StoreInv, GensRight, Drains, LiveRight, Live
  <2>3. EveryGenerationOwed'
    BY <1>2, OwedFrame DEF IInv, StoreInv, Owes, Live
  <2>4. \A t \in Snapshots : \/ phase'[t] = phase[t]
                             \/ phase[t] # "none" /\ phase'[t] = "aborted"
    BY <1>1, <1>4 DEF IInv, TypeOK
  <2>5. JournalRight' /\ JournalFollowsDrain'
    BY <1>2, <2>4 DEF IInv, StoreInv, JournalRight, JournalFollowsDrain
  <2> QED BY <2>1, <2>2, <2>3, <2>5 DEF StoreInv
<1>8. Pointers' /\ ReadyRight'
  <2>1. CASE ready' = ready
    <3>1. Pointers'
      BY <1>1, <1>2, <2>1 DEF IInv, Pointers
    <3>2. ~Promoting
      BY <1>1 DEF Promoting
    <3> QED BY <1>2, <2>1, <3>1, <3>2 DEF IInv, ReadyRight, Changes
  <2>2. CASE ready' # ready
    <3>1. ready' = 0 /\ latest = current
      BY <1>1, <1>4, <2>2
    <3>2. Pointers'
      BY <1>1, <1>2, <3>1 DEF IInv, Pointers
    <3> QED BY <3>1, <3>2 DEF ReadyRight
  <2> QED BY <2>1, <2>2
<1>9. Publishing' /\ Promotes' /\ Finishing' /\ Removing' /\ RemovedAreClosed'
  BY <1>1, <1>3 DEF Publishing, Preparing, Promotes, Finishing, Removing, RemovedAreClosed
<1>10. Dropping'
  BY <1>1, <1>2 DEF IInv, Dropping
<1>11. Paused'
  BY <1>1, <1>2, <1>3, <1>4 DEF Paused
<1>12. TrackedRight'
  BY <1>1, <1>2 DEF IInv, TrackedRight, Live
<1> QED BY <1>5, <1>6, <1>7, <1>8, <1>9, <1>10, <1>11, <1>12 DEF IInv

\* A publication compiles its candidate.
LEMMA CompileKeeps ==
  ASSUME IInv, NEW kind \in {"replace", "stage", "disable", "remove"}, NEW p \in Plugins,
         NEW e \in BOOLEAN, Compile(kind, p, e)
  PROVE  IInv'
<1> PICK c : c = made + 1
  OBVIOUS
<1> PICK k : k = IF kind \in {"disable", "remove"} THEN 0 ELSE c
  OBVIOUS
<1>1. /\ op.at \in {"idle", "reconciled"} /\ ready = 0 /\ made < MaxSnapshots /\ made' = c
      /\ e \in EndpointChange(kind, p)
      /\ gens' = [gens EXCEPT ![c] = [gens[current] EXCEPT ![p] = k]]
      /\ op' = Procedure(IF e THEN "quiesce" ELSE "begin", kind, c, p, e)
      /\ accepting' = [t \in Snapshots |-> t \notin (IF e THEN {current} ELSE {}) /\ accepting[t]]
  BY DEF Compile, Pause
<1>2. UNCHANGED <<state, leases, uses, current, latest, holder, want, asleep, drain, hand, failed,
                  begun, closed, draining, previous, phase, tx, early, ready, mishaps>>
  BY DEF Compile, counts, readers, drains, journal
<1>3. /\ op'.at = (IF e THEN "quiesce" ELSE "begin") /\ op'.kind = kind /\ op'.cand = c
      /\ op'.plugin = p /\ op'.endpoint = e /\ op'.awaits = {} /\ op'.left = {}
  BY <1>1, ProcedureIs
<1>4. c \in Snapshots /\ c > made /\ made \in Snapshots /\ current \in Snapshots
  BY <1>1 DEF IInv, TypeOK, Snapshots
<1>5. /\ state[c] = "compiled" /\ leases[c] = 0 /\ drain[c] = "no" /\ hand[c] = 0 /\ ~Live(c)
      /\ c # current /\ current <= made /\ latest = current
  <2>1. state[c] = "compiled"
    BY <1>4 DEF IInv, StoreInv, GensRight
  <2>2. leases[c] \in Nat
    BY <1>4 DEF IInv, TypeOK
  <2>3. leases[c] = 0
    BY <1>4, <2>1, <2>2 DEF IInv, StoreInv, LiveRight
  <2>4. drain[c] = "no" /\ hand[c] = 0
    BY <1>4, <2>1 DEF IInv, StoreInv, Drains
  <2>5. state[current] = "committed"
    BY DEF IInv, Pointers
  <2>6. ~(current > made)
    BY <1>4, <2>5 DEF IInv, StoreInv, GensRight
  <2>7. latest = current
    BY <1>1 DEF IInv, Pointers
  <2> QED BY <1>4, <2>1, <2>3, <2>4, <2>5, <2>6, <2>7, Numbers DEF Live
<1>6. /\ \A t \in Snapshots \ {c} : gens'[t] = gens[t]
      /\ gens'[c] = [gens[current] EXCEPT ![p] = k]
      /\ k \in {0, c}
  BY <1>1, <1>4 DEF IInv, TypeOK
<1>7. \A q \in Plugins : gens'[c][q] = IF q = p THEN k ELSE gens[current][q]
  BY <1>4, <1>6 DEF IInv, TypeOK
<1>8. OpTyped'
  <2>1. /\ (IF e THEN "quiesce" ELSE "begin") \in Steps /\ kind \in Kinds
        /\ c \in 0 .. MaxSnapshots /\ p \in 0 .. PluginCount
    BY <1>4, Numbers DEF Steps, Kinds
  <2>2. Procedure(IF e THEN "quiesce" ELSE "begin", kind, c, p, e) \in Procedures
    BY <2>1, ProcedureTyped
  <2> QED BY <1>1, <2>2 DEF OpTyped
<1>9. TypeOK'
  <2>1. gens' \in [Snapshots -> [Plugins -> 0 .. MaxSnapshots]]
    BY <1>1, <1>4, <1>6, Numbers DEF IInv, TypeOK
  <2>2. accepting' \in [Snapshots -> BOOLEAN] /\ made' \in Snapshots
    BY <1>1, <1>4 DEF IInv, TypeOK
  <2>3. op'.cand \in 0 .. MaxSnapshots /\ op'.plugin \in 0 .. PluginCount
        /\ op'.awaits \subseteq Snapshots /\ op'.left \subseteq Snapshots
    BY <1>8 DEF OpTyped, Procedures
  <2> QED BY <1>2, <2>1, <2>2, <2>3 DEF IInv, TypeOK
<1>10. StoreInv'
  <2>1. CountsMatch'
    <3>1. \A h \in Holders : holder[h] # c
      BY <1>5, HeldIsCounted, Numbers, <1>4 DEF IInv, StoreInv
    <3>2. \A t \in Snapshots \ {c} : GenerationsOf(t)' = GenerationsOf(t)
      BY <1>6 DEF GenerationsOf
    <3>3. \A t \in Snapshots : LeasesOf(t)' = LeasesOf(t)
      BY <1>2 DEF LeasesOf
    <3>4. \A h \in Holders : holder[h] # 0 => GenerationsOf(holder[h])' = GenerationsOf(holder[h])
      <4> SUFFICES ASSUME NEW h \in Holders, holder[h] # 0
                   PROVE  GenerationsOf(holder[h])' = GenerationsOf(holder[h])
        OBVIOUS
      <4>1. holder'[h] = holder[h] /\ gens'[holder[h]] = gens[holder[h]]
        BY <1>2, <1>6, <3>1, Numbers DEF IInv, TypeOK
      <4> QED BY <4>1 DEF GenerationsOf
    <3>5. \A g \in Generations : UsersOf(g)' = UsersOf(g)
      BY <1>2, <3>4 DEF UsersOf
    <3>6. CountsMatch' <=> /\ \A t \in Snapshots : leases'[t] = Cardinality(LeasesOf(t)')
                           /\ \A g \in Generations : uses'[g] = Cardinality(UsersOf(g)')
      BY DEF CountsMatch, LeasesOf, UsersOf
    <3> QED BY <1>2, <3>3, <3>5, <3>6, CountSets DEF IInv, StoreInv
  <2>2. GensRight'
    <3>1. \A t \in Snapshots : t > c => t > made
      BY <1>4, Numbers
    <3>2. \A t \in Snapshots : t > made' => state'[t] = "compiled"
      BY <1>1, <1>2, <3>1 DEF IInv, StoreInv, GensRight
    <3>3. ASSUME NEW q \in Plugins
          PROVE  gens'[c][q] <= c /\ (gens'[c][q] \notin {0, c} => state[gens'[c][q]] # "compiled")
      <4>1. CASE q = p
        BY <1>4, <1>6, <1>7, <4>1, Numbers
      <4>2. CASE q # p
        <5>1. gens'[c][q] = gens[current][q] /\ gens[current][q] <= current
          BY <1>4, <1>7, <4>2 DEF IInv, StoreInv, GensRight
        <5>2. gens[current][q] \notin {0, current} => state[gens[current][q]] # "compiled"
          BY <1>4 DEF IInv, StoreInv, GensRight
        <5>3. state[current] = "committed"
          BY DEF IInv, Pointers
        <5>4. gens[current][q] \in Nat /\ current \in Nat /\ c \in Nat /\ made \in Nat
          BY <1>4, Numbers DEF IInv, TypeOK
        <5>5. gens'[c][q] <= c
          BY <1>4, <1>5, <5>1, <5>4
        <5> QED BY <5>1, <5>2, <5>3, <5>5
      <4> QED BY <4>1, <4>2
    <3>4. ASSUME NEW t \in Snapshots \ {c}, NEW q \in Plugins
          PROVE  gens'[t][q] <= t /\ (gens'[t][q] \notin {0, t} => state[gens'[t][q]] # "compiled")
      <4>1. gens'[t] = gens[t]
        BY <1>6
      <4> QED BY <4>1 DEF IInv, StoreInv, GensRight
    <3>5. \A t \in Snapshots, q \in Plugins : begun[<<q, t>>] # 0 => state[t] # "compiled"
      BY DEF IInv, StoreInv, GensRight
    <3>6. \A t \in Snapshots, q \in Plugins :
             gens'[t][q] <= t /\ (gens'[t][q] \notin {0, t} => state[gens'[t][q]] # "compiled")
      BY <3>3, <3>4
    <3> QED BY <1>2, <3>2, <3>5, <3>6 DEF GensRight
  <2>3. Drains' /\ Waiting'
    BY <1>2, <1>5, <1>6, Numbers DEF IInv, StoreInv, Drains, Waiting
  <2>4. LiveRight'
    BY <1>2, <1>5, <1>6 DEF IInv, StoreInv, LiveRight, Live
  <2>5. EveryGenerationOwed'
    <3> SUFFICES ASSUME NEW r \in Snapshots, NEW q \in Plugins, state[r] # "compiled",
                        gens'[r][q] # 0, <<q, gens'[r][q]>> \notin closed
                 PROVE  \E t \in Snapshots : gens'[t][q] = gens'[r][q] /\ (hand[t] = q \/ Owes(t, q))
      BY <1>2 DEF EveryGenerationOwed, Owes, Live
    <3>1. gens'[r] = gens[r]
      BY <1>5, <1>6
    <3>2. PICK t \in Snapshots : gens[t][q] = gens[r][q] /\ (hand[t] = q \/ Owes(t, q))
      BY <3>1 DEF IInv, StoreInv, EveryGenerationOwed
    <3>3. t # c
      BY <1>5, <3>2, Numbers DEF Owes
    <3> QED BY <1>6, <3>1, <3>2, <3>3
  <2>6. JournalRight' /\ JournalFollowsDrain'
    BY <1>2 DEF IInv, StoreInv, JournalRight, JournalFollowsDrain
  <2> QED BY <2>1, <2>2, <2>3, <2>4, <2>5, <2>6 DEF StoreInv
<1>11. Pointers' /\ ReadyRight'
  <2>1. Pointers'
    BY <1>1, <1>2 DEF IInv, Pointers
  <2>2. ReadyRight'
    BY <1>1, <1>2 DEF ReadyRight
  <2> QED BY <2>1, <2>2
<1>12. Publishing'
  <2>1. kind = "stage" => ~e
    BY <1>1 DEF EndpointChange
  <2>2. gens'[c] = [gens'[current] EXCEPT ![p] = k]
    BY <1>4, <1>5, <1>6
  <2>3. current < c
    BY <1>4, <1>5, Numbers
  <2>4. /\ made' = c /\ ready' = 0 /\ current' = current /\ state'[c] = "compiled"
        /\ op'.at # "validate"
    BY <1>1, <1>2, <1>3, <1>5
  <2> QED BY <1>3, <2>1, <2>2, <2>3, <2>4 DEF Publishing, Changes
<1>13. Promotes' /\ Finishing' /\ Removing' /\ RemovedAreClosed'
  BY <1>3 DEF Promotes, Finishing, Removing, RemovedAreClosed
<1>14. Dropping'
  <2>1. \A t \in Snapshots : ~(state[t] = "aborted" /\ leases[t] > 0)
    BY <1>1 DEF Dropping, IInv
  <2> QED BY <1>2, <1>3, <2>1 DEF Dropping
<1>15. Paused'
  <2>1. accepting[current]
    BY <1>1 DEF IInv, Paused
  <2> QED BY <1>1, <1>2, <1>3, <1>4, <2>1 DEF Paused
<1>16. TrackedRight'
  <2> SUFFICES ASSUME NEW t \in Snapshots, NEW q \in Plugins, Live(t), gens'[t][q] # 0
               PROVE  \/ <<q, gens'[t][q]>> \in draining
                      \/ gens'[t][q] \in {gens'[current][q], gens'[latest][q]}
    BY <1>2 DEF TrackedRight, Live
  <2>1. gens'[t] = gens[t] /\ gens'[current] = gens[current] /\ gens'[latest] = gens[latest]
    BY <1>4, <1>5, <1>6
  <2> QED BY <1>1, <2>1 DEF IInv, TrackedRight
<1> QED BY <1>8, <1>9, <1>10, <1>11, <1>12, <1>13, <1>14, <1>15, <1>16 DEF IInv
-----------------------------------------------------------------------------
\* Where a staged candidate stands while no promotion of it is at its end.
LEMMA ReadyStands ==
  ASSUME IInv, ready # 0, ~Promoting
  PROVE  /\ ready \in Snapshots /\ current \in Snapshots /\ ready = made
         /\ current < ready /\ current # ready /\ previous[ready] = current
         /\ state[current] = "committed" /\ state[ready] \in {"committed", "aborted", "gone"}
         /\ latest \in {current, ready}
         /\ latest = ready <=> state[ready] = "committed"
         /\ \E p \in Plugins : Changes(ready, p, ready)
         /\ drain[current] = "no" /\ hand[current] = 0
         /\ phase[ready] \notin {"complete", "draining"}
<1>1. /\ ready \in Snapshots /\ current \in Snapshots /\ ready = made
      /\ current < ready /\ previous[ready] = current
      /\ state[current] = "committed" /\ state[ready] \in {"committed", "aborted", "gone"}
      /\ latest \in {current, ready}
      /\ latest = ready <=> state[ready] = "committed"
      /\ \E p \in Plugins : Changes(ready, p, ready)
  BY Numbers DEF IInv, TypeOK, ReadyRight, Pointers
<1>2. current # ready
  BY <1>1, Numbers
<1>3. drain[current] = "no" /\ hand[current] = 0
  BY <1>1 DEF IInv, StoreInv, Drains
<1>4. phase[ready] \notin {"complete", "draining"}
  BY <1>1 DEF IInv, StoreInv, JournalFollowsDrain
<1> QED BY <1>1, <1>2, <1>3, <1>4

\* A promotion begins, and seals what will change hands.
LEMMA PromoteKeeps ==
  ASSUME IInv, NEW e \in BOOLEAN, Promote(e)
  PROVE  IInv'
<1> PICK p : p = PluginOf(ready)
  OBVIOUS
<1>1. /\ op.at = "idle" /\ ready # 0 /\ latest = ready
      /\ accepting' = [t \in Snapshots |->
                         t \notin ({ready} \cup (IF e THEN {current} ELSE {})) /\ accepting[t]]
      /\ op' = Procedure(IF e THEN "quiesce" ELSE "seal", "promote", ready, p, e)
  BY DEF Promote, Pause
<1>2. UNCHANGED <<made, gens, state, leases, uses, current, latest, holder, want, asleep, drain,
                  hand, failed, begun, closed, draining, previous, phase, tx, early, ready, mishaps>>
  BY DEF Promote, counts, readers, drains, journal
<1>3. /\ op'.at = (IF e THEN "quiesce" ELSE "seal") /\ op'.kind = "promote" /\ op'.cand = ready
      /\ op'.plugin = p /\ op'.endpoint = e /\ op'.awaits = {} /\ op'.left = {}
  BY <1>1, ProcedureIs
<1>4. ~Promoting
  BY <1>1 DEF Promoting
<1>5. /\ ready \in Snapshots /\ current \in Snapshots /\ current # ready /\ current < ready
      /\ accepting[current]
  BY <1>1, <1>4, ReadyStands DEF IInv, Paused
<1>6. p \in Plugins /\ Changes(ready, p, ready)
  <2>1. PICK q \in Plugins : Changes(ready, q, ready)
    BY <1>1, <1>4, ReadyStands
  <2>2. \A r \in Plugins : gens[ready][r] = IF r = q THEN ready ELSE gens[current][r]
    BY <1>5, <2>1 DEF Changes, IInv, TypeOK
  <2>3. \A r \in Plugins : gens[current][r] <= current /\ gens[current][r] \in Nat
    <3>1. \A r \in Plugins : gens[current][r] <= current
      BY <1>5 DEF IInv, StoreInv, GensRight
    <3>2. \A r \in Plugins : gens[current][r] \in Nat
      BY <1>5, Numbers DEF IInv, TypeOK
    <3> QED BY <3>1, <3>2
  <2>4. \A r \in Plugins : gens[current][r] # ready
    BY <1>5, <2>3, Numbers
  <2>5. p \in Plugins /\ gens[ready][p] = ready
    BY <2>1, <2>2 DEF PluginOf
  <2> QED BY <2>1, <2>2, <2>4, <2>5
<1>7. OpTyped'
  <2>1. /\ (IF e THEN "quiesce" ELSE "seal") \in Steps /\ "promote" \in Kinds
        /\ ready \in 0 .. MaxSnapshots /\ p \in 0 .. PluginCount
    BY <1>5, <1>6, Numbers DEF Steps, Kinds
  <2>2. Procedure(IF e THEN "quiesce" ELSE "seal", "promote", ready, p, e) \in Procedures
    BY <2>1, ProcedureTyped
  <2> QED BY <1>1, <2>2 DEF OpTyped
<1>8. TypeOK'
  <2>1. accepting' \in [Snapshots -> BOOLEAN]
    BY <1>1 DEF IInv, TypeOK
  <2>2. op'.cand \in 0 .. MaxSnapshots /\ op'.plugin \in 0 .. PluginCount
        /\ op'.awaits \subseteq Snapshots /\ op'.left \subseteq Snapshots
    BY <1>7 DEF OpTyped, Procedures
  <2> QED BY <1>2, <2>1, <2>2 DEF IInv, TypeOK
<1>9. StoreInv'
  BY <1>2, StoreFrame DEF IInv
<1>10. Pointers' /\ ReadyRight'
  <2>1. Pointers'
    BY <1>1, <1>2 DEF IInv, Pointers
  <2> QED BY <1>2, <1>4, <2>1 DEF IInv, ReadyRight, Changes
<1>11. Promotes'
  <2>1. Changes(ready, p, ready)'
    <3>1. p' = p
      OBVIOUS
    <3> QED BY <1>2, <1>6 DEF Changes
  <2> QED BY <1>1, <1>2, <1>3, <1>6 DEF Promotes, Changes
<1>12. Publishing' /\ Finishing' /\ Removing' /\ RemovedAreClosed'
  BY <1>3 DEF Publishing, Preparing, Finishing, Removing, RemovedAreClosed
<1>13. Dropping'
  <2>1. \A t \in Snapshots : ~(state[t] = "aborted" /\ leases[t] > 0)
    BY <1>1 DEF Dropping, IInv
  <2> QED BY <1>2, <1>3, <2>1 DEF Dropping
<1>14. Paused'
  BY <1>1, <1>2, <1>3, <1>5 DEF Paused
<1>15. TrackedRight'
  BY <1>1, <1>2 DEF IInv, TrackedRight, Live
<1> QED BY <1>7, <1>8, <1>9, <1>10, <1>11, <1>12, <1>13, <1>14, <1>15 DEF IInv

\* A promotion fails before promote_latest.
LEMMA PromotionFailsKeeps ==
  ASSUME IInv, PromotionFails
  PROVE  IInv'
<1>1. /\ op.kind = "promote" /\ op.at \in {"quiesce", "seal", "switch"} /\ asleep' = {}
      /\ accepting' = [t \in Snapshots |->
                  t \in ({op.cand} \cup (IF op.endpoint THEN {current} ELSE {})) \/ accepting[t]]
      /\ phase' = phase \/ phase' = [phase EXCEPT ![op.cand] = "moving"]
      /\ op' = Idle \/ op' = [op EXCEPT !.at = "giveup"]
  BY DEF PromotionFails, Resume, NotifyAll, Goto, Raise
<1>2. UNCHANGED <<made, gens, state, current, latest, leases, uses, holder, want, drain, hand,
                  failed, begun, closed, draining, previous, tx, early, ready>>
  BY DEF PromotionFails, counts, readers, drains
<1>3. /\ op.cand = ready /\ ready # 0 /\ latest = ready /\ ~Promoting
      /\ op.at = "quiesce" => op.endpoint
      /\ op.at \in {"seal", "switch"} /\ ~op.endpoint => accepting[current]
  BY <1>1 DEF IInv, Promotes, Promoting, Paused
<1>4. /\ ready \in Snapshots /\ current \in Snapshots /\ state[ready] = "committed"
      /\ phase[ready] \notin {"complete", "draining"}
  BY <1>3, ReadyStands
<1>5. /\ op'.at \in {"idle", "giveup"} /\ op' \in Procedures
      /\ \/ /\ op'.at = "idle" /\ op'.kind = "none"
         \/ /\ op'.at = "giveup" /\ op'.kind = "promote" /\ op'.cand = ready
            /\ op'.plugin = op.plugin
  <2>1. CASE op' = Idle
    <3>1. "idle" \in Steps /\ "none" \in Kinds /\ 0 \in 0 .. MaxSnapshots /\ 0 \in 0 .. PluginCount
      BY Numbers DEF Steps, Kinds
    <3>2. Idle \in Procedures
      BY <3>1, ProcedureTyped DEF Idle
    <3> QED BY <2>1, <3>2 DEF Idle, Procedure
  <2>2. CASE op' = [op EXCEPT !.at = "giveup"]
    BY <1>1, <1>3, <2>2 DEF IInv, OpTyped, Procedures, Steps
  <2> QED BY <1>1, <2>1, <2>2
<1>6. OpTyped'
  BY <1>5 DEF OpTyped
<1>7. accepting'[current] /\ accepting'[latest]
  BY <1>1, <1>3, <1>4
<1>8. TypeOK'
  <2>1. accepting' \in [Snapshots -> BOOLEAN]
    BY <1>1 DEF IInv, TypeOK
  <2>2. phase' \in [Snapshots -> {"none", "validating", "ready", "moving", "draining",
                                  "complete", "discarding", "aborted"}]
    BY <1>1, <1>3, <1>4 DEF IInv, TypeOK
  <2>3. mishaps' \in 0 .. MaxMishaps /\ asleep' \subseteq Holders \cup {Publisher}
    BY <1>1, CountAssumption DEF PromotionFails, Mishap, IInv, TypeOK
  <2>4. op'.cand \in 0 .. MaxSnapshots /\ op'.plugin \in 0 .. PluginCount
        /\ op'.awaits \subseteq Snapshots /\ op'.left \subseteq Snapshots
    BY <1>5 DEF Procedures
  <2> QED BY <1>2, <2>1, <2>2, <2>3, <2>4 DEF IInv, TypeOK
<1>9. StoreInv'
  <2>1. CountsMatch' /\ Waiting'
    BY <1>2, CountsFrame DEF IInv, StoreInv, Waiting
  <2>2. GensRight' /\ Drains' /\ LiveRight'
    BY <1>2 DEF IInv, StoreInv, GensRight, Drains, LiveRight, Live
  <2>3. EveryGenerationOwed'
    BY <1>2, OwedFrame DEF IInv, StoreInv, Owes, Live
  <2>4. /\ \A t \in Snapshots \ {ready} : phase'[t] = phase[t]
        /\ phase'[ready] \notin {"complete", "draining"}
    BY <1>1, <1>3, <1>4 DEF IInv, TypeOK
  <2>5. JournalRight' /\ JournalFollowsDrain'
    <3>1. TypeOK /\ JournalRight /\ JournalFollowsDrain
      BY DEF IInv, StoreInv
    <3> QED BY <1>2, <1>4, <2>4, <3>1, JournalFrame
  <2> QED BY <2>1, <2>2, <2>3, <2>5 DEF StoreInv
<1>10. Pointers' /\ ReadyRight'
  <2>1. Pointers'
    BY <1>1, <1>2 DEF IInv, Pointers
  <2> QED BY <1>2, <1>3, <2>1 DEF IInv, ReadyRight, Changes
<1>11. Promotes'
  <2>1. op.plugin \in Plugins /\ Changes(ready, op.plugin, ready)
    BY <1>1 DEF IInv, Promotes
  <2> QED BY <1>2, <1>3, <1>5, <2>1 DEF Promotes, Changes
<1>12. Publishing' /\ Finishing' /\ Removing' /\ RemovedAreClosed'
  BY <1>5 DEF Publishing, Preparing, Finishing, Removing, RemovedAreClosed
<1>13. Dropping'
  <2>1. \A t \in Snapshots : ~(state[t] = "aborted" /\ leases[t] > 0)
    BY <1>1 DEF Dropping, IInv
  <2> QED BY <1>2, <1>5, <2>1 DEF Dropping
<1>14. Paused'
  BY <1>2, <1>5, <1>7 DEF Paused
<1>15. TrackedRight'
  BY <1>1, <1>2 DEF IInv, TrackedRight, Live
<1> QED BY <1>6, <1>8, <1>9, <1>10, <1>11, <1>12, <1>13, <1>14, <1>15 DEF IInv

\* promote_latest: the stable snapshot retires.
LEMMA PromotedKeeps ==
  ASSUME IInv, Promoted
  PROVE  IInv'
<1> PICK c : c = op.cand
  OBVIOUS
<1>1. /\ op.at = "switch" /\ op.kind = "promote"
      /\ op' = [op EXCEPT !.at = "finish"]
      /\ state' = [state EXCEPT ![current] = "retired"]
      /\ accepting' = [accepting EXCEPT ![c] = TRUE, ![current] = FALSE]
      /\ current' = c
      /\ draining' = Retired(current) /\ Schedule({current}, state', leases) /\ asleep' = {}
      /\ phase' = [phase EXCEPT ![c] = "moving"]
      /\ tx' = [tx EXCEPT ![current] = c]
  BY DEF Promoted, Goto, NotifyAll
<1>2. UNCHANGED <<made, gens, latest, leases, uses, holder, want, hand, begun, closed, previous,
                  early, ready, mishaps>>
  BY DEF Promoted, counts, readers
<1>3. /\ c = ready /\ ready # 0 /\ latest = c /\ ~Promoting
      /\ op.plugin \in Plugins /\ Changes(c, op.plugin, c)
  BY <1>1 DEF IInv, Promotes, Promoting
<1>4. /\ c \in Snapshots /\ c # current /\ current \in Snapshots /\ c = made
      /\ state[c] = "committed" /\ state[current] = "committed"
      /\ previous[c] = current /\ drain[current] = "no" /\ hand[current] = 0
  BY <1>3, ReadyStands
<1>5. /\ op'.at = "finish" /\ op'.kind = op.kind /\ op'.cand = c /\ op'.plugin = op.plugin
  BY <1>1 DEF IInv, OpTyped, Procedures
<1>6. \A t \in Snapshots :
        /\ state'[t] = IF t = current THEN "retired" ELSE state[t]
        /\ accepting'[t] = IF t = current THEN FALSE ELSE IF t = c THEN TRUE ELSE accepting[t]
  BY <1>1, <1>4 DEF IInv, TypeOK
<1>7. \A t \in Snapshots :
        /\ phase'[t] = IF t = c THEN "moving" ELSE phase[t]
        /\ tx'[t] = IF t = current THEN c ELSE tx[t]
  BY <1>1, <1>4 DEF IInv, TypeOK
<1>8. \A t \in Snapshots : Live(t)' => Live(t)
  BY <1>2, <1>4, <1>6 DEF Live
<1>9. /\ drain' \in [Snapshots -> {"no", "made", "runs", "stopping", "lost"}]
      /\ failed' \subseteq failed
      /\ \A t \in Snapshots :
              \/ drain'[t] = drain[t] /\ (t \in failed' <=> t \in failed)
              \/ /\ drain[t] \in {"no", "lost"} /\ drain'[t] = "made" /\ t \notin failed'
                 /\ state'[t] \in {"retired", "aborted"} /\ leases[t] = 0
  <2>1. TypeOK /\ {current} \in SUBSET Snapshots
    BY <1>4 DEF IInv
  <2>2. PICK st : st = state'
    OBVIOUS
  <2>3. Schedule({current}, st, leases)
    BY <1>1, <2>2
  <2> QED BY <2>1, <2>2, <2>3, Scheduled
<1>10. OpTyped'
  BY <1>1 DEF IInv, OpTyped, Procedures, Steps
<1>11. TypeOK'
  <2>1. draining' \subseteq Generations
    <3>1. gens[current][op.plugin] # 0 => gens[current][op.plugin] \in Snapshots
      BY <1>3, <1>4, Numbers DEF IInv, TypeOK
    <3> QED BY <1>1, <1>3, <3>1 DEF Retired, IInv, TypeOK, Generations
  <2>2. /\ phase' \in [Snapshots -> {"none", "validating", "ready", "moving", "draining",
                                     "complete", "discarding", "aborted"}]
        /\ tx' \in [Snapshots -> 0 .. MaxSnapshots]
    <3>1. c \in 0 .. MaxSnapshots
      BY <1>4, Numbers
    <3> QED BY <1>1, <1>4, <3>1 DEF IInv, TypeOK
  <2>3. /\ state' \in [Snapshots -> {"compiled", "validating", "committed", "retired",
                                     "aborted", "gone"}]
        /\ accepting' \in [Snapshots -> BOOLEAN]
    BY <1>1, <1>4 DEF IInv, TypeOK
  <2>4. op'.cand \in 0 .. MaxSnapshots /\ op'.plugin \in 0 .. PluginCount
        /\ op'.awaits \subseteq Snapshots /\ op'.left \subseteq Snapshots
    BY <1>10 DEF OpTyped, Procedures
  <2>5. drain' \in [Snapshots -> {"no", "made", "runs", "stopping", "lost"}] /\ failed' \subseteq Snapshots
    BY <1>9 DEF IInv, TypeOK
  <2>6. current' \in Snapshots /\ asleep' \subseteq Holders \cup {Publisher}
    BY <1>1, <1>4
  <2> QED BY <1>2, <2>1, <2>2, <2>3, <2>4, <2>5, <2>6 DEF IInv, TypeOK
<1>12. StoreInv'
  <2>1. CountsMatch' /\ Waiting'
    BY <1>2, CountsFrame DEF IInv, StoreInv, Waiting
  <2>2. GensRight'
    <3>1. \A t \in Snapshots : /\ state'[t] = "compiled" => state[t] = "compiled"
                               /\ t > made => state'[t] = "compiled"
      <4>1. \A t \in Snapshots : t > made => state[t] = "compiled"
        BY DEF IInv, StoreInv, GensRight
      <4> QED BY <1>4, <1>6, <4>1
    <3> QED BY <1>2, <3>1, GensFrame DEF IInv, StoreInv
  <2>3. Drains'
    <3>1. \A t \in Snapshots : hand[t] # 0 => drain'[t] = drain[t]
      BY <1>9 DEF IInv, StoreInv, Drains
    <3>2. \A t \in Snapshots : state[t] \in {"retired", "aborted"} => state'[t] = state[t]
      BY <1>4, <1>6
    <3> QED BY <1>2, <1>6, <1>9, <3>1, <3>2 DEF IInv, StoreInv, Drains
  <2>4. LiveRight'
    <3>1. \A t \in Snapshots : leases'[t] > 0 => state'[t] \in {"committed", "retired", "aborted"}
      BY <1>2, <1>4, <1>6 DEF IInv, StoreInv, LiveRight
    <3> QED BY <1>2, <1>8, <3>1, LiveFrame DEF IInv, StoreInv
  <2>5. EveryGenerationOwed'
    <3>1. \A t \in Snapshots : state'[t] # "compiled" => state[t] # "compiled"
      BY <1>4, <1>6
    <3>2. \A t \in Snapshots, p \in Plugins : Owes(t, p) => Owes(t, p)'
      <4>1. \A t \in Snapshots : hand'[t] = hand[t] /\ (t # current => state'[t] = state[t])
                                 /\ leases'[t] = leases[t]
        BY <1>2, <1>6
      <4>2. \A p \in Plugins : hand[current] < p
        BY <1>4, Numbers
      <4> QED BY <1>6, <1>4, <4>1, <4>2 DEF Owes, Live
    <3> QED BY <1>2, <3>1, <3>2, OwedFrame DEF IInv, StoreInv
  <2>6. \A t \in Snapshots : phase'[t] \in {"complete", "draining"} =>
           /\ t # c /\ phase'[t] = phase[t] /\ previous[t] \in Snapshots \ {current}
    <3>1. \A t \in Snapshots : phase[t] \in {"complete", "draining"} =>
             previous[t] \in Snapshots /\ state[previous[t]] \in {"gone", "retired"}
      BY Numbers DEF IInv, StoreInv, JournalRight, JournalFollowsDrain, TypeOK
    <3> QED BY <1>4, <1>7, <3>1
  <2>7. JournalRight'
    <3>1. \A t \in Snapshots : tx[t] # 0 => /\ tx[t] \in Snapshots /\ previous[tx[t]] = t
                                            /\ state[tx[t]] # "compiled"
      BY Numbers DEF IInv, StoreInv, JournalRight, TypeOK
    <3>2. \A t \in Snapshots : state'[t] = "compiled" => state[t] = "compiled"
      BY <1>6
    <3>3. \A t \in Snapshots : tx'[t] # 0 => /\ previous[tx'[t]] = t /\ state'[tx'[t]] # "compiled"
      BY <1>4, <1>7, <3>1, <3>2
    <3>4. \A t \in Snapshots : phase'[t] # "none" => state'[t] # "compiled"
      <4>1. state'[c] # "compiled"
        BY <1>4, <1>6
      <4>2. \A t \in Snapshots \ {c} : phase'[t] # "none" => state[t] # "compiled"
        BY <1>7 DEF IInv, StoreInv, JournalRight
      <4> QED BY <3>2, <4>1, <4>2
    <3>5. \A t \in early : state'[t] = "gone"
      <4>1. \A t \in early : t \in Snapshots /\ state[t] = "gone"
        BY DEF IInv, StoreInv, JournalRight, TypeOK
      <4> QED BY <1>4, <1>6, <4>1
    <3>6. \A t \in Snapshots : phase'[t] \in {"complete", "draining"} => previous[t] # 0
      BY <2>6, Numbers
    <3> QED BY <1>2, <3>3, <3>4, <3>5, <3>6 DEF JournalRight
  <2>8. JournalFollowsDrain'
    <3> SUFFICES ASSUME NEW t \in Snapshots, phase'[t] \in {"complete", "draining"}
                 PROVE  /\ phase'[t] = "complete" => state'[previous[t]] = "gone"
                        /\ phase'[t] = "draining" => /\ state'[previous[t]] = "retired"
                                                     /\ tx'[previous[t]] = t
      BY <1>2 DEF JournalFollowsDrain
    <3>1. phase'[t] = phase[t] /\ previous[t] \in Snapshots \ {current}
      BY <2>6
    <3>2. state'[previous[t]] = state[previous[t]] /\ tx'[previous[t]] = tx[previous[t]]
      BY <1>6, <1>7, <3>1
    <3> QED BY <3>1, <3>2 DEF IInv, StoreInv, JournalFollowsDrain
  <2> QED BY <2>1, <2>2, <2>3, <2>4, <2>5, <2>7, <2>8 DEF StoreInv
<1>13. Pointers'
  <2>1. \A t \in Snapshots : state[t] # "validating"
    BY <1>1 DEF IInv, Pointers
  <2>2. \A t \in Snapshots : state[t] = "committed" => t \in {current, c}
    BY <1>3 DEF IInv, Pointers
  <2>3. /\ state'[c] = "committed"
        /\ \A t \in Snapshots : (state'[t] = "committed" => t = c) /\ state'[t] # "validating"
    BY <1>4, <1>6, <2>1, <2>2
  <2>4. current' = c /\ latest' = c /\ ready' = c /\ ready' = made' /\ ready' # 0
    BY <1>1, <1>2, <1>3, <1>4
  <2> QED BY <2>3, <2>4 DEF Pointers
<1>14. ReadyRight' /\ Publishing' /\ Promotes' /\ Removing' /\ RemovedAreClosed'
  BY <1>1, <1>5 DEF ReadyRight, Promoting, Publishing, Preparing, Promotes, Removing, RemovedAreClosed
<1>15. Finishing'
  <2>1. current \notin early /\ state'[current] = "retired" /\ tx'[current] = c /\ phase'[c] = "moving"
    BY <1>4, <1>6, <1>7 DEF IInv, StoreInv, JournalRight
  <2>2. /\ current' = c /\ latest' = c /\ previous' = previous /\ ready' = c /\ gens' = gens
        /\ early' = early
    BY <1>1, <1>2, <1>3
  <2> QED BY <1>1, <1>3, <1>4, <1>5, <2>1, <2>2 DEF Finishing
<1>16. Dropping'
  <2>1. \A t \in Snapshots : ~(state[t] = "aborted" /\ leases[t] > 0)
    BY <1>1 DEF Dropping, IInv
  <2>2. \A t \in Snapshots : state'[t] = "aborted" => state[t] = "aborted"
    BY <1>6
  <2> QED BY <1>2, <1>5, <2>1, <2>2 DEF Dropping
<1>17. Paused'
  BY <1>1, <1>2, <1>3, <1>4, <1>5, <1>6 DEF Paused
<1>18. TrackedRight'
  <2> SUFFICES ASSUME NEW t \in Snapshots, NEW p \in Plugins, Live(t), gens[t][p] # 0
               PROVE  \/ <<p, gens[t][p]>> \in draining'
                      \/ gens[t][p] = gens[c][p]
    BY <1>1, <1>2, <1>8 DEF TrackedRight
  <2>1. \/ <<p, gens[t][p]>> \in draining
        \/ gens[t][p] = gens[current][p]
        \/ gens[t][p] = gens[c][p]
    BY <1>1, <1>3 DEF IInv, TrackedRight
  <2>2. draining \subseteq draining'
    BY <1>1 DEF Retired
  <2>3. p # op.plugin => gens[c][p] = gens[current][p]
    BY <1>3, <1>4 DEF Changes, IInv, TypeOK
  <2>4. p = op.plugin /\ gens[t][p] = gens[current][p] => <<p, gens[t][p]>> \in draining'
    BY <1>1 DEF Retired
  <2> QED BY <2>1, <2>2, <2>3, <2>4
<1> QED BY <1>10, <1>11, <1>12, <1>13, <1>14, <1>15, <1>16, <1>17, <1>18 DEF IInv
-----------------------------------------------------------------------------
\* The end of a publication, which may go on to wait for a removal.
LEMMA FinishKeeps ==
  ASSUME IInv, Finish
  PROVE  IInv'
<1> PICK c, s : c = op.cand /\ s = previous[op.cand]
  OBVIOUS
<1>1. /\ op.at = "finish" /\ op.kind \in {"replace", "disable", "remove", "promote"}
      /\ op.plugin \in Plugins /\ c = current /\ latest = current /\ c \in Snapshots
      /\ s = previous[c] /\ s \in Snapshots
      /\ ready = IF op.kind = "promote" THEN current ELSE 0
      /\ op.kind = "remove" => gens[current][op.plugin] = 0
      /\ accepting[current]
  BY DEF Finish, IInv, Finishing, Paused, TypeOK
<1>2. /\ ready' = (IF op.kind = "promote" THEN 0 ELSE ready) /\ ready' = 0
      /\ op.kind \in {"replace", "promote"} => Track(c)
      /\ op.kind \notin {"replace", "promote"} => UNCHANGED <<phase, tx, early>>
      /\ \/ op' = Idle
         \/ op' = [Idle EXCEPT !.at = "reconciled"]
         \/ /\ op.kind = "remove" /\ Tracked(op.plugin) # {}
            /\ op' = [op EXCEPT !.at = "uses", !.left = Tracked(op.plugin)]
  BY <1>1 DEF Finish
<1>3. UNCHANGED <<made, gens, state, accepting, current, latest, leases, uses, holder, want, asleep,
                  drain, hand, failed, begun, closed, draining, previous, mishaps>>
  BY DEF Finish, store, published, counts, readers, drains
<1>4. op.kind \in {"replace", "promote"} =>
        \/ s \in early /\ state[s] = "gone"
        \/ s \notin early /\ state[s] = "retired" /\ tx[s] = c
  BY <1>1 DEF IInv, Finishing
<1>5. /\ \A t \in Snapshots : tx'[t] = tx[t]
      /\ early' \subseteq early
      /\ \A t \in Snapshots : \/ phase'[t] = phase[t]
                              \/ /\ t = c /\ op.kind \in {"replace", "promote"}
                                 /\ \/ phase'[t] = "complete" /\ state[s] = "gone"
                                    \/ phase'[t] = "draining" /\ state[s] = "retired" /\ tx[s] = c
  <2>1. CASE op.kind \in {"replace", "promote"}
    BY <1>1, <1>2, <1>4, <2>1 DEF Track, IInv, TypeOK
  <2>2. CASE op.kind \notin {"replace", "promote"}
    BY <1>2, <2>2
  <2> QED BY <2>1, <2>2
<1>6. /\ op'.at \in {"idle", "reconciled", "uses"} /\ op' \in Procedures
      /\ op'.at \in {"idle", "reconciled"} => op'.kind = "none"
      /\ op'.at = "uses" => /\ op'.kind = "remove" /\ op.kind = "remove" /\ op'.plugin = op.plugin
                            /\ op'.left = Tracked(op.plugin) /\ Tracked(op.plugin) # {}
  <2>1. "idle" \in Steps /\ "none" \in Kinds /\ 0 \in 0 .. MaxSnapshots /\ 0 \in 0 .. PluginCount
        /\ "reconciled" \in Steps
    BY Numbers DEF Steps, Kinds
  <2>2. Procedure("idle", "none", 0, 0, FALSE) \in Procedures
        /\ Procedure("reconciled", "none", 0, 0, FALSE) \in Procedures
    BY <2>1, ProcedureTyped
  <2>3. CASE op' = Idle
    BY <2>2, <2>3 DEF Idle, Procedure
  <2>4. CASE op' = [Idle EXCEPT !.at = "reconciled"]
    BY <2>2, <2>4 DEF Idle, Procedure
  <2>5. CASE op.kind = "remove" /\ Tracked(op.plugin) # {}
             /\ op' = [op EXCEPT !.at = "uses", !.left = Tracked(op.plugin)]
    <3>1. Tracked(op.plugin) \subseteq Snapshots
      BY DEF Tracked
    <3> QED BY <2>5, <3>1 DEF IInv, OpTyped, Procedures, Steps
  <2> QED BY <1>2, <2>3, <2>4, <2>5
<1>7. OpTyped'
  BY <1>6 DEF OpTyped
<1>8. TypeOK'
  <2>1. /\ phase' \in [Snapshots -> {"none", "validating", "ready", "moving", "draining",
                                     "complete", "discarding", "aborted"}]
        /\ tx' \in [Snapshots -> 0 .. MaxSnapshots] /\ early' \subseteq Snapshots
    <3>1. CASE op.kind \in {"replace", "promote"}
      <4>1. c \in 0 .. MaxSnapshots
        BY <1>1, Numbers
      <4>2. /\ phase' = [phase EXCEPT ![c] = IF previous[c] \in early THEN "complete" ELSE "draining"]
            /\ tx' = tx \/ tx' = [tx EXCEPT ![previous[c]] = c]
            /\ early' = early \ {previous[c]}
        BY <1>2, <3>1 DEF Track
      <4>3. phase' \in [Snapshots -> {"none", "validating", "ready", "moving", "draining",
                                     "complete", "discarding", "aborted"}]
        BY <1>1, <4>2 DEF IInv, TypeOK
      <4>4. tx' \in [Snapshots -> 0 .. MaxSnapshots]
        BY <1>1, <4>1, <4>2 DEF IInv, TypeOK
      <4>5. early' \subseteq Snapshots
        BY <4>2 DEF IInv, TypeOK
      <4> QED BY <4>3, <4>4, <4>5
    <3>2. CASE op.kind \notin {"replace", "promote"}
      BY <1>2, <3>2 DEF IInv, TypeOK
    <3> QED BY <3>1, <3>2
  <2>2. op'.cand \in 0 .. MaxSnapshots /\ op'.plugin \in 0 .. PluginCount
        /\ op'.awaits \subseteq Snapshots /\ op'.left \subseteq Snapshots
    BY <1>6 DEF Procedures
  <2>3. ready' \in 0 .. MaxSnapshots
    BY <1>2, Numbers
  <2> QED BY <1>3, <2>1, <2>2, <2>3 DEF IInv, TypeOK
<1>9. StoreInv'
  <2>1. CountsMatch' /\ Waiting'
    BY <1>3, CountsFrame DEF IInv, StoreInv, Waiting
  <2>2. GensRight' /\ Drains' /\ LiveRight'
    BY <1>3 DEF IInv, StoreInv, GensRight, Drains, LiveRight, Live
  <2>3. EveryGenerationOwed'
    BY <1>3, OwedFrame DEF IInv, StoreInv, Owes, Live
  <2>4. state[c] # "compiled" /\ s # 0
    BY <1>1, Numbers DEF IInv, Pointers
  <2>5. JournalRight'
    <3>1. \A t \in Snapshots : /\ phase'[t] # "none" => state[t] # "compiled"
                               /\ phase'[t] \in {"complete", "draining"} => previous[t] # 0
      BY <1>1, <1>5, <2>4 DEF IInv, StoreInv, JournalRight
    <3>2. \A t \in Snapshots : /\ tx[t] # 0 => previous[tx[t]] = t /\ state[tx[t]] # "compiled"
                               /\ t \in early => state[t] = "gone"
      BY DEF IInv, StoreInv, JournalRight
    <3> QED BY <1>3, <1>5, <3>1, <3>2 DEF JournalRight
  <2>6. JournalFollowsDrain'
    <3> SUFFICES ASSUME NEW t \in Snapshots
                 PROVE  /\ phase'[t] = "complete" => state[previous[t]] = "gone"
                        /\ phase'[t] = "draining" => /\ state[previous[t]] = "retired"
                                                     /\ tx'[previous[t]] = t
      BY <1>3 DEF JournalFollowsDrain
    <3>1. CASE phase'[t] = phase[t]
      <4>1. phase[t] \in {"complete", "draining"} => previous[t] \in Snapshots
        BY Numbers DEF IInv, StoreInv, JournalRight, TypeOK
      <4> QED BY <1>5, <3>1, <4>1 DEF IInv, StoreInv, JournalFollowsDrain
    <3>2. CASE phase'[t] # phase[t]
      BY <1>1, <1>5, <3>2
    <3> QED BY <3>1, <3>2
  <2> QED BY <2>1, <2>2, <2>3, <2>5, <2>6 DEF StoreInv
<1>10. Pointers' /\ ReadyRight'
  <2>1. Pointers'
    BY <1>1, <1>2, <1>3 DEF IInv, Pointers
  <2> QED BY <1>2, <2>1 DEF ReadyRight
<1>11. Publishing' /\ Promotes' /\ Finishing' /\ RemovedAreClosed'
  BY <1>6 DEF Publishing, Preparing, Promotes, Finishing, RemovedAreClosed
<1>12. Removing'
  <2> SUFFICES ASSUME op'.at = "uses" PROVE Removing'
    BY <1>6 DEF Removing
  <2>1. ASSUME NEW t \in Snapshots, Live(t), gens[t][op.plugin] # 0
        PROVE  gens[t][op.plugin] \in Tracked(op.plugin)
    <3>1. gens[current][op.plugin] = 0
      BY <1>1, <1>6
    <3>2. <<op.plugin, gens[t][op.plugin]>> \in draining
      BY <1>1, <2>1, <3>1 DEF IInv, TrackedRight
    <3>3. gens[t][op.plugin] \in Snapshots
      BY <1>1, <2>1, Numbers DEF IInv, TypeOK
    <3> QED BY <3>2, <3>3 DEF Tracked
  <2>2. gens' = gens /\ current' = current /\ (\A t \in Snapshots : Live(t)' = Live(t))
    BY <1>3 DEF Live
  <2> QED BY <1>1, <1>2, <1>6, <2>1, <2>2 DEF Removing, Processed
<1>13. Dropping'
  <2>1. \A t \in Snapshots : ~(state[t] = "aborted" /\ leases[t] > 0)
    BY <1>1 DEF Dropping, IInv
  <2> QED BY <1>3, <1>6, <2>1 DEF Dropping
<1>14. Paused'
  BY <1>1, <1>3, <1>6 DEF Paused
<1>15. TrackedRight'
  BY <1>1, <1>3 DEF IInv, TrackedRight, Live
<1> QED BY <1>7, <1>8, <1>9, <1>10, <1>11, <1>12, <1>13, <1>14, <1>15 DEF IInv

\* _drop_ready, up to the wait for the validation leases.
LEMMA DropKeeps ==
  ASSUME IInv, Drop
  PROVE  IInv'
<1> PICK c : c = ready
  OBVIOUS
<1> PICK kind : kind = IF op.at = "reconciled" THEN "reconcile" ELSE "drop"
  OBVIOUS
<1>1. /\ op.at \in {"giveup", "idle", "reconciled"}
      /\ phase' = [phase EXCEPT ![c] = "discarding"]
      /\ state' = [state EXCEPT ![c] = IF @ = "gone" THEN @ ELSE "aborted"]
      /\ accepting' = [accepting EXCEPT ![c] = FALSE] /\ latest' = current
      /\ op' = Procedure("drop", kind, c, 0, FALSE)
  BY DEF Drop
<1>2. UNCHANGED <<made, gens, current, leases, uses, holder, want, asleep, drain, hand, failed,
                  begun, closed, draining, previous, tx, early, ready, mishaps>>
  BY DEF Drop, counts, readers, drains
<1>3. c # 0 /\ ~Promoting
  BY <1>1 DEF Drop, Promoting, IInv, Promotes, Dropping
<1>4. /\ c \in Snapshots /\ current \in Snapshots /\ c = made /\ c # current /\ current < c
      /\ previous[c] = current /\ state[current] = "committed"
      /\ state[c] \in {"committed", "aborted", "gone"} /\ latest \in {current, c}
      /\ phase[c] \notin {"complete", "draining"}
      /\ latest = c <=> state[c] = "committed"
  BY <1>3, ReadyStands
<1>5. PICK q \in Plugins : Changes(c, q, c)
  BY <1>3, ReadyStands
<1>6. /\ op'.at = "drop" /\ op'.kind = kind /\ kind \in {"drop", "reconcile"} /\ op'.cand = c
      /\ op'.plugin = 0 /\ op'.endpoint = FALSE /\ op'.awaits = {} /\ op'.left = {}
  <2>1. kind \in {"drop", "reconcile"}
    OBVIOUS
  <2>2. op' = Procedure("drop", kind, c, 0, FALSE)
    BY <1>1
  <2>3. /\ op'.at = "drop" /\ op'.kind = kind /\ op'.cand = c /\ op'.plugin = 0
        /\ op'.endpoint = FALSE /\ op'.awaits = {} /\ op'.left = {}
    BY <2>2 DEF Procedure
  <2> QED BY <2>1, <2>3
<1>7. \A t \in Snapshots :
        /\ state'[t] = IF t = c /\ state[t] # "gone" THEN "aborted" ELSE state[t]
        /\ accepting'[t] = IF t = c THEN FALSE ELSE accepting[t]
        /\ phase'[t] = IF t = c THEN "discarding" ELSE phase[t]
  BY <1>1, <1>4 DEF IInv, TypeOK
<1>8. state'[c] \in {"aborted", "gone"} /\ (\A t \in Snapshots \ {c} : state'[t] = state[t])
  BY <1>4, <1>7
<1>9. \A t \in Snapshots : Live(t)' => Live(t)
  BY <1>2, <1>8 DEF Live
<1>10. OpTyped'
  <2>1. "drop" \in Steps /\ kind \in Kinds /\ c \in 0 .. MaxSnapshots /\ 0 \in 0 .. PluginCount
    BY <1>4, <1>6, Numbers DEF Steps, Kinds
  <2>2. Procedure("drop", kind, c, 0, FALSE) \in Procedures
    BY <2>1, ProcedureTyped
  <2> QED BY <1>1, <2>2 DEF OpTyped
<1>11. TypeOK'
  <2>1. /\ state' \in [Snapshots -> {"compiled", "validating", "committed", "retired",
                                     "aborted", "gone"}]
        /\ accepting' \in [Snapshots -> BOOLEAN]
        /\ phase' \in [Snapshots -> {"none", "validating", "ready", "moving", "draining",
                                     "complete", "discarding", "aborted"}]
    BY <1>1, <1>4 DEF IInv, TypeOK
  <2>2. latest' \in Snapshots
    BY <1>1, <1>4
  <2>3. op'.cand \in 0 .. MaxSnapshots /\ op'.plugin \in 0 .. PluginCount
        /\ op'.awaits \subseteq Snapshots /\ op'.left \subseteq Snapshots
    BY <1>10 DEF OpTyped, Procedures
  <2> QED BY <1>2, <2>1, <2>2, <2>3 DEF IInv, TypeOK
<1>12. StoreInv'
  <2>1. CountsMatch' /\ Waiting'
    BY <1>2, CountsFrame DEF IInv, StoreInv, Waiting
  <2>2. GensRight'
    <3>1. \A t \in Snapshots : /\ state'[t] = "compiled" => state[t] = "compiled"
                               /\ t > made => state'[t] = "compiled"
      <4>1. \A t \in Snapshots : t > made => state[t] = "compiled"
        BY DEF IInv, StoreInv, GensRight
      <4> QED BY <1>4, <1>8, <4>1
    <3> QED BY <1>2, <3>1, GensFrame DEF IInv, StoreInv
  <2>3. Drains'
    <3>1. \A t \in Snapshots : state[t] \in {"retired", "aborted"} => state'[t] = state[t]
      BY <1>4, <1>7
    <3> QED BY <1>2, <3>1 DEF IInv, StoreInv, Drains
  <2>4. LiveRight'
    <3>1. \A t \in Snapshots : leases'[t] > 0 => state'[t] \in {"committed", "retired", "aborted"}
      BY <1>2, <1>7 DEF IInv, StoreInv, LiveRight
    <3> QED BY <1>2, <1>9, <3>1, LiveFrame DEF IInv, StoreInv
  <2>5. EveryGenerationOwed'
    <3>1. \A t \in Snapshots : state'[t] # "compiled" => state[t] # "compiled"
      BY <1>4, <1>8
    <3>2. \A t \in Snapshots, p \in Plugins : Owes(t, p) => Owes(t, p)'
      <4>1. \A t \in Snapshots \ {c}, p \in Plugins : Owes(t, p) => Owes(t, p)'
        BY <1>2, <1>8 DEF Owes, Live
      <4>2. state[c] = "committed" => hand[c] = 0
        BY <1>4 DEF IInv, StoreInv, Drains
      <4>3. ASSUME NEW p \in Plugins, Owes(c, p) PROVE Owes(c, p)'
        <5>1. /\ hand' = hand /\ leases' = leases /\ leases[c] \in Nat
              /\ state'[c] = IF state[c] = "gone" THEN "gone" ELSE "aborted"
          BY <1>2, <1>4, <1>7 DEF IInv, TypeOK
        <5>2. CASE leases[c] > 0
          BY <5>1, <5>2 DEF Owes, Live
        <5>3. CASE ~(leases[c] > 0)
          <6>1. state[c] \in {"committed", "aborted"}
            BY <1>4, <4>3, <5>3 DEF Owes, Live
          <6>2. hand[c] < p
            <7>1. CASE state[c] = "committed"
              BY <4>2, <7>1, Numbers
            <7>2. CASE state[c] = "aborted"
              BY <4>3, <5>3, <7>2 DEF Owes, Live
            <7> QED BY <6>1, <7>1, <7>2
          <6>3. state'[c] = "aborted"
            BY <5>1, <6>1
          <6> QED BY <5>1, <6>2, <6>3 DEF Owes
        <5> QED BY <5>2, <5>3
      <4> QED BY <4>1, <4>3
    <3> QED BY <1>2, <3>1, <3>2, OwedFrame DEF IInv, StoreInv
  <2>6. JournalRight' /\ JournalFollowsDrain'
    <3>1. TypeOK /\ JournalRight /\ JournalFollowsDrain
      BY DEF IInv, StoreInv
    <3>2. /\ \A t \in Snapshots \ {c} : /\ state'[t] = state[t] /\ phase'[t] = phase[t]
                                        /\ previous'[t] = previous[t]
          /\ previous'[c] = previous[c]
      BY <1>2, <1>7
    <3>3. /\ c \in Snapshots /\ state'[c] # "compiled"
          /\ state'[c] = state[c] \/ state[c] \notin {"gone", "retired"}
          /\ phase'[c] \notin {"complete", "draining"}
      BY <1>4, <1>7
    <3>4. UNCHANGED <<tx, early>>
      BY <1>2
    <3> QED BY <3>1, <3>2, <3>3, <3>4, JournalFrame
  <2> QED BY <2>1, <2>2, <2>3, <2>4, <2>5, <2>6 DEF StoreInv
<1>13. Pointers'
  <2>1. \A t \in Snapshots : state[t] # "validating"
    BY <1>1 DEF IInv, Pointers
  <2>2. \A t \in Snapshots : state[t] = "committed" => t \in {current, c}
    BY <1>4 DEF IInv, Pointers
  <2>3. /\ state'[current] = "committed"
        /\ \A t \in Snapshots : (state'[t] = "committed" => t = current) /\ state'[t] # "validating"
    BY <1>4, <1>8, <2>1, <2>2
  <2>4. current' = current /\ latest' = current /\ ready' = c /\ ready' = made' /\ ready' # 0
    BY <1>1, <1>2, <1>3, <1>4
  <2> QED BY <2>3, <2>4 DEF Pointers
<1>14. ReadyRight'
  <2>1. Changes(c, q, c)'
    BY <1>2, <1>5 DEF Changes
  <2>2. /\ ready' = c /\ current' = current /\ latest' = current /\ previous'[c] = current
        /\ current # c
    BY <1>1, <1>2, <1>4
  <2> QED BY <1>4, <1>8, <2>1, <2>2 DEF ReadyRight, Changes
<1>15. Publishing' /\ Promotes' /\ Finishing' /\ Removing' /\ RemovedAreClosed'
  BY <1>6 DEF Publishing, Preparing, Promotes, Finishing, Removing, RemovedAreClosed
<1>16. Dropping'
  <2>1. \A t \in Snapshots : ~(state[t] = "aborted" /\ leases[t] > 0)
    BY <1>1 DEF Dropping, IInv
  <2>2. \A t \in Snapshots \ {c} : ~(state'[t] = "aborted" /\ leases'[t] > 0)
    BY <1>2, <1>8, <2>1
  <2>3. ready' = c /\ c # 0 /\ latest' = current' /\ state'[c] \in {"aborted", "gone"}
    BY <1>1, <1>2, <1>3, <1>8
  <2> QED BY <1>6, <2>2, <2>3 DEF Dropping
<1>17. Paused'
  <2>1. accepting[current]
    BY <1>1 DEF IInv, Paused
  <2>2. accepting'[current'] /\ accepting'[latest']
    BY <1>1, <1>2, <1>4, <1>7, <2>1
  <2> QED BY <1>6, <2>2 DEF Paused
<1>18. TrackedRight'
  <2> SUFFICES ASSUME NEW t \in Snapshots, NEW p \in Plugins, Live(t), gens[t][p] # 0
               PROVE  \/ <<p, gens[t][p]>> \in draining
                      \/ gens[t][p] = gens[current][p]
                      \/ t = c
    BY <1>1, <1>2, <1>6, <1>9 DEF TrackedRight
  <2>1. \/ <<p, gens[t][p]>> \in draining
        \/ gens[t][p] = gens[current][p]
        \/ gens[t][p] = gens[c][p]
    BY <1>1, <1>4 DEF IInv, TrackedRight
  <2>2. gens[c][p] \in {gens[current][p], c}
    BY <1>4, <1>5 DEF Changes, IInv, TypeOK
  <2>3. CASE gens[t][p] = c
    <3>1. c <= t
      BY <2>3 DEF IInv, StoreInv, GensRight
    <3>2. state[t] # "compiled"
      BY DEF Live, IInv, StoreInv, LiveRight
    <3>3. ~(t > made)
      BY <3>2 DEF IInv, StoreInv, GensRight
    <3> QED BY <1>4, <3>1, <3>3, Numbers
  <2> QED BY <2>1, <2>2, <2>3
<1> QED BY <1>10, <1>11, <1>12, <1>13, <1>14, <1>15, <1>16, <1>17, <1>18 DEF IInv

\* The validation leases have ended: the candidate drains.
LEMMA DroppedKeeps ==
  ASSUME IInv, Dropped
  PROVE  IInv'
<1> PICK c : c = op.cand
  OBVIOUS
<1>1. /\ op.at = "drop" /\ Schedule({c}, state, leases) /\ op' = [op EXCEPT !.at = "discarding"]
      /\ ~Blocked
  BY DEF Dropped, Admitted, Goto
<1>2. UNCHANGED <<made, gens, state, accepting, current, latest, leases, uses, holder, want, asleep,
                  hand, begun, closed, draining, previous, phase, tx, early, ready, mishaps>>
  BY DEF Dropped, store, published, counts, readers, journal
<1>3. /\ c \in Snapshots /\ c = ready /\ latest = current /\ state[c] \in {"aborted", "gone"}
      /\ op.kind \in {"reconcile", "drop"} /\ ready # 0
  BY <1>1, Numbers DEF IInv, Dropping, TypeOK
<1>4. leases[c] = 0 /\ ~Live(c)
  BY <1>1, <1>3 DEF Blocked, IInv, TypeOK, Live
<1>5. /\ op'.at = "discarding" /\ op'.kind = op.kind /\ op'.cand = c /\ op'.plugin = op.plugin
  BY <1>1 DEF IInv, OpTyped, Procedures
<1>6. /\ drain' \in [Snapshots -> {"no", "made", "runs", "stopping", "lost"}]
      /\ failed' \subseteq failed
      /\ \A t \in Snapshots :
              \/ drain'[t] = drain[t] /\ (t \in failed' <=> t \in failed)
              \/ /\ drain[t] \in {"no", "lost"} /\ drain'[t] = "made" /\ t \notin failed'
                 /\ state[t] \in {"retired", "aborted"} /\ leases[t] = 0
  <2>1. TypeOK /\ {c} \in SUBSET Snapshots
    BY <1>3 DEF IInv
  <2> QED BY <1>1, <2>1, Scheduled
<1>7. OpTyped'
  BY <1>1 DEF IInv, OpTyped, Procedures, Steps
<1>8. TypeOK'
  <2>1. op'.cand \in 0 .. MaxSnapshots /\ op'.plugin \in 0 .. PluginCount
        /\ op'.awaits \subseteq Snapshots /\ op'.left \subseteq Snapshots
    BY <1>7 DEF OpTyped, Procedures
  <2>2. failed' \subseteq Snapshots
    BY <1>6 DEF IInv, TypeOK
  <2> QED BY <1>2, <1>6, <2>1, <2>2 DEF IInv, TypeOK
<1>9. StoreInv'
  <2>1. CountsMatch' /\ Waiting'
    BY <1>2, CountsFrame DEF IInv, StoreInv, Waiting
  <2>2. GensRight' /\ LiveRight' /\ JournalRight' /\ JournalFollowsDrain'
    BY <1>2 DEF IInv, StoreInv, GensRight, LiveRight, Live, JournalRight, JournalFollowsDrain
  <2>3. EveryGenerationOwed'
    BY <1>2, OwedFrame DEF IInv, StoreInv, Owes, Live
  <2>4. Drains'
    <3>1. \A t \in Snapshots : hand[t] # 0 => drain'[t] = drain[t]
      BY <1>6 DEF IInv, StoreInv, Drains
    <3> QED BY <1>2, <1>6, <3>1 DEF IInv, StoreInv, Drains
  <2> QED BY <2>1, <2>2, <2>3, <2>4 DEF StoreInv
<1>10. Pointers' /\ ReadyRight'
  <2>1. Pointers'
    BY <1>1, <1>2 DEF IInv, Pointers
  <2>2. ~Promoting
    BY <1>1 DEF Promoting
  <2> QED BY <1>2, <2>1, <2>2 DEF IInv, ReadyRight, Changes
<1>11. Publishing' /\ Promotes' /\ Finishing' /\ Removing' /\ RemovedAreClosed'
  BY <1>3, <1>5 DEF Publishing, Preparing, Promotes, Finishing, Removing, RemovedAreClosed
<1>12. Dropping'
  <2>1. \A t \in Snapshots : ~(state[t] = "aborted" /\ leases[t] > 0)
    BY <1>1, <1>4 DEF Dropping, IInv
  <2> QED BY <1>2, <1>3, <1>5, <2>1 DEF Dropping
<1>13. Paused'
  BY <1>1, <1>2, <1>5 DEF IInv, Paused
<1>14. TrackedRight'
  BY <1>1, <1>2, <1>4 DEF IInv, TrackedRight, Live
<1> QED BY <1>7, <1>8, <1>9, <1>10, <1>11, <1>12, <1>13, <1>14 DEF IInv
-----------------------------------------------------------------------------
\* Every retained snapshot that can be drained is scheduled, and the procedure awaits it.
LEMMA RetryKeeps ==
  ASSUME IInv, RetryDrains
  PROVE  IInv'
<1>1. /\ op.at = "await" /\ Schedule(Snapshots, state, leases)
      /\ op' = [op EXCEPT !.at = "retry", !.awaits = Tasks(drain')]
  BY DEF RetryDrains
<1>2. UNCHANGED <<made, gens, state, accepting, current, latest, leases, uses, holder, want, asleep,
                  hand, begun, closed, draining, previous, phase, tx, early, ready, mishaps>>
  BY DEF RetryDrains, store, published, counts, readers, journal
<1>3. /\ drain' \in [Snapshots -> {"no", "made", "runs", "stopping", "lost"}]
      /\ failed' \subseteq failed
      /\ \A t \in Snapshots :
              \/ drain'[t] = drain[t] /\ (t \in failed' <=> t \in failed)
              \/ /\ drain[t] \in {"no", "lost"} /\ drain'[t] = "made" /\ t \notin failed'
                 /\ state[t] \in {"retired", "aborted"} /\ leases[t] = 0
  <2>1. TypeOK /\ Snapshots \in SUBSET Snapshots
    BY DEF IInv
  <2> QED BY <1>1, <2>1, Scheduled
<1>4. \A t \in Snapshots : state[t] \in {"retired", "aborted"} /\ leases[t] = 0 => drain'[t] # "no"
  BY <1>1 DEF Schedule, Drainable, IInv, TypeOK
<1>5. PICK ts \in SUBSET Snapshots :
        ts = Tasks(drain') /\ (\A t \in Snapshots : t \in ts <=> drain'[t] # "no")
  <2>1. /\ Tasks(drain') \in SUBSET Snapshots
        /\ \A t \in Snapshots : t \in Tasks(drain') <=> drain'[t] # "no"
    BY DEF Tasks
  <2> QED BY <2>1
<1>6. /\ op'.at = "retry" /\ op'.kind = op.kind /\ op'.cand = op.cand /\ op'.plugin = op.plugin
      /\ op'.left = op.left /\ op'.awaits = ts /\ op' \in Procedures
      /\ op.kind \in {"reconcile", "remove"}
  <2>1. op' = [op EXCEPT !.at = "retry", !.awaits = ts]
    BY <1>1, <1>5
  <2>2. op.kind \in {"reconcile", "remove"}
    BY <1>1 DEF IInv, Removing
  <2> QED BY <2>1, <2>2 DEF IInv, OpTyped, Procedures, Steps
<1>7. OpTyped'
  BY <1>6 DEF OpTyped
<1>8. TypeOK'
  <2>1. op'.cand \in 0 .. MaxSnapshots /\ op'.plugin \in 0 .. PluginCount
        /\ op'.awaits \subseteq Snapshots /\ op'.left \subseteq Snapshots
    BY <1>6 DEF Procedures
  <2>2. failed' \subseteq Snapshots
    BY <1>3 DEF IInv, TypeOK
  <2> QED BY <1>2, <1>3, <2>1, <2>2 DEF IInv, TypeOK
<1>9. StoreInv'
  <2>1. CountsMatch' /\ Waiting'
    BY <1>2, CountsFrame DEF IInv, StoreInv, Waiting
  <2>2. GensRight' /\ LiveRight' /\ JournalRight' /\ JournalFollowsDrain'
    BY <1>2 DEF IInv, StoreInv, GensRight, LiveRight, Live, JournalRight, JournalFollowsDrain
  <2>3. EveryGenerationOwed'
    BY <1>2, OwedFrame DEF IInv, StoreInv, Owes, Live
  <2>4. Drains'
    <3>1. \A t \in Snapshots : hand[t] # 0 => drain'[t] = drain[t]
      BY <1>3 DEF IInv, StoreInv, Drains
    <3> QED BY <1>2, <1>3, <3>1 DEF IInv, StoreInv, Drains
  <2> QED BY <2>1, <2>2, <2>3, <2>4 DEF StoreInv
<1>10. Pointers' /\ ReadyRight'
  <2>1. Pointers'
    BY <1>1, <1>2 DEF IInv, Pointers
  <2>2. ~Promoting
    BY <1>1 DEF Promoting
  <2> QED BY <1>2, <2>1, <2>2 DEF IInv, ReadyRight, Changes
<1>11. Publishing' /\ Promotes' /\ Finishing' /\ RemovedAreClosed'
  BY <1>6 DEF Publishing, Preparing, Promotes, Finishing, RemovedAreClosed
<1>12. Dropping'
  <2>1. \A t \in Snapshots : ~(state[t] = "aborted" /\ leases[t] > 0)
    BY <1>1 DEF Dropping, IInv
  <2> QED BY <1>2, <1>6, <2>1 DEF Dropping
<1>13. Paused'
  BY <1>1, <1>2, <1>6 DEF IInv, Paused
<1>14. TrackedRight'
  BY <1>1, <1>2 DEF IInv, TrackedRight, Live
<1>15. Removing'
  <2>1. \A t \in op'.awaits : drain'[t] # "no"
    BY <1>5, <1>6
  <2>2. op.kind = "remove" =>
          /\ ready = 0 /\ op.plugin \in Plugins /\ gens[current][op.plugin] = 0 /\ op.left # {}
          /\ \A t \in Snapshots :
               gens[t][op.plugin] # 0 /\ Live(t) => gens[t][op.plugin] \in op.left \ {Min(op.left)}
    BY <1>1 DEF IInv, Removing, Processed
  <2>3. \A t \in Snapshots : state[t] \in {"retired", "aborted"} /\ leases[t] = 0 => t \in op'.awaits
    BY <1>4, <1>5, <1>6
  <2> QED BY <1>2, <1>6, <2>1, <2>2, <2>3 DEF Removing, Processed, Live
<1> QED BY <1>7, <1>8, <1>9, <1>10, <1>11, <1>12, <1>13, <1>14, <1>15 DEF IInv

\* The drain tasks it awaits are cancelled with the procedure.
LEMMA RetryCancelledKeeps ==
  ASSUME IInv, RetryCancelled
  PROVE  IInv'
<1>1. /\ op.at \in {"await", "retry"} /\ op' = [op EXCEPT !.at = "cancelled"]
      /\ drain' = [s \in Snapshots |->
                    CASE s \in op.awaits /\ drain[s] = "made" -> "lost"
                      [] s \in op.awaits /\ drain[s] = "runs" -> "stopping"
                      [] OTHER -> drain[s]]
  BY DEF RetryCancelled, Goto
<1>2. UNCHANGED <<made, gens, state, accepting, current, latest, leases, uses, holder, want, asleep,
                  hand, failed, begun, closed, draining, previous, phase, tx, early, ready>>
  BY DEF RetryCancelled, store, published, counts, readers, journal
<1>3. /\ drain' \in [Snapshots -> {"no", "made", "runs", "stopping", "lost"}]
      /\ \A t \in Snapshots : /\ drain'[t] # "no" => drain[t] # "no"
                              /\ drain[t] \in {"runs", "stopping"} => drain'[t] \in {"runs", "stopping"}
  BY <1>1 DEF IInv, TypeOK
<1>4. op'.at = "cancelled" /\ op' \in Procedures /\ op'.kind = op.kind /\ op'.cand = op.cand
  BY <1>1 DEF IInv, OpTyped, Procedures, Steps
<1>5. OpTyped'
  BY <1>4 DEF OpTyped
<1>6. TypeOK'
  <2>1. op'.cand \in 0 .. MaxSnapshots /\ op'.plugin \in 0 .. PluginCount
        /\ op'.awaits \subseteq Snapshots /\ op'.left \subseteq Snapshots
    BY <1>4 DEF Procedures
  <2>2. mishaps' \in 0 .. MaxMishaps
    BY CountAssumption DEF RetryCancelled, Mishap, IInv, TypeOK
  <2> QED BY <1>2, <1>3, <2>1, <2>2 DEF IInv, TypeOK
<1>7. StoreInv'
  <2>1. CountsMatch' /\ Waiting'
    BY <1>2, CountsFrame DEF IInv, StoreInv, Waiting
  <2>2. GensRight' /\ LiveRight' /\ JournalRight' /\ JournalFollowsDrain'
    BY <1>2 DEF IInv, StoreInv, GensRight, LiveRight, Live, JournalRight, JournalFollowsDrain
  <2>3. EveryGenerationOwed'
    BY <1>2, OwedFrame DEF IInv, StoreInv, Owes, Live
  <2>4. Drains'
    BY <1>2, <1>3 DEF IInv, StoreInv, Drains
  <2> QED BY <2>1, <2>2, <2>3, <2>4 DEF StoreInv
<1>8. Pointers' /\ ReadyRight'
  <2>1. Pointers'
    BY <1>1, <1>2 DEF IInv, Pointers
  <2>2. ~Promoting
    BY <1>1 DEF Promoting
  <2> QED BY <1>2, <2>1, <2>2 DEF IInv, ReadyRight, Changes
<1>9. op.kind # "promote"
  BY <1>1 DEF IInv, Promotes
<1>10. Publishing' /\ Promotes' /\ Finishing' /\ Removing' /\ RemovedAreClosed'
  BY <1>4, <1>9 DEF Publishing, Preparing, Promotes, Finishing, Removing, RemovedAreClosed
<1>11. Dropping'
  <2>1. \A t \in Snapshots : ~(state[t] = "aborted" /\ leases[t] > 0)
    BY <1>1 DEF Dropping, IInv
  <2> QED BY <1>2, <1>4, <2>1 DEF Dropping
<1>12. Paused'
  BY <1>1, <1>2, <1>4 DEF IInv, Paused
<1>13. TrackedRight'
  BY <1>1, <1>2 DEF IInv, TrackedRight, Live
<1> QED BY <1>5, <1>6, <1>7, <1>8, <1>10, <1>11, <1>12, <1>13 DEF IInv

\* The drains it retried are over: the generations that are processed are closed.
LEMMA RemovedKeeps ==
  ASSUME IInv, Removed
  PROVE  IInv'
<1> PICK p : p = op.plugin
  OBVIOUS
<1> PICK rest : rest = op.left \ {Min(op.left)}
  OBVIOUS
<1>1. /\ op.at = "retry" /\ op.kind = "remove"
      /\ \A t \in op.awaits : drain[t] = "no" /\ t \notin failed
      /\ \/ rest # {} /\ op' = [op EXCEPT !.at = "uses", !.left = rest] /\ draining' = draining
         \/ /\ rest = {} /\ draining' = {g \in draining : g[1] # p}
            /\ op' = [op EXCEPT !.at = "removed", !.left = {}, !.awaits = {}]
  BY DEF Removed, Succeeded
<1>2. UNCHANGED <<made, gens, state, accepting, current, latest, leases, uses, holder, want, asleep,
                  drain, hand, failed, begun, closed, previous, phase, tx, early, ready, mishaps>>
  BY DEF Removed, store, published, counts, readers, journal
<1>3. /\ ready = 0 /\ p \in Plugins /\ gens[current][p] = 0 /\ op.left # {} /\ latest = current
      /\ \A t \in Snapshots : gens[t][p] # 0 =>
           /\ Live(t) => gens[t][p] \in rest
           /\ state[t] \in {"retired", "aborted"} /\ leases[t] = 0 /\ gens[t][p] \notin rest
                => t \in op.awaits
  BY <1>1 DEF IInv, Removing, Processed, Pointers
<1>4. \A t \in op.awaits : state[t] = "gone"
  BY <1>1 DEF IInv, Removing
<1>5. rest \subseteq Snapshots
  BY DEF IInv, TypeOK
<1>6. /\ op' \in Procedures /\ op'.kind = "remove" /\ op'.plugin = p /\ op'.cand = op.cand
      /\ \/ op'.at = "uses" /\ op'.left = rest /\ rest # {} /\ draining' = draining
         \/ op'.at = "removed" /\ rest = {} /\ draining' = {g \in draining : g[1] # p}
  <2>1. op \in Procedures
    BY DEF IInv, OpTyped
  <2>2. CASE rest # {} /\ op' = [op EXCEPT !.at = "uses", !.left = rest] /\ draining' = draining
    BY <1>1, <1>5, <2>1, <2>2 DEF Procedures, Steps
  <2>3. CASE /\ rest = {} /\ draining' = {g \in draining : g[1] # p}
             /\ op' = [op EXCEPT !.at = "removed", !.left = {}, !.awaits = {}]
    <3>1. op' = [at |-> "removed", kind |-> "remove", cand |-> op.cand, plugin |-> p,
                 endpoint |-> op.endpoint, awaits |-> {}, left |-> {}]
      BY <1>1, <2>1, <2>3 DEF Procedures
    <3> QED BY <1>1, <2>1, <2>3, <3>1 DEF Procedures, Steps
  <2> QED BY <1>1, <2>2, <2>3
<1>7. OpTyped'
  BY <1>6 DEF OpTyped
<1>8. TypeOK'
  <2>1. op'.cand \in 0 .. MaxSnapshots /\ op'.plugin \in 0 .. PluginCount
        /\ op'.awaits \subseteq Snapshots /\ op'.left \subseteq Snapshots
    BY <1>6 DEF Procedures
  <2>2. draining' \subseteq Generations
    BY <1>6 DEF IInv, TypeOK
  <2> QED BY <1>2, <2>1, <2>2 DEF IInv, TypeOK
<1>9. StoreInv'
  BY <1>2, StoreFrame DEF IInv
<1>10. Pointers' /\ ReadyRight'
  <2>1. Pointers'
    BY <1>1, <1>2 DEF IInv, Pointers
  <2> QED BY <1>2, <1>3, <2>1 DEF ReadyRight
<1>11. Publishing' /\ Promotes' /\ Finishing'
  BY <1>6 DEF Publishing, Preparing, Promotes, Finishing
<1>12. Dropping'
  <2>1. \A t \in Snapshots : ~(state[t] = "aborted" /\ leases[t] > 0)
    BY <1>1 DEF Dropping, IInv
  <2> QED BY <1>2, <1>6, <2>1 DEF Dropping
<1>13. Paused'
  BY <1>1, <1>2, <1>6 DEF IInv, Paused
<1>14. Removing'
  BY <1>2, <1>3, <1>6 DEF Removing, Processed, Live
<1>15. ASSUME rest = {}
       PROVE  \A t \in Snapshots : gens[t][p] # 0 => /\ ~Live(t)
                                                     /\ state[t] \notin {"retired", "aborted"}
  <2> SUFFICES ASSUME NEW t \in Snapshots, gens[t][p] # 0
               PROVE  ~Live(t) /\ state[t] \notin {"retired", "aborted"}
    OBVIOUS
  <2>1. ~Live(t)
    BY <1>3, <1>15
  <2>2. leases[t] = 0
    BY <2>1 DEF Live, IInv, TypeOK
  <2> QED BY <1>3, <1>4, <1>15, <2>1, <2>2
<1>16. RemovedAreClosed'
  <2> SUFFICES ASSUME NEW s \in Snapshots, gens[s][p] \in Snapshots, state[s] # "compiled", rest = {}
               PROVE  <<p, gens[s][p]>> \in closed
    BY <1>2, <1>6 DEF RemovedAreClosed
  <2>1. gens[s][p] # 0
    BY Numbers
  <2>2. ASSUME NEW t \in Snapshots, gens[t][p] = gens[s][p], hand[t] = p \/ Owes(t, p)
        PROVE  FALSE
    <3>1. ~Live(t) /\ state[t] \notin {"retired", "aborted"}
      BY <1>15, <2>1, <2>2
    <3>2. hand[t] = p
      BY <2>2, <3>1 DEF Owes
    <3> QED BY <1>3, <3>1, <3>2, Numbers DEF IInv, StoreInv, Drains
  <2> QED BY <1>3, <2>1, <2>2 DEF IInv, StoreInv, EveryGenerationOwed
<1>17. TrackedRight'
  <2> SUFFICES ASSUME NEW t \in Snapshots, NEW q \in Plugins, Live(t), gens[t][q] # 0
               PROVE  \/ <<q, gens[t][q]>> \in draining'
                      \/ gens[t][q] = gens[current][q]
    BY <1>2 DEF TrackedRight, Live
  <2>1. \/ <<q, gens[t][q]>> \in draining
        \/ gens[t][q] = gens[current][q]
    BY <1>1, <1>3 DEF IInv, TrackedRight
  <2>2. rest = {} => q # p
    BY <1>15
  <2> QED BY <1>6, <2>1, <2>2
<1> QED BY <1>7, <1>8, <1>9, <1>10, <1>11, <1>12, <1>13, <1>14, <1>16, <1>17 DEF IInv
-----------------------------------------------------------------------------
\* The store as install leaves it.
LEMMA InitIInv ==
  Init => IInv
<1> SUFFICES ASSUME Init PROVE IInv
  OBVIOUS
<1>1. /\ made = 1 /\ current = 1 /\ latest = 1 /\ ready = 0 /\ mishaps = 0
      /\ closed = {} /\ failed = {} /\ draining = {} /\ asleep = {} /\ early = {}
      /\ op = Procedure("idle", "none", 0, 0, FALSE)
  BY DEF Init, Idle
<1>2. /\ op.at = "idle" /\ op.kind = "none" /\ op.cand = 0 /\ op.plugin = 0
      /\ op.awaits = {} /\ op.left = {}
  BY <1>1 DEF Procedure
<1>3. \A s \in Snapshots :
        /\ state[s] = IF s = 1 THEN "committed" ELSE "compiled"
        /\ accepting[s] /\ leases[s] = 0 /\ drain[s] = "no" /\ hand[s] = 0
        /\ previous[s] = 0 /\ phase[s] = "none" /\ tx[s] = 0
        /\ \A p \in Plugins : gens[s][p] = IF s = 1 THEN 1 ELSE 0
  BY DEF Init
<1>4. /\ \A g \in Generations : begun[g] = 0 /\ uses[g] = 0
      /\ \A p \in Plugins, s \in Snapshots : begun[<<p, s>>] = 0
      /\ \A h \in Holders : holder[h] = 0 /\ want[h] = "none"
  BY DEF Init, Generations
<1>5. OpTyped
  <2>1. "idle" \in Steps /\ "none" \in Kinds /\ 0 \in 0 .. MaxSnapshots /\ 0 \in 0 .. PluginCount
    BY Numbers DEF Steps, Kinds
  <2> QED BY <1>1, <2>1, ProcedureTyped DEF OpTyped
<1>6. TypeOK
  <2>1. /\ 1 \in 0 .. MaxSnapshots /\ 0 \in 0 .. MaxSnapshots /\ 0 \in 0 .. PluginCount
        /\ 1 \in Snapshots /\ 0 \in 0 .. MaxMishaps
    BY Numbers, CountAssumption
  <2>2. gens \in [Snapshots -> [Plugins -> 0 .. MaxSnapshots]]
    BY <2>1 DEF Init
  <2>3. /\ state \in [Snapshots -> {"compiled", "validating", "committed", "retired",
                                    "aborted", "gone"}]
        /\ accepting \in [Snapshots -> BOOLEAN]
        /\ leases \in [Snapshots -> Nat] /\ uses \in [Generations -> Nat]
        /\ holder \in [Holders -> 0 .. MaxSnapshots]
        /\ want \in [Holders -> {"none", "stable", "latest"}]
    BY <2>1 DEF Init
  <2>4. /\ drain \in [Snapshots -> {"no", "made", "runs", "stopping", "lost"}]
        /\ hand \in [Snapshots -> 0 .. PluginCount]
        /\ begun \in [Generations -> 0 .. 2]
        /\ previous \in [Snapshots -> 0 .. MaxSnapshots]
        /\ phase \in [Snapshots -> {"none", "validating", "ready", "moving", "draining",
                                    "complete", "discarding", "aborted"}]
        /\ tx \in [Snapshots -> 0 .. MaxSnapshots]
    BY <2>1 DEF Init
  <2> QED BY <1>1, <1>2, <2>1, <2>2, <2>3, <2>4 DEF TypeOK
<1>7. CountsMatch
  <2>1. \A s \in Snapshots : {h \in Holders : holder[h] = s} = {}
    BY <1>4, Numbers
  <2>2. \A g \in Generations :
          {h \in Holders : holder[h] # 0 /\ g \in GenerationsOf(holder[h])} = {}
    BY <1>4
  <2>3. Cardinality({}) = 0
    BY FS_EmptySet
  <2>4. \A s \in Snapshots : leases[s] = Cardinality({h \in Holders : holder[h] = s})
    <3> SUFFICES ASSUME NEW s \in Snapshots
                 PROVE  leases[s] = Cardinality({h \in Holders : holder[h] = s})
      OBVIOUS
    <3> QED BY <1>3, <2>1, <2>3
  <2>5. \A g \in Generations : uses[g] =
          Cardinality({h \in Holders : holder[h] # 0 /\ g \in GenerationsOf(holder[h])})
    <3> SUFFICES ASSUME NEW g \in Generations
                 PROVE  uses[g] = Cardinality({h \in Holders :
                                    holder[h] # 0 /\ g \in GenerationsOf(holder[h])})
      OBVIOUS
    <3>1. {h \in Holders : holder[h] # 0 /\ g \in GenerationsOf(holder[h])} = {}
      BY <2>2
    <3> QED BY <1>4, <2>3, <3>1
  <2> QED BY <2>4, <2>5 DEF CountsMatch
<1>8. Waiting
  BY <1>4 DEF Waiting
<1>9. GensRight
  BY <1>1, <1>3, <1>4, Numbers DEF GensRight, Snapshots
<1>10. Drains /\ JournalRight /\ JournalFollowsDrain
  BY <1>1, <1>3 DEF Drains, JournalRight, JournalFollowsDrain
<1>11. LiveRight
  <2>1. \A s \in Snapshots, p \in Plugins : gens[s][p] # 0 => gens[s][p] \in Snapshots
    BY <1>3, Numbers
  <2> QED BY <1>3, <1>4, <2>1 DEF LiveRight
<1>12. EveryGenerationOwed
  <2>1. Live(1) /\ 1 \in Snapshots
    BY <1>3, Numbers DEF Live
  <2> QED BY <1>3, <2>1 DEF EveryGenerationOwed, Owes
<1>13. StoreInv
  BY <1>7, <1>8, <1>9, <1>10, <1>11, <1>12 DEF StoreInv
<1>14. Pointers /\ ReadyRight
  BY <1>1, <1>3, Numbers DEF Pointers, ReadyRight
<1>15. Publishing /\ Promotes /\ Finishing /\ Removing /\ RemovedAreClosed
  BY <1>2 DEF Publishing, Preparing, Promotes, Finishing, Removing, RemovedAreClosed
<1>16. Dropping
  BY <1>2, <1>3 DEF Dropping
<1>17. Paused
  BY <1>1, <1>2, <1>3, Numbers DEF Paused
<1>18. TrackedRight
  <2>1. \A t \in Snapshots, p \in Plugins : gens[t][p] # 0 => gens[t][p] = gens[current][p]
    BY <1>1, <1>3, Numbers
  <2> QED BY <2>1 DEF TrackedRight
<1> QED BY <1>5, <1>6, <1>13, <1>14, <1>15, <1>16, <1>17, <1>18 DEF IInv

\* A step that changes nothing.
LEMMA StutterKeeps ==
  ASSUME IInv, UNCHANGED vars
  PROVE  IInv'
<1>1. UNCHANGED unmoved /\ op' = op /\ asleep' = asleep /\ mishaps' = mishaps
  BY DEF vars, unmoved, store, published, counts, readers, drains, journal
<1> USE DEF unmoved
<1>2. TypeOK' /\ OpTyped'
  BY <1>1 DEF IInv, TypeOK, OpTyped
<1>3. StoreInv'
  BY <1>1, StoreFrame DEF IInv
<1>4. Pointers' /\ ReadyRight'
  BY <1>1 DEF IInv, Pointers, ReadyRight, Promoting, Changes
<1>5. Publishing' /\ Promotes' /\ Finishing' /\ Dropping'
  BY <1>1 DEF IInv, Publishing, Preparing, Promotes, Finishing, Dropping, Changes
<1>6. Paused' /\ TrackedRight' /\ Removing' /\ RemovedAreClosed'
  BY <1>1 DEF IInv, Paused, TrackedRight, Live, Removing, Processed, RemovedAreClosed
<1> QED BY <1>2, <1>3, <1>4, <1>5, <1>6 DEF IInv

\* Every step of the store, of a drain, of a lease or of a procedure preserves it.
LEMMA NextIInv ==
  IInv /\ [Next]_vars => IInv'
<1> SUFFICES ASSUME IInv, [Next]_vars PROVE IInv'
  OBVIOUS
<1>1. CASE UNCHANGED vars
  BY <1>1, StutterKeeps
<1>2. CASE Proceeds
  <2>1. CASE Waits \/ Quiesced \/ Sealed
    BY <2>1, WaitsKeep
  <2>2. CASE Begin \/ Commit \/ CommitLatest
    BY <2>2, BeginKeeps, CommitKeeps, CommitLatestKeeps
  <2>3. CASE Promoted \/ Finish \/ Drop \/ Dropped \/ CandidateGone
    BY <2>3, PromotedKeeps, FinishKeeps, DropKeeps, DroppedKeeps, CandidateGoneKeeps
  <2>4. CASE RetryRaises \/ RetryFails \/ CancelEnds \/ Reconciled \/ Return
    BY <2>4, EndsKeep
  <2>5. CASE RetryDrains \/ Unused \/ Removed
    BY <2>5, RetryKeeps, RetriesBegin, RemovedKeeps
  <2> QED BY <1>2, <2>1, <2>2, <2>3, <2>4, <2>5 DEF Proceeds
<1>3. ASSUME NEW p \in Plugins, NEW kind \in {"replace", "stage", "disable", "remove"},
             NEW e \in BOOLEAN, Compile(kind, p, e)
      PROVE  IInv'
  BY <1>3, CompileKeeps
<1>4. CASE \E p \in Plugins : RemoveAgain(p)
  BY <1>4, RetriesBegin
<1>5. CASE PublicationFails \/ Abort
  BY <1>5, PublicationFailsKeeps, AbortKeeps
<1>6. CASE \E e \in BOOLEAN : Promote(e)
  BY <1>6, PromoteKeeps
<1>7. CASE PromotionFails \/ Drop
  BY <1>7, PromotionFailsKeeps, DropKeeps
<1>8. CASE Reconcile \/ RetryCancelled \/ UsesCancelled
  BY <1>8, RetriesBegin, RetryCancelledKeeps, EndsKeep
<1>9. ASSUME NEW s \in Snapshots, DrainGoes(s) \/ DrainStops(s) \/ DrainFails(s)
      PROVE  IInv'
  BY <1>9, DrainGoesKeeps, DrainStopsKeeps
<1>10. ASSUME NEW h \in Holders,
              \/ \E selector \in {"stable", "latest"} : Acquire(h, selector)
              \/ Wake(h) \/ AcquireCancelled(h) \/ (\E i \in Holders : Fork(h, i))
       PROVE  IInv'
  BY <1>10, ReadersKeep
<1>11. ASSUME NEW h \in Holders, Release(h) PROVE IInv'
  BY <1>11, ReleaseKeeps
<1> QED BY <1>1, <1>2, <1>3, <1>4, <1>5, <1>6, <1>7, <1>8, <1>9, <1>10, <1>11 DEF Next

\* The inductive invariant holds in every reachable state of the snapshot store.
THEOREM SnapshotInvariant == Spec => []IInv
BY InitIInv, NextIInv, PTL DEF Spec

\* No generation of a snapshot in use is disposed, and the snapshot is retained, for
\* any number of plugins, holders, snapshots and faults (_run_drain, release_lease,
\* _on_snapshot_drained, generation_is_referenced_elsewhere).
THEOREM InUseIsNeverDisposed == Spec => []NothingInUseIsDisposed
<1>1. IInv => NothingInUseIsDisposed
  <2> SUFFICES ASSUME IInv, NEW s \in Snapshots, InUse(s)
               PROVE  /\ state[s] \in {"committed", "retired", "aborted"}
                      /\ \A g \in GenerationsOf(s) : begun[g] = 0
    BY DEF NothingInUseIsDisposed
  <2>1. Live(s) /\ state[s] \in {"committed", "retired", "aborted"}
    BY DEF IInv, Pointers, StoreInv, LiveRight, InUse, Live
  <2>2. \A p \in Plugins : gens[s][p] # 0 => begun[<<p, gens[s][p]>>] = 0
    BY <2>1 DEF IInv, StoreInv, LiveRight
  <2> QED BY <2>1, <2>2 DEF GenerationsOf
<1> QED BY <1>1, SnapshotInvariant, PTL

\* The lease counts are exact, and admission is closed exactly while the endpoints of
\* a snapshot change hands (_claim_lease, release_lease, pause_admission, resume).
THEOREM AdmissionStaysExact == Spec => []AdmissionIsExact
<1>1. IInv => AdmissionIsExact
  <2> SUFFICES ASSUME IInv PROVE AdmissionIsExact
    OBVIOUS
  <2>1. op.at = "switch" => /\ op.endpoint => leases[current] = 0
                            /\ op.kind = "promote" => leases[op.cand] = 0
    BY DEF IInv, Paused
  <2>2. op.at \in {"idle", "reconciled"} =>
          \A s \in {current, latest} : state[s] = "committed" /\ accepting[s]
    BY DEF IInv, Paused, Pointers
  <2>3. PauseIsExact
    BY <2>1, <2>2 DEF PauseIsExact
  <2> QED BY <2>3 DEF IInv, StoreInv, AdmissionIsExact
<1> QED BY <1>1, SnapshotInvariant, PTL

\* A journal that says complete and a removal that returned say what is so
\* (_finish_drained_reload, _track_reload_drain, reconcile_disabled_and_drain).
THEOREM ReportsStayTrue == Spec => []ReportsAreTrue
<1>1. IInv => ReportsAreTrue
  BY DEF IInv, StoreInv, ReportsAreTrue
<1> QED BY <1>1, SnapshotInvariant, PTL
==============================================================================
