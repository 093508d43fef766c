--------------------------- MODULE HistoryProofs ---------------------------
(***************************************************************************)
(* Proofs about what a conversation leaves behind.                         *)
(***************************************************************************)
EXTENDS CompactionLedger, DurableEvents, SequenceTheorems, FiniteSetTheorems, WellFoundedInduction, TLAPS

-----------------------------------------------------------------------------
(* Maxima *)

\* A set of numbers that is not empty has a least one.
LEMMA LeastExists ==
  ASSUME NEW S \in SUBSET Nat, S # {}
  PROVE  \E m \in S : \A n \in S : m <= n
<1> DEFINE R == {ss \in Nat \X Nat : ss[1] < ss[2]}
<1>1. IsWellFoundedOn(R, Nat)
  BY NatLessThanWellFounded DEF OpToRel
<1>2. \E x \in S : \A y \in S : ~ (<<y, x>> \in R)
  <2> HIDE DEF R
  <2> QED BY <1>1, WFMin
<1>3. PICK x \in S : \A y \in S : ~ (<<y, x>> \in R)
  BY <1>2
<1>4. ASSUME NEW y \in S PROVE x <= y
  <2>1. <<y, x>> \in Nat \X Nat /\ ~ (<<y, x>> \in R)
    BY <1>3
  <2>2. ~ (y < x)
    BY <2>1
  <2> QED BY <2>2
<1> QED BY <1>4

\* The CHOOSE of Max has a witness in a bounded set.
LEMMA MaxOfBounded ==
  ASSUME NEW n \in Nat, NEW S \in SUBSET (0..n), S # {}
  PROVE  Max(S) \in S /\ \A m \in S : m <= Max(S)
<1> DEFINE B == {k \in Nat : \A m \in S : m <= k}
<1>1. n \in B
  OBVIOUS
<1>2. PICK k \in B : \A j \in B : k <= j
  <2>1. B # {} /\ B \in SUBSET Nat BY <1>1
  <2> HIDE DEF B
  <2> QED BY <2>1, LeastExists
<1>3. k \in S
  <2> SUFFICES ASSUME k \notin S PROVE FALSE
    OBVIOUS
  <2>1. \A m \in S : m < k
    BY <1>2
  <2>2. k > 0 /\ k - 1 \in Nat
    <3>1. k \in Nat OBVIOUS
    <3>2. PICK m \in S : TRUE OBVIOUS
    <3>3. m \in Nat /\ m < k BY <2>1, <3>2
    <3> QED BY <3>1, <3>3
  <2>3. k - 1 \in B
    BY <2>1, <2>2
  <2> QED BY <1>2, <2>2, <2>3
<1> QED BY <1>2, <1>3 DEF Max

\* Max is the member no other exceeds.
LEMMA MaxIs ==
  ASSUME NEW S \in SUBSET Nat, NEW m \in S, \A n \in S : n <= m
  PROVE  Max(S) = m
<1>1. m \in S /\ \A n \in S : m >= n
  OBVIOUS
<1>2. Max(S) \in S /\ \A n \in S : Max(S) >= n
  BY <1>1 DEF Max
<1>3. Max(S) \in Nat /\ m \in Nat /\ Max(S) >= m /\ m >= Max(S)
  BY <1>1, <1>2
<1> QED BY <1>3
-----------------------------------------------------------------------------
(* What the summaries tell *)

\* f is what each generation of l tells.
Tells(f, l) ==
  f = [g \in 0..Len(l) |-> IF g = 0 THEN {} ELSE Seqs(l[g].sources) \cup f[l[g].parent]]

Telling(f, l, n) == f[0] = {} /\ \A g \in 1..n : f[g] = Seqs(l[g].sources) \cup f[l[g].parent]
Backward(l, n) == \A g \in 1..n : l[g].parent \in 0..(g - 1)

\* What such a function tells of each generation.
LEMMA TellsMeans ==
  ASSUME NEW f, NEW l, Len(l) \in Nat, Tells(f, l)
  PROVE  Telling(f, l, Len(l)) /\ f = [g \in 0..Len(l) |-> f[g]]
<1>1. ASSUME NEW g \in 0..Len(l)
      PROVE  f[g] = IF g = 0 THEN {} ELSE Seqs(l[g].sources) \cup f[l[g].parent]
  BY Zenon DEF Tells
<1>2. f[0] = {}
  <2>1. 0 \in 0..Len(l) OBVIOUS
  <2> QED BY <1>1, <2>1
<1>3. ASSUME NEW g \in 1..Len(l) PROVE f[g] = Seqs(l[g].sources) \cup f[l[g].parent]
  <2>1. g \in 0..Len(l) /\ g # 0 OBVIOUS
  <2> QED BY <1>1, <2>1
<1>4. f = [g \in 0..Len(l) |-> f[g]]
  BY Zenon DEF Tells
<1> QED BY <1>2, <1>3, <1>4 DEF Telling

\* ... and the other way round.
LEMMA TellsIf ==
  ASSUME NEW f, NEW l, Len(l) \in Nat, f = [g \in 0..Len(l) |-> f[g]], Telling(f, l, Len(l))
  PROVE  Tells(f, l)
<1>1. ASSUME NEW g \in 0..Len(l)
      PROVE  f[g] = IF g = 0 THEN {} ELSE Seqs(l[g].sources) \cup f[l[g].parent]
  BY DEF Telling
<1> QED BY <1>1 DEF Tells

\* The generations build on earlier ones, so one function tells what they tell.
LEMMA OneTelling ==
  ASSUME NEW n \in Nat, NEW f, NEW h, NEW l, Backward(l, n), Telling(f, l, n), Telling(h, l, n)
  PROVE  \A g \in 0..n : f[g] = h[g]
<1> DEFINE bad == {g \in 0..n : f[g] # h[g]}
<1> SUFFICES ASSUME bad # {} PROVE FALSE
  OBVIOUS
<1>1. PICK m \in bad : \A g \in bad : m <= g
  <2>1. bad \in SUBSET Nat OBVIOUS
  <2> HIDE DEF bad
  <2> QED BY <2>1, LeastExists
<1>2. m \in 1..n
  <2>1. m \in 0..n /\ m # 0 BY DEF Telling
  <2> QED BY <2>1
<1>3. l[m].parent \in 0..n /\ l[m].parent < m
  BY <1>2 DEF Backward
<1>4. f[l[m].parent] = h[l[m].parent]
  BY <1>1, <1>3
<1> QED BY <1>2, <1>4 DEF Telling

\* Summarised is that function, if there is one.
LEMMA SummarisedTells == (\E f : Tells(f, ledger)) => Tells(Summarised, ledger)
BY DEF Tells, Summarised
(***************************************************************************)
(* Compaction                                                              *)
(***************************************************************************)

UnitSets == SUBSET (Nat \X Nat)
Checkpoint == [generation : Nat \ {0}, parent : Nat, sources : UnitSets, tail : UnitSets]
Generation == [parent : Nat, sources : UnitSets, tail : UnitSets, active : BOOLEAN]
Row == [kind : {"turn", "plain"}, version : Nat, live : BOOLEAN]
Turn == [pc : {"idle", "admitted"}]
        \cup [pc : {"running", "prepared", "received"}, head : [parent : Nat, next : Nat], units : UnitSets]

UnitsOf(x) == x.sources \cup x.tail

\* The units are rows of the session, also when the rows are gone.
Known(units) == \A u \in units : u[1] \in DOMAIN rows

\* Whatever is told, these units come after it.
Below(told, units) == \A t \in told : \A u \in units : t < u[1]

\* No live row is left out between what is told and the last of these units.
Covers(told, units) ==
  \A s \in DOMAIN rows :
     rows[s].live /\ (\A t \in told : t < s) /\ (\E u \in units : s <= u[1]) => s \in Seqs(units)

\* A generation, or a checkpoint that may become one, goes on where its parent's
\* summary, which tells told, ended.
Sound(told, x) ==
  /\ x.sources # {} /\ Known(UnitsOf(x))
  /\ \A u \in x.sources : \A v \in x.tail : u[1] < v[1]
  /\ Below(told, UnitsOf(x)) /\ Covers(told \cup Seqs(x.sources), x.tail)

HistoryTyped ==
  /\ rows \in Seq(Row) /\ ledger \in Seq(Generation)
  /\ cursor \in 0..Len(ledger) /\ Len(ledger) <= MaxGenerations
  /\ life \in Nat /\ 1 <= life /\ life <= upsets + 1 /\ upsets \in 0..MaxUpsets
  /\ fence \in Checkpoint \cup {NoCheckpoint}
  /\ receipts \subseteq [life : Nat, checkpoint : Checkpoint]
  /\ turn \in Turn

LedgerTells == \E f : Tells(f, ledger)

GenerationsSound ==
  \A g \in DOMAIN ledger : ledger[g].parent \in 0..(g - 1) /\ Sound(Summarised[ledger[g].parent], ledger[g])

\* Nothing moves under the fence.
FenceSound ==
  /\ turn.pc \in {"prepared", "received"} => fence # NoCheckpoint
  /\ fence # NoCheckpoint =>
       /\ fence.parent = cursor /\ fence.generation = Len(ledger) + 1 /\ Len(ledger) < MaxGenerations
       /\ Canonical(UnitsOf(fence)) /\ Sound(Summarised[cursor], fence)

\* What a running turn was given is what its next checkpoint may consume.
TurnSound ==
  turn.pc = "running" =>
    /\ fence = NoCheckpoint /\ turn.head.parent \in 0..Len(ledger) /\ Known(turn.units)
    /\ Below(Summarised[turn.head.parent], turn.units) /\ Covers(Summarised[turn.head.parent], turn.units)

Active == {g \in DOMAIN ledger : ledger[g].active}

ToldIsKnown == \A g \in 0..Len(ledger) : Summarised[g] \subseteq DOMAIN rows

\* A summary in force tells only what generations in force consumed.
ToldByActive ==
  \A g \in Active : \A s \in Summarised[g] : \E h \in Active : h <= g /\ s \in Seqs(ledger[h].sources)

ActiveIsLive ==
  \A g \in Active : \A s \in Seqs(UnitsOf(ledger[g])) : rows[s].kind = "turn" => rows[s].live

\* CursorEndsTheLine, without a maximum.
LineEnds ==
  /\ cursor \in {0} \cup Active /\ \A g \in Active : g <= cursor
  /\ \A g \in Active : /\ ledger[g].parent \in {0} \cup Active
                       /\ \A h \in Active : h < g => h <= ledger[g].parent

\* A receipt of this life is of a generation of the ledger or of the fence.
ReceiptsKept ==
  \A r \in receipts :
    /\ r.life <= life
    /\ r.life = life => r.checkpoint.generation <= Len(ledger) \/ (fence # NoCheckpoint /\ r.checkpoint = fence)

LedgerInv ==
  /\ HistoryTyped /\ LedgerTells /\ GenerationsSound /\ FenceSound /\ TurnSound
  /\ ToldIsKnown /\ ToldByActive /\ ActiveIsLive /\ LineEnds /\ ReceiptsKept

\* What Summarised tells, generation by generation.
LEMMA SummarisedUnfolds ==
  ASSUME LedgerInv
  PROVE  Telling(Summarised, ledger, Len(ledger)) /\ Backward(ledger, Len(ledger))
<1>1. Tells(Summarised, ledger)
  BY SummarisedTells DEF LedgerInv, LedgerTells
<1>2. Len(ledger) \in Nat /\ DOMAIN ledger = 1..Len(ledger)
  BY DEF LedgerInv, HistoryTyped
<1>3. Telling(Summarised, ledger, Len(ledger))
  BY <1>1, <1>2, TellsMeans
<1>4. Backward(ledger, Len(ledger))
  BY <1>2 DEF Backward, LedgerInv, GenerationsSound
<1> QED BY <1>3, <1>4

\* A ledger of the same generations, whichever are active, tells the same.
LEMMA SameTelling ==
  ASSUME LedgerInv, ledger' \in Seq(Generation), Len(ledger') = Len(ledger),
         \A g \in DOMAIN ledger : ledger'[g].parent = ledger[g].parent /\ ledger'[g].sources = ledger[g].sources
  PROVE  LedgerTells' /\ \A g \in 0..Len(ledger) : Summarised'[g] = Summarised[g]
<1>1. Len(ledger) \in Nat /\ DOMAIN ledger = 1..Len(ledger) /\ DOMAIN ledger' = 1..Len(ledger)
  BY DEF LedgerInv, HistoryTyped
<1>2. Tells(Summarised, ledger)
  BY SummarisedTells DEF LedgerInv, LedgerTells
<1>3. Tells(Summarised, ledger')
  <2>1. Telling(Summarised, ledger', Len(ledger'))
    BY <1>1, SummarisedUnfolds DEF Telling
  <2>2. Summarised = [g \in 0..Len(ledger') |-> Summarised[g]]
    BY <1>1, <1>2, TellsMeans
  <2> QED BY <1>1, <2>1, <2>2, TellsIf
<1>4. LedgerTells'
  BY <1>3 DEF LedgerTells
<1>5. Tells(Summarised', ledger')
  BY <1>4 DEF LedgerTells, Tells, Summarised
<1>6. Telling(Summarised, ledger', Len(ledger)) /\ Telling(Summarised', ledger', Len(ledger))
  <2>1. Len(ledger') \in Nat BY <1>1
  <2>2. Telling(Summarised, ledger', Len(ledger')) BY <1>3, <2>1, TellsMeans
  <2>3. Telling(Summarised', ledger', Len(ledger')) BY <1>5, <2>1, TellsMeans
  <2> QED BY <2>2, <2>3
<1>7. Backward(ledger', Len(ledger))
  BY <1>1, SummarisedUnfolds DEF Backward
<1>8. \A g \in 0..Len(ledger) : Summarised[g] = Summarised'[g]
  BY <1>1, <1>6, <1>7, OneTelling
<1> QED BY <1>4, <1>8

\* A new generation adds what it consumed to what its parent tells.
LEMMA NewTelling ==
  ASSUME LedgerInv, NEW c \in Checkpoint, c.parent = cursor, Persisted(c)
  PROVE  /\ LedgerTells' /\ \A g \in 0..Len(ledger) : Summarised'[g] = Summarised[g]
         /\ Summarised'[Len(ledger) + 1] = Seqs(c.sources) \cup Summarised[cursor]
<1> DEFINE n == Len(ledger)
<1>1. n \in Nat /\ DOMAIN ledger = 1..n /\ cursor \in 0..n
  BY DEF LedgerInv, HistoryTyped
<1>2. /\ Len(ledger') = n + 1 /\ \A g \in 1..n : ledger'[g] = ledger[g]
      /\ ledger'[n + 1].parent = cursor /\ ledger'[n + 1].sources = c.sources
  BY <1>1 DEF Persisted, LedgerInv, HistoryTyped, Checkpoint
<1>3. Telling(Summarised, ledger, n) /\ Backward(ledger, n)
  BY SummarisedUnfolds
<1> HIDE DEF n
<1> DEFINE f == [g \in 0..(n + 1) |-> IF g = n + 1 THEN Seqs(c.sources) \cup Summarised[cursor] ELSE Summarised[g]]
<1>4. Backward(ledger', n + 1)
  <2>1. ASSUME NEW g \in 1..(n + 1) PROVE ledger'[g].parent \in 0..(g - 1)
    <3>1. CASE g = n + 1 BY <1>1, <1>2, <3>1
    <3>2. CASE g \in 1..n BY <1>2, <1>3, <3>2 DEF Backward
    <3> QED BY <1>1, <3>1, <3>2
  <2> QED BY <2>1 DEF Backward
<1>5. ASSUME NEW g \in 0..(n + 1)
      PROVE  f[g] = IF g = 0 THEN {} ELSE Seqs(ledger'[g].sources) \cup f[ledger'[g].parent]
  <2>1. CASE g = n + 1
    <3>1. f[cursor] = Summarised[cursor] /\ g # 0 BY <1>1, <2>1
    <3> QED BY <1>2, <2>1, <3>1
  <2>2. CASE g \in 1..n
    <3>1. ledger[g].parent \in 0..n /\ ledger[g].parent # n + 1 /\ g # n + 1 /\ g # 0
      BY <1>1, <1>3, <2>2 DEF Backward
    <3>2. f[ledger[g].parent] = Summarised[ledger[g].parent] /\ f[g] = Summarised[g]
      BY <1>1, <3>1
    <3>3. Summarised[g] = Seqs(ledger[g].sources) \cup Summarised[ledger[g].parent]
      BY <1>3, <2>2 DEF Telling
    <3> QED BY <1>2, <2>2, <3>1, <3>2, <3>3
  <2>3. CASE g = 0
    <3>1. f[g] = Summarised[0] BY <1>1, <2>3
    <3> QED BY <1>3, <2>3, <3>1 DEF Telling
  <2> QED BY <1>1, <2>1, <2>2, <2>3
<1>6. Tells(f, ledger')
  <2>1. f = [g \in 0..(n + 1) |-> f[g]]
    OBVIOUS
  <2> HIDE DEF f
  <2> QED BY <1>2, <1>5, <2>1 DEF Tells
<1>7. LedgerTells'
  BY <1>6 DEF LedgerTells
<1>8. Tells(Summarised', ledger')
  BY <1>7 DEF LedgerTells, Tells, Summarised
<1>9. Telling(f, ledger', n + 1) /\ Telling(Summarised', ledger', n + 1)
  <2> HIDE DEF f
  <2>1. Len(ledger') \in Nat BY <1>1, <1>2
  <2> QED BY <1>2, <1>6, <1>8, <2>1, TellsMeans
<1>10. \A g \in 0..(n + 1) : f[g] = Summarised'[g]
  <2>1. n + 1 \in Nat BY <1>1
  <2> HIDE DEF f
  <2> QED BY <1>4, <1>9, <2>1, OneTelling
<1> QED BY <1>1, <1>7, <1>10 DEF n

-----------------------------------------------------------------------------
(* Rows come, change and go *)

\* Rows are never taken back and never come to life again.
RowsMove ==
  /\ rows' \in Seq(Row) /\ Len(rows) <= Len(rows')
  /\ \A s \in DOMAIN rows : rows'[s].live => rows[s].live

\* ... and those a turn wrote stay.
TurnRowsStay ==
  \A s \in DOMAIN rows : rows'[s].kind = "turn" => rows[s].kind = "turn" /\ rows'[s].live = rows[s].live

\* What was complete stays complete.
LEMMA UnitsMove ==
  ASSUME LedgerInv, RowsMove, NEW told, NEW units, Known(units)
  PROVE  Known(units)' /\ (Covers(told, units) => Covers(told, units)')
<1>1. /\ Len(rows) \in Nat /\ DOMAIN rows = 1..Len(rows)
      /\ Len(rows') \in Nat /\ DOMAIN rows' = 1..Len(rows')
  BY DEF LedgerInv, HistoryTyped, RowsMove
<1>2. Known(units)'
  BY <1>1 DEF Known, RowsMove
<1>3. ASSUME Covers(told, units), NEW s \in DOMAIN rows', rows'[s].live,
             \A t \in told : t < s, NEW u \in units, s <= u[1]
      PROVE  s \in Seqs(units)
  <2>1. s \in DOMAIN rows
    BY <1>1, <1>3 DEF Known
  <2> QED BY <1>3, <2>1 DEF Covers, RowsMove
<1> QED BY <1>2, <1>3 DEF Covers

\* A sound generation stays sound.
LEMMA SoundMoves ==
  ASSUME LedgerInv, RowsMove, NEW told, NEW x, Sound(told, x)
  PROVE  Sound(told, x)'
<1>1. Known(UnitsOf(x)) /\ Known(x.tail) /\ Covers(told \cup Seqs(x.sources), x.tail)
  BY DEF Sound, Known, UnitsOf
<1>2. Known(UnitsOf(x))' /\ Covers(told \cup Seqs(x.sources), x.tail)'
  BY <1>1, UnitsMove
<1> QED BY <1>2 DEF Sound, Below, UnitsOf, Seqs

\* A step of the rows alone keeps what is known of the ledger.
LEMMA RowsStep ==
  ASSUME LedgerInv, RowsMove, UNCHANGED <<ledger, cursor>>
  PROVE  /\ LedgerTells' /\ GenerationsSound' /\ ToldIsKnown' /\ ToldByActive' /\ LineEnds'
         /\ \A g \in 0..Len(ledger) : Summarised'[g] = Summarised[g]
         /\ TurnRowsStay => ActiveIsLive'
<1>1. /\ Len(rows) \in Nat /\ DOMAIN rows = 1..Len(rows)
      /\ Len(rows') \in Nat /\ DOMAIN rows' = 1..Len(rows')
      /\ Len(ledger) \in Nat /\ DOMAIN ledger = 1..Len(ledger)
      /\ ledger \in Seq(Generation) /\ Len(rows) <= Len(rows')
  BY DEF LedgerInv, HistoryTyped, RowsMove
<1>2. LedgerTells' /\ \A g \in 0..Len(ledger) : Summarised'[g] = Summarised[g]
  BY <1>1, SameTelling
<1>3. \A g \in DOMAIN ledger : ledger[g].parent \in 0..Len(ledger) /\ ledger[g].parent \in 0..(g - 1)
  BY <1>1 DEF LedgerInv, GenerationsSound
<1>4. GenerationsSound'
  <2> SUFFICES ASSUME NEW g \in DOMAIN ledger PROVE Sound(Summarised[ledger[g].parent], ledger[g])'
    BY <1>3 DEF GenerationsSound
  <2>1. Sound(Summarised[ledger[g].parent], ledger[g])
    BY DEF LedgerInv, GenerationsSound
  <2>2. PICK told, x : told = Summarised[ledger[g].parent] /\ x = ledger[g]
    OBVIOUS
  <2>3. Sound(told, x)'
    BY <2>1, <2>2, SoundMoves
  <2>4. told = Summarised'[ledger'[g].parent] /\ x = ledger'[g]
    BY <1>2, <1>3, <2>2
  <2> QED BY <2>3, <2>4 DEF Sound, Known, Covers, Below
<1>5. ToldIsKnown'
  BY <1>1, <1>2 DEF ToldIsKnown, LedgerInv
<1>6. ToldByActive'
  BY <1>1, <1>2 DEF ToldByActive, Active, LedgerInv
<1>7. LineEnds'
  BY DEF LineEnds, Active, LedgerInv
<1>8. ASSUME TurnRowsStay PROVE ActiveIsLive'
  <2>1. \A g \in DOMAIN ledger : Seqs(UnitsOf(ledger[g])) \subseteq DOMAIN rows
    BY DEF LedgerInv, GenerationsSound, Sound, Known, Seqs
  <2> QED BY <1>8, <2>1 DEF ActiveIsLive, Active, LedgerInv, TurnRowsStay
<1> QED BY <1>2, <1>4, <1>5, <1>6, <1>7, <1>8

-----------------------------------------------------------------------------
(* A checkpoint is committed *)

\* What a running turn may commit is sound.
LEMMA CheckpointIsSound ==
  ASSUME LedgerInv, turn.pc = "running", NEW c \in Checkpoints(turn.head, turn.units), Valid(c)
  PROVE  /\ c \in Checkpoint /\ c.parent = cursor /\ c.generation = Len(ledger) + 1
         /\ Canonical(UnitsOf(c)) /\ Sound(Summarised[cursor], c)
<1> DEFINE head == turn.head
           units == turn.units
<1>1. /\ units \in UnitSets /\ head.parent \in Nat /\ head.next \in Nat /\ Len(ledger) \in Nat
      /\ Len(rows) \in Nat /\ DOMAIN rows = 1..Len(rows)
  BY DEF LedgerInv, HistoryTyped, Turn
<1>2. PICK from \in Seqs(units), split \in Seqs(units) :
        /\ c = [generation |-> head.next, parent |-> head.parent,
                sources |-> {u \in units : from <= u[1] /\ u[1] <= split},
                tail |-> {u \in units : u[1] > split}]
        /\ c.sources # {}
  <2> HIDE DEF head, units
  <2>1. c \in Checkpoints(head, units) BY DEF head, units
  <2>2. c.sources # {} BY <2>1 DEF Checkpoints
  <2>3. c \in {[generation |-> head.next, parent |-> head.parent,
                sources |-> {u \in units : from <= u[1] /\ u[1] <= split},
                tail |-> {u \in units : u[1] > split}] : from \in Seqs(units), split \in Seqs(units)}
    BY <2>1 DEF Checkpoints
  <2> QED BY <2>2, <2>3
<1>3. c.parent = cursor /\ c.generation = Len(ledger) + 1 /\ Canonical(UnitsOf(c))
  BY DEF Valid, UnitsOf
<1>4. /\ c.generation = head.next /\ c.parent = head.parent
      /\ c.sources = {u \in units : from <= u[1] /\ u[1] <= split}
      /\ c.tail = {u \in units : u[1] > split}
  BY <1>2
<1>5. c \in Checkpoint
  <2>1. c.sources \in UnitSets /\ c.tail \in UnitSets
    BY <1>1, <1>4 DEF UnitSets
  <2>2. c = [generation |-> c.generation, parent |-> c.parent, sources |-> c.sources, tail |-> c.tail]
    BY <1>2
  <2>3. c.generation \in Nat \ {0} /\ c.parent \in Nat
    BY <1>1, <1>3, <1>4
  <2> QED BY <2>1, <2>2, <2>3 DEF Checkpoint
<1>6. /\ Known(units) /\ Below(Summarised[cursor], units) /\ Covers(Summarised[cursor], units)
  BY <1>3, <1>4 DEF LedgerInv, TurnSound
<1>7. \A u \in units : u[1] \in Nat
  BY <1>1, <1>6 DEF Known
<1>8. from \in Nat /\ split \in Nat
  BY <1>7 DEF Seqs
<1> HIDE DEF head, units
<1>9. \E w \in c.sources : w[1] = split
  <2>1. PICK u \in c.sources : TRUE BY <1>2
  <2>2. from <= u[1] /\ u[1] <= split /\ u[1] \in Nat BY <1>4, <1>7, <2>1
  <2>3. PICK w \in units : w[1] = split BY DEF Seqs
  <2>4. from <= w[1] BY <1>8, <2>2, <2>3
  <2> QED BY <1>4, <1>8, <2>3, <2>4
<1>10. \A u \in c.sources : \A v \in c.tail : u[1] < v[1]
  BY <1>4, <1>7, <1>8
<1>11. UnitsOf(c) \subseteq units
  BY <1>4 DEF UnitsOf
<1>12. Covers(Summarised[cursor] \cup Seqs(c.sources), c.tail)
  <2> SUFFICES ASSUME NEW s \in DOMAIN rows, rows[s].live,
                      \A t \in Summarised[cursor] \cup Seqs(c.sources) : t < s,
                      NEW u \in c.tail, s <= u[1]
               PROVE  s \in Seqs(c.tail)
    BY DEF Covers
  <2>1. PICK v \in units : v[1] = s
    <3>1. u \in units BY <1>4
    <3>2. s \in Seqs(units) BY <1>6, <3>1 DEF Covers
    <3> QED BY <3>2 DEF Seqs
  <2>2. split < s BY <1>9 DEF Seqs
  <2>3. s \in Nat BY <1>1
  <2>4. v \in c.tail BY <1>4, <1>8, <2>1, <2>2, <2>3
  <2> QED BY <2>1, <2>4 DEF Seqs
<1>13. Known(UnitsOf(c)) /\ Below(Summarised[cursor], UnitsOf(c))
  BY <1>6, <1>11 DEF Known, Below
<1> QED BY <1>2, <1>3, <1>5, <1>10, <1>12, <1>13 DEF Sound

\* A generation that goes on where the cursor stands becomes the cursor.
LEMMA PersistedKeeps ==
  ASSUME LedgerInv, NEW c \in Checkpoint, c.parent = cursor, c.generation = Len(ledger) + 1,
         Len(ledger) < MaxGenerations, Canonical(UnitsOf(c)), Sound(Summarised[cursor], c),
         fence \in {NoCheckpoint, c}, Persisted(c), UNCHANGED <<rows, life, receipts>>
  PROVE  /\ LedgerTells' /\ GenerationsSound' /\ ToldIsKnown' /\ ToldByActive' /\ ActiveIsLive' /\ LineEnds'
         /\ ReceiptsKept' /\ ledger' \in Seq(Generation) /\ Len(ledger') = Len(ledger) + 1
         /\ cursor' = Len(ledger) + 1 /\ Summarised'[cursor'] = Seqs(c.sources) \cup Summarised[cursor]
         /\ fence' = NoCheckpoint
<1> DEFINE n == Len(ledger)
           x == [parent |-> c.parent, sources |-> c.sources, tail |-> c.tail, active |-> TRUE]
<1>1. /\ n \in Nat /\ DOMAIN ledger = 1..n /\ cursor \in 0..n /\ ledger \in Seq(Generation)
      /\ Len(rows) \in Nat /\ DOMAIN rows = 1..Len(rows)
  BY DEF LedgerInv, HistoryTyped
<1>2. x \in Generation
  BY DEF Generation, Checkpoint
<1>3. /\ ledger' \in Seq(Generation) /\ Len(ledger') = n + 1 /\ DOMAIN ledger' = 1..(n + 1)
      /\ \A g \in 1..n : ledger'[g] = ledger[g]
      /\ ledger'[n + 1] = x
  <2>1. ledger' = Append(ledger, x) BY DEF Persisted
  <2> HIDE DEF x
  <2> QED BY <1>1, <1>2, <2>1
<1>4. /\ ledger'[n + 1].parent = cursor /\ ledger'[n + 1].sources = c.sources
      /\ ledger'[n + 1].tail = c.tail /\ ledger'[n + 1].active = TRUE
      /\ cursor' = n + 1 /\ fence' = NoCheckpoint
  BY <1>3 DEF Persisted
<1>5. /\ LedgerTells' /\ \A g \in 0..n : Summarised'[g] = Summarised[g]
      /\ Summarised'[n + 1] = Seqs(c.sources) \cup Summarised[cursor]
  BY NewTelling
<1>6. \A g \in 1..n : ledger[g].parent \in 0..(g - 1) /\ Sound(Summarised[ledger[g].parent], ledger[g])
  BY <1>1 DEF LedgerInv, GenerationsSound
<1> HIDE DEF n, x
<1>7. GenerationsSound'
  <2> SUFFICES ASSUME NEW g \in 1..(n + 1)
               PROVE  ledger'[g].parent \in 0..(g - 1) /\ Sound(Summarised[ledger[g].parent], ledger[g])'
    BY <1>3 DEF GenerationsSound
  <2>1. CASE g = n + 1
    <3>1. Summarised'[ledger'[g].parent] = Summarised[cursor]
      BY <1>1, <1>4, <1>5, <2>1
    <3> QED BY <1>1, <1>4, <2>1, <3>1 DEF Sound, Known, Covers, Below, UnitsOf
  <2>2. CASE g \in 1..n
    <3>1. ledger'[g] = ledger[g] BY <1>3, <2>2
    <3>2. Summarised'[ledger'[g].parent] = Summarised[ledger[g].parent]
      BY <1>1, <1>5, <1>6, <2>2, <3>1
    <3> QED BY <1>6, <2>2, <3>1, <3>2 DEF Sound, Known, Covers, Below, UnitsOf
  <2> QED BY <1>1, <2>1, <2>2
<1>8. Seqs(c.sources) \subseteq DOMAIN rows /\ Seqs(UnitsOf(c)) \subseteq DOMAIN rows
  BY DEF Sound, Known, UnitsOf, Seqs
<1>9. ToldIsKnown'
  <2> SUFFICES ASSUME NEW g \in 0..(n + 1) PROVE Summarised'[g] \subseteq DOMAIN rows
    BY <1>3 DEF ToldIsKnown
  <2>1. \A k \in 0..n : Summarised[k] \subseteq DOMAIN rows
    BY DEF LedgerInv, ToldIsKnown, n
  <2>2. CASE g = n + 1 BY <1>1, <1>5, <1>8, <2>1, <2>2
  <2>3. CASE g \in 0..n BY <1>5, <2>1, <2>3
  <2> QED BY <1>1, <2>2, <2>3
<1>10. Active' = Active \cup {n + 1} /\ Active \subseteq 1..n
  BY <1>1, <1>3, <1>4 DEF Active
<1>11. ToldByActive'
  <2> SUFFICES ASSUME NEW g \in Active', NEW s \in Summarised'[g]
               PROVE  \E h \in Active' : h <= g /\ s \in Seqs(ledger'[h].sources)
    BY DEF ToldByActive
  <2>1. \A k \in Active : \A t \in Summarised[k] :
          \E h \in Active' : h <= k /\ t \in Seqs(ledger'[h].sources)
    BY <1>3, <1>10 DEF LedgerInv, ToldByActive
  <2>2. CASE g \in Active
    BY <1>1, <1>5, <1>10, <2>1, <2>2
  <2>3. CASE g = n + 1 /\ s \in Seqs(c.sources)
    BY <1>1, <1>4, <1>10, <2>3
  <2>4. CASE g = n + 1 /\ s \in Summarised[cursor]
    <3>1. cursor # 0
      BY <2>4, SummarisedUnfolds DEF Telling
    <3>2. cursor \in Active BY <3>1 DEF LedgerInv, LineEnds
    <3> QED BY <1>1, <1>10, <2>1, <2>4, <3>2
  <2> QED BY <1>5, <1>10, <2>2, <2>3, <2>4
<1>12. ActiveIsLive'
  <2> SUFFICES ASSUME NEW g \in Active', NEW s \in Seqs(UnitsOf(ledger'[g])), rows[s].kind = "turn"
               PROVE  rows[s].live
    BY DEF ActiveIsLive, UnitsOf
  <2>1. CASE g \in Active
    BY <1>3, <1>10, <2>1 DEF LedgerInv, ActiveIsLive, UnitsOf
  <2>2. CASE g = n + 1
    <3>1. s \in Seqs(UnitsOf(c)) BY <1>4, <2>2 DEF UnitsOf
    <3>2. PICK u \in UnitsOf(c) : s = u[1] BY <3>1 DEF Seqs
    <3>3. u \in Current(0) BY <3>2 DEF Canonical
    <3> QED BY <3>2, <3>3 DEF Current
  <2> QED BY <1>10, <2>1, <2>2
<1>13. LineEnds'
  <2>1. cursor' \in {0} \cup Active' /\ \A g \in Active' : g <= cursor'
    BY <1>1, <1>4, <1>10
  <2>2. ASSUME NEW g \in Active', NEW h \in Active', h < g
        PROVE  h <= ledger'[g].parent
    <3>1. h \in Active BY <1>1, <1>10, <2>2
    <3>2. CASE g \in Active BY <1>3, <1>10, <2>2, <3>1, <3>2 DEF LedgerInv, LineEnds
    <3>3. CASE g = n + 1 BY <1>4, <3>1, <3>3 DEF LedgerInv, LineEnds
    <3> QED BY <1>10, <3>2, <3>3
  <2>3. ASSUME NEW g \in Active' PROVE ledger'[g].parent \in {0} \cup Active'
    <3>1. CASE g \in Active BY <1>3, <1>10, <3>1 DEF LedgerInv, LineEnds
    <3>2. CASE g = n + 1 BY <1>4, <1>10, <3>2 DEF LedgerInv, LineEnds
    <3> QED BY <1>10, <3>1, <3>2
  <2> QED BY <2>1, <2>2, <2>3 DEF LineEnds
<1>14. ReceiptsKept'
  <2> SUFFICES ASSUME NEW r \in receipts, r.life = life PROVE r.checkpoint.generation <= n + 1
    BY <1>3, <1>4 DEF ReceiptsKept, LedgerInv
  <2>1. r.checkpoint \in Checkpoint /\ r.checkpoint.generation \in Nat
    BY DEF LedgerInv, HistoryTyped, Checkpoint
  <2>2. r.checkpoint.generation <= n \/ r.checkpoint = c
    BY DEF LedgerInv, ReceiptsKept, n
  <2> QED BY <1>1, <2>1, <2>2 DEF n
<1> QED BY <1>3, <1>4, <1>5, <1>7, <1>9, <1>11, <1>12, <1>13, <1>14 DEF n

-----------------------------------------------------------------------------
(* One lemma per kind of step *)

Bounded == MaxUnits \in Nat /\ MaxGenerations \in Nat /\ MaxUpsets \in Nat

\* Nothing is told of an empty ledger.
LEMMA EmptyTells ==
  ASSUME NEW l, l = << >>
  PROVE  \E f : Tells(f, l)
<1> DEFINE f == [g \in 0..0 |-> {}]
<1>1. Len(l) = 0 OBVIOUS
<1>2. f = [g \in 0..0 |-> f[g]] /\ f[0] = {} OBVIOUS
<1> HIDE DEF f
<1>3. Telling(f, l, 0) BY <1>2 DEF Telling
<1>4. Tells(f, l) BY <1>1, <1>2, <1>3, TellsIf
<1> QED BY <1>4

\* A new session has nothing that could be unsound.
LEMMA EmptyHistory ==
  ASSUME rows = << >>, ledger = << >>, cursor = 0, fence = NoCheckpoint, turn = AtRest
  PROVE  /\ LedgerTells /\ GenerationsSound /\ FenceSound /\ TurnSound
         /\ ToldIsKnown /\ ToldByActive /\ ActiveIsLive /\ LineEnds
<1>1. Len(ledger) = 0 /\ DOMAIN ledger = {} /\ turn.pc = "idle" /\ Active = {}
  BY DEF AtRest, Active
<1>2. LedgerTells
  BY EmptyTells DEF LedgerTells
<1>3. Summarised[0] = {}
  BY <1>1, <1>2, SummarisedTells, TellsMeans DEF LedgerTells, Telling
<1> QED BY <1>1, <1>2, <1>3
        DEF GenerationsSound, FenceSound, TurnSound, ToldIsKnown, ToldByActive, ActiveIsLive, LineEnds

\* The initial state satisfies the invariant.
LEMMA InitLedgerInv ==
  ASSUME Bounded, LedgerInit
  PROVE  LedgerInv
<1>1. HistoryTyped
  BY DEF Bounded, LedgerInit, HistoryTyped, Turn, AtRest
<1>2. ReceiptsKept
  BY DEF LedgerInit, ReceiptsKept
<1> QED BY <1>1, <1>2, EmptyHistory DEF LedgerInit, LedgerInv

\* Rows are only appended.
RowsGrow ==
  /\ rows' \in Seq(Row) /\ Len(rows) <= Len(rows')
  /\ \A s \in DOMAIN rows : rows'[s] = rows[s]

\* The fence is still right when rows are appended.
LEMMA FenceKeeps ==
  ASSUME LedgerInv, RowsGrow, UNCHANGED <<ledger, cursor, fence>>,
         turn'.pc \in {"prepared", "received"} => fence # NoCheckpoint
  PROVE  FenceSound'
<1> SUFFICES ASSUME fence # NoCheckpoint
             PROVE  Canonical(UnitsOf(fence))' /\ Sound(Summarised[cursor], fence)'
  BY DEF FenceSound, LedgerInv
<1>1. RowsMove
  BY DEF RowsGrow, RowsMove
<1>2. PICK told, x : told = Summarised[cursor] /\ x = fence
  OBVIOUS
<1>3. Sound(told, x)'
  BY <1>1, <1>2, SoundMoves DEF LedgerInv, FenceSound
<1>4. told = Summarised'[cursor'] /\ x = fence'
  BY <1>1, <1>2, RowsStep DEF LedgerInv, HistoryTyped
<1>5. Sound(Summarised[cursor], fence)'
  BY <1>3, <1>4 DEF Sound, Known, Covers, Below
<1>6. /\ Len(rows) \in Nat /\ DOMAIN rows = 1..Len(rows)
      /\ Len(rows') \in Nat /\ DOMAIN rows' = 1..Len(rows')
  BY DEF LedgerInv, HistoryTyped, RowsGrow
<1>7. Current(0) \subseteq Current(0)'
  BY <1>6 DEF Current, RowsGrow
<1>8. Canonical(UnitsOf(fence))'
  BY <1>7 DEF LedgerInv, FenceSound, Canonical, UnitsOf
<1> QED BY <1>5, <1>8

\* What the running turn was given is still complete when rows are appended.
LEMMA TurnKeeps ==
  ASSUME LedgerInv, RowsGrow, UNCHANGED <<ledger, cursor, fence, turn>>
  PROVE  TurnSound'
<1> SUFFICES ASSUME turn.pc = "running"
             PROVE  /\ Known(turn.units)' /\ Below(Summarised[turn.head.parent], turn.units)'
                    /\ Covers(Summarised[turn.head.parent], turn.units)'
  BY DEF TurnSound, LedgerInv
<1>1. RowsMove
  BY DEF RowsGrow, RowsMove
<1>2. PICK told, units : told = Summarised[turn.head.parent] /\ units = turn.units
  OBVIOUS
<1>3. Known(units) /\ Below(told, units) /\ Covers(told, units) /\ turn.head.parent \in 0..Len(ledger)
  BY <1>2 DEF LedgerInv, TurnSound
<1>4. Known(units)' /\ Covers(told, units)'
  BY <1>1, <1>3, UnitsMove
<1>5. told = Summarised'[turn'.head.parent] /\ units = turn'.units
  BY <1>1, <1>2, <1>3, RowsStep
<1> QED BY <1>3, <1>4, <1>5 DEF Known, Covers, Below

\* Through is the last unit a generation accounts for.
LEMMA ThroughIsLast ==
  ASSUME LedgerInv, NEW g \in DOMAIN ledger
  PROVE  /\ Through(g) \in DOMAIN rows
         /\ \A s \in Summarised[g] : s <= Through(g) /\ \A v \in ledger[g].tail : s < v[1]
         /\ \A u \in UnitsOf(ledger[g]) : u[1] <= Through(g)
         /\ IF ledger[g].tail = {} THEN Through(g) \in Seqs(ledger[g].sources)
            ELSE \E v \in ledger[g].tail : v[1] = Through(g)
<1> DEFINE x == ledger[g]
           last == IF x.tail # {} THEN x.tail ELSE x.sources
           told == Summarised[x.parent]
<1>1. Len(rows) \in Nat /\ DOMAIN rows = 1..Len(rows) /\ DOMAIN ledger = 1..Len(ledger)
  BY DEF LedgerInv, HistoryTyped
<1>2. Sound(told, x)
  BY DEF LedgerInv, GenerationsSound
<1>3. Summarised[g] = Seqs(x.sources) \cup told
  BY <1>1, SummarisedUnfolds DEF Telling
<1>4. told \subseteq DOMAIN rows
  BY <1>1 DEF LedgerInv, ToldIsKnown, GenerationsSound
<1>5. Through(g) = Max(Seqs(last))
  BY DEF Through
<1> HIDE DEF x, told
<1>6. Seqs(last) # {} /\ Seqs(last) \subseteq DOMAIN rows
  BY <1>2 DEF Sound, Known, Seqs, UnitsOf
<1>7. Max(Seqs(last)) \in Seqs(last) /\ \A m \in Seqs(last) : m <= Max(Seqs(last))
  <2>1. Seqs(last) \in SUBSET (0..Len(rows)) BY <1>1, <1>6
  <2> HIDE DEF last
  <2> QED BY <1>1, <1>6, <2>1, MaxOfBounded
<1>8. PICK v \in last : v[1] = Through(g)
  BY <1>5, <1>7 DEF Seqs
<1>9. \A u \in last : u[1] <= Through(g)
  BY <1>5, <1>7 DEF Seqs
<1>10. \A u \in UnitsOf(x) : u[1] \in Nat
  BY <1>1, <1>2 DEF Sound, Known
<1>11. v \in UnitsOf(x) /\ Through(g) \in Nat
  BY <1>8, <1>10 DEF UnitsOf
<1>12. ASSUME NEW u \in UnitsOf(x) PROVE u[1] <= Through(g)
  <2>1. CASE u \in last BY <1>9, <2>1
  <2>2. CASE u \notin last
    <3>1. u \in x.sources /\ v \in x.tail BY <1>12, <2>2, <1>8 DEF UnitsOf
    <3> QED BY <1>2, <1>8, <1>10, <1>11, <1>12, <3>1 DEF Sound
  <2> QED BY <2>1, <2>2
<1>13. ASSUME NEW s \in Summarised[g] PROVE s <= Through(g) /\ \A w \in x.tail : s < w[1]
  <2>1. CASE s \in told
    <3>1. s < v[1] /\ \A w \in x.tail : s < w[1]
      BY <1>2, <1>11, <2>1 DEF Sound, Below, UnitsOf
    <3>2. s \in Nat BY <1>1, <1>4, <2>1
    <3> QED BY <1>8, <1>11, <3>1, <3>2
  <2>2. CASE s \in Seqs(x.sources)
    <3>1. PICK u \in x.sources : u[1] = s BY <2>2 DEF Seqs
    <3> QED BY <1>2, <1>12, <3>1 DEF Sound, UnitsOf
  <2> QED BY <1>3, <1>13, <2>1, <2>2
<1>14. Through(g) \in DOMAIN rows
  BY <1>5, <1>6, <1>7
<1>15. IF x.tail = {} THEN Through(g) \in Seqs(x.sources) ELSE \E w \in x.tail : w[1] = Through(g)
  BY <1>8 DEF Seqs
<1> QED BY <1>12, <1>13, <1>14, <1>15 DEF x

\* What a turn is given: nothing that was told, and no live row left out.
LEMMA UnitsAreComplete ==
  ASSUME LedgerInv
  PROVE  /\ Known(Units(cursor)) /\ Units(cursor) \in UnitSets
         /\ Below(Summarised[cursor], Units(cursor)) /\ Covers(Summarised[cursor], Units(cursor))
         /\ \A s \in DOMAIN rows :
              rows[s].live /\ (\A t \in Summarised[cursor] : t < s) => s \in Seqs(Units(cursor))
<1>1. /\ Len(rows) \in Nat /\ DOMAIN rows = 1..Len(rows) /\ DOMAIN ledger = 1..Len(ledger)
      /\ rows \in Seq(Row) /\ cursor \in 0..Len(ledger)
  BY DEF LedgerInv, HistoryTyped
<1>2. \A s \in DOMAIN rows : rows[s] \in Row /\ rows[s].version \in Nat
  <2>1. \A s \in DOMAIN rows : rows[s] \in Row BY <1>1
  <2> QED BY <2>1 DEF Row
<1>3. ASSUME NEW after PROVE Known(Current(after)) /\ Current(after) \in UnitSets
  BY <1>1, <1>2 DEF Known, Current, UnitSets
<1>4. ASSUME NEW after, NEW s \in DOMAIN rows, rows[s].live, s > after PROVE s \in Seqs(Current(after))
  <2>1. <<s, rows[s].version>> \in Current(after) BY <1>4 DEF Current
  <2> QED BY <2>1 DEF Seqs
<1>5. CASE cursor = 0
  <2>1. Units(cursor) = Current(0) /\ Summarised[cursor] = {}
    BY <1>5, SummarisedUnfolds DEF Units, Telling
  <2>2. \A s \in DOMAIN rows : s > 0 BY <1>1
  <2> QED BY <1>3, <1>4, <2>1, <2>2 DEF Below, Covers
<1>6. CASE cursor # 0
  <2>1. cursor \in DOMAIN ledger BY <1>1, <1>6
  <2> DEFINE x == ledger[cursor]
             through == Through(cursor)
  <2>2. Units(cursor) = x.tail \cup Current(through)
    BY <1>6 DEF Units
  <2>3. /\ through \in Nat
        /\ \A s \in Summarised[cursor] : s <= through /\ \A v \in x.tail : s < v[1]
        /\ IF x.tail = {} THEN through \in Seqs(x.sources) ELSE \E v \in x.tail : v[1] = through
    BY <1>1, <2>1, ThroughIsLast
  <2>4. Sound(Summarised[x.parent], x) /\ x \in Generation
    BY <2>1 DEF LedgerInv, GenerationsSound, HistoryTyped
  <2>5. Summarised[cursor] = Seqs(x.sources) \cup Summarised[x.parent] /\ Summarised[cursor] \subseteq DOMAIN rows
    BY <1>1, <2>1, SummarisedUnfolds DEF Telling, LedgerInv, ToldIsKnown
  <2> HIDE DEF x, through
  <2>6. Known(x.tail) /\ x.tail \in UnitSets
    BY <2>4 DEF Sound, Known, UnitsOf, Generation
  <2>7. Known(Units(cursor)) /\ Units(cursor) \in UnitSets
    BY <1>3, <2>2, <2>6 DEF Known, UnitSets
  <2>8. ASSUME NEW t \in Summarised[cursor], NEW u \in Units(cursor) PROVE t < u[1]
    <3>1. CASE u \in x.tail BY <2>3, <3>1
    <3>2. CASE u \in Current(through)
      <4>1. u[1] > through /\ u[1] \in DOMAIN rows BY <3>2 DEF Current
      <4> QED BY <1>1, <2>3, <2>5, <4>1
    <3> QED BY <2>2, <3>1, <3>2
  <2>9. ASSUME NEW s \in DOMAIN rows, rows[s].live, \A t \in Summarised[cursor] : t < s
        PROVE  s \in Seqs(Units(cursor))
    <3>1. CASE s > through
      <4>1. s \in Seqs(Current(through)) BY <1>4, <2>9, <3>1
      <4> QED BY <2>2, <4>1 DEF Seqs
    <3>2. CASE s <= through
      <4>1. x.tail # {}
        <5> SUFFICES ASSUME x.tail = {} PROVE FALSE OBVIOUS
        <5>1. through < s BY <2>3, <2>5, <2>9
        <5> QED BY <1>1, <2>3, <3>2, <5>1
      <4>2. PICK v \in x.tail : v[1] = through BY <2>3, <4>1
      <4>3. s \in Seqs(x.tail) BY <2>4, <2>5, <2>9, <3>2, <4>2 DEF Sound, Covers
      <4> QED BY <2>2, <4>3 DEF Seqs
    <3> QED BY <1>1, <2>3, <3>1, <3>2
  <2> QED BY <2>7, <2>8, <2>9 DEF Below, Covers
<1> QED BY <1>5, <1>6

\* Steps of the turn that leave the history alone.
LEMMA TurnStepKeeps ==
  ASSUME Bounded, LedgerInv, Admit \/ Project \/ Prepare \/ WriteReceipt \/ Crash
  PROVE  LedgerInv'
<1>1. UNCHANGED <<rows, ledger, cursor, life>>
  BY DEF Admit, Project, Prepare, WriteReceipt, Crash
<1>2. RowsGrow /\ RowsMove /\ TurnRowsStay
  BY <1>1 DEF RowsGrow, RowsMove, TurnRowsStay, LedgerInv, HistoryTyped
<1>3. /\ LedgerTells' /\ GenerationsSound' /\ ToldIsKnown' /\ ToldByActive' /\ LineEnds' /\ ActiveIsLive'
      /\ \A g \in 0..Len(ledger) : Summarised'[g] = Summarised[g]
  BY <1>1, <1>2, RowsStep
<1>4. Len(ledger) \in Nat /\ Len(rows) \in Nat /\ DOMAIN rows = 1..Len(rows) /\ cursor \in 0..Len(ledger)
  BY DEF LedgerInv, HistoryTyped
<1>5. CASE Admit
  <2>1. HistoryTyped' BY <1>5 DEF Admit, LedgerInv, HistoryTyped, Turn
  <2>2. FenceSound' BY <1>1, <1>2, <1>5, FenceKeeps DEF Admit
  <2>3. TurnSound' /\ ReceiptsKept' BY <1>5 DEF Admit, TurnSound, ReceiptsKept, LedgerInv
  <2> QED BY <1>3, <2>1, <2>2, <2>3 DEF LedgerInv
<1>6. CASE Crash
  <2>1. turn'.pc = "idle" /\ UNCHANGED <<fence, receipts>> BY <1>6 DEF Crash, AtRest
  <2>2. HistoryTyped' BY <1>6 DEF Crash, AtRest, Upset, LedgerInv, HistoryTyped, Turn, Bounded
  <2>3. FenceSound' BY <1>1, <1>2, <2>1, FenceKeeps
  <2>4. TurnSound' /\ ReceiptsKept' BY <1>1, <2>1 DEF TurnSound, ReceiptsKept, LedgerInv
  <2> QED BY <1>3, <2>2, <2>3, <2>4 DEF LedgerInv
<1>7. CASE Project
  <2>1. /\ turn' = [pc |-> "running", head |-> Head0, units |-> Units(cursor)]
        /\ fence = NoCheckpoint /\ UNCHANGED <<fence, receipts, upsets>>
    BY <1>7 DEF Project
  <2>2. /\ Known(Units(cursor)) /\ Units(cursor) \in UnitSets
        /\ Below(Summarised[cursor], Units(cursor)) /\ Covers(Summarised[cursor], Units(cursor))
    BY UnitsAreComplete
  <2>3. HistoryTyped'
    BY <1>1, <1>4, <2>1, <2>2 DEF LedgerInv, HistoryTyped, Turn, Head0
  <2>4. FenceSound' BY <1>1, <1>2, <2>1, FenceKeeps
  <2>5. turn'.head.parent = cursor /\ turn'.units = Units(cursor) BY <2>1 DEF Head0
  <2>6. TurnSound'
    BY <1>1, <1>3, <1>4, <2>1, <2>2, <2>5 DEF TurnSound, Known, Below, Covers
  <2>7. ReceiptsKept' BY <1>1, <2>1 DEF ReceiptsKept, LedgerInv
  <2> QED BY <1>3, <2>3, <2>4, <2>6, <2>7 DEF LedgerInv
<1>8. CASE Prepare
  <2>1. PICK c \in Checkpoints(turn.head, turn.units) :
          IF Valid(c)
          THEN fence' = c /\ turn' = [turn EXCEPT !.pc = "prepared"]
          ELSE turn' = AtRest /\ UNCHANGED fence
    BY <1>8 DEF Prepare
  <2>2. turn.pc = "running" /\ Len(ledger) < MaxGenerations /\ UNCHANGED <<receipts, upsets>>
    BY <1>8 DEF Prepare
  <2>3. CASE ~Valid(c)
    <3>1. turn'.pc = "idle" /\ turn' \in Turn /\ UNCHANGED fence BY <2>1, <2>3 DEF AtRest, Turn
    <3>2. HistoryTyped' BY <1>1, <2>2, <3>1 DEF LedgerInv, HistoryTyped
    <3>3. FenceSound' BY <1>1, <1>2, <3>1, FenceKeeps
    <3>4. TurnSound' /\ ReceiptsKept' BY <1>1, <2>2, <3>1 DEF TurnSound, ReceiptsKept, LedgerInv
    <3> QED BY <1>3, <3>2, <3>3, <3>4 DEF LedgerInv
  <2>4. CASE Valid(c)
    <3>1. /\ c \in Checkpoint /\ c.parent = cursor /\ c.generation = Len(ledger) + 1
          /\ Canonical(UnitsOf(c)) /\ Sound(Summarised[cursor], c)
      BY <2>2, <2>4, CheckpointIsSound
    <3>2. fence' = c /\ turn' \in Turn /\ turn'.pc = "prepared" /\ fence = NoCheckpoint
      BY <2>1, <2>2, <2>4 DEF LedgerInv, HistoryTyped, TurnSound, Turn
    <3>3. c # NoCheckpoint BY <1>4, <3>1 DEF NoCheckpoint
    <3>4. HistoryTyped' BY <1>1, <2>2, <3>1, <3>2 DEF LedgerInv, HistoryTyped
    <3>5. Summarised'[cursor'] = Summarised[cursor] BY <1>1, <1>3, <1>4
    <3>6. FenceSound'
      BY <1>1, <2>2, <3>1, <3>2, <3>3, <3>5 DEF FenceSound, Canonical, Current, Sound, Known, Below, Covers
    <3>7. TurnSound' BY <3>2 DEF TurnSound
    <3>8. ReceiptsKept' BY <1>1, <2>2, <3>2 DEF ReceiptsKept, LedgerInv
    <3> QED BY <1>3, <3>4, <3>6, <3>7, <3>8 DEF LedgerInv
  <2> QED BY <2>3, <2>4
<1>9. CASE WriteReceipt
  <2>1. turn.pc = "prepared" /\ UNCHANGED fence BY <1>9 DEF WriteReceipt
  <2>2. fence # NoCheckpoint /\ fence \in Checkpoint
    BY <2>1 DEF LedgerInv, FenceSound, HistoryTyped
  <2>3. /\ turn' \in Turn /\ turn'.pc \in {"received", "idle"} /\ upsets' \in 0..MaxUpsets /\ upsets <= upsets'
        /\ receipts' \in {receipts, receipts \cup {[life |-> life, checkpoint |-> fence]}}
    <3>1. turn \in Turn /\ upsets \in 0..MaxUpsets BY DEF LedgerInv, HistoryTyped
    <3>2. CASE /\ receipts' = receipts \cup {[life |-> life, checkpoint |-> fence]}
               /\ turn' = [turn EXCEPT !.pc = "received"]
               /\ UNCHANGED upsets
      <4>1. turn' \in Turn /\ turn'.pc = "received" BY <2>1, <3>1, <3>2 DEF Turn
      <4> QED BY <3>1, <3>2, <4>1
    <3>3. CASE Upset /\ turn' = AtRest /\ UNCHANGED receipts
      BY <3>1, <3>3 DEF AtRest, Turn, Upset, Bounded
    <3> QED BY <1>9, <3>2, <3>3 DEF WriteReceipt
  <2>4. HistoryTyped'
    <3>1. [life |-> life, checkpoint |-> fence] \in [life : Nat, checkpoint : Checkpoint]
      BY <2>2 DEF LedgerInv, HistoryTyped
    <3>2. life <= upsets' + 1
      <4>1. life \in Nat /\ life <= upsets + 1 /\ upsets \in Nat /\ upsets' \in Nat /\ upsets <= upsets'
        BY <2>3 DEF LedgerInv, HistoryTyped, Bounded
      <4>2. \A a, b, c \in Nat : a <= b + 1 /\ b <= c => a <= c + 1 OBVIOUS
      <4> QED BY <4>1, <4>2
    <3>3. receipts' \subseteq [life : Nat, checkpoint : Checkpoint]
      BY <2>3, <3>1 DEF LedgerInv, HistoryTyped
    <3> QED BY <1>1, <2>1, <2>3, <3>2, <3>3 DEF LedgerInv, HistoryTyped
  <2>5. FenceSound' BY <1>1, <1>2, <2>1, <2>2, FenceKeeps
  <2>6. TurnSound' BY <2>3 DEF TurnSound
  <2>7. ReceiptsKept' BY <1>1, <2>1, <2>2, <2>3 DEF ReceiptsKept, LedgerInv, HistoryTyped
  <2> QED BY <1>3, <2>4, <2>5, <2>6, <2>7 DEF LedgerInv
<1> QED BY <1>5, <1>6, <1>7, <1>8, <1>9

\* The commit steps: a checkpoint becomes the head of the ledger, or is refused.
LEMMA CommitStepKeeps ==
  ASSUME Bounded, LedgerInv, Recover \/ Persist \/ PersistExcluded
  PROVE  LedgerInv'
<1>1. UNCHANGED <<rows, life, receipts, upsets>>
  BY DEF Recover, Persist, PersistExcluded
<1>2. /\ Len(ledger) \in Nat /\ Len(rows) \in Nat /\ DOMAIN rows = 1..Len(rows) /\ cursor \in 0..Len(ledger)
      /\ rows \in Seq(Row)
  BY DEF LedgerInv, HistoryTyped
<1>3. RowsGrow /\ RowsMove /\ TurnRowsStay
  BY <1>1, <1>2 DEF RowsGrow, RowsMove, TurnRowsStay
<1>4. ASSUME UNCHANGED <<ledger, cursor>>, turn' \in Turn, turn'.pc \in {"idle", "admitted"},
             fence' \in {fence, NoCheckpoint}, fence' # fence => ReceiptFor(Len(ledger) + 1) = {}
      PROVE  LedgerInv'
  <2>1. /\ LedgerTells' /\ GenerationsSound' /\ ToldIsKnown' /\ ToldByActive' /\ LineEnds' /\ ActiveIsLive'
    BY <1>3, <1>4, RowsStep
  <2>2. HistoryTyped' BY <1>1, <1>4 DEF LedgerInv, HistoryTyped
  <2>3. FenceSound'
    <3>1. CASE fence' = fence BY <1>3, <1>4, <3>1, FenceKeeps
    <3>2. CASE fence' = NoCheckpoint BY <1>4, <3>2 DEF FenceSound
    <3> QED BY <1>4, <3>1, <3>2
  <2>4. TurnSound' BY <1>4 DEF TurnSound
  <2>5. ReceiptsKept'
    <3>1. CASE fence' = fence BY <1>1, <1>4, <3>1 DEF ReceiptsKept, LedgerInv
    <3>2. CASE fence' # fence
      <4>1. fence # NoCheckpoint => fence.generation = Len(ledger) + 1 BY DEF LedgerInv, FenceSound
      <4>2. \A r \in receipts : ~(r.life = life /\ r.checkpoint.generation = Len(ledger) + 1)
        BY <1>4, <3>2 DEF ReceiptFor
      <4> QED BY <1>1, <1>4, <4>1, <4>2 DEF ReceiptsKept, LedgerInv
    <3> QED BY <3>1, <3>2
  <2> QED BY <2>1, <2>2, <2>3, <2>4, <2>5 DEF LedgerInv
<1>5. ASSUME NEW c \in Checkpoint, c.parent = cursor, c.generation = Len(ledger) + 1, Len(ledger) < MaxGenerations,
             Canonical(UnitsOf(c)), Sound(Summarised[cursor], c), fence \in {NoCheckpoint, c}, Persisted(c),
             Advanced(c) \/ (turn.pc = "admitted" /\ UNCHANGED turn)
      PROVE  LedgerInv'
  <2>1. /\ LedgerTells' /\ GenerationsSound' /\ ToldIsKnown' /\ ToldByActive' /\ ActiveIsLive' /\ LineEnds'
        /\ ReceiptsKept' /\ ledger' \in Seq(Generation) /\ Len(ledger') = Len(ledger) + 1
        /\ cursor' = Len(ledger) + 1 /\ Summarised'[cursor'] = Seqs(c.sources) \cup Summarised[cursor]
        /\ fence' = NoCheckpoint
    BY <1>1, <1>5, PersistedKeeps
  <2>2. turn' \in Turn /\ turn'.pc \in {"admitted", "running"}
    BY <1>5 DEF Advanced, Turn, Checkpoint, LedgerInv, HistoryTyped
  <2>3. HistoryTyped'
    <3>1. cursor' \in 0..Len(ledger') /\ Len(ledger') <= MaxGenerations
      BY <1>2, <1>5, <2>1 DEF Bounded
    <3> QED BY <1>1, <2>1, <2>2, <3>1 DEF LedgerInv, HistoryTyped
  <2>4. FenceSound' BY <2>1, <2>2 DEF FenceSound
  <2>5. ASSUME Advanced(c) PROVE TurnSound'
    <3>1. turn'.head.parent = Len(ledger) + 1 /\ turn'.units = c.tail
      BY <1>5, <2>5 DEF Advanced
    <3>2. Known(c.tail) /\ Below(Summarised'[cursor'], c.tail) /\ Covers(Summarised'[cursor'], c.tail)
      <4>1. Known(c.tail) BY <1>5 DEF Sound, Known, UnitsOf
      <4>2. Below(Summarised'[cursor'], c.tail)
        BY <1>5, <2>1 DEF Sound, Below, UnitsOf, Seqs
      <4>3. Summarised'[cursor'] = Summarised[cursor] \cup Seqs(c.sources) BY <2>1
      <4>4. Covers(Summarised'[cursor'], c.tail)
        BY <1>5, <4>3 DEF Sound
      <4> QED BY <4>1, <4>2, <4>4
    <3> QED BY <1>1, <1>2, <2>1, <3>1, <3>2 DEF TurnSound, Known, Below, Covers
  <2>6. ASSUME turn.pc = "admitted", UNCHANGED turn PROVE TurnSound'
    BY <2>6 DEF TurnSound
  <2> QED BY <1>5, <2>1, <2>3, <2>4, <2>5, <2>6 DEF LedgerInv
<1>6. ASSUME fence # NoCheckpoint
      PROVE  /\ fence \in Checkpoint /\ fence.parent = cursor /\ fence.generation = Len(ledger) + 1
             /\ Len(ledger) < MaxGenerations /\ Canonical(UnitsOf(fence)) /\ Sound(Summarised[cursor], fence)
  BY <1>6 DEF LedgerInv, FenceSound, HistoryTyped
<1>7. CASE Recover
  <2>1. turn.pc = "admitted" /\ fence # NoCheckpoint /\ turn \in Turn BY <1>7 DEF Recover, LedgerInv, HistoryTyped
  <2>2. CASE ReceiptFor(Len(ledger) + 1) = {}
    BY <1>4, <1>7, <2>1, <2>2 DEF Recover
  <2>3. CASE ReceiptFor(Len(ledger) + 1) # {}
    <3> DEFINE c == (CHOOSE r \in ReceiptFor(Len(ledger) + 1) : TRUE).checkpoint
    <3>1. CASE Valid(c) /\ c = fence
      <4>1. Persisted(fence) /\ UNCHANGED turn BY <1>7, <2>3, <3>1 DEF Recover
      <4> QED BY <1>5, <1>6, <2>1, <4>1
    <3>2. CASE ~(Valid(c) /\ c = fence)
      <4>1. turn' = AtRest /\ UNCHANGED <<ledger, cursor, fence>> BY <1>7, <2>3, <3>2 DEF Recover
      <4>2. turn' \in Turn /\ turn'.pc = "idle" BY <4>1 DEF AtRest, Turn
      <4> QED BY <1>4, <4>1, <4>2
    <3> QED BY <3>1, <3>2
  <2> QED BY <2>2, <2>3
<1>8. CASE Persist
  <2>1. fence # NoCheckpoint BY <1>8 DEF Persist, LedgerInv, FenceSound
  <2>2. CASE Valid(fence)
    <3>1. Persisted(fence) /\ Advanced(fence) BY <1>8, <2>2 DEF Persist
    <3> QED BY <1>5, <1>6, <2>1, <3>1
  <2>3. CASE ~Valid(fence)
    <3>1. turn' = AtRest /\ UNCHANGED <<ledger, cursor, fence>> BY <1>8, <2>3 DEF Persist
    <3>2. turn' \in Turn /\ turn'.pc = "idle" BY <3>1 DEF AtRest, Turn
    <3> QED BY <1>4, <3>1, <3>2
  <2> QED BY <2>2, <2>3
<1>9. CASE PersistExcluded
  <2>1. PICK c \in Checkpoints(turn.head, turn.units) :
          IF Valid(c) /\ fence = NoCheckpoint
          THEN Persisted(c) /\ Advanced(c)
          ELSE turn' = AtRest /\ UNCHANGED <<ledger, cursor, fence>>
    BY <1>9 DEF PersistExcluded
  <2>2. turn.pc = "running" /\ Len(ledger) < MaxGenerations BY <1>9 DEF PersistExcluded
  <2>3. CASE Valid(c) /\ fence = NoCheckpoint
    <3>1. /\ c \in Checkpoint /\ c.parent = cursor /\ c.generation = Len(ledger) + 1
          /\ Canonical(UnitsOf(c)) /\ Sound(Summarised[cursor], c)
      BY <2>2, <2>3, CheckpointIsSound
    <3> QED BY <1>5, <2>1, <2>2, <2>3, <3>1
  <2>4. CASE ~(Valid(c) /\ fence = NoCheckpoint)
    <3>1. turn' = AtRest /\ UNCHANGED <<ledger, cursor, fence>> BY <2>1, <2>4
    <3>2. turn' \in Turn /\ turn'.pc = "idle" BY <3>1 DEF AtRest, Turn
    <3> QED BY <1>4, <3>1, <3>2
  <2> QED BY <2>3, <2>4
<1> QED BY <1>7, <1>8, <1>9

\* A turn or somebody else writes a unit.
LEMMA AppendKeeps ==
  ASSUME LedgerInv, EndTurn \/ AppendPlain
  PROVE  LedgerInv'
<1>1. UNCHANGED <<ledger, cursor, life, fence, receipts, upsets>>
  BY DEF EndTurn, AppendPlain
<1>2. RowsGrow
  <2>1. rows \in Seq(Row) /\ \A kind \in {"turn", "plain"} : Unit(kind) \in Row
    BY DEF LedgerInv, HistoryTyped, Row, Unit
  <2>2. rows' = rows \/ \E kind \in {"turn", "plain"} : rows' = Append(rows, Unit(kind))
    BY DEF EndTurn, AppendPlain
  <2>3. CASE rows' = rows BY <2>1, <2>3 DEF RowsGrow
  <2>4. ASSUME NEW u \in Row, rows' = Append(rows, u) PROVE RowsGrow
    BY <2>1, <2>4 DEF RowsGrow
  <2> QED BY <2>1, <2>2, <2>3, <2>4
<1>3. RowsMove /\ TurnRowsStay
  BY <1>2 DEF RowsGrow, RowsMove, TurnRowsStay
<1>4. LedgerTells' /\ GenerationsSound' /\ ToldIsKnown' /\ ToldByActive' /\ LineEnds' /\ ActiveIsLive'
  BY <1>1, <1>3, RowsStep
<1>5. turn' = turn \/ (turn' = AtRest /\ fence = NoCheckpoint)
  BY DEF EndTurn, AppendPlain, LedgerInv, TurnSound
<1>6. turn' \in Turn /\ (turn' = AtRest => turn'.pc = "idle")
  BY <1>5 DEF LedgerInv, HistoryTyped, AtRest, Turn
<1>7. HistoryTyped' BY <1>1, <1>2, <1>6 DEF LedgerInv, HistoryTyped, RowsGrow
<1>8. FenceSound'
  <2>1. turn'.pc \in {"prepared", "received"} => fence # NoCheckpoint
    BY <1>5, <1>6 DEF LedgerInv, FenceSound
  <2> QED BY <1>1, <1>2, <2>1, FenceKeeps
<1>9. TurnSound'
  <2>1. CASE turn' = turn BY <1>1, <1>2, <2>1, TurnKeeps
  <2>2. CASE turn' = AtRest BY <1>6, <2>2 DEF TurnSound
  <2> QED BY <1>5, <2>1, <2>2
<1>10. ReceiptsKept' BY <1>1 DEF ReceiptsKept, LedgerInv
<1> QED BY <1>4, <1>7, <1>8, <1>9, <1>10 DEF LedgerInv

\* While no turn is admitted and no fence stands, only the ledger can be unsound.
LEMMA IdleKeeps ==
  ASSUME Bounded, LedgerInv, Editable, UNCHANGED <<fence, receipts, turn>>
  PROVE  /\ FenceSound' /\ TurnSound' /\ turn \in Turn /\ fence = NoCheckpoint
         /\ upsets' \in 0..MaxUpsets /\ upsets' = upsets + 1
<1>1. turn.pc = "idle" /\ fence = NoCheckpoint /\ upsets < MaxUpsets /\ upsets' = upsets + 1
  BY DEF Editable, AtRest, Upset
<1>2. FenceSound' /\ TurnSound'
  BY <1>1 DEF FenceSound, TurnSound
<1>3. turn \in Turn /\ upsets \in 0..MaxUpsets
  BY DEF LedgerInv, HistoryTyped
<1>4. upsets' \in 0..MaxUpsets
  BY <1>1, <1>3 DEF Bounded
<1> QED BY <1>1, <1>2, <1>3, <1>4

\* The dashboard edits a message or deletes one no turn wrote.
LEMMA MessageStepKeeps ==
  ASSUME Bounded, LedgerInv, EditMessage \/ DeleteMessage
  PROVE  LedgerInv'
<1>1. UNCHANGED <<ledger, cursor, life, fence, receipts, turn>> /\ Editable
  BY DEF EditMessage, DeleteMessage
<1>2. rows \in Seq(Row) /\ Len(rows) \in Nat /\ DOMAIN rows = 1..Len(rows)
  BY DEF LedgerInv, HistoryTyped
<1>3. RowsMove /\ TurnRowsStay
  <2>1. PICK s \in DOMAIN rows :
          /\ rows[s].live
          /\ \/ rows' = [rows EXCEPT ![s].version = @ + 1]
             \/ rows[s].kind = "plain" /\ rows' = [rows EXCEPT ![s].live = FALSE, ![s].version = 0]
    BY DEF EditMessage, DeleteMessage
  <2>2. rows[s] \in Row BY <1>2
  <2>3. PICK row \in Row :
          /\ rows' = [rows EXCEPT ![s] = row] /\ row.kind = rows[s].kind
          /\ row.live => rows[s].live
          /\ row.kind = "turn" => row.live = rows[s].live
    <3>1. CASE rows' = [rows EXCEPT ![s].version = @ + 1]
      <4> DEFINE row == [rows[s] EXCEPT !.version = @ + 1]
      <4>1. row \in Row /\ row.kind = rows[s].kind /\ row.live = rows[s].live BY <2>2 DEF Row
      <4>2. rows' = [rows EXCEPT ![s] = row] BY <3>1
      <4> QED BY <4>1, <4>2
    <3>2. CASE rows[s].kind = "plain" /\ rows' = [rows EXCEPT ![s].live = FALSE, ![s].version = 0]
      <4> DEFINE row == [rows[s] EXCEPT !.live = FALSE, !.version = 0]
      <4>1. row \in Row /\ row.kind = "plain" /\ row.live = FALSE BY <2>2, <3>2 DEF Row
      <4>2. rows' = [rows EXCEPT ![s] = row] BY <1>2, <2>2, <3>2
      <4> QED BY <3>2, <4>1, <4>2
    <3> QED BY <2>1, <3>1, <3>2
  <2>4. rows' \in Seq(Row) /\ Len(rows') = Len(rows) BY <1>2, <2>3
  <2>5. \A k \in DOMAIN rows : rows'[k] = IF k = s THEN row ELSE rows[k] BY <1>2, <2>3
  <2>6. \A k \in DOMAIN rows : rows'[k].live => rows[k].live
    BY <2>1, <2>3, <2>5
  <2>7. \A k \in DOMAIN rows : rows'[k].kind = "turn" => rows[k].kind = "turn" /\ rows'[k].live = rows[k].live
    BY <2>1, <2>3, <2>5
  <2>8. Len(rows) <= Len(rows')
    BY <1>2, <2>4
  <2> QED BY <2>4, <2>6, <2>7, <2>8 DEF RowsMove, TurnRowsStay
<1>4. LedgerTells' /\ GenerationsSound' /\ ToldIsKnown' /\ ToldByActive' /\ LineEnds' /\ ActiveIsLive'
  BY <1>1, <1>3, RowsStep
<1>5. FenceSound' /\ TurnSound' /\ turn \in Turn /\ upsets' \in 0..MaxUpsets /\ upsets' = upsets + 1
  BY <1>1, IdleKeeps
<1>6. HistoryTyped'
  <2>1. life \in Nat /\ upsets \in Nat /\ life <= upsets + 1 BY DEF LedgerInv, HistoryTyped, Bounded
  <2>2. life <= upsets' + 1 BY <1>5, <2>1
  <2> QED BY <1>1, <1>3, <1>5, <2>2 DEF LedgerInv, HistoryTyped, RowsMove
<1>7. ReceiptsKept' BY <1>1 DEF ReceiptsKept, LedgerInv
<1> QED BY <1>4, <1>5, <1>6, <1>7 DEF LedgerInv

\* The dashboard deletes an interaction: the generations that saw it and those after
\* them are withdrawn.
LEMMA InteractionStepKeeps ==
  ASSUME Bounded, LedgerInv, DeleteInteraction
  PROVE  LedgerInv'
<1>1. UNCHANGED <<life, fence, receipts, turn>> /\ Editable
  BY DEF DeleteInteraction
<1>2. /\ rows \in Seq(Row) /\ Len(rows) \in Nat /\ DOMAIN rows = 1..Len(rows)
      /\ ledger \in Seq(Generation) /\ Len(ledger) \in Nat /\ DOMAIN ledger = 1..Len(ledger)
      /\ cursor \in 0..Len(ledger)
  BY DEF LedgerInv, HistoryTyped
<1>3. PICK s \in DOMAIN rows :
        /\ rows[s].live /\ rows[s].kind = "turn"
        /\ rows' = [rows EXCEPT ![s].live = FALSE, ![s].version = 0]
        /\ ledger' = [g \in DOMAIN ledger |-> [ledger[g] EXCEPT !.active = g \in Active \ Invalid(s)]]
        /\ cursor' = IF Invalid(s) = {} THEN cursor ELSE Max({0} \cup (Active \ Invalid(s)))
  BY DEF DeleteInteraction, Active
<1> DEFINE kept == Active \ Invalid(s)
           row == [rows[s] EXCEPT !.live = FALSE, !.version = 0]
<1>4. RowsMove /\ \A k \in DOMAIN rows \ {s} : rows'[k] = rows[k]
  <2>1. rows[s] \in Row BY <1>2
  <2>2. row \in Row /\ row.live = FALSE BY <2>1 DEF Row
  <2>3. rows' = [rows EXCEPT ![s] = row] BY <1>2, <1>3, <2>1
  <2> HIDE DEF row
  <2>4. rows' \in Seq(Row) /\ Len(rows') = Len(rows) BY <1>2, <2>2, <2>3
  <2>5. \A k \in DOMAIN rows : rows'[k] = IF k = s THEN row ELSE rows[k] BY <1>2, <2>3
  <2> QED BY <1>2, <2>2, <2>4, <2>5 DEF RowsMove
<1>5. /\ ledger' \in Seq(Generation) /\ Len(ledger') = Len(ledger) /\ DOMAIN ledger' = DOMAIN ledger
      /\ \A g \in DOMAIN ledger : /\ ledger'[g].parent = ledger[g].parent
                                  /\ ledger'[g].sources = ledger[g].sources
                                  /\ ledger'[g].tail = ledger[g].tail
                                  /\ ledger'[g].active = (g \in kept)
  <2> HIDE DEF kept
  <2>1. ledger' = [g \in 1..Len(ledger) |-> [ledger[g] EXCEPT !.active = g \in kept]]
    BY <1>2, <1>3 DEF kept
  <2>2. \A g \in 1..Len(ledger) : ledger[g] \in Generation BY <1>2
  <2>3. ASSUME NEW g \in 1..Len(ledger) PROVE [ledger[g] EXCEPT !.active = g \in kept] \in Generation
    <3>1. \A x \in Generation : \A b \in BOOLEAN : [x EXCEPT !.active = b] \in Generation
      BY DEF Generation
    <3>2. (g \in kept) \in BOOLEAN OBVIOUS
    <3> QED BY <2>2, <3>1, <3>2
  <2>4. ledger' \in [1..Len(ledger) -> Generation] BY <2>1, <2>3
  <2>5. ledger' \in Seq(Generation) /\ Len(ledger') = Len(ledger) BY <1>2, <2>4
  <2> QED BY <1>2, <2>1, <2>2, <2>5 DEF Generation
<1>6. Active' = kept /\ kept \subseteq Active
  BY <1>5 DEF Active
<1>7. ASSUME NEW g \in kept, NEW h \in Active, h <= g
      PROVE  h \in kept /\ s \notin Seqs(ledger[h].sources) /\ s \notin Seqs(UnitsOf(ledger[h]))
  <2>1. g \in DOMAIN ledger /\ h \in DOMAIN ledger /\ ledger[g].active /\ ledger[h].active BY <1>7 DEF Active
  <2>2. s \notin Seqs(UnitsOf(ledger[h])) BY <1>7, <2>1 DEF Invalid, UnitsOf
  <2>3. h \notin Invalid(s)
    <3> SUFFICES ASSUME h \in Invalid(s) PROVE FALSE OBVIOUS
    <3>1. PICK k \in DOMAIN ledger :
            ledger[k].active /\ s \in Seqs(ledger[k].sources \cup ledger[k].tail) /\ k <= h
      BY DEF Invalid
    <3>2. k <= g BY <1>2, <1>7, <2>1, <3>1
    <3> QED BY <1>7, <2>1, <3>1, <3>2 DEF Invalid
  <2> QED BY <1>7, <2>2, <2>3 DEF Seqs, UnitsOf
<1> HIDE DEF kept
<1>8. LedgerTells' /\ \A g \in 0..Len(ledger) : Summarised'[g] = Summarised[g]
  BY <1>5, SameTelling
<1>9. GenerationsSound'
  <2> SUFFICES ASSUME NEW g \in DOMAIN ledger
               PROVE  ledger'[g].parent \in 0..(g - 1) /\ Sound(Summarised[ledger[g].parent], ledger[g])'
    BY <1>5 DEF GenerationsSound
  <2>1. ledger[g].parent \in 0..(g - 1) /\ Sound(Summarised[ledger[g].parent], ledger[g])
    BY DEF LedgerInv, GenerationsSound
  <2>2. PICK told, x : told = Summarised[ledger[g].parent] /\ x = ledger[g]
    OBVIOUS
  <2>3. Sound(told, x)' BY <1>4, <2>1, <2>2, SoundMoves
  <2>4. told = Summarised'[ledger'[g].parent]
    <3>1. ledger[g].parent \in 0..Len(ledger) BY <1>2, <2>1
    <3> QED BY <1>5, <1>8, <2>2, <3>1
  <2> QED BY <1>5, <2>1, <2>2, <2>3, <2>4 DEF Sound, Known, Covers, Below, UnitsOf
<1>10. ToldIsKnown'
  BY <1>2, <1>4, <1>5, <1>8 DEF ToldIsKnown, LedgerInv, RowsMove
<1>11. ToldByActive'
  <2> SUFFICES ASSUME NEW g \in kept, NEW t \in Summarised[g]
               PROVE  \E h \in kept : h <= g /\ t \in Seqs(ledger[h].sources)
    BY <1>2, <1>5, <1>6, <1>8 DEF ToldByActive, Active
  <2>1. PICK h \in Active : h <= g /\ t \in Seqs(ledger[h].sources)
    BY <1>6 DEF LedgerInv, ToldByActive
  <2> QED BY <1>7, <2>1
<1>12. ActiveIsLive'
  <2> SUFFICES ASSUME NEW g \in kept, NEW k \in Seqs(UnitsOf(ledger[g])), rows'[k].kind = "turn"
               PROVE  rows'[k].live
    BY <1>5, <1>6 DEF ActiveIsLive, Active, UnitsOf
  <2>1. g \in Active /\ g <= g BY <1>2, <1>6 DEF Active
  <2>2. k # s BY <1>7, <2>1
  <2>3. k \in DOMAIN rows
    BY <2>1 DEF Active, LedgerInv, GenerationsSound, Sound, Known, Seqs
  <2> QED BY <1>4, <2>1, <2>2, <2>3 DEF LedgerInv, ActiveIsLive
<1>13. cursor' \in {0} \cup kept /\ \A g \in kept : g <= cursor'
  <2>1. CASE Invalid(s) = {}
    <3>1. kept = Active BY <2>1 DEF kept
    <3> QED BY <1>3, <2>1, <3>1 DEF LedgerInv, LineEnds
  <2>2. CASE Invalid(s) # {}
    <3> DEFINE S == {0} \cup kept
    <3>1. S \in SUBSET (0..Len(ledger)) /\ S # {} BY <1>2, <1>6 DEF Active
    <3>2. cursor' = Max(S) BY <1>3, <2>2 DEF kept
    <3> HIDE DEF S
    <3>3. cursor' \in S /\ \A m \in S : m <= cursor' BY <1>2, <3>1, <3>2, MaxOfBounded
    <3> QED BY <3>3 DEF S
  <2> QED BY <2>1, <2>2
<1>14. LineEnds'
  <2>1. ASSUME NEW g \in kept
        PROVE  /\ ledger[g].parent \in {0} \cup kept
               /\ \A h \in kept : h < g => h <= ledger[g].parent
    <3>1. g \in Active /\ g \in DOMAIN ledger BY <1>6 DEF Active
    <3>2. ledger[g].parent \in {0} \cup Active /\ \A h \in Active : h < g => h <= ledger[g].parent
      BY <3>1 DEF LedgerInv, LineEnds
    <3>3. ledger[g].parent <= g BY <1>2, <3>1 DEF LedgerInv, GenerationsSound
    <3> QED BY <1>6, <1>7, <3>2, <3>3
  <2> QED BY <1>5, <1>6, <1>13, <2>1 DEF LineEnds, Active
<1>15. FenceSound' /\ TurnSound' /\ turn \in Turn /\ upsets' \in 0..MaxUpsets /\ upsets' = upsets + 1
  BY <1>1, IdleKeeps
<1>16. HistoryTyped'
  <2>1. life \in Nat /\ upsets \in Nat /\ life <= upsets + 1 BY DEF LedgerInv, HistoryTyped, Bounded
  <2>2. life <= upsets' + 1 BY <1>15, <2>1
  <2>3. cursor' \in 0..Len(ledger') BY <1>2, <1>5, <1>6, <1>13 DEF Active
  <2> QED BY <1>1, <1>4, <1>5, <1>15, <2>2, <2>3 DEF LedgerInv, HistoryTyped, RowsMove
<1>17. ReceiptsKept' BY <1>1, <1>5 DEF ReceiptsKept, LedgerInv
<1> QED BY <1>8, <1>9, <1>10, <1>11, <1>12, <1>14, <1>15, <1>16, <1>17 DEF LedgerInv

\* The dashboard deletes the session: its receipts are of an earlier life.
LEMMA SessionStepKeeps ==
  ASSUME Bounded, LedgerInv, DeleteSession
  PROVE  LedgerInv'
<1>1. /\ rows' = << >> /\ ledger' = << >> /\ cursor' = 0 /\ life' = life + 1
      /\ UNCHANGED <<fence, receipts, turn>> /\ Editable
  BY DEF DeleteSession
<1>2. turn = AtRest /\ fence = NoCheckpoint BY <1>1 DEF Editable
<1>3. Len(ledger') = 0 /\ DOMAIN ledger' = {} /\ turn'.pc = "idle" /\ Active' = {}
  BY <1>1, <1>2 DEF AtRest, Active
<1>4. LedgerTells'
  BY <1>1, EmptyTells DEF LedgerTells
<1>5. Summarised'[0] = {}
  <2>1. Tells(Summarised', ledger') BY <1>4 DEF LedgerTells, Tells, Summarised
  <2>2. Len(ledger') \in Nat BY <1>3
  <2>3. Telling(Summarised', ledger', Len(ledger')) BY <2>1, <2>2, TellsMeans
  <2> QED BY <2>3 DEF Telling
<1>6. GenerationsSound' /\ ToldIsKnown' /\ ToldByActive' /\ ActiveIsLive' /\ LineEnds'
  BY <1>1, <1>3, <1>5 DEF GenerationsSound, ToldIsKnown, ToldByActive, ActiveIsLive, LineEnds
<1>7. FenceSound' /\ TurnSound' /\ turn \in Turn /\ upsets' \in 0..MaxUpsets /\ upsets' = upsets + 1
  BY <1>1, IdleKeeps
<1>8. HistoryTyped'
  <2>1. life \in Nat /\ upsets \in Nat /\ life <= upsets + 1 BY DEF LedgerInv, HistoryTyped, Bounded
  <2>2. life' <= upsets' + 1 /\ life' \in Nat /\ 1 <= life' BY <1>1, <1>7, <2>1
  <2>3. cursor' \in 0..Len(ledger') /\ Len(ledger') <= MaxGenerations BY <1>1, <1>3 DEF Bounded
  <2> QED BY <1>1, <1>7, <2>2, <2>3 DEF LedgerInv, HistoryTyped
<1>9. ReceiptsKept' 
  <2> SUFFICES ASSUME NEW r \in receipts PROVE r.life <= life' /\ r.life # life'
    BY <1>1 DEF ReceiptsKept
  <2>1. r.life \in Nat /\ r.life <= life /\ life \in Nat BY DEF LedgerInv, HistoryTyped, ReceiptsKept
  <2> QED BY <1>1, <2>1
<1> QED BY <1>4, <1>6, <1>7, <1>8, <1>9 DEF LedgerInv

\* Every step keeps the invariant.
LEMMA NextLedgerInv ==
  ASSUME Bounded, LedgerInv, LedgerNext
  PROVE  LedgerInv'
BY TurnStepKeeps, CommitStepKeeps, AppendKeeps, MessageStepKeeps, InteractionStepKeeps, SessionStepKeeps
   DEF LedgerNext

\* The invariant is about the variables of the ledger alone.
LEMMA RestLedgerInv ==
  ASSUME LedgerInv, UNCHANGED ledgerVars
  PROVE  LedgerInv'
<1>1. UNCHANGED <<rows, ledger, cursor, life, fence, receipts, turn, upsets>>
  BY DEF ledgerVars
<1>2. RowsGrow /\ RowsMove /\ TurnRowsStay
  BY <1>1 DEF RowsGrow, RowsMove, TurnRowsStay, LedgerInv, HistoryTyped
<1>3. LedgerTells' /\ GenerationsSound' /\ ToldIsKnown' /\ ToldByActive' /\ LineEnds' /\ ActiveIsLive'
  BY <1>1, <1>2, RowsStep
<1>4. FenceSound'
  <2>1. turn'.pc \in {"prepared", "received"} => fence # NoCheckpoint BY <1>1 DEF LedgerInv, FenceSound
  <2> QED BY <1>1, <1>2, <2>1, FenceKeeps
<1>5. TurnSound' BY <1>1, <1>2, TurnKeeps
<1>6. HistoryTyped' BY <1>1 DEF LedgerInv, HistoryTyped
<1>7. ReceiptsKept' BY <1>1 DEF LedgerInv, ReceiptsKept
<1> QED BY <1>3, <1>4, <1>5, <1>6, <1>7 DEF LedgerInv
-----------------------------------------------------------------------------
(* What the invariant says to a reader *)

\* The invariant implies what a conversation relies on.
LEMMA LedgerPromises ==
  ASSUME Bounded, LedgerInv
  PROVE  LedgerTypeOK /\ CursorEndsTheLine /\ FenceCanBeCleared /\ ProjectionIsExact
<1>1. /\ Len(rows) \in Nat /\ DOMAIN rows = 1..Len(rows) /\ rows \in Seq(Row)
      /\ Len(ledger) \in Nat /\ DOMAIN ledger = 1..Len(ledger) /\ cursor \in 0..Len(ledger)
      /\ Active \subseteq 1..Len(ledger)
  BY DEF LedgerInv, HistoryTyped, Active
<1>2. LedgerTypeOK
  <2>1. life \in 1..(MaxUpsets + 1)
    <3>1. life \in Nat /\ 1 <= life /\ life <= upsets + 1 /\ upsets \in 0..MaxUpsets
      BY DEF LedgerInv, HistoryTyped
    <3> QED BY <3>1 DEF Bounded
  <2>2. turn.pc \in {"idle", "admitted", "running", "prepared", "received"}
    BY DEF LedgerInv, HistoryTyped, Turn
  <2> QED BY <2>1, <2>2 DEF LedgerTypeOK, LedgerInv, HistoryTyped, FenceSound, ReceiptsKept
<1>3. CursorEndsTheLine
  <2>1. cursor = Max({0} \cup Active)
    <3>1. ({0} \cup Active) \in SUBSET Nat /\ cursor \in {0} \cup Active /\ \A m \in {0} \cup Active : m <= cursor
      BY <1>1 DEF LedgerInv, LineEnds
    <3> QED BY <3>1, MaxIs
  <2>2. ASSUME NEW g \in Active PROVE ledger[g].parent = Max({0} \cup {h \in Active : h < g})
    <3> DEFINE S == {0} \cup {h \in Active : h < g}
    <3>1. g \in DOMAIN ledger BY DEF Active
    <3>2. ledger[g].parent \in 0..(g - 1) BY <3>1 DEF LedgerInv, GenerationsSound
    <3>3. S \in SUBSET Nat
      <4>1. Active \subseteq Nat BY <1>1
      <4>2. \A h \in S : h \in Nat BY <4>1
      <4> HIDE DEF S
      <4> QED BY <4>2
    <3>4. ledger[g].parent \in S BY <1>1, <3>2 DEF LedgerInv, LineEnds
    <3>5. \A m \in S : m <= ledger[g].parent BY <1>1, <3>2 DEF LedgerInv, LineEnds
    <3> HIDE DEF S
    <3>6. ledger[g].parent = Max(S) BY <3>3, <3>4, <3>5, MaxIs
    <3> QED BY <3>6 DEF S
  <2> QED BY <2>1, <2>2 DEF CursorEndsTheLine, Active
<1>4. FenceCanBeCleared
  <2> SUFFICES ASSUME fence # NoCheckpoint
               PROVE  Valid(fence) /\ \A r \in ReceiptFor(Len(ledger) + 1) : r.checkpoint = fence
    BY DEF FenceCanBeCleared
  <2>1. Valid(fence) BY DEF LedgerInv, FenceSound, Valid, UnitsOf
  <2>2. ASSUME NEW r \in receipts, r.life = life, r.checkpoint.generation = Len(ledger) + 1
        PROVE  r.checkpoint = fence
    BY <1>1, <2>2 DEF LedgerInv, ReceiptsKept
  <2> QED BY <2>1, <2>2 DEF ReceiptFor
<1>5. ProjectionIsExact
  <2> DEFINE told == Summarised[cursor]
             rest == Seqs(Units(cursor))
  <2>1. Below(told, Units(cursor)) /\ Covers(told, Units(cursor)) /\ Known(Units(cursor))
    BY UnitsAreComplete
  <2>2. told \subseteq DOMAIN rows BY <1>1 DEF LedgerInv, ToldIsKnown
  <2>3. told \cap rest = {}
    BY <1>1, <2>1, <2>2 DEF Below, Seqs
  <2>4. ASSUME NEW g \in DOMAIN ledger PROVE Seqs(ledger[g].sources) \cap Summarised[ledger[g].parent] = {}
    <3>1. Below(Summarised[ledger[g].parent], UnitsOf(ledger[g])) /\ Known(UnitsOf(ledger[g]))
      BY DEF LedgerInv, GenerationsSound, Sound
    <3> QED BY <1>1, <3>1 DEF Below, Known, Seqs, UnitsOf
  <2>5. ASSUME NEW s \in DOMAIN rows, rows[s].live, \A t \in told : t <= s PROVE s \in told \cup rest
    <3> SUFFICES ASSUME s \notin told PROVE s \in rest OBVIOUS
    <3>1. \A t \in told : t < s BY <1>1, <2>2, <2>5
    <3> QED BY <2>5, <3>1, UnitsAreComplete
  <2>6. ASSUME NEW s \in told \cup rest, rows[s].kind = "turn" PROVE rows[s].live
    <3>1. ASSUME s \in told PROVE rows[s].live
      <4>1. cursor # 0 BY <3>1, SummarisedUnfolds DEF Telling
      <4>2. cursor \in Active BY <4>1 DEF LedgerInv, LineEnds
      <4>3. PICK h \in Active : s \in Seqs(ledger[h].sources) BY <3>1, <4>2 DEF LedgerInv, ToldByActive
      <4> QED BY <2>6, <4>3 DEF LedgerInv, ActiveIsLive, Seqs, UnitsOf
    <3>2. ASSUME s \in rest PROVE rows[s].live
      <4>1. PICK u \in Units(cursor) : u[1] = s BY <3>2 DEF Seqs
      <4>2. CASE \E after : u \in Current(after) BY <4>1, <4>2 DEF Current
      <4>3. CASE cursor # 0 /\ u \in ledger[cursor].tail
        <5>1. cursor \in Active BY <4>3 DEF LedgerInv, LineEnds
        <5> QED BY <2>6, <4>1, <4>3, <5>1 DEF LedgerInv, ActiveIsLive, Seqs, UnitsOf
      <4> QED BY <4>1, <4>2, <4>3 DEF Units
    <3> QED BY <2>6, <3>1, <3>2
  <2> QED BY <2>3, <2>4, <2>5, <2>6 DEF ProjectionIsExact
<1> QED BY <1>2, <1>3, <1>4, <1>5

\* The ledger of a session stays sound, over any crashes, failed writes and edits: its
\* line ends at the cursor, a fence can be cleared and a prompt tells the history once
\* (session/compaction_runtime.py, session/store.py).
THEOREM LedgerInvariant ==
  ASSUME Bounded
  PROVE  LedgerSpec => [](LedgerTypeOK /\ CursorEndsTheLine /\ FenceCanBeCleared /\ ProjectionIsExact)
<1>1. LedgerInit => LedgerInv BY InitLedgerInv
<1>2. LedgerInv /\ [LedgerNext]_ledgerVars => LedgerInv' BY NextLedgerInv, RestLedgerInv
<1>3. LedgerInv => LedgerTypeOK /\ CursorEndsTheLine /\ FenceCanBeCleared /\ ProjectionIsExact
  BY LedgerPromises
<1> QED BY <1>1, <1>2, <1>3, PTL DEF LedgerSpec
-----------------------------------------------------------------------------
(* Rows by their numbers *)

Frames == [seq : Nat, type : {"none", "event", "reset", "completed"}, id : Nat]
OneRowANumber(R) == \A r, s \in R : r.seq = s.seq => r = s
HasAll(R, after, through) == \A n \in (after + 1)..through : \E r \in R : r.seq = n

\* As many rows as numbers: each number has its row.
LEMMA RunOfRows ==
  ASSUME NEW after \in Nat, NEW through \in Nat, after <= through, NEW R,
         \A r \in R : r.seq \in (after + 1)..through, OneRowANumber(R)
  PROVE  IsFiniteSet(R) /\ (Cardinality(R) = through - after <=> HasAll(R, after, through))
<1> DEFINE N == (after + 1)..through
           f == [r \in R |-> r.seq]
<1>1. IsFiniteSet(N) /\ Cardinality(N) = through - after
  <2>1. after + 1 \in Int /\ through \in Int OBVIOUS
  <2>2. IsFiniteSet(N) /\ Cardinality(N) = IF after + 1 > through THEN 0 ELSE through - (after + 1) + 1
    BY <2>1, FS_Interval
  <2> QED BY <2>2
<1>2. f \in Injection(R, N)
  <2>1. f \in [R -> N] OBVIOUS
  <2>2. \A r, s \in R : f[r] = f[s] => r = s BY DEF OneRowANumber
  <2> QED BY <2>1, <2>2 DEF Injection, IsInjective
<1>3. IsFiniteSet(R) /\ (Cardinality(R) = Cardinality(N) <=> f \in Surjection(R, N))
  <2> HIDE DEF f, N
  <2> QED BY <1>1, <1>2, FS_Injection
<1>4. f \in Surjection(R, N) <=> HasAll(R, after, through)
  <2>1. f \in [R -> N] OBVIOUS
  <2>2. f \in Surjection(R, N) <=> \A n \in N : \E r \in R : f[r] = n
    BY <2>1 DEF Surjection
  <2> QED BY <2>2 DEF HasAll
<1> QED BY <1>1, <1>3, <1>4

\* The rows of a window without a gap, in order.
LEMMA OrderOfARun ==
  ASSUME NEW after \in Nat, NEW through \in Nat, after <= through, NEW R,
         \A r \in R : r.seq \in (after + 1)..through, OneRowANumber(R), HasAll(R, after, through)
  PROVE  /\ InOrder(R) \in Seq(R) /\ Len(InOrder(R)) = through - after
         /\ \A i \in 1..(through - after) : InOrder(R)[i] \in R /\ InOrder(R)[i].seq = after + i
<1> DEFINE upto(n) == {r \in R : r.seq <= n}
<1>1. Cardinality(R) = through - after BY RunOfRows
<1>2. ASSUME NEW n \in (after + 1)..through PROVE Cardinality(upto(n)) = n - after
  <2>1. n \in Nat /\ after <= n OBVIOUS
  <2>2. \A r \in upto(n) : r.seq \in (after + 1)..n OBVIOUS
  <2>3. OneRowANumber(upto(n)) BY DEF OneRowANumber
  <2>4. HasAll(upto(n), after, n) BY DEF HasAll
  <2> HIDE DEF upto
  <2> QED BY <2>1, <2>2, <2>3, <2>4, RunOfRows
<1>3. ASSUME NEW i \in 1..(through - after)
      PROVE  InOrder(R)[i] \in R /\ InOrder(R)[i].seq = after + i
  <2>1. PICK r \in R : r.seq = after + i
    <3>1. after + i \in (after + 1)..through OBVIOUS
    <3> QED BY <3>1 DEF HasAll
  <2>2. Cardinality(upto(r.seq)) = i
    <3>1. r.seq \in (after + 1)..through /\ r.seq - after = i BY <2>1
    <3> HIDE DEF upto
    <3> QED BY <1>2, <3>1
  <2>3. InOrder(R)[i] = CHOOSE row \in R : Cardinality(upto(row.seq)) = i
    BY <1>1 DEF InOrder
  <2> DEFINE row == InOrder(R)[i]
  <2>4. row \in R /\ Cardinality(upto(row.seq)) = i
    <3> HIDE DEF upto
    <3> QED BY <2>2, <2>3
  <2>5. Cardinality(upto(row.seq)) = row.seq - after
    <3>1. row.seq \in (after + 1)..through BY <2>4
    <3> HIDE DEF upto, row
    <3> QED BY <1>2, <3>1
  <2>6. row.seq \in Nat BY <2>4
  <2> HIDE DEF row
  <2> QED BY <2>4, <2>5, <2>6 DEF row
<1>4. InOrder(R) = [i \in 1..(through - after) |-> InOrder(R)[i]]
  <2>1. InOrder(R) = [i \in 1..(through - after) |-> CHOOSE row \in R : Cardinality(upto(row.seq)) = i]
    BY <1>1 DEF InOrder
  <2> HIDE DEF upto
  <2> QED BY <2>1
<1>5. through - after \in Nat OBVIOUS
<1>6. InOrder(R) \in [1..(through - after) -> R]
  <2> DEFINE s == InOrder(R)
  <2>1. s = [i \in 1..(through - after) |-> s[i]] BY <1>4
  <2>2. \A i \in 1..(through - after) : s[i] \in R BY <1>3
  <2> HIDE DEF s
  <2>3. s \in [1..(through - after) -> R] BY <2>1, <2>2
  <2> QED BY <2>3 DEF s
<1>7. InOrder(R) \in Seq(R) /\ Len(InOrder(R)) = through - after
  BY <1>5, <1>6, SeqDef, LenProperties
<1> QED BY <1>3, <1>7

\* The first and the last of any rows.
LEMMA EndsOfRows ==
  ASSUME NEW R, IsFiniteSet(R), R # {}, \A r \in R : r.seq \in Nat, OneRowANumber(R)
  PROVE  /\ InOrder(R) # <<>> /\ Head(InOrder(R)) \in R
         /\ \A m \in R : (\A r \in R : r.seq <= m.seq) => Last(InOrder(R)) = m
<1> DEFINE n == Cardinality(R)
           upto(k) == {r \in R : r.seq <= k}
<1>1. n \in Nat /\ n # 0 BY FS_CardinalityType, FS_EmptySet
<1>2. Len(InOrder(R)) = n /\ InOrder(R) # <<>> /\ Head(InOrder(R)) = InOrder(R)[1] /\ Last(InOrder(R)) = InOrder(R)[n]
  <2>1. InOrder(R) = [i \in 1..n |-> CHOOSE row \in R : Cardinality(upto(row.seq)) = i]
    BY DEF InOrder
  <2>2. Len(InOrder(R)) = n
    <3> HIDE DEF n, upto
    <3> QED BY <1>1, <2>1
  <2> HIDE DEF n
  <2> QED BY <1>1, <2>2 DEF Last
<1>3. ASSUME NEW i \in 1..n PROVE InOrder(R)[i] = CHOOSE row \in R : Cardinality(upto(row.seq)) = i
  BY DEF InOrder
<1>4. InOrder(R)[1] \in R
  <2>1. PICK m \in R : \A r \in R : m.seq <= r.seq
    <3> DEFINE S == {r.seq : r \in R}
    <3>1. S \in SUBSET Nat /\ S # {} OBVIOUS
    <3>2. PICK k \in S : \A j \in S : k <= j
      <4> HIDE DEF S
      <4> QED BY <3>1, LeastExists
    <3>3. PICK m \in R : m.seq = k OBVIOUS
    <3> QED BY <3>2, <3>3
  <2>2. upto(m.seq) = {m}
    <3>1. \A r \in upto(m.seq) : r.seq = m.seq BY <2>1
    <3>2. \A r \in upto(m.seq) : r = m BY <3>1 DEF OneRowANumber
    <3> QED BY <3>2
  <2>3. Cardinality(upto(m.seq)) = 1 BY <2>2, FS_Singleton
  <2>4. InOrder(R)[1] = CHOOSE row \in R : Cardinality(upto(row.seq)) = 1
    <3>1. 1 \in 1..n BY <1>1
    <3> QED BY <1>3, <3>1
  <2> HIDE DEF upto
  <2> QED BY <2>3, <2>4
<1>5. ASSUME NEW m \in R, \A r \in R : r.seq <= m.seq PROVE InOrder(R)[n] = m
  <2>1. upto(m.seq) = R BY <1>5
  <2>2. Cardinality(upto(m.seq)) = n BY <2>1
  <2>3. InOrder(R)[n] = CHOOSE row \in R : Cardinality(upto(row.seq)) = n
    <3>1. n \in 1..n BY <1>1
    <3> QED BY <1>3, <3>1
  <2> DEFINE x == InOrder(R)[n]
  <2>4. x \in R /\ Cardinality(upto(x.seq)) = n
    <3> HIDE DEF upto, n
    <3> QED BY <2>2, <2>3
  <2>5. upto(x.seq) = R
    <3>1. upto(x.seq) \in SUBSET R OBVIOUS
    <3>2. Cardinality(R) = Cardinality(upto(x.seq)) BY <2>4
    <3> HIDE DEF upto
    <3> QED BY <3>1, <3>2, FS_Subset
  <2>6. m.seq <= x.seq
    <3>1. m \in upto(x.seq) BY <2>5
    <3> QED BY <3>1
  <2>7. x.seq <= m.seq BY <1>5, <2>4
  <2>8. x.seq = m.seq
    <3>1. x.seq \in Nat /\ m.seq \in Nat BY <2>4
    <3> QED BY <2>6, <2>7, <3>1
  <2> QED BY <2>4, <2>8 DEF OneRowANumber
<1> QED BY <1>2, <1>4, <1>5
-----------------------------------------------------------------------------
(* Durable events *)

Steps == {"none", "send", "mark", "ready", "up"}
Drains == {"idle", "take", "send", "mark"}
Dbs == [inbox : SUBSET Frames, next : Nat, sent : Nat, acked : Nat, log : SUBSET Frames]
Windows == [after : Nat, through : Nat, terminal : Frames]
Conns == [registered : BOOLEAN, step : Steps, window : Windows \cup {<<>>}, ready : BOOLEAN,
          queue : Seq(Frames), drain : Drains, frame : Frames, barrier : Nat]

\* The rows of a device, when p events were published.
Stored(d, p) ==
  /\ d \in Dbs /\ d.acked <= d.sent /\ d.sent < d.next /\ d.inbox \subseteq d.log
  /\ \A row \in d.inbox : d.acked < row.seq
  /\ \A row \in d.log : 1 <= row.seq /\ row.seq < d.next /\ row.type # "none"
                         /\ (row.type = "event" => row.id \in 1..p)
  /\ OneRowANumber(d.log)

\* The window w brings a device that is at last where its closing frame is.
Fits(d, w, last) ==
  /\ w \in Windows /\ w.after <= w.through /\ w.terminal \in d.log
  /\ \/ w.after = w.through /\ w.terminal.type = "reset"
     \/ /\ w.terminal.seq = w.through + 1 /\ HasAll(d.inbox, w.after, w.through)
        /\ \/ w.after = last
           \/ w.after < w.through /\ \E row \in d.inbox : row.seq = w.after + 1 /\ row.type = "reset"

EventTyped ==
  /\ published \in Nat /\ Stored(db, published) /\ db.next <= MaxSeq + 1
  /\ conn \in Conns /\ Len(conn.queue) <= MaxQueue
  /\ cmd \in [pc : {"idle", "flush", "reply"}, barrier : Nat]
  /\ link \in BOOLEAN /\ outgrown \in BOOLEAN /\ wire \in Seq(Frames)
  /\ device \in [last : Nat, known : SUBSET Nat]

ConnSound ==
  /\ conn.drain # "idle" => conn.step = "up"
  /\ conn.ready <=> (conn.registered /\ conn.step = "up")
  /\ conn.step = "none" => ~link /\ ~conn.registered
  /\ conn.step \in {"send", "mark", "ready"} => conn.window \in Windows
  /\ ~conn.registered => conn.queue = <<>> /\ conn.barrier = 0
  /\ cmd.pc # "idle" => conn.step = "up"
  /\ ~link => wire = <<>>

\* The barrier of the command is the task's, or the task is past it; a task rests
\* before its queue is empty only at its barrier.
BarrierSound ==
  /\ conn.barrier \in {0, cmd.barrier} /\ cmd.barrier < db.next /\ (cmd.pc = "idle" => cmd.barrier = 0)
  /\ conn.registered => cmd.barrier = conn.barrier \/ cmd.barrier <= db.sent
  /\ conn.ready /\ conn.drain = "idle" /\ conn.queue # <<>> => conn.barrier > 0 /\ db.sent >= conn.barrier

\* The number of the last frame that left the queue.
Base == IF conn.step \in {"send", "mark"} THEN conn.window.terminal.seq
        ELSE IF conn.drain \in {"send", "mark"} THEN conn.frame.seq ELSE db.sent

\* The queue of a registered connection is all that was published since.
QueueSound ==
  /\ conn.step \in {"send", "mark"} => conn.window.terminal \in db.log
  /\ conn.drain \in {"send", "mark"} => conn.frame \in db.log
  /\ conn.registered =>
       /\ db.sent <= Base /\ Len(conn.queue) = db.next - 1 - Base
       /\ \A i \in 1..Len(conn.queue) : conn.queue[i] \in db.log /\ conn.queue[i].seq = Base + i

\* The frames of the wire follow the last the device handled, one by one or by a reset.
Chained(frames, last, log) ==
  \A i \in 1..Len(frames) :
     /\ frames[i] \in log
     /\ frames[i].type = "reset" \/ frames[i].seq = (IF i = 1 THEN last ELSE frames[i - 1].seq) + 1
WireSound == Chained(wire, device.last, db.log)

\* What is sent next follows the wire.
Tip(frames, last) == IF frames = <<>> THEN last ELSE frames[Len(frames)].seq
TipSound == link =>
  /\ conn.step = "send" => wire = <<>> /\ Fits(db, conn.window, device.last)
  /\ conn.step # "send" =>
       IF conn.drain = "send" THEN conn.frame.seq = Tip(wire, device.last) + 1
       ELSE conn.registered => Base = Tip(wire, device.last)

DeviceSound == device.last < db.next \/ (outgrown /\ ~link)

EventInv ==
  /\ EventTyped /\ ConnSound /\ BarrierSound /\ QueueSound /\ WireSound /\ TipSound
  /\ DeviceSound /\ NothingIsMissed

EventBounds == MaxSeq \in Nat /\ MaxQueue \in Nat
-----------------------------------------------------------------------------
Appends(e, d, row) ==
  /\ e.next = d.next + 1 /\ e.sent = d.sent /\ e.acked = d.acked
  /\ e.inbox = d.inbox \cup {row} /\ e.log = d.log \cup {row} /\ row \in Frames

\* Append1 keeps the rows sound; its row has the next number.
LEMMA AppendStores ==
  ASSUME NEW p \in Nat, NEW q \in Nat, p <= q, NEW d, Stored(d, p),
         NEW type \in {"event", "reset", "completed"}, NEW id \in Nat, type = "event" => id \in 1..q
  PROVE  Stored(Append1(d, type, id), q) /\ Appends(Append1(d, type, id), d, Frame(d.next, type, id))
<1> DEFINE row == Frame(d.next, type, id)
           e == Append1(d, type, id)
<1>1. d \in Dbs BY DEF Stored
<1>2. row \in Frames BY <1>1 DEF Frame, Frames, Dbs
<1>3. /\ e \in Dbs /\ e.next = d.next + 1 /\ e.sent = d.sent /\ e.acked = d.acked
      /\ e.inbox = d.inbox \cup {row} /\ e.log = d.log \cup {row}
  <2>1. d.inbox \cup {row} \in SUBSET Frames /\ d.log \cup {row} \in SUBSET Frames /\ d.next + 1 \in Nat
    BY <1>1, <1>2 DEF Dbs
  <2>2. e = [d EXCEPT !.inbox = @ \cup {row}, !.log = @ \cup {row}, !.next = @ + 1] BY DEF Append1
  <2> HIDE DEF row, e
  <2> QED BY <1>1, <2>1, <2>2 DEF Dbs
<1>4. row.seq = d.next /\ row.type = type /\ row.id = id BY DEF Frame
<1> HIDE DEF row, e
<1>5. Stored(e, q)
  BY <1>1, <1>2, <1>3, <1>4 DEF Stored, Dbs, Frames, OneRowANumber
<1>6. Appends(e, d, row) BY <1>2, <1>3 DEF Appends
<1> QED BY <1>5, <1>6 DEF row, e

\* _schedule_delivery_locked starts the task only.
LEMMA ScheduledIs ==
  ASSUME NEW c \in Conns
  PROVE  LET s == Scheduled(c)
         IN  /\ s \in Conns /\ s.registered = c.registered /\ s.step = c.step /\ s.window = c.window
             /\ s.ready = c.ready /\ s.queue = c.queue /\ s.frame = c.frame /\ s.barrier = c.barrier
             /\ s.drain = IF c.ready /\ c.queue # <<>> /\ c.drain = "idle" THEN "take" ELSE c.drain
BY DEF Scheduled, Conns, Drains

\* Off the table, a connection keeps its task and nothing else.
LEMMA TakenOffIs ==
  ASSUME NEW c \in Conns
  PROVE  LET s == TakenOff(c)
         IN  /\ s \in Conns /\ ~s.registered /\ s.step = c.step /\ s.window = c.window
             /\ ~s.ready /\ s.queue = <<>> /\ s.frame = c.frame /\ s.barrier = 0 /\ s.drain = c.drain
<1>1. <<>> \in Seq(Frames) OBVIOUS
<1> QED BY <1>1 DEF TakenOff, Conns

\* No connection, and no command on it.
LEMMA NoConnIs ==
  /\ NoConn \in Conns /\ ~NoConn.registered /\ NoConn.step = "none" /\ ~NoConn.ready /\ NoConn.queue = <<>>
  /\ NoConn.drain = "idle" /\ NoConn.barrier = 0
  /\ NoCmd.pc = "idle" /\ NoCmd.barrier = 0 /\ NoCmd \in [pc : {"idle", "flush", "reply"}, barrier : Nat]
BY DEF NoConn, NoCmd, NoFrame, Conns, Steps, Drains, Frames

\* A device that never connected.
LEMMA InitEventInv == ASSUME EventBounds, EventInit PROVE EventInv
<1>1. db \in Dbs /\ db.inbox = {} /\ db.log = {} /\ db.next = 1 /\ db.sent = 0 /\ db.acked = 0
  BY DEF EventInit, Dbs
<1>2. Stored(db, published) /\ published \in Nat BY <1>1 DEF EventInit, Stored, OneRowANumber
<1>3. EventTyped
  <2>1. conn \in Conns /\ Len(conn.queue) <= MaxQueue /\ cmd \in [pc : {"idle", "flush", "reply"}, barrier : Nat]
    BY NoConnIs DEF EventInit, EventBounds
  <2>2. wire \in Seq(Frames) BY DEF EventInit
  <2>3. device \in [last : Nat, known : SUBSET Nat] BY DEF EventInit
  <2>4. db.next <= MaxSeq + 1 BY <1>1 DEF EventBounds
  <2> QED BY <1>2, <2>1, <2>2, <2>3, <2>4 DEF EventInit, EventTyped
<1>4. ConnSound BY NoConnIs DEF EventInit, ConnSound
<1>5. BarrierSound /\ QueueSound /\ WireSound /\ TipSound /\ DeviceSound /\ NothingIsMissed
  BY <1>1, NoConnIs
  DEF EventInit, BarrierSound, QueueSound, WireSound, Chained, TipSound, DeviceSound, NothingIsMissed, NothingMissed
<1> QED BY <1>3, <1>4, <1>5 DEF EventInv

\* What holds of some rows holds when more are appended.
LEMMA ChainGrows ==
  ASSUME NEW frames, NEW last, NEW log, NEW more, log \subseteq more, Chained(frames, last, log)
  PROVE  Chained(frames, last, more)
BY DEF Chained

\* ... and a window still fits.
LEMMA FitsGrow ==
  ASSUME NEW d, NEW e, NEW w, NEW last, d.inbox \subseteq e.inbox, d.log \subseteq e.log, Fits(d, w, last)
  PROVE  Fits(e, w, last)
BY DEF Fits, HasAll

\* A published event gets its row, and a place in the queue or none.
LEMMA PublishKeeps == ASSUME EventBounds, EventInv, PublishEvent PROVE EventInv'
<1> DEFINE row == Frame(db.next, "event", published + 1)
<1>1. /\ Stored(db', published') /\ published' = published + 1 /\ db'.next = db.next + 1
      /\ db'.sent = db.sent /\ db'.acked = db.acked /\ db'.inbox = db.inbox \cup {row}
      /\ db'.log = db.log \cup {row} /\ row \in Frames /\ row.seq = db.next
  <2>1. /\ published \in Nat /\ published + 1 \in Nat /\ published <= published + 1
        /\ published + 1 \in 1..(published + 1) /\ Stored(db, published)
    BY DEF EventInv, EventTyped
  <2>2. "event" \in {"event", "reset", "completed"} OBVIOUS
  <2>3. db' = Append1(db, "event", published + 1) /\ published' = published + 1 BY DEF PublishEvent
  <2>4. row.seq = db.next BY DEF Frame
  <2>5. /\ Stored(Append1(db, "event", published + 1), published + 1)
        /\ Append1(db, "event", published + 1).next = db.next + 1
        /\ Append1(db, "event", published + 1).sent = db.sent
        /\ Append1(db, "event", published + 1).acked = db.acked
        /\ Append1(db, "event", published + 1).inbox = db.inbox \cup {row}
        /\ Append1(db, "event", published + 1).log = db.log \cup {row} /\ row \in Frames
    <3> DEFINE q == published + 1
               type == "event"
    <3>1. /\ published \in Nat /\ q \in Nat /\ published <= q /\ Stored(db, published)
          /\ type \in {"event", "reset", "completed"} /\ q \in 1..q
      BY <2>1, <2>2
    <3> HIDE DEF q, type
    <3>2. Stored(Append1(db, type, q), q) /\ Appends(Append1(db, type, q), db, Frame(db.next, type, q))
      BY <3>1, AppendStores
    <3> QED BY <3>2 DEF q, type, Appends
  <2> HIDE DEF row
  <2> QED BY <2>3, <2>4, <2>5
<1>2. UNCHANGED <<cmd, link, wire, device, outgrown>> /\ db.next <= MaxSeq BY DEF PublishEvent
<1>3. conn \in Conns /\ db \in Dbs /\ db' \in Dbs BY <1>1 DEF EventInv, EventTyped, Stored
<1>4. \/ conn' = conn /\ ~conn.registered
      \/ conn' = TakenOff(conn)
      \/ conn.registered /\ Len(conn.queue) < MaxQueue /\ conn' = Scheduled([conn EXCEPT !.queue = Append(@, row)])
  <2>1. Len(conn.queue) \in Nat BY <1>3 DEF Conns
  <2> HIDE DEF row
  <2> QED BY <2>1 DEF PublishEvent, Queued, EventBounds, row
<1>5. \/ conn' = conn /\ ~conn.registered
      \/ /\ conn' \in Conns /\ ~conn'.registered /\ conn'.step = conn.step /\ conn'.window = conn.window
         /\ ~conn'.ready /\ conn'.queue = <<>> /\ conn'.frame = conn.frame /\ conn'.barrier = 0
         /\ conn'.drain = conn.drain
      \/ /\ conn' \in Conns /\ conn.registered /\ conn'.registered /\ conn'.step = conn.step /\ conn'.window = conn.window
         /\ conn'.ready = conn.ready /\ conn'.queue = Append(conn.queue, row) /\ conn'.frame = conn.frame
         /\ conn'.barrier = conn.barrier /\ Len(conn.queue) < MaxQueue
         /\ conn'.drain = IF conn.ready /\ conn.drain = "idle" THEN "take" ELSE conn.drain
  <2>1. ASSUME conn.registered, conn' = Scheduled([conn EXCEPT !.queue = Append(@, row)])
        PROVE  /\ conn' \in Conns /\ conn'.registered /\ conn'.step = conn.step /\ conn'.window = conn.window
               /\ conn'.ready = conn.ready /\ conn'.queue = Append(conn.queue, row) /\ conn'.frame = conn.frame
               /\ conn'.barrier = conn.barrier
               /\ conn'.drain = IF conn.ready /\ conn.drain = "idle" THEN "take" ELSE conn.drain
    <3> DEFINE c == [conn EXCEPT !.queue = Append(@, row)]
    <3>1. Append(conn.queue, row) \in Seq(Frames) /\ Append(conn.queue, row) # <<>>
      BY <1>1, <1>3, AppendProperties DEF Conns
    <3>2. /\ c \in Conns /\ c.registered = conn.registered /\ c.step = conn.step /\ c.window = conn.window
          /\ c.ready = conn.ready /\ c.queue = Append(conn.queue, row) /\ c.frame = conn.frame
          /\ c.barrier = conn.barrier /\ c.drain = conn.drain
      <4> HIDE DEF row
      <4> QED BY <1>3, <3>1 DEF Conns
    <3> HIDE DEF c
    <3>3. conn' = Scheduled(c) BY <2>1 DEF c
    <3>4. /\ conn' \in Conns /\ conn'.registered = c.registered /\ conn'.step = c.step /\ conn'.window = c.window
          /\ conn'.ready = c.ready /\ conn'.queue = c.queue /\ conn'.frame = c.frame /\ conn'.barrier = c.barrier
          /\ conn'.drain = IF c.ready /\ c.queue # <<>> /\ c.drain = "idle" THEN "take" ELSE c.drain
      BY <3>2, <3>3, ScheduledIs
    <3>5. conn'.queue # <<>> /\ c.queue # <<>> BY <3>1, <3>2, <3>4
    <3> QED BY <2>1, <3>2, <3>4, <3>5
  <2>2. ASSUME conn' = TakenOff(conn)
        PROVE  /\ conn' \in Conns /\ ~conn'.registered /\ conn'.step = conn.step /\ conn'.window = conn.window
               /\ ~conn'.ready /\ conn'.queue = <<>> /\ conn'.frame = conn.frame /\ conn'.barrier = 0
               /\ conn'.drain = conn.drain
    BY <1>3, <2>2, TakenOffIs
  <2>3. CASE conn.registered /\ Len(conn.queue) < MaxQueue /\ conn' = Scheduled([conn EXCEPT !.queue = Append(@, row)])
    <3> HIDE DEF row
    <3> QED BY <2>1, <2>3
  <2>4. CASE conn' = conn /\ ~conn.registered BY <2>4
  <2>5. CASE conn' = TakenOff(conn) BY <2>2, <2>5
  <2> HIDE DEF row
  <2> QED BY <1>4, <2>3, <2>4, <2>5
<1> HIDE DEF row
<1>6. Len(conn.queue) \in Nat /\ conn.queue \in Seq(Frames) BY <1>3 DEF Conns
<1>7. EventTyped'
  <2>1. conn' \in Conns BY <1>3, <1>5
  <2>2. Len(conn'.queue) <= MaxQueue
    BY <1>1, <1>5, <1>6, AppendProperties DEF EventInv, EventTyped, EventBounds
  <2> QED BY <1>1, <1>2, <1>3, <2>1, <2>2 DEF EventInv, EventTyped, EventBounds, Dbs
<1>8. ConnSound' BY <1>2, <1>5 DEF EventInv, ConnSound
<1>9. BarrierSound'
  <2>1. db.next \in Nat /\ cmd.barrier \in Nat BY <1>3 DEF Dbs, EventInv, EventTyped
  <2> QED BY <1>1, <1>2, <1>5, <2>1 DEF EventInv, BarrierSound, ConnSound
<1>10. QueueSound'
  <2>1. conn'.step = conn.step /\ conn'.window = conn.window /\ conn'.frame = conn.frame BY <1>5
  <2>2. conn'.drain \in {"send", "mark"} <=> conn.drain \in {"send", "mark"}
    BY <1>5
  <2>3. conn.drain \in {"send", "mark"} => conn'.drain = conn.drain BY <1>5
  <2>4. Base' = Base BY <1>1, <2>1, <2>2 DEF Base
  <2>5. ASSUME conn'.registered
        PROVE  /\ db'.sent <= Base' /\ Len(conn'.queue) = db'.next - 1 - Base'
               /\ \A i \in 1..Len(conn'.queue) : conn'.queue[i] \in db'.log /\ conn'.queue[i].seq = Base' + i
    <3>1. conn.registered /\ conn'.queue = Append(conn.queue, row) BY <1>5, <2>5
    <3>2. db.sent <= Base /\ Len(conn.queue) = db.next - 1 - Base
          /\ \A i \in 1..Len(conn.queue) : conn.queue[i] \in db.log /\ conn.queue[i].seq = Base + i
      BY <3>1 DEF EventInv, QueueSound
    <3>3. Base \in Nat
      BY <1>3, <3>1 DEF EventInv, QueueSound, ConnSound, Base, Windows, Frames, Conns, Dbs
    <3>4. /\ Len(conn'.queue) = Len(conn.queue) + 1 /\ conn'.queue[Len(conn.queue) + 1] = row
          /\ \A i \in 1..Len(conn.queue) : conn'.queue[i] = conn.queue[i]
      BY <1>1, <1>6, <3>1, AppendProperties
    <3>5. db.next \in Nat BY <1>3 DEF Dbs
    <3>6. \A i \in 1..Len(conn'.queue) : i \in 1..Len(conn.queue) \/ i = Len(conn.queue) + 1
      BY <1>6, <3>4
    <3>7. row \in db'.log /\ row.seq = Base + (Len(conn.queue) + 1) BY <1>1, <1>6, <3>2, <3>3, <3>5
    <3>8. \A i \in 1..Len(conn'.queue) : conn'.queue[i] \in db'.log /\ conn'.queue[i].seq = Base + i
      BY <1>1, <3>2, <3>4, <3>6, <3>7
    <3>9. db'.sent <= Base /\ Len(conn'.queue) = db'.next - 1 - Base
      BY <1>1, <1>6, <3>2, <3>3, <3>4, <3>5
    <3> QED BY <2>4, <3>8, <3>9
  <2> QED BY <1>1, <2>1, <2>2, <2>5 DEF EventInv, QueueSound
<1>11. WireSound' 
  <2>1. db.log \subseteq db'.log BY <1>1
  <2> QED BY <1>2, <2>1, ChainGrows DEF EventInv, WireSound
<1>12. TipSound'
  <2>1. conn'.step = conn.step /\ conn'.window = conn.window /\ conn'.frame = conn.frame BY <1>5
  <2>2. conn'.drain \in {"send", "mark"} <=> conn.drain \in {"send", "mark"}
    BY <1>5
  <2>3. conn'.drain = "send" <=> conn.drain = "send" BY <1>5
  <2>4. Base' = Base BY <1>1, <2>1, <2>2 DEF Base
  <2>5. conn'.registered => conn.registered BY <1>5
  <2>6. db.inbox \subseteq db'.inbox /\ db.log \subseteq db'.log BY <1>1
  <2>7. Fits(db, conn.window, device.last) => Fits(db', conn.window, device.last)
    BY <2>6, FitsGrow
  <2> QED BY <1>2, <2>1, <2>3, <2>4, <2>5, <2>7 DEF EventInv, TipSound
<1>13. DeviceSound'
  <2>1. db.next \in Nat /\ device.last \in Nat BY <1>3 DEF Dbs, EventInv, EventTyped
  <2> QED BY <1>1, <1>2, <2>1 DEF EventInv, DeviceSound
<1>14. NothingIsMissed'
  <2>1. db.next \in Nat /\ device.last \in Nat BY <1>3 DEF Dbs, EventInv, EventTyped
  <2> QED BY <1>1, <1>2, <2>1 DEF EventInv, DeviceSound, NothingIsMissed, NothingMissed
<1> QED BY <1>7, <1>8, <1>9, <1>10, <1>11, <1>12, <1>13, <1>14 DEF EventInv

\* The types of what the steps read.
LEMMA EventFacts ==
  ASSUME EventInv
  PROVE  /\ db \in Dbs /\ db.next \in Nat /\ db.sent \in Nat /\ db.acked \in Nat
         /\ conn \in Conns /\ conn.queue \in Seq(Frames) /\ Len(conn.queue) \in Nat
         /\ conn.frame \in Frames /\ conn.frame.seq \in Nat /\ conn.barrier \in Nat
         /\ device.last \in Nat /\ cmd.barrier \in Nat /\ wire \in Seq(Frames) /\ Len(wire) \in Nat
         /\ (conn.step \in {"send", "mark", "ready"} => conn.window.terminal \in Frames /\ conn.window.terminal.seq \in Nat)
         /\ Base \in Nat
<1>1. db \in Dbs /\ db.next \in Nat /\ db.sent \in Nat /\ db.acked \in Nat
  BY DEF EventInv, EventTyped, Stored, Dbs
<1>2. conn \in Conns /\ conn.queue \in Seq(Frames) /\ Len(conn.queue) \in Nat
      /\ conn.frame \in Frames /\ conn.frame.seq \in Nat /\ conn.barrier \in Nat
  BY DEF EventInv, EventTyped, Conns, Frames
<1>3. device.last \in Nat /\ cmd.barrier \in Nat /\ wire \in Seq(Frames) /\ Len(wire) \in Nat
  BY DEF EventInv, EventTyped
<1>4. conn.step \in {"send", "mark", "ready"} => conn.window.terminal \in Frames /\ conn.window.terminal.seq \in Nat
  BY DEF EventInv, ConnSound, Windows, Frames
<1>5. Base \in Nat BY <1>1, <1>2, <1>4 DEF Base
<1> QED BY <1>1, <1>2, <1>3, <1>4, <1>5

\* Nothing that the wire or the rows are about moves.
LEMMA DrainTakesKeeps == ASSUME EventBounds, EventInv, DrainTakes PROVE EventInv'
<1>1. UNCHANGED <<db, published, cmd, link, wire, device, outgrown>> /\ conn.drain = "take" BY DEF DrainTakes
<1>2. conn.step = "up" BY <1>1 DEF EventInv, ConnSound
<1>3. CASE conn' = [conn EXCEPT !.drain = "idle"] /\ (~conn.registered \/ conn.queue = <<>>)
  <2>1. /\ conn' \in Conns /\ conn'.registered = conn.registered /\ conn'.step = "up" /\ conn'.queue = conn.queue
        /\ conn'.ready = conn.ready /\ conn'.barrier = conn.barrier /\ conn'.drain = "idle" /\ conn'.frame = conn.frame
    BY <1>2, <1>3, EventFacts DEF Conns, Drains
  <2>2. Base = db.sent /\ Base' = db.sent BY <1>1, <1>2, <2>1 DEF Base
  <2>3. EventTyped' BY <1>1, <2>1 DEF EventInv, EventTyped, Stored
  <2>4. ConnSound' BY <1>1, <1>2, <2>1 DEF EventInv, ConnSound
  <2>5. BarrierSound' BY <1>1, <1>2, <1>3, <2>1 DEF EventInv, BarrierSound, ConnSound
  <2>6. QueueSound' BY <1>1, <1>2, <2>1, <2>2 DEF EventInv, QueueSound
  <2>7. WireSound' /\ DeviceSound' /\ NothingIsMissed'
    BY <1>1 DEF EventInv, WireSound, DeviceSound, NothingIsMissed, NothingMissed
  <2>8. TipSound' BY <1>1, <1>2, <2>1, <2>2 DEF EventInv, TipSound
  <2> QED BY <2>3, <2>4, <2>5, <2>6, <2>7, <2>8 DEF EventInv
<1>4. CASE /\ conn.registered /\ conn.queue # <<>>
           /\ conn' = [conn EXCEPT !.drain = "send", !.frame = Head(conn.queue), !.queue = Tail(@)]
  <2>1. /\ Head(conn.queue) \in Frames /\ Tail(conn.queue) \in Seq(Frames)
        /\ Len(Tail(conn.queue)) = Len(conn.queue) - 1 /\ Len(conn.queue) >= 1
        /\ \A i \in 1..Len(Tail(conn.queue)) : Tail(conn.queue)[i] = conn.queue[i + 1]
        /\ Head(conn.queue) = conn.queue[1]
    BY <1>4, EventFacts, HeadTailProperties
  <2>2. /\ conn' \in Conns /\ conn'.registered /\ conn'.step = "up" /\ conn'.queue = Tail(conn.queue)
        /\ conn'.ready = conn.ready /\ conn'.barrier = conn.barrier /\ conn'.drain = "send"
        /\ conn'.frame = Head(conn.queue)
    BY <1>2, <1>4, <2>1, EventFacts DEF Conns, Drains
  <2>3. Base = db.sent /\ Base' = conn'.frame.seq BY <1>1, <1>2, <2>2 DEF Base
  <2>4. conn'.frame \in db.log /\ conn'.frame.seq = db.sent + 1
    <3>1. 1 \in 1..Len(conn.queue) BY <2>1, EventFacts
    <3> QED BY <1>4, <2>1, <2>2, <2>3, <3>1 DEF EventInv, QueueSound
  <2>5. EventTyped'
    <3>1. Len(conn'.queue) <= MaxQueue BY <2>1, <2>2, EventFacts DEF EventInv, EventTyped, EventBounds
    <3> QED BY <1>1, <2>2, <3>1 DEF EventInv, EventTyped, Stored
  <2>6. ConnSound' BY <1>1, <1>2, <1>4, <2>2 DEF EventInv, ConnSound
  <2>7. BarrierSound' BY <1>1, <1>2, <1>4, <2>2 DEF EventInv, BarrierSound, ConnSound
  <2>8. QueueSound'
    <3>1. db.sent <= Base' /\ Len(conn'.queue) = db.next - 1 - Base'
      <4>1. Len(conn'.queue) = Len(conn.queue) - 1 /\ Base' = db.sent + 1 BY <2>1, <2>2, <2>3, <2>4
      <4>2. Len(conn.queue) = db.next - 1 - db.sent BY <1>4, <2>3 DEF EventInv, QueueSound
      <4>3. db.next \in Nat /\ db.sent \in Nat /\ Len(conn.queue) \in Nat BY EventFacts
      <4> QED BY <4>1, <4>2, <4>3
    <3>2. ASSUME NEW i \in 1..Len(conn'.queue) PROVE conn'.queue[i] \in db.log /\ conn'.queue[i].seq = Base' + i
      <4>1. i + 1 \in 1..Len(conn.queue) /\ conn'.queue[i] = conn.queue[i + 1] /\ i \in Nat
        BY <2>1, <2>2, EventFacts
      <4>2. conn.queue[i + 1] \in db.log /\ conn.queue[i + 1].seq = db.sent + (i + 1)
        BY <1>4, <2>3, <4>1 DEF EventInv, QueueSound
      <4>3. db.sent \in Nat /\ Base' = db.sent + 1 BY <2>3, <2>4, EventFacts
      <4>4. \A a, b \in Nat : a + (b + 1) = (a + 1) + b OBVIOUS
      <4> QED BY <4>1, <4>2, <4>3, <4>4
    <3> QED BY <1>1, <2>2, <2>4, <3>1, <3>2 DEF QueueSound
  <2>9. WireSound' /\ DeviceSound' /\ NothingIsMissed'
    BY <1>1 DEF EventInv, WireSound, DeviceSound, NothingIsMissed, NothingMissed
  <2>10. TipSound' BY <1>1, <1>2, <1>4, <2>2, <2>3, <2>4 DEF EventInv, TipSound
  <2> QED BY <2>5, <2>6, <2>7, <2>8, <2>9, <2>10 DEF EventInv
<1> QED BY <1>3, <1>4 DEF DrainTakes

\* A frame is put behind the wire.
LEMMA WireGrows ==
  ASSUME NEW frames \in Seq(Frames), NEW last \in Nat, NEW log, Chained(frames, last, log), NEW f \in Frames,
         f \in log, f.type = "reset" \/ f.seq = Tip(frames, last) + 1
  PROVE  /\ Append(frames, f) \in Seq(Frames) /\ Chained(Append(frames, f), last, log)
         /\ Tip(Append(frames, f), last) = f.seq
<1> DEFINE more == Append(frames, f)
<1>1. /\ Len(frames) \in Nat /\ more \in Seq(Frames) /\ Len(more) = Len(frames) + 1 /\ more[Len(frames) + 1] = f
      /\ \A i \in 1..Len(frames) : more[i] = frames[i]
  BY AppendProperties
<1> HIDE DEF more
<1>2. ASSUME NEW i \in 1..Len(more)
      PROVE  more[i] \in log /\ (more[i].type = "reset" \/ more[i].seq = (IF i = 1 THEN last ELSE more[i - 1].seq) + 1)
  <2>1. CASE i \in 1..Len(frames)
    <3>1. i # 1 => i - 1 \in 1..Len(frames) BY <1>1, <2>1
    <3> QED BY <1>1, <2>1, <3>1 DEF Chained
  <2>2. CASE i = Len(frames) + 1
    <3>1. i = 1 <=> frames = <<>> BY <1>1, <2>2
    <3>2. i # 1 => i - 1 \in 1..Len(frames) /\ i - 1 = Len(frames) BY <1>1, <2>2
    <3> QED BY <1>1, <2>2, <3>1, <3>2 DEF Tip
  <2> QED BY <1>1, <2>1, <2>2
<1>3. Tip(more, last) = f.seq BY <1>1 DEF Tip
<1> QED BY <1>1, <1>2, <1>3 DEF Chained, more

\* The frame goes behind the wire or is lost with it.
LEMMA DrainSendsKeeps == ASSUME EventBounds, EventInv, DrainSends PROVE EventInv'
<1>1. UNCHANGED <<db, published, cmd, link, device, outgrown>> /\ conn.drain = "send" BY DEF DrainSends
<1>2. conn.step = "up" /\ conn.frame \in db.log BY <1>1 DEF EventInv, ConnSound, QueueSound
<1>3. CASE Sent(<<conn.frame>>) /\ conn' = [conn EXCEPT !.drain = "mark"]
  <2>1. /\ conn' \in Conns /\ conn'.registered = conn.registered /\ conn'.step = "up" /\ conn'.queue = conn.queue
        /\ conn'.ready = conn.ready /\ conn'.barrier = conn.barrier /\ conn'.drain = "mark" /\ conn'.frame = conn.frame
    BY <1>2, <1>3, EventFacts DEF Conns, Drains
  <2>2. Base = conn.frame.seq /\ Base' = conn.frame.seq BY <1>1, <1>2, <2>1 DEF Base
  <2>3. /\ wire' \in Seq(Frames) /\ Chained(wire', device.last, db.log) /\ (~link => wire' = <<>>)
        /\ (link => Tip(wire', device.last) = conn.frame.seq)
    <3>1. CASE link
      <4>1. wire' = Append(wire, conn.frame)
        <5>1. wire' = wire \o <<conn.frame>> BY <1>3, <3>1 DEF Sent
        <5> QED BY <5>1, EventFacts, AppendIsConcat
      <4>2. conn.frame.seq = Tip(wire, device.last) + 1 BY <1>1, <1>2, <3>1 DEF EventInv, TipSound
      <4>3. Chained(wire, device.last, db.log) BY DEF EventInv, WireSound
      <4> QED BY <1>2, <3>1, <4>1, <4>2, <4>3, EventFacts, WireGrows
    <3>2. CASE ~link
      <4>1. wire' = wire BY <1>3, <3>2 DEF Sent
      <4> QED BY <3>2, <4>1, EventFacts DEF EventInv, WireSound, ConnSound
    <3> QED BY <3>1, <3>2
  <2>4. EventTyped' BY <1>1, <2>1, <2>3 DEF EventInv, EventTyped, Stored
  <2>5. ConnSound' BY <1>1, <1>2, <2>1, <2>3 DEF EventInv, ConnSound
  <2>6. BarrierSound' BY <1>1, <1>2, <2>1 DEF EventInv, BarrierSound, ConnSound
  <2>7. QueueSound' BY <1>1, <1>2, <2>1, <2>2 DEF EventInv, QueueSound
  <2>8. WireSound' /\ DeviceSound' /\ NothingIsMissed'
    BY <1>1, <2>3 DEF EventInv, WireSound, DeviceSound, NothingIsMissed, NothingMissed
  <2>9. TipSound' BY <1>1, <2>1, <2>2, <2>3 DEF TipSound
  <2> QED BY <2>4, <2>5, <2>6, <2>7, <2>8, <2>9 DEF EventInv
<1>4. CASE ~link /\ conn' = [TakenOff(conn) EXCEPT !.drain = "idle", !.frame = NoFrame] /\ UNCHANGED wire
  <2>1. /\ conn' \in Conns /\ ~conn'.registered /\ conn'.step = "up" /\ conn'.queue = <<>>
        /\ ~conn'.ready /\ conn'.barrier = 0 /\ conn'.drain = "idle"
    <3>1. NoFrame \in Frames BY DEF NoFrame, Frames
    <3>2. TakenOff(conn) \in Conns /\ ~TakenOff(conn).registered /\ TakenOff(conn).step = "up"
          /\ TakenOff(conn).queue = <<>> /\ ~TakenOff(conn).ready /\ TakenOff(conn).barrier = 0
      BY <1>2, TakenOffIs, EventFacts
    <3> DEFINE c == TakenOff(conn)
    <3> HIDE DEF c
    <3>3. conn' = [c EXCEPT !.drain = "idle", !.frame = NoFrame] BY <1>4 DEF c
    <3>4. c \in Conns /\ ~c.registered /\ c.step = "up" /\ c.queue = <<>> /\ ~c.ready /\ c.barrier = 0 BY <3>2 DEF c
    <3> QED BY <3>1, <3>3, <3>4 DEF Conns, Drains
  <2>2. EventTyped' BY <1>1, <1>4, <2>1 DEF EventInv, EventTyped, EventBounds, Stored
  <2>3. ConnSound' BY <1>1, <1>2, <1>4, <2>1 DEF EventInv, ConnSound
  <2>4. BarrierSound' BY <1>1, <2>1 DEF EventInv, BarrierSound
  <2>5. QueueSound' BY <1>1, <2>1 DEF QueueSound
  <2>6. WireSound' /\ DeviceSound' /\ NothingIsMissed' /\ TipSound'
    BY <1>1, <1>4 DEF EventInv, WireSound, DeviceSound, NothingIsMissed, NothingMissed, TipSound
  <2> QED BY <2>2, <2>3, <2>4, <2>5, <2>6 DEF EventInv
<1> QED BY <1>3, <1>4 DEF DrainSends

\* mark_sent moves the cursor forward.
LEMMA MarkStores ==
  ASSUME NEW p, NEW d, Stored(d, p), NEW seq \in Nat, d.sent <= seq, seq < d.next
  PROVE  /\ Stored(MarkSent(d, seq), p) /\ MarkSent(d, seq).next = d.next /\ MarkSent(d, seq).sent = seq
         /\ MarkSent(d, seq).acked = d.acked /\ MarkSent(d, seq).inbox = d.inbox /\ MarkSent(d, seq).log = d.log
BY DEF Stored, MarkSent, Dbs

\* The cursor follows the frame.
LEMMA DrainMarksKeeps == ASSUME EventBounds, EventInv, DrainMarks PROVE EventInv'
<1>1. UNCHANGED <<published, cmd, link, wire, device, outgrown>> /\ conn.drain = "mark" BY DEF DrainMarks
<1>2. conn.step = "up" /\ conn.frame \in db.log /\ Base = conn.frame.seq
  BY <1>1 DEF EventInv, ConnSound, QueueSound, Base
<1>3. /\ conn' \in Conns /\ conn'.registered = conn.registered /\ conn'.step = "up" /\ conn'.queue = conn.queue
      /\ conn'.ready = conn.ready /\ conn'.barrier = conn.barrier
      /\ conn'.drain \in {"take", "idle"}
      /\ (conn.registered /\ conn'.drain = "idle" => conn.barrier > 0 /\ conn.frame.seq >= conn.barrier)
  <2>1. NoFrame \in Frames BY DEF NoFrame, Frames
  <2>2. conn' = [conn EXCEPT !.drain = IF conn.registered /\ ~Stops(conn) THEN "take" ELSE "idle", !.frame = NoFrame]
    BY DEF DrainMarks
  <2>3. Stops(conn) <=> conn.barrier > 0 /\ conn.frame.seq >= conn.barrier BY DEF Stops
  <2> QED BY <1>2, <2>1, <2>2, <2>3, EventFacts DEF Conns, Drains
<1>4. /\ Stored(db', published) /\ db'.next = db.next /\ db'.acked = db.acked /\ db'.inbox = db.inbox
      /\ db'.log = db.log /\ db.sent <= db'.sent /\ (conn.registered => db'.sent = conn.frame.seq)
  <2>1. CASE conn.registered
    <3>1. db.sent <= conn.frame.seq BY <1>2, <2>1 DEF EventInv, QueueSound
    <3>2. Stored(db, published) /\ conn.frame.seq < db.next BY <1>2 DEF EventInv, EventTyped, Stored
    <3>3. db' = MarkSent(db, conn.frame.seq) BY <2>1 DEF DrainMarks
    <3> QED BY <3>1, <3>2, <3>3, EventFacts, MarkStores
  <2>2. CASE ~conn.registered
    <3>1. db' = db BY <2>2 DEF DrainMarks
    <3> QED BY <2>2, <3>1, EventFacts DEF EventInv, EventTyped
  <2> QED BY <2>1, <2>2
<1>5. Base' = db'.sent BY <1>3 DEF Base
<1>6. EventTyped' BY <1>1, <1>3, <1>4 DEF EventInv, EventTyped
<1>7. ConnSound' BY <1>1, <1>2, <1>3 DEF EventInv, ConnSound
<1>8. BarrierSound'
  <2>1. db'.sent \in Nat /\ db.sent \in Nat /\ cmd.barrier \in Nat BY <1>4, EventFacts DEF Stored, Dbs
  <2>2. conn.ready => conn.registered BY DEF EventInv, ConnSound
  <2> QED BY <1>1, <1>3, <1>4, <2>1, <2>2 DEF EventInv, BarrierSound
<1>9. QueueSound'
  <2>1. db'.sent \in Nat BY <1>4 DEF Stored, Dbs
  <2> QED BY <1>2, <1>3, <1>4, <1>5, <2>1 DEF EventInv, QueueSound
<1>10. WireSound' /\ DeviceSound' /\ NothingIsMissed'
  BY <1>1, <1>4 DEF EventInv, WireSound, DeviceSound, NothingIsMissed, NothingMissed
<1>11. TipSound' BY <1>1, <1>2, <1>3, <1>4, <1>5 DEF EventInv, TipSound
<1> QED BY <1>6, <1>7, <1>8, <1>9, <1>10, <1>11 DEF EventInv

\* The frames of a window.
FramesOf(d, w) == Append(InOrder({row \in After(d, w.after) : row.seq <= w.through}), w.terminal)

\* They follow what the device has.
LEMMA WindowChains ==
  ASSUME NEW p, NEW d, Stored(d, p), NEW last \in Nat, NEW w, Fits(d, w, last)
  PROVE  /\ FramesOf(d, w) \in Seq(Frames) /\ Chained(FramesOf(d, w), last, d.log)
         /\ Tip(FramesOf(d, w), last) = w.terminal.seq
<1> DEFINE R == {row \in After(d, w.after) : row.seq <= w.through}
           replay == InOrder(R)
           n == w.through - w.after
<1>1. /\ d \in Dbs /\ d.inbox \subseteq d.log /\ OneRowANumber(d.log) /\ w.after \in Nat /\ w.through \in Nat
      /\ w.after <= w.through /\ w.terminal \in d.log /\ w.terminal \in Frames /\ w.terminal.seq \in Nat /\ n \in Nat
      /\ d.inbox \subseteq Frames
  BY DEF Stored, Fits, Windows, Dbs, Frames
<1>2. /\ R \subseteq d.inbox /\ \A r \in R : r.seq \in (w.after + 1)..w.through
      /\ OneRowANumber(R) /\ R \subseteq Frames
  <2>1. R \subseteq d.inbox BY DEF After
  <2>2. \A r \in R : r.seq \in Nat /\ r.seq > w.after /\ r.seq <= w.through BY <1>1, <2>1 DEF After, Frames
  <2>3. OneRowANumber(R) BY <1>1, <2>1 DEF OneRowANumber
  <2> QED BY <1>1, <2>1, <2>2, <2>3
<1>3. HasAll(R, w.after, w.through)
  <2>1. CASE w.after = w.through BY <1>1, <2>1 DEF HasAll
  <2>2. CASE HasAll(d.inbox, w.after, w.through) BY <1>1, <2>2 DEF HasAll, After
  <2> QED BY <2>1, <2>2 DEF Fits
<1>4. /\ replay \in Seq(R) /\ Len(replay) = n
      /\ \A i \in 1..n : replay[i] \in R /\ replay[i].seq = w.after + i
  <2> HIDE DEF R
  <2> QED BY <1>1, <1>2, <1>3, OrderOfARun
<1> HIDE DEF R, replay
<1>5. replay \in Seq(Frames) BY <1>2, <1>4
<1>6. CASE w.after = w.through /\ w.terminal.type = "reset"
  <2>1. Len(replay) = 0 BY <1>1, <1>4, <1>6
  <2>2. Chained(replay, last, d.log) BY <2>1 DEF Chained
  <2>3. /\ Append(replay, w.terminal) \in Seq(Frames) /\ Chained(Append(replay, w.terminal), last, d.log)
        /\ Tip(Append(replay, w.terminal), last) = w.terminal.seq
    BY <1>1, <1>5, <1>6, <2>2, WireGrows
  <2> QED BY <2>3 DEF R, replay, FramesOf
<1>7. CASE /\ w.terminal.seq = w.through + 1 /\ HasAll(d.inbox, w.after, w.through)
           /\ \/ w.after = last
              \/ w.after < w.through /\ \E row \in d.inbox : row.seq = w.after + 1 /\ row.type = "reset"
  <2>1. ASSUME NEW i \in 1..n
        PROVE  /\ replay[i] \in d.log
               /\ replay[i].type = "reset" \/ replay[i].seq = (IF i = 1 THEN last ELSE replay[i - 1].seq) + 1
    <3>1. replay[i] \in d.log BY <1>1, <1>2, <1>4
    <3>2. ASSUME i # 1 PROVE replay[i].seq = replay[i - 1].seq + 1
      <4>1. i - 1 \in 1..n /\ i \in Nat BY <1>1, <3>2
      <4>2. replay[i - 1].seq = w.after + (i - 1) /\ replay[i].seq = w.after + i BY <1>4, <4>1
      <4> QED BY <1>1, <4>1, <4>2
    <3>3. ASSUME i = 1 PROVE replay[i].type = "reset" \/ replay[i].seq = last + 1
      <4>1. replay[1] \in R /\ replay[1].seq = w.after + 1 BY <1>4, <3>3
      <4>2. CASE \E row \in d.inbox : row.seq = w.after + 1 /\ row.type = "reset"
        BY <1>1, <1>2, <3>3, <4>1, <4>2 DEF OneRowANumber
      <4> QED BY <1>7, <3>3, <4>1, <4>2
    <3> QED BY <3>1, <3>2, <3>3
  <2>2. Chained(replay, last, d.log) BY <1>4, <2>1 DEF Chained
  <2>3. w.terminal.seq = Tip(replay, last) + 1
    <3>1. CASE n = 0
      <4>1. replay = <<>> BY <1>4, <1>5, <3>1
      <4> QED BY <1>1, <1>7, <3>1, <4>1 DEF Tip
    <3>2. CASE n # 0
      <4>1. n \in 1..n BY <1>1, <3>2
      <4>2. replay # <<>> /\ replay[Len(replay)].seq = w.after + n BY <1>4, <1>5, <3>2, <4>1
      <4> QED BY <1>1, <1>7, <4>2 DEF Tip
    <3> QED BY <3>1, <3>2
  <2>4. /\ Append(replay, w.terminal) \in Seq(Frames) /\ Chained(Append(replay, w.terminal), last, d.log)
        /\ Tip(Append(replay, w.terminal), last) = w.terminal.seq
    BY <1>1, <1>5, <2>2, <2>3, WireGrows
  <2> QED BY <2>4 DEF R, replay, FramesOf
<1> QED BY <1>6, <1>7 DEF Fits

\* The window goes behind what the device has.
LEMMA ResumeSendsKeeps == ASSUME EventBounds, EventInv, ResumeSends PROVE EventInv'
<1>1. UNCHANGED <<db, published, cmd, link, device, outgrown>> /\ conn.step = "send" BY DEF ResumeSends
<1>2. /\ conn' \in Conns /\ conn'.registered = conn.registered /\ conn'.step = "mark" /\ conn'.queue = conn.queue
      /\ conn'.ready = conn.ready /\ conn'.barrier = conn.barrier /\ conn'.drain = conn.drain
      /\ conn'.frame = conn.frame /\ conn'.window = conn.window
  BY EventFacts DEF ResumeSends, Conns, Steps
<1>3. Base' = conn.window.terminal.seq /\ Base = conn.window.terminal.seq BY <1>1, <1>2 DEF Base
<1>4. /\ wire' \in Seq(Frames) /\ Chained(wire', device.last, db.log) /\ (~link => wire' = <<>>)
      /\ (link => Tip(wire', device.last) = conn.window.terminal.seq)
  <2> DEFINE w == conn.window
             frames == FramesOf(db, w)
  <2>1. Sent(frames) BY DEF ResumeSends, FramesOf
  <2>2. CASE link
    <3>1. wire = <<>> /\ Fits(db, w, device.last) BY <1>1, <2>2 DEF EventInv, TipSound
    <3>2. Stored(db, published) BY DEF EventInv, EventTyped
    <3>3. frames \in Seq(Frames) /\ Chained(frames, device.last, db.log) /\ Tip(frames, device.last) = w.terminal.seq
      <4> HIDE DEF w
      <4> QED BY <3>1, <3>2, EventFacts, WindowChains
    <3> HIDE DEF frames
    <3>4. wire' = wire \o frames BY <2>1, <2>2 DEF Sent
    <3>5. wire' = frames BY <3>1, <3>3, <3>4, ConcatEmptySeq
    <3> QED BY <2>2, <3>3, <3>5
  <2>3. CASE ~link
    <3>1. wire' = wire BY <2>1, <2>3 DEF Sent
    <3> QED BY <2>3, <3>1, EventFacts DEF EventInv, WireSound, ConnSound
  <2> QED BY <2>2, <2>3
<1>5. EventTyped' BY <1>1, <1>2, <1>4 DEF EventInv, EventTyped, Stored
<1>6. ConnSound' BY <1>1, <1>2, <1>4 DEF EventInv, ConnSound
<1>7. BarrierSound' BY <1>1, <1>2 DEF EventInv, BarrierSound
<1>8. QueueSound' BY <1>1, <1>2, <1>3 DEF EventInv, QueueSound
<1>9. WireSound' /\ DeviceSound' /\ NothingIsMissed'
  BY <1>1, <1>4 DEF EventInv, WireSound, DeviceSound, NothingIsMissed, NothingMissed
<1>10. TipSound' 
  <2>1. conn.drain = "idle" BY <1>1 DEF EventInv, ConnSound
  <2> QED BY <1>1, <1>2, <1>3, <1>4, <2>1 DEF TipSound
<1> QED BY <1>5, <1>6, <1>7, <1>8, <1>9, <1>10 DEF EventInv

\* The cursor follows the closing frame.
LEMMA ResumeMarksKeeps == ASSUME EventBounds, EventInv, ResumeMarks PROVE EventInv'
<1>1. UNCHANGED <<published, cmd, link, wire, device, outgrown>> /\ conn.step = "mark" BY DEF ResumeMarks
<1>2. conn.drain = "idle" /\ conn.window.terminal \in db.log /\ Base = conn.window.terminal.seq
  BY <1>1 DEF EventInv, ConnSound, QueueSound, Base
<1>3. /\ conn' \in Conns /\ conn'.registered = conn.registered /\ conn'.step = "ready" /\ conn'.queue = conn.queue
      /\ conn'.ready = conn.ready /\ conn'.barrier = conn.barrier /\ conn'.drain = "idle"
      /\ conn'.window = conn.window
  BY <1>2, EventFacts DEF ResumeMarks, Conns, Steps
<1>4. /\ Stored(db', published) /\ db'.next = db.next /\ db'.acked = db.acked /\ db'.inbox = db.inbox
      /\ db'.log = db.log /\ db.sent <= db'.sent /\ (conn.registered => db'.sent = conn.window.terminal.seq)
  <2>1. CASE conn.registered
    <3>1. db.sent <= conn.window.terminal.seq BY <1>2, <2>1 DEF EventInv, QueueSound
    <3>2. Stored(db, published) /\ conn.window.terminal.seq < db.next BY <1>2 DEF EventInv, EventTyped, Stored
    <3>3. db' = MarkSent(db, conn.window.terminal.seq) BY <2>1 DEF ResumeMarks
    <3>4. conn.window.terminal.seq \in Nat BY <1>1, EventFacts
    <3> QED BY <3>1, <3>2, <3>3, <3>4, MarkStores
  <2>2. CASE ~conn.registered
    <3>1. db' = db BY <2>2 DEF ResumeMarks
    <3> QED BY <2>2, <3>1, EventFacts DEF EventInv, EventTyped
  <2> QED BY <2>1, <2>2
<1>5. Base' = db'.sent BY <1>3 DEF Base
<1>6. EventTyped' BY <1>1, <1>3, <1>4 DEF EventInv, EventTyped
<1>7. ConnSound' BY <1>1, <1>3 DEF EventInv, ConnSound
<1>8. BarrierSound'
  <2>1. db'.sent \in Nat /\ db.sent \in Nat /\ cmd.barrier \in Nat BY <1>4, EventFacts DEF Stored, Dbs
  <2>2. ~conn.ready BY <1>1 DEF EventInv, ConnSound
  <2> QED BY <1>1, <1>3, <1>4, <2>1, <2>2 DEF EventInv, BarrierSound
<1>9. QueueSound'
  <2>1. db'.sent \in Nat BY <1>4 DEF Stored, Dbs
  <2> QED BY <1>2, <1>3, <1>4, <1>5, <2>1 DEF EventInv, QueueSound
<1>10. WireSound' /\ DeviceSound' /\ NothingIsMissed'
  BY <1>1, <1>4 DEF EventInv, WireSound, DeviceSound, NothingIsMissed, NothingMissed
<1>11. TipSound' BY <1>1, <1>2, <1>3, <1>4, <1>5 DEF EventInv, TipSound
<1> QED BY <1>6, <1>7, <1>8, <1>9, <1>10, <1>11 DEF EventInv

\* What was queued meanwhile gets its task.
LEMMA ResumeReadyKeeps == ASSUME EventBounds, EventInv, ResumeReady PROVE EventInv'
<1>1. UNCHANGED <<db, published, cmd, link, wire, device, outgrown>> /\ conn.step = "ready" BY DEF ResumeReady
<1>2. conn.drain = "idle" /\ cmd.pc = "idle" /\ cmd.barrier = 0 /\ conn.barrier = 0
  BY <1>1 DEF EventInv, ConnSound, BarrierSound
<1>3. /\ conn' \in Conns /\ conn'.registered = conn.registered /\ conn'.step = "up" /\ conn'.queue = conn.queue
      /\ (conn'.ready <=> conn.registered) /\ conn'.barrier = 0 /\ conn'.drain \in {"idle", "take"}
      /\ (conn.registered => conn'.drain = IF conn.queue # <<>> THEN "take" ELSE "idle")
      /\ (~conn.registered => conn'.drain = "idle")
  <2>1. CASE conn.registered
    <3> DEFINE c == [conn EXCEPT !.step = "up", !.window = <<>>, !.ready = TRUE]
    <3>1. /\ c \in Conns /\ c.registered /\ c.step = "up" /\ c.queue = conn.queue /\ c.ready /\ c.barrier = 0
          /\ c.drain = "idle"
      BY <1>2, <2>1, EventFacts DEF Conns, Steps
    <3>2. conn' = Scheduled(c) BY <2>1 DEF ResumeReady
    <3> HIDE DEF c
    <3> QED BY <2>1, <3>1, <3>2, ScheduledIs
  <2>2. CASE ~conn.registered
    <3>1. conn' = [conn EXCEPT !.step = "up", !.window = <<>>] BY <2>2 DEF ResumeReady
    <3>2. ~conn.ready BY <2>2 DEF EventInv, ConnSound
    <3> QED BY <1>2, <2>2, <3>1, <3>2, EventFacts DEF Conns, Steps
  <2> QED BY <2>1, <2>2
<1>4. Base = db.sent /\ Base' = db.sent BY <1>1, <1>2, <1>3 DEF Base
<1>5. EventTyped' BY <1>1, <1>3 DEF EventInv, EventTyped, Stored
<1>6. ConnSound' BY <1>1, <1>2, <1>3 DEF EventInv, ConnSound
<1>7. BarrierSound' BY <1>1, <1>2, <1>3 DEF EventInv, BarrierSound
<1>8. QueueSound' BY <1>1, <1>3, <1>4 DEF EventInv, QueueSound
<1>9. WireSound' /\ DeviceSound' /\ NothingIsMissed'
  BY <1>1 DEF EventInv, WireSound, DeviceSound, NothingIsMissed, NothingMissed
<1>10. TipSound' BY <1>1, <1>2, <1>3, <1>4 DEF EventInv, TipSound
<1> QED BY <1>5, <1>6, <1>7, <1>8, <1>9, <1>10 DEF EventInv

\* The connection is gone.
LEMMA DownKeeps ==
  ASSUME EventBounds, EventInv, conn' = NoConn, cmd' = NoCmd, ~link', link' \in BOOLEAN, wire' = <<>>,
         UNCHANGED <<db, published, device, outgrown>>
  PROVE  EventInv'
<1>1. EventTyped' BY NoConnIs DEF EventInv, EventTyped, EventBounds, Stored
<1>2. ConnSound' BY NoConnIs DEF ConnSound
<1>3. BarrierSound'
  <2>1. 0 < db.next
    <3>1. db.sent < db.next BY DEF EventInv, EventTyped, Stored
    <3>2. db.sent \in Nat /\ db.next \in Nat BY EventFacts
    <3> QED BY <3>1, <3>2
  <2> QED BY <2>1, NoConnIs DEF BarrierSound
<1>4. QueueSound' /\ TipSound' BY NoConnIs DEF QueueSound, TipSound
<1>5. WireSound' /\ DeviceSound' /\ NothingIsMissed'
  BY DEF EventInv, WireSound, Chained, DeviceSound, NothingIsMissed, NothingMissed
<1> QED BY <1>1, <1>2, <1>3, <1>4, <1>5 DEF EventInv

\* The next frame is the next event, or tells all of them.
LEMMA DeviceHandlesKeeps == ASSUME EventBounds, EventInv, DeviceHandles PROVE EventInv'
<1> DEFINE f == Head(wire)
<1>1. UNCHANGED <<db, published, conn, cmd, link>> /\ link /\ wire # <<>> /\ wire' = Tail(wire)
      /\ outgrown' = (outgrown /\ f.type # "reset") /\ device'.last = f.seq
  BY DEF DeviceHandles
<1>2. /\ wire' \in Seq(Frames) /\ Len(wire') = Len(wire) - 1 /\ Len(wire) \in Nat /\ Len(wire) >= 1
      /\ \A i \in 1..Len(wire') : wire'[i] = wire[i + 1]
      /\ f = wire[1] /\ f \in Frames
  BY <1>1, EventFacts, HeadTailProperties
<1>3. f \in db.log /\ (f.type = "reset" \/ f.seq = device.last + 1) /\ f.seq < db.next /\ f.type # "none"
  <2>1. 1 \in 1..Len(wire) BY <1>2
  <2> QED BY <1>2, <2>1 DEF EventInv, WireSound, Chained, EventTyped, Stored
<1>4. /\ f.type = "event" => device'.known = device.known \cup {f.id}
      /\ f.type = "reset" => device'.known = 1..published
      /\ f.type = "completed" => device'.known = device.known
  BY DEF DeviceHandles
<1>5. f.type \in {"event", "reset", "completed"} /\ f.seq \in Nat /\ f.id \in Nat BY <1>2, <1>3 DEF Frames
<1>6. device' \in [last : Nat, known : SUBSET Nat]
  <2>1. device'.known \in SUBSET Nat
    <3>1. device.known \in SUBSET Nat /\ published \in Nat BY DEF EventInv, EventTyped
    <3> QED BY <1>4, <1>5, <3>1
  <2>2. device' = [last |-> device'.last, known |-> device'.known] BY DEF DeviceHandles
  <2> QED BY <1>1, <1>5, <2>1, <2>2
<1>7. Stored(db, published) BY DEF EventInv, EventTyped
<1>8. NothingIsMissed'
  <2> SUFFICES ASSUME ~outgrown', NEW row \in db.log, row.type = "event", row.seq <= f.seq
               PROVE  row.id \in device'.known
    BY <1>1 DEF NothingIsMissed, NothingMissed
  <2>1. row.seq \in Nat /\ row.id \in 1..published BY <1>7 DEF Stored, Dbs, Frames
  <2>2. CASE f.type = "reset" BY <1>4, <2>1, <2>2
  <2>3. CASE f.type # "reset"
    <3>1. ~outgrown /\ f.seq = device.last + 1 BY <1>1, <1>3, <2>3
    <3>2. CASE row.seq <= device.last
      <4>1. row.id \in device.known BY <3>1, <3>2 DEF EventInv, NothingIsMissed, NothingMissed
      <4> QED BY <1>4, <1>5, <2>3, <4>1
    <3>3. CASE row.seq = f.seq
      <4>1. row = f BY <1>3, <1>7, <3>3 DEF Stored, OneRowANumber
      <4> QED BY <1>4, <4>1
    <3>4. device.last \in Nat BY EventFacts
    <3> HIDE DEF f
    <3> QED BY <2>1, <3>1, <3>2, <3>3, <3>4
  <2> QED BY <2>2, <2>3
<1> HIDE DEF f
<1>9. EventTyped' BY <1>1, <1>2, <1>6 DEF EventInv, EventTyped, Stored
<1>10. ConnSound' BY <1>1 DEF EventInv, ConnSound
<1>11. BarrierSound' BY <1>1 DEF EventInv, BarrierSound
<1>12. Base' = Base BY <1>1 DEF Base
<1>13. QueueSound' BY <1>1, <1>12 DEF EventInv, QueueSound
<1>14. WireSound'
  <2> SUFFICES ASSUME NEW i \in 1..Len(wire')
               PROVE  /\ wire'[i] \in db.log
                      /\ wire'[i].type = "reset" \/ wire'[i].seq = (IF i = 1 THEN f.seq ELSE wire'[i - 1].seq) + 1
    BY <1>1 DEF WireSound, Chained
  <2>1. i \in Nat /\ i + 1 \in 1..Len(wire) /\ i + 1 # 1 /\ wire'[i] = wire[i + 1] BY <1>2
  <2>2. wire[i + 1] \in db.log /\ (wire[i + 1].type = "reset" \/ wire[i + 1].seq = wire[(i + 1) - 1].seq + 1)
    BY <2>1 DEF EventInv, WireSound, Chained
  <2>3. (i + 1) - 1 = i BY <2>1
  <2>4. i # 1 => wire'[i - 1] = wire[i]
    <3>1. i # 1 => i - 1 \in 1..Len(wire') /\ (i - 1) + 1 = i BY <1>2, <2>1
    <3> QED BY <1>2, <3>1
  <2> QED BY <1>2, <2>1, <2>2, <2>3, <2>4
<1>15. TipSound'
  <2>1. conn.step # "send" BY <1>1 DEF EventInv, TipSound
  <2>2. Tip(wire', device'.last) = Tip(wire, device.last)
    <3>1. CASE Len(wire) = 1 
      <4>1. wire' = <<>> BY <1>2, <3>1
      <4> QED BY <1>1, <1>2, <3>1, <4>1 DEF Tip
    <3>2. CASE Len(wire) # 1
      <4>1. wire' # <<>> /\ Len(wire') \in 1..Len(wire') /\ wire'[Len(wire')] = wire[Len(wire)] BY <1>2, <3>2
      <4> QED BY <1>1, <4>1 DEF Tip
    <3> QED BY <3>1, <3>2
  <2> QED BY <1>1, <1>12, <2>1, <2>2 DEF EventInv, TipSound
<1>16. DeviceSound' BY <1>1, <1>3 DEF DeviceSound
<1> QED BY <1>8, <1>9, <1>10, <1>11, <1>13, <1>14, <1>15, <1>16 DEF EventInv

\* Only acknowledged rows go.
LEMMA AcknowledgeKeeps == ASSUME EventBounds, EventInv, NEW seq \in 0..MaxSeq, Acknowledge(seq) PROVE EventInv'
<1>1. UNCHANGED <<published, conn, cmd, device, outgrown>> /\ conn.step = "up" /\ seq \in db.acked..device.last /\ link
  BY DEF Acknowledge
<1>2. CASE seq > db.sent
  <2>1. ~link' /\ link' \in BOOLEAN /\ wire' = <<>> /\ db' = db BY <1>2 DEF Acknowledge
  <2>2. Base' = Base BY <1>1, <2>1 DEF Base
  <2>3. EventTyped' BY <1>1, <2>1 DEF EventInv, EventTyped, Stored
  <2>4. ConnSound' BY <1>1, <2>1 DEF EventInv, ConnSound
  <2>5. BarrierSound' /\ QueueSound' BY <1>1, <2>1, <2>2 DEF EventInv, BarrierSound, QueueSound
  <2>6. WireSound' /\ TipSound' /\ NothingIsMissed'
    BY <1>1, <2>1 DEF EventInv, WireSound, Chained, TipSound, NothingIsMissed, NothingMissed
  <2>7. DeviceSound' BY <1>1, <2>1 DEF EventInv, DeviceSound
  <2> QED BY <2>3, <2>4, <2>5, <2>6, <2>7 DEF EventInv
<1>3. CASE ~(seq > db.sent)
  <2>1. db' = [db EXCEPT !.acked = seq, !.inbox = After(db, seq)] /\ UNCHANGED <<link, wire>>
    BY <1>3 DEF Acknowledge
  <2>2. seq \in Nat /\ db.acked <= seq /\ seq <= db.sent BY <1>1, <1>3, EventFacts
  <2>3. After(db, seq) \subseteq db.inbox /\ \A row \in After(db, seq) : seq < row.seq BY EventFacts DEF After, Dbs, Frames
  <2>4. /\ db' \in Dbs /\ db'.next = db.next /\ db'.sent = db.sent /\ db'.log = db.log /\ db'.acked = seq
        /\ db'.inbox = After(db, seq)
    BY <2>1, <2>2, <2>3, EventFacts DEF Dbs
  <2>5. Stored(db', published) BY <2>2, <2>3, <2>4 DEF EventInv, EventTyped, Stored
  <2>6. Base' = Base BY <1>1, <2>4 DEF Base
  <2>7. EventTyped' BY <1>1, <2>1, <2>4, <2>5 DEF EventInv, EventTyped
  <2>8. ConnSound' BY <1>1, <2>1 DEF EventInv, ConnSound
  <2>9. BarrierSound' /\ QueueSound' BY <1>1, <2>4, <2>6 DEF EventInv, BarrierSound, QueueSound
  <2>10. WireSound' /\ TipSound' /\ NothingIsMissed' /\ DeviceSound'
    BY <1>1, <2>1, <2>4, <2>6
    DEF EventInv, WireSound, TipSound, NothingIsMissed, NothingMissed, DeviceSound
  <2> QED BY <2>7, <2>8, <2>9, <2>10 DEF EventInv
<1> QED BY <1>2, <1>3

\* The command's barrier is the last number given.
LEMMA CommandHandledKeeps == ASSUME EventBounds, EventInv, CommandHandled PROVE EventInv'
<1>1. UNCHANGED <<db, published, link, wire, device, outgrown>> /\ conn.step = "up" /\ conn.registered
      /\ cmd' = [pc |-> "flush", barrier |-> db.next - 1] /\ cmd.pc = "idle" /\ cmd.barrier = 0
  BY DEF CommandHandled, NoCmd
<1>2. db.next \in Nat /\ db.sent \in Nat /\ db.sent < db.next /\ db.next - 1 \in Nat
  <2>1. db.next \in Nat /\ db.sent \in Nat /\ db.sent < db.next BY EventFacts DEF EventInv, EventTyped, Stored
  <2> QED BY <2>1
<1>3. /\ conn' \in Conns /\ conn'.registered /\ conn'.step = "up" /\ conn'.queue = conn.queue
      /\ conn'.ready = conn.ready /\ conn'.drain = conn.drain /\ conn'.frame = conn.frame
      /\ conn'.barrier = IF db.sent < db.next - 1 THEN db.next - 1 ELSE conn.barrier
  BY <1>1, <1>2, EventFacts DEF CommandHandled, Conns
<1>4. conn.barrier = 0 BY <1>1 DEF EventInv, BarrierSound
<1>5. Base' = Base BY <1>1, <1>3 DEF Base
<1>6. EventTyped' BY <1>1, <1>2, <1>3 DEF EventInv, EventTyped, Stored
<1>7. ConnSound' BY <1>1, <1>3 DEF EventInv, ConnSound
<1>8. BarrierSound'
  <2>1. conn.ready /\ conn.drain = "idle" => conn.queue = <<>> BY <1>4 DEF EventInv, BarrierSound
  <2> QED BY <1>1, <1>2, <1>3, <1>4, <2>1 DEF BarrierSound
<1>9. QueueSound' BY <1>1, <1>3, <1>5 DEF EventInv, QueueSound
<1>10. WireSound' /\ TipSound' /\ NothingIsMissed' /\ DeviceSound'
  BY <1>1, <1>3, <1>5
  DEF EventInv, WireSound, TipSound, NothingIsMissed, NothingMissed, DeviceSound
<1> QED BY <1>6, <1>7, <1>8, <1>9, <1>10 DEF EventInv

\* The command goes on.
LEMMA FlushEndsKeeps == ASSUME EventBounds, EventInv, FlushEnds PROVE EventInv'
<1>1. /\ UNCHANGED <<db, published, conn, link, wire, device, outgrown>> /\ cmd.pc = "flush"
      /\ cmd'.pc = "reply" /\ cmd'.barrier = cmd.barrier /\ cmd' \in [pc : {"idle", "flush", "reply"}, barrier : Nat]
  BY DEF FlushEnds, EventInv, EventTyped
<1>2. Base' = Base BY <1>1 DEF Base
<1>3. EventTyped' BY <1>1 DEF EventInv, EventTyped, Stored
<1>4. ConnSound' /\ BarrierSound' BY <1>1 DEF EventInv, ConnSound, BarrierSound
<1>5. QueueSound' /\ WireSound' /\ TipSound' /\ NothingIsMissed' /\ DeviceSound'
  BY <1>1, <1>2
  DEF EventInv, QueueSound, WireSound, TipSound, NothingIsMissed, NothingMissed, DeviceSound
<1> QED BY <1>3, <1>4, <1>5 DEF EventInv

\* Behind the reply the task goes on.
LEMMA CommandRepliesKeeps == ASSUME EventBounds, EventInv, CommandReplies PROVE EventInv'
<1>1. UNCHANGED <<db, published, link, wire, device, outgrown>> /\ cmd.pc = "reply" /\ cmd' = NoCmd
  BY DEF CommandReplies
<1>2. conn.step = "up" BY <1>1 DEF EventInv, ConnSound
<1>3. /\ conn' \in Conns /\ conn'.registered = conn.registered /\ conn'.step = "up" /\ conn'.queue = conn.queue
      /\ conn'.ready = conn.ready /\ conn'.frame = conn.frame /\ conn'.barrier = 0
      /\ conn'.drain = IF conn.barrier = cmd.barrier /\ conn.ready /\ conn.queue # <<>> /\ conn.drain = "idle"
                       THEN "take" ELSE conn.drain
  <2>1. CASE conn.barrier # cmd.barrier
    <3>1. conn' = conn /\ conn.barrier = 0 BY <2>1 DEF CommandReplies, EventInv, BarrierSound
    <3> QED BY <1>2, <2>1, <3>1, EventFacts
  <2>2. CASE conn.barrier = cmd.barrier
    <3> DEFINE c == [conn EXCEPT !.barrier = 0]
    <3>1. /\ c \in Conns /\ c.registered = conn.registered /\ c.step = "up" /\ c.queue = conn.queue
          /\ c.ready = conn.ready /\ c.frame = conn.frame /\ c.barrier = 0 /\ c.drain = conn.drain
      BY <1>2, EventFacts DEF Conns
    <3>2. conn' = IF c.registered THEN Scheduled(c) ELSE c BY <2>2 DEF CommandReplies
    <3>3. conn.ready => conn.registered BY DEF EventInv, ConnSound
    <3> HIDE DEF c
    <3> QED BY <2>2, <3>1, <3>2, <3>3, ScheduledIs
  <2> QED BY <2>1, <2>2
<1>4. conn'.drain = conn.drain \/ (conn.drain = "idle" /\ conn'.drain = "take") BY <1>3
<1>5. Base' = Base BY <1>1, <1>2, <1>3, <1>4 DEF Base
<1>6. EventTyped' BY <1>1, <1>3, NoConnIs DEF EventInv, EventTyped, Stored
<1>7. ConnSound' BY <1>1, <1>2, <1>3, NoConnIs DEF EventInv, ConnSound
<1>8. BarrierSound'
  <2>1. 0 < db.next /\ 0 <= db.sent
    <3>1. db.sent < db.next BY DEF EventInv, EventTyped, Stored
    <3>2. db.sent \in Nat /\ db.next \in Nat BY EventFacts
    <3> QED BY <3>1, <3>2
  <2>2. ~(conn'.ready /\ conn'.drain = "idle" /\ conn'.queue # <<>>)
    <3> SUFFICES ASSUME conn.ready, conn'.drain = "idle", conn.queue # <<>> PROVE FALSE BY <1>3
    <3>1. conn.drain = "idle" BY <1>4
    <3>2. conn.barrier > 0 BY <3>1 DEF EventInv, BarrierSound
    <3>3. conn.barrier = cmd.barrier BY <3>2 DEF EventInv, BarrierSound
    <3> QED BY <1>3, <3>1, <3>3
  <2> QED BY <1>1, <1>3, <2>1, <2>2, NoConnIs DEF BarrierSound
<1>9. QueueSound' BY <1>1, <1>2, <1>3, <1>4, <1>5 DEF EventInv, QueueSound
<1>10. WireSound' /\ TipSound' /\ NothingIsMissed' /\ DeviceSound'
  BY <1>1, <1>2, <1>3, <1>4, <1>5
  DEF EventInv, WireSound, TipSound, NothingIsMissed, NothingMissed, DeviceSound
<1> QED BY <1>6, <1>7, <1>8, <1>9, <1>10 DEF EventInv

\* What was on the wire is lost.
LEMMA LinkDropsKeeps == ASSUME EventBounds, EventInv, LinkDrops PROVE EventInv'
<1>1. ~link' /\ link' \in BOOLEAN /\ wire' = <<>> /\ UNCHANGED <<db, published, conn, cmd, device, outgrown>> /\ link
  BY DEF LinkDrops
<1>2. Base' = Base BY <1>1 DEF Base
<1>3. EventTyped' BY <1>1 DEF EventInv, EventTyped, Stored
<1>4. ConnSound' BY <1>1 DEF EventInv, ConnSound
<1>5. BarrierSound' /\ QueueSound' BY <1>1, <1>2 DEF EventInv, BarrierSound, QueueSound
<1>6. WireSound' /\ TipSound' /\ NothingIsMissed'
  BY <1>1 DEF EventInv, WireSound, Chained, TipSound, NothingIsMissed, NothingMissed
<1>7. DeviceSound' BY <1>1 DEF EventInv, DeviceSound
<1> QED BY <1>3, <1>4, <1>5, <1>6, <1>7 DEF EventInv

\* The device starts over.
LEMMA DeviceForgetsKeeps == ASSUME EventBounds, EventInv, DeviceForgets PROVE EventInv'
<1>1. /\ ~link /\ UNCHANGED <<db, published, conn, cmd, link, wire>> /\ ~outgrown' /\ outgrown' \in BOOLEAN
      /\ device' = [last |-> 0, known |-> {}]
  BY DEF DeviceForgets
<1>2. Base' = Base BY <1>1 DEF Base
<1>3. EventTyped' BY <1>1 DEF EventInv, EventTyped, Stored
<1>4. ConnSound' BY <1>1 DEF EventInv, ConnSound
<1>5. BarrierSound' /\ QueueSound' BY <1>1, <1>2 DEF EventInv, BarrierSound, QueueSound
<1>6. WireSound' /\ TipSound'
  <2>1. wire' = <<>> BY <1>1 DEF EventInv, ConnSound
  <2> QED BY <1>1, <2>1 DEF WireSound, Chained, TipSound
<1>7. DeviceSound' /\ NothingIsMissed'
  <2>1. Stored(db, published) /\ 0 < db.next
    <3>1. Stored(db, published) /\ db.sent < db.next BY DEF EventInv, EventTyped, Stored
    <3>2. db.sent \in Nat /\ db.next \in Nat BY EventFacts
    <3> QED BY <3>1, <3>2
  <2>2. \A row \in db.log : ~(row.seq <= 0)
    <3>1. \A row \in db.log : row.seq \in Nat /\ 1 <= row.seq BY <2>1 DEF Stored, Dbs, Frames
    <3> QED BY <3>1
  <2> QED BY <1>1, <2>1, <2>2 DEF DeviceSound, NothingIsMissed, NothingMissed
<1> QED BY <1>3, <1>4, <1>5, <1>6, <1>7 DEF EventInv

\* The rows change while the server is down.
LEMMA OfflineKeeps ==
  ASSUME EventBounds, EventInv, Offline, UNCHANGED <<published, conn, cmd, link, wire, device>>,
         Stored(db', published), db'.next <= db.next, 1 <= db'.next, db'.log \subseteq db.log,
         outgrown' \in BOOLEAN, outgrown => outgrown', device.last < db'.next \/ outgrown'
  PROVE  EventInv'
<1>1. conn = NoConn /\ ~link /\ conn' = NoConn /\ ~link' BY DEF Offline
<1>2. cmd.barrier = 0 /\ cmd.pc = "idle" BY <1>1, NoConnIs DEF EventInv, ConnSound, BarrierSound
<1>3. EventTyped'
  <2>1. db'.next <= MaxSeq + 1
    <3>1. db'.next \in Nat /\ db.next \in Nat /\ MaxSeq \in Nat /\ db.next <= MaxSeq + 1
      BY EventFacts DEF Stored, Dbs, EventInv, EventTyped, EventBounds
    <3> QED BY <3>1
  <2> QED BY <2>1 DEF EventInv, EventTyped
<1>4. ConnSound' BY <1>1 DEF EventInv, ConnSound
<1>5. BarrierSound'
  <2>1. 0 < db'.next
    <3>1. db'.next \in Nat BY DEF Stored, Dbs
    <3> QED BY <3>1
  <2> QED BY <1>1, <1>2, <2>1, NoConnIs DEF BarrierSound
<1>6. QueueSound' /\ TipSound' BY <1>1, NoConnIs DEF QueueSound, TipSound
<1>7. WireSound'
  <2>1. wire' = <<>> BY <1>1 DEF EventInv, ConnSound
  <2> QED BY <2>1 DEF WireSound, Chained
<1>8. DeviceSound' /\ NothingIsMissed'
  BY <1>1 DEF EventInv, DeviceSound, NothingIsMissed, NothingMissed
<1> QED BY <1>3, <1>4, <1>5, <1>6, <1>7, <1>8 DEF EventInv

\* A row is gone.
LEMMA RowLostKeeps == ASSUME EventBounds, EventInv, RowLost PROVE EventInv'
<1>1. Offline /\ UNCHANGED <<published, conn, cmd, link, wire, device, outgrown>> BY DEF RowLost
<1>2. PICK row \in db.inbox : db' = [db EXCEPT !.inbox = @ \ {row}] BY DEF RowLost
<1>3. /\ db' \in Dbs /\ db'.next = db.next /\ db'.sent = db.sent /\ db'.acked = db.acked /\ db'.log = db.log
      /\ db'.inbox = db.inbox \ {row}
  BY <1>2, EventFacts DEF Dbs
<1>4. Stored(db, published) /\ db.next \in Nat /\ db.sent \in Nat BY EventFacts DEF EventInv, EventTyped
<1>5. Stored(db', published) BY <1>3, <1>4 DEF Stored
<1>6. 1 <= db'.next /\ db'.next <= db.next BY <1>3, <1>4 DEF Stored
<1>7. outgrown' \in BOOLEAN /\ (device.last < db'.next \/ outgrown')
  BY <1>1, <1>3 DEF EventInv, EventTyped, DeviceSound
<1>8. db'.log \subseteq db.log BY <1>3
<1> QED BY <1>1, <1>5, <1>6, <1>7, <1>8, OfflineKeeps

\* Rows are gone that the device may have seen.
LEMMA RolledBackKeeps == ASSUME EventBounds, EventInv, RolledBack PROVE EventInv'
<1>1. Offline /\ UNCHANGED <<published, conn, cmd, link, wire, device>> BY DEF RolledBack
<1>2. PICK next \in 1..(db.next - 1), acked \in 0..db.acked :
         /\ acked < next
         /\ db' = [inbox |-> {row \in {r \in db.log : r.seq < next} : row.seq > acked}, next |-> next, acked |-> acked,
                   sent |-> IF db.sent < next THEN db.sent ELSE next - 1, log |-> {r \in db.log : r.seq < next}]
         /\ outgrown' = (outgrown \/ device.last >= next)
  BY DEF RolledBack
<1>3. Stored(db, published) /\ db.next \in Nat /\ db.sent \in Nat /\ db.acked \in Nat /\ device.last \in Nat
      /\ next \in Nat /\ acked \in Nat /\ 1 <= next /\ next <= db.next /\ acked <= db.acked
  BY EventFacts DEF EventInv, EventTyped
<1> DEFINE kept == {r \in db.log : r.seq < next}
           left == {row \in kept : row.seq > acked}
<1>4. db'.next = next /\ db'.acked = acked /\ db'.log = kept /\ db'.inbox = left
      /\ db'.sent = (IF db.sent < next THEN db.sent ELSE next - 1)
      /\ db' = [inbox |-> db'.inbox, next |-> db'.next, sent |-> db'.sent, acked |-> db'.acked, log |-> db'.log]
  BY <1>2
<1>5. kept \subseteq db.log /\ left \subseteq kept /\ kept \subseteq Frames BY <1>3 DEF Stored, Dbs
<1>6. db'.sent \in Nat /\ db'.sent < next /\ acked <= db'.sent
  <2>1. db.acked <= db.sent BY <1>3 DEF Stored
  <2> HIDE DEF kept, left
  <2> QED BY <1>2, <1>3, <1>4, <2>1
<1>7. \A row \in kept : row.seq \in Nat /\ row.seq < next BY <1>5 DEF Frames
<1>8. \A row \in left : row.seq \in Nat /\ acked < row.seq BY <1>3, <1>5, <1>7
<1>9. OneRowANumber(kept) BY <1>3, <1>5 DEF Stored, OneRowANumber
<1> HIDE DEF kept, left
<1>10. db' \in Dbs BY <1>3, <1>4, <1>5, <1>6 DEF Dbs
<1>11. \A row \in kept : 1 <= row.seq /\ row.type # "none" /\ (row.type = "event" => row.id \in 1..published)
  BY <1>3, <1>5 DEF Stored
<1>12. Stored(db', published) BY <1>4, <1>5, <1>6, <1>7, <1>8, <1>9, <1>10, <1>11 DEF Stored
<1>13. outgrown' \in BOOLEAN /\ (outgrown => outgrown') /\ (device.last < db'.next \/ outgrown')
  <2>1. outgrown \in BOOLEAN BY DEF EventInv, EventTyped
  <2>2. outgrown' = (outgrown \/ device.last >= next) BY <1>2
  <2>3. outgrown' \in BOOLEAN /\ (outgrown => outgrown') /\ (device.last >= next => outgrown') BY <2>1, <2>2
  <2>4. device.last < next \/ device.last >= next BY <1>3
  <2> QED BY <1>4, <2>3, <2>4
<1> QED BY <1>1, <1>3, <1>4, <1>5, <1>12, <1>13, OfflineKeeps
-----------------------------------------------------------------------------
(* Resuming *)

\* What a resume may prepare for a device that is at last.
Prepares(p, last) ==
  /\ Stored(p.db, published) /\ Fits(p.db, p.window, last) /\ p.window.terminal.seq = p.db.next - 1
  /\ last < p.db.next /\ p.db.next <= MaxSeq + 1
  /\ \A row \in p.db.log : row.type = "event" => row \in db.log /\ last < db.next

\* A reset tells everything.
LEMMA ResetPrepares ==
  ASSUME EventBounds, EventInv, db.next <= MaxSeq, NEW last \in Nat, last < db.next
  PROVE  Prepares(Reset(db, last), last)
<1> DEFINE id == 0
           type == "reset"
           row == Frame(db.next, type, id)
           e == Append1(db, type, id)
<1>1. Stored(e, published) /\ Appends(e, db, row)
  <2>1. /\ published \in Nat /\ published <= published /\ Stored(db, published) /\ type \in {"event", "reset", "completed"}
        /\ id \in Nat /\ (type = "event" => id \in 1..published)
    BY DEF EventInv, EventTyped
  <2> HIDE DEF type, id
  <2> QED BY <2>1, AppendStores
<1>2. row.seq = db.next /\ row.type = "reset" BY DEF Frame
<1>3. Reset(db, last).db = e /\ Reset(db, last).window = [after |-> last, through |-> last, terminal |-> row]
  BY DEF Reset, Window
<1> HIDE DEF e, row
<1>4. Reset(db, last).window \in Windows BY <1>1, <1>3 DEF Windows, Appends
<1>5. db.next \in Nat BY EventFacts
<1>6. Fits(e, Reset(db, last).window, last) BY <1>1, <1>2, <1>3, <1>4 DEF Fits, Appends
<1>7. \A r \in e.log : r.type = "event" => r \in db.log BY <1>1, <1>2 DEF Appends
<1> QED BY <1>1, <1>2, <1>3, <1>5, <1>6, <1>7 DEF Prepares, Appends, EventBounds

\* The numbering goes on where the device is.
LEMMA RebasePrepares ==
  ASSUME EventBounds, EventInv, NEW last \in Nat, last < MaxSeq
  PROVE  Prepares([db |-> Rebase(last), window |-> Window(last, last, Frame(last + 1, "reset", 0))], last)
<1> DEFINE row == Frame(last + 1, "reset", 0)
           e == Rebase(last)
           w == Window(last, last, row)
<1>1. row \in Frames /\ row.seq = last + 1 /\ row.type = "reset" BY DEF Frame, Frames
<1>2. e = [inbox |-> {row}, next |-> last + 2, sent |-> last, acked |-> last, log |-> {row}] BY DEF Rebase
<1>3. w = [after |-> last, through |-> last, terminal |-> row] BY DEF Window
<1> HIDE DEF row, e, w
<1>4. Stored(e, published) BY <1>1, <1>2 DEF Stored, Dbs, OneRowANumber
<1>5. Fits(e, w, last) BY <1>1, <1>2, <1>3 DEF Fits, Windows
<1>6. w.terminal.seq = e.next - 1 /\ last < e.next /\ e.next <= MaxSeq + 1 /\ \A r \in e.log : r.type # "event"
  BY <1>1, <1>2, <1>3 DEF EventBounds
<1> QED BY <1>4, <1>5, <1>6 DEF Prepares, e, w, row

\* The rows a check of contiguity counts.
LEMMA ContiguousMeans ==
  ASSUME NEW d, NEW p, Stored(d, p), NEW after \in Nat, NEW through \in Nat, after <= through, Contiguous(d, after, through)
  PROVE  HasAll(d.inbox, after, through)
<1> DEFINE R == {row \in d.inbox : row.seq > after /\ row.seq <= through}
<1>1. d \in Dbs /\ OneRowANumber(R) BY DEF Stored, OneRowANumber
<1>2. \A r \in R : r.seq \in (after + 1)..through BY <1>1 DEF Dbs, Frames
<1>3. Cardinality(R) = through - after BY DEF Contiguous
<1>4. R \subseteq d.inbox OBVIOUS
<1> HIDE DEF R
<1>5. HasAll(R, after, through) BY <1>1, <1>2, <1>3, RunOfRows
<1> QED BY <1>4, <1>5 DEF HasAll

\* A reset that was never handled is sent again, with what followed it.
LEMMA ResetRowPrepares ==
  ASSUME EventBounds, EventInv, NEW last \in Nat, last < db.next, db.next <= MaxSeq,
         NEW first, first = Head(InOrder(After(db, last))), InOrder(After(db, last)) # <<>>, first.type = "reset",
         Contiguous(db, first.seq, db.next - 1), After(db, last) # {}
  PROVE  IF db.next - 1 = first.seq THEN Prepares([db |-> db, window |-> Window(last, last, first)], last)
         ELSE Prepares([db |-> db, window |-> Window(first.seq - 1, db.next - 1 - 1, Last(InOrder(After(db, last))))], last)
<1> DEFINE R == After(db, last)
           through == db.next - 1
<1>1. /\ Stored(db, published) /\ db \in Dbs /\ db.next \in Nat /\ db.next >= 1 /\ through \in Nat /\ last <= through
      /\ db.inbox \subseteq db.log /\ db.inbox \subseteq Frames /\ db.next <= MaxSeq + 1
  <2>1. Stored(db, published) /\ db.next \in Nat /\ db.next <= MaxSeq + 1 BY EventFacts DEF EventInv, EventTyped
  <2> QED BY <2>1 DEF Stored, Dbs
<1>2. R \subseteq db.inbox /\ OneRowANumber(R) /\ \A r \in R : r.seq \in (last + 1)..through
  <2>1. R \subseteq db.inbox BY DEF After
  <2>2. OneRowANumber(R) BY <1>1, <2>1 DEF Stored, OneRowANumber
  <2>3. \A r \in R : r.seq \in Nat /\ r.seq > last /\ r.seq < db.next BY <1>1, <2>1 DEF After, Stored, Frames
  <2> QED BY <1>1, <2>1, <2>2, <2>3
<1>3. IsFiniteSet(R) /\ \A r \in R : r.seq \in Nat
  <2> HIDE DEF R, through
  <2>1. IsFiniteSet(R) BY <1>1, <1>2, RunOfRows
  <2> QED BY <1>2, <2>1
<1>4. first \in R /\ \A m \in R : (\A r \in R : r.seq <= m.seq) => Last(InOrder(R)) = m
  <2> HIDE DEF R
  <2>1. R # {} BY DEF R
  <2>2. Head(InOrder(R)) \in R /\ \A m \in R : (\A r \in R : r.seq <= m.seq) => Last(InOrder(R)) = m
    BY <1>2, <1>3, <2>1, EndsOfRows
  <2> QED BY <2>2 DEF R
<1>5. first \in db.inbox /\ first \in db.log /\ first \in Frames /\ first.seq \in Nat /\ last < first.seq /\ first.seq <= through
  BY <1>1, <1>2, <1>4
<1>6. HasAll(db.inbox, first.seq, through)
  <2> HIDE DEF through
  <2>1. Contiguous(db, first.seq, through) BY DEF through
  <2> QED BY <1>1, <1>5, <2>1, ContiguousMeans
<1>7. \A row \in db.log : row.type = "event" => row \in db.log /\ last < db.next OBVIOUS
<1>8. CASE through = first.seq
  <2> DEFINE w == Window(last, last, first)
  <2>1. w = [after |-> last, through |-> last, terminal |-> first] BY DEF Window
  <2> HIDE DEF w
  <2>2. Fits(db, w, last) BY <1>5, <2>1 DEF Fits, Windows
  <2>3. w.terminal.seq = db.next - 1 BY <1>8, <2>1
  <2> QED BY <1>1, <1>7, <1>8, <2>2, <2>3 DEF Prepares, w
<1>9. CASE through # first.seq
  <2>1. PICK m \in db.inbox : m.seq = through
    <3>1. through \in (first.seq + 1)..through BY <1>1, <1>5, <1>9
    <3> QED BY <1>6, <3>1 DEF HasAll
  <2>2. m \in R BY <1>1, <1>5, <1>9, <2>1 DEF After
  <2>3. Last(InOrder(R)) = m
    <3>1. \A r \in R : r.seq <= m.seq BY <1>2, <2>1
    <3> QED BY <1>4, <2>2, <3>1
  <2> DEFINE w == Window(first.seq - 1, through - 1, m)
  <2>4. w = [after |-> first.seq - 1, through |-> through - 1, terminal |-> m] BY DEF Window
  <2> HIDE DEF w
  <2>5. first.seq - 1 \in Nat /\ through - 1 \in Nat /\ first.seq - 1 < through - 1 /\ (first.seq - 1) + 1 = first.seq
        /\ (through - 1) + 1 = through
    BY <1>1, <1>5, <1>9
  <2>6. HasAll(db.inbox, first.seq - 1, through - 1)
    <3> SUFFICES ASSUME NEW n \in ((first.seq - 1) + 1)..(through - 1) PROVE \E r \in db.inbox : r.seq = n
      BY DEF HasAll
    <3>1. n = first.seq \/ n \in (first.seq + 1)..through BY <1>1, <1>5
    <3> QED BY <1>5, <1>6, <3>1 DEF HasAll
  <2>7. m \in db.log /\ m \in Frames BY <1>1, <2>1
  <2>8. w \in Windows BY <2>4, <2>5, <2>7 DEF Windows
  <2>9. Fits(db, w, last)
    <3>1. w.after < w.through /\ w.after <= w.through BY <2>4, <2>5
    <3>2. \E row \in db.inbox : row.seq = w.after + 1 /\ row.type = "reset" BY <1>5, <2>4, <2>5
    <3>3. w.terminal.seq = w.through + 1 /\ HasAll(db.inbox, w.after, w.through) /\ w.terminal \in db.log
      BY <2>1, <2>4, <2>5, <2>6, <2>7
    <3> QED BY <2>8, <3>1, <3>2, <3>3 DEF Fits
  <2>10. w.terminal.seq = db.next - 1 BY <2>1, <2>4
  <2>11. Prepares([db |-> db, window |-> w], last) BY <1>1, <1>7, <2>9, <2>10 DEF Prepares
  <2> QED BY <1>9, <2>3, <2>11 DEF w
<1> QED BY <1>8, <1>9

\* A window without a gap is closed by sync.completed.
LEMMA CompletedPrepares ==
  ASSUME EventBounds, EventInv, NEW last \in Nat, last < db.next, db.next <= MaxSeq, Contiguous(db, last, db.next - 1)
  PROVE  Prepares([db |-> Append1(db, "completed", 0),
                   window |-> Window(last, db.next - 1, Frame(db.next, "completed", 0))], last)
<1> DEFINE id == 0
           type == "completed"
           row == Frame(db.next, type, id)
           e == Append1(db, type, id)
           through == db.next - 1
           w == Window(last, through, row)
<1>1. Stored(e, published) /\ Appends(e, db, row)
  <2>1. /\ published \in Nat /\ published <= published /\ Stored(db, published) /\ type \in {"event", "reset", "completed"}
        /\ id \in Nat /\ (type = "event" => id \in 1..published)
    BY DEF EventInv, EventTyped
  <2> HIDE DEF type, id
  <2> QED BY <2>1, AppendStores
<1>2. row.seq = db.next /\ row.type = "completed" BY DEF Frame
<1>3. w = [after |-> last, through |-> through, terminal |-> row] BY DEF Window
<1>4. db.next \in Nat /\ through \in Nat /\ last <= through /\ through + 1 = db.next BY EventFacts
<1>5. HasAll(db.inbox, last, through)
  <2>1. Stored(db, published) /\ Contiguous(db, last, through) BY DEF EventInv, EventTyped
  <2> HIDE DEF through
  <2> QED BY <1>4, <2>1, ContiguousMeans
<1> HIDE DEF e, row, w, through
<1>6. w \in Windows BY <1>1, <1>3, <1>4 DEF Windows, Appends
<1>7. HasAll(e.inbox, last, through) BY <1>1, <1>5 DEF HasAll, Appends
<1>8. Fits(e, w, last) BY <1>1, <1>2, <1>3, <1>4, <1>6, <1>7 DEF Fits, Appends
<1>9. \A r \in e.log : r.type = "event" => r \in db.log BY <1>1, <1>2 DEF Appends
<1>10. w.terminal.seq = e.next - 1 /\ last < e.next /\ e.next <= MaxSeq + 1
  BY <1>1, <1>2, <1>3, <1>4 DEF Appends, EventBounds
<1>11. Prepares([db |-> e, window |-> w], last) BY <1>1, <1>8, <1>9, <1>10 DEF Prepares
<1> QED BY <1>11 DEF e, w, row, through

\* _prepare_resume, in the order of its checks.
LEMMA ResumePrepares ==
  ASSUME EventBounds, EventInv, db.next <= MaxSeq, NEW last \in Nat, last < MaxSeq,
         NEW p \in {Prepared(db, last)} \cup Refused(db, last)
  PROVE  Prepares(p, last)
<1>1. db.next \in Nat /\ db.acked \in Nat /\ db.acked < db.next
  <2>1. db.next \in Nat /\ db.acked \in Nat /\ db.sent \in Nat /\ db.acked <= db.sent /\ db.sent < db.next
    BY EventFacts DEF EventInv, EventTyped, Stored
  <2> QED BY <2>1
<1>2. ASSUME p \in Refused(db, last) PROVE Prepares(p, last)
  <2>1. last < db.next /\ p = Reset(db, last) BY <1>1, <1>2 DEF Refused
  <2> QED BY <2>1, ResetPrepares
<1>3. ASSUME p = Prepared(db, last) PROVE Prepares(p, last)
  <2> DEFINE through == db.next - 1
             newer == InOrder(After(db, last))
             first == Head(newer)
  <2>1. CASE last < db.acked
    <3>1. p = Reset(db, last) BY <1>3, <2>1 DEF Prepared
    <3>2. last < db.next BY <1>1, <2>1
    <3> QED BY <3>1, <3>2, ResetPrepares
  <2>2. CASE ~(last < db.acked) /\ last > through
    <3>1. p = [db |-> Rebase(last), window |-> Window(last, last, Frame(last + 1, "reset", 0))]
      BY <1>3, <2>2 DEF Prepared
    <3> QED BY <3>1, RebasePrepares
  <2>3. CASE ~(last < db.acked) /\ ~(last > through)
    <3>1. last < db.next BY <1>1, <2>3
    <3>2. CASE newer # <<>> /\ first.type = "reset"
      <4>1. CASE ~Contiguous(db, first.seq, through)
        <5>1. p = Reset(db, last) BY <1>3, <2>3, <3>2, <4>1 DEF Prepared
        <5> QED BY <3>1, <5>1, ResetPrepares
      <4>2. CASE Contiguous(db, first.seq, through)
        <5>1. p = IF through = first.seq THEN [db |-> db, window |-> Window(last, last, first)]
                  ELSE [db |-> db, window |-> Window(first.seq - 1, through - 1, Last(newer))]
          BY <1>3, <2>3, <3>2, <4>2 DEF Prepared
        <5>2. After(db, last) # {}
          <6> SUFFICES ASSUME After(db, last) = {} PROVE FALSE OBVIOUS
          <6>1. Cardinality({}) = 0 BY FS_EmptySet
          <6>2. newer = <<>> BY <6>1 DEF InOrder
          <6> QED BY <3>2, <6>2
        <5> HIDE DEF first
        <5>3. IF through = first.seq THEN Prepares([db |-> db, window |-> Window(last, last, first)], last)
              ELSE Prepares([db |-> db, window |-> Window(first.seq - 1, through - 1, Last(newer))], last)
          <6>1. first = Head(InOrder(After(db, last))) BY DEF first
          <6> QED BY <3>1, <3>2, <4>2, <5>2, <6>1, ResetRowPrepares
        <5> QED BY <5>1, <5>3
      <4> QED BY <4>1, <4>2
    <3>3. CASE ~(newer # <<>> /\ first.type = "reset")
      <4>1. CASE ~Contiguous(db, last, through)
        <5>1. p = Reset(db, last) BY <1>3, <2>3, <3>3, <4>1 DEF Prepared
        <5> QED BY <3>1, <5>1, ResetPrepares
      <4>2. CASE Contiguous(db, last, through)
        <5>1. p = [db |-> Append1(db, "completed", 0), window |-> Window(last, through, Frame(db.next, "completed", 0))]
          BY <1>3, <2>3, <3>3, <4>2 DEF Prepared
        <5> QED BY <3>1, <4>2, <5>1, CompletedPrepares
      <4> QED BY <4>1, <4>2
    <3> QED BY <3>2, <3>3
  <2> QED BY <2>1, <2>2, <2>3
<1> QED BY <1>2, <1>3

\* The device connects.
LEMMA ResumeKeeps == ASSUME EventBounds, EventInv, Resume PROVE EventInv'
<1>1. ~link /\ db.next <= MaxSeq /\ device.last < MaxSeq /\ link' /\ link' \in BOOLEAN /\ wire' = <<>> /\ cmd' = NoCmd
      /\ UNCHANGED <<published, device>> /\ outgrown' = (outgrown /\ device.last < db.next) /\ device.last \in Nat
  BY EventFacts DEF Resume
<1>2. PICK p \in {Prepared(db, device.last)} \cup Refused(db, device.last) :
         db' = p.db /\ conn' = [NoConn EXCEPT !.registered = TRUE, !.step = "send", !.window = p.window]
  BY DEF Resume
<1>3. Prepares(p, device.last) BY <1>1, ResumePrepares
<1>4. /\ Stored(db', published) /\ Fits(db', p.window, device.last) /\ p.window.terminal.seq = db'.next - 1
      /\ device.last < db'.next /\ db'.next <= MaxSeq + 1
      /\ \A row \in db'.log : row.type = "event" => row \in db.log /\ device.last < db.next
      /\ p.window \in Windows
  BY <1>2, <1>3 DEF Prepares, Fits
<1>5. /\ conn' \in Conns /\ conn'.registered /\ conn'.step = "send" /\ conn'.window = p.window /\ ~conn'.ready
      /\ conn'.queue = <<>> /\ conn'.drain = "idle" /\ conn'.barrier = 0
  <2>1. NoFrame \in Frames /\ <<>> \in Seq(Frames) BY DEF NoFrame, Frames
  <2>2. conn' = [registered |-> TRUE, step |-> "send", window |-> p.window, ready |-> FALSE,
                 queue |-> <<>>, drain |-> "idle", frame |-> NoFrame, barrier |-> 0]
    BY <1>2 DEF NoConn
  <2> QED BY <1>4, <2>1, <2>2 DEF Conns, Steps, Drains
<1>6. Base' = db'.next - 1 BY <1>4, <1>5 DEF Base
<1>7. db'.next \in Nat /\ db'.sent \in Nat /\ db'.sent < db'.next BY <1>4 DEF Stored, Dbs
<1>8. EventTyped'
  <2>1. Len(conn'.queue) <= MaxQueue /\ wire' \in Seq(Frames) BY <1>1, <1>5 DEF EventBounds
  <2> QED BY <1>1, <1>4, <1>5, <2>1, NoConnIs DEF EventInv, EventTyped
<1>9. ConnSound' BY <1>1, <1>4, <1>5, NoConnIs DEF ConnSound
<1>10. BarrierSound' BY <1>1, <1>5, <1>7, NoConnIs DEF BarrierSound
<1>11. QueueSound'
  <2>1. conn'.window.terminal \in db'.log BY <1>4, <1>5 DEF Fits
  <2>2. db'.sent <= Base' /\ Len(conn'.queue) = db'.next - 1 - Base'
    BY <1>5, <1>6, <1>7
  <2> QED BY <1>5, <2>1, <2>2 DEF QueueSound
<1>12. WireSound' BY <1>1 DEF WireSound, Chained
<1>13. TipSound' BY <1>1, <1>4, <1>5 DEF TipSound
<1>14. DeviceSound' BY <1>1, <1>4 DEF DeviceSound
<1>15. NothingIsMissed' BY <1>1, <1>4 DEF EventInv, NothingIsMissed, NothingMissed
<1> QED BY <1>8, <1>9, <1>10, <1>11, <1>12, <1>13, <1>14, <1>15 DEF EventInv

\* Every step keeps the invariant.
LEMMA NextEventInv == ASSUME EventBounds, EventInv, EventNext PROVE EventInv'
<1>1. CASE ConnectionEnds
  <2>1. conn' = NoConn /\ cmd' = NoCmd /\ ~link' /\ link' \in BOOLEAN /\ wire' = <<>> /\ UNCHANGED <<db, published, device, outgrown>>
    BY <1>1 DEF ConnectionEnds
  <2> QED BY <2>1, DownKeeps
<1>2. CASE ServerRestarts
  <2>1. conn' = NoConn /\ cmd' = NoCmd /\ ~link' /\ link' \in BOOLEAN /\ wire' = <<>> /\ UNCHANGED <<db, published, device, outgrown>>
    BY <1>2 DEF ServerRestarts
  <2> QED BY <2>1, DownKeeps
<1> QED BY <1>1, <1>2, PublishKeeps, DrainTakesKeeps, DrainSendsKeeps, DrainMarksKeeps, ResumeKeeps, ResumeSendsKeeps,
           ResumeMarksKeeps, ResumeReadyKeeps, DeviceHandlesKeeps, AcknowledgeKeeps, CommandHandledKeeps, FlushEndsKeeps,
           CommandRepliesKeeps, LinkDropsKeeps, DeviceForgetsKeeps, RowLostKeeps, RolledBackKeeps
        DEF EventNext

\* So does a rest.
LEMMA RestEventInv == ASSUME EventInv, UNCHANGED eventVars PROVE EventInv'
<1>1. UNCHANGED <<db, published, conn, cmd, link, wire, device, outgrown>> BY DEF eventVars
<1>2. Base' = Base BY <1>1 DEF Base
<1>3. EventTyped' BY <1>1 DEF EventInv, EventTyped, Stored
<1> QED BY <1>1, <1>2, <1>3
    DEF EventInv, ConnSound, BarrierSound, QueueSound, WireSound, TipSound, DeviceSound, NothingIsMissed, NothingMissed

\* The invariant implies what a device relies on.
LEMMA EventPromises ==
  ASSUME EventBounds, EventInv
  PROVE  EventTypeOK /\ NothingIsMissed /\ BarrierHasATask
<1>1. EventTypeOK
  <2>1. /\ Stored(db, published) /\ db.next \in Nat /\ db.sent \in Nat /\ db.acked \in Nat /\ db.next <= MaxSeq + 1
        /\ db.sent < db.next /\ db.acked <= db.sent /\ db.inbox \subseteq db.log /\ db.inbox \subseteq Frames
    BY EventFacts DEF EventInv, EventTyped, Stored, Dbs
  <2>2. db.next \in 1..(MaxSeq + 3) BY <2>1 DEF EventBounds
  <2>3. \A row \in db.inbox : row.seq > db.acked /\ row.seq < db.next
    <3>1. \A row \in db.inbox : row.seq \in Nat /\ db.acked < row.seq /\ row.seq < db.next BY <2>1 DEF Stored, Frames
    <3> QED BY <2>1, <3>1
  <2>4. conn.drain \in Drains /\ Len(conn.queue) <= MaxQueue /\ cmd.pc \in {"idle", "flush", "reply"}
        /\ link \in BOOLEAN /\ outgrown \in BOOLEAN
    BY DEF EventInv, EventTyped, Conns
  <2> QED BY <2>1, <2>2, <2>3, <2>4 DEF EventTypeOK, Drains
<1>2. BarrierHasATask
  <2> SUFFICES ASSUME cmd.pc = "flush", conn.registered, db.sent < cmd.barrier, conn.drain = "idle" PROVE FALSE
    BY DEF BarrierHasATask
  <2>1. conn.step = "up" /\ conn.ready BY DEF EventInv, ConnSound
  <2>2. db.sent \in Nat /\ db.next \in Nat /\ cmd.barrier \in Nat /\ cmd.barrier < db.next BY EventFacts DEF EventInv, BarrierSound
  <2>3. Base = db.sent BY <2>1 DEF Base
  <2>4. Len(conn.queue) = db.next - 1 - db.sent BY <2>3 DEF EventInv, QueueSound
  <2>5. conn.queue # <<>> BY <2>2, <2>4
  <2>6. conn.barrier > 0 /\ db.sent >= conn.barrier BY <2>1, <2>5 DEF EventInv, BarrierSound
  <2>7. conn.barrier = cmd.barrier BY <2>6 DEF EventInv, BarrierSound
  <2> QED BY <2>2, <2>6, <2>7
<1> QED BY <1>1, <1>2 DEF EventInv

\* Over any connections, losses, restarts and rollbacks, no event is missed without
\* notice and no command waits for events that nobody sends (infra/mobile_realtime:
\* gateway.py, storage.py).
THEOREM EventsInvariant ==
  ASSUME EventBounds
  PROVE  EventSpec => [](EventTypeOK /\ NothingIsMissed /\ BarrierHasATask)
<1>1. EventInit => EventInv BY InitEventInv
<1>2. EventInv /\ [EventNext]_eventVars => EventInv' BY NextEventInv, RestEventInv
<1>3. EventInv => EventTypeOK /\ NothingIsMissed /\ BarrierHasATask BY EventPromises
<1> QED BY <1>1, <1>2, <1>3, PTL DEF EventSpec
=============================================================================
