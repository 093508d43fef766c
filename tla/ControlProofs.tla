--------------------------- MODULE ControlProofs ---------------------------
(***************************************************************************)
(* Proofs about the lane of a chat, for every set of chats, callers and    *)
(* objects, and about the parts that run beside it in ControlSpec.         *)
(*                                                                         *)
(* Every action of ChatLane changes the state object of one chat.  Fits    *)
(* says when such an object is right for the callers inside it; the lemma  *)
(* Update shows that it is enough to look at that object, and each action  *)
(* then shows that the object it leaves behind fits.                       *)
(*                                                                         *)
(* GInv adds to the gate's invariants what each holder relies on: while a  *)
(* deployment has the lease, whatever still runs is what its drain awaits, *)
(* and while a restart is pending, nothing runs but the turn that asked.   *)
(*                                                                         *)
(* OutInv follows a reply through the outbound queue and the stretches of  *)
(* the dispatcher, in each of which something is still owed for it.        *)
(***************************************************************************)
EXTENDS MCControl, SequenceTheorems, FiniteSetTheorems, WellFoundedInduction, TLAPS

LaneState ==
    [users : SUBSET Senders, turns : Nat, sends : Nat, next : Nat,
     serving : Nat, cancelled : SUBSET Nat, sending : BOOLEAN]

IsInside(k) == at[k] \in {"wait", "send"}

\* Turns never enter a call; only queued messages are announced beforehand.
Roles ==
    /\ \A t \in Turns : at[t] \in {"idle", "pending", "done"}
    /\ \A k \in Direct \cup Pushes : at[k] # "pending"

\* A caller works with the object its chat has now.
HeldIsRegistered ==
    \A k \in Senders :
        IsInside(k) => holds[k] \in Objects /\ registered[ChatOf[k]] = holds[k]

OneChatEach ==
    \A c, d \in Chats : registered[c] = registered[d] /\ registered[c] # None => c = d

SpareIsBlank ==
    \A o \in Objects : (\A c \in Chats : registered[c] # o) => object[o] = Blank

NothingLeaks ==
    \A c \in Chats : registered[c] # None => ~Forgettable(object[registered[c]])

\* The users are the callers inside.
FitUsers(o, s) == s.users = {k \in Senders : IsInside(k) /\ holds[k] = o}

\* The chat is taken exactly when one of them sends.
FitFlag(s) ==
    /\ s.sending <=> \E k \in s.users : at[k] = "send"
    /\ \A j, k \in s.users : at[j] = "send" /\ at[k] = "send" => j = k

\* The tickets from serving on are those of the pushes inside, one each, or
\* cancelled; the one that is served is not cancelled, and who sends has it.
FitTickets(s) ==
    /\ s.serving <= s.next /\ s.serving \notin s.cancelled
    /\ s.cancelled \subseteq s.serving..(s.next - 1)
    /\ \A i \in s.serving..(s.next - 1) :
           i \in s.cancelled \/ \E n \in s.users \cap Pushes : ticket[n] = i
    /\ \A n \in s.users \cap Pushes :
           /\ ticket[n] \in s.serving..(s.next - 1) /\ ticket[n] \notin s.cancelled
           /\ at[n] = "send" => ticket[n] = s.serving
    /\ \A n, m \in s.users \cap Pushes : ticket[n] = ticket[m] => n = m

Fits(o, s) == FitUsers(o, s) /\ FitFlag(s) /\ FitTickets(s)

FitCounts(c, s) ==
    /\ s.turns = Cardinality(PendingTurns(c))
    /\ s.sends = Cardinality(OpenSends(c))

EveryObjectFits == \A o \in Objects : Fits(o, object[o])

CountsFit ==
    \A c \in Chats :
        IF registered[c] = None THEN PendingTurns(c) = {} /\ OpenSends(c) = {}
        ELSE FitCounts(c, object[registered[c]])

IInv ==
    /\ TypeOK /\ Roles
    /\ HeldIsRegistered /\ OneChatEach /\ SpareIsBlank /\ NothingLeaks
    /\ EveryObjectFits /\ CountsFit

-----------------------------------------------------------------------------
\* Finite sets of callers

LEMMA Counted ==
    ASSUME NEW c \in Chats
    PROVE  IsFiniteSet(PendingTurns(c)) /\ IsFiniteSet(OpenSends(c))
<1>1. PendingTurns(c) \subseteq Callers /\ OpenSends(c) \subseteq Callers
    BY DEF PendingTurns, OpenSends, Callers, Senders, Passives
<1> QED
    BY <1>1, CallersAssumption, FS_Subset

\* The initial state: nobody is in, nothing is counted.
LEMMA Initially == Init => IInv
<1> SUFFICES ASSUME Init PROVE IInv
    OBVIOUS
<1> USE CallersAssumption, NoneAssumption
<1>1. Blank \in LaneState
    BY DEF Blank, LaneState
<1>2. TypeOK
    BY <1>1 DEF Init, TypeOK, LaneState
<1>3. Roles
    BY DEF Init, Roles, Callers, Senders, Passives
<1>4. HeldIsRegistered
    BY DEF Init, HeldIsRegistered, IsInside, Callers
<1>5. OneChatEach /\ SpareIsBlank /\ NothingLeaks
    BY DEF Init, OneChatEach, SpareIsBlank, NothingLeaks
<1>6. EveryObjectFits
  <2> SUFFICES ASSUME NEW o \in Objects PROVE Fits(o, Blank)
      BY DEF Init, EveryObjectFits
  <2>1. FitUsers(o, Blank)
      BY DEF Init, FitUsers, IsInside, Blank, Callers
  <2>2. FitFlag(Blank)
      BY DEF FitFlag, Blank
  <2>3. FitTickets(Blank)
      BY DEF FitTickets, Blank
  <2> QED
      BY <2>1, <2>2, <2>3 DEF Fits
<1>7. CountsFit
    BY DEF Init, CountsFit, PendingTurns, OpenSends, Callers, Senders, Passives
<1> QED
    BY <1>2, <1>3, <1>4, <1>5, <1>6, <1>7 DEF IInv

-----------------------------------------------------------------------------
\* What an action does to the object of its chat

\* A call that belongs in the object o of chat c.
Mine(c, o) ==
    \/ registered[c] = o
    \/ registered[c] = None /\ \A d \in Chats : registered[d] # o

\* Object o, of chat c, becomes s, or is forgotten if nobody needs s.
Becomes(c, o, s) ==
    /\ object' \in [Objects -> LaneState]
    /\ registered' \in [Chats -> Objects \cup {None}]
    /\ \A p \in Objects \ {o} : object'[p] = object[p]
    /\ \A d \in Chats \ {c} : registered'[d] = registered[d]
    /\ \/ registered'[c] = o /\ object'[o] = s /\ ~Forgettable(s)
       \/ registered'[c] = None /\ object'[o] = Blank /\ Forgettable(s)

LEMMA Released ==
    ASSUME TypeOK, NEW c \in Chats, NEW o \in Objects, NEW s \in LaneState,
           Mine(c, o), Release(c, o, s)
    PROVE  Becomes(c, o, s)
<1>1. Blank \in LaneState
    BY DEF Blank, LaneState
<1>2. object \in [Objects -> LaneState]
    BY DEF TypeOK, LaneState
<1> QED
    BY <1>1, <1>2, NoneAssumption DEF TypeOK, Mine, Release, Becomes

LEMMA Kept ==
    ASSUME TypeOK, NEW c \in Chats, NEW o \in Objects, NEW s \in LaneState,
           Keep(c, o, s), s.users # {}
    PROVE  Becomes(c, o, s)
<1>1. object \in [Objects -> LaneState]
    BY DEF TypeOK, LaneState
<1> QED
    BY <1>1 DEF TypeOK, Keep, Becomes, Forgettable

\* It is enough that the caller k of an action ends where it should, that the
\* object it leaves behind fits, and that nobody else moves.
LEMMA Update ==
    ASSUME IInv, TypeOK', Roles',
           NEW k \in Callers, NEW c \in Chats, c = ChatOf[k],
           NEW o \in Objects, NEW s \in LaneState, Mine(c, o), Becomes(c, o, s),
           \A j \in Callers \ {k} : at'[j] = at[j] /\ holds'[j] = holds[j],
           \A n \in Pushes \ {k} : ticket'[n] = ticket[n],
           k \in Senders /\ IsInside(k) => holds[k] = o,
           k \in Senders /\ IsInside(k)' => holds'[k] = o,
           Fits(o, s)', FitCounts(c, s)'
    PROVE  IInv'
<1> USE CallersAssumption, NoneAssumption
<1> USE DEF Senders, Callers
<1>0. /\ TypeOK /\ HeldIsRegistered /\ OneChatEach /\ SpareIsBlank
      /\ NothingLeaks /\ EveryObjectFits /\ CountsFit
    BY DEF IInv
<1>1. \A d \in Chats \ {c} : registered[d] # o
    BY <1>0 DEF Mine, OneChatEach
<1>2. OneChatEach'
    BY <1>0, <1>1 DEF OneChatEach, Becomes
<1>3. HeldIsRegistered'
  <2> SUFFICES ASSUME NEW j \in Senders, IsInside(j)'
               PROVE  holds'[j] \in Objects /\ registered'[ChatOf[j]] = holds'[j]
      BY DEF HeldIsRegistered
  <2>1. j \in Callers /\ ChatOf[j] \in Chats
      OBVIOUS
  <2>2. CASE holds'[j] = o
    <3>1. j \in s.users
        BY <2>2 DEF Fits, FitUsers
    <3>2. registered'[c] = o
        BY <3>1 DEF Becomes, Forgettable
    <3>3. CASE j = k
        BY <2>2, <3>2, <3>3
    <3>4. CASE j # k
      <4>1. IsInside(j) /\ holds[j] = o
          BY <2>2, <3>4 DEF IsInside
      <4>2. registered[ChatOf[j]] = o
          BY <1>0, <4>1 DEF HeldIsRegistered
      <4>3. ChatOf[j] = c
          BY <1>1, <2>1, <4>2
      <4> QED
          BY <2>2, <3>2, <4>3
    <3> QED
        BY <3>3, <3>4
  <2>3. CASE holds'[j] # o
    <3>1. j # k /\ IsInside(j) /\ holds[j] = holds'[j]
        BY <2>3 DEF IsInside
    <3>2. holds[j] \in Objects /\ registered[ChatOf[j]] = holds[j]
        BY <1>0, <3>1 DEF HeldIsRegistered
    <3>3. ChatOf[j] # c
        BY <3>1, <3>2, <2>3 DEF Mine
    <3> QED
        BY <2>1, <3>1, <3>2, <3>3 DEF Becomes
  <2> QED
      BY <2>2, <2>3
<1>4. SpareIsBlank'
  <2> SUFFICES ASSUME NEW p \in Objects, \A d \in Chats : registered'[d] # p
               PROVE  object'[p] = Blank
      BY DEF SpareIsBlank
  <2>1. CASE p = o
      BY <2>1 DEF Becomes
  <2>2. CASE p # o
    <3>1. \A d \in Chats : registered[d] # p
        BY <2>2 DEF Mine, Becomes
    <3> QED
        BY <1>0, <2>2, <3>1 DEF SpareIsBlank, Becomes
  <2> QED
      BY <2>1, <2>2
<1>5. NothingLeaks'
  <2> SUFFICES ASSUME NEW d \in Chats, registered'[d] # None
               PROVE  ~Forgettable(object'[registered'[d]])
      BY DEF NothingLeaks, Forgettable
  <2>1. CASE d = c
      BY <2>1 DEF Becomes
  <2>2. CASE d # c
    <3>1. registered'[d] = registered[d] /\ registered[d] \in Objects \ {o}
        BY <1>0, <1>1, <2>2 DEF Becomes, TypeOK
    <3>2. object'[registered[d]] = object[registered[d]]
        BY <3>1 DEF Becomes
    <3> QED
        BY <1>0, <3>1, <3>2 DEF NothingLeaks
  <2> QED
      BY <2>1, <2>2
<1>6. EveryObjectFits'
  <2> SUFFICES ASSUME NEW p \in Objects PROVE Fits(p, object[p])'
      BY DEF EveryObjectFits
  <2>1. CASE p = o
    <3>1. CASE object'[o] = s
        BY <2>1, <3>1 DEF Fits, FitUsers, FitFlag, FitTickets
    <3>2. CASE object'[o] = Blank /\ Forgettable(s)
        BY <2>1, <3>2
           DEF Fits, FitUsers, FitFlag, FitTickets, Forgettable, Blank, LaneState
    <3> QED
        BY <3>1, <3>2 DEF Becomes
  <2>2. CASE p # o
    <3>1. object'[p] = object[p] /\ Fits(p, object[p])
        BY <1>0, <2>2 DEF Becomes, EveryObjectFits
    <3>2. \A j \in Senders : (IsInside(j) /\ holds[j] = p) <=> (IsInside(j) /\ holds[j] = p)'
        BY <2>2 DEF IsInside
    <3>3. \A j \in object[p].users : j \in Senders /\ j # k
        BY <3>1, <2>2 DEF Fits, FitUsers
    <3>4. FitUsers(p, object[p])'
        BY <3>1, <3>2 DEF Fits, FitUsers
    <3>5. FitFlag(object[p])'
        BY <3>1, <3>3 DEF Fits, FitFlag
    <3>6. FitTickets(object[p])'
        BY <3>1, <3>3 DEF Fits, FitTickets
    <3> QED
        BY <3>4, <3>5, <3>6 DEF Fits
  <2> QED
      BY <2>1, <2>2
<1>7. CountsFit'
  <2> SUFFICES ASSUME NEW d \in Chats
               PROVE  (IF registered[d] = None
                       THEN PendingTurns(d) = {} /\ OpenSends(d) = {}
                       ELSE FitCounts(d, object[registered[d]]))'
      BY DEF CountsFit
  <2>1. CASE d = c
    <3>1. CASE registered'[c] = o /\ object'[o] = s
        BY <2>1, <3>1 DEF FitCounts
    <3>2. CASE registered'[c] = None /\ Forgettable(s)
      <4>1. Cardinality(PendingTurns(c)') = 0 /\ Cardinality(OpenSends(c)') = 0
          BY <3>2 DEF FitCounts, Forgettable
      <4>2. PendingTurns(c)' \subseteq Callers /\ OpenSends(c)' \subseteq Callers
          BY DEF PendingTurns, OpenSends, Passives
      <4>3. IsFiniteSet(PendingTurns(c)') /\ IsFiniteSet(OpenSends(c)')
          BY <4>2, FS_Subset
      <4>4. PendingTurns(c)' = {} /\ OpenSends(c)' = {}
          BY <4>1, <4>3, FS_EmptySet
      <4> QED
          BY <2>1, <3>2, <4>4
    <3> QED
        BY <3>1, <3>2 DEF Becomes
  <2>2. CASE d # c
    <3>1. PendingTurns(d)' = PendingTurns(d) /\ OpenSends(d)' = OpenSends(d)
        BY <2>2 DEF PendingTurns, OpenSends, Passives
    <3>2. registered'[d] = registered[d]
        BY <2>2 DEF Becomes
    <3>3. CASE registered[d] = None
        BY <1>0, <3>1, <3>2, <3>3 DEF CountsFit
    <3>4. CASE registered[d] # None
      <4>1. registered[d] \in Objects \ {o}
          BY <1>0, <1>1, <2>2, <3>4 DEF TypeOK
      <4>2. object'[registered[d]] = object[registered[d]]
          BY <4>1 DEF Becomes
      <4> QED
          BY <1>0, <3>1, <3>2, <3>4, <4>2 DEF CountsFit, FitCounts
    <3> QED
        BY <3>3, <3>4
  <2> QED
      BY <2>1, <2>2
<1> QED
    BY <1>2, <1>3, <1>4, <1>5, <1>6, <1>7 DEF IInv

\* Before an action the object of a chat, or a new one, has the chat's counts.
LEMMA CountsBefore ==
    ASSUME IInv, NEW c \in Chats, NEW o \in Objects, Mine(c, o)
    PROVE  /\ object[o] \in LaneState /\ Fits(o, object[o])
           /\ FitCounts(c, object[o])
           /\ object[o].turns \in Nat /\ object[o].sends \in Nat
<1>1. object[o] \in LaneState /\ Fits(o, object[o])
    BY DEF IInv, TypeOK, EveryObjectFits, LaneState
<1>2. CASE registered[c] = o
    BY <1>1, <1>2, NoneAssumption DEF IInv, CountsFit, LaneState
<1>3. CASE registered[c] = None /\ \A d \in Chats : registered[d] # o
  <2>1. object[o] = Blank /\ PendingTurns(c) = {} /\ OpenSends(c) = {}
      BY <1>3 DEF IInv, SpareIsBlank, CountsFit
  <2> QED
      BY <1>1, <2>1, FS_EmptySet DEF FitCounts, Blank
<1> QED
    BY <1>1, <1>2, <1>3 DEF Mine

\* The mark_* methods change a count and nothing else.
LEMMA Marked ==
    ASSUME IInv, NEW k \in Turns \cup Queued, NEW state \in {"pending", "done"},
           NEW o \in Objects, NEW s \in LaneState, Mark(k, o, s, state),
           at[k] \in {"idle", "pending"},
           s.users = object[o].users, s.next = object[o].next,
           s.serving = object[o].serving, s.cancelled = object[o].cancelled,
           s.sending = object[o].sending, FitCounts(ChatOf[k], s)'
    PROVE  IInv'
<1> USE CallersAssumption
<1>1. k \in Callers /\ ChatOf[k] \in Chats
    BY DEF Callers, Senders, Passives
<1>2. Mine(ChatOf[k], o)
    BY DEF Mark, Acquires, Mine
<1>3. Becomes(ChatOf[k], o, s)
    BY <1>1, <1>2, Released DEF IInv, Mark
<1>4. TypeOK'
    BY <1>1, <1>3 DEF IInv, TypeOK, Mark, Becomes, LaneState, WaitersOf
<1>5. Roles'
    BY <1>1 DEF IInv, TypeOK, Roles, Mark, Callers, Senders, Passives
<1>6. \A j \in Senders : IsInside(j)' <=> IsInside(j)
    BY <1>1 DEF IInv, TypeOK, Mark, IsInside, Callers
<1>7. Fits(o, s)'
  <2>1. Fits(o, object[o])
      BY DEF IInv, EveryObjectFits
  <2>2. \A j \in Senders : at'[j] = "send" <=> at[j] = "send"
      BY <1>1 DEF IInv, TypeOK, Mark, Callers
  <2>3. FitUsers(o, s)'
      BY <1>6, <2>1 DEF Fits, FitUsers, Mark
  <2>4. FitFlag(s)'
      BY <2>1, <2>2 DEF Fits, FitFlag, FitUsers
  <2>5. FitTickets(s)'
      BY <2>1, <2>2 DEF Fits, FitTickets, FitUsers, Mark
  <2> QED
      BY <2>3, <2>4, <2>5 DEF Fits
<1>8. \A j \in Callers \ {k} : at'[j] = at[j] /\ holds'[j] = holds[j]
    BY DEF IInv, TypeOK, Mark
<1>9. ~IsInside(k) /\ ~IsInside(k)'
    BY <1>1 DEF IInv, TypeOK, Mark, IsInside
<1> QED
    BY <1>1, <1>2, <1>3, <1>4, <1>5, <1>7, <1>8, <1>9, Update DEF Mark

LEMMA TurnPendingKeeps ==
    ASSUME IInv, NEW t \in Turns, TurnPending(t) PROVE IInv'
<1> USE CallersAssumption
<1> DEFINE c == ChatOf[t]
<1>1. PICK o \in Objects : Mark(t, o, [object[o] EXCEPT !.turns = @ + 1], "pending")
    BY DEF TurnPending
<1>2. PICK s : s = [object[o] EXCEPT !.turns = @ + 1]
    OBVIOUS
<1>3. t \in Callers /\ c \in Chats /\ Mine(c, o)
    BY <1>1 DEF Mark, Acquires, Mine, Callers
<1>4. object[o] \in LaneState /\ FitCounts(c, object[o])
    BY <1>3, CountsBefore
<1>5. s \in LaneState
    BY <1>2, <1>4 DEF LaneState
<1>6. PendingTurns(c)' = PendingTurns(c) \cup {t} /\ t \notin PendingTurns(c)
    BY <1>1, <1>3 DEF Mark, TurnPending, PendingTurns, IInv, TypeOK, Callers
<1>7. OpenSends(c)' = OpenSends(c)
    BY <1>1, <1>3 DEF Mark, OpenSends, IInv, TypeOK, Callers, Senders
<1>8. Cardinality(PendingTurns(c) \cup {t}) = Cardinality(PendingTurns(c)) + 1
    BY <1>3, <1>6, Counted, FS_AddElement
<1>9. FitCounts(c, s)'
    BY <1>2, <1>4, <1>6, <1>7, <1>8 DEF FitCounts, LaneState
<1> QED
    BY <1>1, <1>2, <1>4, <1>5, <1>9, Marked DEF TurnPending, LaneState

LEMMA TurnDoneKeeps ==
    ASSUME IInv, NEW t \in Turns, TurnDone(t) PROVE IInv'
<1> USE CallersAssumption
<1> DEFINE c == ChatOf[t]
<1>1. PICK o \in Objects :
          Mark(t, o, [object[o] EXCEPT !.turns = IF @ > 0 THEN @ - 1 ELSE @], "done")
    BY DEF TurnDone
<1>2. PICK s : s = [object[o] EXCEPT !.turns = IF @ > 0 THEN @ - 1 ELSE @]
    OBVIOUS
<1>3. t \in Callers /\ c \in Chats /\ Mine(c, o)
    BY <1>1 DEF Mark, Acquires, Mine, Callers
<1>4. object[o] \in LaneState /\ FitCounts(c, object[o])
    BY <1>3, CountsBefore
<1>5. s \in LaneState
    BY <1>2, <1>4 DEF LaneState
<1>6. PendingTurns(c)' = PendingTurns(c) \ {t} /\ t \in PendingTurns(c)
    BY <1>1, <1>3 DEF Mark, TurnDone, PendingTurns, IInv, TypeOK, Callers
<1>7. OpenSends(c)' = OpenSends(c)
    BY <1>1, <1>3 DEF Mark, OpenSends, IInv, TypeOK, Callers, Senders
<1>8. /\ Cardinality(PendingTurns(c) \ {t}) = Cardinality(PendingTurns(c)) - 1
      /\ Cardinality(PendingTurns(c) \ {t}) \in Nat
    BY <1>3, <1>6, Counted, FS_RemoveElement, FS_CardinalityType
<1>9. FitCounts(c, s)'
    BY <1>2, <1>4, <1>6, <1>7, <1>8 DEF FitCounts, LaneState
<1> QED
    BY <1>1, <1>2, <1>4, <1>5, <1>9, Marked DEF TurnDone, LaneState

LEMMA SendPendingKeeps ==
    ASSUME IInv, NEW q \in Queued, SendPending(q) PROVE IInv'
<1> USE CallersAssumption
<1> DEFINE c == ChatOf[q]
<1>1. PICK o \in Objects : Mark(q, o, [object[o] EXCEPT !.sends = @ + 1], "pending")
    BY DEF SendPending
<1>2. PICK s : s = [object[o] EXCEPT !.sends = @ + 1]
    OBVIOUS
<1>3. q \in Callers /\ c \in Chats /\ Mine(c, o)
    BY <1>1 DEF Mark, Acquires, Mine, Callers, Senders, Passives
<1>4. object[o] \in LaneState /\ FitCounts(c, object[o])
    BY <1>3, CountsBefore
<1>5. s \in LaneState
    BY <1>2, <1>4 DEF LaneState
<1>6. OpenSends(c)' = OpenSends(c) \cup {q} /\ q \notin OpenSends(c)
    BY <1>1, <1>3 DEF Mark, SendPending, OpenSends, IInv, TypeOK, Callers, Senders, Passives
<1>7. PendingTurns(c)' = PendingTurns(c)
    BY <1>1, <1>3 DEF Mark, PendingTurns, IInv, TypeOK, Callers, Senders, Passives
<1>8. Cardinality(OpenSends(c) \cup {q}) = Cardinality(OpenSends(c)) + 1
    BY <1>3, <1>6, Counted, FS_AddElement
<1>9. FitCounts(c, s)'
    BY <1>2, <1>4, <1>6, <1>7, <1>8 DEF FitCounts, LaneState
<1> QED
    BY <1>1, <1>2, <1>4, <1>5, <1>9, Marked DEF SendPending, LaneState

LEMMA SendRollbackKeeps ==
    ASSUME IInv, NEW q \in Queued, SendRollback(q) PROVE IInv'
<1> USE CallersAssumption
<1> DEFINE c == ChatOf[q]
<1>1. PICK o \in Objects :
          Mark(q, o, [object[o] EXCEPT !.sends = IF @ > 0 THEN @ - 1 ELSE @], "done")
    BY DEF SendRollback
<1>2. PICK s : s = [object[o] EXCEPT !.sends = IF @ > 0 THEN @ - 1 ELSE @]
    OBVIOUS
<1>3. q \in Callers /\ c \in Chats /\ Mine(c, o)
    BY <1>1 DEF Mark, Acquires, Mine, Callers, Senders, Passives
<1>4. object[o] \in LaneState /\ FitCounts(c, object[o])
    BY <1>3, CountsBefore
<1>5. s \in LaneState
    BY <1>2, <1>4 DEF LaneState
<1>6. OpenSends(c)' = OpenSends(c) \ {q} /\ q \in OpenSends(c)
    BY <1>1, <1>3 DEF Mark, SendRollback, OpenSends, IInv, TypeOK, Callers, Senders, Passives
<1>7. PendingTurns(c)' = PendingTurns(c)
    BY <1>1, <1>3 DEF Mark, PendingTurns, IInv, TypeOK, Callers, Senders, Passives
<1>8. /\ Cardinality(OpenSends(c) \ {q}) = Cardinality(OpenSends(c)) - 1
      /\ Cardinality(OpenSends(c) \ {q}) \in Nat
    BY <1>3, <1>6, Counted, FS_RemoveElement, FS_CardinalityType
<1>9. FitCounts(c, s)'
    BY <1>2, <1>4, <1>6, <1>7, <1>8 DEF FitCounts, LaneState
<1> QED
    BY <1>1, <1>2, <1>4, <1>5, <1>9, Marked DEF SendRollback, LaneState

-----------------------------------------------------------------------------
\* run_passive

LEMMA EnterPassiveKeeps ==
    ASSUME IInv, NEW p \in Passives, EnterPassive(p) PROVE IInv'
<1> USE CallersAssumption
<1> DEFINE c == ChatOf[p]
           S(o) == [object[o] EXCEPT !.users = @ \cup {p}, !.sending = TRUE,
                       !.sends = IF p \in Queued THEN @ ELSE @ + 1]
<1>1. PICK o \in Objects :
          /\ at[p] = IF p \in Queued THEN "pending" ELSE "idle"
          /\ Acquires(c, o) /\ Keep(c, o, S(o))
          /\ holds' = [holds EXCEPT ![p] = o]
          /\ at' = [at EXCEPT ![p] = IF object[o].sending THEN "wait" ELSE "send"]
          /\ UNCHANGED <<ticket, awake>>
    BY DEF EnterPassive
<1>2. PICK s : s = S(o)
    OBVIOUS
<1>3. p \in Callers /\ p \in Senders /\ p \notin Pushes /\ c \in Chats /\ Mine(c, o)
    BY <1>1 DEF Acquires, Mine, Callers, Senders
<1>4. object[o] \in LaneState /\ FitCounts(c, object[o]) /\ Fits(o, object[o])
    BY <1>3, CountsBefore
<1>5. s \in LaneState
  <2>1. object[o].users \cup {p} \in SUBSET Senders
      BY <1>3, <1>4 DEF LaneState
  <2>2. (IF p \in Queued THEN object[o].sends ELSE object[o].sends + 1) \in Nat
      BY <1>4 DEF LaneState
  <2> QED
      BY <1>2, <1>4, <2>1, <2>2 DEF LaneState
<1>6. Becomes(c, o, s)
    BY <1>1, <1>2, <1>3, <1>4, <1>5, Kept DEF IInv, LaneState
<1>7. TypeOK'
    BY <1>1, <1>3, <1>6 DEF IInv, TypeOK, Becomes, LaneState
<1>8. Roles'
    BY <1>1, <1>3 DEF IInv, TypeOK, Roles, Callers, Senders, Passives
<1>9. \A k \in Callers \ {p} : at'[k] = at[k] /\ holds'[k] = holds[k]
    BY <1>1 DEF IInv, TypeOK
<1>10. /\ ~IsInside(p) /\ IsInside(p)' /\ holds'[p] = o
       /\ at'[p] = IF object[o].sending THEN "wait" ELSE "send"
    BY <1>1, <1>3 DEF IInv, TypeOK, IsInside
<1>11. Fits(o, s)'
  <2>1. s.users = object[o].users \cup {p} /\ s.sending = TRUE
      BY <1>2, <1>4 DEF LaneState
  <2>2. FitUsers(o, s)'
      BY <2>1, <1>3, <1>4, <1>9, <1>10 DEF Fits, FitUsers, IsInside, Callers
  <2>3. \A k \in object[o].users : k \in Callers \ {p}
      BY <1>4, <1>10 DEF Fits, FitUsers, Callers
  <2>4. FitFlag(s)'
      BY <2>1, <2>3, <1>4, <1>9, <1>10 DEF Fits, FitFlag
  <2>5. s.users \cap Pushes = object[o].users \cap Pushes
      BY <2>1, <1>3
  <2>6. FitTickets(s)'
      BY <1>1, <1>2, <1>4, <1>9, <2>3, <2>5 DEF Fits, FitTickets, LaneState
  <2> QED
      BY <2>2, <2>4, <2>6 DEF Fits
<1>12. FitCounts(c, s)'
  <2>1. PendingTurns(c)' = PendingTurns(c)
      BY <1>9, <1>3 DEF PendingTurns, Callers
  <2>2. OpenSends(c)' = OpenSends(c) \cup {p}
      BY <1>3, <1>9, <1>10 DEF OpenSends, IsInside, Callers, Senders
  <2>3. p \in OpenSends(c) <=> p \in Queued
      BY <1>1, <1>3 DEF OpenSends
  <2>4. Cardinality(OpenSends(c) \cup {p}) =
            IF p \in Queued THEN Cardinality(OpenSends(c)) ELSE Cardinality(OpenSends(c)) + 1
      BY <1>3, <2>3, Counted, FS_AddElement
  <2> QED
      BY <1>2, <1>4, <2>1, <2>2, <2>4 DEF FitCounts, LaneState
<1> QED
    BY <1>1, <1>3, <1>5, <1>6, <1>7, <1>8, <1>9, <1>10, <1>11, <1>12, Update

\* A caller inside is a user of its chat's object.
LEMMA InsideItsChat ==
    ASSUME IInv, NEW k \in Senders, IsInside(k)
    PROVE  /\ holds[k] \in Objects /\ k \in Callers /\ ChatOf[k] \in Chats
           /\ registered[ChatOf[k]] = holds[k] /\ Mine(ChatOf[k], holds[k])
           /\ k \in object[holds[k]].users
           /\ object[holds[k]] \in LaneState /\ Fits(holds[k], object[holds[k]])
           /\ FitCounts(ChatOf[k], object[holds[k]])
<1> USE CallersAssumption
<1>1. k \in Callers /\ ChatOf[k] \in Chats
    BY DEF Callers
<1>2. holds[k] \in Objects /\ registered[ChatOf[k]] = holds[k]
    BY DEF IInv, HeldIsRegistered
<1>3. Mine(ChatOf[k], holds[k])
    BY <1>2 DEF Mine
<1>4. object[holds[k]] \in LaneState /\ Fits(holds[k], object[holds[k]])
          /\ FitCounts(ChatOf[k], object[holds[k]])
    BY <1>1, <1>2, <1>3, CountsBefore
<1> QED
    BY <1>1, <1>2, <1>3, <1>4 DEF Fits, FitUsers

LEMMA WakePassiveKeeps ==
    ASSUME IInv, NEW p \in Passives, WakePassive(p) PROVE IInv'
<1> USE CallersAssumption
<1> DEFINE c == ChatOf[p]
           o == holds[p]
<1>1. PICK s : s = [object[o] EXCEPT !.sending = TRUE]
    OBVIOUS
<1>2. IsInside(p) /\ p \in Senders /\ p \notin Pushes
    BY DEF WakePassive, IsInside, Senders
<1>3. /\ o \in Objects /\ p \in Callers /\ c \in Chats
      /\ registered[c] = o /\ Mine(c, o) /\ p \in object[o].users
      /\ object[o] \in LaneState /\ Fits(o, object[o]) /\ FitCounts(c, object[o])
    BY <1>2, InsideItsChat
<1>4. s \in LaneState /\ s.users = object[o].users /\ s.sending = TRUE
    BY <1>1, <1>3 DEF LaneState
<1>5. object' = [object EXCEPT ![o] = s] /\ registered' = registered
    BY <1>1 DEF WakePassive
<1>6. Becomes(c, o, s)
    BY <1>3, <1>4, <1>5 DEF IInv, TypeOK, Becomes, LaneState, Forgettable
<1>7. TypeOK'
    BY <1>3, <1>6 DEF IInv, TypeOK, WakePassive, Becomes, LaneState
<1>8. Roles'
    BY <1>2, <1>3 DEF IInv, TypeOK, Roles, WakePassive, Callers, Senders, Passives
<1>9. \A k \in Callers \ {p} : at'[k] = at[k] /\ holds'[k] = holds[k]
    BY DEF IInv, TypeOK, WakePassive
<1>10. /\ at[p] = "wait" /\ IsInside(p)' /\ holds'[p] = o
       /\ at'[p] = IF object[o].sending THEN "wait" ELSE "send"
    BY <1>3 DEF IInv, TypeOK, IsInside, WakePassive
<1>11. Fits(o, s)'
  <2>1. FitUsers(o, s)'
      BY <1>2, <1>3, <1>4, <1>9, <1>10 DEF Fits, FitUsers, IsInside, Callers
  <2>2. \A k \in object[o].users : k \in Callers
      BY <1>3 DEF Fits, FitUsers, Callers
  <2>3. FitFlag(s)'
      BY <2>2, <1>3, <1>4, <1>9, <1>10 DEF Fits, FitFlag
  <2>4. FitTickets(s)'
      BY <1>1, <1>2, <1>3, <1>9, <2>2 DEF Fits, FitTickets, LaneState, WakePassive
  <2> QED
      BY <2>1, <2>3, <2>4 DEF Fits
<1>12. FitCounts(c, s)'
  <2>1. PendingTurns(c)' = PendingTurns(c)
      BY <1>2, <1>9 DEF PendingTurns, Callers
  <2>2. OpenSends(c)' = OpenSends(c)
      BY <1>2, <1>9, <1>10 DEF OpenSends, IsInside, Callers, Senders
  <2> QED
      BY <1>1, <1>3, <2>1, <2>2 DEF FitCounts, LaneState
<1> QED
    BY <1>3, <1>4, <1>6, <1>7, <1>8, <1>9, <1>10, <1>11, <1>12, Update DEF WakePassive

LEMMA LeavePassiveKeeps ==
    ASSUME IInv, NEW p \in Passives, LeavePassive(p) PROVE IInv'
<1> USE CallersAssumption
<1>0. PICK o : o = holds[p]
    OBVIOUS
<1> DEFINE c == ChatOf[p]
           S == [object[o] EXCEPT !.users = @ \ {p}, !.sends = @ - 1,
                                  !.sending = @ /\ at[p] # "send"]
<1>1. PICK s : s = S
    OBVIOUS
<1>2. IsInside(p) /\ p \in Senders /\ p \notin Pushes
    BY DEF LeavePassive, IsInside, Senders
<1>3. /\ o \in Objects /\ p \in Callers /\ c \in Chats
      /\ registered[c] = o /\ Mine(c, o) /\ p \in object[o].users
      /\ object[o] \in LaneState /\ Fits(o, object[o]) /\ FitCounts(c, object[o])
    BY <1>0, <1>2, InsideItsChat
<1>4. p \in OpenSends(c)
    BY <1>2 DEF OpenSends, IsInside
<1>5. /\ Cardinality(OpenSends(c) \ {p}) = Cardinality(OpenSends(c)) - 1
      /\ Cardinality(OpenSends(c) \ {p}) \in Nat
    BY <1>3, <1>4, Counted, FS_RemoveElement, FS_CardinalityType
<1>6. /\ s \in LaneState /\ s.users = object[o].users \ {p}
      /\ s.sends = object[o].sends - 1 /\ s.turns = object[o].turns
      /\ s.next = object[o].next /\ s.serving = object[o].serving
      /\ s.cancelled = object[o].cancelled
  <2>1. object[o].sends - 1 \in Nat
      BY <1>3, <1>5 DEF FitCounts, LaneState
  <2>2. (object[o].sending /\ at[p] # "send") \in BOOLEAN
      BY <1>3 DEF LaneState
  <2> QED
      BY <1>1, <1>3, <2>1, <2>2 DEF LaneState
<1>14. s.sending <=> object[o].sending /\ at[p] # "send"
    BY <1>1, <1>3 DEF LaneState
<1>7. Becomes(c, o, s)
  <2>1. Release(c, o, s)
      BY <1>0, <1>1 DEF LeavePassive
  <2> QED
      BY <2>1, <1>3, <1>6, Released DEF IInv
<1>8. TypeOK'
    BY <1>3, <1>7 DEF IInv, TypeOK, LeavePassive, Becomes, LaneState, WaitersOf
<1>9. Roles'
    BY <1>2, <1>3 DEF IInv, TypeOK, Roles, LeavePassive, Callers, Senders, Passives
<1>10. \A k \in Callers \ {p} : at'[k] = at[k] /\ holds'[k] = holds[k]
    BY DEF IInv, TypeOK, LeavePassive
<1>11. at'[p] = "done" /\ ~IsInside(p)'
    BY <1>3 DEF IInv, TypeOK, IsInside, LeavePassive
<1>12. Fits(o, s)'
  <2>1. FitUsers(o, s)'
      BY <1>2, <1>3, <1>6, <1>10, <1>11 DEF Fits, FitUsers, IsInside, Callers
  <2>2. \A k \in s.users : k \in Callers \ {p}
      BY <1>3, <1>6 DEF Fits, FitUsers, Callers
  <2>3. FitFlag(s)'
      BY <2>2, <1>3, <1>6, <1>14, <1>10 DEF Fits, FitFlag
  <2>4. s.users \cap Pushes = object[o].users \cap Pushes
      BY <1>2, <1>6
  <2>5. FitTickets(s)'
      BY <1>3, <1>6, <1>10, <2>2, <2>4 DEF Fits, FitTickets, LeavePassive
  <2> QED
      BY <2>1, <2>3, <2>5 DEF Fits
<1>13. FitCounts(c, s)'
  <2>1. PendingTurns(c)' = PendingTurns(c)
      BY <1>2, <1>10 DEF PendingTurns, Callers
  <2>2. OpenSends(c)' = OpenSends(c) \ {p}
      BY <1>3, <1>10, <1>11 DEF OpenSends, Callers, Senders
  <2> QED
      BY <1>3, <1>5, <1>6, <2>1, <2>2 DEF FitCounts
<1> QED
    BY <1>0, <1>3, <1>6, <1>7, <1>8, <1>9, <1>10, <1>11, <1>12, <1>13, Update DEF LeavePassive

-----------------------------------------------------------------------------
\* run_non_passive

\* Skipping stops at the least ticket from serving on that is not cancelled.
LEMMA SkipStops ==
    ASSUME NEW s \in LaneState, s.serving <= s.next, s.next \notin s.cancelled
    PROVE  /\ Skip(s) \in LaneState
           /\ Skip(s).users = s.users /\ Skip(s).turns = s.turns
           /\ Skip(s).sends = s.sends /\ Skip(s).next = s.next
           /\ Skip(s).sending = s.sending
           /\ Skip(s).serving \in s.serving..s.next
           /\ Skip(s).serving \notin s.cancelled
           /\ s.serving..(Skip(s).serving - 1) \subseteq s.cancelled
           /\ Skip(s).cancelled = s.cancelled \ (s.serving..(Skip(s).serving - 1))
<1> DEFINE Stop(n) == n \notin s.cancelled /\ (s.serving..(n - 1)) \subseteq s.cancelled
           Open == {n \in s.serving..s.next : n \notin s.cancelled}
           first == CHOOSE n \in s.serving..s.next : Stop(n)
<1>1. s.serving \in Nat /\ s.next \in Nat /\ s.cancelled \in SUBSET Nat
    BY DEF LaneState
<1>2. Open \subseteq Nat /\ s.next \in Open
    BY <1>1
<1>3. PICK m \in Open : \A y \in Open : <<y, m>> \notin OpToRel(<, Nat)
  <2> HIDE DEF Open
  <2> QED
      BY <1>2, NatLessThanWellFounded, WFMin, Zenon
<1>4. \A y \in Open : ~(y < m)
    BY <1>2, <1>3, Zenon DEF OpToRel
<1>5. m \in s.serving..s.next /\ Stop(m)
    BY <1>1, <1>2, <1>4
<1>6. first \in s.serving..s.next /\ Stop(first)
    BY <1>5
<1>7. Skip(s) = [s EXCEPT !.serving = first,
                          !.cancelled = @ \ (s.serving..(first - 1))]
    BY DEF Skip
<1> HIDE DEF first
<1>8. first \in Nat
    BY <1>1, <1>6
<1> QED
    BY <1>1, <1>6, <1>7, <1>8 DEF LaneState

\* Nothing is skipped when the served ticket is not cancelled.
LEMMA SkipNothing ==
    ASSUME NEW s \in LaneState, s.serving <= s.next, s.next \notin s.cancelled,
           s.serving \notin s.cancelled
    PROVE  Skip(s) = s
<1>1. Skip(s).serving = s.serving
    BY SkipStops DEF LaneState
<1>2. Skip(s).cancelled = s.cancelled
    BY <1>1, SkipStops DEF LaneState
<1> QED
    BY <1>1, <1>2, SkipStops DEF LaneState

LEMMA EnterPushKeeps ==
    ASSUME IInv, NEW n \in Pushes, EnterPush(n) PROVE IInv'
<1> USE CallersAssumption
<1> DEFINE c == ChatOf[n]
           R(o) == [object[o] EXCEPT !.users = @ \cup {n}, !.next = @ + 1]
           G(o) == PushMayGo(Skip(R(o)), object[o].next)
<1>1. PICK o \in Objects :
          /\ at[n] = "idle" /\ Acquires(c, o)
          /\ Keep(c, o, [Skip(R(o)) EXCEPT !.sending = @ \/ G(o)])
          /\ ticket' = [ticket EXCEPT ![n] = object[o].next]
          /\ holds' = [holds EXCEPT ![n] = o]
          /\ at' = [at EXCEPT ![n] = IF G(o) THEN "send" ELSE "wait"]
          /\ UNCHANGED awake
    BY DEF EnterPush
<1>2. n \in Callers /\ n \in Senders /\ n \notin Passives /\ n \notin Turns
         /\ c \in Chats /\ Mine(c, o)
    BY <1>1 DEF Acquires, Mine, Callers, Senders
<1>3. object[o] \in LaneState /\ FitCounts(c, object[o]) /\ Fits(o, object[o])
    BY <1>2, CountsBefore
<1>4. PICK r : r = R(o)
    OBVIOUS
<1>5. /\ r \in LaneState /\ r.users = object[o].users \cup {n}
      /\ r.next = object[o].next + 1 /\ r.serving = object[o].serving
      /\ r.cancelled = object[o].cancelled /\ r.sending = object[o].sending
      /\ r.turns = object[o].turns /\ r.sends = object[o].sends
  <2>1. object[o].users \cup {n} \in SUBSET Senders
      BY <1>2, <1>3 DEF LaneState
  <2>2. object[o].next + 1 \in Nat
      BY <1>3 DEF LaneState
  <2>3. r = [object[o] EXCEPT !.users = object[o].users \cup {n},
                              !.next = object[o].next + 1]
      BY <1>4
  <2> HIDE DEF R, G
  <2> QED
      BY <1>3, <2>1, <2>2, <2>3 DEF LaneState
<1>6. Skip(R(o)) = r
  <2>1. r.serving <= r.next /\ r.next \notin r.cancelled /\ r.serving \notin r.cancelled
      BY <1>3, <1>5 DEF Fits, FitTickets, LaneState
  <2> QED
      BY <1>4, <1>5, <2>1, SkipNothing
<1>7. PICK go \in BOOLEAN : go <=> PushMayGo(r, object[o].next)
    BY DEF PushMayGo
<1>8. PICK s : s = [r EXCEPT !.sending = @ \/ go]
    OBVIOUS
<1>9. /\ s \in LaneState /\ s.users = r.users /\ s.next = r.next
      /\ s.serving = r.serving /\ s.cancelled = r.cancelled
      /\ s.turns = r.turns /\ s.sends = r.sends
    BY <1>5, <1>7, <1>8 DEF LaneState
<1>10. s.sending <=> object[o].sending \/ go
    BY <1>5, <1>8 DEF LaneState
<1>11. go => ~object[o].sending /\ object[o].next = object[o].serving
    BY <1>5, <1>7 DEF PushMayGo
<1>12. Becomes(c, o, s)
  <2>1. [Skip(R(o)) EXCEPT !.sending = @ \/ G(o)] = s
      BY <1>5, <1>6, <1>7, <1>8 DEF LaneState
  <2>2. s.users # {}
      BY <1>5, <1>9
  <2> QED
      BY <1>1, <1>2, <1>9, <2>1, <2>2, Kept DEF IInv
<1>13. /\ at'[n] = IF go THEN "send" ELSE "wait"
       /\ ~IsInside(n) /\ IsInside(n)' /\ holds'[n] = o
       /\ ticket'[n] = object[o].next
    BY <1>1, <1>2, <1>6, <1>7 DEF IInv, TypeOK, IsInside
<1>14. /\ \A k \in Callers \ {n} : at'[k] = at[k] /\ holds'[k] = holds[k]
       /\ \A m \in Pushes \ {n} : ticket'[m] = ticket[m]
    BY <1>1 DEF IInv, TypeOK
<1>15. TypeOK'
  <2>1. object[o].next \in Nat
      BY <1>3 DEF LaneState
  <2> QED
      BY <1>1, <1>2, <1>12, <2>1 DEF IInv, TypeOK, Becomes, LaneState
<1>16. Roles'
    BY <1>2, <1>13, <1>14 DEF IInv, Roles, Callers, Senders, Passives
<1>17. Fits(o, s)'
  <2>1. FitUsers(o, s)'
      BY <1>2, <1>3, <1>5, <1>9, <1>13, <1>14 DEF Fits, FitUsers, IsInside, Callers
  <2>2. \A k \in object[o].users : k \in Callers \ {n}
      BY <1>3, <1>13 DEF Fits, FitUsers, Callers
  <2>3. FitFlag(s)'
      BY <2>2, <1>3, <1>5, <1>9, <1>10, <1>11, <1>13, <1>14 DEF Fits, FitFlag
  <2>4. FitTickets(s)'
    <3>1. \A m \in object[o].users \cap Pushes :
              /\ ticket'[m] = ticket[m] /\ at'[m] = at[m] /\ m # n
              /\ ticket[m] \in object[o].serving..(object[o].next - 1)
        BY <2>2, <1>3, <1>14 DEF Fits, FitTickets
    <3>2. s.users \cap Pushes = (object[o].users \cap Pushes) \cup {n}
        BY <1>5, <1>9
    <3>3. object[o].serving \in Nat /\ object[o].next \in Nat
        BY <1>3 DEF LaneState
    <3>4. /\ s.serving <= s.next /\ s.serving \notin s.cancelled
          /\ s.cancelled \subseteq s.serving..(s.next - 1)
        BY <1>3, <1>5, <1>9, <3>3 DEF Fits, FitTickets
    <3>5. \A i \in s.serving..(s.next - 1) :
              i \in s.cancelled \/ \E m \in s.users \cap Pushes : ticket'[m] = i
      <4> SUFFICES ASSUME NEW i \in s.serving..(s.next - 1), i \notin s.cancelled
                   PROVE  \E m \in s.users \cap Pushes : ticket'[m] = i
          OBVIOUS
      <4>1. CASE i = object[o].next
          BY <4>1, <1>13, <3>2
      <4>2. CASE i # object[o].next
        <5>1. i \in object[o].serving..(object[o].next - 1)
            BY <4>2, <1>5, <1>9, <3>3
        <5>2. PICK m \in object[o].users \cap Pushes : ticket[m] = i
            BY <5>1, <1>3, <1>5, <1>9 DEF Fits, FitTickets
        <5> QED
            BY <5>2, <3>1, <3>2
      <4> QED
          BY <4>1, <4>2
    <3>6. \A m \in s.users \cap Pushes :
              /\ ticket'[m] \in s.serving..(s.next - 1) /\ ticket'[m] \notin s.cancelled
              /\ at'[m] = "send" => ticket'[m] = s.serving
      <4>1. object[o].next \in s.serving..(s.next - 1) /\ object[o].next \notin s.cancelled
          BY <1>3, <1>5, <1>9, <3>3 DEF Fits, FitTickets
      <4>2. at'[n] = "send" => ticket'[n] = s.serving
          BY <1>5, <1>9, <1>11, <1>13
      <4> QED
          BY <4>1, <4>2, <1>3, <1>5, <1>9, <1>13, <3>1, <3>2, <3>3 DEF Fits, FitTickets
    <3>7. \A l, m \in s.users \cap Pushes : ticket'[l] = ticket'[m] => l = m
        BY <1>3, <1>13, <3>1, <3>2, <3>3 DEF Fits, FitTickets
    <3> QED
        BY <3>4, <3>5, <3>6, <3>7 DEF FitTickets
  <2> QED
      BY <2>1, <2>3, <2>4 DEF Fits
<1>18. FitCounts(c, s)'
  <2>1. PendingTurns(c)' = PendingTurns(c)
      BY <1>2, <1>14 DEF PendingTurns, Callers
  <2>2. OpenSends(c)' = OpenSends(c)
      BY <1>2, <1>14 DEF OpenSends, Callers, Senders
  <2> QED
      BY <1>3, <1>5, <1>9, <2>1, <2>2 DEF FitCounts
<1> QED
    BY <1>2, <1>9, <1>12, <1>13, <1>14, <1>15, <1>16, <1>17, <1>18, Update

LEMMA WakePushKeeps ==
    ASSUME IInv, NEW n \in Pushes, WakePush(n) PROVE IInv'
<1> USE CallersAssumption
<1> DEFINE c == ChatOf[n]
           o == holds[n]
<1>1. IsInside(n) /\ at[n] = "wait" /\ n \in Senders
    BY DEF WakePush, IsInside, Senders
<1>2. /\ o \in Objects /\ n \in Callers /\ c \in Chats
      /\ registered[c] = o /\ Mine(c, o) /\ n \in object[o].users
      /\ object[o] \in LaneState /\ Fits(o, object[o]) /\ FitCounts(c, object[o])
    BY <1>1, InsideItsChat
<1>3. n \notin Passives /\ n \notin Turns
    BY <1>1
<1>4. Skip(object[o]) = object[o]
  <2>1. /\ object[o].serving <= object[o].next /\ object[o].next \notin object[o].cancelled
        /\ object[o].serving \notin object[o].cancelled
      BY <1>2 DEF Fits, FitTickets, LaneState
  <2> QED
      BY <1>2, <2>1, SkipNothing
<1>5. PICK go \in BOOLEAN : go <=> PushMayGo(object[o], ticket[n])
    BY DEF PushMayGo
<1>6. PICK s : s = [object[o] EXCEPT !.sending = @ \/ go]
    OBVIOUS
<1>7. /\ s \in LaneState /\ s.users = object[o].users /\ s.next = object[o].next
      /\ s.serving = object[o].serving /\ s.cancelled = object[o].cancelled
      /\ s.turns = object[o].turns /\ s.sends = object[o].sends
    BY <1>2, <1>5, <1>6 DEF LaneState
<1>8. s.sending <=> object[o].sending \/ go
    BY <1>2, <1>6 DEF LaneState
<1>9. go => ~object[o].sending /\ ticket[n] = object[o].serving
    BY <1>5 DEF PushMayGo
<1>10. Becomes(c, o, s)
  <2>1. object' = [object EXCEPT ![o] = s] /\ registered' = registered
      BY <1>4, <1>5, <1>6 DEF WakePush
  <2> QED
      BY <1>2, <1>7, <2>1 DEF IInv, TypeOK, Becomes, LaneState, Forgettable
<1>11. /\ at'[n] = IF go THEN "send" ELSE "wait"
       /\ IsInside(n)' /\ holds' = holds /\ ticket' = ticket
    BY <1>1, <1>2, <1>4, <1>5 DEF WakePush, IInv, TypeOK, IsInside
<1>12. \A k \in Callers \ {n} : at'[k] = at[k]
    BY DEF WakePush, IInv, TypeOK
<1>13. TypeOK'
    BY <1>2, <1>10 DEF WakePush, IInv, TypeOK, Becomes, LaneState
<1>14. Roles'
    BY <1>1, <1>3, <1>11, <1>12 DEF IInv, Roles, Callers, Senders, Passives
<1>15. Fits(o, s)'
  <2>1. FitUsers(o, s)'
      BY <1>1, <1>2, <1>7, <1>11, <1>12 DEF Fits, FitUsers, IsInside, Callers
  <2>2. \A k \in object[o].users : k \in Callers
      BY <1>2 DEF Fits, FitUsers, Callers
  <2>3. FitFlag(s)'
      BY <2>2, <1>1, <1>2, <1>7, <1>8, <1>9, <1>11, <1>12 DEF Fits, FitFlag
  <2>4. FitTickets(s)'
      BY <2>2, <1>1, <1>2, <1>7, <1>9, <1>11, <1>12 DEF Fits, FitTickets
  <2> QED
      BY <2>1, <2>3, <2>4 DEF Fits
<1>16. FitCounts(c, s)'
  <2>1. PendingTurns(c)' = PendingTurns(c)
      BY <1>3, <1>12 DEF PendingTurns, Callers
  <2>2. OpenSends(c)' = OpenSends(c)
      BY <1>3, <1>12 DEF OpenSends, Callers, Senders
  <2> QED
      BY <1>2, <1>7, <2>1, <2>2 DEF FitCounts
<1> QED
    BY <1>2, <1>7, <1>10, <1>11, <1>12, <1>13, <1>14, <1>15, <1>16, Update

\* After the served ticket, or a cancelled one, has been used up.
Unskipped(s) ==
    /\ s.serving <= s.next
    /\ s.cancelled \subseteq s.serving..(s.next - 1)
    /\ \A i \in s.serving..(s.next - 1) :
           i \in s.cancelled \/ \E n \in s.users \cap Pushes : ticket[n] = i
    /\ \A n \in s.users \cap Pushes :
           /\ ticket[n] \in s.serving..(s.next - 1) /\ ticket[n] \notin s.cancelled
           /\ at[n] = "send" => ticket[n] = s.serving
    /\ \A n, m \in s.users \cap Pushes : ticket[n] = ticket[m] => n = m

LEMMA SkipFits ==
    ASSUME NEW s \in LaneState, Unskipped(s)
    PROVE  FitTickets(Skip(s))
<1>1. s.serving \in Nat /\ s.next \in Nat /\ s.cancelled \in SUBSET Nat
    BY DEF LaneState
<1>2. s.serving <= s.next /\ s.next \notin s.cancelled
    BY <1>1 DEF Unskipped
<1>3. PICK r : r = Skip(s)
    OBVIOUS
<1>4. /\ r.users = s.users /\ r.next = s.next /\ r.serving \in s.serving..s.next
      /\ r.serving \notin s.cancelled
      /\ s.serving..(r.serving - 1) \subseteq s.cancelled
      /\ r.cancelled = s.cancelled \ (s.serving..(r.serving - 1))
    BY <1>2, <1>3, SkipStops
<1>5. /\ r.serving <= r.next /\ r.serving \notin r.cancelled
      /\ r.cancelled \subseteq r.serving..(r.next - 1)
    BY <1>1, <1>4 DEF Unskipped
<1>6. \A i \in r.serving..(r.next - 1) :
          i \in r.cancelled \/ \E n \in r.users \cap Pushes : ticket[n] = i
    BY <1>1, <1>4 DEF Unskipped
<1>7. \A n \in r.users \cap Pushes :
          /\ ticket[n] \in r.serving..(r.next - 1) /\ ticket[n] \notin r.cancelled
          /\ at[n] = "send" => ticket[n] = r.serving
  <2> SUFFICES ASSUME NEW n \in s.users \cap Pushes
               PROVE  /\ ticket[n] \in r.serving..(r.next - 1)
                      /\ ticket[n] \notin r.cancelled
                      /\ at[n] = "send" => ticket[n] = r.serving
      BY <1>4
  <2>1. ticket[n] \in s.serving..(s.next - 1) /\ ticket[n] \notin s.cancelled
      BY DEF Unskipped
  <2>2. ~(ticket[n] < r.serving)
      BY <1>1, <1>4, <2>1
  <2>3. at[n] = "send" => ticket[n] = s.serving
      BY DEF Unskipped
  <2> QED
      BY <1>1, <1>4, <2>1, <2>2, <2>3
<1>8. \A n, m \in r.users \cap Pushes : ticket[n] = ticket[m] => n = m
    BY <1>4 DEF Unskipped
<1> QED
    BY <1>3, <1>5, <1>6, <1>7, <1>8 DEF FitTickets

LEMMA LeavePushKeeps ==
    ASSUME IInv, NEW n \in Pushes, LeavePush(n) PROVE IInv'
<1> USE CallersAssumption
<1>0. PICK o : o = holds[n]
    OBVIOUS
<1> DEFINE c == ChatOf[n]
<1>1. IsInside(n) /\ n \in Senders
    BY DEF LeavePush, IsInside, Senders
<1>2. /\ o \in Objects /\ n \in Callers /\ c \in Chats
      /\ registered[c] = o /\ Mine(c, o) /\ n \in object[o].users
      /\ object[o] \in LaneState /\ Fits(o, object[o]) /\ FitCounts(c, object[o])
    BY <1>0, <1>1, InsideItsChat
<1>3. n \notin Passives /\ n \notin Turns
    BY <1>1
<1>4. PICK r : r = [Spend(object[o], n) EXCEPT !.users = @ \ {n}]
    OBVIOUS
<1>5. ticket[n] \in object[o].serving..(object[o].next - 1)
         /\ ticket[n] \notin object[o].cancelled
    BY <1>2 DEF Fits, FitTickets
<1>6. object[o].serving \in Nat /\ object[o].next \in Nat /\ object[o].cancelled \in SUBSET Nat
    BY <1>2 DEF LaneState
<1>7. /\ r \in LaneState /\ r.users = object[o].users \ {n}
      /\ r.next = object[o].next /\ r.turns = object[o].turns /\ r.sends = object[o].sends
      /\ r.serving = IF at[n] = "send" THEN object[o].serving + 1 ELSE object[o].serving
      /\ r.cancelled = IF at[n] = "send" THEN object[o].cancelled
                       ELSE object[o].cancelled \cup {ticket[n]}
      /\ r.sending = IF at[n] = "send" THEN FALSE ELSE object[o].sending
  <2>1. CASE at[n] = "send"
    <3>1. r = [[object[o] EXCEPT !.serving = object[o].serving + 1, !.sending = FALSE]
                   EXCEPT !.users = @ \ {n}]
        BY <1>4, <2>1 DEF Spend
    <3>2. object[o].serving + 1 \in Nat /\ object[o].users \ {n} \in SUBSET Senders
        BY <1>2 DEF LaneState
    <3> QED
        BY <1>2, <2>1, <3>1, <3>2 DEF LaneState
  <2>2. CASE at[n] # "send"
    <3>1. object[o].cancelled \cup {ticket[n]} \in SUBSET Nat
        BY <1>5, <1>6
    <3> QED
        BY <1>2, <1>4, <2>2, <3>1 DEF Spend, LaneState
  <2> QED
      BY <2>1, <2>2
<1>8. Unskipped(r)
    BY <1>2, <1>5, <1>6, <1>7 DEF Fits, FitFlag, FitTickets, Unskipped
<1>9. PICK s : s = Skip(r)
    OBVIOUS
<1>10. /\ s \in LaneState /\ s.users = r.users /\ s.turns = r.turns
       /\ s.sends = r.sends /\ s.sending = r.sending
  <2>1. r.serving <= r.next /\ r.next \notin r.cancelled
      BY <1>6, <1>7, <1>8 DEF Unskipped
  <2> QED
      BY <1>7, <1>9, <2>1, SkipStops
<1>11. Becomes(c, o, s)
  <2>1. Release(c, o, s)
      BY <1>0, <1>4, <1>9 DEF LeavePush
  <2> QED
      BY <1>2, <1>10, <2>1, Released DEF IInv
<1>12. at'[n] = "done" /\ ~IsInside(n)' /\ ticket' = ticket
    BY <1>2 DEF LeavePush, IInv, TypeOK, IsInside
<1>13. \A k \in Callers \ {n} : at'[k] = at[k] /\ holds'[k] = holds[k]
    BY DEF LeavePush, IInv, TypeOK
<1>14. TypeOK'
    BY <1>2, <1>11 DEF LeavePush, IInv, TypeOK, Becomes, LaneState, WaitersOf
<1>15. Roles'
    BY <1>1, <1>3, <1>12, <1>13 DEF IInv, Roles, Callers, Senders, Passives
<1>16. Fits(o, s)'
  <2>1. FitUsers(o, s)'
      BY <1>1, <1>2, <1>7, <1>10, <1>12, <1>13 DEF Fits, FitUsers, IsInside, Callers
  <2>2. \A k \in s.users : k \in Callers \ {n}
      BY <1>2, <1>7, <1>10 DEF Fits, FitUsers, Callers
  <2>3. FitFlag(s)'
      BY <2>2, <1>2, <1>7, <1>10, <1>13 DEF Fits, FitFlag
  <2>4. FitTickets(s)
      BY <1>7, <1>8, <1>9, SkipFits
  <2>5. FitTickets(s)'
      BY <2>2, <2>4, <1>12, <1>13 DEF FitTickets
  <2> QED
      BY <2>1, <2>3, <2>5 DEF Fits
<1>17. FitCounts(c, s)'
  <2>1. PendingTurns(c)' = PendingTurns(c)
      BY <1>3, <1>13 DEF PendingTurns, Callers
  <2>2. OpenSends(c)' = OpenSends(c)
      BY <1>3, <1>13 DEF OpenSends, Callers, Senders
  <2> QED
      BY <1>2, <1>7, <1>10, <2>1, <2>2 DEF FitCounts
<1> QED
    BY <1>0, <1>2, <1>10, <1>11, <1>12, <1>13, <1>14, <1>15, <1>16, <1>17, Update

-----------------------------------------------------------------------------
\* The invariant and what it says

LEMMA Step == IInv /\ [Next]_vars => IInv'
<1> SUFFICES ASSUME IInv, [Next]_vars PROVE IInv'
    OBVIOUS
<1>1. CASE UNCHANGED vars
  <2> USE <1>1 DEF vars
  <2>1. TypeOK' /\ Roles' /\ HeldIsRegistered' /\ OneChatEach' /\ SpareIsBlank'
      BY DEF IInv, TypeOK, Roles, HeldIsRegistered, IsInside, OneChatEach, SpareIsBlank
  <2>2. NothingLeaks' /\ EveryObjectFits'
      BY DEF IInv, NothingLeaks, Forgettable, EveryObjectFits, Fits, FitUsers, IsInside,
             FitFlag, FitTickets
  <2>3. CountsFit'
      BY DEF IInv, CountsFit, FitCounts, PendingTurns, OpenSends
  <2> QED
      BY <2>1, <2>2, <2>3 DEF IInv
<1>2. ASSUME NEW t \in Turns, TurnPending(t) PROVE IInv'
    BY <1>2, TurnPendingKeeps
<1>3. ASSUME NEW t \in Turns, TurnDone(t) PROVE IInv'
    BY <1>3, TurnDoneKeeps
<1>4. ASSUME NEW q \in Queued, SendPending(q) PROVE IInv'
    BY <1>4, SendPendingKeeps
<1>5. ASSUME NEW q \in Queued, SendRollback(q) PROVE IInv'
    BY <1>5, SendRollbackKeeps
<1>6. ASSUME NEW p \in Passives, EnterPassive(p) \/ WakePassive(p) \/ LeavePassive(p)
      PROVE  IInv'
    BY <1>6, EnterPassiveKeeps, WakePassiveKeeps, LeavePassiveKeeps
<1>7. ASSUME NEW n \in Pushes, EnterPush(n) \/ WakePush(n) \/ LeavePush(n)
      PROVE  IInv'
    BY <1>7, EnterPushKeeps, WakePushKeeps, LeavePushKeeps
<1> QED
    BY <1>1, <1>2, <1>3, <1>4, <1>5, <1>6, <1>7 DEF Next

\* The types, and everything said above about objects, counts and tickets,
\* hold in every reachable state of bus/queue.py's chat lanes.
THEOREM TypeCorrect == Spec => []TypeOK
<1>1. IInv => TypeOK
    BY DEF IInv
<1> QED
    BY Initially, Step, <1>1, PTL DEF Spec

THEOREM Invariant == Spec => []IInv
  BY Initially, Step, PTL DEF Spec

\* No two messages are under way to one chat (run_passive, run_non_passive).
THEOREM OneAtATime == Spec => []OneSender
<1>1. IInv => OneSender
  <2> SUFFICES ASSUME IInv, NEW c \in Chats, NEW j \in Sending(c), NEW k \in Sending(c)
               PROVE  j = k
      BY DEF OneSender
  <2>1. /\ j \in Senders /\ k \in Senders /\ ChatOf[j] = c /\ ChatOf[k] = c
        /\ at[j] = "send" /\ at[k] = "send" /\ IsInside(j) /\ IsInside(k)
      BY DEF Sending, IsInside
  <2>2. /\ holds[j] = registered[c] /\ j \in object[registered[c]].users
        /\ Fits(registered[c], object[registered[c]])
      BY <2>1, InsideItsChat
  <2>3. holds[k] = registered[c] /\ k \in object[registered[c]].users
      BY <2>1, InsideItsChat
  <2> QED
      BY <2>1, <2>2, <2>3 DEF Fits, FitFlag
<1> QED
    BY <1>1, Invariant, PTL

\* The counts are exact and no state object outlives its use (_release_state).
THEOREM NothingIsLost == Spec => []CountsMatch
<1>1. IInv => CountsMatch
  <2> SUFFICES ASSUME IInv, NEW c \in Chats
               PROVE  IF registered[c] = None THEN LiveCalls(c) = {}
                      ELSE /\ object[registered[c]].turns = Cardinality(PendingTurns(c))
                           /\ object[registered[c]].sends = Cardinality(OpenSends(c))
                           /\ LiveCalls(c) # {}
      BY DEF CountsMatch
  <2> USE CallersAssumption, NoneAssumption
  <2>1. CASE registered[c] = None
    <3>1. PendingTurns(c) = {} /\ OpenSends(c) = {}
        BY <2>1 DEF IInv, CountsFit
    <3>2. \A k \in Senders : ChatOf[k] = c => ~IsInside(k)
        BY <2>1 DEF IInv, HeldIsRegistered
    <3> QED
        BY <2>1, <3>1, <3>2 DEF IInv, Roles, LiveCalls, PendingTurns, OpenSends,
               IsInside, Callers, Senders, Passives
  <2>2. CASE registered[c] # None
    <3> DEFINE o == registered[c]
               s == object[registered[c]]
    <3>1. o \in Objects /\ s \in LaneState /\ Mine(c, o)
        BY <2>2 DEF IInv, TypeOK, LaneState, Mine
    <3>2. Fits(o, s) /\ FitCounts(c, s) /\ ~Forgettable(s)
        BY <2>2, <3>1, CountsBefore DEF IInv, NothingLeaks
    <3>3. ASSUME NEW k \in s.users PROVE k \in LiveCalls(c)
      <4>1. k \in Senders /\ IsInside(k) /\ holds[k] = o
          BY <3>2 DEF Fits, FitUsers
      <4>2. ChatOf[k] \in Chats /\ registered[ChatOf[k]] = o /\ k \in Callers
          BY <4>1, InsideItsChat
      <4>3. ChatOf[k] = c
          BY <2>2, <4>2 DEF IInv, OneChatEach
      <4> QED
          BY <4>1, <4>2, <4>3 DEF LiveCalls, IsInside
    <3>4. CASE s.users # {}
        BY <3>2, <3>3, <3>4, <2>2 DEF FitCounts
    <3>5. CASE s.users = {}
      <4>1. ~s.sending /\ s.next = s.serving /\ s.cancelled = {}
          BY <3>1, <3>2, <3>5 DEF Fits, FitFlag, FitTickets, LaneState
      <4>2. PendingTurns(c) # {} \/ OpenSends(c) # {}
          BY <3>2, <3>5, <4>1, FS_EmptySet DEF Forgettable, FitCounts
      <4>3. PendingTurns(c) \cup OpenSends(c) \subseteq LiveCalls(c)
          BY DEF PendingTurns, OpenSends, LiveCalls, Callers, Senders
      <4> QED
          BY <2>2, <3>2, <4>2, <4>3 DEF FitCounts
    <3> QED
        BY <3>4, <3>5
  <2> QED
      BY <2>1, <2>2
<1> QED
    BY <1>1, Invariant, PTL

-----------------------------------------------------------------------------
\* How a push starts

LEMMA OnlyPushStarts ==
    ASSUME IInv, [Next]_vars, NEW n \in Pushes, at[n] # "send", at'[n] = "send"
    PROVE  EnterPush(n) \/ WakePush(n)
<1> USE CallersAssumption
<1> USE DEF Callers, Senders, Passives
<1>1. CASE UNCHANGED vars
    BY <1>1 DEF vars
<1>2. ASSUME NEW t \in Turns, TurnPending(t) \/ TurnDone(t) PROVE FALSE
    BY <1>2 DEF TurnPending, TurnDone, Mark, IInv, TypeOK
<1>3. ASSUME NEW q \in Queued, SendPending(q) \/ SendRollback(q) PROVE FALSE
    BY <1>3 DEF SendPending, SendRollback, Mark, IInv, TypeOK
<1>4. ASSUME NEW p \in Passives, EnterPassive(p) \/ WakePassive(p) \/ LeavePassive(p)
      PROVE  FALSE
  <2>1. CASE EnterPassive(p) BY <2>1 DEF EnterPassive, IInv, TypeOK
  <2>2. CASE WakePassive(p) BY <2>2 DEF WakePassive, IInv, TypeOK
  <2>3. CASE LeavePassive(p) BY <2>3 DEF LeavePassive, IInv, TypeOK
  <2> QED BY <1>4, <2>1, <2>2, <2>3
<1>5. ASSUME NEW m \in Pushes, m # n, EnterPush(m) \/ WakePush(m) \/ LeavePush(m)
      PROVE  FALSE
    BY <1>5 DEF EnterPush, WakePush, LeavePush, IInv, TypeOK
<1>6. ~LeavePush(n)
    BY DEF LeavePush, IInv, TypeOK
<1> QED
    BY <1>1, <1>2, <1>3, <1>4, <1>5, <1>6 DEF Next

\* The object of its chat lets it go, with the ticket that is served.
LEMMA StartsWhenServed ==
    ASSUME IInv, [Next]_vars, NEW n \in Pushes, at[n] # "send", at'[n] = "send"
    PROVE  \E o \in Objects :
               /\ Mine(ChatOf[n], o) /\ ChatOf[n] \in Chats
               /\ object[o].turns = 0 /\ object[o].sends = 0
               /\ ticket'[n] = object[o].serving
<1> USE CallersAssumption
<1>1. n \in Callers /\ n \in Senders /\ ChatOf[n] \in Chats
    BY DEF Callers, Senders
<1>2. CASE WakePush(n)
  <2>1. IsInside(n)
      BY <1>2 DEF WakePush, IsInside
  <2>2. /\ holds[n] \in Objects /\ Mine(ChatOf[n], holds[n])
        /\ object[holds[n]] \in LaneState /\ Fits(holds[n], object[holds[n]])
      BY <1>1, <2>1, InsideItsChat
  <2>3. Skip(object[holds[n]]) = object[holds[n]]
    <3>1. /\ object[holds[n]].serving <= object[holds[n]].next
          /\ object[holds[n]].next \notin object[holds[n]].cancelled
          /\ object[holds[n]].serving \notin object[holds[n]].cancelled
        BY <2>2 DEF Fits, FitTickets, LaneState
    <3> QED
        BY <2>2, <3>1, SkipNothing
  <2>4. PushMayGo(object[holds[n]], ticket[n]) /\ ticket' = ticket
      BY <1>1, <1>2, <2>3 DEF WakePush, IInv, TypeOK
  <2> QED
      BY <1>1, <2>2, <2>4 DEF PushMayGo
<1>3. CASE EnterPush(n)
  <2> DEFINE R(o) == [object[o] EXCEPT !.users = @ \cup {n}, !.next = @ + 1]
  <2>1. PICK o \in Objects :
            /\ Acquires(ChatOf[n], o)
            /\ ticket' = [ticket EXCEPT ![n] = object[o].next]
            /\ at' = [at EXCEPT ![n] = IF PushMayGo(Skip(R(o)), object[o].next)
                                       THEN "send" ELSE "wait"]
      BY <1>3 DEF EnterPush
  <2>2. Mine(ChatOf[n], o) /\ object[o] \in LaneState /\ Fits(o, object[o])
      BY <1>1, <2>1, CountsBefore DEF Acquires, Mine
  <2>3. PICK r : r = R(o)
      OBVIOUS
  <2>4. object[o].users \cup {n} \in SUBSET Senders /\ object[o].next + 1 \in Nat
      BY <1>1, <2>2 DEF LaneState
  <2>5. r = [object[o] EXCEPT !.users = object[o].users \cup {n},
                              !.next = object[o].next + 1]
      BY <2>3
  <2>6. /\ r \in LaneState /\ r.next = object[o].next + 1
        /\ r.serving = object[o].serving /\ r.cancelled = object[o].cancelled
        /\ r.turns = object[o].turns /\ r.sends = object[o].sends
    <3> HIDE DEF R
    <3> QED
        BY <2>2, <2>4, <2>5 DEF LaneState
  <2>7. r.serving <= r.next /\ r.next \notin r.cancelled /\ r.serving \notin r.cancelled
      BY <2>2, <2>6 DEF Fits, FitTickets, LaneState
  <2>8. Skip(R(o)) = r
      BY <2>3, <2>6, <2>7, SkipNothing
  <2>9. PushMayGo(r, object[o].next) /\ ticket'[n] = object[o].next
      BY <1>1, <2>1, <2>8 DEF IInv, TypeOK
  <2> QED
      BY <1>1, <2>2, <2>6, <2>9 DEF PushMayGo
<1> QED
    BY <1>2, <1>3, OnlyPushStarts

\* A push starts only when its chat has no pending turn and no passive send,
\* announced ones included (run_non_passive).
THEOREM PushesWaitForPassive == Spec => PushesYield
<1>1. ASSUME IInv, [Next]_vars, NEW n \in Pushes, at[n] # "send", at'[n] = "send"
      PROVE  PendingTurns(ChatOf[n]) = {} /\ OpenSends(ChatOf[n]) = {}
  <2>1. PICK o \in Objects :
            /\ Mine(ChatOf[n], o) /\ ChatOf[n] \in Chats
            /\ object[o].turns = 0 /\ object[o].sends = 0
      BY <1>1, StartsWhenServed
  <2>2. FitCounts(ChatOf[n], object[o])
      BY <1>1, <2>1, CountsBefore
  <2> QED
      BY <2>1, <2>2, Counted, FS_EmptySet DEF FitCounts
<1>2. IInv /\ [Next]_vars =>
          [\A n \in Pushes :
               at[n] # "send" /\ at'[n] = "send" =>
                   PendingTurns(ChatOf[n]) = {} /\ OpenSends(ChatOf[n]) = {}]_vars
    BY <1>1
<1> QED
    BY <1>2, Invariant, PTL DEF Spec, PushesYield

\* Of two pushes of one chat the one with the older ticket starts first.
THEOREM PushesKeepTheirOrder == Spec => PushesInOrder
<1>1. ASSUME IInv, [Next]_vars, NEW n \in Pushes, NEW m \in Pushes,
             ChatOf[n] = ChatOf[m], at[m] = "wait", at'[m] = "wait",
             at[n] # "send", at'[n] = "send"
      PROVE  ticket'[n] < ticket[m]
  <2>1. PICK o \in Objects :
            Mine(ChatOf[n], o) /\ ChatOf[n] \in Chats /\ ticket'[n] = object[o].serving
      BY <1>1, StartsWhenServed
  <2>2. IsInside(m) /\ m \in Senders
      BY <1>1 DEF IsInside, Senders
  <2>3. /\ holds[m] \in Objects /\ registered[ChatOf[m]] = holds[m]
        /\ m \in object[holds[m]].users /\ Fits(holds[m], object[holds[m]])
      BY <1>1, <2>2, InsideItsChat
  <2>4. o = holds[m]
      BY <1>1, <2>1, <2>3, NoneAssumption DEF Mine
  <2>5. object[o] \in LaneState
      BY <1>1, <2>1, CountsBefore
  <2>6. /\ ticket[m] \in object[o].serving..(object[o].next - 1)
        /\ object[o].serving \in Nat /\ object[o].next \in Nat
      BY <2>3, <2>4, <2>5 DEF Fits, FitTickets, LaneState
  <2>7. ticket[m] # object[o].serving
    <3> SUFFICES ASSUME ticket[m] = object[o].serving PROVE FALSE
        OBVIOUS
    <3>1. CASE WakePush(n)
      <4>1. IsInside(n) /\ n \in Senders /\ ticket'[n] = ticket[n]
          BY <3>1 DEF WakePush, IsInside, Senders
      <4>2. holds[n] = o /\ n \in object[o].users
          BY <1>1, <2>3, <2>4, <4>1, InsideItsChat
      <4> QED
          BY <1>1, <2>1, <2>3, <2>4, <4>1, <4>2 DEF Fits, FitTickets
    <3>2. CASE EnterPush(n)
      <4>1. PICK p \in Objects :
                Acquires(ChatOf[n], p) /\ ticket' = [ticket EXCEPT ![n] = object[p].next]
          BY <3>2 DEF EnterPush
      <4>2. p = o
          BY <1>1, <2>3, <2>4, <4>1, NoneAssumption DEF Acquires
      <4>3. ticket'[n] = object[o].next
          BY <1>1, <4>1, <4>2 DEF IInv, TypeOK
      <4> QED
          BY <2>1, <2>6, <4>3
    <3> QED
        BY <1>1, <3>1, <3>2, OnlyPushStarts
  <2> QED
      BY <2>1, <2>6, <2>7
<1>2. IInv /\ [Next]_vars =>
          [\A n, m \in Pushes :
               /\ ChatOf[n] = ChatOf[m]
               /\ at[m] = "wait" /\ at'[m] = "wait"
               /\ at[n] # "send" /\ at'[n] = "send"
               => ticket'[n] < ticket[m]]_vars
    BY <1>1
<1> QED
    BY <1>2, Invariant, PTL DEF Spec, PushesInOrder

(***************************************************************************)
(* The gate among the parts of ControlSpec                                 *)
(***************************************************************************)

\* Nothing starts under a lease, so the drain knows every task.
DrainCoversActive == \A d \in Deployments : lease = d => Gate!Active \subseteq draining[d]

\* Nothing starts under a pending restart.
OnlyTheOwnerRuns == pending # None => Gate!Active \subseteq {pending}

\* What the coordinator recorded about the turn it waits for is so.
FlagsAreTrue ==
  /\ completed /\ pending # None => task[pending] = "completed"
  /\ delivered /\ pending # None => pending \in sent
  /\ restart = "committed" => pending # None /\ completed /\ delivered

GInv ==
  /\ Gate!TypeOK /\ Gate!GateMatchesOwners /\ Gate!PreparedMeansQuiet
  /\ DrainCoversActive /\ OnlyTheOwnerRuns /\ FlagsAreTrue

\* The initial state satisfies the invariant.
LEMMA InitGInv ==
Gate!Init => GInv
BY NoneIsNobody DEF Gate!Init, GInv, Gate!TypeOK, Gate!GateMatchesOwners, Gate!PreparedMeansQuiet,
    DrainCoversActive, OnlyTheOwnerRuns, FlagsAreTrue, Gate!Active, Gate!TaskState, Gate!Gone,
    Gate!Ends, Gate!Alive

\* The invariant implies what a reader wants of it.
LEMMA GInvImplies ==
  ASSUME GInv
  PROVE  Gate!GateMatchesOwners /\ Gate!PreparedMeansQuiet /\ Gate!RestartIsOrderly
<1>1. ASSUME restart = "committed"
      PROVE  (\A t \in Tasks : task[t] \notin Gate!Alive) /\ task[pending] = "completed" /\ pending \in sent
  BY <1>1 DEF GInv, FlagsAreTrue, OnlyTheOwnerRuns, Gate!Active, Gate!Alive, Gate!TypeOK
<1> QED BY <1>1 DEF GInv, Gate!RestartIsOrderly

\* Withdrawing a pending restart opens the gate, unless the process closes.
LEMMA CancelKeeps ==
  ASSUME GInv, pending # None, restart # "committed", Gate!CancelRestart,
         UNCHANGED <<closed, lease, settings>>
  PROVE  /\ Gate!GateMatchesOwners'
         /\ pending' = None /\ restartOwner' = None /\ restart' = "cancelled"
         /\ completed' = FALSE /\ delivered' = FALSE /\ accepting' \in BOOLEAN
         /\ lease = None
BY DEF GInv, Gate!TypeOK, Gate!GateMatchesOwners, Gate!CancelRestart, Gate!Resume

\* A report about the pending turn t, true of the state after the step, commits
\* the restart, withdraws it or waits for the other report.
LEMMA CommitKeeps ==
  ASSUME GInv, NEW t \in Tasks, Gate!Concerns(t),
         NEW done \in BOOLEAN, NEW arrived \in BOOLEAN, Gate!CommitIfReady(done, arrived),
         UNCHANGED <<closed, lease, settings>>,
         done => task'[t] = "completed",
         arrived => t \in sent'
  PROVE  /\ Gate!GateMatchesOwners' /\ FlagsAreTrue'
         /\ restartOwner' \in Tasks \cup {None} /\ pending' \in {pending, None}
         /\ restart' \in {"idle", "armed", "waiting", "committed", "cancelled"}
         /\ completed' \in BOOLEAN /\ delivered' \in BOOLEAN /\ accepting' \in BOOLEAN
         /\ lease = None
<1> t # None /\ pending = t /\ restart # "committed" /\ lease = None
  BY NoneIsNobody DEF Gate!Concerns, GInv, Gate!GateMatchesOwners
<1>1. CASE Gate!CancelRestart
  BY <1>1, CancelKeeps DEF FlagsAreTrue
<1>2. CASE ~Gate!CancelRestart
  BY <1>2 DEF Gate!CommitIfReady, GInv, Gate!TypeOK, Gate!GateMatchesOwners, FlagsAreTrue
<1> QED BY <1>1, <1>2

\* Tasks only come to an end, unless the gate is open.
TasksEnd == \A t \in Tasks : task'[t] = task[t] \/ (task[t] \in Gate!Alive \cup {"dead"} /\ t \notin Gate!Active')
                             \/ (task[t] \in Gate!Alive /\ task'[t] \in Gate!Alive \cup {"dead"})

\* A step that ends or leaves tasks and keeps the holders keeps the parts of the
\* invariant that are about what runs.
LEMMA TasksKeep ==
  ASSUME GInv, TasksEnd, UNCHANGED <<lease, draining, answer>>, pending' \in {pending, None}
  PROVE  Gate!PreparedMeansQuiet' /\ DrainCoversActive' /\ OnlyTheOwnerRuns'
<1>1. Gate!Active' \subseteq Gate!Active
  BY DEF TasksEnd, Gate!Active, Gate!Alive
<1>2. \A t \in Tasks : task'[t] \in Gate!Alive => task[t] \in Gate!Alive
  BY DEF TasksEnd, Gate!Alive, Gate!Active
<1>3. Gate!PreparedMeansQuiet' BY <1>2 DEF GInv, Gate!PreparedMeansQuiet
<1>4. DrainCoversActive' BY <1>1 DEF GInv, DrainCoversActive
<1>5. OnlyTheOwnerRuns' BY <1>1 DEF GInv, OnlyTheOwnerRuns
<1> QED BY <1>3, <1>4, <1>5
----------------------------------------------------------------------------
(* One lemma per kind of action *)

\* The steps of turns, reports of their ends included.
LEMMA TurnKeeps ==
  ASSUME GInv, NEW t \in Tasks,
         \/ Gate!StartTurn(t) \/ Gate!BeginTurn(t) \/ Gate!InterruptReady(t) \/ Gate!Reap(t) \/ Gate!LoseTurn(t)
         \/ \E st \in Gate!Ends : Gate!EndTurn(t, st)
  PROVE  GInv'
<1> USE DEF Gate!TaskState, Gate!Gone, Gate!Ends, Gate!Alive
<1>1. CASE Gate!StartTurn(t)
  <2>1. lease = None /\ pending = None /\ restart # "committed"
    BY <1>1 DEF Gate!StartTurn, GInv, Gate!GateMatchesOwners, FlagsAreTrue
  <2> QED BY <1>1, <2>1, NoneIsNobody DEF Gate!StartTurn, GInv, Gate!TypeOK, Gate!GateMatchesOwners,
      Gate!PreparedMeansQuiet, DrainCoversActive, OnlyTheOwnerRuns, FlagsAreTrue, Gate!deployment,
      Gate!coordinator, Gate!settingsVars
<1>2. CASE Gate!BeginTurn(t) \/ Gate!InterruptReady(t) \/ Gate!Reap(t) \/ Gate!LoseTurn(t)
  <2>1. /\ Gate!TypeOK' /\ TasksEnd
        /\ UNCHANGED <<accepting, closed, Gate!deployment, Gate!coordinator, Gate!settingsVars, sent>>
        /\ task[t] # "completed" /\ \A u \in Tasks \ {t} : task'[u] = task[u]
    BY <1>2 DEF Gate!BeginTurn, Gate!InterruptReady, Gate!Reap, Gate!LoseTurn, GInv, Gate!TypeOK,
        TasksEnd, Gate!Active, Gate!deployment, Gate!coordinator, Gate!settingsVars
  <2>2. Gate!PreparedMeansQuiet' /\ DrainCoversActive' /\ OnlyTheOwnerRuns'
    BY <2>1, TasksKeep DEF Gate!deployment, Gate!coordinator
  <2>3. Gate!GateMatchesOwners'
    BY <2>1 DEF GInv, Gate!GateMatchesOwners, Gate!deployment, Gate!coordinator, Gate!settingsVars
  <2>4. FlagsAreTrue'
    BY <2>1 DEF GInv, Gate!TypeOK, FlagsAreTrue, Gate!coordinator
  <2> QED BY <2>1, <2>2, <2>3, <2>4 DEF GInv
<1>3. ASSUME NEW st \in Gate!Ends, Gate!EndTurn(t, st) PROVE GInv'
  <2>1. /\ task' = [task EXCEPT ![t] = st] /\ task[t] = "running" /\ TasksEnd
        /\ UNCHANGED <<closed, Gate!deployment, Gate!settingsVars, sent>>
    BY <1>3 DEF Gate!EndTurn, GInv, Gate!TypeOK, TasksEnd, Gate!Active
  <2>2. /\ Gate!GateMatchesOwners' /\ FlagsAreTrue'
        /\ restartOwner' \in Tasks \cup {None} /\ pending' \in {pending, None}
        /\ restart' \in {"idle", "armed", "waiting", "committed", "cancelled"}
        /\ completed' \in BOOLEAN /\ delivered' \in BOOLEAN /\ accepting' \in BOOLEAN
    <3>1. CASE Gate!Concerns(t) /\ st = "completed" /\ Gate!CommitIfReady(TRUE, delivered)
      <4>1. delivered \in BOOLEAN /\ (delivered => t \in sent') /\ task'[t] = "completed"
        BY <2>1, <3>1, NoneIsNobody DEF GInv, Gate!TypeOK, FlagsAreTrue, Gate!Concerns
      <4> QED BY <2>1, <3>1, <4>1, CommitKeeps DEF Gate!deployment, Gate!settingsVars
    <3>2. CASE Gate!Concerns(t) /\ st # "completed" /\ Gate!CancelRestart
      <4>1. pending # None /\ restart # "committed"
        BY <3>2, NoneIsNobody DEF Gate!Concerns
      <4> QED BY <2>1, <3>2, <4>1, CancelKeeps DEF FlagsAreTrue, Gate!deployment, Gate!settingsVars
    <3>3. CASE ~Gate!Concerns(t) /\ UNCHANGED <<Gate!coordinator, accepting>>
      BY <2>1, <3>3 DEF GInv, Gate!TypeOK, Gate!GateMatchesOwners, FlagsAreTrue, Gate!coordinator,
          Gate!deployment, Gate!settingsVars
    <3> QED BY <1>3, <3>1, <3>2, <3>3 DEF Gate!EndTurn, Gate!TellTerminal
  <2>3. Gate!PreparedMeansQuiet' /\ DrainCoversActive' /\ OnlyTheOwnerRuns'
    BY <2>1, <2>2, TasksKeep DEF Gate!deployment
  <2>4. Gate!TypeOK'
    BY <2>1, <2>2 DEF GInv, Gate!TypeOK, Gate!deployment, Gate!settingsVars
  <2> QED BY <2>2, <2>3, <2>4 DEF GInv
<1> QED BY <1>1, <1>2, <1>3

\* The steps of the restart coordinator.
LEMMA RestartKeeps ==
  ASSUME GInv, NEW t \in Tasks,
         Gate!Arm(t) \/ Gate!MarkDelivered(t) \/ Gate!MarkDeliveryFailed(t) \/ Gate!Watchdog
  PROVE  GInv'
<1>1. CASE Gate!Arm(t)
  <2>1. lease = None /\ pending = None /\ Gate!Active = {t} /\ accepting
    BY <1>1 DEF Gate!Arm, Gate!MayQuiesce, GInv, Gate!GateMatchesOwners
  <2>2. Gate!Active' = Gate!Active
    BY <1>1 DEF Gate!Arm, Gate!Active
  <2>3. Gate!TypeOK' BY <1>1 DEF Gate!Arm, GInv, Gate!TypeOK, Gate!deployment, Gate!settingsVars
  <2>4. Gate!GateMatchesOwners' BY <1>1, <2>1, NoneIsNobody DEF Gate!Arm, Gate!GateMatchesOwners,
      Gate!deployment, Gate!settingsVars
  <2>5. Gate!PreparedMeansQuiet' /\ DrainCoversActive'
    BY <1>1, <2>1, NoneIsNobody DEF Gate!Arm, Gate!PreparedMeansQuiet, DrainCoversActive,
        Gate!deployment
  <2>6. OnlyTheOwnerRuns' /\ FlagsAreTrue'
    BY <1>1, <2>1, <2>2 DEF Gate!Arm, OnlyTheOwnerRuns, FlagsAreTrue
  <2> QED BY <2>3, <2>4, <2>5, <2>6 DEF GInv
<1>2. CASE Gate!MarkDelivered(t)
  <2>1. /\ task[t] \in Gate!Ends /\ sent' = sent \cup {t}
        /\ UNCHANGED <<task, closed, Gate!deployment, Gate!settingsVars>> /\ TasksEnd
    BY <1>2 DEF Gate!MarkDelivered, TasksEnd
  <2>2. /\ Gate!GateMatchesOwners' /\ FlagsAreTrue'
        /\ restartOwner' \in Tasks \cup {None} /\ pending' \in {pending, None}
        /\ restart' \in {"idle", "armed", "waiting", "committed", "cancelled"}
        /\ completed' \in BOOLEAN /\ delivered' \in BOOLEAN /\ accepting' \in BOOLEAN
    <3>1. CASE Gate!Concerns(t) /\ Gate!CommitIfReady(completed, TRUE)
      <4>1. completed \in BOOLEAN /\ (completed => task'[t] = "completed") /\ t \in sent'
        BY <2>1, <3>1, NoneIsNobody DEF GInv, Gate!TypeOK, FlagsAreTrue, Gate!Concerns
      <4> QED BY <2>1, <3>1, <4>1, CommitKeeps DEF Gate!deployment, Gate!settingsVars
    <3>2. CASE ~Gate!Concerns(t) /\ UNCHANGED <<Gate!coordinator, accepting>>
      BY <2>1, <3>2 DEF GInv, Gate!TypeOK, Gate!GateMatchesOwners, FlagsAreTrue, Gate!coordinator,
          Gate!deployment, Gate!settingsVars
    <3> QED BY <1>2, <3>1, <3>2 DEF Gate!MarkDelivered
  <2>3. Gate!PreparedMeansQuiet' /\ DrainCoversActive' /\ OnlyTheOwnerRuns'
    BY <2>1, <2>2, TasksKeep DEF Gate!deployment
  <2>4. Gate!TypeOK'
    BY <2>1, <2>2 DEF GInv, Gate!TypeOK, Gate!deployment, Gate!settingsVars
  <2> QED BY <2>2, <2>3, <2>4 DEF GInv
<1>3. CASE Gate!MarkDeliveryFailed(t) \/ Gate!Watchdog
  <2>1. /\ pending # None /\ restart # "committed" /\ Gate!CancelRestart
        /\ UNCHANGED <<task, closed, Gate!deployment, Gate!settingsVars, sent>> /\ TasksEnd
    BY <1>3, NoneIsNobody DEF Gate!MarkDeliveryFailed, Gate!Watchdog, Gate!Concerns, TasksEnd
  <2>2. /\ Gate!GateMatchesOwners' /\ pending' = None /\ restartOwner' = None /\ restart' = "cancelled"
        /\ completed' = FALSE /\ delivered' = FALSE /\ accepting' \in BOOLEAN
    BY <2>1, CancelKeeps DEF Gate!deployment, Gate!settingsVars
  <2>3. Gate!PreparedMeansQuiet' /\ DrainCoversActive' /\ OnlyTheOwnerRuns'
    BY <2>1, <2>2, TasksKeep DEF Gate!deployment
  <2>4. Gate!TypeOK' /\ FlagsAreTrue'
    BY <2>1, <2>2 DEF GInv, Gate!TypeOK, FlagsAreTrue, Gate!deployment, Gate!settingsVars
  <2> QED BY <2>2, <2>3, <2>4 DEF GInv
<1> QED BY <1>1, <1>2, <1>3

\* The steps of a deployment lease.
LEMMA LeaseKeeps ==
  ASSUME GInv, NEW d \in Deployments,
         Gate!GrantLease(d) \/ Gate!JoinLease(d) \/ Gate!AnswerPrepare(d) \/ Gate!ReleaseLease(d)
  PROVE  GInv'
<1>1. CASE Gate!GrantLease(d)
  <2>1. accepting /\ lease = None /\ restartOwner = None /\ pending = None /\ restart # "committed"
    BY <1>1 DEF Gate!GrantLease, Gate!MayGrant, GInv, Gate!GateMatchesOwners, FlagsAreTrue
  <2>2. Gate!TypeOK'
    BY <1>1 DEF Gate!GrantLease, GInv, Gate!TypeOK, Gate!Active, Gate!coordinator, Gate!settingsVars
  <2>3. Gate!GateMatchesOwners' /\ OnlyTheOwnerRuns' /\ FlagsAreTrue'
    BY <1>1, <2>1, NoneIsNobody DEF Gate!GrantLease, GInv, Gate!TypeOK, Gate!GateMatchesOwners,
        OnlyTheOwnerRuns, FlagsAreTrue, Gate!coordinator, Gate!settingsVars
  <2>4. Gate!Active' = Gate!Active BY <1>1 DEF Gate!GrantLease, Gate!Active
  <2>5. DrainCoversActive' /\ Gate!PreparedMeansQuiet'
    BY <1>1, <2>4, NoneIsNobody DEF Gate!GrantLease, GInv, Gate!TypeOK, DrainCoversActive,
        Gate!PreparedMeansQuiet
  <2> QED BY <2>2, <2>3, <2>5 DEF GInv
<1>2. CASE Gate!JoinLease(d)
  BY <1>2 DEF Gate!JoinLease, GInv, Gate!TypeOK, Gate!GateMatchesOwners, Gate!PreparedMeansQuiet,
      DrainCoversActive, OnlyTheOwnerRuns, FlagsAreTrue, Gate!Active, Gate!runtime, Gate!coordinator,
      Gate!settingsVars
<1>3. CASE Gate!AnswerPrepare(d)
  <2>1. /\ UNCHANGED <<Gate!runtime, lease, used, draining, Gate!coordinator, Gate!settingsVars, sent>>
        /\ answer' = [answer EXCEPT ![d] = IF lease = d THEN "drained" ELSE "released"]
        /\ asking' = asking \ {d} /\ (lease = d => Gate!DrainDone(d))
    BY <1>3 DEF Gate!AnswerPrepare
  <2>2. lease = d => \A t \in Tasks : task[t] \notin Gate!Alive
    BY <2>1 DEF Gate!DrainDone, GInv, DrainCoversActive, Gate!Active
  <2>3. Gate!PreparedMeansQuiet'
    BY <2>1, <2>2 DEF GInv, Gate!TypeOK, Gate!PreparedMeansQuiet, Gate!runtime
  <2>4. Gate!TypeOK'
    BY <2>1 DEF GInv, Gate!TypeOK, Gate!runtime, Gate!coordinator, Gate!settingsVars
  <2>5. Gate!GateMatchesOwners' /\ DrainCoversActive' /\ OnlyTheOwnerRuns' /\ FlagsAreTrue'
    BY <2>1 DEF GInv, Gate!GateMatchesOwners, DrainCoversActive, OnlyTheOwnerRuns, FlagsAreTrue,
        Gate!Active, Gate!runtime, Gate!coordinator, Gate!settingsVars
  <2> QED BY <2>3, <2>4, <2>5 DEF GInv
<1>4. CASE Gate!ReleaseLease(d)
  <2>1. lease # None /\ restartOwner = None
    BY <1>4, NoneIsNobody DEF Gate!ReleaseLease, GInv, Gate!GateMatchesOwners
  <2>2. Gate!TypeOK' /\ Gate!GateMatchesOwners'
    BY <1>4, <2>1 DEF Gate!ReleaseLease, GInv, Gate!TypeOK, Gate!GateMatchesOwners, Gate!coordinator,
        Gate!settingsVars
  <2>3. Gate!PreparedMeansQuiet' /\ DrainCoversActive'
    BY <1>4, NoneIsNobody DEF Gate!ReleaseLease, Gate!PreparedMeansQuiet, DrainCoversActive
  <2>4. OnlyTheOwnerRuns' /\ FlagsAreTrue'
    BY <1>4 DEF Gate!ReleaseLease, GInv, OnlyTheOwnerRuns, FlagsAreTrue, Gate!Active, Gate!coordinator
  <2> QED BY <2>2, <2>3, <2>4 DEF GInv
<1> QED BY <1>1, <1>2, <1>3, <1>4

\* The settings restart and the end of the process.
LEMMA StopKeeps ==
  ASSUME GInv, Gate!SettingsQuiesce \/ Gate!SettingsCommit \/ Gate!SettingsAbort \/ Gate!Shutdown
  PROVE  GInv'
<1>1. /\ UNCHANGED <<task, used, draining, asking, answer, Gate!coordinator, sent>>
      /\ lease' \in {lease, None} /\ Gate!TypeOK' /\ Gate!GateMatchesOwners'
  <2>1. /\ UNCHANGED <<task, used, draining, asking, answer, Gate!coordinator, sent>>
        /\ lease' \in {lease, None} /\ accepting' \in {accepting, FALSE} /\ closed' \in {closed, TRUE}
        /\ awaited' \subseteq Tasks
        /\ settings' \in {"idle", "draining", "committed", "aborted"}
    BY DEF Gate!SettingsQuiesce, Gate!SettingsCommit, Gate!SettingsAbort, Gate!Shutdown, GInv,
        Gate!TypeOK, Gate!Active, Gate!runtime, Gate!deployment, Gate!settingsVars
  <2>2. Gate!TypeOK'
    BY <2>1 DEF GInv, Gate!TypeOK, Gate!coordinator
  <2>3. Gate!GateMatchesOwners'
    <3>1. CASE Gate!SettingsQuiesce
      BY <3>1 DEF Gate!SettingsQuiesce, GInv, Gate!GateMatchesOwners, Gate!TypeOK, Gate!runtime,
          Gate!deployment, Gate!coordinator
    <3>2. CASE Gate!SettingsCommit
      BY <3>2 DEF Gate!SettingsCommit, GInv, Gate!GateMatchesOwners, Gate!TypeOK, Gate!runtime,
          Gate!deployment, Gate!coordinator
    <3>3. CASE Gate!SettingsAbort
      BY <3>3 DEF Gate!SettingsAbort, GInv, Gate!GateMatchesOwners, Gate!TypeOK, Gate!runtime,
          Gate!deployment, Gate!coordinator
    <3>4. CASE Gate!Shutdown
      BY <3>4 DEF Gate!Shutdown, GInv, Gate!GateMatchesOwners, Gate!TypeOK, Gate!runtime,
          Gate!deployment, Gate!coordinator, Gate!settingsVars
    <3> QED BY <3>1, <3>2, <3>3, <3>4
  <2> QED BY <2>1, <2>2, <2>3
<1>2. Gate!PreparedMeansQuiet' /\ DrainCoversActive' /\ OnlyTheOwnerRuns' /\ FlagsAreTrue'
  BY <1>1, NoneIsNobody DEF GInv, Gate!PreparedMeansQuiet, DrainCoversActive, OnlyTheOwnerRuns,
      FlagsAreTrue, Gate!Active, Gate!coordinator
<1> QED BY <1>1, <1>2 DEF GInv

\* Every step keeps the invariant.
LEMMA NextGInv ==
  ASSUME GInv, [Gate!Next]_(Gate!vars)
  PROVE  GInv'
<1>1. CASE UNCHANGED Gate!vars
  BY <1>1 DEF Gate!vars, Gate!runtime, Gate!deployment, Gate!coordinator, Gate!settingsVars, GInv,
      Gate!TypeOK, Gate!GateMatchesOwners, Gate!PreparedMeansQuiet, DrainCoversActive,
      OnlyTheOwnerRuns, FlagsAreTrue, Gate!Active
<1>2. CASE Gate!Next
  <2>1. ASSUME NEW t \in Tasks,
               \/ Gate!StartTurn(t) \/ Gate!BeginTurn(t) \/ Gate!InterruptReady(t) \/ Gate!Reap(t) \/ Gate!LoseTurn(t)
               \/ \E st \in Gate!Ends : Gate!EndTurn(t, st)
        PROVE  GInv'
    BY <2>1, TurnKeeps
  <2>2. ASSUME NEW t \in Tasks, Gate!Arm(t) \/ Gate!MarkDelivered(t) \/ Gate!MarkDeliveryFailed(t) PROVE GInv'
    BY <2>2, RestartKeeps
  <2>3. CASE Gate!Watchdog
    <3>1. pending \in Tasks BY <2>3 DEF Gate!Watchdog, GInv, Gate!TypeOK
    <3> QED BY <2>3, <3>1, RestartKeeps
  <2>4. ASSUME NEW d \in Deployments, Gate!GrantLease(d) \/ Gate!JoinLease(d) \/ Gate!AnswerPrepare(d) \/ Gate!ReleaseLease(d)
        PROVE  GInv'
    BY <2>4, LeaseKeeps
  <2>5. CASE Gate!SettingsQuiesce \/ Gate!SettingsCommit \/ Gate!SettingsAbort \/ Gate!Shutdown
    BY <2>5, StopKeeps
  <2> QED BY <1>2, <2>1, <2>2, <2>3, <2>4, <2>5 DEF Gate!Next, Gate!CancelDeployment,
      Gate!ExpireDeployment
<1> QED BY <1>1, <1>2

\* Whatever part runs, the gate only takes its own steps.
LEMMA ControlRunsTheGate == ControlSpec => Gate!Init /\ [][Gate!Next]_(Gate!vars)
<1>1. ControlInit => Gate!Init
  BY DEF ControlInit
<1>2. [ControlNext]_controlVars => [Gate!Next]_(Gate!vars)
  BY DEF ControlNext, controlVars, gateVars, Gate!vars, Gate!runtime, Gate!deployment, Gate!coordinator,
         Gate!settingsVars
<1> QED BY <1>1, <1>2, PTL DEF ControlSpec

\* The inductive invariant of the gate holds in every reachable state, for any
\* sets of turns and deployments (control/runtime.py, restart.py).
THEOREM GateInvariant == ControlSpec => []GInv
<1>1. Gate!Init => GInv BY InitGInv
<1>2. GInv /\ [Gate!Next]_(Gate!vars) => GInv' BY NextGInv
<1> QED BY <1>1, <1>2, ControlRunsTheGate, PTL

\* Deployment lease and agent restart exclude each other, and the gate is closed
\* exactly while somebody who will open it holds it; "drained" means that nothing runs,
\* and a committed restart cuts off no turn and follows the delivered reply of the turn
\* that asked (control/runtime.py:1471, 1609, restart.py:281).
THEOREM GateStaysOrderly == ControlSpec => []GateIsOrderly
<1>1. GInv => GateIsOrderly
  BY GInvImplies DEF GInv, GateIsOrderly
<1> QED BY <1>1, GateInvariant, PTL

\* A committed restart is never withdrawn by a late timeout, terminal or delivery
\* report (restart.py _delivery_watchdog, mark_delivery_failed).
THEOREM CommitsAreFinal == ControlSpec => Gate!CommitIsFinal
<1>1. ASSUME GInv, [Gate!Next]_(Gate!vars), restart = "committed" PROVE restart' = "committed"
  <2>1. pending # None BY <1>1 DEF GInv, FlagsAreTrue
  <2>2. \A t \in Tasks : ~Gate!Concerns(t) BY <1>1 DEF Gate!Concerns
  <2>3. CASE UNCHANGED Gate!vars BY <1>1, <2>3 DEF Gate!vars, Gate!coordinator
  <2>4. CASE Gate!Next
    BY <1>1, <2>1, <2>2, <2>4 DEF Gate!Next, Gate!StartTurn, Gate!BeginTurn, Gate!InterruptReady,
        Gate!Reap, Gate!EndTurn, Gate!TellTerminal, Gate!LoseTurn, Gate!Arm, Gate!MarkDelivered,
        Gate!MarkDeliveryFailed, Gate!Watchdog, Gate!GrantLease, Gate!JoinLease, Gate!AnswerPrepare,
        Gate!CancelDeployment, Gate!ExpireDeployment, Gate!ReleaseLease, Gate!SettingsQuiesce,
        Gate!SettingsCommit, Gate!SettingsAbort, Gate!Shutdown, Gate!coordinator
  <2> QED BY <1>1, <2>3, <2>4
<1>2. GInv /\ [Gate!Next]_(Gate!vars) => [restart = "committed" => restart' = "committed"]_(Gate!vars) BY <1>1
<1> QED BY <1>2, GateInvariant, ControlRunsTheGate, PTL DEF Gate!CommitIsFinal

\* Whatever part runs, the lane only takes its own steps.
LEMMA ControlRunsTheLane == ControlSpec => Spec
<1>1. ControlInit => Init
  BY DEF ControlInit
<1>2. [ControlNext]_controlVars => [Next]_vars
  BY DEF ControlNext, controlVars
<1> QED BY <1>1, <1>2, PTL DEF ControlSpec, Spec

\* What is proved of the lane holds beside the other parts: one message of a chat at a
\* time, exact counts, and pushes that wait for passive replies and keep their order
\* (run_passive, run_non_passive).
THEOREM LanesStayOrderly == ControlSpec => [](OneSender /\ CountsMatch) /\ PushesYield /\ PushesInOrder
  BY ControlRunsTheLane, OneAtATime, NothingIsLost, PushesWaitForPassive, PushesKeepTheirOrder, PTL
----------------------------------------------------------------------------
(* The outbound queue *)

\* What the dispatcher may hold, and where it and a publisher may be.
Known == Messages \cup {Nothing}
AtSteps == {"off", "get", "lane", "send", "again", "excuse", "settle", "observe", "done"}
Stations == {"idle", "entering", "waiting", "sent", "refused", "answered", "cancelled"}
Promises == {"none", "pending", "true", "false", "cancelled"}

\* The types.
RepliesTyped ==
  /\ queue \in Seq(Messages) /\ counted \subseteq Messages /\ stopped \in BOOLEAN
  /\ sender \in [Messages -> Stations] /\ receipt \in [Messages -> Promises]
  /\ dispatcher \in [at : AtSteps, msg : Known, sent : BOOLEAN]
  /\ app \in {"up", "failing", "cancelling", "draining", "closed"}
  /\ shown \subseteq Messages /\ excused \subseteq Messages
  /\ observed \in [Messages -> {"none", "true", "false"}]

\* A reply is in the queue once, and no longer when the dispatcher has it.
Once ==
  /\ \A i, j \in 1..Len(queue) : queue[i] = queue[j] => i = j
  /\ dispatcher.msg \notin ToSet(queue)
  /\ dispatcher.msg = Nothing <=> dispatcher.at \in {"off", "get", "done"}
  /\ dispatcher.at = "done" => app # "up"

\* What has not been sent yet was not shown, excused, settled or reported.
Untouched(m) == m \notin shown /\ m \notin excused /\ observed[m] = "none" /\ receipt[m] \notin {"true", "false"}
Waiting(m) == m \in ToSet(queue) \/ sender[m] \in {"idle", "entering", "refused"}
WaitingFits ==
  \A m \in Messages :
    /\ Waiting(m) => Untouched(m) /\ dispatcher.msg # m
    /\ m \in ToSet(queue) => sender[m] \notin {"idle", "entering", "refused"}

\* How far the dispatcher is with its reply.
DispatcherFits ==
  LET m == dispatcher.msg IN
  /\ m # Nothing => observed[m] = "none"
  /\ dispatcher.at \in {"lane", "send", "again"} => Untouched(m)
  /\ dispatcher.at = "excuse" => Untouched(m) /\ m \notin Awaited
  /\ dispatcher.at = "settle" =>
       /\ receipt[m] \notin {"true", "false"}
       /\ m \in Awaited => m \notin excused
       /\ IF dispatcher.sent THEN m \in shown /\ m \notin excused ELSE m \notin shown
  /\ dispatcher.at = "observe" =>
       /\ receipt[m] # "pending"
       /\ dispatcher.sent => m \in shown /\ m \notin excused

\* The inductive invariant of the outbound queue.
OutInv == RepliesTyped /\ Once /\ WaitingFits /\ DispatcherFits /\ ReceiptsAreTrue /\ NothingSlipsAway


\* The members of a sequence are what it holds at its positions.
LEMMA MembersOf ==
  ASSUME NEW S, NEW q \in Seq(S)
  PROVE  \A x : x \in ToSet(q) <=> \E i \in 1..Len(q) : x = q[i]
<1>1. DOMAIN q = 1..Len(q) BY LenProperties
<1> QED BY <1>1 DEF ToSet

\* A list without repetitions that loses its head has it no more.
LEMMA Shortened ==
  ASSUME NEW S, NEW q \in Seq(S), q # <<>>, \A i, j \in 1..Len(q) : q[i] = q[j] => i = j
  PROVE  /\ Tail(q) \in Seq(S) /\ Head(q) \in S /\ Head(q) \in ToSet(q)
         /\ \A i, j \in 1..Len(Tail(q)) : Tail(q)[i] = Tail(q)[j] => i = j
         /\ ToSet(Tail(q)) = ToSet(q) \ {Head(q)}
<1>1. Len(q) \in Nat \ {0} /\ Len(Tail(q)) = Len(q) - 1 /\ Tail(q) \in Seq(S)
  /\ \A i \in 1..Len(Tail(q)) : Tail(q)[i] = q[i + 1]
  BY HeadTailProperties, LenProperties
<1>2. Head(q) = q[1] OBVIOUS
<1>3. \A i, j \in 1..Len(Tail(q)) : Tail(q)[i] = Tail(q)[j] => i = j BY <1>1
<1>4. /\ \A x : x \in ToSet(q) <=> \E i \in 1..Len(q) : x = q[i]
      /\ \A x : x \in ToSet(Tail(q)) <=> \E i \in 1..Len(Tail(q)) : x = Tail(q)[i]
  BY <1>1, MembersOf
<1>5. ASSUME NEW x \in ToSet(Tail(q)) PROVE x \in ToSet(q) /\ x # Head(q)
  <2>1. PICK i \in 1..Len(Tail(q)) : x = Tail(q)[i] BY <1>4
  <2>2. x = q[i + 1] /\ i + 1 \in 1..Len(q) /\ i + 1 # 1 /\ 1 \in 1..Len(q) BY <1>1, <2>1
  <2> QED BY <1>2, <1>4, <2>2
<1>6. ASSUME NEW x \in ToSet(q), x # Head(q) PROVE x \in ToSet(Tail(q))
  <2>1. PICK i \in 1..Len(q) : x = q[i] BY <1>4
  <2>2. i # 1 /\ i - 1 \in 1..Len(Tail(q)) /\ i = (i - 1) + 1 BY <1>1, <1>2, <1>6, <2>1
  <2>3. x = Tail(q)[i - 1] BY <1>1, <2>1, <2>2
  <2> QED BY <1>4, <2>2, <2>3
<1>7. Head(q) \in ToSet(q) /\ Head(q) \in S BY <1>1, <1>2, <1>4
<1> QED BY <1>1, <1>3, <1>5, <1>6, <1>7

\* A list without repetitions stays one when a newcomer is appended.
LEMMA Lengthened ==
  ASSUME NEW S, NEW q \in Seq(S), NEW m \in S, m \notin ToSet(q),
         \A i, j \in 1..Len(q) : q[i] = q[j] => i = j
  PROVE  /\ Append(q, m) \in Seq(S) /\ ToSet(Append(q, m)) = ToSet(q) \cup {m}
         /\ \A i, j \in 1..Len(Append(q, m)) : Append(q, m)[i] = Append(q, m)[j] => i = j
<1> DEFINE r == Append(q, m)
<1>1. r \in Seq(S) /\ Len(q) \in Nat /\ Len(r) = Len(q) + 1 /\ r[Len(q) + 1] = m
      /\ \A i \in 1..Len(q) : r[i] = q[i]
  BY AppendProperties, LenProperties
<1>2. /\ \A x : x \in ToSet(q) <=> \E i \in 1..Len(q) : x = q[i]
      /\ \A x : x \in ToSet(r) <=> \E i \in 1..Len(r) : x = r[i]
  BY <1>1, MembersOf
<1> HIDE DEF r
<1>3. ToSet(r) \subseteq ToSet(q) \cup {m} BY <1>1, <1>2
<1>4. ToSet(q) \cup {m} \subseteq ToSet(r)
  <2>1. Len(q) + 1 \in 1..Len(r) /\ \A i \in 1..Len(q) : i \in 1..Len(r) BY <1>1
  <2> QED BY <1>1, <1>2, <2>1
<1>5. ASSUME NEW i \in 1..Len(r), NEW j \in 1..Len(r), r[i] = r[j] PROVE i = j
  <2>1. \A k \in 1..Len(q) : r[k] # m BY <1>1, <1>2
  <2>2. (i \in 1..Len(q) \/ i = Len(q) + 1) /\ (j \in 1..Len(q) \/ j = Len(q) + 1) BY <1>1
  <2> QED BY <1>1, <1>5, <2>1, <2>2
<1> QED BY <1>1, <1>3, <1>4, <1>5 DEF r

\* Nothing was sent when the bus begins.
LEMMA RepliesBegin ==
  ASSUME OutInit PROVE OutInv
<1>1. ToSet(queue) = {} BY DEF OutInit, ToSet
<1>2. Len(queue) = 0 /\ queue \in Seq(Messages) BY DEF OutInit
<1>3. RepliesTyped BY <1>2 DEF OutInit, RepliesTyped, Off, Known, AtSteps, Stations, Promises
<1>4. Once BY <1>1, <1>2 DEF OutInit, Once, Off
<1>5. WaitingFits BY <1>1, RepliesAssumption DEF OutInit, WaitingFits, Waiting, Untouched, Off
<1>6. DispatcherFits BY DEF OutInit, DispatcherFits, Off
<1>7. ReceiptsAreTrue BY RepliesAssumption DEF OutInit, ReceiptsAreTrue
<1>8. NothingSlipsAway BY <1>1 DEF OutInit, NothingSlipsAway, Off
<1> QED BY <1>3, <1>4, <1>5, <1>6, <1>7, <1>8 DEF OutInv

\* A publisher comes, is answered, or is cancelled.
LEMMA PublishersKeep ==
  ASSUME OutInv, NEW m \in Messages, Publish(m) \/ Answered(m) \/ SenderCancelled(m)
  PROVE  OutInv'
<1> USE DEF OutInv
<1>1. UNCHANGED <<queue, counted, dispatcher, stopped, app, shown, excused, observed>>
  BY DEF Publish, Answered, SenderCancelled
<1>2. /\ sender' \in [Messages -> Stations] /\ \A n \in Messages : n # m => sender'[n] = sender[n]
      /\ \/ sender[m] = "idle" /\ sender'[m] \in {"entering", "refused"}
         \/ sender[m] = "waiting" /\ sender'[m] \in {"answered", "cancelled"}
         \/ sender[m] = "entering" /\ sender'[m] = "cancelled"
  BY DEF RepliesTyped, Publish, Answered, SenderCancelled, Stations
<1>3. /\ receipt' \in [Messages -> Promises]
      /\ \A n \in Messages : receipt'[n] = receipt[n] \/ (receipt[n] = "pending" /\ receipt'[n] = "cancelled")
  BY DEF RepliesTyped, Publish, Answered, SenderCancelled, Promises, Resolve
<1>4. RepliesTyped' BY <1>1, <1>2, <1>3 DEF RepliesTyped
<1>5. Once' BY <1>1 DEF Once
<1>6. WaitingFits' BY <1>1, <1>2, <1>3 DEF WaitingFits, Waiting, Untouched
<1>7. DispatcherFits'
  BY <1>1, <1>3, RepliesAssumption DEF DispatcherFits, Untouched, RepliesTyped, Known, Once
<1>8. ReceiptsAreTrue' BY <1>1, <1>3, RepliesAssumption DEF ReceiptsAreTrue
<1>9. NothingSlipsAway' 
  <2>1. sender'[m] \in {"waiting", "sent", "answered"} => sender[m] = "waiting" BY <1>2
  <2> QED BY <1>1, <1>2, <2>1 DEF NothingSlipsAway
<1> QED BY <1>4, <1>5, <1>6, <1>7, <1>8, <1>9

\* A reply enters the queue once, with nothing done to it yet.
LEMMA EnqueuedKeeps ==
  ASSUME OutInv, NEW m \in Messages, Enqueued(m)
  PROVE  OutInv'
<1> USE DEF OutInv
<1>1. /\ UNCHANGED <<dispatcher, stopped, app, shown, excused, observed>>
      /\ sender[m] = "entering" /\ queue' = Append(queue, m) /\ counted' = counted \cup {m}
      /\ sender' \in [Messages -> Stations] /\ \A n \in Messages : n # m => sender'[n] = sender[n]
      /\ sender'[m] \in {"waiting", "sent"}
      /\ receipt' \in [Messages -> Promises] /\ \A n \in Messages : n # m => receipt'[n] = receipt[n]
      /\ receipt'[m] \in {"pending", "none"}
  BY DEF Enqueued, RepliesTyped, Stations, Promises
<1>2. m \notin ToSet(queue) /\ dispatcher.msg # m /\ Untouched(m) BY <1>1 DEF WaitingFits, Waiting
<1>3. /\ queue' \in Seq(Messages) /\ ToSet(queue') = ToSet(queue) \cup {m}
      /\ \A i, j \in 1..Len(queue') : queue'[i] = queue'[j] => i = j
  BY <1>1, <1>2, Lengthened DEF RepliesTyped, Once
<1>4. RepliesTyped' BY <1>1, <1>3 DEF RepliesTyped
<1>5. Once' BY <1>1, <1>2, <1>3 DEF Once
<1>6. WaitingFits' BY <1>1, <1>2, <1>3 DEF WaitingFits, Waiting, Untouched
<1>7. DispatcherFits'
  <2>1. dispatcher.msg = Nothing \/ (dispatcher.msg \in Messages /\ dispatcher.msg # m)
    BY <1>2 DEF RepliesTyped, Known
  <2> QED BY <1>1, <2>1 DEF DispatcherFits, Untouched, Once
<1>8. ReceiptsAreTrue' BY <1>1, RepliesAssumption DEF ReceiptsAreTrue
<1>9. NothingSlipsAway' BY <1>1, <1>3 DEF NothingSlipsAway
<1> QED BY <1>4, <1>5, <1>6, <1>7, <1>8, <1>9

\* A step of the dispatcher that leaves the queue and the senders alone.
LEMMA DispatcherKeeps ==
  ASSUME OutInv, Starts \/ Enters \/ Sends \/ Raises \/ Excuses
  PROVE  OutInv'
<1> USE DEF OutInv
<1>1. UNCHANGED <<queue, sender, receipt, counted, stopped, app, observed>>
  BY DEF Starts, Enters, Sends, Raises, Excuses
<1> DEFINE m == dispatcher.msg
<1>2. /\ dispatcher' \in [at : AtSteps, msg : Known, sent : BOOLEAN] /\ dispatcher'.msg = m
      /\ \/ dispatcher.at = "off" /\ dispatcher'.at = "get" /\ UNCHANGED <<shown, excused>>
         \/ dispatcher.at = "lane" /\ dispatcher'.at = "send" /\ UNCHANGED <<shown, excused>>
         \/ /\ dispatcher.at \in {"send", "again"} /\ dispatcher'.at = "settle"
            /\ shown' = IF dispatcher'.sent THEN shown \cup {m} ELSE shown
            /\ UNCHANGED excused
         \/ /\ dispatcher.at \in {"send", "again"} /\ UNCHANGED <<shown, excused>>
            /\ dispatcher'.at = "again" \/ (dispatcher'.at = "excuse" /\ m \notin Awaited)
         \/ /\ dispatcher.at = "excuse" /\ dispatcher'.at = "settle" /\ ~dispatcher'.sent
            /\ excused' \in {excused, excused \cup {m}} /\ UNCHANGED shown
  <2>1. CASE Starts \/ Enters BY <2>1 DEF RepliesTyped, Starts, Enters, At, Goto, AtSteps
  <2>2. CASE Sends BY <2>2 DEF RepliesTyped, Sends, At, Sent, AtSteps
  <2>3. CASE Raises
    <3>1. dispatcher.at \in {"send", "again"} /\ UNCHANGED <<shown, excused>> BY <2>3 DEF Raises
    <3>2. \/ dispatcher' = [dispatcher EXCEPT !.at = "again"]
          \/ dispatcher' = [dispatcher EXCEPT !.at = "settle", !.sent = FALSE]
          \/ dispatcher' = [dispatcher EXCEPT !.at = "excuse"] /\ m \notin Awaited
      BY <2>3 DEF Raises, Goto, Sent
    <3>3. dispatcher \in [at : AtSteps, msg : Known, sent : BOOLEAN] BY DEF RepliesTyped
    <3> QED BY <3>1, <3>2, <3>3 DEF AtSteps
  <2>4. CASE Excuses BY <2>4 DEF RepliesTyped, Excuses, At, Sent, AtSteps
  <2> QED BY <2>1, <2>2, <2>3, <2>4
<1>3. m = Nothing \/ m \in Messages BY DEF RepliesTyped, Known
<1>4. m = Nothing => dispatcher.at = "off" \/ dispatcher.at = "get" \/ dispatcher.at = "done" BY DEF Once
<1>5. RepliesTyped' BY <1>1, <1>2, <1>3, <1>4 DEF RepliesTyped
<1>6. Once' BY <1>1, <1>2, <1>3, <1>4, RepliesAssumption DEF Once
<1>7. WaitingFits' BY <1>1, <1>2 DEF WaitingFits, Waiting, Untouched
<1>8. DispatcherFits' BY <1>1, <1>2, <1>3, <1>4, RepliesAssumption DEF DispatcherFits, Untouched
<1>9. ReceiptsAreTrue'
  BY <1>1, <1>2, <1>3, <1>4, RepliesAssumption DEF ReceiptsAreTrue, DispatcherFits, Untouched
<1>10. NothingSlipsAway' BY <1>1, <1>2, <1>3, <1>4 DEF NothingSlipsAway
<1> QED BY <1>5, <1>6, <1>7, <1>8, <1>9, <1>10

\* The dispatcher takes the oldest reply, which leaves the queue.
LEMMA TakeKeeps ==
  ASSUME OutInv, Take
  PROVE  OutInv'
<1> USE DEF OutInv
<1> DEFINE m == Head(queue)
<1>1. /\ UNCHANGED <<sender, receipt, counted, stopped, app, shown, excused, observed>>
      /\ dispatcher.at = "get" /\ queue # <<>> /\ queue' = Tail(queue)
      /\ dispatcher' = [at |-> "lane", msg |-> m, sent |-> FALSE]
  BY DEF Take, At
<1>2. /\ queue' \in Seq(Messages) /\ m \in Messages /\ m \in ToSet(queue) /\ ToSet(queue') = ToSet(queue) \ {m}
      /\ \A i, j \in 1..Len(queue') : queue'[i] = queue'[j] => i = j
  BY <1>1, Shortened DEF RepliesTyped, Once
<1>3. Untouched(m) /\ sender[m] \notin {"idle", "entering", "refused"} BY <1>2 DEF WaitingFits, Waiting
<1>4. dispatcher.msg = Nothing BY <1>1 DEF Once
<1> HIDE DEF m
<1>5. RepliesTyped' BY <1>1, <1>2 DEF RepliesTyped, AtSteps, Known
<1>6. Once' BY <1>1, <1>2, RepliesAssumption DEF Once
<1>7. WaitingFits' BY <1>1, <1>2, <1>3 DEF WaitingFits, Waiting, Untouched
<1>8. DispatcherFits' BY <1>1, <1>3 DEF DispatcherFits, Untouched
<1>9. ReceiptsAreTrue' BY <1>1, RepliesAssumption DEF ReceiptsAreTrue
<1>10. NothingSlipsAway' BY <1>1, <1>2, <1>4, RepliesAssumption DEF NothingSlipsAway
<1> QED BY <1>5, <1>6, <1>7, <1>8, <1>9, <1>10

\* The reply leaves the lane, or the observer hears of it.
LEMMA ReplyEnds ==
  ASSUME OutInv, Settle \/ Observes
  PROVE  OutInv'
<1> USE DEF OutInv
<1> DEFINE m == dispatcher.msg
<1>1. UNCHANGED <<queue, sender, stopped, app, shown, excused>> BY DEF Settle, Observes
<1>2. m \in Messages /\ m \notin ToSet(queue)
  BY DEF Settle, Observes, At, Once, RepliesTyped, Known
<1>3. /\ dispatcher' \in [at : AtSteps, msg : Known, sent : BOOLEAN]
      /\ counted' \subseteq Messages
      /\ \A n \in Messages : n # m => receipt'[n] = receipt[n] /\ observed'[n] = observed[n]
      /\ receipt' \in [Messages -> Promises] /\ observed' \in [Messages -> {"none", "true", "false"}]
      /\ \/ /\ dispatcher.at = "settle" /\ dispatcher'.at = "observe" /\ dispatcher'.msg = m
            /\ dispatcher'.sent = dispatcher.sent /\ counted' = counted \ {m} /\ observed' = observed
            /\ \/ receipt[m] # "pending" /\ receipt'[m] = receipt[m]
               \/ receipt[m] = "pending" /\ receipt'[m] = IF dispatcher.sent THEN "true" ELSE "false"
         \/ /\ dispatcher.at = "observe" /\ dispatcher'.at = "get" /\ dispatcher'.msg = Nothing
            /\ counted' = counted /\ receipt' = receipt
            /\ observed'[m] = IF dispatcher.sent THEN "true" ELSE "false"
  BY <1>2, RepliesAssumption DEF RepliesTyped, Settle, Observes, At, Goto, Resolve, Off, AtSteps, Known, Promises
<1> HIDE DEF m
<1>4. RepliesTyped' BY <1>1, <1>3 DEF RepliesTyped
<1>5. Once'
  <2>1. Nothing \notin ToSet(queue) BY RepliesAssumption, MembersOf DEF RepliesTyped
  <2> QED BY <1>1, <1>2, <1>3, <2>1, RepliesAssumption DEF Once, m
<1>6. WaitingFits'
  <2>1. \A n \in Messages : Waiting(n) => n # m BY DEF WaitingFits, m
  <2>2. \A n \in Messages : Waiting(n)' <=> Waiting(n) BY <1>1 DEF Waiting
  <2>3. \A n \in Messages : n # m => (Untouched(n)' <=> Untouched(n)) BY <1>1, <1>3 DEF Untouched
  <2>4. dispatcher'.msg \in {m, Nothing} /\ m = dispatcher.msg BY <1>3 DEF m
  <2> QED BY <1>1, <2>1, <2>2, <2>3, <2>4, RepliesAssumption DEF WaitingFits
<1>7. DispatcherFits' BY <1>1, <1>2, <1>3, RepliesAssumption DEF DispatcherFits, m
<1>8. ReceiptsAreTrue'
  <2>1. m \in Awaited => m \notin excused BY <1>2 DEF ReceiptsAreTrue
  <2> QED BY <1>1, <1>2, <1>3, <2>1, RepliesAssumption DEF ReceiptsAreTrue, DispatcherFits, m
<1>9. NothingSlipsAway'
  <2>1. ASSUME app = "up" PROVE counted' = ToSet(queue) \cup
             (IF dispatcher'.at \in {"get", "off", "observe"} THEN {} ELSE {dispatcher'.msg})
    BY <1>2, <1>3, <2>1 DEF NothingSlipsAway, m
  <2>2. ASSUME app = "up", NEW n \in Messages, sender[n] \in {"waiting", "sent", "answered"}
        PROVE n \in ToSet(queue) \/ n = dispatcher'.msg \/ observed'[n] # "none"
    <3>1. n = m \/ n \in ToSet(queue) \/ observed[n] # "none" BY <2>2 DEF NothingSlipsAway, m
    <3> QED BY <1>2, <1>3, <3>1
  <2> QED BY <1>1, <2>1, <2>2 DEF NothingSlipsAway
<1> QED BY <1>4, <1>5, <1>6, <1>7, <1>8, <1>9

\* The end of the dispatcher answers what it has in hand.
LEMMA DispatcherEnds ==
  ASSUME OutInv, ObserverRaises \/ DispatcherCancelled
  PROVE  OutInv'
<1> USE DEF OutInv
<1> DEFINE m == dispatcher.msg
<1>1. /\ UNCHANGED <<queue, sender, shown, excused, observed>> /\ stopped' = TRUE
      /\ dispatcher'.at = "done" /\ dispatcher'.msg = Nothing
      /\ app' # "up" /\ app' \in {"failing", app} /\ counted' \subseteq counted
      /\ \/ dispatcher.at = "observe" \/ app' = "cancelling"
  BY DEF ObserverRaises, DispatcherCancelled, Ends, Off, At
<1>2. /\ dispatcher' \in [at : AtSteps, msg : Known, sent : BOOLEAN]
      /\ receipt' \in [Messages -> Promises]
      /\ \A n \in Messages : receipt'[n] = receipt[n] \/ (n = m /\ receipt[n] = "pending" /\ receipt'[n] = "false")
  BY DEF RepliesTyped, ObserverRaises, DispatcherCancelled, Ends, Off, Resolve, Promises, AtSteps, Known
<1>3. m = Nothing \/ m \in Messages BY DEF RepliesTyped, Known
<1> HIDE DEF m
<1>4. RepliesTyped' BY <1>1, <1>2 DEF RepliesTyped
<1>5. Once'
  <2>1. Nothing \notin ToSet(queue) BY RepliesAssumption, MembersOf DEF RepliesTyped
  <2> QED BY <1>1, <2>1 DEF Once
<1>6. WaitingFits'
  <2>1. \A n \in Messages : Waiting(n) => n # m BY DEF WaitingFits, m
  <2> QED BY <1>1, <1>2, <2>1, RepliesAssumption DEF WaitingFits, Waiting, Untouched
<1>7. DispatcherFits' BY <1>1 DEF DispatcherFits
<1>8. ReceiptsAreTrue'
  <2>1. ASSUME NEW n \in Awaited, receipt'[n] # receipt[n]
        PROVE receipt'[n] = "false" /\ (n \in shown => app' \notin {"up", "failing"})
    <3>1. n \in Messages /\ n = m /\ receipt[n] = "pending" /\ receipt'[n] = "false"
      BY <1>2, <2>1, RepliesAssumption
    <3>2. dispatcher.at # "observe" BY <3>1 DEF DispatcherFits, m
    <3> QED BY <1>1, <3>1, <3>2
  <2>2. app' \in {"up", "failing"} => app \in {"up", "failing"}
    BY <1>1 DEF ObserverRaises, DispatcherCancelled
  <2>3. \A n \in Awaited : receipt'[n] = "true" => n \in shown BY <2>1 DEF ReceiptsAreTrue
  <2>4. \A n \in Awaited : receipt'[n] = "false" /\ n \in shown => app' \notin {"up", "failing"}
    BY <2>1, <2>2 DEF ReceiptsAreTrue
  <2> QED BY <1>1, <2>3, <2>4 DEF ReceiptsAreTrue
<1>9. NothingSlipsAway' BY <1>1 DEF NothingSlipsAway
<1> QED BY <1>4, <1>5, <1>6, <1>7, <1>8, <1>9

\* What the shutdown does to the application and the queue.
LEMMA ClosingKeeps ==
  ASSUME OutInv, Shutdown \/ Cancelled \/ Drain \/ Drained
  PROVE  OutInv'
<1> USE DEF OutInv
<1>1. /\ UNCHANGED <<sender, dispatcher, stopped, shown, excused, observed>>
      /\ app' \in {"cancelling", "draining", "closed"} /\ counted' \subseteq counted
  BY DEF Shutdown, Cancelled, Drain, Drained
<1>2. /\ queue' \in Seq(Messages) /\ \A i, j \in 1..Len(queue') : queue'[i] = queue'[j] => i = j
      /\ ToSet(queue') \subseteq ToSet(queue)
      /\ receipt' \in [Messages -> Promises]
      /\ \A n \in Messages : \/ receipt'[n] = receipt[n]
                             \/ /\ receipt[n] = "pending" /\ receipt'[n] = "false" /\ n \notin ToSet(queue')
                                /\ n \in ToSet(queue) /\ Drain
  <2>1. CASE Drain
    <3>1. /\ Tail(queue) \in Seq(Messages) /\ Head(queue) \in Messages /\ Head(queue) \in ToSet(queue)
          /\ \A i, j \in 1..Len(Tail(queue)) : Tail(queue)[i] = Tail(queue)[j] => i = j
          /\ ToSet(Tail(queue)) = ToSet(queue) \ {Head(queue)}
      BY <2>1, Shortened DEF RepliesTyped, Once, Drain
    <3>2. queue' = Tail(queue) BY <2>1 DEF Drain
    <3>3. /\ receipt' \in [Messages -> Promises]
          /\ \A n \in Messages :
               receipt'[n] = receipt[n]
                 \/ (n = Head(queue) /\ receipt[n] = "pending" /\ receipt'[n] = "false")
      BY <2>1, <3>1 DEF Drain, Resolve, RepliesTyped, Promises
    <3> QED BY <2>1, <3>1, <3>2, <3>3
  <2>2. CASE Shutdown \/ Cancelled \/ Drained BY <2>2 DEF Shutdown, Cancelled, Drained, RepliesTyped, Once
  <2> QED BY <2>1, <2>2
<1>3. RepliesTyped' BY <1>1, <1>2 DEF RepliesTyped
<1>4. Once' BY <1>1, <1>2 DEF Once
<1>5. WaitingFits'
  BY <1>1, <1>2 DEF WaitingFits, Waiting, Untouched
<1>6. DispatcherFits' 
  <2>1. \A n \in Messages : n = dispatcher.msg => receipt'[n] = receipt[n]
    BY <1>2 DEF Once
  <2>2. dispatcher.msg = Nothing \/ dispatcher.msg \in Messages BY DEF RepliesTyped, Known
  <2> QED BY <1>1, <2>1, <2>2 DEF DispatcherFits, Untouched, Once
<1>7. ReceiptsAreTrue' BY <1>1, <1>2, RepliesAssumption DEF ReceiptsAreTrue
<1>8. NothingSlipsAway' BY <1>1 DEF NothingSlipsAway
<1> QED BY <1>3, <1>4, <1>5, <1>6, <1>7, <1>8

\* Every step.
LEMMA RepliesKeep == OutInv /\ [OutNext]_outVars => OutInv'
<1> SUFFICES ASSUME OutInv, [OutNext]_outVars PROVE OutInv' OBVIOUS
<1>1. CASE \E m \in Messages : Publish(m) \/ Answered(m) \/ SenderCancelled(m) BY <1>1, PublishersKeep
<1>2. CASE \E m \in Messages : Enqueued(m) BY <1>2, EnqueuedKeeps
<1>3. CASE Starts \/ Enters \/ Sends \/ Raises \/ Excuses BY <1>3, DispatcherKeeps
<1>4. CASE Take BY <1>4, TakeKeeps
<1>5. CASE Settle \/ Observes BY <1>5, ReplyEnds
<1>6. CASE ObserverRaises \/ DispatcherCancelled BY <1>6, DispatcherEnds
<1>7. CASE Shutdown \/ Cancelled \/ Drain \/ Drained BY <1>7, ClosingKeeps
<1>8. CASE UNCHANGED outVars
  BY <1>8 DEF outVars, OutInv, RepliesTyped, Once, WaitingFits, Waiting, Untouched, DispatcherFits, ReceiptsAreTrue,
              NothingSlipsAway
<1> QED BY <1>1, <1>2, <1>3, <1>4, <1>5, <1>6, <1>7, <1>8 DEF OutNext, Dispatch, Closing

\* What is owed for each reply is known in every reachable state, for any replies
\* (bus/queue.py).
THEOREM RepliesInvariant == ControlSpec => []OutInv
<1>1. ControlInit => OutInv BY RepliesBegin DEF ControlInit
<1>2. OutInv /\ [ControlNext]_controlVars => OutInv'
  <2>1. [ControlNext]_controlVars => [OutNext]_outVars BY DEF ControlNext, controlVars
  <2> QED BY <2>1, RepliesKeep
<1> QED BY <1>1, <1>2, PTL DEF ControlSpec

\* For any replies and failures: a receipt says what became of the reply, a reply whose
\* sender will try again is not excused, and while the application is up every reply holds its
\* place in the lane until it was sent and the observer heard of it (bus/queue.py:741, 803).
THEOREM RepliesStayAccounted == ControlSpec => []RepliesAreAccounted
<1>1. OutInv => RepliesAreAccounted
  BY DEF OutInv, RepliesTyped, Stations, Promises, RepliesAreAccounted, OutTypeOK
<1> QED BY <1>1, RepliesInvariant, PTL
=============================================================================
