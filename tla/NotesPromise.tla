---------------------------- MODULE NotesPromise ----------------------------
(***************************************************************************)
(* What the notes tools promise the user who asked for a note: a note that *)
(* was reported unsaved is never written, one that was reported saved is   *)
(* there, no note is written twice, and where neither is known the answer  *)
(* is "unknown", which only the discovery of the note may improve.         *)
(* NotesBridge implements it.                                              *)
(***************************************************************************)
EXTENDS Naturals

CONSTANT Ops

VARIABLES told,     \* what the tool answered last for the operation
          written   \* how often Apple Notes has been changed by it

vars == <<told, written>>

Init == told = [o \in Ops |-> "nothing"] /\ written = [o \in Ops |-> 0]

Write(o) ==
  /\ written[o] = 0
  /\ written' = [written EXCEPT ![o] = 1]
  /\ told[o] \in {"nothing", "unknown"} /\ UNCHANGED told

\* What may be answered next about the operation.
Answers(o) ==
  CASE told[o] = "nothing" -> IF written[o] = 0 THEN {"unsaved", "unknown"} ELSE {"saved", "unknown"}
    [] told[o] = "unknown" /\ written[o] = 1 -> {"saved"}
    [] OTHER -> {}

Tell(o) ==
  /\ told'[o] \in Answers(o)
  /\ told' = [told EXCEPT ![o] = told'[o]]
  /\ UNCHANGED written

Next == \E o \in Ops : Write(o) \/ Tell(o)

Spec == Init /\ [][Next]_vars
=============================================================================
