--------------------------- MODULE SettingsBridge ---------------------------
(***************************************************************************)
(* Changing the model settings of a running gateway                        *)
(* (bootstrap/settings_api.py, agent/supervisor.py, main.py).  The settings *)
(* thread publishes a configuration file and asks the supervisor, through a *)
(* numbered request, to have it loaded; the supervisor signals the gateway *)
(* and reads its answers, which carry no number, from the lifecycle pipe.  *)
(* If the gateway refuses, dies or is late, the thread restores the old    *)
(* file and asks once more.  The gateway may also leave for a committed    *)
(* restart, and on a first start there is no configuration at all.         *)
(***************************************************************************)
EXTENDS Naturals, Sequences

CONSTANTS Configs,          \* contents of the configuration file
          NoConfig,
          MaxRequests,      \* bound on generations handed out
          MaxBoots          \* bound on gateways started

VARIABLES file,       \* the published configuration, or NoConfig
          api,        \* the settings thread, under apply_lock
          bridge,     \* _SettingsRestartBridge: next, requested, event, completed
          sup,        \* the supervisor: its phase and the two generations it holds
          gateway,    \* the gateway process
          pipe,       \* lifecycle frames not yet read
          boots

vars == <<file, api, bridge, sup, gateway, pipe, boots>>

Idle == [pc |-> "idle"]
NoGateway == [state |-> "none", loaded |-> NoConfig, usr1 |-> FALSE, busy |-> NoConfig]

Init ==
  /\ file \in Configs \cup {NoConfig}
  /\ api = Idle
  /\ bridge = [next |-> 0, requested |-> 0, event |-> FALSE, completed |-> <<>>]
  /\ sup = [pc |-> "boot", generation |-> 0, report |-> 0]
  /\ gateway = NoGateway
  /\ pipe = <<>>
  /\ boots = 0
----------------------------------------------------------------------------
(* The settings thread *)

\* request_and_wait up to its wait.
Requested_Unrecorded(b) == [b EXCEPT !.next = @ + 1, !.requested = b.next + 1, !.event = TRUE]

Requested(b) == [b EXCEPT !.next = @ + 1, !.requested = b.next + 1, !.event = TRUE,
                          !.completed = Append(@, "none")]

Apply(c) ==
  /\ api = Idle /\ sup.pc # "exited"
  /\ bridge.next < MaxRequests /\ c # file
  /\ api' = [pc |-> "apply", before |-> file, generation |-> bridge.next + 1]
  /\ file' = c
  /\ bridge' = Requested(bridge)
  /\ UNCHANGED <<sup, gateway, pipe, boots>>

\* A refusal or a timeout: the file is restored, and if there was one before the
\* gateway is asked to load it again.
RollBack ==
  /\ file' = api.before
  /\ IF api.before = NoConfig
     THEN api' = Idle /\ UNCHANGED bridge
     ELSE /\ api' = [pc |-> "rollback", before |-> api.before, generation |-> bridge.next + 1]
          /\ bridge' = Requested(bridge)

Answer == bridge.completed[api.generation]

ApiAnswered ==
  /\ api # Idle /\ Answer # "none"
  /\ IF Answer = "refused" /\ api.pc = "apply" THEN RollBack
     ELSE api' = Idle /\ UNCHANGED <<file, bridge>>
  /\ UNCHANGED <<sup, gateway, pipe, boots>>

ApiTimeout ==
  /\ api # Idle /\ Answer = "none"
  /\ IF api.pc = "apply" THEN RollBack
     ELSE api' = Idle /\ UNCHANGED <<file, bridge>>
  /\ UNCHANGED <<sup, gateway, pipe, boots>>
----------------------------------------------------------------------------
(* The supervisor *)

Complete(b, generation, answer) ==
  IF generation = 0 THEN b ELSE [b EXCEPT !.completed[generation] = answer]
Taken(b) == [b EXCEPT !.event = FALSE]

\* Without a configuration the supervisor waits; the first request starts the
\* first gateway.
FindsNoConfig ==
  /\ sup.pc = "boot" /\ file = NoConfig /\ sup.report = 0
  /\ sup' = [sup EXCEPT !.pc = "await_first"]
  /\ UNCHANGED <<file, api, bridge, gateway, pipe, boots>>

AwaitFirstRequest ==
  /\ sup.pc = "await_first" /\ bridge.event
  /\ sup' = [sup EXCEPT !.pc = "boot", !.report = bridge.requested]
  /\ bridge' = Taken(bridge)
  /\ UNCHANGED <<file, api, gateway, pipe, boots>>

Spawn ==
  /\ sup.pc = "boot" /\ (file # NoConfig \/ sup.report # 0)
  /\ boots < MaxBoots /\ boots' = boots + 1
  /\ sup' = [sup EXCEPT !.pc = "starting", !.generation = 0]
  /\ gateway' = [NoGateway EXCEPT !.state = "starting"]
  /\ pipe' = <<>>
  /\ UNCHANGED <<file, api, bridge>>

\* Where the answers are in what was read.
Results(chunk) == {i \in DOMAIN chunk : chunk[i] # "ready"}
IsReady(chunk) == \E i \in DOMAIN chunk : chunk[i] = "ready"
Dies(s) == [s EXCEPT !.pc = "exited"]

\* One read of the pipe takes what is there.  An answer is credited to the
\* generation held; an answer without one, or two at once, is a protocol error
\* that stops the gateway and the supervisor.
ReadLifecycle ==
  /\ sup.pc \in {"starting", "ready"} /\ gateway.state # "dead"
  /\ pipe # <<>>
  /\ LET results == Results(pipe) IN
     IF results # {} /\ (sup.generation = 0 \/ \A i \in results : results # {i})
     THEN sup' = Dies(sup) /\ gateway' = NoGateway /\ UNCHANGED bridge
     ELSE /\ bridge' = IF results # {}
                       THEN Complete(bridge, sup.generation, pipe[CHOOSE i \in results : TRUE])
                       ELSE IF IsReady(pipe) THEN Complete(bridge, sup.report, "accepted")
                       ELSE bridge
          /\ sup' = [pc |-> "ready",
                     generation |-> IF results # {} THEN 0 ELSE sup.generation,
                     report |-> IF IsReady(pipe) THEN 0 ELSE sup.report]
          /\ UNCHANGED gateway
  /\ pipe' = <<>>
  /\ UNCHANGED <<file, api, boots>>

\* A request wakes the selector: its generation replaces the one held.
TakeRequest ==
  /\ sup.pc = "ready" /\ bridge.event
  /\ sup' = [sup EXCEPT !.generation = bridge.requested]
  /\ bridge' = Taken(bridge)
  /\ gateway' = IF gateway.state = "ready" THEN [gateway EXCEPT !.usr1 = TRUE] ELSE gateway
  /\ UNCHANGED <<file, api, pipe, boots>>

\* The gateway did not become ready in time.
BootTimeout ==
  /\ sup.pc = "starting"
  /\ bridge' = Complete(bridge, sup.report, "refused")
  /\ sup' = Dies(sup) /\ gateway' = NoGateway /\ pipe' = <<>>
  /\ UNCHANGED <<file, api, boots>>

\* The gateway is gone.  What it still wrote is read for its form only.  After a
\* committed restart the held generation is reported by the next gateway;
\* otherwise it is refused and the supervisor waits for the rollback to be asked.
Held == IF sup.generation # 0 THEN sup.generation ELSE sup.report
ChildGone(code) ==
  /\ sup.pc \in {"starting", "ready"} /\ gateway.state = "dead" /\ gateway.loaded = code
  /\ gateway' = NoGateway /\ pipe' = <<>>
  /\ UNCHANGED <<file, api, boots>>

Restarted ==
  /\ ChildGone("restart")
  /\ sup' = [pc |-> "boot", generation |-> 0, report |-> Held]
  /\ UNCHANGED bridge

Crashed ==
  /\ ChildGone("crash")
  /\ bridge' = Complete(bridge, Held, "refused")
  /\ sup' = [pc |-> IF Held = 0 THEN "exited" ELSE "await_rollback", generation |-> 0, report |-> 0]

\* wait_request after a crash: the rollback's request, or the deadline.
TakeRollback ==
  /\ sup.pc = "await_rollback"
  /\ \/ /\ bridge.event
        /\ sup' = [pc |-> "boot", generation |-> 0, report |-> bridge.requested]
        /\ bridge' = Taken(bridge)
     \/ /\ ~bridge.event
        /\ sup' = Dies(sup) /\ UNCHANGED bridge
  /\ UNCHANGED <<file, api, gateway, pipe, boots>>
----------------------------------------------------------------------------
(* The gateway *)

GatewayLoads ==
  /\ gateway.state = "starting" /\ gateway.loaded = NoConfig
  /\ IF file = NoConfig THEN gateway' = [gateway EXCEPT !.state = "dead", !.loaded = "crash"]
     ELSE gateway' = [gateway EXCEPT !.loaded = file]
  /\ UNCHANGED <<file, api, bridge, sup, pipe, boots>>

GatewayReady ==
  /\ gateway.state = "starting" /\ gateway.loaded # NoConfig
  /\ gateway' = [gateway EXCEPT !.state = "ready"]
  /\ pipe' = Append(pipe, "ready")
  /\ UNCHANGED <<file, api, bridge, sup, boots>>

\* apply_settings_reloads: clear the event and read the file; one that is not there is
\* refused at once.
GatewayReads ==
  /\ gateway.state = "ready" /\ gateway.usr1 /\ gateway.busy = NoConfig
  /\ gateway' = [gateway EXCEPT !.usr1 = FALSE, !.busy = file]
  /\ pipe' = IF file = NoConfig THEN Append(pipe, "refused") ELSE pipe
  /\ UNCHANGED <<file, api, bridge, sup, boots>>

\* Mutant: the event is cleared only now, and with it a request that came since.
GatewayReloads_ClearsEvent ==
  /\ gateway.state = "ready" /\ gateway.busy # NoConfig
  /\ gateway' = [gateway EXCEPT !.loaded = gateway.busy, !.busy = NoConfig, !.usr1 = FALSE]
  /\ pipe' = Append(pipe, "accepted")
  /\ UNCHANGED <<file, api, bridge, sup, boots>>

\* It loads what it read, or keeps the configuration there was, and answers.
GatewayReloads ==
  /\ gateway.state = "ready" /\ gateway.busy # NoConfig
  /\ \/ /\ gateway' = [gateway EXCEPT !.loaded = gateway.busy, !.busy = NoConfig]
        /\ pipe' = Append(pipe, "accepted")
     \/ /\ gateway' = [gateway EXCEPT !.busy = NoConfig]
        /\ pipe' = Append(pipe, "refused")
  /\ UNCHANGED <<file, api, bridge, sup, boots>>

\* The process ends by itself, or once ready for a committed restart.
GatewayEnds(code) ==
  /\ gateway.state \in {"starting", "ready"}
  /\ code = "restart" => gateway.state = "ready"
  /\ gateway' = [NoGateway EXCEPT !.state = "dead", !.loaded = code]
  /\ UNCHANGED <<file, api, bridge, sup, pipe, boots>>

Next ==
  \/ \E c \in Configs : Apply(c)
  \/ ApiAnswered \/ ApiTimeout
  \/ FindsNoConfig \/ AwaitFirstRequest \/ Spawn \/ ReadLifecycle \/ TakeRequest \/ BootTimeout
  \/ Restarted \/ Crashed \/ TakeRollback
  \/ GatewayLoads \/ GatewayReady \/ GatewayReads \/ GatewayReloads
  \/ GatewayEnds("crash") \/ GatewayEnds("restart")

Spec == Init /\ [][Next]_vars
----------------------------------------------------------------------------
TypeOK ==
  /\ file \in Configs \cup {NoConfig}
  /\ bridge.next \in 0..(MaxRequests + 1) /\ Len(bridge.completed) = bridge.next
  /\ sup.pc \in {"boot", "await_first", "starting", "ready", "await_rollback", "exited"}
  /\ {sup.generation, sup.report} \subseteq 0..bridge.next
  /\ boots \in 0..MaxBoots

Running == sup.pc = "ready" /\ gateway.state = "ready"

\* A request that is told its configuration was accepted is told the truth: the
\* gateway that runs has loaded the file as it stood when the request was made
\* (the waiting thread is the only writer of the file).
AnswerIsFresh ==
  api # Idle /\ Answer = "accepted" /\ Running => gateway.loaded = file

\* The same, as long as no earlier request was given up while its answer was due.
AnswerIsFreshUnlessLate ==
  (\A g \in 1..bridge.next : bridge.completed[g] = "none" => api # Idle /\ g = api.generation)
    => AnswerIsFresh

\* When nobody waits, nothing is under way and the last request was accepted, the
\* running gateway works with the configuration that is published, whatever was
\* refused, restored, restarted or lost before.
SettledMeansLoaded ==
  /\ Running /\ file # NoConfig /\ api = Idle /\ ~bridge.event /\ ~gateway.usr1
  /\ gateway.busy = NoConfig /\ pipe = <<>>
  /\ bridge.next > 0 => bridge.completed[bridge.next] = "accepted"
  => gateway.loaded = file
=============================================================================
