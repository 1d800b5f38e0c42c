--------------------------- MODULE ServerLifecycle ---------------------------
(***************************************************************************)
(* pacman_server.sh and the start of a server: the script launches         *)
(* processes of the server and sends them SIGTERM without waiting for      *)
(* either to take effect; a process first binds its ports, one after the   *)
(* other, then initialises the hardware, then serves.  killall reaches     *)
(* every process of the name; one that was signalled goes on until the     *)
(* signal is delivered.                                                    *)
(*                                                                         *)
(* pacman_cmdserver binds its reply and its echo port, pacman_dataserver   *)
(* its only one.                                                           *)
(***************************************************************************)
EXTENDS Integers

CONSTANTS
  Procs,      \* processes of the server that may exist at a time
  NPorts,     \* ports it binds
  MAX_OPS     \* bound: commands given to the script

ASSUME LifecycleAssumption ==
  /\ NPorts \in Nat \ {0}
  /\ MAX_OPS \in Nat

VARIABLES
  stage,      \* of each process: "none" (there is none), "bind", "init" or "serve"
  bound,      \* ports each process has bound
  signalled,  \* processes that have been sent SIGTERM
  script,     \* what the script has still to do: "none" or "launch"
  wanted,     \* history: the last the script did was to launch a server
  raced,      \* history: a bind failed on the port of a signalled process
  ops

lifeVars == <<stage, bound, signalled, script, wanted, raced, ops>>

Alive == {p \in Procs : stage[p] # "none"}
Working == {p \in Procs : stage[p] \in {"init", "serve"}}
Serving == \E p \in Procs : stage[p] = "serve" /\ p \notin signalled

LifeTypeOK ==
  /\ stage \in [Procs -> {"none", "bind", "init", "serve"}]
  /\ bound \in [Procs -> 0 .. NPorts]
  /\ signalled \subseteq Procs
  /\ script \in {"none", "launch"}
  /\ wanted \in BOOLEAN /\ raced \in BOOLEAN
  /\ ops \in 0 .. MAX_OPS

\* The board boots, which runs the script with "start".
LifeInit ==
  /\ stage = [p \in Procs |-> "none"]
  /\ bound = [p \in Procs |-> 0]
  /\ signalled = {}
  /\ script = "launch"
  /\ wanted = FALSE /\ raced = FALSE
  /\ ops = 0

-----------------------------------------------------------------------------
(* The script. *)

Start ==
  /\ script = "none" /\ ops < MAX_OPS
  /\ script' = "launch"
  /\ ops' = ops + 1
  /\ UNCHANGED <<stage, bound, signalled, wanted, raced>>

\* killall, for "stop" and as the first half of "restart".
KillAll(next) ==
  /\ script = "none" /\ ops < MAX_OPS
  /\ signalled' = Alive
  /\ script' = next
  /\ wanted' = FALSE
  /\ ops' = ops + 1
  /\ UNCHANGED <<stage, bound, raced>>

Stop == KillAll("none")
Restart == KillAll("launch")

LaunchServer ==
  /\ script = "launch"
  /\ \E p \in Procs \ Alive : stage' = [stage EXCEPT ![p] = "bind"]
  /\ script' = "none"
  /\ wanted' = TRUE
  /\ UNCHANGED <<bound, signalled, raced, ops>>

-----------------------------------------------------------------------------
(* A process. *)

\* It is gone, and with it its hold on the ports.
Ends(p) ==
  /\ stage' = [stage EXCEPT ![p] = "none"]
  /\ bound' = [bound EXCEPT ![p] = 0]
  /\ signalled' = signalled \ {p}

Holders(port) == {q \in Procs : bound[q] >= port}

BindUnchecked(p) == TRUE        \* mutant: the result of zmq_bind is not looked at
BindSucceeds(p) == Holders(bound[p] + 1) = {}

Bind(p) ==
  /\ stage[p] = "bind"
  /\ BindSucceeds(p)
  /\ bound' = [bound EXCEPT ![p] = @ + 1]
  /\ stage' = [stage EXCEPT ![p] = IF bound'[p] = NPorts THEN "init" ELSE "bind"]
  /\ UNCHANGED <<signalled, script, wanted, raced, ops>>

\* "Perhaps pacman_cmdserver is already running?": it returns.
BindFails(p) ==
  /\ stage[p] = "bind"
  /\ ~ BindSucceeds(p)
  /\ Ends(p)
  /\ raced' = (raced \/ Holders(bound[p] + 1) \cap signalled # {})
  /\ UNCHANGED <<script, wanted, ops>>

\* The hardware is initialised, which nothing prevents in this version.
InitHardware(p) ==
  /\ stage[p] = "init"
  /\ stage' = [stage EXCEPT ![p] = "serve"]
  /\ UNCHANGED <<bound, signalled, script, wanted, raced, ops>>

\* The signal is delivered.
Exit(p) ==
  /\ p \in signalled
  /\ Ends(p)
  /\ UNCHANGED <<script, wanted, raced, ops>>

ScriptStep == Start \/ Stop \/ Restart \/ LaunchServer
StartUp(p) == Bind(p) \/ BindFails(p) \/ InitHardware(p)

LifeNext == ScriptStep \/ \E p \in Procs : StartUp(p) \/ Exit(p)
LifeSpec == LifeInit /\ [][LifeNext]_lifeVars

-----------------------------------------------------------------------------
(* At most one process at a time works with the hardware, however start,    *)
(* stop and restart follow one another and however slowly processes end:    *)
(* a second one would zero the ring the first transmits from                *)
(* (pacman_cmdserver.cc:45-61, pacman_dataserver.cc:51-61).                 *)
ExclusiveHardware == \A p, q \in Working : p = q
=============================================================================
