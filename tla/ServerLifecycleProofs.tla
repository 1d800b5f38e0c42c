------------------------ MODULE ServerLifecycleProofs ------------------------
(***************************************************************************)
(* At most one process of a server works with the hardware, for any number *)
(* of processes, ports and uses of the script.                             *)
(***************************************************************************)
EXTENDS ServerLifecycle, TLAPS

\* A process that is past its binds holds every port, one that is gone holds none.
PortsHeld ==
  \A p \in Procs :
    /\ stage[p] = "none" => bound[p] = 0
    /\ stage[p] = "bind" => bound[p] < NPorts
    /\ stage[p] \in {"init", "serve"} => bound[p] = NPorts

\* The ports are bound in one order, so who holds the first keeps all others out.
OneHolder == \A p, q \in Procs : p # q => bound[p] = 0 \/ bound[q] = 0

LifeInv == LifeTypeOK /\ PortsHeld /\ OneHolder

-----------------------------------------------------------------------------
(* What a process takes with it when it ends, whatever ended it             *)
(* (pacman_server.sh:9, pacman_cmdserver.cc:48).                            *)
LEMMA EndsPreserves ==
  ASSUME LifeInv, NEW p \in Procs, Ends(p)
  PROVE  /\ stage' \in [Procs -> {"none", "bind", "init", "serve"}]
         /\ bound' \in [Procs -> 0 .. NPorts]
         /\ signalled' \subseteq Procs
         /\ PortsHeld' /\ OneHolder'
  BY LifecycleAssumption DEF LifeInv, LifeTypeOK, PortsHeld, OneHolder, Ends

(* A port that is bound by nobody is bound: the process was the only one to *)
(* hold any (pacman_cmdserver.cc:45-53).                                    *)
LEMMA BindPreserves ==
  ASSUME LifeInv, NEW p \in Procs, Bind(p)
  PROVE  LifeInv'
<1>1. bound[p] < NPorts /\ bound[p] \in Nat /\ bound[p] + 1 \in 0 .. NPorts
  BY LifecycleAssumption DEF LifeInv, LifeTypeOK, PortsHeld, Bind
<1>2. LifeTypeOK'
  BY <1>1 DEF LifeInv, LifeTypeOK, Bind
<1>3. PortsHeld'
  <2> SUFFICES ASSUME NEW q \in Procs
               PROVE  /\ stage'[q] = "none" => bound'[q] = 0
                      /\ stage'[q] = "bind" => bound'[q] < NPorts
                      /\ stage'[q] \in {"init", "serve"} => bound'[q] = NPorts
    BY DEF PortsHeld
  <2>1. CASE q = p
    BY <2>1, <1>1, LifecycleAssumption DEF LifeInv, LifeTypeOK, Bind
  <2>2. CASE q # p
    BY <2>2 DEF LifeInv, LifeTypeOK, PortsHeld, Bind
  <2> QED BY <2>1, <2>2
<1>4. \A q \in Procs \ {p} : bound[q] = 0
  <2> SUFFICES ASSUME NEW q \in Procs, q # p  PROVE bound[q] = 0
    OBVIOUS
  <2>1. CASE bound[p] = 0
    <3>1. ~ (bound[q] >= 1)
      BY <2>1 DEF Bind, BindSucceeds, Holders
    <3> QED BY <3>1, LifecycleAssumption DEF LifeInv, LifeTypeOK
  <2>2. CASE bound[p] # 0
    BY <2>2 DEF LifeInv, OneHolder
  <2> QED BY <2>1, <2>2
<1>5. OneHolder'
  BY <1>4 DEF OneHolder, LifeInv, LifeTypeOK, Bind
<1> QED BY <1>2, <1>3, <1>5 DEF LifeInv

(* Each step of the script, of a starting server or of a signal keeps the   *)
(* invariant.                                                               *)
LEMMA LifeStep == LifeInv /\ [LifeNext]_lifeVars => LifeInv'
<1> SUFFICES ASSUME LifeInv, [LifeNext]_lifeVars PROVE LifeInv'
  OBVIOUS
<1> USE LifecycleAssumption
<1>1. CASE Start
  BY <1>1 DEF Start, LifeInv, LifeTypeOK, PortsHeld, OneHolder
<1>2. CASE Stop \/ Restart
  <2>1. PICK next \in {"none", "launch"} : KillAll(next)
    BY <1>2 DEF Stop, Restart
  <2>2. signalled' \subseteq Procs
    BY <2>1 DEF KillAll, Alive
  <2>3. ops' \in 0 .. MAX_OPS
    BY <2>1 DEF KillAll, LifeInv, LifeTypeOK
  <2>4. stage' = stage /\ bound' = bound
    BY <2>1 DEF KillAll
  <2>5. script' \in {"none", "launch"} /\ wanted' \in BOOLEAN /\ raced' = raced
    BY <2>1 DEF KillAll
  <2> QED BY <2>2, <2>3, <2>4, <2>5 DEF LifeInv, LifeTypeOK, PortsHeld, OneHolder
<1>3. CASE LaunchServer
  <2>1. PICK p \in Procs \ Alive : stage' = [stage EXCEPT ![p] = "bind"]
    BY <1>3 DEF LaunchServer
  <2>2. bound[p] = 0 /\ bound' = bound
    BY <1>3, <2>1 DEF LaunchServer, Alive, LifeInv, PortsHeld
  <2>3. LifeTypeOK' /\ OneHolder'
    BY <1>3, <2>1, <2>2 DEF LaunchServer, LifeInv, LifeTypeOK, OneHolder
  <2>4. PortsHeld'
    BY <2>1, <2>2 DEF LifeInv, LifeTypeOK, PortsHeld
  <2> QED BY <2>3, <2>4 DEF LifeInv
<1>4. ASSUME NEW p \in Procs, Bind(p) PROVE LifeInv'
  BY <1>4, BindPreserves
<1>5. ASSUME NEW p \in Procs, BindFails(p) PROVE LifeInv'
  <2>1. Ends(p) /\ UNCHANGED <<script, wanted, ops>> /\ raced' \in BOOLEAN
    BY <1>5 DEF BindFails, LifeInv, LifeTypeOK
  <2> QED BY <2>1, EndsPreserves DEF LifeInv, LifeTypeOK
<1>6. ASSUME NEW p \in Procs, InitHardware(p) PROVE LifeInv'
  BY <1>6 DEF InitHardware, LifeInv, LifeTypeOK, PortsHeld, OneHolder
<1>7. ASSUME NEW p \in Procs, Exit(p) PROVE LifeInv'
  <2>1. Ends(p) /\ UNCHANGED <<script, wanted, raced, ops>>
    BY <1>7 DEF Exit
  <2> QED BY <2>1, EndsPreserves DEF LifeInv, LifeTypeOK
<1>8. CASE UNCHANGED lifeVars
  BY <1>8 DEF lifeVars, LifeInv, LifeTypeOK, PortsHeld, OneHolder
<1> QED
  BY <1>1, <1>2, <1>3, <1>4, <1>5, <1>6, <1>7, <1>8
  DEF LifeNext, ScriptStep, StartUp

(* Two processes past their binds would both hold the first port.           *)
LEMMA OneHolderExcludes == LifeInv => ExclusiveHardware
<1> SUFFICES ASSUME LifeInv, NEW p \in Working, NEW q \in Working, p # q
             PROVE  FALSE
  BY DEF ExclusiveHardware
<1>1. p \in Procs /\ q \in Procs /\ bound[p] = NPorts /\ bound[q] = NPorts
  BY DEF Working, LifeInv, PortsHeld
<1> QED BY <1>1, LifecycleAssumption DEF LifeInv, OneHolder

-----------------------------------------------------------------------------
(* The invariant holds in every state of every behaviour: the types are     *)
(* right, and no two processes hold ports of the server                     *)
(* (pacman_server.sh:2-36, pacman_cmdserver.cc:45-61).                      *)
THEOREM LifeInvariant == LifeSpec => []LifeInv
<1>1. LifeInit => LifeInv
  <2> SUFFICES ASSUME LifeInit PROVE LifeInv
    OBVIOUS
  <2>1. signalled \subseteq Procs /\ script \in {"none", "launch"}
    BY DEF LifeInit
  <2>2. wanted \in BOOLEAN /\ raced \in BOOLEAN
    BY DEF LifeInit
  <2>3. bound \in [Procs -> 0 .. NPorts] /\ ops \in 0 .. MAX_OPS
    BY LifecycleAssumption DEF LifeInit
  <2>4. stage \in [Procs -> {"none", "bind", "init", "serve"}]
    BY DEF LifeInit
  <2>5. PortsHeld /\ OneHolder
    BY DEF LifeInit, PortsHeld, OneHolder
  <2> QED BY <2>1, <2>2, <2>3, <2>4, <2>5 DEF LifeInv, LifeTypeOK
<1>2. LifeInv /\ [LifeNext]_lifeVars => LifeInv'
  BY LifeStep
<1> QED BY <1>1, <1>2, PTL DEF LifeSpec

(* However start, stop and restart follow one another, and however slowly   *)
(* processes end, at most one process works with the hardware               *)
(* (pacman_cmdserver.cc:45-61, pacman_dataserver.cc:51-61).                 *)
THEOREM HardwareExclusive == LifeSpec => []ExclusiveHardware
  BY LifeInvariant, OneHolderExcludes, PTL
=============================================================================
