-------------------------- MODULE SupervisionProofs --------------------------
(***************************************************************************)
(* Proofs about Supervision, for every set of processes and updates and    *)
(* every number of faults, starts and commands.                            *)
(***************************************************************************)
EXTENDS Supervision, TLAPS

\* An update is a goroutine of the main process that holds the singleton.
UpdatesHaveAProcess == \A u \in Updates : update[u] # "none" => Up # {}

IInv == TypeOK /\ OnlyInstallerLeavesNobody /\ UpdatesHaveAProcess

\* Ending processes keeps the types and leaves alive exactly the others.
LEMMA EndKeeps ==
  ASSUME TypeOK, NEW ps, EndProcesses(ps)
  PROVE  /\ main' \in [Mains -> {"none", "starting", "killing"} \cup Holding]
         /\ victims' \in [Mains -> SUBSET (Mains \cup Dogs)]
         /\ \A m \in Mains : m \notin victims'[m]
         /\ dog' \in [Dogs -> {"none", "starting"} \cup Active]
         /\ child' \in [Dogs -> Mains \cup {NoMain}]
         /\ Alive' = Alive \ ps
<1>1. main' \in [Mains -> {"none", "starting", "killing"} \cup Holding]
  BY DEF TypeOK, EndProcesses
<1>2. victims' \in [Mains -> SUBSET (Mains \cup Dogs)] /\ \A m \in Mains : m \notin victims'[m]
  BY DEF TypeOK, EndProcesses
<1>3. dog' \in [Dogs -> {"none", "starting"} \cup Active]
  BY DEF TypeOK, EndProcesses
<1>4. child' \in [Dogs -> Mains \cup {NoMain}]
  BY DEF TypeOK, EndProcesses
<1>5. Alive' = Alive \ ps
  BY ProcessAssumption DEF TypeOK, EndProcesses, Alive
<1>6. QED BY <1>1, <1>2, <1>3, <1>4, <1>5

\* End does the same, and forgets updates or keeps them.
LEMMA EndUpdates ==
  ASSUME TypeOK, NEW ps, End(ps)
  PROVE  /\ EndProcesses(ps)
         /\ update' \in [Updates -> {"none", "started", "cleaned", "downloading"}]
BY DEF TypeOK, End

LEMMA InitTypes == Init => TypeOK
<1> SUFFICES ASSUME Init PROVE TypeOK
  OBVIOUS
<1>1. /\ main \in [Mains -> {"none", "starting", "killing"} \cup Holding]
      /\ dog \in [Dogs -> {"none", "starting"} \cup Active]
  BY DEF Init
<1>2. /\ victims \in [Mains -> SUBSET (Mains \cup Dogs)]
      /\ \A m \in Mains : m \notin victims[m]
      /\ child \in [Dogs -> Mains \cup {NoMain}]
      /\ update \in [Updates -> {"none", "started", "cleaned", "downloading"}]
  BY DEF Init
<1>3. 0 \in 0 .. MaxFaults /\ 0 \in 0 .. MaxStarts /\ 0 \in 0 .. MaxUpdates
  BY NumberAssumption
<1>4. QED BY <1>1, <1>2, <1>3 DEF Init, TypeOK

LEMMA MainTypes ==
  ASSUME TypeOK, NEW m \in Mains, MainWorks(m) \/ UserStarts(m)
  PROVE  TypeOK'
<1>1. CASE List(m)
  BY <1>1, ProcessAssumption DEF List, TypeOK, Alive, disk, updating
<1>2. CASE KillNext(m) \/ (Claim(m) /\ Up # {}) \/ ClaimCollides(m)
  <2>1. PICK ps : End(ps)
    BY <1>2 DEF KillNext, Claim, ClaimCollides
  <2>2. UNCHANGED <<disk, file, installer, commands, faults, starts>>
    BY <1>2 DEF KillNext, Claim, ClaimCollides
  <2>3. QED BY <2>1, <2>2, EndKeeps, EndUpdates DEF TypeOK, disk
<1>3. CASE Claim(m) /\ Up = {}
  BY <1>3 DEF Claim, TypeOK, Holding, disk
<1>4. CASE CheckWatchdog(m)
  <2>1. dog' \in [Dogs -> {"none", "starting"} \cup Active]
    BY <1>4 DEF CheckWatchdog, StartDog, TypeOK
  <2>2. main' \in [Mains -> {"none", "starting", "killing"} \cup Holding]
    BY <1>4 DEF CheckWatchdog, TypeOK, Holding
  <2>3. QED BY <1>4, <2>1, <2>2 DEF CheckWatchdog, TypeOK, updating
<1>5. CASE UserStarts(m)
  <2>1. starts' \in 0 .. MaxStarts
    BY <1>5, NumberAssumption DEF UserStarts, TypeOK
  <2>2. QED BY <1>5, <2>1 DEF UserStarts, StartMain, TypeOK, disk
<1>6. CASE SkipNext(m)
  BY <1>6 DEF SkipNext, TypeOK, disk, updating
<1>7. QED BY <1>1, <1>2, <1>3, <1>4, <1>5, <1>6 DEF MainWorks

LEMMA DogTypes ==
  ASSUME TypeOK, NEW w \in Dogs, DogWorks(w)
  PROVE  TypeOK'
<1>1. CASE DogClaims(w)
  BY <1>1 DEF DogClaims, TypeOK, Active, updating
<1>2. CASE Recover(w)
  <2>1. faults' \in 0 .. MaxFaults
    BY <1>2, NumberAssumption DEF Recover, TypeOK
  <2>2. exe' \in {"old", "new", "broken", "none"}
    BY <1>2 DEF Recover
  <2>3. QED BY <1>2, <2>1, <2>2 DEF Recover, TypeOK, processes, updating
<1>3. CASE Look(w) \/ SpawnFails(w) \/ MonitorEnds(w)
  BY <1>3 DEF Look, SpawnFails, MonitorEnds, TypeOK, Active, disk, updating
<1>4. CASE Spawn(w)
  <2>1. PICK n \in Mains : StartMain(n) /\ child' = [child EXCEPT ![w] = n]
    BY <1>4 DEF Spawn
  <2>2. QED BY <1>4, <2>1 DEF Spawn, StartMain, TypeOK, Active, disk, updating
<1>5. QED BY <1>1, <1>2, <1>3, <1>4 DEF DogWorks

LEMMA UpdateTypes ==
  ASSUME TypeOK, NEW u \in Updates, UpdateWorks(u) \/ UpdateStarts(u) \/ DownloadFails(u)
  PROVE  TypeOK'
<1>1. CASE UpdateStarts(u)
  <2>1. PICK m \in Up : EndProcesses(Alive \ {m})
    BY <1>1 DEF UpdateStarts
  <2>2. commands' \in 0 .. MaxUpdates
    BY <1>1, NumberAssumption DEF UpdateStarts, TypeOK
  <2>3. QED BY <1>1, <2>1, <2>2, EndKeeps DEF UpdateStarts, TypeOK, disk
<1>2. CASE UpdateCleans(u) \/ UpdateDownloads(u)
  <2>1. file' \in {"none", "whole"} \cup Updates
    BY <1>2 DEF UpdateCleans, UpdateDownloads, FileWithout, TypeOK
  <2>2. QED BY <1>2, <2>1 DEF UpdateCleans, UpdateDownloads, TypeOK, processes, disk
<1>3. CASE DownloadFails(u)
  <2>1. faults' \in 0 .. MaxFaults
    BY <1>3, NumberAssumption DEF DownloadFails, TypeOK
  <2>2. file' \in {"none", "whole"} \cup Updates
    BY <1>3 DEF DownloadFails, FileWithout, TypeOK
  <2>3. QED BY <1>3, <2>1, <2>2 DEF DownloadFails, TypeOK, processes, disk
<1>4. CASE DownloadEnds(u)
  <2>1. End(Up) /\ UNCHANGED <<disk, commands, faults, starts>>
    BY <1>4 DEF DownloadEnds
  <2>2. file' \in {"none", "whole"} \cup Updates /\ installer' = "started"
    BY <1>4 DEF DownloadEnds, TypeOK
  <2>3. QED BY <2>1, <2>2, EndKeeps, EndUpdates DEF TypeOK, disk
<1>5. QED BY <1>1, <1>2, <1>3, <1>4 DEF UpdateWorks

LEMMA InstallerTypes ==
  ASSUME TypeOK, Installs
  PROVE  TypeOK'
<1>1. CASE InstallerKills
  <2>1. End(Alive) /\ UNCHANGED <<disk, file, commands, faults, starts>>
    BY <1>1 DEF InstallerKills
  <2>2. installer' \in {"killed", "verified"}
    BY <1>1 DEF InstallerKills
  <2>3. QED BY <2>1, <2>2, EndKeeps, EndUpdates DEF TypeOK, disk
<1>2. CASE InstallerDeletes
  BY <1>2 DEF InstallerDeletes, TypeOK, processes
<1>3. CASE InstallerCopies
  <2>1. file' \in {"none", "whole"} \cup Updates
    BY <1>3 DEF InstallerCopies, FileWithout, TypeOK
  <2>2. exe' \in {"old", "new", "broken", "none"}
    BY <1>3 DEF InstallerCopies, TypeOK
  <2>3. QED BY <1>3, <2>1, <2>2 DEF InstallerCopies, TypeOK, processes
<1>4. CASE InstallerCleans
  <2>1. exe' \in {"old", "new", "broken", "none"}
    BY <1>4 DEF InstallerCleans, TypeOK
  <2>2. QED BY <1>4, <2>1 DEF InstallerCleans, TypeOK, processes
<1>5. QED BY <1>1, <1>2, <1>3, <1>4 DEF Installs

LEMMA FaultTypes ==
  ASSUME TypeOK,
         Heartbeat \/ Reboot \/ LoseBinary \/ \E p \in Mains \cup Dogs : Crash(p)
  PROVE  TypeOK'
<1>1. CASE Heartbeat
  BY <1>1 DEF Heartbeat, TypeOK, processes, updating
<1>2. CASE Reboot
  <2>1. faults' \in 0 .. MaxFaults
    BY <1>2, NumberAssumption DEF Reboot, TypeOK
  <2>2. QED BY <1>2, <2>1 DEF Reboot, TypeOK, disk
<1>3. CASE LoseBinary
  <2>1. faults' \in 0 .. MaxFaults
    BY <1>3, NumberAssumption DEF LoseBinary, TypeOK
  <2>2. QED BY <1>3, <2>1 DEF LoseBinary, TypeOK, processes, updating
<1>4. CASE \E p \in Mains \cup Dogs : Crash(p)
  <2>1. PICK p \in Mains \cup Dogs : Crash(p)
    BY <1>4
  <2>2. faults' \in 0 .. MaxFaults
    BY <2>1, NumberAssumption DEF Crash, TypeOK
  <2>3. End({p}) /\ UNCHANGED <<disk, file, installer, commands, starts>>
    BY <2>1 DEF Crash
  <2>4. QED BY <2>2, <2>3, EndKeeps, EndUpdates DEF TypeOK, disk
<1>5. QED BY <1>1, <1>2, <1>3, <1>4

LEMMA NextTypes == TypeOK /\ [Next]_vars => TypeOK'
<1>1. ASSUME TypeOK, Next PROVE TypeOK'
  BY <1>1, MainTypes, DogTypes, UpdateTypes, InstallerTypes, FaultTypes DEF Next
<1>2. ASSUME TypeOK, UNCHANGED vars PROVE TypeOK'
  BY <1>2 DEF TypeOK, vars, processes, disk, updating
<1>3. QED BY <1>1, <1>2

\* The processes, files and the update always have the values the code gives
\* them, and cleanupStaleInstances never lists the process that runs it.
THEOREM TypeCorrect == Spec => []TypeOK
BY InitTypes, NextTypes, PTL DEF Spec

-----------------------------------------------------------------------------
(* Somebody is left.                                                         *)

SafeInv == OnlyInstallerLeavesNobody /\ UpdatesHaveAProcess

\* A step that leaves somebody, or the same processes, under the same installer
\* and starts no update keeps the first part.
LEMMA SomebodyStep ==
  ASSUME IInv,
         \/ Alive' # {}
         \/ Alive' = Alive /\ UNCHANGED <<installer, faults>>
  PROVE  OnlyInstallerLeavesNobody'
BY DEF IInv, OnlyInstallerLeavesNobody

\* After a fault nothing is claimed.
LEMMA FaultyStep ==
  ASSUME TypeOK, faults' = faults + 1
  PROVE  OnlyInstallerLeavesNobody'
<1>1. faults' # 0
  BY NumberAssumption DEF TypeOK
<1>2. QED BY <1>1 DEF OnlyInstallerLeavesNobody

\* The updates end with the process that they belong to.
LEMMA EndKeepsUpdates ==
  ASSUME IInv, NEW ps, End(ps)
  PROVE  UpdatesHaveAProcess'
<1> SUFFICES ASSUME NEW u \in Updates, update'[u] # "none" PROVE Up' # {}
  BY DEF UpdatesHaveAProcess
<1>1. PICK n \in Up : n \notin ps
  BY DEF End
<1>2. main'[n] = main[n]
  BY <1>1 DEF End, EndProcesses, Up
<1>3. QED BY <1>1, <1>2 DEF Up

\* A step in which nobody gives up the singleton and no update starts.
LEMMA UpStep ==
  ASSUME IInv, UNCHANGED update,
         \A n \in Mains : main[n] \in Holding => main'[n] \in Holding
  PROVE  UpdatesHaveAProcess'
<1> SUFFICES ASSUME NEW u \in Updates, update[u] # "none" PROVE Up' # {}
  BY DEF UpdatesHaveAProcess
<1>1. PICK n \in Up : TRUE
  BY DEF IInv, UpdatesHaveAProcess
<1>2. QED BY <1>1 DEF Up

\* A process that starts is alive, and the others are what they were.
LEMMA Starts ==
  ASSUME TypeOK
  PROVE  /\ \A m \in Mains : StartMain(m) =>
              Alive' # {} /\ \A n \in Mains : main[n] \in Holding => main'[n] \in Holding
         /\ \A w \in Dogs : StartDog(w) => Alive' # {}
<1>1. ASSUME NEW m \in Mains, StartMain(m) PROVE m \in Alive'
  BY <1>1 DEF StartMain, Alive, TypeOK
<1>2. ASSUME NEW w \in Dogs, StartDog(w) PROVE w \in Alive'
  BY <1>2 DEF StartDog, Alive, TypeOK
<1>3. ASSUME NEW m \in Mains, StartMain(m), NEW n \in Mains, main[n] \in Holding
      PROVE  main'[n] \in Holding
  BY <1>3 DEF StartMain, Free, Holding, TypeOK
<1>4. QED BY <1>1, <1>2, <1>3

LEMMA MainSafe ==
  ASSUME IInv, NEW m \in Mains, MainWorks(m) \/ UserStarts(m)
  PROVE  SafeInv'
<1> USE DEF IInv
<1>1. ASSUME MainWorks(m) PROVE m \in Alive
  BY <1>1 DEF MainWorks, List, KillNext, SkipNext, Claim, ClaimCollides, CheckWatchdog, Up, Holding, Alive
<1>2. CASE List(m)
  <2>1. Alive' # {}
    BY <1>2 DEF List, Alive, TypeOK
  <2>2. \A n \in Mains : main[n] \in Holding => main'[n] \in Holding
    BY <1>2 DEF List, Holding, TypeOK
  <2>3. QED BY <1>2, <2>1, <2>2, SomebodyStep, UpStep DEF List, updating, SafeInv
<1>3. CASE KillNext(m)
  <2>1. PICK p \in victims[m] : End({p})
    BY <1>3 DEF KillNext
  <2>2. m # p /\ Alive' = Alive \ {p}
    BY <2>1, EndKeeps, EndUpdates DEF TypeOK
  <2>3. m \in Alive'
    BY <1>1, <1>3, <2>2 DEF MainWorks
  <2>4. QED BY <2>1, <2>3, SomebodyStep, EndKeepsUpdates DEF SafeInv
<1>4. CASE SkipNext(m)
  <2>1. UNCHANGED <<main, dog, update>> /\ Alive' # {}
    BY <1>1, <1>4 DEF MainWorks, SkipNext, updating, Alive
  <2>2. QED BY <2>1, SomebodyStep, UpStep DEF SafeInv
<1>5. CASE Claim(m) /\ Up = {}
  <2>1. Alive' # {}
    BY <1>5 DEF Claim, Alive, TypeOK
  <2>2. \A n \in Mains : main[n] \in Holding => main'[n] \in Holding
    BY <1>5 DEF Claim, Up
  <2>3. QED BY <1>5, <2>1, <2>2, SomebodyStep, UpStep DEF Claim, SafeInv
<1>6. CASE Claim(m) /\ Up # {}
  <2>1. PICK n \in Up : n # m
    BY <1>6 DEF Claim, Up, Holding
  <2>2. End({m}) /\ n \in Alive'
    BY <1>6, <2>1, EndKeeps, EndUpdates DEF Claim, Up, Holding, Alive
  <2>3. QED BY <2>2, SomebodyStep, EndKeepsUpdates DEF SafeInv
<1>7. CASE ClaimCollides(m)
  <2>1. PICK w \in Dogs : dog[w] = "checking"
    BY <1>7 DEF ClaimCollides
  <2>2. End({m}) /\ w \in Alive'
    BY <1>7, <2>1, EndKeeps, EndUpdates, ProcessAssumption DEF ClaimCollides, Alive
  <2>3. QED BY <2>2, SomebodyStep, EndKeepsUpdates DEF SafeInv
<1>8. CASE CheckWatchdog(m)
  <2>1. Alive' # {}
    BY <1>8 DEF CheckWatchdog, Alive, TypeOK
  <2>2. \A n \in Mains : main[n] \in Holding => main'[n] \in Holding
    BY <1>8 DEF CheckWatchdog, Holding, TypeOK
  <2>3. QED BY <1>8, <2>1, <2>2, SomebodyStep, UpStep DEF CheckWatchdog, updating, SafeInv
<1>9. CASE UserStarts(m)
  BY <1>9, Starts, SomebodyStep, UpStep DEF UserStarts, SafeInv
<1>10. QED BY <1>2, <1>3, <1>4, <1>5, <1>6, <1>7, <1>8, <1>9 DEF MainWorks

LEMMA DogSafe ==
  ASSUME IInv, NEW w \in Dogs, DogWorks(w)
  PROVE  SafeInv'
<1> USE DEF IInv
<1>1. w \in Alive
  BY DEF DogWorks, DogClaims, Recover, Look, Spawn, SpawnFails, MonitorEnds, Alive
<1>2. UNCHANGED update /\ \A n \in Mains : main[n] \in Holding => main'[n] \in Holding
  <2>1. CASE Spawn(w)
    BY <2>1, Starts DEF Spawn, updating
  <2>2. CASE ~Spawn(w)
    BY <2>2 DEF DogWorks, DogClaims, Recover, Look, SpawnFails, MonitorEnds, processes, updating
  <2>3. QED BY <2>1, <2>2
<1>3. Alive' # {}
  <2>1. CASE DogClaims(w)
    <3>1. Guards = {} => w \in Alive'
      BY <2>1 DEF DogClaims, Alive, TypeOK
    <3>2. \A v \in Guards : v # w /\ v \in Alive'
      BY <2>1 DEF DogClaims, Guards, Active, Alive, TypeOK
    <3>3. QED BY <3>1, <3>2
  <2>2. CASE Recover(w)
    BY <1>1, <2>2 DEF Recover, processes, Alive
  <2>3. CASE Look(w) \/ SpawnFails(w) \/ MonitorEnds(w)
    BY <2>3 DEF Look, SpawnFails, MonitorEnds, Alive, TypeOK
  <2>4. CASE Spawn(w)
    BY <2>4, Starts DEF Spawn
  <2>5. QED BY <2>1, <2>2, <2>3, <2>4 DEF DogWorks
<1>4. QED BY <1>2, <1>3, SomebodyStep, UpStep DEF SafeInv

LEMMA UpdateSafe ==
  ASSUME IInv, NEW u \in Updates, UpdateWorks(u) \/ UpdateStarts(u) \/ DownloadFails(u)
  PROVE  SafeInv'
<1> USE DEF IInv
<1>1. CASE UpdateStarts(u)
  <2>1. PICK m \in Up : EndProcesses(Alive \ {m})
    BY <1>1 DEF UpdateStarts
  <2>2. m \in Alive' /\ m \in Up'
    BY <2>1, EndKeeps DEF Up, Holding, Alive, EndProcesses, TypeOK
  <2>3. QED BY <2>2, SomebodyStep DEF SafeInv, UpdatesHaveAProcess
<1>2. CASE UpdateCleans(u) \/ UpdateDownloads(u) \/ DownloadFails(u)
  <2>1. UNCHANGED <<main, dog>> /\ update[u] # "none"
    BY <1>2 DEF UpdateCleans, UpdateDownloads, DownloadFails, processes
  <2>2. PICK n \in Up : TRUE
    BY <2>1 DEF UpdatesHaveAProcess
  <2>3. n \in Up' /\ n \in Alive'
    BY <2>1, <2>2 DEF Up, Holding, Alive
  <2>4. QED BY <2>3, SomebodyStep DEF SafeInv, UpdatesHaveAProcess
<1>3. CASE DownloadEnds(u)
  <2>1. End(Up) /\ installer' = "started"
    BY <1>3 DEF DownloadEnds
  <2>2. QED BY <2>1, EndKeepsUpdates DEF SafeInv, OnlyInstallerLeavesNobody
<1>4. QED BY <1>1, <1>2, <1>3 DEF UpdateWorks

LEMMA InstallerSafe ==
  ASSUME IInv, Installs
  PROVE  SafeInv'
<1> USE DEF IInv
<1>1. CASE InstallerKills
  <2>1. End(Alive) /\ installer' \in {"killed", "verified"}
    BY <1>1 DEF InstallerKills
  <2>2. QED BY <2>1, EndKeepsUpdates DEF SafeInv, OnlyInstallerLeavesNobody
<1>2. CASE InstallerDeletes \/ InstallerCopies \/ InstallerCleans
  <2>1. UNCHANGED <<main, dog, update>>
    BY <1>2 DEF InstallerDeletes, InstallerCopies, InstallerCleans, processes
  <2>2. Alive' = Alive
    BY <2>1 DEF Alive
  <2>3. Alive # {} \/ installer' # "none"
    BY <1>2 DEF InstallerDeletes, InstallerCopies, InstallerCleans
  <2>4. QED BY <2>1, <2>2, <2>3, UpStep DEF SafeInv, OnlyInstallerLeavesNobody
<1>3. QED BY <1>1, <1>2 DEF Installs

LEMMA FaultSafe ==
  ASSUME IInv,
         Heartbeat \/ Reboot \/ LoseBinary \/ \E p \in Mains \cup Dogs : Crash(p)
  PROVE  SafeInv'
<1> USE DEF IInv
<1>1. CASE Heartbeat
  <2>1. Alive' = Alive
    BY <1>1 DEF Heartbeat, processes, Alive
  <2>2. QED BY <1>1, <2>1, SomebodyStep, UpStep DEF Heartbeat, processes, updating, SafeInv
<1>2. CASE Reboot
  <2>1. UpdatesHaveAProcess'
    BY <1>2 DEF Reboot, UpdatesHaveAProcess
  <2>2. QED BY <1>2, <2>1, FaultyStep DEF Reboot, SafeInv
<1>3. CASE LoseBinary
  BY <1>3, FaultyStep, UpStep DEF LoseBinary, processes, updating, SafeInv
<1>4. CASE \E p \in Mains \cup Dogs : Crash(p)
  BY <1>4, FaultyStep, EndKeepsUpdates DEF Crash, SafeInv
<1>5. QED BY <1>1, <1>2, <1>3, <1>4

LEMMA InitSafe == Init => SafeInv
<1> SUFFICES ASSUME Init PROVE SafeInv
  OBVIOUS
<1>1. \A S : S # {} => (CHOOSE p \in S : TRUE) \in S
  OBVIOUS
<1>2. Alive # {}
  BY <1>1, ProcessAssumption DEF Init, Alive
<1>3. QED BY <1>2 DEF Init, SafeInv, OnlyInstallerLeavesNobody, UpdatesHaveAProcess

LEMMA IInvIsInductive == IInv /\ [Next]_vars => IInv'
<1>1. IInv /\ [Next]_vars => TypeOK'
  BY NextTypes DEF IInv
<1>2. ASSUME IInv, Next PROVE SafeInv'
  BY <1>2, MainSafe, DogSafe, UpdateSafe, InstallerSafe, FaultSafe DEF Next
<1>3. ASSUME IInv, UNCHANGED vars PROVE SafeInv'
  <2>1. Alive' = Alive
    BY <1>3 DEF vars, processes, Alive
  <2>2. QED BY <1>3, <2>1, SomebodyStep, UpStep DEF vars, processes, updating, SafeInv
<1>4. QED BY <1>1, <1>2, <1>3 DEF IInv, SafeInv

LEMMA IInvHolds == Spec => []IInv
<1>1. Init => IInv
  BY InitTypes, InitSafe DEF IInv, SafeInv
<1>2. QED BY <1>1, IInvIsInductive, PTL DEF Spec

\* cleanupStaleInstances, the singleton, the watchdog, the user and any number of
\* updates that clean up behind each other: without a fault a host loses its last
\* process only to an installer, while this runs or after it has stopped.
THEOREM OnlyInstallerLeavesNobodyCorrect == Spec => []OnlyInstallerLeavesNobody
<1>1. IInv => OnlyInstallerLeavesNobody
  BY DEF IInv
<1>2. QED BY <1>1, IInvHolds, PTL
=============================================================================
