------------------------------ MODULE Supervision ------------------------------
(***************************************************************************)
(* The processes of one Windows host: the main process (main), which kills *)
(* all others before it claims the singleton and then keeps a watchdog     *)
(* running; the watchdog (runWatchdog), which starts a main process        *)
(* whenever none holds the singleton; and the update (selfUpdate), whose   *)
(* installer kills everything and replaces the binary, and then deletes    *)
(* itself before the steps that would start a watchdog.                    *)
(*                                                                         *)
(* The singletons are mutexes of the operating system, which are released  *)
(* when their process ends, and a binary that runs cannot be replaced.     *)
(***************************************************************************)
EXTENDS Naturals, FiniteSets

CONSTANTS
  Mains, Dogs,    \* identifiers of main and watchdog processes
  NoMain,
  Updates,        \* identifiers of update goroutines
  MaxFaults,      \* bound on crashes, reboots, failed downloads, lost binaries
  MaxStarts,      \* bound on main processes that the user starts
  MaxUpdates      \* bound on update commands

ASSUME ProcessAssumption ==
  Mains # {} /\ Dogs # {} /\ Mains \cap Dogs = {} /\ NoMain \notin Mains \cup Dogs
ASSUME NumberAssumption  == {MaxFaults, MaxStarts, MaxUpdates} \subseteq Nat
ASSUME UpdateAssumption  == {"none", "whole"} \cap Updates = {}

VARIABLES
  main,         \* main[m]: where a main process is
  victims,      \* victims[m]: the processes on m's list that it still has to kill
  dog,          \* dog[w]: where a watchdog is
  child,        \* child[w]: the main process that w started and waits for
  fresh,        \* is watchdog.heartbeat less than 30 seconds old?
  autostart,    \* is the watchdog started at logon?
  exe,          \* PunMonitor.exe: "old", "new", "broken" or "none"
  update,       \* update[u]: where an update goroutine is
  file,         \* PunMonitor.exe.new: "none", "whole", or who truncated it last
  installer,    \* where the installer's script is; "ended" when it left nobody
  faults, starts, commands

processes == <<main, victims, dog, child>>
disk      == <<fresh, autostart, exe>>
updating  == <<update, file, installer, commands>>
vars      == <<processes, disk, updating, faults, starts>>

Holding == {"claimed", "up"}              \* of the main singleton
Active  == {"checking", "spawning", "waiting", "watching"}

Up       == {m \in Mains : main[m] \in Holding}
Guards   == {w \in Dogs : dog[w] \in Active}
Alive    == {m \in Mains : main[m] # "none"} \cup {w \in Dogs : dog[w] # "none"}
Runnable == exe \in {"old", "new"}

Starting(p) ==
  \/ p \in Mains /\ main[p] \in {"starting", "killing"}
  \/ p \in Dogs /\ dog[p] = "starting"

Init ==
  /\ LET m == CHOOSE p \in Mains : TRUE
         w == CHOOSE p \in Dogs : TRUE IN
     \/ /\ main = [n \in Mains |-> IF n = m THEN "starting" ELSE "none"]
        /\ dog = [v \in Dogs |-> "none"]
     \/ /\ dog = [v \in Dogs |-> IF v = w THEN "starting" ELSE "none"]
        /\ main = [n \in Mains |-> "none"]
  /\ victims = [m \in Mains |-> {}]
  /\ child = [w \in Dogs |-> NoMain]
  /\ fresh = FALSE
  /\ autostart \in BOOLEAN
  /\ exe = "old"
  /\ update = [u \in Updates |-> "none"]
  /\ file = "none"
  /\ installer = "none"
  /\ faults = 0 /\ starts = 0 /\ commands = 0

\* The processes ps end.
EndProcesses(ps) ==
  /\ main' = [m \in Mains |-> IF m \in ps THEN "none" ELSE main[m]]
  /\ dog' = [w \in Dogs |-> IF w \in ps THEN "none" ELSE dog[w]]
  /\ victims' = [m \in Mains |-> IF m \in ps THEN {} ELSE victims[m] \ ps]
  /\ child' = [w \in Dogs |-> IF {w, child[w]} \cap ps # {} THEN NoMain ELSE child[w]]

\* Update goroutines end with the main process that holds the singleton.
End(ps) ==
  /\ EndProcesses(ps)
  /\ update' = [u \in Updates |-> IF Up \subseteq ps THEN "none" ELSE update[u]]

\* The system chooses the identifier of a new process, any that is free.
Free(m, ps, state) == state[m] = "none" /\ m = CHOOSE p \in ps : state[p] = "none"

StartMain(m) ==
  /\ Runnable
  /\ Free(m, Mains, main)
  /\ main' = [main EXCEPT ![m] = "starting"]

StartDog(w) ==
  /\ Runnable
  /\ Free(w, Dogs, dog)
  /\ dog' = [dog EXCEPT ![w] = "starting"]

-----------------------------------------------------------------------------
(* The main process.                                                         *)

\* Variant: the process does not skip itself.
ListAll(m) ==
  /\ main[m] = "starting"
  /\ main' = [main EXCEPT ![m] = "killing"]
  /\ victims' = [victims EXCEPT ![m] = Alive]
  /\ UNCHANGED <<dog, child, disk, updating, faults, starts>>

\* cleanupStaleInstances lists the processes named PunMonitor; a list that fails
\* is empty.
List(m) ==
  /\ main[m] = "starting"
  /\ main' = [main EXCEPT ![m] = "killing"]
  /\ \E found \in {Alive \ {m}, {}} : victims' = [victims EXCEPT ![m] = found]
  /\ UNCHANGED <<dog, child, disk, updating, faults, starts>>

\* It kills them one after the other ...
KillNext(m) ==
  /\ main[m] = "killing"
  /\ \E p \in victims[m] : End({p})
  /\ UNCHANGED <<disk, file, installer, commands, faults, starts>>

\* ... and skips the one whose taskkill takes more than five seconds.
SkipNext(m) ==
  /\ main[m] = "killing"
  /\ \E p \in victims[m] : victims' = [victims EXCEPT ![m] = @ \ {p}]
  /\ UNCHANGED <<main, dog, child, disk, updating, faults, starts>>

\* It claims the singleton or, when another one was faster, exits.
Claim(m) ==
  /\ main[m] = "killing"
  /\ victims[m] = {}
  /\ IF Up = {}
     THEN /\ main' = [main EXCEPT ![m] = "claimed"]
          /\ UNCHANGED <<victims, dog, child, update>>
     ELSE End({m})
  /\ UNCHANGED <<disk, file, installer, commands, faults, starts>>

\* Variant: only the first check starts a watchdog.
CheckWatchdogOnce(m) ==
  /\ main[m] = "claimed"
  /\ main' = [main EXCEPT ![m] = "up"]
  /\ IF fresh \/ ~Runnable THEN UNCHANGED dog ELSE \E w \in Dogs : StartDog(w)
  /\ autostart' = (autostart \/ main[m] = "claimed")
  /\ UNCHANGED <<victims, child, fresh, exe, updating, faults, starts>>

\* main installs the autostart, and monitorWatchdogProcess checks at once and then
\* every 10 seconds, by when a watchdog that it started has claimed its singleton.
CheckWatchdog(m) ==
  /\ m \in Up
  /\ main[m] = "up" => \A w \in Dogs : dog[w] # "starting"
  /\ main' = [main EXCEPT ![m] = "up"]
  /\ IF fresh \/ ~Runnable THEN UNCHANGED dog ELSE \E w \in Dogs : StartDog(w)
  /\ autostart' = (autostart \/ main[m] = "claimed")
  /\ UNCHANGED <<victims, child, fresh, exe, updating, faults, starts>>

\* The look of a watchdog creates the singleton for a moment, in which a main
\* process believes that another one holds it.
ClaimCollides(m) ==
  /\ main[m] = "killing"
  /\ victims[m] = {}
  /\ \E w \in Dogs : dog[w] = "checking"
  /\ End({m})
  /\ UNCHANGED <<disk, file, installer, commands, faults, starts>>

-----------------------------------------------------------------------------
(* The watchdog.                                                             *)

\* A second watchdog exits.
DogClaims(w) ==
  /\ dog[w] = "starting"
  /\ IF Guards = {}
     THEN /\ dog' = [dog EXCEPT ![w] = "checking"]
          /\ fresh' = TRUE
          /\ autostart' = TRUE
     ELSE /\ dog' = [dog EXCEPT ![w] = "none"]
          /\ UNCHANGED <<fresh, autostart>>
  /\ UNCHANGED <<main, victims, child, exe, updating, faults, starts>>

\* Written every 10 seconds, and stale after 30, in which processes that start
\* or clean up are done with it.
Heartbeat ==
  /\ fresh # (Guards # {})
  /\ Guards = {} => \A p \in Alive : ~Starting(p)
  /\ fresh' = (Guards # {})
  /\ UNCHANGED <<processes, autostart, exe, updating, faults, starts>>

\* A missing binary is downloaded; a download that breaks off counts as a success.
Recover(w) ==
  /\ dog[w] = "checking"
  /\ exe = "none"
  /\ \/ exe' = "new" /\ UNCHANGED faults
     \/ exe' = "broken" /\ faults < MaxFaults /\ faults' = faults + 1
  /\ UNCHANGED <<processes, fresh, autostart, updating, starts>>

Look(w) ==
  /\ dog[w] = "checking"
  /\ exe # "none"
  /\ dog' = [dog EXCEPT ![w] = IF Up = {} THEN "spawning" ELSE "watching"]
  /\ UNCHANGED <<main, victims, child, disk, updating, faults, starts>>

\* A pause of up to two minutes may lie between the look and the start.
Spawn(w) ==
  /\ dog[w] = "spawning"
  /\ dog' = [dog EXCEPT ![w] = "waiting"]
  /\ \E m \in Mains : StartMain(m) /\ child' = [child EXCEPT ![w] = m]
  /\ UNCHANGED <<victims, disk, updating, faults, starts>>

SpawnFails(w) ==
  /\ dog[w] = "spawning"
  /\ ~Runnable
  /\ dog' = [dog EXCEPT ![w] = "checking"]
  /\ UNCHANGED <<main, victims, child, disk, updating, faults, starts>>

\* Variant: the watchdog waits for its own child only.
MonitorEndsForParent(w) ==
  /\ dog[w] = "waiting"
  /\ child[w] = NoMain
  /\ dog' = [dog EXCEPT ![w] = "checking"]
  /\ UNCHANGED <<main, victims, child, disk, updating, faults, starts>>

MonitorEnds(w) ==
  /\ \/ dog[w] = "waiting" /\ child[w] = NoMain
     \/ dog[w] = "watching" /\ Up = {}
  /\ dog' = [dog EXCEPT ![w] = "checking"]
  /\ UNCHANGED <<main, victims, child, disk, updating, faults, starts>>

-----------------------------------------------------------------------------
(* The update.                                                               *)

\* Variant: the update does not spare its own process.
UpdateKillsAll(u) ==
  /\ update[u] = "none"
  /\ commands < MaxUpdates
  /\ commands' = commands + 1
  /\ \E m \in Up : main[m] = "up"
  /\ End(Alive)
  /\ UNCHANGED <<disk, file, installer, faults, starts>>

\* Step 1, "stopping watchdog": every other process of that name is killed.
UpdateStarts(u) ==
  /\ update[u] = "none"
  /\ commands < MaxUpdates
  /\ commands' = commands + 1
  /\ \E m \in Up : main[m] = "up" /\ EndProcesses(Alive \ {m})
  /\ update' = [update EXCEPT ![u] = "started"]
  /\ UNCHANGED <<disk, file, installer, faults, starts>>

\* A file that an update of us is writing cannot be removed.
FileWithout(us) == IF \E u \in us : update[u] = "downloading" THEN file ELSE "none"

\* Steps 2 and 3: the autostart and the heartbeat are removed, the script of an
\* installer that still runs, and the download of another update where the
\* binary is in one of the directories that are cleaned.
UpdateCleans(u) ==
  /\ update[u] = "started"
  /\ update' = [update EXCEPT ![u] = "cleaned"]
  /\ autostart' = FALSE
  /\ fresh' = FALSE
  /\ file' \in {file, FileWithout(Updates)}
  /\ installer' = "none"
  /\ UNCHANGED <<processes, exe, commands, faults, starts>>

\* Step 4: the file is truncated, also one that another update is writing.
UpdateDownloads(u) ==
  /\ update[u] = "cleaned"
  /\ update' = [update EXCEPT ![u] = "downloading"]
  /\ file' = u
  /\ UNCHANGED <<processes, disk, installer, commands, faults, starts>>

DownloadFails(u) ==
  /\ update[u] = "downloading"
  /\ faults < MaxFaults
  /\ faults' = faults + 1
  /\ update' = [update EXCEPT ![u] = "none"]
  /\ file' = FileWithout(Updates \ {u})
  /\ UNCHANGED <<processes, disk, installer, commands, starts>>

\* Step 5: the installer is started and the main process exits.
DownloadEnds(u) ==
  /\ update[u] = "downloading"
  /\ installer' = "started"
  /\ file' = IF file = u THEN "whole" ELSE file
  /\ End(Up)
  /\ UNCHANGED <<disk, commands, faults, starts>>

\* The script kills every process, and again after ten seconds.
InstallerKills ==
  /\ installer \in {"started", "killed"}
  /\ installer' = IF installer = "started" THEN "killed" ELSE "verified"
  /\ End(Alive)
  /\ UNCHANGED <<disk, file, commands, faults, starts>>

InstallerDeletes ==
  /\ installer = "verified"
  /\ installer' = "deleted"
  /\ exe' = IF Alive = {} THEN "none" ELSE exe
  /\ UNCHANGED <<processes, fresh, autostart, update, file, commands, faults, starts>>

InstallerCopies ==
  /\ installer = "deleted"
  /\ installer' = "copied"
  /\ exe' = CASE Alive # {} \/ file = "none" -> exe
              [] file = "whole"             -> "new"
              [] OTHER                      -> "broken"
  /\ file' = FileWithout(Updates)
  /\ UNCHANGED <<processes, fresh, autostart, update, commands, faults, starts>>

\* The binary goes too if it is in one of the directories that step 7 cleans, and
\* last the script itself, which stops here.
InstallerCleans ==
  /\ installer = "copied"
  /\ installer' = IF Alive = {} THEN "ended" ELSE "none"
  /\ exe' \in {exe} \cup {e \in {"none"} : Alive = {}}
  /\ UNCHANGED <<processes, fresh, autostart, update, file, commands, faults, starts>>

-----------------------------------------------------------------------------
(* Users and faults.                                                         *)

UserStarts(m) ==
  /\ starts < MaxStarts
  /\ starts' = starts + 1
  /\ StartMain(m)
  /\ installer' = IF installer = "ended" THEN "none" ELSE installer
  /\ UNCHANGED <<victims, dog, child, disk, update, file, commands, faults>>

Crash(p) ==
  /\ p \in Alive
  /\ faults < MaxFaults
  /\ faults' = faults + 1
  /\ End({p})
  /\ UNCHANGED <<disk, file, installer, commands, starts>>

\* The host goes down and the user logs on again.
Reboot ==
  /\ faults < MaxFaults
  /\ faults' = faults + 1
  /\ main' = [m \in Mains |-> "none"]
  /\ victims' = [m \in Mains |-> {}]
  /\ child' = [w \in Dogs |-> NoMain]
  /\ update' = [u \in Updates |-> "none"]
  /\ installer' = "none"
  /\ LET w == CHOOSE p \in Dogs : TRUE IN
     dog' = [v \in Dogs |-> IF v = w /\ autostart /\ Runnable THEN "starting" ELSE "none"]
  /\ UNCHANGED <<disk, file, commands, starts>>

\* The binary is removed, for instance by a virus scanner.
LoseBinary ==
  /\ exe # "none"
  /\ faults < MaxFaults
  /\ faults' = faults + 1
  /\ exe' = "none"
  /\ UNCHANGED <<processes, fresh, autostart, updating, starts>>

-----------------------------------------------------------------------------
MainWorks(m) ==
  List(m) \/ KillNext(m) \/ SkipNext(m) \/ Claim(m) \/ ClaimCollides(m) \/ CheckWatchdog(m)
DogWorks(w)  == DogClaims(w) \/ Recover(w) \/ Look(w) \/ Spawn(w) \/ SpawnFails(w) \/ MonitorEnds(w)
UpdateWorks(u) == UpdateCleans(u) \/ UpdateDownloads(u) \/ DownloadEnds(u)
Installs == InstallerKills \/ InstallerDeletes \/ InstallerCopies \/ InstallerCleans

Next ==
  \/ \E m \in Mains : MainWorks(m) \/ UserStarts(m)
  \/ \E w \in Dogs : DogWorks(w)
  \/ \E u \in Updates : UpdateWorks(u) \/ UpdateStarts(u) \/ DownloadFails(u)
  \/ Heartbeat \/ Installs \/ Reboot \/ LoseBinary
  \/ \E p \in Mains \cup Dogs : Crash(p)

Spec == Init /\ [][Next]_vars

\* The operating system runs every process; downloads end.
LiveSpec ==
  /\ Spec
  /\ \A m \in Mains : WF_vars(MainWorks(m))
  /\ \A w \in Dogs : WF_vars(DogWorks(w))
  /\ WF_vars(\E u \in Updates : UpdateWorks(u))
  /\ WF_vars(Heartbeat)
  /\ WF_vars(Installs)

-----------------------------------------------------------------------------
(* Properties.                                                               *)

TypeOK ==
  /\ main \in [Mains -> {"none", "starting", "killing"} \cup Holding]
  /\ victims \in [Mains -> SUBSET (Mains \cup Dogs)]
  /\ \A m \in Mains : m \notin victims[m]
  /\ dog \in [Dogs -> {"none", "starting"} \cup Active]
  /\ child \in [Dogs -> Mains \cup {NoMain}]
  /\ {fresh, autostart} \subseteq BOOLEAN
  /\ exe \in {"old", "new", "broken", "none"}
  /\ update \in [Updates -> {"none", "started", "cleaned", "downloading"}]
  /\ file \in {"none", "whole"} \cup Updates
  /\ installer \in {"none", "started", "killed", "verified", "deleted", "copied", "ended"}
  /\ faults \in 0 .. MaxFaults /\ starts \in 0 .. MaxStarts /\ commands \in 0 .. MaxUpdates

Nobody == Alive = {} /\ installer \in {"none", "ended"}

\* Main processes that kill each other and the watchdog, watchdogs that start
\* them, users who do, an update that cleans up behind another one: without a
\* fault only an installer that ran to its end leaves the host without a process.
OnlyInstallerLeavesNobody == faults = 0 => Alive # {} \/ installer # "none"

Guarded ==
  \E m \in Up, w \in Guards :
    Alive = {m, w} /\ (dog[w] = "watching" \/ (dog[w] = "waiting" /\ child[w] = m))

\* The killing and restarting comes to an end: when faults are over, either no
\* process is left or one main process under one watchdog; unless there is no
\* binary to start one from.
ComesToRest == <>[](Nobody \/ Guarded \/ ~Runnable)

\* A watchdog brings a main process back, also when the binary is lost, unless
\* all that is left of it is part of a download.
WatchdogRestarts ==
  Guards # {} ~> Up # {} \/ Nobody \/ exe = "broken"
=============================================================================
