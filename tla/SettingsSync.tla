----------------------------- MODULE SettingsSync -----------------------------
(***************************************************************************)
(* The settings of every host (main.go): the global cfg, the file          *)
(* settings.json next to it, and the copy in the GitHub repository through *)
(* which the hosts configure one another.                                  *)
(*                                                                         *)
(* No lock protects cfg or the file.  saveSettings takes a snapshot of     *)
(* cfg, writes the file and pushes; pushCredsToGitHub takes a snapshot of  *)
(* its own, asks for the SHA of the stored copy and replaces that copy if  *)
(* the SHA is still current; syncFromGitHub reads the copy that the        *)
(* content delivery network holds, which may be old, and lets every        *)
(* setting in it that is not empty replace the local one.  Each of these   *)
(* steps is an action, so two goroutines of a host, and two hosts, may be  *)
(* anywhere in between.                                                    *)
(*                                                                         *)
(* A setting is one of the fields below: they stand for the five ways in   *)
(* which the code treats a setting.  A value is Empty, the built-in        *)
(* Default, or <<h, n>>: the n-th change of the settings, made at host h.  *)
(***************************************************************************)
EXTENDS Naturals, Sequences

CONSTANTS
    Host,       \* hosts that share the repository
    LastPusher, \* the host whose settings are in the repository at first
    Users,      \* the hosts at which settings are changed
    Restarting, \* the hosts that restart
    Form,       \* the sets of settings that users change together
    Syncing,    \* the goroutines that synchronise again and again
    Slow,       \* the rates of at most one frame per second
    Empty,      \* "" or zero
    Default,    \* the built-in frame rate and election interval
    MaxEdits,   \* bound: changes of the settings by users
    MaxFaults   \* bound: restarts and requests that fail

ASSUME BoundAssumption ==
    /\ MaxEdits \in Nat /\ MaxFaults \in Nat
    /\ Empty # Default
    /\ Empty \notin Host \X (0..MaxEdits)
    /\ Default \notin Host \X (0..MaxEdits)
    /\ Slow \subseteq Host \X (0..MaxEdits)

(* "url" stands for ServerURL, "fps" for MaxFPS, "schedule" for            *)
(* CaptureSchedule, "token" for GitHubToken, "interval" for                *)
(* ElectionInterval.                                                       *)
Field  == {"url", "fps", "schedule", "token", "interval"}
Thread == {"handler", "main"}   \* a request, and the main or sync goroutine
Task   == {"save", "push", "fetch", "serve"}
Phase  == Task \cup {"idle", "write", "get", "put", "apply"}

Value    == (Host \X (0..MaxEdits)) \cup {Empty, Default}
Settings == [Field -> Value]
Nothing  == [f \in Field |-> Empty]

ASSUME FormAssumption ==
    /\ LastPusher \in Host /\ Users \subseteq Host /\ Restarting \subseteq Host
    /\ Form \subseteq SUBSET Field
    /\ "main" \in Syncing /\ Syncing \subseteq Thread
    /\ Empty \notin Settings

VARIABLES
    cfg,     \* cfg[h]: the settings in the memory of h
    file,    \* file[h]: settings.json of h
    repo,    \* settings.json in the repository
    raw,     \* the copy that raw.githubusercontent.com delivers
    at,      \* at[h][t]: the phase goroutine t of h is in
    todo,    \* todo[h][t]: the tasks it has after this one
    snap,    \* snap[h][t]: the settings it is saving, pushing or pulling
    sha,     \* sha[h][t]: the content whose SHA it was told, or Empty
    edits,   \* changes of the settings so far
    faults   \* faults so far

vars == <<cfg, file, repo, raw, at, todo, snap, sha, edits, faults>>

(***************************************************************************)
(* What the code does with each field.                                     *)
(***************************************************************************)
Saved  == Field \ {"interval"}               \* SettingsFile of saveSettings
Loaded == {"fps", "schedule", "token"}       \* read back by loadSettings
Pushed == Field \ {"token"}                  \* SettingsForSync
Pulled == {"url", "fps", "interval"}         \* applied by syncFromGitHub
Secret == {"token"}

Only(s, F) == [f \in Field |-> IF f \in F THEN s[f] ELSE Empty]

(* What syncFromGitHub takes over of the copy r: what is not empty, and a  *)
(* rate only if it is above 1, although every rate above 0 can be entered. *)
Taken(r) ==
    {f \in Pulled : r[f] # Empty /\ (f = "fps" => r[f] \notin Slow)}

(* The settings s, overridden by those of r that are not empty.            *)
Override(s, r, F) ==
    [f \in Field |-> IF f \in F /\ r[f] # Empty THEN r[f] ELSE s[f]]

-----------------------------------------------------------------------------
(* What main assigns before it loads the file, or if nothing was loaded.   *)
BuiltIn == [Nothing EXCEPT !["fps"] = Default, !["interval"] = Default]

(* Every host was set up with a token, an address and perhaps a slow rate  *)
(* of its own; one of them was the last to push.                           *)
FirstSettings(h) ==
    [BuiltIn EXCEPT !["token"] = <<h, 0>>, !["url"] = <<h, 0>>,
                    !["fps"] = IF <<h, 0>> \in Slow THEN <<h, 0>> ELSE @]

(* What it pushed, or, if it ran an older version then, the whole file.    *)
FirstPush ==
    {Only(FirstSettings(LastPusher), F) : F \in {Pushed, Saved}}

Init ==
    /\ cfg  = [h \in Host |-> FirstSettings(h)]
    /\ file = [h \in Host |-> Only(FirstSettings(h), Saved)]
    /\ repo \in FirstPush
    /\ raw  = repo
    /\ at    = [h \in Host |-> [t \in Thread |-> "idle"]]
    /\ todo  = [h \in Host |-> [t \in Thread |-> <<>>]]
    /\ snap  = [h \in Host |-> [t \in Thread |-> Nothing]]
    /\ sha   = [h \in Host |-> [t \in Thread |-> Empty]]
    /\ edits = 0
    /\ faults = 0

(* A process that is starting serves no request yet.                       *)
Serving(h) ==
    /\ at[h]["main"] # "serve"
    /\ \A i \in DOMAIN todo[h]["main"] : todo[h]["main"][i] # "serve"

(* Goroutine t of h goes to phase p with the settings s.                   *)
Goto(h, t, p, s) ==
    /\ at'   = [at EXCEPT ![h][t] = p]
    /\ snap' = [snap EXCEPT ![h][t] = s]

(* It begins the first task of q, or has nothing left to do.               *)
Continue(h, t, q) ==
    IF q = <<>>
    THEN /\ Goto(h, t, "idle", Nothing)
         /\ todo' = [todo EXCEPT ![h][t] = <<>>]
    ELSE /\ Goto(h, t, Head(q), Nothing)
         /\ todo' = [todo EXCEPT ![h][t] = Tail(q)]

Fault == faults < MaxFaults /\ faults' = faults + 1
NoFault == UNCHANGED faults

-----------------------------------------------------------------------------
(* The user's changes.                                                     *)

(* A handler stores the settings F of a request; its todo is what it calls *)
(* then.                                                                   *)
Edit(h, new, q) ==
    /\ Serving(h)
    /\ at[h]["handler"] = "idle"
    /\ edits < MaxEdits
    /\ edits' = edits + 1
    /\ cfg' = [cfg EXCEPT ![h] = new]
    /\ Continue(h, "handler", q)
    /\ UNCHANGED <<file, repo, raw, sha, faults>>

Entered(h, F) == Only([f \in Field |-> <<h, edits + 1>>], F)

(* POST /api/settings: every setting of the form that is not empty, but    *)
(* the schedule always; it saves, which pushes, and then pushes again.     *)
PostSettings(h) ==
    \E F \in Form :
        LET form == Entered(h, F) IN
        Edit(h, [Override(cfg[h], form, Field)
                    EXCEPT !["schedule"] = form["schedule"]],
             <<"save", "push">>)

(* POST /api/setup and "migrate" store the address, set_fps the rate.      *)
Setup(h) ==
    \E F \in {G \cap {"url", "fps"} : G \in Form} \ {{}} :
        Edit(h, Override(cfg[h], Entered(h, F), Field), <<"save">>)

-----------------------------------------------------------------------------
(* saveSettings and pushCredsToGitHub.                                     *)

TakeSnapshot(h, t) ==
    /\ at[h][t] = "save"
    /\ Goto(h, t, "write", Only(cfg[h], Saved))
    /\ UNCHANGED <<cfg, file, repo, raw, todo, sha, edits, faults>>

(* pushCredsToGitHub takes its own snapshot; without a token it returns.   *)
PushOrGoOn(h, t) ==
    IF cfg[h]["token"] = Empty
    THEN Continue(h, t, todo[h][t])
    ELSE Goto(h, t, "get", Only(cfg[h], Pushed)) /\ UNCHANGED todo

(* os.WriteFile of the snapshot, and the push that follows; after a write  *)
(* that fails, and may leave the file torn, nothing is pushed.             *)
WriteFile(h, t) ==
    /\ at[h][t] = "write"
    /\ \/ /\ file' = [file EXCEPT ![h] = snap[h][t]]
          /\ PushOrGoOn(h, t)
          /\ NoFault
       \/ /\ \E torn \in BOOLEAN :
                file' = [file EXCEPT ![h] = IF torn THEN Nothing ELSE @]
          /\ Continue(h, t, todo[h][t])
          /\ Fault
    /\ UNCHANGED <<cfg, repo, raw, sha, edits>>

(* The push a handler adds.                                                *)
BeginPush(h, t) ==
    /\ at[h][t] = "push"
    /\ PushOrGoOn(h, t)
    /\ UNCHANGED <<cfg, file, repo, raw, sha, edits, faults>>

(* The GET for the SHA; when it fails the PUT goes out without one.        *)
GetSha(h, t) ==
    /\ at[h][t] = "get"
    /\ Goto(h, t, "put", snap[h][t])
    /\ \/ sha' = [sha EXCEPT ![h][t] = repo] /\ NoFault
       \/ sha' = [sha EXCEPT ![h][t] = Empty] /\ Fault
    /\ UNCHANGED <<cfg, file, repo, raw, todo, edits>>

(* Mutant: the request ends with its first push.                           *)
PutAndStop(h, t) ==
    /\ at[h][t] = "put"
    /\ \/ sha[h][t] = repo /\ repo' = snap[h][t]
       \/ sha[h][t] # repo /\ UNCHANGED repo
    /\ sha' = [sha EXCEPT ![h][t] = Empty]
    /\ Goto(h, t, "idle", Nothing)
    /\ UNCHANGED <<cfg, file, raw, todo, edits, faults>>

(* GitHub refuses a PUT without the SHA of what it holds, which is that of *)
(* the content; that is only logged, as is a PUT that fails on the way.    *)
Put(h, t) ==
    /\ at[h][t] = "put"
    /\ \/ sha[h][t] = repo /\ repo' = snap[h][t]
       \/ sha[h][t] # repo /\ UNCHANGED repo
    /\ sha' = [sha EXCEPT ![h][t] = Empty]
    /\ Continue(h, t, todo[h][t])
    /\ UNCHANGED <<cfg, file, raw, edits, faults>>

-----------------------------------------------------------------------------
(* syncFromGitHub.                                                         *)

(* The periodic goroutine of a server or an agent, or POST /api/sync,      *)
(* reads the copy; when that fails nothing changes.                        *)
StartSync(h, t) ==
    /\ t \in Syncing
    /\ Serving(h)
    /\ at[h][t] = "idle"
    /\ Goto(h, t, "apply", raw)
    /\ UNCHANGED <<cfg, file, repo, raw, todo, sha, edits, faults>>

(* The first synchronisation of a process; it goes on without.             *)
Fetch(h, t) ==
    /\ at[h][t] = "fetch"
    /\ \/ Goto(h, t, "apply", raw) /\ UNCHANGED todo /\ NoFault
       \/ Continue(h, t, todo[h][t]) /\ Fault
    /\ UNCHANGED <<cfg, file, repo, raw, sha, edits>>

(* Mutant: empty settings are taken over too.                              *)
ApplyBlank(h, t) ==
    /\ at[h][t] = "apply"
    /\ cfg' = [cfg EXCEPT ![h] = [f \in Field |->
                    IF f \in Pulled THEN snap[h][t][f] ELSE @[f]]]
    /\ Continue(h, t, <<"save">> \o todo[h][t])
    /\ UNCHANGED <<file, repo, raw, sha, edits, faults>>

(* Mutant: settings are saved only if something differs.                   *)
ApplyIfDifferent(h, t) ==
    LET new == Override(cfg[h], snap[h][t], Taken(snap[h][t])) IN
    /\ at[h][t] = "apply"
    /\ cfg' = [cfg EXCEPT ![h] = new]
    /\ IF new # cfg[h]
       THEN Continue(h, t, <<"save">> \o todo[h][t])
       ELSE Continue(h, t, todo[h][t])
    /\ UNCHANGED <<file, repo, raw, sha, edits, faults>>

(* Mutant: the token is taken over too.                                    *)
ApplyToken(h, t) ==
    /\ at[h][t] = "apply"
    /\ cfg' = [cfg EXCEPT ![h] =
                    Override(@, snap[h][t], Taken(snap[h][t]) \cup {"token"})]
    /\ Continue(h, t, <<"save">> \o todo[h][t])
    /\ UNCHANGED <<file, repo, raw, sha, edits, faults>>

(* Mutant: only settings that are empty here are taken over.               *)
ApplyMissing(h, t) ==
    /\ at[h][t] = "apply"
    /\ cfg' = [cfg EXCEPT ![h] =
                    Override(@, Override(snap[h][t], @, Pulled), Pulled)]
    /\ Continue(h, t, <<"save">> \o todo[h][t])
    /\ UNCHANGED <<file, repo, raw, sha, edits, faults>>

(* What is taken over is then saved and pushed, whether it differs from    *)
(* what was there or not.                                                  *)
Apply(h, t) ==
    LET remote == snap[h][t] IN
    /\ at[h][t] = "apply"
    /\ cfg' = [cfg EXCEPT ![h] = Override(@, remote, Taken(remote))]
    /\ IF Taken(remote) # {}
       THEN Continue(h, t, <<"save">> \o todo[h][t])
       ELSE Continue(h, t, todo[h][t])
    /\ UNCHANGED <<file, repo, raw, sha, edits, faults>>

(* The network catches up with the repository.                             *)
Deliver ==
    /\ raw # repo
    /\ raw' = repo
    /\ UNCHANGED <<cfg, file, repo, at, todo, snap, sha, edits, faults>>

-----------------------------------------------------------------------------
(* Restarts.                                                               *)

(* startHTTPServer: requests are served from here on.                      *)
StartServing(h, t) ==
    /\ at[h][t] = "serve"
    /\ Continue(h, t, todo[h][t])
    /\ UNCHANGED <<cfg, file, repo, raw, sha, edits, faults>>

(* The settings of a process that starts with the file s: loadSettings.    *)
AfterStart(s) == Override(BuiltIn, s, Loaded)

(* The host stops and starts again.  The write that was going on may have  *)
(* left a file that cannot be parsed, which counts as none; that a token   *)
(* cannot be decrypted, which clears it, is left to this case.  main saves *)
(* the interval, saves, synchronises and saves again before any request is *)
(* served.                                                                 *)
Restart(h) ==
    \E torn \in BOOLEAN :
        LET onDisk == IF torn THEN Nothing ELSE file[h] IN
        /\ Fault
        /\ torn => \E t \in Thread : at[h][t] = "write"
        /\ file' = [file EXCEPT ![h] = onDisk]
        /\ cfg' = [cfg EXCEPT ![h] = AfterStart(onDisk)]
        /\ at'    = [at EXCEPT ![h] = [t \in Thread |->
                        IF t = "main" THEN "save" ELSE "idle"]]
        /\ todo'  = [todo EXCEPT ![h] = [t \in Thread |->
                        IF t = "main" THEN <<"save", "fetch", "save", "serve">> ELSE <<>>]]
        /\ snap'  = [snap EXCEPT ![h] = [t \in Thread |-> Nothing]]
        /\ sha'   = [sha EXCEPT ![h] = [t \in Thread |-> Empty]]
        /\ UNCHANGED <<repo, raw, edits>>

-----------------------------------------------------------------------------
Work(h, t) ==
    \/ TakeSnapshot(h, t) \/ WriteFile(h, t)
    \/ BeginPush(h, t) \/ GetSha(h, t) \/ Put(h, t)
    \/ Fetch(h, t) \/ Apply(h, t)
    \/ StartServing(h, t)

User(h) == PostSettings(h) \/ Setup(h)

Next ==
    \/ \E h \in Users : User(h)
    \/ \E h \in Restarting : Restart(h)
    \/ \E h \in Host, t \in Thread : StartSync(h, t) \/ Work(h, t)
    \/ Deliver

Spec == Init /\ [][Next]_vars

(* A goroutine goes on with what it does, the ticker of the sync goroutine *)
(* fires, and the delivery network does not stay behind for ever.          *)
Fairness ==
    /\ \A h \in Host, t \in Thread : WF_vars(Work(h, t))
    /\ \A h \in Host : WF_vars(StartSync(h, "main"))
    /\ WF_vars(Deliver)

LiveSpec == Spec /\ Fairness

-----------------------------------------------------------------------------
StoreTypes ==
    /\ cfg \in [Host -> Settings] /\ file \in [Host -> Settings]
    /\ repo \in Settings /\ raw \in Settings
    /\ edits \in 0..MaxEdits /\ faults \in 0..MaxFaults

OpTypes ==
    /\ at \in [Host -> [Thread -> Phase]]
    /\ todo \in [Host -> [Thread -> Seq(Task)]]
    /\ snap \in [Host -> [Thread -> Settings]]
    /\ sha \in [Host -> [Thread -> Settings \cup {Empty}]]

(* Goroutines are where their data says: one that is idle has nothing left *)
(* to do, one between two tasks holds no snapshot, and only one that is    *)
(* about to PUT has been told a SHA.                                       *)
Coherent(h, t) ==
    /\ at[h][t] = "idle" => todo[h][t] = <<>>
    /\ at[h][t] # "put" => sha[h][t] = Empty
    /\ at[h][t] \in Task \cup {"idle"} => snap[h][t] = Nothing

(* The settings and the goroutines are well typed and coherent, whatever   *)
(* two goroutines of a host do at once and whenever it restarts.           *)
TypeOK == StoreTypes /\ OpTypes /\ \A h \in Host, t \in Thread : Coherent(h, t)

(* The values that were entered at h.                                      *)
Own(h) == {Empty} \cup {<<h, n>> : n \in 0..MaxEdits}

(* A token never leaves its host: no push on its way holds one, the only   *)
(* one that the repository and its copies may hold is what an older        *)
(* version once pushed, and the token that a host uses or stores was       *)
(* entered there.  ("NEVER include secrets here", SettingsForSync;         *)
(* main.go:4106-4113.)                                                     *)
SecretsStayLocal ==
    \A f \in Secret :
        /\ {repo[f], raw[f]} \subseteq {Empty, <<LastPusher, 0>>}
        /\ \A h \in Host :
            /\ cfg[h][f] \in Own(h) /\ file[h][f] \in Own(h)
            /\ \A t \in Thread :
                /\ at[h][t] # "apply" => snap[h][t][f] \in Own(h)
                /\ at[h][t] \in {"get", "put"} => snap[h][t][f] = Empty

(* No synchronisation takes from a running host an address or another      *)
(* pulled setting it has without giving it one, although every host that   *)
(* starts pushes the address it has forgotten: only a restart does.        *)
KeptWhileRunning ==
    [][\A h \in Host : \A f \in Pulled :
        cfg[h][f] # Empty /\ cfg'[h][f] = Empty => Restart(h)]_vars

(* What is neither pulled nor lost comes to the file: a save whose         *)
(* snapshot is older may overwrite a newer file (the two steps of          *)
(* saveSettings are not atomic), but the synchronisation saves again and   *)
(* so repairs it, whether anything differs or not.                         *)
FileCatchesUp ==
    []<>(\A h \in Host : \A f \in Saved \ Pulled : file[h][f] = cfg[h][f])

Busy == {ht \in Host \X Thread : at[ht[1]][ht[2]] # "idle"}

(* One goroutine at a time, and what it reads is not out of date.          *)
TakingTurns ==
    /\ \A x, y \in Busy : x = y
    /\ \A x \in Busy : at[x[1]][x[2]] = "apply" => snap[x[1]][x[2]] = repo

SlowEverywhere == \A h \in Host : cfg[h]["fps"] \in Slow

AgreeOn(F) == \A h \in Host : \A f \in F : cfg[h][f] = repo[f]

(* Each of the hosts can push, and they no longer synchronise at the same  *)
(* time or from an old copy.                                               *)
InTurn == TakingTurns /\ \A h \in Host : cfg[h]["token"] # Empty

(* The hosts come to agree on every pulled setting once they synchronise   *)
(* in turn, but for the rate where every host has a slow one.  (Hosts that *)
(* synchronise at the same time may exchange their values for ever: a push *)
(* takes its snapshot before it asks for the SHA.)                         *)
SettingsConverge ==
    <>[]InTurn =>
        /\ <>[]AgreeOn(Pulled \ {"fps"})
        /\ <>[](SlowEverywhere \/ AgreeOn({"fps"}))
=============================================================================
