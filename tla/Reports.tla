------------------------------- MODULE Reports -------------------------------
(***************************************************************************)
(* The reports that a server puts into the GitHub repository: one file a   *)
(* day with, among others, the election history, and one file compiled     *)
(* from all of them (election_history.go, report_xlsx.go).                 *)
(*                                                                         *)
(* Every push builds a report, asks for the SHA of the stored file and     *)
(* replaces that file if the SHA is still current; nothing ties the SHA to *)
(* the moment at which the report was built.  Every run of the server      *)
(* starts a daily pusher, which lives until the process ends.  Two pushes  *)
(* go on at once: "daily" is the push of the daily pusher that holds       *)
(* dailyReportPushMu, with the compiled push that follows; "other" is the  *)
(* hourly pusher or a request of the dashboard, of which the model has one *)
(* at a time.                                                              *)
(*                                                                         *)
(* A step to the next day stands for midnight and five past midnight.      *)
(***************************************************************************)
EXTENDS ElectionHistory

CONSTANTS
    Pusher,     \* the daily pushers that a process can have
    MaxDays     \* bound: days

ASSUME ReportsAssumption ==
    /\ MaxDays \in Nat \ {0}
    /\ \A R \in SUBSET Event : R # None

Goroutine == {"daily", "other"}

Day      == 1..MaxDays
Compiled == 0              \* the file that is compiled
Rows     == SUBSET Event
Stored   == Rows \cup {None}

(* A daily pusher does not run, sleeps for its first two minutes, does its *)
(* first push, sleeps until 00:05, has to push, or does the push of 00:05. *)
PusherState == {"off", "soon", "first", "waiting", "due", "nightly"}

VARIABLES
    day,       \* today
    pusher,    \* pusher[p]: what the daily pusher p does
    daily,     \* daily[d]: the rows in the report of day d
    compiled,  \* compiled[d]: the rows of day d in the compiled report
    auth,      \* githubAuthOK and githubAuthError
    work,      \* work[g]: the push that goroutine g is doing
    promised   \* the days that a daily pusher has taken on: its 00:05 came,
               \* or it has named a report, and no push of the day has failed

reportVars == <<day, pusher, daily, compiled, auth, work, promised>>
vars == <<historyVars, reportVars>>

NoReport == [d \in Day |-> None]

(* A push: a report that has no name yet, its file and what it is going to *)
(* hold, the days whose reports are still to be downloaded, and whether    *)
(* the SHA it will send, or that it sends none, fits the stored file.      *)
Work == [phase : {"idle", "name", "list", "get", "put"}, sheet : Stored,
         file : Day \cup {Compiled}, rows : [Day -> Stored],
         todo : SUBSET Day, fits : BOOLEAN]

Idle == [phase |-> "idle", sheet |-> None, file |-> Compiled, rows |-> NoReport,
         todo |-> {}, fits |-> FALSE]

Init ==
    /\ HistoryInit
    /\ day = 1 /\ pusher = [p \in Pusher |-> "off"]
    /\ daily = NoReport /\ compiled = NoReport
    /\ auth = "unknown"
    /\ work = [g \in Goroutine |-> Idle]
    /\ promised = {}

NoFault == UNCHANGED faults
LogUnchanged ==
    UNCHANGED <<ring, last, fresh, pending, file, torn, events, current, failed>>

Become(g, w) == work' = [work EXCEPT ![g] = w]

(* isGitHubAuthOK with an error: the token is known to be bad.             *)
KnownBad == auth = "bad"

(* setGitHubAuth after a request that failed: 401 and 403 say that the     *)
(* token is bad, other errors say nothing.                                 *)
AuthFails == auth' \in {auth, "bad"}

(* The process has been a server.                                          *)
Serving == \E p \in Pusher : pusher[p] # "off"

Set(p, s) == pusher' = [pusher EXCEPT ![p] = s]

(* A daily push is over, well or badly: its pusher sleeps until 00:05.     *)
EndPush(g) ==
    pusher' = IF g = "daily"
              THEN [p \in Pusher |-> IF pusher[p] \in {"first", "nightly"}
                                     THEN "waiting" ELSE pusher[p]]
              ELSE pusher

(* A daily push that fails is not tried again on its day.                  *)
FailPush(g, d) ==
    promised' = IF g = "daily" THEN promised \ {d} ELSE promised

-----------------------------------------------------------------------------
(* Building a report.                                                      *)

(* The rows of the sheet "Election", which writeElectionSheet fills from a *)
(* copy of the history.                                                    *)
ElectionSheet == {ring[i] : i \in DOMAIN ring}

(* pushDailyReportToGitHub builds the report, unless the token is known to *)
(* be bad.                                                                 *)
BuildDaily(g) ==
    /\ work[g].phase = "idle"
    /\ IF KnownBad THEN UNCHANGED work
       ELSE Become(g, [Idle EXCEPT !.phase = "name", !.sheet = ElectionSheet])
    /\ UNCHANGED <<day, daily, compiled, auth>> /\ LogUnchanged

(* Then it names the report after the day that it is by now.               *)
NameReport(g) ==
    LET w == work[g] IN
    /\ w.phase = "name"
    /\ Become(g, [w EXCEPT !.phase = "get", !.sheet = None,
                           !.file = day, !.rows[day] = w.sheet])
    /\ promised' = IF g = "daily" THEN promised \cup {day} ELSE promised
    /\ UNCHANGED <<day, pusher, daily, compiled, auth>>
    /\ LogUnchanged /\ NoFault

(* Mutant: a pusher that finds another pushing sleeps on (TryLock).        *)
PushOnceOrSkip(p) ==
    \/ /\ pusher[p] \in {"soon", "due"}
       /\ BuildDaily("daily") /\ NoFault
       /\ IF KnownBad THEN Set(p, "waiting") /\ FailPush("daily", day)
          ELSE /\ Set(p, IF pusher[p] = "soon" THEN "first" ELSE "nightly")
               /\ UNCHANGED promised
    \/ /\ pusher[p] \in {"soon", "due"} /\ work["daily"].phase # "idle"
       /\ Set(p, "waiting")
       /\ UNCHANGED <<day, daily, compiled, auth, work, promised>>
       /\ LogUnchanged /\ NoFault

(* pushOnce, two minutes after the server has started or at 00:05, when    *)
(* the pusher gets dailyReportPushMu.                                      *)
PushOnce(p) ==
    /\ pusher[p] \in {"soon", "due"}
    /\ BuildDaily("daily") /\ NoFault
    /\ IF KnownBad THEN Set(p, "waiting") /\ FailPush("daily", day)
       ELSE /\ Set(p, IF pusher[p] = "soon" THEN "first" ELSE "nightly")
            /\ UNCHANGED promised

(* POST /api/report/push, which does not take the mutex; counted with the  *)
(* faults, of which there are as few.                                      *)
RequestPush ==
    /\ Serving
    /\ BuildDaily("other") /\ Fault
    /\ UNCHANGED <<pusher, promised>>

(* The ticker of the hourly pusher, or POST /api/report/compiled/push.     *)
StartCompiled ==
    /\ Serving /\ work["other"].phase = "idle"
    /\ Become("other", [Idle EXCEPT !.phase = "list"])
    /\ UNCHANGED <<day, pusher, daily, compiled, auth, promised>>
    /\ LogUnchanged /\ NoFault

(* buildMergedReportXLSX lists the reports; it needs a token that is known *)
(* to be good.                                                             *)
List(g) ==
    /\ work[g].phase = "list"
    /\ \/ /\ auth = "ok"
          /\ Become(g, [Idle EXCEPT !.phase = "get",
                            !.todo = {d \in Day : daily[d] # None}])
          /\ NoFault
       \/ auth # "ok" /\ Become(g, Idle) /\ NoFault
       \/ Fault /\ Become(g, Idle)
    /\ UNCHANGED <<day, pusher, daily, compiled, auth, promised>> /\ LogUnchanged

(* It downloads them one by one, in the order of their days, and leaves    *)
(* out those that it does not get.                                         *)
Download(g) ==
    \E d \in work[g].todo :
        /\ \A e \in work[g].todo : d <= e
        /\ \/ /\ work' = [work EXCEPT ![g].todo = @ \ {d}, ![g].rows[d] = daily[d]]
              /\ NoFault
           \/ work' = [work EXCEPT ![g].todo = @ \ {d}] /\ Fault
        /\ UNCHANGED <<day, pusher, daily, compiled, auth, promised>> /\ LogUnchanged

-----------------------------------------------------------------------------
(* Storing it.                                                             *)

Absent(f) == IF f = Compiled THEN compiled = NoReport ELSE daily[f] = None

(* Mutant: the SHA in the answer is not used.                              *)
ForgetSha(g) ==
    LET w == work[g] IN
    /\ w.phase = "get" /\ w.todo = {}
    /\ Become(g, [w EXCEPT !.phase = "put", !.fits = Absent(w.file)])
    /\ NoFault
    /\ UNCHANGED <<day, pusher, daily, compiled, auth, promised>> /\ LogUnchanged

(* The GET for the SHA.  An error ends the push, 401 and 403 stop all      *)
(* pushes; any other answer counts as "there is no such file".             *)
GetSha(g) ==
    LET w == work[g] IN
    /\ w.phase = "get" /\ w.todo = {}
    /\ \/ /\ Become(g, [w EXCEPT !.phase = "put", !.fits = TRUE])
          /\ NoFault /\ UNCHANGED <<auth, pusher, promised>>
       \/ /\ Become(g, [w EXCEPT !.phase = "put", !.fits = Absent(w.file)])
          /\ Fault /\ UNCHANGED <<auth, pusher, promised>>
       \/ /\ Become(g, Idle)
          /\ Fault /\ EndPush(g) /\ FailPush(g, w.file)
          /\ AuthFails
    /\ UNCHANGED <<day, daily, compiled>> /\ LogUnchanged

(* The file of w is replaced, and its SHA changes for all the others.      *)
Store(g, w, next) ==
    /\ IF w.file = Compiled
       THEN compiled' = w.rows /\ UNCHANGED daily
       ELSE daily' = [daily EXCEPT ![w.file] = w.rows[w.file]] /\ UNCHANGED compiled
    /\ work' = [x \in Goroutine |->
                   IF x = g THEN next
                   ELSE [work[x] EXCEPT !.fits = @ /\ work[x].file # w.file]]

(* Mutant: the compiled push starts from what the daily one has left.      *)
AfterPushReusing(g, w) ==
    IF g = "daily" /\ w.file # Compiled THEN [w EXCEPT !.phase = "list"] ELSE Idle

(* The compiled push that pushOnce starts when it is done.                 *)
AfterPush(g, w) ==
    IF g = "daily" /\ w.file # Compiled THEN [Idle EXCEPT !.phase = "list"] ELSE Idle

(* The PUT: refused if the SHA does not fit.  The answer may be an error   *)
(* although the file was stored.                                           *)
Put(g) ==
    LET w == work[g] IN
    /\ w.phase = "put" /\ EndPush(g)
    /\ \/ /\ w.fits
          /\ Store(g, w, AfterPush(g, w))
          /\ auth' = "ok" /\ NoFault /\ UNCHANGED promised
       \/ /\ ~w.fits
          /\ Become(g, Idle)
          /\ NoFault /\ UNCHANGED <<daily, compiled, auth, promised>>
       \/ /\ Fault /\ FailPush(g, w.file)
          /\ \/ w.fits /\ Store(g, w, Idle) /\ UNCHANGED auth
             \/ /\ Become(g, Idle) /\ UNCHANGED <<daily, compiled>>
                /\ AuthFails
    /\ UNCHANGED day /\ LogUnchanged

-----------------------------------------------------------------------------
(* The surroundings.                                                       *)

(* Midnight, whatever goes on, but that a push of 00:05 has ended by the   *)
(* next one.  Of the pushers those wake up that sleep until 00:05, not     *)
(* those that sleep for their first two minutes or push.                   *)
NextDay ==
    /\ day < MaxDays /\ \A p \in Pusher : pusher[p] \notin {"due", "nightly"}
    /\ day' = day + 1
    /\ pusher' = [p \in Pusher |-> IF pusher[p] = "waiting" THEN "due" ELSE pusher[p]]
    /\ promised' = IF \E p \in Pusher : pusher[p] = "waiting"
                   THEN promised \cup {day + 1} ELSE promised
    /\ UNCHANGED <<daily, compiled, auth, work>> /\ LogUnchanged /\ NoFault

(* A run of the server starts a pusher.                                    *)
ServerRuns(p) ==
    /\ pusher[p] = "off" /\ Set(p, "soon")
    /\ UNCHANGED <<day, daily, compiled, auth, work, promised>>
    /\ LogUnchanged /\ NoFault

(* The token is tested or replaced (/api/settings, /api/github/test), or   *)
(* used for a write of the lease.                                          *)
TokenChecked ==
    /\ auth' \in {"ok", "bad"} \ {auth}
    /\ UNCHANGED <<day, pusher, daily, compiled, work, promised>>
    /\ LogUnchanged /\ NoFault

(* The host stops, in the middle of whatever it pushes, and starts again.  *)
Restart ==
    /\ Reload
    /\ work' = [g \in Goroutine |-> Idle]
    /\ pusher' = [p \in Pusher |-> "off"]
    /\ promised' = {d \in promised : daily[d] # None}
    /\ auth' = "unknown"
    /\ UNCHANGED <<day, daily, compiled>>

-----------------------------------------------------------------------------
Push(g) == NameReport(g) \/ List(g) \/ Download(g) \/ GetSha(g) \/ Put(g)

Next ==
    \/ LogStep /\ UNCHANGED reportVars
    \/ \E p \in Pusher : ServerRuns(p) \/ PushOnce(p)
    \/ RequestPush \/ StartCompiled
    \/ \E g \in Goroutine : Push(g)
    \/ NextDay \/ TokenChecked \/ Restart

Spec == Init /\ [][Next]_vars

(* A push goes on, as every request has a timeout, and the timer of the    *)
(* hourly pusher fires.                                                    *)
Fairness ==
    /\ \A g \in Goroutine : WF_vars(Push(g))
    /\ WF_vars(StartCompiled)

LiveSpec == Spec /\ Fairness

-----------------------------------------------------------------------------
Coherent(w) ==
    /\ w.phase \in {"idle", "name", "list"} => w.file = Compiled
    /\ w.sheet # None <=> w.phase = "name"
    /\ w.fits => w.phase = "put"
    /\ w.todo # {} => w.phase = "get" /\ w.file = Compiled
    /\ w.phase \in {"get", "put"} /\ w.file # Compiled => w.rows[w.file] # None

(* The history, the reports and the pushes are well typed; only a push     *)
(* that is about to PUT has a SHA, only a compiled one downloads, and a     *)
(* daily one has built its report before it has a name.                    *)
TypeOK ==
    /\ HistoryTypes
    /\ day \in Day /\ pusher \in [Pusher -> PusherState]
    /\ daily \in [Day -> Stored] /\ compiled \in [Day -> Stored]
    /\ auth \in {"unknown", "ok", "bad"}
    /\ work \in [Goroutine -> Work] /\ \A g \in Goroutine : Coherent(work[g])
    /\ promised \subseteq Day

(* A day on which a pusher wakes at 00:05, or for which it has named a     *)
(* report, gets its report unless a push for it fails or the process ends: *)
(* pushers that take turns, a push that is refused because another was     *)
(* faster, and one that runs over midnight leave no gap.  (startDailyReport*)
(* Pusher and pushOnce; election_history.go:319-376.)                      *)
MissedOnlyByFailure ==
    \A d \in promised :
        \/ daily[d] # None
        \/ d = day /\ \E p \in Pusher : pusher[p] = "due"
        \/ /\ d = day /\ work["daily"].phase = "name"
           /\ \E p \in Pusher : pusher[p] = "nightly"
        \/ work["daily"].phase \in {"get", "put"} /\ work["daily"].file = d

(* Again and again, while a server runs, and unless the token is not known *)
(* to be good, the compiled report holds what the daily ones hold: one     *)
(* that was built before the others were stored, or without those it could *)
(* not download, may replace a better one, but not for good.  ("builds the *)
(* merged report (from all daily reports in GitHub)";                      *)
(* election_history.go:380.)                                               *)
CompiledCatchesUp == []<>(auth # "ok" \/ ~Serving \/ compiled = daily)
=============================================================================
