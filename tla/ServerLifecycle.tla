--------------------------- MODULE ServerLifecycle ---------------------------
(***************************************************************************)
(* The life of a server inside one process: runServerComponents and the    *)
(* goroutines it starts (main.go), the SSH server it brings up             *)
(* (ssh_server.go), and everything that replaces or cancels the context    *)
(* they live by: set_fps, a promotion, the settings sync, a step-down.     *)
(*                                                                         *)
(* The context is the pair of globals serverCtx and serverCancel.  No lock *)
(* protects them, so the assignment of the pair is two steps here, and a   *)
(* replacement four: cancel the old one, assign the context, assign its    *)
(* cancel function, start a capture loop on what serverCtx then is.  A     *)
(* context is a number; 0 is nil.                                          *)
(*                                                                         *)
(* The SSH server is guarded by sshServerMu inside setupSSHServer and      *)
(* stopSSHServer only: the handlers decide what to call on a look at       *)
(* cfg.SSHEnabled and sshServer that the mutex does not cover.             *)
(***************************************************************************)
EXTENDS Naturals, FiniteSets

CONSTANTS
    Handler,      \* goroutines of HTTP and WebSocket handlers
    MainLoop,     \* the main goroutine
    Background,   \* goroutines started by agents that promote themselves
    Syncer,       \* n \in Syncer: the sync goroutine of the n-th run
    Kind,         \* of the goroutines a run starts: "renewal", "deploy"
    Port,         \* ports of the SSH server
    NoPort,       \* sshServer = nil
    MaxContexts,  \* bound: contexts made
    MaxRuns,      \* bound: calls of runServerComponents
    MaxSshEdits   \* bound: changes of the SSH settings, and failures of Serve

ASSUME BoundAssumption ==
    /\ MaxContexts \in Nat /\ MaxRuns \in Nat /\ MaxSshEdits \in Nat
    /\ NoPort \notin Port
    /\ "renewal" \in Kind

Runner  == {MainLoop} \cup Background
Process == Handler \cup Syncer \cup Runner
Context == 1..MaxContexts
Awake   == 0                    \* a goroutine outside its select

ASSUME ProcessAssumption ==
    /\ MainLoop \notin Background
    /\ Handler \cap Runner = {}
    /\ Syncer \subseteq 1..MaxRuns /\ Syncer \cap (Handler \cup Runner) = {}

VARIABLES
    serverCtx, serverCancel,  \* the globals
    made,       \* contexts made, or about to be
    cancelled,  \* the contexts that are done
    at,         \* where each process is
    mine,       \* the context each process is assigning
    running,    \* the runners inside runServerComponents
    runs,       \* calls of runServerComponents so far
    waits,      \* the context at whose Done() a run blocks
    stops,      \* the runs that have deferred stopSSHServer
    captures,   \* capture loops on each context
    watchers,   \* renewal and deploy goroutines, by the context they select on
    sshOn, sshPort,        \* cfg.SSHEnabled and cfg.SSHPort
    setup,      \* the port for which a setupSSHServer holds sshServerMu
    sshServer,  \* the server that stopSSHServer knows, by its port
    sshFailed,  \* its Serve has returned an error
    listening,  \* the ports with an open listener
    served,     \* those whose Serve has begun, so that Close reaches them
    sshEdits

ctxVars  == <<serverCtx, serverCancel, made, cancelled>>
runVars  == <<running, runs, waits, stops>>
loopVars == <<captures, watchers>>
servers  == <<sshServer, sshFailed, listening, served>>
sshVars  == <<sshOn, sshPort, setup, servers, sshEdits>>
vars     == <<ctxVars, at, mine, runVars, loopVars, sshVars>>

Label == {"idle", "fresh", "half", "full", "captured", "runSetup", "helpers", "blocked",
          "sshSet", "sshStop", "sshRestart", "sshStart", "sshSetup"}

ContextTypes ==
    /\ serverCtx \in Context \cup {0} /\ serverCancel \in Context \cup {0}
    /\ made \in 0..MaxContexts
    /\ cancelled \in SUBSET Context

ProcessTypes ==
    /\ at \in [Process -> Label]
    /\ mine \in [Process -> Context \cup {0}]
    /\ \A p \in Process : at[p] \in {"fresh", "half"} => mine[p] \in Context

RunTypes ==
    /\ running \in SUBSET Runner /\ runs \in 0..MaxRuns
    /\ \A p \in Process :
          at[p] \in {"captured", "runSetup", "helpers", "blocked"} => p \in running
    /\ waits \in [Runner -> Context \cup {0}]
    /\ stops \in SUBSET Runner

LoopTypes ==
    /\ captures \in [Context -> Nat]
    /\ watchers \in [Kind -> [Context \cup {Awake} -> Nat]]

SshTypes ==
    /\ sshOn \in BOOLEAN /\ sshPort \in Port
    /\ setup \in Port \cup {NoPort} /\ sshServer \in Port \cup {NoPort}
    /\ sshFailed \in BOOLEAN
    /\ listening \in SUBSET Port /\ served \in SUBSET listening
    /\ sshEdits \in 0..MaxSshEdits

TypeOK == ContextTypes /\ ProcessTypes /\ RunTypes /\ LoopTypes /\ SshTypes

Init ==
    /\ serverCtx = 0 /\ serverCancel = 0 /\ made = 0 /\ cancelled = {}
    /\ at = [p \in Process |-> "idle"] /\ mine = [p \in Process |-> 0]
    /\ running = {} /\ runs = 0
    /\ waits = [r \in Runner |-> 0] /\ stops = {}
    /\ captures = [c \in Context |-> 0]
    /\ watchers = [k \in Kind |-> [c \in Context \cup {Awake} |-> 0]]
    /\ sshOn \in BOOLEAN /\ sshPort \in Port
    /\ setup = NoPort /\ sshServer = NoPort /\ sshFailed = FALSE
    /\ listening = {} /\ served = {} /\ sshEdits = 0

Goto(p, label) == at' = [at EXCEPT ![p] = label]

\* serverCancel(), if there is one.
CancelCurrent == cancelled' = cancelled \cup ({serverCancel} \ {0})

\* p is about to make a context.
Claims(p) ==
    /\ made < MaxContexts
    /\ made' = made + 1
    /\ mine' = [mine EXCEPT ![p] = made + 1]

-----------------------------------------------------------------------------
(* Replacing the context.                                                  *)

\* Handlers exist at any time, sync goroutines since the run that started
\* them; the main goroutine syncs at startup and as an agent.
MayReplace(p) == p \in Handler \cup {MainLoop} \/ (p \in Syncer /\ p <= runs)

BeginReplace(p) ==
    /\ MayReplace(p) /\ at[p] = "idle"
    /\ Claims(p) /\ CancelCurrent
    /\ Goto(p, "fresh")
    /\ UNCHANGED <<serverCtx, serverCancel, runVars, loopVars, sshVars>>

\* Variant of AssignCtx: the capture loop starts on the context being replaced.
CaptureThenAssign(p) ==
    /\ at[p] = "fresh"
    /\ serverCtx' = mine[p]
    /\ Goto(p, IF p \in running THEN "captured" ELSE "idle")
    /\ serverCancel' = mine[p]
    /\ captures' = [c \in Context |->
                       IF c = serverCtx THEN captures[c] + 1 ELSE captures[c]]
    /\ UNCHANGED <<made, cancelled, mine, runVars, watchers, sshVars>>

\* serverCtx, serverCancel = context.WithCancel(...): first the one ...
AssignCtx(p) ==
    /\ at[p] = "fresh"
    /\ serverCtx' = mine[p]
    /\ Goto(p, "half")
    /\ UNCHANGED <<serverCancel, made, cancelled, mine, runVars, loopVars, sshVars>>

\* ... then the other.
AssignCancel(p) ==
    /\ at[p] = "half"
    /\ serverCancel' = mine[p]
    /\ Goto(p, "full")
    /\ UNCHANGED <<serverCtx, made, cancelled, mine, runVars, loopVars, sshVars>>

\* go startScreenCapture(serverCtx): the global is read again.
StartCapture(p) ==
    /\ at[p] = "full"
    /\ captures' = [captures EXCEPT ![serverCtx] = @ + 1]
    /\ Goto(p, IF p \in running THEN "captured" ELSE "idle")
    /\ UNCHANGED <<ctxVars, mine, runVars, watchers, sshVars>>

\* The capture loop sees that its context is done.
CaptureEnds(c) ==
    /\ c \in cancelled /\ captures[c] > 0
    /\ captures' = [captures EXCEPT ![c] = @ - 1]
    /\ UNCHANGED <<ctxVars, at, mine, runVars, watchers, sshVars>>

-----------------------------------------------------------------------------
(* The SSH server.                                                         *)

\* setupSSHServer has the mutex and looks at the settings: with SSH off that is
\* all, and the caller is told that nothing failed.
SetupSkips == setup = NoPort /\ ~sshOn

BeginSetup ==
    /\ setup = NoPort /\ sshOn
    /\ setup' = sshPort
    /\ UNCHANGED servers

\* A key that does not decode, or Listen fails: the port is taken, by an earlier
\* server or by another program.  The server of an earlier call stays as it is.
SetupFails ==
    /\ setup # NoPort /\ setup' = NoPort
    /\ UNCHANGED servers

\* Variant of SetupSucceeds: the server is stored before Listen is tried.
StoreThenListen ==
    /\ setup # NoPort /\ setup' = NoPort
    /\ sshServer' = setup /\ sshFailed' = FALSE
    /\ listening' \in {listening, listening \cup {setup}}
    /\ UNCHANGED served

\* Serve begins later, in a goroutine of its own.
SetupSucceeds ==
    /\ setup # NoPort /\ setup' = NoPort
    /\ setup \notin listening
    /\ sshServer' = setup /\ sshFailed' = FALSE
    /\ listening' = listening \cup {setup}
    /\ UNCHANGED served

\* Close reaches the listener only if Serve has begun; one that it misses is
\* served from then on by a server that nobody knows.
StopSSH ==
    /\ setup = NoPort /\ UNCHANGED setup
    /\ sshServer' = NoPort /\ sshFailed' = FALSE
    /\ listening' = listening \ ({sshServer} \cap served)
    /\ served' = served \ {sshServer}

ServeBegins(port) ==
    /\ port \in listening \ served
    /\ served' = served \cup {port}
    /\ UNCHANGED <<ctxVars, at, mine, runVars, loopVars, sshOn, sshPort, setup, sshServer,
                   sshFailed, listening, sshEdits>>

\* Accept fails: Serve closes the listener and returns, sshServer stays set.
ServeFails(port) ==
    /\ port \in served /\ sshEdits < MaxSshEdits
    /\ sshEdits' = sshEdits + 1
    /\ listening' = listening \ {port} /\ served' = served \ {port}
    /\ sshFailed' = (sshFailed \/ sshServer = port)
    /\ UNCHANGED <<ctxVars, at, mine, runVars, loopVars, sshOn, sshPort, setup, sshServer>>

\* set_ssh and POST /api/settings: the settings first ...
EditSsh(h) ==
    /\ h \in Handler /\ at[h] = "idle" /\ sshEdits < MaxSshEdits
    /\ sshEdits' = sshEdits + 1
    /\ sshOn' \in BOOLEAN /\ sshPort' \in Port
    /\ Goto(h, "sshSet")
    /\ UNCHANGED <<ctxVars, mine, runVars, loopVars, setup, servers>>

\* ... then a look at both, without the mutex, ...
ApplySsh(h) ==
    /\ at[h] = "sshSet"
    /\ Goto(h, IF sshOn /\ sshServer = NoPort THEN "sshStart"
               ELSE IF ~sshOn /\ sshServer # NoPort THEN "sshStop"
               ELSE "idle")
    /\ UNCHANGED <<ctxVars, mine, runVars, loopVars, sshVars>>

\* ssh-info?regenerate=1: a new password, then stop and start.
Regenerate(h) ==
    /\ h \in Handler /\ at[h] = "idle" /\ sshOn /\ sshEdits < MaxSshEdits
    /\ sshEdits' = sshEdits + 1
    /\ Goto(h, "sshRestart")
    /\ UNCHANGED <<ctxVars, mine, runVars, loopVars, sshOn, sshPort, setup, servers>>

\* ... then what the look has decided.
HandlerStopsSsh(h) ==
    /\ \/ at[h] = "sshStop" /\ Goto(h, "idle")
       \/ at[h] = "sshRestart" /\ Goto(h, "sshStart")
    /\ StopSSH
    /\ UNCHANGED <<ctxVars, mine, runVars, loopVars, sshOn, sshPort, sshEdits>>

HandlerStartsSsh(h) ==
    /\ \/ at[h] = "sshStart" /\ Goto(h, "idle") /\ SetupSkips /\ UNCHANGED <<setup, servers>>
       \/ at[h] = "sshStart" /\ Goto(h, "sshSetup") /\ BeginSetup
       \/ at[h] = "sshSetup" /\ Goto(h, "idle") /\ (SetupFails \/ SetupSucceeds)
    /\ UNCHANGED <<ctxVars, mine, runVars, loopVars, sshOn, sshPort, sshEdits>>

-----------------------------------------------------------------------------
(* runServerComponents.                                                    *)

\* The main loop elects itself, or an agent it runs has found no server and
\* promotes itself in the background.  The old context is not cancelled.
RunBegins(r) ==
    /\ r \in Runner /\ at[r] = "idle" /\ at[MainLoop] = "idle" /\ runs < MaxRuns
    /\ runs' = runs + 1 /\ running' = running \cup {r}
    /\ Claims(r) /\ Goto(r, "fresh")
    /\ UNCHANGED <<serverCtx, serverCancel, cancelled, waits, stops, loopVars, sshVars>>

RunBeginsSetup(r) ==
    /\ at[r] = "captured" /\ Goto(r, "runSetup")
    /\ BeginSetup
    /\ UNCHANGED <<ctxVars, mine, runVars, loopVars, sshOn, sshPort, sshEdits>>

\* SSH, QUIC, the report pushers, the renewal and deploy goroutines, the
\* update broadcast, and the sync goroutine (Syncer runs), which never ends.
StartHelpers(r) ==
    /\ \/ at[r] = "captured" /\ SetupSkips /\ UNCHANGED <<setup, servers>>
          /\ stops' = stops \cup {r}
       \/ at[r] = "runSetup" /\ SetupFails /\ UNCHANGED stops
       \/ at[r] = "runSetup" /\ SetupSucceeds /\ stops' = stops \cup {r}
    /\ Goto(r, "helpers")
    /\ watchers' = [k \in Kind |-> [watchers[k] EXCEPT ![Awake] = @ + 1]]
    /\ UNCHANGED <<ctxVars, mine, running, runs, waits, captures, sshOn, sshPort, sshEdits>>

\* <-serverCtx.Done(): the context is the one of this moment ...
Block(r) ==
    /\ at[r] = "helpers" /\ Goto(r, "blocked")
    /\ waits' = [waits EXCEPT ![r] = serverCtx]
    /\ UNCHANGED <<ctxVars, mine, running, runs, stops, loopVars, sshVars>>

\* Variant of Return: the run waits in a loop.
ReturnAndWait(r) ==
    /\ at[r] = "blocked" /\ waits[r] \in cancelled
    /\ running' = running \ {r}
    /\ UNCHANGED <<ctxVars, at, mine, runs, waits, stops, loopVars, sshVars>>

\* ... for as long as the run lasts.
Return(r) ==
    /\ at[r] = "blocked" /\ waits[r] \in cancelled
    /\ Goto(r, "idle")
    /\ running' = running \ {r} /\ stops' = stops \ {r}
    /\ IF r \in stops THEN StopSSH ELSE UNCHANGED <<setup, servers>>
    /\ UNCHANGED <<ctxVars, mine, runs, waits, loopVars, sshOn, sshPort, sshEdits>>

-----------------------------------------------------------------------------
(* The renewal and deploy goroutines.                                      *)

Moves(k, from, to) ==
    /\ watchers[k][from] > 0
    /\ LET w == [watchers[k] EXCEPT ![from] = @ - 1, ![to] = @ + 1]
       IN  watchers' = [watchers EXCEPT ![k] = w]

\* A ticker fires on a goroutine that selects on context c.
WatcherTicks(k, c) ==
    /\ Moves(k, c, Awake)
    /\ UNCHANGED <<ctxVars, at, mine, runVars, captures, sshVars>>

\* Variant of WatcherSelects: a goroutine keeps the context it has started with.
WatcherKeepsContext(k) ==
    /\ \E c \in Context : c <= made /\ Moves(k, Awake, c)
    /\ UNCHANGED <<ctxVars, at, mine, runVars, captures, sshVars>>

\* Back to the select, which evaluates serverCtx.Done() anew.
WatcherSelects(k) ==
    /\ serverCtx # 0 /\ Moves(k, Awake, serverCtx)
    /\ UNCHANGED <<ctxVars, at, mine, runVars, captures, sshVars>>

WatcherEnds(k, c) ==
    /\ c \in cancelled /\ watchers[k][c] > 0
    /\ watchers' = [watchers EXCEPT ![k][c] = @ - 1]
    /\ UNCHANGED <<ctxVars, at, mine, runVars, captures, sshVars>>

\* renewLeadership finds that another host serves: step down.
StepDown ==
    /\ watchers["renewal"][Awake] > 0
    /\ CancelCurrent
    /\ UNCHANGED <<serverCtx, serverCancel, made, at, mine, runVars, loopVars, sshVars>>

Replace(p) == AssignCtx(p) \/ AssignCancel(p) \/ StartCapture(p)
RunStep(r) == RunBeginsSetup(r) \/ StartHelpers(r) \/ Block(r) \/ Return(r)
SshStep(h) == ApplySsh(h) \/ HandlerStopsSsh(h) \/ HandlerStartsSsh(h)

Next ==
    \/ \E p \in Process : BeginReplace(p) \/ Replace(p)
    \/ \E r \in Runner : RunBegins(r) \/ RunStep(r)
    \/ \E h \in Handler : EditSsh(h) \/ Regenerate(h) \/ SshStep(h)
    \/ \E port \in Port : ServeBegins(port) \/ ServeFails(port)
    \/ \E c \in Context : CaptureEnds(c)
    \/ \E k \in Kind :
          \/ WatcherSelects(k)
          \/ \E c \in Context : WatcherTicks(k, c) \/ WatcherEnds(k, c)
    \/ StepDown

Spec == Init /\ [][Next]_vars

\* Goroutines run on, tickers fire, and a select that finds its context done
\* again and again does not take the ticker every time.
Fairness ==
    /\ \A p \in Process : WF_vars(Replace(p))
    /\ \A r \in Runner : WF_vars(RunStep(r))
    /\ \A k \in Kind :
          /\ WF_vars(WatcherSelects(k))
          /\ \A c \in Context : WF_vars(WatcherTicks(k, c)) /\ SF_vars(WatcherEnds(k, c))

LiveSpec == Spec /\ Fairness

-----------------------------------------------------------------------------
(* Properties. *)

\* However replacements, runs and cancellations overlap, a current context
\* that is not done has a capture loop, or the process that is about to start
\* one is on its way: the screen of a server does not freeze (the order of
\* main.go:1159-1163, and the second read of serverCtx).
CurrentIsCaptured ==
    serverCtx \notin cancelled \cup {0} =>
        \/ captures[serverCtx] > 0
        \/ \E p \in Process : at[p] \in {"half", "full"}

\* What stopSSHServer would close does listen, or its Serve has failed, whatever
\* settings, runs and password changes started and stopped servers in the
\* meantime (setupSSHServer stores the server only after Listen).
SshHandleListens == sshServer # NoPort => sshServer \in listening \/ sshFailed

\* Once the current context stays cancelled, no renewal and no deploy goroutine
\* is left, of whichever run and whichever replaced context: a host that has
\* stepped down for good stops renewing (the selects of main.go:1971-1997 and
\* 2017-2027, which read serverCtx again and again).
WatchersFollow ==
    <>[](serverCtx \in cancelled) =>
        <>[](\A k \in Kind, c \in Context \cup {Awake} : watchers[k][c] = 0)
=============================================================================
