------------------------ MODULE ServerLifecycleProofs ------------------------
(***************************************************************************)
(* Proofs about ServerLifecycle, for every set of handlers, sync           *)
(* goroutines and background runs, and every number of contexts.           *)
(***************************************************************************)
EXTENDS ServerLifecycle, TLAPS

LEMMA InitTypes == Init => TypeOK
<1> SUFFICES ASSUME Init PROVE TypeOK
  OBVIOUS
<1>1. 0 \in 0..MaxContexts /\ 0 \in 0..MaxRuns /\ 0 \in 0..MaxSshEdits
  BY BoundAssumption
<1>2. /\ at \in [Process -> Label] /\ mine \in [Process -> Context \cup {0}]
      /\ \A p \in Process : at[p] = "idle"
  BY DEF Init, Label
<1>3. LoopTypes
  BY DEF Init, LoopTypes
<1>4. waits \in [Runner -> Context \cup {0}]
  BY DEF Init
<1>5. QED
  BY <1>1, <1>2, <1>3, <1>4
  DEF Init, TypeOK, ContextTypes, ProcessTypes, RunTypes, SshTypes

\* Making a context numbers it within the bound.
LEMMA ClaimTypes ==
  ASSUME TypeOK, NEW p \in Process, Claims(p)
  PROVE  /\ made' \in 0..MaxContexts
         /\ mine' \in [Process -> Context \cup {0}]
         /\ mine'[p] \in Context
         /\ \A q \in Process : q # p => mine'[q] = mine[q]
<1>1. made + 1 \in Context /\ made' \in 0..MaxContexts
  BY BoundAssumption DEF TypeOK, ContextTypes, Claims, Context
<1>2. QED BY <1>1 DEF TypeOK, ProcessTypes, Claims

\* A process that moves to a label changes no other process.
LEMMA GotoTypes ==
  ASSUME TypeOK, NEW p \in Process, NEW label \in Label, Goto(p, label)
  PROVE  /\ at' \in [Process -> Label] /\ at'[p] = label
         /\ \A q \in Process : q # p => at'[q] = at[q]
BY DEF TypeOK, ProcessTypes, Goto

LEMMA RunnersAreProcesses == \A r \in Runner : r \in Process
BY DEF Process

LEMMA HandlersAreProcesses == \A h \in Handler : h \in Process
BY DEF Process

LEMMA CancelTypes == ASSUME TypeOK, CancelCurrent PROVE cancelled' \in SUBSET Context
BY DEF TypeOK, ContextTypes, CancelCurrent

LEMMA ReplaceTypes ==
  ASSUME TypeOK, NEW p \in Process, BeginReplace(p) \/ Replace(p)
  PROVE  TypeOK'
<1>1. CASE BeginReplace(p)
  <2>1. ContextTypes'
    BY <1>1, ClaimTypes, CancelTypes DEF BeginReplace, TypeOK, ContextTypes
  <2>2. ProcessTypes' /\ RunTypes'
    <3>1. Goto(p, "fresh") /\ Claims(p) /\ "fresh" \in Label
      BY <1>1 DEF BeginReplace, Label
    <3>2. QED
      BY <1>1, <3>1, GotoTypes, ClaimTypes
      DEF BeginReplace, TypeOK, ProcessTypes, RunTypes, runVars
  <2>3. QED BY <1>1, <2>1, <2>2 DEF BeginReplace, TypeOK, LoopTypes, SshTypes, loopVars, sshVars, servers
<1>2. CASE AssignCtx(p)
  <2>1. Goto(p, "half") /\ "half" \in Label /\ mine[p] \in Context
    BY <1>2 DEF AssignCtx, Label, TypeOK, ProcessTypes
  <2>2. ProcessTypes' /\ RunTypes'
    BY <1>2, <2>1, GotoTypes DEF AssignCtx, TypeOK, ProcessTypes, RunTypes, runVars
  <2>3. QED
    BY <1>2, <2>1, <2>2
    DEF AssignCtx, TypeOK, ContextTypes, LoopTypes, SshTypes, loopVars, sshVars, servers
<1>3. CASE AssignCancel(p)
  <2>1. Goto(p, "full") /\ "full" \in Label /\ mine[p] \in Context
    BY <1>3 DEF AssignCancel, Label, TypeOK, ProcessTypes
  <2>2. ProcessTypes' /\ RunTypes'
    BY <1>3, <2>1, GotoTypes DEF AssignCancel, TypeOK, ProcessTypes, RunTypes, runVars
  <2>3. QED
    BY <1>3, <2>1, <2>2
    DEF AssignCancel, TypeOK, ContextTypes, LoopTypes, SshTypes, loopVars, sshVars, servers
<1>4. CASE StartCapture(p)
  <2>1. PICK label \in {"captured", "idle"} :
          Goto(p, label) /\ label \in Label /\ (label = "captured" => p \in running)
    BY <1>4 DEF StartCapture, Label
  <2>2. ProcessTypes' /\ RunTypes'
    BY <1>4, <2>1, GotoTypes DEF StartCapture, TypeOK, ProcessTypes, RunTypes, runVars
  <2>3. LoopTypes'
    <3>1. captures \in [Context -> Nat]
      BY DEF TypeOK, LoopTypes
    <3>2. captures' = [c \in Context |->
                          IF c = serverCtx THEN captures[c] + 1 ELSE captures[c]]
      BY <1>4, <3>1 DEF StartCapture
    <3>3. \A c \in Context : captures[c] + 1 \in Nat
      BY <3>1
    <3>4. captures' \in [Context -> Nat]
      BY <3>1, <3>2, <3>3
    <3>5. QED BY <1>4, <3>4 DEF StartCapture, TypeOK, LoopTypes
  <2>4. QED
    BY <1>4, <2>2, <2>3 DEF StartCapture, TypeOK, ContextTypes, SshTypes, ctxVars, sshVars, servers
<1>5. QED BY <1>1, <1>2, <1>3, <1>4 DEF Replace

ServerTypes ==
  /\ setup \in Port \cup {NoPort} /\ sshServer \in Port \cup {NoPort}
  /\ sshFailed \in BOOLEAN
  /\ listening \in SUBSET Port /\ served \in SUBSET listening

\* What a step may do to the SSH server.
ServerStep ==
  \/ UNCHANGED <<setup, servers>>
  \/ BeginSetup \/ SetupFails \/ SetupSucceeds \/ StopSSH

\* Starting and stopping the SSH server keep its types.
LEMMA SshServerTypes == ASSUME TypeOK, ServerStep PROVE ServerTypes'
<1>1. ServerTypes /\ sshPort \in Port
  BY DEF TypeOK, SshTypes, ServerTypes
<1>2. CASE UNCHANGED <<setup, servers>>
  BY <1>1, <1>2 DEF ServerTypes, servers
<1>3. CASE BeginSetup
  BY <1>1, <1>3 DEF BeginSetup, ServerTypes, servers
<1>4. CASE SetupFails
  BY <1>1, <1>4 DEF SetupFails, ServerTypes, servers
<1>5. CASE SetupSucceeds
  BY <1>1, <1>5 DEF SetupSucceeds, ServerTypes
<1>6. CASE StopSSH
  BY <1>1, <1>6 DEF StopSSH, ServerTypes
<1>7. QED BY <1>2, <1>3, <1>4, <1>5, <1>6 DEF ServerStep

LEMMA SshStepTypes ==
  ASSUME TypeOK, NEW h \in Handler, EditSsh(h) \/ Regenerate(h) \/ SshStep(h)
  PROVE  TypeOK'
<1> USE HandlersAreProcesses
<1>1. /\ \E label \in {"sshSet", "sshStop", "sshRestart", "sshStart", "sshSetup", "idle"} :
            Goto(h, label) /\ label \in Label
      /\ UNCHANGED <<ctxVars, mine, runVars, loopVars>>
  BY DEF EditSsh, Regenerate, SshStep, ApplySsh, HandlerStopsSsh, HandlerStartsSsh, Label
<1>2. ProcessTypes' /\ RunTypes'
  BY <1>1, GotoTypes DEF TypeOK, ProcessTypes, RunTypes, runVars
<1>3. ServerStep
  BY DEF EditSsh, Regenerate, SshStep, ApplySsh, HandlerStopsSsh, HandlerStartsSsh,
         ServerStep, sshVars
<1>4. sshOn' \in BOOLEAN /\ sshPort' \in Port /\ sshEdits' \in 0..MaxSshEdits
  BY BoundAssumption
  DEF TypeOK, SshTypes, EditSsh, Regenerate, SshStep, ApplySsh, HandlerStopsSsh,
      HandlerStartsSsh, sshVars, servers
<1>5. QED
  BY <1>1, <1>2, <1>3, <1>4, SshServerTypes
  DEF TypeOK, ContextTypes, LoopTypes, SshTypes, ServerTypes, ctxVars, loopVars

LEMMA ServeTypes ==
  ASSUME TypeOK, NEW port \in Port, ServeBegins(port) \/ ServeFails(port)
  PROVE  TypeOK'
<1>1. UNCHANGED <<ctxVars, at, mine, runVars, loopVars, sshOn, sshPort, setup, sshServer>>
  BY DEF ServeBegins, ServeFails
<1>2. /\ listening' \in SUBSET Port /\ served' \in SUBSET listening'
      /\ sshFailed' \in BOOLEAN
  BY DEF TypeOK, SshTypes, ServeBegins, ServeFails
<1>3. sshEdits' \in 0..MaxSshEdits
  BY BoundAssumption DEF TypeOK, SshTypes, ServeBegins, ServeFails
<1>4. QED
  BY <1>1, <1>2, <1>3
  DEF TypeOK, ContextTypes, ProcessTypes, RunTypes, LoopTypes, SshTypes, ctxVars,
      runVars, loopVars

LEMMA RunStepTypes ==
  ASSUME TypeOK, NEW r \in Runner, RunBegins(r) \/ RunStep(r)
  PROVE  TypeOK'
<1> USE RunnersAreProcesses
<1>1. CASE RunBegins(r)
  <2>1. Goto(r, "fresh") /\ Claims(r) /\ "fresh" \in Label
    BY <1>1 DEF RunBegins, Label
  <2>2. ContextTypes'
    BY <1>1, <2>1, ClaimTypes DEF RunBegins, TypeOK, ContextTypes
  <2>3. runs' \in 0..MaxRuns
    BY <1>1, BoundAssumption DEF RunBegins, TypeOK, RunTypes
  <2>4. ProcessTypes' /\ RunTypes'
    BY <1>1, <2>1, <2>3, GotoTypes, ClaimTypes DEF RunBegins, TypeOK, ProcessTypes, RunTypes
  <2>5. QED
    BY <1>1, <2>2, <2>4 DEF RunBegins, TypeOK, LoopTypes, SshTypes, loopVars, sshVars, servers
<1>2. CASE RunBeginsSetup(r)
  <2>1. Goto(r, "runSetup") /\ "runSetup" \in Label /\ r \in running
    BY <1>2 DEF RunBeginsSetup, Label, TypeOK, RunTypes
  <2>2. ProcessTypes' /\ RunTypes'
    BY <1>2, <2>1, GotoTypes DEF RunBeginsSetup, TypeOK, ProcessTypes, RunTypes, runVars
  <2>3. ServerTypes'
    BY <1>2, SshServerTypes DEF RunBeginsSetup, ServerStep
  <2>4. QED
    BY <1>2, <2>2, <2>3
    DEF RunBeginsSetup, TypeOK, ContextTypes, LoopTypes, SshTypes, ServerTypes, ctxVars,
        loopVars
<1>3. CASE StartHelpers(r)
  <2>1. Goto(r, "helpers") /\ "helpers" \in Label /\ r \in running
    BY <1>3 DEF StartHelpers, Label, TypeOK, RunTypes
  <2>2. ProcessTypes' /\ RunTypes'
    BY <1>3, <2>1, GotoTypes DEF StartHelpers, TypeOK, ProcessTypes, RunTypes
  <2>3. LoopTypes'
    BY <1>3 DEF StartHelpers, TypeOK, LoopTypes
  <2>4. ServerTypes'
    BY <1>3, SshServerTypes DEF StartHelpers, ServerStep
  <2>5. QED
    BY <1>3, <2>2, <2>3, <2>4
    DEF StartHelpers, TypeOK, ContextTypes, SshTypes, ServerTypes, ctxVars
<1>4. CASE Block(r)
  <2>1. Goto(r, "blocked") /\ "blocked" \in Label /\ r \in running
    BY <1>4 DEF Block, Label, TypeOK, RunTypes
  <2>2. waits' \in [Runner -> Context \cup {0}]
    BY <1>4 DEF Block, TypeOK, RunTypes, ContextTypes
  <2>3. ProcessTypes' /\ RunTypes'
    BY <1>4, <2>1, <2>2, GotoTypes DEF Block, TypeOK, ProcessTypes, RunTypes
  <2>4. QED
    BY <1>4, <2>3
    DEF Block, TypeOK, ContextTypes, LoopTypes, SshTypes, ctxVars, loopVars, sshVars,
        servers
<1>5. CASE Return(r)
  <2>1. Goto(r, "idle") /\ "idle" \in Label
    BY <1>5 DEF Return, Label
  <2>2. ProcessTypes' /\ RunTypes'
    BY <1>5, <2>1, GotoTypes DEF Return, TypeOK, ProcessTypes, RunTypes
  <2>3. ServerTypes'
    BY <1>5, SshServerTypes DEF Return, ServerStep
  <2>4. QED
    BY <1>5, <2>2, <2>3
    DEF Return, TypeOK, ContextTypes, LoopTypes, SshTypes, ServerTypes, ctxVars, loopVars
<1>6. QED BY <1>1, <1>2, <1>3, <1>4, <1>5 DEF RunStep

LEMMA LoopStepTypes ==
  ASSUME TypeOK,
         \/ \E c \in Context : CaptureEnds(c)
         \/ \E k \in Kind : \/ WatcherSelects(k)
                            \/ \E c \in Context : WatcherTicks(k, c) \/ WatcherEnds(k, c)
         \/ StepDown
  PROVE  TypeOK'
<1>1. CASE \E c \in Context : CaptureEnds(c)
  <2>1. PICK c \in Context : CaptureEnds(c)
    BY <1>1
  <2>2. LoopTypes'
    <3>1. captures \in [Context -> Nat] /\ captures[c] - 1 \in Nat
      BY <2>1 DEF CaptureEnds, TypeOK, LoopTypes
    <3>2. captures' \in [Context -> Nat]
      BY <2>1, <3>1 DEF CaptureEnds
    <3>3. QED BY <2>1, <3>2 DEF CaptureEnds, TypeOK, LoopTypes
  <2>3. QED
    BY <2>1, <2>2
    DEF CaptureEnds, TypeOK, ContextTypes, ProcessTypes, RunTypes, SshTypes, ctxVars,
        runVars, sshVars, servers
<1>2. ASSUME NEW k \in Kind, NEW c \in Context, WatcherEnds(k, c)
      PROVE  TypeOK'
  <2>1. LoopTypes'
    <3>1. /\ watchers \in [Kind -> [Context \cup {Awake} -> Nat]]
          /\ watchers[k] \in [Context \cup {Awake} -> Nat]
      BY DEF TypeOK, LoopTypes
    <3> DEFINE w == watchers[k]
    <3>2. [w EXCEPT ![c] = @ - 1] \in [Context \cup {Awake} -> Nat]
      <4>1. w[c] \in Nat /\ w[c] > 0
        BY <1>2, <3>1 DEF WatcherEnds
      <4>2. w[c] - 1 \in Nat
        BY <4>1
      <4> HIDE DEF w
      <4>3. QED BY <3>1, <4>2 DEF w
    <3>3. watchers' = [watchers EXCEPT ![k] = [watchers[k] EXCEPT ![c] = @ - 1]]
      BY <1>2 DEF WatcherEnds
    <3>4. watchers' \in [Kind -> [Context \cup {Awake} -> Nat]]
      BY <3>1, <3>2, <3>3
    <3>5. QED BY <1>2, <3>4 DEF WatcherEnds, TypeOK, LoopTypes
  <2>2. QED
    BY <1>2, <2>1
    DEF WatcherEnds, TypeOK, ContextTypes, ProcessTypes, RunTypes, SshTypes, ctxVars,
        runVars, sshVars, servers
<1>3. ASSUME NEW k \in Kind, NEW from \in Context \cup {Awake},
             NEW to \in Context \cup {Awake}, from # to, Moves(k, from, to)
      PROVE  watchers' \in [Kind -> [Context \cup {Awake} -> Nat]]
  <2>1. /\ watchers \in [Kind -> [Context \cup {Awake} -> Nat]]
        /\ watchers[k] \in [Context \cup {Awake} -> Nat]
    BY <1>3 DEF TypeOK, LoopTypes
  <2>2. watchers[k][from] - 1 \in Nat /\ watchers[k][to] + 1 \in Nat
    BY <1>3, <2>1 DEF Moves
  <2>3. [watchers[k] EXCEPT ![from] = @ - 1, ![to] = @ + 1]
            \in [Context \cup {Awake} -> Nat]
    BY <1>3, <2>1, <2>2
  <2>4. watchers' = [watchers EXCEPT ![k] =
                        [watchers[k] EXCEPT ![from] = @ - 1, ![to] = @ + 1]]
    BY <1>3 DEF Moves
  <2> DEFINE w == [watchers[k] EXCEPT ![from] = @ - 1, ![to] = @ + 1]
  <2>5. w \in [Context \cup {Awake} -> Nat] /\ watchers' = [watchers EXCEPT ![k] = w]
    BY <2>3, <2>4
  <2> HIDE DEF w
  <2>6. QED BY <2>1, <2>5
<1>4. ASSUME NEW k \in Kind, WatcherSelects(k) PROVE TypeOK'
  <2>1. LoopTypes'
    BY <1>3, <1>4 DEF WatcherSelects, TypeOK, ContextTypes, LoopTypes, Awake
  <2>2. QED
    BY <1>4, <2>1
    DEF WatcherSelects, TypeOK, ContextTypes, ProcessTypes, RunTypes, SshTypes, ctxVars,
        runVars, sshVars, servers
<1>5. ASSUME NEW k \in Kind, NEW c \in Context, WatcherTicks(k, c) PROVE TypeOK'
  <2>1. c # Awake
    BY BoundAssumption DEF Context, Awake
  <2>2. LoopTypes'
    BY <1>3, <1>5, <2>1 DEF WatcherTicks, TypeOK, LoopTypes
  <2>3. QED
    BY <1>5, <2>2
    DEF WatcherTicks, TypeOK, ContextTypes, ProcessTypes, RunTypes, SshTypes, ctxVars,
        runVars, sshVars, servers
<1>6. CASE StepDown
  BY <1>6, CancelTypes
  DEF StepDown, TypeOK, ContextTypes, ProcessTypes, RunTypes, LoopTypes, SshTypes,
      runVars, loopVars, sshVars, servers
<1>7. QED BY <1>1, <1>2, <1>4, <1>5, <1>6

LEMMA NextTypes == TypeOK /\ [Next]_vars => TypeOK'
<1> SUFFICES ASSUME TypeOK, [Next]_vars PROVE TypeOK'
  OBVIOUS
<1>1. CASE UNCHANGED vars
  BY <1>1
  DEF vars, ctxVars, runVars, loopVars, sshVars, servers, TypeOK, ContextTypes, ProcessTypes,
      RunTypes, LoopTypes, SshTypes
<1>2. CASE Next
  BY <1>2, ReplaceTypes, RunStepTypes, SshStepTypes, ServeTypes, LoopStepTypes DEF Next
<1>3. QED BY <1>1, <1>2

\* The state is well typed: in particular no context beyond those made is
\* current, and only a run waits for one.
THEOREM TypeCorrect == Spec => []TypeOK
BY InitTypes, NextTypes, PTL DEF Spec

-----------------------------------------------------------------------------

\* A step of a replacement or of the start of a run keeps a process on its way
\* or starts the capture loop.
LEMMA ReplaceCaptures ==
  ASSUME TypeOK, CurrentIsCaptured, NEW p \in Process, BeginReplace(p) \/ Replace(p)
  PROVE  CurrentIsCaptured'
<1>1. CASE BeginReplace(p)
  <2>1. \A q \in Process : at[q] \in {"half", "full"} => at'[q] = at[q]
    BY <1>1 DEF BeginReplace, Goto, TypeOK, ProcessTypes
  <2>2. serverCtx' = serverCtx /\ captures' = captures /\ cancelled \subseteq cancelled'
    BY <1>1 DEF BeginReplace, CancelCurrent, loopVars
  <2>3. QED BY <2>1, <2>2 DEF CurrentIsCaptured
<1>2. CASE AssignCtx(p) \/ AssignCancel(p)
  <2>1. at'[p] \in {"half", "full"}
    BY <1>2 DEF AssignCtx, AssignCancel, Goto, TypeOK, ProcessTypes
  <2>2. QED BY <2>1 DEF CurrentIsCaptured
<1>3. CASE StartCapture(p)
  <2>1. captures' = [captures EXCEPT ![serverCtx] = @ + 1] /\ serverCtx' = serverCtx
    BY <1>3 DEF StartCapture, ctxVars
  <2>2. captures \in [Context -> Nat] /\ serverCtx \in Context \cup {0}
    BY DEF TypeOK, LoopTypes, ContextTypes
  <2>3. serverCtx # 0 => captures'[serverCtx] > 0
    BY <2>1, <2>2
  <2>4. QED BY <2>1, <2>3 DEF CurrentIsCaptured
<1>4. QED BY <1>1, <1>2, <1>3 DEF Replace

\* Every other step leaves the current context, its capture loop and the
\* processes on their way as they are.
LEMMA OthersCapture ==
  ASSUME TypeOK, CurrentIsCaptured,
         /\ serverCtx' = serverCtx /\ cancelled \subseteq cancelled'
         /\ \A c \in Context \ cancelled : captures'[c] = captures[c]
         /\ \A q \in Process : at[q] \in {"half", "full"} => at'[q] = at[q]
  PROVE  CurrentIsCaptured'
BY DEF CurrentIsCaptured, TypeOK, ContextTypes

LEMMA NextCaptures == TypeOK /\ CurrentIsCaptured /\ [Next]_vars => CurrentIsCaptured'
<1> SUFFICES ASSUME TypeOK, CurrentIsCaptured, [Next]_vars
             PROVE  CurrentIsCaptured'
  OBVIOUS
<1>1. ASSUME NEW p \in Process, BeginReplace(p) \/ Replace(p)
      PROVE  CurrentIsCaptured'
  BY <1>1, ReplaceCaptures
<1>2. ASSUME NEW r \in Runner, RunBegins(r) \/ RunStep(r)
      PROVE  CurrentIsCaptured'
  <2>1. serverCtx' = serverCtx /\ cancelled' = cancelled /\ captures' = captures
    BY <1>2
    DEF RunBegins, RunStep, RunBeginsSetup, StartHelpers, Block, Return, ctxVars, loopVars
  <2>2. \A q \in Process : at[q] \in {"half", "full"} => at'[q] = at[q]
    BY <1>2, RunnersAreProcesses
    DEF RunBegins, RunStep, RunBeginsSetup, StartHelpers, Block, Return, Goto, TypeOK, ProcessTypes
  <2>3. QED BY <2>1, <2>2, OthersCapture
<1>3. ASSUME NEW h \in Handler, EditSsh(h) \/ Regenerate(h) \/ SshStep(h)
      PROVE  CurrentIsCaptured'
  <2>1. serverCtx' = serverCtx /\ cancelled' = cancelled /\ captures' = captures
    BY <1>3
    DEF EditSsh, Regenerate, SshStep, ApplySsh, HandlerStopsSsh, HandlerStartsSsh,
        ctxVars, loopVars
  <2>2. \A q \in Process : at[q] \in {"half", "full"} => at'[q] = at[q]
    BY <1>3, HandlersAreProcesses
    DEF EditSsh, Regenerate, SshStep, ApplySsh, HandlerStopsSsh, HandlerStartsSsh,
        Goto, TypeOK,
        ProcessTypes
  <2>3. QED BY <2>1, <2>2, OthersCapture
<1>4. ASSUME NEW c \in Context, CaptureEnds(c)
      PROVE  CurrentIsCaptured'
  <2>1. serverCtx' = serverCtx /\ cancelled' = cancelled /\ at' = at
    BY <1>4 DEF CaptureEnds, ctxVars
  <2>2. \A d \in Context \ cancelled : captures'[d] = captures[d]
    BY <1>4 DEF CaptureEnds, TypeOK, LoopTypes
  <2>3. QED BY <2>1, <2>2, OthersCapture
<1>5. CASE \/ \E k \in Kind : \/ WatcherSelects(k)
                              \/ \E c \in Context : WatcherTicks(k, c) \/ WatcherEnds(k, c)
           \/ StepDown
           \/ \E port \in Port : ServeBegins(port) \/ ServeFails(port)
           \/ UNCHANGED vars
  <2>1. /\ serverCtx' = serverCtx /\ captures' = captures /\ at' = at
        /\ cancelled \subseteq cancelled'
    BY <1>5
    DEF WatcherSelects, WatcherTicks, WatcherEnds, StepDown, CancelCurrent, ServeBegins,
        ServeFails, vars, ctxVars, loopVars
  <2>2. QED BY <2>1, OthersCapture
<1>6. QED BY <1>1, <1>2, <1>3, <1>4, <1>5 DEF Next

\* A current context that is not done has a capture loop, or one is about to
\* start, for any number of handlers, sync goroutines and runs at once.
THEOREM AlwaysCaptured == Spec => []CurrentIsCaptured
<1>1. Init => CurrentIsCaptured
  BY DEF Init, CurrentIsCaptured
<1>2. QED BY <1>1, NextCaptures, TypeCorrect, PTL DEF Spec

\* The server that stopSSHServer knows listens or its Serve has failed, whatever
\* the settings and the runs do to it.
THEOREM AlwaysStoppable == Spec => []SshHandleListens
<1>1. Init => SshHandleListens
  BY DEF Init, SshHandleListens
<1>2. TypeOK /\ SshHandleListens /\ [Next]_vars => SshHandleListens'
  <2> SUFFICES ASSUME TypeOK, SshHandleListens, [Next]_vars
               PROVE  SshHandleListens'
    OBVIOUS
  <2>1. CASE ServerStep
    BY <2>1
    DEF ServerStep, SshHandleListens, BeginSetup, SetupFails, SetupSucceeds, StopSSH, servers
  <2>2. CASE \E port \in Port : ServeBegins(port) \/ ServeFails(port)
    <3>1. PICK port \in Port : ServeBegins(port) \/ ServeFails(port)
      BY <2>2
    <3>2. CASE ServeBegins(port)
      BY <3>2 DEF ServeBegins, SshHandleListens
    <3>3. CASE ServeFails(port)
      BY <3>3 DEF ServeFails, SshHandleListens, TypeOK, SshTypes
    <3>4. QED BY <3>1, <3>2, <3>3
  <2>3. ServerStep \/ \E port \in Port : ServeBegins(port) \/ ServeFails(port)
    <3>1. CASE UNCHANGED <<setup, servers>>
      BY <3>1 DEF ServerStep
    <3>2. ASSUME NEW r \in Runner, RunStep(r) PROVE ServerStep
      BY <3>2
      DEF RunStep, RunBeginsSetup, StartHelpers, Block, Return, ServerStep, sshVars
    <3>3. ASSUME NEW h \in Handler, SshStep(h) PROVE ServerStep
      BY <3>3 DEF SshStep, ApplySsh, HandlerStopsSsh, HandlerStartsSsh, ServerStep, sshVars
    <3>4. CASE \/ UNCHANGED vars
               \/ \E p \in Process : BeginReplace(p) \/ Replace(p)
               \/ \E r \in Runner : RunBegins(r)
               \/ \E h \in Handler : EditSsh(h) \/ Regenerate(h)
               \/ \E c \in Context : CaptureEnds(c)
               \/ \E k \in Kind :
                     \/ WatcherSelects(k)
                     \/ \E c \in Context : WatcherTicks(k, c) \/ WatcherEnds(k, c)
               \/ StepDown
      <4>1. UNCHANGED <<setup, servers>>
        BY <3>4
        DEF BeginReplace, Replace, AssignCtx, AssignCancel, StartCapture, RunBegins, EditSsh,
            Regenerate, CaptureEnds, WatcherSelects, WatcherTicks, WatcherEnds, StepDown,
            vars, sshVars
      <4>2. QED BY <3>1, <4>1
    <3>5. QED BY <3>2, <3>3, <3>4 DEF Next
  <2>4. QED BY <2>1, <2>2, <2>3
<1>3. QED BY <1>1, <1>2, TypeCorrect, PTL DEF Spec
-----------------------------------------------------------------------------
(* Which contexts there are, and who holds them.                           *)

Assigning(p) == at[p] \in {"fresh", "half"}

\* No goroutine, and no global, has a context that was not made.
OnlyMade ==
  /\ serverCtx <= made /\ serverCancel <= made
  /\ \A c \in cancelled : c <= made
  /\ \A p \in Process : mine[p] <= made

\* A context that is being assigned belongs to one process, and nobody can have
\* cancelled it.
Owned ==
  \A p \in Process :
    Assigning(p) =>
      /\ mine[p] # serverCancel /\ mine[p] \notin cancelled
      /\ \A q \in Process : q # p /\ Assigning(q) => mine[q] # mine[p]

ContextInv == OnlyMade /\ Owned

\* A process that makes a context is the only one to have it.
LEMMA ClaimsKeepContexts ==
  ASSUME TypeOK, ContextInv, NEW p \in Process, Claims(p), Goto(p, "fresh"),
         UNCHANGED <<serverCtx, serverCancel>>,
         cancelled' \subseteq cancelled \cup ({serverCancel} \ {0})
  PROVE  ContextInv'
<1>1. /\ made \in Nat /\ made' = made + 1
      /\ serverCtx \in Nat /\ serverCancel \in Nat /\ cancelled \subseteq Nat
  BY BoundAssumption DEF TypeOK, ContextTypes, Context, Claims
<1>2. /\ \A q \in Process : mine[q] \in Nat
      /\ \A q \in Process : at'[q] = IF q = p THEN "fresh" ELSE at[q]
      /\ \A q \in Process : mine'[q] = IF q = p THEN made + 1 ELSE mine[q]
  BY DEF TypeOK, ProcessTypes, Context, Claims, Goto
<1>3. OnlyMade'
  BY <1>1, <1>2 DEF ContextInv, OnlyMade
<1>4. ASSUME NEW q \in Process, Assigning(q)'
      PROVE  /\ mine'[q] # serverCancel' /\ mine'[q] \notin cancelled'
             /\ \A o \in Process : o # q /\ Assigning(o)' => mine'[o] # mine'[q]
  <2>1. CASE q = p
    <3>1. \A o \in Process : o # q => mine'[o] <= made
      BY <1>2, <2>1 DEF ContextInv, OnlyMade
    <3>2. QED BY <1>1, <1>2, <2>1, <3>1 DEF ContextInv, OnlyMade
  <2>2. CASE q # p
    <3>1. Assigning(q) /\ mine'[q] = mine[q] /\ mine[q] <= made
      BY <1>2, <1>4, <2>2 DEF Assigning, ContextInv, OnlyMade
    <3>2. mine[q] # serverCancel /\ mine[q] \notin cancelled
      BY <3>1 DEF ContextInv, Owned
    <3>3. \A o \in Process : o # q /\ Assigning(o)' => mine'[o] # mine[q]
      BY <1>1, <1>2, <3>1 DEF ContextInv, Owned, Assigning
    <3>4. QED BY <3>1, <3>2, <3>3
  <2>3. QED BY <2>1, <2>2
<1>5. QED BY <1>3, <1>4 DEF ContextInv, Owned

\* A process that goes on with the context it has made.
LEMMA AssigningKeepsContexts ==
  ASSUME TypeOK, ContextInv, NEW p \in Process, NEW label \in Label, Goto(p, label),
         UNCHANGED <<made, cancelled, mine>>,
         serverCtx' \in {serverCtx, mine[p]},
         \/ serverCancel' = serverCancel /\ (label \in {"fresh", "half"} => Assigning(p))
         \/ serverCancel' = mine[p] /\ Assigning(p) /\ label \notin {"fresh", "half"}
  PROVE  ContextInv'
<1>1. \A q \in Process : at'[q] = IF q = p THEN label ELSE at[q]
  BY DEF TypeOK, ProcessTypes, Goto
<1>2. OnlyMade'
  BY DEF ContextInv, OnlyMade
<1>3. \A q \in Process : Assigning(q)' => Assigning(q)
  BY <1>1 DEF Assigning
<1>4. Owned'
  <2>1. CASE serverCancel' = serverCancel
    BY <1>3, <2>1 DEF ContextInv, Owned
  <2>2. CASE /\ serverCancel' = mine[p] /\ Assigning(p)
             /\ label \notin {"fresh", "half"}
    BY <1>1, <1>3, <2>2 DEF ContextInv, Owned, Assigning
  <2>3. QED BY <2>1, <2>2
<1>5. QED BY <1>2, <1>4 DEF ContextInv

\* A step of others: at most it cancels the current context.
LEMMA OthersKeepContexts ==
  ASSUME TypeOK, ContextInv, UNCHANGED <<serverCtx, serverCancel, made, at, mine>>,
         cancelled' \subseteq cancelled \cup ({serverCancel} \ {0})
  PROVE  ContextInv'
BY DEF ContextInv, OnlyMade, Owned, Assigning

LEMMA NextContexts == TypeOK /\ ContextInv /\ [Next]_vars => ContextInv'
<1> SUFFICES ASSUME TypeOK, ContextInv, [Next]_vars PROVE ContextInv'
  OBVIOUS
<1> USE RunnersAreProcesses, HandlersAreProcesses
<1>1. ASSUME NEW p \in Process, BeginReplace(p) PROVE ContextInv'
  BY <1>1, ClaimsKeepContexts DEF BeginReplace, CancelCurrent
<1>2. ASSUME NEW p \in Process, Replace(p) PROVE ContextInv'
  <2>1. CASE AssignCtx(p)
    BY <2>1, AssigningKeepsContexts DEF AssignCtx, Label, Assigning
  <2>2. CASE AssignCancel(p)
    BY <2>2, AssigningKeepsContexts DEF AssignCancel, Label, Assigning
  <2>3. CASE StartCapture(p)
    <3>1. PICK label \in {"captured", "idle"} : Goto(p, label)
      BY <2>3 DEF StartCapture
    <3>2. label \in Label /\ label \notin {"fresh", "half"}
      BY DEF Label
    <3>3. QED BY <2>3, <3>1, <3>2, AssigningKeepsContexts DEF StartCapture, ctxVars
  <2>4. QED BY <1>2, <2>1, <2>2, <2>3 DEF Replace
<1>3. ASSUME NEW r \in Runner, RunBegins(r) PROVE ContextInv'
  BY <1>3, ClaimsKeepContexts DEF RunBegins
<1>4. ASSUME NEW r \in Runner, RunStep(r) PROVE ContextInv'
  <2>1. PICK label \in {"runSetup", "helpers", "blocked", "idle"} : Goto(r, label)
    BY <1>4 DEF RunStep, RunBeginsSetup, StartHelpers, Block, Return
  <2>2. label \in Label /\ label \notin {"fresh", "half"} /\ UNCHANGED <<ctxVars, mine>>
    BY <1>4 DEF Label, RunStep, RunBeginsSetup, StartHelpers, Block, Return
  <2>3. QED BY <2>1, <2>2, AssigningKeepsContexts DEF ctxVars
<1>5. ASSUME NEW h \in Handler, EditSsh(h) \/ Regenerate(h) \/ SshStep(h)
      PROVE  ContextInv'
  <2>1. PICK label \in {"sshSet", "sshStop", "sshRestart", "sshStart", "sshSetup", "idle"} :
          Goto(h, label)
    BY <1>5 DEF EditSsh, Regenerate, SshStep, ApplySsh, HandlerStopsSsh, HandlerStartsSsh
  <2>2. label \in Label /\ label \notin {"fresh", "half"} /\ UNCHANGED <<ctxVars, mine>>
    BY <1>5 DEF Label, EditSsh, Regenerate, SshStep, ApplySsh, HandlerStopsSsh, HandlerStartsSsh
  <2>3. QED BY <2>1, <2>2, AssigningKeepsContexts DEF ctxVars
<1>6. CASE \/ \E c \in Context : CaptureEnds(c)
           \/ \E k \in Kind : \/ WatcherSelects(k)
                              \/ \E c \in Context : WatcherTicks(k, c) \/ WatcherEnds(k, c)
           \/ StepDown
           \/ \E port \in Port : ServeBegins(port) \/ ServeFails(port)
           \/ UNCHANGED vars
  <2>1. /\ UNCHANGED <<serverCtx, serverCancel, made, at, mine>>
        /\ cancelled' \subseteq cancelled \cup ({serverCancel} \ {0})
    BY <1>6
    DEF CaptureEnds, WatcherSelects, WatcherTicks, WatcherEnds, StepDown, CancelCurrent,
        ServeBegins, ServeFails, vars, ctxVars
  <2>2. QED BY <2>1, OthersKeepContexts
<1>7. QED BY <1>1, <1>2, <1>3, <1>4, <1>5, <1>6 DEF Next

LEMMA ContextsInvariant == Spec => []ContextInv
<1>1. Init => ContextInv
  BY DEF Init, ContextInv, OnlyMade, Owned, Assigning
<1>2. QED BY <1>1, NextContexts, TypeCorrect, PTL DEF Spec

\* A context that becomes the current one, and the one that serverCancel comes to
\* cancel, are not done: however replacements and runs overlap, nobody cancels a
\* context between the moment it is made and its assignment.
THEOREM NewContextsAreLive ==
  Spec => [][/\ serverCtx' # serverCtx => serverCtx' \notin cancelled'
             /\ serverCancel' # serverCancel => serverCancel' \notin cancelled']_vars
<1> DEFINE Live == /\ serverCtx' # serverCtx => serverCtx' \notin cancelled'
                   /\ serverCancel' # serverCancel => serverCancel' \notin cancelled'
<1>1. TypeOK /\ ContextInv /\ [Next]_vars => [Live]_vars
  <2> SUFFICES ASSUME TypeOK, ContextInv, Next PROVE Live
    OBVIOUS
  <2>1. ASSUME NEW p \in Process, AssignCtx(p) \/ AssignCancel(p) PROVE Live
    BY <2>1 DEF AssignCtx, AssignCancel, ContextInv, Owned, Assigning
  <2>2. CASE UNCHANGED <<serverCtx, serverCancel>>
    BY <2>2
  <2>3. \/ UNCHANGED <<serverCtx, serverCancel>>
        \/ \E p \in Process : AssignCtx(p) \/ AssignCancel(p)
    BY DEF Next, BeginReplace, Replace, StartCapture, RunBegins, RunStep, RunBeginsSetup, StartHelpers,
           Block, Return, EditSsh, Regenerate, SshStep, ApplySsh, HandlerStopsSsh,
           HandlerStartsSsh, ServeBegins, ServeFails,
           CaptureEnds, WatcherSelects, WatcherTicks, WatcherEnds, StepDown, ctxVars
  <2>4. QED BY <2>1, <2>2, <2>3
<1> HIDE DEF Live
<1>2. QED BY <1>1, ContextsInvariant, TypeCorrect, PTL DEF Spec, Live
-----------------------------------------------------------------------------
(* Who reads the context.                                                  *)

\* The processes past the assignment, and the renewal and deploy goroutines, find
\* a context, and a run blocks on one.
NeverNil ==
  /\ \A p \in Process :
        at[p] \in {"half", "full", "captured", "runSetup", "helpers", "blocked"} =>
            serverCtx # 0
  /\ \A k \in Kind : \A c \in Context \cup {Awake} : watchers[k][c] > 0 => serverCtx # 0
  /\ \A r \in Runner : at[r] = "blocked" => waits[r] # 0

\* Once there is a context there always is, and then only blocking matters.
LEMMA ContextStays ==
  ASSUME TypeOK, NeverNil, serverCtx # 0, serverCtx' # 0,
         \A r \in Runner : at'[r] = "blocked" =>
            (at[r] = "blocked" /\ waits'[r] = waits[r]) \/ waits'[r] = serverCtx
  PROVE  NeverNil'
BY DEF NeverNil

\* Where a process may be while there is none.
NotYet == {"fresh", "idle", "sshSet", "sshStop", "sshRestart", "sshStart", "sshSetup"}

\* While there is none, no process is past the assignment.
LEMMA WithoutContext ==
  ASSUME TypeOK, NeverNil, serverCtx = 0,
         \A p \in Process : at'[p] = at[p] \/ at'[p] \in NotYet,
         UNCHANGED <<serverCtx, waits, watchers>>
  PROVE  NeverNil'
BY RunnersAreProcesses DEF NeverNil, NotYet

LEMMA NextNil == TypeOK /\ NeverNil /\ [Next]_vars => NeverNil'
<1> SUFFICES ASSUME TypeOK, NeverNil, [Next]_vars PROVE NeverNil'
  OBVIOUS
<1> USE RunnersAreProcesses, HandlersAreProcesses
<1>1. ASSUME NEW p \in Process, NEW label \in Label, Goto(p, label),
             UNCHANGED <<serverCtx, waits, watchers>>,
             \/ label \in NotYet
             \/ serverCtx # 0 /\ label # "blocked"
      PROVE  NeverNil'
  <2>1. \A q \in Process : at'[q] = IF q = p THEN label ELSE at[q]
    BY <1>1 DEF TypeOK, ProcessTypes, Goto
  <2>2. CASE serverCtx = 0
    BY <1>1, <2>1, <2>2, WithoutContext
  <2>3. CASE serverCtx # 0
    BY <1>1, <2>1, <2>3, ContextStays DEF NotYet
  <2>4. QED BY <2>2, <2>3
<1>2. ASSUME NEW p \in Process, AssignCtx(p) PROVE NeverNil'
  <2>1. /\ serverCtx' # 0 /\ waits' = waits
        /\ \A q \in Process : at'[q] = IF q = p THEN "half" ELSE at[q]
    BY <1>2 DEF AssignCtx, Goto, TypeOK, ProcessTypes, Context, runVars
  <2>2. QED BY <2>1 DEF NeverNil
<1>3. ASSUME NEW p \in Process, AssignCancel(p) \/ StartCapture(p) PROVE NeverNil'
  <2>1. at[p] \in {"half", "full"} /\ serverCtx # 0
    BY <1>3 DEF AssignCancel, StartCapture, NeverNil
  <2>2. PICK label \in {"full", "captured", "idle"} : Goto(p, label)
    BY <1>3 DEF AssignCancel, StartCapture
  <2>3. label \in Label /\ label # "blocked" /\ UNCHANGED <<serverCtx, waits, watchers>>
    BY <1>3 DEF AssignCancel, StartCapture, Label, ctxVars, runVars, loopVars
  <2>4. QED BY <1>1, <2>1, <2>2, <2>3
<1>4. ASSUME NEW p \in Process, BeginReplace(p) PROVE NeverNil'
  BY <1>1, <1>4 DEF BeginReplace, Label, NotYet, runVars, loopVars
<1>5. ASSUME NEW r \in Runner, RunBegins(r) \/ RunStep(r) PROVE NeverNil'
  <2>1. CASE RunBegins(r)
    BY <1>1, <2>1 DEF RunBegins, Label, NotYet, loopVars
  <2>2. CASE StartHelpers(r)
    <3>1. serverCtx # 0 /\ serverCtx' = serverCtx /\ waits' = waits
      BY <2>2 DEF StartHelpers, NeverNil, ctxVars
    <3>2. \A q \in Process : at'[q] = IF q = r THEN "helpers" ELSE at[q]
      BY <2>2 DEF StartHelpers, Goto, TypeOK, ProcessTypes
    <3>3. QED BY <3>1, <3>2, ContextStays
  <2>3. CASE Block(r)
    <3>1. serverCtx # 0 /\ serverCtx' = serverCtx
      BY <2>3 DEF Block, NeverNil, ctxVars
    <3>2. /\ \A q \in Process : at'[q] = IF q = r THEN "blocked" ELSE at[q]
          /\ \A q \in Runner : waits'[q] = IF q = r THEN serverCtx ELSE waits[q]
      BY <2>3 DEF Block, Goto, TypeOK, ProcessTypes, RunTypes
    <3>3. QED BY <3>1, <3>2, ContextStays
  <2>4. CASE Return(r)
    BY <1>1, <2>4 DEF Return, Label, NotYet, ctxVars, loopVars
  <2>5. CASE RunBeginsSetup(r)
    <3>1. serverCtx # 0
      BY <2>5 DEF RunBeginsSetup, NeverNil
    <3>2. QED BY <1>1, <2>5, <3>1 DEF RunBeginsSetup, Label, ctxVars, runVars, loopVars
  <2>6. QED BY <1>5, <2>1, <2>2, <2>3, <2>4, <2>5 DEF RunStep
<1>6. ASSUME NEW h \in Handler, EditSsh(h) \/ Regenerate(h) \/ SshStep(h)
      PROVE  NeverNil'
  <2>1. PICK label \in {"sshSet", "sshStop", "sshRestart", "sshStart", "sshSetup", "idle"} :
          Goto(h, label)
    BY <1>6 DEF EditSsh, Regenerate, SshStep, ApplySsh, HandlerStopsSsh, HandlerStartsSsh
  <2>2. label \in Label /\ label \in NotYet /\ UNCHANGED <<serverCtx, waits, watchers>>
    BY <1>6
    DEF Label, NotYet, EditSsh, Regenerate, SshStep, ApplySsh, HandlerStopsSsh, HandlerStartsSsh,
        ctxVars,
        runVars, loopVars
  <2>3. QED BY <1>1, <2>1, <2>2
<1>7. ASSUME UNCHANGED <<serverCtx, waits, at>>, serverCtx # 0 \/ watchers' = watchers
      PROVE  NeverNil'
  BY <1>7 DEF NeverNil
<1>8. ASSUME NEW k \in Kind, NEW c \in Context \cup {Awake}, watchers[k][c] > 0
      PROVE  serverCtx # 0
  BY <1>8 DEF NeverNil
<1>9. CASE \/ \E k \in Kind : \/ WatcherSelects(k)
                              \/ \E c \in Context : WatcherTicks(k, c) \/ WatcherEnds(k, c)
  <2>1. UNCHANGED <<serverCtx, waits, at>>
    BY <1>9 DEF WatcherSelects, WatcherTicks, WatcherEnds, ctxVars, runVars
  <2>2. serverCtx # 0
    BY <1>8, <1>9 DEF WatcherSelects, WatcherTicks, WatcherEnds, Moves
  <2>3. QED BY <1>7, <2>1, <2>2
<1>10. CASE \/ StepDown \/ UNCHANGED vars
            \/ \E c \in Context : CaptureEnds(c)
            \/ \E port \in Port : ServeBegins(port) \/ ServeFails(port)
  BY <1>7, <1>10 DEF StepDown, CaptureEnds, ServeBegins, ServeFails, vars, ctxVars, runVars, loopVars
<1>11. QED BY <1>2, <1>3, <1>4, <1>5, <1>6, <1>9, <1>10 DEF Next, Replace

\* No goroutine selects on, blocks on or captures for a context that is nil, in
\* whichever order the goroutines of a run and of the handlers come to it.
THEOREM ContextIsThere == Spec => []NeverNil
<1>1. Init => NeverNil
  BY RunnersAreProcesses DEF Init, NeverNil
<1>2. QED BY <1>1, NextNil, TypeCorrect, PTL DEF Spec
=============================================================================
