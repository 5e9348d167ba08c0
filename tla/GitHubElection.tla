--------------------------- MODULE GitHubElection ---------------------------
(***************************************************************************)
(* Leader election through primary_server.json in a GitHub repository      *)
(* (main.go: startGitHubLeaderElection, tryClaimLeadership,                *)
(* writePrimaryServerFile, renewLeadership and the renewal goroutine of    *)
(* runServerComponents).                                                   *)
(*                                                                         *)
(* The file is a lease: its holder and the time it was written.  A host    *)
(* GETs it, decides from what it read, and PUTs it back with the blob SHA  *)
(* of what it read, so a PUT takes effect only if nobody wrote in between. *)
(* Two threads of a host use the file: the main election loop and the      *)
(* renewal goroutine of a running server; a GET and the PUT that follows   *)
(* it are separate steps, and anything may happen between them.            *)
(***************************************************************************)
EXTENDS Integers

CONSTANTS
    Host,        \* the instances, named by their AgentID
    NoHost,      \* the empty string: no file, no known leader
    Interval,    \* electionInterval, in clock ticks
    Skew,        \* Skew[h]: how far h's clock runs ahead of true time
    MaxAge,      \* lease ages at or above this bound are not told apart
    RetryLimit,  \* the failed elections after which a host falls back (3)
    MaxDisturbances  \* bound: the faults and user commands of a behaviour

ASSUME HostAssumption == NoHost \notin Host
ASSUME TimeAssumption ==
    /\ Interval \in Nat
    /\ MaxAge \in Nat
    /\ Skew \in [Host -> Int]
    /\ \A g, h \in Host : Interval + Skew[g] - Skew[h] < MaxAge
ASSUME RetryAssumption == RetryLimit \in Nat \ {0}
ASSUME DisturbanceAssumption == MaxDisturbances \in Nat

VARIABLES
    lease,       \* primary_server.json: its holder (NoHost: absent) and age
    op,          \* op[h][t]: what thread t of h does between its GET and PUT
    main,        \* main[h]: where h's election loop is
    serving,     \* a run of h's server components waits on the current context
    starting,    \* a run in the background has not made its context yet
    renewer,     \* h's renewal goroutine: off, on, or told to stop
    serverMode,  \* cfg.IsServerMode
    status,      \* globalElectionStatus.LeaderID
    retries,     \* electionRetries
    authBad,     \* GitHub answered 401/403: back off from GitHub
    disturbances \* how many faults and user commands are still to come

vars == <<lease, op, main, serving, starting, renewer, serverMode, status,
          retries, authBad, disturbances>>

loopVars   == <<main, serving, starting, renewer, retries>>
Thread     == {"main", "renewer"}
Leaders    == Host \cup {NoHost}
\* create, own, steal: the PUT of tryClaimLeadership for a missing file, its
\* own file, a stale file; own, probe, reclaim: renewLeadership's own file,
\* and another host's file while its server is probed and after it did not
\* answer.
Kinds      == {"idle", "create", "own", "steal", "probe", "reclaim"}
\* seen: the holder in the file that was read; current: the blob SHA that was
\* read is still the file's SHA.
Ops        == [kind : Kinds, seen : Leaders, current : BOOLEAN]
IdleOp     == [kind |-> "idle", seen |-> NoHost, current |-> FALSE]
\* serving: blocked on the current server context; stuck: blocked on a context
\* that another run has replaced, and that nobody can cancel any more.
MainStates == {"lan", "electing", "fallback", "agent", "serving", "stuck"}

TypeOK ==
    /\ lease \in [holder : Leaders, age : 0..MaxAge]
    /\ op \in [Host -> [Thread -> Ops]]
    /\ main \in [Host -> MainStates]
    /\ serving \in [Host -> BOOLEAN]
    /\ starting \in [Host -> BOOLEAN]
    /\ renewer \in [Host -> {"off", "on", "stopping"}]
    /\ serverMode \in [Host -> BOOLEAN]
    /\ status \in [Host -> Leaders]
    /\ retries \in [Host -> 0..(RetryLimit - 1)]
    /\ authBad \in [Host -> BOOLEAN]
    /\ disturbances \in 0..MaxDisturbances

\* Every host has just started; the repository may hold any old lease.
Init ==
    /\ lease \in [holder : Leaders, age : 0..MaxAge]
    /\ op = [h \in Host |-> [t \in Thread |-> IdleOp]]
    /\ main = [h \in Host |-> "lan"]
    /\ serving = [h \in Host |-> FALSE]
    /\ starting = [h \in Host |-> FALSE]
    /\ renewer = [h \in Host |-> "off"]
    /\ serverMode = [h \in Host |-> FALSE]
    /\ status = [h \in Host |-> NoHost]
    /\ retries = [h \in Host |-> 0]
    /\ authBad = [h \in Host |-> FALSE]
    /\ disturbances = MaxDisturbances

-----------------------------------------------------------------------------
(* Helpers. *)

\* A fault, or a command of a user.
Disturb ==
    /\ disturbances > 0
    /\ disturbances' = disturbances - 1
Undisturbed == UNCHANGED disturbances

\* time.Since(leaderTime) on h's clock: the holder stamped the file with its
\* own clock.
SeenAge(h) == lease.age + Skew[h] - Skew[lease.holder]

\* The holder h reads in the file has not renewed for the election interval.
Expired(h) == lease.holder \in Host /\ SeenAge(h) > Interval

\* isLeaderStale: the file is missing or another host's and expired.
LeaderStale(h) == lease.holder = NoHost \/ (lease.holder # h /\ Expired(h))

Idle(h, t) == op[h][t].kind = "idle"

\* The thread read the file and will PUT (or first probe) as kind k says.
StartOp(h, t, k) ==
    op' = [op EXCEPT ![h][t] =
              [kind |-> k, seen |-> lease.holder, current |-> TRUE]]

EndOp(h, t) == op' = [op EXCEPT ![h][t] = IdleOp]

\* Variant of Accepted: the PUT carries no SHA and overwrites any file.
AcceptedWithoutSHA(h, t) == op[h][t].kind # "create" \/ lease.holder = NoHost

\* GitHub accepts a PUT without SHA only when there is no file, and a PUT
\* with a SHA only when it is the file's.
Accepted(h, t) ==
    \/ op[h][t].kind = "create" /\ lease.holder = NoHost
    \/ op[h][t].kind # "create" /\ op[h][t].current

\* The file is h's from now on, and every SHA read before is outdated.
WriteLease(h, t) ==
    /\ lease' = [holder |-> h, age |-> 0]
    /\ op' = [g \in Host |-> [u \in Thread |->
                 IF g = h /\ u = t THEN IdleOp
                                   ELSE [op[g][u] EXCEPT !.current = FALSE]]]

\* runServerComponents up to where it blocks: a new context, and a new renewal
\* goroutine; one that is there already selects on the new context from now on.
StartServer(h) ==
    /\ serving' = [serving EXCEPT ![h] = TRUE]
    /\ renewer' = [renewer EXCEPT ![h] = "on"]
    /\ serverMode' = [serverMode EXCEPT ![h] = TRUE]

\* serverCancel(): the run that waits on the current context returns to its
\* caller.  One that waits on a context of before does not.
StopServer(h) ==
    /\ main' = [main EXCEPT ![h] = IF @ = "serving" THEN "electing" ELSE @]
    /\ serving' = [serving EXCEPT ![h] = FALSE]
    /\ UNCHANGED starting

\* The renewal goroutine will find the cancelled context done ...
StopRenewer(h) ==
    renewer' = [renewer EXCEPT ![h] = IF @ = "on" THEN "stopping" ELSE @]

\* ... but a goroutine that was not in its select when a new context took the
\* place of the cancelled one goes on under the new one.
StopOrLeakRenewer(h) == StopRenewer(h) \/ UNCHANGED renewer

EnterMain(h, where) == main' = [main EXCEPT ![h] = where]

SetMode(h, mode) == serverMode' = [serverMode EXCEPT ![h] = mode]

\* What a caller of tryClaimLeadership does with (true, nil), (false, nil) and
\* an error: the renewal goroutine ignores it; the election loop serves,
\* becomes an agent, or retries and after RetryLimit errors falls back.
ClaimWon(h, t) ==
    IF t = "main"
      THEN /\ EnterMain(h, "serving") /\ StartServer(h)
           /\ retries' = [retries EXCEPT ![h] = 0]
           /\ UNCHANGED starting
      ELSE UNCHANGED loopVars /\ UNCHANGED serverMode

ClaimLost(h, t) ==
    IF t = "main"
      THEN /\ EnterMain(h, "agent")
           /\ retries' = [retries EXCEPT ![h] = 0]
           /\ UNCHANGED <<serving, starting, renewer>>
      ELSE UNCHANGED loopVars

\* Variants of ClaimError: one error too many is counted, and no fallback.
ClaimErrorLate(h, t) ==
    IF t = "main"
      THEN /\ IF retries[h] < RetryLimit
                THEN UNCHANGED main /\ retries' = [retries EXCEPT ![h] = @ + 1]
                ELSE /\ EnterMain(h, "fallback")
                     /\ retries' = [retries EXCEPT ![h] = 0]
           /\ UNCHANGED <<serving, starting, renewer>>
      ELSE UNCHANGED loopVars

ClaimErrorForEver(h, t) == UNCHANGED loopVars

ClaimError(h, t) ==
    IF t = "main"
      THEN /\ IF retries[h] + 1 < RetryLimit
                THEN UNCHANGED main /\ retries' = [retries EXCEPT ![h] = @ + 1]
                ELSE /\ EnterMain(h, "fallback")
                     /\ retries' = [retries EXCEPT ![h] = 0]
           /\ UNCHANGED <<serving, starting, renewer>>
      ELSE UNCHANGED loopVars

-----------------------------------------------------------------------------
(* Phase 1 of startGitHubLeaderElection: the LAN election, or its timeout. *)

LanElected(h) ==
    /\ main[h] = "lan"
    /\ EnterMain(h, "serving") /\ StartServer(h)
    /\ UNCHANGED <<lease, op, starting, status, retries, authBad, disturbances>>

LanFoundServer(h) ==
    /\ main[h] = "lan"
    /\ EnterMain(h, "agent") /\ SetMode(h, FALSE)
    /\ UNCHANGED <<lease, op, serving, starting, renewer, status, retries,
                   authBad, disturbances>>

LanTimeout(h) ==
    /\ main[h] = "lan"
    /\ EnterMain(h, "electing")
    /\ UNCHANGED <<lease, op, serving, starting, renewer, serverMode, status,
                   retries, authBad, disturbances>>

-----------------------------------------------------------------------------
(* tryClaimLeadership, called by the election loop (t = "main") and by the *)
(* follower tick of the renewal goroutine (t = "renewer").                 *)

\* Variant of MayClaim: the follower tick only looks.
MayClaimFromLoop(h, t) == Idle(h, t) /\ t = "main" /\ main[h] = "electing"

MayClaim(h, t) ==
    /\ Idle(h, t)
    /\ \/ t = "main" /\ main[h] = "electing"
       \/ t = "renewer" /\ renewer[h] # "off" /\ status[h] # h

\* The loop clears cfg.IsServerMode before it claims, the tick does not.
ClearMode(h, t) ==
    IF t = "main" THEN SetMode(h, FALSE) ELSE UNCHANGED serverMode

\* The token is known to be bad, or the GET fails (denied: with 401/403).
ClaimReadFails(h, t, denied) ==
    /\ MayClaim(h, t) /\ ClearMode(h, t)
    /\ IF authBad[h] THEN Undisturbed /\ ~denied ELSE Disturb
    /\ authBad' = [authBad EXCEPT ![h] = @ \/ denied]
    /\ status' = [status EXCEPT ![h] = NoHost]
    /\ ClaimError(h, t)
    /\ UNCHANGED <<lease, op>>

\* Another host holds a lease that has not expired: become its agent.
ClaimSeesActive(h, t) ==
    /\ MayClaim(h, t) /\ ClearMode(h, t)
    /\ ~authBad[h]
    /\ lease.holder \in Host \ {h} /\ ~Expired(h)
    /\ status' = [status EXCEPT ![h] = lease.holder]
    /\ ClaimLost(h, t)
    /\ UNCHANGED <<lease, op, authBad, disturbances>>

\* Variant of ClaimDecides: the age of the lease is not checked.
ClaimDecidesOnAnyLease(h, t) ==
    /\ MayClaim(h, t) /\ ClearMode(h, t)
    /\ ~authBad[h]
    /\ \/ lease.holder = NoHost /\ StartOp(h, t, "create")
       \/ lease.holder = h /\ StartOp(h, t, "own")
       \/ lease.holder \in Host \ {h} /\ StartOp(h, t, "steal")
    /\ UNCHANGED <<lease, status, authBad, disturbances>>
    /\ UNCHANGED loopVars

\* No file, the host's own file, or an expired one: go on to write it.
ClaimDecides(h, t) ==
    /\ MayClaim(h, t) /\ ClearMode(h, t)
    /\ ~authBad[h]
    /\ \/ lease.holder = NoHost /\ StartOp(h, t, "create")
       \/ lease.holder = h /\ StartOp(h, t, "own")
       \/ lease.holder # h /\ Expired(h) /\ StartOp(h, t, "steal")
    /\ UNCHANGED <<lease, status, authBad, disturbances>> /\ UNCHANGED loopVars

-----------------------------------------------------------------------------
(* writePrimaryServerFile and what its callers record of the outcome.      *)

Writing(h, t) == op[h][t].kind \in {"create", "own", "steal", "reclaim"}

\* setElectionStatus after a PUT; a reclaim records nothing.
Record(h, t, leader) ==
    status' = IF op[h][t].kind = "reclaim" THEN status
                                           ELSE [status EXCEPT ![h] = leader]

\* 200/201: the file is ours.
WriteSucceeds(h, t) ==
    /\ Writing(h, t) /\ Accepted(h, t)
    /\ WriteLease(h, t)
    /\ authBad' = [authBad EXCEPT ![h] = FALSE]
    /\ Record(h, t, h)
    /\ ClaimWon(h, t)
    /\ Undisturbed

\* 409, or 401/403 (denied): (false, nil), act as agent.  With no error the
\* callers record themselves as the leader here too.
WriteRefused(h, t, denied) ==
    /\ Writing(h, t)
    /\ IF denied THEN Disturb
       ELSE Undisturbed /\ op[h][t].kind # "create" /\ ~Accepted(h, t)
    /\ EndOp(h, t)
    /\ authBad' = [authBad EXCEPT ![h] = @ \/ denied]
    /\ Record(h, t, h)
    /\ ClaimLost(h, t)
    /\ UNCHANGED <<lease, serverMode>>

\* The request failed, or another status came back (422 when a PUT without
\* SHA meets a file); a lost answer leaves the write in effect (applied).
WriteErrors(h, t, applied) ==
    /\ Writing(h, t)
    /\ Disturb \/ (Undisturbed /\ op[h][t].kind = "create" /\ ~Accepted(h, t))
    /\ IF applied THEN Accepted(h, t) /\ WriteLease(h, t)
                  ELSE EndOp(h, t) /\ UNCHANGED lease
    /\ Record(h, t, op[h][t].seen)
    /\ ClaimError(h, t)
    /\ UNCHANGED <<serverMode, authBad>>

-----------------------------------------------------------------------------
(* The leader tick of the renewal goroutine: renewLeadership.              *)

MayRenew(h) ==
    /\ Idle(h, "renewer") /\ renewer[h] # "off"
    /\ status[h] = h \/ ~serverMode[h]
    /\ ~authBad[h]

\* The request fails, or is denied.  (Any other answer that is no file ends
\* the tick and changes nothing.)
RenewReadFails(h, denied) ==
    /\ MayRenew(h) /\ Disturb
    /\ status' = [status EXCEPT ![h] = NoHost]
    /\ authBad' = [authBad EXCEPT ![h] = denied]
    /\ UNCHANGED <<lease, op, serverMode>> /\ UNCHANGED loopVars

\* Write a missing or an own file; probe the holder of another's first.
RenewDecides(h) ==
    /\ MayRenew(h)
    /\ \/ lease.holder = NoHost /\ StartOp(h, "renewer", "create")
       \/ lease.holder = h /\ StartOp(h, "renewer", "own")
       \/ lease.holder \in Host \ {h} /\ StartOp(h, "renewer", "probe")
    /\ UNCHANGED <<lease, serverMode, status, authBad, disturbances>>
    /\ UNCHANGED loopVars

\* The new holder answers on port 8080: step down.
StepDown(h) ==
    /\ op[h]["renewer"].kind = "probe"
    /\ EndOp(h, "renewer")
    /\ StopServer(h) /\ StopRenewer(h) /\ SetMode(h, FALSE)
    /\ UNCHANGED <<lease, status, retries, authBad, disturbances>>

\* It does not answer: write the file with the SHA read before the probe.
ProbeFails(h) ==
    /\ op[h]["renewer"].kind = "probe"
    /\ op' = [op EXCEPT ![h]["renewer"].kind = "reclaim"]
    /\ UNCHANGED <<lease, serverMode, status, authBad, disturbances>>
    /\ UNCHANGED loopVars

\* The goroutine selects Done.
RenewerExits(h) ==
    /\ renewer[h] = "stopping" /\ Idle(h, "renewer")
    /\ renewer' = [renewer EXCEPT ![h] = "off"]
    /\ UNCHANGED <<lease, op, main, serving, starting, serverMode, status,
                   retries, authBad, disturbances>>

-----------------------------------------------------------------------------
(* The rest of the election loop, and what ends a server or an agent.      *)

\* After RetryLimit errors: some server answers at the configured address ...
FallbackFindsServer(h) ==
    /\ main[h] = "fallback"
    /\ EnterMain(h, "agent")
    /\ UNCHANGED <<lease, op, serving, starting, renewer, serverMode, status,
                   retries, authBad, disturbances>>

\* ... or none does, and the host serves without a lease.
FallbackServes(h) ==
    /\ main[h] = "fallback"
    /\ EnterMain(h, "serving") /\ StartServer(h)
    /\ UNCHANGED <<lease, op, starting, status, retries, authBad, disturbances>>

\* runAgentClient, not connected to any server, finds the leader stale and
\* returns to the election loop.
AgentLeaves(h) ==
    /\ main[h] = "agent" /\ LeaderStale(h)
    /\ EnterMain(h, "electing")
    /\ UNCHANGED <<lease, op, serving, starting, renewer, serverMode, status,
                   retries, authBad, disturbances>>

\* The server does not answer after maxAttempts: start the server components
\* in the background and return to the election loop.  isLeaderStale is FALSE
\* when its request fails.  Bound: one such run at a time is on its way.
AgentAutoPromotes(h) ==
    /\ main[h] = "agent" /\ ~starting[h] /\ Disturb
    /\ EnterMain(h, "electing") /\ SetMode(h, TRUE)
    /\ starting' = [starting EXCEPT ![h] = TRUE]
    /\ UNCHANGED <<lease, op, serving, renewer, status, retries, authBad>>

\* The run in the background replaces the server context (it may have had to
\* install cloudflared first).  A run of the main loop that waits already goes
\* on waiting for the replaced context; one that is not there yet will wait
\* for the new one.
BackgroundStarts(h) ==
    /\ starting[h]
    /\ starting' = [starting EXCEPT ![h] = FALSE]
    /\ StartServer(h)
    /\ \/ UNCHANGED main
       \/ main[h] = "serving" /\ EnterMain(h, "stuck")
    /\ UNCHANGED <<lease, op, status, retries, authBad, disturbances>>

\* set_fps, or a settings sync with max_fps: the server context is replaced,
\* which matters where a run or a renewal goroutine lives on it.
ReplaceServerContext(h) ==
    /\ serving[h] \/ renewer[h] = "on"
    /\ Disturb
    /\ StopServer(h) /\ StopOrLeakRenewer(h)
    /\ UNCHANGED <<lease, op, serverMode, status, retries, authBad>>

\* promote_to_server without a target, or /api/promote.
Promote(h) ==
    /\ SetMode(h, TRUE) /\ Disturb
    /\ StopServer(h) /\ StopOrLeakRenewer(h)
    /\ UNCHANGED <<lease, op, status, retries, authBad>>

\* /api/settings with a new token, which is tested at once.
UpdateToken(h, works) ==
    /\ IF works THEN authBad[h] /\ Undisturbed ELSE Disturb
    /\ authBad' = [authBad EXCEPT ![h] = ~works]
    /\ UNCHANGED <<lease, op, serverMode, status>> /\ UNCHANGED loopVars

\* The process dies and the watchdog starts it again; a PUT it had not sent
\* is lost.
Crash(h) ==
    /\ Disturb
    /\ op' = [op EXCEPT ![h] = [t \in Thread |-> IdleOp]]
    /\ EnterMain(h, "lan")
    /\ serving' = [serving EXCEPT ![h] = FALSE]
    /\ starting' = [starting EXCEPT ![h] = FALSE]
    /\ renewer' = [renewer EXCEPT ![h] = "off"]
    /\ SetMode(h, FALSE)
    /\ status' = [status EXCEPT ![h] = NoHost]
    /\ retries' = [retries EXCEPT ![h] = 0]
    /\ authBad' = [authBad EXCEPT ![h] = FALSE]
    /\ UNCHANGED lease

-----------------------------------------------------------------------------
(* The environment. *)

Tick ==
    /\ lease.holder \in Host
    /\ lease.age < MaxAge
    /\ lease' = [lease EXCEPT !.age = @ + 1]
    /\ UNCHANGED <<op, serverMode, status, authBad, disturbances>>
    /\ UNCHANGED loopVars

ClaimStep(h, t) ==
    \/ \E denied \in BOOLEAN : ClaimReadFails(h, t, denied)
    \/ ClaimSeesActive(h, t)
    \/ ClaimDecides(h, t)

WriteStep(h, t) ==
    \/ WriteSucceeds(h, t)
    \/ \E denied \in BOOLEAN : WriteRefused(h, t, denied)
    \/ \E applied \in BOOLEAN : WriteErrors(h, t, applied)

RenewStep(h) ==
    \/ \E denied \in BOOLEAN : RenewReadFails(h, denied)
    \/ RenewDecides(h)

ProbeStep(h) == StepDown(h) \/ ProbeFails(h)

\* The two threads of a host: startGitHubLeaderElection and the renewal
\* goroutine.
LoopThread(h) ==
    \/ LanElected(h) \/ LanFoundServer(h) \/ LanTimeout(h)
    \/ ClaimStep(h, "main") \/ WriteStep(h, "main")
    \/ FallbackFindsServer(h) \/ FallbackServes(h)

RenewerThread(h) ==
    \/ RenewStep(h) \/ ProbeStep(h)
    \/ ClaimStep(h, "renewer") \/ WriteStep(h, "renewer")
    \/ RenewerExits(h)

OutsideStep(h) ==
    \/ AgentLeaves(h) \/ AgentAutoPromotes(h) \/ BackgroundStarts(h)
    \/ ReplaceServerContext(h) \/ Promote(h) \/ Crash(h)
    \/ \E works \in BOOLEAN : UpdateToken(h, works)

Next ==
    \/ \E h \in Host : LoopThread(h) \/ RenewerThread(h) \/ OutsideStep(h)
    \/ Tick

Spec == Init /\ [][Next]_vars

\* Time passes, and a thread that runs takes its next step: the tickers fire
\* and every request ends by its client's timeout.  Nothing is assumed of
\* users, of crashes or of what ends an agent's connection.
Fairness ==
    /\ WF_vars(Tick)
    /\ \A h \in Host : WF_vars(LoopThread(h)) /\ WF_vars(RenewerThread(h))

LiveSpec == Spec /\ Fairness

-----------------------------------------------------------------------------
(* Properties. *)

\* What a pending write knows.  While the SHA it read is still the file's,
\* what it decided from holds: the file is still its own (own), still
\* another's and expired (steal), still another's (probe, reclaim).  This is
\* what makes two separate requests, with any number of other hosts' requests
\* in between, one atomic decision on the lease.
PendingIsCurrent(h, t) ==
    op[h][t].current =>
        /\ op[h][t].seen = lease.holder
        /\ op[h][t].kind = "create" => lease.holder = NoHost
        /\ op[h][t].kind = "own" => lease.holder = h
        /\ op[h][t].kind = "steal" => lease.holder # h /\ Expired(h)
        /\ op[h][t].kind \in {"probe", "reclaim"} =>
              lease.holder \in Host \ {h}

PendingWritesSound == \A h \in Host, t \in Thread : PendingIsCurrent(h, t)

\* Only the renewal goroutine probes and reclaims.
OnlyRenewerProbes ==
    \A h \in Host : op[h]["main"].kind \notin {"probe", "reclaim"}

Reclaims(h) == op[h]["renewer"].kind = "reclaim"

\* The lease moves to another host only at a step at which it is expired on
\* that host's clock, or when that host deposed it after its holder did not
\* answer: never because of what was read before somebody else's write
\* (tryClaimLeadership, main.go:1730; renewLeadership, main.go:1883).
TakeoverJustified ==
    [][\A h \in Host :
         lease'.holder = h /\ lease.holder \in Host \ {h}
            => Expired(h) \/ Reclaims(h)]_vars

\* The hosts that found the holder dead since it wrote the lease.
Unanswered ==
    {h \in Host : Reclaims(h) /\ op[h]["renewer"].current}

\* The GETs, probes and conditional PUTs implement a lease that is changed in
\* single atomic steps (ElectionLease).
Lease == INSTANCE ElectionLease WITH unanswered <- Unanswered
LeaseSpec == Lease!Spec

\* An election of h ends: its loop becomes a server or an agent, through the
\* fallback if GitHub keeps failing.
ElectionEnds(h) ==
    main[h] \in {"lan", "electing", "fallback"}
        ~> main[h] \in {"agent", "serving"}

\* While the server h with a valid token runs, the lease does not stay
\* abandoned: the holder renews it, a follower tick takes it over once it has
\* expired, or a deposed leader reclaims it (the two tickers of
\* main.go:1971-1998 with tryClaimLeadership and renewLeadership).
LeaseStaysAlive(h) ==
    serving[h] /\ ~authBad[h]
        ~> \/ lease.holder \in Host /\ lease.age = 0
           \/ ~serving[h] \/ authBad[h]
=============================================================================
