------------------------ MODULE GitHubElectionProofs ------------------------
(***************************************************************************)
(* Proofs about GitHubElection, for every set of hosts, every interval,    *)
(* every assignment of clocks and every number of disturbances.            *)
(***************************************************************************)
EXTENDS GitHubElection, TLAPS

\* What an action makes of the pending requests has their type.
LEMMA OpTypes ==
    ASSUME TypeOK, NEW h \in Host, NEW t \in Thread
    PROVE  /\ EndOp(h, t) => op' \in [Host -> [Thread -> Ops]]
           /\ WriteLease(h, t) => op' \in [Host -> [Thread -> Ops]]
           /\ \A k \in Kinds : StartOp(h, t, k) => op' \in [Host -> [Thread -> Ops]]
<1>1. IdleOp \in Ops
  BY DEF IdleOp, Ops, Kinds, Leaders
<1>2. EndOp(h, t) => op' \in [Host -> [Thread -> Ops]]
  BY <1>1 DEF EndOp, TypeOK
<1>3. ASSUME WriteLease(h, t) PROVE op' \in [Host -> [Thread -> Ops]]
  <2>1. \A o \in Ops : [o EXCEPT !.current = FALSE] \in Ops
    BY DEF Ops
  <2>2. \A g \in Host, u \in Thread : op[g][u] \in Ops
    BY DEF TypeOK
  <2>3. QED BY <1>1, <1>3, <2>1, <2>2 DEF WriteLease
<1>4. ASSUME NEW k \in Kinds, StartOp(h, t, k)
      PROVE  op' \in [Host -> [Thread -> Ops]]
  <2>1. [kind |-> k, seen |-> lease.holder, current |-> TRUE] \in Ops
    BY DEF TypeOK, Ops
  <2>2. QED BY <1>4, <2>1 DEF StartOp, TypeOK
<1>5. QED BY <1>2, <1>3, <1>4

\* The parts of TypeOK that the loop variables make up.
LoopTypes ==
    /\ main \in [Host -> MainStates]
    /\ serving \in [Host -> BOOLEAN]
    /\ starting \in [Host -> BOOLEAN]
    /\ renewer \in [Host -> {"off", "on", "stopping"}]
    /\ serverMode \in [Host -> BOOLEAN]
    /\ retries \in [Host -> 0..(RetryLimit - 1)]

\* What the callers of tryClaimLeadership do keeps these types.
LEMMA ClaimTypes ==
    ASSUME TypeOK, NEW h \in Host, NEW t \in Thread,
           serverMode' \in [Host -> BOOLEAN]
    PROVE  /\ ClaimWon(h, t) => LoopTypes'
           /\ ClaimLost(h, t) => LoopTypes'
           /\ ClaimError(h, t) => LoopTypes'
<1>1. UNCHANGED loopVars => LoopTypes'
  BY DEF loopVars, LoopTypes, TypeOK
<1>2. ASSUME t = "main", ClaimWon(h, t) PROVE LoopTypes'
  <2>1. retries' \in [Host -> 0..(RetryLimit - 1)]
    BY <1>2, RetryAssumption DEF ClaimWon, TypeOK
  <2>2. /\ main' \in [Host -> MainStates]
        /\ serving' \in [Host -> BOOLEAN]
        /\ starting' \in [Host -> BOOLEAN]
        /\ renewer' \in [Host -> {"off", "on", "stopping"}]
    BY <1>2 DEF ClaimWon, StartServer, EnterMain, TypeOK, MainStates
  <2>3. QED BY <2>1, <2>2 DEF LoopTypes
<1>3. ASSUME t = "main", ClaimLost(h, t) PROVE LoopTypes'
  BY <1>3, RetryAssumption
     DEF ClaimLost, EnterMain, LoopTypes, TypeOK, MainStates
<1>4. ASSUME t = "main", ClaimError(h, t) PROVE LoopTypes'
  <2>1. retries' \in [Host -> 0..(RetryLimit - 1)]
    BY <1>4, RetryAssumption DEF ClaimError, TypeOK
  <2>2. /\ main' \in [Host -> MainStates]
        /\ UNCHANGED <<serving, starting, renewer>>
    BY <1>4 DEF ClaimError, EnterMain, TypeOK, MainStates
  <2>3. QED BY <2>1, <2>2 DEF LoopTypes, TypeOK
<1>5. QED BY <1>1, <1>2, <1>3, <1>4 DEF ClaimWon, ClaimLost, ClaimError

\* The first write is at age 0, and time stops at the bound.
LEMMA LeaseTypes ==
    ASSUME TypeOK, NEW h \in Host, NEW t \in Thread
    PROVE  /\ WriteLease(h, t) => lease' \in [holder : Leaders, age : 0..MaxAge]
           /\ Tick => lease' \in [holder : Leaders, age : 0..MaxAge]
<1>1. lease \in [holder : Leaders, age : 0..MaxAge]
  BY DEF TypeOK
<1>2. WriteLease(h, t) => lease' \in [holder : Leaders, age : 0..MaxAge]
  BY TimeAssumption DEF WriteLease, Leaders
<1>3. Tick => lease' \in [holder : Leaders, age : 0..MaxAge]
  BY <1>1, TimeAssumption DEF Tick
<1>4. QED BY <1>2, <1>3

LEMMA LoopThreadTypes ==
    ASSUME TypeOK, NEW h \in Host,
           LanElected(h) \/ LanFoundServer(h) \/ LanTimeout(h)
           \/ FallbackFindsServer(h) \/ FallbackServes(h)
    PROVE  TypeOK'
BY DEF LanElected, LanFoundServer, LanTimeout, FallbackFindsServer,
       FallbackServes, EnterMain, SetMode, StartServer, TypeOK, MainStates

LEMMA ClaimStepTypes ==
    ASSUME TypeOK, NEW h \in Host, NEW t \in Thread, ClaimStep(h, t)
    PROVE  TypeOK'
<1>1. serverMode' \in [Host -> BOOLEAN]
  BY DEF ClaimStep, ClaimReadFails, ClaimSeesActive, ClaimDecides, ClearMode,
         SetMode, TypeOK
<1>2. CASE \E denied \in BOOLEAN : ClaimReadFails(h, t, denied)
  <2>1. LoopTypes'
    BY <1>1, <1>2, ClaimTypes DEF ClaimReadFails
  <2>2. disturbances' \in 0..MaxDisturbances
    BY <1>2, DisturbanceAssumption
       DEF ClaimReadFails, Disturb, Undisturbed, TypeOK
  <2>3. status' \in [Host -> Leaders] /\ authBad' \in [Host -> BOOLEAN]
    BY <1>2 DEF ClaimReadFails, TypeOK, Leaders
  <2>4. QED BY <1>2, <2>1, <2>2, <2>3 DEF ClaimReadFails, LoopTypes, TypeOK
<1>3. CASE ClaimSeesActive(h, t)
  <2>1. LoopTypes'
    BY <1>1, <1>3, ClaimTypes DEF ClaimSeesActive
  <2>2. QED BY <1>3, <2>1 DEF ClaimSeesActive, LoopTypes, TypeOK, Leaders
<1>4. CASE ClaimDecides(h, t)
  <2>1. op' \in [Host -> [Thread -> Ops]]
    BY <1>4, OpTypes DEF ClaimDecides, Kinds
  <2>2. QED BY <1>1, <1>4, <2>1 DEF ClaimDecides, loopVars, TypeOK
<1>5. QED BY <1>2, <1>3, <1>4 DEF ClaimStep

LEMMA WriteStepTypes ==
    ASSUME TypeOK, NEW h \in Host, NEW t \in Thread, WriteStep(h, t)
    PROVE  TypeOK'
<1>1. op[h][t].seen \in Leaders
  BY DEF TypeOK, Ops
<1>2. \A g \in Leaders : Record(h, t, g) => status' \in [Host -> Leaders]
  BY DEF Record, TypeOK
<1>3. CASE WriteSucceeds(h, t)
  <2>1. serverMode' \in [Host -> BOOLEAN]
    BY <1>3 DEF WriteSucceeds, ClaimWon, StartServer, TypeOK
  <2>2. LoopTypes'
    BY <1>3, <2>1, ClaimTypes DEF WriteSucceeds
  <2>3. op' \in [Host -> [Thread -> Ops]]
    BY <1>3, OpTypes DEF WriteSucceeds
  <2>4. lease' \in [holder : Leaders, age : 0..MaxAge]
    BY <1>3, LeaseTypes DEF WriteSucceeds
  <2>5. status' \in [Host -> Leaders]
    BY <1>2, <1>3 DEF WriteSucceeds, Leaders
  <2>6. QED BY <1>3, <2>2, <2>3, <2>4, <2>5
            DEF WriteSucceeds, Undisturbed, LoopTypes, TypeOK
<1>4. CASE \E denied \in BOOLEAN : WriteRefused(h, t, denied)
  <2>1. serverMode' \in [Host -> BOOLEAN]
    BY <1>4 DEF WriteRefused, TypeOK
  <2>2. LoopTypes'
    BY <1>4, <2>1, ClaimTypes DEF WriteRefused
  <2>3. op' \in [Host -> [Thread -> Ops]]
    BY <1>4, OpTypes DEF WriteRefused
  <2>4. status' \in [Host -> Leaders]
    BY <1>2, <1>4 DEF WriteRefused, Leaders
  <2>5. disturbances' \in 0..MaxDisturbances
    BY <1>4, DisturbanceAssumption
       DEF WriteRefused, Disturb, Undisturbed, TypeOK
  <2>6. QED BY <1>4, <2>2, <2>3, <2>4, <2>5
            DEF WriteRefused, LoopTypes, TypeOK
<1>5. CASE \E applied \in BOOLEAN : WriteErrors(h, t, applied)
  <2>1. serverMode' \in [Host -> BOOLEAN]
    BY <1>5 DEF WriteErrors, TypeOK
  <2>2. LoopTypes'
    BY <1>5, <2>1, ClaimTypes DEF WriteErrors
  <2>3. op' \in [Host -> [Thread -> Ops]]
    BY <1>5, OpTypes DEF WriteErrors
  <2>4. lease' \in [holder : Leaders, age : 0..MaxAge]
    BY <1>5, LeaseTypes DEF WriteErrors, TypeOK
  <2>5. status' \in [Host -> Leaders]
    BY <1>1, <1>2, <1>5 DEF WriteErrors
  <2>6. disturbances' \in 0..MaxDisturbances
    BY <1>5, DisturbanceAssumption
       DEF WriteErrors, Disturb, Undisturbed, TypeOK
  <2>7. QED BY <1>5, <2>2, <2>3, <2>4, <2>5, <2>6
            DEF WriteErrors, LoopTypes, TypeOK
<1>6. QED BY <1>3, <1>4, <1>5 DEF WriteStep

LEMMA RenewerTypes ==
    ASSUME TypeOK, NEW h \in Host,
           RenewStep(h) \/ ProbeStep(h) \/ RenewerExits(h)
    PROVE  TypeOK'
<1>0. "renewer" \in Thread
  BY DEF Thread
<1>1. CASE \E denied \in BOOLEAN : RenewReadFails(h, denied)
  BY <1>1, DisturbanceAssumption
     DEF RenewReadFails, Disturb, loopVars, TypeOK, Leaders
<1>2. CASE RenewDecides(h)
  <2>1. op' \in [Host -> [Thread -> Ops]]
    BY <1>0, <1>2, OpTypes DEF RenewDecides, Kinds
  <2>2. QED BY <1>2, <2>1 DEF RenewDecides, loopVars, TypeOK
<1>3. CASE StepDown(h)
  <2>1. op' \in [Host -> [Thread -> Ops]]
    BY <1>0, <1>3, OpTypes DEF StepDown
  <2>2. QED BY <1>3, <2>1
            DEF StepDown, StopServer, StopRenewer, SetMode, TypeOK, MainStates
<1>4. CASE ProbeFails(h)
  <2>1. \A o \in Ops : [o EXCEPT !.kind = "reclaim"] \in Ops
    BY DEF Ops, Kinds
  <2>2. op' \in [Host -> [Thread -> Ops]]
    BY <1>0, <1>4, <2>1 DEF ProbeFails, TypeOK
  <2>3. QED BY <1>4, <2>2 DEF ProbeFails, loopVars, TypeOK
<1>5. CASE RenewerExits(h)
  BY <1>5 DEF RenewerExits, TypeOK
<1>6. QED BY <1>1, <1>2, <1>3, <1>4, <1>5 DEF RenewStep, ProbeStep

LEMMA OutsideTypes ==
    ASSUME TypeOK, NEW h \in Host, OutsideStep(h)
    PROVE  TypeOK'
<1>1. CASE AgentLeaves(h)
  BY <1>1 DEF AgentLeaves, EnterMain, TypeOK, MainStates
<1>2. CASE AgentAutoPromotes(h)
  BY <1>2, DisturbanceAssumption
     DEF AgentAutoPromotes, Disturb, EnterMain, SetMode, TypeOK, MainStates
<1>3. CASE ReplaceServerContext(h)
  BY <1>3, DisturbanceAssumption
     DEF ReplaceServerContext, Disturb, StopServer, StopOrLeakRenewer,
         StopRenewer, TypeOK, MainStates
<1>4. CASE Promote(h)
  BY <1>4, DisturbanceAssumption
     DEF Promote, Disturb, StopServer, StopOrLeakRenewer, StopRenewer, SetMode,
         TypeOK, MainStates
<1>5. CASE \E works \in BOOLEAN : UpdateToken(h, works)
  BY <1>5, DisturbanceAssumption DEF UpdateToken, Disturb, Undisturbed, loopVars,
                                     TypeOK
<1>6. CASE Crash(h)
  <2>1. op' \in [Host -> [Thread -> Ops]]
    BY <1>6 DEF Crash, IdleOp, Ops, Kinds, Leaders, TypeOK
  <2>2. QED BY <1>6, <2>1, DisturbanceAssumption, RetryAssumption
            DEF Crash, Disturb, EnterMain, SetMode, TypeOK, MainStates, Leaders
<1>7. CASE BackgroundStarts(h)
  BY <1>7 DEF BackgroundStarts, StartServer, EnterMain, TypeOK, MainStates
<1>8. QED BY <1>1, <1>2, <1>3, <1>4, <1>5, <1>6, <1>7 DEF OutsideStep

LEMMA TypeInit == Init => TypeOK
BY RetryAssumption, DisturbanceAssumption
   DEF Init, TypeOK, Leaders, Ops, Kinds, IdleOp, MainStates

LEMMA TypeStep == TypeOK /\ [Next]_vars => TypeOK'
<1> SUFFICES ASSUME TypeOK, [Next]_vars PROVE TypeOK'
  OBVIOUS
<1>1. ASSUME NEW h \in Host, LoopThread(h) PROVE TypeOK'
  BY <1>1, LoopThreadTypes, ClaimStepTypes, WriteStepTypes
     DEF LoopThread, Thread
<1>2. ASSUME NEW h \in Host, RenewerThread(h) PROVE TypeOK'
  BY <1>2, RenewerTypes, ClaimStepTypes, WriteStepTypes
     DEF RenewerThread, Thread
<1>3. CASE Tick
  <2>1. lease' \in [holder : Leaders, age : 0..MaxAge]
    <3>1. lease \in [holder : Leaders, age : 0..MaxAge]
      BY DEF TypeOK
    <3>2. QED BY <1>3, <3>1, TimeAssumption DEF Tick
  <2>2. QED BY <1>3, <2>1 DEF Tick, loopVars, TypeOK
<1>4. CASE UNCHANGED vars
  BY <1>4 DEF vars, TypeOK
<1>5. QED BY <1>1, <1>2, <1>3, <1>4, OutsideTypes DEF Next

\* Every reachable state is well typed: in particular a host never counts more
\* than RetryLimit - 1 failed elections, and time stays within its bound.
THEOREM TypeCorrect == Spec => []TypeOK
BY TypeInit, TypeStep, PTL DEF Spec

-----------------------------------------------------------------------------
(* Pending requests. *)

\* PendingWritesSound is inductive together with the types; OnlyRenewerProbes
\* then tells by whom an accepted write may be a reclaim.
IInv == TypeOK /\ PendingWritesSound /\ OnlyRenewerProbes

\* What the steps of all actions do to the lease and the pending requests.
Wrote(h, t) == Writing(h, t) /\ Accepted(h, t) /\ WriteLease(h, t)

Ended(h, t) == EndOp(h, t) /\ UNCHANGED lease

Started(h, t) ==
    /\ Idle(h, t) /\ UNCHANGED lease
    /\ \/ lease.holder = NoHost /\ StartOp(h, t, "create")
       \/ lease.holder = h /\ StartOp(h, t, "own")
       \/ lease.holder # h /\ Expired(h) /\ StartOp(h, t, "steal")
       \/ /\ t = "renewer" /\ lease.holder \in Host \ {h}
          /\ StartOp(h, t, "probe")

Unreached(h) ==
    /\ op[h]["renewer"].kind = "probe"
    /\ op' = [op EXCEPT ![h]["renewer"].kind = "reclaim"]
    /\ UNCHANGED lease

Restarted(h) ==
    /\ op' = [op EXCEPT ![h] = [t \in Thread |-> IdleOp]]
    /\ UNCHANGED lease

RequestStep ==
    \/ \E h \in Host :
          \/ \E t \in Thread : Wrote(h, t) \/ Ended(h, t) \/ Started(h, t)
          \/ Unreached(h) \/ Restarted(h)
    \/ Tick
    \/ UNCHANGED <<lease, op>>

LEMMA ClaimIsRequestStep ==
    ASSUME NEW h \in Host, NEW t \in Thread, ClaimStep(h, t)
    PROVE  RequestStep
BY DEF ClaimStep, ClaimReadFails, ClaimSeesActive, ClaimDecides, MayClaim,
       RequestStep, Started

LEMMA WriteIsRequestStep ==
    ASSUME NEW h \in Host, NEW t \in Thread, WriteStep(h, t)
    PROVE  RequestStep
BY DEF WriteStep, WriteSucceeds, WriteRefused, WriteErrors, RequestStep, Wrote,
       Ended

LEMMA NextIsRequestStep == [Next]_vars => RequestStep
<1>1. ASSUME NEW h \in Host, LoopThread(h) PROVE RequestStep
  <2>1. CASE \/ LanElected(h) \/ LanFoundServer(h) \/ LanTimeout(h)
             \/ FallbackFindsServer(h) \/ FallbackServes(h)
    BY <2>1 DEF LanElected, LanFoundServer, LanTimeout, FallbackFindsServer,
                FallbackServes, RequestStep
  <2>2. QED BY <1>1, <2>1, ClaimIsRequestStep, WriteIsRequestStep
            DEF LoopThread, Thread
<1>2. ASSUME NEW h \in Host, RenewerThread(h) PROVE RequestStep
  <2>1. CASE RenewStep(h) \/ ProbeStep(h) \/ RenewerExits(h)
    BY <2>1 DEF RenewStep, RenewReadFails, RenewDecides, MayRenew, ProbeStep,
                StepDown, ProbeFails, RenewerExits, RequestStep, Started,
                Ended, Unreached, Thread
  <2>2. QED BY <1>2, <2>1, ClaimIsRequestStep, WriteIsRequestStep
            DEF RenewerThread, Thread
<1>3. ASSUME NEW h \in Host, OutsideStep(h) PROVE RequestStep
  BY <1>3 DEF OutsideStep, AgentLeaves, AgentAutoPromotes, BackgroundStarts,
              ReplaceServerContext, Promote, UpdateToken, Crash, RequestStep,
              Restarted
<1>4. UNCHANGED vars => RequestStep
  BY DEF vars, RequestStep
<1>5. QED BY <1>1, <1>2, <1>3, <1>4 DEF Next, RequestStep

\* After a write nobody holds the SHA of the file.
LEMMA PendingAfterWrite ==
    ASSUME TypeOK, NEW h \in Host, NEW t \in Thread, WriteLease(h, t)
    PROVE  \A g \in Host, u \in Thread :
              ~op'[g][u].current /\ op'[g][u].kind \in {op[g][u].kind, "idle"}
<1> SUFFICES ASSUME NEW g \in Host, NEW u \in Thread
             PROVE  /\ ~op'[g][u].current
                    /\ op'[g][u].kind \in {op[g][u].kind, "idle"}
  OBVIOUS
<1>1. op[g][u] \in Ops
  BY DEF TypeOK
<1>2. \A o \in Ops : /\ ~[o EXCEPT !.current = FALSE].current
                     /\ [o EXCEPT !.current = FALSE].kind = o.kind
  BY DEF Ops
<1>3. QED BY <1>1, <1>2 DEF WriteLease, IdleOp

\* A request that is not changed stays sound while the lease is not written.
LEMMA PendingUnchanged ==
    ASSUME TypeOK, NEW g \in Host, NEW u \in Thread, PendingIsCurrent(g, u),
           op'[g][u] = op[g][u], UNCHANGED lease \/ Tick
    PROVE  PendingIsCurrent(g, u)'
<1>1. CASE UNCHANGED lease
  BY <1>1 DEF PendingIsCurrent, Expired, SeenAge
<1>2. CASE Tick
  <2>1. lease'.holder = lease.holder /\ lease'.age = lease.age + 1
    BY <1>2 DEF Tick, TypeOK
  <2>2. Expired(g) => Expired(g)'
    <3>1. /\ lease.holder \in Host => Skew[lease.holder] \in Int
          /\ Skew[g] \in Int /\ lease.age \in Int /\ Interval \in Int
      BY TimeAssumption DEF TypeOK
    <3>2. QED BY <2>1, <3>1 DEF Expired, SeenAge
  <2>3. QED BY <2>1, <2>2 DEF PendingIsCurrent
<1>3. QED BY <1>1, <1>2

LEMMA PendingStep ==
    ASSUME IInv, RequestStep
    PROVE  PendingWritesSound' /\ OnlyRenewerProbes'
<1> USE DEF IInv
<1> DEFINE Probing == {"probe", "reclaim"}
           Kept(g, u) == /\ PendingIsCurrent(g, u)'
                         /\ u = "main" => op'[g][u].kind \notin Probing
<1> SUFFICES ASSUME NEW g \in Host, NEW u \in Thread PROVE Kept(g, u)
  BY DEF PendingWritesSound, OnlyRenewerProbes, Thread
<1>1. PendingIsCurrent(g, u) /\ (u = "main" => op[g][u].kind \notin Probing)
  BY DEF PendingWritesSound, OnlyRenewerProbes
<1>2. op'[g][u] = op[g][u] /\ (UNCHANGED lease \/ Tick) => Kept(g, u)
  BY <1>1, PendingUnchanged
<1>3. op'[g][u] = IdleOp => Kept(g, u)
  BY DEF PendingIsCurrent, IdleOp
<1>4. ASSUME NEW h \in Host, NEW t \in Thread, Wrote(h, t) PROVE Kept(g, u)
  BY <1>1, <1>4, PendingAfterWrite DEF Wrote, PendingIsCurrent
<1>5. ASSUME NEW h \in Host, NEW t \in Thread, Ended(h, t) PROVE Kept(g, u)
  <2>1. op'[g][u] = op[g][u] \/ op'[g][u] = IdleOp
    BY <1>5 DEF Ended, EndOp, TypeOK
  <2>2. QED BY <1>2, <1>3, <1>5, <2>1 DEF Ended
<1>6. ASSUME NEW h \in Host, NEW t \in Thread, Started(h, t) PROVE Kept(g, u)
  <2>1. CASE g = h /\ u = t
    <3>1. UNCHANGED lease /\ lease.holder \in Leaders
      BY <1>6 DEF Started, TypeOK
    <3>2. ASSUME NEW k, StartOp(h, t, k)
          PROVE  /\ op'[g][u].kind = k /\ op'[g][u].seen = lease'.holder
                 /\ op'[g][u].current
      BY <2>1, <3>1, <3>2 DEF StartOp, TypeOK
    <3>3. Expired(g)' <=> Expired(g)
      BY <3>1 DEF Expired, SeenAge
    <3>4. CASE lease.holder = NoHost /\ StartOp(h, t, "create")
      BY <3>1, <3>2, <3>4 DEF PendingIsCurrent
    <3>5. CASE lease.holder = h /\ StartOp(h, t, "own")
      BY <2>1, <3>1, <3>2, <3>5 DEF PendingIsCurrent
    <3>6. CASE lease.holder # h /\ Expired(h) /\ StartOp(h, t, "steal")
      BY <2>1, <3>1, <3>2, <3>3, <3>6 DEF PendingIsCurrent
    <3>7. CASE /\ t = "renewer" /\ lease.holder \in Host \ {h}
               /\ StartOp(h, t, "probe")
      BY <2>1, <3>1, <3>2, <3>7 DEF PendingIsCurrent
    <3>8. QED BY <1>6, <3>4, <3>5, <3>6, <3>7 DEF Started
  <2>2. CASE ~(g = h /\ u = t)
    <3>1. \A k : StartOp(h, t, k) => op'[g][u] = op[g][u]
      BY <2>2 DEF StartOp, TypeOK
    <3>2. QED BY <1>2, <1>6, <3>1 DEF Started
  <2>3. QED BY <2>1, <2>2
<1>7. ASSUME NEW h \in Host, Unreached(h) PROVE Kept(g, u)
  <2>1. CASE g = h /\ u = "renewer"
    <3>1. op[g][u] \in Ops
      BY DEF TypeOK
    <3>2. op'[g][u] = [op[g][u] EXCEPT !.kind = "reclaim"]
      BY <1>7, <2>1 DEF Unreached, TypeOK
    <3>3. \A o \in Ops : /\ [o EXCEPT !.kind = "reclaim"].kind = "reclaim"
                         /\ [o EXCEPT !.kind = "reclaim"].seen = o.seen
                         /\ [o EXCEPT !.kind = "reclaim"].current = o.current
      BY DEF Ops
    <3>4. /\ op'[g][u].kind = "reclaim" /\ op'[g][u].seen = op[g][u].seen
          /\ op'[g][u].current = op[g][u].current
      BY <3>1, <3>2, <3>3
    <3>5. op[g][u].kind = "probe" /\ UNCHANGED lease
      BY <1>7, <2>1 DEF Unreached
    <3>6. PendingIsCurrent(g, u)'
      BY <1>1, <2>1, <3>4, <3>5 DEF PendingIsCurrent
    <3>7. QED BY <2>1, <3>6
  <2>2. CASE ~(g = h /\ u = "renewer")
    <3>1. op'[g][u] = op[g][u]
      BY <1>7, <2>2 DEF Unreached, TypeOK
    <3>2. QED BY <1>2, <1>7, <3>1 DEF Unreached
  <2>3. QED BY <2>1, <2>2
<1>8. ASSUME NEW h \in Host, Restarted(h) PROVE Kept(g, u)
  <2>1. op'[g][u] = op[g][u] \/ op'[g][u] = IdleOp
    BY <1>8 DEF Restarted, TypeOK
  <2>2. QED BY <1>2, <1>3, <1>8, <2>1 DEF Restarted
<1>9. CASE Tick \/ UNCHANGED <<lease, op>>
  BY <1>2, <1>9 DEF Tick
<1>10. QED BY <1>4, <1>5, <1>6, <1>7, <1>8, <1>9 DEF RequestStep

LEMMA IInvInit == Init => IInv
BY TypeInit DEF Init, IInv, PendingWritesSound, PendingIsCurrent, IdleOp,
                OnlyRenewerProbes, Thread

LEMMA IInvStep == IInv /\ [Next]_vars => IInv'
BY TypeStep, NextIsRequestStep, PendingStep DEF IInv

LEMMA IInvCorrect == Spec => []IInv
BY IInvInit, IInvStep, PTL DEF Spec

\* While the SHA a pending request holds is the file's, what it decided from
\* still holds (tryClaimLeadership, renewLeadership).
THEOREM PendingCorrect == Spec => []PendingWritesSound
BY IInvCorrect, PTL DEF IInv

-----------------------------------------------------------------------------
(* What justifies a change of holder. *)

LEMMA WriteJustified ==
    ASSUME IInv, NEW h \in Host, NEW t \in Thread, Wrote(h, t)
    PROVE  /\ lease' = [holder |-> h, age |-> 0]
           /\ \/ lease.holder = NoHost
              \/ lease.holder = h
              \/ lease.holder # h /\ Expired(h)
              \/ t = "renewer" /\ Reclaims(h) /\ op[h]["renewer"].current
<1>1. PendingIsCurrent(h, t)
  BY DEF IInv, PendingWritesSound
<1>2. op[h][t].kind \in {"create", "own", "steal", "reclaim"}
  BY DEF Wrote, Writing
<1>3. op[h][t].kind = "reclaim" => t = "renewer"
  BY DEF IInv, OnlyRenewerProbes, Thread
<1>4. QED BY <1>1, <1>2, <1>3
          DEF Wrote, WriteLease, Accepted, PendingIsCurrent, Reclaims

LEMMA TakeoverStep ==
    ASSUME IInv, [Next]_vars, NEW h \in Host,
           lease'.holder = h, lease.holder \in Host \ {h}
    PROVE  Expired(h) \/ Reclaims(h)
<1>1. PICK g \in Host, t \in Thread : Wrote(g, t)
  BY NextIsRequestStep DEF RequestStep, Ended, Started, Unreached, Restarted,
                           Tick, IInv, TypeOK
<1>2. g = h
  BY <1>1, WriteJustified
<1>3. QED BY <1>1, <1>2, WriteJustified, HostAssumption

\* The lease moves to another host only when it is expired on that host's
\* clock or that host found its holder dead, whatever the clocks and however
\* the requests of the hosts interleave.
THEOREM TakeoverCorrect == Spec => TakeoverJustified
<1>1. IInv /\ [Next]_vars =>
        [\A h \in Host :
           lease'.holder = h /\ lease.holder \in Host \ {h}
              => Expired(h) \/ Reclaims(h)]_vars
  BY TakeoverStep
<1>2. QED BY <1>1, IInvCorrect, PTL DEF Spec, TakeoverJustified

\* The holder changes only from one host to another, which at that step finds
\* the lease expired on its own clock or did not reach the holder since the
\* file was last written.
HandedOver(g, h) ==
    /\ lease.holder = g /\ lease'.holder = h
    /\ Expired(h) \/ h \in Unanswered

HolderReplaced ==
    [][\A g \in Host : lease.holder = g /\ lease'.holder # g
          => \E h \in Host \ {g} : HandedOver(g, h)]_vars

LEMMA HolderStep ==
    ASSUME IInv, [Next]_vars, NEW g \in Host,
           lease.holder = g, lease'.holder # g
    PROVE  \E h \in Host \ {g} : HandedOver(g, h)
<1>1. PICK h \in Host, t \in Thread : Wrote(h, t)
  BY NextIsRequestStep DEF RequestStep, Ended, Started, Unreached, Restarted,
                           Tick, IInv, TypeOK
<1>2. lease'.holder = h /\ h # g
  BY <1>1, WriteJustified
<1>3. Expired(h) \/ (Reclaims(h) /\ op[h]["renewer"].current)
  BY <1>1, <1>2, WriteJustified, HostAssumption
<1>4. QED BY <1>2, <1>3 DEF HandedOver, Unanswered

\* Stronger than TakeoverJustified: a probe counts only while the file is the
\* one that was read before it, so a holder that wrote its file again, though
\* it once did not answer, is not deposed by that old probe (the SHA that
\* renewLeadership carries over the probe, main.go:1858-1900).
THEOREM HolderReplacedCorrect == Spec => HolderReplaced
<1>1. IInv /\ [Next]_vars =>
        [\A g \in Host : lease.holder = g /\ lease'.holder # g
           => \E h \in Host \ {g} : HandedOver(g, h)]_vars
  BY HolderStep
<1>2. QED BY <1>1, IInvCorrect, PTL DEF Spec, HolderReplaced

\* For clocks that differ by at most drift, a lease that was written less than
\* Interval - drift ago changes hands only after an unanswered probe.
LeaseIsExclusive(drift) ==
    [][\A g \in Host :
         /\ lease.holder = g /\ lease'.holder # g
         /\ lease.age + drift <= Interval
         => lease'.holder \in Unanswered]_vars

\* With synchronized clocks (drift = 0) the interval protects a live holder to
\* its end; each unit of clock difference costs one unit of protection, and
\* no more, however the requests interleave (time.Since(leaderTime) against
\* electionInterval, main.go:1728).
THEOREM LeaseIsExclusiveCorrect ==
    ASSUME NEW drift \in Nat, \A g, h \in Host : Skew[g] - Skew[h] <= drift
    PROVE  Spec => LeaseIsExclusive(drift)
<1>1. ASSUME IInv, [Next]_vars, NEW g \in Host,
             lease.holder = g, lease'.holder # g,
             lease.age + drift <= Interval
      PROVE  lease'.holder \in Unanswered
  <2>1. PICK h \in Host \ {g} : HandedOver(g, h)
    BY <1>1, HolderStep
  <2>2. ~Expired(h)
    <3>1. lease.age \in Int /\ Interval \in Int
          /\ Skew[g] \in Int /\ Skew[h] \in Int
      BY <1>1, TimeAssumption DEF IInv, TypeOK
    <3>2. Skew[h] - Skew[g] <= drift
      OBVIOUS
    <3>3. QED BY <1>1, <3>1, <3>2 DEF Expired, SeenAge
  <2>3. QED BY <2>1, <2>2 DEF HandedOver
<1>2. IInv /\ [Next]_vars =>
        [\A g \in Host :
           /\ lease.holder = g /\ lease'.holder # g
           /\ lease.age + drift <= Interval
           => lease'.holder \in Unanswered]_vars
  BY <1>1
<1>3. QED BY <1>2, IInvCorrect, PTL DEF Spec, LeaseIsExclusive

-----------------------------------------------------------------------------
(* The requests implement ElectionLease. *)

\* An operation that is not a reclaim any more, or not yet, is not in
\* Unanswered; a change of one thread changes nobody else's membership.
LEMMA UnansweredStep ==
    ASSUME IInv, RequestStep
    PROVE  [Lease!Next]_(Lease!vars)
<1> USE DEF IInv
<1>1. ASSUME NEW h \in Host, NEW t \in Thread, Wrote(h, t)
      PROVE  Lease!Next
  <2>1. Unanswered' = {}
    BY <1>1, PendingAfterWrite DEF Wrote, Unanswered, Thread
  <2>2. Lease!Write(h)
    BY <1>1, <2>1, WriteJustified DEF Lease!Write
  <2>3. Reclaims(h) /\ op[h]["renewer"].current => h \in Unanswered
    BY DEF Unanswered
  <2>4. Expired(h) => Lease!Expired(h)
    BY DEF Expired, SeenAge, Lease!Expired
  <2>5. QED BY <1>1, <2>2, <2>3, <2>4, WriteJustified
            DEF Lease!Next, Lease!Claim, Lease!Renew, Lease!TakeOver,
                Lease!Reclaim
<1>2. ASSUME NEW h \in Host,
             \A g \in Host \ {h} : op'[g] = op[g],
             ~Reclaims(h)' \/ ~op'[h]["renewer"].current
      PROVE  Unanswered' = Unanswered \ {h}
  BY <1>2 DEF Unanswered, Reclaims
<1>3. ASSUME NEW h \in Host, \A g \in Host \ {h} : op'[g] = op[g],
             op'[h]["renewer"] = op[h]["renewer"]
      PROVE  Unanswered' = Unanswered
  BY <1>3 DEF Unanswered, Reclaims
<1>4. ASSUME NEW h \in Host, UNCHANGED lease, Unanswered' = Unanswered \ {h}
      PROVE  Lease!Next
  BY <1>4 DEF Lease!Next, Lease!Forget
<1>5. ASSUME NEW h \in Host, NEW t \in Thread, Ended(h, t) \/ Restarted(h)
      PROVE  [Lease!Next]_(Lease!vars)
  <2>1. \A g \in Host \ {h} : op'[g] = op[g]
    BY <1>5 DEF Ended, EndOp, Restarted, TypeOK
  <2>2. op'[h]["renewer"] = IdleOp \/ op'[h]["renewer"] = op[h]["renewer"]
    BY <1>5 DEF Ended, EndOp, Restarted, TypeOK, Thread
  <2>3. UNCHANGED lease
    BY <1>5 DEF Ended, Restarted
  <2>4. CASE op'[h]["renewer"] = IdleOp
    BY <1>2, <1>4, <2>1, <2>3, <2>4 DEF IdleOp
  <2>5. CASE op'[h]["renewer"] = op[h]["renewer"]
    BY <1>3, <2>1, <2>3, <2>5 DEF Lease!vars
  <2>6. QED BY <2>2, <2>4, <2>5
<1>6. ASSUME NEW h \in Host, NEW t \in Thread, Started(h, t)
      PROVE  [Lease!Next]_(Lease!vars)
  <2>1. \A g \in Host \ {h} : op'[g] = op[g]
    BY <1>6 DEF Started, StartOp, TypeOK
  <2>2. UNCHANGED lease
    BY <1>6 DEF Started
  <2>3. CASE t = "main"
    <3>1. op'[h]["renewer"] = op[h]["renewer"]
      BY <1>6, <2>3 DEF Started, StartOp, TypeOK, Thread
    <3>2. QED BY <1>3, <2>1, <2>2, <3>1 DEF Lease!vars
  <2>4. CASE t = "renewer"
    <3>1. op'[h]["renewer"].kind # "reclaim"
      BY <1>6, <2>4 DEF Started, StartOp, TypeOK, Thread
    <3>2. QED BY <1>2, <1>4, <2>1, <2>2, <3>1 DEF Reclaims
  <2>5. QED BY <2>3, <2>4 DEF Thread
<1>7. ASSUME NEW h \in Host, Unreached(h)
      PROVE  [Lease!Next]_(Lease!vars)
  <2>1. \A g \in Host \ {h} : op'[g] = op[g]
    BY <1>7 DEF Unreached, TypeOK
  <2>2. UNCHANGED lease /\ op[h]["renewer"].kind = "probe"
    BY <1>7 DEF Unreached
  <2>3. op'[h]["renewer"] = [op[h]["renewer"] EXCEPT !.kind = "reclaim"]
    BY <1>7 DEF Unreached, TypeOK, Thread
  <2>4. /\ op'[h]["renewer"].kind = "reclaim"
        /\ op'[h]["renewer"].current = op[h]["renewer"].current
    <3>1. op[h]["renewer"] \in Ops
      BY DEF TypeOK, Thread
    <3>2. \A o \in Ops : /\ [o EXCEPT !.kind = "reclaim"].kind = "reclaim"
                         /\ [o EXCEPT !.kind = "reclaim"].current = o.current
      BY DEF Ops
    <3>3. QED BY <2>3, <3>1, <3>2
  <2>5. CASE op[h]["renewer"].current
    <3>1. Unanswered' = Unanswered \cup {h}
      BY <2>1, <2>4, <2>5 DEF Unanswered, Reclaims
    <3>2. lease.holder \in Host \ {h}
      BY <2>2, <2>5 DEF PendingWritesSound, PendingIsCurrent, Thread
    <3>3. QED BY <2>2, <3>1, <3>2 DEF Lease!Next, Lease!Probe
  <2>6. CASE ~op[h]["renewer"].current
    BY <1>2, <1>4, <2>1, <2>2, <2>4, <2>6
  <2>7. QED BY <2>5, <2>6
<1>8. CASE Tick
  BY <1>8 DEF Tick, Lease!Next, Lease!Tick, Unanswered, Reclaims
<1>9. CASE UNCHANGED <<lease, op>>
  BY <1>9 DEF Lease!vars, Unanswered, Reclaims
<1>10. "main" \in Thread
  BY DEF Thread
<1>11. QED BY <1>1, <1>5, <1>6, <1>7, <1>8, <1>9, <1>10 DEF RequestStep

LEMMA LeaseInit == Init => Lease!Init
BY DEF Init, Lease!Init, Leaders, Unanswered, Reclaims, IdleOp, Thread

\* GETs, probes and conditional PUTs, from two threads of every host, implement
\* the atomic lease of ElectionLease.
THEOREM LeaseRefinement == Spec => LeaseSpec
<1>1. IInv /\ [Next]_vars => [Lease!Next]_(Lease!vars)
  BY NextIsRequestStep, UnansweredStep
<1>2. QED BY <1>1, LeaseInit, IInvCorrect, PTL DEF Spec, LeaseSpec, Lease!Spec

-----------------------------------------------------------------------------
(* Which threads write. *)

\* A request is under way only in a thread that runs: the main loop has one
\* only while it elects, a renewal goroutine that ended has none.  A main loop
\* that is blocked on the current context is one of the runs that wait on it.
ThreadsOf(h) ==
    /\ op[h]["main"].kind # "idle" => main[h] = "electing"
    /\ op[h]["renewer"].kind # "idle" => renewer[h] # "off"
    /\ main[h] = "serving" => serving[h]

RequestsHaveThreads == \A h \in Host : ThreadsOf(h)

ThreadsInv == TypeOK /\ RequestsHaveThreads

\* A step that starts no request of a host, and changes neither its loop nor
\* its server, keeps what is known of that host.
LEMMA ThreadsElsewhere ==
    ASSUME NEW g \in Host, ThreadsOf(g),
           \A t \in Thread : op'[g][t].kind \in {op[g][t].kind, "idle"},
           main'[g] = main[g], renewer'[g] = renewer[g],
           serving'[g] = serving[g]
    PROVE  ThreadsOf(g)'
BY DEF ThreadsOf, Thread

\* What the requests of thread t of h leave of the kinds of all requests.
LEMMA RequestKinds ==
    ASSUME TypeOK, NEW h \in Host, NEW t \in Thread
    PROVE  /\ EndOp(h, t) \/ WriteLease(h, t) =>
                 /\ op'[h][t].kind = "idle"
                 /\ \A g \in Host, u \in Thread :
                       op'[g][u].kind \in {op[g][u].kind, "idle"}
           /\ \A k : StartOp(h, t, k) =>
                 \A g \in Host, u \in Thread :
                    ~(g = h /\ u = t) => op'[g][u] = op[g][u]
<1>1. ASSUME EndOp(h, t)
      PROVE  /\ op'[h][t] = IdleOp
             /\ \A g \in Host, u \in Thread : op'[g][u] \in {op[g][u], IdleOp}
  BY <1>1 DEF EndOp, TypeOK
<1>2. ASSUME WriteLease(h, t)
      PROVE  op'[h][t] = IdleOp
  BY <1>2 DEF WriteLease
<1>3. \A k : StartOp(h, t, k) =>
         \A g \in Host, u \in Thread :
            ~(g = h /\ u = t) => op'[g][u] = op[g][u]
  BY DEF StartOp, TypeOK
<1>4. QED BY <1>1, <1>2, <1>3, PendingAfterWrite DEF IdleOp

\* ClaimWon, ClaimLost and ClaimError concern their own host, whose renewal
\* goroutine they never end, and move the main loop only for itself.
LEMMA OutcomeThreads ==
    ASSUME TypeOK, NEW h \in Host, NEW t \in Thread,
           ClaimWon(h, t) \/ ClaimLost(h, t) \/ ClaimError(h, t)
    PROVE  /\ \A g \in Host \ {h} : /\ main'[g] = main[g]
                                    /\ renewer'[g] = renewer[g]
                                    /\ serving'[g] = serving[g]
           /\ renewer'[h] \in {renewer[h], "on"}
           /\ t = "renewer" => main'[h] = main[h] /\ serving'[h] = serving[h]
           /\ t = "main" => (main'[h] = "serving" => serving'[h] \/ main[h] = "serving")
           /\ serving[h] => serving'[h]
BY DEF ClaimWon, ClaimLost, ClaimError, EnterMain, StartServer, loopVars,
       TypeOK, Thread

LEMMA ClaimThreads ==
    ASSUME ThreadsInv, NEW h \in Host, NEW t \in Thread, ClaimStep(h, t),
           NEW g \in Host
    PROVE  ThreadsOf(g)'
<1> USE DEF ThreadsInv
<1>0. ThreadsOf(g) /\ ThreadsOf(h)
  BY DEF RequestsHaveThreads
<1>1. CASE ClaimDecides(h, t)
  <2>1. UNCHANGED <<main, serving, renewer>>
    BY <1>1 DEF ClaimDecides, loopVars
  <2>2. \A u \in Thread : ~(g = h /\ u = t) => op'[g][u] = op[g][u]
    BY <1>1, RequestKinds DEF ClaimDecides
  <2>3. t = "main" => main[h] = "electing"
    BY <1>1 DEF ClaimDecides, MayClaim
  <2>4. t = "renewer" => renewer[h] # "off"
    BY <1>1 DEF ClaimDecides, MayClaim
  <2>5. QED BY <1>0, <2>1, <2>2, <2>3, <2>4 DEF ThreadsOf, Thread
<1>2. CASE ClaimSeesActive(h, t) \/ \E denied \in BOOLEAN : ClaimReadFails(h, t, denied)
  <2>1. op' = op /\ Idle(h, t) /\ (ClaimLost(h, t) \/ ClaimError(h, t))
    BY <1>2 DEF ClaimSeesActive, ClaimReadFails, MayClaim
  <2>2. CASE g # h
    BY <1>0, <2>1, <2>2, OutcomeThreads, ThreadsElsewhere
  <2>3. CASE g = h
    BY <1>0, <2>1, <2>3, OutcomeThreads DEF ThreadsOf, Thread, Idle
  <2>4. QED BY <2>2, <2>3
<1>3. QED BY <1>1, <1>2 DEF ClaimStep

LEMMA WriteThreads ==
    ASSUME ThreadsInv, NEW h \in Host, NEW t \in Thread, WriteStep(h, t),
           NEW g \in Host
    PROVE  ThreadsOf(g)'
<1> USE DEF ThreadsInv
<1>0. ThreadsOf(g) /\ ThreadsOf(h)
  BY DEF RequestsHaveThreads
<1>1. /\ EndOp(h, t) \/ WriteLease(h, t)
      /\ ClaimWon(h, t) \/ ClaimLost(h, t) \/ ClaimError(h, t)
  BY DEF WriteStep, WriteSucceeds, WriteRefused, WriteErrors
<1>2. /\ op'[h][t].kind = "idle"
      /\ \A u \in Thread : op'[g][u].kind \in {op[g][u].kind, "idle"}
  BY <1>1, RequestKinds
<1>3. CASE g # h
  BY <1>0, <1>1, <1>2, <1>3, OutcomeThreads, ThreadsElsewhere
<1>4. CASE g = h
  BY <1>0, <1>1, <1>2, <1>4, OutcomeThreads DEF ThreadsOf, Thread
<1>5. QED BY <1>3, <1>4

LEMMA ThreadsStep ==
    ASSUME ThreadsInv, [Next]_vars PROVE RequestsHaveThreads'
<1> USE DEF ThreadsInv
<1> SUFFICES ASSUME NEW g \in Host PROVE ThreadsOf(g)'
  BY DEF RequestsHaveThreads
<1>0. \A h \in Host : ThreadsOf(h)
  BY DEF RequestsHaveThreads
<1>1. ASSUME NEW h \in Host, LoopThread(h) PROVE ThreadsOf(g)'
  <2>1. CASE \/ LanElected(h) \/ LanFoundServer(h) \/ LanTimeout(h)
             \/ FallbackFindsServer(h) \/ FallbackServes(h)
    BY <1>0, <2>1
       DEF LanElected, LanFoundServer, LanTimeout, FallbackFindsServer,
           FallbackServes, EnterMain, StartServer, ThreadsOf, TypeOK
  <2>2. QED BY <1>1, <2>1, ClaimThreads, WriteThreads DEF LoopThread, Thread
<1>2. ASSUME NEW h \in Host, RenewerThread(h) PROVE ThreadsOf(g)'
  <2>0. "renewer" \in Thread /\ "main" \in Thread
    BY DEF Thread
  <2>1. CASE \E denied \in BOOLEAN : RenewReadFails(h, denied)
    BY <1>0, <2>1 DEF RenewReadFails, loopVars, ThreadsOf
  <2>2. CASE RenewDecides(h)
    <3>1. UNCHANGED <<main, serving, renewer>> /\ renewer[h] # "off"
      BY <2>2 DEF RenewDecides, MayRenew, loopVars
    <3>2. /\ op'[g]["main"] = op[g]["main"]
          /\ g # h => op'[g]["renewer"] = op[g]["renewer"]
      BY <2>0, <2>2, RequestKinds DEF RenewDecides
    <3>3. QED BY <1>0, <3>1, <3>2 DEF ThreadsOf
  <2>3. CASE StepDown(h)
    <3>1. \A u \in Thread : op'[g][u].kind \in {op[g][u].kind, "idle"}
      BY <2>0, <2>3, RequestKinds DEF StepDown
    <3>2. CASE g # h
      <4>1. main'[g] = main[g] /\ renewer'[g] = renewer[g]
            /\ serving'[g] = serving[g]
        BY <2>3, <3>2 DEF StepDown, StopServer, StopRenewer, TypeOK
      <4>2. QED BY <1>0, <3>1, <4>1, ThreadsElsewhere
    <3>3. CASE g = h
      <4>1. op'[h]["renewer"].kind = "idle"
        BY <2>0, <2>3, RequestKinds DEF StepDown
      <4>2. main'[h] = IF main[h] = "serving" THEN "electing" ELSE main[h]
        BY <2>3 DEF StepDown, StopServer, TypeOK
      <4>3. QED BY <1>0, <2>0, <3>1, <3>3, <4>1, <4>2 DEF ThreadsOf
    <3>4. QED BY <3>2, <3>3
  <2>4. CASE ProbeFails(h)
    <3>1. UNCHANGED <<main, serving, renewer>> /\ op[h]["renewer"].kind = "probe"
      BY <2>4 DEF ProbeFails, loopVars
    <3>2. /\ op'[g]["main"] = op[g]["main"]
          /\ g # h => op'[g]["renewer"] = op[g]["renewer"]
      BY <2>0, <2>4 DEF ProbeFails, TypeOK
    <3>3. QED BY <1>0, <3>1, <3>2 DEF ThreadsOf
  <2>5. CASE RenewerExits(h)
    BY <1>0, <2>5 DEF RenewerExits, Idle, ThreadsOf, TypeOK
  <2>6. QED BY <1>2, <2>1, <2>2, <2>3, <2>4, <2>5, ClaimThreads, WriteThreads
            DEF RenewerThread, RenewStep, ProbeStep, Thread
<1>3. ASSUME NEW h \in Host, OutsideStep(h) PROVE ThreadsOf(g)'
  <2>1. CASE Crash(h)
    <3>1. g = h => \A u \in Thread : op'[g][u] = IdleOp
      BY <2>1 DEF Crash, TypeOK
    <3>2. g # h => op'[g] = op[g]
      BY <2>1 DEF Crash, TypeOK
    <3>3. /\ g = h => main'[g] = "lan"
          /\ g # h => /\ main'[g] = main[g] /\ renewer'[g] = renewer[g]
                      /\ serving'[g] = serving[g]
      BY <2>1 DEF Crash, EnterMain, TypeOK
    <3>4. QED BY <1>0, <3>1, <3>2, <3>3 DEF ThreadsOf, IdleOp, Thread
  <2>2. CASE AgentLeaves(h) \/ AgentAutoPromotes(h) \/ BackgroundStarts(h)
    BY <1>0, <2>2 DEF AgentLeaves, AgentAutoPromotes, BackgroundStarts,
                      EnterMain, StartServer, ThreadsOf, TypeOK
  <2>3. CASE ReplaceServerContext(h) \/ Promote(h)
    <3>1. op' = op /\ StopServer(h) /\ StopOrLeakRenewer(h)
      BY <2>3 DEF ReplaceServerContext, Promote
    <3>2. QED BY <1>0, <3>1 DEF StopServer, StopOrLeakRenewer, StopRenewer,
                                ThreadsOf, TypeOK
  <2>4. CASE \E works \in BOOLEAN : UpdateToken(h, works)
    BY <1>0, <2>4 DEF UpdateToken, loopVars, ThreadsOf
  <2>5. QED BY <1>3, <2>1, <2>2, <2>3, <2>4 DEF OutsideStep
<1>4. CASE Tick \/ UNCHANGED vars
  BY <1>0, <1>4 DEF Tick, vars, loopVars, ThreadsOf
<1>5. QED BY <1>1, <1>2, <1>3, <1>4 DEF Next

LEMMA ThreadsInvCorrect == Spec => [](IInv /\ ThreadsInv)
<1>1. Init => ThreadsInv
  BY TypeInit DEF Init, ThreadsInv, RequestsHaveThreads, ThreadsOf, IdleOp, Thread
<1>2. ThreadsInv /\ [Next]_vars => ThreadsInv'
  BY TypeStep, ThreadsStep DEF ThreadsInv
<1>3. QED BY <1>1, <1>2, IInvCorrect, PTL DEF Spec

\* Whatever cancels, promotions, crashes and fallbacks did, the file is written
\* only by a host whose main loop elects or whose renewal goroutine runs, never
\* by one that has become another's agent and has lost its goroutine.
OnlyRunningThreadsWrite ==
    [][\A h \in Host : lease' = [holder |-> h, age |-> 0] /\ lease' # lease
          => main[h] = "electing" \/ renewer[h] # "off"]_vars

\* Requests belong to threads that run, and so do the writes of the file
\* (main.go:1485-1560, 1969-1998).
THEOREM ThreadsCorrect ==
    Spec => []RequestsHaveThreads /\ OnlyRunningThreadsWrite
<1>1. ASSUME IInv, ThreadsInv, [Next]_vars, NEW h \in Host,
             lease' = [holder |-> h, age |-> 0], lease' # lease
      PROVE  main[h] = "electing" \/ renewer[h] # "off"
  <2>0. ~Tick
    <3>1. lease.age \in Nat
      BY <1>1, TimeAssumption DEF IInv, TypeOK
    <3>2. Tick => lease'.age = lease.age + 1
      BY <1>1 DEF Tick, IInv, TypeOK
    <3>3. QED BY <1>1, <3>1, <3>2
  <2>1. PICK g \in Host, t \in Thread : Wrote(g, t)
    BY <1>1, <2>0, NextIsRequestStep DEF RequestStep, Ended, Started,
                                         Unreached, Restarted
  <2>2. g = h
    BY <1>1, <2>1, WriteJustified
  <2>3. op[h][t].kind # "idle"
    BY <2>1, <2>2 DEF Wrote, Writing
  <2>4. QED BY <1>1, <2>3 DEF ThreadsInv, RequestsHaveThreads, ThreadsOf, Thread
<1>2. IInv /\ ThreadsInv /\ [Next]_vars =>
        [\A h \in Host : lease' = [holder |-> h, age |-> 0] /\ lease' # lease
           => main[h] = "electing" \/ renewer[h] # "off"]_vars
  BY <1>1
<1>3. ThreadsInv => RequestsHaveThreads
  BY DEF ThreadsInv
<1>4. QED BY <1>2, <1>3, ThreadsInvCorrect, PTL DEF Spec, OnlyRunningThreadsWrite

-----------------------------------------------------------------------------
(* Who wins an election. *)

\* An election through GitHub ends in a server only at the step at which the
\* file becomes that host's: of two hosts that read the same missing or expired
\* file, the one whose PUT comes second does not serve.
WinnersHoldTheLease ==
    [][\A h \in Host : main[h] = "electing" /\ main'[h] = "serving"
          => lease' = [holder |-> h, age |-> 0]]_vars

LEMMA WinnerStep ==
    ASSUME TypeOK, [Next]_vars, NEW h \in Host,
           main[h] = "electing", main'[h] = "serving"
    PROVE  lease' = [holder |-> h, age |-> 0]
<1> USE DEF TypeOK
<1>1. ASSUME NEW g \in Host, NEW t \in Thread, ClaimStep(g, t) PROVE FALSE
  BY <1>1 DEF ClaimStep, ClaimReadFails, ClaimSeesActive, ClaimDecides,
              ClaimLost, ClaimError, EnterMain, loopVars
<1>2. ASSUME NEW g \in Host, NEW t \in Thread, WriteStep(g, t)
      PROVE  lease' = [holder |-> h, age |-> 0]
  <2>1. CASE WriteSucceeds(g, t)
    <3>1. g = h
      BY <2>1 DEF WriteSucceeds, ClaimWon, EnterMain, loopVars
    <3>2. QED BY <2>1, <3>1 DEF WriteSucceeds, WriteLease
  <2>2. CASE \/ \E denied \in BOOLEAN : WriteRefused(g, t, denied)
             \/ \E applied \in BOOLEAN : WriteErrors(g, t, applied)
    BY <2>2 DEF WriteRefused, WriteErrors, ClaimLost, ClaimError, EnterMain,
                loopVars
  <2>3. QED BY <1>2, <2>1, <2>2 DEF WriteStep
<1>3. ASSUME NEW g \in Host, LoopThread(g)
      PROVE  lease' = [holder |-> h, age |-> 0]
  <2>1. CASE \/ LanElected(g) \/ LanFoundServer(g) \/ LanTimeout(g)
             \/ FallbackFindsServer(g) \/ FallbackServes(g)
    BY <2>1 DEF LanElected, LanFoundServer, LanTimeout, FallbackFindsServer,
                FallbackServes, EnterMain
  <2>2. QED BY <1>1, <1>2, <1>3, <2>1 DEF LoopThread, Thread
<1>4. ASSUME NEW g \in Host, RenewerThread(g)
      PROVE  lease' = [holder |-> h, age |-> 0]
  <2>1. CASE RenewStep(g) \/ ProbeStep(g) \/ RenewerExits(g)
    BY <2>1 DEF RenewStep, RenewReadFails, RenewDecides, ProbeStep, StepDown,
                StopServer, ProbeFails, RenewerExits, loopVars
  <2>2. QED BY <1>1, <1>2, <1>4, <2>1 DEF RenewerThread, Thread
<1>5. ASSUME NEW g \in Host, OutsideStep(g) PROVE FALSE
  BY <1>5 DEF OutsideStep, AgentLeaves, AgentAutoPromotes, BackgroundStarts,
              ReplaceServerContext, Promote, StopServer, UpdateToken, Crash,
              EnterMain, loopVars
<1>6. QED BY <1>3, <1>4, <1>5 DEF Next, Tick, vars, loopVars

\* Losing the race for the file, a refused PUT and a failed one never make a
\* server of an electing host (main.go:1485-1555, writePrimaryServerFile).
THEOREM WinnersCorrect == Spec => WinnersHoldTheLease
<1>1. TypeOK /\ [Next]_vars =>
        [\A h \in Host : main[h] = "electing" /\ main'[h] = "serving"
           => lease' = [holder |-> h, age |-> 0]]_vars
  BY WinnerStep
<1>2. QED BY <1>1, TypeCorrect, PTL DEF Spec, WinnersHoldTheLease
=============================================================================
