-------------------------- MODULE AgentClientProofs --------------------------
(***************************************************************************)
(* Proofs about AgentClient, for every set of servers, every number of     *)
(* attempts and doublings of the delay, and every number of disturbances.  *)
(***************************************************************************)
EXTENDS AgentClient, TLAPS

\* Only on the transports that use it is the control connection open.
ConnectionsFit == at \notin {"offer", "rtc", "hybrid", "ws"} => ~ws /\ readers = {}

\* The loop sleeps or dials afresh only with an attempt left.
AttemptsLeft == at \in {"dialRTC", "asleep"} => attempts < MaxAttempts

IInv == TypeOK /\ ConnectionsFit /\ AttemptsLeft

LEMMA InitInv == Init => IInv
<1> SUFFICES ASSUME Init PROVE IInv
  OBVIOUS
<1>1. TypeOK
  <2>1. at \in Places
    BY DEF Init, Places, Dialling
  <2>2. github \in BOOLEAN /\ remoteURL \in Servers \cup {Nowhere}
    BY NumberAssumption, ServerAssumption DEF Init
  <2>3. /\ attempts \in 0 .. MaxAttempts /\ delay \in 0 .. MaxDelay
        /\ disturbances \in 0 .. MaxDisturbances /\ abandoned \in 0 .. disturbances
    BY NumberAssumption DEF Init
  <2>4. {cfgURL, target} \subseteq Servers /\ peer = Nowhere
    BY ServerAssumption DEF Init
  <2>5. QED BY <2>1, <2>2, <2>3, <2>4 DEF Init, TypeOK
<1>2. QED BY <1>1, NumberAssumption DEF IInv, Init, ConnectionsFit, AttemptsLeft

\* A fault or a command is counted, and the servers, the lease and the screen
\* stay.
Counted ==
  /\ disturbances' \in disturbances .. MaxDisturbances
  /\ UNCHANGED <<up, stale, captures>>

LEMMA DisturbTypes ==
  ASSUME TypeOK
  PROVE  /\ Disturb => Counted /\ disturbances' = disturbances + 1
         /\ \A s : FailsTo(s) => Counted
         /\ Lost => Counted
         /\ UNCHANGED world => Counted
<1>0. disturbances \in Nat /\ disturbances <= MaxDisturbances /\ MaxDisturbances \in Nat
  BY NumberAssumption DEF TypeOK
<1>1. Disturb => Counted /\ disturbances' = disturbances + 1
  BY <1>0 DEF Disturb, Counted
<1>2. UNCHANGED world => Counted
  BY <1>0 DEF world, Counted
<1>3. QED BY <1>1, <1>2 DEF FailsTo, Lost

\* More disturbances leave room for the connections that were abandoned.
LEMMA AbandonedTypes ==
  ASSUME TypeOK, Counted, UNCHANGED abandoned
  PROVE  /\ disturbances' \in 0 .. MaxDisturbances
         /\ abandoned' \in 0 .. disturbances'
BY NumberAssumption DEF TypeOK, Counted

\* The steps that open, use and close the control connection.
LEMMA ConnectionSteps ==
  ASSUME IInv, DialRTC \/ OfferAnswered \/ OfferFails \/ SendFails \/ DialWS
  PROVE  IInv'
<1> USE DEF IInv
<1>1. at' \in Places
  BY DEF DialRTC, OfferAnswered, OfferFails, SendFails, DialWS, StartAfresh, Places, Dialling, Connected
<1>2. peer' \in Servers \cup {Nowhere} /\ readers' \subseteq {"loop", "stray"}
  BY DEF DialRTC, OfferAnswered, OfferFails, SendFails, DialWS, OpenControl, CloseControl, ConnectTo,
         link, TypeOK
<1>3. attempts' \in 0 .. MaxAttempts /\ delay' \in 0 .. MaxDelay
  BY NumberAssumption
     DEF DialRTC, OfferAnswered, OfferFails, SendFails, DialWS, StartAfresh, retry, TypeOK
<1>4. {alive, ws}' \subseteq BOOLEAN /\ inbox' \in {"none", "migrate", "promote"}
  BY DEF DialRTC, OfferAnswered, OfferFails, SendFails, DialWS, OpenControl, CloseControl, ConnectTo,
         link, TypeOK
<1>5. UNCHANGED <<abandoned, world>>
  BY DEF DialRTC, OfferAnswered, OfferFails, SendFails, DialWS, OpenControl, CloseControl
<1>6. TypeOK'
  BY <1>1, <1>2, <1>3, <1>4, <1>5
     DEF DialRTC, OfferAnswered, OfferFails, SendFails, DialWS, settings, world, TypeOK
<1>7. ConnectionsFit'
  BY DEF DialRTC, OfferAnswered, OfferFails, SendFails, DialWS, OpenControl, CloseControl,
         StartAfresh, ConnectionsFit
<1>8. AttemptsLeft'
  BY NumberAssumption
     DEF DialRTC, OfferAnswered, OfferFails, SendFails, DialWS, StartAfresh, AttemptsLeft
<1>9. QED BY <1>6, <1>7, <1>8

\* The other steps of the loop.
LEMMA LoopSteps ==
  ASSUME IInv, DialQUIC \/ GitHubEnds \/ LeaderIsStale \/ AutoPromote \/ KeepTrying \/ WakeUp
  PROVE  IInv'
<1> USE DEF IInv
<1>1. at' \in Places
  BY DEF DialQUIC, GitHubEnds, LeaderIsStale, AutoPromote, KeepTrying, WakeUp, Places, Dialling,
         Connected, Left
<1>2. attempts' \in 0 .. MaxAttempts
  BY NumberAssumption
     DEF DialQUIC, GitHubEnds, LeaderIsStale, AutoPromote, KeepTrying, WakeUp, retry, TypeOK
<1>3. delay' \in 0 .. MaxDelay
  BY NumberAssumption
     DEF DialQUIC, GitHubEnds, LeaderIsStale, AutoPromote, KeepTrying, WakeUp, retry, TypeOK
<1>4. /\ peer' \in Servers \cup {Nowhere} /\ {alive, serverMode}' \subseteq BOOLEAN
      /\ UNCHANGED <<github, remoteURL, cfgURL, target, control>>
  BY DEF DialQUIC, GitHubEnds, LeaderIsStale, AutoPromote, KeepTrying, WakeUp, ConnectTo, link, settings,
         TypeOK
<1>5. Counted
  BY DisturbTypes DEF DialQUIC, GitHubEnds, LeaderIsStale, AutoPromote, KeepTrying, WakeUp
<1>6. disturbances' \in 0 .. MaxDisturbances /\ abandoned' \in 0 .. disturbances'
  BY <1>4, <1>5, AbandonedTypes DEF control
<1>7. TypeOK'
  BY <1>1, <1>2, <1>3, <1>4, <1>5, <1>6 DEF Counted, control, TypeOK
<1>8. ConnectionsFit'
  BY <1>4 DEF DialQUIC, GitHubEnds, LeaderIsStale, AutoPromote, KeepTrying, WakeUp, control, ConnectionsFit
<1>9. AttemptsLeft'
  BY NumberAssumption
     DEF DialQUIC, GitHubEnds, LeaderIsStale, AutoPromote, KeepTrying, WakeUp, retry, AttemptsLeft, TypeOK
<1>10. QED BY <1>7, <1>8, <1>9

\* What fails leaves no connection behind and has an attempt to count.
LEMMA FailSteps ==
  ASSUME IInv, Fails \/ ChannelFails
  PROVE  IInv'
<1> USE DEF IInv
<1>1. Counted
  BY DisturbTypes DEF Fails, DialRTCFails, ChannelFails, QUICEnds, DialWSFails, Break
<1>2. UNCHANGED abandoned
  BY DEF Fails, DialRTCFails, ChannelFails, QUICEnds, DialWSFails, Break, CloseControl, control
<1>3. disturbances' \in 0 .. MaxDisturbances /\ abandoned' \in 0 .. disturbances'
  BY <1>1, <1>2, AbandonedTypes
<1>4. at' \in Places
  BY DEF Fails, DialRTCFails, ChannelFails, QUICEnds, DialWSFails, Break, StartAfresh, Places, Dialling,
         Connected, TypeOK
<1>5. attempts' \in 0 .. MaxAttempts /\ delay' \in 0 .. MaxDelay
  BY NumberAssumption
     DEF Fails, DialRTCFails, ChannelFails, QUICEnds, DialWSFails, Break, StartAfresh, retry,
         AttemptsLeft, TypeOK
<1>6. TypeOK'
  BY <1>1, <1>3, <1>4, <1>5
     DEF Fails, DialRTCFails, ChannelFails, QUICEnds, DialWSFails, Break, CloseControl, settings,
         link, control, Counted, TypeOK
<1>7. ConnectionsFit'
  BY DEF Fails, DialRTCFails, ChannelFails, QUICEnds, DialWSFails, Break, CloseControl, StartAfresh,
         control, ConnectionsFit
<1>8. AttemptsLeft'
  BY NumberAssumption
     DEF Fails, DialRTCFails, ChannelFails, QUICEnds, DialWSFails, Break, StartAfresh, retry,
         AttemptsLeft
<1>9. QED BY <1>6, <1>7, <1>8

\* A panic costs one disturbance and abandons at most one connection; what is
\* abandoned opens nothing.
LEMMA PanicSteps ==
  ASSUME IInv, SenderPanics \/ AbandonedReads \/ AbandonedEnds
  PROVE  IInv'
<1> USE DEF IInv
<1>0. /\ disturbances \in Nat /\ abandoned \in Nat /\ abandoned <= disturbances
      /\ {MaxAttempts, MaxDelay, MaxDisturbances} \subseteq Nat
  BY NumberAssumption DEF TypeOK
<1>1. CASE SenderPanics
  <2>1. Counted /\ disturbances' = disturbances + 1
    BY <1>1, DisturbTypes DEF SenderPanics
  <2>2. disturbances' \in 0 .. MaxDisturbances /\ abandoned' \in 0 .. disturbances'
    BY <1>0, <1>1, <2>1 DEF SenderPanics, Counted
  <2>3. at' \in Places /\ attempts' \in 0 .. MaxAttempts /\ delay' \in 0 .. MaxDelay
    BY <1>0, <1>1 DEF SenderPanics, StartAfresh, Places, Dialling
  <2>4. TypeOK'
    BY <1>1, <2>1, <2>2, <2>3 DEF SenderPanics, Counted, settings, link, TypeOK
  <2>5. QED BY <1>1, <2>4, NumberAssumption
            DEF SenderPanics, StartAfresh, ConnectionsFit, AttemptsLeft
<1>2. CASE AbandonedReads
  <2>1. Counted /\ disturbances' = disturbances + 1
    BY <1>2, DisturbTypes DEF AbandonedReads
  <2>2. disturbances' \in 0 .. MaxDisturbances /\ abandoned' \in 0 .. disturbances'
    BY <1>0, <1>2, <2>1 DEF AbandonedReads, Counted
  <2>3. {cfgURL, target}' \subseteq Servers /\ remoteURL' \in Servers \cup {Nowhere}
    BY <1>2, ServerAssumption DEF AbandonedReads, PushAddress, TypeOK
  <2>4. TypeOK'
    BY <1>2, <2>1, <2>2, <2>3 DEF AbandonedReads, Counted, retry, link, TypeOK
  <2>5. QED BY <1>2, <2>4 DEF AbandonedReads, retry, ConnectionsFit, AttemptsLeft
<1>3. CASE AbandonedEnds
  <2>1. abandoned' \in 0 .. disturbances
    BY <1>0, <1>3 DEF AbandonedEnds
  <2>2. TypeOK'
    BY <1>3, <2>1 DEF AbandonedEnds, settings, retry, link, world, TypeOK
  <2>3. QED BY <1>3, <2>2 DEF AbandonedEnds, retry, ConnectionsFit, AttemptsLeft
<1>4. QED BY <1>1, <1>2, <1>3

LEMMA PushAddressTypes ==
  ASSUME TypeOK, PushAddress \/ UNCHANGED remoteURL
  PROVE  remoteURL' \in Servers \cup {Nowhere}
BY ServerAssumption DEF PushAddress, TypeOK

\* The readers, the ticker, commands, and the servers.
LEMMA OtherSteps ==
  ASSUME IInv, Reading \/ FollowAddress \/ GitHubCommand \/ SendCommand \/ WorldChanges
  PROVE  IInv'
<1> USE DEF IInv
<1>1. CASE Reading
  <2>1. TypeOK'
    <3>1. CASE Migrate
      BY <3>1, PushAddressTypes, ServerAssumption DEF Migrate, CloseControl, retry, link, world, TypeOK
    <3>2. CASE OfferDropsCommand \/ PromoteToServer \/ StrayReads
      BY <3>2 DEF OfferDropsCommand, PromoteToServer, StrayReads, CloseControl, settings, retry,
                  link, world, TypeOK
    <3>3. QED BY <1>1, <3>1, <3>2 DEF Reading
  <2>2. ConnectionsFit' /\ AttemptsLeft'
    BY <1>1
       DEF Reading, OfferDropsCommand, Migrate, PromoteToServer, StrayReads, CloseControl, retry,
           ConnectionsFit, AttemptsLeft, TypeOK
  <2>3. QED BY <2>1, <2>2
<1>2. CASE FollowAddress
  <2>1. {cfgURL, target}' \subseteq Servers
    BY <1>2, ServerAssumption DEF FollowAddress, TypeOK
  <2>2. QED BY <1>2, <2>1
         DEF FollowAddress, control, retry, link, world, TypeOK, ConnectionsFit, AttemptsLeft
<1>3. CASE GitHubCommand
  <2>1. serverMode' \in BOOLEAN /\ at' \in Places
    BY <1>3 DEF GitHubCommand, TypeOK, Places, Left
  <2>2. Counted /\ disturbances' \in 0 .. MaxDisturbances /\ abandoned' \in 0 .. disturbances'
    BY <1>3, DisturbTypes, AbandonedTypes DEF GitHubCommand, control
  <2>3. QED BY <1>3, <2>1, <2>2
         DEF GitHubCommand, Counted, control, retry, link, TypeOK, ConnectionsFit, AttemptsLeft
<1>4. CASE SendCommand
  <2>1. Counted /\ disturbances' \in 0 .. MaxDisturbances /\ abandoned' \in 0 .. disturbances'
    BY <1>4, DisturbTypes, AbandonedTypes DEF SendCommand
  <2>2. QED BY <1>4, <2>1, PushAddressTypes
         DEF SendCommand, Counted, retry, link, TypeOK, ConnectionsFit, AttemptsLeft
<1>5. CASE WorldChanges
  <2>1. disturbances' \in 0 .. MaxDisturbances /\ abandoned' \in 0 .. disturbances'
    BY <1>5, NumberAssumption DEF WorldChanges, control, TypeOK
  <2>2. up' \subseteq Servers /\ {alive, stale, captures}' \subseteq BOOLEAN
    BY <1>5 DEF WorldChanges, TypeOK
  <2>3. QED BY <1>5, <2>1, <2>2
         DEF WorldChanges, settings, control, retry, TypeOK, ConnectionsFit, AttemptsLeft
<1>6. QED BY <1>1, <1>2, <1>3, <1>4, <1>5

LEMMA IInvHolds == Spec => []IInv
<1>1. ASSUME IInv, Next PROVE IInv'
  BY <1>1, ConnectionSteps, LoopSteps, FailSteps, PanicSteps, OtherSteps DEF Next, Loop, Outside
<1>2. ASSUME IInv, UNCHANGED vars PROVE IInv'
  BY <1>2
     DEF vars, settings, control, retry, link, world, IInv, TypeOK, ConnectionsFit, AttemptsLeft
<1>3. QED BY <1>1, <1>2, InitInv, PTL DEF Spec

\* The loop's counters stay within maxAttempts and maxDelay, the readers of the
\* control connection are at most agentReadLoop and one stray goroutine, and no
\* more connections are abandoned than there were panics.
THEOREM TypeCorrect == Spec => []TypeOK
<1>1. IInv => TypeOK
  BY DEF IInv
<1>2. QED BY <1>1, IInvHolds, PTL

\* When runAgentClient dials, sleeps, elects or becomes a server, the control
\* connection of the last transport and its readers are gone, unless the sender
\* panicked over it.
THEOREM ConnectionsCorrect == Spec => []NoConnectionLeftOpen
<1>1. IInv => NoConnectionLeftOpen
  BY DEF IInv, ConnectionsFit, NoConnectionLeftOpen, Dialling, Left
<1>2. QED BY <1>1, IInvHolds, PTL
=============================================================================
