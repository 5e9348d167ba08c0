---------------------------- MODULE AgentClient ----------------------------
(***************************************************************************)
(* The agent's end (runAgentClient): the loop over the four transports,    *)
(* the read loop of the control connection, the ticker that follows        *)
(* changes of the server's address, and the two ways out, a new election   *)
(* and promotion to a server.                                              *)
(*                                                                         *)
(* The agent first opens a WebSocket and offers a data channel over it     *)
(* (WebRTC).  Frames then take the channel, or else the WebSocket; if not  *)
(* even the WebSocket can be dialled, QUIC, a plain WebSocket and GitHub   *)
(* follow.                                                                 *)
(***************************************************************************)
EXTENDS Naturals

CONSTANTS
  Servers,          \* server addresses
  Home, Away,       \* the address at the start, and the one agents migrate to
  Nowhere,          \* no server
  Repositories,     \* SUBSET BOOLEAN: may the agent have a GitHub repository?
  MaxAttempts,      \* maxAttempts
  MaxDelay,         \* doublings of reconnectDelay up to maxDelay
  MaxDisturbances   \* bound on faults and commands

ASSUME ServerAssumption == {Home, Away} \subseteq Servers /\ Nowhere \notin Servers
ASSUME NumberAssumption ==
  /\ Repositories \subseteq BOOLEAN
  /\ {MaxAttempts, MaxDelay, MaxDisturbances} \subseteq Nat /\ MaxAttempts > 0

VARIABLES
  at,             \* where runAgentClient is
  github,         \* is a GitHub repository configured?
  remoteURL,      \* server_url in the repository's settings.json, or Nowhere
  cfgURL,         \* cfg.ServerURL
  target,         \* serverURL, which the loop dials
  attempts,       \* connectAttempts
  delay,          \* how often reconnectDelay was doubled
  peer,           \* the server of the last connection
  alive,          \* does the process behind that connection still run?
  ws,             \* is the control connection open?
  readers,        \* goroutines that read from the control connection
  inbox,          \* the command that waits to be read from it
  abandoned,      \* control connections, with their readers, that a panic left open
  serverMode,     \* cfg.IsServerMode
  up,             \* the servers that run
  stale,          \* does primary_server.json look stale?
  captures,       \* does the screen give frames, and does the schedule let them go?
  disturbances    \* faults and commands so far

settings == <<github, remoteURL, cfgURL, target, serverMode>>
link     == <<peer, alive>>
control  == <<ws, readers, inbox, abandoned>>
retry    == <<attempts, delay>>
world    == <<up, stale, captures, disturbances>>
vars     == <<at, settings, control, retry, link, world>>

Dialling  == {"dialRTC", "dialQUIC", "dialWS"}
Connected == {"rtc", "hybrid", "ws", "quic"}
Left      == {"electing", "serving", "exited"}
Places    == {"offer", "github", "failed", "asleep"} \cup Dialling \cup Connected \cup Left

Init ==
  /\ at = "dialRTC"
  /\ github \in Repositories
  /\ remoteURL \in IF github THEN {Nowhere, Home} ELSE {Nowhere}
  /\ cfgURL = Home
  /\ target = Home
  /\ attempts = 0
  /\ delay = 0
  /\ peer = Nowhere
  /\ alive = FALSE
  /\ ws = FALSE
  /\ readers = {}
  /\ inbox = "none"
  /\ abandoned = 0
  /\ serverMode = FALSE
  /\ up = Servers
  /\ stale = FALSE
  /\ captures \in BOOLEAN
  /\ disturbances = 0

-----------------------------------------------------------------------------
(* Connections.                                                              *)

ConnectTo(server) ==
  /\ server \in up
  /\ peer' = server
  /\ alive' = TRUE

OpenControl(reading) ==
  /\ ws' = TRUE
  /\ readers' = reading
  /\ inbox' = "none"
  /\ UNCHANGED abandoned

\* Closing the control connection ends its readers and loses what was in it.
CloseControl ==
  /\ ws' = FALSE
  /\ readers' = {}
  /\ inbox' = "none"
  /\ UNCHANGED abandoned

\* A transport that worked and ended: the loop starts afresh without a pause.
StartAfresh ==
  /\ at' = "dialRTC"
  /\ attempts' = 0
  /\ delay' = 0

\* Bounded faults and commands from outside.
Disturb ==
  /\ disturbances < MaxDisturbances
  /\ disturbances' = disturbances + 1
  /\ UNCHANGED <<up, stale, captures>>

\* A request fails because the server is gone, or for a passing reason.
FailsTo(server) == (server \notin up /\ UNCHANGED world) \/ (server \in up /\ Disturb)

\* An open connection fails because the process at its other end is gone (a new
\* one at the same address does not know it), or for a passing reason.
Lost == (~alive /\ UNCHANGED world) \/ (alive /\ Disturb)

-----------------------------------------------------------------------------
(* The loop over the transports.                                             *)

DialRTC ==
  /\ at = "dialRTC"
  /\ ConnectTo(target)
  /\ at' = "offer"
  /\ OpenControl({})
  /\ UNCHANGED <<settings, retry, world>>

DialRTCFails ==
  /\ at = "dialRTC"
  /\ FailsTo(target)
  /\ at' = "dialQUIC"
  /\ attempts' = attempts + 1
  /\ UNCHANGED <<settings, control, delay, link>>

\* While the offer is pending, other messages are read and dropped.
OfferDropsCommand ==
  /\ at = "offer"
  /\ inbox # "none"
  /\ inbox' = "none"
  /\ UNCHANGED <<at, settings, ws, readers, abandoned, retry, link, world>>

OfferAnswered ==
  /\ at = "offer"
  /\ ws
  /\ at' = "rtc"
  /\ readers' = {"loop"}
  /\ UNCHANGED <<settings, ws, inbox, abandoned, retry, link, world>>

\* Variant: an offer that fails leads to the next transport.
OfferFailsToQUIC ==
  /\ at = "offer"
  /\ at' = "dialQUIC"
  /\ attempts' = attempts + 1
  /\ UNCHANGED <<settings, control, delay, link, world>>

\* No channel: frames take the control connection.  After a time-out the
\* goroutine that waited for the answer is still in a read.
OfferFails ==
  /\ at = "offer"
  /\ at' = "ws"
  /\ readers' \in IF ws THEN {{"loop"}, {"loop", "stray"}} ELSE {{}}
  /\ UNCHANGED <<settings, ws, inbox, abandoned, retry, link, world>>

\* A frame cannot be sent over the channel: the sender takes the control
\* connection once and for all.  Nothing else watches the channel, and a send
\* to a server that is gone may well be buffered: this is not fair.
ChannelFails ==
  /\ at = "rtc"
  /\ captures
  /\ Lost
  /\ at' = "hybrid"
  /\ UNCHANGED <<settings, control, retry, link>>

\* Variant: only the plain sender returns.
SendFailsOnWS ==
  /\ at = "ws"
  /\ ~ws /\ captures
  /\ StartAfresh
  /\ CloseControl
  /\ UNCHANGED <<settings, link, world>>

\* The sender finds the connection closed when it has a frame to write.
SendFails ==
  /\ at \in {"hybrid", "ws"}
  /\ ~ws /\ captures
  /\ StartAfresh
  /\ CloseControl
  /\ UNCHANGED <<settings, link, world>>

\* The sender recovers from a panic and returns without closing anything: the
\* control connection stays open, and its reader keeps serving it.
SenderPanics ==
  /\ at \in {"rtc", "hybrid", "ws"}
  /\ Disturb
  /\ StartAfresh
  /\ ws' = FALSE /\ readers' = {} /\ inbox' = "none"
  /\ abandoned' = IF ws THEN abandoned + 1 ELSE abandoned
  /\ UNCHANGED <<settings, link>>

\* UDP may be blocked while the server runs.
DialQUIC ==
  /\ at = "dialQUIC"
  /\ \/ at' = "quic" /\ ConnectTo(target)
     \/ at' = "dialWS" /\ UNCHANGED link
  /\ UNCHANGED <<settings, control, retry, world>>

QUICEnds ==
  /\ at = "quic"
  /\ Lost
  /\ StartAfresh
  /\ UNCHANGED <<settings, control, link>>

DialWS ==
  /\ at = "dialWS"
  /\ ConnectTo(target)
  /\ at' = "ws"
  /\ OpenControl({"loop"})
  /\ UNCHANGED <<settings, retry, world>>

DialWSFails ==
  /\ at = "dialWS"
  /\ FailsTo(target)
  /\ at' = IF github THEN "github" ELSE "failed"
  /\ UNCHANGED <<settings, control, retry, link>>

\* Heartbeats and commands go through files; only a stale lease ends this.
GitHubEnds ==
  /\ at = "github"
  /\ stale
  /\ at' = "failed"
  /\ UNCHANGED <<settings, control, retry, link, world>>

\* A "restart" or "promote" command in the repository ends the process.
GitHubCommand ==
  /\ at = "github"
  /\ Disturb
  /\ at' = "exited"
  /\ serverMode' \in {serverMode, TRUE}
  /\ UNCHANGED <<github, remoteURL, cfgURL, target, control, retry, link>>

ReturnsToElection == github /\ stale

LeaderIsStale ==
  /\ at = "failed"
  /\ ReturnsToElection
  /\ at' = "electing"
  /\ UNCHANGED <<settings, control, retry, link, world>>

AutoPromote ==
  /\ at = "failed"
  /\ ~ReturnsToElection
  /\ attempts >= MaxAttempts
  /\ FailsTo(target)
  /\ at' = "serving"
  /\ serverMode' = TRUE
  /\ UNCHANGED <<github, remoteURL, cfgURL, target, control, retry, link>>

\* Variant: the attempts are not reset when the server answers.
KeepTryingOn ==
  /\ at = "failed"
  /\ ~ReturnsToElection
  /\ attempts < MaxAttempts \/ target \in up
  /\ at' = "asleep"
  /\ UNCHANGED <<settings, control, retry, link, world>>

KeepTrying ==
  /\ at = "failed"
  /\ ~ReturnsToElection
  /\ attempts < MaxAttempts \/ target \in up
  /\ at' = "asleep"
  /\ attempts' = IF attempts < MaxAttempts THEN attempts ELSE 0
  /\ UNCHANGED <<settings, control, delay, link, world>>

\* Variant: the attempts are counted from the last pause.
WakeUpRested ==
  /\ at = "asleep"
  /\ at' = "dialRTC"
  /\ attempts' = 0
  /\ delay' = IF delay < MaxDelay THEN delay + 1 ELSE delay
  /\ UNCHANGED <<settings, control, link, world>>

WakeUp ==
  /\ at = "asleep"
  /\ at' = "dialRTC"
  /\ delay' = IF delay < MaxDelay THEN delay + 1 ELSE delay
  /\ UNCHANGED <<settings, control, attempts, link, world>>

-----------------------------------------------------------------------------
(* The read loop and the ticker.                                             *)

\* saveSettings pushes the address to the repository, which may fail.
PushAddress == remoteURL' \in IF github THEN {remoteURL, Away} ELSE {remoteURL}

Migrate ==
  /\ inbox = "migrate"
  /\ "loop" \in readers
  /\ cfgURL' = Away
  /\ PushAddress
  /\ CloseControl
  /\ UNCHANGED <<at, github, target, serverMode, retry, link, world>>

PromoteToServer ==
  /\ inbox = "promote"
  /\ "loop" \in readers
  /\ serverMode' = TRUE
  /\ CloseControl
  /\ UNCHANGED <<at, github, remoteURL, cfgURL, target, retry, link, world>>

\* The goroutine left behind by an offer takes a message and throws it away.
StrayReads ==
  /\ inbox # "none"
  /\ "stray" \in readers
  /\ inbox' = "none"
  /\ readers' = readers \ {"stray"}
  /\ UNCHANGED <<at, settings, ws, abandoned, retry, link, world>>

\* A connection that a panic left open still takes commands.  Its reader
\* closes it when it has migrated or promoted the agent.
AbandonedReads ==
  /\ abandoned > 0
  /\ Disturb
  /\ abandoned' = abandoned - 1
  /\ \/ cfgURL' = Away /\ PushAddress /\ UNCHANGED serverMode
     \/ serverMode' = TRUE /\ UNCHANGED <<cfgURL, remoteURL>>
  /\ UNCHANGED <<at, github, target, ws, readers, inbox, retry, link>>

\* It ends when its server does, or when the network ends it.
AbandonedEnds ==
  /\ abandoned > 0
  /\ abandoned' = abandoned - 1
  /\ UNCHANGED <<at, settings, ws, readers, inbox, retry, link, world>>

\* Every 30 seconds the settings are synchronised, if the repository answers,
\* and the address is followed.
FollowAddress ==
  /\ at \notin Left
  /\ cfgURL' \in {cfgURL} \cup ({remoteURL} \ {Nowhere})
  /\ target' = cfgURL'
  /\ UNCHANGED <<at, github, remoteURL, serverMode, control, retry, link, world>>

-----------------------------------------------------------------------------
(* The servers and the network.                                              *)

Break ==
  /\ ws
  /\ Lost
  /\ CloseControl
  /\ UNCHANGED <<at, settings, retry, link>>

SendCommand ==
  /\ ws /\ alive
  /\ inbox = "none"
  /\ Disturb
  /\ \/ inbox' = "migrate" /\ PushAddress
     \/ inbox' = "promote" /\ UNCHANGED remoteURL
  /\ UNCHANGED <<at, github, cfgURL, target, serverMode, ws, readers, abandoned, retry, link>>

\* A server goes down, and with it what is connected to it; one comes up; the
\* lease turns stale or fresh; the screen is locked or the schedule ends, and
\* back.
WorldChanges ==
  /\ disturbances < MaxDisturbances
  /\ disturbances' = disturbances + 1
  /\ \/ \E s \in up :
          up' = up \ {s} /\ alive' = (alive /\ s # peer) /\ UNCHANGED <<stale, captures>>
     \/ \E s \in Servers \ up : up' = up \cup {s} /\ UNCHANGED <<alive, stale, captures>>
     \/ stale' = ~stale /\ UNCHANGED <<alive, up, captures>>
     \/ captures' = ~captures /\ UNCHANGED <<alive, up, stale>>
  /\ UNCHANGED <<at, settings, control, retry, peer>>

-----------------------------------------------------------------------------
\* What the loop does by itself; the faults among it are not fair.
Loop ==
  \/ DialRTC \/ OfferAnswered \/ OfferFails \/ SendFails \/ DialQUIC \/ DialWS
  \/ GitHubEnds \/ LeaderIsStale \/ AutoPromote \/ KeepTrying \/ WakeUp

Fails   == DialRTCFails \/ QUICEnds \/ DialWSFails \/ Break
Reading == OfferDropsCommand \/ Migrate \/ PromoteToServer \/ StrayReads
Outside == ChannelFails \/ SenderPanics \/ AbandonedReads \/ AbandonedEnds
             \/ GitHubCommand \/ SendCommand \/ WorldChanges

Next == Loop \/ Fails \/ Reading \/ FollowAddress \/ Outside

Spec == Init /\ [][Next]_vars

\* The goroutines run, the ticker fires, and what depends on a server that is
\* gone fails in the end: dials time out, TCP keep-alive ends the control
\* connection and the idle time-out the QUIC one.  Not so the data channel.
LiveSpec ==
  /\ Spec
  /\ WF_vars(Loop) /\ WF_vars(Reading) /\ WF_vars(FollowAddress)
  /\ WF_vars(Fails /\ disturbances' = disturbances)

-----------------------------------------------------------------------------
(* Properties.                                                               *)

TypeOK ==
  /\ at \in Places
  /\ github \in BOOLEAN
  /\ {remoteURL, peer} \subseteq Servers \cup {Nowhere}
  /\ {cfgURL, target} \subseteq Servers
  /\ attempts \in 0 .. MaxAttempts
  /\ delay \in 0 .. MaxDelay
  /\ {alive, ws, serverMode, stale, captures} \subseteq BOOLEAN
  /\ readers \subseteq {"loop", "stray"}
  /\ inbox \in {"none", "migrate", "promote"}
  /\ abandoned \in 0 .. disturbances
  /\ up \subseteq Servers
  /\ disturbances \in 0 .. MaxDisturbances

\* The agent dials, sleeps or leaves only when the control connection of the
\* last transport and its readers are gone, except those that a panic of the
\* sender left open: a second connection under the same AgentID would confuse
\* the server.
NoConnectionLeftOpen ==
  at \in Dialling \cup Left \cup {"github", "failed", "asleep"} => ~ws /\ readers = {}

\* An agent whose servers are gone for good, and whose GitHub lease shows it,
\* elects or serves in the end, provided that there are frames to send and that
\* it does not stay on a data channel whose sends never fail: it hangs nowhere
\* else.
AgentLeaves ==
  /\ <>[](up = {} /\ (github => stale) /\ captures)
  /\ []<>(at # "rtc")
  => <>(at \in Left)

Streams ==
  /\ alive
  /\ at \in {"rtc", "quic"} \/ (at \in {"hybrid", "ws"} /\ ws)

\* An agent whose servers run for good is connected for good to one that runs,
\* unless it left or took to GitHub before, under the same provisos.
AgentConnects ==
  /\ <>[](up = Servers /\ captures)
  /\ []<>(at # "rtc" \/ alive)
  => <>[](Streams \/ at \in Left \cup {"github"})
=============================================================================
