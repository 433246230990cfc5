---------------------------- MODULE JoinHandshake ----------------------------
(***************************************************************************)
(* How a client gets into a hosted session and out of it again.  Joiners   *)
(* run a SessionFlowController around a ClientRuntime: Hello, retries,     *)
(* connect and silence timeouts, Welcome, Disconnect, first snapshot, the  *)
(* player quitting.  The host runs the transport proxy, which learns where *)
(* to send packets from what passes through it and loses, duplicates and   *)
(* reorders them, and the server, which seats clients, prunes the silent   *)
(* ones, kicks, and hands peer ids out again.                              *)
(*                                                                         *)
(* A process has a socket of its own, so a client stands for its endpoint  *)
(* and for its session id (generateSessionId).  Clocks are ages in frames  *)
(* and ticks.  The host's own client, which always holds a seat, is left out,  *)
(* and so is the content of commands and snapshots but for the id of the   *)
(* body a snapshot shows as the client's own, from which a client that has *)
(* no peer id yet takes one.                                               *)
(***************************************************************************)
EXTENDS Integers, FiniteSets, Functions

CONSTANTS
  Clients,         \* the joining processes
  Seats,           \* the peer ids left to them
  Bots,            \* actor ids of bots
  ConnectTimeout,  \* clientConnectTimeoutUs in frames
  HelloRetry,      \* clientHelloRetryIntervalUs in frames
  SilenceTimeout,  \* clientServerSilenceTimeoutUs in frames
  ClientTimeout,   \* ServerConfig::clientTimeoutUs in ticks
  MaxScheduled     \* bound: packets the proxy holds; it loses the others

ASSUME JoinAssumption ==
  /\ Seats \subseteq Nat \ {0} /\ Bots \subseteq Nat \ {0}
  /\ Seats \cap Bots = {}
  /\ {ConnectTimeout, HelloRetry, SilenceTimeout, ClientTimeout}
       \subseteq Nat \ {0}
  /\ MaxScheduled \in Nat

VARIABLES
  flow,        \* SessionFlowController::state_
  conn,        \* ClientRuntime::state_
  peer,        \* ClientRuntime::peerId_, 0 before it has one
  hasSnapshot, \* ClientRuntime::hasSnapshot_
  clock,       \* frames since the start; 0 again once connected
  helloAge,    \* frames since lastHelloSendUs_
  silence,     \* frames since lastServerPacketUs_; Off before the first packet
  overlay,     \* keyboardOverlayVisible_
  scheduled,   \* ProxyRuntime::Impl::scheduled: packets not delivered yet
  sessionRoutes, peerRoutes,  \* ProxyRuntime::Impl: where replies go
  hostUp,      \* the host's flow runs: proxy and server exist
  sessions,    \* ServerGateway::sessions_: by peer id, whose and how silent
  control,     \* gSessionControlStates: by peer id, the bot it is bound to
  granted      \* history: <<client, peer id>> pairs the server has seated

clientVars  == <<flow, conn, peer, hasSnapshot, clock, helloAge, silence, overlay>>
proxyVars   == <<scheduled, sessionRoutes, peerRoutes>>
serverVars  == <<sessions, control, granted>>
vars == <<clientVars, proxyVars, hostUp, serverVars>>

Off  == -1
None == "none"

Flows == {"Idle", "Connecting", "Running", "Failed", "Ended"}
Conns == {"Disconnected", "Connecting", "Connected", "Rejected", "TimedOut"}

\* client: of a packet to the server, who sent it; else, who gets it.
\* sid: the session a Welcome is for.  actor: playerId of the body a snapshot
\* shows as the client's own, 0 if it shows none.
Packet(kind, p, c) ==
  [kind |-> kind, peer |-> p, client |-> c, sid |-> c, actor |-> 0]
Welcome(c, p, to)  == [Packet("Welcome", p, to) EXCEPT !.sid = c]
Snapshot(p, c, a)  == [Packet("Snapshot", p, c) EXCEPT !.actor = a]
Hello(c)     == Packet("Hello", 0, c)
Bundle(c, p) == Packet("Bundle", p, c)
Relay == [kind : {"Hello", "Bundle", "Welcome", "Snapshot", "Disconnect"},
          peer : Seats \cup {0}, client : Clients, sid : Clients,
          actor : Seats \cup Bots \cup {0}]

SessionAt == [sid : Clients, quiet : 0 .. ClientTimeout]

SetOne(f, c, v) == [f EXCEPT ![c] = v]

\* The map f with the entry of k, new or not, set to v.
Put(f, k, v) == [x \in DOMAIN f \cup {k} |-> IF x = k THEN v ELSE f[x]]

-----------------------------------------------------------------------------
Init ==
  /\ flow = [c \in Clients |-> "Idle"]
  /\ conn = [c \in Clients |-> "Disconnected"]
  /\ peer = [c \in Clients |-> 0]
  /\ hasSnapshot = [c \in Clients |-> FALSE]
  /\ clock = [c \in Clients |-> 0]
  /\ helloAge = [c \in Clients |-> 0]
  /\ silence = [c \in Clients |-> Off]
  /\ overlay = [c \in Clients |-> FALSE]
  /\ scheduled = {}
  /\ sessionRoutes = <<>> /\ peerRoutes = <<>>
  /\ hostUp = TRUE
  /\ sessions = <<>> /\ control = <<>>
  /\ granted = {}

-----------------------------------------------------------------------------
(* The proxy.  Packets it holds are delivered in any order, or lost; what a *)
(* duplicate would bring, the Hello of every retry and the bundle of every *)
(* frame bring.                                                            *)

\* relayClientPackets: every packet teaches the proxy where its sender is.
Scheduling(pkts, rest) ==
  IF hostUp /\ Cardinality(rest \cup pkts) <= MaxScheduled THEN rest \cup pkts ELSE rest

\* Mutant of HelloRoutes: one route for all, that of the latest Hello.
MutOneHelloRoute(c) == [s \in DOMAIN sessionRoutes \cup {c} |-> c]

HelloRoutes(c) == Put(sessionRoutes, c, c)

SendHello(c) ==
  /\ scheduled' = Scheduling({Hello(c)}, scheduled)
  /\ sessionRoutes' = IF hostUp THEN HelloRoutes(c) ELSE sessionRoutes
  /\ UNCHANGED peerRoutes

SendBundle(c) ==
  /\ scheduled' = Scheduling({Bundle(c, peer[c])}, scheduled)
  /\ peerRoutes' = IF hostUp THEN Put(peerRoutes, peer[c], c) ELSE peerRoutes
  /\ UNCHANGED sessionRoutes

\* relayServerPackets: a Welcome goes where its session's Hello came from and
\* takes the peer id's route there; anything else follows the peer id.
WelcomeRoutes(c, p) == Put(peerRoutes, p, sessionRoutes[c])

Routed(kind, p, a) ==
  IF p \in DOMAIN peerRoutes
  THEN {[Packet(kind, p, peerRoutes[p]) EXCEPT !.actor = a]} ELSE {}

Lose ==
  /\ \E pkt \in scheduled : scheduled' = scheduled \ {pkt}
  /\ UNCHANGED <<clientVars, sessionRoutes, peerRoutes, hostUp, serverVars>>

-----------------------------------------------------------------------------
(* The joining process.                                                    *)

\* SessionFlowController::start: composing starts the client, which resets
\* itself and sends its first Hello.
Start(c) ==
  /\ flow[c] = "Idle"
  /\ flow' = SetOne(flow, c, "Connecting")
  /\ conn' = SetOne(conn, c, "Connecting")
  /\ SendHello(c)
  /\ UNCHANGED <<peer, hasSnapshot, clock, helloAge, silence, overlay,
                 hostUp, serverVars>>

\* ... or the socket cannot be bound: the composition and the flow fail.
StartFails(c) ==
  /\ flow[c] = "Idle"
  /\ flow' = SetOne(flow, c, "Failed")
  /\ UNCHANGED <<conn, peer, hasSnapshot, clock, helloAge, silence, overlay,
                 proxyVars, hostUp, serverVars>>

Live(c) == flow[c] \in {"Connecting", "Running"}

\* fail and shutdown release the client; its socket, buffers and settings go.
Released(c) ==
  /\ conn' = SetOne(conn, c, "Disconnected")
  /\ peer' = SetOne(peer, c, 0)
  /\ hasSnapshot' = SetOne(hasSnapshot, c, FALSE)
  /\ clock' = SetOne(clock, c, 0)
  /\ helloAge' = SetOne(helloAge, c, 0)
  /\ silence' = SetOne(silence, c, Off)
  /\ overlay' = SetOne(overlay, c, FALSE)

\* updateStateFromClient at the end of a frame that left the client in state s.
Settled(c, s) ==
  \/ /\ s \in {"Rejected", "TimedOut"}
     /\ flow' = SetOne(flow, c, IF flow[c] = "Running" THEN "Ended" ELSE "Failed")
     /\ Released(c)
  \/ /\ s \notin {"Rejected", "TimedOut"}
     /\ flow' = IF s = "Connected" /\ hasSnapshot[c]
                THEN SetOne(flow, c, "Running") ELSE flow
     /\ conn' = SetOne(conn, c, s)
     /\ UNCHANGED <<peer, hasSnapshot, overlay>>

\* Mutant of ClockAfter: a retry of the Hello starts the timeout anew.
MutClockRestarts(c, due) == IF due THEN 0 ELSE clock[c] + 1

ClockAfter(c, due) == clock[c] + 1

\* The frame of a client that waits for its Welcome.  Its silence does not
\* matter before the Welcome, which ends it.
FrameConnecting(c) ==
  /\ Live(c) /\ conn[c] = "Connecting"
  /\ LET late == clock[c] + 1 >= ConnectTimeout
         due  == helloAge[c] + 1 >= HelloRetry
     IN  /\ Settled(c, IF late THEN "TimedOut" ELSE "Connecting")
         /\ IF ~late /\ due THEN SendHello(c) ELSE UNCHANGED proxyVars
         /\ ~late => /\ clock' = SetOne(clock, c, ClockAfter(c, due))
                     /\ helloAge' = SetOne(helloAge, c, IF due THEN 0 ELSE helloAge[c] + 1)
                     /\ UNCHANGED silence
  /\ UNCHANGED <<hostUp, serverVars>>

\* Mutant of SilenceAfter: what the client sends counts as a sign of life.
MutSilenceReset(c) == 0

SilenceAfter(c) == IF silence[c] = SilenceTimeout THEN SilenceTimeout ELSE silence[c] + 1

\* The frame of a connected client.  While the keyboard overlay is shown the
\* frame ends before the silence timeout is looked at.
FrameConnected(c) ==
  /\ Live(c) /\ conn[c] = "Connected"
  /\ LET late == silence[c] = SilenceTimeout /\ ~overlay[c]
     IN  /\ Settled(c, IF late THEN "TimedOut" ELSE "Connected")
         /\ IF late THEN UNCHANGED proxyVars ELSE SendBundle(c)
         /\ ~late => /\ silence' = SetOne(silence, c, SilenceAfter(c))
                     /\ UNCHANGED <<clock, helloAge>>
  /\ UNCHANGED <<hostUp, serverVars>>

\* The frame after a Disconnect was drained.
FrameRejected(c) ==
  /\ Live(c) /\ conn[c] = "Rejected"
  /\ Settled(c, "Rejected")
  /\ UNCHANGED <<proxyVars, hostUp, serverVars>>

Frame(c) == FrameConnecting(c) \/ FrameConnected(c) \/ FrameRejected(c)

\* Input is forwarded to the client only while the flow runs.
ToggleOverlay(c) ==
  /\ flow[c] = "Running" /\ conn[c] = "Connected"
  /\ overlay' = SetOne(overlay, c, ~overlay[c])
  /\ UNCHANGED <<flow, conn, peer, hasSnapshot, clock, helloAge, silence,
                 proxyVars, hostUp, serverVars>>

\* Quitting closes the overlay first and else ends the flow; the server is
\* not told.
Quit(c) ==
  /\ flow[c] = "Running"
  /\ ~overlay[c]
  /\ flow' = SetOne(flow, c, "Ended")
  /\ Released(c)
  /\ UNCHANGED <<proxyVars, hostUp, serverVars>>

\* An error of the socket ends the draining and rejects the client.
SocketFails(c) ==
  /\ Live(c)
  /\ Settled(c, "Rejected")
  /\ UNCHANGED <<proxyVars, hostUp, serverVars>>

-----------------------------------------------------------------------------
(* ClientRuntime::handlePacket, for each packet drained before a frame.    *)

HandleWelcome(c, p, sid) ==
  /\ IF sid = c /\ peer[c] \in {0, p}
     THEN /\ peer' = SetOne(peer, c, p)
          /\ conn' = SetOne(conn, c, "Connected")
          /\ clock' = SetOne(clock, c, 0)
     ELSE UNCHANGED <<peer, conn, clock>>
  /\ UNCHANGED hasSnapshot

\* applySnapshot: a client that has no peer id yet goes by the id of the body
\* the snapshot shows as its own, whatever peer id the snapshot is for.
PeerFromSnapshot(c, a) == IF peer[c] = 0 THEN a ELSE peer[c]

HandleSnapshot(c, p, a) ==
  /\ IF peer[c] \in {0, p}
     THEN /\ hasSnapshot' = SetOne(hasSnapshot, c, TRUE)
          /\ peer' = SetOne(peer, c, PeerFromSnapshot(c, a))
     ELSE UNCHANGED <<hasSnapshot, peer>>
  /\ UNCHANGED <<conn, clock>>

HandleDisconnect(c) ==
  /\ conn' = SetOne(conn, c, "Rejected")
  /\ UNCHANGED <<peer, hasSnapshot, clock>>

Receive(pkt) ==
  /\ Live(pkt.client)
  /\ \/ pkt.kind = "Welcome" /\ HandleWelcome(pkt.client, pkt.peer, pkt.sid)
     \/ pkt.kind = "Snapshot" /\ HandleSnapshot(pkt.client, pkt.peer, pkt.actor)
     \/ pkt.kind = "Disconnect" /\ HandleDisconnect(pkt.client)
  /\ silence' = SetOne(silence, pkt.client, 0)
  /\ scheduled' = scheduled \ {pkt}
  /\ UNCHANGED <<flow, helloAge, overlay, sessionRoutes, peerRoutes,
                 hostUp, serverVars>>

-----------------------------------------------------------------------------
(* The server.                                                             *)

HasSession(c)  == \E p \in DOMAIN sessions : sessions[p].sid = c
PeerOf(c)      == CHOOSE p \in DOMAIN sessions : sessions[p].sid = c
FreeSeats      == Seats \ DOMAIN sessions
IsLowest(p, S) == p \in S /\ \A q \in S : p <= q

\* The actor bound to the peer id, be it by a client that had the id before.
Controlled(p) == IF p \in DOMAIN control THEN control[p] ELSE p

\* buildReplicationSnapshot: the body shown as the client's own is that of the
\* actor it controls.  There may be none: a spectator's snapshot shows no such
\* body, nor does one without a team, nor one whose bot was kicked.
OwnBodies(p) == {0, Controlled(p)}

\* The Welcome and, right behind it, the first snapshot.
Welcomed(c, p, rest) ==
  /\ sessions' = Put(sessions, p, [sid |-> c, quiet |-> 0])
  /\ granted' = granted \cup {<<c, p>>}
  /\ peerRoutes' = WelcomeRoutes(c, p)
  /\ LET to == WelcomeRoutes(c, p)[p]
     IN  \E a \in OwnBodies(p) :
           scheduled' = Scheduling({Welcome(c, p, to), Snapshot(p, to, a)}, rest)
  /\ UNCHANGED control

\* acceptClient.  A refusal is addressed to peer id 0, for which there is no
\* route: nobody hears of it.
ServeHello(pkt) ==
  /\ pkt.kind = "Hello"
  /\ LET c == pkt.client
         rest == scheduled \ {pkt}
     IN  \/ HasSession(c) /\ Welcomed(c, PeerOf(c), rest)
         \/ /\ ~HasSession(c)
            /\ \E p \in Seats : IsLowest(p, FreeSeats) /\ Welcomed(c, p, rest)
         \/ /\ ~HasSession(c) /\ FreeSeats = {}
            /\ scheduled' = rest
            /\ UNCHANGED <<serverVars, peerRoutes>>
  /\ UNCHANGED <<clientVars, sessionRoutes, hostUp>>

\* enqueueCommandBundle: a session is looked up by the packet's peer id.
ServeBundle(pkt) ==
  /\ pkt.kind = "Bundle"
  /\ scheduled' = scheduled \ {pkt}
  /\ sessions' = IF pkt.peer \in DOMAIN sessions
                 THEN [sessions EXCEPT ![pkt.peer].quiet = 0] ELSE sessions
  /\ UNCHANGED <<clientVars, sessionRoutes, peerRoutes, hostUp, control, granted>>

\* A control request, the host's for any session, binds a bot to it; one for
\* the session's own body ends that, as a change of team and spectating do.
BindControl(p) ==
  /\ p \in DOMAIN sessions
  /\ \/ \E b \in Bots : control' = Put(control, p, b)
     \/ control' = Restrict(control, DOMAIN control \ {p})
  /\ UNCHANGED <<clientVars, proxyVars, hostUp, sessions, granted>>

\* Mutant of TimedOut: a tick too late.
MutPruneLate(p) == sessions[p].quiet > ClientTimeout

TimedOut(p) == sessions[p].quiet + 1 > ClientTimeout

\* Mutant of QuietAfterTick: publishing to a client refreshes it.
MutPublishingRefreshes(p) == 0

QuietAfterTick(p) == sessions[p].quiet + 1

\* A tick prunes the silent sessions, whose bindings stay, and publishes
\* snapshots to the others.
ServerTick ==
  /\ hostUp
  /\ LET kept == {p \in DOMAIN sessions : ~TimedOut(p)}
     IN  /\ sessions' = [p \in kept |-> [sessions[p] EXCEPT !.quiet = QuietAfterTick(p)]]
         /\ \E own \in [kept -> Seats \cup Bots \cup {0}] :
              /\ \A p \in kept : own[p] \in OwnBodies(p)
              /\ scheduled' = Scheduling(UNION {Routed("Snapshot", p, own[p]) : p \in kept},
                                         scheduled)
  /\ UNCHANGED <<clientVars, sessionRoutes, peerRoutes, hostUp, control, granted>>

\* handleHostAdminKick of a session.
Kick(p) ==
  /\ p \in DOMAIN sessions
  /\ scheduled' = Scheduling(Routed("Disconnect", p, 0), scheduled)
  /\ sessions' = Restrict(sessions, DOMAIN sessions \ {p})
  /\ control' = Restrict(control, DOMAIN control \ {p})
  /\ UNCHANGED <<clientVars, sessionRoutes, peerRoutes, hostUp, granted>>

\* The host's flow ends or fails: proxy and server go with everything they
\* hold; packets that have left the proxy may still arrive.
HostEnds ==
  /\ hostUp
  /\ hostUp' = FALSE
  /\ scheduled' = {pkt \in scheduled : pkt.kind \notin {"Hello", "Bundle"}}
  /\ sessionRoutes' = <<>> /\ peerRoutes' = <<>>
  /\ sessions' = <<>> /\ control' = <<>>
  /\ UNCHANGED <<clientVars, granted>>

-----------------------------------------------------------------------------
Next ==
  \/ \E c \in Clients : \/ Start(c) \/ StartFails(c) \/ Frame(c)
                        \/ ToggleOverlay(c) \/ Quit(c) \/ SocketFails(c)
  \/ \E pkt \in scheduled : Receive(pkt) \/ ServeHello(pkt) \/ ServeBundle(pkt)
  \/ \E p \in Seats : Kick(p) \/ BindControl(p)
  \/ Lose \/ ServerTick \/ HostEnds

\* Frames go on in every process, some of them with the keyboard overlay
\* closed, since no player leaves it open for ever; the server ticks as long as
\* it exists.  The network owes nothing.
Fairness ==
  /\ \A c \in Clients : /\ WF_vars(Frame(c))
                        /\ SF_vars(~overlay[c] /\ Frame(c))
                        /\ WF_vars(overlay[c] /\ ToggleOverlay(c))
  /\ WF_vars(ServerTick)

Spec == Init /\ [][Next]_vars /\ Fairness

-----------------------------------------------------------------------------
(* Properties.                                                             *)

TypeOK ==
  /\ flow \in [Clients -> Flows] /\ conn \in [Clients -> Conns]
  /\ peer \in [Clients -> Seats \cup Bots \cup {0}]
  /\ hasSnapshot \in [Clients -> BOOLEAN] /\ overlay \in [Clients -> BOOLEAN]
  /\ clock \in [Clients -> 0 .. ConnectTimeout]
  /\ helloAge \in [Clients -> 0 .. HelloRetry]
  /\ silence \in [Clients -> Off .. SilenceTimeout]
  /\ scheduled \subseteq Relay
  /\ IsRestriction(sessionRoutes, [c \in Clients |-> c])
  /\ DOMAIN peerRoutes \subseteq Seats /\ Range(peerRoutes) \subseteq Clients
  /\ DOMAIN sessions \subseteq Seats /\ Range(sessions) \subseteq SessionAt
  /\ DOMAIN control \subseteq Seats /\ Range(control) \subseteq Bots
  /\ granted \subseteq Clients \X Seats
  /\ hostUp \in BOOLEAN

\* A client that is connected or runs goes by a peer id the server gave it,
\* whichever of Welcome and snapshot came first, and whoever had the id, the
\* route and the binding before.  No client goes by the peer id of another,
\* not even before; it may then go by the id of a bot, and does not connect
\* while it does.
PeerAsAssigned ==
  \A c \in Clients :
    /\ peer[c] \in Seats => <<c, peer[c]>> \in granted
    /\ conn[c] = "Connected" \/ flow[c] = "Running" => peer[c] \in Seats

\* No launch hangs: a flow that starts comes to run, fails or ends, whatever
\* packets are lost and whether or not there is a seat or a host.
StartSettles ==
  \A c \in Clients : flow[c] = "Connecting" ~> flow[c] # "Connecting"

\* When the host is gone every session of a joiner comes to its end.
HostGoneEndsSessions == ~hostUp ~> \A c \in Clients : ~Live(c)

\* Clients leave without a word; when all have gone the server gets rid of
\* their sessions, late and duplicated Hellos included.
SeatsComeFree == (\A c \in Clients : ~Live(c)) ~> DOMAIN sessions = {} \/ \E c \in Clients : Live(c)
=============================================================================
