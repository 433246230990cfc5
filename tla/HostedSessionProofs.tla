------------------------- MODULE HostedSessionProofs -------------------------
(***************************************************************************)
(* Proofs about the two sides of SessionFlowController: who is in a hosted *)
(* session (JoinHandshake), and at which rates it runs (Cadence).          *)
(*                                                                         *)
(* For any number of clients, seats, bots and timeouts a client goes by no *)
(* peer id it was not given: the invariant follows the id back to the      *)
(* server, through the packet it came in, the route the packet took, and   *)
(* the Hello that taught the proxy this route.  A snapshot that shows the  *)
(* client another body than its own shows it that of a bot, whoever bound  *)
(* the bot to the peer id; a client that takes the bot's id is refused by  *)
(* every Welcome, so it is not connected while it goes by it.              *)
(*                                                                         *)
(* For any rates and network step the conjunction CadenceInv of the type   *)
(* invariant and the two safety invariants is inductive: an interval is in *)
(* force for the accumulator bound only because the rates are consistent,  *)
(* and the rates are consistent only because the ones that are staged are  *)
(* rates.                                                                  *)
(***************************************************************************)
EXTENDS JoinHandshake, Cadence, SequenceTheorems, TLAPS

-----------------------------------------------------------------------------
(* Who is in the session. *)

\* A route of a peer id leads to a client that was given it.
RouteInv == \A p \in DOMAIN peerRoutes : <<peerRoutes[p], p>> \in granted

\* So does a packet of the server, which shows no body but that of the peer id or of a bot.
IsGrantedPacket(pkt) ==
  <<pkt.client, pkt.peer>> \in granted /\ pkt.actor \in {0, pkt.peer} \cup Bots

\* And the proxy knows the way back to whoever says Hello.
PacketInv ==
  \A pkt \in scheduled :
    /\ pkt.kind \in {"Welcome", "Snapshot", "Disconnect"} => IsGrantedPacket(pkt)
    /\ pkt.kind = "Hello" => pkt.client \in DOMAIN sessionRoutes

JoinInv == TypeOK /\ PeerAsAssigned /\ RouteInv /\ PacketInv

\* What a client's own steps may change.
ClientInv ==
  /\ flow \in [Clients -> Flows] /\ conn \in [Clients -> Conns]
  /\ peer \in [Clients -> Seats \cup Bots \cup {0}]
  /\ hasSnapshot \in [Clients -> BOOLEAN] /\ overlay \in [Clients -> BOOLEAN]
  /\ clock \in [Clients -> 0 .. ConnectTimeout]
  /\ helloAge \in [Clients -> 0 .. HelloRetry]
  /\ silence \in [Clients -> Off .. SilenceTimeout]
  /\ PeerAsAssigned

\* What the proxy's steps may change.
ProxyInv ==
  /\ scheduled \subseteq Relay
  /\ IsRestriction(sessionRoutes, [c \in Clients |-> c])
  /\ DOMAIN peerRoutes \subseteq Seats /\ Range(peerRoutes) \subseteq Clients
  /\ RouteInv /\ PacketInv

\* What the server's steps may change.
ServerInv ==
  /\ DOMAIN sessions \subseteq Seats /\ Range(sessions) \subseteq SessionAt
  /\ DOMAIN control \subseteq Seats /\ Range(control) \subseteq Bots
  /\ granted \subseteq Clients \X Seats

(***************************************************************************)
(* The invariant by the parts of the system.                               *)
(***************************************************************************)
LEMMA InvOfParts == JoinInv <=> ClientInv /\ ProxyInv /\ ServerInv /\ hostUp \in BOOLEAN
BY DEF JoinInv, TypeOK, ClientInv, ProxyInv, ServerInv

\* The same after a step.
LEMMA InvFromParts ==
  ASSUME ClientInv', ProxyInv', ServerInv', hostUp' \in BOOLEAN
  PROVE  JoinInv'
BY DEF JoinInv, TypeOK, ClientInv, ProxyInv, ServerInv

(***************************************************************************)
(* The proxy takes packets in or loses them.                               *)
(***************************************************************************)
LEMMA ScheduledOrLost ==
  ASSUME NEW pkts, NEW rest
  PROVE  Scheduling(pkts, rest) \subseteq rest \cup pkts /\ (~hostUp => Scheduling(pkts, rest) = rest)
BY DEF Scheduling

(***************************************************************************)
(* One client's value changes.                                             *)
(***************************************************************************)
LEMMA OneSet ==
  ASSUME NEW S, NEW f \in [Clients -> S], NEW c \in Clients, NEW v \in S
  PROVE  /\ SetOne(f, c, v) \in [Clients -> S] /\ SetOne(f, c, v)[c] = v
         /\ \A d \in Clients : d # c => SetOne(f, c, v)[d] = f[d]
BY DEF SetOne

-----------------------------------------------------------------------------
(***************************************************************************)
(* A released client has no peer id and is in its initial state.           *)
(***************************************************************************)
LEMMA ReleasedSound ==
  ASSUME ClientInv, NEW c \in Clients, Released(c),
         NEW f \in {"Ended", "Failed"}, flow' = SetOne(flow, c, f),
         granted \subseteq granted'
  PROVE  ClientInv'
<1>1. 0 \in 0 .. ConnectTimeout /\ 0 \in 0 .. HelloRetry /\ Off \in Off .. SilenceTimeout
  BY JoinAssumption DEF Off
<1>2. /\ conn' \in [Clients -> Conns] /\ peer' \in [Clients -> Seats \cup Bots \cup {0}]
      /\ hasSnapshot' \in [Clients -> BOOLEAN] /\ overlay' \in [Clients -> BOOLEAN]
  BY DEF ClientInv, Released, SetOne, Conns
<1>5. flow' \in [Clients -> Flows]
  BY DEF ClientInv, SetOne, Flows
<1>3. /\ clock' \in [Clients -> 0 .. ConnectTimeout] /\ helloAge' \in [Clients -> 0 .. HelloRetry]
      /\ silence' \in [Clients -> Off .. SilenceTimeout]
  BY <1>1 DEF ClientInv, Released, SetOne
<1>4. PeerAsAssigned'
  BY JoinAssumption DEF ClientInv, Released, SetOne, PeerAsAssigned
<1> QED
  BY <1>2, <1>3, <1>4, <1>5 DEF ClientInv

(***************************************************************************)
(* A frame that keeps the client settles its flow and nothing of its id.   *)
(***************************************************************************)
LEMMA SettledSound ==
  ASSUME ClientInv, NEW c \in Clients, NEW s \in Conns, Settled(c, s),
         s = "Connected" => conn[c] = "Connected",
         granted \subseteq granted',
         s \notin {"Rejected", "TimedOut"} =>
            /\ clock' \in [Clients -> 0 .. ConnectTimeout]
            /\ helloAge' \in [Clients -> 0 .. HelloRetry]
            /\ silence' \in [Clients -> Off .. SilenceTimeout]
  PROVE  ClientInv'
<1>1. flow' \in [Clients -> Flows]
  BY DEF Settled, ClientInv, SetOne, Flows
<1>2. CASE s \in {"Rejected", "TimedOut"}
  BY <1>2, ReleasedSound DEF Settled
<1>3. CASE s \notin {"Rejected", "TimedOut"}
  <2>1. conn' = SetOne(conn, c, s) /\ UNCHANGED <<peer, hasSnapshot, overlay>>
    BY <1>3 DEF Settled
  <2>2. conn' \in [Clients -> Conns]
    BY <2>1 DEF ClientInv, SetOne
  <2>3. flow' = IF s = "Connected" /\ hasSnapshot[c] THEN SetOne(flow, c, "Running") ELSE flow
    BY <1>3 DEF Settled
  <2>4. PeerAsAssigned'
    BY <2>1, <2>3 DEF ClientInv, SetOne, PeerAsAssigned
  <2> QED
    BY <1>1, <1>3, <2>1, <2>2, <2>4 DEF ClientInv
<1> QED
  BY <1>2, <1>3

(***************************************************************************)
(* What a client sends leaves the proxy's routes sound, if the client goes *)
(* by an id of its own.                                                    *)
(***************************************************************************)
LEMMA HelloSent ==
  ASSUME ProxyInv, NEW c \in Clients, SendHello(c), UNCHANGED granted
  PROVE  ProxyInv'
<1>1. sessionRoutes' = IF hostUp THEN Put(sessionRoutes, c, c) ELSE sessionRoutes
  BY DEF SendHello, HelloRoutes
<1>2. IsRestriction(sessionRoutes', [d \in Clients |-> d])
      /\ DOMAIN sessionRoutes \subseteq DOMAIN sessionRoutes'
      /\ (hostUp => c \in DOMAIN sessionRoutes')
  BY <1>1 DEF Put, ProxyInv, IsRestriction
<1>3. scheduled' \subseteq scheduled \cup {Hello(c)} /\ (~hostUp => scheduled' = scheduled)
  BY ScheduledOrLost DEF SendHello
<1>4. Hello(c) \in Relay /\ Hello(c).kind = "Hello" /\ Hello(c).client = c
  BY DEF Hello, Packet, Relay
<1>5. scheduled' \subseteq Relay
  BY <1>3, <1>4 DEF ProxyInv
<1>6. PacketInv'
  BY <1>2, <1>3, <1>4 DEF ProxyInv, PacketInv, IsGrantedPacket, SendHello
<1>7. UNCHANGED peerRoutes
  BY DEF SendHello
<1> QED
  BY <1>2, <1>5, <1>6, <1>7 DEF ProxyInv, RouteInv

\* ... and a bundle teaches it the route of the sender's id.
LEMMA BundleSent ==
  ASSUME ProxyInv, NEW c \in Clients, SendBundle(c), UNCHANGED granted,
         peer[c] \in Seats, <<c, peer[c]>> \in granted
  PROVE  ProxyInv'
<1>1. peerRoutes' = IF hostUp THEN Put(peerRoutes, peer[c], c) ELSE peerRoutes
  BY DEF SendBundle
<1>2. /\ DOMAIN peerRoutes' \subseteq Seats
      /\ \A p \in DOMAIN peerRoutes' : peerRoutes'[p] \in Clients /\ <<peerRoutes'[p], p>> \in granted
  BY <1>1 DEF Put, ProxyInv, RouteInv, Range
<1>3. scheduled' \subseteq scheduled \cup {Bundle(c, peer[c])}
  BY ScheduledOrLost DEF SendBundle
<1>4. Bundle(c, peer[c]) \in Relay /\ Bundle(c, peer[c]).kind = "Bundle"
  BY DEF Bundle, Packet, Relay
<1>5. scheduled' \subseteq Relay
  BY <1>3, <1>4 DEF ProxyInv
<1>6. UNCHANGED sessionRoutes
  BY DEF SendBundle
<1>7. PacketInv'
  BY <1>3, <1>4, <1>6 DEF ProxyInv, PacketInv, IsGrantedPacket
<1> QED
  BY <1>2, <1>5, <1>6, <1>7 DEF ProxyInv, RouteInv, Range

\* Losing or delivering packets changes nothing for the others.
LEMMA FewerScheduled ==
  ASSUME ProxyInv, scheduled' \subseteq scheduled, UNCHANGED <<sessionRoutes, peerRoutes>>,
         granted \subseteq granted'
  PROVE  ProxyInv'
BY DEF ProxyInv, RouteInv, PacketInv, IsGrantedPacket

\* What the proxy forwards to a peer id reaches a client that was given it.
LEMMA RoutedSound ==
  ASSUME ProxyInv, NEW kind \in {"Snapshot", "Disconnect"}, NEW p \in Seats,
         NEW a \in {0, p} \cup Bots
  PROVE  \A pkt \in Routed(kind, p, a) :
           pkt \in Relay /\ pkt.kind = kind /\ IsGrantedPacket(pkt)
BY DEF ProxyInv, RouteInv, Routed, Packet, Relay, Range, IsGrantedPacket

\* The body shown to a client is its own or a bot's, whoever had its id before.
LEMMA OwnBodyIs ==
  ASSUME ServerInv, NEW p \in Seats
  PROVE  OwnBodies(p) \subseteq {0, p} \cup Bots
BY DEF ServerInv, OwnBodies, Controlled, Range

-----------------------------------------------------------------------------
(***************************************************************************)
(* The steps of a joiner.                                                  *)
(***************************************************************************)
LEMMA StartInv ==
  ASSUME JoinInv, NEW c \in Clients, Start(c) \/ StartFails(c)
  PROVE  JoinInv'
<1>1. ClientInv' /\ ServerInv' /\ hostUp' \in BOOLEAN
  <2>1. UNCHANGED <<peer, hasSnapshot, clock, helloAge, silence, overlay, hostUp, sessions, control, granted>>
    BY DEF Start, StartFails, serverVars
  <2>2. conn' \in [Clients -> Conns] /\ flow' \in [Clients -> Flows]
    BY <2>1, InvOfParts DEF ClientInv, Start, StartFails, SetOne, Conns, Flows
  <2>3. \A d \in Clients :
          /\ conn'[d] = "Connected" => conn[d] = "Connected"
          /\ flow'[d] = "Running" => flow[d] = "Running"
    BY InvOfParts DEF ClientInv, Start, StartFails, SetOne
  <2>4. PeerAsAssigned'
    BY <2>1, <2>3, InvOfParts DEF ClientInv, PeerAsAssigned
  <2> QED
    BY <2>1, <2>2, <2>4, InvOfParts DEF ClientInv, ServerInv
<1>2. ProxyInv'
  <2>1. CASE Start(c)
    BY <2>1, InvOfParts, HelloSent DEF Start, serverVars
  <2>2. CASE StartFails(c)
    BY <2>2, InvOfParts, FewerScheduled DEF StartFails, serverVars, proxyVars
  <2> QED
    BY <2>1, <2>2
<1> QED
  BY <1>1, <1>2, InvOfParts, InvFromParts

LEMMA FrameConnectingInv ==
  ASSUME JoinInv, NEW c \in Clients, FrameConnecting(c)
  PROVE  JoinInv'
<1> DEFINE late == clock[c] + 1 >= ConnectTimeout
           due  == helloAge[c] + 1 >= HelloRetry
<1>1. /\ Settled(c, IF late THEN "TimedOut" ELSE "Connecting")
      /\ IF ~late /\ due THEN SendHello(c) ELSE UNCHANGED proxyVars
      /\ ~late => /\ clock' = SetOne(clock, c, clock[c] + 1)
                  /\ helloAge' = SetOne(helloAge, c, IF due THEN 0 ELSE helloAge[c] + 1)
                  /\ UNCHANGED silence
      /\ UNCHANGED <<hostUp, sessions, control, granted>>
  BY DEF FrameConnecting, ClockAfter, serverVars
<1>2. ASSUME ~late
      PROVE  /\ clock' \in [Clients -> 0 .. ConnectTimeout]
             /\ helloAge' \in [Clients -> 0 .. HelloRetry]
             /\ silence' \in [Clients -> Off .. SilenceTimeout]
  <2>1. clock \in [Clients -> 0 .. ConnectTimeout] /\ helloAge \in [Clients -> 0 .. HelloRetry]
        /\ silence \in [Clients -> Off .. SilenceTimeout]
    BY InvOfParts DEF ClientInv
  <2>2. clock[c] + 1 \in 0 .. ConnectTimeout
        /\ (IF due THEN 0 ELSE helloAge[c] + 1) \in 0 .. HelloRetry
    BY <1>2, <2>1, JoinAssumption
  <2> QED
    BY <1>1, <1>2, <2>1, <2>2 DEF SetOne
<1>3. ClientInv'
  <2>1. CASE late
    BY <1>1, <2>1, InvOfParts, SettledSound DEF Conns
  <2>2. CASE ~late
    BY <1>1, <1>2, <2>2, InvOfParts, SettledSound DEF Conns
  <2> QED
    BY <2>1, <2>2
<1>4. ProxyInv'
  <2>1. CASE ~late /\ due
    BY <1>1, <2>1, InvOfParts, HelloSent
  <2>2. CASE ~(~late /\ due)
    BY <1>1, <2>2, InvOfParts, FewerScheduled DEF proxyVars
  <2> QED
    BY <2>1, <2>2
<1> QED
  BY <1>1, <1>3, <1>4, InvOfParts, InvFromParts DEF ServerInv

LEMMA FrameConnectedInv ==
  ASSUME JoinInv, NEW c \in Clients, FrameConnected(c)
  PROVE  JoinInv'
<1> DEFINE late == silence[c] = SilenceTimeout /\ ~overlay[c]
<1>1. /\ conn[c] = "Connected"
      /\ Settled(c, IF late THEN "TimedOut" ELSE "Connected")
      /\ IF late THEN UNCHANGED proxyVars ELSE SendBundle(c)
      /\ ~late => /\ silence' = SetOne(silence, c, SilenceAfter(c))
                  /\ UNCHANGED <<clock, helloAge>>
      /\ UNCHANGED <<hostUp, sessions, control, granted>>
  BY DEF FrameConnected, serverVars
<1>2. ASSUME ~late
      PROVE  /\ clock' \in [Clients -> 0 .. ConnectTimeout]
             /\ helloAge' \in [Clients -> 0 .. HelloRetry]
             /\ silence' \in [Clients -> Off .. SilenceTimeout]
  <2>1. clock \in [Clients -> 0 .. ConnectTimeout] /\ helloAge \in [Clients -> 0 .. HelloRetry]
        /\ silence \in [Clients -> Off .. SilenceTimeout]
    BY InvOfParts DEF ClientInv
  <2>2. SilenceAfter(c) \in Off .. SilenceTimeout
    BY <2>1, JoinAssumption DEF SilenceAfter, Off
  <2> QED
    BY <1>1, <1>2, <2>1, <2>2 DEF SetOne
<1>3. ClientInv'
  <2>1. CASE late
    BY <1>1, <2>1, InvOfParts, SettledSound DEF Conns
  <2>2. CASE ~late
    BY <1>1, <1>2, <2>2, InvOfParts, SettledSound DEF Conns
  <2> QED
    BY <2>1, <2>2
<1>4. peer[c] \in Seats /\ <<c, peer[c]>> \in granted
  BY <1>1, InvOfParts DEF ClientInv, PeerAsAssigned
<1>5. ProxyInv'
  <2>1. CASE late
    BY <1>1, <2>1, InvOfParts, FewerScheduled DEF proxyVars
  <2>2. CASE ~late
    BY <1>1, <1>4, <2>2, InvOfParts, BundleSent
  <2> QED
    BY <2>1, <2>2
<1> QED
  BY <1>1, <1>3, <1>5, InvOfParts, InvFromParts DEF ServerInv

\* The frame after a Disconnect, and an error of the socket, release the client.
LEMMA RejectedInv ==
  ASSUME JoinInv, NEW c \in Clients, FrameRejected(c) \/ SocketFails(c)
  PROVE  JoinInv'
<1>1. Settled(c, "Rejected") /\ UNCHANGED <<proxyVars, hostUp, serverVars>>
  BY DEF FrameRejected, SocketFails
<1>2. ClientInv'
  BY <1>1, InvOfParts, SettledSound DEF Conns, serverVars
<1>3. ProxyInv' /\ ServerInv'
  BY <1>1, InvOfParts, FewerScheduled DEF proxyVars, serverVars, ServerInv
<1> QED
  BY <1>1, <1>2, <1>3, InvOfParts, InvFromParts

LEMMA QuitInv ==
  ASSUME JoinInv, NEW c \in Clients, Quit(c)
  PROVE  JoinInv'
<1>1. Released(c) /\ UNCHANGED <<proxyVars, hostUp, serverVars>> /\ flow' = SetOne(flow, c, "Ended")
  BY DEF Quit
<1>2. ClientInv'
  BY <1>1, InvOfParts, ReleasedSound DEF serverVars
<1>3. ProxyInv' /\ ServerInv'
  BY <1>1, InvOfParts, FewerScheduled DEF proxyVars, serverVars, ServerInv
<1> QED
  BY <1>1, <1>2, <1>3, InvOfParts, InvFromParts

LEMMA ToggleOverlayInv ==
  ASSUME JoinInv, NEW c \in Clients, ToggleOverlay(c)
  PROVE  JoinInv'
<1>1. overlay' = SetOne(overlay, c, ~overlay[c])
      /\ UNCHANGED <<flow, conn, peer, hasSnapshot, clock, helloAge, silence,
                     proxyVars, hostUp, serverVars>>
  BY DEF ToggleOverlay
<1>2. overlay' \in [Clients -> BOOLEAN]
  BY <1>1, InvOfParts DEF ClientInv, SetOne
<1>3. ClientInv'
  BY <1>1, <1>2, InvOfParts DEF ClientInv, serverVars, PeerAsAssigned
<1>4. ProxyInv' /\ ServerInv'
  BY <1>1, InvOfParts, FewerScheduled DEF proxyVars, serverVars, ServerInv
<1> QED
  BY <1>1, <1>3, <1>4, InvOfParts, InvFromParts

(***************************************************************************)
(* A packet of the server arrives: the id in it was given to its receiver, *)
(* and so was that of the body it shows, if it is no bot's.                *)
(***************************************************************************)
LEMMA ReceiveInv ==
  ASSUME JoinInv, NEW pkt \in scheduled, Receive(pkt)
  PROVE  JoinInv'
<1> DEFINE c == pkt.client
           p == pkt.peer
<1>1. pkt \in Relay /\ c \in Clients
  BY InvOfParts DEF ProxyInv, Relay
<1>2. pkt.kind \in {"Welcome", "Snapshot", "Disconnect"}
  BY DEF Receive
<1>3. <<c, p>> \in granted /\ p \in Seats /\ p # 0 /\ pkt.actor \in {0, p} \cup Bots
  BY <1>2, InvOfParts, JoinAssumption DEF ProxyInv, PacketInv, IsGrantedPacket, ServerInv
<1>4. /\ UNCHANGED <<flow, helloAge, overlay, sessionRoutes, peerRoutes, hostUp, sessions, control, granted>>
      /\ scheduled' \subseteq scheduled /\ silence' = SetOne(silence, c, 0)
  BY DEF Receive, serverVars
<1>5. silence' \in [Clients -> Off .. SilenceTimeout]
  BY <1>1, <1>4, InvOfParts, JoinAssumption DEF ClientInv, SetOne, Off
<1>6. \/ HandleWelcome(c, p, pkt.sid) \/ HandleSnapshot(c, p, pkt.actor) \/ HandleDisconnect(c)
  BY DEF Receive
<1> HIDE DEF c, p
<1>7. /\ conn' \in [Clients -> Conns] /\ peer' \in [Clients -> Seats \cup Bots \cup {0}]
      /\ hasSnapshot' \in [Clients -> BOOLEAN] /\ clock' \in [Clients -> 0 .. ConnectTimeout]
      /\ PeerAsAssigned'
  <2>1. /\ conn \in [Clients -> Conns] /\ peer \in [Clients -> Seats \cup Bots \cup {0}]
        /\ hasSnapshot \in [Clients -> BOOLEAN] /\ clock \in [Clients -> 0 .. ConnectTimeout]
        /\ PeerAsAssigned /\ 0 \in 0 .. ConnectTimeout
    BY InvOfParts, JoinAssumption DEF ClientInv
  <2>2. CASE HandleWelcome(c, p, pkt.sid)
    BY <1>1, <1>3, <1>4, <2>1, <2>2 DEF HandleWelcome, SetOne, Conns, PeerAsAssigned
  <2>3. CASE HandleSnapshot(c, p, pkt.actor)
    BY <1>1, <1>3, <1>4, <2>1, <2>3, JoinAssumption DEF HandleSnapshot, PeerFromSnapshot, SetOne, PeerAsAssigned
  <2>4. CASE HandleDisconnect(c)
    BY <1>1, <1>4, <2>1, <2>4 DEF HandleDisconnect, SetOne, Conns, PeerAsAssigned
  <2> QED
    BY <1>6, <2>2, <2>3, <2>4
<1>8. ClientInv'
  BY <1>4, <1>5, <1>7, InvOfParts DEF ClientInv
<1>9. ProxyInv' /\ ServerInv'
  BY <1>4, InvOfParts, FewerScheduled DEF ServerInv
<1> QED
  BY <1>4, <1>8, <1>9, InvOfParts, InvFromParts
-----------------------------------------------------------------------------
(***************************************************************************)
(* The server's and the proxy's steps leave the clients alone.             *)
(***************************************************************************)
LEMMA ClientsIdle ==
  ASSUME ClientInv, UNCHANGED clientVars, granted \subseteq granted'
  PROVE  ClientInv'
BY DEF ClientInv, clientVars, PeerAsAssigned

(***************************************************************************)
(* More packets that are sound, on the same routes.                        *)
(***************************************************************************)
LEMMA MoreScheduled ==
  ASSUME ProxyInv, UNCHANGED <<sessionRoutes, peerRoutes, granted>>,
         NEW pkts, scheduled' \subseteq scheduled \cup pkts,
         \A pkt \in pkts : pkt \in Relay /\ pkt.kind # "Hello" /\ IsGrantedPacket(pkt)
  PROVE  ProxyInv'
BY DEF ProxyInv, RouteInv, PacketInv, IsGrantedPacket

(***************************************************************************)
(* A client is welcomed: the answer goes where its Hello came from.        *)
(***************************************************************************)
LEMMA WelcomedInv ==
  ASSUME JoinInv, NEW c \in Clients, NEW p \in Seats, c \in DOMAIN sessionRoutes,
         NEW rest \in SUBSET scheduled, Welcomed(c, p, rest),
         UNCHANGED <<clientVars, sessionRoutes, hostUp>>
  PROVE  JoinInv'
<1>1. sessionRoutes[c] = c
  BY InvOfParts DEF ProxyInv, IsRestriction
<1>2. peerRoutes' = Put(peerRoutes, p, c) /\ WelcomeRoutes(c, p)[p] = c
  BY <1>1 DEF Welcomed, WelcomeRoutes, Put
<1>3. /\ granted' = granted \cup {<<c, p>>} /\ UNCHANGED control
      /\ sessions' = Put(sessions, p, [sid |-> c, quiet |-> 0])
  BY DEF Welcomed
<1>4. PICK a \in OwnBodies(p) :
        scheduled' \subseteq scheduled \cup {Welcome(c, p, c), Snapshot(p, c, a)}
  BY <1>2, ScheduledOrLost DEF Welcomed
<1>5. \A pkt \in {Welcome(c, p, c), Snapshot(p, c, a)} :
        /\ pkt \in Relay /\ pkt.kind # "Hello" /\ pkt.client = c /\ pkt.peer = p
        /\ pkt.actor \in {0, p} \cup Bots
  BY <1>4, OwnBodyIs, InvOfParts DEF Welcome, Snapshot, Packet, Relay
<1>6. DOMAIN peerRoutes' \subseteq Seats /\ Range(peerRoutes') \subseteq Clients /\ RouteInv'
  <2>1. /\ DOMAIN peerRoutes' = DOMAIN peerRoutes \cup {p}
        /\ \A q \in DOMAIN peerRoutes' : peerRoutes'[q] = IF q = p THEN c ELSE peerRoutes[q]
    BY <1>2 DEF Put
  <2>2. /\ DOMAIN peerRoutes \subseteq Seats
        /\ \A q \in DOMAIN peerRoutes : peerRoutes[q] \in Clients /\ <<peerRoutes[q], q>> \in granted
    BY InvOfParts DEF ProxyInv, RouteInv, Range
  <2> QED
    BY <1>3, <2>1, <2>2 DEF RouteInv, Range
<1>7. scheduled' \subseteq Relay /\ PacketInv'
  BY <1>3, <1>4, <1>5, InvOfParts DEF ProxyInv, PacketInv, IsGrantedPacket
<1>8. ProxyInv'
  BY <1>6, <1>7, InvOfParts DEF ProxyInv
<1>9. ServerInv'
  <2>1. [sid |-> c, quiet |-> 0] \in SessionAt
    BY JoinAssumption DEF SessionAt
  <2>2. /\ DOMAIN sessions' = DOMAIN sessions \cup {p}
        /\ \A q \in DOMAIN sessions' :
             sessions'[q] = IF q = p THEN [sid |-> c, quiet |-> 0] ELSE sessions[q]
    BY <1>3 DEF Put
  <2> QED
    BY <1>3, <2>1, <2>2, InvOfParts DEF ServerInv, Range
<1>10. ClientInv'
  BY <1>3, InvOfParts, ClientsIdle
<1> QED
  BY <1>8, <1>9, <1>10, InvOfParts, InvFromParts

LEMMA ServeHelloInv ==
  ASSUME JoinInv, NEW pkt \in scheduled, ServeHello(pkt)
  PROVE  JoinInv'
<1> DEFINE c == pkt.client
           rest == scheduled \ {pkt}
<1>1. c \in Clients /\ c \in DOMAIN sessionRoutes /\ rest \in SUBSET scheduled
  BY InvOfParts DEF ProxyInv, PacketInv, Relay, ServeHello
<1>2. UNCHANGED <<clientVars, sessionRoutes, hostUp>>
  BY DEF ServeHello
<1>3. CASE HasSession(c) /\ Welcomed(c, PeerOf(c), rest)
  <2>1. PeerOf(c) \in DOMAIN sessions
    BY <1>3 DEF HasSession, PeerOf
  <2>2. PeerOf(c) \in Seats
    BY <2>1, InvOfParts DEF ServerInv
  <2> QED
    BY <1>1, <1>2, <1>3, <2>2, WelcomedInv
<1>4. CASE \E p \in Seats : IsLowest(p, FreeSeats) /\ Welcomed(c, p, rest)
  BY <1>1, <1>2, <1>4, WelcomedInv
<1>5. CASE scheduled' = rest /\ UNCHANGED <<sessions, control, granted, peerRoutes>>
  <2>1. ClientInv'
    BY <1>2, <1>5, InvOfParts, ClientsIdle
  <2>2. ProxyInv' /\ ServerInv'
    BY <1>2, <1>5, InvOfParts, FewerScheduled DEF ServerInv
  <2> QED
    BY <1>2, <2>1, <2>2, InvOfParts, InvFromParts
<1> QED
  BY <1>3, <1>4, <1>5 DEF ServeHello, serverVars

LEMMA ServeBundleInv ==
  ASSUME JoinInv, NEW pkt \in scheduled, ServeBundle(pkt)
  PROVE  JoinInv'
<1>1. /\ UNCHANGED <<clientVars, sessionRoutes, peerRoutes, hostUp, control, granted>>
      /\ scheduled' \subseteq scheduled
      /\ sessions' = IF pkt.peer \in DOMAIN sessions
                     THEN [sessions EXCEPT ![pkt.peer].quiet = 0] ELSE sessions
  BY DEF ServeBundle
<1>2. \A q \in DOMAIN sessions : sessions[q] \in SessionAt
  BY InvOfParts DEF ServerInv, Range
<1>3. DOMAIN sessions' = DOMAIN sessions
  BY <1>1
<1>4. \A q \in DOMAIN sessions' : sessions'[q] \in SessionAt
  <2> SUFFICES ASSUME NEW q \in DOMAIN sessions
               PROVE  sessions'[q] \in SessionAt
    BY <1>3
  <2>1. sessions'[q] = sessions[q] \/ sessions'[q] = [sessions[q] EXCEPT !.quiet = 0]
    BY <1>1
  <2> QED
    BY <1>2, <2>1, JoinAssumption DEF SessionAt
<1>5. ServerInv'
  BY <1>1, <1>3, <1>4, InvOfParts DEF ServerInv, Range
<1>6. ClientInv' /\ ProxyInv'
  BY <1>1, InvOfParts, ClientsIdle, FewerScheduled
<1> QED
  BY <1>1, <1>5, <1>6, InvOfParts, InvFromParts

LEMMA ServerTickInv ==
  ASSUME JoinInv, ServerTick
  PROVE  JoinInv'
<1> DEFINE kept == {p \in DOMAIN sessions : ~TimedOut(p)}
<1>1. PICK own \in [kept -> Seats \cup Bots \cup {0}] :
        /\ \A p \in kept : own[p] \in OwnBodies(p)
        /\ scheduled' = Scheduling(UNION {Routed("Snapshot", p, own[p]) : p \in kept}, scheduled)
  BY Zenon DEF ServerTick
<1> DEFINE pkts == UNION {Routed("Snapshot", p, own[p]) : p \in kept}
<1>2. /\ UNCHANGED <<clientVars, sessionRoutes, peerRoutes, hostUp, control, granted>>
      /\ scheduled' \subseteq scheduled \cup pkts
      /\ sessions' = [p \in kept |-> [sessions[p] EXCEPT !.quiet = QuietAfterTick(p)]]
  BY <1>1, ScheduledOrLost DEF ServerTick
<1>3. kept \subseteq Seats /\ \A p \in kept : sessions[p] \in SessionAt
  BY InvOfParts DEF ServerInv, Range
<1>4. \A p \in kept : sessions'[p] \in SessionAt
  <2> SUFFICES ASSUME NEW p \in kept
               PROVE  sessions'[p] \in SessionAt
    OBVIOUS
  <2>1. sessions[p].quiet + 1 \in 0 .. ClientTimeout
    BY <1>3, JoinAssumption DEF TimedOut, SessionAt
  <2> QED
    BY <1>2, <1>3, <2>1 DEF SessionAt, QuietAfterTick
<1>5. \A pkt \in pkts : pkt \in Relay /\ pkt.kind # "Hello" /\ IsGrantedPacket(pkt)
  <2>1. ASSUME NEW p \in kept
        PROVE  \A pkt \in Routed("Snapshot", p, own[p]) :
                 pkt \in Relay /\ pkt.kind = "Snapshot" /\ IsGrantedPacket(pkt)
    <3>1. p \in Seats /\ own[p] \in {0, p} \cup Bots
      BY <1>1, <1>3, InvOfParts, OwnBodyIs
    <3> QED
      BY <3>1, InvOfParts, RoutedSound
  <2> QED
    BY <2>1
<1> HIDE DEF kept, pkts
<1>6. ServerInv'
  BY <1>2, <1>3, <1>4, InvOfParts DEF ServerInv, Range
<1>7. ClientInv' /\ ProxyInv'
  BY <1>2, <1>5, InvOfParts, ClientsIdle, MoreScheduled
<1> QED
  BY <1>2, <1>6, <1>7, InvOfParts, InvFromParts

LEMMA KickInv ==
  ASSUME JoinInv, NEW p \in Seats, Kick(p)
  PROVE  JoinInv'
<1>1. /\ UNCHANGED <<clientVars, sessionRoutes, peerRoutes, hostUp, granted>>
      /\ scheduled' \subseteq scheduled \cup Routed("Disconnect", p, 0)
      /\ sessions' = [q \in DOMAIN sessions \ {p} |-> sessions[q]]
      /\ control' = [q \in DOMAIN control \ {p} |-> control[q]]
  BY ScheduledOrLost DEF Kick, Restrict
<1>2. \A pkt \in Routed("Disconnect", p, 0) :
        pkt \in Relay /\ pkt.kind # "Hello" /\ IsGrantedPacket(pkt)
  BY InvOfParts, RoutedSound
<1>3. ServerInv'
  BY <1>1, InvOfParts DEF ServerInv, Range
<1>4. ClientInv' /\ ProxyInv'
  BY <1>1, <1>2, InvOfParts, ClientsIdle, MoreScheduled
<1> QED
  BY <1>1, <1>3, <1>4, InvOfParts, InvFromParts

\* A bot is bound to the session, or it is let go.
LEMMA BindControlInv ==
  ASSUME JoinInv, NEW p \in Seats, BindControl(p)
  PROVE  JoinInv'
<1>1. UNCHANGED <<clientVars, proxyVars, hostUp, sessions, granted>>
  BY DEF BindControl
<1>2. DOMAIN control' \subseteq Seats /\ \A q \in DOMAIN control' : control'[q] \in Bots
  BY InvOfParts DEF BindControl, Put, Restrict, ServerInv, Range
<1>3. ServerInv'
  BY <1>1, <1>2, InvOfParts DEF ServerInv, Range
<1>4. ClientInv' /\ ProxyInv'
  BY <1>1, InvOfParts, ClientsIdle, FewerScheduled DEF proxyVars
<1> QED
  BY <1>1, <1>3, <1>4, InvOfParts, InvFromParts

LEMMA HostEndsInv ==
  ASSUME JoinInv, HostEnds
  PROVE  JoinInv'
<1>1. /\ UNCHANGED <<clientVars, granted>> /\ hostUp' = FALSE
      /\ sessionRoutes' = <<>> /\ peerRoutes' = <<>>
      /\ sessions' = <<>> /\ control' = <<>>
      /\ scheduled' \subseteq scheduled /\ \A pkt \in scheduled' : pkt.kind # "Hello"
  BY DEF HostEnds
<1>2. ProxyInv'
  BY <1>1, InvOfParts DEF ProxyInv, RouteInv, PacketInv, IsGrantedPacket, IsRestriction, Range
<1>3. ServerInv'
  BY <1>1, InvOfParts DEF ServerInv, Range
<1>4. ClientInv'
  BY <1>1, InvOfParts, ClientsIdle
<1> QED
  BY <1>1, <1>2, <1>3, <1>4, InvFromParts

LEMMA LoseInv ==
  ASSUME JoinInv, Lose
  PROVE  JoinInv'
<1>1. /\ UNCHANGED <<clientVars, sessionRoutes, peerRoutes, hostUp, sessions, control, granted>>
      /\ scheduled' \subseteq scheduled
  BY DEF Lose, serverVars
<1>2. ClientInv' /\ ProxyInv'
  BY <1>1, InvOfParts, ClientsIdle, FewerScheduled
<1>3. ServerInv'
  BY <1>1, InvOfParts DEF ServerInv
<1> QED
  BY <1>1, <1>2, <1>3, InvOfParts, InvFromParts

-----------------------------------------------------------------------------
LEMMA InitInv ==
  ASSUME Init
  PROVE  JoinInv
<1>1. 0 \in 0 .. ConnectTimeout /\ 0 \in 0 .. HelloRetry /\ Off \in Off .. SilenceTimeout
  BY JoinAssumption DEF Off
<1>2. ClientInv
  BY <1>1, JoinAssumption DEF Init, ClientInv, PeerAsAssigned, Flows, Conns
<1>3. ProxyInv /\ ServerInv
  BY DEF Init, ProxyInv, ServerInv, RouteInv, PacketInv, IsRestriction, Range
<1> QED
  BY <1>2, <1>3, InvOfParts DEF Init

LEMMA NextInv ==
  ASSUME JoinInv, [Next]_vars
  PROVE  JoinInv'
<1>1. CASE \E c \in Clients : \/ Start(c) \/ StartFails(c) \/ Frame(c)
                              \/ ToggleOverlay(c) \/ Quit(c) \/ SocketFails(c)
  BY <1>1, StartInv, FrameConnectingInv, FrameConnectedInv, RejectedInv, ToggleOverlayInv, QuitInv
     DEF Frame
<1>2. CASE \E pkt \in scheduled : Receive(pkt) \/ ServeHello(pkt) \/ ServeBundle(pkt)
  BY <1>2, ReceiveInv, ServeHelloInv, ServeBundleInv
<1>3. CASE (\E p \in Seats : Kick(p) \/ BindControl(p)) \/ Lose \/ ServerTick \/ HostEnds
  BY <1>3, KickInv, BindControlInv, LoseInv, ServerTickInv, HostEndsInv
<1>4. CASE UNCHANGED vars
  <2>1. UNCHANGED <<clientVars, proxyVars, hostUp, serverVars>>
    BY <1>4 DEF vars
  <2>2. ClientInv' /\ ProxyInv'
    BY <2>1, InvOfParts, ClientsIdle, FewerScheduled DEF proxyVars, serverVars
  <2>3. ServerInv'
    BY <2>1, InvOfParts DEF ServerInv, serverVars
  <2> QED
    BY <2>1, <2>2, <2>3, InvOfParts, InvFromParts
<1> QED
  BY <1>1, <1>2, <1>3, <1>4 DEF Next

\* Ids, routes and packets of the server lead to clients the ids were given to, whatever is
\* lost, late or refused and whatever bot a seat is bound to
\* (ProxyRuntime::tick, ClientSyncRuntime::applySnapshot, acceptClient).
THEOREM JoinInvariant == Spec => []JoinInv
<1>1. Init => JoinInv
  BY InitInv
<1>2. JoinInv /\ [Next]_vars => JoinInv'
  BY NextInv
<1> QED
  BY <1>1, <1>2, PTL DEF Spec

\* Every variable keeps its type: clocks stop at their timeouts, routes lead to clients.
THEOREM TypeCorrect == Spec => []TypeOK
<1>1. JoinInv => TypeOK
  BY DEF JoinInv
<1> QED
  BY <1>1, JoinInvariant, PTL

\* No client goes by the peer id of another, and one that is connected or runs goes by a peer
\* id, never by that of a bot left bound to its seat (ClientRuntime::handlePacket).
THEOREM PeersAssigned == Spec => []PeerAsAssigned
<1>1. JoinInv => PeerAsAssigned
  BY DEF JoinInv
<1> QED
  BY <1>1, JoinInvariant, PTL

-----------------------------------------------------------------------------
(* The rates of the session. *)

CadenceInv == CadenceTypeOK /\ CadenceConsistent /\ NoSnapshotDropped

(***************************************************************************)
(* An interval is at least a microsecond.                                  *)
(***************************************************************************)
LEMMA IntervalPositive ==
  ASSUME NEW r \in Rates
  PROVE  IntervalUs(r) \in Nat \ {0}
<1>1. r \in Nat /\ 1 <= r /\ r <= Second /\ Second \in Nat
  BY CadenceAssumption
<1>2. 2 * r \in Nat /\ 2 * r > 0 /\ 2 * Second + r >= 2 * r
  BY <1>1
<1>3. \A n, d \in Nat : d > 0 /\ n >= d => n \div d \in Nat /\ n \div d >= 1
  OBVIOUS
<1>4. 2 * Second + r \in Nat
  BY <1>1
<1>5. QED
  BY <1>2, <1>3, <1>4 DEF IntervalUs

(***************************************************************************)
(* A higher rate has no longer interval, the rounding included.            *)
(***************************************************************************)
LEMMA IntervalMonotone ==
  ASSUME NEW r \in Rates, NEW s \in Rates, r <= s
  PROVE  IntervalUs(s) <= IntervalUs(r)
<1>1. /\ r \in Nat /\ 1 <= r
      /\ s \in Nat /\ 1 <= s
      /\ Second \in Nat
  BY CadenceAssumption
<1> DEFINE p == IntervalUs(r)
           q == IntervalUs(s)
<1>2. p \in Nat /\ q \in Nat /\ 1 <= q
  BY IntervalPositive
<1>3. \A n, d \in Nat : d > 0 => d * (n \div d) <= n /\ n < d * (n \div d) + d
  OBVIOUS
<1>4. (2 * s) * q <= 2 * Second + s
  <2>1. 2 * Second + s \in Nat /\ 2 * s \in Nat /\ 2 * s > 0
    BY <1>1
  <2>2. QED
    BY <1>3, <2>1 DEF IntervalUs
<1>5. 2 * Second + r < (2 * r) * p + 2 * r
  <2>1. 2 * Second + r \in Nat /\ 2 * r \in Nat /\ 2 * r > 0
    BY <1>1
  <2>2. QED
    BY <1>3, <2>1 DEF IntervalUs
<1> HIDE DEF p, q
<1>6. s * (2 * q - 1) <= 2 * Second
  BY <1>1, <1>2, <1>4
<1>7. r * (2 * q - 1) <= s * (2 * q - 1)
  BY <1>1, <1>2
<1>8. 2 * Second < r * (2 * p + 1)
  BY <1>1, <1>2, <1>5
<1>9. r * (2 * q - 1) < r * (2 * p + 1)
  <2>1. /\ r * (2 * q - 1) \in Int
        /\ s * (2 * q - 1) \in Int
        /\ r * (2 * p + 1) \in Int
    BY <1>1, <1>2
  <2>2. QED
    BY <1>1, <1>6, <1>7, <1>8, <2>1
<1>10. 2 * q - 1 < 2 * p + 1
  BY <1>1, <1>2, <1>9
<1>11. QED
  BY <1>2, <1>10 DEF p, q

(***************************************************************************)
(* A sequence of S with an element of S appended, and what is left of it   *)
(* without its head.                                                       *)
(***************************************************************************)
LEMMA AppendSeq ==
  ASSUME NEW S, NEW q \in Seq(S), NEW e \in S
  PROVE  Append(q, e) \in Seq(S) /\ Tail(Append(q, e)) \in Seq(S)
<1>1. Append(q, e) \in Seq(S) /\ Len(Append(q, e)) = Len(q) + 1 /\ Len(q) \in Nat
  BY AppendProperties
<1>2. Append(q, e) # <<>>
  BY <1>1
<1>3. QED
  BY <1>1, <1>2, HeadTailProperties

-----------------------------------------------------------------------------
(***************************************************************************)
(* The session starts with the rates of a normalised launch configuration. *)
(***************************************************************************)
LEMMA CadenceStarts == CadenceInit => CadenceInv
<1> SUFFICES ASSUME CadenceInit PROVE CadenceInv
  OBVIOUS
<1>1. tickRate \in Rates /\ snapshotRate \in Rates /\ snapshotRate <= tickRate
  BY DEF CadenceInit
<1>2. tickUs \in Nat \ {0} /\ snapshotUs \in Nat \ {0} /\ tickUs <= snapshotUs
  BY <1>1, IntervalPositive, IntervalMonotone DEF CadenceInit
<1>3. CadenceTypeOK
  <2>1. requests \subseteq RateRequest /\ results \subseteq RateResult
    BY DEF CadenceInit
  <2>2. snapshots \in Seq(CadenceInfo)
    BY DEF CadenceInit
  <2>3. retimed \in BOOLEAN
    BY Zenon DEF CadenceInit
  <2>4. {pendingTick, pendingSnapshot, stagedTick, stagedSnapshot}
           \subseteq Rates \cup {Unset}
    BY DEF CadenceInit
  <2>5. {snapshotAcc, serverAcc, step} \subseteq Nat
    BY DEF CadenceInit, Unset
  <2>6. {tickRate, snapshotRate} \subseteq Rates /\ liveTick \in Rates
    BY <1>1 DEF CadenceInit
  <2>7. {tickUs, snapshotUs} \subseteq Nat \ {0}
    BY <1>2
  <2>8. QED
    BY Zenon, <2>1, <2>2, <2>3, <2>4, <2>5, <2>6, <2>7 DEF CadenceTypeOK
<1>4. CadenceConsistent
  BY <1>1, <1>2 DEF CadenceInit, CadenceConsistent
<1>5. NoSnapshotDropped
  BY <1>2 DEF CadenceInit, NoSnapshotDropped
<1>6. QED
  BY <1>3, <1>4, <1>5 DEF CadenceInv

(***************************************************************************)
(* Committing staged rates, one of them, both or none, keeps the rates and *)
(* their intervals consistent (applyTickRateHz, then applySnapshotRateHz). *)
(***************************************************************************)
LEMMA CommitKeepsConsistent ==
  ASSUME CadenceTypeOK, CadenceConsistent, CommitRates
  PROVE  /\ CadenceConsistent'
         /\ tickRate' \in Rates /\ snapshotRate' \in Rates
         /\ tickUs' \in Nat \ {0} /\ snapshotUs' \in Nat \ {0}
<1>1. /\ tickRate \in Rates /\ snapshotRate \in Rates
      /\ pendingTick # Unset => pendingTick \in Rates
      /\ pendingSnapshot # Unset => pendingSnapshot \in Rates
  BY DEF CadenceTypeOK
<1>2. \A r \in Rates : r \in Nat
  BY CadenceAssumption
<1>3. tickRate' \in Rates /\ tickUs' = IntervalUs(tickRate')
  BY <1>1 DEF CommitRates, CadenceConsistent
<1>4. /\ snapshotRate' \in Rates
      /\ snapshotRate' <= tickRate'
      /\ snapshotUs' = IntervalUs(snapshotRate')
  <2>1. CASE pendingSnapshot # Unset
    BY <1>1, <1>2, <1>3, <2>1 DEF CommitRates, MinOf
  <2>2. CASE pendingSnapshot = Unset /\ pendingTick # Unset
    BY <1>1, <1>2, <2>2 DEF CommitRates, CadenceConsistent, ClampedSnapshotRate, MinOf
  <2>3. CASE pendingSnapshot = Unset /\ pendingTick = Unset
    BY <1>1, <1>2, <2>3 DEF CommitRates, CadenceConsistent
  <2>4. QED
    BY <2>1, <2>2, <2>3
<1>5. tickUs' <= snapshotUs'
  BY <1>3, <1>4, IntervalMonotone
<1>6. tickUs' \in Nat \ {0} /\ snapshotUs' \in Nat \ {0}
  BY <1>3, <1>4, IntervalPositive
<1>7. QED
  BY <1>3, <1>4, <1>5, <1>6 DEF CadenceConsistent

(***************************************************************************)
(* A tick: the accumulator stays within two intervals, whether a snapshot  *)
(* is published or not.                                                    *)
(***************************************************************************)
LEMMA TickPreserves ==
  ASSUME CadenceInv, TickOnce
  PROVE  CadenceInv'
<1>1. CadenceTypeOK /\ CadenceConsistent /\ NoSnapshotDropped
  BY DEF CadenceInv
<1>2. CommitRates
  BY DEF TickOnce
<1>3. /\ CadenceConsistent'
      /\ tickRate' \in Rates /\ snapshotRate' \in Rates
      /\ tickUs' \in Nat \ {0} /\ snapshotUs' \in Nat \ {0}
  BY <1>1, <1>2, CommitKeepsConsistent
<1>4. /\ tickUs \in Nat \ {0} /\ snapshotUs \in Nat \ {0}
      /\ snapshotAcc \in Nat /\ serverAcc \in Nat /\ step \in Nat
      /\ tickUs <= snapshotUs
  BY <1>1 DEF CadenceTypeOK, CadenceConsistent
<1>5. tickUs' <= snapshotUs'
  BY <1>3 DEF CadenceConsistent
<1> DEFINE acc == snapshotAcc + tickUs
<1>6. acc \in Nat
  BY <1>4
<1>7. acc % snapshotUs \in Nat /\ acc % snapshotUs < snapshotUs
  BY <1>4, <1>6
<1> DEFINE Goal == /\ NoSnapshotDropped'
                   /\ snapshots' \in Seq(CadenceInfo)
                   /\ snapshotAcc' \in Nat
                   /\ retimed' \in BOOLEAN
<1>8. ASSUME SnapshotDue(acc) PROVE Goal
  <2>1. /\ snapshots' = Published([tick |-> tickRate, snapshot |-> snapshotRate])
        /\ snapshotAcc' = acc % snapshotUs
        /\ retimed' = (snapshotUs' # snapshotUs)
    BY <1>8 DEF TickOnce, CarriedOver
  <2>2. NoSnapshotDropped'
    <3>1. ~retimed' => snapshotUs' = snapshotUs
      BY Zenon, <2>1
    <3>2. snapshotUs' = snapshotUs => snapshotAcc' + tickUs' < 2 * snapshotUs'
      BY <1>3, <1>4, <1>5, <1>7, <2>1
    <3>3. QED
      BY Zenon, <3>1, <3>2 DEF NoSnapshotDropped
  <2>3. snapshots' \in Seq(CadenceInfo)
    <3> DEFINE s == [tick |-> tickRate, snapshot |-> snapshotRate]
    <3>1. s \in CadenceInfo
      BY <1>1 DEF CadenceTypeOK, CadenceInfo
    <3>2. snapshots \in Seq(CadenceInfo)
      BY <1>1 DEF CadenceTypeOK
    <3> HIDE DEF s
    <3>3. /\ Append(snapshots, s) \in Seq(CadenceInfo)
          /\ Tail(Append(snapshots, s)) \in Seq(CadenceInfo)
      BY <3>1, <3>2, AppendSeq
    <3>4. snapshots' = Published(s)
      BY <2>1 DEF s
    <3>5. QED
      BY Zenon, <3>3, <3>4 DEF Published
  <2>4. snapshotAcc' \in Nat
    BY <1>7, <2>1
  <2>5. retimed' \in BOOLEAN
    BY Zenon, <2>1
  <2>6. QED
    BY <2>2, <2>3, <2>4, <2>5
<1>9. ASSUME ~SnapshotDue(acc) PROVE Goal
  <2>1. /\ snapshots' = snapshots
        /\ snapshotAcc' = acc
        /\ retimed' = (retimed \/ snapshotUs' # snapshotUs)
    BY <1>9 DEF TickOnce, CarriedOver
  <2>2. acc < snapshotUs
    BY <1>4, <1>6, <1>9 DEF SnapshotDue
  <2>3. NoSnapshotDropped'
    <3>1. ~retimed' => snapshotUs' = snapshotUs
      BY Zenon, <2>1
    <3>2. snapshotAcc' \in Nat /\ snapshotAcc' < snapshotUs
      BY <1>6, <2>1, <2>2
    <3>3. snapshotUs' = snapshotUs => snapshotAcc' + tickUs' < 2 * snapshotUs'
      <4>1. \A x, y, z \in Nat : x < z /\ y <= z => x + y < 2 * z
        OBVIOUS
      <4>2. tickUs' \in Nat /\ snapshotUs' \in Nat
        BY <1>3
      <4>3. QED
        BY <1>5, <3>2, <4>1, <4>2
    <3>4. QED
      BY Zenon, <3>1, <3>3 DEF NoSnapshotDropped
  <2>4. snapshotAcc' \in Nat /\ snapshots' \in Seq(CadenceInfo)
    BY <1>1, <1>6, <2>1 DEF CadenceTypeOK
  <2>5. retimed' \in BOOLEAN
    BY Zenon, <2>1
  <2>6. QED
    BY <2>3, <2>4, <2>5
<1>10. Goal
  BY Zenon, <1>8, <1>9
<1>11. CadenceTypeOK'
  <2>1. serverAcc' \in Nat /\ step' \in Nat
    BY <1>4 DEF TickOnce
  <2>2. pendingTick' = Unset /\ pendingSnapshot' = Unset
    BY <1>2 DEF CommitRates
  <2>3. UNCHANGED <<liveTick, stagedTick, stagedSnapshot, requests, results>>
    BY DEF TickOnce, hostClientVars
  <2>4. {pendingTick', pendingSnapshot', stagedTick', stagedSnapshot'}
           \subseteq Rates \cup {Unset}
    BY <1>1, <2>2, <2>3 DEF CadenceTypeOK
  <2>5. {tickUs', snapshotUs'} \subseteq Nat \ {0} /\ {snapshotAcc', serverAcc', step'} \subseteq Nat
    BY <1>3, <1>10, <2>1
  <2>6. {tickRate', snapshotRate'} \subseteq Rates /\ liveTick' \in Rates
    BY <1>1, <1>3, <2>3 DEF CadenceTypeOK
  <2>7. requests' \subseteq RateRequest /\ results' \subseteq RateResult
    BY <1>1, <2>3 DEF CadenceTypeOK
  <2>8. QED
    BY Zenon, <1>10, <2>4, <2>5, <2>6, <2>7 DEF CadenceTypeOK
<1>12. QED
  BY <1>3, <1>10, <1>11 DEF CadenceInv

(***************************************************************************)
(* Every other step leaves the rates in force, their intervals and the     *)
(* accumulator as they are: a staged rate has no effect before its tick.   *)
(***************************************************************************)
LEMMA OtherStepsPreserve ==
  ASSUME CadenceInv,
         UNCHANGED <<tickRate, snapshotRate, tickUs, snapshotUs, snapshotAcc, retimed>>,
         {pendingTick', pendingSnapshot', stagedTick', stagedSnapshot'}
           \subseteq Rates \cup {Unset},
         serverAcc' \in Nat, step' \in Nat, liveTick' \in Rates,
         requests' \subseteq RateRequest, results' \subseteq RateResult,
         snapshots' \in Seq(CadenceInfo)
  PROVE  CadenceInv'
<1>1. CadenceTypeOK /\ CadenceConsistent /\ NoSnapshotDropped
  BY DEF CadenceInv
<1>2. CadenceConsistent'
  BY <1>1 DEF CadenceConsistent, IntervalUs
<1>3. NoSnapshotDropped'
  BY <1>1 DEF NoSnapshotDropped
<1>4. retimed' \in BOOLEAN
  BY Zenon, <1>1 DEF CadenceTypeOK
<1>5. {tickRate', snapshotRate'} \subseteq Rates /\ {tickUs', snapshotUs'} \subseteq Nat \ {0}
  BY <1>1 DEF CadenceTypeOK
<1>6. {snapshotAcc', serverAcc', step'} \subseteq Nat
  BY <1>1 DEF CadenceTypeOK
<1>7. CadenceTypeOK'
  BY Zenon, <1>4, <1>5, <1>6 DEF CadenceTypeOK
<1>8. QED
  BY Zenon, <1>2, <1>3, <1>7 DEF CadenceInv

(***************************************************************************)
(* The removals of a message from the ones under way.                      *)
(***************************************************************************)
LEMMA SeqRemovals ==
  ASSUME NEW S, NEW q \in Seq(S), NEW i \in DOMAIN q
  PROVE  /\ q[i] \in S
         /\ SubSeq(q, i + 1, Len(q)) \in Seq(S)
         /\ RemoveAt(q, i) \in Seq(S)
<1>1. i \in 1 .. Len(q) /\ Len(q) \in Nat
  OBVIOUS
<1>2. q[i] \in S
  OBVIOUS
<1>3. \A m, n \in Int : 1 <= m /\ n <= Len(q) => SubSeq(q, m, n) \in Seq(S)
  BY SubSeqProperties
<1>4. SubSeq(q, i + 1, Len(q)) \in Seq(S) /\ SubSeq(q, 1, i - 1) \in Seq(S)
  BY <1>1, <1>3
<1>5. RemoveAt(q, i) \in Seq(S)
  BY <1>4, ConcatProperties DEF RemoveAt
<1>6. QED
  BY <1>2, <1>4, <1>5

(***************************************************************************)
(* Every step of the system preserves the invariant.                       *)
(***************************************************************************)
LEMMA CadenceStep == CadenceInv /\ [CadenceNext]_cadenceVars => CadenceInv'
<1> SUFFICES ASSUME CadenceInv, [CadenceNext]_cadenceVars PROVE CadenceInv'
  OBVIOUS
<1>1. CadenceTypeOK
  BY DEF CadenceInv
<1> DEFINE Kept == UNCHANGED <<tickRate, snapshotRate, tickUs, snapshotUs, snapshotAcc, retimed>>
           Staged == {pendingTick', pendingSnapshot', stagedTick', stagedSnapshot'}
                       \subseteq Rates \cup {Unset}
           Clocked == serverAcc' \in Nat /\ step' \in Nat /\ liveTick' \in Rates
           Sent == /\ requests' \subseteq RateRequest /\ results' \subseteq RateResult
                   /\ snapshots' \in Seq(CadenceInfo)
<1>2. Kept /\ Staged /\ Clocked /\ Sent => CadenceInv'
  BY Zenon, OtherStepsPreserve
<1>3. ASSUME NEW m \in RateRequest, RequestRate(m) PROVE CadenceInv'
  <2>1. Kept /\ Staged /\ Clocked
    BY <1>1, <1>3 DEF CadenceTypeOK, RequestRate, rateVars, pendingVars, loopVars, hostClientVars
  <2>2. Sent
    BY <1>1, <1>3 DEF CadenceTypeOK, RequestRate
  <2>3. QED
    BY Zenon, <1>2, <2>1, <2>2
<1>4. ASSUME NEW m \in results, ReceiveResult(m) PROVE CadenceInv'
  <2>1. m.rate \in Rates
    BY <1>1, <1>4 DEF CadenceTypeOK, RateResult
  <2>2. Kept /\ Staged /\ Clocked
    BY <1>1, <1>4, <2>1 DEF CadenceTypeOK, ReceiveResult, rateVars, pendingVars, loopVars
  <2>3. Sent
    BY <1>1, <1>4 DEF CadenceTypeOK, ReceiveResult
  <2>4. QED
    BY Zenon, <1>2, <2>2, <2>3
<1>5. ASSUME NEW i \in DOMAIN snapshots, ReceiveSnapshot(i) PROVE CadenceInv'
  <2>1. snapshots \in Seq(CadenceInfo)
    BY <1>1 DEF CadenceTypeOK
  <2>2. snapshots[i] \in CadenceInfo /\ snapshots' \in Seq(CadenceInfo)
    BY <1>5, <2>1, SeqRemovals DEF ReceiveSnapshot
  <2>3. snapshots[i].tick \in Rates /\ snapshots[i].snapshot \in Rates
    BY <2>2 DEF CadenceInfo
  <2>4. Kept /\ Staged /\ Clocked
    BY <1>1, <1>5, <2>3 DEF CadenceTypeOK, ReceiveSnapshot, rateVars, pendingVars, loopVars
  <2>5. Sent
    BY <1>1, <1>5, <2>2 DEF CadenceTypeOK, ReceiveSnapshot
  <2>6. QED
    BY Zenon, <1>2, <2>4, <2>5
<1>6. ASSUME LoseMessage PROVE CadenceInv'
  <2>1. Kept /\ Staged /\ Clocked
    BY <1>1, <1>6 DEF CadenceTypeOK, LoseMessage, rateVars, pendingVars, loopVars, hostClientVars
  <2>2. snapshots \in Seq(CadenceInfo)
    BY <1>1 DEF CadenceTypeOK
  <2>3. snapshots' \in Seq(CadenceInfo)
    BY <1>6, <2>2, SeqRemovals DEF LoseMessage
  <2>4. Sent
    BY <1>1, <1>6, <2>3 DEF CadenceTypeOK, LoseMessage
  <2>5. QED
    BY Zenon, <1>2, <2>1, <2>4
<1>7. ASSUME NEW m \in requests, NEW b \in BOOLEAN, Answer(m, b)
      PROVE  results' \subseteq RateResult
  BY <1>1, <1>7 DEF CadenceTypeOK, Answer, RateRequest, RateResult
<1>8. ASSUME NEW m \in requests, HandleSessionTickRateChange(m) PROVE CadenceInv'
  <2>1. m.rate \in Rates
    BY <1>1, <1>8 DEF CadenceTypeOK, RateRequest
  <2>2. Kept /\ Staged /\ Clocked
    BY <1>1, <1>8, <2>1 DEF CadenceTypeOK, HandleSessionTickRateChange, rateVars, loopVars, hostClientVars
  <2>3. Sent
    BY <1>1, <1>7, <1>8 DEF CadenceTypeOK, HandleSessionTickRateChange
  <2>4. QED
    BY Zenon, <1>2, <2>2, <2>3
<1>9. ASSUME NEW m \in requests, HandleSessionSnapshotRateChange(m) PROVE CadenceInv'
  <2>1. m.rate \in Rates
    BY <1>1, <1>9 DEF CadenceTypeOK, RateRequest
  <2>2. Kept /\ Staged /\ Clocked
    BY <1>1, <1>9, <2>1
       DEF CadenceTypeOK, HandleSessionSnapshotRateChange, rateVars, loopVars, hostClientVars
  <2>3. Sent
    BY <1>1, <1>7, <1>9 DEF CadenceTypeOK, HandleSessionSnapshotRateChange
  <2>4. QED
    BY Zenon, <1>2, <2>2, <2>3
<1>10. ASSUME BeginNetworkStep PROVE CadenceInv'
  <2>1. tickUs \in Nat /\ serverAcc \in Nat /\ NetworkStep \in Nat
    BY <1>1, CadenceAssumption DEF CadenceTypeOK
  <2>2. serverAcc' \in Nat /\ step' \in Nat
    BY <1>10, <2>1 DEF BeginNetworkStep
  <2>3. Kept /\ Staged /\ Clocked /\ Sent
    BY <1>1, <1>10, <2>2 DEF CadenceTypeOK, BeginNetworkStep, rateVars, pendingVars, hostClientVars
  <2>4. QED
    BY Zenon, <1>2, <2>3
<1>11. ASSUME EndNetworkStep PROVE CadenceInv'
  <2>1. Kept /\ Staged /\ Clocked /\ Sent
    BY <1>1, <1>11 DEF CadenceTypeOK, EndNetworkStep, Unset, rateVars, pendingVars, hostClientVars
  <2>2. QED
    BY Zenon, <1>2, <2>1
<1>12. ASSUME UNCHANGED cadenceVars PROVE CadenceInv'
  <2>1. Kept /\ Staged /\ Clocked /\ Sent
    BY <1>1, <1>12 DEF CadenceTypeOK, cadenceVars, rateVars, pendingVars, loopVars, hostClientVars
  <2>2. QED
    BY Zenon, <1>2, <2>1
<1>13. QED
  BY Zenon, TickPreserves, <1>3, <1>4, <1>5, <1>6, <1>8, <1>9, <1>10, <1>11, <1>12 DEF CadenceNext

-----------------------------------------------------------------------------
(***************************************************************************)
(* The invariant, for every second, set of rates, network step and bound   *)
(* on the messages under way.                                              *)
(***************************************************************************)
THEOREM CadenceInvariant == CadenceSpec => []CadenceInv
<1>1. CadenceInit => CadenceInv
  BY CadenceStarts
<1>2. CadenceInv /\ [CadenceNext]_cadenceVars => CadenceInv'
  BY CadenceStep
<1>3. QED
  BY <1>1, <1>2, PTL DEF CadenceSpec

(***************************************************************************)
(* Every state of the rates, accumulators and messages has its type: no    *)
(* accumulator is ever negative and no interval zero.                      *)
(***************************************************************************)
THEOREM CadenceTypeCorrect == CadenceSpec => []CadenceTypeOK
<1>1. CadenceInv => CadenceTypeOK
  BY DEF CadenceInv
<1>2. QED
  BY <1>1, CadenceInvariant, PTL

(***************************************************************************)
(* However rates are staged, replaced and committed, the intervals are     *)
(* those of the rates and snapshots are no more frequent than ticks.       *)
(***************************************************************************)
THEOREM RatesConsistent == CadenceSpec => []CadenceConsistent
<1>1. CadenceInv => CadenceConsistent
  BY DEF CadenceInv
<1>2. QED
  BY <1>1, CadenceInvariant, PTL

(***************************************************************************)
(* While the interval stands, the accumulator of tickOnce never owes two   *)
(* snapshots at once.                                                      *)
(***************************************************************************)
THEOREM SnapshotNotDropped == CadenceSpec => []NoSnapshotDropped
<1>1. CadenceInv => NoSnapshotDropped
  BY DEF CadenceInv
<1>2. QED
  BY <1>1, CadenceInvariant, PTL
=============================================================================
