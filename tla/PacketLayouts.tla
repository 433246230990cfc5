---------------------------- MODULE PacketLayouts ----------------------------
(***************************************************************************)
(* The writers and readers of Protocol.cpp: the packet header and the      *)
(* payload of every kind of packet.                                        *)
(***************************************************************************)
EXTENDS ByteCodec

Vec3 == Each("f32", <<"x", "y", "z">>)

writePlayerState ==
  One("i32", "playerId") \o In("position", Vec3) \o In("velocity", Vec3)
    \o Each("f32", <<"yaw", "pitch", "health", "maxHealth", "weaponCooldownRemaining">>)
    \o One("i32", "jumpsUsed") \o One("bool", "grounded")

readPlayerState ==
  One("i32", "playerId") \o In("position", Vec3) \o In("velocity", Vec3)
    \o Each("f32", <<"yaw", "pitch", "health", "maxHealth", "weaponCooldownRemaining">>)
    \o One("i32", "jumpsUsed") \o One("bool", "grounded")

writeRemoteActorState ==
  One("i32", "entityId") \o In("position", Vec3) \o In("velocity", Vec3)
    \o Each("f32", <<"yaw", "pitch", "health", "radius">>) \o One("bool", "alive")

readRemoteActorState ==
  One("i32", "entityId") \o In("position", Vec3) \o In("velocity", Vec3)
    \o Each("f32", <<"yaw", "pitch", "health", "radius">>) \o One("bool", "alive")

writeControlBinding == One("enum", "kind") \o One("i32", "actorId")
readControlBinding  == One("enum", "kind") \o One("i32", "actorId") \o Check("kind")

writeRosterEntry ==
  One("i32", "actorId") \o Each("enum", <<"team", "sessionPresence", "participation">>)
    \o In("control", writeControlBinding)
    \o One("bool", "isBot") \o Each("u16", <<"kills", "deaths", "assists">>)
    \o Each("bool", <<"alive", "interpolationEnabled", "predictionEnabled">>)
    \o One("enum", "reconciliationStrategy") \o One("u32", "smoothCorrectionWindowMs")
    \o One("u16", "latencyMs") \o One("u8", "lossPct") \o One("string", "displayName")

\* The strategy is looked at after the name behind it was read.
readRosterEntry ==
  One("i32", "actorId") \o Each("enum", <<"team", "sessionPresence", "participation">>)
    \o Each("check", <<"team", "sessionPresence", "participation">>)
    \o In("control", readControlBinding)
    \o One("bool", "isBot") \o Each("u16", <<"kills", "deaths", "assists">>)
    \o Each("bool", <<"alive", "interpolationEnabled", "predictionEnabled">>)
    \o One("enum", "reconciliationStrategy") \o One("u32", "smoothCorrectionWindowMs")
    \o One("u16", "latencyMs") \o One("u8", "lossPct") \o One("string", "displayName")
    \o Check("reconciliationStrategy")

TeamScores    == Each("u16", <<"attackers", "defenders">>)
TimingCadence == Each("u16", <<"authoritativeTickHz", "snapshotCadenceHz", "commandCadenceHz">>)
AuthoritativeTime ==
  One("u32", "serverTick") \o Each("u64", <<"serverTimeUs", "viewedServerTimeUs">>)

writeParticipantState ==
  Each("enum", <<"presence", "team", "participation">>) \o In("control", writeControlBinding)

readParticipantState ==
  Each("enum", <<"presence", "team", "participation">>)
    \o Each("check", <<"presence", "team", "participation">>)
    \o In("control", readControlBinding)

writePaneViewState ==
  Each("enum", <<"slot", "mode">>) \o One("bool", "focused") \o One("i32", "followTargetActorId")

readPaneViewState ==
  Each("enum", <<"slot", "mode">>) \o One("bool", "focused") \o One("i32", "followTargetActorId")
    \o Each("check", <<"slot", "mode">>)

writePlayerCommand ==
  One("u32", "seq") \o Each("f32", <<"dtSeconds", "moveX", "moveY", "yaw", "pitch">>)
    \o One("u32", "buttons")
    \o One("u64", "viewedServerTimeUs") \o One("u32", "interpolationDelayMs")
    \o One("u64", "controlViewedServerTimeUs") \o One("u32", "controlInterpolationDelayMs")
    \o One("enum", "requestedTeam") \o One("u16", "reportedLatencyMs")
    \o One("u8", "reportedLossPct")

\* Mutant of readPlayerCommand: the control track's delay before its time.
MutReadPlayerCommand ==
  One("u32", "seq") \o Each("f32", <<"dtSeconds", "moveX", "moveY", "yaw", "pitch">>)
    \o One("u32", "buttons")
    \o One("u64", "controlViewedServerTimeUs") \o One("u32", "controlInterpolationDelayMs")
    \o One("u64", "viewedServerTimeUs") \o One("u32", "interpolationDelayMs")
    \o One("enum", "requestedTeam") \o One("u16", "reportedLatencyMs")
    \o One("u8", "reportedLossPct") \o Check("requestedTeam")

readPlayerCommand ==
  One("u32", "seq") \o Each("f32", <<"dtSeconds", "moveX", "moveY", "yaw", "pitch">>)
    \o One("u32", "buttons")
    \o One("u64", "viewedServerTimeUs") \o One("u32", "interpolationDelayMs")
    \o One("u64", "controlViewedServerTimeUs") \o One("u32", "controlInterpolationDelayMs")
    \o One("enum", "requestedTeam") \o One("u16", "reportedLatencyMs")
    \o One("u8", "reportedLossPct") \o Check("requestedTeam")

\* Both sides clamp the appearance; the reader names an empty profile.
writeHostedSessionMetadata ==
  Each("string", <<"sessionLabel", "hostPlayerName">>) \o One("u16", "hostPeerId")
    \o One("i32", "levelSlot") \o One("u32", "levelHash")
    \o Each("u16", <<"publicJoinPort", "maxHumanPlayers">>)
    \o Each("enum", <<"shotEvaluationMode", "visualizationMode">>)
    \o One("string", "characterProfileName")
    \o Each("f32", <<"shoulderWidth", "shoulderHeight", "shoulderAngleDeg">>)
    \o Each("bool", <<"botsFrozen", "botsCanShoot", "studyEventLoggingEnabled">>)
    \o One("string", "studyEventRunId")

readHostedSessionMetadata ==
  Each("string", <<"sessionLabel", "hostPlayerName">>) \o One("u16", "hostPeerId")
    \o One("i32", "levelSlot") \o One("u32", "levelHash")
    \o Each("u16", <<"publicJoinPort", "maxHumanPlayers">>)
    \o Each("enum", <<"shotEvaluationMode", "visualizationMode">>)
    \o One("string", "characterProfileName")
    \o Each("f32", <<"shoulderWidth", "shoulderHeight", "shoulderAngleDeg">>)
    \o Each("bool", <<"botsFrozen", "botsCanShoot", "studyEventLoggingEnabled">>)
    \o One("string", "studyEventRunId")
    \o Each("check", <<"shotEvaluationMode", "visualizationMode">>)

GameplayEvent ==
  One("enum", "kind") \o Each("i32", <<"sourcePlayerId", "targetEntityId">>)
    \o In("origin", Vec3) \o In("direction", Vec3) \o One("bool", "hit")

writeWorldSnapshotMessage ==
  One("u32", "serverTick") \o One("u64", "serverTimeUs") \o One("u32", "ackedInputSeq")
    \o In("cadence", TimingCadence) \o In("authoritativeTime", AuthoritativeTime)
    \o In("localParticipantState", writeParticipantState)
    \o In("localPaneView", writePaneViewState)
    \o In("sessionMetadata", writeHostedSessionMetadata)
    \o In("localPlayerState", writePlayerState)
    \o Written("u16", "remotePlayers", writePlayerState)
    \o Written("u16", "controlRemotePlayers", writePlayerState)
    \o Written("u16", "remoteEnemies", writeRemoteActorState)
    \o Written("u16", "roster", writeRosterEntry)
    \o In("teamScores", TeamScores)
    \o Written("u16", "events", GameplayEvent)

readWorldSnapshotMessage ==
  One("u32", "serverTick") \o One("u64", "serverTimeUs") \o One("u32", "ackedInputSeq")
    \o In("cadence", TimingCadence) \o In("authoritativeTime", AuthoritativeTime)
    \o In("localParticipantState", readParticipantState)
    \o In("localPaneView", readPaneViewState)
    \o In("sessionMetadata", readHostedSessionMetadata)
    \o In("localPlayerState", readPlayerState)
    \o List("u16", "remotePlayers", NoMax, readPlayerState)
    \o List("u16", "controlRemotePlayers", NoMax, readPlayerState)
    \o List("u16", "remoteEnemies", NoMax, readRemoteActorState)
    \o List("u16", "roster", NoMax, readRosterEntry)
    \o In("teamScores", TeamScores)
    \o List("u16", "events", NoMax, GameplayEvent \o Check("kind"))

writeRuntimeParamRecord ==
  One("enum", "scope") \o One("i32", "targetId") \o One("string", "key") \o One("f32", "value")

readRuntimeParamRecord ==
  One("enum", "scope") \o One("i32", "targetId") \o One("string", "key") \o One("f32", "value")
    \o Check("scope")

writeHeader ==
  One("enum", "magic") \o One("enum", "version") \o One("u16", "peerId")
    \o One("enum", "channel") \o Each("u32", <<"seq", "ack", "ackBits">>) \o One("enum", "kind")

\* Mutant of readHeader: the kind is cast without a look.
MutReadHeader ==
  One("enum", "magic") \o One("enum", "version") \o One("u16", "peerId")
    \o One("enum", "channel") \o Each("u32", <<"seq", "ack", "ackBits">>) \o One("enum", "kind")
    \o Each("check", <<"magic", "version", "channel">>)

readHeader ==
  One("enum", "magic") \o One("enum", "version") \o One("u16", "peerId")
    \o One("enum", "channel") \o Each("u32", <<"seq", "ack", "ackBits">>) \o One("enum", "kind")
    \o Each("check", <<"magic", "version", "channel", "kind">>)

-----------------------------------------------------------------------------
(* The payload of a kind; serializePacket sets the kind from the payload.   *)

ProxyLinkConfig ==
  Each("f32", <<"baseDelayMs", "jitterMs", "lossPct", "duplicatePct", "reorderPct">>)
    \o One("u32", "seed")

ProxyStats ==
  Each("u64", <<"receivedPackets", "forwardedPackets", "droppedPackets", "duplicatedPackets",
                "reorderedPackets">>) \o One("u32", "queuedPackets")

writePacketPayload ==
  [Hello |-> One("u32", "sessionId") \o One("u16", "requestedPeerId")
               \o One("string", "playerName") \o One("enum", "requestedTeam"),
   Welcome |-> One("u32", "sessionId") \o Each("u16", <<"assignedPeerId", "snapshotRateHz">>)
                 \o In("cadence", TimingCadence) \o One("i32", "levelSlot")
                 \o One("u32", "levelHash") \o In("participantState", writeParticipantState)
                 \o In("paneView", writePaneViewState)
                 \o In("authoritativeTime", AuthoritativeTime)
                 \o In("sessionMetadata", writeHostedSessionMetadata),
   Disconnect |-> One("u16", "reasonCode") \o One("string", "reason"),
   TeamChangeRequest |-> One("enum", "requestedTeam"),
   RuntimeParamChangeRequest |-> writeRuntimeParamRecord,
   RuntimeParamSnapshot |-> writeRuntimeParamRecord,
   RuntimeParamApplyResult |-> writeRuntimeParamRecord \o One("bool", "applied")
                                 \o One("enum", "stagedApplyBoundary") \o One("string", "message"),
   SessionActionRequest |-> One("enum", "kind"),
   SessionActionResult |-> One("enum", "kind") \o One("bool", "applied")
                             \o One("i32", "actorId") \o One("string", "message"),
   CommandBundle |-> Written("u16", "commands", writePlayerCommand),
   ControlCommandBundle |-> Written("u16", "commands", writePlayerCommand),
   WorldSnapshot |-> writeWorldSnapshotMessage,
   ControlWorldSnapshot |-> In("snapshot", writeWorldSnapshotMessage),
   ProxyControl |-> One("u16", "targetPeerId") \o One("bool", "upstream")
                      \o In("config", ProxyLinkConfig),
   ProxyStats |-> ProxyStats]

readBulkPayload ==
  [CommandBundle |-> List("u16", "commands", NoMax, readPlayerCommand),
   ControlCommandBundle |-> List("u16", "commands", NoMax, readPlayerCommand),
   WorldSnapshot |-> readWorldSnapshotMessage,
   ControlWorldSnapshot |-> In("snapshot", readWorldSnapshotMessage),
   ProxyControl |-> One("u16", "targetPeerId") \o One("bool", "upstream")
                      \o In("config", ProxyLinkConfig),
   ProxyStats |-> ProxyStats]

readPacketPayload ==
  [Hello |-> One("u32", "sessionId") \o One("u16", "requestedPeerId")
               \o One("string", "playerName") \o One("enum", "requestedTeam")
               \o Check("requestedTeam"),
   Welcome |-> One("u32", "sessionId") \o Each("u16", <<"assignedPeerId", "snapshotRateHz">>)
                 \o In("cadence", TimingCadence) \o One("i32", "levelSlot")
                 \o One("u32", "levelHash") \o In("participantState", readParticipantState)
                 \o In("paneView", readPaneViewState)
                 \o In("authoritativeTime", AuthoritativeTime)
                 \o In("sessionMetadata", readHostedSessionMetadata),
   Disconnect |-> One("u16", "reasonCode") \o One("string", "reason"),
   TeamChangeRequest |-> One("enum", "requestedTeam") \o Check("requestedTeam"),
   RuntimeParamChangeRequest |-> readRuntimeParamRecord,
   RuntimeParamSnapshot |-> readRuntimeParamRecord,
   RuntimeParamApplyResult |-> readRuntimeParamRecord \o One("bool", "applied")
                                 \o One("enum", "stagedApplyBoundary") \o One("string", "message")
                                 \o Check("stagedApplyBoundary"),
   SessionActionRequest |-> One("enum", "kind") \o Check("kind"),
   SessionActionResult |-> One("enum", "kind") \o One("bool", "applied")
                             \o One("i32", "actorId") \o One("string", "message") \o Check("kind")]
    @@ readBulkPayload

PacketKinds == DOMAIN writePacketPayload

serializePacket(kind)   == In("header", writeHeader) \o In("payload", writePacketPayload[kind])
deserializePacket(kind) == In("header", readHeader) \o In("payload", readPacketPayload[kind])
=============================================================================
