------------------------- MODULE CommandReplayLayouts -------------------------
(***************************************************************************)
(* The file of a command replay, CommandReplayArchive.cpp.  Version 2      *)
(* added the rules of the simulation to the header.  Lists are written     *)
(* whatever their length and read up to a maximum of their own; MaxCount   *)
(* stands for each of them.                                                *)
(***************************************************************************)
EXTENDS ByteCodec

CONSTANT MaxCount  \* kMaxReplayCommands, kMaxWorldPlayers and the others

\* A maximum, and lower than none.
MaxCountAssumption == MaxCount \in Nat \ {0} /\ MaxCount < NoMax

readCount(name, layout) == List("u32", name, MaxCount, layout)

Vec3 == Each("f32", <<"x", "y", "z">>)

\* readTeam and its like look at a value before anything behind it is read.
Looked(name) == One("enum", name) \o Check(name)

writePlayerState ==
  One("i32", "playerId") \o In("position", Vec3) \o In("velocity", Vec3)
    \o Each("f32", <<"yaw", "pitch", "health", "maxHealth", "weaponCooldownRemaining">>)
    \o One("i32", "jumpsUsed") \o One("bool", "grounded")

readPlayerState ==
  One("i32", "playerId") \o In("position", Vec3) \o In("velocity", Vec3)
    \o Each("f32", <<"yaw", "pitch", "health", "maxHealth", "weaponCooldownRemaining">>)
    \o One("i32", "jumpsUsed") \o One("bool", "grounded")

writeRemoteActorState ==
  One("i32", "entityId") \o In("position", Vec3) \o In("velocity", Vec3)
    \o Each("f32", <<"yaw", "pitch", "health", "radius">>) \o One("bool", "alive")

readRemoteActorState ==
  One("i32", "entityId") \o In("position", Vec3) \o In("velocity", Vec3)
    \o Each("f32", <<"yaw", "pitch", "health", "radius">>) \o One("bool", "alive")

writeRosterEntry ==
  One("i32", "actorId") \o Each("enum", <<"team", "sessionPresence", "participation", "kind">>)
    \o One("i32", "controlActorId")
    \o One("bool", "isBot") \o Each("u16", <<"kills", "deaths", "assists">>)
    \o Each("bool", <<"alive", "interpolationEnabled", "predictionEnabled">>)
    \o One("enum", "reconciliationStrategy") \o One("u32", "smoothCorrectionWindowMs")
    \o One("u16", "latencyMs") \o One("u8", "lossPct") \o One("string", "displayName")

readRosterEntry ==
  One("i32", "actorId") \o Looked("team") \o Looked("sessionPresence")
    \o Looked("participation") \o Looked("kind") \o One("i32", "controlActorId")
    \o One("bool", "isBot") \o Each("u16", <<"kills", "deaths", "assists">>)
    \o Each("bool", <<"alive", "interpolationEnabled", "predictionEnabled">>)
    \o Looked("reconciliationStrategy") \o One("u32", "smoothCorrectionWindowMs")
    \o One("u16", "latencyMs") \o One("u8", "lossPct") \o One("string", "displayName")

Box == In("center", Vec3) \o In("halfSize", Vec3)

writeEnvironment == One("f32", "arenaHalfSize") \o Written("u32", "collisionBoxes", Box)
readEnvironment  == One("f32", "arenaHalfSize") \o readCount("collisionBoxes", Box)

writeSimConfig ==
  Each("f32", <<"playerEyeHeight", "playerMoveSpeed", "playerJumpVelocity", "playerGravity">>)
    \o One("i32", "playerMaxJumps")
    \o Each("f32", <<"playerRadius", "playerCollisionHeight", "minPitch", "maxPitch",
                     "playerMaxHealth", "enemyRadius", "enemyMaxHealth",
                     "weaponCooldownSeconds", "weaponDamage", "weaponRange", "arenaHalfSize">>)

readSimConfig ==
  Each("f32", <<"playerEyeHeight", "playerMoveSpeed", "playerJumpVelocity", "playerGravity">>)
    \o One("i32", "playerMaxJumps")
    \o Each("f32", <<"playerRadius", "playerCollisionHeight", "minPitch", "maxPitch",
                     "playerMaxHealth", "enemyRadius", "enemyMaxHealth",
                     "weaponCooldownSeconds", "weaponDamage", "weaponRange", "arenaHalfSize">>)

CadenceAndTime ==
  Each("u16", <<"authoritativeTickHz", "snapshotCadenceHz", "commandCadenceHz">>)
    \o One("u32", "serverTick") \o Each("u64", <<"serverTimeUs", "viewedServerTimeUs">>)

ScoresAndSession ==
  Each("u16", <<"attackers", "defenders">>) \o One("u32", "sessionId") \o One("i32", "levelSlot")
    \o One("u32", "levelHash")
    \o Each("u16", <<"maxHumanPlayers", "connectedHumanPlayers", "connectedBotPlayers">>)

writeWorldState ==
  In("environment", writeEnvironment) \o CadenceAndTime
    \o Written("u32", "players", writePlayerState)
    \o Written("u32", "enemies", writeRemoteActorState)
    \o Written("u32", "roster", writeRosterEntry)
    \o ScoresAndSession
    \o Written("u32", "playerSpawns", Vec3) \o Written("u32", "enemySpawns", Vec3)
    \o Written("u32", "enemyWaypointIndices", One("u32", "index"))
    \o Written("u32", "enemyRespawnTimers", One("f32", "timer"))

readWorldState ==
  In("environment", readEnvironment) \o CadenceAndTime
    \o readCount("players", readPlayerState)
    \o readCount("enemies", readRemoteActorState)
    \o readCount("roster", readRosterEntry)
    \o ScoresAndSession
    \o readCount("playerSpawns", Vec3) \o readCount("enemySpawns", Vec3)
    \o readCount("enemyWaypointIndices", One("u32", "index"))
    \o readCount("enemyRespawnTimers", One("f32", "timer"))

writeCommand ==
  One("u32", "seq") \o Each("f32", <<"dtSeconds", "moveX", "moveY", "yaw", "pitch">>)
    \o One("u32", "buttons")
    \o One("u64", "viewedServerTimeUs") \o One("u32", "interpDelayMs")
    \o One("u64", "controlViewedServerTimeUs") \o One("u32", "controlInterpDelayMs")
    \o One("enum", "requestedTeam") \o One("u16", "reportedLatencyMs")
    \o One("u8", "reportedLossPct")

readCommand ==
  One("u32", "seq") \o Each("f32", <<"dtSeconds", "moveX", "moveY", "yaw", "pitch">>)
    \o One("u32", "buttons")
    \o One("u64", "viewedServerTimeUs") \o One("u32", "interpDelayMs")
    \o One("u64", "controlViewedServerTimeUs") \o One("u32", "controlInterpDelayMs")
    \o Looked("requestedTeam") \o One("u16", "reportedLatencyMs")
    \o One("u8", "reportedLossPct")

writeCommandEvent ==
  Each("enum", <<"track", "stage">>) \o One("u16", "peerId") \o One("i32", "actorId")
    \o One("u32", "serverTick") \o One("u64", "serverTimeUs") \o In("command", writeCommand)

readCommandEvent ==
  Looked("track") \o Looked("stage") \o One("u16", "peerId") \o One("i32", "actorId")
    \o One("u32", "serverTick") \o One("u64", "serverTimeUs") \o In("command", readCommand)

writeSnapshotEvent ==
  One("enum", "kind") \o Each("i32", <<"sourcePlayerId", "targetEntityId">>)
    \o In("origin", Vec3) \o In("direction", Vec3) \o One("bool", "hit")

readSnapshotEvent ==
  Looked("kind") \o Each("i32", <<"sourcePlayerId", "targetEntityId">>)
    \o In("origin", Vec3) \o In("direction", Vec3) \o One("bool", "hit")

SinceVersion2 == 2

writeHeader ==
  One("enum", "formatVersion") \o One("u16", "protocolVersion") \o One("i32", "levelSlot")
    \o One("u32", "levelHash") \o Each("u16", <<"tickRateHz", "snapshotRateHz">>)
    \o One("u32", "simConfigVersion")
    \o Each("u64", <<"recordedAtUnixSeconds", "startedServerTimeUs", "durationUs">>)
    \o Since(SinceVersion2,
             One("u32", "maxRewindMs")
               \o Each("f32", <<"respawnDelaySeconds", "spawnProtectionSeconds">>)
               \o One("enum", "shotEvaluationMode"))
    \o Each("bool", <<"hasControlLane", "hasClientPerceptionTracks">>)
    \o Each("string", <<"title", "sourceLabel">>)

readHeader ==
  Looked("formatVersion") \o One("u16", "protocolVersion") \o One("i32", "levelSlot")
    \o One("u32", "levelHash") \o Each("u16", <<"tickRateHz", "snapshotRateHz">>)
    \o One("u32", "simConfigVersion")
    \o Each("u64", <<"recordedAtUnixSeconds", "startedServerTimeUs", "durationUs">>)
    \o Since(SinceVersion2,
             One("u32", "maxRewindMs")
               \o Each("f32", <<"respawnDelaySeconds", "spawnProtectionSeconds">>)
               \o Looked("shotEvaluationMode"))
    \o Each("bool", <<"hasControlLane", "hasClientPerceptionTracks">>)
    \o Each("string", <<"title", "sourceLabel">>)

RuntimeEventTail ==
  One("u32", "serverTick") \o One("u64", "serverTimeUs") \o One("u16", "peerId")
    \o One("string", "key") \o One("f32", "value") \o One("bool", "applied")

PerceptionEventTail ==
  One("u32", "clientFrame") \o One("u64", "clientTimeUs") \o One("u32", "serverTick")
    \o One("u64", "serverTimeUs") \o One("u32", "commandSeq")
    \o Each("f32", <<"correctionMagnitude", "yaw", "pitch">>)
    \o Each("bool", <<"predictionEnabled", "interpolationEnabled">>)

Moment == One("u32", "serverTick") \o One("u64", "serverTimeUs")

writeBytes ==
  One("enum", "magic") \o In("header", writeHeader) \o In("simConfig", writeSimConfig)
    \o In("worldState", writeWorldState)
    \o Written("u32", "commandEvents", writeCommandEvent)
    \o Written("u32", "runtimeEvents", One("enum", "kind") \o RuntimeEventTail)
    \o Written("u32", "combatEvents", Moment \o In("event", writeSnapshotEvent))
    \o Written("u32", "keyframes",
               One("enum", "track") \o Moment \o In("worldState", writeWorldState)
                 \o Written("u32", "controlPlayers", writePlayerState))
    \o Written("u32", "clientTracks",
               One("u16", "peerId") \o One("string", "playerName")
                 \o Written("u32", "events", One("enum", "kind") \o PerceptionEventTail))

readBytes ==
  Looked("magic") \o In("header", readHeader) \o In("simConfig", readSimConfig)
    \o In("worldState", readWorldState)
    \o readCount("commandEvents", readCommandEvent)
    \o readCount("runtimeEvents", Looked("kind") \o RuntimeEventTail)
    \o readCount("combatEvents", Moment \o In("event", readSnapshotEvent))
    \o readCount("keyframes",
                 Looked("track") \o Moment \o In("worldState", readWorldState)
                   \o readCount("controlPlayers", readPlayerState))
    \o readCount("clientTracks",
                 One("u16", "peerId") \o One("string", "playerName")
                   \o readCount("events", Looked("kind") \o PerceptionEventTail))
=============================================================================
