----------------------------- MODULE ReplayLayouts -----------------------------
(***************************************************************************)
(* The file of a recorded replay, ReplayArchive.cpp: metadata and then the *)
(* frames as they were drawn.  Version 2 added the local player.           *)
(***************************************************************************)
EXTENDS ByteCodec

CONSTANT MaxCount  \* kMaxReplayFrames, kMaxFrameItems and the others

\* A maximum, and lower than none.
MaxCountAssumption == MaxCount \in Nat \ {0} /\ MaxCount < NoMax

readCount(name, layout) == List("u32", name, MaxCount, layout)

Color   == Each("u8", <<"r", "g", "b", "a">>)
Vector3 == Each("f32", <<"x", "y", "z">>)
Looked(name) == One("enum", name) \o Check(name)

Camera ==
  In("position", Vector3) \o In("target", Vector3) \o In("up", Vector3)
    \o One("f32", "fovy") \o One("i32", "projection")

writeLaserBeam ==
  In("start", Vector3) \o In("end", Vector3) \o Each("f32", <<"lifetime", "maxLifetime">>)
    \o In("color", Color) \o One("f32", "thickness") \o Each("bool", <<"ghost", "canDamage">>)

readLaserBeam ==
  In("start", Vector3) \o In("end", Vector3) \o Each("f32", <<"lifetime", "maxLifetime">>)
    \o In("color", Color) \o One("f32", "thickness") \o Each("bool", <<"ghost", "canDamage">>)

RemoteEnemy ==
  One("i32", "entityId") \o In("displayPosition", Vector3)
    \o Each("f32", <<"yawRadians", "healthPercent">>) \o One("bool", "alive") \o In("tint", Color)

writeRemotePlayer ==
  One("i32", "actorId") \o In("eyePosition", Vector3) \o In("rootPosition", Vector3)
    \o Each("f32", <<"yawRadians", "pitchRadians", "healthPercent">>) \o One("bool", "alive")
    \o One("enum", "team") \o In("tint", Color) \o One("bool", "ghost")

readRemotePlayer ==
  One("i32", "actorId") \o In("eyePosition", Vector3) \o In("rootPosition", Vector3)
    \o Each("f32", <<"yawRadians", "pitchRadians", "healthPercent">>) \o One("bool", "alive")
    \o Looked("team") \o In("tint", Color) \o One("bool", "ghost")

writeCompactScore ==
  One("bool", "available") \o Each("u16", <<"attackerScore", "defenderScore">>)
    \o One("string", "localIdentity") \o One("enum", "localTeam")
    \o Each("i32", <<"localKills", "localDeaths">>) \o One("bool", "localAlive")

readCompactScore ==
  One("bool", "available") \o Each("u16", <<"attackerScore", "defenderScore">>)
    \o One("string", "localIdentity") \o Looked("localTeam")
    \o Each("i32", <<"localKills", "localDeaths">>) \o One("bool", "localAlive")

writeKillFeedEntry ==
  Each("string", <<"attackerLabel", "victimLabel">>)
    \o Each("enum", <<"attackerTeam", "victimTeam">>)
    \o Each("bool", <<"attackerIsLocalPlayer", "victimIsLocalPlayer">>)

readKillFeedEntry ==
  Each("string", <<"attackerLabel", "victimLabel">>)
    \o Looked("attackerTeam") \o Looked("victimTeam")
    \o Each("bool", <<"attackerIsLocalPlayer", "victimIsLocalPlayer">>)

ScoreboardEntryTail ==
  Each("i32", <<"actorId", "kills", "deaths">>) \o One("u16", "pingMs")
    \o Each("bool", <<"alive", "isBot", "isLocalPlayer">>)

writeScoreboardSection ==
  One("enum", "team") \o One("u16", "score")
    \o Written("u32", "entries",
               Each("string", <<"identity", "rowLabel">>) \o One("enum", "team")
                 \o ScoreboardEntryTail)

readScoreboardSection ==
  Looked("team") \o One("u16", "score")
    \o readCount("entries",
                 Each("string", <<"identity", "rowLabel">>) \o Looked("team")
                   \o ScoreboardEntryTail)

\* A count is written for its own sake here, and read with the others' limit.
writeReplayStatus ==
  Each("bool", <<"recordingActive", "playbackActive", "overlayVisible">>)
    \o One("string", "statusLine")
    \o One("bool", "ruleAvailable") \o Each("string", <<"ruleLabel", "explanation">>)
    \o One("bool", "paneAvailable") \o Each("enum", <<"slot", "paneMode">>)
    \o Each("string", <<"slotLabel", "bindingLabel", "paneModeLabel">>)
    \o One("bool", "spectatorAvailable") \o One("enum", "spectatorMode")
    \o Each("string", <<"spectatorModeLabel", "followTargetLabel">>)
    \o Each("bool", <<"sessionSpectator", "canReturnToCharacter", "detachedCameraActive">>)
    \o One("i32", "activeIndex") \o Written("u32", "checkpointCount", <<>>)
    \o One("f32", "transitionToNextSeconds") \o One("bool", "transitionEditable")

readReplayStatus ==
  Each("bool", <<"recordingActive", "playbackActive", "overlayVisible">>)
    \o One("string", "statusLine")
    \o One("bool", "ruleAvailable") \o Each("string", <<"ruleLabel", "explanation">>)
    \o One("bool", "paneAvailable") \o Looked("slot") \o Looked("paneMode")
    \o Each("string", <<"slotLabel", "bindingLabel", "paneModeLabel">>)
    \o One("bool", "spectatorAvailable") \o Looked("spectatorMode")
    \o Each("string", <<"spectatorModeLabel", "followTargetLabel">>)
    \o Each("bool", <<"sessionSpectator", "canReturnToCharacter", "detachedCameraActive">>)
    \o One("i32", "activeIndex") \o readCount("checkpointCount", <<>>)
    \o One("f32", "transitionToNextSeconds") \o One("bool", "transitionEditable")

Waiting ==
  One("bool", "visible")
    \o Each("string", <<"title", "stateLine", "statusMessage", "hostedSessionLine",
                        "waitingText", "joinHint">>)

FrameTop ==
  Each("bool", <<"hasSnapshot", "arenaVisible">>) \o One("f32", "dimFactor")
    \o In("camera", Camera)

ScoreboardTop ==
  One("bool", "scoreboardVisible") \o Each("u16", <<"attackerScore", "defenderScore">>)

TeamMenu ==
  One("bool", "teamMenuVisible") \o Each("string", <<"currentTeamLabel", "selectedTeamLabel">>)

Panels == Each("bool", <<"localNetworkPanelVisible", "diagnosticsPanelVisible">>)

writeRenderFrame ==
  FrameTop
    \o Written("u32", "combatTraces", writeLaserBeam)
    \o Written("u32", "remoteEnemies", RemoteEnemy)
    \o Written("u32", "remotePlayers", writeRemotePlayer)
    \o Written("u32", "remotePlayerGhosts", writeRemotePlayer)
    \o In("waiting", Waiting) \o Written("u32", "hudLines", One("string", "line"))
    \o One("bool", "compactScoreVisible") \o In("score", writeCompactScore)
    \o One("bool", "killFeedVisible") \o Written("u32", "killFeed", writeKillFeedEntry)
    \o ScoreboardTop \o Written("u32", "sections", writeScoreboardSection)
    \o TeamMenu \o In("replay", writeReplayStatus) \o Panels

readRenderFrame ==
  FrameTop
    \o readCount("combatTraces", readLaserBeam)
    \o readCount("remoteEnemies", RemoteEnemy)
    \o readCount("remotePlayers", readRemotePlayer)
    \o readCount("remotePlayerGhosts", readRemotePlayer)
    \o In("waiting", Waiting) \o readCount("hudLines", One("string", "line"))
    \o One("bool", "compactScoreVisible") \o In("score", readCompactScore)
    \o One("bool", "killFeedVisible") \o readCount("killFeed", readKillFeedEntry)
    \o ScoreboardTop \o readCount("sections", readScoreboardSection)
    \o TeamMenu \o In("replay", readReplayStatus) \o Panels

writeHeader ==
  Each("enum", <<"magic", "version">>) \o Each("string", <<"title", "sourceLabel">>)
    \o One("i32", "levelSlot") \o One("u32", "levelHash") \o One("u64", "createdUnixSeconds")

readHeader ==
  Looked("magic") \o Looked("version") \o Each("string", <<"title", "sourceLabel">>)
    \o One("i32", "levelSlot") \o One("u32", "levelHash") \o One("u64", "createdUnixSeconds")

\* Whether there is a local player is a list of none or one.
save ==
  In("metadata", writeHeader)
    \o Written("u32", "frames",
               One("f32", "timestamp")
                 \o Since(2, Written("bool", "localPlayerRenderItem", writeRemotePlayer))
                 \o writeRenderFrame)

\* Mutant of load: files of the first version are not told apart.
MutLoad ==
  In("metadata", readHeader)
    \o readCount("frames",
                 One("f32", "timestamp")
                   \o List("bool", "localPlayerRenderItem", NoMax, readRemotePlayer)
                   \o readRenderFrame)

load ==
  In("metadata", readHeader)
    \o readCount("frames",
                 One("f32", "timestamp")
                   \o Since(2, List("bool", "localPlayerRenderItem", NoMax, readRemotePlayer))
                   \o readRenderFrame)
=============================================================================
