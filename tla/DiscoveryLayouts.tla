--------------------------- MODULE DiscoveryLayouts ---------------------------
(***************************************************************************)
(* The datagrams of SessionDiscovery.cpp: the query of a browser and the   *)
(* advertisement of a hosted session that answers it.                      *)
(***************************************************************************)
EXTENDS ByteCodec

writeHeader == Each("enum", <<"magic", "version", "kind">>)
readHeader  == writeHeader \o Each("check", <<"magic", "version", "kind">>)

serializeSessionDiscoveryQuery   == In("header", writeHeader) \o One("u16", "protocolVersion")
deserializeSessionDiscoveryQuery == In("header", readHeader) \o One("u16", "protocolVersion")

StudyOptions ==
  Each("u8", <<"enablePredictionToggle", "enableShotStrategyToggle", "enableReplayCapture",
               "enableEventLogging">>)

serializeSessionAdvertisement ==
  In("header", writeHeader)
    \o Each("string", <<"sessionLabel", "hostPlayerName">>)
    \o One("i32", "levelSlot") \o One("u32", "levelHash") \o One("string", "joinHost")
    \o Each("u16", <<"joinPort", "humanPlayers", "maxHumanPlayers", "protocolVersion">>)
    \o Each("enum", <<"shotEvaluationMode", "surface", "entryPoint">>)
    \o One("u8", "localParticipantCount") \o StudyOptions

\* The three that may mean nothing are looked at when everything has been read.
deserializeSessionAdvertisement ==
  In("header", readHeader)
    \o Each("string", <<"sessionLabel", "hostPlayerName">>)
    \o One("i32", "levelSlot") \o One("u32", "levelHash") \o One("string", "joinHost")
    \o Each("u16", <<"joinPort", "humanPlayers", "maxHumanPlayers", "protocolVersion">>)
    \o Each("enum", <<"shotEvaluationMode", "surface", "entryPoint">>)
    \o One("u8", "localParticipantCount") \o StudyOptions
    \o Each("check", <<"shotEvaluationMode", "surface", "entryPoint">>)

DiscoveryKinds == {"query", "advertisement"}

writeDatagram == [query |-> serializeSessionDiscoveryQuery,
                  advertisement |-> serializeSessionAdvertisement]
readDatagram  == [query |-> deserializeSessionDiscoveryQuery,
                  advertisement |-> deserializeSessionAdvertisement]
=============================================================================
