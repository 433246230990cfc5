---------------------------- MODULE MCApplication ----------------------------
(* Application for TLC.  What is kept on disk differs from the beginning   *)
(* for one screen at a time, and while it does only that screen is opened; *)
(* replays or checkpoints change, and only obstacles are saved.            *)
EXTENDS Application

MCEndpoints == <<[host |-> "h1", port |-> "p1"], [host |-> "h2", port |-> "p2"]>>
MCHostTexts ==
  {[host |-> "h1", port |-> "none"], [host |-> "h2", port |-> "p1"],
   [host |-> "h1", port |-> "bad"], [host |-> "bad", port |-> "none"]}
MCRates == <<20, 60, 120>>

MCLastTick == [r \in 1..3 |-> 1]
MCPresent(r, t) ==
  CASE r = 1 /\ t = 0 -> {1, 2}
    [] r = 1 /\ t = 1 -> {}
    [] r = 3 /\ t = 0 -> {1, 3}
    [] OTHER -> {3}

MCSlots == {<<"fire", 1>>, <<"fire", 2>>}
MCBindings == [MCSlots -> {"none", "left"}]
MCDefaults == [s \in MCSlots |-> IF s[2] = 1 THEN "left" ELSE "none"]

OneAtATime ==
  /\ saved # 0 => kept = Recordings /\ Cardinality(files) = Cardinality(Recordings)
  /\ \A s \in Slots : levels[s] # NoLevel => Len(levels[s].items["obstacle"]) = Count(levels[s])
  /\ ~(LevelsInit) => mode \in {"main", "levels", "editor"} /\ target \in {"none", "editor"}
  /\ ~(FilesInit) => mode \in {"main", "replays"}
  /\ characters # {} => mode \in {"main", "characters"}
  /\ used # MCDefaults \/ stored # MCDefaults => mode \in {"main", "settings"}
=============================================================================
