------------------------------ MODULE MCCombat ------------------------------
(***************************************************************************)
(* TLC instance of Combat: two opponents and a bot on the second's side;   *)
(* the second moves. Either all that scores is played, by clients that     *)
(* draw snapshots as they are, or the bot stands still and the players     *)
(* shoot at each other with and without interpolation, two ticks to a      *)
(* server time.                                                            *)
(***************************************************************************)
EXTENDS Combat

VARIABLE plays  \* what happens: "scores" or "shots"

ShotTicks == 4  \* bound: ticks of the second kind
Shots == INSTANCE Combat WITH Delay <- 1, TicksPerStep <- 2, MaxTicks <- ShotTicks

MCOrder == <<1, 2>>
MCBotOrder == <<40>>
MCTeam == [a \in {1, 2, 40} |-> IF a = 1 THEN "Attacker" ELSE "Defender"]

StillBots == [b \in Bots |-> Idle]

ShotsNext ==
  \/ /\ tick < ShotTicks
     /\ \E may \in {[c \in Sessions |-> Shots!Allowed(c, Shots!TimeOfTick(tick + 1))]} :
          \E order \in [Sessions -> UNION {may[c] : c \in Sessions}] :
            /\ \A c \in Sessions :
                 order[c] \in may[c] /\ (order[c].kind = "fire" => order[c].shot.target \in Sessions)
            /\ \E publish \in BOOLEAN : Shots!Tick(order, StillBots, publish)
  \/ \E c \in Remote : \E snapshot \in sent[c] : Shots!Receive(c, snapshot)

CombatInit ==
  /\ Init
  /\ plays \in {"scores", "shots"}
  /\ plays = "shots" => server.mode = "SeenPosition"

CombatNext ==
  \/ plays = "scores" /\ Next /\ UNCHANGED plays
  \/ plays = "shots" /\ ShotsNext /\ UNCHANGED plays

CombatSpec == CombatInit /\ [][CombatNext]_<<vars, plays>>
=============================================================================
