---------------------------- MODULE MCClientModes ----------------------------
(***************************************************************************)
(* TLC instance of two parts of a client that share nothing: one that runs *)
(* takes one frame after another, or joiners come to a server whose host   *)
(* binds their seats to a bot.                                             *)
(***************************************************************************)
EXTENDS ClientModes, JoinHandshake

VARIABLE does  \* what happens: "frames" or "joins"

\* Every frame with at most two keys: stages read what earlier ones write.
MCInputs == {{}} \cup {{k, l} : k, l \in Keys}

ClientInit ==
  /\ ModesInit /\ Init
  /\ does \in {"frames", "joins"}
  /\ does = "joins" => client = Fresh(0)

ClientNext ==
  \/ does = "frames" /\ ModesNext /\ UNCHANGED <<vars, does>>
  \/ does = "joins" /\ Next /\ UNCHANGED <<client, does>>

ClientSpec == ClientInit /\ [][ClientNext]_<<client, vars, does>>
=============================================================================
