---------------------------- MODULE OrderedInput ----------------------------
(***************************************************************************)
(* What the input path of one player promises, with the network, the       *)
(* queues, death and prediction left out.  The client numbers its          *)
(* commands 1, 2, 3, ...; the simulation applies some of them, each at     *)
(* most once and in the order of their numbers; the client learns how far  *)
(* the simulation has got, never more and never going back.                *)
(***************************************************************************)
EXTENDS Integers, Sequences

VARIABLES
  issued,   \* number of the last command the client has built
  done,     \* numbers of the commands applied, in the order of application
  learned   \* number of the newest command the client knows to be applied

vars == <<issued, done, learned>>

LastDone == IF done = <<>> THEN 0 ELSE done[Len(done)]

Init ==
  /\ issued = 0
  /\ done = <<>>
  /\ learned = 0

Issue ==
  /\ issued' = issued + 1
  /\ UNCHANGED <<done, learned>>

Apply ==
  /\ \E s \in (LastDone + 1) .. issued : done' = Append(done, s)
  /\ UNCHANGED <<issued, learned>>

Learn ==
  /\ learned' \in learned .. LastDone
  /\ UNCHANGED <<issued, done>>

Next == Issue \/ Apply \/ Learn

Spec == Init /\ [][Next]_vars
=============================================================================
