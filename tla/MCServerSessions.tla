--------------------------- MODULE MCServerSessions ---------------------------
(***************************************************************************)
(* TLC instances of ServerSessions.  Session ids are model values, and     *)
(* interchangeable: the code only compares them for equality.              *)
(***************************************************************************)
EXTENDS ServerSessions, TLC

SessionIdSymmetry == Permutations(SessionIds)
=============================================================================
