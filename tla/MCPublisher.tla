---------------------------- MODULE MCPublisher ------------------------------
(***************************************************************************)
(* Small instances of Publisher: a batch and a single publish with distinct *)
(* MessageIDs, and single publishes that retry.                             *)
(***************************************************************************)
EXTENDS Publisher, TLC

CONSTANTS a, b, m1, m2, m3

BatchAndSingle == a :> <<m1, m2>> @@ b :> <<m3>>
OneSingle == a :> <<m1>>
=============================================================================
