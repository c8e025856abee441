----------------------------- MODULE MCDrmSched -----------------------------
(* Two entities and a chain of jobs that goes back and forth between them:   *)
(* j2 depends on j3 of the other entity, j3 on j1 of the first one, and j1   *)
(* on a fence of another scheduler.                                          *)
EXTENDS DrmSched

CONSTANTS e1, e2, j1, j2, j3

MCPlan == e1 :> <<j1, j2>> @@ e2 :> <<j3>>
MCDepOf == j1 :> Foreign @@ j2 :> j3 @@ j3 :> j1
=============================================================================
