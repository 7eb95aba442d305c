----------------------- MODULE MCElasticityExperiment -----------------------
(* Instances of the elasticity experiment for TLC. *)
EXTENDS ElasticityExperiment
=============================================================================
