---------------------------- MODULE MCDeployment ----------------------------
(* Instance of Deployment: two weight files are the least of which one can *)
(* be missing, two polls the least that are not the last.                  *)
EXTENDS Deployment

MCSweep == <<"26K", "decode">>
MCWeights == {"w1", "w2"}
=============================================================================
