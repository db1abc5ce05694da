------------------------------ MODULE MCKernel ------------------------------
EXTENDS Kernel, TLC

MCMachines == [Ports -> {"absent", "alive", "dead"}]

(* 640 KB of base memory, with and without 15 MB of extended memory.       *)
MCCmos == { 21 :> 128 @@ 22 :> 2 @@ 23 :> 0 @@ 24 :> x : x \in {0, 60} }
=============================================================================
