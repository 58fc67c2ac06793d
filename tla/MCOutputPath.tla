---------------------------- MODULE MCOutputPath ----------------------------
(***************************************************************************)
(* The instance of OutputPath that TLC checks: the reports of the host     *)
(* and the two of the rumble test wrap a sequence number that ends at 3.   *)
(***************************************************************************)
EXTENDS OutputPath

MCSeqLimit == 3
MCMaxSent  == [out |-> 2, ep0 |-> 1, audio |-> 1]
=============================================================================
