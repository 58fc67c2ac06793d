--------------------------- MODULE MCAudioPipeline ---------------------------
(***************************************************************************)
(* The instance of AudioPipeline that TLC checks: FIFOs of two places as   *)
(* in the code and blocks enough to overflow both.                         *)
(***************************************************************************)
EXTENDS AudioPipeline

MCDepth      == 2
MCMaxRetries == 1
MCMaxBlocks  == 4
=============================================================================
