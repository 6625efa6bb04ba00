--------------------------- MODULE MCGpuPipeline ---------------------------
(***************************************************************************)
(* GpuPipeline for TLC.                                                    *)
(***************************************************************************)
EXTENDS GpuPipeline
=============================================================================
