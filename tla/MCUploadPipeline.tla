-------------------------- MODULE MCUploadPipeline --------------------------
(***************************************************************************)
(* UploadPipeline on small instances; the inbox and the members stay out.  *)
(***************************************************************************)
EXTENDS UploadPipeline

MCNoBatches == {}
=============================================================================
