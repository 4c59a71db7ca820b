-------------------------- MODULE MCCaptionPipeline --------------------------
(***************************************************************************)
(* Names for the small instances of CaptionPipeline.                       *)
(***************************************************************************)
EXTENDS CaptionPipeline

CONSTANTS en, es, fr
=============================================================================
