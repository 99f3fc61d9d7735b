---------------------------- MODULE MCRenderJobs ----------------------------
(* Small instances of RenderJobs; the bounds are in the configurations.       *)
EXTENDS RenderJobs
=============================================================================
