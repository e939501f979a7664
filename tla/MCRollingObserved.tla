-------------------------- MODULE MCRollingObserved --------------------------
(* The rolling view of an observed dataset, for TLC: two overlapping passes, *)
(* and a deploy of a configuration with other metadata.                     *)
EXTENDS RollingObserved, TLC

CONSTANTS before, after
ArtifactsOfConfig == before :> {1} @@ after :> {1}
MetadataOfConfig == before :> "metadata" @@ after :> "other metadata"
=============================================================================
