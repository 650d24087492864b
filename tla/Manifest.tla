------------------------------ MODULE Manifest ------------------------------
(***************************************************************************)
(* What a capture's manifest fixes for its whole life: its identity and    *)
(* its artifact descriptors.                                               *)
(***************************************************************************)
EXTENDS Naturals

CONSTANTS
    Captures,      \* capture ids
    Artifacts,     \* artifact ids a manifest declares (the same in every manifest)
    Required,      \* the artifacts declared with required = true
    ManifestOnly   \* the artifacts whose transfer_policy is manifest_only

ASSUME ArtifactPolicies ==
    /\ Required \subseteq Artifacts
    /\ ManifestOnly \subseteq Artifacts

(* transfer_policy copy or preview_only: the bytes are streamed in.        *)
Streamed == Artifacts \ ManifestOnly
=============================================================================
