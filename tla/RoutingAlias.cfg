\* A module with fixed paths next to one that declares such a path.
SPECIFICATION Spec
CONSTANTS
    Connections = {c1}
    Requests <- MCRequests
    Assets <- MCAssets
    Manifests <- MCManifests
    OnDisk <- MCOnDisk
    Aliased = TRUE
    MaxOps = 3
INVARIANT OneOwner
