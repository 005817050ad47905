\* A request against three modules that come, go and change; ten manifests.
SPECIFICATION Spec
CONSTANTS
    Connections = {c1}
    Requests <- MCRequests
    Assets <- MCAssets
    Manifests <- MCManifests
    OnDisk <- MCOnDisk
    Aliased = FALSE
    MaxOps = 3
INVARIANT NamespacesApart
INVARIANT FailsClosed
