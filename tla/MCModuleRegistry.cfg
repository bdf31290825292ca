CONSTANTS
    N = 3
    Order <- MCOrder
    Manifests <- MCManifests
    Overrides <- MCOverrides
SPECIFICATION Spec
CHECK_DEADLOCK FALSE
INVARIANT RegistrySound
