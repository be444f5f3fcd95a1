SPECIFICATION LiveSpec
CONSTANTS
    Backends = {"b1", "b2"}
    Instances <- HealthInstances
INVARIANT OverlayConsistent
PROPERTIES GaugesAreQualified RoutingAdvances HealthSettles
