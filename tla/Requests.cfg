SPECIFICATION Spec
CONSTANTS
    Names <- MixedNames
    Namespaces <- MixedNamespaces
    Coordinates <- MixedCoordinates
    Definitions <- MixedDefinitions
    TakesBody = TRUE
    Alternates = 2
INVARIANTS TypeOK RequestIsOwn MetadataWins MismatchOnlyIfNoneServed
