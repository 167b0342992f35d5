\* Two imports, a further resolution and a kill.
SPECIFICATION Spec
CONSTANTS
    carrier = carrier
    spell = spell
    third = third
    Names = {carrier, spell, third}
    Kinds = {"trigger", "draw", "static", "alt"}
    Universes <- MCUniverses
    MaxImports = 2
    MaxResolves = 1
    MaxKills = 1
INVARIANTS
    NoStrandedPorts
    NoHalfUniverse
    CarriersInheritOnce
CHECK_DEADLOCK FALSE
