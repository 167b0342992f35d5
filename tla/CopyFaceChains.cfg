\* A carrier whose reference is a carrier: the second pass is called again.
SPECIFICATION Spec
CONSTANTS
    carrier = carrier
    spell = spell
    third = third
    Names = {carrier, spell, third}
    Kinds = {"trigger", "draw", "static", "alt"}
    Universes <- MCChained
    MaxImports = 2
    MaxResolves = 1
    MaxKills = 1
PROPERTIES
    RepeatedResolveIsStable
CHECK_DEADLOCK FALSE
