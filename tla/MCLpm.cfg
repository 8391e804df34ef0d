SPECIFICATION Spec
CONSTANTS
    Addr <- MCAddr
    Tables <- MCTables
    BitAnd <- MCAnd
    None = None
INVARIANTS
    TypeOK
    MostSpecific
    NoRouteMissed
