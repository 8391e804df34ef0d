SPECIFICATION Spec
CONSTANTS
    Byte = 4
    Lengths = {4, 5, 6}
    Orders = {"little", "big"}
INVARIANTS
    TypeOK
    SweeperVerifies
    MainVerifiesBig
