SPECIFICATION Spec
CONSTANTS
    Byte = 4
    Lengths = {4}
    Orders = {"little"}
INVARIANT MainVerifies
