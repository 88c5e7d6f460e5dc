CONSTANTS
    Bytes = {0, 1, 255}
    KeyLens = {1, 2, 3}
SPECIFICATION Spec
INVARIANTS
    CdsTagIdentifiesDnskey
