CONSTANTS
    Keys <- MCKeys
    KeyType <- MCKeyType
    IntBits <- MCIntBits
    Inputs <- MCInputs
SPECIFICATION Spec
INVARIANT MarshalContract
