SPECIFICATION Spec
CONSTANTS
    Key = {1, 2, 3, 4, 5, 6}
    Value = {1, 2}
    MaxItems = 4
INVARIANTS Packed
PROPERTIES AbsSpec
