CONSTANTS
    Story = {s1, s2, s3, s4, s5}
    Browser = {b1}
    Gap = 3
    MinChildren = 2
    MaxChildren = 3
    HistoryLimit = 2
SYMMETRY Symmetry
SPECIFICATION Spec
INVARIANT ListsInOrder
PROPERTY ImplementsQueue
CHECK_DEADLOCK FALSE
