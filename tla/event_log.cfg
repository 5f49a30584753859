SPECIFICATION Spec
CONSTANTS
    Writers = {w1, w2, w3}
    MaxEvents = 5
SYMMETRY MCSymmetry
INVARIANTS
    SeqsHaveNoHoles
    TransitionsInOrder
CHECK_DEADLOCK FALSE
