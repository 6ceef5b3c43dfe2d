CONSTANTS
    Window = 4
    MaxSequence = 9
SPECIFICATION Spec
INVARIANT WindowExact
PROPERTIES AtMostOnce OnlyDeliveryMovesWindow
