CONSTANTS
    Word = {0, 1, 2}
    QLimit = 4
SPECIFICATION Spec
PROPERTIES
    DeliveredInOrder
