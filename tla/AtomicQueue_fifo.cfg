SPECIFICATION Spec
CONSTANTS
    Producers = {p1, p2}
    p1 = p1
    p2 = p2
    Size = 2
    Remap <- Same
    Wrap = 8
    Capacity = 3
    MaxPushes = 3
    NIL = NIL
    Width = 4
    Sizes = {2}
    ElementsPerLine = {1, 2}
PROPERTIES
    ProducerOrder
