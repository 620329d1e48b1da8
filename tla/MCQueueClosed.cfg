CONSTANTS
    a = a
    b = b
    c = c
    Items <- ThreeItems
    MaxSize = 2
SPECIFICATION QueueSpec
PROPERTY ClosedAdmitsNothing
