SPECIFICATION Spec
CONSTANTS
    c1 = c1
    c2 = c2
    x = x
    y = y
    Kind <- AllKinds
    Keys <- TwoKeys
    Clients <- MCClients
    Values = {"gold", "platinum"}
    MaxEdits = 1
    Spare = {1, 2, 3, 4, 5}
    Nil = Nil
    Nothing = Nothing
SYMMETRY Symmetry
INVARIANTS NothingShared
PROPERTIES ImplementsValueStore
