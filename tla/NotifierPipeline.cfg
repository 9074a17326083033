SPECIFICATION Spec
CONSTANTS
    Realms = {A}
    Notifiers = {n1, n2}
    Observed = {n1}
    Owner <- OneOwner
    n1 = n1
    n2 = n2
    A = A
    B = B
    MaxVersion = 3
INVARIANTS
    HelpersHoldVersions
    NeverBackwards
    OneVersion
    HearsAll
    HearsOnce
PROPERTIES
    ToldInTheEnd
