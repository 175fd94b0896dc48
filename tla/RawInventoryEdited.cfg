SPECIFICATION Spec
CONSTANTS
    Raw = Raw
    Sub = Sub
    Elsewhere = Elsewhere
    f1 = f1
    f2 = f2
    l1 = l1
    l2 = l2
    Files = {f1, f2}
    Links = {l1, l2}
    Names = {1, 2, 3}
    Ignored = {3}
    Target <- Texts
    Up = Up
    Trees <- TwoTrees
    None = None
    Idle = Idle
    AnyStamp = AnyStamp
    MaxLinks = 2
    MaxEdits = 2
INVARIANTS TypeOK AcceptedWasThere BytesAreOneVersion UsedIsInventoried PresentIsAccounted
