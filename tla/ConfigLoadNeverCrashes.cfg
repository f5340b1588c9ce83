CONSTANTS
    v = v
    w = w
    p = p
    Vars = {v, w}
    Tokens = {"x", "y", "z"}
    Paths = {p}
    NoPath = NoPath
    Unset = Unset
    Files <- SomeFiles
    Environments <- SomeEnvironments
    Secrets <- SomeTexts
    MaxChanges = 2
SPECIFICATION Spec
INVARIANT NeverCrashes
