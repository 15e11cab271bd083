SPECIFICATION MCSpec
CONSTANTS
    Shares = {s1, s2}
    Focal = s1
    Loop = loop
    OneShots = {o1}
    MaxChanges = 2
    MaxGarbage = 1
    Users = {u1, u2}
    Persistent = {u1}
    Ids = {i1, i2, i3, i4, i5, i6}
    Keys = {k1, k2}
    Handlers = {h1, h2}
    MaxForgets = 1
INVARIANTS
    SecretsAgreeWithKeys
PROPERTIES
    ListIsCopied
    PictureSettles
    LoginsSucceed
CHECK_DEADLOCK FALSE
