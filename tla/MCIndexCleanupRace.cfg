SPECIFICATION HSpec
CONSTANTS
    Null = Null
    Path = {p1, p2}
    Content = {c1, c2}
    Task = {t1}
PROPERTY
    CleanupKeepsLiveRows
