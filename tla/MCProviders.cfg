\* Stores, messages and fetches are bounded: there may be nothing left to do.
CHECK_DEADLOCK FALSE
SPECIFICATION SSpec
CONSTANTS
    n1 = n1
    n2 = n2
    n3 = n3
    c1 = c1
    Null = Null
    Node = {n1, n2, n3}
    Path = {p1}
    Content = {c1, c2}
    Host = {n1}
    Fetcher = {n3}
    Proxy = {n1}
    Mover = {n3}
    MaxBroadcasts = 1
    MaxChurn = 1
    MaxRetries = 1
    MaxChanges = 1
    Near <- MCNear
    HttpCaches <- MCHttpCaches
INVARIANT
    ProvidersAnnounced
