\* One publisher and two subscribers of the same name, created and destroyed in
\* any order.  Two frames fill the cache, two calls may time out on the mutex.
CONSTANTS
    main = main
    gnss = gnss
    first = first
    second = second
    Accounts = {main, gnss, first, second}
    Main = main
    Cached = {gnss}
    NameOf <- ClashingName
    MaxRetained = 2
    MaxTimeouts = 2
    None = None
SPECIFICATION Spec
INVARIANTS
    ListsAgree
    ReadersAreSubscribers
    BacklogIsMissed
