SPECIFICATION SSpec
CONSTANTS
    Coroutines = {c1, c2}
    Sockets = {1, 2}
    Watchers = {1, 2, 3}
    Nil = Nil
    MaxWaits = 5
    Byte <- AllBytes
    Messages <- Sendings
    Streams <- PeerStreams
    Separator <- LineEnd
    Amounts = {1, 4}
    MSize = 3
    FileChunk = 2
    SendBuffer = 2
    MaxOps = 2
INVARIANTS TypeOK WatchersAreOwn NobodyIsLost  BytesArrive
PROPERTY WaitsEnd
CHECK_DEADLOCK FALSE
