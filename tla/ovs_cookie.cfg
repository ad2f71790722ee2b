SPECIFICATION Spec
CONSTANTS
    Threads = {"t1", "t2"}
    Pairs <- SameCookie
    Hosts = {"h1", "h2"}
    Ports = {1, 2}
INVARIANT RemoteIfcsListed
