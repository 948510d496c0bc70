SPECIFICATION FairSpec
CONSTANTS
    Threads = {t1, t2, t3}
    Hosts = {h1, h2}
    Clients = {c1, c2, c3}
    MaxConn = 3
    MaxConnPerHost = 2
INVARIANTS PoolSound SleepersHaveReason
PROPERTIES GetEnds
