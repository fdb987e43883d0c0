CONSTANTS
    Replicas = {r1, r2}
    Http = {h1}
    Grpc = {g1}
    Sessions = {s1, s2, s3}
    None = None
    NFiles = 2
    MaxConns = 1
SPECIFICATION FairSpec
INVARIANTS
    ServesMigrated
    OneMigrator
    DrainIsGraceful
PROPERTIES
    MigrationsSpec
    StartUpEnds
    ShutdownEnds
    LockIsFreed
