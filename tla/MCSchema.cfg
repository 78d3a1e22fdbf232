SPECIFICATION Spec
CONSTANTS
    proxy = proxy
    api = api
    NoColumn = NoColumn
    Replicas = {proxy, api}
    Required = {proxy}
    Migrations <- MCMigrations
    Statements <- MCStatements
    Sources <- MCSources
    Columns = {"paid"}
    BornWith <- MCBornWith
    MaxStarts = 3
    MaxFailures = 1
INVARIANTS
    TypeOK
    StartOnTablesCompletes
    ViewsStand
PROPERTIES
    MigrationsSettle
CHECK_DEADLOCK FALSE
