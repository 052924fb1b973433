SPECIFICATION MigrationsFairSpec
CONSTANT MaxStops = 0
PROPERTY ComesToServe
CHECK_DEADLOCK FALSE
