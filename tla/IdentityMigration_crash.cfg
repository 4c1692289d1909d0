SPECIFICATION MigrationFairSpec
CONSTANTS
    Keys = {k1, k2}
    Passphrases = {p1, p2}
    Plain = Plain
    Broken = Broken
    Backups = {b1, b2}
    NoFile = NoFile
    NoKey = NoKey
    MaxDeaths = 3
    MaxDamages = 1
INVARIANTS KeyNeverLost ReportsAreTrue
PROPERTIES PlaintextOutlivesDoubt MigrationCompletes
