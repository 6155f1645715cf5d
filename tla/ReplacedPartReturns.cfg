\* A part is replaced while a save tick reads the wallet for its log line: the tick then stores the replaced part again.
SPECIFICATION WalletSpec
CONSTANTS
    MaxPending = 2
    MaxProgress = 1
    MaxReplacements = 1
    MaxSaves = 2
    MaxLives = 2
PROPERTIES
    StoreNeverGoesBack
CHECK_DEADLOCK FALSE
