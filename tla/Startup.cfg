\* Every combination of the settings of MCStartup, every failure. A process ends: no deadlock check.
CONSTANTS
    Words = {"", "-h", "--help", "--flag", "tail", "explain", "noisefilter"}
    CliSettings <- SmallCli
    FileSettings <- SmallFile
    None = None
SPECIFICATION Spec
INVARIANTS
    TypeOK
    LogOutlivesSocket
    ServesWhatWasAsked
CHECK_DEADLOCK FALSE
