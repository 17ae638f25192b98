CONSTANTS
    FlagTokens <- MCFlagTokens
    ValueTokens <- MCValueTokens
    CmdWords <- MCCmdWords
    Installed <- MCInstalled
    Registry <- MCRegistry
    Servers <- MCServers
    Verbosities <- MCVerbosities
    MaxArgs = 3
    PkgSubWords <- MCPkgDelete
    PkgFlagWords <- MCPkgBoolAndValue
    PkgValueWords <- MCPkgValueWords
    MaxPkgArgs = 4
SPECIFICATION Spec
INVARIANT PkgFlagsAllSet
