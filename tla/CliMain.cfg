CONSTANTS
    FlagTokens <- MCFlagTokens
    ValueTokens <- MCValueTokens
    CmdWords <- MCCmdWords
    Installed <- MCInstalled
    Registry <- MCRegistry
    Servers <- MCServers
    Verbosities <- MCVerbosities
    MaxArgs = 3
    PkgSubWords <- MCPkgSubWords
    PkgFlagWords <- MCPkgFlagWords
    PkgValueWords <- MCPkgValueWords
    MaxPkgArgs = 3
SPECIFICATION Spec
INVARIANT TypeOK
INVARIANT FlagParserMatchesReference
INVARIANT PluginSeesSameGlobals
