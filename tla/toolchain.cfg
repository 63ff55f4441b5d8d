SPECIFICATION Spec
CONSTANTS
    NoFile = NoFile
    NoDir = NoDir
    DefaultDir = "generated"
    Dirs = {"contracts", "generated"}
    Outputs = {"generated", NoDir}
    Schemas <- MCSchemas
    Edited <- MCEdited
    LocalModule <- MCLocalModule
    ApiModule <- MCApiModule
    SyncTables <- MCSyncTables
    Configs <- MCConfigs
    NoExports <- NoConfig
    TemplateExports <- MCTemplateExports
    Frameworks = {"hono", "elysia"}
    Template = "sound"
    AppLeavings <- MCAppLeavings
    ServerLeavings <- MCServerLeavings
    Providers <- MCProviders
    DefaultTargets <- MCDefaultTargets
    OpenCode = ".opencode"
    SkillFiles <- MCSkillFiles
    MaxDay = 1
    Budgets <- MCBudgets
CHECK_DEADLOCK FALSE
INVARIANT TypeOK
INVARIANT ParentsFirst
INVARIANT OnlySyncableTables
INVARIANT DirectoryAgrees
INVARIANT CheckPredictsGenerate
INVARIANT OneRunPerProject
INVARIANT SuccessIsWhole
INVARIANT ImportsResolve
INVARIANT SkillsAreWhole
PROPERTY FrozenForLaterRuns
