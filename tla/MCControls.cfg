SPECIFICATION Spec
CONSTANTS
    Server = {1}
    TagsOf <- Tags
    Spelling = {1, 2}
    Lower <- InLowerCase
    Rule = {1, 2}
    Finding = {1}
    ServerOf <- Servers
    RuleOf <- Rules
    WindowScopes <- SomeWindows
    SuppressionScopes <- SomeSuppressions
    OverrideShapes <- SomeOverrides
    ProfileShapes <- OneProfile
    Value = {1, 2, 3, 4}
    Cap = 2
    MaxDuration = 2
    MaxAhead = 1
    Second <- HalfSeconds
    Position <- WholeLast
    Request = {1, 2}
    MaxTime = 2
    MaxOps = 3
INVARIANTS
    TypeOK
    ShownMatchesEffect
    EffectiveWithinCap
PROPERTIES
    ProfileNeverPartial
CHECK_DEADLOCK FALSE
