SPECIFICATION Spec
CONSTANTS
    Turns = {t1, t2}
    Deployments = {d1}
    None = None
    CommitMayFail = FALSE
INVARIANT SettingsDrainHolds
CHECK_DEADLOCK FALSE
