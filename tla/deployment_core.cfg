CONSTANTS
    Deploys = {d1, d2}
    Operator = operator
    Codes <- MCCodes
    Goals <- MCGoals
SYMMETRY Symmetry
SPECIFICATION Spec
INVARIANTS
    TenantsIsolated
    RolesReachTables
    HistoryIndependent
    RunningCodeHasSchema
