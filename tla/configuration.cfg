SPECIFICATION Spec
CONSTANTS
    ProfileIds = {"default", "team"}
    TemplateIds = {t1, t2}
    t1 = t1
    t2 = t2
    TemplateRows <- MCRows
    ScheduleIds = {"s1", "s2"}
    Secrets = {"k1"}
    Documents <- MCDocuments
    None = None
    Inputs = {"x", "bad"}
    MaxRequests = 3
    MaxFaults = 1
SYMMETRY AnyTemplate
INVARIANTS TypeOK DefaultProfileStays NoHalfConfiguration NoSecretLeft SecretsAreReal FormAgreesWithEngine RunMatchesForm FixedFieldsStay
PROPERTIES MergeRemovesNothing
CHECK_DEADLOCK FALSE
