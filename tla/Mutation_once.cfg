SPECIFICATION FairSpec
CONSTANTS
    None = None
    r1 = r1
    r2 = r2
    r3 = r3
    k1 = k1
    k2 = k2
    b0 = b0
    b1 = b1
    b2 = b2
    b3 = b3
    Requests = {r1, r2, r3}
    Key <- MCKey
    Body <- MCBody
    Legacy <- MCLegacy
    Requires <- MCRequires
    Refusals = {"authority", "expiry", "domain", "unservable"}
    MaxLosses = 1
    MaxCrashes = 1
INVARIANTS EffectOnce AnswersAgree
PROPERTIES SettledFailureHadNoEffect ImplementsRegister RequestsSettle
