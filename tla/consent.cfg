CONSTANTS
    None = None
    r1 = r1  r2 = r2
    t1 = t1  t2 = t2
    d1 = d1  d2 = d2
    k1 = k1  k2 = k2
    b1 = b1  b2 = b2
    Req = {r1, r2}
    Payments = {r1, r2}
    Tuple = {t1, t2}
    Drive = {d1}
    Manifest = {m1}
    Key = {k1}
    Body = {b1}
    TupleOf <- MCTupleOf
    DriveOf <- MCDriveOf
    KeyOf <- MCKeyOf
    BodyOf <- MCBodyOf
    PrepareLimit = 1
    PaymentLimit = 1
    MaxAsking = 1
SPECIFICATION FairConsentSpec
INVARIANTS SpendWasClicked OneSpendPerKey SubmittedIsOnChain
PROPERTIES ConsentFreesSlot PageAnswered ImplementsIdeal
