SPECIFICATION Spec
CONSTANTS
    t1 = t1
    t2 = t2
    t3 = t3
    admin = admin
    other = other
    Threads = {t1, t2, t3}
    Keys = {admin, other}
    AdminKeys = {admin}
    Limiters = {1, 2}
    MaxAttempts <- MCMaxAttempts
    Cooldown <- MCCooldown
    MaxHold = 1
    MaxLogins = 5
    MaxTime = 6
INVARIANTS TypeOK FailuresAreBounded BlockIsEarned
SYMMETRY MCSymmetry
CHECK_DEADLOCK FALSE
