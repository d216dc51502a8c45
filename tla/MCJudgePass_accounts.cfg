SPECIFICATION PassSpec
CONSTANTS
    root = root
    judge = judge
    guest = guest
    near = near
    far = far
    t1 = t1
    t2 = t2
    User <- MCUser
    Email <- MCEmail
    Addr <- MCAddr
    Distinct <- MCDistinct
    Thread <- MCThread
    Budgets <- MCBudgets
    MaxTokens = 4
    MaxTime = 4
    Never = 20
    IDLE_TIMEOUT = 2
    ABSOLUTE_LIFETIME = 3
    TOUCH_INTERVAL = 1
    MAX_FAILURES = 2
    FAILURE_WINDOW = 1
    SWEEP_ABOVE_KEYS = 2
    MAX_SHARED_FAILURES = 3
    MAX_CONCURRENT_SHARED_DELAYS = 1
    Problem = FALSE
    judge_pass_until = 3
    judge_pass_daily_max = 1
    WINDOW = 2
    MailConfigured = TRUE
SYMMETRY Symmetry
CHECK_DEADLOCK FALSE
INVARIANTS TypeOK EndedSessionsStayDead PasswordIsLatest GuessesBounded NoSharedLockout DailyLimitOverrun PassEndsAccess
PROPERTIES AdminRemains NoSecondWayIn
