CONSTANTS
    plain = plain
    padded = padded
    address = address
    untrimmed = untrimmed
    Requests = {r1, r2, r3}
    Spellings <- MCSpellings
    Emails <- MCEmails
    RegisterForm <- MCRegisterForm
    LoginForm <- MCLoginForm
    Passwords = {p1, p2}
    MaxThreads = 1
    NoAccount = NoAccount
    Nobody = Nobody
SPECIFICATION FairSpec
INVARIANTS
    TypeOK
    RegisteredCanLogIn
    OneOwner
PROPERTIES
    Answered
CHECK_DEADLOCK FALSE
