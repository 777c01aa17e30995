SPECIFICATION Spec
CONSTANTS
    Browser = {b1, b2}
    Careful = {b1}
    Handler = {h1, h2}
    Email = {e1}
    Token = {t1, t2, t3}
    Null = Null
SYMMETRY Symmetry
INVARIANTS
    OneSessionPerSignIn
    RotationLosesNothing
    CookieNotBehind
    DisabledStaysOut
    LogoutEndsSignIn
