\* Two threads, an area, two switches of the functions, a handler and the
\* default one, which may be set again at any time.
CONSTANTS
    malloc = malloc
    free = free
    m1 = m1
    f1 = f1
    m2 = m2
    NULL = NULL
    DefaultHandler = default_handler
    Threads = {t1, t2}
    Areas = {a1}
    Handlers = {h1}
    Defaults <- MCDefaults
    Settings <- MCSettings
    MaxSwitches = 2
SPECIFICATION Spec
INVARIANTS
    CallsFunctions
    FreedByItsPartner
    LostOnlyInSwitch
    NoHandlerLost
PROPERTIES
    CallsEnd
