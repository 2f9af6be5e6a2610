CONSTANTS
    h1 = h1  timer = timer  callback = callback
    s1 = s1  s2 = s2  s3 = s3
    Hosts = {h1}
    MaxCopies = 2
    FirstUris <- MCFirstUris
    Callers = {timer, callback}
    Timer = timer
    Senders = {s1, s2}
    MaxChanges = 2
    MaxFailures = 1
    MaxResets = 1
    None = None
SPECIFICATION FairSpec
INVARIANTS TypeOK HashIsHonoured
PROPERTIES EventuallyIdpCurrent
