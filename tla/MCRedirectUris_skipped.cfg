CONSTANTS
    h1 = h1  timer = timer  callback = callback
    s1 = s1  s2 = s2  s3 = s3
    Hosts = {h1}
    MaxCopies = 1
    FirstUris <- MCFirstUris
    Callers = {timer}
    Timer = timer
    Senders = {s1, s2, s3}
    MaxChanges = 1
    MaxFailures = 0
    MaxResets = 0
    None = None
SPECIFICATION Spec
PROPERTIES SkippedOnlyIfSent
