SPECIFICATION FairSpec
CONSTANTS
    MaxForks = 3
    Stages = {0, 1, 3}
    Redirections = {FALSE, TRUE}
    Failures = {"pipe", "fork", "open", "exec"}
    Items = 2
    Capacity = 1
INVARIANTS TypeOK ThreeFiles AllWaitedFor Plumbed
PROPERTY ReadyAgain
CHECK_DEADLOCK FALSE
