SPECIFICATION FairSpec
CONSTANTS
    Last = 2
    ProjectBuilder = 1
    MaxEvents = 2
INVARIANTS MirrorKept QuietDeleteIsFinal
PROPERTIES NotDrivenAgain DemoGoes
CHECK_DEADLOCK FALSE
