CONSTANTS
    MaxSessions <- MCMaxSessions
    PageCounts <- MCPageCounts
SPECIFICATION LiveSpec
PROPERTY NodeGuardReleased
PROPERTY PrepReleased
