CONSTANTS
    MaxSessions <- MCMaxSessions
    PageCounts <- MCPageCounts
SPECIFICATION Spec
PROPERTY CopyNeverClosedLoading
