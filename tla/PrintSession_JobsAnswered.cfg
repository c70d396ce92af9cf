CONSTANTS
    MaxSessions <- MCMaxSessions
    PageCounts <- MCPageCounts
SPECIFICATION Spec
INVARIANT JobsAnswered
