CONSTANTS
    MaxSessions <- MCMaxSessions
    PageCounts <- MCPageCounts
SPECIFICATION Spec
INVARIANT PrintedNeverFailed
INVARIANT NodeFlagTracksCaller
INVARIANT PrepOwnsParams
INVARIANT PagesFromLoadedSurface
