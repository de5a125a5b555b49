SPECIFICATION SessionSpec
INVARIANT JoinedAfterUnblocking
