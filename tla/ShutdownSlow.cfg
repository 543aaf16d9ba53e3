SPECIFICATION FairSpec
CONSTANT Wait <- TenSeconds
INVARIANT SectionsReady
CHECK_DEADLOCK FALSE
