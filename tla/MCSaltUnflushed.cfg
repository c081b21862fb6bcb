CONSTANT MaxSalts = 2
SPECIFICATION Spec
INVARIANT SaltIsSaved
