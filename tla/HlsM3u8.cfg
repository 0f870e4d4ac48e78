SPECIFICATION Spec
INVARIANT AssertionHolds
