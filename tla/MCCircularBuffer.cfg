SPECIFICATION Spec

CONSTANT Calls <- MCCalls

INVARIANT TypeOK
INVARIANT ChainsAgree
INVARIANT WordsFit
