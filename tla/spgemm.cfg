\* Up to three products in a row with each wrapper, any step of which may throw.
CONSTANT MaxApplies = 3
SPECIFICATION Spec
INVARIANTS LostOnlyByUnwinding NothingLeaks ProductWhole
\* the wrapper is destroyed
CHECK_DEADLOCK FALSE
