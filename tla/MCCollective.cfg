CONSTANT Worlds = {2, 3, 6}
SPECIFICATION Spec
CHECK_DEADLOCK FALSE
INVARIANTS ResultsRight NeverStuck
