CONSTANT Worlds = {8}
SPECIFICATION Spec
INVARIANT ChunksWithinBuffer
CHECK_DEADLOCK FALSE
