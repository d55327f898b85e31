SPECIFICATION ApplicationSpec
CONSTANT MaxBatch = 1
INVARIANT IntegrityFailsClosed
