-------------------------- MODULE MCMemoryBackend --------------------------
\* Three goroutines on one key: two race for one key while the third reads it.
EXTENDS MemoryBackend, TLC

Symmetry == Permutations(Client) \cup Permutations(Key) \cup Permutations(Value)
=============================================================================
