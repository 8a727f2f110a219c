--------------------------- MODULE MCStorageDeals ---------------------------
EXTENDS StorageDeals

\* Two terms that end in different epochs and cost the same, since a fee of
\* half a unit per epoch is rounded up.
TwoTerms == {<<0, 1>>, <<0, 2>>}

\* A requested challenge, open while an automatic one is.
EarlyWindow == {<<0, 1>>}

\* Operators are interchangeable, and so are the shards: with one of two held,
\* the repair band has one shard to look at.
Symmetry == Permutations(Operators) \cup Permutations(Shards)
=============================================================================
