---- MODULE MCTCache ----
EXTENDS TCache

MCTTLs == {-1, 0, 2}

\* Memory is given back: an entry past its expiry is eventually removed or
\* replaced, and every heap item eventually discarded, also that of an entry which
\* was deleted or replaced before it expired (sweepLoop).
MemoryReturns == Reclaimed /\ HeapDrains
====
