---------------------------- MODULE MC_HeapSize ----------------------------
EXTENDS HeapSize

\* request sizes an object header can have (the header alone is 40 bytes)
\* up to 4KB, and one byte either side of every larger power of two up to
\* 512MB
MCObjectSizes == 17..4200 \cup ({2^k + d : k \in 13..29, d \in {-1, 0, 1}} \ {2^29 + 1})

\* every cpu count init_heap accepts
MCCpus == 1..511

\* pool spans of 2^22 bytes: pointers into the first 256 bytes of pools 0-3
MCPoolSpan == 2^22

In(s, c, b, p) == [size |-> s, cpus |-> c, busy |-> b, ptr |-> p]

\* the layout run: every object size on 4 cpus, and every cpu count with
\* each subset of the first three regions busy
MCLayoutInputs ==
  {In(s, 4, {}, 0) : s \in MCObjectSizes}
    \cup {In(64, c, b, 0) : c \in MCCpus, b \in SUBSET {0, 1, 2}}

\* sizes below the smallest size class
MCSmallInputs == {In(s, 4, {}, 0) : s \in 2..16}

MCCpuInputs == {In(64, c, {}, 0) : c \in MCCpus}

MCFindInputs == {In(64, 4, {}, p * MCPoolSpan + a) : p \in 0..3, a \in 0..255}

\* the first two 4KB pages of pools 0-8 (16 byte to 4KB objects)
MCPageInputs == {In(64, 4, {}, p * MCPoolSpan + pg * 4096) : p \in 0..8, pg \in 0..1}
=============================================================================
