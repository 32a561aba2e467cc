------------------------------ MODULE MC_Heap ------------------------------
EXTENDS Heap, TLC

CONSTANTS c1, c2

MCCores == {c1, c2}

CoreSymmetry == Permutations(MCCores)

G(pages, objs, huge) == [pages |-> pages, objs |-> objs, huge |-> huge]

\* a pool of 2MB objects (one huge page), a pool of 4KB objects and a pool
\* of 2KB objects (two to a page)
MCPools == {"2m", "4k", "2k"}
MCGeometry == [p \in MCPools |->
                 CASE p = "2m" -> G(1, 1, TRUE)
                   [] p = "4k" -> G(1, 1, FALSE)
                   [] p = "2k" -> G(1, 2, FALSE)]

\* a pool of 8KB objects (two pages each)
MCPools8k == {"8k"}
MCGeometry8k == [p \in MCPools8k |-> G(2, 1, FALSE)]
=============================================================================
