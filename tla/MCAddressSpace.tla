--------------------------- MODULE MCAddressSpace ---------------------------
(* Instances of AddressSpace for TLC: pages of two addresses; the program at *)
(* [2,4), the heap from 4, the interpreter at 8, mmap in [12,16), the stack  *)
(* at [20,22).                                                               *)
EXTENDS AddressSpace

Segment(data) == [start |-> 2, end |-> 4, w |-> TRUE, data |-> data]
Static == [elf |-> TRUE, segments |-> <<Segment(0)>>, interp |-> <<>>]
Dynamic == [elf |-> TRUE, segments |-> <<Segment(1)>>,
            interp |-> <<[start |-> 0, end |-> 2, w |-> FALSE, data |-> 1]>>]
Script == [elf |-> FALSE, segments |-> <<>>, interp |-> <<>>]
SomeFile == CHOOSE f \in File : TRUE
MCImages == {Dynamic, Script}

MCMmap == {[hint |-> 0, len |-> 3, w |-> TRUE, file |-> NoFile, off |-> 0]}
MCFixed == {[addr |-> 18, len |-> 2, w |-> TRUE, file |-> SomeFile, off |-> PageSize, ok |-> TRUE],
            [addr |-> 18, len |-> 2, w |-> TRUE, file |-> SomeFile, off |-> PageSize, ok |-> FALSE]}
MCUnmap == {[addr |-> 12, len |-> 2], [addr |-> 12, len |-> 3]}

\* A state up to the names of its frames, which only their places tell apart,
\* and without the content of free ones, which alloc_frame zeroes; a state
\* in which nothing runs is like the one before.
Places(f) ==
    {<<"pt", m>> : m \in {m \in Mapped : FrameAt(m) = f}}
    \cup {<<"area", h>> : h \in UNION {{<<p, v>> : v \in {v \in DOMAIN AreaAt(p).pages :
                                    AreaAt(p).pages[v] = f}} : p \in AreaSet}}
    \cup {<<"cache", n>> : n \in UNION {{<<g, n>> : n \in {n \in DOMAIN cache[g] :
                                    cache[g][n] = f}} : g \in File}}
Visible ==
    IF ~Running THEN <<halted>> ELSE
    <<[s \in Space |->
         [areas |-> [k \in DOMAIN vm[s].areas |-> [vm[s].areas[k] EXCEPT !.pages = DOMAIN @]],
          pt |-> [v \in DOMAIN vm[s].pt |-> vm[s].pt[v].w], heap_end |-> vm[s].heap_end]],
      {<<Places(f), mem[f]>> : f \in {f \in Frame : Places(f) # {}}}, alive>>
SpaceSymmetry == Permutations(Space)
=============================================================================
