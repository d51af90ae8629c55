------------------------------- MODULE MCAddressSpace -------------------------------
(* Heap page 1, code page 2 and stack page 3 under two tables, and two pages from   *)
(* MMAP_BASE on.                                                                    *)
EXTENDS AddressSpace

MCTable == [v \in {1, 2, 3, 8, 9} |-> IF v <= 2 THEN 1 ELSE IF v = 3 THEN 2 ELSE 3]
MCImage == << [page |-> 2, prot |-> "rx", stack |-> FALSE],
              [page |-> 3, prot |-> "rw", stack |-> TRUE] >>
MCAreas == { [start |-> 2, end |-> 3, flags |-> {"r", "x"}],
             [start |-> 3, end |-> 4, flags |-> {"r", "w"}] }
MCFlags == {{"r", "w"}}
====================================================================================
