------------------------------ MODULE MCPaging ------------------------------
(* A machine of 16 pages: the memory map has each kind of descriptor the code *)
(* tells apart, with data between conventional memory and code.               *)
EXTENDS Paging

Map == <<[type |-> "BootServicesData", start |-> 0, pages |-> 1],
         [type |-> "Conventional", start |-> 1, pages |-> 9],
         [type |-> "LoaderData", start |-> 10, pages |-> 1],
         [type |-> "LoaderCode", start |-> 11, pages |-> 1],
         [type |-> "BootServicesCode", start |-> 12, pages |-> 4]>>

\* Conventional memory in two parts, the second one the first to be used for tables.
MapInParts == <<[type |-> "BootServicesData", start |-> 0, pages |-> 1],
                [type |-> "Conventional", start |-> 1, pages |-> 6],
                [type |-> "LoaderData", start |-> 7, pages |-> 1],
                [type |-> "Conventional", start |-> 8, pages |-> 2],
                [type |-> "LoaderData", start |-> 10, pages |-> 1],
                [type |-> "LoaderCode", start |-> 11, pages |-> 1],
                [type |-> "BootServicesCode", start |-> 12, pages |-> 4]>>

Buffer == [base |-> 64, size |-> 8]

\* 4 GB and 8 GB lie above the memory of a small machine, on one pml4 entry.
HighBase == [init |-> 256, heap |-> 384]

\* On a machine with enough memory they do not.
LowBase == [init |-> 5, heap |-> 384]

Zeroed == Word(NULL, {})

\* A word that looks like a present entry.
LooksPresent == Word(NULL, {"P"})

\* The machine whose memory ends below the regions meets the proofs' hypothesis.
ASSUME ApartAssumption == RegionBase = HighBase => Apart
=============================================================================
