--------------------------- MODULE MCListenerStore ---------------------------
(* ListenerStore with three rows, two ports, one of which is given out        *)
(* automatically, and drafts whose addresses meet in every way.               *)
EXTENDS ListenerStore, TLC

CONSTANTS n, m, ip1, ip2

MCAuto == {12}
MCSpecs == {<<>>, << <<11, 11>> >>, << <<12, 12>> >>, << <<11, 12>> >>, << <<12, 11>> >>}
MCDrafts ==
    {Draft(name, ports, address[1], address[2], TRUE) :
        name \in {n, m}, ports \in {<< <<11, 11>> >>},
        address \in {<<ip1, Wild6>>, <<NoAddress, ip2>>, <<NoAddress, Wild6>>}}

Symmetry == Permutations({n, m})
=============================================================================
