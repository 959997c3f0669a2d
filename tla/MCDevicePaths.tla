--------------------------- MODULE MCDevicePaths ---------------------------
(***************************************************************************)
(* Nodes of two lengths, one a multiple of the alignment, in paths with    *)
(* one to three instances of which some are empty.                         *)
(***************************************************************************)
EXTENDS DevicePaths

Lengths == [pci |-> 8, file |-> 11]

ComposedPaths ==
    {Append(s, "end") : s \in BoundedSeq({"pci", "file", "instance"}, 2)
        \cup {<<"pci", "instance", "pci">>, <<"file", "instance", "pci">>,
              <<"pci", "file", "pci">>}}

TwoInstances == {<<"pci", "instance", "pci", "end">>, <<"file", "end">>}
=============================================================================
