--------------------------- MODULE MCAddressSpace ---------------------------
(* Instance of AddressSpace for TLC.                                       *)
EXTENDS AddressSpace, TLC

CONSTANTS s1, s2

\* The first space is shared by two threads and changed twice; the second has
\* one thread and takes the frame the first gives up.
Tasks == (s1 :> 2) @@ (s2 :> 1)
Epochs == (s1 :> 2) @@ (s2 :> 1)
=============================================================================
