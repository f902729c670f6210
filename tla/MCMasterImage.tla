--------------------------- MODULE MCMasterImage ---------------------------
(* Two runs for images of one name: the first one cleans up, the second    *)
(* one is forced and does not.  Another user has an image of that name.    *)
EXTENDS MasterImage

CONSTANTS r1, r2

OneName  == [r \in Runs |-> "name"]
AllNames == {"name"}
=============================================================================
