------------------------- MODULE MCProjectIdentity -------------------------
(* Instances of ProjectIdentity for TLC.                                   *)
EXTENDS ProjectIdentity, TLC

CONSTANTS here, there, app, r1, r2

\* Both directories end in the same name.
SameName == [path \in Paths |-> app]
Apart == r1 :> here @@ r2 :> there
Library == {[label |-> "lib", digest |-> NoPath]}
=============================================================================
