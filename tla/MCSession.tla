----------------------------- MODULE MCSession ------------------------------
(* Small instances of Session for TLC.                                     *)
EXTENDS Session

MCNames == {"a", "b"}

(* One file of a full chunk and a last one, one of a single byte.          *)
MCLocal == [n \in MCNames |-> IF n = "a" THEN <<1, 2, 3>> ELSE <<4>>]

MCFolders ==
    {[n \in MCNames |-> Absent],
     [n \in MCNames |-> IF n = "a" THEN <<5, 6, 7>> ELSE Absent],
     [n \in MCNames |-> IF n = "a" THEN <<>> ELSE <<8, 9>>]}

(* A file that is exactly one chunk, and an empty one, which is refused.   *)
MCEdgeLocal == [n \in MCNames |-> IF n = "a" THEN <<1, 2>> ELSE <<>>]

MCEdgeFolders ==
    {[n \in MCNames |-> Absent],
     [n \in MCNames |-> IF n = "a" THEN Absent ELSE <<5, 6>>],
     [n \in MCNames |-> IF n = "a" THEN <<5, 6, 7, 8>> ELSE <<>>]}

(* Folders for the claims that the code does not keep.                     *)
MCOneFile == {[n \in MCNames |-> IF n = "a" THEN <<5, 6, 7>> ELSE Absent]}
=============================================================================
