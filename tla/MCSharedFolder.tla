--------------------------- MODULE MCSharedFolder ---------------------------
(* Small instances of SharedFolder for TLC.                                *)
EXTENDS SharedFolder, TLC

CONSTANTS home, office, a, b, c, p, q, r

MCSessions == {home, office}
MCNames == {a, b, c}
MCChunks == {p, q, r}

(* One file has two chunks, one has one, and one has none.                 *)
MCLocal ==
    (home :> (a :> <<p, q>> @@ b :> <<p, q>> @@ c :> <<>>)) @@
    (office :> (a :> <<r>> @@ b :> <<r>> @@ c :> <<>>))

(* The folder is empty, or has one file.                                   *)
MCInitialDirs == {n :> i @@ [m \in MCNames |-> Absent] : n \in {b}, i \in {1, Absent}}
MCInitialData == [i \in 1..5 |-> IF i = 1 THEN <<r, p>> ELSE <<>>]

(* Each session has names of its own; or one is shared.                    *)
MCSharings ==
    {(home :> {a, b} @@ office :> {c}),
     (home :> {a, b} @@ office :> {b})}
=============================================================================
