----------------------------- MODULE TagCatalog -----------------------------
(***************************************************************************)
(* What the image store promises about its tags, whatever requests overlap *)
(* and wherever the daemon dies: every tag names at most one image, naming *)
(* is atomic, an image only ever withdraws the tags it still holds, and    *)
(* the index found at the next start is one that was once in memory, less  *)
(* the tags an offline repair found dangling.                              *)
(***************************************************************************)
CONSTANTS Images, Tags, NoImage

VARIABLES
    catalog,   \* tag -> the image it names, for the running daemon
    saved      \* the index a restart would read

Init == /\ catalog \in [Tags -> Images \cup {NoImage}]
        /\ saved = catalog

(* A pull, a load or a tag request names its image by all of T at once.    *)
Assign(i, T) ==
    /\ catalog' = [t \in Tags |-> IF t \in T THEN i ELSE catalog[t]]
    /\ UNCHANGED saved

(* A removal gives up the tags of T that still name its image.             *)
Withdraw(i, T) ==
    /\ catalog' = [t \in Tags |-> IF t \in T /\ catalog[t] = i THEN NoImage
                                  ELSE catalog[t]]
    /\ UNCHANGED saved

Save == /\ saved' = catalog
        /\ UNCHANGED catalog

Restart == /\ catalog' = saved
           /\ UNCHANGED saved

(* An offline repair drops entries, and renames none.                      *)
Repair(T) == /\ saved' = [t \in Tags |-> IF t \in T THEN NoImage ELSE saved[t]]
             /\ catalog' = saved'

Next == \/ \E i \in Images, T \in SUBSET Tags : Assign(i, T) \/ Withdraw(i, T)
        \/ \E T \in SUBSET Tags : Repair(T)
        \/ Save \/ Restart

Spec == Init /\ [][Next]_<<catalog, saved>>

====
