----------------------------- MODULE FolderTree ------------------------------
(***************************************************************************)
(* What the room folders promise, whoever changes them: a forest of no     *)
(* more than MaxDepth levels, in which every channel is in a folder that   *)
(* exists or in none.  A folder is added as a leaf; folders and channels   *)
(* are rearranged without any of them being lost; a folder is deleted      *)
(* together with all that is beneath it, its channels becoming unfiled.    *)
(***************************************************************************)
EXTENDS Naturals

CONSTANTS Folders, Rooms, MaxDepth, None

VARIABLES folders, parent, filed

Ranks == [Folders -> 0 .. MaxDepth - 1]

\* Every folder can be given a level above that of its parent.
Forest ==
    \E rank \in Ranks :
       \A f \in folders :
          parent[f] # None => parent[f] \in folders /\ rank[parent[f]] < rank[f]

Placed == \A r \in Rooms : filed[r] \in folders \cup {None}

\* S holds f and what is in it, however deep, and nothing else.
IsSubtree(S, f) ==
    /\ f \in S
    /\ \A g \in folders : g \in S <=> g = f \/ parent[g] \in S

Init ==
    /\ folders \in SUBSET Folders
    /\ parent \in [Folders -> folders \cup {None}]
    /\ \A f \in Folders \ folders : parent[f] = None
    /\ filed \in [Rooms -> folders \cup {None}]
    /\ Forest

Add ==
    \E f \in Folders \ folders :
       /\ folders' = folders \cup {f}
       /\ \A g \in folders : parent'[g] = parent[g]
       /\ Forest'
       /\ filed' = filed

Rearrange ==
    /\ folders' = folders
    /\ Forest' /\ Placed'

Delete ==
    \E f \in folders, S \in SUBSET folders :
       /\ IsSubtree(S, f)
       /\ folders' = folders \ S
       /\ \A g \in folders' : parent'[g] = parent[g]
       /\ \A r \in Rooms : filed'[r] = IF filed[r] \in S THEN None ELSE filed[r]

Next == Add \/ Rearrange \/ Delete

Spec == Init /\ [][Next]_<<folders, parent, filed>>
=============================================================================
