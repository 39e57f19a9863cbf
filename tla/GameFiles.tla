------------------------------- MODULE GameFiles -------------------------------
(***************************************************************************)
(* What the store lifecycle of pack/install.rs and jobs/packs.rs promises: *)
(* the installed game is a set of files that only the game itself (or its  *)
(* launcher) changes.  Moving the folder aside, mounting, compacting,      *)
(* reclaiming, restoring, a crash and a recovery change nothing.           *)
(***************************************************************************)
EXTENDS Naturals

CONSTANTS
    Files,     \* paths inside the game folder
    Versions   \* what a present file may hold; 0 stands for an absent file

VARIABLES
    content,   \* the game's files
    writes     \* writes the game has made

\* The game writes, creates or removes one file.
Write == \E f \in Files, v \in Versions \cup {0} :
             /\ content[f] # v
             /\ content' = [content EXCEPT ![f] = v]
             /\ writes' = writes + 1

Init == content \in [Files -> Versions \cup {0}] /\ writes = 0
Next == Write
Spec == Init /\ [][Next]_<<content, writes>>

================================================================================
