----------------------------- MODULE NameSpace ------------------------------
(***************************************************************************)
(* What the directories of the file system promise to a user: a tree of    *)
(* names, changed by one link at a time.  Directory implements it.         *)
(***************************************************************************)
CONSTANTS Inos, ROOT

VARIABLES
  links,  \* the entries of all directories but "." and "..": [dir, name, ino]
  at,     \* the current directory
  broken  \* a command was used in a way that the file system does not support

Linked(i) == i = ROOT \/ \E l \in links : l.ino = i

Init == links = {} /\ at = ROOT /\ broken = FALSE

\* A new entry for an inode that has none
Link ==
  \E l \in links' \ links :
    /\ ~Linked(l.ino)
    /\ links' = links \cup {l}
    /\ UNCHANGED at

\* An entry goes, but not that of the current directory or of one with entries
Unlink ==
  \E l \in links \ links' :
    /\ l.ino # at
    /\ \A m \in links : m.dir # l.ino
    /\ links' = links \ {l}
    /\ UNCHANGED at

Enter ==
  /\ at' \in Inos
  /\ UNCHANGED links

\* Power is lost: no entry changes, and the root is the current directory
Restart == at' = ROOT /\ UNCHANGED links

Format == links' = {} /\ UNCHANGED at

Next ==
  \/ /\ ~broken
     /\ Link \/ Unlink \/ Enter \/ Restart \/ Format
     /\ UNCHANGED broken
  \/ broken'

Spec == Init /\ [][Next]_<<links, at, broken>>
=============================================================================
