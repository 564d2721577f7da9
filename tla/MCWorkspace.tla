----------------------------- MODULE MCWorkspace -----------------------------
\* Small instances of Workspace: two folders with the same directory name.
EXTENDS Workspace, TLC

CONSTANTS app, app_here, app_there, c1, p, q

EveryCommand ==
    [op : Operation, name : Name \cup {NoName}, folder : Folder]

SameDirectoryName == [f \in Folder |-> app]

\* Neither the folders nor the terminals are told apart.
Symmetry == Permutations({app_here, app_there}) \cup Permutations({p, q})

\* What a command held when it ended is never read again: states that differ in
\* nothing else are one.
View ==
    <<box, image, created, disk, ssh, history, pc,
      [r \in Process |->
          IF pc[r] \in Ended THEN <<>>
          ELSE <<cmd[r], target[r], existing[r], config[r], kept[r]>>]>>
=============================================================================
