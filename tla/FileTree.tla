------------------------------ MODULE FileTree ------------------------------
(***************************************************************************)
(* What T2FS promises: a tree of named files and directories below a root, *)
(* the set of files a program has open, and its current directory.  No     *)
(* blocks, records, tables or positions.                                   *)
(***************************************************************************)
CONSTANTS Node, Root, Name

VARIABLES
    tree,   \* the names: each says which node is called what in which directory
    open,   \* the nodes of the files that are open
    here    \* the node of the current directory

Entry == [dir : Node, name : Name, type : {"file", "dir"}, node : Node]

Nodes       == {Root} \cup {e.node : e \in tree}
Folders     == {Root} \cup {e.node : e \in {f \in tree : f.type = "dir"}}
Within(d)   == {e \in tree : e.dir = d}
Called(d, n) == {e \in Within(d) : e.name = n}

Init == tree = {} /\ open = {} /\ here = Root

Make(d, n, type) ==
    /\ d \in Folders
    /\ Called(d, n) = {}
    /\ \E x \in Node \ Nodes :
          /\ tree' = tree \cup {[dir |-> d, name |-> n, type |-> type, node |-> x]}
          /\ open' = IF type = "file" THEN open \cup {x} ELSE open
    /\ UNCHANGED here

\* A file is closed when it is removed.
RemoveFile(e) ==
    /\ e.type = "file"
    /\ tree' = tree \ {e}
    /\ open' = open \ {e.node}
    /\ UNCHANGED here

RemoveFolder(e) ==
    /\ e.type = "dir"
    /\ Within(e.node) = {}
    /\ tree' = tree \ {e}
    /\ UNCHANGED <<open, here>>

Open(e) == open' = open \cup {e.node} /\ e.type = "file" /\ UNCHANGED <<here, tree>>

Close(x) == open' = open \ {x} /\ UNCHANGED <<here, tree>>

Go(d) == here' = d /\ UNCHANGED <<open, tree>> /\ d \in Folders

\* Names outlive the program, open files and the current directory do not.
Restart == open' = {} /\ here' = Root /\ UNCHANGED tree

Next ==
    \/ Restart
    \/ \E d \in Node : Go(d)
    \/ \E x \in open : Close(x)
    \/ \E e \in tree : Open(e) \/ RemoveFile(e) \/ RemoveFolder(e)
    \/ \E d \in Node, n \in Name, type \in {"file", "dir"} : Make(d, n, type)

Spec == Init /\ [][Next]_<<tree, open, here>>
=============================================================================
