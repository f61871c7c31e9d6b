----------------------------- MODULE T2fsTreeMC -----------------------------
(***************************************************************************)
(* T2fsTree implements FileTree: the names are the records other than "."  *)
(* and ".." of the allocated i-nodes that have blocks (in T2fsTree only    *)
(* directories do), and the open files are the i-nodes of the busy entries *)
(* of _opened_file_.                                                       *)
(***************************************************************************)
EXTENDS T2fsTree

treeBar ==
    UNION {{LET r == record_at(disk, d, p)
            IN  [dir |-> d, name |-> r.name, type |-> r.type, node |-> r.inode] :
                p \in Entries(d)} : d \in {i \in disk.imap : disk.ptr[i] # <<>>}}

openBar == {files[h].inode : h \in {k \in File : files[k].busy}}

Tree == INSTANCE FileTree WITH
    Node <- Inode, Root <- root, tree <- treeBar, open <- openBar, here <- cwd

\* Every call of T2FS does to the names, the open files and the current
\* directory what FileTree says, and nothing else: no call touches a name
\* other than its own, whatever it does to blocks, records and tables.
ImplementsFileTree == Tree!Spec

(***************************************************************************)
(* The view under which TLC tells states apart.  No call reads the         *)
(* pointers of a free i-node before inode_init overwrites them, the        *)
(* records of a free block before append_record does, or an entry of       *)
(* _opened_dir_ that is not busy, so states that differ in those only have *)
(* the same futures.  Entries of _opened_file_ that are not busy are told  *)
(* apart: open2 does compare their i-nodes.                                *)
(***************************************************************************)
LiveView ==
    <<[disk EXCEPT
          !.ptr = [i \in Inode |-> IF i \in disk.imap THEN @[i] ELSE <<>>],
          !.idx = [i \in Inode |-> IF i \in disk.imap THEN @[i] ELSE NULL_BLOCK],
          !.rec = [b \in Block |-> IF b \in disk.bmap THEN @[b] ELSE <<>>]],
      files, [h \in Dir |-> IF dirs[h].busy THEN dirs[h] ELSE <<>>], cwd, cwd_string>>
=============================================================================
