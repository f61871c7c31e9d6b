----------------------------- MODULE T2fsFileMC -----------------------------
(***************************************************************************)
(* Small instances of T2fsFile.  The bytes written are interchangeable,    *)
(* and so are the files.                                                   *)
(***************************************************************************)
EXTENDS T2fsFile, TLC

(***************************************************************************)
(* The view under which TLC tells states apart.  No call reads the blocks  *)
(* that are free, the i-node of a file that does not exist, or the entry   *)
(* of _opened_file_ of a file that is not open, before it sets them.       *)
(***************************************************************************)
LiveView ==
    LET exists == {f \in File : disk.rec[f].exists}
        busy   == {f \in File : file[f].busy}
    IN  <<disk.bmap, [b \in bits(disk.bmap) |-> disk.blk[b]],
          [f \in exists |-> <<disk.inode[f], disk.rec[f], wrote[f], f \in torn>>],
          [f \in busy |-> file[f]]>>

Symmetry == Permutations(File) \cup Permutations(Value)
=============================================================================
