------------------------------- MODULE FirstFs -------------------------------
(***************************************************************************)
(* The file systems of Project_4/part2 and part3, before the process tree: *)
(* mounting makes a root, in part 3 also foo and foo/bar, and every        *)
(* allocation on the way may fail.  bar returns the same text to all.      *)
(***************************************************************************)
EXTENDS Integers, Sequences

CONSTANTS Openers,     \* open files on bar
          TextLen      \* length of the text of bar

ASSUME FirstFsAssumption == TextLen \in Nat \ {0}

VARIABLES sb,     \* the super block: how far the mount is, and its entries
          heap,   \* history: inodes and dentries that are allocated
          filp    \* per open file: offset, bytes read, end seen
ff_vars == <<sb, heap, filp>>

Closed == [open |-> FALSE, offset |-> 0, got |-> <<>>, eof |-> FALSE]

FfInit ==
  /\ sb = [at |-> "none", tree |-> {}]
  /\ heap = {}
  /\ filp = [f \in Openers |-> Closed]
-----------------------------------------------------------------------------
(* s2fs_make_inode and s2fs_get_inode: NULL when there is no memory. *)
s2fs_make_inode(name) == {{}, {<<"inode", name>>}}
s2fs_get_inode(name)  == s2fs_make_inode(name)

(* Mutant: no dput when the inode could not be made. *)
Mutdput(d, i) == d \union i

(* out_dput: what is left of a dentry d and an inode i. *)
dput(d, i) == IF i = {} THEN {} ELSE d \union i

(* d_alloc, then the inode; the entry is in the tree when both are there. *)
Create(name, next) ==
  \E d \in {{}, {<<"dentry", name>>}}, i \in s2fs_make_inode(name) :
    LET kept == IF d = {} THEN {} ELSE dput(d, i)
    IN  /\ heap' = heap \union kept
        /\ sb' = IF d = {} \/ i = {}
                 THEN [sb EXCEPT !.at = "mounted"]
                 ELSE [at |-> next, tree |-> sb.tree \union {name}]
        /\ UNCHANGED filp

s2fs_create_dir  == sb.at = "dir" /\ Create("foo", "file")
s2fs_create_file == sb.at = "file" /\ Create("bar", "mounted")

(* The root inode, then d_make_root, which releases it on failure. *)
FillRoot(inodes, next) ==
  /\ sb.at = "none"
  /\ \/ \E i \in inodes :
          /\ i # {}
          /\ heap' = heap \union i \union {<<"dentry", "root">>}
          /\ sb' = [at |-> next, tree |-> {"root"}]
     \/ \* no inode, or no dentry
        sb' = [sb EXCEPT !.at = "failed"] /\ UNCHANGED heap
  /\ UNCHANGED filp

s2fs_fill_super  == FillRoot(s2fs_make_inode("root"), "dir")
part2_fill_super == FillRoot(s2fs_get_inode("root"), "mounted")

(* kill_litter_super: after a mount that failed, or by umount when no file *)
(* is open; it drops what is in the tree.                                  *)
kill_litter_super ==
  /\ sb.at = "failed" \/ (sb.at = "mounted" /\ \A f \in Openers : ~filp[f].open)
  /\ heap' = {o \in heap : o[2] \notin sb.tree}
  /\ sb' = [at |-> "none", tree |-> {}]
  /\ UNCHANGED filp
-----------------------------------------------------------------------------
Opened(f) == filp[f].open /\ sb.at = "mounted"

s2fs_open(f) ==
  /\ sb.at = "mounted" /\ "bar" \in sb.tree /\ ~filp[f].open
  /\ filp' = [filp EXCEPT ![f] = [Closed EXCEPT !.open = TRUE]]
  /\ UNCHANGED <<sb, heap>>

(* Mutant: count is cut to the length of the text, not to what is left. *)
MutClip(count, offset) == IF count > TextLen THEN TextLen ELSE count

(* count, cut to what is left at the offset. *)
Clip(count, offset) ==
  IF count > TextLen - offset THEN TextLen - offset ELSE count

(* The bytes tmp + offset .. tmp + offset + count - 1, by their index. *)
Bytes(offset, count) == [k \in 1..count |-> offset + k]

(* A copy that faults leaves the offset alone. *)
s2fs_read_file(f) ==
  /\ Opened(f)
  /\ \E count \in 1..TextLen + 1 :
       LET o == filp[f].offset
           c == IF o > TextLen THEN 0 ELSE Clip(count, o)
       IN  filp' = [filp EXCEPT ![f].offset = @ + c,
                                ![f].got = @ \o Bytes(o, c),
                                ![f].eof = @ \/ c = 0]
  /\ UNCHANGED <<sb, heap>>

(* A write at offset 0 goes to the counter private_data points to, which   *)
(* part 3 never sets: the task dies, and its file is closed.  At another   *)
(* offset, or with TMPSIZE bytes, it is EINVAL.                            *)
s2fs_write_file(f) ==
  /\ Opened(f) /\ filp[f].offset = 0
  /\ filp' = [filp EXCEPT ![f] = Closed]
  /\ UNCHANGED <<sb, heap>>

s2fs_close(f) ==
  /\ filp[f].open
  /\ filp' = [filp EXCEPT ![f] = Closed]
  /\ UNCHANGED <<sb, heap>>

FfNext ==
  \/ s2fs_fill_super \/ part2_fill_super \/ s2fs_create_dir
  \/ s2fs_create_file \/ kill_litter_super
  \/ \E f \in Openers :
       s2fs_open(f) \/ s2fs_read_file(f) \/ s2fs_write_file(f) \/ s2fs_close(f)

FfSpec == FfInit /\ [][FfNext]_ff_vars
-----------------------------------------------------------------------------
(* Whichever allocation of a mount failed, no inode and no dentry is left  *)
(* once the file system is gone (the out_dput paths and kill_sb), and      *)
(* while it is there what is allocated is what the tree reaches.           *)
NothingLeft ==
  heap = {"inode", "dentry"} \X sb.tree

(* However the reads of two files are cut and interleaved, each gets the   *)
(* text from its start, byte for byte, and is told the end only after all  *)
(* of it (the arithmetic on offset and count).                             *)
ReadsText ==
  \A f \in Openers :
    /\ filp[f].got = Bytes(0, filp[f].offset)
    /\ filp[f].offset <= TextLen
    /\ filp[f].eof => filp[f].offset = TextLen
=============================================================================
