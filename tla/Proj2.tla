-------------------------------- MODULE Proj2 --------------------------------
(***************************************************************************)
(* Project_2/submission_new/proj2.c: a read of /proc/proj2 parses int_str  *)
(* into a list, a hash table, a red-black tree and a radix tree, which are *)
(* global, prints the four and empties them again.  seq_read calls the     *)
(* function once more, with a larger buffer, when its text did not fit.    *)
(* Reads do not overlap here: the module has no lock.                      *)
(***************************************************************************)
EXTENDS Integers, FiniteSets, Selection

CONSTANTS Vals,        \* integers that may occur in int_str
          NoTok, BadTok,  \* an empty token, and one that is not an integer
          P2MaxTokens, \* bound on the tokens of int_str
          Wrap,        \* 2^64 in the code: the radix tree's keys are unsigned
          HashSize     \* buckets: 8 in the code

ASSUME Proj2Assumption ==
  /\ Vals \subseteq Int /\ NoTok \notin Vals /\ BadTok \notin Vals /\ NoTok # BadTok
  /\ P2MaxTokens \in Nat /\ Wrap \in Nat \ {0} /\ HashSize \in Nat \ {0}
  \* int has 32 bits and unsigned long 64
  /\ \A v, w \in Vals : -Wrap < v /\ v < Wrap /\ v - w < Wrap

VARIABLES int_str,   \* the parameter of the module
          shared,    \* the four structures
          rd         \* the read: where it is, its text and its buffer
p2_vars == <<int_str, shared, rd>>

Buckets == 0..HashSize - 1

(* The structures as a reader finds them: mylist in order, a bucket with   *)
(* the newest entry first, root by value, radix_tree by unsigned key.      *)
Nothing == [mylist |-> <<>>, myHTable |-> [b \in Buckets |-> <<>>],
            root |-> {}, radix_tree |-> {}]

RdIdle == [at |-> "user", rest |-> <<>>, err |-> FALSE, text |-> <<>>, small |-> FALSE]

P2Init ==
  /\ int_str = <<>>
  /\ shared = Nothing
  /\ rd = [RdIdle EXCEPT !.at = "unloaded"]

(* insmod int_str=...; rmmod waits for the readers. *)
prj2_init ==
  /\ rd.at = "unloaded"
  /\ int_str' \in UNION {[1..n -> Vals \union {NoTok, BadTok}] : n \in 0..P2MaxTokens}
  /\ rd' = RdIdle
  /\ UNCHANGED shared

(* insmod without it: int_str stays NULL. *)
P2NoParam ==
  /\ rd.at = "unloaded"
  /\ rd' = [RdIdle EXCEPT !.at = "null"]
  /\ UNCHANGED <<int_str, shared>>

prj2_exit ==
  /\ rd.at \in {"user", "null"}
  /\ rd' = [RdIdle EXCEPT !.at = "unloaded"]
  /\ int_str' = <<>>
  /\ UNCHANGED shared
-----------------------------------------------------------------------------
(* hash_add's bucket; any function of the value will do. *)
hash_min(v) == v % HashSize

p2_store_value(v, s) == [s EXCEPT !.mylist = Append(@, v)]
store_hash_value(v, s) == [s EXCEPT !.myHTable[hash_min(v)] = <<v>> \o @]

(* A value that is in the tree is refused; the callers do not notice. *)
rb_tree_insert(v, s) == [s EXCEPT !.root = @ \union {v}]
radix_insert(v, s) == [s EXCEPT !.radix_tree = @ \union {v % Wrap}]

StoreInAll(v) == radix_insert(v, rb_tree_insert(v, store_hash_value(v, p2_store_value(v, shared))))

(* open and read: without int_str the read is refused; the text may not    *)
(* fit the first time.  An entry that is allocated for temp2 is lost.      *)
proj2_proc_show ==
  /\ \/ /\ rd.at = "user"
        /\ \E small \in BOOLEAN :
             rd' = [RdIdle EXCEPT !.at = "parse", !.rest = int_str, !.small = small]
     \/ rd.at = "null" /\ rd' = [RdIdle EXCEPT !.at = "refused"]
  /\ UNCHANGED <<int_str, shared>>

(* One token, or the end of the loop.  Without memory kstrdup is an error; *)
(* a store would write through NULL.                                       *)
P2ParseParams ==
  /\ rd.at = "parse"
  /\ \/ rd.rest = int_str /\ rd' = [rd EXCEPT !.at = "out", !.err = TRUE] /\ UNCHANGED shared
     \/ rd.rest = <<>> /\ rd' = [rd EXCEPT !.at = "print"] /\ UNCHANGED shared
     \/ /\ rd.rest # <<>>
        /\ LET p == Head(rd.rest)
           IN  CASE p = NoTok  -> rd' = [rd EXCEPT !.rest = Tail(@)] /\ UNCHANGED shared
                 [] p = BadTok -> rd' = [rd EXCEPT !.at = "out", !.err = TRUE] /\ UNCHANGED shared
                 [] OTHER -> \/ /\ rd' = [rd EXCEPT !.rest = Tail(@)]
                                /\ shared' = StoreInAll(p)
                             \/ rd' = [rd EXCEPT !.at = "oops"] /\ UNCHANGED shared
  /\ UNCHANGED int_str

(* The members of a set of integers, the smallest first. *)
Ascending(S) ==
  CHOOSE q \in [1..Cardinality(S) -> S] :
    \A i, j \in 1..Cardinality(S) : i < j => q[i] < q[j]

(* The value a radix tree entry holds, from its key. *)
ValOf(key) == CHOOSE v \in Vals : v % Wrap = key

(* The hash table is printed bucket by bucket. *)
HashRow(t) ==
  LET row[n \in 0..HashSize] == IF n = 0 THEN <<>> ELSE row[n - 1] \o t[n - 1]
  IN  row[HashSize]

Rows(s) ==
  <<s.mylist, HashRow(s.myHTable), Ascending(s.root),
    [i \in 1..Cardinality(s.radix_tree) |-> ValOf(Ascending(s.radix_tree)[i])]>>

(* A key the iterator of the radix tree is at is found, as nobody else     *)
(* changes the tree: the return without a clean-up is not taken.           *)
PrintRows ==
  /\ rd.at = "print"
  /\ rd' = [rd EXCEPT !.at = "out", !.text = Rows(shared)]
  /\ UNCHANGED <<int_str, shared>>

(* Mutant: the hash table is left as it is. *)
MutP2Cleanup ==
  /\ rd.at = "out"
  /\ shared' = [Nothing EXCEPT !.myHTable = shared.myHTable]
  /\ rd' = [rd EXCEPT !.at = "done"]
  /\ UNCHANGED int_str

(* The list, the table and the trees are emptied.  rb_tree_remove steps on *)
(* from a node it has erased and freed: as long as nobody reuses the       *)
(* memory that leads to the next node, and else anywhere.  The entries of  *)
(* the radix tree, and values the trees refused, are never freed.          *)
P2Cleanup ==
  /\ rd.at = "out"
  /\ \/ shared' = Nothing /\ rd' = [rd EXCEPT !.at = "done"]
     \/ shared.root # {} /\ rd' = [rd EXCEPT !.at = "oops"] /\ UNCHANGED shared
  /\ UNCHANGED int_str

(* seq_read: the text overflowed and is made again, or it goes to the user. *)
seq_read ==
  /\ rd.at = "done"
  /\ rd' = IF rd.small /\ ~rd.err
           THEN [RdIdle EXCEPT !.at = "parse", !.rest = int_str]
           ELSE [rd EXCEPT !.at = "read"]
  /\ UNCHANGED <<int_str, shared>>

single_release ==
  /\ rd.at \in {"read", "refused"}
  /\ rd' = IF rd.at = "read" THEN RdIdle ELSE [RdIdle EXCEPT !.at = "null"]
  /\ UNCHANGED <<int_str, shared>>

P2Next ==
  \/ prj2_init \/ P2NoParam \/ prj2_exit \/ proj2_proc_show \/ P2ParseParams
  \/ PrintRows \/ P2Cleanup \/ seq_read \/ single_release
P2Spec == P2Init /\ [][P2Next]_p2_vars
-----------------------------------------------------------------------------
Given == Selected(int_str, Vals)[Len(int_str)]
GivenSet == {Given[i] : i \in DOMAIN Given}

(* Every read, also one that was made twice or that follows one that       *)
(* failed, returns int_str as it is: the list in the order given, the      *)
(* table with every value as often as given, the trees without duplicates, *)
(* one by value and the other with the negative values at the end.         *)
ShowsInput ==
  rd.at = "read" /\ ~rd.err =>
    /\ rd.text[1] = Given
    /\ \A v \in Vals : Cardinality({i \in DOMAIN rd.text[2] : rd.text[2][i] = v})
                       = Cardinality({i \in DOMAIN Given : Given[i] = v})
    /\ rd.text[3] = Ascending(GivenSet)
    /\ rd.text[4] = Ascending({v \in GivenSet : v >= 0}) \o Ascending({v \in GivenSet : v < 0})
=============================================================================
