--------------------------------- MODULE Ex4 ---------------------------------
(***************************************************************************)
(* EX_4/ex4.c: insmod parses a comma-separated list of integers into a     *)
(* linked list, prints the list and frees it.                              *)
(***************************************************************************)
EXTENDS Selection

CONSTANTS Ints,       \* integers that may occur in int_str
          MaxTokens   \* bound on the tokens of int_str

ASSUME Ex4Assumption == "" \notin Ints /\ "x" \notin Ints /\ MaxTokens \in Nat

VARIABLES ex4   \* the module: where it is, its list, and what it did
ex4_vars == <<ex4>>

(* "" is an empty token (two commas), "x" one that is not an integer. *)
Tokens == Ints \union {"", "x"}

Ex4Unloaded == [at |-> "unloaded", int_str |-> <<>>, rest |-> <<>>,
                params |-> FALSE, mylist |-> <<>>, heap |-> 0, err |-> FALSE,
                printed |-> <<>>]

Ex4Init == ex4 = Ex4Unloaded

Numbers(tokens) == Selected(tokens, Ints)[Len(tokens)]

(* int_str may be missing; kstrdup may fail. *)
ex4_init ==
  /\ ex4.at = "unloaded"
  /\ \E n \in 0..MaxTokens : \E t \in [1..n -> Tokens] :
       LET s == [Ex4Unloaded EXCEPT !.int_str = t, !.rest = t]
       IN  \/ ex4' = [s EXCEPT !.at = "parse", !.params = TRUE]
           \/ ex4' = [s EXCEPT !.at = "out", !.err = TRUE]

(* store_value has no return statement: whatever it leaves in err is taken *)
(* for its answer.  Without memory it writes through NULL.                 *)
store_value(val) ==
  \/ \E garbage \in BOOLEAN :
       ex4' = [ex4 EXCEPT !.rest = Tail(@), !.mylist = Append(@, val),
                          !.heap = @ + 1, !.err = garbage]
  \/ ex4' = [ex4 EXCEPT !.at = "oops"]

(* Mutant: an error returns without the clean-up at out. *)
Mutparse_params ==
  /\ ex4.at = "parse"
  /\ IF ex4.err \/ ex4.rest = <<>>
     THEN ex4' = [ex4 EXCEPT !.at = IF ex4.err THEN "returned" ELSE "run_tests",
                             !.params = FALSE]
     ELSE IF Head(ex4.rest) \in Ints
          THEN store_value(Head(ex4.rest))
          ELSE ex4' = [ex4 EXCEPT !.rest = Tail(@), !.err = Head(ex4.rest) = "x"]

(* One token: an empty one is passed over, a bad one ends the loop. *)
parse_params ==
  /\ ex4.at = "parse"
  /\ IF ex4.err \/ ex4.rest = <<>>
     THEN ex4' = [ex4 EXCEPT !.at = IF ex4.err THEN "out" ELSE "run_tests",
                             !.params = FALSE]
     ELSE CASE Head(ex4.rest) = ""  -> ex4' = [ex4 EXCEPT !.rest = Tail(@)]
            [] Head(ex4.rest) = "x" -> ex4' = [ex4 EXCEPT !.rest = Tail(@), !.err = TRUE]
            [] OTHER                -> store_value(Head(ex4.rest))

test_linked_list ==
  /\ ex4.at = "run_tests"
  /\ ex4' = [ex4 EXCEPT !.at = "out", !.printed = ex4.mylist]

(* One entry: list_del, kfree(data), and kfree(pos), which points into the *)
(* entry that was just freed: the allocator may survive that or stop.      *)
destroy_linked_list_and_free ==
  /\ ex4.at = "out"
  /\ IF ex4.mylist = <<>>
     THEN ex4' = [ex4 EXCEPT !.at = "returned"]
     ELSE \/ ex4' = [ex4 EXCEPT !.mylist = Tail(@), !.heap = @ - 1]
          \/ ex4' = [ex4 EXCEPT !.at = "oops"]

(* rmmod, or insmod again after it failed; ex4_exit does nothing. *)
ex4_exit ==
  /\ ex4.at = "returned"
  /\ ex4' = Ex4Unloaded

Ex4Next ==
  \/ ex4_init \/ parse_params \/ test_linked_list
  \/ destroy_linked_list_and_free \/ ex4_exit
Ex4Spec == Ex4Init /\ [][Ex4Next]_ex4_vars
-----------------------------------------------------------------------------
(* When insmod returns, whatever it met and whatever store_value seemed to *)
(* return, nothing it allocated is left; and if it returns 0 it printed    *)
(* all integers of int_str in their order.                                 *)
InsmodAccounts ==
  ex4.at = "returned" =>
    /\ ex4.mylist = <<>> /\ ex4.heap = 0 /\ ~ex4.params
    /\ ~ex4.err => ex4.printed = Numbers(ex4.int_str)
=============================================================================
