------------------------------ MODULE Coherence ------------------------------
(***************************************************************************)
(* What the MSI states of the two machines promise about one page: a read  *)
(* miss leaves both copies shared, a write leaves one copy modified and    *)
(* the other invalid, and each of the two happens at once.                 *)
(***************************************************************************)
CONSTANT Pages

Machines == {1, 2}

VARIABLE st     \* st[p][k]: the state of page k on machine p

Init == st = [p \in Machines |-> [k \in Pages |-> "I"]]

\* A read of an invalid page.  The other copy is modified, or nobody has one.
ReadMiss(p, k) ==
    /\ st[p][k] = "I"
    /\ st' = [q \in Machines |-> [st[q] EXCEPT ![k] = "S"]]

\* A write, from any state.
Write(p, k) ==
    st' = [q \in Machines |-> [st[q] EXCEPT ![k] = IF q = p THEN "M" ELSE "I"]]

Next == \E p \in Machines, k \in Pages : ReadMiss(p, k) \/ Write(p, k)

Spec == Init /\ [][Next]_st

\* The pairs of states a page may be in: never a modified copy beside a valid
\* one, never a shared copy beside an invalid one.
Pairs == {<<"I", "I">>, <<"S", "S">>, <<"M", "I">>, <<"I", "M">>}
SingleWriter == \A k \in Pages : <<st[1][k], st[2][k]>> \in Pairs
=============================================================================
