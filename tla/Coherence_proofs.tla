-------------------------- MODULE Coherence_proofs --------------------------
(* What the abstract protocol guarantees, for every set of pages.          *)
EXTENDS Coherence, TLAPS

StateOK == st \in [Machines -> [Pages -> {"M", "S", "I"}]]

\* Under the promise that a read miss and a write take effect on both machines
\* at once, no page is ever modified on one machine and valid on the other,
\* nor shared on one and invalid on the other.
THEOREM SingleWriterHolds == Spec => []SingleWriter
<1> DEFINE Inv == StateOK /\ SingleWriter
<1>1. Init => Inv
  BY DEF Init, StateOK, SingleWriter, Pairs, Machines
<1>2. Inv /\ [Next]_st => Inv'
  <2> SUFFICES ASSUME Inv, [Next]_st PROVE Inv'
    OBVIOUS
  <2>1. ASSUME NEW p \in Machines, NEW k \in Pages, ReadMiss(p, k)
        PROVE  Inv'
    <3>1. StateOK'
      BY <2>1 DEF ReadMiss, StateOK
    <3>2. \A j \in Pages : IF j = k THEN st'[1][j] = "S" /\ st'[2][j] = "S"
                                    ELSE st'[1][j] = st[1][j] /\ st'[2][j] = st[2][j]
      BY <2>1 DEF ReadMiss, StateOK, Machines
    <3>3. SingleWriter'
      BY <3>2 DEF SingleWriter, Pairs
    <3> QED
      BY <3>1, <3>3
  <2>2. ASSUME NEW p \in Machines, NEW k \in Pages, Write(p, k)
        PROVE  Inv'
    <3>1. StateOK'
      BY <2>2 DEF Write, StateOK
    <3>2. \A j \in Pages :
            IF j = k THEN /\ st'[1][j] = IF p = 1 THEN "M" ELSE "I"
                          /\ st'[2][j] = IF p = 2 THEN "M" ELSE "I"
                     ELSE st'[1][j] = st[1][j] /\ st'[2][j] = st[2][j]
      BY <2>2 DEF Write, StateOK, Machines
    <3>3. p = 1 \/ p = 2
      BY DEF Machines
    <3>4. SingleWriter'
      BY <3>2, <3>3 DEF SingleWriter, Pairs
    <3> QED
      BY <3>1, <3>4
  <2>3. CASE UNCHANGED st
    BY <2>3 DEF StateOK, SingleWriter
  <2> QED
    BY <2>1, <2>2, <2>3 DEF Next
<1> QED
  BY <1>1, <1>2, PTL DEF Spec
=============================================================================
